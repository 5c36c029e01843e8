--------------------------- MODULE MCRootAnalysis ---------------------------
(* Small instances of RootAnalysis.                                        *)
EXTENDS RootAnalysis

CONSTANTS r1, r2, h1, u, v, uv, store, STORE, V, a, app

-----------------------------------------------------------------------------
(* Settings.  Texts are strings; "One" stands for the numeral 1, and so on.*)
Keep == [StorageFormat |-> Unset, Mode |-> Unset, BasePath |-> Unset]

Flat(mode, base) == [section |-> Keep, flat |-> [Keep EXCEPT !.Mode = mode, !.BasePath = base]]

Format(format) == [section |-> [Keep EXCEPT !.StorageFormat = format], flat |-> Keep]

MCNumerals == [One |-> 1, Two |-> 2, Seven |-> 7]

MCBase == [rooted |-> FALSE, names |-> <<store>>]

(* All of these mean AppData and Json, and none is rejected.               *)
DefaultsInDisguise ==
    {Format(Unset), Format("Seven"), Format("xml"), Flat("Seven", Blank)}

(* These mean PerRoot, in the default base path.                           *)
PerRoot ==
    {Flat("PerRoot", Unset),
     [section |-> [Keep EXCEPT !.Mode = "AppData"],
      flat |-> [Keep EXCEPT !.Mode = "Two"]]}

AllFormats == {Format(f) : f \in {"Json", "MessagePack", "Seven", "xml", "Two"}}

OneModeEach == {DefaultsInDisguise, PerRoot}
OnlyDefaults == {DefaultsInDisguise}
EveryFormat == {AllFormats}

-----------------------------------------------------------------------------
MCAppData == <<app>>

SelfNamed == [p \in FullPaths |-> p]

(* "/u/v" and "/u_v" have the same safe name.                              *)
OneSafeName == [p \in FullPaths |-> "_u_v"]

MCFolded == [n \in {STORE, V} |-> IF n = V THEN v ELSE store]

NoLinks == [p \in {} |-> << >>]

OneHost == [r \in Requests |-> h1]

FirstAndOthers(p, q) == [r \in Requests |-> IF r = r1 THEN p ELSE q]

TwoRoots == FirstAndOthers(<<u, v>>, <<uv>>)
TwoSpellings == FirstAndOthers(<<u, v>>, <<u, v, Separator>>)
TwoCases == FirstAndOthers(<<u, v>>, <<u, V>>)

RootsInUse == {RootOf[r] : r \in Requests}

-----------------------------------------------------------------------------
MCFolders == {<<u>>, <<u, v>>}
TwoRootsFolders == {<<u>>, <<u, v>>, <<u, v, store>>, <<uv>>}

MCFiles == {<<u, v, a>>}
WithStoreFile == MCFiles \cup {<<u, v, store, a>>}
=============================================================================
