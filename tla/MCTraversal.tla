---------------------------- MODULE MCTraversal ----------------------------
(* Every tree over a few places, with a directory that links back to the   *)
(* root and two names that differ in case only.                            *)
EXTENDS Traversal

CONSTANTS w, d, f, loop, store, STORE, app, rare

Texts(format, mode, base) ==
    [section |-> [StorageFormat |-> Unset, Mode |-> Unset, BasePath |-> Unset],
     flat |-> [StorageFormat |-> format, Mode |-> mode, BasePath |-> base]]

MCNumerals == [One |-> 1, Two |-> 2, Seven |-> 7]

MCBase == [rooted |-> FALSE, names |-> <<store>>]

MCFolded == [n \in {STORE} |-> store]

(* The root in one spelling, or with a separator behind it.                *)
MCFullPaths == {<<w>>, <<w, Separator>>}

MCAppData == <<app>>

SelfNamed == [p \in FullPaths |-> p]

MCLinks == [p \in {<<w, d, loop>>} |-> <<w>>]

(* AppData; a store in the root; one that is the root; one elsewhere.      *)
MCSettingsSet ==
    {Texts(Unset, Unset, Unset),
     Texts(Unset, "PerRoot", Unset),
     Texts(Unset, "Two", [rooted |-> FALSE, names |-> << >>]),
     Texts(Unset, "PerRoot", Blank),
     Texts(Unset, "PerRoot", [rooted |-> TRUE, names |-> <<w, d>>])}

FolderPlaces == {<<w>>, <<w, d>>, <<w, store>>, <<w, STORE>>}

FilePlaces == {<<w, d, f>>, <<w, store, f>>}

(* A directory below one that does not exist is no tree.                   *)
MCTrees ==
    {[content |-> [p \in F |-> rare], folders |-> D \cup {<< >>}] :
        F \in SUBSET FilePlaces, D \in SUBSET FolderPlaces}

IsTree(tree) ==
    \A p \in DOMAIN tree.content \cup (tree.folders \ {<< >>}) :
        Front(p) \in tree.folders

MCDenied == {<<w, d>>}

ProperTrees == {t \in MCTrees : IsTree(t)}
=============================================================================
