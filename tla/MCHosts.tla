------------------------------- MODULE MCHosts -------------------------------
(* Requests at one host.  The file's path in the manifest is that of the   *)
(* directory: their names differ in case only.                             *)
EXTENDS Hosts

CONSTANTS r1, r2, h1, m1, a, d, x, y, z, BigContents

MCHostOf == [r \in Requests |-> h1]

MCManifestOf == [r \in Requests |-> m1]

MCSizeOf == [c \in Contents |-> IF c \in BigContents THEN 2 ELSE 1]

MCHashOf == [c \in Contents |-> c]

MCBeneath ==
    [e \in Subdirs \cup {Root} |->
        IF e = Root THEN Names \cup Subdirs ELSE {}]

MCFold == [n \in Names |-> d]

MCSymmetry == Permutations(Requests)
=============================================================================
