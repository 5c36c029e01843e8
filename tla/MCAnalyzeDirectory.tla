------------------------- MODULE MCAnalyzeDirectory -------------------------
(* Small instances of AnalyzeDirectory.  Every request analyses the one    *)
(* root and all of them use its one manifest.                              *)
EXTENDS AnalyzeDirectory

CONSTANTS
    r1, h1, h2, m1,
    Nested,        \* the files that lie in the subdirectories
    BigContents    \* contents over the size limit

MCSizeOf == [c \in Contents |-> IF c \in BigContents THEN 2 ELSE 1]

(* No two contents collide.                                                *)
MCHashOf == [c \in Contents |-> c]

(* At most one subdirectory.                                               *)
MCBeneath ==
    [d \in Subdirs \cup {Root} |->
        IF d = Root THEN Names \cup Subdirs ELSE Nested]

(* No two names differ in case only.                                       *)
MCFold == [n \in Names |-> n]

(* All names differ in case only.                                          *)
OneFold == [n \in Names |-> CHOOSE p \in Paths : TRUE]

MCManifestOf == [r \in Requests |-> m1]

OneHost == [r \in Requests |-> h1]

(* r1 comes to one host, every other request to the other.                 *)
TwoHosts == [r \in Requests |-> IF r = r1 THEN h1 ELSE h2]

MCSymmetry == Permutations(Requests)

(* Two hosts with a request each change places, and so do the names.       *)
HostSymmetry ==
    {[e \in Requests \cup Hosts |->
         IF e \in Requests THEN CHOOSE r \in Requests : r # e
         ELSE CHOOSE h \in Hosts : h # e]}
    \cup Permutations(Names)
=============================================================================
