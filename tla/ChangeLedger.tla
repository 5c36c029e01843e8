---------------------------- MODULE ChangeLedger ----------------------------
(***************************************************************************)
(* What the stored manifests promise, without requests, locks, scans or    *)
(* files: each root has a ledger, its last recorded snapshot.  Recording   *)
(* the next one is atomic and moves the versions on as the assignment asks *)
(* (README.md:13: from 1, by 1 with every change of content).  A ledger    *)
(* may be lost while it is being rewritten; then nothing is ever recorded  *)
(* for its root again.                                                     *)
(***************************************************************************)
EXTENDS ManifestDiff

CONSTANTS Manifests, Torn

VARIABLE ledger

LedgerInit == ledger = [m \in Manifests |-> Absent]

Record(m) ==
    /\ ledger[m] # Torn
    /\ ledger'[m] \in Snapshot
    /\ Succeeds(ledger[m], ledger'[m])
    /\ ledger' = [ledger EXCEPT ![m] = ledger'[m]]

Lose(M) ==
    ledger' = [m \in Manifests |-> IF m \in M THEN Torn ELSE ledger[m]]

LedgerNext ==
    \/ \E m \in Manifests : Record(m)
    \/ \E M \in SUBSET Manifests : Lose(M)

LedgerSpec == LedgerInit /\ [][LedgerNext]_ledger
=============================================================================
