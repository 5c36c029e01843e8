------------------------ MODULE MCKeyedAnalysisLock ------------------------
(* Four requests for one root and two for another.                         *)
EXTENDS KeyedAnalysisLock

CONSTANTS r1, r2, r3, r4, s1, s2, rootA, rootB

MCRequests == {r1, r2, r3, r4, s1, s2}
MCLocks == {rootA, rootB}
MCLockOf ==
    [r \in MCRequests |-> IF r \in {r1, r2, r3, r4} THEN rootA ELSE rootB]
=============================================================================
