CONSTANTS
    r1 = r1
    r2 = r2
    r3 = r3
    r4 = r4
    s1 = s1
    s2 = s2
    rootA = rootA
    rootB = rootB
    Requests <- MCRequests
    Locks <- MCLocks
    LockOf <- MCLockOf
SPECIFICATION LockSpec
INVARIANTS
    LockTypeOK
    MutualExclusion
    PermitConserved
    QueueMatchesHandles
PROPERTIES
    ServedInOrder
    EveryWaiterServed
