------------------------- MODULE KeyedAnalysisLock -------------------------
(***************************************************************************)
(* The per-root lock that serialises directory analyses inside one process *)
(* (Infrastructure/Concurrency/KeyedAnalysisLockService.cs): a dictionary  *)
(* of SemaphoreSlim(1, 1), one per full root path, handed out as           *)
(* disposable Releaser objects.                                            *)
(*                                                                         *)
(* A request uses one Releaser at a time, so its handle is kept with it.   *)
(* GetOrAdd stores one semaphore per key for the life of the process, so   *)
(* the semaphores are there from the start.  SemaphoreSlim itself (a       *)
(* permit count and a FIFO list of asynchronous waiters; Release hands the *)
(* permit to the oldest waiter before anyone else can take it; a cancelled *)
(* wait that is still listed is taken off the list, one that was already   *)
(* granted returns the permit to its caller) is the .NET runtime's.        *)
(***************************************************************************)
EXTENDS Naturals, Sequences, SequencesExt

CONSTANTS
    Requests,   \* the calls of AcquireAsync that may be under way at once
    Locks,      \* the keys of _locks: full root paths, case ignored
    LockOf      \* the key that a request's root path gives

ASSUME LockOfAssumption == LockOf \in [Requests -> Locks]

VARIABLES
    permits,    \* SemaphoreSlim.CurrentCount of each lock
    queue,      \* the waiters of each lock, oldest first
    handle      \* what each request holds: nothing, a place in the queue,
                \* a Releaser not yet disposed, or a disposed one

lockVars == <<permits, queue, handle>>

LockInit ==
    /\ permits = [l \in Locks |-> 1]
    /\ queue = [l \in Locks |-> << >>]
    /\ handle = [r \in Requests |-> "none"]

-----------------------------------------------------------------------------
(* SemaphoreSlim.WaitAsync on lock l for request r.                        *)
Wait(l, r) ==
    \/ /\ permits[l] > 0
       /\ permits' = [permits EXCEPT ![l] = @ - 1]
       /\ handle' = [handle EXCEPT ![r] = "live"]
       /\ UNCHANGED queue
    \/ /\ permits[l] = 0
       /\ queue' = [queue EXCEPT ![l] = Append(@, r)]
       /\ handle' = [handle EXCEPT ![r] = "waiting"]
       /\ UNCHANGED permits

(* SemaphoreSlim.Release of lock l by request r.                           *)
Release(l, r) ==
    \/ /\ queue[l] = << >>
       /\ permits' = [permits EXCEPT ![l] = @ + 1]
       /\ handle' = [handle EXCEPT ![r] = "disposed"]
       /\ UNCHANGED queue
    \/ /\ queue[l] # << >>
       /\ queue' = [queue EXCEPT ![l] = Tail(@)]
       /\ handle' = [handle EXCEPT ![r] = "disposed", ![Head(queue[l])] = "live"]
       /\ UNCHANGED permits

(* Mutant of Acquire: a timed wait whose result is not looked at.          *)
AcquireWithoutGrant(r) ==
    /\ handle[r] \in {"none", "disposed"}
    /\ permits' = [permits EXCEPT ![LockOf[r]] = 0]
    /\ handle' = [handle EXCEPT ![r] = "live"]
    /\ UNCHANGED queue

(* AcquireAsync: the Releaser of an earlier call, if any, is disposed.     *)
Acquire(r) ==
    /\ handle[r] \in {"none", "disposed"}
    /\ Wait(LockOf[r], r)

(* Mutant of CancelWait: the cancelled waiter stays in the queue.          *)
CancelButStayQueued(r) ==
    /\ handle[r] = "waiting"
    /\ handle' = [handle EXCEPT ![r] = "none"]
    /\ UNCHANGED <<permits, queue>>

(* Mutant of CancelWait: the exception is swallowed, and the call returns  *)
(* a Releaser.                                                             *)
CancelButEnter(r) ==
    /\ handle[r] = "waiting"
    /\ queue' = [queue EXCEPT ![LockOf[r]] = Remove(@, r)]
    /\ handle' = [handle EXCEPT ![r] = "live"]
    /\ UNCHANGED permits

(* The token of a waiting AcquireAsync is cancelled before the grant: the  *)
(* call throws and there is no Releaser.                                   *)
CancelWait(r) ==
    /\ handle[r] = "waiting"
    /\ \E i \in DOMAIN queue[LockOf[r]] :
          /\ queue[LockOf[r]][i] = r
          /\ queue' = [queue EXCEPT ![LockOf[r]] = RemoveAt(@, i)]
    /\ handle' = [handle EXCEPT ![r] = "none"]
    /\ UNCHANGED permits

(* Mutants of Dispose: every call of DisposeAsync releases the semaphore   *)
(* (the second definition: unless that would throw), and no call does.     *)
DisposeEveryTime(r) ==
    /\ handle[r] \in {"live", "disposed"}
    /\ Release(LockOf[r], r)

DisposeWheneverTaken(r) ==
    /\ permits[LockOf[r]] = 0
    /\ DisposeEveryTime(r)

DisposeWithoutRelease(r) ==
    /\ handle[r] \in {"live", "disposed"}
    /\ handle' = [handle EXCEPT ![r] = "disposed"]
    /\ UNCHANGED <<permits, queue>>

(* Releaser.DisposeAsync: only the first call releases the semaphore.      *)
Dispose(r) ==
    \/ /\ handle[r] = "disposed"
       /\ UNCHANGED lockVars
    \/ /\ handle[r] = "live"
       /\ Release(LockOf[r], r)

LockNext ==
    \E r \in Requests : Acquire(r) \/ CancelWait(r) \/ Dispose(r)

(* The handler holds its Releaser with `await using`, so that every        *)
(* analysis ends by disposing it.                                          *)
LockFairness ==
    \A r \in Requests : WF_lockVars(Dispose(r))

LockSpec == LockInit /\ [][LockNext]_lockVars /\ LockFairness

-----------------------------------------------------------------------------
LockTypeOK ==
    /\ permits \in [Locks -> 0..1]
    /\ queue \in [Locks -> Seq(Requests)]
    /\ handle \in [Requests -> {"none", "waiting", "live", "disposed"}]

Holders(l) == {r \in Requests : LockOf[r] = l /\ handle[r] = "live"}

(* Two analyses of one root are never inside the lock together, whatever   *)
(* the order of acquisitions, cancellations and (repeated) disposals of    *)
(* the Releaser: what the Interlocked.Exchange in DisposeAsync is for.     *)
MutualExclusion ==
    \A r, s \in Requests :
        /\ handle[r] = "live"
        /\ handle[s] = "live"
        /\ LockOf[r] = LockOf[s]
        => r = s

(* A permit is never lost nor made up: it is either free or in the hands   *)
(* of the one live Releaser.  In particular nobody waits for a lock that   *)
(* no one will release, and Release never exceeds the maximum count of 1   *)
(* (SemaphoreFullException).                                               *)
PermitConserved ==
    \A l \in Locks :
        /\ permits[l] = 1 <=> Holders(l) = {}
        /\ queue[l] # << >> => permits[l] = 0

(* The queue and the handles agree: a request waits in exactly one place   *)
(* of exactly its own lock's queue, so that a cancelled or served wait     *)
(* leaves nothing behind that a later Release could grant to no one.       *)
QueueMatchesHandles ==
    \A l \in Locks :
        /\ \A i, j \in DOMAIN queue[l] : queue[l][i] = queue[l][j] => i = j
        /\ \A r \in Requests :
              (\E i \in DOMAIN queue[l] : queue[l][i] = r)
                  <=> (handle[r] = "waiting" /\ LockOf[r] = l)

(* No barging: a request that did not wait enters only a lock nobody is    *)
(* waiting for, and of those that wait the longest-waiting enters first.   *)
ServedInOrder ==
    [][\A r \in Requests :
          /\ handle[r] # "live"
          /\ handle'[r] = "live"
          /\ queue[LockOf[r]] # << >>
          => Head(queue[LockOf[r]]) = r]_lockVars

(* Every request that waits is served or cancels: no hand-off is lost.     *)
EveryWaiterServed ==
    \A r \in Requests : handle[r] = "waiting" ~> handle[r] # "waiting"
=============================================================================
