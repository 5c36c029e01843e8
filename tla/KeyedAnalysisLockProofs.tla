----------------------- MODULE KeyedAnalysisLockProofs -----------------------
(***************************************************************************)
(* Proofs about the lock.  LockInv is inductive: mutual exclusion alone is *)
(* not, since it takes the queue to be right (each waiter listed once, in  *)
(* its own lock's queue) for a hand-off to go to a request that does not   *)
(* hold anything, and the permit to be taken while somebody is inside.     *)
(***************************************************************************)
EXTENDS KeyedAnalysisLock, SequenceTheorems, TLAPS

LockInv ==
    /\ LockTypeOK
    /\ MutualExclusion
    /\ PermitConserved
    /\ QueueMatchesHandles

-----------------------------------------------------------------------------
(* What taking an element out of a sequence leaves.                        *)
LEMMA RemoveAtProperties ==
    ASSUME NEW S, NEW s \in Seq(S), NEW i \in 1..Len(s)
    PROVE  /\ RemoveAt(s, i) \in Seq(S)
           /\ Len(RemoveAt(s, i)) = Len(s) - 1
           /\ \A j \in 1..(Len(s) - 1) :
                 RemoveAt(s, i)[j] = IF j < i THEN s[j] ELSE s[j + 1]
<1> DEFINE front == SubSeq(s, 1, i - 1)
           back  == SubSeq(s, i + 1, Len(s))
<1>0. Len(s) \in Nat
  BY LenProperties
<1>1. /\ front \in Seq(S)
      /\ Len(front) = i - 1
      /\ \A j \in 1..(i - 1) : front[j] = s[j]
  BY <1>0, SubSeqProperties
<1>2. /\ back \in Seq(S)
      /\ Len(back) = Len(s) - i
      /\ \A j \in 1..(Len(s) - i) : back[j] = s[i + j]
  BY <1>0, SubSeqProperties
<1> HIDE DEF front, back
<1>3. RemoveAt(s, i) = front \o back
  BY DEF RemoveAt, front, back
<1>4. /\ RemoveAt(s, i) \in Seq(S)
      /\ Len(RemoveAt(s, i)) = Len(s) - 1
  BY <1>0, <1>1, <1>2, <1>3, ConcatProperties
<1>5. ASSUME NEW j \in 1..(Len(s) - 1)
      PROVE  RemoveAt(s, i)[j] = IF j < i THEN s[j] ELSE s[j + 1]
  <2>1. RemoveAt(s, i)[j] = IF j <= Len(front) THEN front[j] ELSE back[j - Len(front)]
    BY <1>0, <1>1, <1>2, <1>3, ConcatProperties
  <2>2. CASE j < i
    BY <1>0, <1>1, <2>1, <2>2
  <2>3. CASE ~(j < i)
    <3>1. j - (i - 1) \in 1..(Len(s) - i) /\ i + (j - (i - 1)) = j + 1
      BY <1>0, <2>3
    <3>2. RemoveAt(s, i)[j] = back[j - (i - 1)]
      BY <1>0, <1>1, <2>1, <2>3
    <3>3. back[j - (i - 1)] = s[j + 1]
      BY <1>2, <3>1
    <3>4. QED
      BY <2>3, <3>2, <3>3
  <2>4. QED
    BY <2>2, <2>3
<1>6. QED
  BY <1>4, <1>5

Distinct(s) == \A i, j \in DOMAIN s : s[i] = s[j] => i = j

Listed(s, e) == \E i \in DOMAIN s : s[i] = e

(* Taking one out of a sequence without repetitions takes just that out.   *)
LEMMA RemoveAtDistinct ==
    ASSUME NEW S, NEW s \in Seq(S), NEW i \in 1..Len(s), Distinct(s)
    PROVE  /\ Distinct(RemoveAt(s, i))
           /\ \A e : Listed(RemoveAt(s, i), e) <=> e # s[i] /\ Listed(s, e)
<1> DEFINE t == RemoveAt(s, i)
<1>1. /\ Len(s) \in Nat
      /\ DOMAIN s = 1..Len(s)
      /\ DOMAIN t = 1..(Len(s) - 1)
      /\ \A j \in 1..(Len(s) - 1) : t[j] = IF j < i THEN s[j] ELSE s[j + 1]
  BY RemoveAtProperties, LenProperties
<1> HIDE DEF t
<1>2. Distinct(t)
  <2> SUFFICES ASSUME NEW j \in 1..(Len(s) - 1), NEW k \in 1..(Len(s) - 1),
                      t[j] = t[k]
               PROVE  j = k
    BY <1>1 DEF Distinct
  <2>1. \A m, n \in 1..Len(s) : s[m] = s[n] => m = n
    BY <1>1 DEF Distinct
  <2>2. /\ t[j] = IF j < i THEN s[j] ELSE s[j + 1]
        /\ t[k] = IF k < i THEN s[k] ELSE s[k + 1]
    BY <1>1
  <2>3. j \in 1..Len(s) /\ j + 1 \in 1..Len(s) /\ k \in 1..Len(s) /\ k + 1 \in 1..Len(s)
    BY <1>1
  <2>4. (IF j < i THEN j ELSE j + 1) = (IF k < i THEN k ELSE k + 1)
    BY <2>1, <2>2, <2>3
  <2>5. QED
    BY <2>4
<1>3. ASSUME NEW e, Listed(t, e)
      PROVE  e # s[i] /\ Listed(s, e)
  BY <1>1, <1>3 DEF Distinct, Listed
<1>4. ASSUME NEW e, e # s[i], Listed(s, e)
      PROVE  Listed(t, e)
  <2>1. PICK j \in 1..Len(s) : s[j] = e /\ j # i
    BY <1>1, <1>4 DEF Listed
  <2>2. CASE j < i
    BY <1>1, <2>1, <2>2 DEF Listed
  <2>3. CASE j > i
    <3>1. j - 1 \in 1..(Len(s) - 1) /\ ~(j - 1 < i) /\ (j - 1) + 1 = j
      BY <1>1, <2>3
    <3>2. t[j - 1] = e
      BY <1>1, <2>1, <3>1
    <3>3. QED
      BY <1>1, <3>1, <3>2 DEF Listed
  <2>4. QED
    BY <1>1, <2>1, <2>2, <2>3
<1>5. QED
  BY <1>2, <1>3, <1>4 DEF t

LEMMA TailDistinct ==
    ASSUME NEW S, NEW s \in Seq(S), s # << >>, Distinct(s)
    PROVE  /\ Distinct(Tail(s))
           /\ \A e : Listed(Tail(s), e) <=> e # Head(s) /\ Listed(s, e)
<1> DEFINE t == Tail(s)
<1>1. /\ Len(s) \in Nat \ {0}
      /\ DOMAIN s = 1..Len(s)
      /\ Head(s) = s[1]
      /\ DOMAIN t = 1..(Len(s) - 1)
      /\ \A j \in 1..(Len(s) - 1) : t[j] = s[j + 1]
  BY HeadTailProperties, LenProperties, EmptySeq
<1> HIDE DEF t
<1>2. Distinct(t)
  BY <1>1 DEF Distinct
<1>3. ASSUME NEW e, Listed(t, e)
      PROVE  e # s[1] /\ Listed(s, e)
  BY <1>1, <1>3 DEF Distinct, Listed
<1>4. ASSUME NEW e, e # s[1], Listed(s, e)
      PROVE  Listed(t, e)
  <2>1. PICK j \in 1..Len(s) : s[j] = e /\ j # 1
    BY <1>1, <1>4 DEF Listed
  <2>2. j - 1 \in 1..(Len(s) - 1) /\ (j - 1) + 1 = j
    BY <1>1, <2>1
  <2>3. t[j - 1] = e
    BY <1>1, <2>1, <2>2
  <2>4. QED
    BY <1>1, <2>2, <2>3 DEF Listed
<1>5. QED
  BY <1>1, <1>2, <1>3, <1>4 DEF t

-----------------------------------------------------------------------------
(* A permit that is free is taken.                                         *)
LEMMA GrantKeepsLockInv ==
    ASSUME LockInv, NEW r \in Requests, NEW l \in Locks, LockOf[r] = l,
           handle[r] \in {"none", "disposed"},
           permits[l] > 0,
           permits' = [permits EXCEPT ![l] = @ - 1],
           handle' = [handle EXCEPT ![r] = "live"],
           queue' = queue
    PROVE  LockInv'
<1> USE DEF LockInv
<1>1. permits[l] = 1 /\ Holders(l) = {}
  BY DEF LockTypeOK, PermitConserved
<1>2. LockTypeOK'
  <2>1. permits' \in [Locks -> 0..1]
    BY <1>1 DEF LockTypeOK
  <2>2. QED
    BY <2>1 DEF LockTypeOK
<1>3. MutualExclusion'
  BY <1>1 DEF LockTypeOK, MutualExclusion, Holders
<1>4. PermitConserved'
  <2> SUFFICES ASSUME NEW k \in Locks
               PROVE  /\ permits'[k] = 1 <=> Holders(k)' = {}
                      /\ queue'[k] # << >> => permits'[k] = 0
    BY DEF PermitConserved
  <2>1. CASE k = l
    <3>1. permits'[l] = 0
      BY <1>1 DEF LockTypeOK
    <3>2. r \in Holders(l)'
      BY DEF LockTypeOK, Holders
    <3>3. QED
      BY <2>1, <3>1, <3>2
  <2>2. CASE k # l
    <3>1. permits'[k] = permits[k]
      BY <2>2 DEF LockTypeOK
    <3>2. Holders(k)' = Holders(k)
      BY <2>2 DEF LockTypeOK, Holders
    <3>3. QED
      BY <3>1, <3>2 DEF PermitConserved
  <2>3. QED
    BY <2>1, <2>2
<1>5. QueueMatchesHandles'
  BY DEF LockTypeOK, QueueMatchesHandles
<1>6. QED
  BY <1>2, <1>3, <1>4, <1>5

(* A request joins the queue.                                              *)
LEMMA EnqueueKeepsLockInv ==
    ASSUME LockInv, NEW r \in Requests, NEW l \in Locks, LockOf[r] = l,
           handle[r] \in {"none", "disposed"},
           permits[l] = 0,
           queue' = [queue EXCEPT ![l] = Append(@, r)],
           handle' = [handle EXCEPT ![r] = "waiting"],
           permits' = permits
    PROVE  LockInv'
<1> USE DEF LockInv
<1> DEFINE q == queue[l]
<1>1. /\ q \in Seq(Requests)
      /\ Len(q) \in Nat
      /\ DOMAIN q = 1..Len(q)
  BY LenProperties DEF LockTypeOK
<1>2. /\ queue'[l] \in Seq(Requests)
      /\ DOMAIN queue'[l] = 1..(Len(q) + 1)
      /\ queue'[l][Len(q) + 1] = r
      /\ \A i \in 1..Len(q) : queue'[l][i] = q[i]
  <2>1. queue'[l] = Append(q, r)
    BY DEF LockTypeOK
  <2>2. QED
    BY <1>1, <2>1, AppendProperties, LenProperties
<1>3. \A k \in Locks \ {l} : queue'[k] = queue[k]
  BY DEF LockTypeOK
<1>4. \A s \in Requests : handle'[s] = IF s = r THEN "waiting" ELSE handle[s]
  BY DEF LockTypeOK
<1> HIDE DEF q
<1>5. LockTypeOK'
  <2>1. queue' \in [Locks -> Seq(Requests)]
    BY <1>2 DEF LockTypeOK
  <2>2. QED
    BY <2>1 DEF LockTypeOK
<1>6. MutualExclusion'
  BY <1>4 DEF MutualExclusion
<1>7. \A k \in Locks : Holders(k)' = Holders(k)
  BY <1>4 DEF Holders
<1>8. PermitConserved'
  BY <1>3, <1>7 DEF PermitConserved
<1>9. QueueMatchesHandles'
  <2>1. \A i \in 1..Len(q) : q[i] # r
    BY <1>1 DEF QueueMatchesHandles, q
  <2>2. ASSUME NEW i \in DOMAIN queue'[l], NEW j \in DOMAIN queue'[l],
               queue'[l][i] = queue'[l][j]
        PROVE  i = j
    <3>1. CASE i \in 1..Len(q) /\ j \in 1..Len(q)
      BY <1>1, <1>2, <2>2, <3>1 DEF QueueMatchesHandles, q
    <3>2. CASE i = Len(q) + 1 \/ j = Len(q) + 1
      BY <1>1, <1>2, <2>1, <2>2, <3>2
    <3>3. QED
      BY <1>1, <1>2, <3>1, <3>2
  <2>3. ASSUME NEW s \in Requests
        PROVE  (\E i \in DOMAIN queue'[l] : queue'[l][i] = s)
                  <=> (handle'[s] = "waiting" /\ LockOf[s] = l)
    <3>1. (\E i \in DOMAIN queue'[l] : queue'[l][i] = s)
             <=> s = r \/ (\E i \in 1..Len(q) : q[i] = s)
      BY <1>1, <1>2
    <3>2. (\E i \in 1..Len(q) : q[i] = s) <=> (handle[s] = "waiting" /\ LockOf[s] = l)
      BY <1>1 DEF QueueMatchesHandles, q
    <3>3. QED
      BY <1>4, <3>1, <3>2
  <2>4. ASSUME NEW k \in Locks \ {l}
        PROVE  /\ \A i, j \in DOMAIN queue'[k] : queue'[k][i] = queue'[k][j] => i = j
               /\ \A s \in Requests :
                     (\E i \in DOMAIN queue'[k] : queue'[k][i] = s)
                        <=> (handle'[s] = "waiting" /\ LockOf[s] = k)
    BY <1>3, <1>4 DEF QueueMatchesHandles
  <2>5. QED
    BY <2>2, <2>3, <2>4 DEF QueueMatchesHandles
<1>10. QED
  BY <1>5, <1>6, <1>8, <1>9

LEMMA AcquireKeepsLockInv ==
    ASSUME LockInv, NEW r \in Requests, Acquire(r)
    PROVE  LockInv'
<1>1. LockOf[r] \in Locks
  BY LockOfAssumption
<1>2. QED
  BY <1>1, GrantKeepsLockInv, EnqueueKeepsLockInv DEF Acquire, Wait
(* A request leaves the queue of lock l, whose other members stay: the     *)
(* common part of a cancelled wait and of a hand-off.                      *)
LEMMA DequeueKeepsQueues ==
    ASSUME LockTypeOK, QueueMatchesHandles,
           NEW s \in Requests, NEW l \in Locks, LockOf[s] = l,
           queue' \in [Locks -> Seq(Requests)],
           \A k \in Locks \ {l} : queue'[k] = queue[k],
           Distinct(queue'[l]),
           \A e : Listed(queue'[l], e) <=> e # s /\ Listed(queue[l], e),
           handle'[s] # "waiting",
           \A t \in Requests \ {s} : handle'[t] = "waiting" <=> handle[t] = "waiting"
    PROVE  QueueMatchesHandles'
<1>1. ASSUME NEW k \in Locks
      PROVE  Distinct(queue'[k])
  BY <1>1 DEF QueueMatchesHandles, Distinct
<1>2. ASSUME NEW k \in Locks, NEW t \in Requests
      PROVE  Listed(queue'[k], t) <=> (handle'[t] = "waiting" /\ LockOf[t] = k)
  <2>1. Listed(queue[k], t) <=> (handle[t] = "waiting" /\ LockOf[t] = k)
    BY DEF QueueMatchesHandles, Listed
  <2>2. CASE k = l
    BY <2>1, <2>2
  <2>3. CASE k # l
    <3>1. Listed(queue'[k], t) <=> Listed(queue[k], t)
      BY <2>3 DEF Listed
    <3>2. QED
      BY <2>1, <2>3, <3>1
  <2>4. QED
    BY <2>2, <2>3
<1>3. QED
  BY <1>1, <1>2 DEF QueueMatchesHandles, Distinct, Listed

LEMMA CancelWaitKeepsLockInv ==
    ASSUME LockInv, NEW r \in Requests, CancelWait(r)
    PROVE  LockInv'
<1> DEFINE l == LockOf[r]
<1> USE DEF LockInv
<1>1. l \in Locks /\ queue[l] \in Seq(Requests)
  BY LockOfAssumption DEF LockTypeOK
<1>2. PICK i \in DOMAIN queue[l] :
         /\ queue[l][i] = r
         /\ queue' = [queue EXCEPT ![l] = RemoveAt(@, i)]
  BY DEF CancelWait
<1>3. /\ handle[r] = "waiting"
      /\ handle' = [handle EXCEPT ![r] = "none"]
      /\ permits' = permits
  BY DEF CancelWait
<1> HIDE DEF l
<1>4. i \in 1..Len(queue[l]) /\ Distinct(queue[l])
  BY <1>1, <1>2 DEF QueueMatchesHandles, Distinct
<1>5. /\ queue'[l] = RemoveAt(queue[l], i)
      /\ \A k \in Locks \ {l} : queue'[k] = queue[k]
  BY <1>1, <1>2 DEF LockTypeOK
<1>6. queue' \in [Locks -> Seq(Requests)]
  <2>1. RemoveAt(queue[l], i) \in Seq(Requests)
    BY <1>1, <1>4, RemoveAtProperties
  <2>2. QED
    BY <1>1, <1>2, <2>1 DEF LockTypeOK
<1>7. LockTypeOK'
  BY <1>3, <1>6 DEF LockTypeOK
<1>8. \A s \in Requests : handle'[s] = IF s = r THEN "none" ELSE handle[s]
  BY <1>3 DEF LockTypeOK
<1>9. MutualExclusion'
  BY <1>8 DEF MutualExclusion
<1>10. PermitConserved'
  <2>1. \A k \in Locks : Holders(k)' = Holders(k)
    BY <1>3, <1>8 DEF Holders
  <2>2. permits[l] = 0
    <3>1. queue[l] # << >>
      BY <1>1, <1>4, LenProperties
    <3>2. QED
      BY <1>1, <3>1 DEF PermitConserved
  <2>3. QED
    BY <1>3, <1>5, <2>1, <2>2 DEF PermitConserved
<1>11. QueueMatchesHandles'
  <2>1. /\ Distinct(queue'[l])
        /\ \A e : Listed(queue'[l], e) <=> e # r /\ Listed(queue[l], e)
    BY <1>1, <1>2, <1>4, <1>5, RemoveAtDistinct
  <2>2. QED
    BY <1>1, <1>5, <1>6, <1>8, <2>1, DequeueKeepsQueues DEF l
<1>12. QED
  BY <1>7, <1>9, <1>10, <1>11

(* The permit is put back, because nobody waits.                           *)
LEMMA PutBackKeepsLockInv ==
    ASSUME LockInv, NEW r \in Requests, NEW l \in Locks, LockOf[r] = l,
           handle[r] = "live",
           queue[l] = << >>,
           permits' = [permits EXCEPT ![l] = @ + 1],
           handle' = [handle EXCEPT ![r] = "disposed"],
           queue' = queue
    PROVE  LockInv'
<1> USE DEF LockInv
<1>1. Holders(l) = {r} /\ permits[l] = 0
  BY DEF LockTypeOK, MutualExclusion, PermitConserved, Holders
<1>2. \A s \in Requests : handle'[s] = IF s = r THEN "disposed" ELSE handle[s]
  BY DEF LockTypeOK
<1>3. LockTypeOK'
  <2>1. permits' \in [Locks -> 0..1]
    BY <1>1 DEF LockTypeOK
  <2>2. QED
    BY <2>1 DEF LockTypeOK
<1>4. MutualExclusion'
  BY <1>2 DEF MutualExclusion
<1>5. PermitConserved'
  <2> SUFFICES ASSUME NEW k \in Locks
               PROVE  /\ permits'[k] = 1 <=> Holders(k)' = {}
                      /\ queue'[k] # << >> => permits'[k] = 0
    BY DEF PermitConserved
  <2>1. CASE k = l
    <3>1. permits'[l] = 1
      BY <1>1 DEF LockTypeOK
    <3>2. Holders(l)' = {}
      BY <1>1, <1>2 DEF Holders
    <3>3. QED
      BY <2>1, <3>1, <3>2
  <2>2. CASE k # l
    <3>1. permits'[k] = permits[k]
      BY <2>2 DEF LockTypeOK
    <3>2. Holders(k)' = Holders(k)
      BY <1>2, <2>2 DEF Holders
    <3>3. QED
      BY <3>1, <3>2 DEF PermitConserved
  <2>3. QED
    BY <2>1, <2>2
<1>6. QueueMatchesHandles'
  BY <1>2 DEF QueueMatchesHandles
<1>7. QED
  BY <1>3, <1>4, <1>5, <1>6

(* The permit goes to the request at the head of the queue.                *)
LEMMA HandOffKeepsLockInv ==
    ASSUME LockInv, NEW r \in Requests, NEW l \in Locks, LockOf[r] = l,
           handle[r] = "live",
           queue[l] # << >>,
           queue' = [queue EXCEPT ![l] = Tail(@)],
           handle' = [handle EXCEPT ![r] = "disposed", ![Head(queue[l])] = "live"],
           permits' = permits
    PROVE  LockInv'
<1> DEFINE s == Head(queue[l])
<1> USE DEF LockInv
<1>1. queue[l] \in Seq(Requests) /\ Distinct(queue[l])
  BY DEF LockTypeOK, QueueMatchesHandles, Distinct
<1>2. s \in Requests /\ Listed(queue[l], s)
  BY <1>1, HeadTailProperties, LenProperties, EmptySeq DEF Listed
<1>3. handle[s] = "waiting" /\ LockOf[s] = l
  BY <1>2 DEF QueueMatchesHandles, Listed
<1>4. handle' = [handle EXCEPT ![r] = "disposed", ![s] = "live"]
  OBVIOUS
<1>5. /\ Distinct(Tail(queue[l]))
      /\ \A e : Listed(Tail(queue[l]), e) <=> e # s /\ Listed(queue[l], e)
      /\ Tail(queue[l]) \in Seq(Requests)
  BY <1>1, TailDistinct, HeadTailProperties
<1> HIDE DEF s
<1>6. \A t \in Requests : handle'[t] = IF t = s THEN "live"
                                    ELSE IF t = r THEN "disposed"
                                    ELSE handle[t]
  BY <1>2, <1>3, <1>4 DEF LockTypeOK
<1>7. /\ queue'[l] = Tail(queue[l])
      /\ \A k \in Locks \ {l} : queue'[k] = queue[k]
      /\ queue' \in [Locks -> Seq(Requests)]
  BY <1>5 DEF LockTypeOK
<1>8. LockTypeOK'
  BY <1>2, <1>4, <1>7 DEF LockTypeOK
<1>9. \A t \in Requests : LockOf[t] = l /\ handle[t] = "live" => t = r
  BY DEF MutualExclusion
<1>10. MutualExclusion'
  BY <1>3, <1>6, <1>9 DEF MutualExclusion
<1>11. PermitConserved'
  <2> SUFFICES ASSUME NEW k \in Locks
               PROVE  /\ permits'[k] = 1 <=> Holders(k)' = {}
                      /\ queue'[k] # << >> => permits'[k] = 0
    BY DEF PermitConserved
  <2>1. CASE k = l
    <3>1. permits'[l] = 0
      BY DEF PermitConserved
    <3>2. s \in Holders(l)'
      BY <1>2, <1>3, <1>6 DEF Holders
    <3>3. QED
      BY <2>1, <3>1, <3>2
  <2>2. CASE k # l
    <3>1. Holders(k)' = Holders(k)
      BY <1>3, <1>6, <2>2 DEF Holders
    <3>2. QED
      BY <1>7, <2>2, <3>1 DEF PermitConserved
  <2>3. QED
    BY <2>1, <2>2
<1>12. QueueMatchesHandles'
  <2>1. handle'[s] # "waiting"
    BY <1>2, <1>6
  <2>2. \A t \in Requests \ {s} : handle'[t] = "waiting" <=> handle[t] = "waiting"
    <3> TAKE t \in Requests \ {s}
    <3>1. handle'[t] = IF t = r THEN "disposed" ELSE handle[t]
      BY <1>6
    <3>2. QED
      BY <3>1
  <2>3. /\ Distinct(queue'[l])
        /\ \A e : Listed(queue'[l], e) <=> e # s /\ Listed(queue[l], e)
    BY <1>5, <1>7
  <2>4. QED
    BY <1>2, <1>3, <1>7, <2>1, <2>2, <2>3, DequeueKeepsQueues
<1>13. QED
  BY <1>8, <1>10, <1>11, <1>12

LEMMA DisposeKeepsLockInv ==
    ASSUME LockInv, NEW r \in Requests, Dispose(r)
    PROVE  LockInv'
<1>1. LockOf[r] \in Locks
  BY LockOfAssumption
<1>2. CASE UNCHANGED lockVars
  BY <1>2 DEF LockInv, LockTypeOK, MutualExclusion, PermitConserved, Holders,
              QueueMatchesHandles, lockVars
<1>3. CASE handle[r] = "live" /\ Release(LockOf[r], r)
  BY <1>1, <1>3, PutBackKeepsLockInv, HandOffKeepsLockInv DEF Release
<1>4. QED
  BY <1>2, <1>3 DEF Dispose

LEMMA StutterKeepsLockInv ==
    ASSUME LockInv, UNCHANGED lockVars
    PROVE  LockInv'
BY DEF LockInv, LockTypeOK, MutualExclusion, PermitConserved, Holders,
       QueueMatchesHandles, lockVars

(* The locks L start anew, and nobody uses them any more: a process is     *)
(* gone.                                                                   *)
LEMMA ResetKeepsLockInv ==
    ASSUME LockInv, NEW L,
           permits' = [l \in Locks |-> IF l \in L THEN 1 ELSE permits[l]],
           queue' = [l \in Locks |-> IF l \in L THEN << >> ELSE queue[l]],
           handle' = [r \in Requests |-> IF LockOf[r] \in L THEN "none" ELSE handle[r]]
    PROVE  LockInv'
<1> USE DEF LockInv
<1>1. LockTypeOK'
  <2>1. permits' \in [Locks -> 0..1]
    BY DEF LockTypeOK
  <2>2. queue' \in [Locks -> Seq(Requests)]
    BY EmptySeq DEF LockTypeOK
  <2>3. handle' \in [Requests -> {"none", "waiting", "live", "disposed"}]
    BY DEF LockTypeOK
  <2>4. QED
    BY <2>1, <2>2, <2>3 DEF LockTypeOK
<1>2. MutualExclusion'
  BY DEF MutualExclusion
<1>3. PermitConserved'
  <2> SUFFICES ASSUME NEW l \in Locks
               PROVE  /\ permits'[l] = 1 <=> Holders(l)' = {}
                      /\ queue'[l] # << >> => permits'[l] = 0
    BY DEF PermitConserved
  <2>1. CASE l \in L
    BY <2>1 DEF Holders
  <2>2. CASE l \notin L
    <3>1. Holders(l)' = Holders(l)
      BY <2>2 DEF Holders
    <3>2. QED
      BY <2>2, <3>1 DEF PermitConserved
  <2>3. QED
    BY <2>1, <2>2
<1>4. QueueMatchesHandles'
  <2> SUFFICES ASSUME NEW l \in Locks
               PROVE  /\ \A i, j \in DOMAIN queue'[l] : queue'[l][i] = queue'[l][j] => i = j
                      /\ \A r \in Requests :
                            (\E i \in DOMAIN queue'[l] : queue'[l][i] = r)
                               <=> (handle'[r] = "waiting" /\ LockOf[r] = l)
    BY DEF QueueMatchesHandles
  <2>1. CASE l \in L
    BY <2>1, EmptySeq
  <2>2. CASE l \notin L
    BY <2>2 DEF QueueMatchesHandles
  <2>3. QED
    BY <2>1, <2>2
<1>5. QED
  BY <1>1, <1>2, <1>3, <1>4

(* Besides the one that leaves, only a request that waits is affected.     *)
LEMMA DisposeEffect ==
    ASSUME LockInv, NEW r \in Requests, Dispose(r), handle[r] = "live"
    PROVE  /\ handle'[r] = "disposed"
           /\ \A s \in Requests \ {r} :
                 handle'[s] = handle[s] \/ (handle[s] = "waiting" /\ handle'[s] = "live")
<1> DEFINE l == LockOf[r]
<1> USE DEF LockInv
<1>1. l \in Locks /\ queue[l] \in Seq(Requests) /\ Release(l, r)
  BY LockOfAssumption DEF Dispose, LockTypeOK
<1> HIDE DEF l
<1>2. CASE queue[l] = << >>
  BY <1>1, <1>2 DEF Release, LockTypeOK
<1>3. CASE queue[l] # << >>
  <2>1. Head(queue[l]) \in Requests /\ handle[Head(queue[l])] = "waiting"
    BY <1>1, <1>3, HeadTailProperties, LenProperties, EmptySeq
    DEF QueueMatchesHandles
  <2>2. handle' = [handle EXCEPT ![r] = "disposed", ![Head(queue[l])] = "live"]
    BY <1>1, <1>3 DEF Release
  <2>3. QED
    BY <2>1, <2>2 DEF LockTypeOK
<1>4. QED
  BY <1>2, <1>3

-----------------------------------------------------------------------------
LEMMA LockInitInv == LockInit => LockInv
<1> SUFFICES ASSUME LockInit
             PROVE  LockInv
  OBVIOUS
<1>1. LockTypeOK
  BY DEF LockInit, LockTypeOK
<1>2. MutualExclusion /\ PermitConserved
  BY DEF LockInit, MutualExclusion, PermitConserved, Holders
<1>3. QueueMatchesHandles
  BY DEF LockInit, QueueMatchesHandles
<1>4. QED
  BY <1>1, <1>2, <1>3 DEF LockInv

LEMMA LockInvCorrect == LockSpec => []LockInv
<1>1. LockInit => LockInv
  BY LockInitInv
<1>2. LockInv /\ [LockNext]_lockVars => LockInv'
  <2> SUFFICES ASSUME LockInv, [LockNext]_lockVars
               PROVE  LockInv'
    OBVIOUS
  <2>1. CASE UNCHANGED lockVars
    BY <2>1 DEF LockInv, LockTypeOK, MutualExclusion, PermitConserved, Holders,
                QueueMatchesHandles, lockVars
  <2>2. QED
    BY <2>1, AcquireKeepsLockInv, CancelWaitKeepsLockInv, DisposeKeepsLockInv
    DEF LockNext
<1>3. QED
  BY <1>1, <1>2, PTL DEF LockSpec

(* The lock's variables keep their types; in particular no permit count    *)
(* exceeds the maximum of 1 that the semaphore was created with.           *)
THEOREM LockTypeCorrect == LockSpec => []LockTypeOK
<1>1. LockInv => LockTypeOK
  BY DEF LockInv
<1>2. QED
  BY <1>1, LockInvCorrect, PTL

(* For any number of requests and roots, two requests for one root are     *)
(* never inside its lock together.                                         *)
THEOREM LockIsMutuallyExclusive == LockSpec => []MutualExclusion
<1>1. LockInv => MutualExclusion
  BY DEF LockInv
<1>2. QED
  BY <1>1, LockInvCorrect, PTL

(* No permit is lost or made up, so that no request waits for a lock that  *)
(* nobody holds.                                                           *)
THEOREM PermitsAreConserved == LockSpec => []PermitConserved
<1>1. LockInv => PermitConserved
  BY DEF LockInv
<1>2. QED
  BY <1>1, LockInvCorrect, PTL

(* The queues list exactly the waiting requests, each once.                *)
THEOREM QueuesMatchHandles == LockSpec => []QueueMatchesHandles
<1>1. LockInv => QueueMatchesHandles
  BY DEF LockInv
<1>2. QED
  BY <1>1, LockInvCorrect, PTL

(* Requests enter in the order in which they came, and a newcomer never    *)
(* gets in before a request that waits.                                    *)
THEOREM LockServesInOrder == LockSpec => ServedInOrder
<1> DEFINE InOrder == \A r \in Requests :
               /\ handle[r] # "live"
               /\ handle'[r] = "live"
               /\ queue[LockOf[r]] # << >>
               => Head(queue[LockOf[r]]) = r
<1>1. LockInv /\ [LockNext]_lockVars => [InOrder]_lockVars
  <2> SUFFICES ASSUME LockInv, LockNext,
                      NEW r \in Requests,
                      handle[r] # "live",
                      handle'[r] = "live",
                      queue[LockOf[r]] # << >>
               PROVE  Head(queue[LockOf[r]]) = r
    BY DEF lockVars
  <2> USE DEF LockInv
  <2>1. LockOf[r] \in Locks /\ permits[LockOf[r]] = 0
    BY LockOfAssumption DEF PermitConserved
  <2>2. ASSUME NEW s \in Requests, Acquire(s)
        PROVE  Head(queue[LockOf[r]]) = r
    BY <2>1, <2>2 DEF Acquire, Wait, LockTypeOK
  <2>3. ASSUME NEW s \in Requests, CancelWait(s)
        PROVE  Head(queue[LockOf[r]]) = r
    BY <2>3 DEF CancelWait, LockTypeOK
  <2>4. ASSUME NEW s \in Requests, Dispose(s)
        PROVE  Head(queue[LockOf[r]]) = r
    <3>1. handle[s] = "live" /\ Release(LockOf[s], s)
      BY <2>4 DEF Dispose, lockVars
    <3>2. queue[LockOf[s]] # << >> /\ r = Head(queue[LockOf[s]])
      BY <3>1 DEF Release, LockTypeOK
    <3>3. LockOf[s] \in Locks /\ queue[LockOf[s]] \in Seq(Requests)
      BY LockOfAssumption DEF LockTypeOK
    <3>4. Listed(queue[LockOf[s]], r)
      BY <3>2, <3>3, LenProperties, EmptySeq DEF Listed
    <3>5. LockOf[r] = LockOf[s]
      BY <3>3, <3>4 DEF QueueMatchesHandles, Listed
    <3>6. QED
      BY <3>2, <3>5
  <2>5. QED
    BY <2>2, <2>3, <2>4 DEF LockNext
<1>2. QED
  BY <1>1, LockInvCorrect, PTL DEF LockSpec, ServedInOrder
=============================================================================
