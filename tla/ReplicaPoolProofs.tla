-------------------------- MODULE ReplicaPoolProofs --------------------------
(***************************************************************************)
(* Proofs about ReplicaPool, for any number of threads, tenants, replicas  *)
(* and queue positions.                                                    *)
(***************************************************************************)
EXTENDS ReplicaPool, QueueFacts

\* The conjunction of the invariants is inductive.
Inv == /\ TypeOK
       /\ LeaseOwnership
       /\ QueueMatchesCalls
       /\ ClosedPoolIsDrained

\* TypeOK without what it says of the queue.
TypesBesideQueue ==
    /\ available \subseteq Replicas
    /\ active \subseteq Replicas
    /\ lastTenant \in Keys
    /\ closed \in BOOLEAN
    /\ pc \in [Threads -> {"idle", "waiting", "running", "unwinding"}]
    /\ held \in [Threads -> SUBSET Replicas]
    /\ call \in [Threads -> [prefer : Replicas \cup {NoAffinity},
                             deadline : Deadlines]]
    /\ cancelled \subseteq Clients
    /\ closer \in {"none", "asleep", "notified", "returned"}
    /\ retired \in BOOLEAN

\* What TypeOK says of the queue.
QueueType == /\ waiters \in Seq([client : Threads, tenant : Keys])
             /\ Len(waiters) <= MaxQueue

LEMMA SplitTypes == TypeOK <=> TypesBesideQueue /\ QueueType
BY DEF TypeOK, TypesBesideQueue, QueueType

-----------------------------------------------------------------------------
(* The helpers of acquire.                                                 *)

LEMMA SelectIsAvailable ==
    ASSUME available \subseteq Replicas, available # {}, NEW p
    PROVE  Select(p) \in available
<1>1. Replicas \subseteq Nat
  BY PoolAssumption DEF Replicas
<1>2. Min(available) \in available
  BY <1>1, MinOfNaturals
<1>. QED
  BY <1>2 DEF Select

\* A blocked thread has exactly one ticket, which _remove_waiter removes.
LEMMA PositionOfWaiter ==
    ASSUME QueueType, QueueMatchesCalls, NEW c \in Threads, pc[c] = "waiting"
    PROVE  /\ Position(waiters, c) \in 1 .. Len(waiters)
           /\ waiters[Position(waiters, c)].client = c
           /\ waiters[Position(waiters, c)].tenant \in Keys
<1>1. DOMAIN waiters = 1 .. Len(waiters)
  BY DEF QueueType
<1>2. \E i \in DOMAIN waiters : waiters[i].client = c
  BY DEF QueueMatchesCalls
<1>3. /\ Position(waiters, c) \in DOMAIN waiters
      /\ waiters[Position(waiters, c)].client = c
  BY <1>2 DEF Position
<1>4. waiters[Position(waiters, c)] \in [client : Threads, tenant : Keys]
  <2>. HIDE DEF Position
  <2>. QED  BY <1>1, <1>3, ElementOfSeq DEF QueueType
<1>. QED
  BY <1>1, <1>3, <1>4

\* A thread that is not blocked starts or ends something: the queue is right
\* when nobody's ticket changes.
LEMMA StayStep ==
    ASSUME QueueType, QueueMatchesCalls, TypesBesideQueue,
           NEW c \in Threads, NEW x, pc[c] # "waiting", x # "waiting",
           UNCHANGED waiters, pc' = [pc EXCEPT ![c] = x]
    PROVE  QueueType' /\ QueueMatchesCalls'
BY DEF QueueType, QueueMatchesCalls, TypesBesideQueue

LEMMA LeaveStep ==
    ASSUME QueueType, QueueMatchesCalls, TypesBesideQueue,
           NEW c \in Threads, NEW x, pc[c] = "waiting", x # "waiting",
           Leave(c), pc' = [pc EXCEPT ![c] = x]
    PROVE  QueueType' /\ QueueMatchesCalls'
<1>. DEFINE n == Position(waiters, c)
            R == [client : Threads, tenant : Keys]
<1>1. n \in 1 .. Len(waiters) /\ waiters[n].client = c
  BY PositionOfWaiter
<1>2. waiters \in Seq(R) /\ Len(waiters) \in Nat /\ Len(waiters) <= MaxQueue
  BY DEF QueueType
<1>3. waiters' = RemoveAt(waiters, n)
  BY DEF Leave, Without
<1>. HIDE DEF n, R
<1>4. /\ waiters' \in Seq(R)
      /\ Len(waiters') = Len(waiters) - 1
      /\ \A j \in 1 .. Len(waiters) - 1 :
            waiters'[j] = IF j < n THEN waiters[j] ELSE waiters[j + 1]
  BY <1>1, <1>2, <1>3, RemoveAtFacts
<1>5. QueueType'
  BY <1>2, <1>4, PoolAssumption DEF QueueType, R
<1>6. /\ DOMAIN waiters = 1 .. Len(waiters)
      /\ DOMAIN waiters' = 1 .. Len(waiters) - 1
  BY <1>2, <1>4
<1>7. \A i, j \in 1 .. Len(waiters) :
         waiters[i].client = waiters[j].client => i = j
  BY <1>6 DEF QueueMatchesCalls
<1>8. ASSUME NEW i \in 1 .. Len(waiters) - 1, NEW j \in 1 .. Len(waiters) - 1,
             waiters'[i].client = waiters'[j].client
      PROVE  i = j
  BY <1>1, <1>2, <1>4, <1>7, <1>8
<1>9. ASSUME NEW d \in Threads
      PROVE  pc'[d] = "waiting"
                <=> \E i \in 1 .. Len(waiters) - 1 : waiters'[i].client = d
  <2>1. pc[d] = "waiting"
           <=> \E i \in 1 .. Len(waiters) : waiters[i].client = d
    BY <1>6 DEF QueueMatchesCalls
  <2>2. CASE d = c
    <3>1. pc'[d] # "waiting"
      BY <2>2 DEF TypesBesideQueue
    <3>2. ASSUME NEW i \in 1 .. Len(waiters) - 1
          PROVE  waiters'[i].client # c
      BY <1>1, <1>2, <1>4, <1>7
    <3>. QED  BY <2>2, <3>1, <3>2
  <2>3. CASE d # c
    <3>1. pc'[d] = pc[d]
      BY <2>3 DEF TypesBesideQueue
    <3>2. ASSUME NEW i \in 1 .. Len(waiters), waiters[i].client = d
          PROVE  \E j \in 1 .. Len(waiters) - 1 : waiters'[j].client = d
      <4>1. CASE i < n
        BY <1>1, <1>2, <1>4, <3>2, <4>1
      <4>2. CASE i > n
        <5>1. /\ i - 1 \in 1 .. Len(waiters) - 1
              /\ waiters'[i - 1] = waiters[i]
          BY <1>1, <1>2, <1>4, <4>2
        <5>. QED  BY <3>2, <5>1
      <4>3. i # n
        BY <1>1, <2>3, <3>2
      <4>4. i < n \/ i > n \/ i = n
        BY <1>1, <1>2
      <4>. QED  BY <4>1, <4>2, <4>3, <4>4
    <3>3. ASSUME NEW j \in 1 .. Len(waiters) - 1, waiters'[j].client = d
          PROVE  \E i \in 1 .. Len(waiters) : waiters[i].client = d
      <4>1. /\ j \in 1 .. Len(waiters) /\ j + 1 \in 1 .. Len(waiters)
            /\ waiters'[j] = waiters[j] \/ waiters'[j] = waiters[j + 1]
        BY <1>2, <1>4
      <4>. QED  BY <3>3, <4>1
    <3>. QED  BY <2>1, <3>1, <3>2, <3>3
  <2>. QED  BY <2>2, <2>3
<1>. QED
  BY <1>5, <1>6, <1>8, <1>9 DEF QueueMatchesCalls

LEMMA JoinStep ==
    ASSUME QueueType, QueueMatchesCalls, TypesBesideQueue,
           NEW c \in Threads, NEW t \in Keys, pc[c] # "waiting",
           Len(waiters) < MaxQueue,
           waiters' = Append(waiters, [client |-> c, tenant |-> t]),
           pc' = [pc EXCEPT ![c] = "waiting"]
    PROVE  QueueType' /\ QueueMatchesCalls'
<1>. DEFINE w == [client |-> c, tenant |-> t]
            R == [client : Threads, tenant : Keys]
<1>1. waiters \in Seq(R) /\ Len(waiters) \in Nat /\ w \in R /\ w.client = c
  BY DEF QueueType
<1>. HIDE DEF w, R
<1>2. /\ waiters' \in Seq(R)
      /\ Len(waiters') = Len(waiters) + 1
      /\ \A j \in 1 .. Len(waiters) : waiters'[j] = waiters[j]
      /\ waiters'[Len(waiters) + 1] = w
  BY <1>1 DEF w
<1>3. QueueType'
  BY <1>1, <1>2, PoolAssumption DEF QueueType, R
<1>4. /\ DOMAIN waiters = 1 .. Len(waiters)
      /\ DOMAIN waiters' = 1 .. Len(waiters) + 1
  BY <1>1, <1>2
<1>5. \A i \in 1 .. Len(waiters) : waiters[i].client # c
  BY <1>4 DEF QueueMatchesCalls
<1>6. \A i, j \in 1 .. Len(waiters) :
         waiters[i].client = waiters[j].client => i = j
  BY <1>4 DEF QueueMatchesCalls
<1>7. ASSUME NEW i \in 1 .. Len(waiters) + 1, NEW j \in 1 .. Len(waiters) + 1,
             waiters'[i].client = waiters'[j].client
      PROVE  i = j
  BY <1>1, <1>2, <1>5, <1>6, <1>7
<1>8. ASSUME NEW d \in Threads
      PROVE  pc'[d] = "waiting"
                <=> \E i \in 1 .. Len(waiters) + 1 : waiters'[i].client = d
  <2>1. pc[d] = "waiting"
           <=> \E i \in 1 .. Len(waiters) : waiters[i].client = d
    BY <1>4 DEF QueueMatchesCalls
  <2>2. CASE d = c
    <3>1. pc'[d] = "waiting"
      BY <2>2 DEF TypesBesideQueue
    <3>2. Len(waiters) + 1 \in 1 .. Len(waiters) + 1
      BY <1>1
    <3>. QED  BY <1>1, <1>2, <2>2, <3>1, <3>2
  <2>3. CASE d # c
    <3>1. pc'[d] = pc[d]
      BY <2>3 DEF TypesBesideQueue
    <3>2. \A i \in 1 .. Len(waiters) + 1 :
             i \in 1 .. Len(waiters) \/ i = Len(waiters) + 1
      BY <1>1
    <3>3. \A i \in 1 .. Len(waiters) : i \in 1 .. Len(waiters) + 1
      BY <1>1
    <3>. QED  BY <1>1, <1>2, <2>1, <2>3, <3>1, <3>2, <3>3
  <2>. QED  BY <2>2, <2>3
<1>. QED
  BY <1>3, <1>4, <1>7, <1>8 DEF QueueMatchesCalls

-----------------------------------------------------------------------------
(* The ends of acquire.                                                    *)

\* c is granted an available replica of an open pool.
LEMMA AdmitStep ==
    ASSUME TypesBesideQueue, LeaseOwnership, ClosedPoolIsDrained,
           NEW c \in Threads, NEW t \in Keys, NEW p,
           ~closed, available # {}, Admit(c, t, p)
    PROVE  /\ TypesBesideQueue'
           /\ LeaseOwnership'
           /\ ClosedPoolIsDrained'
           /\ pc' = [pc EXCEPT ![c] = "running"]
<1>. DEFINE r == Select(p)
<1>1. r \in available /\ r \in Replicas /\ r \notin active
  BY SelectIsAvailable DEF TypesBesideQueue, LeaseOwnership
<1>2. /\ available' = available \ {r}
      /\ active' = active \cup {r}
      /\ held' = [held EXCEPT ![c] = @ \cup {r}]
      /\ lastTenant' = t
      /\ pc' = [pc EXCEPT ![c] = "running"]
      /\ call' = [call EXCEPT ![c] = NoCall]
      /\ closer' = IF closer = "asleep" THEN "notified" ELSE closer
      /\ UNCHANGED <<closed, cancelled, retired>>
  BY DEF Admit, NotifyAll
<1>. HIDE DEF r
<1>3. TypesBesideQueue'
  <2>1. NoCall \in [prefer : Replicas \cup {NoAffinity}, deadline : Deadlines]
    BY DEF NoCall, Deadlines
  <2>. QED  BY <1>1, <1>2, <2>1 DEF TypesBesideQueue
<1>4. LeaseOwnership'
  <2>1. \A d \in Threads : r \notin held[d]
    BY <1>1 DEF LeaseOwnership
  <2>2. \A d \in Threads : held'[d] = IF d = c THEN held[c] \cup {r} ELSE held[d]
    BY <1>2 DEF TypesBesideQueue
  <2>3. /\ available' \cap active' = {}
        /\ available' \cup active' = Replicas
    BY <1>1, <1>2 DEF LeaseOwnership
  <2>4. \A s \in Replicas : s \in active' <=> \E d \in Threads : s \in held'[d]
    BY <1>1, <1>2, <2>2 DEF LeaseOwnership
  <2>5. \A d, e \in Threads : d # e => held'[d] \cap held'[e] = {}
    BY <2>1, <2>2 DEF LeaseOwnership
  <2>. QED  BY <2>3, <2>4, <2>5 DEF LeaseOwnership
<1>5. ClosedPoolIsDrained'
  BY <1>2 DEF ClosedPoolIsDrained
<1>. QED
  BY <1>2, <1>3, <1>4, <1>5

\* acquire raises: nothing but c and the notification of a closer changes.
LEMMA RefuseStep ==
    ASSUME TypesBesideQueue, LeaseOwnership, ClosedPoolIsDrained,
           NEW c \in Threads, Refuse(c), NotifyAll \/ UNCHANGED closer
    PROVE  /\ TypesBesideQueue'
           /\ LeaseOwnership'
           /\ ClosedPoolIsDrained'
           /\ \E x \in {"idle", "unwinding"} : pc' = [pc EXCEPT ![c] = x]
<1>1. NoCall \in [prefer : Replicas \cup {NoAffinity}, deadline : Deadlines]
  BY DEF NoCall, Deadlines
<1>2. closer' = closer \/ (closer = "asleep" /\ closer' = "notified")
  BY DEF NotifyAll
<1>3. TypesBesideQueue'
  BY <1>1, <1>2 DEF TypesBesideQueue, Refuse
<1>4. LeaseOwnership'
  BY DEF LeaseOwnership, Refuse
<1>5. ClosedPoolIsDrained'
  BY <1>2 DEF ClosedPoolIsDrained, Refuse
<1>6. \E x \in {"idle", "unwinding"} : pc' = [pc EXCEPT ![c] = x]
  BY DEF Refuse
<1>. QED
  BY <1>3, <1>4, <1>5, <1>6

-----------------------------------------------------------------------------
(* One lemma for each action.                                              *)

LEMMA AcquireInv ==
    ASSUME Inv, NEW c \in Threads, Acquire(c)
    PROVE  Inv'
<1>1. TypesBesideQueue /\ QueueType /\ pc[c] # "waiting"
  <2>1. pc[c] # "waiting"
    BY DEF Acquire, AcquireRefused, AcquireDirect, AcquireQueued, Calling
  <2>. QED  BY <2>1, SplitTypes DEF Inv
<1>2. CASE AcquireRefused(c)
  <2>1. /\ TypesBesideQueue' /\ LeaseOwnership' /\ ClosedPoolIsDrained'
        /\ \E x \in {"idle", "unwinding"} : pc' = [pc EXCEPT ![c] = x]
    BY <1>1, <1>2, RefuseStep DEF Inv, AcquireRefused
  <2>2. QueueType' /\ QueueMatchesCalls'
    BY <1>1, <1>2, <2>1, StayStep DEF Inv, AcquireRefused
  <2>. QED  BY <2>1, <2>2, SplitTypes DEF Inv, TypeOK, TypesBesideQueue, QueueType
<1>3. ASSUME NEW t \in Keys, NEW p \in Replicas \cup {NoAffinity},
             AcquireDirect(c, t, p)
      PROVE  Inv'
  <2>1. ~closed /\ available # {} /\ Admit(c, t, p) /\ UNCHANGED waiters
    BY <1>3 DEF AcquireDirect, MustQueue
  <2>2. /\ TypesBesideQueue' /\ LeaseOwnership' /\ ClosedPoolIsDrained'
        /\ pc' = [pc EXCEPT ![c] = "running"]
    BY <1>1, <2>1, AdmitStep DEF Inv
  <2>3. QueueType' /\ QueueMatchesCalls'
    BY <1>1, <2>1, <2>2, StayStep DEF Inv
  <2>. QED  BY <2>2, <2>3 DEF Inv, TypeOK, TypesBesideQueue, QueueType
<1>4. ASSUME NEW t \in Keys, NEW p \in Replicas \cup {NoAffinity},
             NEW d \in Deadlines, AcquireQueued(c, t, p, d)
      PROVE  Inv'
  <2>. DEFINE q == Append(waiters, [client |-> c, tenant |-> t])
  <2>1. CASE MyTurn(q, c) /\ Admit(c, t, p) /\ UNCHANGED waiters
    <3>1. ~closed /\ available # {}
      BY <1>4, <2>1 DEF AcquireQueued, MyTurn
    <3>2. /\ TypesBesideQueue' /\ LeaseOwnership' /\ ClosedPoolIsDrained'
          /\ pc' = [pc EXCEPT ![c] = "running"]
      BY <1>1, <2>1, <3>1, AdmitStep DEF Inv
    <3>3. QueueType' /\ QueueMatchesCalls'
      BY <1>1, <2>1, <3>2, StayStep DEF Inv
    <3>. QED  BY <3>2, <3>3 DEF Inv, TypeOK, TypesBesideQueue, QueueType
  <2>2. CASE Refuse(c) /\ NotifyAll /\ UNCHANGED waiters
    <3>1. /\ TypesBesideQueue' /\ LeaseOwnership' /\ ClosedPoolIsDrained'
          /\ \E x \in {"idle", "unwinding"} : pc' = [pc EXCEPT ![c] = x]
      BY <1>1, <2>2, RefuseStep DEF Inv
    <3>2. QueueType' /\ QueueMatchesCalls'
      BY <1>1, <2>2, <3>1, StayStep DEF Inv
    <3>. QED  BY <3>1, <3>2 DEF Inv, TypeOK, TypesBesideQueue, QueueType
  <2>3. CASE /\ waiters' = q
             /\ pc' = [pc EXCEPT ![c] = "waiting"]
             /\ call' = [call EXCEPT ![c] = [prefer |-> p, deadline |-> d]]
             /\ UNCHANGED <<available, active, lastTenant, closed, held,
                            cancelled, closer, retired>>
    <3>1. Len(waiters) < MaxQueue
      <4>1. Len(waiters) \in Nat /\ MaxQueue \in Nat
        BY PoolAssumption DEF Inv, TypeOK
      <4>. QED  BY <1>4, <4>1 DEF AcquireQueued, QueueFull
    <3>2. QueueType' /\ QueueMatchesCalls'
      BY <1>1, <2>3, <3>1, JoinStep DEF Inv
    <3>3. TypesBesideQueue'
      BY <1>1, <2>3 DEF TypesBesideQueue
    <3>4. LeaseOwnership' /\ ClosedPoolIsDrained'
      BY <2>3 DEF Inv, LeaseOwnership, ClosedPoolIsDrained
    <3>. QED  BY <3>2, <3>3, <3>4 DEF Inv, TypeOK, TypesBesideQueue, QueueType
  <2>. QED  BY <1>4, <2>1, <2>2, <2>3 DEF AcquireQueued
<1>. QED
  BY <1>2, <1>3, <1>4 DEF Acquire

LEMMA PollInv ==
    ASSUME Inv, NEW c \in Threads, Poll(c)
    PROVE  Inv'
<1>1. TypesBesideQueue /\ QueueType /\ pc[c] = "waiting" /\ Leave(c)
  BY SplitTypes DEF Inv, Poll, PollCancelled, PollClosed, PollAdmitted,
                    PollTimedOut
<1>2. CASE Refuse(c) /\ (NotifyAll \/ UNCHANGED closer)
  <2>1. /\ TypesBesideQueue' /\ LeaseOwnership' /\ ClosedPoolIsDrained'
        /\ \E x \in {"idle", "unwinding"} : pc' = [pc EXCEPT ![c] = x]
    BY <1>1, <1>2, RefuseStep DEF Inv
  <2>2. QueueType' /\ QueueMatchesCalls'
    BY <1>1, <2>1, LeaveStep DEF Inv
  <2>. QED  BY <2>1, <2>2 DEF Inv, TypeOK, TypesBesideQueue, QueueType
<1>3. CASE PollAdmitted(c)
  <2>. DEFINE t == waiters[Position(waiters, c)].tenant
  <2>1. t \in Keys
    BY <1>1, PositionOfWaiter DEF Inv
  <2>2. ~closed /\ available # {} /\ Admit(c, t, call[c].prefer)
    BY <1>3 DEF PollAdmitted, MyTurn
  <2>. HIDE DEF t
  <2>3. /\ TypesBesideQueue' /\ LeaseOwnership' /\ ClosedPoolIsDrained'
        /\ pc' = [pc EXCEPT ![c] = "running"]
    BY <1>1, <2>1, <2>2, AdmitStep DEF Inv
  <2>4. QueueType' /\ QueueMatchesCalls'
    BY <1>1, <2>3, LeaveStep DEF Inv
  <2>. QED  BY <2>3, <2>4 DEF Inv, TypeOK, TypesBesideQueue, QueueType
<1>. QED
  BY <1>2, <1>3 DEF Poll, PollCancelled, PollClosed, PollTimedOut

LEMMA ReleaseInv ==
    ASSUME Inv, NEW c \in Threads, Release(c)
    PROVE  Inv'
<1>1. TypesBesideQueue /\ QueueType /\ pc[c] # "waiting"
  BY SplitTypes DEF Inv, Release
<1>2. PICK r \in held[c] :
         /\ Free(r)
         /\ held' = [held EXCEPT ![c] = @ \ {r}]
         /\ pc' = [pc EXCEPT ![c] = IF held[c] = {r} THEN "idle" ELSE "unwinding"]
         /\ cancelled' = IF held[c] = {r} THEN cancelled \ {c} ELSE cancelled
  BY DEF Release
<1>3. /\ NotifyAll
      /\ UNCHANGED <<waiters, lastTenant, closed, call, retired>>
  BY DEF Release
<1>4. r \in Replicas /\ r \in active
  BY <1>1 DEF Inv, LeaseOwnership, TypesBesideQueue
<1>5. TypesBesideQueue'
  BY <1>1, <1>2, <1>3, <1>4 DEF TypesBesideQueue, Free, NotifyAll
<1>6. LeaseOwnership'
  <2>1. \A d \in Threads : held'[d] = IF d = c THEN held[c] \ {r} ELSE held[d]
    BY <1>1, <1>2 DEF TypesBesideQueue
  <2>2. \A d \in Threads : d # c => r \notin held[d]
    BY DEF Inv, LeaseOwnership
  <2>3. /\ available' \cap active' = {}
        /\ available' \cup active' = Replicas
    BY <1>2, <1>4 DEF Inv, LeaseOwnership, Free
  <2>4. \A s \in Replicas : s \in active' <=> \E d \in Threads : s \in held'[d]
    BY <1>2, <2>1, <2>2 DEF Inv, LeaseOwnership, Free
  <2>5. \A d, e \in Threads : d # e => held'[d] \cap held'[e] = {}
    BY <2>1 DEF Inv, LeaseOwnership
  <2>. QED  BY <2>3, <2>4, <2>5 DEF LeaseOwnership
<1>7. ClosedPoolIsDrained'
  BY <1>2, <1>3 DEF Inv, ClosedPoolIsDrained, Free, NotifyAll
<1>8. QueueType' /\ QueueMatchesCalls'
  BY <1>1, <1>2, <1>3, StayStep DEF Inv
<1>. QED
  BY <1>5, <1>6, <1>7, <1>8 DEF Inv, TypeOK, TypesBesideQueue, QueueType

\* The other actions change neither the queue nor a lease.
LEMMA OtherInv ==
    ASSUME Inv,
           \/ \E c \in Threads : Cancel(c) \/ DeadlinePasses(c)
           \/ Close \/ CloserWakes \/ TryCloseIdle
           \/ UNCHANGED vars
    PROVE  Inv'
<1>1. UNCHANGED <<available, active, waiters, lastTenant, pc, held>>
  BY DEF Cancel, DeadlinePasses, Close, CloserWakes, TryCloseIdle, vars
<1>2. LeaseOwnership' /\ QueueMatchesCalls'
  BY <1>1 DEF Inv, LeaseOwnership, QueueMatchesCalls
<1>3. TypesBesideQueue
  BY SplitTypes DEF Inv
<1>4. CASE \E c \in Threads : Cancel(c)
  BY <1>1, <1>2, <1>4 DEF Inv, TypeOK, ClosedPoolIsDrained, Cancel
<1>5. CASE \E c \in Threads : DeadlinePasses(c)
  <2>1. TypesBesideQueue'
    BY <1>3, <1>5 DEF TypesBesideQueue, DeadlinePasses, Deadlines
  <2>. QED
    BY <1>1, <1>2, <1>5, <2>1
    DEF Inv, TypeOK, TypesBesideQueue, ClosedPoolIsDrained, DeadlinePasses
<1>6. CASE Close
  BY <1>1, <1>2, <1>6 DEF Inv, TypeOK, ClosedPoolIsDrained, Close
<1>7. CASE CloserWakes
  BY <1>1, <1>2, <1>7 DEF Inv, TypeOK, ClosedPoolIsDrained, CloserWakes
<1>8. CASE TryCloseIdle
  BY <1>1, <1>2, <1>8 DEF Inv, TypeOK, ClosedPoolIsDrained, TryCloseIdle, NotifyAll
<1>9. CASE UNCHANGED vars
  BY <1>1, <1>2, <1>9 DEF Inv, TypeOK, ClosedPoolIsDrained, vars
<1>. QED
  BY <1>4, <1>5, <1>6, <1>7, <1>8, <1>9

-----------------------------------------------------------------------------
(* The theorems.                                                           *)

LEMMA InitInv == Init => Inv
<1>. SUFFICES ASSUME Init PROVE Inv
  OBVIOUS
<1>1. TypesBesideQueue
  <2>1. NoCall \in [prefer : Replicas \cup {NoAffinity}, deadline : Deadlines]
    BY DEF NoCall, Deadlines
  <2>. QED  BY <2>1 DEF Init, TypesBesideQueue, Keys
<1>2. QueueType
  BY PoolAssumption, EmptySeq DEF Init, QueueType
<1>. QED
  BY <1>1, <1>2, SplitTypes
  DEF Init, Inv, LeaseOwnership, QueueMatchesCalls, ClosedPoolIsDrained

LEMMA NextInv == Inv /\ [Next]_vars => Inv'
<1>. SUFFICES ASSUME Inv, [Next]_vars PROVE Inv'
  OBVIOUS
<1>1. ASSUME NEW c \in Threads, Acquire(c) PROVE Inv'
  BY <1>1, AcquireInv
<1>2. ASSUME NEW c \in Threads, Poll(c) PROVE Inv'
  BY <1>2, PollInv
<1>3. ASSUME NEW c \in Threads, Release(c) PROVE Inv'
  BY <1>3, ReleaseInv
<1>4. CASE \/ \E c \in Threads : Cancel(c) \/ DeadlinePasses(c)
           \/ Close \/ CloserWakes \/ TryCloseIdle
           \/ UNCHANGED vars
  BY <1>4, OtherInv
<1>. QED
  BY <1>1, <1>2, <1>3, <1>4 DEF Next

LEMMA PoolInvariant == Spec => []Inv
BY InitInv, NextInv, PTL DEF Spec

\* The variables of a pool always have their types, and the queue never
\* exceeds max_queue.
THEOREM PoolTypeCorrect == Spec => []TypeOK
<1>1. Inv => TypeOK
  BY DEF Inv
<1>. QED  BY <1>1, PoolInvariant, PTL

\* No replica is ever leased twice or lost.
THEOREM PoolLeasesAreExclusive == Spec => []LeaseOwnership
<1>1. Inv => LeaseOwnership
  BY DEF Inv
<1>. QED  BY <1>1, PoolInvariant, PTL

\* The queue holds the tickets of the blocked calls and no others.
THEOREM PoolQueueIsExact == Spec => []QueueMatchesCalls
<1>1. Inv => QueueMatchesCalls
  BY DEF Inv
<1>. QED  BY <1>1, PoolInvariant, PTL

\* When close or try_close_idle reports success no lease is or will be out.
THEOREM PoolCloseIsFinal == Spec => []ClosedPoolIsDrained
<1>1. Inv => ClosedPoolIsDrained
  BY DEF Inv
<1>. QED  BY <1>1, PoolInvariant, PTL

-----------------------------------------------------------------------------
(* Fairness of the queue.                                                  *)

\* What _next_waiter_ticket chooses.
LEMMA TurnFacts ==
    ASSUME NEW R, NEW q \in Seq(R), q # <<>>, NEW last
    PROVE  LET k == NextInTurn(q, last)
           IN  /\ k \in 1 .. Len(q)
               /\ \/ k = 1 /\ \A i \in 1 .. Len(q) : q[i].tenant = last
                  \/ /\ q[k].tenant # last
                     /\ \A i \in 1 .. k - 1 : q[i].tenant = last
<1>. DEFINE others == {i \in DOMAIN q : q[i].tenant # last}
            k == NextInTurn(q, last)
<1>1. Len(q) \in Nat /\ DOMAIN q = 1 .. Len(q) /\ 1 \in 1 .. Len(q)
  BY EmptySeq
<1>2. k = IF others = {} THEN 1 ELSE Min(others)
  BY DEF NextInTurn
<1>3. CASE others = {}
  <2>1. k = 1
    BY <1>2, <1>3
  <2>2. \A i \in 1 .. Len(q) : q[i].tenant = last
    BY <1>1, <1>3
  <2>. HIDE DEF k
  <2>. QED  BY <1>1, <2>1, <2>2 DEF k
<1>4. CASE others # {}
  <2>1. others \subseteq Nat
    BY <1>1
  <2>2. k \in others /\ \A i \in others : k <= i
    <3>. HIDE DEF others
    <3>. QED  BY <1>2, <1>4, <2>1, MinOfNaturals
  <2>3. k \in 1 .. Len(q) /\ q[k].tenant # last
    BY <1>1, <2>2
  <2>. HIDE DEF k
  <2>4. ASSUME NEW i \in 1 .. k - 1
        PROVE  q[i].tenant = last
    <3>1. i \in 1 .. Len(q) /\ ~ (k <= i)
      BY <1>1, <2>3
    <3>. QED  BY <1>1, <2>2, <3>1
  <2>. QED  BY <2>3, <2>4 DEF k
<1>. QED
  BY <1>3, <1>4

\* The three ways to be admitted: with nobody waiting, by overtaking on
\* arrival, and from the queue.  The first two leave the queue as it is.
AdmittedOnArrival(c) ==
    /\ waiters' = waiters
    /\ \/ waiters = <<>>
       \/ LET q == Append(waiters, [client |-> c, tenant |-> lastTenant'])
          IN  q[NextInTurn(q, lastTenant)].client = c

AdmittedFromQueue(c) ==
    LET k == Position(waiters, c)
    IN  /\ pc[c] = "waiting"
        /\ waiters[NextInTurn(waiters, lastTenant)].client = c
        /\ lastTenant' = waiters[k].tenant
        /\ waiters' = RemoveAt(waiters, k)

LEMMA WaysToBeAdmitted ==
    ASSUME Inv, [Next]_vars, NEW c \in Threads, Admits(c)
    PROVE  (AdmittedOnArrival(c) /\ pc[c] # "waiting") \/ AdmittedFromQueue(c)
<1>1. held \in [Threads -> SUBSET Replicas]
  BY DEF Inv, TypeOK
<1>2. ASSUME NEW d \in Threads, NEW t, NEW p, Admit(d, t, p)
      PROVE  d = c /\ lastTenant' = t
  BY <1>1, <1>2 DEF Admit, Admits
<1>3. ASSUME UNCHANGED held PROVE FALSE
  BY <1>3 DEF Admits
<1>4. ASSUME NEW d \in Threads, Acquire(d)
      PROVE  AdmittedOnArrival(c) /\ pc[c] # "waiting"
  <2>1. CASE AcquireRefused(d)
    BY <1>3, <2>1 DEF AcquireRefused, Refuse
  <2>2. ASSUME NEW t \in Keys, NEW p, AcquireDirect(d, t, p)
        PROVE  AdmittedOnArrival(c) /\ pc[c] # "waiting"
    BY <1>2, <2>2 DEF AcquireDirect, MustQueue, AdmittedOnArrival, Calling
  <2>3. ASSUME NEW t \in Keys, NEW p, NEW e, AcquireQueued(d, t, p, e)
        PROVE  AdmittedOnArrival(c) /\ pc[c] # "waiting"
    <3>. DEFINE q == Append(waiters, [client |-> d, tenant |-> t])
    <3>1. CASE MyTurn(q, d) /\ Admit(d, t, p) /\ UNCHANGED waiters
      <4>1. d = c /\ lastTenant' = t
        BY <1>2, <3>1
      <4>2. pc[c] # "waiting"
        BY <2>3, <4>1 DEF AcquireQueued, Calling
      <4>. QED  BY <3>1, <4>1, <4>2 DEF MyTurn, AdmittedOnArrival
    <3>2. CASE UNCHANGED held
      BY <1>3, <3>2
    <3>. QED  BY <2>3, <3>1, <3>2 DEF AcquireQueued, Refuse
  <2>. QED  BY <1>4, <2>1, <2>2, <2>3 DEF Acquire
<1>5. ASSUME NEW d \in Threads, Poll(d)
      PROVE  AdmittedFromQueue(c)
  <2>1. CASE PollAdmitted(d)
    <3>1. d = c /\ lastTenant' = waiters[Position(waiters, d)].tenant
      BY <1>2, <2>1 DEF PollAdmitted
    <3>. QED
      BY <1>5, <2>1, <3>1
      DEF Poll, PollAdmitted, Leave, Without, MyTurn, AdmittedFromQueue
  <2>2. CASE UNCHANGED held
    BY <1>3, <2>2
  <2>. QED
    BY <1>5, <2>1, <2>2 DEF Poll, PollCancelled, PollClosed, PollTimedOut, Refuse
<1>6. ASSUME NEW d \in Threads, Release(d) PROVE FALSE
  <2>1. PICK r \in held[d] : held' = [held EXCEPT ![d] = @ \ {r}]
    BY <1>6 DEF Release
  <2>. QED  BY <1>1, <2>1 DEF Admits
<1>7. CASE \/ \E d \in Threads : Cancel(d) \/ DeadlinePasses(d)
           \/ Close \/ CloserWakes \/ TryCloseIdle
           \/ UNCHANGED vars
  BY <1>3, <1>7 DEF Cancel, DeadlinePasses, Close, CloserWakes, TryCloseIdle, vars
<1>. QED
  BY <1>4, <1>5, <1>6, <1>7 DEF Next

\* The place in the queue of the admitted call: its tenant differs from the
\* last one unless everybody in the queue has the last tenant.
LEMMA ArrivalTurn ==
    ASSUME Inv, NEW c \in Threads, AdmittedOnArrival(c), pc[c] # "waiting",
           waiters # <<>>
    PROVE  /\ \A i \in 1 .. Len(waiters) : waiters[i].tenant = lastTenant
           /\ lastTenant' # lastTenant
<1>. DEFINE w == [client |-> c, tenant |-> lastTenant']
            q == Append(waiters, w)
            k == NextInTurn(q, lastTenant)
            n == Len(waiters)
            R == [client : Threads, tenant : Keys] \cup {w}
<1>1. waiters \in Seq(R) /\ n \in Nat \ {0}
  <2>1. waiters \in Seq([client : Threads, tenant : Keys])
    BY DEF Inv, TypeOK
  <2>2. waiters \in Seq(R)
    BY <2>1, SeqMonotonic
  <2>. HIDE DEF R
  <2>. QED  BY <2>2, EmptySeq
<1>2. w \in R /\ w.client = c /\ w.tenant = lastTenant'
  OBVIOUS
<1>3. q[k].client = c
  BY DEF AdmittedOnArrival
<1>4. \A i \in 1 .. n : waiters[i].client # c
  <2>1. DOMAIN waiters = 1 .. n
    BY <1>1
  <2>. QED  BY <2>1 DEF Inv, QueueMatchesCalls
<1>. HIDE DEF w, R
<1>5. /\ q \in Seq(R) /\ Len(q) = n + 1 /\ q # <<>>
      /\ \A i \in 1 .. n : q[i] = waiters[i]
      /\ q[n + 1] = w
  BY <1>1, <1>2
<1>. HIDE DEF q, n
<1>6. /\ k \in 1 .. n + 1
      /\ \/ k = 1 /\ \A i \in 1 .. n + 1 : q[i].tenant = lastTenant
         \/ /\ q[k].tenant # lastTenant
            /\ \A i \in 1 .. k - 1 : q[i].tenant = lastTenant
  BY <1>5, TurnFacts
<1>. HIDE DEF k
<1>7. k = n + 1
  <2>1. k \notin 1 .. n
    BY <1>3, <1>4, <1>5
  <2>. QED  BY <1>1, <1>6, <2>1
<1>8. q[k].tenant # lastTenant /\ \A i \in 1 .. n : q[i].tenant = lastTenant
  BY <1>1, <1>6, <1>7
<1>. QED
  BY <1>2, <1>5, <1>7, <1>8 DEF n

LEMMA QueueTurn ==
    ASSUME Inv, NEW c \in Threads, AdmittedFromQueue(c)
    PROVE  LET k == Position(waiters, c)
           IN  /\ k \in 1 .. Len(waiters)
               /\ waiters[k].client = c
               /\ lastTenant' = waiters[k].tenant
               /\ waiters' = RemoveAt(waiters, k)
               /\ \/ /\ k = 1
                     /\ \A i \in 1 .. Len(waiters) : waiters[i].tenant = lastTenant
                  \/ /\ lastTenant' # lastTenant
                     /\ \A i \in 1 .. k - 1 : waiters[i].tenant = lastTenant
<1>. DEFINE k == Position(waiters, c)
            m == NextInTurn(waiters, lastTenant)
<1>1. QueueType /\ QueueMatchesCalls /\ pc[c] = "waiting"
  BY SplitTypes DEF Inv, AdmittedFromQueue
<1>2. k \in 1 .. Len(waiters) /\ waiters[k].client = c
  BY <1>1, PositionOfWaiter
<1>3. /\ waiters[m].client = c
      /\ lastTenant' = waiters[k].tenant
      /\ waiters' = RemoveAt(waiters, k)
  BY DEF AdmittedFromQueue
<1>4. /\ waiters \in Seq([client : Threads, tenant : Keys])
      /\ DOMAIN waiters = 1 .. Len(waiters)
      /\ waiters # <<>>
  BY <1>1, <1>2 DEF QueueType
<1>. HIDE DEF k
<1>5. /\ m \in 1 .. Len(waiters)
      /\ \/ m = 1 /\ \A i \in 1 .. Len(waiters) : waiters[i].tenant = lastTenant
         \/ /\ waiters[m].tenant # lastTenant
            /\ \A i \in 1 .. m - 1 : waiters[i].tenant = lastTenant
  BY <1>4, TurnFacts
<1>. HIDE DEF m
<1>6. m = k
  BY <1>1, <1>2, <1>3, <1>4, <1>5 DEF QueueMatchesCalls
<1>. QED
  BY <1>2, <1>3, <1>5, <1>6 DEF k

\* A tenant gets two turns in a row only when nobody else waits.
THEOREM PoolTenantsAlternate == Spec => TenantsAlternate
<1>1. ASSUME Inv, [Next]_vars, NEW c \in Threads, Admits(c),
             lastTenant' = lastTenant, NEW i \in DOMAIN waiters
      PROVE  waiters[i].tenant = lastTenant
  <2>1. waiters # <<>> /\ i \in 1 .. Len(waiters) /\ Len(waiters) \in Nat
    BY <1>1 DEF Inv, TypeOK
  <2>2. CASE AdmittedOnArrival(c) /\ pc[c] # "waiting"
    BY <1>1, <2>1, <2>2, ArrivalTurn
  <2>3. CASE AdmittedFromQueue(c)
    BY <1>1, <2>1, <2>3, QueueTurn
  <2>. QED  BY <1>1, <2>2, <2>3, WaysToBeAdmitted
<1>2. Inv /\ [Next]_vars =>
         [\A c \in Threads : Admits(c) /\ lastTenant' = lastTenant =>
             \A i \in DOMAIN waiters : waiters[i].tenant = lastTenant]_vars
  BY <1>1
<1>. QED
  BY <1>2, PoolInvariant, PTL DEF Spec, TenantsAlternate

\* Calls of one tenant are admitted in the order of their tickets.
THEOREM PoolTenantFIFO == Spec => TenantFIFO
<1>1. ASSUME Inv, [Next]_vars, NEW c \in Threads, Admits(c),
             NEW i \in DOMAIN waiters, waiters[i].tenant = lastTenant'
      PROVE  \E j \in 1 .. i : waiters[j].client = c
  <2>1. waiters # <<>> /\ i \in 1 .. Len(waiters) /\ Len(waiters) \in Nat
    BY <1>1 DEF Inv, TypeOK
  <2>2. CASE AdmittedOnArrival(c) /\ pc[c] # "waiting"
    BY <1>1, <2>1, <2>2, ArrivalTurn
  <2>3. CASE AdmittedFromQueue(c)
    <3>. DEFINE k == Position(waiters, c)
    <3>1. /\ k \in 1 .. Len(waiters)
          /\ waiters[k].client = c
          /\ k = 1 \/ (/\ lastTenant' # lastTenant
                       /\ \A h \in 1 .. k - 1 : waiters[h].tenant = lastTenant)
      BY <1>1, <2>3, QueueTurn
    <3>. HIDE DEF k
    <3>2. k <= i
      BY <1>1, <2>1, <3>1
    <3>. QED  BY <2>1, <3>1, <3>2
  <2>. QED  BY <1>1, <2>2, <2>3, WaysToBeAdmitted
<1>2. Inv /\ [Next]_vars =>
         [\A c \in Threads : Admits(c) =>
             \A i \in DOMAIN waiters :
                waiters[i].tenant = lastTenant' =>
                   \E j \in 1 .. i : waiters[j].client = c]_vars
  BY <1>1
<1>. QED
  BY <1>2, PoolInvariant, PTL DEF Spec, TenantFIFO

\* The oldest waiting call is passed over at most once in a row.
THEOREM PoolHeadBypassedOnce == Spec => HeadBypassedOnce
<1>1. ASSUME Inv, [Next]_vars, NEW c \in Threads, Admits(c),
             waiters # <<>>, waiters' # <<>>, Head(waiters') = Head(waiters)
      PROVE  Head(waiters).tenant = lastTenant /\ lastTenant' # lastTenant
  <2>. DEFINE R == [client : Threads, tenant : Keys]
  <2>1. Inv'
    BY <1>1, NextInv
  <2>2. /\ waiters \in Seq(R) /\ waiters' \in Seq(R)
        /\ Len(waiters) \in Nat \ {0} /\ Len(waiters') \in Nat \ {0}
    BY <1>1, <2>1, EmptySeq DEF Inv, TypeOK
  <2>. HIDE DEF R
  <2>3. waiters'[1] = waiters[1]
    BY <1>1, <2>2
  <2>4. waiters[1].tenant = lastTenant /\ lastTenant' # lastTenant
    <3>1. CASE AdmittedOnArrival(c) /\ pc[c] # "waiting"
      BY <1>1, <2>2, <3>1, ArrivalTurn
    <3>2. CASE AdmittedFromQueue(c)
      <4>. DEFINE k == Position(waiters, c)
      <4>1. /\ k \in 1 .. Len(waiters)
            /\ waiters[k].client = c
            /\ waiters' = RemoveAt(waiters, k)
            /\ k = 1 \/ (/\ lastTenant' # lastTenant
                         /\ \A h \in 1 .. k - 1 : waiters[h].tenant = lastTenant)
        BY <1>1, <3>2, QueueTurn
      <4>. HIDE DEF k
      <4>2. /\ Len(waiters') = Len(waiters) - 1
            /\ \A j \in 1 .. Len(waiters) - 1 :
                  waiters'[j] = IF j < k THEN waiters[j] ELSE waiters[j + 1]
        BY <2>2, <4>1, RemoveAtFacts
      <4>3. ASSUME k = 1 PROVE FALSE
        <5>1. waiters[1].client = waiters[2].client /\ 2 \in 1 .. Len(waiters)
          BY <2>2, <2>3, <4>2, <4>3
        <5>2. DOMAIN waiters = 1 .. Len(waiters)
          BY <2>2
        <5>. QED  BY <1>1, <2>2, <5>1, <5>2 DEF Inv, QueueMatchesCalls
      <4>. QED  BY <2>2, <4>1, <4>3
    <3>. QED  BY <1>1, <3>1, <3>2, WaysToBeAdmitted
  <2>5. Head(waiters) = waiters[1]
    BY <1>1, <2>2
  <2>. QED  BY <2>4, <2>5
<1>2. Inv /\ [Next]_vars =>
         [ (/\ \E c \in Threads : Admits(c)
            /\ waiters # <<>> /\ waiters' # <<>>
            /\ Head(waiters') = Head(waiters))
           => /\ Head(waiters).tenant = lastTenant
              /\ lastTenant' # lastTenant ]_vars
  BY <1>1
<1>. QED
  BY <1>2, PoolInvariant, PTL DEF Spec, HeadBypassedOnce

-----------------------------------------------------------------------------
(* The pool implements LeaseAllocator.                                     *)

\* The refinement mapping names the thread that holds a replica.
OwnerIsHolder ==
    /\ DOMAIN owner = Replicas
    /\ \A r \in Replicas :
          IF r \in active THEN owner[r] \in Threads /\ r \in held[owner[r]]
                          ELSE owner[r] = Nobody

LEMMA OwnerFacts == Inv => OwnerIsHolder
<1>. SUFFICES ASSUME Inv, NEW r \in Replicas, r \in active
              PROVE  owner[r] \in Threads /\ r \in held[owner[r]]
  BY DEF OwnerIsHolder, owner
<1>1. \E c \in Threads : r \in held[c]
  BY DEF Inv, LeaseOwnership
<1>2. owner[r] = CHOOSE c \in Threads : r \in held[c]
  BY DEF owner
<1>. QED  BY <1>1, <1>2

LEMMA AllFreeFacts ==
    ASSUME Inv
    PROVE  Allocator!AllFree <=> active = {}
<1>1. OwnerIsHolder
  BY OwnerFacts
<1>2. Nobody \notin Threads
  BY PoolAssumption DEF Threads
<1>. QED
  BY <1>1, <1>2 DEF Allocator!AllFree, OwnerIsHolder, Inv, TypeOK

\* An admission is a Grant.
LEMMA AdmitRefines ==
    ASSUME Inv, OwnerIsHolder, OwnerIsHolder', Inv', NEW c \in Threads,
           NEW t, NEW p, ~closed, available # {}, Admit(c, t, p)
    PROVE  \E r \in Replicas : Allocator!Grant(c, r)
<1>. DEFINE r == Select(p)
<1>1. r \in Replicas /\ r \notin active
  BY SelectIsAvailable DEF Inv, TypeOK, LeaseOwnership
<1>2. /\ active' = active \cup {r}
      /\ held' = [held EXCEPT ![c] = @ \cup {r}]
      /\ closer' = IF closer = "asleep" THEN "notified" ELSE closer
      /\ UNCHANGED <<closed, retired>>
  BY DEF Admit, NotifyAll
<1>. HIDE DEF r
<1>3. \A d \in Threads : held'[d] = IF d = c THEN held[c] \cup {r} ELSE held[d]
  BY <1>2 DEF Inv, TypeOK
<1>4. ASSUME NEW s \in Replicas
      PROVE  owner'[s] = IF s = r THEN c ELSE owner[s]
  <2>1. CASE s = r
    BY <1>1, <1>2, <1>3, <2>1 DEF OwnerIsHolder, Inv, LeaseOwnership
  <2>2. CASE s # r /\ s \in active
    BY <1>2, <1>3, <2>2 DEF OwnerIsHolder, Inv, LeaseOwnership
  <2>3. CASE s # r /\ s \notin active
    BY <1>2, <2>3 DEF OwnerIsHolder
  <2>. QED  BY <2>1, <2>2, <2>3
<1>5. owner' = [owner EXCEPT ![r] = c]
  <2>1. owner' = [s \in Replicas |-> owner'[s]] /\ owner = [s \in Replicas |-> owner[s]]
    BY DEF owner
  <2>. HIDE DEF owner
  <2>. QED  BY <1>1, <1>4, <2>1
<1>6. owner[r] = Nobody
  BY <1>1 DEF OwnerIsHolder
<1>. QED
  BY <1>1, <1>2, <1>5, <1>6 DEF Allocator!Grant

\* A release is a Return.
LEMMA ReleaseRefines ==
    ASSUME Inv, OwnerIsHolder, OwnerIsHolder', Inv', NEW c \in Threads, Release(c)
    PROVE  \E r \in Replicas : Allocator!Return(r)
<1>1. PICK r \in held[c] : Free(r) /\ held' = [held EXCEPT ![c] = @ \ {r}]
  BY DEF Release
<1>2. /\ closer' = IF closer = "asleep" THEN "notified" ELSE closer
      /\ UNCHANGED <<closed, retired>>
  BY DEF Release, NotifyAll
<1>3. r \in Replicas /\ r \in active
  BY <1>1 DEF Inv, TypeOK, LeaseOwnership
<1>4. \A d \in Threads : held'[d] = IF d = c THEN held[c] \ {r} ELSE held[d]
  BY <1>1 DEF Inv, TypeOK
<1>5. ASSUME NEW s \in Replicas
      PROVE  owner'[s] = IF s = r THEN Nobody ELSE owner[s]
  <2>1. CASE s = r
    BY <1>1, <2>1 DEF OwnerIsHolder, Free
  <2>2. CASE s # r /\ s \in active
    BY <1>1, <1>4, <2>2 DEF OwnerIsHolder, Inv, LeaseOwnership, Free
  <2>3. CASE s # r /\ s \notin active
    BY <1>1, <2>3 DEF OwnerIsHolder, Free
  <2>. QED  BY <2>1, <2>2, <2>3
<1>6. owner' = [owner EXCEPT ![r] = Nobody]
  <2>1. owner' = [s \in Replicas |-> owner'[s]] /\ owner = [s \in Replicas |-> owner[s]]
    BY DEF owner
  <2>. HIDE DEF owner
  <2>. QED  BY <1>3, <1>5, <2>1
<1>7. owner[r] # Nobody
  BY <1>3, PoolAssumption DEF OwnerIsHolder, Threads
<1>. QED
  BY <1>2, <1>3, <1>6, <1>7 DEF Allocator!Return

\* Nothing the allocator sees changes.
LEMMA QuietStep ==
    ASSUME UNCHANGED <<active, held, closed, retired>>,
           closer' = closer \/ NotifyAll
    PROVE  UNCHANGED <<owner, ~closed, retired \/ closer = "returned">>
BY DEF owner, NotifyAll

LEMMA NextRefines ==
    ASSUME Inv, OwnerIsHolder, OwnerIsHolder', Inv', [Next]_vars
    PROVE  [Allocator!Next]_(Allocator!vars)
<1>. DEFINE Quiet == /\ UNCHANGED <<active, held, closed, retired>>
                     /\ closer' = closer \/ NotifyAll
<1>1. Quiet => UNCHANGED Allocator!vars
  BY QuietStep DEF Allocator!vars
<1>2. ASSUME NEW c \in Threads, NEW t, NEW p, ~closed, available # {},
             Admit(c, t, p)
      PROVE  Allocator!Next
  BY <1>2, AdmitRefines DEF Allocator!Next
<1>3. ASSUME NEW c \in Threads, Acquire(c)
      PROVE  Allocator!Next \/ Quiet
  <2>1. CASE AcquireRefused(c)
    BY <2>1 DEF AcquireRefused, Refuse
  <2>2. ASSUME NEW t \in Keys, NEW p, AcquireDirect(c, t, p)
        PROVE  Allocator!Next
    BY <1>2, <2>2 DEF AcquireDirect, MustQueue
  <2>3. ASSUME NEW t \in Keys, NEW p, NEW d, AcquireQueued(c, t, p, d)
        PROVE  Allocator!Next \/ Quiet
    <3>1. \/ ~closed /\ available # {} /\ Admit(c, t, p)
          \/ Refuse(c) /\ NotifyAll
          \/ UNCHANGED <<active, held, closed, retired, closer>>
      BY <2>3 DEF AcquireQueued, MyTurn
    <3>. QED  BY <1>2, <3>1 DEF Refuse
  <2>. QED  BY <1>3, <2>1, <2>2, <2>3 DEF Acquire
<1>4. ASSUME NEW c \in Threads, Poll(c)
      PROVE  Allocator!Next \/ Quiet
  <2>1. CASE PollAdmitted(c)
    BY <1>2, <2>1 DEF PollAdmitted, MyTurn
  <2>. QED
    BY <1>4, <2>1 DEF Poll, PollCancelled, PollClosed, PollTimedOut, Refuse
<1>5. ASSUME NEW c \in Threads, Release(c)
      PROVE  Allocator!Next
  BY <1>5, ReleaseRefines DEF Allocator!Next
<1>6. ASSUME NEW c \in Threads, Cancel(c) \/ DeadlinePasses(c)
      PROVE  Quiet
  BY <1>6 DEF Cancel, DeadlinePasses
<1>7. ASSUME Close \/ CloserWakes \/ TryCloseIdle
      PROVE  Allocator!Next \/ UNCHANGED Allocator!vars
  <2>1. Allocator!AllFree <=> active = {}
    BY AllFreeFacts
  <2>2. UNCHANGED owner
    <3>1. UNCHANGED <<active, held>>
      BY <1>7 DEF Close, CloserWakes, TryCloseIdle
    <3>. QED  BY <3>1 DEF owner
  <2>3. closer # "none" => closed
    BY DEF Inv, ClosedPoolIsDrained
  <2>. HIDE DEF owner
  <2>4. CASE Close
    BY <2>1, <2>2, <2>4 DEF Close, Allocator!Next, Allocator!Shut
  <2>5. CASE CloserWakes
    BY <2>1, <2>2, <2>3, <2>5
    DEF CloserWakes, Allocator!Next, Allocator!Shut, Allocator!vars
  <2>6. CASE TryCloseIdle
    BY <2>1, <2>2, <2>6 DEF TryCloseIdle, Allocator!Next, Allocator!Shut
  <2>. QED  BY <1>7, <2>4, <2>5, <2>6
<1>8. ASSUME UNCHANGED vars
      PROVE  Quiet
  BY <1>8 DEF vars
<1>. HIDE DEF Quiet
<1>. QED
  BY <1>1, <1>3, <1>4, <1>5, <1>6, <1>7, <1>8 DEF Next

\* Every behaviour of the pool is, seen through the leases, a behaviour of
\* the abstract allocator.
THEOREM PoolImplementsAllocator == Spec => ImplementsAllocator
<1>1. Init => Allocator!Init
  BY DEF Init, Allocator!Init, owner
<1>2. Inv => OwnerIsHolder
  BY OwnerFacts
<1>3. Inv /\ OwnerIsHolder /\ OwnerIsHolder' /\ Inv' /\ [Next]_vars
         => [Allocator!Next]_(Allocator!vars)
  BY NextRefines
<1>. QED
  BY <1>1, <1>2, <1>3, PoolInvariant, PTL
  DEF Spec, ImplementsAllocator, Allocator!Spec

=============================================================================
