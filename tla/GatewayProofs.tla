--------------------------- MODULE GatewayProofs ---------------------------
(***************************************************************************)
(* Whom the gateway admits, what it spends and how a request comes by its  *)
(* answer (RequestLifecycle, ProviderBudget, HostPool, ChatDelivery,       *)
(* GenerationRun, StreamBlocks, ToolTextStream), proved for any threads,   *)
(* keys, providers, hosts, windows, limits and texts. A component moves    *)
(* only in its own part of a behaviour, so its invariant is proved of its  *)
(* own actions and the others leave its variables alone.                   *)
(***************************************************************************)
EXTENDS MCGateway, QueueFacts, FiniteSetTheorems, TLAPS

-----------------------------------------------------------------------------
(* Admission and registry (RequestLifecycle).                              *)

Tables == [RL!Kinds -> [RL!Statuses -> Nat]]

\* What the type invariant of the component leaves out.
LifecycleTypes ==
    /\ RL!TypeOK
    /\ requests \in [Principals -> Seq(0 .. MaxTime)]
    /\ admitted \in [Principals -> Seq(0 .. MaxTime)]
    /\ totals \in Tables
    /\ traces \in [RL!Statuses -> Nat]
    /\ clock \in 0 .. MaxTime
    /\ latest \in 0 .. MaxTime

\* Until an operation has ended its status is the one it starts with, and
\* only a chat has a slot and a trace.
StagesFit ==
    \A t \in Threads :
        /\ thread[t] \in {"idle", "slot", "begin", "running"} => status[t] = "failed"
        /\ thread[t] \in {"slot", "leave", "trace"} => call[t].kind = "chat"

SlotsAreCounted ==
    \A p \in Principals :
        /\ active[p] = Cardinality(RL!InSlot(p))
        /\ active[p] <= MaxConcurrent

\* The times of w are the last ones of a, and the others are not later than x.
IsRecentPart(w, a, x) ==
    \E gone \in Nat :
        /\ Len(a) = gone + Len(w)
        /\ \A i \in 1 .. gone : a[i] <= x
        /\ \A i \in 1 .. Len(w) : w[i] = a[gone + i]

\* What slot forgets of a window is out of date for good: the window is the
\* end of the list of all admissions, and all before it is old.
WindowIsASuffix ==
    \A p \in Principals :
        /\ Len(requests[p]) <= PerMinute
        /\ IsRecentPart(requests[p], admitted[p], latest - Window)

RegistryListsRunning ==
    /\ operations = {t \in Threads : thread[t] = "running"}
    /\ \A t, u \in operations : call[t].id = call[u].id => t = u

\* Operations that have ended with s and are not traced yet.
Ending(s) == {t \in Threads : thread[t] \in {"leave", "trace"} /\ status[t] = s}

TotalsAgree ==
    \A s \in {"completed", "cancelled"} :
        totals["chat"][s] = traces[s] + Cardinality(Ending(s))

\* Only a running operation is marked as cancelled, by somebody who may.
CancelsAreAllowed ==
    \A t \in Threads : \A q \in cancelledBy[t] :
        t \in operations /\ RL!MayCancel(q, t)

LifecycleInv ==
    /\ LifecycleTypes
    /\ StagesFit
    /\ SlotsAreCounted
    /\ WindowIsASuffix
    /\ RegistryListsRunning
    /\ TotalsAgree
    /\ CancelsAreAllowed

ThreadPlaces == {"idle", "slot", "begin", "running", "leave", "trace"}

Calls == [id : Ids, principal : Principals, kind : RL!Kinds, now : 0 .. MaxTime]

LEMMA SameCount == \A S : RL!Cardinality(S) = Cardinality(S)
BY DEF RL!Cardinality, Cardinality

LEMMA NoCallIsACall == RL!NoCall \in Calls
<1>1. (CHOOSE i \in Ids : TRUE) \in Ids
  BY LifecycleAssumption
<1>2. (CHOOSE p \in Principals : TRUE) \in Principals
  BY LifecycleAssumption
<1>. QED  BY <1>1, <1>2, LifecycleAssumption DEF RL!NoCall, Calls, RL!Kinds

\* What is pruned is a beginning of the window, all of it out of date.
LEMMA PrunedIsASuffix ==
    ASSUME NEW h \in Seq(0 .. MaxTime), NEW now0 \in 0 .. MaxTime
    PROVE  \E n \in 0 .. Len(h) :
             /\ \A i \in 1 .. n : h[i] <= now0 - Window
             /\ RL!Pruned(h, now0) \in Seq(0 .. MaxTime)
             /\ Len(RL!Pruned(h, now0)) = Len(h) - n
             /\ \A i \in 1 .. Len(h) - n : RL!Pruned(h, now0)[i] = h[n + i]
<1>. DEFINE old == {i \in DOMAIN h : \A j \in 1 .. i : h[j] <= now0 - Window}
            n == Cardinality(old)
<1>0. Len(h) \in Nat /\ DOMAIN h = 1 .. Len(h)
  OBVIOUS
<1>1. old \subseteq 1 .. Len(h) /\ \A i \in old : \A j \in 1 .. i : j \in old
  BY <1>0
<1>2. n \in 0 .. Len(h) /\ old = 1 .. n
  <2>. HIDE DEF old
  <2>. QED  BY <1>0, <1>1, InitialPart, Zenon
<1>3. RL!Pruned(h, now0) = SubSeq(h, n + 1, Len(h))
  BY SameCount, Zenon DEF RL!Pruned
<1>4. \A i \in 1 .. n : h[i] <= now0 - Window
  <2>1. \A i \in old : i \in 1 .. i /\ h[i] <= now0 - Window
    BY <1>0
  <2>. HIDE DEF old, n
  <2>. QED  BY <1>2, <2>1
<1>. HIDE DEF n, old
<1>5. /\ SubSeq(h, n + 1, Len(h)) \in Seq(0 .. MaxTime)
      /\ Len(SubSeq(h, n + 1, Len(h))) = Len(h) - n
      /\ \A i \in 1 .. Len(h) - n : SubSeq(h, n + 1, Len(h))[i] = h[n + i]
  BY <1>2, SuffixFacts, Zenon
<1>6. n \in 0 .. Len(h)
  BY <1>2
<1>. QED  BY <1>3, <1>4, <1>5, <1>6

LEMMA LifecycleInit == Init => LifecycleInv
<1> SUFFICES ASSUME Init PROVE LifecycleInv
  OBVIOUS
<1>0. RL!Init
  BY DEF Init
<1>1. LifecycleTypes
  <2>1. call \in [Threads -> Calls]
    BY <1>0, NoCallIsACall DEF RL!Init
  <2>2. 0 \in 0 .. MaxTime /\ Cardinality(Threads) \in Nat
    BY LifecycleAssumption, FS_CardinalityType
  <2>3. active \in [Principals -> 0 .. Cardinality(Threads)]
    BY <1>0, <2>2 DEF RL!Init
  <2>4. status \in [Threads -> RL!Statuses] /\ thread \in [Threads -> ThreadPlaces]
    BY <1>0 DEF RL!Init, RL!Statuses, ThreadPlaces
  <2>5. /\ requests \in [Principals -> Seq(0 .. MaxTime)]
        /\ admitted \in [Principals -> Seq(0 .. MaxTime)]
    BY <1>0 DEF RL!Init
  <2>6. operations \subseteq Threads /\ cancelledBy \in [Threads -> SUBSET Principals]
    BY <1>0 DEF RL!Init
  <2>7. RL!TypeOK
    BY <2>1, <2>3, <2>4, <2>5, <2>6, SameCount DEF RL!TypeOK, Calls, ThreadPlaces
  <2>8. totals \in Tables /\ traces \in [RL!Statuses -> Nat]
    BY <1>0 DEF RL!Init, Tables
  <2>9. clock \in 0 .. MaxTime /\ latest \in 0 .. MaxTime
    BY <1>0, <2>2 DEF RL!Init
  <2>. QED  BY <2>5, <2>7, <2>8, <2>9 DEF LifecycleTypes
<1>2. StagesFit /\ RegistryListsRunning /\ CancelsAreAllowed
  BY <1>0 DEF RL!Init, StagesFit, RegistryListsRunning, CancelsAreAllowed
<1>3. SlotsAreCounted
  <2>1. \A p \in Principals : RL!InSlot(p) = {}
    BY <1>0 DEF RL!Init, RL!InSlot
  <2>2. \A p \in Principals : active[p] = 0 /\ Cardinality(RL!InSlot(p)) = 0
    BY <1>0, <2>1, FS_EmptySet, Zenon DEF RL!Init
  <2>. QED  BY <2>2, LifecycleAssumption DEF SlotsAreCounted
<1>4. WindowIsASuffix
  BY <1>0, LifecycleAssumption DEF RL!Init, WindowIsASuffix, IsRecentPart
<1>5. TotalsAgree
  <2>1. \A s : Ending(s) = {}
    BY <1>0 DEF RL!Init, Ending
  <2>2. \A s \in {"completed", "cancelled"} : totals["chat"][s] = 0 /\ traces[s] = 0
    BY <1>0 DEF RL!Init, RL!Kinds, RL!Statuses
  <2>. QED  BY <2>1, <2>2, FS_EmptySet DEF TotalsAgree
<1>. QED  BY <1>1, <1>2, <1>3, <1>4, <1>5 DEF LifecycleInv

\* The parts of the types by name.
LEMMA LifecycleParts ==
    ASSUME LifecycleInv
    PROVE  /\ thread \in [Threads -> ThreadPlaces]
           /\ call \in [Threads -> Calls]
           /\ status \in [Threads -> RL!Statuses]
           /\ active \in [Principals -> 0 .. Cardinality(Threads)]
           /\ requests \in [Principals -> Seq(0 .. MaxTime)]
           /\ admitted \in [Principals -> Seq(0 .. MaxTime)]
           /\ operations \subseteq Threads
           /\ cancelledBy \in [Threads -> SUBSET Principals]
           /\ totals \in Tables
           /\ traces \in [RL!Statuses -> Nat]
           /\ clock \in 0 .. MaxTime
           /\ latest \in 0 .. MaxTime
           /\ MaxTime \in Nat /\ Window \in Nat /\ PerMinute \in Nat /\ MaxConcurrent \in Nat
BY SameCount, LifecycleAssumption
   DEF LifecycleInv, LifecycleTypes, RL!TypeOK, ThreadPlaces, Calls

LEMMA LifecycleTypesFollow ==
    ASSUME thread' \in [Threads -> ThreadPlaces],
           call' \in [Threads -> Calls],
           status' \in [Threads -> RL!Statuses],
           active' \in [Principals -> 0 .. Cardinality(Threads)],
           requests' \in [Principals -> Seq(0 .. MaxTime)],
           admitted' \in [Principals -> Seq(0 .. MaxTime)],
           operations' \subseteq Threads,
           cancelledBy' \in [Threads -> SUBSET Principals],
           totals' \in Tables,
           traces' \in [RL!Statuses -> Nat],
           clock' \in 0 .. MaxTime,
           latest' \in 0 .. MaxTime
    PROVE  LifecycleTypes'
<1>1. RL!TypeOK'
  BY SameCount DEF RL!TypeOK, ThreadPlaces, Calls, RL!Statuses, RL!Kinds
<1>. QED  BY <1>1 DEF LifecycleTypes, Tables, RL!Statuses, RL!Kinds

\* A thread moves: it is the only one that does.
LEMMA ThreadMoves ==
    ASSUME LifecycleInv, NEW t \in Threads,
           NEW where \in ThreadPlaces, thread' = [thread EXCEPT ![t] = where],
           NEW k \in Calls, call' = [call EXCEPT ![t] = k],
           NEW s \in RL!Statuses, status' = [status EXCEPT ![t] = s]
    PROVE  /\ thread' \in [Threads -> ThreadPlaces]
           /\ call' \in [Threads -> Calls]
           /\ status' \in [Threads -> RL!Statuses]
           /\ thread'[t] = where /\ call'[t] = k /\ status'[t] = s
           /\ \A u \in Threads : u # t => /\ thread'[u] = thread[u]
                                          /\ call'[u] = call[u]
                                          /\ status'[u] = status[u]
<1>1. /\ thread \in [Threads -> ThreadPlaces]
      /\ call \in [Threads -> Calls]
      /\ status \in [Threads -> RL!Statuses]
  BY LifecycleParts
<1>. QED  BY <1>1

\* What the thread leaves alone.
LEMMA ThreadKeeps ==
    ASSUME LifecycleInv, NEW t \in Threads
    PROVE  /\ call[t] \in Calls /\ status[t] \in RL!Statuses
           /\ UNCHANGED call => call' = [call EXCEPT ![t] = call[t]]
           /\ UNCHANGED status => status' = [status EXCEPT ![t] = status[t]]
<1>1. /\ call \in [Threads -> Calls]
      /\ status \in [Threads -> RL!Statuses]
  BY LifecycleParts
<1>. QED  BY <1>1

LEMMA CountsAreBounded ==
    /\ Cardinality(Threads) \in Nat
    /\ \A S : S \subseteq Threads =>
         /\ IsFiniteSet(S)
         /\ Cardinality(S) \in 0 .. Cardinality(Threads)
<1>1. IsFiniteSet(Threads) /\ Cardinality(Threads) \in Nat
  BY LifecycleAssumption, FS_CardinalityType
<1>2. ASSUME NEW S, S \subseteq Threads
      PROVE  IsFiniteSet(S) /\ Cardinality(S) \in 0 .. Cardinality(Threads)
  <2>1. IsFiniteSet(S) /\ Cardinality(S) <= Cardinality(Threads)
    BY <1>1, <1>2, FS_Subset
  <2>2. Cardinality(S) \in Nat
    BY <2>1, FS_CardinalityType
  <2>. QED  BY <1>1, <2>1, <2>2
<1>. QED  BY <1>1, <1>2

LEMMA SlotsRest ==
    ASSUME LifecycleInv, active' = active,
           \A p \in Principals : RL!InSlot(p)' = RL!InSlot(p)
    PROVE  SlotsAreCounted'
BY DEF LifecycleInv, SlotsAreCounted

LEMMA WindowRests ==
    ASSUME LifecycleInv, UNCHANGED <<requests, admitted, latest>>
    PROVE  WindowIsASuffix'
BY DEF LifecycleInv, WindowIsASuffix

LEMMA TotalsRest ==
    ASSUME LifecycleInv, UNCHANGED <<totals, traces>>,
           \A s \in {"completed", "cancelled"} : Ending(s)' = Ending(s)
    PROVE  TotalsAgree'
BY DEF LifecycleInv, TotalsAgree

\* A thread that is not running moves, and runs nothing.
LEMMA RegistryRests ==
    ASSUME LifecycleInv, NEW t \in Threads, UNCHANGED <<operations, cancelledBy>>,
           thread[t] # "running", thread'[t] # "running",
           \A u \in Threads : u # t => thread'[u] = thread[u] /\ call'[u] = call[u]
    PROVE  RegistryListsRunning' /\ CancelsAreAllowed'
<1>1. /\ operations = {u \in Threads : thread[u] = "running"}
      /\ \A u, v \in operations : call[u].id = call[v].id => u = v
      /\ \A u \in Threads : \A q \in cancelledBy[u] : u \in operations /\ RL!MayCancel(q, u)
  BY DEF LifecycleInv, RegistryListsRunning, CancelsAreAllowed
<1>2. operations' = {u \in Threads : thread'[u] = "running"}
  BY <1>1
<1>3. \A u \in operations : u # t /\ call'[u] = call[u]
  BY <1>1
<1>4. RegistryListsRunning'
  BY <1>1, <1>2, <1>3 DEF RegistryListsRunning
<1>5. CancelsAreAllowed'
  BY <1>1, <1>3 DEF CancelsAreAllowed, RL!MayCancel
<1>. QED  BY <1>4, <1>5

LEMMA ArriveStep ==
    ASSUME LifecycleInv, NEW t \in Threads, RL!Arrive(t)
    PROVE  LifecycleInv'
<1>1. PICK k \in Calls :
        /\ call' = [call EXCEPT ![t] = k]
        /\ thread' = [thread EXCEPT ![t] = RL!Enters(k.kind)]
  <2>1. PICK i \in Ids, p \in Principals, d \in RL!Kinds :
          /\ call' = [call EXCEPT ![t] = [id |-> i, principal |-> p,
                                          kind |-> d, now |-> clock]]
          /\ thread' = [thread EXCEPT ![t] = RL!Enters(d)]
    BY Zenon DEF RL!Arrive
  <2>2. [id |-> i, principal |-> p, kind |-> d, now |-> clock] \in Calls
    BY LifecycleParts DEF Calls
  <2>. QED  BY <2>1, <2>2, Zenon
<1>2. /\ thread[t] = "idle"
      /\ status' = [status EXCEPT ![t] = "failed"]
      /\ UNCHANGED <<active, operations, cancelledBy, totals, requests, admitted,
                     latest, traces, clock>>
  BY DEF RL!Arrive, RL!registry, RL!window
<1>3. PICK where \in {"slot", "begin"} :
        /\ RL!Enters(k.kind) = where
        /\ where = "slot" <=> k.kind = "chat"
  BY DEF RL!Enters
<1>4. where \in ThreadPlaces /\ "failed" \in RL!Statuses
  BY DEF ThreadPlaces, RL!Statuses
<1>5. /\ thread' \in [Threads -> ThreadPlaces]
      /\ call' \in [Threads -> Calls]
      /\ status' \in [Threads -> RL!Statuses]
      /\ thread'[t] = where /\ call'[t] = k /\ status'[t] = "failed"
      /\ \A u \in Threads : u # t => /\ thread'[u] = thread[u]
                                     /\ call'[u] = call[u]
                                     /\ status'[u] = status[u]
  BY <1>1, <1>2, <1>3, <1>4, ThreadMoves, Zenon
<1>6. LifecycleTypes'
  BY <1>2, <1>5, LifecycleParts, LifecycleTypesFollow
<1>7. StagesFit'
  BY <1>3, <1>5 DEF LifecycleInv, StagesFit
<1>8. SlotsAreCounted'
  <2>1. \A p \in Principals : RL!InSlot(p)' = RL!InSlot(p)
    BY <1>2, <1>3, <1>5 DEF RL!InSlot
  <2>. QED  BY <1>2, <2>1, SlotsRest
<1>9. TotalsAgree'
  <2>1. \A s : Ending(s)' = Ending(s)
    BY <1>2, <1>3, <1>5 DEF Ending
  <2>. QED  BY <1>2, <2>1, TotalsRest
<1>10. RegistryListsRunning' /\ CancelsAreAllowed'
  BY <1>2, <1>3, <1>5, RegistryRests
<1>11. WindowIsASuffix'
  BY <1>2, WindowRests
<1>. QED  BY <1>6, <1>7, <1>8, <1>9, <1>10, <1>11 DEF LifecycleInv

LEMMA LeaveStep ==
    ASSUME LifecycleInv, NEW t \in Threads, RL!LeaveSlot(t)
    PROVE  LifecycleInv'
<1>0. call[t] \in Calls
  BY LifecycleParts
<1>p. PICK p \in Principals : p = call[t].principal
  BY <1>0 DEF Calls
<1>1. /\ thread[t] = "leave"
      /\ active' = [active EXCEPT ![p] = IF @ = 0 THEN 0 ELSE @ - 1]
      /\ thread' = [thread EXCEPT ![t] = "trace"]
      /\ UNCHANGED <<call, status, operations, cancelledBy, totals, requests, admitted,
                     latest, traces, clock>>
  BY <1>p DEF RL!LeaveSlot, RL!GiveBack, RL!registry, RL!window
<1>2. "trace" \in ThreadPlaces
  BY DEF ThreadPlaces
<1>3. /\ thread' \in [Threads -> ThreadPlaces]
      /\ call' \in [Threads -> Calls]
      /\ status' \in [Threads -> RL!Statuses]
      /\ thread'[t] = "trace"
      /\ \A u \in Threads : u # t => thread'[u] = thread[u]
      /\ \A u \in Threads : call'[u] = call[u] /\ status'[u] = status[u]
  BY <1>1, <1>2, ThreadMoves, ThreadKeeps, Zenon
<1>4. call[t].kind = "chat"
  BY <1>1 DEF LifecycleInv, StagesFit
<1>5. /\ \A q \in Principals \ {p} : RL!InSlot(q)' = RL!InSlot(q)
      /\ RL!InSlot(p)' = RL!InSlot(p) \ {t}
      /\ t \in RL!InSlot(p)
  BY <1>p, <1>1, <1>3, <1>4 DEF RL!InSlot
<1>6. /\ active'[p] = active[p] - 1
      /\ active'[p] = Cardinality(RL!InSlot(p)')
      /\ active'[p] \in 0 .. Cardinality(Threads)
      /\ \A q \in Principals \ {p} : active'[q] = active[q]
      /\ active' = [active EXCEPT ![p] = active'[p]]
  <2>1. RL!InSlot(p) \subseteq Threads /\ RL!InSlot(p)' \subseteq Threads
    BY DEF RL!InSlot
  <2>2. /\ IsFiniteSet(RL!InSlot(p)) /\ Cardinality(RL!InSlot(p)) \in Nat
        /\ Cardinality(RL!InSlot(p)') \in 0 .. Cardinality(Threads)
    BY <2>1, CountsAreBounded
  <2>3. Cardinality(RL!InSlot(p)') = Cardinality(RL!InSlot(p)) - 1
    BY <1>5, <2>2, FS_RemoveElement
  <2>4. active[p] = Cardinality(RL!InSlot(p))
    BY <1>4 DEF LifecycleInv, SlotsAreCounted
  <2>5. active \in [Principals -> 0 .. Cardinality(Threads)]
    BY LifecycleParts
  <2>6. active[p] # 0
    BY <2>2, <2>3, <2>4, CountsAreBounded
  <2>7. /\ active' = [active EXCEPT ![p] = active[p] - 1]
    BY <1>1, <2>6
  <2>8. /\ active'[p] = active[p] - 1
        /\ \A q \in Principals \ {p} : active'[q] = active[q]
    BY <1>4, <2>5, <2>7
  <2>. QED  BY <2>2, <2>3, <2>4, <2>7, <2>8, Zenon
<1>7. active' \in [Principals -> 0 .. Cardinality(Threads)]
  <2>. QED  BY <1>4, <1>6, LifecycleParts, Zenon
<1>8. LifecycleTypes'
  BY <1>1, <1>3, <1>7, LifecycleParts, LifecycleTypesFollow, Zenon
<1>9. StagesFit'
  BY <1>1, <1>3 DEF LifecycleInv, StagesFit
<1>10. SlotsAreCounted'
  <2>1. \A q \in Principals : active'[q] <= MaxConcurrent
    <3>1. \A q \in Principals : active[q] \in Nat /\ active[q] <= MaxConcurrent
      <4>1. active \in [Principals -> Nat]
        BY LifecycleParts, CountsAreBounded
      <4>. QED  BY <4>1 DEF LifecycleInv, SlotsAreCounted
    <3>. QED  BY <1>4, <1>6, <3>1, LifecycleAssumption
  <2>2. \A q \in Principals : active'[q] = Cardinality(RL!InSlot(q)')
    <3>1. \A q \in Principals : active[q] = Cardinality(RL!InSlot(q))
      BY DEF LifecycleInv, SlotsAreCounted
    <3>2. ASSUME NEW q \in Principals, q # p
          PROVE  active'[q] = Cardinality(RL!InSlot(q)')
      <4>1. active'[q] = active[q] /\ RL!InSlot(q)' = RL!InSlot(q)
        BY <1>5, <1>6, <3>2
      <4>. QED  BY <3>1, <4>1
    <3>. QED  BY <1>6, <3>2
  <2>. QED  BY <2>1, <2>2 DEF SlotsAreCounted
<1>11. TotalsAgree'
  <2>1. \A s : Ending(s)' = Ending(s)
    BY <1>1, <1>3 DEF Ending
  <2>. QED  BY <1>1, <2>1, TotalsRest
<1>12. RegistryListsRunning' /\ CancelsAreAllowed'
  BY <1>1, <1>3, RegistryRests
<1>13. WindowIsASuffix'
  BY <1>1, WindowRests
<1>. QED  BY <1>8, <1>9, <1>10, <1>11, <1>12, <1>13 DEF LifecycleInv

LEMMA SubrangeSequences == Seq(0 .. MaxTime) \subseteq Seq(Nat)
<1>. SUFFICES ASSUME NEW s \in Seq(0 .. MaxTime)
              PROVE  s \in Seq(Nat)
  OBVIOUS
<1>1. Len(s) \in Nat /\ s \in [1 .. Len(s) -> 0 .. MaxTime]
  BY LenProperties, Zenon
<1>2. \A i \in 1 .. Len(s) : s[i] \in 0 .. MaxTime
  BY <1>1
<1>. QED  BY <1>1, <1>2, LifecycleAssumption

LEMMA OldOnesDrop ==
    ASSUME NEW w \in Seq(Nat), NEW a \in Seq(Nat), NEW x \in Int, NEW y \in Int,
           x <= y, IsRecentPart(w, a, x),
           NEW n \in 0 .. Len(w), \A i \in 1 .. n : w[i] <= y,
           NEW h \in Seq(Nat), Len(h) = Len(w) - n,
           \A i \in 1 .. Len(w) - n : h[i] = w[n + i]
    PROVE  IsRecentPart(h, a, y)
<1>g. PICK gone \in Nat :
        /\ Len(a) = gone + Len(w)
        /\ \A i \in 1 .. gone : a[i] <= x
        /\ \A i \in 1 .. Len(w) : w[i] = a[gone + i]
  BY Zenon DEF IsRecentPart
<1>0. /\ Len(a) \in Nat /\ Len(w) \in Nat /\ Len(h) \in Nat /\ n \in Nat /\ n <= Len(w)
  OBVIOUS
<1>1. \A i \in 1 .. Len(a) : a[i] \in Nat
  OBVIOUS
<1>2. Len(a) = (gone + n) + Len(h)
  BY <1>g, <1>0
<1>3. ASSUME NEW i \in 1 .. gone + n
      PROVE  a[i] <= y
  <2>1. CASE i <= gone
    <3>1. a[i] \in Nat /\ a[i] <= x
      BY <1>g, <1>0, <1>1, <2>1
    <3>. QED  BY <3>1
  <2>2. CASE i > gone
    <3>1. PICK j \in 1 .. n : i = gone + j
      <4>1. i \in Nat /\ i <= gone + n
        BY <1>0
      <4>. QED  BY <1>0, <2>2, <4>1
    <3>2. j \in 1 .. Len(w)
      BY <1>0
    <3>. QED  BY <1>g, <3>1, <3>2
  <2>. QED  BY <1>g, <1>0, <2>1, <2>2
<1>4. ASSUME NEW i \in 1 .. Len(h)
      PROVE  h[i] = a[gone + n + i]
  <2>1. i \in 1 .. Len(w) - n /\ n + i \in 1 .. Len(w) /\ gone + (n + i) = gone + n + i
    BY <1>g, <1>0
  <2>2. h[i] = w[n + i] /\ w[n + i] = a[gone + (n + i)]
    BY <1>g, <1>0, <2>1, Zenon
  <2>. QED  BY <2>1, <2>2
<1>5. gone + n \in Nat
  BY <1>0
<1>. QED  BY <1>2, <1>3, <1>4, <1>5, Zenon DEF IsRecentPart

LEMMA LimitMoves ==
    ASSUME NEW w \in Seq(Nat), NEW a \in Seq(Nat), NEW x \in Int, NEW y \in Int,
           x <= y, IsRecentPart(w, a, x)
    PROVE  IsRecentPart(w, a, y)
<1>1. PICK gone \in Nat :
        /\ Len(a) = gone + Len(w)
        /\ \A i \in 1 .. gone : a[i] <= x
        /\ \A i \in 1 .. Len(w) : w[i] = a[gone + i]
  BY DEF IsRecentPart
<1>2. \A i \in 1 .. gone : a[i] \in Nat
  BY <1>1
<1>3. \A i \in 1 .. gone : a[i] <= y
  BY <1>1, <1>2
<1>. QED  BY <1>1, <1>3, Zenon DEF IsRecentPart

LEMMA BothAppend ==
    ASSUME NEW w \in Seq(Nat), NEW a \in Seq(Nat), NEW x \in Int, NEW v \in Nat,
           IsRecentPart(w, a, x)
    PROVE  IsRecentPart(Append(w, v), Append(a, v), x)
<1>g. PICK gone \in Nat :
        /\ Len(a) = gone + Len(w)
        /\ \A i \in 1 .. gone : a[i] <= x
        /\ \A i \in 1 .. Len(w) : w[i] = a[gone + i]
  BY DEF IsRecentPart
<1>0. /\ Len(a) \in Nat /\ Len(w) \in Nat
  OBVIOUS
<1>1. /\ Len(Append(a, v)) = Len(a) + 1 /\ Len(Append(w, v)) = Len(w) + 1
      /\ \A i \in 1 .. Len(a) : Append(a, v)[i] = a[i]
      /\ \A i \in 1 .. Len(w) : Append(w, v)[i] = w[i]
      /\ Append(a, v)[Len(a) + 1] = v /\ Append(w, v)[Len(w) + 1] = v
  OBVIOUS
<1>2. Len(Append(a, v)) = gone + Len(Append(w, v))
  BY <1>g, <1>0, <1>1
<1>3. \A i \in 1 .. gone : Append(a, v)[i] <= x
  <2>1. \A i \in 1 .. gone : i \in 1 .. Len(a)
    BY <1>g, <1>0
  <2>. QED  BY <1>g, <1>0, <1>1, <2>1
<1>4. ASSUME NEW i \in 1 .. Len(w) + 1
      PROVE  Append(w, v)[i] = Append(a, v)[gone + i]
  <2>1. CASE i \in 1 .. Len(w)
    <3>1. gone + i \in 1 .. Len(a)
      BY <1>g, <1>0, <2>1
    <3>. QED  BY <1>g, <1>0, <1>1, <2>1, <3>1
  <2>2. CASE i = Len(w) + 1
    <3>1. gone + i = Len(a) + 1
      BY <1>g, <1>0, <2>2
    <3>. QED  BY <1>1, <2>2, <3>1
  <2>. QED  BY <1>g, <1>0, <2>1, <2>2
<1>. QED  BY <1>g, <1>0, <1>1, <1>2, <1>3, <1>4, Zenon DEF IsRecentPart

\* slot: an admission takes a slot and a place in the window, a refusal neither.
LEMMA SlotStep ==
    ASSUME LifecycleInv, NEW t \in Threads, RL!Slot(t)
    PROVE  LifecycleInv'
<1>0. call[t] \in Calls
  BY LifecycleParts
<1>p. PICK p \in Principals, at \in 0 .. MaxTime :
        p = call[t].principal /\ at = call[t].now
  BY <1>0 DEF Calls
<1>. DEFINE h  == RL!Pruned(requests[p], at)
            ok == Len(h) < PerMinute /\ active[p] < MaxConcurrent
<1>1. /\ thread[t] = "slot"
      /\ latest' = IF at > latest THEN at ELSE latest
      /\ requests' = [requests EXCEPT ![p] = IF ok THEN Append(h, at) ELSE h]
      /\ admitted' = [admitted EXCEPT ![p] = IF ok THEN Append(@, at) ELSE @]
      /\ active' = [active EXCEPT ![p] = IF ok THEN @ + 1 ELSE @]
      /\ thread' = [thread EXCEPT ![t] = IF ok THEN "begin" ELSE "trace"]
      /\ UNCHANGED <<call, status, operations, cancelledBy, totals, traces, clock>>
  BY <1>p DEF RL!Slot, RL!registry
<1>2. call[t].kind = "chat" /\ status[t] = "failed"
  BY <1>1 DEF LifecycleInv, StagesFit
<1>3. PICK n \in 0 .. Len(requests[p]) :
        /\ \A i \in 1 .. n : requests[p][i] <= at - Window
        /\ h \in Seq(0 .. MaxTime)
        /\ Len(h) = Len(requests[p]) - n
        /\ \A i \in 1 .. Len(requests[p]) - n : h[i] = requests[p][n + i]
  <2>1. requests[p] \in Seq(0 .. MaxTime)
    BY <1>2, LifecycleParts
  <2>. QED  BY <1>2, <2>1, PrunedIsASuffix, Zenon
<1>. HIDE DEF h
<1>4. PICK where \in {"begin", "trace"} :
        /\ (where = "begin") <=> ok
        /\ thread' = [thread EXCEPT ![t] = where]
  <2>1. CASE ok
    BY <1>1, <2>1, Zenon
  <2>2. CASE ~ok
    BY <1>1, <2>2, Zenon
  <2>. QED  BY <2>1, <2>2
<1>. HIDE DEF ok
<1>5. /\ thread' \in [Threads -> ThreadPlaces]
      /\ call' \in [Threads -> Calls]
      /\ status' \in [Threads -> RL!Statuses]
      /\ thread'[t] = where
      /\ \A u \in Threads : u # t => thread'[u] = thread[u]
      /\ \A u \in Threads : call'[u] = call[u] /\ status'[u] = status[u]
  <2>1. where \in ThreadPlaces
    BY DEF ThreadPlaces
  <2>2. thread' = [thread EXCEPT ![t] = where] /\ UNCHANGED <<call, status>>
    BY <1>1, <1>4, Zenon
  <2>. QED  BY <2>1, <2>2, ThreadMoves, ThreadKeeps, Zenon
<1>6. /\ latest' \in 0 .. MaxTime /\ at <= latest' /\ latest <= latest'
  <2>1. latest \in 0 .. MaxTime /\ MaxTime \in Nat
    BY LifecycleParts
  <2>. QED  BY <1>1, <1>2, <2>1
<1>7. PICK kept \in Seq(0 .. MaxTime), all \in Seq(0 .. MaxTime), used \in Nat :
        /\ kept = (IF ok THEN Append(h, at) ELSE h)
        /\ all = (IF ok THEN Append(admitted[p], at) ELSE admitted[p])
        /\ used = (IF ok THEN active[p] + 1 ELSE active[p])
        /\ requests' = [requests EXCEPT ![p] = kept]
        /\ admitted' = [admitted EXCEPT ![p] = all]
        /\ active' = [active EXCEPT ![p] = used]
  <2>1. admitted[p] \in Seq(0 .. MaxTime) /\ active[p] \in Nat
    BY <1>2, LifecycleParts, CountsAreBounded
  <2>2. CASE ok
    <3>1. /\ Append(h, at) \in Seq(0 .. MaxTime) /\ Append(admitted[p], at) \in Seq(0 .. MaxTime)
          /\ active[p] + 1 \in Nat
      BY <1>2, <1>3, <2>1
    <3>. QED  BY <1>1, <2>2, <3>1, Zenon
  <2>3. CASE ~ok
    BY <1>1, <1>3, <2>1, <2>3, Zenon
  <2>. QED  BY <2>2, <2>3, Zenon
<1>8. /\ requests' \in [Principals -> Seq(0 .. MaxTime)] /\ requests'[p] = kept
      /\ admitted' \in [Principals -> Seq(0 .. MaxTime)] /\ admitted'[p] = all
      /\ active'[p] = used
      /\ \A q \in Principals : q # p => /\ requests'[q] = requests[q]
                                        /\ admitted'[q] = admitted[q]
                                        /\ active'[q] = active[q]
  BY <1>2, <1>7, LifecycleParts, Zenon
<1>9. SlotsAreCounted' /\ active' \in [Principals -> 0 .. Cardinality(Threads)]
  <2>0. \A q \in Principals : /\ active[q] = Cardinality(RL!InSlot(q))
                              /\ active[q] <= MaxConcurrent
    BY DEF LifecycleInv, SlotsAreCounted
  <2>1. ASSUME NEW q \in Principals, q # p
        PROVE  active'[q] = Cardinality(RL!InSlot(q)') /\ active'[q] <= MaxConcurrent
    <3>1. RL!InSlot(q)' = RL!InSlot(q)
      BY <1>p, <1>1, <1>5, <2>1 DEF RL!InSlot
    <3>. QED  BY <1>8, <2>0, <2>1, <3>1, Zenon
  <2>2. active'[p] = Cardinality(RL!InSlot(p)') /\ active'[p] <= MaxConcurrent
    <3>1. RL!InSlot(p) \subseteq Threads /\ t \notin RL!InSlot(p)
      BY <1>1 DEF RL!InSlot
    <3>2. IsFiniteSet(RL!InSlot(p)) /\ Cardinality(RL!InSlot(p)) \in Nat
      BY <3>1, CountsAreBounded
    <3>3. CASE ok
      <4>1. RL!InSlot(p)' = RL!InSlot(p) \cup {t}
        BY <1>p, <1>2, <1>4, <1>5, <3>3 DEF RL!InSlot
      <4>2. Cardinality(RL!InSlot(p)') = Cardinality(RL!InSlot(p)) + 1
        BY <3>1, <3>2, <4>1, FS_AddElement, Zenon
      <4>3. used = active[p] + 1 /\ active[p] < MaxConcurrent
        BY <1>7, <3>3 DEF ok
      <4>. QED  BY <1>2, <1>8, <2>0, <3>2, <4>2, <4>3, LifecycleAssumption
    <3>4. CASE ~ok
      <4>1. RL!InSlot(p)' = RL!InSlot(p)
        BY <1>1, <1>4, <1>5, <3>4 DEF RL!InSlot
      <4>2. used = active[p]
        BY <1>7, <3>4
      <4>. QED  BY <1>2, <1>8, <2>0, <4>1, <4>2
    <3>. QED  BY <3>3, <3>4
  <2>3. \A q \in Principals : active'[q] = Cardinality(RL!InSlot(q)') /\ active'[q] <= MaxConcurrent
    BY <2>1, <2>2
  <2>4. \A q \in Principals : RL!InSlot(q)' \subseteq Threads
    BY DEF RL!InSlot
  <2>5. \A q \in Principals : active'[q] \in 0 .. Cardinality(Threads)
    BY <2>3, <2>4, CountsAreBounded
  <2>6. active \in [Principals -> 0 .. Cardinality(Threads)]
    BY LifecycleParts
  <2>7. active' \in [Principals -> 0 .. Cardinality(Threads)]
    BY <1>7, <2>5, <2>6
  <2>. QED  BY <2>3, <2>7 DEF SlotsAreCounted
<1>10. LifecycleTypes'
  BY <1>1, <1>5, <1>6, <1>8, <1>9, LifecycleParts, LifecycleTypesFollow, Zenon
<1>11. StagesFit'
  BY <1>1, <1>2, <1>5 DEF LifecycleInv, StagesFit
<1>12. TotalsAgree'
  <2>1. \A s \in {"completed", "cancelled"} : Ending(s)' = Ending(s)
    BY <1>1, <1>2, <1>5 DEF Ending
  <2>. QED  BY <1>1, <2>1, TotalsRest
<1>13. RegistryListsRunning' /\ CancelsAreAllowed'
  BY <1>1, <1>5, RegistryRests
<1>14. WindowIsASuffix'
  <2>0. /\ latest \in Nat /\ latest' \in Nat /\ at \in Nat /\ Window \in Nat
        /\ PerMinute \in Nat
    BY <1>6, LifecycleParts
  <2>l. PICK l0 \in Nat, l1 \in Nat : l0 = latest /\ l1 = latest'
    BY <2>0
  <2>. DEFINE x == l0 - Window
              y == l1 - Window
  <2>1. x \in Int /\ y \in Int /\ x <= y /\ at - Window <= y
    <3>1. at <= l1 /\ l0 <= l1
      BY <1>6, <2>l
    <3>. QED  BY <2>0, <3>1
  <2>2. \A q \in Principals : /\ requests[q] \in Seq(Nat) /\ admitted[q] \in Seq(Nat)
                              /\ Len(requests[q]) <= PerMinute
                              /\ IsRecentPart(requests[q], admitted[q], x)
    <3>1. requests \in [Principals -> Seq(Nat)] /\ admitted \in [Principals -> Seq(Nat)]
      BY LifecycleParts, SubrangeSequences, Zenon
    <3>. QED  BY <2>l, <3>1 DEF LifecycleInv, WindowIsASuffix
  <2>. HIDE DEF x, y
  <2>3. ASSUME NEW q \in Principals, q # p
        PROVE  Len(requests'[q]) <= PerMinute /\ IsRecentPart(requests'[q], admitted'[q], y)
    <3>2. IsRecentPart(requests[q], admitted[q], y)
      BY <2>1, <2>2, LimitMoves
    <3>. QED  BY <1>8, <2>2, <2>3, <3>2
  <2>4. Len(kept) <= PerMinute /\ IsRecentPart(kept, all, y)
    <3>1. h \in Seq(Nat)
      BY <1>3, SubrangeSequences
    <3>2. \A i \in 1 .. n : requests[p][i] <= y
      <4>1. \A i \in 1 .. n : requests[p][i] \in Nat /\ requests[p][i] <= at - Window
        BY <1>3, <2>2
      <4>. QED  BY <2>0, <2>1, <4>1
    <3>3. IsRecentPart(h, admitted[p], y)
      BY <1>3, <2>1, <2>2, <3>1, <3>2, OldOnesDrop, Zenon
    <3>4. Len(h) \in Nat /\ Len(h) <= PerMinute
      <4>1. Len(requests[p]) \in Nat /\ Len(requests[p]) <= PerMinute /\ n \in Nat
        BY <2>2
      <4>. QED  BY <1>3, <2>0, <3>1, <4>1
    <3>5. CASE ok
      <4>1. kept = Append(h, at) /\ all = Append(admitted[p], at) /\ Len(h) < PerMinute
        BY <1>7, <3>5 DEF ok
      <4>2. Len(kept) = Len(h) + 1
        BY <3>1, <4>1
      <4>. QED  BY <2>0, <2>1, <2>2, <3>1, <3>3, <3>4, <4>1, <4>2, BothAppend
    <3>6. CASE ~ok
      BY <1>7, <3>3, <3>4, <3>6
    <3>. QED  BY <3>5, <3>6
  <2>5. \A q \in Principals : /\ Len(requests'[q]) <= PerMinute
                              /\ IsRecentPart(requests'[q], admitted'[q], y)
    BY <1>8, <2>3, <2>4
  <2>. QED  BY <2>l, <2>5 DEF WindowIsASuffix, y
<1>. QED  BY <1>9, <1>10, <1>11, <1>12, <1>13, <1>14 DEF LifecycleInv

LEMMA TraceStep ==
    ASSUME LifecycleInv, NEW t \in Threads, RL!RecordTrace(t)
    PROVE  LifecycleInv'
<1>1. /\ thread[t] = "trace"
      /\ traces' = [traces EXCEPT ![status[t]] = @ + 1]
      /\ thread' = [thread EXCEPT ![t] = "idle"]
      /\ call' = [call EXCEPT ![t] = RL!NoCall]
      /\ status' = [status EXCEPT ![t] = "failed"]
      /\ UNCHANGED <<active, operations, cancelledBy, totals, requests, admitted,
                     latest, clock>>
  BY DEF RL!RecordTrace, RL!registry, RL!window
<1>2. "idle" \in ThreadPlaces /\ "failed" \in RL!Statuses /\ RL!NoCall \in Calls
  BY NoCallIsACall DEF ThreadPlaces, RL!Statuses
<1>3. /\ thread' \in [Threads -> ThreadPlaces]
      /\ call' \in [Threads -> Calls]
      /\ status' \in [Threads -> RL!Statuses]
      /\ thread'[t] = "idle" /\ status'[t] = "failed"
      /\ \A u \in Threads : u # t => /\ thread'[u] = thread[u]
                                     /\ call'[u] = call[u]
                                     /\ status'[u] = status[u]
  BY <1>1, <1>2, ThreadMoves, Zenon
<1>4. PICK r \in RL!Statuses : r = status[t]
  BY LifecycleParts
<1>5. /\ traces' \in [RL!Statuses -> Nat]
      /\ traces'[r] = traces[r] + 1
      /\ \A s \in RL!Statuses \ {r} : traces'[s] = traces[s]
  BY <1>1, <1>4, LifecycleParts
<1>6. LifecycleTypes'
  BY <1>1, <1>3, <1>5, LifecycleParts, LifecycleTypesFollow, Zenon
<1>7. StagesFit'
  BY <1>1, <1>3 DEF LifecycleInv, StagesFit
<1>8. SlotsAreCounted'
  <2>1. \A p \in Principals : RL!InSlot(p)' = RL!InSlot(p)
    BY <1>1, <1>3 DEF RL!InSlot
  <2>. QED  BY <1>1, <2>1, SlotsRest
<1>9. TotalsAgree'
  <2>. SUFFICES ASSUME NEW s \in {"completed", "cancelled"}
                PROVE  totals'["chat"][s] = traces'[s] + Cardinality(Ending(s)')
    BY DEF TotalsAgree
  <2>0. totals["chat"][s] = traces[s] + Cardinality(Ending(s)) /\ s \in RL!Statuses
    BY DEF LifecycleInv, TotalsAgree, RL!Statuses
  <2>1. CASE s = r
    <3>1. Ending(s)' = Ending(s) \ {t} /\ t \in Ending(s) /\ Ending(s) \subseteq Threads
      BY <1>1, <1>3, <1>4, <2>1 DEF Ending
    <3>2. /\ Cardinality(Ending(s)') = Cardinality(Ending(s)) - 1
          /\ Cardinality(Ending(s)) \in Nat
      BY <3>1, FS_RemoveElement, CountsAreBounded
    <3>3. traces[s] \in Nat
      BY <2>0, LifecycleParts
    <3>. QED  BY <1>1, <1>5, <2>0, <2>1, <3>2, <3>3
  <2>2. CASE s # r
    <3>1. Ending(s)' = Ending(s)
      BY <1>1, <1>3, <1>4, <2>2 DEF Ending
    <3>. QED  BY <1>1, <1>5, <2>0, <2>2, <3>1
  <2>. QED  BY <2>1, <2>2
<1>10. RegistryListsRunning' /\ CancelsAreAllowed'
  BY <1>1, <1>3, RegistryRests
<1>11. WindowIsASuffix'
  BY <1>1, WindowRests
<1>. QED  BY <1>6, <1>7, <1>8, <1>9, <1>10, <1>11 DEF LifecycleInv

\* What the end of an operation does to the thread: a chat still has its slot
\* and its trace, a pull is over.
LEMMA EndedMoves ==
    ASSUME LifecycleInv, NEW t \in Threads, NEW s \in RL!Statuses, RL!Ended(t, s),
           thread[t] \in {"begin", "running"}
    PROVE  /\ thread' \in [Threads -> ThreadPlaces]
           /\ call' \in [Threads -> Calls]
           /\ status' \in [Threads -> RL!Statuses]
           /\ thread'[t] \in {"leave", "idle"}
           /\ \A u \in Threads : u # t => /\ thread'[u] = thread[u]
                                          /\ call'[u] = call[u]
                                          /\ status'[u] = status[u]
           /\ \A p \in Principals : RL!InSlot(p)' = RL!InSlot(p)
           /\ StagesFit'
           /\ \A r \in {"completed", "cancelled"} :
                /\ t \notin Ending(r)
                /\ Ending(r)' = IF call[t].kind = "chat" /\ r = s
                                THEN Ending(r) \cup {t} ELSE Ending(r)
<1>0. /\ status[t] = "failed" /\ "failed" \in RL!Statuses
      /\ StagesFit
      /\ {"leave", "idle"} \subseteq ThreadPlaces
      /\ RL!NoCall \in Calls
  BY NoCallIsACall DEF LifecycleInv, StagesFit, RL!Statuses, ThreadPlaces
<1>1. CASE call[t].kind = "chat"
  <2>1. /\ thread' = [thread EXCEPT ![t] = "leave"]
        /\ status' = [status EXCEPT ![t] = s]
        /\ UNCHANGED call
    BY <1>1 DEF RL!Ended
  <2>2. /\ thread' \in [Threads -> ThreadPlaces]
        /\ call' \in [Threads -> Calls]
        /\ status' \in [Threads -> RL!Statuses]
        /\ thread'[t] = "leave" /\ status'[t] = s
        /\ \A u \in Threads : u # t => /\ thread'[u] = thread[u]
                                       /\ status'[u] = status[u]
    BY <1>0, <2>1, ThreadMoves, ThreadKeeps, Zenon
  <2>3. \A p \in Principals : RL!InSlot(p)' = RL!InSlot(p)
    BY <2>1, <2>2 DEF RL!InSlot
  <2>4. StagesFit'
    BY <1>0, <1>1, <2>1, <2>2 DEF StagesFit
  <2>5. \A r : t \notin Ending(r) /\ Ending(r)' = IF r = s THEN Ending(r) \cup {t} ELSE Ending(r)
    BY <2>2 DEF Ending
  <2>. QED  BY <1>1, <2>1, <2>2, <2>3, <2>4, <2>5
<1>2. CASE call[t].kind # "chat"
  <2>1. /\ thread' = [thread EXCEPT ![t] = "idle"]
        /\ call' = [call EXCEPT ![t] = RL!NoCall]
        /\ UNCHANGED status
    BY <1>2 DEF RL!Ended
  <2>2. /\ thread' \in [Threads -> ThreadPlaces]
        /\ call' \in [Threads -> Calls]
        /\ status' \in [Threads -> RL!Statuses]
        /\ thread'[t] = "idle"
        /\ \A u \in Threads : u # t => /\ thread'[u] = thread[u]
                                       /\ call'[u] = call[u]
    BY <1>0, <2>1, ThreadMoves, ThreadKeeps, Zenon
  <2>3. \A p \in Principals : RL!InSlot(p)' = RL!InSlot(p)
    BY <1>2, <2>2 DEF RL!InSlot
  <2>4. StagesFit'
    BY <1>0, <2>1, <2>2 DEF StagesFit
  <2>5. \A r : t \notin Ending(r) /\ Ending(r)' = Ending(r)
    BY <2>1, <2>2 DEF Ending
  <2>. QED  BY <1>2, <2>1, <2>2, <2>3, <2>4, <2>5
<1>. QED  BY <1>1, <1>2

\* begin: an operation is listed if its id is free, or ends as failed.
LEMMA BeginStep ==
    ASSUME LifecycleInv, NEW t \in Threads, RL!Begin(t)
    PROVE  LifecycleInv'
<1>0. /\ thread[t] = "begin"
      /\ UNCHANGED <<active, totals, requests, admitted, latest, traces, clock>>
      /\ RegistryListsRunning /\ CancelsAreAllowed /\ StagesFit
      /\ t \notin operations
      /\ WindowIsASuffix'
  <2>1. /\ thread[t] = "begin"
        /\ UNCHANGED <<active, totals, requests, admitted, latest, traces, clock>>
    BY DEF RL!Begin, RL!window
  <2>. QED  BY <2>1, WindowRests DEF LifecycleInv, RegistryListsRunning
<1>1. CASE RL!IdFree(call[t].id)
  <2>1. /\ operations' = {u \in operations : call[u].id # call[t].id} \cup {t}
        /\ cancelledBy' = [cancelledBy EXCEPT ![t] = {}]
        /\ thread' = [thread EXCEPT ![t] = "running"]
        /\ UNCHANGED <<call, status>>
    BY <1>1 DEF RL!Begin
  <2>2. operations' = operations \cup {t}
    BY <1>1, <2>1 DEF RL!IdFree
  <2>3. "running" \in ThreadPlaces
    BY DEF ThreadPlaces
  <2>4. /\ thread' \in [Threads -> ThreadPlaces]
        /\ call' \in [Threads -> Calls]
        /\ status' \in [Threads -> RL!Statuses]
        /\ thread'[t] = "running"
        /\ \A u \in Threads : u # t => thread'[u] = thread[u]
    BY <2>1, <2>3, ThreadMoves, ThreadKeeps, Zenon
  <2>5. /\ cancelledBy' \in [Threads -> SUBSET Principals]
        /\ cancelledBy'[t] = {}
        /\ \A u \in Threads : u # t => cancelledBy'[u] = cancelledBy[u]
    BY <2>1, LifecycleParts
  <2>6. LifecycleTypes'
    BY <1>0, <2>2, <2>4, <2>5, LifecycleParts, LifecycleTypesFollow
  <2>7. StagesFit'
    BY <1>0, <2>1, <2>4 DEF StagesFit
  <2>8. SlotsAreCounted'
    <3>1. \A p \in Principals : RL!InSlot(p)' = RL!InSlot(p)
      BY <1>0, <2>1, <2>4 DEF RL!InSlot
    <3>. QED  BY <1>0, <3>1, SlotsRest
  <2>9. TotalsAgree'
    <3>1. \A s : Ending(s)' = Ending(s)
      BY <1>0, <2>1, <2>4 DEF Ending
    <3>. QED  BY <1>0, <3>1, TotalsRest
  <2>10. RegistryListsRunning'
    <3>1. operations' = {u \in Threads : thread'[u] = "running"}
      BY <1>0, <2>2, <2>4 DEF RegistryListsRunning
    <3>2. \A u, v \in operations' : call'[u].id = call'[v].id => u = v
      BY <1>0, <1>1, <2>1, <2>2 DEF RegistryListsRunning, RL!IdFree
    <3>. QED  BY <3>1, <3>2 DEF RegistryListsRunning
  <2>11. CancelsAreAllowed'
    BY <1>0, <2>1, <2>2, <2>5 DEF CancelsAreAllowed, RL!MayCancel
  <2>. QED  BY <1>0, <2>6, <2>7, <2>8, <2>9, <2>10, <2>11 DEF LifecycleInv
<1>2. CASE ~RL!IdFree(call[t].id)
  <2>1. RL!Ended(t, "failed") /\ UNCHANGED <<operations, cancelledBy>>
    BY <1>2 DEF RL!Begin
  <2>2. "failed" \in RL!Statuses
    BY DEF RL!Statuses
  <2>3. /\ thread' \in [Threads -> ThreadPlaces]
        /\ call' \in [Threads -> Calls]
        /\ status' \in [Threads -> RL!Statuses]
        /\ thread'[t] \in {"leave", "idle"}
        /\ \A u \in Threads : u # t => thread'[u] = thread[u] /\ call'[u] = call[u]
        /\ \A p \in Principals : RL!InSlot(p)' = RL!InSlot(p)
        /\ StagesFit'
        /\ \A r \in {"completed", "cancelled"} : Ending(r)' = Ending(r)
    BY <1>0, <2>1, <2>2, EndedMoves
  <2>4. LifecycleTypes'
    BY <1>0, <2>1, <2>3, LifecycleParts, LifecycleTypesFollow
  <2>5. SlotsAreCounted' /\ TotalsAgree'
    BY <1>0, <2>3, SlotsRest, TotalsRest
  <2>6. RegistryListsRunning' /\ CancelsAreAllowed'
    BY <1>0, <2>1, <2>3, RegistryRests
  <2>. QED  BY <1>0, <2>3, <2>4, <2>5, <2>6 DEF LifecycleInv
<1>. QED  BY <1>1, <1>2

LEMMA CancelStep ==
    ASSUME LifecycleInv, NEW q \in Principals, RL!Cancel(q)
    PROVE  LifecycleInv'
<1>1. PICK t \in operations :
        /\ RL!MayCancel(q, t)
        /\ cancelledBy' = [cancelledBy EXCEPT ![t] = @ \cup {q}]
  BY Zenon DEF RL!Cancel
<1>2. UNCHANGED <<thread, call, status, active, requests, admitted, latest, operations,
                  totals, traces, clock>>
  BY DEF RL!Cancel, RL!window
<1>3. /\ cancelledBy' \in [Threads -> SUBSET Principals]
      /\ \A u \in Threads : cancelledBy'[u] \subseteq
             IF u = t THEN cancelledBy[u] \cup {q} ELSE cancelledBy[u]
  BY <1>1, LifecycleParts
<1>4. LifecycleTypes'
  BY <1>2, <1>3, LifecycleParts, LifecycleTypesFollow, Zenon
<1>5. StagesFit' /\ RegistryListsRunning'
  BY <1>2 DEF LifecycleInv, StagesFit, RegistryListsRunning
<1>6. SlotsAreCounted' /\ TotalsAgree' /\ WindowIsASuffix'
  <2>1. \A p : RL!InSlot(p)' = RL!InSlot(p)
    BY <1>2 DEF RL!InSlot
  <2>2. \A s : Ending(s)' = Ending(s)
    BY <1>2 DEF Ending
  <2>. QED  BY <1>2, <2>1, <2>2, SlotsRest, TotalsRest, WindowRests
<1>7. CancelsAreAllowed'
  BY <1>1, <1>2, <1>3 DEF LifecycleInv, CancelsAreAllowed, RL!MayCancel
<1>. QED  BY <1>4, <1>5, <1>6, <1>7 DEF LifecycleInv

LEMMA LifecycleRests ==
    ASSUME LifecycleInv,
           UNCHANGED <<thread, call, status, active, requests, admitted, latest,
                       operations, cancelledBy, totals, traces>>,
           clock' \in 0 .. MaxTime
    PROVE  LifecycleInv'
<1>1. LifecycleTypes'
  BY LifecycleParts, LifecycleTypesFollow
<1>2. StagesFit' /\ RegistryListsRunning' /\ CancelsAreAllowed'
  BY DEF LifecycleInv, StagesFit, RegistryListsRunning, CancelsAreAllowed, RL!MayCancel
<1>3. SlotsAreCounted' /\ TotalsAgree' /\ WindowIsASuffix'
  <2>1. \A p : RL!InSlot(p)' = RL!InSlot(p)
    BY DEF RL!InSlot
  <2>2. \A s : Ending(s)' = Ending(s)
    BY DEF Ending
  <2>. QED  BY <2>1, <2>2, SlotsRest, TotalsRest, WindowRests
<1>. QED  BY <1>1, <1>2, <1>3 DEF LifecycleInv

\* What finish counts: one operation of one kind, with one status.
LEMMA TotalsMove ==
    ASSUME LifecycleInv, NEW k \in RL!Kinds, NEW s \in RL!Statuses,
           totals' = [totals EXCEPT ![k][s] = @ + 1]
    PROVE  /\ totals' \in Tables
           /\ totals'[k][s] = totals[k][s] + 1
           /\ \A d \in RL!Kinds, r \in RL!Statuses :
                 d # k \/ r # s => totals'[d][r] = totals[d][r]
<1>0. totals \in [RL!Kinds -> [RL!Statuses -> Nat]]
  BY LifecycleParts DEF Tables
<1>1. PICK before \in [RL!Statuses -> Nat] : before = totals[k]
  BY <1>0
<1>2. PICK total \in Nat : total = before[s] + 1
  OBVIOUS
<1>3. PICK row \in [RL!Statuses -> Nat] : row = [before EXCEPT ![s] = total]
  BY Zenon
<1>4. totals' = [totals EXCEPT ![k] = row]
  BY <1>1, <1>2, <1>3
<1>5. row[s] = total /\ \A r \in RL!Statuses : r # s => row[r] = before[r]
  BY <1>3
<1>6. /\ totals' \in [RL!Kinds -> [RL!Statuses -> Nat]]
      /\ totals'[k] = row
      /\ \A d \in RL!Kinds : d # k => totals'[d] = totals[d]
  BY <1>0, <1>4
<1>. QED  BY <1>1, <1>2, <1>5, <1>6 DEF Tables

\* finish: the operation leaves the registry, is counted, and is to be traced
\* with the same status; as cancelled only if it was cancelled.
LEMMA FinishStep ==
    ASSUME LifecycleInv, NEW t \in Threads, RL!Finish(t)
    PROVE  /\ LifecycleInv'
           /\ RL!CancelStaysWithOwner
<1>0. /\ thread[t] = "running"
      /\ operations' = operations \ {t}
      /\ cancelledBy' = [cancelledBy EXCEPT ![t] = {}]
      /\ UNCHANGED <<active, requests, admitted, latest, traces, clock>>
      /\ RegistryListsRunning /\ CancelsAreAllowed /\ TotalsAgree
      /\ WindowIsASuffix'
  <2>1. UNCHANGED <<requests, admitted, latest>>
    BY DEF RL!Finish, RL!window
  <2>. QED  BY <2>1, WindowRests DEF RL!Finish, LifecycleInv
<1>1. PICK s \in RL!Statuses :
        /\ RL!MayEnd(t, s)
        /\ RL!Ended(t, s)
        /\ totals' = [totals EXCEPT ![call[t].kind][s] = @ + 1]
  BY Zenon DEF RL!Finish
<1>2. PICK k \in RL!Kinds : k = call[t].kind
  BY LifecycleParts DEF Calls
<1>3. /\ thread' \in [Threads -> ThreadPlaces]
      /\ call' \in [Threads -> Calls]
      /\ status' \in [Threads -> RL!Statuses]
      /\ thread'[t] \in {"leave", "idle"}
      /\ \A u \in Threads : u # t => thread'[u] = thread[u] /\ call'[u] = call[u]
      /\ \A p \in Principals : RL!InSlot(p)' = RL!InSlot(p)
      /\ StagesFit'
      /\ \A r \in {"completed", "cancelled"} :
           /\ t \notin Ending(r)
           /\ Ending(r)' = IF k = "chat" /\ r = s THEN Ending(r) \cup {t} ELSE Ending(r)
  BY <1>0, <1>1, <1>2, EndedMoves
<1>4. /\ totals' \in Tables
      /\ totals'[k][s] = totals[k][s] + 1
      /\ \A d \in RL!Kinds, r \in RL!Statuses :
            d # k \/ r # s => totals'[d][r] = totals[d][r]
  BY <1>1, <1>2, TotalsMove, Zenon
<1>5. /\ cancelledBy' \in [Threads -> SUBSET Principals]
      /\ cancelledBy'[t] = {}
      /\ \A u \in Threads : u # t => cancelledBy'[u] = cancelledBy[u]
  BY <1>0, LifecycleParts
<1>6. LifecycleTypes'
  BY <1>0, <1>3, <1>4, <1>5, LifecycleParts, LifecycleTypesFollow, Zenon
<1>7. SlotsAreCounted'
  BY <1>0, <1>3, SlotsRest
<1>8. TotalsAgree'
  <2>. SUFFICES ASSUME NEW r \in {"completed", "cancelled"}
                PROVE  totals'["chat"][r] = traces'[r] + Cardinality(Ending(r)')
    BY DEF TotalsAgree
  <2>0. /\ totals["chat"][r] = traces[r] + Cardinality(Ending(r))
        /\ r \in RL!Statuses /\ "chat" \in RL!Kinds
        /\ traces'[r] = traces[r]
    BY <1>0 DEF TotalsAgree, RL!Statuses, RL!Kinds
  <2>1. CASE k = "chat" /\ r = s
    <3>1. Ending(r) \subseteq Threads
      BY DEF Ending
    <3>2. IsFiniteSet(Ending(r)) /\ Cardinality(Ending(r)) \in Nat
      BY <3>1, CountsAreBounded
    <3>3. Ending(r)' = Ending(r) \cup {t} /\ t \notin Ending(r)
      BY <1>3, <2>1
    <3>4. Cardinality(Ending(r)') = Cardinality(Ending(r)) + 1
      BY <3>2, <3>3, FS_AddElement, Zenon
    <3>5. traces[r] \in Nat
      BY <2>0, LifecycleParts
    <3>. QED  BY <1>4, <2>0, <2>1, <3>2, <3>4, <3>5
  <2>2. CASE ~(k = "chat" /\ r = s)
    <3>1. Ending(r)' = Ending(r) /\ totals'["chat"][r] = totals["chat"][r]
      BY <1>3, <1>4, <2>0, <2>2
    <3>. QED  BY <2>0, <3>1
  <2>. QED  BY <2>1, <2>2
<1>9. RegistryListsRunning'
  <2>1. operations' = {u \in Threads : thread'[u] = "running"}
    BY <1>0, <1>3 DEF RegistryListsRunning
  <2>2. \A u, v \in operations' : call'[u].id = call'[v].id => u = v
    BY <1>0, <1>3 DEF RegistryListsRunning
  <2>. QED  BY <2>1, <2>2 DEF RegistryListsRunning
<1>10. CancelsAreAllowed'
  BY <1>0, <1>3, <1>5 DEF CancelsAreAllowed, RL!MayCancel
<1>11. RL!CancelStaysWithOwner
  <2>. SUFFICES ASSUME NEW u \in Threads, thread[u] = "running", thread'[u] # "running",
                       totals'[call[u].kind]["cancelled"] # totals[call[u].kind]["cancelled"]
                PROVE  \E q \in cancelledBy[u] : q \in Admins \/ q = call[u].principal
    BY DEF RL!CancelStaysWithOwner
  <2>1. u = t
    BY <1>3
  <2>2. s = "cancelled"
    BY <1>2, <1>4, <2>1 DEF RL!Statuses
  <2>3. cancelledBy[t] # {}
    BY <1>1, <2>2 DEF RL!MayEnd
  <2>. QED  BY <1>0, <2>1, <2>3 DEF CancelsAreAllowed, RL!MayCancel
<1>. QED  BY <1>0, <1>3, <1>6, <1>7, <1>8, <1>9, <1>10, <1>11 DEF LifecycleInv

\* No other step changes the totals.
LEMMA OnlyFinishCounts ==
    ASSUME UNCHANGED totals
    PROVE  RL!CancelStaysWithOwner
BY DEF RL!CancelStaysWithOwner

LEMMA LifecycleStep ==
    LifecycleInv /\ [Next]_vars => LifecycleInv' /\ RL!CancelStaysWithOwner
<1> SUFFICES ASSUME LifecycleInv, [Next]_vars
             PROVE  LifecycleInv' /\ RL!CancelStaysWithOwner
  OBVIOUS
<1>1. ASSUME RL!Next
      PROVE  LifecycleInv' /\ RL!CancelStaysWithOwner
  <2>1. ASSUME NEW t \in Threads, RL!Arrive(t)
        PROVE  LifecycleInv' /\ RL!CancelStaysWithOwner
    BY <2>1, ArriveStep, OnlyFinishCounts, Zenon DEF RL!Arrive, RL!registry
  <2>2. ASSUME NEW t \in Threads, RL!Slot(t)
        PROVE  LifecycleInv' /\ RL!CancelStaysWithOwner
    BY <2>2, SlotStep, OnlyFinishCounts, Zenon DEF RL!Slot, RL!registry
  <2>3. ASSUME NEW t \in Threads, RL!Begin(t)
        PROVE  LifecycleInv' /\ RL!CancelStaysWithOwner
    BY <2>3, BeginStep, OnlyFinishCounts DEF RL!Begin
  <2>4. ASSUME NEW t \in Threads, RL!LeaveSlot(t)
        PROVE  LifecycleInv' /\ RL!CancelStaysWithOwner
    BY <2>4, LeaveStep, OnlyFinishCounts, Zenon DEF RL!LeaveSlot, RL!registry
  <2>5. ASSUME NEW t \in Threads, RL!RecordTrace(t)
        PROVE  LifecycleInv' /\ RL!CancelStaysWithOwner
    BY <2>5, TraceStep, OnlyFinishCounts, Zenon DEF RL!RecordTrace, RL!registry
  <2>6. ASSUME NEW q \in Principals, RL!Cancel(q)
        PROVE  LifecycleInv' /\ RL!CancelStaysWithOwner
    BY <2>6, CancelStep, OnlyFinishCounts, Zenon DEF RL!Cancel
  <2>7. CASE RL!Tick
    <3>1. clock' \in 0 .. MaxTime
      <4>1. PICK now0 \in Nat : now0 = clock
        BY LifecycleParts
      <4>2. now0 < MaxTime /\ clock' = now0 + 1
        BY <2>7, <4>1 DEF RL!Tick
      <4>. QED  BY <4>2, LifecycleAssumption
    <3>. QED  BY <2>7, <3>1, LifecycleRests, OnlyFinishCounts
              DEF RL!Tick, RL!registry, RL!window
  <2>8. CASE RL!Done
    <3>1. clock' \in 0 .. MaxTime
      BY <2>8, LifecycleParts DEF RL!Done, RL!vars
    <3>. QED  BY <2>8, <3>1, LifecycleRests, OnlyFinishCounts
              DEF RL!Done, RL!vars, RL!registry, RL!window
  <2>. QED  BY <1>1, <2>1, <2>2, <2>3, <2>4, <2>5, <2>6, <2>7, <2>8, FinishStep
            DEF RL!Next, RL!Step
<1>2. CASE UNCHANGED RL!vars
  <2>1. clock' \in 0 .. MaxTime
    BY <1>2, LifecycleParts DEF RL!vars
  <2>. QED  BY <1>2, <2>1, LifecycleRests, OnlyFinishCounts
            DEF RL!vars, RL!registry, RL!window
<1>3. RL!Next \/ UNCHANGED RL!vars
  <2>1. CASE Next
    BY <2>1 DEF Next, lifecycleVars, RL!vars, RL!registry, RL!window
  <2>2. CASE UNCHANGED vars
    BY <2>2 DEF vars, lifecycleVars, RL!vars, RL!registry, RL!window
  <2>. QED  BY <2>1, <2>2
<1>. QED  BY <1>1, <1>2, <1>3

\* The invariant says what the component promises of its states.
LEMMA LifecycleHolds ==
    ASSUME LifecycleInv
    PROVE  RL!TypeOK /\ RL!LimitsHold /\ RL!RegistryIsExact
<1>1. RL!TypeOK
  BY DEF LifecycleInv, LifecycleTypes
<1>2. RL!RegistryIsExact
  BY SameCount DEF LifecycleInv, RegistryListsRunning, TotalsAgree, Ending,
                   RL!RegistryIsExact
<1>3. ASSUME NEW p \in Principals
      PROVE  Cardinality({i \in DOMAIN admitted[p] :
                              admitted[p][i] > latest - Window}) <= PerMinute
  <2>. DEFINE w == requests[p]
              a == admitted[p]
              S == {i \in DOMAIN a : a[i] > latest - Window}
  <2>0. /\ w \in Seq(0 .. MaxTime) /\ a \in Seq(0 .. MaxTime)
        /\ latest \in Nat /\ Window \in Nat /\ PerMinute \in Nat
        /\ Len(w) <= PerMinute /\ IsRecentPart(w, a, latest - Window)
    BY LifecycleParts DEF LifecycleInv, WindowIsASuffix
  <2>1. PICK gone \in Nat : Len(a) = gone + Len(w)
                            /\ \A i \in 1 .. gone : a[i] <= latest - Window
    BY <2>0 DEF IsRecentPart
  <2>2. S \subseteq gone + 1 .. gone + Len(w)
    <3>1. PICK x \in Int : x = latest - Window
      BY <2>0
    <3>2. ASSUME NEW i \in S
          PROVE  i \in gone + 1 .. gone + Len(w)
      <4>0. i \in DOMAIN a /\ a[i] > x
        BY <3>1
      <4>1. i \in 1 .. gone + Len(w) /\ a[i] \in Nat
        <5>1. a \in Seq(Nat) /\ w \in Seq(Nat)
          BY <2>0, SubrangeSequences
        <5>2. DOMAIN a = 1 .. gone + Len(w)
          BY <2>1, <5>1
        <5>. QED  BY <4>0, <5>1, <5>2
      <4>2. ~(i <= gone)
        <5>1. SUFFICES ASSUME i <= gone
                       PROVE  FALSE
          OBVIOUS
        <5>2. PICK y \in Nat : y = a[i]
          BY <4>1
        <5>3. y <= x
          BY <2>1, <3>1, <4>1, <5>1, <5>2
        <5>. QED  BY <3>1, <4>0, <5>2, <5>3
      <4>. QED  BY <2>0, <4>1, <4>2
    <3>. QED  BY <3>2
  <2>3. PICK m \in Nat : m = Len(w)
    BY <2>0
  <2>4. /\ IsFiniteSet(gone + 1 .. gone + m)
        /\ Cardinality(gone + 1 .. gone + m) = m
    <3>1. gone + 1 \in Int /\ gone + m \in Int
      OBVIOUS
    <3>2. IF gone + 1 > gone + m THEN m = 0 ELSE (gone + m) - (gone + 1) + 1 = m
      OBVIOUS
    <3>. QED  BY <3>1, <3>2, FS_Interval
  <2>. HIDE DEF S, w, a
  <2>5. Cardinality(S) \in Nat /\ Cardinality(S) <= m
    BY <2>2, <2>3, <2>4, FS_Subset, FS_CardinalityType, Zenon
  <2>6. Cardinality(S) <= PerMinute
    BY <2>0, <2>3, <2>5
  <2>. QED  BY <2>6 DEF S, a
<1>4. RL!LimitsHold
  BY <1>3, SameCount DEF LifecycleInv, SlotsAreCounted, RL!LimitsHold
<1>. QED  BY <1>1, <1>2, <1>4

\* Slots, ids, cancels and totals of requests are as promised (TeamAdmissionController,
\* OperationRegistry), for any threads, keys, ids and limits: every step leaves
\* a state in which they are, and ends as cancelled only what its owner or an
\* administrator has cancelled.
THEOREM GatewayRequestsAreAccounted == Spec => RequestsAreAccounted
<1>1. LifecycleInv /\ LifecycleInv' /\ [Next]_vars =>
        [part = "lifecycle" => /\ (RL!TypeOK /\ RL!LimitsHold /\ RL!RegistryIsExact)'
                               /\ RL!CancelStaysWithOwner]_RL!vars
  <2>1. LifecycleInv' => (RL!TypeOK /\ RL!LimitsHold /\ RL!RegistryIsExact)'
    BY LifecycleHolds, PTL
  <2>. QED  BY <2>1, LifecycleStep
<1>2. LifecycleInv /\ [Next]_vars => LifecycleInv'
  BY LifecycleStep
<1>. QED  BY <1>1, <1>2, LifecycleInit, PTL DEF Spec, RequestsAreAccounted

-----------------------------------------------------------------------------
(* External providers (ProviderBudget).                                    *)

\* What the type invariant of the component leaves out.
BudgetTypes ==
    /\ PB!TypeOK
    /\ month \in 1 .. MaxMonth
    /\ spent \in [Providers -> [1 .. MaxMonth -> Nat]]
    /\ queue \in [Callers -> Seq(PB!Config)]
    /\ paid \in [Callers -> SUBSET Providers]

\* A provider that must have a budget has one, in the table and in what a
\* request has read of it.
CapsAreKept ==
    /\ \A k \in configs : k.budget = NoBudget => k.id \in Uncapped
    /\ \A c \in Callers : \A i \in DOMAIN queue[c] :
         queue[c][i].budget = NoBudget => queue[c][i].id \in Uncapped

\* A request that checks, calls or records has a provider to do it for.
WorkHasProvider ==
    \A c \in Callers : caller[c] \in {"check", "call", "record"} => queue[c] # <<>>

\* Nothing is charged to a month that has not begun.
FutureIsFree ==
    \A p \in Providers, m \in 1 .. MaxMonth : m > month => spent[p][m] = 0

\* An answer that waits for its record has been paid for.
RecordIsPaid == \A c \in Callers : caller[c] = "record" => paid[c] # {}

\* The calls of provider p that count against month m.
Load(p, m) == IF m = month THEN Cardinality(PB!CallsUnderWay(p)) ELSE 0

Largest == PB!Max(Budgets)

\* PB!OverrunBounded, with the operators of this module.
OverrunIsBounded ==
    \A p \in Providers \ Uncapped : \A m \in 1 .. MaxMonth :
        spent[p][m] + MaxCost * Load(p, m) < Largest + MaxCost * Cardinality(Callers)

BudgetInv ==
    /\ BudgetTypes
    /\ CapsAreKept
    /\ WorkHasProvider
    /\ FutureIsFree
    /\ RecordIsPaid
    /\ OverrunIsBounded
    /\ PB!PaidOnce

CallerPlaces == {"idle", "route", "check", "call", "record", "local",
                 "external", "failed"}

LEMMA SameCardinality == \A S : PB!Cardinality(S) = Cardinality(S)
BY DEF PB!Cardinality, Cardinality

LEMMA SameBound == OverrunIsBounded => PB!OverrunBounded
BY SameCardinality DEF OverrunIsBounded, PB!OverrunBounded, Load, Largest

LEMMA LargestBudget ==
    /\ Largest \in Nat \ {0}
    /\ \A b \in Budgets : b <= Largest
<1>1. PICK m \in Budgets : m > 0 /\ \A a \in Budgets : a <= m
  BY BudgetAssumption
<1>2. \A a \in Budgets : m >= a
  BY <1>1, BudgetAssumption
<1>3. Largest \in Budgets /\ \A y \in Budgets : Largest >= y
  BY <1>2 DEF Largest, PB!Max
<1>. QED  BY <1>1, <1>3, BudgetAssumption

LEMMA BudgetInit == Init => BudgetInv
<1> SUFFICES ASSUME Init PROVE BudgetInv
  OBVIOUS
<1>0. PB!Init
  BY DEF Init
<1>1. BudgetTypes
  <2>1. \A c \in Callers : Len(queue[c]) <= Cardinality(Providers)
    BY <1>0, BudgetAssumption, FS_CardinalityType DEF PB!Init
  <2>2. spent \in [Providers -> [1 .. MaxMonth -> Nat]] /\ month \in 1 .. MaxMonth
    BY <1>0, BudgetAssumption DEF PB!Init
  <2>3. cost \in [Callers -> 0 .. MaxCost]
    BY <1>0, BudgetAssumption DEF PB!Init
  <2>. QED  BY <1>0, <2>1, <2>2, <2>3, SameCardinality DEF PB!Init, BudgetTypes, PB!TypeOK
<1>2. CapsAreKept /\ WorkHasProvider /\ FutureIsFree /\ RecordIsPaid
  BY <1>0, BudgetAssumption
     DEF PB!Init, CapsAreKept, WorkHasProvider, FutureIsFree, RecordIsPaid
<1>3. PB!PaidOnce
  BY <1>0, FS_EmptySet, SameCardinality DEF PB!Init, PB!PaidOnce
<1>4. OverrunIsBounded
  <2>1. \A p \in Providers : PB!CallsUnderWay(p) = {}
    BY <1>0 DEF PB!Init, PB!CallsUnderWay
  <2>2. \A p \in Providers, m \in 1 .. MaxMonth : Load(p, m) = 0
    BY <2>1, FS_EmptySet DEF Load
  <2>3. Cardinality(Callers) \in Nat
    BY BudgetAssumption, FS_CardinalityType
  <2>4. MaxCost * Cardinality(Callers) \in Nat
    BY <2>3, BudgetAssumption
  <2>5. \A p \in Providers, m \in 1 .. MaxMonth : spent[p][m] = 0
    BY <1>0 DEF PB!Init
  <2>6. MaxCost * 0 = 0
    BY BudgetAssumption
  <2>. QED  BY <2>2, <2>4, <2>5, <2>6, LargestBudget DEF OverrunIsBounded
<1>. QED  BY <1>1, <1>2, <1>3, <1>4 DEF BudgetInv

\* What a caller that moves to another step leaves alone.
LEMMA CallerGoes ==
    ASSUME BudgetTypes, NEW c \in Callers, NEW where \in CallerPlaces,
           PB!Go(c, where)
    PROVE  /\ caller' \in [Callers -> CallerPlaces]
           /\ caller'[c] = where
           /\ \A d \in Callers : d # c => caller'[d] = caller[d]
BY DEF BudgetTypes, PB!TypeOK, CallerPlaces, PB!Go

\* The number of calls under way is one of the callers'.
LEMMA UnderWayIsFinite ==
    ASSUME NEW p
    PROVE  /\ IsFiniteSet(PB!CallsUnderWay(p))
           /\ Cardinality(PB!CallsUnderWay(p)) \in Nat
           /\ Cardinality(PB!CallsUnderWay(p)) <= Cardinality(Callers)
           /\ Cardinality(Callers) \in Nat
BY BudgetAssumption, FS_Subset, FS_CardinalityType DEF PB!CallsUnderWay

LEMMA LoadIsBounded ==
    ASSUME NEW p, NEW m
    PROVE  Load(p, m) \in Nat /\ Load(p, m) <= Cardinality(Callers)
BY UnderWayIsFinite DEF Load

LEMMA LoadIsBoundedNext ==
    ASSUME NEW p, NEW m
    PROVE  /\ IsFiniteSet(PB!CallsUnderWay(p)')
           /\ Load(p, m)' \in Nat
           /\ Load(p, m)' <= Cardinality(Callers)
<1>1. PB!CallsUnderWay(p)' \subseteq Callers
  BY DEF PB!CallsUnderWay
<1>2. /\ IsFiniteSet(PB!CallsUnderWay(p)')
      /\ Cardinality(PB!CallsUnderWay(p)') \in Nat
      /\ Cardinality(PB!CallsUnderWay(p)') <= Cardinality(Callers)
      /\ Cardinality(Callers) \in Nat
  BY <1>1, BudgetAssumption, FS_Subset, FS_CardinalityType
<1>. QED  BY <1>2 DEF Load

LEMMA TimesMonotone ==
    ASSUME NEW k \in Nat, NEW a \in Nat, NEW b \in Nat, a <= b
    PROVE  k * a \in Nat /\ k * b \in Nat /\ k * a <= k * b
OBVIOUS

\* A step that charges nothing and puts nothing under way keeps the bound.
LEMMA NothingMoreUnderWay ==
    ASSUME BudgetTypes, OverrunIsBounded, month' = month,
           spent' \in [Providers -> [1 .. MaxMonth -> Nat]],
           \A p \in Providers, m \in 1 .. MaxMonth : spent'[p][m] <= spent[p][m],
           \A p \in Providers : PB!CallsUnderWay(p)' \subseteq PB!CallsUnderWay(p)
    PROVE  OverrunIsBounded'
<1>. SUFFICES ASSUME NEW p \in Providers \ Uncapped, NEW m \in 1 .. MaxMonth
              PROVE  spent'[p][m] + MaxCost * Load(p, m)'
                         < Largest + MaxCost * Cardinality(Callers)
  BY Zenon DEF OverrunIsBounded, Largest, PB!Max
<1>1. Load(p, m)' <= Load(p, m)
  <2>1. Cardinality(PB!CallsUnderWay(p)') <= Cardinality(PB!CallsUnderWay(p))
    BY UnderWayIsFinite, FS_Subset
  <2>. QED  BY <2>1 DEF Load
<1>2. /\ MaxCost * Load(p, m)' \in Nat
      /\ MaxCost * Load(p, m) \in Nat
      /\ MaxCost * Load(p, m)' <= MaxCost * Load(p, m)
  BY <1>1, LoadIsBounded, LoadIsBoundedNext, TimesMonotone, BudgetAssumption, Zenon
<1>3. MaxCost * Cardinality(Callers) \in Nat
  <2>1. MaxCost \in Nat /\ Cardinality(Callers) \in Nat
    BY UnderWayIsFinite, BudgetAssumption
  <2>2. Cardinality(Callers) <= Cardinality(Callers)
    BY <2>1
  <2>. QED  BY <2>1, <2>2, TimesMonotone, Zenon
<1>4. spent[p][m] \in Nat /\ spent'[p][m] \in Nat /\ spent'[p][m] <= spent[p][m]
  BY Zenon DEF BudgetTypes
<1>5. spent[p][m] + MaxCost * Load(p, m) < Largest + MaxCost * Cardinality(Callers)
  BY DEF OverrunIsBounded
<1>. QED  BY <1>2, <1>3, <1>4, <1>5, LargestBudget

\* What a request may have in its queue.
CappedQueue(q) ==
    /\ q \in Seq(PB!Config)
    /\ Len(q) <= Cardinality(Providers)
    /\ \A i \in DOMAIN q : q[i].budget = NoBudget => q[i].id \in Uncapped

\* What a request that goes somewhere may have paid.
PaidFits(paidTo, where) ==
    /\ paidTo \subseteq Providers
    /\ Cardinality(paidTo) <= 1
    /\ where \in {"record", "external"} => paidTo # {}
    /\ paidTo # {} => where \in {"record", "external", "failed"}

LEMMA QueueFits ==
    ASSUME BudgetInv, NEW c \in Callers
    PROVE  /\ CappedQueue(queue[c])
           /\ PaidFits(paid[c], caller[c])
<1>1. queue[c] \in Seq(PB!Config) /\ Len(queue[c]) <= Cardinality(Providers)
  BY SameCardinality DEF BudgetInv, BudgetTypes, PB!TypeOK
<1>2. \A i \in DOMAIN queue[c] : queue[c][i].budget = NoBudget => queue[c][i].id \in Uncapped
  BY DEF BudgetInv, CapsAreKept
<1>3. PaidFits(paid[c], caller[c])
  BY SameCardinality
     DEF BudgetInv, BudgetTypes, RecordIsPaid, PB!PaidOnce, PaidFits
<1>. QED  BY <1>1, <1>2, <1>3 DEF CappedQueue

\* One request moves: everything but the bound on the overrun.
LEMMA RequestMoves ==
    ASSUME BudgetInv, NEW c \in Callers, NEW where \in CallerPlaces, PB!Go(c, where),
           UNCHANGED <<configs, secrets, month>>,
           spent' \in [Providers -> [1 .. MaxMonth -> Nat]],
           \A p \in Providers, m \in 1 .. MaxMonth : m > month => spent'[p][m] = spent[p][m],
           NEW q, queue' = [queue EXCEPT ![c] = q],
           CappedQueue(q), where \in {"check", "call", "record"} => q # <<>>,
           NEW n \in 0 .. MaxCost, cost' = [cost EXCEPT ![c] = n],
           NEW s, paid' = [paid EXCEPT ![c] = s], PaidFits(s, where)
    PROVE  /\ BudgetTypes' /\ CapsAreKept' /\ WorkHasProvider' /\ FutureIsFree'
           /\ RecordIsPaid' /\ PB!PaidOnce'
<1>0. BudgetTypes /\ PB!TypeOK
  BY DEF BudgetInv, BudgetTypes
<1>1. /\ caller' \in [Callers -> CallerPlaces]
      /\ caller'[c] = where
      /\ \A d \in Callers : d # c => caller'[d] = caller[d]
  BY <1>0, CallerGoes
<1>2. /\ queue' \in [Callers -> Seq(PB!Config)]
      /\ queue'[c] = q
      /\ \A d \in Callers : d # c => queue'[d] = queue[d]
  BY <1>0 DEF BudgetTypes, CappedQueue
<1>3. /\ paid' \in [Callers -> SUBSET Providers]
      /\ paid'[c] = s
      /\ \A d \in Callers : d # c => paid'[d] = paid[d]
  BY <1>0 DEF BudgetTypes, PaidFits
<1>4. cost' \in [Callers -> 0 .. MaxCost]
  BY <1>0 DEF PB!TypeOK
<1>5. PB!Config' = PB!Config
  BY DEF PB!Config
<1>6. \A d \in Callers : CappedQueue(queue'[d]) /\ PaidFits(paid'[d], caller'[d])
  <2>. TAKE d \in Callers
  <2>1. CappedQueue(queue[d]) /\ PaidFits(paid[d], caller[d])
    BY QueueFits
  <2>2. CASE d = c
    BY <2>2, <1>1, <1>2, <1>3
  <2>3. CASE d # c
    <3>1. caller'[d] = caller[d] /\ queue'[d] = queue[d] /\ paid'[d] = paid[d]
      BY <2>3, <1>1, <1>2, <1>3
    <3>. QED  BY <3>1, <2>1
  <2>. QED  BY <2>2, <2>3
<1>7. BudgetTypes'
  <2>1. PB!TypeOK'
    <3>1. \A d \in Callers : Len(queue'[d]) <= Cardinality(Providers)
      BY <1>6 DEF CappedQueue
    <3>2. configs' \subseteq PB!Config /\ \A j, k \in configs' : j.id = k.id => j = k
      BY <1>0 DEF PB!TypeOK
    <3>3. secrets' \subseteq Providers
      BY <1>0 DEF PB!TypeOK
    <3>. QED  BY <1>1, <1>4, <1>5, <3>1, <3>2, <3>3, SameCardinality
              DEF PB!TypeOK, CallerPlaces
  <2>2. month' \in 1 .. MaxMonth
    BY <1>0 DEF BudgetTypes
  <2>. QED  BY <2>1, <2>2, <1>2, <1>3, <1>5 DEF BudgetTypes
<1>8. CapsAreKept'
  BY <1>6 DEF CappedQueue, BudgetInv, CapsAreKept
<1>9. WorkHasProvider'
  <2>. SUFFICES ASSUME NEW d \in Callers, caller'[d] \in {"check", "call", "record"}
                PROVE  queue'[d] # <<>>
    BY DEF WorkHasProvider
  <2>1. CASE d = c
    BY <2>1, <1>1, <1>2
  <2>2. CASE d # c
    BY <2>2, <1>1, <1>2 DEF BudgetInv, WorkHasProvider
  <2>. QED  BY <2>1, <2>2
<1>10. FutureIsFree'
  BY DEF BudgetInv, FutureIsFree
<1>11. RecordIsPaid' /\ PB!PaidOnce'
  <2>1. \A d \in Callers : caller'[d] = "record" => paid'[d] # {}
    BY <1>6 DEF PaidFits
  <2>2. \A d \in Callers : /\ Cardinality(paid'[d]) <= 1
                           /\ caller'[d] = "external" => paid'[d] # {}
                           /\ paid'[d] # {} => caller'[d] \in {"record", "external", "failed"}
    BY <1>6 DEF PaidFits
  <2>. QED  BY <2>1, <2>2, SameCardinality DEF RecordIsPaid, PB!PaidOnce
<1>. QED  BY <1>7, <1>8, <1>9, <1>10, <1>11

\* A request that puts no call under way, and charges nothing.
LEMMA RequestRests ==
    ASSUME BudgetInv, NEW c \in Callers, NEW where \in CallerPlaces, PB!Go(c, where),
           UNCHANGED <<configs, secrets, month, spent>>,
           NEW q, queue' = [queue EXCEPT ![c] = q],
           CappedQueue(q), where \in {"check", "call", "record"} => q # <<>>,
           NEW n \in 0 .. MaxCost, cost' = [cost EXCEPT ![c] = n],
           NEW s, paid' = [paid EXCEPT ![c] = s], PaidFits(s, where),
           where \in {"call", "record"} => caller[c] \in {"call", "record"} /\ q = queue[c]
    PROVE  BudgetInv'
<1>0. BudgetTypes /\ OverrunIsBounded
  BY DEF BudgetInv
<1>1. spent' \in [Providers -> [1 .. MaxMonth -> Nat]]
  BY <1>0 DEF BudgetTypes
<1>2. /\ BudgetTypes' /\ CapsAreKept' /\ WorkHasProvider' /\ FutureIsFree'
      /\ RecordIsPaid' /\ PB!PaidOnce'
  BY <1>1, RequestMoves, Zenon
<1>3. ASSUME NEW p \in Providers, NEW d \in PB!CallsUnderWay(p)'
      PROVE  d \in PB!CallsUnderWay(p)
  <2>0. d \in Callers /\ caller'[d] \in {"call", "record"} /\ Head(queue'[d]).id = p
    BY <1>3 DEF PB!CallsUnderWay
  <2>1. CASE d = c
    <3>1. caller'[c] = where /\ queue'[c] = q
      BY <1>0, CallerGoes DEF BudgetTypes
    <3>. QED  BY <2>0, <2>1, <3>1 DEF PB!CallsUnderWay
  <2>2. CASE d # c
    <3>1. caller'[d] = caller[d] /\ queue'[d] = queue[d]
      BY <1>0, <2>0, <2>2, CallerGoes DEF BudgetTypes
    <3>. QED  BY <2>0, <3>1 DEF PB!CallsUnderWay
  <2>. QED  BY <2>1, <2>2
<1>4. \A p \in Providers, m \in 1 .. MaxMonth : spent'[p][m] <= spent[p][m]
  <2>1. \A p \in Providers, m \in 1 .. MaxMonth : spent[p][m] \in Nat
    BY <1>0, Zenon DEF BudgetTypes
  <2>. QED  BY <2>1
<1>5. OverrunIsBounded'
  BY <1>0, <1>1, <1>3, <1>4, NothingMoreUnderWay
<1>. QED  BY <1>2, <1>5 DEF BudgetInv

\* The rows that may answer, in the order of their names, are a queue that fits.
LEMMA CandidatesFit ==
    ASSUME BudgetInv, NEW only, NEW listed \in PB!CandidatesOf(only)
    PROVE  CappedQueue(listed)
<1>. DEFINE chosen == {k \in configs : k.enabled /\ (only = {} \/ k.id \in only)}
<1>0. /\ chosen \subseteq configs
      /\ configs \subseteq PB!Config
      /\ \A j, k \in configs : j.id = k.id => j = k
      /\ \A k \in configs : k.budget = NoBudget => k.id \in Uncapped
  BY DEF BudgetInv, BudgetTypes, PB!TypeOK, CapsAreKept
<1>1. /\ listed \in [1 .. Cardinality(chosen) -> chosen]
      /\ \A i, j \in DOMAIN listed : i < j => listed[i].id < listed[j].id
  BY SameCardinality DEF PB!CandidatesOf
<1>. HIDE DEF chosen
<1>2. IsFiniteSet(chosen) /\ Cardinality(chosen) <= Cardinality(Providers)
  <2>. DEFINE f == [k \in chosen |-> k.id]
  <2>1. f \in Injection(chosen, Providers)
    BY <1>0 DEF PB!Config, Injection, IsInjective
  <2>. QED  BY <2>1, BudgetAssumption, FS_Injection
<1>3. Cardinality(chosen) \in Nat /\ Cardinality(Providers) \in Nat
  BY <1>2, BudgetAssumption, FS_CardinalityType
<1>4. listed \in Seq(PB!Config) /\ Len(listed) = Cardinality(chosen)
  BY <1>0, <1>1, <1>3
<1>5. \A i \in DOMAIN listed : listed[i].budget = NoBudget => listed[i].id \in Uncapped
  BY <1>0, <1>1
<1>. QED  BY <1>2, <1>3, <1>4, <1>5 DEF CappedQueue

LEMMA TailFits ==
    ASSUME NEW q, CappedQueue(q), Len(q) > 1
    PROVE  CappedQueue(Tail(q)) /\ Tail(q) # <<>>
<1>1. /\ q \in Seq(PB!Config) /\ Len(q) \in Nat
      /\ Tail(q) \in Seq(PB!Config)
      /\ Len(Tail(q)) = Len(q) - 1
      /\ \A i \in 1 .. Len(q) - 1 : Tail(q)[i] = q[i + 1]
  BY DEF CappedQueue
<1>2. Cardinality(Providers) \in Nat
  BY BudgetAssumption, FS_CardinalityType
<1>3. \A i \in DOMAIN Tail(q) : i + 1 \in DOMAIN q /\ Tail(q)[i] = q[i + 1]
  BY <1>1
<1>. QED  BY <1>1, <1>2, <1>3 DEF CappedQueue

LEMMA HeadFits ==
    ASSUME NEW q, CappedQueue(q), q # <<>>
    PROVE  /\ Head(q) \in PB!Config
           /\ Head(q).id \in Providers
           /\ Head(q).budget = NoBudget => Head(q).id \in Uncapped
<1>1. q \in Seq(PB!Config) /\ Head(q) = q[1] /\ 1 \in DOMAIN q /\ q[1] \in PB!Config
  BY DEF CappedQueue
<1>. QED  BY <1>1 DEF CappedQueue, PB!Config

\* Nothing else changes for the request.
LEMMA Stays ==
    ASSUME BudgetInv, NEW c \in Callers
    PROVE  /\ UNCHANGED queue => queue' = [queue EXCEPT ![c] = queue[c]]
           /\ UNCHANGED cost => cost' = [cost EXCEPT ![c] = cost[c]]
           /\ UNCHANGED paid => paid' = [paid EXCEPT ![c] = paid[c]]
           /\ cost[c] \in 0 .. MaxCost
           /\ CappedQueue(queue[c])
           /\ PaidFits(paid[c], caller[c])
<1>1. /\ queue \in [Callers -> Seq(PB!Config)]
      /\ cost \in [Callers -> 0 .. MaxCost]
      /\ paid \in [Callers -> SUBSET Providers]
  BY DEF BudgetInv, BudgetTypes, PB!TypeOK
<1>2. CappedQueue(queue[c]) /\ PaidFits(paid[c], caller[c])
  BY QueueFits
<1>. QED  BY <1>1, <1>2

\* A request that only goes somewhere, and calls nobody.
LEMMA RequestGoes ==
    ASSUME BudgetInv, NEW c \in Callers,
           NEW where \in {"idle", "route", "local", "failed"}, PB!Go(c, where),
           UNCHANGED <<PB!admin, spent, month, queue, cost, paid>>,
           paid[c] = {}
    PROVE  BudgetInv'
<1>1. where \in CallerPlaces /\ where \notin {"check", "call", "record", "external"}
  BY DEF CallerPlaces
<1>2. PaidFits(paid[c], where)
  BY <1>1, Stays DEF PaidFits
<1>3. UNCHANGED <<configs, secrets, month, spent>>
  BY DEF PB!admin
<1>. QED  BY <1>1, <1>2, <1>3, Stays, RequestRests, Zenon

LEMMA NothingPaid ==
    ASSUME BudgetInv, NEW c \in Callers, caller[c] \notin {"record", "external", "failed"}
    PROVE  paid[c] = {}
BY QueueFits DEF PaidFits

LEMMA NextLegGoes ==
    ASSUME NEW c \in Callers, PB!NextLeg(c)
    PROVE  \E where \in {"route", "failed"} : PB!Go(c, where)
<1>1. CASE Len(callerLegs[c]) = 1
  BY <1>1 DEF PB!NextLeg
<1>2. CASE Len(callerLegs[c]) # 1
  BY <1>2 DEF PB!NextLeg
<1>. QED  BY <1>1, <1>2

LEMMA StartStep ==
    ASSUME BudgetInv, NEW c \in Callers, PB!Start(c)
    PROVE  BudgetInv'
<1>1. /\ PB!Go(c, "route") /\ caller[c] = "idle"
      /\ UNCHANGED <<PB!admin, spent, month, queue, cost, paid>>
  BY DEF PB!Start
<1>. QED  BY <1>1, NothingPaid, RequestGoes

LEMMA LocalStep ==
    ASSUME BudgetInv, NEW c \in Callers, PB!Local(c)
    PROVE  BudgetInv'
<1>1. /\ \E where \in {"route", "local", "failed"} : PB!Go(c, where)
      /\ caller[c] = "route"
      /\ UNCHANGED <<PB!admin, spent, month, queue, cost, paid>>
  BY NextLegGoes DEF PB!Local
<1>. QED  BY <1>1, NothingPaid, RequestGoes

LEMMA CandidatesStep ==
    ASSUME BudgetInv, NEW c \in Callers, PB!Candidates(c)
    PROVE  BudgetInv'
<1>0. PICK only \in {{}} \cup {{p} : p \in Providers} :
         \E listed \in PB!CandidatesOf(only) :
             /\ queue' = [queue EXCEPT ![c] = listed]
             /\ PB!Go(c, IF listed = <<>> THEN "failed" ELSE "check")
  BY Zenon DEF PB!Candidates
<1>1. PICK listed \in PB!CandidatesOf(only) :
         /\ queue' = [queue EXCEPT ![c] = listed]
         /\ PB!Go(c, IF listed = <<>> THEN "failed" ELSE "check")
  BY <1>0, Zenon
<1>2. /\ UNCHANGED <<configs, secrets, month, spent>>
      /\ caller[c] = "route"
      /\ UNCHANGED <<cost, paid>>
  BY DEF PB!Candidates, PB!admin
<1>3. CappedQueue(listed)
  BY CandidatesFit
<1>4. paid[c] = {}
  BY <1>2, NothingPaid
<1>5. PICK where \in {"failed", "check"} :
         PB!Go(c, where) /\ (where = "check" => listed # <<>>)
  <2>1. CASE listed = <<>>
    BY <2>1, <1>1
  <2>2. CASE listed # <<>>
    BY <2>2, <1>1
  <2>. QED  BY <2>1, <2>2
<1>6. PaidFits(paid[c], where) /\ where \in CallerPlaces
  BY <1>4, <1>5, Stays, Zenon DEF PaidFits, CallerPlaces
<1>. QED  BY <1>1, <1>2, <1>3, <1>5, <1>6, Stays, RequestRests, Zenon

LEMMA CallStep ==
    ASSUME BudgetInv, NEW c \in Callers, PB!Call(c)
    PROVE  BudgetInv'
<1>1. /\ caller[c] = "call"
      /\ UNCHANGED <<configs, secrets, month, spent>>
      /\ UNCHANGED <<PB!admin, spent, month>>
  BY DEF PB!Call, PB!admin
<1>2. paid[c] = {} /\ queue[c] # <<>> /\ CappedQueue(queue[c])
  BY <1>1, NothingPaid, Stays DEF BudgetInv, WorkHasProvider
<1>3. ASSUME NEW n \in 0 .. MaxCost, cost' = [cost EXCEPT ![c] = n],
             paid' = [paid EXCEPT ![c] = @ \cup {Head(queue[c]).id}],
             PB!Go(c, "record"), UNCHANGED queue
      PROVE  BudgetInv'
  <2>1. Head(queue[c]).id \in Providers
    BY <1>2, HeadFits
  <2>2. PaidFits({Head(queue[c]).id}, "record")
    <3>1. Cardinality({Head(queue[c]).id}) = 1
      BY FS_Singleton, Zenon
    <3>. QED  BY <2>1, <3>1 DEF PaidFits
  <2>3. paid' = [paid EXCEPT ![c] = {Head(queue[c]).id}]
    BY <1>2, <1>3
  <2>4. "record" \in CallerPlaces
    BY DEF CallerPlaces
  <2>. QED  BY <1>1, <1>2, <1>3, <2>2, <2>3, <2>4, Stays, RequestRests, Zenon
<1>4. ASSUME Len(queue[c]) > 1, queue' = [queue EXCEPT ![c] = Tail(@)],
             PB!Go(c, "check"), UNCHANGED <<cost, paid>>
      PROVE  BudgetInv'
  <2>1. queue' = [queue EXCEPT ![c] = Tail(queue[c])]
    BY <1>4
  <2>2. CappedQueue(Tail(queue[c])) /\ Tail(queue[c]) # <<>>
    BY <1>2, <1>4, TailFits
  <2>3. PaidFits(paid[c], "check") /\ "check" \in CallerPlaces
    BY <1>2, Stays, Zenon DEF PaidFits, CallerPlaces
  <2>. QED  BY <1>1, <1>4, <2>1, <2>2, <2>3, Stays, RequestRests, Zenon
<1>5. ASSUME NEW where \in {"route", "failed"}, PB!Go(c, where),
             UNCHANGED <<queue, cost, paid>>
      PROVE  BudgetInv'
  BY <1>1, <1>2, <1>5, RequestGoes
<1>6. \/ /\ \E n \in 0 .. MaxCost : cost' = [cost EXCEPT ![c] = n]
         /\ paid' = [paid EXCEPT ![c] = @ \cup {Head(queue[c]).id}]
         /\ PB!Go(c, "record") /\ UNCHANGED queue
      \/ /\ Len(queue[c]) > 1 /\ queue' = [queue EXCEPT ![c] = Tail(@)]
         /\ PB!Go(c, "check") /\ UNCHANGED <<cost, paid>>
      \/ /\ \E where \in {"route", "failed"} : PB!Go(c, where)
         /\ UNCHANGED <<queue, cost, paid>>
  BY NextLegGoes DEF PB!Call
<1>. QED  BY <1>3, <1>4, <1>5, <1>6

LEMMA AnswerStep ==
    ASSUME BudgetInv, NEW c \in Callers, PB!Answer(c)
    PROVE  BudgetInv'
<1>1. /\ PB!Go(c, "idle") /\ "idle" \in CallerPlaces
      /\ queue' = [queue EXCEPT ![c] = <<>>]
      /\ paid' = [paid EXCEPT ![c] = {}]
      /\ UNCHANGED cost
      /\ UNCHANGED <<configs, secrets, month, spent>>
  BY DEF PB!Answer, PB!admin, CallerPlaces
<1>2. CappedQueue(<<>>)
  BY BudgetAssumption, FS_CardinalityType DEF CappedQueue
<1>3. PaidFits({}, "idle")
  BY FS_EmptySet DEF PaidFits
<1>. QED  BY <1>1, <1>2, <1>3, Stays, RequestRests, Zenon

\* A request that passes the check has found its provider below its budget.
LEMMA CheckStep ==
    ASSUME BudgetInv, NEW c \in Callers, PB!Check(c)
    PROVE  BudgetInv'
<1>. DEFINE k == Head(queue[c])
<1>0. BudgetTypes /\ OverrunIsBounded
  BY DEF BudgetInv
<1>1. /\ caller[c] = "check"
      /\ UNCHANGED <<configs, secrets, month, spent>>
      /\ UNCHANGED <<PB!admin, spent, month, queue, cost, paid>>
  BY DEF PB!Check, PB!admin
<1>2. paid[c] = {} /\ queue[c] # <<>> /\ CappedQueue(queue[c])
  BY <1>1, NothingPaid, Stays DEF BudgetInv, WorkHasProvider
<1>3. \/ PB!Go(c, "failed")
      \/ ~PB!Exhausted(k) /\ PB!Go(c, "call")
  <2>1. CASE PB!Exhausted(k) \/ ~PB!HasSecret(k)
    BY <2>1 DEF PB!Check
  <2>2. CASE ~PB!Exhausted(k) /\ PB!HasSecret(k)
    BY <2>2 DEF PB!Check
  <2>. QED  BY <2>1, <2>2
<1>4. CASE PB!Go(c, "failed")
  BY <1>1, <1>2, <1>4, RequestGoes
<1>5. CASE ~PB!Exhausted(k) /\ PB!Go(c, "call")
  <2>1. k \in PB!Config /\ (k.budget = NoBudget => k.id \in Uncapped)
    BY <1>2, HeadFits
  <2>2. PaidFits(paid[c], "call") /\ "call" \in CallerPlaces
    BY <1>2, Stays, Zenon DEF PaidFits, CallerPlaces
  <2>3. spent' \in [Providers -> [1 .. MaxMonth -> Nat]]
    BY <1>0, <1>1 DEF BudgetTypes
  <2>4. /\ BudgetTypes' /\ CapsAreKept' /\ WorkHasProvider' /\ FutureIsFree'
        /\ RecordIsPaid' /\ PB!PaidOnce'
    BY <1>1, <1>2, <1>5, <2>2, <2>3, Stays, RequestMoves, Zenon
  <2>5. OverrunIsBounded'
    <3>. SUFFICES ASSUME NEW p \in Providers \ Uncapped, NEW m \in 1 .. MaxMonth
                  PROVE  spent'[p][m] + MaxCost * Load(p, m)'
                             < Largest + MaxCost * Cardinality(Callers)
      BY DEF OverrunIsBounded, Largest, PB!Max
    <3>0. /\ spent[p][m] \in Nat /\ spent'[p][m] = spent[p][m]
          /\ Load(p, m) \in Nat /\ Load(p, m)' \in Nat
          /\ Load(p, m)' <= Cardinality(Callers)
          /\ Cardinality(Callers) \in Nat
      BY <1>0, <1>1, LoadIsBounded, LoadIsBoundedNext, UnderWayIsFinite, Zenon DEF BudgetTypes
    <3>1. /\ MaxCost * Load(p, m)' \in Nat
          /\ MaxCost * Load(p, m)' <= MaxCost * Cardinality(Callers)
          /\ MaxCost * Cardinality(Callers) \in Nat
      BY <3>0, TimesMonotone, BudgetAssumption
    <3>2. CASE p = k.id /\ m = month
      <4>1. k.budget \in Budgets /\ spent[p][m] < k.budget
        <5>1. k.budget \in Budgets
          BY <2>1, <3>2 DEF PB!Config
        <5>2. k.budget # NoBudget /\ k.budget \in Nat
          BY <2>1, <3>2, <5>1, BudgetAssumption, Zenon
        <5>. QED  BY <1>5, <3>0, <3>2, <5>1, <5>2 DEF PB!Exhausted
      <4>2. spent[p][m] < Largest
        <5>1. k.budget \in Nat /\ k.budget <= Largest
          BY <4>1, LargestBudget, BudgetAssumption, Zenon
        <5>. QED  BY <4>1, <5>1, <3>0, LargestBudget
      <4>. QED  BY <3>0, <3>1, <4>2, LargestBudget
    <3>3. CASE p # k.id \/ m # month
      <4>1. Load(p, m)' = Load(p, m)
        <5>1. CASE m # month
          BY <1>1, <5>1 DEF Load
        <5>2. CASE p # k.id
          <6>1. caller'[c] = "call" /\ \A d \in Callers : d # c => caller'[d] = caller[d]
            BY <1>0, <1>5, <2>2, CallerGoes
          <6>2. PB!CallsUnderWay(p)' = PB!CallsUnderWay(p)
            BY <1>1, <5>2, <6>1 DEF PB!CallsUnderWay
          <6>. QED  BY <1>1, <6>2 DEF Load
        <5>. QED  BY <3>3, <5>1, <5>2
      <4>. QED  BY <1>0, <1>1, <4>1 DEF OverrunIsBounded
    <3>. QED  BY <3>2, <3>3
  <2>. QED  BY <2>4, <2>5 DEF BudgetInv
<1>. QED  BY <1>3, <1>4, <1>5

\* The charge is no more than the call under way may have cost.
LEMMA RecordStep ==
    ASSUME BudgetInv, NEW c \in Callers, PB!Record(c)
    PROVE  BudgetInv'
<1>. DEFINE k == Head(queue[c])
<1>0. BudgetTypes /\ OverrunIsBounded
  BY DEF BudgetInv
<1>1. /\ caller[c] = "record"
      /\ UNCHANGED <<configs, secrets, month>>
      /\ UNCHANGED <<queue, paid>>
      /\ cost' = [cost EXCEPT ![c] = 0]
  BY DEF PB!Record, PB!admin
<1>2. paid[c] # {} /\ queue[c] # <<>> /\ CappedQueue(queue[c]) /\ cost[c] \in 0 .. MaxCost
  BY <1>1, Stays, Zenon DEF BudgetInv, WorkHasProvider, RecordIsPaid
<1>3. k.id \in Providers /\ 0 \in 0 .. MaxCost
  BY <1>2, HeadFits, BudgetAssumption
<1>4. \/ PB!Go(c, "failed") /\ UNCHANGED spent
      \/ PB!Go(c, "external") /\ spent' = [spent EXCEPT ![k.id][month] = @ + cost[c]]
  BY DEF PB!Record, PB!RecordFails
<1>5. CASE PB!Go(c, "failed") /\ UNCHANGED spent
  <2>1. PaidFits(paid[c], "failed") /\ "failed" \in CallerPlaces
    BY <1>1, Stays, Zenon DEF PaidFits, CallerPlaces
  <2>. QED  BY <1>1, <1>2, <1>3, <1>5, <2>1, Stays, RequestRests, Zenon
<1>6. CASE PB!Go(c, "external") /\ spent' = [spent EXCEPT ![k.id][month] = @ + cost[c]]
  <2>1. PaidFits(paid[c], "external") /\ "external" \in CallerPlaces
    BY <1>1, <1>2, Stays, Zenon DEF PaidFits, CallerPlaces
  <2>2. /\ month \in 1 .. MaxMonth
        /\ spent \in [Providers -> [1 .. MaxMonth -> Nat]]
    BY <1>0 DEF BudgetTypes
  <2>3. /\ spent' \in [Providers -> [1 .. MaxMonth -> Nat]]
        /\ spent'[k.id][month] = spent[k.id][month] + cost[c]
        /\ \A p \in Providers, m \in 1 .. MaxMonth :
              p # k.id \/ m # month => spent'[p][m] = spent[p][m]
    <3>1. cost[c] \in Nat
      BY <1>2, BudgetAssumption
    <3>. DEFINE row == [spent[k.id] EXCEPT ![month] = @ + cost[c]]
    <3>2. spent' = [spent EXCEPT ![k.id] = row]
      BY <1>6
    <3>3. spent[k.id] \in [1 .. MaxMonth -> Nat]
      BY <1>3, <2>2
    <3>4. /\ row \in [1 .. MaxMonth -> Nat]
          /\ row[month] = spent[k.id][month] + cost[c]
          /\ \A m \in 1 .. MaxMonth : m # month => row[m] = spent[k.id][m]
      <4>. DEFINE before == spent[k.id]
                  total  == before[month] + cost[c]
      <4>1. before \in [1 .. MaxMonth -> Nat] /\ month \in 1 .. MaxMonth
        BY <2>2, <3>3
      <4>2. total \in Nat
        <5>1. before[month] \in Nat
          BY <4>1, Zenon
        <5>. HIDE DEF before
        <5>. QED  BY <3>1, <5>1
      <4>3. row = [before EXCEPT ![month] = total]
        OBVIOUS
      <4>. HIDE DEF before, total, row
      <4>4. /\ row \in [1 .. MaxMonth -> Nat] /\ row[month] = total
            /\ \A m \in 1 .. MaxMonth : m # month => row[m] = before[m]
        BY <4>1, <4>2, <4>3
      <4>. QED  BY <4>4 DEF before, total
    <3>. HIDE DEF row
    <3>5. /\ spent' \in [Providers -> [1 .. MaxMonth -> Nat]]
          /\ spent'[k.id] = row
          /\ \A p \in Providers : p # k.id => spent'[p] = spent[p]
      BY <1>3, <2>2, <3>2, <3>4
    <3>. QED  BY <3>4, <3>5, Zenon
  <2>4. \A p \in Providers, m \in 1 .. MaxMonth : m > month => spent'[p][m] = spent[p][m]
    BY <2>2, <2>3
  <2>5. /\ BudgetTypes' /\ CapsAreKept' /\ WorkHasProvider' /\ FutureIsFree'
        /\ RecordIsPaid' /\ PB!PaidOnce'
    BY <1>1, <1>2, <1>3, <1>6, <2>1, <2>3, <2>4, Stays, RequestMoves, Zenon
  <2>6. /\ caller'[c] = "external"
        /\ \A d \in Callers : d # c => caller'[d] = caller[d]
    BY <1>0, <1>6, <2>1, CallerGoes
  <2>7. OverrunIsBounded'
    <3>. SUFFICES ASSUME NEW p \in Providers \ Uncapped, NEW m \in 1 .. MaxMonth
                  PROVE  spent'[p][m] + MaxCost * Load(p, m)'
                             < Largest + MaxCost * Cardinality(Callers)
      BY DEF OverrunIsBounded, Largest, PB!Max
    <3>0. spent[p][m] + MaxCost * Load(p, m) < Largest + MaxCost * Cardinality(Callers)
      BY <1>0 DEF OverrunIsBounded
    <3>1. /\ Load(p, m) \in Nat /\ Load(p, m)' \in Nat /\ Cardinality(Callers) \in Nat
          /\ spent[p][m] \in Nat /\ spent'[p][m] \in Nat
      BY <2>2, <2>3, LoadIsBounded, LoadIsBoundedNext, UnderWayIsFinite, Zenon
    <3>2. /\ MaxCost * Load(p, m) \in Nat /\ MaxCost * Load(p, m)' \in Nat
          /\ MaxCost * Cardinality(Callers) \in Nat
      BY <3>1, BudgetAssumption
    <3>3. CASE p = k.id /\ m = month
      <4>1. PB!CallsUnderWay(p)' = PB!CallsUnderWay(p) \ {c} /\ c \in PB!CallsUnderWay(p)
        BY <1>1, <2>6, <3>3 DEF PB!CallsUnderWay
      <4>2. Cardinality(PB!CallsUnderWay(p)') = Cardinality(PB!CallsUnderWay(p)) - 1
        BY <4>1, UnderWayIsFinite, FS_RemoveElement, Zenon
      <4>3. Load(p, m)' = Load(p, m) - 1
        BY <1>1, <3>3, <4>2 DEF Load
      <4>4. MaxCost * Load(p, m) = MaxCost * Load(p, m)' + MaxCost
        BY <3>1, <4>3, BudgetAssumption
      <4>5. spent'[p][m] <= spent[p][m] + MaxCost
        <5>1. cost[c] \in Nat /\ cost[c] <= MaxCost
          BY <1>2, BudgetAssumption
        <5>2. spent'[p][m] = spent[p][m] + cost[c]
          BY <2>3, <3>3
        <5>. QED  BY <5>1, <5>2, <3>1, BudgetAssumption
      <4>. QED  BY <3>0, <3>1, <3>2, <4>4, <4>5, LargestBudget, BudgetAssumption
    <3>4. CASE p # k.id \/ m # month
      <4>1. spent'[p][m] = spent[p][m]
        BY <2>3, <3>4
      <4>2. Load(p, m)' <= Load(p, m)
        <5>1. PB!CallsUnderWay(p)' \subseteq PB!CallsUnderWay(p)
          BY <1>1, <2>6 DEF PB!CallsUnderWay
        <5>2. Cardinality(PB!CallsUnderWay(p)') <= Cardinality(PB!CallsUnderWay(p))
          BY <5>1, UnderWayIsFinite, FS_Subset
        <5>. QED  BY <1>1, <5>2 DEF Load
      <4>3. MaxCost * Load(p, m)' <= MaxCost * Load(p, m)
        BY <3>1, <4>2, TimesMonotone, BudgetAssumption
      <4>. QED  BY <3>0, <3>1, <3>2, <4>1, <4>3, LargestBudget
    <3>. QED  BY <3>3, <3>4
  <2>. QED  BY <2>5, <2>7 DEF BudgetInv
<1>. QED  BY <1>4, <1>5, <1>6

\* The administrator changes no request.
LEMMA AdminMoves ==
    ASSUME BudgetInv, UNCHANGED <<month, PB!caller>>,
           configs' \subseteq PB!Config, secrets' \subseteq Providers,
           \A j, k \in configs' : j.id = k.id => j = k,
           \A k \in configs' : k.budget = NoBudget => k.id \in Uncapped,
           spent' \in [Providers -> [1 .. MaxMonth -> Nat]],
           \A p \in Providers, m \in 1 .. MaxMonth : spent'[p][m] <= spent[p][m]
    PROVE  BudgetInv'
<1>0. /\ BudgetTypes /\ CapsAreKept /\ WorkHasProvider /\ FutureIsFree /\ RecordIsPaid
      /\ OverrunIsBounded /\ PB!PaidOnce
  BY DEF BudgetInv
<1>1. UNCHANGED <<month, caller, queue, cost, paid>>
  BY DEF PB!caller
<1>2. PB!Config' = PB!Config
  BY DEF PB!Config
<1>3. BudgetTypes'
  <2>1. PB!TypeOK'
    BY <1>0, <1>1, <1>2, SameCardinality DEF BudgetTypes, PB!TypeOK
  <2>. QED  BY <1>0, <1>1, <1>2, <2>1 DEF BudgetTypes
<1>4. CapsAreKept' /\ WorkHasProvider' /\ RecordIsPaid'
  BY <1>0, <1>1 DEF CapsAreKept, WorkHasProvider, RecordIsPaid
<1>5. FutureIsFree'
  <2>1. \A p \in Providers, m \in 1 .. MaxMonth :
           spent'[p][m] \in Nat /\ spent'[p][m] <= spent[p][m]
    BY Zenon
  <2>2. \A p \in Providers, m \in 1 .. MaxMonth : m > month => spent'[p][m] = 0
    BY <1>0, <2>1 DEF FutureIsFree
  <2>. QED  BY <1>1, <2>2 DEF FutureIsFree
<1>6. PB!PaidOnce'
  BY <1>0, <1>1, SameCardinality DEF PB!PaidOnce
<1>7. OverrunIsBounded'
  <2>1. \A p \in Providers : PB!CallsUnderWay(p)' \subseteq PB!CallsUnderWay(p)
    BY <1>1 DEF PB!CallsUnderWay
  <2>. QED  BY <1>0, <1>1, <2>1, NothingMoreUnderWay
<1>. QED  BY <1>3, <1>4, <1>5, <1>6, <1>7 DEF BudgetInv

LEMMA AdminStep ==
    ASSUME BudgetInv, PB!Configure \/ PB!SetSecret \/ PB!Delete
    PROVE  BudgetInv'
<1>0. /\ configs \subseteq PB!Config /\ secrets \subseteq Providers
      /\ \A j, k \in configs : j.id = k.id => j = k
      /\ \A k \in configs : k.budget = NoBudget => k.id \in Uncapped
      /\ spent \in [Providers -> [1 .. MaxMonth -> Nat]]
  BY DEF BudgetInv, BudgetTypes, PB!TypeOK, CapsAreKept
<1>1. UNCHANGED <<month, PB!caller>>
  BY DEF PB!Configure, PB!SetSecret, PB!Delete, PB!Change
<1>2. \A p \in Providers, m \in 1 .. MaxMonth : spent[p][m] <= spent[p][m]
  <2>1. \A p \in Providers, m \in 1 .. MaxMonth : spent[p][m] \in Nat
    BY <1>0, Zenon
  <2>. QED  BY <2>1
<1>3. CASE PB!Configure
  <2>1. PICK k \in PB!Config :
          /\ k.budget = NoBudget => k.id \in Uncapped
          /\ configs' = PB!Without(k.id) \cup {k}
          /\ secrets' \in {secrets, secrets \cup {k.id}, secrets \ {k.id}}
    BY <1>3 DEF PB!Configure
  <2>2. UNCHANGED spent
    BY <1>3 DEF PB!Configure
  <2>3. k.id \in Providers
    BY DEF PB!Config
  <2>4. /\ configs' \subseteq PB!Config /\ secrets' \subseteq Providers
        /\ \A j, l \in configs' : j.id = l.id => j = l
        /\ \A j \in configs' : j.budget = NoBudget => j.id \in Uncapped
    BY <1>0, <2>1, <2>3 DEF PB!Without
  <2>. QED  BY <1>0, <1>1, <1>2, <2>2, <2>4, AdminMoves
<1>4. CASE PB!SetSecret
  <2>1. UNCHANGED <<configs, spent>> /\ secrets' \subseteq Providers
    BY <1>0, <1>4 DEF PB!SetSecret
  <2>. QED  BY <1>0, <1>1, <1>2, <2>1, AdminMoves
<1>5. CASE PB!Delete
  <2>1. PICK p \in Providers :
          /\ configs' = PB!Without(p)
          /\ secrets' = secrets \ {p}
          /\ spent' = [spent EXCEPT ![p] = [m \in 1 .. MaxMonth |-> 0]]
    BY <1>5, Zenon DEF PB!Delete
  <2>2. /\ configs' \subseteq configs /\ secrets' \subseteq Providers
    BY <1>0, <2>1 DEF PB!Without
  <2>3. /\ spent' \in [Providers -> [1 .. MaxMonth -> Nat]]
        /\ \A u \in Providers, m \in 1 .. MaxMonth : spent'[u][m] \in {0, spent[u][m]}
    BY <1>0, <2>1
  <2>4. \A u \in Providers, m \in 1 .. MaxMonth : spent'[u][m] <= spent[u][m]
    <3>1. \A u \in Providers, m \in 1 .. MaxMonth : spent[u][m] \in Nat
      BY <1>0, Zenon
    <3>. QED  BY <2>3, <3>1
  <2>. QED  BY <1>0, <1>1, <2>2, <2>3, <2>4, AdminMoves
<1>. QED  BY <1>3, <1>4, <1>5

\* Nothing was charged to the new month; what is under way may be.
LEMMA NewMonthStep ==
    ASSUME BudgetInv, PB!NewMonth
    PROVE  BudgetInv'
<1>0. /\ BudgetTypes /\ CapsAreKept /\ WorkHasProvider /\ FutureIsFree /\ RecordIsPaid
      /\ OverrunIsBounded /\ PB!PaidOnce
  BY DEF BudgetInv
<1>1. /\ UNCHANGED <<configs, secrets, spent, caller, queue, cost, paid>>
      /\ month' = month + 1 /\ month < MaxMonth
  BY DEF PB!NewMonth, PB!admin, PB!caller
<1>2. PB!Config' = PB!Config
  BY DEF PB!Config
<1>3. month \in 1 .. MaxMonth /\ month' \in 1 .. MaxMonth
  BY <1>0, <1>1, BudgetAssumption DEF BudgetTypes
<1>4. BudgetTypes'
  <2>1. PB!TypeOK'
    BY <1>0, <1>1, <1>2, SameCardinality DEF BudgetTypes, PB!TypeOK
  <2>. QED  BY <1>0, <1>1, <1>2, <1>3, <2>1 DEF BudgetTypes
<1>5. CapsAreKept' /\ WorkHasProvider' /\ RecordIsPaid'
  BY <1>0, <1>1 DEF CapsAreKept, WorkHasProvider, RecordIsPaid
<1>6. FutureIsFree'
  BY <1>0, <1>1, <1>3 DEF FutureIsFree
<1>7. PB!PaidOnce'
  BY <1>0, <1>1, SameCardinality DEF PB!PaidOnce
<1>8. OverrunIsBounded'
  <2>. SUFFICES ASSUME NEW p \in Providers \ Uncapped, NEW m \in 1 .. MaxMonth
                PROVE  spent'[p][m] + MaxCost * Load(p, m)'
                           < Largest + MaxCost * Cardinality(Callers)
    BY DEF OverrunIsBounded, Largest, PB!Max
  <2>0. spent[p][m] + MaxCost * Load(p, m) < Largest + MaxCost * Cardinality(Callers)
    BY <1>0 DEF OverrunIsBounded
  <2>1. /\ Load(p, m) \in Nat /\ Load(p, m)' \in Nat /\ Cardinality(Callers) \in Nat
        /\ Load(p, m)' <= Cardinality(Callers)
        /\ spent[p][m] \in Nat /\ spent'[p][m] = spent[p][m]
    BY <1>0, <1>1, LoadIsBounded, LoadIsBoundedNext, UnderWayIsFinite, Zenon DEF BudgetTypes
  <2>2. /\ MaxCost * Load(p, m) \in Nat /\ MaxCost * Load(p, m)' \in Nat
        /\ MaxCost * Cardinality(Callers) \in Nat
        /\ MaxCost * Load(p, m)' <= MaxCost * Cardinality(Callers)
    BY <2>1, TimesMonotone, BudgetAssumption
  <2>3. CASE m = month'
    <3>1. spent[p][m] = 0
      BY <1>0, <1>1, <1>3, <2>3 DEF FutureIsFree
    <3>. QED  BY <2>1, <2>2, <3>1, LargestBudget
  <2>4. CASE m # month'
    <3>1. Load(p, m)' = 0 /\ MaxCost * 0 = 0
      BY <2>4, BudgetAssumption DEF Load
    <3>. QED  BY <2>0, <2>1, <2>2, <3>1, LargestBudget
  <2>. QED  BY <2>3, <2>4
<1>. QED  BY <1>4, <1>5, <1>6, <1>7, <1>8 DEF BudgetInv

LEMMA BudgetRests ==
    ASSUME BudgetInv, UNCHANGED PB!vars
    PROVE  BudgetInv'
<1>0. /\ BudgetTypes /\ CapsAreKept
  BY DEF BudgetInv
<1>1. UNCHANGED <<month, PB!caller, configs, secrets, spent>>
  BY DEF PB!vars, PB!admin
<1>2. /\ configs \subseteq PB!Config /\ secrets \subseteq Providers
      /\ \A j, k \in configs : j.id = k.id => j = k
      /\ \A k \in configs : k.budget = NoBudget => k.id \in Uncapped
      /\ spent \in [Providers -> [1 .. MaxMonth -> Nat]]
  BY <1>0 DEF BudgetTypes, PB!TypeOK, CapsAreKept
<1>3. \A p \in Providers, m \in 1 .. MaxMonth : spent[p][m] <= spent[p][m]
  <2>1. \A p \in Providers, m \in 1 .. MaxMonth : spent[p][m] \in Nat
    BY <1>2, Zenon
  <2>. QED  BY <2>1
<1>. QED  BY <1>1, <1>2, <1>3, AdminMoves

LEMMA BudgetStep == BudgetInv /\ [Next]_vars => BudgetInv'
<1> SUFFICES ASSUME BudgetInv, [Next]_vars PROVE BudgetInv'
  OBVIOUS
<1>1. ASSUME PB!Next
      PROVE  BudgetInv'
  <2>1. ASSUME NEW c \in Callers, PB!Request(c)
        PROVE  BudgetInv'
    BY <2>1, StartStep, LocalStep, CandidatesStep, CheckStep, CallStep, RecordStep,
       AnswerStep DEF PB!Request
  <2>2. CASE PB!Done
    BY <2>2, BudgetRests DEF PB!Done
  <2>. QED  BY <1>1, <2>1, <2>2, AdminStep, NewMonthStep DEF PB!Next
<1>2. PB!Next \/ UNCHANGED PB!vars
  <2>1. CASE Next
    BY <2>1 DEF Next, budgetVars, PB!vars, PB!admin, PB!caller
  <2>2. CASE UNCHANGED vars
    BY <2>2 DEF vars, budgetVars, PB!vars, PB!admin, PB!caller
  <2>. QED  BY <2>1, <2>2
<1>. QED  BY <1>1, <1>2, BudgetRests

\* A provider that must have a budget overruns it in a month by what the requests
\* under way may cost, and a request pays once and ends with what it has paid for
\* (ProviderStore.chat, route_with_fallback), for any callers, providers and
\* budgets, and whatever the administrator does meanwhile.
THEOREM GatewaySpendingIsBounded == Spec => []SpendingIsBounded
<1>1. BudgetInv => SpendingIsBounded
  BY SameBound DEF BudgetInv, BudgetTypes, SpendingIsBounded
<1>. QED  BY <1>1, BudgetInit, BudgetStep, PTL DEF Spec

-----------------------------------------------------------------------------
(* Hosts and failover (HostPool).                                          *)

\* What the type invariant of the component leaves out.
HostTypes ==
    /\ HP!TypeOK
    /\ found \in [Requests -> [Hosts -> HP!Probe \cup {NoProbe}]]
    /\ todo \in [Requests -> SUBSET Hosts]
    /\ attempted \in [Requests -> Seq(Hosts)]
    /\ DOMAIN hostRows = Requests
    /\ hostClock \in 0 .. MaxHostTime

\* The requests that call host h.
At(h) == {r \in Requests : host[r] = h}

ReservationsAreExact == \A h \in Hosts : reserved[h] = Cardinality(At(h))

\* A request has a host while it calls one.
CallersHaveHosts == \A r \in Requests : attempt[r] = "calling" <=> host[r] # Nowhere

\* The hosts a request has tried are as many as its attempts.
NoneTwice == \A r \in Requests : Cardinality(HP!Tried(r)) = Len(attempted[r])

\* Rows come from one host, and a request with a row turns to no other.
RowsHaveOneSource ==
    \A r \in Requests :
        /\ hostRows[r] = {} \/ \E h \in Hosts : hostRows[r] = {h}
        /\ attempt[r] \in {"idle", "probe", "next"} => hostRows[r] = {}
        /\ attempt[r] = "calling" => hostRows[r] \subseteq {host[r]}

\* What a request no longer has to ask, it has found.
ProbesAreThere ==
    \A r \in Requests :
        attempt[r] = "probe" => \A h \in Hosts \ todo[r] : found[r][h] \in HP!Probe

HostInv ==
    /\ HostTypes
    /\ ReservationsAreExact
    /\ CallersHaveHosts
    /\ NoneTwice
    /\ RowsHaveOneSource
    /\ ProbesAreThere

RequestPlaces == {"idle", "probe", "calling", "next", "done", "failed"}

LEMMA SameSize == \A S : HP!Cardinality(S) = Cardinality(S)
BY DEF HP!Cardinality, Cardinality

\* The type invariant, part by part.
LEMMA HostParts ==
    ASSUME HostTypes
    PROVE  /\ probe \in [Hosts -> HP!Probe \cup {NoProbe}]
           /\ reserved \in [Hosts -> Nat]
           /\ attempt \in [Requests -> RequestPlaces]
           /\ host \in [Requests -> Hosts \cup {Nowhere}]
           /\ found \in [Requests -> [Hosts -> HP!Probe \cup {NoProbe}]]
           /\ todo \in [Requests -> SUBSET Hosts]
           /\ attempted \in [Requests -> Seq(Hosts)]
           /\ DOMAIN hostRows = Requests
           /\ hostClock \in 0 .. MaxHostTime
<1>1. \A n : 0 .. n \subseteq Nat
  OBVIOUS
<1>. QED  BY <1>1 DEF HostTypes, HP!TypeOK, RequestPlaces

LEMMA AtIsFinite ==
    ASSUME NEW h
    PROVE  /\ IsFiniteSet(At(h)) /\ Cardinality(At(h)) \in 0 .. Cardinality(Requests)
           /\ Cardinality(Requests) \in Nat
<1>1. At(h) \subseteq Requests
  BY DEF At
<1>. QED  BY <1>1, HostAssumption, FS_Subset, FS_CardinalityType

\* A request has tried as many hosts as there are at most.
LEMMA TriedIsFinite ==
    ASSUME HostTypes, NEW r \in Requests
    PROVE  /\ HP!Tried(r) \subseteq Hosts
           /\ IsFiniteSet(HP!Tried(r))
           /\ Cardinality(HP!Tried(r)) \in 0 .. Cardinality(Hosts)
           /\ Cardinality(Hosts) \in Nat
<1>1. attempted[r] \in Seq(Hosts)
  BY HostParts
<1>2. HP!Tried(r) \subseteq Hosts
  BY <1>1 DEF HP!Tried
<1>. QED  BY <1>2, HostAssumption, FS_Subset, FS_CardinalityType

\* The types of the next state, from those of its parts.
LEMMA TypesAgain ==
    ASSUME HostTypes,
           probe' \in [Hosts -> HP!Probe \cup {NoProbe}],
           DOMAIN reserved' = Hosts, ReservationsAreExact',
           attempt' \in [Requests -> RequestPlaces],
           host' \in [Requests -> Hosts \cup {Nowhere}],
           found' \in [Requests -> [Hosts -> HP!Probe \cup {NoProbe}]],
           todo' \in [Requests -> SUBSET Hosts],
           attempted' \in [Requests -> Seq(Hosts)], NoneTwice',
           DOMAIN hostRows' = Requests,
           hostClock' \in 0 .. MaxHostTime,
           \E f : reserved' = [h \in Hosts |-> f[h]]
    PROVE  HostTypes'
<1>1. reserved' \in [Hosts -> 0 .. Cardinality(Requests)]
  <2>1. \A h \in Hosts : reserved'[h] \in 0 .. Cardinality(Requests)
    <3>1. \A h : At(h)' \subseteq Requests
      BY DEF At
    <3>2. \A h : Cardinality(At(h)') \in 0 .. Cardinality(Requests)
      BY <3>1, HostAssumption, FS_Subset, FS_CardinalityType
    <3>. QED  BY <3>2 DEF ReservationsAreExact
  <2>. QED  BY <2>1
<1>2. \A r \in Requests : Len(attempted'[r]) <= Cardinality(Hosts)
  <2>. SUFFICES ASSUME NEW r \in Requests
                PROVE  Len(attempted'[r]) <= Cardinality(Hosts)
    OBVIOUS
  <2>1. HP!Tried(r)' \subseteq Hosts
    BY DEF HP!Tried
  <2>2. Cardinality(HP!Tried(r)') <= Cardinality(Hosts)
    BY <2>1, HostAssumption, FS_Subset
  <2>. QED  BY <2>2 DEF NoneTwice
<1>. QED  BY <1>1, <1>2, SameSize DEF HostTypes, HP!TypeOK, RequestPlaces

LEMMA HostInit == Init => HostInv
<1> SUFFICES ASSUME Init PROVE HostInv
  OBVIOUS
<1>0. HP!Init
  BY DEF Init
<1>1. \A h \in Hosts : At(h) = {}
  BY <1>0, HostAssumption DEF HP!Init, At
<1>2. ReservationsAreExact
  BY <1>0, <1>1, FS_EmptySet, Zenon DEF HP!Init, ReservationsAreExact
<1>3. NoneTwice
  <2>1. \A r \in Requests : HP!Tried(r) = {} /\ Len(attempted[r]) = 0
    BY <1>0 DEF HP!Init, HP!Tried
  <2>. QED  BY <2>1, FS_EmptySet DEF NoneTwice
<1>4. HostTypes
  <2>1. Cardinality(Requests) \in Nat /\ Cardinality(Hosts) \in Nat
    BY HostAssumption, FS_CardinalityType
  <2>2. reserved \in [Hosts -> 0 .. Cardinality(Requests)]
    BY <1>0, <2>1 DEF HP!Init
  <2>3. \A r \in Requests : Len(attempted[r]) <= Cardinality(Hosts)
    BY <1>0, <2>1 DEF HP!Init
  <2>4. attempted \in [Requests -> Seq(Hosts)]
    BY <1>0 DEF HP!Init
  <2>5. hostClock \in 0 .. MaxHostTime
    BY <1>0, HostAssumption DEF HP!Init
  <2>. QED  BY <1>0, <2>2, <2>3, <2>4, <2>5, SameSize DEF HP!Init, HostTypes, HP!TypeOK
<1>5. CallersHaveHosts /\ RowsHaveOneSource /\ ProbesAreThere
  BY <1>0 DEF HP!Init, CallersHaveHosts, RowsHaveOneSource, ProbesAreThere
<1>. QED  BY <1>2, <1>3, <1>4, <1>5 DEF HostInv

-----------------------------------------------------------------------------
(* The parts of the invariant under the parts of a step.                   *)

\* A request that takes a host is one more at it.
LEMMA Reserving ==
    ASSUME HostTypes, ReservationsAreExact,
           NEW r \in Requests, NEW h \in Hosts, host[r] = Nowhere,
           host' = [host EXCEPT ![r] = h],
           reserved' = [reserved EXCEPT ![h] = @ + 1]
    PROVE  /\ ReservationsAreExact'
           /\ DOMAIN reserved' = Hosts /\ \E f : reserved' = [g \in Hosts |-> f[g]]
           /\ host' \in [Requests -> Hosts \cup {Nowhere}]
<1>0. /\ host' \in [Requests -> Hosts \cup {Nowhere}]
      /\ host'[r] = h /\ \A s \in Requests : s # r => host'[s] = host[s]
      /\ DOMAIN reserved' = Hosts /\ reserved' = [g \in Hosts |-> reserved'[g]]
      /\ reserved'[h] = reserved[h] + 1
      /\ \A g \in Hosts : g # h => reserved'[g] = reserved[g]
  BY HostParts, Zenon
<1>1. ASSUME NEW g \in Hosts
      PROVE  reserved'[g] = Cardinality(At(g)')
  <2>1. CASE g = h
    <3>1. At(g)' = At(g) \cup {r} /\ r \notin At(g)
      BY <1>0, <2>1, HostAssumption DEF At
    <3>2. Cardinality(At(g)') = Cardinality(At(g)) + 1
      BY <3>1, AtIsFinite, FS_AddElement, Zenon
    <3>. QED  BY <1>0, <2>1, <3>2 DEF ReservationsAreExact
  <2>2. CASE g # h
    <3>1. At(g)' = At(g)
      BY <1>0, <2>2, HostAssumption DEF At
    <3>. QED  BY <1>0, <2>2, <3>1 DEF ReservationsAreExact
  <2>. QED  BY <2>1, <2>2
<1>. QED  BY <1>0, <1>1 DEF ReservationsAreExact

\* One that leaves its host is one less.
LEMMA Releasing ==
    ASSUME HostTypes, ReservationsAreExact,
           NEW r \in Requests, host[r] # Nowhere,
           host' = [host EXCEPT ![r] = Nowhere],
           HP!Release(r)
    PROVE  /\ ReservationsAreExact'
           /\ DOMAIN reserved' = Hosts /\ \E f : reserved' = [g \in Hosts |-> f[g]]
           /\ host' \in [Requests -> Hosts \cup {Nowhere}]
<1>. DEFINE h == host[r]
<1>1. h \in Hosts
  BY HostParts
<1>2. r \in At(h)
  BY DEF At
<1>3. reserved[h] \in Nat /\ reserved[h] # 0 /\ reserved[h] = Cardinality(At(h))
  BY <1>1, <1>2, AtIsFinite, FS_EmptySet DEF ReservationsAreExact
<1>0. /\ host' \in [Requests -> Hosts \cup {Nowhere}]
      /\ host'[r] = Nowhere /\ \A s \in Requests : s # r => host'[s] = host[s]
      /\ DOMAIN reserved' = Hosts /\ reserved' = [g \in Hosts |-> reserved'[g]]
      /\ \A g \in Hosts : g # h => reserved'[g] = reserved[g]
  BY HostParts, Zenon DEF HP!Release
<1>4. reserved'[h] = reserved[h] - 1
  BY <1>1, <1>3, HostParts DEF HP!Release
<1>5. ASSUME NEW g \in Hosts
      PROVE  reserved'[g] = Cardinality(At(g)')
  <2>1. CASE g = h
    <3>1. At(g)' = At(g) \ {r}
      BY <1>0, <2>1, HostAssumption DEF At
    <3>. QED  BY <1>2, <1>3, <1>4, <2>1, <3>1, AtIsFinite, FS_RemoveElement, Zenon
  <2>2. CASE g # h
    <3>1. At(g)' = At(g)
      BY <1>0, <2>2, HostAssumption DEF At
    <3>. QED  BY <1>0, <2>2, <3>1 DEF ReservationsAreExact
  <2>. QED  BY <2>1, <2>2
<1>. QED  BY <1>0, <1>5 DEF ReservationsAreExact

LEMMA ReservationsRest ==
    ASSUME HostTypes, ReservationsAreExact, UNCHANGED <<host, reserved>>
    PROVE  /\ ReservationsAreExact'
           /\ DOMAIN reserved' = Hosts /\ \E f : reserved' = [g \in Hosts |-> f[g]]
           /\ host' \in [Requests -> Hosts \cup {Nowhere}]
<1>1. \A h : At(h)' = At(h)
  BY DEF At
<1>2. reserved' = [g \in Hosts |-> reserved[g]]
  BY HostParts
<1>. QED  BY <1>1, <1>2, HostParts DEF ReservationsAreExact

\* A new attempt is at a host that was not tried.
LEMMA Attempting ==
    ASSUME HostTypes, NoneTwice,
           NEW r \in Requests, NEW h \in Hosts, h \notin HP!Tried(r),
           attempted' = [attempted EXCEPT ![r] = Append(@, h)]
    PROVE  NoneTwice' /\ attempted' \in [Requests -> Seq(Hosts)]
<1>0. attempted \in [Requests -> Seq(Hosts)]
  BY HostParts
<1>1. /\ attempted' \in [Requests -> Seq(Hosts)]
      /\ attempted'[r] = Append(attempted[r], h)
      /\ \A s \in Requests : s # r => attempted'[s] = attempted[s]
  BY <1>0
<1>2. PICK a \in Seq(Hosts) : a = attempted[r]
  BY <1>0
<1>3. HP!Tried(r)' = HP!Tried(r) \cup {h}
  <2>1. DOMAIN Append(a, h) = (DOMAIN a) \cup {Len(a) + 1}
    BY <1>2
  <2>2. \A i \in DOMAIN a : Append(a, h)[i] = a[i]
    BY <1>2
  <2>3. Append(a, h)[Len(a) + 1] = h
    BY <1>2
  <2>4. HP!Tried(r)' = {Append(a, h)[i] : i \in DOMAIN Append(a, h)}
    BY <1>1, <1>2 DEF HP!Tried
  <2>5. HP!Tried(r) = {a[i] : i \in DOMAIN a}
    BY <1>2 DEF HP!Tried
  <2>. HIDE DEF HP!Tried
  <2>. QED  BY <2>1, <2>2, <2>3, <2>4, <2>5
<1>4. Cardinality(HP!Tried(r)') = Len(attempted'[r])
  <2>1. Len(attempted'[r]) = Len(attempted[r]) + 1
    BY <1>0, <1>1
  <2>2. Cardinality(HP!Tried(r)') = Cardinality(HP!Tried(r)) + 1
    BY <1>3, TriedIsFinite, FS_AddElement, Zenon
  <2>. QED  BY <2>1, <2>2 DEF NoneTwice
<1>5. \A s \in Requests : s # r => HP!Tried(s)' = HP!Tried(s)
  BY <1>1 DEF HP!Tried
<1>. QED  BY <1>1, <1>4, <1>5 DEF NoneTwice

LEMMA AttemptsRest ==
    ASSUME HostTypes, NoneTwice, UNCHANGED attempted
    PROVE  NoneTwice' /\ attempted' \in [Requests -> Seq(Hosts)]
<1>1. \A r : HP!Tried(r)' = HP!Tried(r)
  BY DEF HP!Tried
<1>. QED  BY <1>1, HostParts DEF NoneTwice

\* What a request that moves to another step leaves alone.
LEMMA CallGoes ==
    ASSUME HostTypes, NEW r \in Requests, NEW where \in RequestPlaces, HP!Go(r, where)
    PROVE  /\ attempt' \in [Requests -> RequestPlaces]
           /\ attempt'[r] = where
           /\ \A s \in Requests : s # r => attempt'[s] = attempt[s]
BY HostParts DEF HP!Go

\* A request that looks around has found a probe where it has none to ask.
LEMMA Looking ==
    ASSUME HostTypes, NEW r \in Requests, HP!LookAround(r)
    PROVE  /\ found' \in [Requests -> [Hosts -> HP!Probe \cup {NoProbe}]]
           /\ todo' \in [Requests -> SUBSET Hosts]
           /\ \A h \in Hosts \ todo'[r] : found'[r][h] \in HP!Probe
           /\ \A s \in Requests : s # r => found'[s] = found[s] /\ todo'[s] = todo[s]
<1>1. /\ found' = [found EXCEPT ![r] = probe]
      /\ todo' = [todo EXCEPT ![r] = {h \in Hosts : ~HP!Fresh(h)}]
  BY DEF HP!LookAround
<1>2. \A h \in Hosts : HP!Fresh(h) => probe[h] \in HP!Probe
  BY HostParts DEF HP!Fresh
<1>. QED  BY <1>1, <1>2, HostParts

-----------------------------------------------------------------------------
(* The steps.                                                              *)

\* What a step of request r leaves of the others, and what it must see to.
LEMMA RequestStep ==
    ASSUME HostInv, NEW r \in Requests,
           attempt' \in [Requests -> RequestPlaces],
           \A s \in Requests : s # r => /\ attempt'[s] = attempt[s]
                                        /\ host'[s] = host[s]
                                        /\ hostRows'[s] = hostRows[s]
                                        /\ todo'[s] = todo[s]
                                        /\ found'[s] = found[s],
           attempt'[r] = "calling" <=> host'[r] # Nowhere,
           hostRows'[r] = {} \/ \E h \in Hosts : hostRows'[r] = {h},
           attempt'[r] \in {"idle", "probe", "next"} => hostRows'[r] = {},
           attempt'[r] = "calling" => hostRows'[r] \subseteq {host'[r]},
           attempt'[r] = "probe" => \A h \in Hosts \ todo'[r] : found'[r][h] \in HP!Probe
    PROVE  CallersHaveHosts' /\ RowsHaveOneSource' /\ ProbesAreThere'
<1>1. CallersHaveHosts'
  BY DEF HostInv, CallersHaveHosts
<1>2. RowsHaveOneSource'
  BY DEF HostInv, RowsHaveOneSource
<1>3. ProbesAreThere'
  BY DEF HostInv, ProbesAreThere
<1>. QED  BY <1>1, <1>2, <1>3

\* Only a request that ranks the hosts and takes one can choose badly.
LEMMA OthersChooseNone ==
    ASSUME NEW r \in Requests,
           \A s \in Requests : s # r => attempt'[s] = attempt[s],
           ~(attempt[r] = "probe" /\ attempt'[r] = "calling")
    PROVE  HP!IdleHostsAreUsed
BY DEF HP!IdleHostsAreUsed

LEMMA SearchStep ==
    ASSUME HostInv, NEW r \in Requests, HP!Start(r)
    PROVE  HostInv' /\ HP!IdleHostsAreUsed
<1>0. HostTypes /\ ReservationsAreExact /\ NoneTwice
  BY DEF HostInv
<1>1. /\ attempt' \in [Requests -> RequestPlaces]
      /\ attempt'[r] = "probe" /\ \A s \in Requests : s # r => attempt'[s] = attempt[s]
  BY <1>0, CallGoes DEF HP!Start, HP!LookAround, RequestPlaces
<1>2. /\ found' \in [Requests -> [Hosts -> HP!Probe \cup {NoProbe}]]
      /\ todo' \in [Requests -> SUBSET Hosts]
      /\ \A h \in Hosts \ todo'[r] : found'[r][h] \in HP!Probe
      /\ \A s \in Requests : s # r => found'[s] = found[s] /\ todo'[s] = todo[s]
  BY <1>0, Looking DEF HP!Start
<1>3. attempt[r] = "idle" /\ UNCHANGED <<HP!runtime, attempted, host, hostRows, hostClock>>
  BY DEF HP!Start
<1>4. hostRows[r] = {} /\ host[r] = Nowhere
  BY <1>3 DEF HostInv, RowsHaveOneSource, CallersHaveHosts
<1>5. /\ ReservationsAreExact'
      /\ DOMAIN reserved' = Hosts /\ \E f : reserved' = [g \in Hosts |-> f[g]]
      /\ host' \in [Requests -> Hosts \cup {Nowhere}]
  BY <1>0, <1>3, ReservationsRest DEF HP!runtime
<1>6. NoneTwice' /\ attempted' \in [Requests -> Seq(Hosts)]
  BY <1>0, <1>3, AttemptsRest
<1>7. HostTypes'
  BY <1>0, <1>1, <1>2, <1>3, <1>5, <1>6, HostParts, TypesAgain DEF HP!runtime
<1>8. CallersHaveHosts' /\ RowsHaveOneSource' /\ ProbesAreThere'
  BY <1>1, <1>2, <1>3, <1>4, RequestStep
<1>. QED  BY <1>1, <1>5, <1>6, <1>7, <1>8, OthersChooseNone DEF HostInv

LEMMA ProbeStep ==
    ASSUME HostInv, NEW r \in Requests, HP!ProbeTarget(r)
    PROVE  HostInv' /\ HP!IdleHostsAreUsed
<1>0. HostTypes /\ ReservationsAreExact /\ NoneTwice
  BY DEF HostInv
<1>1. attempt[r] = "probe" /\ UNCHANGED <<reserved, attempt, attempted, host, hostRows, hostClock>>
  BY DEF HP!ProbeTarget
<1>2. PICK h \in todo[r], p \in HP!Probe :
        /\ probe' = [probe EXCEPT ![h] = p]
        /\ found' = [found EXCEPT ![r][h] = p]
        /\ todo' = [todo EXCEPT ![r] = @ \ {h}]
  <2>1. PICK h \in todo[r], online \in BOOLEAN, ready \in BOOLEAN, load \in Loads :
          LET p == [ready |-> online /\ ready, load |-> load, at |-> hostClock]
          IN  /\ probe' = [probe EXCEPT ![h] = p]
              /\ found' = [found EXCEPT ![r][h] = p]
              /\ todo' = [todo EXCEPT ![r] = @ \ {h}]
    BY Zenon DEF HP!ProbeTarget
  <2>2. [ready |-> online /\ ready, load |-> load, at |-> hostClock] \in HP!Probe
    <3>1. (online /\ ready) \in BOOLEAN
      OBVIOUS
    <3>. QED  BY <1>0, <3>1, HostParts DEF HP!Probe
  <2>. QED  BY <2>1, <2>2, Zenon
<1>3. h \in Hosts
  BY <1>0, HostParts
<1>4. /\ found' \in [Requests -> [Hosts -> HP!Probe \cup {NoProbe}]]
      /\ found'[r][h] = p
      /\ \A g \in Hosts : g # h => found'[r][g] = found[r][g]
      /\ \A s \in Requests : s # r => found'[s] = found[s]
  <2>1. PICK row \in [Hosts -> HP!Probe \cup {NoProbe}] : row = found[r]
    BY <1>0, HostParts
  <2>2. PICK new \in [Hosts -> HP!Probe \cup {NoProbe}] : new = [row EXCEPT ![h] = p]
    BY <1>2, <1>3, Zenon
  <2>3. found' = [found EXCEPT ![r] = new]
    BY <1>2, <2>1, <2>2
  <2>4. found' \in [Requests -> [Hosts -> HP!Probe \cup {NoProbe}]] /\ found'[r] = new
    BY <1>0, <2>2, <2>3, HostParts
  <2>5. new[h] = p /\ \A g \in Hosts : g # h => new[g] = row[g]
    BY <1>3, <2>2
  <2>. QED  BY <1>0, <2>1, <2>3, <2>4, <2>5, HostParts
<1>5. /\ todo' \in [Requests -> SUBSET Hosts] /\ todo'[r] = todo[r] \ {h}
      /\ \A s \in Requests : s # r => todo'[s] = todo[s]
      /\ probe' \in [Hosts -> HP!Probe \cup {NoProbe}]
  BY <1>0, <1>2, <1>3, HostParts
<1>6. /\ ReservationsAreExact'
      /\ DOMAIN reserved' = Hosts /\ \E f : reserved' = [g \in Hosts |-> f[g]]
      /\ host' \in [Requests -> Hosts \cup {Nowhere}]
      /\ NoneTwice' /\ attempted' \in [Requests -> Seq(Hosts)]
  BY <1>0, <1>1, ReservationsRest, AttemptsRest
<1>7. HostTypes'
  BY <1>0, <1>1, <1>4, <1>5, <1>6, HostParts, TypesAgain
<1>8. \A g \in Hosts \ todo'[r] : found'[r][g] \in HP!Probe
  BY <1>1, <1>2, <1>4, <1>5 DEF HostInv, ProbesAreThere
<1>9. hostRows[r] = {} /\ host[r] = Nowhere
  BY <1>1 DEF HostInv, RowsHaveOneSource, CallersHaveHosts
<1>10. CallersHaveHosts' /\ RowsHaveOneSource' /\ ProbesAreThere'
  BY <1>0, <1>1, <1>4, <1>5, <1>8, <1>9, HostParts, RequestStep, Zenon
<1>. QED  BY <1>1, <1>6, <1>7, <1>10, OthersChooseNone DEF HostInv

\* What the requests that rank or take a host forget.
LEMMA Forgetting ==
    ASSUME HostTypes, NEW r \in Requests, HP!Forget(r)
    PROVE  /\ found' \in [Requests -> [Hosts -> HP!Probe \cup {NoProbe}]]
           /\ \A s \in Requests : s # r => found'[s] = found[s]
<1>1. [h \in Hosts |-> NoProbe] \in [Hosts -> HP!Probe \cup {NoProbe}]
  OBVIOUS
<1>. QED  BY <1>1, HostParts DEF HP!Forget

\* Where hosts are left there is a best one: of those with the least score the
\* one with the least number.
LEMMA BestExists ==
    ASSUME HostTypes, NEW r \in Requests, HP!Ranked(r) # {},
           \A h \in HP!Ranked(r) : found[r][h] \in HP!Probe
    PROVE  /\ HP!Best(r) \in HP!Ranked(r)
           /\ \A g \in HP!Ranked(r) : HP!Better(r, HP!Best(r), g)
           /\ \A g \in HP!Ranked(r) : HP!Score(r, g) \in Nat
<1>. DEFINE R == HP!Ranked(r)
            Scores == {HP!Score(r, h) : h \in R}
            m == Min(Scores)
            T == {h \in R : HP!Score(r, h) = m}
            b == Min(T)
<1>1. R \subseteq Hosts /\ R \subseteq Nat
  BY HostAssumption, Zenon DEF HP!Ranked
<1>2. \A h \in R : HP!Score(r, h) \in Nat
  <2>1. \A h \in R : found[r][h].load \in Nat
    BY HostAssumption, Zenon DEF HP!Probe
  <2>2. \A h \in R : reserved[h] \in Nat
    BY <1>1, HostParts
  <2>. QED  BY <2>1, <2>2 DEF HP!Score
<1>3. Scores \subseteq Nat /\ Scores # {}
  BY <1>2
<1>4. m \in Scores /\ \A y \in Scores : m <= y
  BY <1>3, MinOfNaturals, Zenon
<1>5. T \subseteq Nat /\ T # {}
  BY <1>1, <1>4, Zenon
<1>6. b \in T /\ \A y \in T : b <= y
  BY <1>5, MinOfNaturals, Zenon
<1>7. b \in R /\ HP!Score(r, b) = m /\ m \in Nat
  BY <1>3, <1>4, <1>6
<1>8. ASSUME NEW g \in R
      PROVE  HP!Better(r, b, g)
  <2>1. m <= HP!Score(r, g) /\ HP!Score(r, g) \in Nat
    BY <1>2, <1>4
  <2>2. HP!Score(r, g) = m => b <= g
    BY <1>6, Zenon
  <2>. HIDE DEF b, m
  <2>3. CASE HP!Score(r, g) = m
    BY <1>7, <2>2, <2>3 DEF HP!Better
  <2>4. CASE HP!Score(r, g) # m
    <3>1. m < HP!Score(r, g)
      BY <1>7, <2>1, <2>4
    <3>. QED  BY <1>7, <3>1 DEF HP!Better
  <2>. QED  BY <2>3, <2>4
<1>9. \E h \in R : \A g \in R : HP!Better(r, h, g)
  <2>. HIDE DEF b
  <2>. QED  BY <1>7, <1>8
<1>. HIDE DEF R
<1>10. HP!Best(r) = CHOOSE h \in R : \A g \in R : HP!Better(r, h, g)
  BY DEF HP!Best, R
<1>11. HP!Best(r) \in R /\ \A g \in R : HP!Better(r, HP!Best(r), g)
  BY <1>9, <1>10
<1>. QED  BY <1>2, <1>11 DEF R

LEMMA SelectStep ==
    ASSUME HostInv, NEW r \in Requests, HP!Select(r)
    PROVE  HostInv' /\ HP!IdleHostsAreUsed
<1>0. HostTypes /\ ReservationsAreExact /\ NoneTwice
  BY DEF HostInv
<1>1. /\ attempt[r] = "probe" /\ todo[r] = {}
      /\ UNCHANGED <<probe, todo, hostRows, hostClock>>
      /\ HP!Forget(r)
  BY DEF HP!Select
<1>2. /\ found' \in [Requests -> [Hosts -> HP!Probe \cup {NoProbe}]]
      /\ \A s \in Requests : s # r => found'[s] = found[s]
  BY <1>0, <1>1, Forgetting
<1>3. hostRows[r] = {} /\ host[r] = Nowhere
  BY <1>1 DEF HostInv, RowsHaveOneSource, CallersHaveHosts
<1>4. CASE HP!Ranked(r) = {}
  <2>1. HP!Go(r, "failed") /\ UNCHANGED <<reserved, attempted, host>>
    BY <1>4 DEF HP!Select
  <2>2. /\ attempt' \in [Requests -> RequestPlaces]
        /\ attempt'[r] = "failed" /\ \A s \in Requests : s # r => attempt'[s] = attempt[s]
    BY <1>0, <2>1, CallGoes DEF RequestPlaces
  <2>3. /\ ReservationsAreExact'
        /\ DOMAIN reserved' = Hosts /\ \E f : reserved' = [g \in Hosts |-> f[g]]
        /\ host' \in [Requests -> Hosts \cup {Nowhere}]
        /\ NoneTwice' /\ attempted' \in [Requests -> Seq(Hosts)]
    BY <1>0, <2>1, ReservationsRest, AttemptsRest
  <2>4. HostTypes'
    BY <1>0, <1>1, <1>2, <2>2, <2>3, HostParts, TypesAgain
  <2>5. CallersHaveHosts' /\ RowsHaveOneSource' /\ ProbesAreThere'
    BY <1>1, <1>2, <1>3, <2>1, <2>2, RequestStep
  <2>. QED  BY <2>2, <2>3, <2>4, <2>5, OthersChooseNone DEF HostInv
<1>5. CASE HP!Ranked(r) # {}
  <2>0. \A h \in HP!Ranked(r) : h \in Hosts /\ h \notin HP!Tried(r) /\ found[r][h] \in HP!Probe
    BY <1>1 DEF HP!Ranked, HostInv, ProbesAreThere
  <2>1. PICK h : h = HP!Best(r)
    OBVIOUS
  <2>2. /\ h \in HP!Ranked(r)
        /\ \A g \in HP!Ranked(r) : HP!Better(r, h, g)
        /\ \A g \in HP!Ranked(r) : HP!Score(r, g) \in Nat
    BY <1>0, <1>5, <2>0, <2>1, BestExists
  <2>3. /\ reserved' = [reserved EXCEPT ![h] = @ + 1]
        /\ attempted' = [attempted EXCEPT ![r] = Append(@, h)]
        /\ host' = [host EXCEPT ![r] = h]
        /\ HP!Go(r, "calling")
    BY <1>5, <2>1 DEF HP!Select
  <2>4. /\ attempt' \in [Requests -> RequestPlaces]
        /\ attempt'[r] = "calling" /\ \A s \in Requests : s # r => attempt'[s] = attempt[s]
    BY <1>0, <2>3, CallGoes DEF RequestPlaces
  <2>5. /\ ReservationsAreExact'
        /\ DOMAIN reserved' = Hosts /\ \E f : reserved' = [g \in Hosts |-> f[g]]
        /\ host' \in [Requests -> Hosts \cup {Nowhere}]
        /\ NoneTwice' /\ attempted' \in [Requests -> Seq(Hosts)]
    BY <1>0, <1>3, <2>0, <2>2, <2>3, Reserving, Attempting, Zenon
  <2>6. HostTypes'
    BY <1>0, <1>1, <1>2, <2>4, <2>5, HostParts, TypesAgain
  <2>7. host'[r] = h /\ \A s \in Requests : s # r => host'[s] = host[s]
    BY <1>0, <2>3, HostParts
  <2>8. CallersHaveHosts' /\ RowsHaveOneSource' /\ ProbesAreThere'
    <3>1. h # Nowhere
      BY <2>0, <2>2, HostAssumption
    <3>. QED  BY <1>1, <1>2, <1>3, <2>4, <2>7, <3>1, RequestStep
  <2>9. HP!IdleHostsAreUsed
    <3>1. \A g \in HP!Ranked(r) : HP!Score(r, g) >= HP!Score(r, h)
      BY <2>2 DEF HP!Better
    <3>2. \A g \in HP!Ranked(r) : found[r][g].load + reserved[g]
                                     >= found[r][host'[r]].load + reserved[host'[r]]
      BY <2>7, <3>1 DEF HP!Score
    <3>. QED  BY <2>4, <3>2 DEF HP!IdleHostsAreUsed
  <2>. QED  BY <2>5, <2>6, <2>8, <2>9 DEF HostInv
<1>. QED  BY <1>4, <1>5

LEMMA FollowStep ==
    ASSUME HostInv, NEW r \in Requests, HP!Follow(r)
    PROVE  HostInv' /\ HP!IdleHostsAreUsed
<1>0. HostTypes /\ ReservationsAreExact /\ NoneTwice
  BY DEF HostInv
<1>1. attempt[r] = "next" /\ UNCHANGED <<probe, found, todo, hostRows, hostClock>>
  BY DEF HP!Follow, HP!position
<1>2. hostRows[r] = {} /\ host[r] = Nowhere
  BY <1>1 DEF HostInv, RowsHaveOneSource, CallersHaveHosts
<1>3. CASE HP!Go(r, "failed") /\ UNCHANGED <<reserved, attempted, host>>
  <2>1. /\ attempt' \in [Requests -> RequestPlaces]
        /\ attempt'[r] = "failed" /\ \A s \in Requests : s # r => attempt'[s] = attempt[s]
    BY <1>0, <1>3, CallGoes DEF RequestPlaces
  <2>2. /\ ReservationsAreExact'
        /\ DOMAIN reserved' = Hosts /\ \E f : reserved' = [g \in Hosts |-> f[g]]
        /\ host' \in [Requests -> Hosts \cup {Nowhere}]
        /\ NoneTwice' /\ attempted' \in [Requests -> Seq(Hosts)]
    BY <1>0, <1>3, ReservationsRest, AttemptsRest
  <2>3. HostTypes'
    BY <1>0, <1>1, <2>1, <2>2, HostParts, TypesAgain
  <2>4. CallersHaveHosts' /\ RowsHaveOneSource' /\ ProbesAreThere'
    BY <1>1, <1>2, <1>3, <2>1, RequestStep
  <2>. QED  BY <1>1, <2>1, <2>2, <2>3, <2>4, OthersChooseNone DEF HostInv
<1>4. ASSUME NEW h \in Hosts \ HP!Tried(r),
             reserved' = [reserved EXCEPT ![h] = @ + 1],
             attempted' = [attempted EXCEPT ![r] = Append(@, h)],
             host' = [host EXCEPT ![r] = h],
             HP!Go(r, "calling")
      PROVE  HostInv' /\ HP!IdleHostsAreUsed
  <2>1. /\ attempt' \in [Requests -> RequestPlaces]
        /\ attempt'[r] = "calling" /\ \A s \in Requests : s # r => attempt'[s] = attempt[s]
    BY <1>0, <1>4, CallGoes DEF RequestPlaces
  <2>2. /\ ReservationsAreExact'
        /\ DOMAIN reserved' = Hosts /\ \E f : reserved' = [g \in Hosts |-> f[g]]
        /\ host' \in [Requests -> Hosts \cup {Nowhere}]
        /\ NoneTwice' /\ attempted' \in [Requests -> Seq(Hosts)]
    BY <1>0, <1>2, <1>4, Reserving, Attempting, Zenon
  <2>3. HostTypes'
    BY <1>0, <1>1, <2>1, <2>2, HostParts, TypesAgain
  <2>4. host'[r] = h /\ \A s \in Requests : s # r => host'[s] = host[s]
    BY <1>0, <1>4, HostParts
  <2>5. CallersHaveHosts' /\ RowsHaveOneSource' /\ ProbesAreThere'
    BY <1>1, <1>2, <2>1, <2>4, HostAssumption, RequestStep
  <2>. QED  BY <1>1, <2>1, <2>2, <2>3, <2>5, OthersChooseNone DEF HostInv
<1>. QED  BY <1>3, <1>4 DEF HP!Follow

LEMMA RankStep ==
    ASSUME HostInv, NEW r \in Requests, HP!RankOnce(r)
    PROVE  HostInv' /\ HP!IdleHostsAreUsed
<1>0. HostTypes /\ ReservationsAreExact /\ NoneTwice
  BY DEF HostInv
<1>1. /\ attempt[r] = "probe" /\ HP!Go(r, "next")
      /\ UNCHANGED <<probe, reserved, todo, attempted, host, hostRows, hostClock>>
  BY DEF HP!RankOnce, HP!runtime
<1>2. /\ attempt' \in [Requests -> RequestPlaces]
      /\ attempt'[r] = "next" /\ \A s \in Requests : s # r => attempt'[s] = attempt[s]
  BY <1>0, <1>1, CallGoes DEF RequestPlaces
<1>3. /\ found' \in [Requests -> [Hosts -> HP!Probe \cup {NoProbe}]]
      /\ \A s \in Requests : s # r => found'[s] = found[s]
  <2>1. PICK row \in [Hosts -> HP!Probe \cup {NoProbe}] : row = found[r]
    BY <1>0, HostParts
  <2>2. PICK new \in [Hosts -> HP!Probe \cup {NoProbe}] :
          new = [h \in Hosts |-> IF h \in HP!Ranked(r) THEN row[h] ELSE NoProbe]
    BY Zenon
  <2>3. found' = [found EXCEPT ![r] = new]
    BY <2>1, <2>2 DEF HP!RankOnce
  <2>. QED  BY <1>0, <2>3, HostParts
<1>4. hostRows[r] = {} /\ host[r] = Nowhere
  BY <1>1 DEF HostInv, RowsHaveOneSource, CallersHaveHosts
<1>5. /\ ReservationsAreExact'
      /\ DOMAIN reserved' = Hosts /\ \E f : reserved' = [g \in Hosts |-> f[g]]
      /\ host' \in [Requests -> Hosts \cup {Nowhere}]
      /\ NoneTwice' /\ attempted' \in [Requests -> Seq(Hosts)]
  BY <1>0, <1>1, ReservationsRest, AttemptsRest
<1>6. HostTypes'
  BY <1>0, <1>1, <1>2, <1>3, <1>5, HostParts, TypesAgain
<1>7. CallersHaveHosts' /\ RowsHaveOneSource' /\ ProbesAreThere'
  BY <1>1, <1>2, <1>3, <1>4, RequestStep
<1>. QED  BY <1>2, <1>5, <1>6, <1>7, OthersChooseNone DEF HostInv

\* A request that ends its call, however: it gives its host back.
LEMMA CallEnds ==
    ASSUME HostInv, NEW r \in Requests, attempt[r] = "calling",
           HP!Release(r), host' = [host EXCEPT ![r] = Nowhere],
           UNCHANGED <<probe, attempted, hostRows, hostClock>>,
           attempt' \in [Requests -> RequestPlaces],
           \A s \in Requests : s # r => /\ attempt'[s] = attempt[s]
                                        /\ todo'[s] = todo[s]
                                        /\ found'[s] = found[s],
           attempt'[r] \in {"probe", "next", "done", "failed"},
           attempt'[r] \in {"probe", "next"} => hostRows[r] = {},
           found' \in [Requests -> [Hosts -> HP!Probe \cup {NoProbe}]],
           todo' \in [Requests -> SUBSET Hosts],
           attempt'[r] = "probe" => \A h \in Hosts \ todo'[r] : found'[r][h] \in HP!Probe
    PROVE  HostInv' /\ HP!IdleHostsAreUsed
<1>0. HostTypes /\ ReservationsAreExact /\ NoneTwice
  BY DEF HostInv
<1>1. host[r] # Nowhere
  BY DEF HostInv, CallersHaveHosts
<1>2. /\ ReservationsAreExact'
      /\ DOMAIN reserved' = Hosts /\ \E f : reserved' = [g \in Hosts |-> f[g]]
      /\ host' \in [Requests -> Hosts \cup {Nowhere}]
      /\ NoneTwice' /\ attempted' \in [Requests -> Seq(Hosts)]
  BY <1>0, <1>1, Releasing, AttemptsRest, Zenon
<1>3. HostTypes'
  BY <1>0, <1>2, HostParts, TypesAgain
<1>4. host'[r] = Nowhere /\ \A s \in Requests : s # r => host'[s] = host[s]
  BY <1>0, HostParts
<1>5. hostRows[r] = {} \/ \E h \in Hosts : hostRows[r] = {h}
  BY DEF HostInv, RowsHaveOneSource
<1>6. CallersHaveHosts' /\ RowsHaveOneSource' /\ ProbesAreThere'
  BY <1>4, <1>5, RequestStep
<1>7. HP!IdleHostsAreUsed
  BY OthersChooseNone
<1>. QED  BY <1>2, <1>3, <1>6, <1>7 DEF HostInv

LEMMA HostFreedStep ==
    ASSUME HostInv, NEW r \in Requests, HP!Finish(r) \/ HP!Abandon(r)
    PROVE  HostInv' /\ HP!IdleHostsAreUsed
<1>0. HostTypes
  BY DEF HostInv
<1>1. /\ attempt[r] = "calling" /\ HP!Go(r, "done") /\ HP!Release(r)
      /\ host' = [host EXCEPT ![r] = Nowhere]
      /\ UNCHANGED <<probe, found, todo, attempted, hostRows, hostClock>>
  BY DEF HP!Finish, HP!Abandon, HP!position
<1>2. /\ attempt' \in [Requests -> RequestPlaces]
      /\ attempt'[r] = "done" /\ \A s \in Requests : s # r => attempt'[s] = attempt[s]
  BY <1>0, <1>1, CallGoes DEF RequestPlaces
<1>. QED  BY <1>0, <1>1, <1>2, HostParts, CallEnds, Zenon

LEMMA FailStep ==
    ASSUME HostInv, NEW r \in Requests, HP!Fail(r)
    PROVE  HostInv' /\ HP!IdleHostsAreUsed
<1>0. HostTypes
  BY DEF HostInv
<1>1. /\ attempt[r] = "calling" /\ HP!Release(r)
      /\ host' = [host EXCEPT ![r] = Nowhere]
      /\ UNCHANGED <<probe, attempted, hostRows, hostClock>>
  BY DEF HP!Fail
<1>2. CASE HP!LookAround(r) /\ HP!MayRetry(r)
  <2>1. /\ attempt' \in [Requests -> RequestPlaces]
        /\ attempt'[r] = "probe" /\ \A s \in Requests : s # r => attempt'[s] = attempt[s]
    BY <1>0, <1>2, CallGoes DEF HP!LookAround, RequestPlaces
  <2>2. hostRows[r] = {}
    BY <1>2 DEF HP!MayRetry
  <2>3. /\ found' \in [Requests -> [Hosts -> HP!Probe \cup {NoProbe}]]
        /\ todo' \in [Requests -> SUBSET Hosts]
        /\ \A h \in Hosts \ todo'[r] : found'[r][h] \in HP!Probe
        /\ \A s \in Requests : s # r => found'[s] = found[s] /\ todo'[s] = todo[s]
    BY <1>0, <1>2, Looking
  <2>. QED  BY <1>1, <2>1, <2>2, <2>3, CallEnds, Zenon
<1>3. ASSUME NEW where \in {"next", "failed"}, HP!Go(r, where), UNCHANGED <<found, todo>>,
             where = "next" => hostRows[r] = {}
      PROVE  HostInv' /\ HP!IdleHostsAreUsed
  <2>1. /\ attempt' \in [Requests -> RequestPlaces]
        /\ attempt'[r] = where /\ \A s \in Requests : s # r => attempt'[s] = attempt[s]
    BY <1>0, <1>3, CallGoes DEF RequestPlaces
  <2>. QED  BY <1>0, <1>1, <1>3, <2>1, HostParts, CallEnds, Zenon
<1>. QED  BY <1>2, <1>3 DEF HP!Fail, HP!MayRetry

LEMMA RowStep ==
    ASSUME HostInv, NEW r \in Requests, HP!Row(r)
    PROVE  HostInv' /\ HP!IdleHostsAreUsed
<1>0. HostTypes /\ ReservationsAreExact /\ NoneTwice
  BY DEF HostInv
<1>1. /\ attempt[r] = "calling"
      /\ hostRows' = [hostRows EXCEPT ![r] = @ \cup {host[r]}]
      /\ UNCHANGED <<probe, reserved, attempt, found, todo, attempted, host, hostClock>>
  BY DEF HP!Row, HP!position
<1>2. host[r] \in Hosts /\ host[r] # Nowhere
  BY <1>0, <1>1, HostParts DEF HostInv, CallersHaveHosts
<1>3. /\ DOMAIN hostRows' = Requests /\ hostRows'[r] = {host[r]}
      /\ \A s \in Requests : s # r => hostRows'[s] = hostRows[s]
  <2>1. hostRows[r] \subseteq {host[r]}
    BY <1>1 DEF HostInv, RowsHaveOneSource
  <2>. QED  BY <1>0, <1>1, <2>1, HostParts
<1>4. /\ ReservationsAreExact'
      /\ DOMAIN reserved' = Hosts /\ \E f : reserved' = [g \in Hosts |-> f[g]]
      /\ host' \in [Requests -> Hosts \cup {Nowhere}]
      /\ NoneTwice' /\ attempted' \in [Requests -> Seq(Hosts)]
  BY <1>0, <1>1, ReservationsRest, AttemptsRest
<1>5. HostTypes'
  BY <1>0, <1>1, <1>3, <1>4, HostParts, TypesAgain
<1>6. CallersHaveHosts' /\ RowsHaveOneSource' /\ ProbesAreThere'
  BY <1>0, <1>1, <1>2, <1>3, HostParts, RequestStep, Zenon
<1>. QED  BY <1>1, <1>4, <1>5, <1>6, OthersChooseNone DEF HostInv

\* A step in which at most the clock moves.
LEMMA HostsRest ==
    ASSUME HostInv, UNCHANGED <<probe, reserved, attempt, found, todo, attempted, host, hostRows>>,
           hostClock' \in 0 .. MaxHostTime
    PROVE  HostInv' /\ HP!IdleHostsAreUsed
<1>0. HostTypes /\ ReservationsAreExact /\ NoneTwice
  BY DEF HostInv
<1>1. /\ ReservationsAreExact'
      /\ DOMAIN reserved' = Hosts /\ \E f : reserved' = [g \in Hosts |-> f[g]]
      /\ host' \in [Requests -> Hosts \cup {Nowhere}]
      /\ NoneTwice' /\ attempted' \in [Requests -> Seq(Hosts)]
  BY <1>0, ReservationsRest, AttemptsRest
<1>2. HostTypes'
  BY <1>0, <1>1, HostParts, TypesAgain
<1>3. CallersHaveHosts' /\ RowsHaveOneSource' /\ ProbesAreThere'
  BY DEF HostInv, CallersHaveHosts, RowsHaveOneSource, ProbesAreThere
<1>4. HP!IdleHostsAreUsed
  BY DEF HP!IdleHostsAreUsed
<1>. QED  BY <1>1, <1>2, <1>3, <1>4 DEF HostInv

LEMMA HostStep ==
    HostInv /\ [Next]_vars => HostInv' /\ HP!IdleHostsAreUsed
<1> SUFFICES ASSUME HostInv, [Next]_vars
             PROVE  HostInv' /\ HP!IdleHostsAreUsed
  OBVIOUS
<1>0. hostClock \in 0 .. MaxHostTime
  BY HostParts DEF HostInv
<1>1. ASSUME HP!Next
      PROVE  HostInv' /\ HP!IdleHostsAreUsed
  <2>1. CASE HP!Tick
    <3>1. hostClock' \in 0 .. MaxHostTime
      <4>1. PICK at \in Nat : at = hostClock
        BY <1>0
      <4>2. at < MaxHostTime /\ hostClock' = at + 1
        BY <2>1, <4>1 DEF HP!Tick
      <4>. QED  BY <4>2, HostAssumption
    <3>. QED  BY <2>1, <3>1, HostsRest DEF HP!Tick, HP!runtime, HP!position
  <2>2. CASE HP!Done
    BY <1>0, <2>2, HostsRest DEF HP!Done, HP!hvars, HP!runtime, HP!position
  <2>. QED  BY <1>1, <2>1, <2>2, SearchStep, ProbeStep, SelectStep, RowStep, HostFreedStep,
               FailStep, RankStep, FollowStep DEF HP!Next, HP!Step
<1>2. CASE UNCHANGED HP!hvars
  BY <1>0, <1>2, HostsRest DEF HP!hvars, HP!runtime, HP!position
<1>3. HP!Next \/ UNCHANGED HP!hvars
  <2>1. CASE Next
    BY <2>1 DEF Next, hostsVars, HP!hvars, HP!runtime, HP!position
  <2>2. CASE UNCHANGED vars
    BY <2>2 DEF vars, hostsVars, HP!hvars, HP!runtime, HP!position
  <2>. QED  BY <2>1, <2>2
<1>. QED  BY <1>1, <1>2, <1>3

\* The invariant says what the component promises of its states.
LEMMA HostsHold ==
    ASSUME HostInv
    PROVE  HP!TypeOK /\ HP!FailoverIsClean
<1>1. \A h \in Hosts : reserved[h] = HP!Cardinality({r \in Requests : host[r] = h})
  BY SameSize DEF HostInv, ReservationsAreExact, At
<1>2. ASSUME NEW r \in Requests
      PROVE  /\ HP!Cardinality(HP!Tried(r)) = Len(attempted[r])
             /\ HP!Cardinality(hostRows[r]) <= 1
             /\ hostRows[r] # {} /\ host[r] # Nowhere => hostRows[r] = {host[r]}
             /\ attempt[r] = "probe" => hostRows[r] = {}
  <2>1. HP!Cardinality(HP!Tried(r)) = Len(attempted[r])
    BY SameSize DEF HostInv, NoneTwice
  <2>2. Cardinality(hostRows[r]) = 0 \/ Cardinality(hostRows[r]) = 1
    <3>1. hostRows[r] = {} \/ \E h \in Hosts : hostRows[r] = {h}
      BY DEF HostInv, RowsHaveOneSource
    <3>2. Cardinality({}) = 0 /\ \A h : Cardinality({h}) = 1
      BY FS_EmptySet, FS_Singleton, Zenon
    <3>. QED  BY <3>1, <3>2, Zenon
  <2>3. attempt[r] = "calling" <=> host[r] # Nowhere
    BY DEF HostInv, CallersHaveHosts
  <2>. QED  BY <2>1, <2>2, <2>3, SameSize DEF HostInv, RowsHaveOneSource
<1>. QED  BY <1>1, <1>2, Zenon DEF HostInv, HostTypes, HP!FailoverIsClean

\* Failover is clean (MachBoostHostPool), for any requests, hosts, loads and
\* cooldowns: every step leaves reservations that count the calls under way, no
\* host tried twice and rows of one host, and a stream that takes a host takes
\* one of the least busy.
THEOREM GatewayFailoverIsClean == Spec => FailoverIsClean
<1>1. HostInv /\ HostInv' /\ [Next]_vars =>
        [part = "hosts" => /\ (HP!TypeOK /\ HP!FailoverIsClean)'
                           /\ HP!IdleHostsAreUsed]_HP!hvars
  <2>1. HostInv' => (HP!TypeOK /\ HP!FailoverIsClean)'
    BY HostsHold, PTL
  <2>. QED  BY <2>1, HostStep
<1>2. HostInv /\ [Next]_vars => HostInv'
  BY HostStep
<1>. QED  BY <1>1, <1>2, HostInit, PTL DEF Spec, FailoverIsClean

-----------------------------------------------------------------------------
(* The answer of a chat handler (ChatDelivery).                            *)

\* What the type invariant of the component leaves out.
DeliveryTypes ==
    /\ CD!TypeOK
    /\ stream \in BOOLEAN /\ exact \in BOOLEAN /\ started \in BOOLEAN
    /\ rewritten \in BOOLEAN /\ alive \in BOOLEAN /\ lost \in BOOLEAN

NothingSent == rows = <<>> /\ sources = {} /\ ~started /\ streamed = 0

\* Only text of the local model was sent.
PiecesSent ==
    /\ stream /\ CD!Source = "local" /\ started /\ sources \subseteq {"local"}
    /\ \A i \in DOMAIN rows : rows[i] = "piece"

LocalStream == stream /\ CD!Source = "local"

\* What the client has at each step.
RowsFollowSteps ==
    /\ handler \in {"begin", "lookup", "route", "send"} => NothingSent
    /\ handler \in {"streaming", "tail", "end"} => PiecesSent
    /\ handler = "remember" => IF LocalStream THEN PiecesSent ELSE NothingSent
    /\ handler = "failed" => NothingSent \/ PiecesSent
    /\ handler = "send" => ~LocalStream

\* What the memory and the cache have at each step.
StoresFollowSteps ==
    /\ handler # "done" => cacheEntry \in {"none", "earlier"}
    /\ handler \in {"begin", "lookup", "route", "streaming", "remember", "failed"}
         => remembered = {}
    /\ handler = "tail" /\ endpoint.late => remembered = {}
    /\ handler \in {"send", "tail", "end"} => remembered \subseteq {CD!Source}

\* What is left of the text at each step.
TextFollowsSteps ==
    /\ handler \in {"begin", "lookup", "route", "streaming"} => ~rewritten
    /\ handler = "send" => ~rewritten
    /\ handler = "remember" /\ ~LocalStream => ~rewritten
    /\ handler \in {"tail", "remember", "end"} /\ LocalStream
         => rewritten \/ streamed <= content
    /\ handler = "end" => (endpoint.tail => rewritten \/ streamed = content)
    /\ handler = "remember" /\ LocalStream /\ endpoint.late
         => (endpoint.tail => rewritten \/ streamed = content)

\* What is promised of a handler that is done.
DoneIsFinal ==
    handler = "done" => CD!OneAnswer /\ CD!StoresFollowAnswer

DeliveryInv ==
    /\ DeliveryTypes
    /\ RowsFollowSteps
    /\ StoresFollowSteps
    /\ TextFollowsSteps
    /\ DoneIsFinal

LEMMA SameNumber ==
    /\ CD!Cardinality({}) = 0 /\ \A x : CD!Cardinality({x}) = 1
    /\ \A S, x : S \subseteq {x} => CD!Cardinality(S) <= 1
<1>1. \A S : CD!Cardinality(S) = Cardinality(S)
  BY DEF CD!Cardinality, Cardinality
<1>2. Cardinality({}) = 0 /\ \A x : Cardinality({x}) = 1
  BY FS_EmptySet, FS_Singleton
<1>3. ASSUME NEW S, NEW x, S \subseteq {x}
      PROVE  CD!Cardinality(S) <= 1
  <2>1. S = {} \/ S = {x}
    BY <1>3
  <2>2. Cardinality(S) = 0 \/ Cardinality(S) = 1
    BY <1>2, <2>1, Zenon
  <2>. QED  BY <1>1, <2>2
<1>. QED  BY <1>1, <1>2, <1>3, Zenon

\* Sources that are left once the first is given up.
LEMMA LegsLeft ==
    ASSUME legs \in CD!Modes, Len(legs) > 1
    PROVE  Tail(legs) \in CD!Modes
<1>. DEFINE S == {"local", "external"}
<1>1. \A s \in Seq(S) : s # <<>> => /\ Tail(s) \in Seq(S) /\ Len(Tail(s)) = Len(s) - 1
                                    /\ \A i \in 1 .. Len(s) - 1 : Tail(s)[i] = s[i + 1]
  BY HeadTailProperties
<1>2. legs \in Seq(S) /\ Len(legs) = 2 /\ legs[2] \in S
  <2>1. legs = <<"local", "external">> \/ legs = <<"external", "local">>
    <3>1. \A x : Len(<<x>>) = 1
      OBVIOUS
    <3>2. ASSUME NEW x PROVE legs # <<x>>
      <4>1. SUFFICES ASSUME legs = <<x>> PROVE FALSE
        OBVIOUS
      <4>2. Len(legs) = 1
        BY <3>1, <4>1, Zenon
      <4>. QED  BY <4>2
    <3>. QED  BY <3>2 DEF CD!Modes
  <2>2. \A x, y \in S : /\ <<x, y>> \in Seq(S) /\ Len(<<x, y>>) = 2 /\ <<x, y>>[2] = y
    OBVIOUS
  <2>. QED  BY <2>1, <2>2, Zenon
<1>3. Tail(legs) \in Seq(S) /\ Len(Tail(legs)) = 1 /\ Tail(legs)[1] = legs[2]
  BY <1>1, <1>2
<1>4. Tail(legs) = <<legs[2]>>
  <2>. DEFINE x == legs[2]
              t == Tail(legs)
  <2>1. <<x>> \in Seq(S) /\ Len(<<x>>) = 1 /\ <<x>>[1] = x
    BY <1>2
  <2>2. t \in Seq(S) /\ Len(t) = 1 /\ t[1] = x
    BY <1>3
  <2>. HIDE DEF x, t, S
  <2>3. \A i \in 1 .. Len(t) : t[i] = <<x>>[i]
    BY <2>1, <2>2
  <2>4. t = <<x>>
    BY <2>1, <2>2, <2>3, SeqEqual
  <2>. QED  BY <2>4 DEF x, t
<1>. QED  BY <1>2, <1>4 DEF CD!Modes

\* Sequences of a row or two.
LEMMA FewRows ==
    /\ \A x : /\ Append(<<>>, x) = <<x>> /\ Len(<<x>>) = 1 /\ DOMAIN <<x>> = {1}
             /\ <<x>>[1] = x /\ <<x>> # <<>>
    /\ <<>> \o <<"piece", "end">> = <<"piece", "end">>
OBVIOUS

LEMMA DeliveryInit == Init => DeliveryInv
<1> SUFFICES ASSUME Init PROVE DeliveryInv
  OBVIOUS
<1>0. CD!Init
  BY DEF Init
<1>1. DeliveryTypes
  <2>1. endpoint \in CD!Endpoints /\ legs \in CD!Modes
    BY <1>0 DEF CD!Init, CD!Endpoints, CD!Modes
  <2>2. rows \in Seq(CD!Terminal \cup {"piece"})
    BY <1>0 DEF CD!Init
  <2>3. 0 \in 0 .. MaxPieces
    BY DeliveryAssumption
  <2>. QED  BY <1>0, <2>1, <2>2, <2>3, Zenon DEF CD!Init, DeliveryTypes, CD!TypeOK
<1>2. RowsFollowSteps /\ StoresFollowSteps /\ TextFollowsSteps /\ DoneIsFinal
  BY <1>0 DEF CD!Init, RowsFollowSteps, NothingSent, StoresFollowSteps, TextFollowsSteps,
              DoneIsFinal
<1>. QED  BY <1>1, <1>2 DEF DeliveryInv

\* The invariant says what the component promises of its states.
LEMMA DeliveryHolds ==
    ASSUME DeliveryInv
    PROVE  CD!TypeOK /\ CD!OneAnswer /\ CD!StoresFollowAnswer
<1>1. CASE handler = "done"
  BY <1>1 DEF DeliveryInv, DeliveryTypes, DoneIsFinal
<1>2. CASE handler # "done"
  <2>1. NothingSent \/ PiecesSent
    BY <1>2 DEF DeliveryInv, DeliveryTypes, CD!TypeOK, RowsFollowSteps
  <2>2. sources = {} \/ sources = {"local"}
    BY <2>1 DEF NothingSent, PiecesSent
  <2>3. CD!Cardinality(sources) <= 1
    BY <2>2, SameNumber
  <2>4. \A i \in DOMAIN rows : rows[i] = "piece"
    BY <2>1 DEF NothingSent, PiecesSent
  <2>5. CD!OneAnswer
    BY <1>2, <2>3, <2>4 DEF DeliveryInv, DeliveryTypes, CD!TypeOK, CD!OneAnswer, CD!Terminal
  <2>6. remembered \subseteq {CD!Source}
    BY <1>2 DEF DeliveryInv, DeliveryTypes, CD!TypeOK, StoresFollowSteps
  <2>7. sources # {} => CD!Source = "local"
    BY <2>1 DEF NothingSent, PiecesSent
  <2>8. CD!StoresFollowAnswer
    <3>1. CD!Cardinality(remembered) <= 1
      BY <2>6, SameNumber, Zenon
    <3>2. remembered # {} /\ sources # {} => remembered = sources
      BY <2>2, <2>6, <2>7
    <3>. QED  BY <1>2, <3>1, <3>2 DEF DeliveryInv, StoresFollowSteps, CD!StoresFollowAnswer
  <2>. QED  BY <2>5, <2>8 DEF DeliveryInv, DeliveryTypes
<1>. QED  BY <1>1, <1>2

-----------------------------------------------------------------------------
(* The steps.  A row that is written is the last one.                      *)

LEMMA RowWritten ==
    ASSUME DeliveryTypes, NEW kind \in CD!Terminal \cup {"piece"},
           rows' = Append(rows, kind)
    PROVE  /\ rows' \in Seq(CD!Terminal \cup {"piece"})
           /\ Len(rows') = Len(rows) + 1 /\ Len(rows) \in Nat
           /\ rows'[Len(rows')] = kind /\ rows' # <<>>
           /\ \A i \in DOMAIN rows' : i # Len(rows') => i \in DOMAIN rows /\ rows'[i] = rows[i]
<1>. DEFINE K == CD!Terminal \cup {"piece"}
<1>1. rows \in Seq(K)
  BY DEF DeliveryTypes, CD!TypeOK
<1>. HIDE DEF K
<1>2. kind \in K
  BY DEF K
<1>. QED  BY <1>1, <1>2 DEF K

LEMMA BeginDelivery ==
    ASSUME DeliveryInv, CD!Begin
    PROVE  DeliveryInv'
<1>0. DeliveryTypes /\ NothingSent /\ remembered = {} /\ ~rewritten
  BY DEF DeliveryInv, RowsFollowSteps, StoresFollowSteps, TextFollowsSteps, CD!Begin
<1>1. /\ handler' \in {"lookup", "route"}
      /\ endpoint' \in CD!Endpoints /\ stream' \in BOOLEAN /\ exact' \in BOOLEAN
      /\ legs' \in CD!Modes /\ cacheEntry' \in {"none", "earlier"}
      /\ UNCHANGED <<rows, sources, started, streamed, content, rewritten, remembered, alive, lost>>
  BY DEF CD!Begin, CD!Modes, CD!output, CD!answer
<1>2. DeliveryTypes'
  BY <1>0, <1>1 DEF DeliveryTypes, CD!TypeOK
<1>3. RowsFollowSteps' /\ StoresFollowSteps' /\ TextFollowsSteps' /\ DoneIsFinal'
  BY <1>0, <1>1 DEF RowsFollowSteps, NothingSent, StoresFollowSteps, TextFollowsSteps,
                    DoneIsFinal
<1>. QED  BY <1>2, <1>3 DEF DeliveryInv

LEMMA LookupDelivery ==
    ASSUME DeliveryInv, CD!Lookup
    PROVE  DeliveryInv'
<1>0. /\ DeliveryTypes /\ NothingSent /\ remembered = {} /\ ~rewritten
      /\ cacheEntry \in {"none", "earlier"}
  BY DEF DeliveryInv, RowsFollowSteps, StoresFollowSteps, TextFollowsSteps, CD!Lookup
<1>1. /\ UNCHANGED <<endpoint, stream, exact, legs, started, streamed, content, rewritten,
                     remembered, cacheEntry, alive, lost>>
  BY DEF CD!Lookup, CD!request, CD!answer, CD!stores
<1>2. CASE rows' = Append(rows, "json") /\ sources' = sources \cup {"cache"}
           /\ handler' = "done"
  <2>1. rows' = <<"json">> /\ sources' = {"cache"}
    BY <1>0, <1>2 DEF NothingSent
  <2>2. DeliveryTypes'
    BY <1>0, <1>1, <1>2, <2>1 DEF DeliveryTypes, CD!TypeOK, CD!Terminal
  <2>3. CD!OneAnswer'
    <3>1. ~started' /\ streamed' <= MaxPieces /\ CD!Cardinality(sources') <= 1
      <4>1. CD!Cardinality(sources') <= 1
        BY <2>1, SameNumber
      <4>2. streamed' <= MaxPieces
        BY <2>2 DEF DeliveryTypes, CD!TypeOK
      <4>. QED  BY <1>0, <1>1, <4>1, <4>2 DEF NothingSent
    <3>. QED  BY <2>1, <3>1, FewRows DEF CD!OneAnswer, CD!Terminal
  <2>4. CD!StoresFollowAnswer'
    BY <1>0, <1>1, SameNumber DEF CD!StoresFollowAnswer
  <2>. QED  BY <1>2, <2>2, <2>3, <2>4
            DEF DeliveryInv, RowsFollowSteps, StoresFollowSteps, TextFollowsSteps, DoneIsFinal
<1>3. CASE handler' = "route" /\ UNCHANGED <<rows, sources>>
  <2>1. DeliveryTypes'
    BY <1>0, <1>1, <1>3 DEF DeliveryTypes, CD!TypeOK
  <2>. QED  BY <1>0, <1>1, <1>3, <2>1
            DEF DeliveryInv, RowsFollowSteps, NothingSent, StoresFollowSteps, TextFollowsSteps,
                DoneIsFinal
<1>. QED  BY <1>2, <1>3 DEF CD!Lookup, CD!Write

\* From the choice of a source the handler goes on with nothing sent.
LEMMA RouteGoesOn ==
    ASSUME DeliveryInv, handler = "route",
           \/ handler' \in {"route", "failed", "streaming", "remember"}
           \/ handler' = "done" /\ lost',
           legs' \in CD!Modes, content' \in 0 .. MaxPieces, lost' \in BOOLEAN,
           UNCHANGED <<endpoint, stream, exact, rows, sources, streamed, rewritten,
                       remembered, cacheEntry, alive>>,
           started' \in BOOLEAN, started' <=> handler' = "streaming",
           handler' = "streaming" => stream /\ CD!Source' = "local",
           handler' = "remember" => ~LocalStream'
    PROVE  DeliveryInv'
<1>0. /\ DeliveryTypes /\ NothingSent /\ remembered = {} /\ ~rewritten
      /\ cacheEntry \in {"none", "earlier"}
  BY DEF DeliveryInv, RowsFollowSteps, StoresFollowSteps, TextFollowsSteps
<1>1. DeliveryTypes'
  BY <1>0 DEF DeliveryTypes, CD!TypeOK
<1>2. rows' = <<>> /\ sources' = {} /\ streamed' = 0
  BY <1>0 DEF NothingSent
<1>3. RowsFollowSteps'
  BY <1>2 DEF RowsFollowSteps, NothingSent, PiecesSent, LocalStream
<1>4. StoresFollowSteps'
  BY <1>0 DEF StoresFollowSteps
<1>5. TextFollowsSteps'
  BY <1>0 DEF TextFollowsSteps, LocalStream
<1>6. handler' = "done" => CD!OneAnswer' /\ CD!StoresFollowAnswer'
  BY <1>0, <1>1, <1>2, SameNumber
     DEF DeliveryTypes, CD!TypeOK, CD!OneAnswer, CD!StoresFollowAnswer
<1>. QED  BY <1>1, <1>3, <1>4, <1>5, <1>6 DEF DeliveryInv, DoneIsFinal

LEMMA RouteSteps ==
    ASSUME DeliveryInv, CD!External \/ CD!Local \/ CD!Admit
    PROVE  DeliveryInv'
<1>0. /\ handler = "route" /\ ~started /\ legs \in CD!Modes /\ content \in 0 .. MaxPieces
      /\ lost \in BOOLEAN /\ stream \in BOOLEAN /\ started \in BOOLEAN
  BY DEF DeliveryInv, DeliveryTypes, CD!TypeOK, RowsFollowSteps, NothingSent,
         CD!External, CD!Local, CD!Admit
<1>1. /\ UNCHANGED <<endpoint, stream, exact, rows, sources, streamed, rewritten,
                     remembered, cacheEntry, alive>>
  BY DEF CD!External, CD!Local, CD!Admit, CD!request, CD!output, CD!answer, CD!stores
<1>2. CD!FallBack => /\ legs' \in CD!Modes /\ handler' \in {"route", "failed"}
  BY <1>0, LegsLeft, Zenon DEF CD!FallBack, CD!Fail
<1>3. CD!Fail => legs' \in CD!Modes /\ handler' = "failed"
  BY <1>0 DEF CD!Fail
<1>4. CASE CD!External
  <2>1. UNCHANGED started /\ CD!Source = "external"
    BY <1>4 DEF CD!External, CD!output
  <2>2. CASE content' \in 1 .. MaxPieces /\ handler' = "remember" /\ UNCHANGED <<legs, lost>>
    <3>1. ~LocalStream'
      BY <2>1, <2>2 DEF LocalStream, CD!Source
    <3>. QED  BY <1>0, <1>1, <2>1, <2>2, <3>1, RouteGoesOn
  <2>3. CASE (CD!FallBack \/ CD!Fail) /\ UNCHANGED <<content, lost>>
    BY <1>0, <1>1, <1>2, <1>3, <2>1, <2>3, RouteGoesOn
  <2>4. CASE CD!FallBack /\ UNCHANGED <<lost, content>>
    BY <1>0, <1>1, <1>2, <2>1, <2>4, RouteGoesOn
  <2>5. CASE handler' = "done" /\ lost' = TRUE /\ UNCHANGED <<legs, content>>
    BY <1>0, <1>1, <2>1, <2>5, RouteGoesOn
  <2>. QED  BY <1>4, <2>2, <2>3, <2>4, <2>5, Zenon DEF CD!External
<1>5. CASE CD!Local
  <2>1. UNCHANGED <<started, lost>> /\ ~stream
    BY <1>5 DEF CD!Local, CD!output
  <2>2. CASE content' \in 1 .. MaxPieces /\ handler' = "remember" /\ UNCHANGED legs
    <3>1. ~LocalStream'
      BY <1>1, <2>1 DEF LocalStream
    <3>. QED  BY <1>0, <1>1, <2>1, <2>2, <3>1, RouteGoesOn
  <2>3. CASE (CD!FallBack \/ CD!Fail) /\ UNCHANGED content
    BY <1>0, <1>1, <1>2, <1>3, <2>1, <2>3, RouteGoesOn
  <2>. QED  BY <1>5, <2>2, <2>3 DEF CD!Local
<1>6. CASE CD!Admit
  <2>1. UNCHANGED <<content, lost>> /\ stream /\ CD!Source = "local"
    BY <1>6 DEF CD!Admit, CD!answer
  <2>2. CASE (CD!FallBack \/ CD!Fail) /\ UNCHANGED started
    BY <1>0, <1>1, <1>2, <1>3, <2>1, <2>2, RouteGoesOn
  <2>3. CASE started' = TRUE /\ handler' = "streaming" /\ UNCHANGED legs
    BY <1>0, <1>1, <2>1, <2>3, RouteGoesOn DEF CD!Source
  <2>. QED  BY <1>6, <2>2, <2>3, Zenon DEF CD!Admit
<1>. QED  BY <1>4, <1>5, <1>6

LEMMA EmitDelivery ==
    ASSUME DeliveryInv, CD!Emit
    PROVE  DeliveryInv'
<1>0. /\ DeliveryTypes /\ PiecesSent /\ handler = "streaming" /\ ~rewritten /\ remembered = {}
      /\ cacheEntry \in {"none", "earlier"}
  BY DEF DeliveryInv, RowsFollowSteps, StoresFollowSteps, TextFollowsSteps, CD!Emit
<1>1. /\ rows' = Append(rows, "piece") /\ sources' = sources \cup {"local"}
      /\ streamed < MaxPieces /\ streamed' = streamed + 1
      /\ UNCHANGED <<handler, endpoint, stream, exact, legs, started, content, rewritten,
                     remembered, cacheEntry, alive, lost>>
  BY DEF CD!Emit, CD!Write, CD!request, CD!answer, CD!stores
<1>2. DeliveryTypes'
  <2>1. rows' \in Seq(CD!Terminal \cup {"piece"})
    BY <1>0, <1>1, RowWritten
  <2>2. streamed' \in 0 .. MaxPieces
    BY <1>0, <1>1, DeliveryAssumption DEF DeliveryTypes, CD!TypeOK
  <2>. QED  BY <1>0, <1>1, <2>1, <2>2 DEF DeliveryTypes, CD!TypeOK
<1>3. PiecesSent'
  <2>1. \A i \in DOMAIN rows' : rows'[i] = "piece"
    BY <1>0, <1>1, RowWritten DEF PiecesSent
  <2>. QED  BY <1>0, <1>1, <2>1 DEF PiecesSent, CD!Source
<1>4. RowsFollowSteps' /\ StoresFollowSteps' /\ TextFollowsSteps' /\ DoneIsFinal'
  BY <1>0, <1>1, <1>3 DEF RowsFollowSteps, StoresFollowSteps, TextFollowsSteps, DoneIsFinal
<1>. QED  BY <1>2, <1>4 DEF DeliveryInv

LEMMA GeneratedDelivery ==
    ASSUME DeliveryInv, CD!Generated
    PROVE  DeliveryInv'
<1>0. /\ DeliveryTypes /\ PiecesSent /\ remembered = {} /\ cacheEntry \in {"none", "earlier"}
  BY DEF DeliveryInv, RowsFollowSteps, StoresFollowSteps, CD!Generated
<1>1. /\ rewritten' \in BOOLEAN /\ handler' = IF endpoint.late THEN "tail" ELSE "remember"
      /\ UNCHANGED <<endpoint, stream, exact, legs, rows, sources, started, streamed,
                     remembered, cacheEntry, alive, lost>>
  <2>1. rewritten' \in {FALSE, streamed > 0}
    BY Zenon DEF CD!Generated
  <2>2. (streamed > 0) \in BOOLEAN
    BY <1>0 DEF DeliveryTypes, CD!TypeOK
  <2>4. rewritten' \in BOOLEAN
    BY <2>1, <2>2, Zenon
  <2>. QED  BY <2>4 DEF CD!Generated, CD!request, CD!output, CD!stores
<1>2. content' \in 0 .. MaxPieces /\ (rewritten' \/ streamed <= content')
  <2>1. streamed \in 0 .. MaxPieces
    BY <1>0 DEF DeliveryTypes, CD!TypeOK
  <2>2. content' \in (IF rewritten' THEN 1 ELSE streamed) .. MaxPieces
    BY DEF CD!Generated
  <2>3. CASE rewritten'
    BY <2>2, <2>3, DeliveryAssumption
  <2>4. CASE ~rewritten'
    <3>1. content' \in streamed .. MaxPieces
      BY <2>2, <2>4
    <3>. QED  BY <2>1, <3>1, DeliveryAssumption
  <2>. QED  BY <2>3, <2>4
<1>3. DeliveryTypes'
  <2>1. handler' \in {"tail", "remember"}
    BY <1>1
  <2>. QED  BY <1>0, <1>1, <1>2, <2>1 DEF DeliveryTypes, CD!TypeOK
<1>4. PiecesSent' /\ LocalStream'
  BY <1>0, <1>1 DEF PiecesSent, CD!Source, LocalStream
<1>5. RowsFollowSteps' /\ StoresFollowSteps' /\ DoneIsFinal'
  BY <1>0, <1>1, <1>4 DEF RowsFollowSteps, StoresFollowSteps, DoneIsFinal
<1>6. TextFollowsSteps'
  BY <1>1, <1>2, <1>4 DEF TextFollowsSteps
<1>. QED  BY <1>3, <1>5, <1>6 DEF DeliveryInv

\* A handler that writes a last row after pieces is done.
LEMMA LastRow ==
    ASSUME DeliveryTypes, PiecesSent, NEW kind \in {"end", "error", "cancelled"},
           rows' = Append(rows, kind), sources' \in {sources, {"local"}},
           handler' = "done", remembered \subseteq {"local"},
           cacheEntry \in {"none", "earlier"},
           kind = "end" => (endpoint.tail => rewritten \/ streamed = content),
           UNCHANGED <<endpoint, stream, exact, legs, started, streamed, content, rewritten,
                       remembered, cacheEntry, alive, lost>>
    PROVE  DeliveryInv'
<1>1. /\ rows' \in Seq(CD!Terminal \cup {"piece"}) /\ rows' # <<>>
      /\ rows'[Len(rows')] = kind
      /\ \A i \in DOMAIN rows' : i # Len(rows') => rows'[i] = "piece"
  BY RowWritten DEF PiecesSent, CD!Terminal
<1>2. DeliveryTypes'
  BY <1>1 DEF DeliveryTypes, CD!TypeOK
<1>3. sources' \subseteq {"local"}
  BY DEF PiecesSent
<1>4. CD!OneAnswer'
  <2>1. CD!Cardinality(sources') <= 1
    BY <1>3, SameNumber, Zenon
  <2>2. \A i \in DOMAIN rows' : /\ rows'[i] \in CD!Terminal => i = Len(rows')
                                /\ rows'[i] \notin {"json", "jsonError"}
    BY <1>1 DEF CD!Terminal
  <2>3. streamed' <= MaxPieces
    BY <1>2 DEF DeliveryTypes, CD!TypeOK
  <2>4. rows'[Len(rows')] \in CD!Terminal
    BY <1>1 DEF CD!Terminal
  <2>5. rows'[Len(rows')] = "end" => (endpoint'.tail => rewritten' \/ streamed' = content')
    BY <1>1
  <2>. QED  BY <1>1, <2>1, <2>2, <2>3, <2>4, <2>5 DEF CD!OneAnswer
<1>5. CD!StoresFollowAnswer'
  <2>1. CD!Cardinality(remembered') <= 1
    BY SameNumber, Zenon
  <2>2. remembered' # {} /\ sources' # {} => remembered' = sources'
    <3>1. remembered' \subseteq {"local"}
      OBVIOUS
    <3>2. ASSUME remembered' # {}, sources' # {}
          PROVE  remembered' = {"local"} /\ sources' = {"local"}
      BY <1>3, <3>1, <3>2, Zenon
    <3>. QED  BY <3>2
  <2>3. cacheEntry' \in {"none", "earlier"}
    OBVIOUS
  <2>. QED  BY <2>1, <2>2, <2>3 DEF CD!StoresFollowAnswer
<1>. QED  BY <1>2, <1>4, <1>5
          DEF DeliveryInv, RowsFollowSteps, StoresFollowSteps, TextFollowsSteps, DoneIsFinal

LEMMA BrokenDelivery ==
    ASSUME DeliveryInv, CD!Broken
    PROVE  DeliveryInv'
<1>1. /\ DeliveryTypes /\ PiecesSent /\ remembered = {} /\ cacheEntry \in {"none", "earlier"}
  BY DEF DeliveryInv, RowsFollowSteps, StoresFollowSteps, CD!Broken
<1>2. PICK kind \in {"cancelled", "error"} : CD!Write(kind, {})
  BY DEF CD!Broken
<1>3. rows' = Append(rows, kind) /\ sources' = sources
  BY <1>2 DEF CD!Write
<1>4. /\ handler' = "done"
      /\ UNCHANGED <<endpoint, stream, exact, legs, started, streamed, content, rewritten,
                     remembered, cacheEntry, alive, lost>>
  BY DEF CD!Broken, CD!request, CD!answer, CD!stores
<1>. QED  BY <1>1, <1>2, <1>3, <1>4, LastRow

LEMMA EndDelivery ==
    ASSUME DeliveryInv, CD!End
    PROVE  DeliveryInv'
<1>1. /\ DeliveryTypes /\ PiecesSent /\ cacheEntry \in {"none", "earlier"}
      /\ remembered \subseteq {CD!Source} /\ CD!Source = "local"
      /\ endpoint.tail => rewritten \/ streamed = content
  BY DEF DeliveryInv, RowsFollowSteps, PiecesSent, StoresFollowSteps, TextFollowsSteps, CD!End
<1>2. rows' = Append(rows, "end") /\ sources' = sources \cup {"local"}
  BY <1>1 DEF CD!End, CD!Write
<1>3. sources' = {"local"}
  BY <1>1, <1>2, Zenon DEF PiecesSent
<1>4. /\ handler' = "done"
      /\ UNCHANGED <<endpoint, stream, exact, legs, started, streamed, content, rewritten,
                     remembered, cacheEntry, alive, lost>>
  BY DEF CD!End, CD!request, CD!answer, CD!stores
<1>. QED  BY <1>1, <1>2, <1>3, <1>4, LastRow, Zenon

LEMMA TailDelivery ==
    ASSUME DeliveryInv, CD!SendTail
    PROVE  DeliveryInv'
<1>0. /\ DeliveryTypes /\ PiecesSent /\ LocalStream /\ cacheEntry \in {"none", "earlier"}
      /\ remembered \subseteq {CD!Source} /\ (endpoint.late => remembered = {})
      /\ rewritten \/ streamed <= content
  BY DEF DeliveryInv, RowsFollowSteps, PiecesSent, LocalStream, StoresFollowSteps,
         TextFollowsSteps, CD!SendTail
<1>1. /\ handler' = IF endpoint.late THEN "remember" ELSE "end"
      /\ UNCHANGED <<endpoint, stream, exact, legs, started, content, rewritten,
                     remembered, cacheEntry, alive, lost>>
  BY DEF CD!SendTail, CD!request, CD!answer, CD!stores
<1>2. /\ PiecesSent' /\ LocalStream' /\ rows' \in Seq(CD!Terminal \cup {"piece"})
      /\ streamed' \in 0 .. MaxPieces
      /\ rewritten' \/ streamed' <= content'
      /\ endpoint'.tail => rewritten' \/ streamed' = content'
  <2>0. streamed \in 0 .. MaxPieces /\ content \in 0 .. MaxPieces
    BY <1>0 DEF DeliveryTypes, CD!TypeOK
  <2>1. CASE /\ endpoint.tail /\ CD!Remainder > 0
             /\ CD!Write("piece", {CD!Source}) /\ streamed' = streamed + CD!Remainder
    <3>1. ~rewritten /\ CD!Remainder = content - streamed
      BY <2>1 DEF CD!Remainder
    <3>2. streamed' = content
      BY <2>0, <2>1, <3>1
    <3>3. rows' = Append(rows, "piece") /\ sources' = sources \cup {"local"}
      BY <1>0, <2>1 DEF CD!Write, LocalStream
    <3>4. \A i \in DOMAIN rows' : rows'[i] = "piece"
      BY <1>0, <3>3, RowWritten DEF PiecesSent
    <3>5. rows' \in Seq(CD!Terminal \cup {"piece"})
      BY <1>0, <3>3, RowWritten
    <3>. QED  BY <1>0, <1>1, <2>0, <3>2, <3>3, <3>4, <3>5 DEF PiecesSent, LocalStream, CD!Source
  <2>2. CASE ~(endpoint.tail /\ CD!Remainder > 0) /\ UNCHANGED <<rows, sources, streamed>>
    <3>1. endpoint.tail => rewritten \/ streamed = content
      <4>1. SUFFICES ASSUME endpoint.tail, ~rewritten
                     PROVE  streamed = content
        OBVIOUS
      <4>2. ~(content - streamed > 0)
        BY <2>2, <4>1 DEF CD!Remainder
      <4>. QED  BY <1>0, <2>0, <4>1, <4>2
    <3>. QED  BY <1>0, <1>1, <2>0, <2>2, <3>1
              DEF PiecesSent, LocalStream, CD!Source, DeliveryTypes, CD!TypeOK
  <2>. QED  BY <2>1, <2>2 DEF CD!SendTail
<1>3. DeliveryTypes'
  <2>1. handler' \in {"remember", "end"}
    BY <1>1
  <2>. QED  BY <1>0, <1>1, <1>2, <2>1 DEF DeliveryTypes, CD!TypeOK
<1>4. RowsFollowSteps' /\ DoneIsFinal'
  BY <1>1, <1>2 DEF RowsFollowSteps, DoneIsFinal
<1>5. StoresFollowSteps'
  BY <1>0, <1>1 DEF StoresFollowSteps, CD!Source
<1>6. TextFollowsSteps'
  BY <1>1, <1>2 DEF TextFollowsSteps
<1>. QED  BY <1>3, <1>4, <1>5, <1>6 DEF DeliveryInv

LEMMA RememberDelivery ==
    ASSUME DeliveryInv, CD!Remember
    PROVE  DeliveryInv'
<1>0. /\ DeliveryTypes /\ remembered = {} /\ cacheEntry \in {"none", "earlier"}
      /\ (IF LocalStream THEN PiecesSent ELSE NothingSent)
      /\ ~LocalStream => ~rewritten
      /\ LocalStream => rewritten \/ streamed <= content
      /\ LocalStream /\ endpoint.late => (endpoint.tail => rewritten \/ streamed = content)
  BY DEF DeliveryInv, RowsFollowSteps, StoresFollowSteps, TextFollowsSteps, CD!Remember
<1>1. UNCHANGED <<endpoint, stream, exact, legs, rows, sources, started, streamed, content,
                  rewritten, cacheEntry, alive, lost>>
  BY DEF CD!Remember, CD!request, CD!output, CD!answer
<1>2. CD!Source \in {"local", "external"}
  BY <1>0 DEF DeliveryTypes, CD!TypeOK, CD!Modes, CD!Source
<1>3. /\ LocalStream' = LocalStream /\ CD!Source' = CD!Source
      /\ NothingSent' = NothingSent /\ PiecesSent' = PiecesSent
  BY <1>1 DEF LocalStream, CD!Source, NothingSent, PiecesSent
<1>4. CASE /\ remembered' \in {remembered, remembered \cup {CD!Source}}
           /\ handler' = IF ~stream \/ CD!Source = "external" THEN "send"
                         ELSE IF endpoint.late THEN "end" ELSE "tail"
  <2>1. remembered' \subseteq {CD!Source}
    BY <1>0, <1>4
  <2>2. /\ handler' \in {"send", "end", "tail"}
        /\ handler' = "send" <=> ~LocalStream
        /\ handler' = "end" => endpoint.late
        /\ handler' = "tail" => ~endpoint.late
    <3>1. ~stream \/ CD!Source = "external" <=> ~LocalStream
      BY <1>2 DEF LocalStream
    <3>. QED  BY <1>4, <3>1
  <2>3. DeliveryTypes'
    BY <1>0, <1>1, <1>2, <2>1, <2>2 DEF DeliveryTypes, CD!TypeOK
  <2>4. RowsFollowSteps' /\ StoresFollowSteps' /\ TextFollowsSteps' /\ DoneIsFinal'
    BY <1>0, <1>1, <1>3, <2>1, <2>2
       DEF RowsFollowSteps, StoresFollowSteps, TextFollowsSteps, DoneIsFinal
  <2>. QED  BY <2>3, <2>4 DEF DeliveryInv
<1>5. CASE handler' = "failed" /\ UNCHANGED remembered
  <2>1. DeliveryTypes'
    BY <1>0, <1>1, <1>5 DEF DeliveryTypes, CD!TypeOK
  <2>. QED  BY <1>0, <1>1, <1>3, <1>5, <2>1
            DEF DeliveryInv, RowsFollowSteps, StoresFollowSteps, TextFollowsSteps, DoneIsFinal
<1>. QED  BY <1>4, <1>5 DEF CD!Remember

LEMMA SendDelivery ==
    ASSUME DeliveryInv, CD!Send
    PROVE  DeliveryInv'
<1>0. /\ DeliveryTypes /\ NothingSent /\ ~LocalStream /\ cacheEntry \in {"none", "earlier"}
      /\ remembered \subseteq {CD!Source}
  BY DEF DeliveryInv, RowsFollowSteps, StoresFollowSteps, CD!Send
<1>1. /\ handler' = "done" /\ cacheEntry' = CD!Stored
      /\ UNCHANGED <<endpoint, stream, exact, legs, content, rewritten, remembered, alive, lost>>
  BY DEF CD!Send, CD!request, CD!answer
<1>2. CD!Source \in {"local", "external"}
  BY <1>0 DEF DeliveryTypes, CD!TypeOK, CD!Modes, CD!Source
<1>3. \/ cacheEntry' \in {"none", "earlier"}
      \/ cacheEntry' = "local" /\ CD!Source = "local" /\ ~stream
  <2>1. CASE CD!Cacheable
    BY <1>1, <2>1 DEF CD!Stored, CD!Cacheable
  <2>2. CASE ~CD!Cacheable
    BY <1>0, <1>1, <2>2 DEF CD!Stored
  <2>. QED  BY <2>1, <2>2
<1>4. /\ sources' = {CD!Source} /\ streamed' \in 0 .. MaxPieces /\ started' \in BOOLEAN
      /\ \/ rows' = <<"json">> /\ ~started'
         \/ rows' = <<"piece", "end">> /\ streamed' = content'
  <2>0. rows = <<>> /\ sources = {} /\ ~started /\ streamed \in 0 .. MaxPieces
        /\ started \in BOOLEAN /\ content \in 0 .. MaxPieces
    BY <1>0 DEF NothingSent, DeliveryTypes, CD!TypeOK
  <2>1. CASE stream
    BY <1>1, <2>0, <2>1, FewRows DEF CD!Send
  <2>2. CASE ~stream
    BY <1>1, <2>0, <2>2, FewRows DEF CD!Send, CD!Write
  <2>. QED  BY <2>1, <2>2
<1>5. DeliveryTypes'
  <2>1. rows' \in Seq(CD!Terminal \cup {"piece"})
    <3>1. /\ <<"json">> \in Seq({"json", "piece", "end"})
          /\ <<"piece", "end">> \in Seq({"json", "piece", "end"})
      OBVIOUS
    <3>2. \A s \in Seq({"json", "piece", "end"}) : s \in Seq(CD!Terminal \cup {"piece"})
      BY DEF CD!Terminal
    <3>. QED  BY <1>4, <3>1, <3>2, Zenon
  <2>2. cacheEntry' \in {"none", "earlier", "local", "external"}
    BY <1>3
  <2>. QED  BY <1>0, <1>1, <1>4, <2>1, <2>2 DEF DeliveryTypes, CD!TypeOK
<1>6. CD!OneAnswer'
  <2>1. CD!Cardinality(sources') <= 1
    BY <1>4, SameNumber
  <2>2. streamed' <= MaxPieces
    BY <1>4, DeliveryAssumption
  <2>3. CASE rows' = <<"json">> /\ ~started'
    BY <2>1, <2>2, <2>3, FewRows DEF CD!OneAnswer, CD!Terminal
  <2>4. CASE rows' = <<"piece", "end">> /\ streamed' = content'
    BY <2>1, <2>2, <2>4 DEF CD!OneAnswer, CD!Terminal
  <2>. QED  BY <1>4, <2>3, <2>4
<1>7. CD!StoresFollowAnswer'
  <2>1. CD!Cardinality(remembered') <= 1
    BY <1>0, <1>1, SameNumber
  <2>. QED  BY <1>0, <1>1, <1>3, <1>4, <2>1 DEF CD!StoresFollowAnswer
<1>. QED  BY <1>1, <1>5, <1>6, <1>7
          DEF DeliveryInv, RowsFollowSteps, StoresFollowSteps, TextFollowsSteps, DoneIsFinal

LEMMA ReportDelivery ==
    ASSUME DeliveryInv, CD!ReportError
    PROVE  DeliveryInv'
<1>0. /\ DeliveryTypes /\ (NothingSent \/ PiecesSent) /\ cacheEntry \in {"none", "earlier"}
      /\ remembered = {}
  BY DEF DeliveryInv, RowsFollowSteps, StoresFollowSteps, CD!ReportError
<1>1. /\ handler' = "done"
      /\ UNCHANGED <<endpoint, stream, exact, legs, started, streamed, content, rewritten,
                     remembered, cacheEntry, alive>>
  BY DEF CD!ReportError, CD!request, CD!answer, CD!stores
<1>2. CD!Cardinality(remembered') <= 1
  BY <1>0, <1>1, SameNumber
<1>3. CASE ~started /\ CD!Write("jsonError", {}) /\ UNCHANGED lost
  <2>1. rows' = <<"jsonError">> /\ sources' = {}
    <3>1. rows = <<>> /\ sources = {}
      BY <1>0, <1>3 DEF NothingSent, PiecesSent
    <3>. QED  BY <1>3, <3>1, FewRows DEF CD!Write
  <2>2. DeliveryTypes'
    BY <1>0, <1>1, <1>3, <2>1 DEF DeliveryTypes, CD!TypeOK, CD!Terminal
  <2>3. CD!OneAnswer' /\ CD!StoresFollowAnswer'
    BY <1>0, <1>1, <1>2, <1>3, <2>1, SameNumber, FewRows
       DEF DeliveryTypes, CD!TypeOK, CD!OneAnswer, CD!StoresFollowAnswer, CD!Terminal
  <2>. QED  BY <1>1, <2>2, <2>3
            DEF DeliveryInv, RowsFollowSteps, StoresFollowSteps, TextFollowsSteps, DoneIsFinal
<1>4. CASE started /\ lost' = TRUE /\ UNCHANGED <<rows, sources>>
  <2>1. PiecesSent
    BY <1>0, <1>4 DEF NothingSent
  <2>2. DeliveryTypes'
    BY <1>0, <1>1, <1>4 DEF DeliveryTypes, CD!TypeOK
  <2>3. CD!OneAnswer'
    <3>1. CD!Cardinality(sources') <= 1
      BY <1>4, <2>1, SameNumber, Zenon DEF PiecesSent
    <3>2. \A i \in DOMAIN rows' : rows'[i] = "piece"
      BY <1>4, <2>1 DEF PiecesSent
    <3>3. rows' # <<>> => Len(rows') \in DOMAIN rows'
      BY <2>2 DEF DeliveryTypes, CD!TypeOK
    <3>. QED  BY <1>4, <2>2, <3>1, <3>2, <3>3
              DEF DeliveryTypes, CD!TypeOK, CD!OneAnswer, CD!Terminal
  <2>4. CD!StoresFollowAnswer'
    BY <1>0, <1>1, <1>2 DEF CD!StoresFollowAnswer
  <2>. QED  BY <1>1, <2>2, <2>3, <2>4
            DEF DeliveryInv, RowsFollowSteps, StoresFollowSteps, TextFollowsSteps, DoneIsFinal
<1>. QED  BY <1>3, <1>4, Zenon DEF CD!ReportError, CD!MayReport

LEMMA HangUpDelivery ==
    ASSUME DeliveryInv, CD!HangUp
    PROVE  DeliveryInv'
<1>1. /\ alive' = FALSE
      /\ UNCHANGED <<handler, endpoint, stream, exact, legs, rows, sources, started, streamed,
                     content, rewritten, remembered, cacheEntry, lost>>
  BY DEF CD!HangUp, CD!request, CD!output, CD!answer, CD!stores
<1>2. DeliveryTypes'
  BY <1>1, Zenon DEF DeliveryInv, DeliveryTypes, CD!TypeOK
<1>3. RowsFollowSteps' /\ StoresFollowSteps' /\ TextFollowsSteps'
  BY <1>1 DEF DeliveryInv, RowsFollowSteps, NothingSent, PiecesSent, LocalStream, CD!Source,
              StoresFollowSteps, TextFollowsSteps
<1>4. DoneIsFinal'
  BY <1>1 DEF DeliveryInv, DoneIsFinal, CD!OneAnswer, CD!StoresFollowAnswer
<1>. QED  BY <1>2, <1>3, <1>4 DEF DeliveryInv

LEMMA GiveUpDelivery ==
    ASSUME DeliveryInv, CD!GiveUp
    PROVE  DeliveryInv'
<1>0. /\ DeliveryTypes /\ CD!OneAnswer /\ CD!StoresFollowAnswer /\ handler # "done"
  BY DeliveryHolds DEF DeliveryInv, CD!GiveUp
<1>1. /\ handler' = "done" /\ ~alive
      /\ UNCHANGED <<endpoint, stream, exact, legs, rows, sources, started, streamed,
                     content, rewritten, remembered, cacheEntry, alive, lost>>
  BY DEF CD!GiveUp, CD!request, CD!output, CD!answer, CD!stores
<1>2. DeliveryTypes'
  BY <1>0, <1>1 DEF DeliveryTypes, CD!TypeOK
<1>3. \A i \in DOMAIN rows : rows[i] = "piece"
  BY <1>0 DEF DeliveryInv, DeliveryTypes, CD!TypeOK, RowsFollowSteps, NothingSent, PiecesSent
<1>4. rows # <<>> => rows[Len(rows)] # "end"
  <2>1. rows # <<>> => Len(rows) \in DOMAIN rows
    BY <1>0 DEF DeliveryTypes, CD!TypeOK
  <2>. QED  BY <1>3, <2>1
<1>5. CD!OneAnswer' /\ CD!StoresFollowAnswer'
  BY <1>0, <1>1, <1>4 DEF CD!OneAnswer, CD!StoresFollowAnswer
<1>. QED  BY <1>1, <1>2, <1>5
          DEF DeliveryInv, RowsFollowSteps, StoresFollowSteps, TextFollowsSteps, DoneIsFinal

LEMMA DeliveryRests ==
    ASSUME DeliveryInv, UNCHANGED CD!dvars
    PROVE  DeliveryInv'
<1>1. UNCHANGED <<handler, endpoint, stream, exact, legs, rows, sources, started, streamed,
                  content, rewritten, remembered, cacheEntry, alive, lost>>
  BY DEF CD!dvars, CD!request, CD!output, CD!answer, CD!stores
<1>2. DeliveryTypes'
  BY <1>1 DEF DeliveryInv, DeliveryTypes, CD!TypeOK
<1>3. RowsFollowSteps' /\ StoresFollowSteps' /\ TextFollowsSteps'
  BY <1>1 DEF DeliveryInv, RowsFollowSteps, NothingSent, PiecesSent, LocalStream, CD!Source,
              StoresFollowSteps, TextFollowsSteps
<1>4. DoneIsFinal'
  BY <1>1 DEF DeliveryInv, DoneIsFinal, CD!OneAnswer, CD!StoresFollowAnswer
<1>. QED  BY <1>2, <1>3, <1>4 DEF DeliveryInv

LEMMA DeliveryStep == DeliveryInv /\ [Next]_vars => DeliveryInv'
<1> SUFFICES ASSUME DeliveryInv, [Next]_vars PROVE DeliveryInv'
  OBVIOUS
<1>1. CD!Next \/ UNCHANGED CD!dvars
  <2>1. CASE Next
    BY <2>1 DEF Next, deliveryVars, CD!dvars, CD!request, CD!output, CD!answer, CD!stores
  <2>2. CASE UNCHANGED vars
    BY <2>2 DEF vars, deliveryVars, CD!dvars, CD!request, CD!output, CD!answer, CD!stores
  <2>. QED  BY <2>1, <2>2
<1>2. CASE CD!Done
  BY <1>2, DeliveryRests DEF CD!Done
<1>. QED  BY <1>1, <1>2, BeginDelivery, LookupDelivery, RouteSteps, EmitDelivery,
             GeneratedDelivery, BrokenDelivery, TailDelivery, RememberDelivery, SendDelivery,
             EndDelivery, ReportDelivery, HangUpDelivery, GiveUpDelivery, DeliveryRests
          DEF CD!Next

\* A request has one answer (the chat handlers, do_POST), however many pieces it has:
\* one source, nothing after a terminal row, no text twice, a terminal row for
\* a client that has stayed, and stores that follow what it was sent.
THEOREM GatewayOneAnswer == Spec => []OneAnswer
<1>1. DeliveryInv => OneAnswer
  BY DeliveryHolds DEF OneAnswer
<1>. QED  BY <1>1, DeliveryInit, DeliveryStep, PTL DEF Spec

-----------------------------------------------------------------------------
(* One generation (GenerationRun).                                         *)

CallsAsked ==
    [prompt : Nat, ctx : Nat, most : Nat \cup {-1}, keep : Nat,
     cut : BOOLEAN, emits : BOOLEAN]

\* What the type invariant of the component leaves out.
GenerationTypes ==
    /\ GR!TypeOK
    /\ asked \in CallsAsked /\ (stage # "begin" => asked.prompt \in 1 .. MaxPrompt)
    /\ allowed \in Int /\ late \in Nat /\ cancelled \in BOOLEAN
    /\ answer \in Seq(GR!Tokens)
    /\ times \in [start : Nat, lease : Nat, prompted : Nat, first : Nat \cup {-1}]

\* Nothing is counted before the end, and the end has an outcome.
EndsOnce ==
    /\ stage = "ended" <=> outcome # "none"
    /\ counted = IF outcome = "answer" THEN 1 ELSE 0

\* Once the limits are known, prompt and answer share the window.
LimitsAreShared ==
    stage \in {"prompt", "tokens"} =>
        /\ allowed \in Nat
        /\ asked.ctx # 0 => prompt + allowed <= asked.ctx
        /\ asked.most >= 0 => allowed = asked.most
        /\ asked.ctx = 0 /\ asked.most < 0 /\ shape # "remote" => prompt + allowed = ModelWindow
        /\ Len(answer) <= allowed

\* What no look at cancel_event would stop: text after the stop string of a chat, or
\* its reasoning if nobody listens to it.
Unheard ==
    \/ shape = "chat" /\ GR!Stopped(answer)
    \/ shape = "chat" /\ ~asked.emits /\ GR!Contains(answer, "thought")

\* How far a generation has gone on after it was cancelled.
CancelIsNear ==
    /\ stage \notin {"tokens", "ended"} => late = 0 /\ answer = <<>>
    /\ late > 0 => cancelled
    /\ stage = "tokens" => \/ late = 0 \/ Unheard
                           \/ late = 1 /\ GR!HeldBack
                           \/ late <= 2 /\ shape = "remote" /\ GR!Stopped(answer)
    /\ stage = "ended" => late <= 2 \/ Unheard

\* The clock has been read in the order of the stages.
TimesInOrder ==
    /\ stage \in {"begin", "load", "queue", "limit", "prompt"} => times.first = -1
    /\ stage = "queue" => times.start <= runClock
    /\ stage \in {"limit", "prompt"} => times.start <= times.lease /\ times.lease <= runClock
    /\ stage = "tokens" =>
         /\ times.start <= times.lease /\ times.lease <= times.prompted
         /\ times.prompted <= runClock
         /\ times.first = -1 \/ (times.lease <= times.first /\ times.first <= runClock)

GenerationInv ==
    /\ GenerationTypes
    /\ EndsOnce
    /\ LimitsAreShared
    /\ CancelIsNear
    /\ TimesInOrder
    /\ GR!ReasonIsTrue
    /\ GR!TimesAddUp

LEMMA GenerationInit == Init => GenerationInv
<1> SUFFICES ASSUME Init PROVE GenerationInv
  OBVIOUS
<1>0. GR!Init
  BY DEF Init
<1>1. GenerationTypes
  <2>1. asked \in CallsAsked
    BY <1>0 DEF GR!Init, GR!NoCall, CallsAsked
  <2>2. times \in [start : Nat, lease : Nat, prompted : Nat, first : Nat \cup {-1}]
    BY <1>0 DEF GR!Init, GR!NoTimes
  <2>3. GR!TypeOK
    BY <1>0, GenerationAssumption DEF GR!Init, GR!TypeOK, GR!Shapes
  <2>4. answer \in Seq(GR!Tokens)
    <3>1. answer = <<>>
      BY <1>0 DEF GR!Init
    <3>. QED  BY <3>1
  <2>5. stage = "begin" /\ allowed \in Int /\ late \in Nat /\ cancelled \in BOOLEAN
    <3>1. stage = "begin" /\ allowed = 0 /\ late = 0 /\ cancelled = FALSE
      BY <1>0, Zenon DEF GR!Init
    <3>2. cancelled \in BOOLEAN
      BY <3>1, Zenon
    <3>. QED  BY <3>1, <3>2
  <2>. QED  BY <2>1, <2>2, <2>3, <2>4, <2>5 DEF GenerationTypes
<1>2. EndsOnce /\ LimitsAreShared /\ CancelIsNear /\ GR!ReasonIsTrue /\ GR!TimesAddUp
  BY <1>0 DEF GR!Init, EndsOnce, LimitsAreShared, CancelIsNear, GR!ReasonIsTrue, GR!TimesAddUp
<1>3. TimesInOrder
  BY <1>0 DEF GR!Init, GR!NoTimes, TimesInOrder
<1>. QED  BY <1>1, <1>2, <1>3 DEF GenerationInv

\* The invariant says what the component promises of its states.
LEMMA GenerationHolds ==
    ASSUME GenerationInv
    PROVE  /\ GR!TypeOK /\ GR!ContextFits /\ GR!CancelIsNoticed
           /\ GR!ReasonIsTrue /\ GR!TimesAddUp
<1>1. GR!ContextFits
  <2>1. SUFFICES ASSUME stage = "tokens" PROVE GR!ContextFits
    BY DEF GR!ContextFits
  <2>2. /\ allowed \in Nat /\ prompt \in Nat /\ asked.ctx \in Nat
        /\ asked.ctx # 0 => prompt + allowed <= asked.ctx
        /\ asked.ctx = 0 /\ asked.most < 0 /\ shape # "remote" => prompt + allowed = ModelWindow
        /\ Len(answer) <= allowed
    BY <2>1, GenerationAssumption
       DEF GenerationInv, LimitsAreShared, GenerationTypes, CallsAsked, GR!TypeOK
  <2>3. /\ GR!Smaller(allowed, MaxAnswer) \in Nat
        /\ GR!Smaller(allowed, MaxAnswer) <= allowed
    BY <2>2, GenerationAssumption DEF GR!Smaller
  <2>. QED  BY <2>1, <2>2, <2>3, GenerationAssumption DEF GR!ContextFits
<1>2. GR!CancelIsNoticed
  <2>1. late > 2 => Unheard
    <3>1. late \in Nat
      BY DEF GenerationInv, GenerationTypes
    <3>2. CASE stage \in {"tokens", "ended"}
      BY <3>1, <3>2 DEF GenerationInv, CancelIsNear
    <3>3. CASE stage \notin {"tokens", "ended"}
      BY <3>3 DEF GenerationInv, CancelIsNear
    <3>. QED  BY <3>2, <3>3
  <2>2. (outcome = "answer") = (counted = 1)
    BY DEF GenerationInv, EndsOnce
  <2>. QED  BY <2>1, <2>2 DEF GR!CancelIsNoticed, Unheard
<1>. QED  BY <1>1, <1>2 DEF GenerationInv, GenerationTypes

-----------------------------------------------------------------------------
(* The steps.                                                              *)

\* Time does not go back.
LEMMA ClockGoesOn ==
    ASSUME GR!TypeOK, GR!Waits
    PROVE  /\ runClock' \in 0 .. MaxRunTime /\ runClock' \in Nat /\ runClock \in Nat
           /\ runClock <= runClock'
<1>1. PICK c \in Nat : c = runClock /\ c <= MaxRunTime
  BY GenerationAssumption DEF GR!TypeOK
<1>2. /\ GR!Smaller(c + 1, MaxRunTime) \in 0 .. MaxRunTime
      /\ c <= GR!Smaller(c + 1, MaxRunTime)
  BY <1>1, GenerationAssumption DEF GR!Smaller
<1>3. PICK d \in 0 .. MaxRunTime : d = runClock' /\ c <= d
  BY <1>1, <1>2, GenerationAssumption DEF GR!Waits
<1>. QED  BY <1>1, <1>3, GenerationAssumption

LEMMA BeginRun ==
    ASSUME GenerationInv, GR!Begin
    PROVE  GenerationInv'
<1>1. /\ stage = "begin" /\ stage' = "load" /\ shape' \in GR!Shapes
      /\ asked' \in [prompt : 1 .. MaxPrompt, ctx : Contexts, most : Limits \cup {-1},
                     keep : Keeps, cut : BOOLEAN, emits : BOOLEAN]
      /\ UNCHANGED <<prompt, allowed, answer, passed, cancelled, late, outcome, counted, runClock,
                     times, result>>
  BY DEF GR!Begin
<1>2. asked' \in CallsAsked /\ asked'.prompt \in 1 .. MaxPrompt
  <2>1. 1 .. MaxPrompt \subseteq Nat
    BY GenerationAssumption
  <2>2. /\ Contexts \subseteq Nat /\ Keeps \subseteq Nat
        /\ Limits \cup {-1} \subseteq Nat \cup {-1}
    BY GenerationAssumption
  <2>. QED  BY <1>1, <2>1, <2>2, Zenon DEF CallsAsked
<1>3. GenerationTypes'
  BY <1>1, <1>2 DEF GenerationInv, GenerationTypes, GR!TypeOK
<1>4. EndsOnce' /\ LimitsAreShared' /\ TimesInOrder'
  BY <1>1 DEF GenerationInv, EndsOnce, LimitsAreShared, TimesInOrder
<1>5. CancelIsNear'
  BY <1>1 DEF GenerationInv, CancelIsNear
<1>6. outcome' # "answer"
  BY <1>1 DEF GenerationInv, EndsOnce
<1>7. GR!ReasonIsTrue' /\ GR!TimesAddUp'
  BY <1>6 DEF GR!ReasonIsTrue, GR!TimesAddUp
<1>. QED  BY <1>3, <1>4, <1>5, <1>7 DEF GenerationInv

LEMMA CancelRun ==
    ASSUME GenerationInv, GR!Cancel
    PROVE  GenerationInv'
<1>1. /\ stage \notin {"begin", "ended"} /\ cancelled' = TRUE
      /\ UNCHANGED <<shape, asked, stage, prompt, allowed, answer, passed, late, outcome, counted,
                     runClock, times, result>>
  BY DEF GR!Cancel
<1>2. GenerationTypes'
  BY <1>1 DEF GenerationInv, GenerationTypes, GR!TypeOK
<1>3. EndsOnce' /\ LimitsAreShared' /\ TimesInOrder'
  BY <1>1 DEF GenerationInv, EndsOnce, LimitsAreShared, TimesInOrder
<1>4. CancelIsNear'
  BY <1>1 DEF GenerationInv, CancelIsNear, Unheard, GR!HeldBack, GR!Stopped
<1>5. outcome' # "answer"
  BY <1>1 DEF GenerationInv, EndsOnce
<1>6. GR!ReasonIsTrue' /\ GR!TimesAddUp'
  BY <1>5 DEF GR!ReasonIsTrue, GR!TimesAddUp
<1>. QED  BY <1>2, <1>3, <1>4, <1>6 DEF GenerationInv

\* A step before the first token: what it must see to.
LEMMA StageStep ==
    ASSUME GenerationInv, stage \in {"load", "queue", "limit", "prompt"},
           \/ stage' \in {"queue", "limit", "prompt", "tokens"} /\ outcome' = "none"
           \/ stage' = "ended" /\ outcome' \in {"cancelled", "refused", "error"},
           prompt' \in 0 .. MaxPrompt, allowed' \in Int,
           runClock' \in 0 .. MaxRunTime,
           times' \in [start : Nat, lease : Nat, prompted : Nat, first : Nat \cup {-1}],
           UNCHANGED <<shape, asked, answer, cancelled, late, counted>>,
           LimitsAreShared', TimesInOrder'
    PROVE  GenerationInv'
<1>1. GenerationTypes'
  BY Zenon DEF GenerationInv, GenerationTypes, GR!TypeOK
<1>2. outcome = "none"
  BY DEF GenerationInv, EndsOnce
<1>3. EndsOnce'
  BY <1>2 DEF GenerationInv, EndsOnce
<1>4. late' = 0 /\ answer' = <<>>
  BY DEF GenerationInv, CancelIsNear
<1>5. CancelIsNear'
  BY <1>4 DEF CancelIsNear
<1>6. GR!ReasonIsTrue' /\ GR!TimesAddUp'
  BY DEF GR!ReasonIsTrue, GR!TimesAddUp
<1>. QED  BY <1>1, <1>3, <1>5, <1>6 DEF GenerationInv

LEMMA LoadRun ==
    ASSUME GenerationInv, GR!Load
    PROVE  GenerationInv'
<1>0. /\ stage = "load" /\ outcome = "none" /\ GenerationTypes /\ GR!TypeOK /\ times.first = -1
      /\ UNCHANGED <<shape, asked, prompt, allowed, answer, passed, cancelled, late, counted,
                     result>>
  BY DEF GR!Load, GenerationInv, EndsOnce, GenerationTypes, TimesInOrder
<1>1. CASE GR!Raise("cancelled") /\ UNCHANGED <<runClock, times>>
  <2>1. stage' = "ended" /\ outcome' = "cancelled"
    BY <1>1 DEF GR!Raise
  <2>2. LimitsAreShared' /\ TimesInOrder'
    BY <2>1 DEF LimitsAreShared, TimesInOrder
  <2>. QED  BY <1>0, <1>1, <2>1, <2>2, StageStep DEF GenerationTypes, GR!TypeOK
<1>2. CASE /\ GR!Waits /\ times' = [times EXCEPT !.start = runClock']
           /\ stage' = "queue" /\ UNCHANGED outcome
  <2>1. runClock' \in 0 .. MaxRunTime /\ runClock' \in Nat
    BY <1>0, <1>2, ClockGoesOn
  <2>2. /\ times' \in [start : Nat, lease : Nat, prompted : Nat, first : Nat \cup {-1}]
        /\ times'.start = runClock' /\ times'.first = -1
    BY <1>0, <1>2, <2>1 DEF GenerationTypes
  <2>3. LimitsAreShared' /\ TimesInOrder'
    BY <1>2, <2>1, <2>2 DEF LimitsAreShared, TimesInOrder
  <2>. QED  BY <1>0, <1>2, <2>1, <2>2, <2>3, StageStep DEF GenerationTypes, GR!TypeOK
<1>. QED  BY <1>1, <1>2 DEF GR!Load

LEMMA LeaseRun ==
    ASSUME GenerationInv, GR!Lease
    PROVE  GenerationInv'
<1>0. /\ stage = "queue" /\ outcome = "none" /\ GenerationTypes /\ GR!TypeOK /\ times.first = -1
      /\ times.start <= runClock
      /\ GR!Waits /\ times' = [times EXCEPT !.lease = runClock']
      /\ UNCHANGED <<shape, asked, prompt, allowed, answer, passed, cancelled, late, counted,
                     result>>
  BY DEF GR!Lease, GenerationInv, EndsOnce, GenerationTypes, TimesInOrder
<1>1. /\ runClock' \in 0 .. MaxRunTime /\ runClock' \in Nat /\ runClock \in Nat
      /\ runClock <= runClock'
  BY <1>0, ClockGoesOn
<1>2. /\ times' \in [start : Nat, lease : Nat, prompted : Nat, first : Nat \cup {-1}]
      /\ times'.start = times.start /\ times'.lease = runClock' /\ times'.first = -1
      /\ times.start \in Nat
  BY <1>0, <1>1 DEF GenerationTypes
<1>3. \/ stage' = "limit" /\ outcome' = "none"
      \/ stage' = "ended" /\ outcome' \in {"cancelled", "refused", "error"}
  BY <1>0 DEF GR!Lease, GR!Raise
<1>4. LimitsAreShared'
  BY <1>3 DEF LimitsAreShared
<1>5. TimesInOrder'
  <2>1. times'.start <= times'.lease /\ times'.lease <= runClock'
    <3>1. PICK a \in Nat, b \in Nat, c \in Nat :
            a = times.start /\ b = runClock /\ c = runClock' /\ a <= b /\ b <= c
      BY <1>0, <1>1, <1>2
    <3>. QED  BY <1>2, <3>1
  <2>. QED  BY <1>2, <1>3, <2>1 DEF TimesInOrder
<1>. QED  BY <1>0, <1>1, <1>2, <1>3, <1>4, <1>5, StageStep DEF GenerationTypes, GR!TypeOK

\* Budget and the new limit, as numbers.
LEMMA LimitFacts ==
    ASSUME GenerationTypes, NEW n \in 1 .. MaxPrompt, GR!Limited(n) >= 1 \/ asked.most >= 0,
           asked.ctx # 0 => n <= GR!Budget
    PROVE  /\ GR!Limited(n) \in Nat
           /\ asked.ctx # 0 => n + GR!Limited(n) <= asked.ctx
           /\ asked.most >= 0 => GR!Limited(n) = asked.most
           /\ asked.ctx = 0 /\ asked.most < 0 /\ shape # "remote"
                => n + GR!Limited(n) = ModelWindow
<1>1. PICK c \in Nat : c = asked.ctx
  BY DEF GenerationTypes, CallsAsked
<1>2. PICK m \in Nat \cup {-1} : m = asked.most
  BY DEF GenerationTypes, CallsAsked
<1>3. n \in Nat
  OBVIOUS
<1>4. c # 0 => n <= c - (IF m > 0 THEN m ELSE 0)
  <2>1. GR!Budget = c - (IF 0 > m THEN 0 ELSE m)
    BY <1>1, <1>2 DEF GR!Budget, GR!Larger
  <2>. QED  BY <1>1, <1>2, <1>3, <2>1
<1>5. GR!Limited(n) = IF m >= 0 THEN m ELSE IF c # 0 THEN c - n
                      ELSE IF shape = "remote" THEN MaxAnswer ELSE ModelWindow - n
  BY <1>1, <1>2 DEF GR!Limited
<1>6. CASE m >= 0
  BY <1>1, <1>2, <1>3, <1>4, <1>5, <1>6
<1>7. CASE m = -1
  <2>1. CASE c # 0
    BY <1>1, <1>2, <1>3, <1>4, <1>5, <1>7, <2>1
  <2>2. CASE c = 0 /\ shape = "remote"
    BY <1>1, <1>2, <1>5, <1>7, <2>2, GenerationAssumption
  <2>3. CASE c = 0 /\ shape # "remote"
    BY <1>1, <1>2, <1>3, <1>5, <1>7, <2>3, GenerationAssumption
  <2>. QED  BY <2>1, <2>2, <2>3
<1>. QED  BY <1>2, <1>6, <1>7

LEMMA LimitRun ==
    ASSUME GenerationInv, GR!Limit
    PROVE  GenerationInv'
<1>0. /\ stage = "limit" /\ outcome = "none" /\ GenerationTypes /\ times.first = -1
      /\ times.start <= times.lease /\ times.lease <= runClock
      /\ asked.prompt \in 1 .. MaxPrompt /\ answer = <<>>
      /\ allowed' = GR!Limited(prompt')
      /\ UNCHANGED <<shape, asked, answer, passed, cancelled, late, counted, runClock, times,
                     result>>
  BY DEF GR!Limit, GenerationInv, EndsOnce, GenerationTypes, TimesInOrder, CancelIsNear
<1>1. /\ asked.ctx \in Nat /\ asked.most \in Nat \cup {-1} /\ asked.keep \in Nat
      /\ GR!Budget \in Int
  BY <1>0 DEF GenerationTypes, CallsAsked, GR!Budget, GR!Larger
<1>2. prompt' \in 0 .. MaxPrompt /\ (asked.ctx # 0 /\ prompt' # 0 => prompt' <= GR!Budget)
  <2>1. CASE asked.ctx = 0 /\ prompt' = asked.prompt
    BY <1>0, <2>1, GenerationAssumption
  <2>2. CASE asked.prompt <= GR!Budget /\ prompt' = asked.prompt
    BY <1>0, <2>2, GenerationAssumption
  <2>3. CASE /\ prompt' \in 0 .. MaxPrompt
             /\ IF GR!Budget >= 1 /\ asked.cut THEN GR!Truncated(prompt') ELSE prompt' = 0
    <3>1. GR!Budget >= 1 /\ GR!Truncated(prompt') => prompt' <= GR!Budget
      <4>1. SUFFICES ASSUME GR!Budget >= 1, GR!Truncated(prompt')
                     PROVE  prompt' <= GR!Budget
        OBVIOUS
      <4>2. PICK b \in Nat, k \in Int :
              b = GR!Budget /\ k = GR!Smaller(GR!Smaller(asked.keep, b), asked.prompt)
        BY <1>0, <1>1, <4>1 DEF GR!Smaller
      <4>3. prompt' \in 1 .. b \/ prompt' = k + (b - k)
        BY <4>1, <4>2 DEF GR!Truncated
      <4>4. prompt' <= b
        BY <4>2, <4>3
      <4>. QED  BY <4>2, <4>4
    <3>. QED  BY <2>3, <3>1
  <2>. QED  BY <2>1, <2>2, <2>3 DEF GR!Limit
<1>3. allowed' \in Int
  <2>1. prompt' \in Int
    BY <1>2, GenerationAssumption
  <2>2. GR!Limited(prompt') \in Int
    BY <1>1, <2>1, GenerationAssumption DEF GR!Limited
  <2>. QED  BY <1>0, <2>2
<1>4. CASE GR!Raise("error")
  <2>1. stage' = "ended" /\ outcome' = "error"
    BY <1>4 DEF GR!Raise
  <2>2. LimitsAreShared' /\ TimesInOrder'
    BY <2>1 DEF LimitsAreShared, TimesInOrder
  <2>. QED  BY <1>0, <1>2, <1>3, <2>1, <2>2, StageStep DEF GenerationTypes, GR!TypeOK
<1>5. CASE /\ prompt' # 0 /\ ~(asked.most < 0 /\ allowed' < 1)
           /\ stage' = "prompt" /\ UNCHANGED outcome
  <2>1. PICK n \in 1 .. MaxPrompt : n = prompt'
    BY <1>2, <1>5
  <2>2. GR!Limited(n) >= 1 \/ asked.most >= 0
    BY <1>0, <1>1, <1>3, <1>5, <2>1
  <2>3. asked.ctx # 0 => n <= GR!Budget
    BY <1>2, <1>5, <2>1
  <2>4. /\ GR!Limited(n) \in Nat
        /\ asked.ctx # 0 => n + GR!Limited(n) <= asked.ctx
        /\ asked.most >= 0 => GR!Limited(n) = asked.most
        /\ asked.ctx = 0 /\ asked.most < 0 /\ shape # "remote"
             => n + GR!Limited(n) = ModelWindow
    BY <1>0, <2>2, <2>3, LimitFacts
  <2>5. LimitsAreShared'
    <3>1. Len(answer') = 0
      BY <1>0
    <3>. QED  BY <1>0, <2>1, <2>4, <3>1 DEF LimitsAreShared
  <2>6. TimesInOrder'
    BY <1>0, <1>5 DEF TimesInOrder
  <2>. QED  BY <1>0, <1>2, <1>3, <1>5, <2>5, <2>6, StageStep DEF GenerationTypes, GR!TypeOK
<1>. QED  BY <1>4, <1>5 DEF GR!Limit

LEMMA PromptedRun ==
    ASSUME GenerationInv, GR!Prompted
    PROVE  GenerationInv'
<1>0. /\ stage = "prompt" /\ outcome = "none" /\ GenerationTypes /\ GR!TypeOK /\ times.first = -1
      /\ times.start <= times.lease /\ times.lease <= runClock
      /\ GR!Waits /\ times' = [times EXCEPT !.prompted = runClock']
      /\ UNCHANGED <<shape, asked, prompt, allowed, answer, passed, cancelled, late, counted,
                     result>>
  BY DEF GR!Prompted, GenerationInv, EndsOnce, GenerationTypes, TimesInOrder
<1>1. /\ runClock' \in 0 .. MaxRunTime /\ runClock' \in Nat /\ runClock \in Nat
      /\ runClock <= runClock'
  BY <1>0, ClockGoesOn
<1>2. /\ times' \in [start : Nat, lease : Nat, prompted : Nat, first : Nat \cup {-1}]
      /\ times'.start = times.start /\ times'.lease = times.lease
      /\ times'.prompted = runClock' /\ times'.first = -1
      /\ times.start \in Nat /\ times.lease \in Nat
  BY <1>0, <1>1 DEF GenerationTypes
<1>3. \/ stage' = "tokens" /\ outcome' = "none"
      \/ stage' = "ended" /\ outcome' = "cancelled"
  BY <1>0 DEF GR!Prompted, GR!Raise
<1>4. LimitsAreShared'
  BY <1>0, <1>3 DEF GenerationInv, LimitsAreShared
<1>5. TimesInOrder'
  <2>1. times'.lease <= times'.prompted /\ times'.prompted <= runClock'
    <3>1. PICK a \in Nat, b \in Nat, c \in Nat :
            a = times.lease /\ b = runClock /\ c = runClock' /\ a <= b /\ b <= c
      BY <1>0, <1>1, <1>2
    <3>. QED  BY <1>2, <3>1
  <2>. QED  BY <1>0, <1>2, <1>3, <2>1 DEF TimesInOrder
<1>. QED  BY <1>0, <1>1, <1>2, <1>3, <1>4, <1>5, StageStep, Zenon DEF GenerationTypes, GR!TypeOK

\* What one more token changes of the answer.
LEMMA OneMoreToken ==
    ASSUME NEW a \in Seq(GR!Tokens), NEW t \in GR!Tokens, NEW b, b = Append(a, t)
    PROVE  /\ b \in Seq(GR!Tokens) /\ Len(b) = Len(a) + 1 /\ Len(a) \in Nat
           /\ b # <<>> /\ GR!Last(b) = t
           /\ \A e : GR!Contains(b, e) <=> GR!Contains(a, e) \/ e = t
<1>0. /\ b \in Seq(GR!Tokens) /\ Len(b) = Len(a) + 1 /\ Len(a) \in Nat /\ b # <<>>
      /\ b[Len(a) + 1] = t /\ \A i \in 1 .. Len(a) : b[i] = a[i]
  <2>. HIDE DEF GR!Tokens
  <2>. QED  OBVIOUS
<1>1. GR!Last(b) = t
  BY <1>0 DEF GR!Last
<1>2. ASSUME NEW e
      PROVE  GR!Contains(b, e) <=> GR!Contains(a, e) \/ e = t
  <2>1. 1 .. Len(b) = (1 .. Len(a)) \cup {Len(a) + 1}
    BY <1>0
  <2>. QED  BY <1>0, <2>1 DEF GR!Contains
<1>. QED  BY <1>0, <1>1, <1>2

LEMMA TokenRun ==
    ASSUME GenerationInv, GR!Token
    PROVE  GenerationInv'
<1>0. /\ stage = "tokens" /\ outcome = "none" /\ GenerationTypes /\ GR!TypeOK
      /\ Len(answer) < GR!Smaller(allowed, MaxAnswer)
      /\ shape = "remote" => ~GR!Stopped(answer)
      /\ GR!Waits
      /\ late' = IF cancelled THEN late + 1 ELSE late
      /\ UNCHANGED <<shape, asked, prompt, allowed, cancelled, counted, result>>
  BY DEF GR!Token, GenerationInv, EndsOnce, GenerationTypes
<1>1. /\ runClock' \in 0 .. MaxRunTime /\ runClock' \in Nat /\ runClock \in Nat
      /\ runClock <= runClock'
  BY <1>0, ClockGoesOn
<1>2. PICK t \in GR!Tokens :
        /\ t = "half" => ~GR!HeldBack
        /\ answer' = Append(answer, t)
        /\ IF GR!Visible(answer')
           THEN IF cancelled
                THEN GR!Raise("cancelled") /\ UNCHANGED <<passed, times>>
                ELSE /\ times' = [times EXCEPT !.first = IF @ = -1 THEN runClock' ELSE @]
                     /\ UNCHANGED <<stage, outcome>>
           ELSE UNCHANGED <<stage, passed, times, outcome>>
  BY DEF GR!Token
<1>3. /\ answer \in Seq(GR!Tokens) /\ answer' \in Seq(GR!Tokens)
      /\ Len(answer') = Len(answer) + 1 /\ Len(answer) \in Nat
      /\ answer' # <<>> /\ GR!Last(answer') = t
      /\ \A e : GR!Contains(answer', e) <=> GR!Contains(answer, e) \/ e = t
  BY <1>0, <1>2, OneMoreToken, Zenon DEF GenerationTypes
<1>4. /\ late \in Nat /\ late' \in Nat /\ cancelled \in BOOLEAN
      /\ late' = IF cancelled THEN late + 1 ELSE 0
  BY <1>0 DEF GenerationTypes, GenerationInv, CancelIsNear
<1>5. /\ times \in [start : Nat, lease : Nat, prompted : Nat, first : Nat \cup {-1}]
      /\ times.start <= times.lease /\ times.lease <= times.prompted
      /\ times.prompted <= runClock
      /\ times.first = -1 \/ (times.lease <= times.first /\ times.first <= runClock)
  BY <1>0 DEF GenerationTypes, GenerationInv, TimesInOrder
<1>6. \/ stage' = "tokens" /\ outcome' = "none"
      \/ stage' = "ended" /\ outcome' = "cancelled"
  BY <1>0, <1>2 DEF GR!Raise
<1>7. /\ times' \in [start : Nat, lease : Nat, prompted : Nat, first : Nat \cup {-1}]
      /\ times'.start = times.start /\ times'.lease = times.lease
      /\ times'.prompted = times.prompted
      /\ times'.first = times.first \/ times'.first = runClock'
  BY <1>1, <1>2, <1>5
<1>8. GenerationTypes'
  BY <1>0, <1>1, <1>3, <1>4, <1>6, <1>7 DEF GenerationTypes, GR!TypeOK
<1>9. EndsOnce'
  BY <1>0, <1>6 DEF GenerationInv, EndsOnce
<1>10. LimitsAreShared'
  <2>1. Len(answer') <= allowed
    <3>1. GR!Smaller(allowed, MaxAnswer) <= allowed /\ GR!Smaller(allowed, MaxAnswer) \in Int
      BY <1>0, GenerationAssumption DEF GenerationTypes, GR!Smaller
    <3>2. allowed \in Int
      BY <1>0 DEF GenerationTypes
    <3>. QED  BY <1>0, <1>3, <3>1, <3>2
  <2>. QED  BY <1>0, <2>1 DEF GenerationInv, LimitsAreShared
<1>11. CancelIsNear'
  <2>1. late' > 0 => cancelled'
    BY <1>0, <1>4
  <2>2. CASE ~cancelled
    <3>1. late' = 0
      BY <1>4, <2>2
    <3>. QED  BY <1>6, <2>1, <3>1 DEF CancelIsNear
  <2>3. CASE cancelled /\ GR!Visible(answer')
    <3>1. stage' = "ended"
      BY <1>2, <2>3 DEF GR!Raise
    <3>2. late' = late + 1
      BY <1>4, <2>3
    <3>3. ~Unheard => late <= 1
      BY <1>0, <1>4 DEF GenerationInv, CancelIsNear
    <3>4. Unheard => Unheard'
      BY <1>0, <1>3 DEF Unheard, GR!Stopped
    <3>. QED  BY <1>4, <2>1, <3>1, <3>2, <3>3, <3>4 DEF CancelIsNear
  <2>4. CASE cancelled /\ ~GR!Visible(answer')
    <3>1. stage' = "tokens" /\ late' = late + 1
      BY <1>0, <1>2, <1>4, <2>4
    <3>2. CASE Unheard
      <4>1. Unheard'
        BY <1>0, <1>3, <3>2 DEF Unheard, GR!Stopped
      <4>. QED  BY <2>1, <3>1, <4>1 DEF CancelIsNear
    <3>3. CASE ~Unheard
      <4>1. late = 0 \/ (late = 1 /\ GR!HeldBack)
        BY <1>0, <3>3 DEF GenerationInv, CancelIsNear
      <4>2. CASE t = "half"
        <5>1. late = 0
          BY <1>2, <4>1, <4>2
        <5>2. GR!HeldBack'
          BY <1>3, <4>2 DEF GR!HeldBack
        <5>. QED  BY <2>1, <3>1, <5>1, <5>2 DEF CancelIsNear
      <4>3. CASE t # "half"
        <5>1. \/ shape \in {"chat", "remote"} /\ GR!Stopped(answer')
              \/ shape = "chat" /\ t = "thought" /\ ~asked.emits
          BY <1>3, <2>4, <4>3 DEF GR!Visible
        <5>2. CASE shape = "remote" /\ GR!Stopped(answer')
          <6>1. late' <= 2
            BY <3>1, <4>1
          <6>2. shape' = "remote" /\ GR!Stopped(answer)'
            BY <1>0, <5>2 DEF GR!Stopped
          <6>. QED  BY <2>1, <3>1, <6>1, <6>2 DEF CancelIsNear
        <5>3. CASE shape = "chat" /\ GR!Stopped(answer')
          <6>1. Unheard'
            BY <1>0, <5>3 DEF Unheard, GR!Stopped
          <6>. QED  BY <2>1, <3>1, <6>1 DEF CancelIsNear
        <5>4. CASE shape = "chat" /\ t = "thought" /\ ~asked.emits
          <6>1. Unheard'
            BY <1>0, <1>3, <5>4 DEF Unheard
          <6>. QED  BY <2>1, <3>1, <6>1 DEF CancelIsNear
        <5>. QED  BY <5>1, <5>2, <5>3, <5>4
      <4>. QED  BY <4>2, <4>3
    <3>. QED  BY <3>2, <3>3
  <2>. QED  BY <1>4, <2>2, <2>3, <2>4
<1>12. TimesInOrder'
  <2>1. PICK b \in Nat, c \in Nat : b = runClock /\ c = runClock' /\ b <= c
    BY <1>1
  <2>2. PICK x \in Nat, y \in Nat, z \in Nat, f \in Nat \cup {-1} :
          x = times.start /\ y = times.lease /\ z = times.prompted /\ f = times.first
    BY <1>5
  <2>3. x <= y /\ y <= z /\ z <= b /\ (f = -1 \/ (y <= f /\ f <= b))
    BY <1>5, <2>1, <2>2
  <2>4. PICK g \in Nat \cup {-1} : g = times'.first /\ (g = f \/ g = c)
    BY <1>7, <2>1, <2>2
  <2>5. x <= y /\ y <= z /\ z <= c /\ (g = -1 \/ (y <= g /\ g <= c))
    BY <2>1, <2>3, <2>4
  <2>. QED  BY <1>6, <1>7, <2>1, <2>2, <2>4, <2>5 DEF TimesInOrder
<1>13. GR!ReasonIsTrue' /\ GR!TimesAddUp'
  BY <1>6 DEF GR!ReasonIsTrue, GR!TimesAddUp
<1>. QED  BY <1>8, <1>9, <1>10, <1>11, <1>12, <1>13 DEF GenerationInv

\* The parts of a time that was put together.
LEMMA PartsAddUp ==
    ASSUME NEW start \in Nat, NEW lease \in Nat, NEW prompted \in Nat, NEW end \in Nat,
           start <= lease, lease <= prompted, prompted <= end,
           NEW told \in BOOLEAN, NEW evaluated, NEW eval,
           evaluated = IF told THEN prompted - lease ELSE 0,
           eval = IF told /\ end > prompted THEN end - prompted
                  ELSE GR!Larger(0, ((end - start) - (lease - start)) - evaluated)
    PROVE  (lease - start) + evaluated + eval <= end - start
<1>1. CASE told
  BY <1>1 DEF GR!Larger
<1>2. CASE ~told
  BY <1>2 DEF GR!Larger
<1>. QED  BY <1>1, <1>2

\* A generation that has its text.
LEMMA ResultIsTrue ==
    ASSUME GenerationInv, stage = "tokens", NEW told \in BOOLEAN,
           result' = GR!Measured(told), outcome' = "answer",
           UNCHANGED <<shape, asked, allowed, answer>>
    PROVE  GR!ReasonIsTrue' /\ GR!TimesAddUp'
<1>1. /\ result'.reason = GR!Reason /\ result'.total = runClock /\ result'.load = times.start
      /\ result'.wait = GR!Wait /\ result'.ttft = GR!FirstToken(told)
      /\ result'.prompt = IF told THEN times.prompted - times.lease ELSE 0
      /\ result'.eval = IF told /\ runClock > times.prompted THEN runClock - times.prompted
                        ELSE GR!Evaluation(runClock - times.start,
                                IF told THEN times.prompted - times.lease ELSE 0)
  BY DEF GR!Measured
<1>2. GR!ReasonIsTrue'
  <2>1. PICK n \in Nat, k \in Nat, m \in Nat \cup {-1}, c \in Nat :
          /\ n = Len(answer) /\ k = allowed /\ m = asked.most /\ c = asked.ctx
          /\ n <= k /\ (m >= 0 => k = m)
    <3>1. Len(answer) \in Nat
      <4>1. answer \in Seq(GR!Tokens)
        BY DEF GenerationInv, GenerationTypes
      <4>. HIDE DEF GR!Tokens
      <4>. QED  BY <4>1
    <3>2. asked.most \in Nat \cup {-1} /\ asked.ctx \in Nat
      BY DEF GenerationInv, GenerationTypes, CallsAsked
    <3>3. allowed \in Nat /\ Len(answer) <= allowed /\ (asked.most >= 0 => allowed = asked.most)
      BY DEF GenerationInv, LimitsAreShared
    <3>. QED  BY <3>1, <3>2, <3>3, Zenon
  <2>2. CASE shape = "remote"
    <3>1. result'.reason = IF GR!Stopped(answer) \/ n < k THEN "stop" ELSE "length"
      BY <1>1, <2>1, <2>2 DEF GR!Reason
    <3>. QED  BY <2>1, <3>1 DEF GR!ReasonIsTrue, GR!Stopped
  <2>3. CASE shape # "remote"
    <3>1. PICK most \in Nat \cup {-1} : most = IF c # 0 THEN k ELSE m
      OBVIOUS
    <3>2. result'.reason = IF most >= 0 /\ n >= most THEN "length" ELSE "stop"
      BY <1>1, <2>1, <2>3, <3>1 DEF GR!Reason
    <3>3. result'.reason = "length" => n >= k
      BY <2>1, <3>1, <3>2
    <3>4. result'.reason = "stop" /\ n = k => m < 0 /\ c = 0
      BY <2>1, <3>1, <3>2
    <3>. QED  BY <2>1, <3>3, <3>4 DEF GR!ReasonIsTrue
  <2>. QED  BY <2>2, <2>3
<1>3. GR!TimesAddUp'
  <2>1. PICK a \in Nat, b \in Nat, p \in Nat, f \in Nat \cup {-1}, e \in Nat :
          /\ a = times.start /\ b = times.lease /\ p = times.prompted /\ f = times.first
          /\ e = runClock /\ a <= b /\ b <= p /\ p <= e
          /\ f = -1 \/ (b <= f /\ f <= e)
    BY GenerationAssumption DEF GenerationInv, GenerationTypes, GR!TypeOK, TimesInOrder
  <2>2. PICK evaluated \in Int : evaluated = IF told THEN p - b ELSE 0
    BY <2>1
  <2>3. PICK eval \in Int :
          eval = IF told /\ e > p THEN e - p ELSE GR!Larger(0, ((e - a) - (b - a)) - evaluated)
    BY <2>1, <2>2 DEF GR!Larger
  <2>4. (b - a) + evaluated + eval <= e - a
    BY <2>1, <2>2, <2>3, PartsAddUp, Zenon
  <2>5. /\ result'.wait = b - a /\ result'.prompt = evaluated /\ result'.eval = eval
        /\ result'.total = e /\ result'.load = a
    BY <1>1, <2>1, <2>2, <2>3 DEF GR!Wait, GR!Evaluation
  <2>6. /\ result'.ttft # -1 => b - a <= result'.ttft
        /\ result'.ttft # -1 => result'.ttft <= e - a
    <3>1. CASE f # -1
      <4>1. result'.ttft = f - a
        BY <1>1, <2>1, <3>1 DEF GR!FirstToken
      <4>2. b - a <= f - a /\ f - a <= e - a
        BY <2>1, <3>1
      <4>. QED  BY <4>1, <4>2
    <3>2. CASE f = -1 /\ told /\ answer # <<>>
      <4>1. result'.ttft = (b - a) + p - b
        BY <1>1, <2>1, <3>2 DEF GR!FirstToken, GR!Wait
      <4>2. b - a <= (b - a) + p - b /\ (b - a) + p - b <= e - a
        BY <2>1
      <4>. QED  BY <4>1, <4>2
    <3>3. CASE f = -1 /\ ~(told /\ answer # <<>>)
      <4>1. result'.ttft = -1
        BY <1>1, <2>1, <3>3 DEF GR!FirstToken
      <4>. QED  BY <4>1
    <3>. QED  BY <3>1, <3>2, <3>3
  <2>. QED  BY <2>4, <2>5, <2>6 DEF GR!TimesAddUp
<1>. QED  BY <1>2, <1>3

LEMMA FinishRun ==
    ASSUME GenerationInv, GR!Finish
    PROVE  GenerationInv'
<1>0. /\ stage = "tokens" /\ outcome = "none" /\ counted = 0 /\ GenerationTypes
      /\ UNCHANGED <<shape, asked, prompt, allowed, answer, passed, cancelled, late, runClock,
                     times>>
  BY DEF GR!Finish, GenerationInv, EndsOnce
<1>1. /\ stage' = "ended" /\ outcome' \in {"error", "cancelled", "answer"}
      /\ counted' = IF outcome' = "answer" THEN 1 ELSE 0
      /\ outcome' = "answer" => \E told \in BOOLEAN : result' = GR!Measured(told)
  BY <1>0 DEF GR!Finish, GR!Raise
<1>2. GenerationTypes'
  <2>1. counted' \in 0 .. 1
    BY <1>1
  <2>. QED  BY <1>0, <1>1, <2>1 DEF GenerationTypes, GR!TypeOK
<1>3. EndsOnce' /\ LimitsAreShared' /\ TimesInOrder'
  BY <1>1 DEF EndsOnce, LimitsAreShared, TimesInOrder
<1>4. CancelIsNear'
  <2>1. late <= 2 \/ Unheard
    BY <1>0 DEF GenerationInv, CancelIsNear
  <2>2. Unheard => Unheard'
    BY <1>0 DEF Unheard, GR!Stopped
  <2>3. late' > 0 => cancelled'
    BY <1>0 DEF GenerationInv, CancelIsNear
  <2>. QED  BY <1>0, <1>1, <2>1, <2>2, <2>3 DEF CancelIsNear
<1>5. GR!ReasonIsTrue' /\ GR!TimesAddUp'
  <2>1. CASE outcome' = "answer"
    BY <1>0, <1>1, <2>1, ResultIsTrue
  <2>2. CASE outcome' # "answer"
    BY <2>2 DEF GR!ReasonIsTrue, GR!TimesAddUp
  <2>. QED  BY <2>1, <2>2
<1>. QED  BY <1>2, <1>3, <1>4, <1>5 DEF GenerationInv

LEMMA GenerationRests ==
    ASSUME GenerationInv, UNCHANGED GR!gVars
    PROVE  GenerationInv'
<1>1. UNCHANGED <<shape, asked, stage, prompt, allowed, answer, passed, cancelled, late, outcome,
                  counted, runClock, times, result>>
  BY DEF GR!gVars
<1>2. GenerationTypes'
  BY <1>1 DEF GenerationInv, GenerationTypes, GR!TypeOK
<1>3. EndsOnce' /\ LimitsAreShared' /\ TimesInOrder'
  BY <1>1 DEF GenerationInv, EndsOnce, LimitsAreShared, TimesInOrder
<1>4. CancelIsNear'
  BY <1>1 DEF GenerationInv, CancelIsNear, Unheard, GR!HeldBack, GR!Stopped
<1>5. GR!ReasonIsTrue' /\ GR!TimesAddUp'
  BY <1>1 DEF GenerationInv, GR!ReasonIsTrue, GR!TimesAddUp, GR!Stopped
<1>. QED  BY <1>2, <1>3, <1>4, <1>5 DEF GenerationInv

LEMMA GenerationStep == GenerationInv /\ [Next]_vars => GenerationInv'
<1> SUFFICES ASSUME GenerationInv, [Next]_vars PROVE GenerationInv'
  OBVIOUS
<1>1. GR!Next \/ UNCHANGED GR!gVars
  <2>1. CASE Next
    BY <2>1 DEF Next, generationVars, GR!gVars
  <2>2. CASE UNCHANGED vars
    BY <2>2 DEF vars, generationVars, GR!gVars
  <2>. QED  BY <2>1, <2>2
<1>2. CASE GR!Done
  BY <1>2, GenerationRests DEF GR!Done
<1>. QED  BY <1>1, <1>2, BeginRun, CancelRun, LoadRun, LeaseRun, LimitRun, PromptedRun,
             TokenRun, FinishRun, GenerationRests DEF GR!Next

\* What one generation promises (RuntimeManager.chat, generate), for any prompt, window,
\* limits and clock: prompt and answer fit the window, a cancel is noticed within two
\* tokens where anything looks for it, the reason is true and the times add up.
THEOREM GatewayGenerationIsTrue == Spec => []GenerationIsTrue
<1>1. GenerationInv => GenerationIsTrue
  BY GenerationHolds DEF GenerationIsTrue
<1>. QED  BY <1>1, GenerationInit, GenerationStep, PTL DEF Spec

-----------------------------------------------------------------------------
(* The parts of a stream (StreamBlocks).                                   *)

\* The events before the end of a stream, and all of them.
Inner == [type : {"start", "delta", "stop"}, index : Nat]
Written == [type : {"start", "delta", "stop", "end", "error"}, index : Nat \cup {SB!None}]

\* OpenAfter and PartsAreWellFormed, of any log.
OpenIn(l, n) ==
    {i \in {l[k].index : k \in 1 .. n} :
        /\ \E k \in 1 .. n : l[k] = SB!Event("start", i)
        /\ \A k \in 1 .. n : l[k] # SB!Event("stop", i)}

StartsIn(l, n) == {k \in 1 .. n : l[k].type = "start"}

EventFits(l, n) ==
    /\ l[n].type = "start" => OpenIn(l, n - 1) = {} /\ l[n].index = Cardinality(StartsIn(l, n - 1))
    /\ l[n].type \in {"delta", "stop"} => OpenIn(l, n - 1) = {l[n].index}
    /\ l[n].type = "end" => OpenIn(l, n - 1) = {} /\ n = Len(l)
    /\ l[n].type = "error" => n = Len(l)

WellFormed(l) == \A n \in 1 .. Len(l) : EventFits(l, n)

\* A stream that has not ended: what is open in it, and how many parts it has started.
Tells(l, open, n) ==
    /\ l \in Seq(Inner) /\ n \in Nat
    /\ OpenIn(l, Len(l)) = open
    /\ Cardinality(StartsIn(l, Len(l))) = n
    /\ \A k \in 1 .. Len(l) : l[k].type \in {"start", "stop"} => l[k].index < n
    /\ WellFormed(l)

\* What is written before an event does not depend on it.
LEMMA EarlierEvents ==
    ASSUME NEW l \in Seq(Inner), NEW e \in Written
    PROVE  LET m == Append(l, e)
           IN  /\ m \in Seq(Written) /\ Len(m) = Len(l) + 1 /\ Len(l) \in Nat
               /\ m[Len(l) + 1] = e
               /\ \A k \in 1 .. Len(l) : m[k] = l[k] /\ l[k] \in Inner
               /\ OpenIn(m, Len(l)) = OpenIn(l, Len(l))
               /\ StartsIn(m, Len(l)) = StartsIn(l, Len(l))
               /\ \A n \in 1 .. Len(l) : EventFits(l, n) => EventFits(m, n)
<1>. DEFINE m == Append(l, e)
<1>1. l \in Seq(Written)
  <2>1. Inner \subseteq Written
    BY DEF Inner, Written
  <2>. QED  BY <2>1
<1>2. /\ m \in Seq(Written) /\ Len(m) = Len(l) + 1 /\ Len(l) \in Nat
      /\ m[Len(l) + 1] = e
      /\ \A k \in 1 .. Len(l) : m[k] = l[k] /\ l[k] \in Inner
  BY <1>1
<1>3. \A n \in 0 .. Len(l) : OpenIn(m, n) = OpenIn(l, n) /\ StartsIn(m, n) = StartsIn(l, n)
  <2> SUFFICES ASSUME NEW n \in 0 .. Len(l)
               PROVE  OpenIn(m, n) = OpenIn(l, n) /\ StartsIn(m, n) = StartsIn(l, n)
    OBVIOUS
  <2>1. \A k \in 1 .. n : m[k] = l[k]
    BY <1>2
  <2>. HIDE DEF m
  <2>2. StartsIn(m, n) = StartsIn(l, n)
    BY <2>1 DEF StartsIn
  <2>3. {m[k].index : k \in 1 .. n} = {l[k].index : k \in 1 .. n}
    BY <2>1
  <2>4. OpenIn(m, n) = OpenIn(l, n)
    BY <2>1, <2>3 DEF OpenIn
  <2>. QED  BY <2>2, <2>4
<1>4. ASSUME NEW n \in 1 .. Len(l), EventFits(l, n) PROVE EventFits(m, n)
  <2>1. m[n] = l[n] /\ l[n].type \in {"start", "delta", "stop"} /\ n - 1 \in 0 .. Len(l)
    BY <1>2 DEF Inner
  <2>. HIDE DEF m
  <2>. QED  BY <1>3, <1>4, <2>1 DEF EventFits
<1>. QED  BY <1>2, <1>3, <1>4

LEMMA StartsAreFinite ==
    ASSUME NEW l, NEW n \in Nat
    PROVE  IsFiniteSet(StartsIn(l, n))
BY FS_Interval, FS_Subset, 1 \in Int, n \in Int, Zenon DEF StartsIn

\* A part is started when none is open, with the number of those before it.
LEMMA TellsStart ==
    ASSUME NEW l, NEW n, Tells(l, {}, n)
    PROVE  Tells(Append(l, SB!Event("start", n)), {n}, n + 1)
<1>. DEFINE e == SB!Event("start", n)
            m == Append(l, e)
            N == Len(l)
<1>1. l \in Seq(Inner) /\ n \in Nat /\ e \in Inner /\ e \in Written
  BY DEF Tells, SB!Event, Inner, Written
<1>2. /\ m \in Seq(Inner) /\ Len(m) = N + 1 /\ N \in Nat
      /\ m[N + 1] = e /\ \A k \in 1 .. N : m[k] = l[k] /\ l[k] \in Inner
      /\ OpenIn(m, N) = {} /\ StartsIn(m, N) = StartsIn(l, N)
      /\ \A k \in 1 .. N : EventFits(m, k)
  BY <1>1, EarlierEvents DEF Tells, WellFormed
<1>. HIDE DEF m, N
<1>3. e.type = "start" /\ e.index = n
  BY DEF SB!Event
<1>4. EventFits(m, N + 1)
  BY <1>1, <1>2, <1>3 DEF EventFits, Tells, N
<1>5. Cardinality(StartsIn(m, N + 1)) = n + 1
  <2>1. StartsIn(m, N + 1) = StartsIn(m, N) \cup {N + 1} /\ N + 1 \notin StartsIn(m, N)
    BY <1>2, <1>3 DEF StartsIn
  <2>. QED  BY <1>1, <1>2, <2>1, StartsAreFinite, FS_AddElement DEF Tells, N
<1>6. OpenIn(m, N + 1) = {n}
  <2>1. \A k \in 1 .. N + 1 : m[k] # SB!Event("stop", n)
    BY <1>1, <1>2, <1>3 DEF Tells, SB!Event, N
  <2>2. n \in OpenIn(m, N + 1)
    BY <1>2, <1>3, <2>1 DEF OpenIn
  <2>3. ASSUME NEW i \in OpenIn(m, N + 1), i # n PROVE FALSE
    <3>1. i \in OpenIn(m, N)
      BY <1>2, <1>3, <2>3 DEF OpenIn, SB!Event
    <3>. QED  BY <1>2, <3>1
  <2>. QED  BY <2>2, <2>3
<1>7. \A k \in 1 .. N + 1 : m[k].type \in {"start", "stop"} => m[k].index < n + 1
  <2> SUFFICES ASSUME NEW k \in 1 .. N + 1, m[k].type \in {"start", "stop"}
               PROVE  m[k].index < n + 1
    OBVIOUS
  <2>1. CASE k = N + 1
    BY <1>1, <1>2, <1>3, <2>1
  <2>2. CASE k \in 1 .. N
    BY <1>1, <1>2, <2>2 DEF Tells, N, Inner
  <2>. QED  BY <1>2, <2>1, <2>2
<1>8. WellFormed(m)
  BY <1>2, <1>4 DEF WellFormed
<1>. QED  BY <1>1, <1>2, <1>5, <1>6, <1>7, <1>8 DEF Tells, m

\* Text and thinking arrive for the part that is open.
LEMMA TellsDelta ==
    ASSUME NEW l, NEW n, NEW i \in Nat, Tells(l, {i}, n)
    PROVE  Tells(Append(l, SB!Event("delta", i)), {i}, n)
<1>. DEFINE e == SB!Event("delta", i)
            m == Append(l, e)
            N == Len(l)
<1>1. l \in Seq(Inner) /\ n \in Nat /\ e \in Inner /\ e \in Written
  BY DEF Tells, SB!Event, Inner, Written
<1>2. /\ m \in Seq(Inner) /\ Len(m) = N + 1 /\ N \in Nat
      /\ m[N + 1] = e /\ \A k \in 1 .. N : m[k] = l[k] /\ l[k] \in Inner
      /\ OpenIn(m, N) = {i} /\ StartsIn(m, N) = StartsIn(l, N)
      /\ \A k \in 1 .. N : EventFits(m, k)
  BY <1>1, EarlierEvents DEF Tells, WellFormed
<1>. HIDE DEF m, N
<1>3. e.type = "delta" /\ e.index = i
  BY DEF SB!Event
<1>4. EventFits(m, N + 1)
  BY <1>1, <1>2, <1>3 DEF EventFits
<1>5. StartsIn(m, N + 1) = StartsIn(l, N)
  BY <1>2, <1>3 DEF StartsIn
<1>6. OpenIn(m, N + 1) = {i}
  <2>1. i \in OpenIn(m, N + 1)
    <3>1. m[N + 1] # SB!Event("stop", i)
      BY <1>2, <1>3 DEF SB!Event
    <3>2. \A k \in 1 .. N + 1 : m[k] # SB!Event("stop", i)
      BY <1>2, <3>1 DEF OpenIn
    <3>3. \E k \in 1 .. N + 1 : m[k] = SB!Event("start", i)
      BY <1>2 DEF OpenIn
    <3>4. i \in {m[k].index : k \in 1 .. N + 1}
      BY <1>2, <1>3
    <3>. QED  BY <3>2, <3>3, <3>4 DEF OpenIn
  <2>2. ASSUME NEW j \in OpenIn(m, N + 1) PROVE j \in OpenIn(m, N)
    BY <1>2, <1>3 DEF OpenIn, SB!Event
  <2>. QED  BY <1>2, <2>1, <2>2, Zenon
<1>7. \A k \in 1 .. N + 1 : m[k].type \in {"start", "stop"} => m[k].index < n
  BY <1>1, <1>2, <1>3 DEF Tells, N
<1>8. WellFormed(m)
  BY <1>2, <1>4 DEF WellFormed
<1>. QED  BY <1>1, <1>2, <1>5, <1>6, <1>7, <1>8 DEF Tells, m, N

LEMMA TellsStop ==
    ASSUME NEW l, NEW n, NEW i \in Nat, Tells(l, {i}, n)
    PROVE  Tells(Append(l, SB!Event("stop", i)), {}, n)
<1>. DEFINE e == SB!Event("stop", i)
            m == Append(l, e)
            N == Len(l)
<1>1. l \in Seq(Inner) /\ n \in Nat /\ e \in Inner /\ e \in Written
  BY DEF Tells, SB!Event, Inner, Written
<1>2. /\ m \in Seq(Inner) /\ Len(m) = N + 1 /\ N \in Nat
      /\ m[N + 1] = e /\ \A k \in 1 .. N : m[k] = l[k] /\ l[k] \in Inner
      /\ OpenIn(m, N) = {i} /\ StartsIn(m, N) = StartsIn(l, N)
      /\ \A k \in 1 .. N : EventFits(m, k)
  BY <1>1, EarlierEvents DEF Tells, WellFormed
<1>. HIDE DEF m, N
<1>3. e.type = "stop" /\ e.index = i
  BY DEF SB!Event
<1>4. EventFits(m, N + 1)
  BY <1>1, <1>2, <1>3 DEF EventFits
<1>5. StartsIn(m, N + 1) = StartsIn(l, N)
  BY <1>2, <1>3 DEF StartsIn
<1>6. OpenIn(m, N + 1) = {}
  <2> SUFFICES ASSUME NEW j \in OpenIn(m, N + 1) PROVE FALSE
    OBVIOUS
  <2>1. j # i
    BY <1>2 DEF OpenIn
  <2>2. j \in OpenIn(m, N)
    BY <1>2, <1>3, <2>1 DEF OpenIn, SB!Event
  <2>. QED  BY <1>2, <2>1, <2>2
<1>7. \A k \in 1 .. N + 1 : m[k].type \in {"start", "stop"} => m[k].index < n
  <2>1. \E k \in 1 .. N : l[k] = SB!Event("start", i)
    BY <1>2 DEF OpenIn
  <2>2. i < n
    BY <2>1 DEF Tells, SB!Event, N
  <2>. QED  BY <1>1, <1>2, <1>3, <2>2 DEF Tells, N
<1>8. WellFormed(m)
  BY <1>2, <1>4 DEF WellFormed
<1>. QED  BY <1>1, <1>2, <1>5, <1>6, <1>7, <1>8 DEF Tells, m, N

\* A stream ends when no part is open, or with an error.
LEMMA TellsEnd ==
    ASSUME NEW l, NEW open, NEW n, Tells(l, open, n),
           NEW e \in {SB!Event("end", SB!None), SB!Event("error", SB!None)},
           e.type = "end" => open = {}
    PROVE  WellFormed(Append(l, e)) /\ Append(l, e) \in Seq(Written)
<1>. DEFINE m == Append(l, e)
            N == Len(l)
<1>1. l \in Seq(Inner) /\ e \in Written /\ e.type \in {"end", "error"}
  BY DEF Tells, SB!Event, Written
<1>2. /\ m \in Seq(Written) /\ Len(m) = N + 1 /\ N \in Nat
      /\ m[N + 1] = e
      /\ OpenIn(m, N) = open
      /\ \A k \in 1 .. N : EventFits(m, k)
  BY <1>1, EarlierEvents DEF Tells, WellFormed
<1>. HIDE DEF m, N
<1>3. EventFits(m, N + 1)
  BY <1>1, <1>2 DEF EventFits
<1>. QED  BY <1>2, <1>3 DEF WellFormed, m

\* The handler's record, and what it has told the client.
BlockState ==
    [next : Nat, thinking : Nat \cup {SB!None}, text : Nat \cup {SB!None}, log : Seq(Inner)]

Said(b, open, n) == b \in BlockState /\ Tells(log \o b.log, open, n)

LEMMA NoneIsNoIndex == SB!None \notin Nat
BY DEF SB!None

LEMMA NextSet ==
    ASSUME NEW b \in BlockState, NEW n \in Nat
    PROVE  LET c == [b EXCEPT !.next = n]
           IN  /\ c \in BlockState /\ c.log = b.log
               /\ c.next = n /\ c.thinking = b.thinking /\ c.text = b.text
BY DEF BlockState

LEMMA SaidOne ==
    ASSUME NEW b \in BlockState, NEW e \in Written, log \in Seq(Inner)
    PROVE  LET c == SB!Put(b, <<e>>)
           IN  /\ c.next = b.next /\ c.thinking = b.thinking /\ c.text = b.text
               /\ log \o c.log = Append(log \o b.log, e)
               /\ e \in Inner => c \in BlockState
<1>. DEFINE c == SB!Put(b, <<e>>)
<1>1. b.log \in Seq(Inner)
  BY DEF BlockState
<1>2. c = [b EXCEPT !.log = b.log \o <<e>>]
  BY DEF SB!Put
<1>3. c.next = b.next /\ c.thinking = b.thinking /\ c.text = b.text /\ c.log = b.log \o <<e>>
  BY <1>2, Zenon DEF BlockState
<1>4. Inner \subseteq Written
  BY DEF Inner, Written
<1>5. log \o (b.log \o <<e>>) = Append(log \o b.log, e)
  <2>1. log \in Seq(Written) /\ b.log \in Seq(Written)
    BY <1>1, <1>4
  <2>. QED  BY <2>1
<1>6. e \in Inner => c \in BlockState
  <2>1. e \in Inner => b.log \o <<e>> \in Seq(Inner)
    BY <1>1
  <2>. QED  BY <1>2, <2>1, Zenon DEF BlockState
<1>. QED  BY <1>3, <1>5, <1>6, Zenon

LEMMA SaidMore ==
    ASSUME NEW b \in BlockState, NEW d \in Inner, NEW e \in Inner, NEW f \in Inner
    PROVE  /\ SB!Put(b, <<d, e>>) = SB!Put(SB!Put(b, <<d>>), <<e>>)
           /\ SB!Put(b, <<d, e, f>>) = SB!Put(SB!Put(SB!Put(b, <<d>>), <<e>>), <<f>>)
<1>1. b.log \in Seq(Inner)
  BY DEF BlockState
<1>2. /\ b.log \o <<d, e>> = (b.log \o <<d>>) \o <<e>>
      /\ b.log \o <<d, e, f>> = (b.log \o <<d, e>>) \o <<f>>
  <2>1. <<d>> \in Seq(Inner) /\ <<e>> \in Seq(Inner) /\ <<f>> \in Seq(Inner)
    OBVIOUS
  <2>2. <<d, e>> \in Seq(Inner)
    OBVIOUS
  <2>3. <<d, e>> = <<d>> \o <<e>>
    <3>1. /\ <<d>> \o <<e>> \in Seq(Inner) /\ Len(<<d>> \o <<e>>) = 2
          /\ (<<d>> \o <<e>>)[1] = d /\ (<<d>> \o <<e>>)[2] = e
      BY <2>1, ConcatProperties
    <3>2. Len(<<d, e>>) = 2 /\ <<d, e>>[1] = d /\ <<d, e>>[2] = e
      OBVIOUS
    <3>. DEFINE both == <<d>> \o <<e>>
    <3>3. \A i \in 1 .. Len(both) : both[i] = <<d, e>>[i]
      BY <3>1, <3>2
    <3>. QED  BY <2>2, <3>1, <3>2, <3>3, SeqEqual, Zenon
  <2>4. <<d, e, f>> = <<d, e>> \o <<f>>
    OBVIOUS
  <2>5. b.log \o (<<d>> \o <<e>>) = (b.log \o <<d>>) \o <<e>>
    BY <1>1, <2>1, ConcatAssociative
  <2>6. b.log \o (<<d, e>> \o <<f>>) = (b.log \o <<d, e>>) \o <<f>>
    BY <1>1, <2>1, <2>2, ConcatAssociative
  <2>. QED  BY <2>3, <2>4, <2>5, <2>6, Zenon
<1>. QED  BY <1>2, Zenon DEF SB!Put, BlockState

LEMMA SaidStart ==
    ASSUME log \in Seq(Inner), NEW b, NEW n, Said(b, {}, n)
    PROVE  LET c == SB!Put(b, <<SB!Event("start", n)>>)
           IN  /\ Said(c, {n}, n + 1)
               /\ c.next = b.next /\ c.thinking = b.thinking /\ c.text = b.text
<1>1. SB!Event("start", n) \in Inner /\ SB!Event("start", n) \in Written
  BY DEF Said, Tells, SB!Event, Inner, Written
<1>. QED  BY <1>1, SaidOne, TellsStart, Zenon DEF Said

LEMMA SaidDelta ==
    ASSUME log \in Seq(Inner), NEW b, NEW n, NEW i \in Nat, Said(b, {i}, n)
    PROVE  LET c == SB!Put(b, <<SB!Event("delta", i)>>)
           IN  /\ Said(c, {i}, n)
               /\ c.next = b.next /\ c.thinking = b.thinking /\ c.text = b.text
<1>. DEFINE e == SB!Event("delta", i)
<1>1. e \in Inner /\ e \in Written
  BY DEF SB!Event, Inner, Written
<1>2. b \in BlockState /\ Tells(Append(log \o b.log, e), {i}, n)
  BY TellsDelta DEF Said
<1>. HIDE DEF e
<1>3. LET c == SB!Put(b, <<e>>)
      IN  /\ c.next = b.next /\ c.thinking = b.thinking /\ c.text = b.text
          /\ log \o c.log = Append(log \o b.log, e)
          /\ c \in BlockState
  BY <1>1, <1>2, SaidOne, Zenon
<1>4. Said(SB!Put(b, <<e>>), {i}, n)
  BY <1>2, <1>3, Zenon DEF Said
<1>. QED  BY <1>3, <1>4 DEF e

LEMMA SaidStop ==
    ASSUME log \in Seq(Inner), NEW b, NEW n, NEW i \in Nat, Said(b, {i}, n)
    PROVE  LET c == SB!Put(b, <<SB!Event("stop", i)>>)
           IN  /\ Said(c, {}, n)
               /\ c.next = b.next /\ c.thinking = b.thinking /\ c.text = b.text
<1>1. SB!Event("stop", i) \in Inner /\ SB!Event("stop", i) \in Written
  BY DEF SB!Event, Inner, Written
<1>. QED  BY <1>1, SaidOne, TellsStop, Zenon DEF Said

\* A whole part: a start, its text and its stop.
LEMMA SaidPart ==
    ASSUME log \in Seq(Inner), NEW b, NEW n, Said(b, {}, n)
    PROVE  LET c == SB!Put(b, <<SB!Event("start", n), SB!Event("delta", n), SB!Event("stop", n)>>)
           IN  /\ Said(c, {}, n + 1)
               /\ c.next = b.next /\ c.thinking = b.thinking /\ c.text = b.text
<1>. DEFINE c1 == SB!Put(b, <<SB!Event("start", n)>>)
            c2 == SB!Put(c1, <<SB!Event("delta", n)>>)
            c3 == SB!Put(c2, <<SB!Event("stop", n)>>)
<1>0. n \in Nat /\ b \in BlockState
  BY DEF Said, Tells
<1>1. Said(c1, {n}, n + 1) /\ c1.next = b.next /\ c1.thinking = b.thinking /\ c1.text = b.text
  BY SaidStart
<1>. HIDE DEF c1
<1>2. Said(c2, {n}, n + 1) /\ c2.next = b.next /\ c2.thinking = b.thinking /\ c2.text = b.text
  BY <1>0, <1>1, SaidDelta, Zenon
<1>. HIDE DEF c2
<1>3. Said(c3, {}, n + 1) /\ c3.next = b.next /\ c3.thinking = b.thinking /\ c3.text = b.text
  BY <1>0, <1>2, SaidStop, Zenon
<1>4. c3 = SB!Put(b, <<SB!Event("start", n), SB!Event("delta", n), SB!Event("stop", n)>>)
  <2>1. /\ SB!Event("start", n) \in Inner
        /\ SB!Event("delta", n) \in Inner
        /\ SB!Event("stop", n) \in Inner
    BY <1>0 DEF SB!Event, Inner
  <2>. QED  BY <1>0, <2>1, SaidMore, Zenon DEF c1, c2
<1>. QED  BY <1>3, <1>4

\* handle_anthropic_message: at most one of the two blocks is open, and the client has been
\* told of it and of all the blocks before next.
Tidy(b) ==
    /\ b \in BlockState
    /\ b.thinking = SB!None \/ b.text = SB!None
    /\ Said(b, {b.thinking, b.text} \ {SB!None}, b.next)

LEMMA CloseThinkingTidy ==
    ASSUME log \in Seq(Inner), NEW b, Tidy(b)
    PROVE  LET c == SB!CloseThinking(b)
           IN  Tidy(c) /\ c.thinking = SB!None /\ c.next = b.next /\ c.text = b.text
<1>1. CASE b.thinking = SB!None
  BY <1>1 DEF SB!CloseThinking
<1>2. CASE b.thinking # SB!None
  <2>. DEFINE i  == b.thinking
              b0 == [b EXCEPT !.thinking = SB!None]
              c1 == SB!Put(b0, <<SB!Event("delta", i)>>)
              c2 == SB!Put(c1, <<SB!Event("stop", i)>>)
  <2>1. i \in Nat /\ b.text = SB!None /\ {b.thinking, b.text} \ {SB!None} = {i}
    BY <1>2 DEF Tidy, BlockState
  <2>2. Said(b0, {i}, b.next) /\ b0.next = b.next /\ b0.thinking = SB!None /\ b0.text = b.text
    BY <2>1, Zenon DEF Tidy, Said, BlockState
  <2>. HIDE DEF b0, i
  <2>3. Said(c1, {i}, b.next) /\ c1.next = b.next /\ c1.thinking = SB!None /\ c1.text = b.text
    BY <2>1, <2>2, SaidDelta, Zenon
  <2>. HIDE DEF c1
  <2>4. Said(c2, {}, b.next) /\ c2.next = b.next /\ c2.thinking = SB!None /\ c2.text = b.text
    BY <2>1, <2>3, SaidStop, Zenon
  <2>5. c2 = SB!CloseThinking(b)
    <3>1. SB!Event("delta", i) \in Inner /\ SB!Event("stop", i) \in Inner /\ b0 \in BlockState
      BY <2>1, <2>2 DEF SB!Event, Inner, Said
    <3>2. c2 = SB!Put(b0, <<SB!Event("delta", i), SB!Event("stop", i)>>)
      BY <3>1, SaidMore, Zenon DEF c1
    <3>. QED  BY <1>2, <3>2 DEF SB!CloseThinking, b0, i
  <2>6. {SB!None, SB!None} \ {SB!None} = {}
    OBVIOUS
  <2>. QED  BY <2>1, <2>4, <2>5, <2>6, Zenon DEF Tidy, Said
<1>. QED  BY <1>1, <1>2

LEMMA CloseTextTidy ==
    ASSUME log \in Seq(Inner), NEW b, Tidy(b)
    PROVE  LET c == SB!CloseText(b)
           IN  Tidy(c) /\ c.text = SB!None /\ c.next = b.next /\ c.thinking = b.thinking
<1>1. CASE b.text = SB!None
  BY <1>1 DEF SB!CloseText
<1>2. CASE b.text # SB!None
  <2>. DEFINE i  == b.text
              b0 == [b EXCEPT !.text = SB!None]
              c1 == SB!Put(b0, <<SB!Event("stop", i)>>)
  <2>1. i \in Nat /\ b.thinking = SB!None /\ {b.thinking, b.text} \ {SB!None} = {i}
    BY <1>2 DEF Tidy, BlockState
  <2>2. Said(b0, {i}, b.next) /\ b0.next = b.next /\ b0.text = SB!None /\ b0.thinking = b.thinking
    BY <2>1, Zenon DEF Tidy, Said, BlockState
  <2>3. c1 = SB!CloseText(b)
    BY <1>2 DEF SB!CloseText
  <2>. HIDE DEF b0, i
  <2>4. Said(c1, {}, b.next) /\ c1.next = b.next /\ c1.text = SB!None /\ c1.thinking = b.thinking
    BY <2>1, <2>2, SaidStop, Zenon
  <2>6. {SB!None, SB!None} \ {SB!None} = {}
    OBVIOUS
  <2>. QED  BY <2>1, <2>3, <2>4, <2>6, Zenon DEF Tidy, Said
<1>. QED  BY <1>1, <1>2

LEMMA OpenThinkingTidy ==
    ASSUME log \in Seq(Inner), NEW b, Tidy(b), b.text = SB!None
    PROVE  LET c == SB!OpenThinking(b)
           IN  Tidy(c) /\ c.thinking \in Nat /\ c.text = SB!None
<1>1. CASE b.thinking # SB!None
  BY <1>1, Zenon DEF SB!OpenThinking, Tidy, BlockState
<1>2. CASE b.thinking = SB!None
  <2>. DEFINE n  == b.next
              b0 == [b EXCEPT !.thinking = n, !.next = n + 1]
              c1 == SB!Put(b0, <<SB!Event("start", n)>>)
  <2>1. n \in Nat /\ {b.thinking, b.text} \ {SB!None} = {}
    BY <1>2 DEF Tidy, BlockState
  <2>2. Said(b0, {}, n) /\ b0.next = n + 1 /\ b0.text = SB!None /\ b0.thinking = n
    <3>1. b \in BlockState /\ Tells(log \o b.log, {}, n) /\ b.text = SB!None
      BY <1>2, <2>1, Zenon DEF Tidy, Said
    <3>2. /\ b0 \in BlockState /\ b0.log = b.log
          /\ b0.next = n + 1 /\ b0.text = SB!None /\ b0.thinking = n
      <4>. DEFINE a == [b EXCEPT !.thinking = n]
      <4>1. a \in BlockState /\ a.text = SB!None /\ a.thinking = n /\ a.log = b.log
        BY <2>1, <3>1 DEF BlockState
      <4>2. b0 = [a EXCEPT !.next = n + 1]
        OBVIOUS
      <4>. HIDE DEF a, b0, n
      <4>3. n + 1 \in Nat
        BY <2>1
      <4>. DEFINE c == [a EXCEPT !.next = n + 1]
      <4>4. /\ c \in BlockState /\ c.log = a.log /\ c.next = n + 1
            /\ c.thinking = a.thinking /\ c.text = a.text
        BY <4>1, <4>3, NextSet
      <4>. QED  BY <4>1, <4>2, <4>4
    <3>. QED  BY <3>1, <3>2 DEF Said
  <2>3. c1 = SB!OpenThinking(b)
    BY <1>2 DEF SB!OpenThinking, Tidy, BlockState
  <2>. HIDE DEF b0, n
  <2>4. Said(c1, {n}, n + 1) /\ c1.next = n + 1 /\ c1.text = SB!None /\ c1.thinking = n
    BY <2>1, <2>2, SaidStart, Zenon
  <2>6. {n, SB!None} \ {SB!None} = {n}
    BY <2>1, NoneIsNoIndex
  <2>. QED  BY <2>1, <2>3, <2>4, <2>6, Zenon DEF Tidy, Said
<1>. QED  BY <1>1, <1>2

LEMMA OpenTextTidy ==
    ASSUME log \in Seq(Inner), NEW b, Tidy(b), b.thinking = SB!None
    PROVE  LET c == SB!OpenText(b)
           IN  Tidy(c) /\ c.text \in Nat /\ c.thinking = SB!None
<1>1. CASE b.text # SB!None
  BY <1>1, Zenon DEF SB!OpenText, Tidy, BlockState
<1>2. CASE b.text = SB!None
  <2>. DEFINE n  == b.next
              b0 == [b EXCEPT !.text = n, !.next = n + 1]
              c1 == SB!Put(b0, <<SB!Event("start", n)>>)
  <2>1. n \in Nat /\ {b.thinking, b.text} \ {SB!None} = {}
    BY <1>2 DEF Tidy, BlockState
  <2>2. Said(b0, {}, n) /\ b0.next = n + 1 /\ b0.thinking = SB!None /\ b0.text = n
    <3>1. b \in BlockState /\ Tells(log \o b.log, {}, n) /\ b.thinking = SB!None
      BY <1>2, <2>1, Zenon DEF Tidy, Said
    <3>2. /\ b0 \in BlockState /\ b0.log = b.log
          /\ b0.next = n + 1 /\ b0.thinking = SB!None /\ b0.text = n
      <4>. DEFINE a == [b EXCEPT !.text = n]
      <4>1. a \in BlockState /\ a.thinking = SB!None /\ a.text = n /\ a.log = b.log
        BY <2>1, <3>1 DEF BlockState
      <4>2. b0 = [a EXCEPT !.next = n + 1]
        OBVIOUS
      <4>. HIDE DEF a, b0, n
      <4>3. n + 1 \in Nat
        BY <2>1
      <4>. DEFINE c == [a EXCEPT !.next = n + 1]
      <4>4. /\ c \in BlockState /\ c.log = a.log /\ c.next = n + 1
            /\ c.thinking = a.thinking /\ c.text = a.text
        BY <4>1, <4>3, NextSet
      <4>. QED  BY <4>1, <4>2, <4>4
    <3>. QED  BY <3>1, <3>2 DEF Said
  <2>3. c1 = SB!OpenText(b)
    BY <1>2 DEF SB!OpenText, Tidy, BlockState
  <2>. HIDE DEF b0, n
  <2>4. Said(c1, {n}, n + 1) /\ c1.next = n + 1 /\ c1.thinking = SB!None /\ c1.text = n
    BY <2>1, <2>2, SaidStart, Zenon
  <2>6. {SB!None, n} \ {SB!None} = {n}
    BY <2>1, NoneIsNoIndex
  <2>. QED  BY <2>1, <2>3, <2>4, <2>6, Zenon DEF Tidy, Said
<1>. QED  BY <1>1, <1>2

LEMMA ThinkingTidy ==
    ASSUME log \in Seq(Inner), NEW b, Tidy(b)
    PROVE  Tidy(SB!Thinking(b)) /\ Tidy(SB!BlankThinking(b))
<1>. DEFINE c == SB!OpenThinking(SB!CloseText(b))
            d == SB!Put(c, <<SB!Event("delta", c.thinking)>>)
<1>1. Tidy(c) /\ c.thinking \in Nat /\ c.text = SB!None
  BY CloseTextTidy, OpenThinkingTidy
<1>2. d = SB!Thinking(b)
  BY DEF SB!Thinking
<1>. HIDE DEF c
<1>3. {c.thinking, c.text} \ {SB!None} = {c.thinking}
  BY <1>1, NoneIsNoIndex
<1>4. /\ Said(d, {c.thinking}, c.next)
      /\ d.next = c.next /\ d.thinking = c.thinking /\ d.text = c.text
  <2>1. Said(c, {c.thinking}, c.next)
    BY <1>1, <1>3, Zenon DEF Tidy
  <2>. QED  BY <1>1, <2>1, SaidDelta, Zenon
<1>5. Tidy(d)
  BY <1>1, <1>3, <1>4, Zenon DEF Tidy, Said
<1>. QED  BY <1>2, <1>5 DEF SB!BlankThinking

LEMMA TextTidy ==
    ASSUME log \in Seq(Inner), NEW b, Tidy(b)
    PROVE  Tidy(SB!Text(b))
<1>. DEFINE c == SB!OpenText(SB!CloseThinking(b))
            d == SB!Put(c, <<SB!Event("delta", c.text)>>)
<1>1. Tidy(c) /\ c.text \in Nat /\ c.thinking = SB!None
  BY CloseThinkingTidy, OpenTextTidy
<1>2. d = SB!Text(b)
  BY DEF SB!Text
<1>. HIDE DEF c
<1>3. {c.thinking, c.text} \ {SB!None} = {c.text}
  BY <1>1, NoneIsNoIndex
<1>4. /\ Said(d, {c.text}, c.next)
      /\ d.next = c.next /\ d.thinking = c.thinking /\ d.text = c.text
  <2>1. Said(c, {c.text}, c.next)
    BY <1>1, <1>3, Zenon DEF Tidy
  <2>. QED  BY <1>1, <2>1, SaidDelta, Zenon
<1>5. Tidy(d)
  BY <1>1, <1>3, <1>4, Zenon DEF Tidy, Said
<1>. QED  BY <1>2, <1>5

LEMMA ClosedTidy ==
    ASSUME log \in Seq(Inner), NEW b, Tidy(b)
    PROVE  LET c == SB!CloseText(SB!CloseThinking(b))
           IN  Tidy(c) /\ c.thinking = SB!None /\ c.text = SB!None /\ Said(c, {}, c.next)
<1>. DEFINE a == SB!CloseThinking(b)
            c == SB!CloseText(a)
<1>1. Tidy(a) /\ a.thinking = SB!None
  BY CloseThinkingTidy
<1>. HIDE DEF a
<1>2. Tidy(c) /\ c.thinking = SB!None /\ c.text = SB!None
  BY <1>1, CloseTextTidy
<1>. HIDE DEF c
<1>3. {c.thinking, c.text} \ {SB!None} = {}
  BY <1>2
<1>4. Said(c, {}, c.next)
  BY <1>2, <1>3, Zenon DEF Tidy
<1>. QED  BY <1>2, <1>4 DEF a, c

\* A call is a block of its own, and leaves none open.
LEMMA ToolTidy ==
    ASSUME log \in Seq(Inner), NEW b, Tidy(b)
    PROVE  LET d == SB!Tool(b)
           IN  Tidy(d) /\ d.thinking = SB!None /\ d.text = SB!None /\ Said(d, {}, d.next)
<1>. DEFINE c == SB!CloseText(SB!CloseThinking(b))
            n == c.next
            a == [c EXCEPT !.next = @ + 1]
            d == SB!Put(a, <<SB!Event("start", n), SB!Event("delta", n), SB!Event("stop", n)>>)
<1>1. c \in BlockState /\ c.thinking = SB!None /\ c.text = SB!None /\ Said(c, {}, n)
  BY ClosedTidy, Zenon DEF Tidy
<1>2. d = SB!Tool(b)
  BY DEF SB!Tool
<1>. HIDE DEF c
<1>3. /\ n \in Nat /\ Said(a, {}, n)
      /\ a.next = n + 1 /\ a.thinking = SB!None /\ a.text = SB!None
  BY <1>1 DEF Said, BlockState
<1>. HIDE DEF a, n
<1>4. Said(d, {}, n + 1) /\ d.next = n + 1 /\ d.thinking = SB!None /\ d.text = SB!None
  BY <1>3, SaidPart
<1>5. {SB!None, SB!None} \ {SB!None} = {}
  OBVIOUS
<1>6. Tidy(d)
  BY <1>4, <1>5, Zenon DEF Tidy, Said
<1>. QED  BY <1>2, <1>4, <1>6

LEMMA ToolsTidy ==
    ASSUME log \in Seq(Inner), NEW b, Tidy(b), Said(b, {}, b.next), NEW n \in 0 .. 2
    PROVE  LET c == SB!Tools(b, n) IN Tidy(c) /\ Said(c, {}, c.next)
<1>. DEFINE Body(f) == [i \in 0 .. n |-> IF i = 0 THEN b ELSE SB!Tool(f[i - 1])]
            after    == CHOOSE f : f = Body(f)
            once     == SB!Tool(b)
            twice    == SB!Tool(once)
            w        == [i \in 0 .. n |-> IF i = 0 THEN b ELSE IF i = 1 THEN once ELSE twice]
<1>1. SB!Tools(b, n) = after[n]
  BY DEF SB!Tools
<1>2. Tidy(once) /\ Said(once, {}, once.next)
  BY ToolTidy
<1>3. Tidy(twice) /\ Said(twice, {}, twice.next)
  <2>. HIDE DEF once
  <2>. QED  BY <1>2, ToolTidy
<1>4. w = Body(w)
  <2>1. \A i \in 0 .. n :
           (IF i = 0 THEN b ELSE IF i = 1 THEN once ELSE twice)
              = IF i = 0 THEN b ELSE SB!Tool(w[i - 1])
    <3> SUFFICES ASSUME NEW i \in 1 .. n
                 PROVE  (IF i = 1 THEN once ELSE twice) = SB!Tool(w[i - 1])
      OBVIOUS
    <3>1. CASE i = 1
      <4>1. w[0] = b
        OBVIOUS
      <4>. QED  BY <3>1, <4>1
    <3>2. CASE i = 2
      <4>1. w[1] = once
        BY <3>2
      <4>. QED  BY <3>2, <4>1
    <3>. QED  BY <3>1, <3>2
  <2>. HIDE DEF once, twice
  <2>. QED  BY <2>1, Zenon
<1>5. after = Body(after)
  <2>. HIDE DEF Body, w
  <2>. QED  BY <1>4
<1>. HIDE DEF after
<1>6. after[0] = b
  BY <1>5
<1>7. n >= 1 => after[1] = once
  BY <1>5, <1>6
<1>8. n = 2 => after[2] = twice
  BY <1>5, <1>7
<1>9. after[n] \in {b, once, twice}
  BY <1>6, <1>7, <1>8
<1>. HIDE DEF once, twice
<1>. QED  BY <1>1, <1>2, <1>3, <1>9

\* What a callback and the end of a stream leave on the wire.
Ended(b) ==
    /\ log \o b.log \in Seq(Written)
    /\ WellFormed(log \o b.log)
    /\ b.next \in Nat /\ b.thinking \in Nat \cup {SB!None} /\ b.text \in Nat \cup {SB!None}
    /\ [b EXCEPT !.log = <<>>] \in
          [next : Nat, thinking : Nat \cup {SB!None}, text : Nat \cup {SB!None}, log : {<<>>}]

LEMMA PutEnds ==
    ASSUME log \in Seq(Inner), NEW b, NEW open, NEW n, Said(b, open, n),
           NEW e \in {SB!Event("end", SB!None), SB!Event("error", SB!None)},
           e.type = "end" => open = {}
    PROVE  Ended(SB!Put(b, <<e>>))
<1>1. e \in Written
  BY DEF SB!Event, Written
<1>2. b \in BlockState /\ Tells(log \o b.log, open, n)
  BY DEF Said
<1>3. WellFormed(Append(log \o b.log, e)) /\ Append(log \o b.log, e) \in Seq(Written)
  BY <1>2, TellsEnd, Zenon
<1>. DEFINE c == SB!Put(b, <<e>>)
<1>4. /\ c.next = b.next /\ c.thinking = b.thinking /\ c.text = b.text
      /\ log \o c.log = Append(log \o b.log, e)
  BY <1>1, <1>2, SaidOne
<1>5. [c EXCEPT !.log = <<>>] = [b EXCEPT !.log = <<>>]
  BY <1>2, Zenon DEF SB!Put, BlockState
<1>6. [b EXCEPT !.log = <<>>] \in
          [next : Nat, thinking : Nat \cup {SB!None}, text : Nat \cup {SB!None}, log : {<<>>}]
  BY <1>2 DEF BlockState
<1>. HIDE DEF c
<1>7. Ended(c)
  BY <1>2, <1>3, <1>4, <1>5, <1>6 DEF Ended, BlockState
<1>. QED  BY <1>7 DEF c

LEMMA MessageEndsWell ==
    ASSUME log \in Seq(Inner), NEW b, Tidy(b), NEW thinks \in BOOLEAN, NEW speaks \in BOOLEAN,
           NEW n \in 0 .. 2
    PROVE  Ended(SB!MessageEnds(b, thinks, speaks, n))
<1>. DEFINE c == IF thinks THEN SB!Thinking(b) ELSE b
            d == IF speaks THEN SB!Text(c) ELSE c
            f == SB!CloseText(SB!CloseThinking(d))
            g == SB!Tools(f, n)
            e == SB!Event("end", SB!None)
<1>1. Tidy(c)
  BY ThinkingTidy
<1>2. SB!MessageEnds(b, thinks, speaks, n) = SB!Put(g, <<e>>)
  BY DEF SB!MessageEnds
<1>. HIDE DEF c
<1>3. Tidy(d)
  BY <1>1, TextTidy
<1>. HIDE DEF d
<1>4. Tidy(f) /\ Said(f, {}, f.next)
  BY <1>3, ClosedTidy
<1>. HIDE DEF f
<1>5. Said(g, {}, g.next)
  BY <1>4, ToolsTidy
<1>. HIDE DEF g
<1>6. Ended(SB!Put(g, <<e>>))
  BY <1>5, PutEnds
<1>. QED  BY <1>2, <1>6

\* handle_openai_response: the text is item 0, and nothing else is sent before the end.
TidyText(b) ==
    /\ b \in BlockState
    /\ b.text \in {SB!None, 0}
    /\ Said(b, {b.text} \ {SB!None}, SB!AfterText(b))

LEMMA ItemTextTidy ==
    ASSUME log \in Seq(Inner), NEW b, TidyText(b)
    PROVE  TidyText(SB!ItemText(b))
<1>. DEFINE c == IF b.text # SB!None THEN b
                 ELSE SB!Put([b EXCEPT !.text = 0], <<SB!Event("start", 0)>>)
            d == SB!Put(c, <<SB!Event("delta", 0)>>)
<1>0. d = SB!ItemText(b)
  BY DEF SB!ItemText
<1>1. c.text = 0 /\ Said(c, {0}, 1)
  <2>1. CASE b.text # SB!None
    <3>1. b.text = 0 /\ {b.text} \ {SB!None} = {0} /\ SB!AfterText(b) = 1
      BY <2>1 DEF TidyText, SB!AfterText
    <3>. QED  BY <2>1, <3>1, Zenon DEF TidyText
  <2>2. CASE b.text = SB!None
    <3>. DEFINE a == [b EXCEPT !.text = 0]
    <3>1. {b.text} \ {SB!None} = {} /\ SB!AfterText(b) = 0
      BY <2>2 DEF SB!AfterText
    <3>2. a \in BlockState /\ a.log = b.log /\ a.text = 0
      BY DEF TidyText, BlockState
    <3>3. Said(a, {}, 0)
      BY <3>1, <3>2, Zenon DEF TidyText, Said
    <3>4. c = SB!Put(a, <<SB!Event("start", 0)>>)
      BY <2>2
    <3>. HIDE DEF a, c
    <3>5. /\ Said(SB!Put(a, <<SB!Event("start", 0)>>), {0}, 0 + 1)
          /\ SB!Put(a, <<SB!Event("start", 0)>>).text = a.text
      BY <3>3, SaidStart
    <3>. QED  BY <3>2, <3>4, <3>5
  <2>. QED  BY <2>1, <2>2
<1>. HIDE DEF c
<1>2. Said(d, {0}, 1) /\ d.text = 0
  <2>. DEFINE i == 0
  <2>1. i \in Nat /\ Said(c, {i}, 1)
    BY <1>1
  <2>. HIDE DEF i
  <2>2. LET f == SB!Put(c, <<SB!Event("delta", i)>>) IN Said(f, {i}, 1) /\ f.text = c.text
    BY <2>1, SaidDelta
  <2>. QED  BY <1>1, <2>2 DEF i
<1>3. 0 # SB!None
  BY DEF SB!None
<1>. HIDE DEF d
<1>4. {d.text} \ {SB!None} = {0} /\ SB!AfterText(d) = 1
  BY <1>2, <1>3 DEF SB!AfterText
<1>. QED  BY <1>0, <1>2, <1>4, Zenon DEF TidyText, Said

\* The calls follow the text, one item each.
LEMMA ItemsTidy ==
    ASSUME log \in Seq(Inner), NEW b, Said(b, {}, SB!AfterText(b)), NEW n \in 0 .. 2
    PROVE  LET c == SB!Items(b, n) IN \E m : Said(c, {}, m)
<1>. DEFINE t        == SB!AfterText(b)
            Body(f) == [i \in 0 .. n |-> IF i = 0 THEN b ELSE SB!Item(f[i - 1], t + i - 1)]
            after    == CHOOSE f : f = Body(f)
            once     == SB!Item(b, t)
            twice    == SB!Item(once, t + 1)
            w        == [i \in 0 .. n |-> IF i = 0 THEN b ELSE IF i = 1 THEN once ELSE twice]
<1>1. SB!Items(b, n) = after[n]
  BY DEF SB!Items
<1>0. t \in Nat
  BY DEF SB!AfterText
<1>. HIDE DEF t
<1>2. Said(once, {}, t + 1)
  BY <1>0, SaidPart DEF SB!Item, t
<1>3. Said(twice, {}, t + 1 + 1)
  <2>. HIDE DEF once
  <2>. QED  BY <1>0, <1>2, SaidPart DEF SB!Item
<1>4. w = Body(w)
  <2>1. \A i \in 0 .. n :
           (IF i = 0 THEN b ELSE IF i = 1 THEN once ELSE twice)
              = IF i = 0 THEN b ELSE SB!Item(w[i - 1], t + i - 1)
    <3> SUFFICES ASSUME NEW i \in 0 .. n, i # 0
                 PROVE  (IF i = 1 THEN once ELSE twice) = SB!Item(w[i - 1], t + i - 1)
      <4>. HIDE DEF w, once, twice
      <4>. QED  OBVIOUS
    <3>1. CASE i = 1
      <4>1. w[0] = b /\ t + i - 1 = t
        BY <1>0, <3>1
      <4>. QED  BY <3>1, <4>1
    <3>2. CASE i = 2
      <4>1. w[1] = once /\ t + i - 1 = t + 1
        BY <1>0, <3>2
      <4>. QED  BY <3>2, <4>1
    <3>. QED  BY <3>1, <3>2
  <2>. HIDE DEF once, twice
  <2>. QED  BY <2>1, Zenon
<1>5. after = Body(after)
  <2>. HIDE DEF Body, w
  <2>. QED  BY <1>4
<1>. HIDE DEF after
<1>6. after[0] = b
  BY <1>5
<1>7. n >= 1 => after[1] = once
  <2>1. t + 1 - 1 = t
    BY <1>0
  <2>2. n >= 1 => after[1] = SB!Item(after[0], t + 1 - 1)
    BY <1>5
  <2>. QED  BY <1>6, <2>1, <2>2
<1>8. n = 2 => after[2] = twice
  <2>1. t + 2 - 1 = t + 1
    BY <1>0
  <2>2. n = 2 => after[2] = SB!Item(after[1], t + 2 - 1)
    BY <1>5
  <2>. QED  BY <1>7, <2>1, <2>2
<1>9. after[n] \in {b, once, twice}
  BY <1>6, <1>7, <1>8
<1>. HIDE DEF once, twice
<1>. QED  BY <1>1, <1>2, <1>3, <1>9 DEF t

LEMMA ResponseEndsWell ==
    ASSUME log \in Seq(Inner), NEW b, TidyText(b), NEW speaks \in BOOLEAN, NEW n \in 0 .. 2
    PROVE  Ended(SB!ResponseEnds(b, speaks, n))
<1>. DEFINE c == IF speaks THEN SB!ItemText(b) ELSE b
            d == IF c.text = SB!None THEN c ELSE SB!Put(c, <<SB!Event("stop", 0)>>)
            g == SB!Items(d, n)
            h == [g EXCEPT !.text = SB!None]
            e == SB!Event("end", SB!None)
<1>1. TidyText(c)
  BY ItemTextTidy
<1>2. SB!ResponseEnds(b, speaks, n) = SB!Put(h, <<e>>)
  BY DEF SB!ResponseEnds
<1>. HIDE DEF c
<1>3. Said(d, {}, SB!AfterText(d))
  <2>1. CASE c.text = SB!None
    BY <1>1, <2>1, Zenon DEF TidyText
  <2>2. CASE c.text # SB!None
    <3>1. c.text = 0 /\ {c.text} \ {SB!None} = {0}
      BY <1>1, <2>2 DEF TidyText
    <3>2. Said(d, {}, SB!AfterText(c)) /\ d.text = c.text
      <4>. DEFINE i == 0
      <4>1. i \in Nat /\ Said(c, {i}, SB!AfterText(c))
        BY <1>1, <3>1, Zenon DEF TidyText
      <4>. HIDE DEF i
      <4>2. LET f == SB!Put(c, <<SB!Event("stop", i)>>)
            IN  Said(f, {}, SB!AfterText(c)) /\ f.text = c.text
        BY <4>1, SaidStop
      <4>. QED  BY <2>2, <4>2 DEF i
    <3>. QED  BY <3>2 DEF SB!AfterText
  <2>. QED  BY <2>1, <2>2
<1>. HIDE DEF d
<1>4. PICK m : Said(g, {}, m)
  BY <1>3, ItemsTidy
<1>. HIDE DEF g
<1>5. Said(h, {}, m)
  <2>1. h \in BlockState /\ h.log = g.log
    BY <1>4 DEF Said, BlockState
  <2>. QED  BY <1>4, <2>1 DEF Said
<1>. HIDE DEF h
<1>6. Ended(SB!Put(h, <<e>>))
  BY <1>5, PutEnds
<1>. QED  BY <1>2, <1>6

\* A stream under way is tidy, and what has been written is well formed.
BlocksInv ==
    /\ SB!TypeOK
    /\ phase = "streaming" => /\ log \in Seq(Inner)
                              /\ IF api = "messages" THEN Tidy(blocks) ELSE TidyText(blocks)
    /\ WellFormed(log)

LEMMA BlocksHold == BlocksInv => SB!TypeOK /\ SB!PartsAreWellFormed
<1> SUFFICES ASSUME BlocksInv PROVE SB!PartsAreWellFormed
  BY DEF BlocksInv
<1>1. DOMAIN log = 1 .. Len(log)
  BY DEF BlocksInv, SB!TypeOK
<1>2. ASSUME NEW n \in 1 .. Len(log)
      PROVE  /\ EventFits(log, n) /\ log[n].type \in {"start", "delta", "stop", "end", "error"}
             /\ SB!OpenAfter(n - 1) = OpenIn(log, n - 1)
  <2>1. log \in Seq(Written)
    BY DEF BlocksInv, SB!TypeOK, Written
  <2>2. log[n] \in Written
    BY <2>1
  <2>. QED  BY <2>2 DEF BlocksInv, WellFormed, Written, SB!OpenAfter, OpenIn
<1>3. \A S : SB!Cardinality(S) = Cardinality(S)
  BY DEF SB!Cardinality, Cardinality
<1>. QED  BY <1>1, <1>2, <1>3, Zenon DEF SB!PartsAreWellFormed, EventFits, StartsIn

\* Nothing is written twice: what a callback maps the record to goes into the log.
LEMMA BecomeHolds ==
    ASSUME BlocksInv, phase = "streaming", NEW b, SB!Become(b), UNCHANGED api,
           \/ phase' = "streaming" /\ IF api = "messages" THEN Tidy(b) ELSE TidyText(b)
           \/ phase' = "done" /\ Ended(b)
    PROVE  BlocksInv'
<1>1. log \in Seq(Inner) /\ log' = log \o b.log /\ blocks' = [b EXCEPT !.log = <<>>]
  BY DEF BlocksInv, SB!Become
<1>2. api' \in {"messages", "responses"} /\ phase' \in {"streaming", "done"}
  BY DEF BlocksInv, SB!TypeOK
<1>3. Inner \subseteq Written
  BY DEF Inner, Written
<1>4. CASE phase' = "streaming"
  <2>1. b \in BlockState /\ \E open, n : Said(b, open, n)
    BY <1>4 DEF Tidy, TidyText
  <2>2. log' \in Seq(Inner) /\ WellFormed(log')
    BY <1>1, <2>1 DEF Said, Tells
  <2>3. log' \in Seq(Written)
    BY <1>3, <2>2
  <2>4. /\ blocks' \in BlockState /\ blocks'.log = <<>>
        /\ blocks'.next = b.next /\ blocks'.thinking = b.thinking /\ blocks'.text = b.text
    <3>1. <<>> \in Seq(Inner)
      OBVIOUS
    <3>. QED  BY <1>1, <2>1, <3>1, Zenon DEF BlockState
  <2>8. blocks' \in [next : Nat, thinking : Nat \cup {SB!None}, text : Nat \cup {SB!None},
                     log : {<<>>}]
    BY <1>1, <2>1 DEF BlockState
  <2>5. log' \o blocks'.log = log \o b.log
    BY <1>1, <2>2, <2>4
  <2>6. api = "messages" => Tidy(blocks)'
    BY <1>4, <2>4, <2>5, Zenon DEF Tidy, Said
  <2>7. api # "messages" => TidyText(blocks)'
    BY <1>4, <2>4, <2>5, Zenon DEF TidyText, Said, SB!AfterText
  <2>. QED  BY <1>2, <2>2, <2>3, <2>6, <2>7, <2>8 DEF BlocksInv, SB!TypeOK, Written
<1>5. CASE phase' = "done"
  BY <1>1, <1>2, <1>5 DEF Ended, BlocksInv, SB!TypeOK, Written
<1>. QED  BY <1>2, <1>4, <1>5

LEMMA BlocksInit == Init => BlocksInv
<1> SUFFICES ASSUME SB!Init PROVE BlocksInv
  BY DEF Init
<1>1. log = <<>> /\ blocks.log = <<>> /\ phase = "streaming" /\ api \in {"messages", "responses"}
      /\ blocks = [next |-> 0, thinking |-> SB!None, text |-> SB!None, log |-> <<>>]
  BY DEF SB!Init
<1>2. log \o blocks.log = <<>> /\ <<>> \in Seq(Inner) /\ <<>> \in Seq(Written) /\ Len(<<>>) = 0
  BY <1>1
<1>3. WellFormed(<<>>)
  BY DEF WellFormed
<1>4. Tells(<<>>, {}, 0)
  <2>1. StartsIn(<<>>, 0) = {} /\ OpenIn(<<>>, 0) = {}
    BY DEF StartsIn, OpenIn
  <2>. QED  BY <1>2, <1>3, <2>1, FS_EmptySet DEF Tells
<1>5. blocks \in BlockState
  BY <1>1, <1>2 DEF BlockState
<1>6. Said(blocks, {}, 0)
  BY <1>2, <1>4, <1>5 DEF Said
<1>7. Tidy(blocks) /\ TidyText(blocks)
  <2>1. {blocks.thinking, blocks.text} \ {SB!None} = {} /\ {blocks.text} \ {SB!None} = {}
    BY <1>1
  <2>. QED  BY <1>1, <1>5, <1>6, <2>1, Zenon DEF Tidy, TidyText, SB!AfterText
<1>8. SB!TypeOK
  BY <1>1, <1>2 DEF SB!TypeOK, Written
<1>. QED  BY <1>1, <1>2, <1>3, <1>7, <1>8 DEF BlocksInv

LEMMA BlocksRest ==
    ASSUME BlocksInv, UNCHANGED <<api, blocks, log, callbacks, phase>>
    PROVE  BlocksInv'
BY DEF BlocksInv, SB!TypeOK, Tidy, TidyText, Said

LEMMA CallbackBlocks ==
    ASSUME BlocksInv, SB!Callback
    PROVE  BlocksInv'
<1>1. /\ phase = "streaming" /\ phase' = "streaming" /\ UNCHANGED api
      /\ log \in Seq(Inner)
      /\ api = "messages" => Tidy(blocks)
      /\ api = "responses" => TidyText(blocks)
  BY DEF SB!Callback, BlocksInv
<1>2. \/ /\ api = "messages"
         /\ \E b \in {SB!Thinking(blocks), SB!BlankThinking(blocks), SB!Text(blocks),
                      SB!Tool(blocks)} :
               SB!Become(b)
      \/ api = "responses" /\ SB!Become(SB!ItemText(blocks))
  BY DEF SB!Callback
<1>3. CASE api = "messages"
  <2>1. PICK b \in {SB!Thinking(blocks), SB!BlankThinking(blocks), SB!Text(blocks),
                    SB!Tool(blocks)} :
               SB!Become(b)
    BY <1>2, <1>3
  <2>2. Tidy(b)
    BY <1>1, <1>3, ThinkingTidy, TextTidy, ToolTidy
  <2>. QED  BY <1>1, <1>3, <2>1, <2>2, BecomeHolds
<1>4. CASE api = "responses"
  <2>1. TidyText(SB!ItemText(blocks)) /\ SB!Become(SB!ItemText(blocks))
    BY <1>1, <1>2, <1>4, ItemTextTidy
  <2>. QED  BY <1>1, <1>4, <2>1, BecomeHolds
<1>. QED  BY <1>2, <1>3, <1>4

LEMMA FinishBlocks ==
    ASSUME BlocksInv, SB!Finish
    PROVE  BlocksInv'
<1>1. /\ phase = "streaming" /\ phase' = "done" /\ UNCHANGED api
      /\ log \in Seq(Inner)
      /\ api = "messages" => Tidy(blocks)
      /\ api # "messages" => TidyText(blocks)
  BY DEF SB!Finish, BlocksInv
<1>2. PICK thinks \in BOOLEAN, speaks \in BOOLEAN, n \in 0 .. 2 :
         IF api = "messages" THEN SB!Become(SB!MessageEnds(blocks, thinks, speaks, n))
                             ELSE SB!Become(SB!ResponseEnds(blocks, speaks, n))
  BY DEF SB!Finish
<1>3. CASE api = "messages"
  <2>1. Ended(SB!MessageEnds(blocks, thinks, speaks, n))
    BY <1>1, <1>3, MessageEndsWell
  <2>. QED  BY <1>1, <1>2, <1>3, <2>1, BecomeHolds
<1>4. CASE api # "messages"
  <2>1. Ended(SB!ResponseEnds(blocks, speaks, n))
    BY <1>1, <1>4, ResponseEndsWell
  <2>. QED  BY <1>1, <1>2, <1>4, <2>1, BecomeHolds
<1>. QED  BY <1>3, <1>4

LEMMA AbortBlocks ==
    ASSUME BlocksInv, SB!Abort
    PROVE  BlocksInv'
<1>. DEFINE e == SB!Event("error", SB!None)
<1>1. /\ phase = "streaming" /\ phase' = "done" /\ UNCHANGED api
      /\ log \in Seq(Inner) /\ SB!Become(SB!Put(blocks, <<e>>))
  BY DEF SB!Abort, BlocksInv
<1>2. PICK open, n : Said(blocks, open, n)
  BY <1>1 DEF BlocksInv, Tidy, TidyText
<1>3. e.type # "end"
  BY DEF SB!Event
<1>4. Ended(SB!Put(blocks, <<e>>))
  BY <1>1, <1>2, <1>3, PutEnds
<1>. QED  BY <1>1, <1>4, BecomeHolds

LEMMA BlocksStep == BlocksInv /\ [Next]_vars => BlocksInv'
<1> SUFFICES ASSUME BlocksInv, [Next]_vars PROVE BlocksInv'
  OBVIOUS
<1>1. SB!Next \/ UNCHANGED SB!bvars
  <2>1. CASE Next
    BY <2>1 DEF Next, blocksVars, SB!bvars
  <2>2. CASE UNCHANGED vars
    BY <2>2 DEF vars, blocksVars, SB!bvars
  <2>. QED  BY <2>1, <2>2
<1>2. CASE SB!Done \/ UNCHANGED SB!bvars
  BY <1>2, BlocksRest DEF SB!Done, SB!bvars
<1>. QED  BY <1>1, <1>2, CallbackBlocks, FinishBlocks, AbortBlocks DEF SB!Next

LEMMA BlocksAreWellFormed == Spec => [](SB!TypeOK /\ SB!PartsAreWellFormed)
BY BlocksInit, BlocksStep, BlocksHold, PTL DEF Spec

-----------------------------------------------------------------------------
(* Tool calls in streamed text (ToolTextStream).                           *)

\* The states of the reader of single characters.
ReaderFields ==
    [mode : {"lead", "prose", "tool", "json"}, lt : BOOLEAN, gap : Seq(TT!Chars),
     out : Seq(TT!Chars \cup {"call"})]

Readers == {r \in ReaderFields : r.mode = "lead" => ~r.lt}

LEMMA TextIsRead ==
    ASSUME NEW r \in ReaderFields, NEW c \in TT!Chars
    PROVE  /\ TT!Text(r, c) \in ReaderFields
           /\ TT!Text(r, c).mode = r.mode /\ TT!Text(r, c).lt = r.lt
<1>1. r.gap \in Seq(TT!Chars) /\ r.out \in Seq(TT!Chars \cup {"call"})
  BY DEF ReaderFields
<1>2. Append(r.gap, "_") \in Seq(TT!Chars)
  <2>1. "_" \in TT!Chars
    BY Zenon DEF TT!Chars
  <2>. QED  BY <1>1, <2>1, AppendProperties, Zenon
<1>3. r.out \o (r.gap \o <<c>>) \in Seq(TT!Chars \cup {"call"})
  <2>1. r.gap \in Seq(TT!Chars \cup {"call"}) /\ <<c>> \in Seq(TT!Chars \cup {"call"})
    BY <1>1
  <2>. QED  BY <1>1, <2>1
<1>4. CASE c = "_"
  BY <1>2, <1>4, Zenon DEF TT!Text, ReaderFields
<1>5. CASE c # "_"
  <2>1. <<>> \in Seq(TT!Chars)
    OBVIOUS
  <2>. QED  BY <1>3, <1>5, <2>1, Zenon DEF TT!Text, ReaderFields
<1>. QED  BY <1>4, <1>5, Zenon

\* What becomes of the reader, one case of Read each.
LEMMA ReadRules ==
    ASSUME NEW r \in Readers, NEW c \in TT!Chars
    PROVE  /\ r.mode = "json" => TT!Read(r, c) = r
           /\ r.mode = "tool" /\ r.lt /\ c = "/" =>
                 TT!Read(r, c) = [r EXCEPT !.mode = "prose", !.lt = FALSE,
                                   !.out = Append(@, "call")]
           /\ r.mode = "tool" /\ ~(r.lt /\ c = "/") => TT!Read(r, c) = [r EXCEPT !.lt = (c = "<")]
           /\ r.mode = "lead" /\ c = "_" => TT!Read(r, c) = r
           /\ r.mode = "lead" /\ c = "{" => TT!Read(r, c) = [r EXCEPT !.mode = "json"]
           /\ r.mode \in {"lead", "prose"} /\ ~r.lt /\ c = "<" =>
                 TT!Read(r, c) = [r EXCEPT !.mode = "prose", !.lt = TRUE]
           /\ r.mode = "lead" /\ c \notin {"_", "{", "<"} =>
                 TT!Read(r, c) = TT!Text([r EXCEPT !.mode = "prose"], c)
           /\ r.mode = "prose" /\ ~r.lt /\ c # "<" => TT!Read(r, c) = TT!Text(r, c)
           /\ r.mode = "prose" /\ r.lt /\ c = "t" =>
                 TT!Read(r, c) = [r EXCEPT !.mode = "tool", !.lt = FALSE]
           /\ r.mode = "prose" /\ r.lt /\ c = "|" => TT!Read(r, c) = [r EXCEPT !.lt = FALSE]
           /\ r.mode = "prose" /\ r.lt /\ c = "s" =>
                 TT!Read(r, c) = [r EXCEPT !.mode = "lead", !.lt = FALSE]
           /\ r.mode = "prose" /\ r.lt /\ c = "<" => TT!Read(r, c) = TT!Text(r, "<")
           /\ r.mode = "prose" /\ r.lt /\ c \notin {"t", "|", "s", "<"} =>
                 TT!Read(r, c) = TT!Text(TT!Text([r EXCEPT !.lt = FALSE], "<"), c)
<1>1. r.mode \in {"lead", "prose", "tool", "json"} /\ r.lt \in BOOLEAN /\ (r.mode = "lead" => ~r.lt)
  BY DEF Readers, ReaderFields
<1>2. CASE r.mode = "json"
  BY <1>2 DEF TT!Read
<1>3. CASE r.mode = "tool"
  BY <1>1, <1>3 DEF TT!Read
<1>4. CASE r.mode = "lead"
  BY <1>1, <1>4, Zenon DEF TT!Read
<1>5. CASE r.mode = "prose" /\ ~r.lt
  BY <1>1, <1>5 DEF TT!Read
<1>6. CASE r.mode = "prose" /\ r.lt
  BY <1>1, <1>6 DEF TT!Read
<1>. QED  BY <1>1, <1>2, <1>3, <1>4, <1>5, <1>6, Zenon

LEMMA ReadIsRead ==
    ASSUME NEW r \in Readers, NEW c \in TT!Chars
    PROVE  TT!Read(r, c) \in Readers
<1>1. r \in ReaderFields /\ r.mode \in {"lead", "prose", "tool", "json"} /\ r.lt \in BOOLEAN
      /\ (r.mode = "lead" => ~r.lt)
  BY DEF Readers, ReaderFields
<1>2. CASE r.mode = "json"
  BY <1>2, ReadRules, Zenon
<1>3. CASE r.mode = "tool"
  <2>1. Append(r.out, "call") \in Seq(TT!Chars \cup {"call"})
    BY DEF Readers, ReaderFields
  <2>2. [r EXCEPT !.mode = "prose", !.lt = FALSE, !.out = Append(@, "call")] \in Readers
    BY <1>1, <2>1, Zenon DEF Readers, ReaderFields
  <2>3. [r EXCEPT !.lt = (c = "<")] \in Readers
    BY <1>1, <1>3, Zenon DEF Readers, ReaderFields
  <2>. QED  BY <1>3, <2>2, <2>3, ReadRules, Zenon
<1>4. CASE r.mode = "lead" /\ c \in {"_", "{", "<"}
  <2>1. /\ [r EXCEPT !.mode = "json"] \in Readers
        /\ [r EXCEPT !.mode = "prose", !.lt = TRUE] \in Readers
    BY <1>1, Zenon DEF Readers, ReaderFields
  <2>. QED  BY <1>1, <1>4, <2>1, ReadRules, Zenon
<1>5. CASE r.mode = "lead" /\ c \notin {"_", "{", "<"}
  <2>1. [r EXCEPT !.mode = "prose"] \in ReaderFields /\ [r EXCEPT !.mode = "prose"].mode = "prose"
    BY <1>1 DEF ReaderFields
  <2>2. TT!Read(r, c) = TT!Text([r EXCEPT !.mode = "prose"], c)
    BY <1>5, ReadRules, Zenon
  <2>. QED  BY <2>1, <2>2, TextIsRead, Zenon DEF Readers
<1>6. CASE r.mode = "prose" /\ c \in {"t", "|", "s"}
  <2>1. /\ [r EXCEPT !.mode = "tool", !.lt = FALSE] \in Readers
        /\ [r EXCEPT !.mode = "lead", !.lt = FALSE] \in Readers
        /\ [r EXCEPT !.lt = FALSE] \in Readers
    BY <1>1, <1>6, Zenon DEF Readers, ReaderFields
  <2>2. TT!Text(r, c) \in Readers
    BY <1>1, <1>6, TextIsRead DEF Readers
  <2>3. ~r.lt => TT!Read(r, c) = TT!Text(r, c)
    <3>1. c # "<"
      BY <1>6
    <3>. QED  BY <1>6, <3>1, ReadRules, Zenon
  <2>4. r.lt => TT!Read(r, c) \in {[r EXCEPT !.mode = "tool", !.lt = FALSE],
                                   [r EXCEPT !.mode = "lead", !.lt = FALSE],
                                   [r EXCEPT !.lt = FALSE]}
    BY <1>6, ReadRules, Zenon
  <2>. QED  BY <2>1, <2>2, <2>3, <2>4, Zenon
<1>7. CASE r.mode = "prose" /\ c = "<"
  <2>1. [r EXCEPT !.mode = "prose", !.lt = TRUE] \in Readers
    BY <1>1, Zenon DEF Readers, ReaderFields
  <2>2. TT!Text(r, c) \in Readers
    BY <1>1, <1>7, TextIsRead DEF Readers
  <2>. QED  BY <1>1, <1>7, <2>1, <2>2, ReadRules, Zenon
<1>8. CASE r.mode = "prose" /\ c \notin {"t", "|", "s", "<"}
  <2>1. TT!Text(r, c) \in Readers
    BY <1>1, <1>8, TextIsRead DEF Readers
  <2>. DEFINE q == [r EXCEPT !.lt = FALSE]
  <2>2. q \in ReaderFields /\ q.mode = "prose"
    BY <1>1, <1>8, Zenon DEF ReaderFields
  <2>3. "<" \in TT!Chars
    BY Zenon DEF TT!Chars
  <2>. HIDE DEF q
  <2>4. TT!Text(q, "<") \in ReaderFields /\ TT!Text(q, "<").mode = "prose"
    BY <2>2, <2>3, TextIsRead
  <2>5. TT!Text(TT!Text(q, "<"), c) \in Readers
    BY <2>4, TextIsRead DEF Readers
  <2>6. \/ ~r.lt /\ TT!Read(r, c) = TT!Text(r, c)
        \/ r.lt /\ TT!Read(r, c) = TT!Text(TT!Text(q, "<"), c)
    BY <1>1, <1>8, ReadRules, Zenon DEF q
  <2>. QED  BY <2>1, <2>5, <2>6
<1>. QED  BY <1>1, <1>2, <1>3, <1>4, <1>5, <1>6, <1>7, <1>8, Zenon

\* A run of the reader over the characters s.
Runs(f, r, s) ==
    /\ f = [k \in 0 .. Len(s) |-> f[k]]
    /\ f[0] = r
    /\ \A k \in 1 .. Len(s) : f[k] = TT!Read(f[k - 1], s[k])

LEMMA RunsAgree ==
    ASSUME NEW r, NEW s \in Seq(TT!Chars), NEW f, NEW g, Runs(f, r, s), Runs(g, r, s)
    PROVE  f = g
<1>. DEFINE T == {k \in 0 .. Len(s) : f[k] = g[k]}
<1>1. Len(s) \in Nat
  OBVIOUS
<1>2. 0 \in T
  BY <1>1 DEF Runs
<1>3. ASSUME NEW k \in 0 .. Len(s) - 1, k \in T PROVE k + 1 \in T
  <2>1. k + 1 \in 1 .. Len(s) /\ (k + 1) - 1 = k
    BY <1>1
  <2>2. f[k + 1] = TT!Read(f[k], s[k + 1]) /\ g[k + 1] = TT!Read(g[k], s[k + 1])
    BY <2>1, Zenon DEF Runs
  <2>. QED  BY <1>1, <1>3, <2>1, <2>2
<1>4. \A k \in 0 .. Len(s) : k \in T
  <2>. HIDE DEF T
  <2>. QED  BY <1>1, <1>2, <1>3, UpTo, Zenon
<1>. QED  BY <1>4 DEF Runs

LEMMA RunsExist ==
    ASSUME NEW r \in Readers, NEW s \in Seq(TT!Chars)
    PROVE  \E f : Runs(f, r, s) /\ f \in [0 .. Len(s) -> Readers]
<1>. DEFINE Part(n, f) == /\ f \in [0 .. n -> Readers] /\ f[0] = r
                          /\ \A k \in 1 .. n : f[k] = TT!Read(f[k - 1], s[k])
            T == {n \in 0 .. Len(s) : \E f : Part(n, f)}
<1>1. Len(s) \in Nat
  OBVIOUS
<1>2. 0 \in T
  <2>1. Part(0, [k \in 0 .. 0 |-> r])
    OBVIOUS
  <2>2. 0 \in 0 .. Len(s)
    BY <1>1
  <2>. HIDE DEF Part
  <2>. QED  BY <2>1, <2>2
<1>3. ASSUME NEW n \in 0 .. Len(s) - 1, n \in T PROVE n + 1 \in T
  <2>1. PICK f : Part(n, f)
    BY <1>3
  <2>. DEFINE c == TT!Read(f[n], s[n + 1])
              g == [k \in 0 .. n + 1 |-> IF k = n + 1 THEN c ELSE f[k]]
  <2>2. n \in Nat /\ n + 1 \in 1 .. Len(s) /\ s[n + 1] \in TT!Chars
    BY <1>1
  <2>3. c \in Readers
    BY <2>1, <2>2, ReadIsRead
  <2>. HIDE DEF c
  <2>4. /\ g \in [0 .. n + 1 -> Readers] /\ g[0] = r
        /\ g[n + 1] = c /\ \A k \in 0 .. n : g[k] = f[k]
    BY <2>1, <2>2, <2>3
  <2>. HIDE DEF g
  <2>5. ASSUME NEW k \in 1 .. n + 1 PROVE g[k] = TT!Read(g[k - 1], s[k])
    <3>1. CASE k = n + 1
      <4>1. k - 1 = n /\ n \in 0 .. n
        BY <2>2, <3>1
      <4>. QED  BY <2>4, <3>1, <4>1 DEF c
    <3>2. CASE k \in 1 .. n
      <4>1. k \in 0 .. n /\ k - 1 \in 0 .. n
        BY <3>2
      <4>. QED  BY <2>1, <2>4, <3>2, <4>1
    <3>. QED  BY <2>2, <3>1, <3>2
  <2>6. Part(n + 1, g)
    BY <2>4, <2>5
  <2>7. n + 1 \in 0 .. Len(s)
    BY <1>1
  <2>. QED  BY <2>6, <2>7, Zenon
<1>4. Len(s) \in T
  <2>. HIDE DEF T
  <2>1. \A k \in 0 .. Len(s) : k \in T
    BY <1>1, <1>2, <1>3, UpTo, Zenon
  <2>. QED  BY <1>1, <2>1
<1>5. PICK f : Part(Len(s), f)
  BY <1>4
<1>6. Runs(f, r, s)
  BY <1>1, <1>5 DEF Runs
<1>. QED  BY <1>5, <1>6

\* Reading is the end of the one run there is.
LEMMA ReadingIsRun ==
    ASSUME NEW r \in Readers, NEW s \in Seq(TT!Chars)
    PROVE  /\ \A f : Runs(f, r, s) => TT!Reading(r, s) = f[Len(s)]
           /\ TT!Reading(r, s) \in Readers
<1>. DEFINE Body(f) == [k \in 0 .. Len(s) |-> IF k = 0 THEN r ELSE TT!Read(f[k - 1], s[k])]
            after    == CHOOSE f : f = Body(f)
<1>1. TT!Reading(r, s) = after[Len(s)]
  BY DEF TT!Reading
<1>2. Len(s) \in Nat
  OBVIOUS
<1>3. \A f : Runs(f, r, s) <=> f = Body(f)
  <2>1. ASSUME NEW f, Runs(f, r, s) PROVE f = Body(f)
    BY <1>2, <2>1 DEF Runs
  <2>2. ASSUME NEW f, f = Body(f) PROVE Runs(f, r, s)
    <3>1. \A k \in 0 .. Len(s) : f[k] = IF k = 0 THEN r ELSE TT!Read(f[k - 1], s[k])
      BY <2>2
    <3>2. f = [k \in 0 .. Len(s) |-> f[k]]
      BY <2>2
    <3>. QED  BY <1>2, <3>1, <3>2 DEF Runs
  <2>. QED  BY <2>1, <2>2
<1>4. PICK f : Runs(f, r, s) /\ f \in [0 .. Len(s) -> Readers]
  BY RunsExist
<1>5. Runs(after, r, s)
  <2>. HIDE DEF Body
  <2>. QED  BY <1>3, <1>4
<1>. HIDE DEF after
<1>6. after = f
  BY <1>4, <1>5, RunsAgree
<1>. QED  BY <1>1, <1>2, <1>4, <1>5, <1>6, RunsAgree

LEMMA ReadingNothing ==
    ASSUME NEW r \in Readers
    PROVE  TT!Reading(r, <<>>) = r
<1>. DEFINE f == [k \in 0 .. 0 |-> r]
<1>1. Runs(f, r, <<>>) /\ Len(<<>>) = 0 /\ <<>> \in Seq(TT!Chars) /\ f[0] = r
  BY DEF Runs
<1>. HIDE DEF f
<1>2. TT!Reading(r, <<>>) = f[Len(<<>>)]
  BY <1>1, ReadingIsRun, Zenon
<1>. QED  BY <1>1, <1>2

\* What is read in two pieces is read as one.
LEMMA ReadingOn ==
    ASSUME NEW r \in Readers, NEW s \in Seq(TT!Chars), NEW t \in Seq(TT!Chars)
    PROVE  TT!Reading(r, s \o t) = TT!Reading(TT!Reading(r, s), t)
<1>. DEFINE m == Len(s)
            n == Len(t)
            q == TT!Reading(r, s)
<1>1. m \in Nat /\ n \in Nat /\ s \o t \in Seq(TT!Chars) /\ Len(s \o t) = m + n
  OBVIOUS
<1>2. PICK f : Runs(f, r, s) /\ f \in [0 .. m -> Readers]
  BY RunsExist
<1>3. q = f[m] /\ q \in Readers
  BY <1>2, ReadingIsRun
<1>. HIDE DEF q
<1>4. PICK g : Runs(g, q, t) /\ g \in [0 .. n -> Readers]
  BY <1>3, RunsExist
<1>. DEFINE h == [k \in 0 .. m + n |-> IF k <= m THEN f[k] ELSE g[k - m]]
<1>5. /\ \A k \in 0 .. m : h[k] = f[k]
      /\ \A k \in 0 .. n : h[m + k] = g[k]
  <2>1. g[0] = f[m]
    BY <1>3, <1>4 DEF Runs
  <2>2. ASSUME NEW k \in 0 .. n PROVE h[m + k] = g[k]
    <3>1. CASE k = 0
      BY <1>1, <2>1, <3>1
    <3>2. CASE k # 0
      <4>1. m + k \in 0 .. m + n /\ ~(m + k <= m) /\ (m + k) - m = k
        BY <1>1, <3>2
      <4>. QED  BY <4>1
    <3>. QED  BY <3>1, <3>2
  <2>. QED  BY <1>1, <2>2
<1>6. ASSUME NEW k \in 1 .. m + n PROVE h[k] = TT!Read(h[k - 1], (s \o t)[k])
  <2>. HIDE DEF h
  <2>1. CASE k <= m
    <3>1. k \in 1 .. m /\ k \in 0 .. m /\ k - 1 \in 0 .. m /\ (s \o t)[k] = s[k]
      BY <1>1, <2>1
    <3>. QED  BY <1>2, <1>5, <3>1, Zenon DEF Runs
  <2>2. CASE k > m
    <3>. DEFINE j == k - m
    <3>1. j \in 1 .. n /\ j \in 0 .. n /\ j - 1 \in 0 .. n /\ m + j = k /\ m + (j - 1) = k - 1
      BY <1>1, <2>2
    <3>2. (s \o t)[k] = t[j]
      BY <1>1, <2>2
    <3>. HIDE DEF j
    <3>3. g[j] = TT!Read(g[j - 1], t[j])
      BY <1>4, <3>1, Zenon DEF Runs
    <3>4. h[k] = g[j] /\ h[k - 1] = g[j - 1]
      BY <1>5, <3>1
    <3>. QED  BY <3>2, <3>3, <3>4
  <2>. QED  BY <1>1, <2>1, <2>2
<1>7. h[0] = r /\ h = [k \in 0 .. m + n |-> h[k]] /\ h[m + n] = g[n]
  BY <1>1, <1>2, <1>5 DEF Runs
<1>. HIDE DEF h
<1>8. Runs(h, r, s \o t)
  BY <1>1, <1>6, <1>7, Zenon DEF Runs
<1>9. TT!Reading(r, s \o t) = h[m + n]
  <2>1. TT!Reading(r, s \o t) = h[Len(s \o t)]
    BY <1>1, <1>8, ReadingIsRun, Zenon
  <2>. QED  BY <1>1, <2>1
<1>10. TT!Reading(q, t) = g[n]
  BY <1>3, <1>4, ReadingIsRun
<1>. QED  BY <1>7, <1>9, <1>10 DEF q

LEMMA ReadingOne ==
    ASSUME NEW r \in Readers, NEW c \in TT!Chars
    PROVE  TT!Reading(r, <<c>>) = TT!Read(r, c)
<1>. DEFINE f == [k \in 0 .. 1 |-> IF k = 0 THEN r ELSE TT!Read(r, c)]
<1>1. <<c>> \in Seq(TT!Chars) /\ Len(<<c>>) = 1 /\ <<c>>[1] = c
  OBVIOUS
<1>2. f[0] = r /\ f[1] = TT!Read(r, c) /\ f = [k \in 0 .. 1 |-> f[k]]
  OBVIOUS
<1>. HIDE DEF f
<1>3. Runs(f, r, <<c>>)
  <2>1. \A k \in 1 .. 1 : k = 1 /\ k - 1 = 0
    OBVIOUS
  <2>. QED  BY <1>1, <1>2, <2>1 DEF Runs
<1>. QED  BY <1>1, <1>2, <1>3, ReadingIsRun

-----------------------------------------------------------------------------
(* What one turn of the loop does, and what the reader does meanwhile.     *)

\* A reader that goes on with its JSON, or over the blanks before an answer, stays as it is.
LEMMA ReadingStays ==
    ASSUME NEW r \in Readers, NEW s \in Seq(TT!Chars),
           \A i \in 1 .. Len(s) : TT!Read(r, s[i]) = r
    PROVE  TT!Reading(r, s) = r
<1>. DEFINE f == [k \in 0 .. Len(s) |-> r]
<1>1. Len(s) \in Nat
  OBVIOUS
<1>2. \A k \in 0 .. Len(s) : f[k] = r
  OBVIOUS
<1>3. f = [k \in 0 .. Len(s) |-> f[k]]
  OBVIOUS
<1>. HIDE DEF f
<1>4. \A k \in 1 .. Len(s) : k \in 0 .. Len(s) /\ k - 1 \in 0 .. Len(s)
  BY <1>1
<1>5. Runs(f, r, s)
  BY <1>1, <1>2, <1>3, <1>4 DEF Runs
<1>6. TT!Reading(r, s) = f[Len(s)]
  BY <1>5, ReadingIsRun
<1>. QED  BY <1>1, <1>2, <1>6

\* A sequence is what has been cut off and what is left.
LEMMA CutAt ==
    ASSUME NEW S, NEW q \in Seq(S), NEW n \in 0 .. Len(q)
    PROVE  /\ SubSeq(q, 1, n) \in Seq(S) /\ SubSeq(q, n + 1, Len(q)) \in Seq(S)
           /\ Len(SubSeq(q, 1, n)) = n /\ Len(SubSeq(q, n + 1, Len(q))) = Len(q) - n
           /\ \A i \in 1 .. n : SubSeq(q, 1, n)[i] = q[i]
           /\ \A i \in 1 .. Len(q) - n : SubSeq(q, n + 1, Len(q))[i] = q[n + i]
           /\ q = SubSeq(q, 1, n) \o SubSeq(q, n + 1, Len(q))
<1>. DEFINE a == SubSeq(q, 1, n)
            b == SubSeq(q, n + 1, Len(q))
<1>1. /\ b \in Seq(S) /\ Len(b) = Len(q) - n
      /\ \A i \in 1 .. Len(q) - n : b[i] = q[n + i]
  BY SuffixFacts
<1>2. /\ a \in Seq(S) /\ Len(a) = n /\ \A i \in 1 .. n : a[i] = q[i]
  OBVIOUS
<1>. HIDE DEF a, b
<1>3. a \o b \in Seq(S) /\ Len(a \o b) = Len(q) /\ Len(q) \in Nat
  <2>1. a \o b \in Seq(S) /\ Len(a \o b) = Len(a) + Len(b)
    BY <1>1, <1>2, ConcatProperties, Zenon
  <2>. QED  BY <1>1, <1>2, <2>1
<1>4. ASSUME NEW i \in 1 .. Len(q) PROVE (a \o b)[i] = q[i]
  <2>1. CASE i <= n
    BY <1>1, <1>2, <2>1
  <2>2. CASE i > n
    <3>1. (a \o b)[i] = b[i - n] /\ i - n \in 1 .. Len(q) - n /\ n + (i - n) = i
      BY <1>1, <1>2, <1>3, <2>2
    <3>. QED  BY <1>1, <3>1
  <2>. QED  BY <1>3, <2>1, <2>2
<1>5. q = a \o b
  BY <1>3, <1>4, SeqEqual, Zenon
<1>. QED  BY <1>1, <1>2, <1>5, Zenon DEF a, b

\* A set of numbers ends somewhere, from the front and from the back.
LEMMA Borders ==
    ASSUME NEW n \in Nat, NEW T
    PROVE  /\ \E m \in 0 .. n : (\A i \in 1 .. m : i \in T) /\ (m < n => m + 1 \notin T)
           /\ \E m \in 0 .. n : (\A i \in m + 1 .. n : i \in T) /\ (m > 0 => m \notin T)
<1>1. \E m \in 0 .. n : (\A i \in 1 .. m : i \in T) /\ (m < n => m + 1 \notin T)
  <2>. DEFINE B == {m \in 0 .. n : m < n => m + 1 \notin T}
              m == Min(B)
  <2>1. n \in B
    OBVIOUS
  <2>2. m \in B /\ \A y \in B : m <= y
    BY <2>1, MinOfNaturals
  <2>. HIDE DEF m
  <2>3. ASSUME NEW i \in 1 .. m PROVE i \in T
    <3>1. i - 1 \in 0 .. n /\ i - 1 \notin B /\ i - 1 < n /\ (i - 1) + 1 = i
      BY <2>2
    <3>. QED  BY <3>1
  <2>. QED  BY <2>2, <2>3
<1>2. \E m \in 0 .. n : (\A i \in m + 1 .. n : i \in T) /\ (m > 0 => m \notin T)
  <2>. DEFINE B == {m \in 0 .. n : \A i \in m + 1 .. n : i \in T}
              m == Min(B)
  <2>1. n \in B
    OBVIOUS
  <2>2. m \in B /\ \A y \in B : m <= y
    BY <2>1, MinOfNaturals
  <2>. HIDE DEF m
  <2>3. ASSUME m > 0, m \in T PROVE FALSE
    <3>1. m - 1 \in 0 .. n /\ m - 1 \notin B
      BY <2>2, <2>3
    <3>2. \A i \in (m - 1) + 1 .. n : i = m \/ i \in m + 1 .. n
      BY <2>2
    <3>. QED  BY <2>2, <2>3, <3>1, <3>2
  <2>. QED  BY <2>2, <2>3
<1>. QED  BY <1>1, <1>2

Blank == "_"

\* Leading and trailing blanks.
LEMMA BlankFacts ==
    ASSUME NEW s \in Seq(TT!Chars)
    PROVE  /\ TT!Blanks(s) \in 0 .. Len(s)
           /\ \A i \in 1 .. TT!Blanks(s) : s[i] = Blank
           /\ TT!Blanks(s) < Len(s) => s[TT!Blanks(s) + 1] # Blank
           /\ TT!Solid(s) \in 0 .. Len(s)
           /\ \A i \in TT!Solid(s) + 1 .. Len(s) : s[i] = Blank
           /\ TT!Solid(s) > 0 => s[TT!Solid(s)] # Blank
<1>. DEFINE T == {i \in 1 .. Len(s) : s[i] = "_"}
            First(n) == (\A i \in 1 .. n : s[i] = "_") /\ (n < Len(s) => s[n + 1] # "_")
            Last2(n) == (\A i \in n + 1 .. Len(s) : s[i] = "_") /\ (n > 0 => s[n] # "_")
<1>1. Len(s) \in Nat
  OBVIOUS
<1>2. \E n \in 0 .. Len(s) : First(n)
  <2>1. PICK n \in 0 .. Len(s) : (\A i \in 1 .. n : i \in T) /\ (n < Len(s) => n + 1 \notin T)
    BY <1>1, Borders, Zenon
  <2>2. \A i \in 1 .. n : s[i] = "_"
    BY <2>1, Zenon
  <2>3. ASSUME n < Len(s) PROVE s[n + 1] # "_"
    <3>1. n + 1 \in 1 .. Len(s)
      BY <1>1, <2>3
    <3>. QED  BY <2>1, <2>3, <3>1, Zenon
  <2>. QED  BY <2>2, <2>3, Zenon
<1>3. \E n \in 0 .. Len(s) : Last2(n)
  <2>1. PICK n \in 0 .. Len(s) : (\A i \in n + 1 .. Len(s) : i \in T) /\ (n > 0 => n \notin T)
    BY <1>1, Borders, Zenon
  <2>2. \A i \in n + 1 .. Len(s) : s[i] = "_"
    BY <2>1, Zenon
  <2>3. ASSUME n > 0 PROVE s[n] # "_"
    <3>1. n \in 1 .. Len(s)
      BY <1>1, <2>3
    <3>. QED  BY <2>1, <2>3, <3>1, Zenon
  <2>. QED  BY <2>2, <2>3, Zenon
<1>4. /\ TT!Blanks(s) = CHOOSE n \in 0 .. Len(s) : First(n)
      /\ TT!Solid(s) = CHOOSE n \in 0 .. Len(s) : Last2(n)
  BY DEF TT!Blanks, TT!Solid
<1>. HIDE DEF First, Last2
<1>5. TT!Blanks(s) \in 0 .. Len(s) /\ First(TT!Blanks(s))
  BY <1>2, <1>4
<1>6. TT!Solid(s) \in 0 .. Len(s) /\ Last2(TT!Solid(s))
  BY <1>3, <1>4
<1>. QED  BY <1>5, <1>6, Zenon DEF First, Last2, Blank

LEMMA BlanksOf ==
    ASSUME NEW s \in Seq(TT!Chars), NEW n \in 0 .. Len(s)
    PROVE  /\ (\A i \in 1 .. n : s[i] = Blank) /\ (n < Len(s) => s[n + 1] # Blank)
                => TT!Blanks(s) = n
           /\ (\A i \in n + 1 .. Len(s) : s[i] = Blank) /\ (n > 0 => s[n] # Blank)
                => TT!Solid(s) = n
<1>. DEFINE b == TT!Blanks(s)
            l == TT!Solid(s)
<1>1. /\ b \in 0 .. Len(s) /\ (\A i \in 1 .. b : s[i] = Blank) /\ (b < Len(s) => s[b + 1] # Blank)
      /\ l \in 0 .. Len(s) /\ (\A i \in l + 1 .. Len(s) : s[i] = Blank) /\ (l > 0 => s[l] # Blank)
      /\ Len(s) \in Nat
  BY BlankFacts
<1>. HIDE DEF b, l
<1>2. ASSUME \A i \in 1 .. n : s[i] = Blank, n < Len(s) => s[n + 1] # Blank PROVE b = n
  <2>1. ASSUME b < n PROVE FALSE
    <3>1. b + 1 \in 1 .. n /\ b < Len(s)
      BY <1>1, <2>1
    <3>. QED  BY <1>1, <1>2, <3>1
  <2>2. ASSUME n < b PROVE FALSE
    <3>1. n + 1 \in 1 .. b /\ n < Len(s)
      BY <1>1, <2>2
    <3>. QED  BY <1>1, <1>2, <3>1
  <2>. QED  BY <1>1, <2>1, <2>2
<1>3. ASSUME \A i \in n + 1 .. Len(s) : s[i] = Blank, n > 0 => s[n] # Blank PROVE l = n
  <2>1. ASSUME l < n PROVE FALSE
    <3>1. n \in l + 1 .. Len(s) /\ n > 0
      BY <1>1, <2>1
    <3>. QED  BY <1>1, <1>3, <3>1
  <2>2. ASSUME n < l PROVE FALSE
    <3>1. l \in n + 1 .. Len(s) /\ l > 0
      BY <1>1, <2>2
    <3>. QED  BY <1>1, <1>3, <3>1
  <2>. QED  BY <1>1, <2>1, <2>2
<1>. QED  BY <1>2, <1>3 DEF b, l

Behind(s) == SubSeq(s, Len(TT!Ready(s)) + 1, Len(s))

\* A text is its part up to the last character that shows, and blanks.
LEMMA ReadyFacts ==
    ASSUME NEW s \in Seq(TT!Chars)
    PROVE  /\ TT!Ready(s) \in Seq(TT!Chars) /\ Len(TT!Ready(s)) = TT!Solid(s)
           /\ Behind(s) \in Seq(TT!Chars) /\ Behind(s) \in Seq({Blank})
           /\ Len(Behind(s)) = Len(s) - TT!Solid(s)
           /\ s = TT!Ready(s) \o Behind(s)
<1>. DEFINE l == TT!Solid(s)
<1>1. l \in 0 .. Len(s) /\ (\A i \in l + 1 .. Len(s) : s[i] = Blank) /\ Len(s) \in Nat
  BY BlankFacts
<1>. HIDE DEF l
<1>2. TT!Ready(s) = SubSeq(s, 1, l)
  BY DEF TT!Ready, l
<1>3. /\ TT!Ready(s) \in Seq(TT!Chars) /\ Len(TT!Ready(s)) = l
      /\ SubSeq(s, l + 1, Len(s)) \in Seq(TT!Chars)
      /\ Len(SubSeq(s, l + 1, Len(s))) = Len(s) - l
      /\ \A i \in 1 .. Len(s) - l : SubSeq(s, l + 1, Len(s))[i] = s[l + i]
      /\ s = TT!Ready(s) \o SubSeq(s, l + 1, Len(s))
  <2>. DEFINE a == SubSeq(s, 1, l)
              d == SubSeq(s, l + 1, Len(s))
  <2>1. /\ a \in Seq(TT!Chars) /\ Len(a) = l
        /\ d \in Seq(TT!Chars) /\ Len(d) = Len(s) - l
        /\ \A i \in 1 .. Len(s) - l : d[i] = s[l + i]
        /\ s = a \o d
    BY <1>1, CutAt, Zenon
  <2>. HIDE DEF d
  <2>2. TT!Ready(s) = a
    BY <1>2
  <2>. HIDE DEF a
  <2>. QED  BY <2>1, <2>2, Zenon DEF d
<1>4. Behind(s) = SubSeq(s, l + 1, Len(s))
  BY <1>3 DEF Behind
<1>5. Behind(s) \in Seq({Blank})
  <2>. DEFINE q == Behind(s)
  <2>1. ASSUME NEW i \in 1 .. Len(s) - l PROVE q[i] = Blank
    <3>1. l + i \in l + 1 .. Len(s)
      BY <1>1
    <3>. QED  BY <1>1, <1>3, <1>4, <3>1
  <2>2. q = [i \in 1 .. Len(s) - l |-> q[i]] /\ Len(s) - l \in Nat
    <3>1. q \in Seq(TT!Chars) /\ Len(q) = Len(s) - l
      BY <1>3, <1>4
    <3>. HIDE DEF q
    <3>2. Len(s) - l \in Nat
      BY <1>1
    <3>. QED  BY <3>1, <3>2, LenProperties
  <2>. HIDE DEF q
  <2>3. [i \in 1 .. Len(s) - l |-> q[i]] \in Seq({Blank})
    BY <2>1, <2>2
  <2>. QED  BY <2>2, <2>3, Zenon DEF q
<1>. QED  BY <1>1, <1>3, <1>4, <1>5, Zenon DEF l

\* Another character: a blank waits, and any other character shows what waited.
LEMMA ReadyAppend ==
    ASSUME NEW s \in Seq(TT!Chars), NEW c \in TT!Chars
    PROVE  LET t == Append(s, c)
           IN  /\ c = Blank => TT!Ready(t) = TT!Ready(s) /\ Behind(t) = Append(Behind(s), Blank)
               /\ c # Blank => TT!Ready(t) = t /\ Behind(t) = <<>>
<1>. DEFINE t == Append(s, c)
            n == Len(s)
            l == TT!Solid(s)
<1>1. /\ t \in Seq(TT!Chars) /\ Len(t) = n + 1 /\ n \in Nat
      /\ t[n + 1] = c /\ \A i \in 1 .. n : t[i] = s[i]
  OBVIOUS
<1>2. l \in 0 .. n /\ (\A i \in l + 1 .. n : s[i] = Blank) /\ (l > 0 => s[l] # Blank)
  BY BlankFacts
<1>. HIDE DEF t, l
<1>3. CASE c = Blank
  <2>1. \A i \in l + 1 .. Len(t) : t[i] = Blank
    <3> SUFFICES ASSUME NEW i \in l + 1 .. n + 1 PROVE t[i] = Blank
      BY <1>1
    <3>1. CASE i = n + 1
      BY <1>1, <1>3, <3>1
    <3>2. CASE i # n + 1
      <4>1. i \in 1 .. n /\ i \in l + 1 .. n
        BY <1>1, <1>2, <3>2
      <4>. QED  BY <1>1, <1>2, <4>1
    <3>. QED  BY <3>1, <3>2
  <2>2. l > 0 => t[l] # Blank
    BY <1>1, <1>2
  <2>3. l \in 0 .. Len(t)
    BY <1>1, <1>2
  <2>4. TT!Solid(t) = l
    BY <1>1, <2>1, <2>2, <2>3, BlanksOf
  <2>5. /\ TT!Ready(t) = SubSeq(t, 1, l) /\ TT!Ready(s) = SubSeq(s, 1, l)
        /\ Behind(t) = SubSeq(t, l + 1, n + 1) /\ Behind(s) = SubSeq(s, l + 1, n)
    <3>1. Len(TT!Ready(t)) = l /\ Len(TT!Ready(s)) = l
      BY <1>1, <2>4, ReadyFacts DEF l
    <3>. QED  BY <1>1, <2>4, <3>1, Zenon DEF TT!Ready, Behind, l
  <2>6. SubSeq(t, 1, l) = SubSeq(s, 1, l)
    <3>1. /\ SubSeq(t, 1, l) \in Seq(TT!Chars) /\ Len(SubSeq(t, 1, l)) = l
          /\ \A i \in 1 .. l : SubSeq(t, 1, l)[i] = t[i]
      BY <1>1, <2>3, CutAt
    <3>2. /\ SubSeq(s, 1, l) \in Seq(TT!Chars) /\ Len(SubSeq(s, 1, l)) = l
          /\ \A i \in 1 .. l : SubSeq(s, 1, l)[i] = s[i]
      BY <1>2, CutAt
    <3>3. \A i \in 1 .. l : t[i] = s[i]
      BY <1>1, <1>2
    <3>. QED  BY <3>1, <3>2, <3>3, SeqEqual
  <2>7. Behind(t) = Append(Behind(s), Blank)
    <3>. DEFINE p == Behind(t)
                q == Append(Behind(s), Blank)
    <3>1. p \in Seq(TT!Chars) /\ Len(p) = n + 1 - l /\ \A i \in 1 .. n + 1 - l : p[i] = t[l + i]
      BY <1>1, <2>3, <2>5, CutAt
    <3>2. /\ Behind(s) \in Seq(TT!Chars) /\ Len(Behind(s)) = n - l
          /\ \A i \in 1 .. n - l : Behind(s)[i] = s[l + i]
      BY <1>2, <2>5, CutAt
    <3>3. /\ q \in Seq(TT!Chars) /\ Len(q) = n - l + 1 /\ q[n - l + 1] = Blank
          /\ \A i \in 1 .. n - l : q[i] = s[l + i]
      BY <1>3, <3>2, AppendProperties
    <3>. HIDE DEF p, q
    <3>4. ASSUME NEW i \in 1 .. n + 1 - l PROVE p[i] = q[i]
      <4>1. CASE i = n + 1 - l
        BY <1>1, <1>2, <1>3, <3>1, <3>3, <4>1
      <4>2. CASE i # n + 1 - l
        <5>1. i \in 1 .. n - l /\ l + i \in 1 .. n
          BY <1>1, <1>2, <4>2
        <5>. QED  BY <1>1, <3>1, <3>3, <5>1
      <4>. QED  BY <4>1, <4>2
    <3>5. Len(p) = Len(q)
      BY <1>1, <1>2, <3>1, <3>3
    <3>6. p = q
      BY <3>1, <3>3, <3>4, <3>5, SeqEqual
    <3>. QED  BY <3>6 DEF p, q
  <2>. QED  BY <1>3, <2>5, <2>6, <2>7, Zenon DEF t
<1>4. CASE c # Blank
  <2>1. TT!Solid(t) = n + 1
    <3>1. n + 1 \in 0 .. Len(t) /\ t[n + 1] # Blank /\ \A i \in n + 1 + 1 .. Len(t) : t[i] = Blank
      BY <1>1, <1>4
    <3>. QED  BY <1>1, <3>1, BlanksOf
  <2>2. Len(Behind(t)) = 0 /\ Behind(t) \in Seq(TT!Chars) /\ TT!Ready(t) \in Seq(TT!Chars)
        /\ t = TT!Ready(t) \o Behind(t)
    <3>1. /\ Len(Behind(t)) = Len(t) - TT!Solid(t)
          /\ Behind(t) \in Seq(TT!Chars) /\ TT!Ready(t) \in Seq(TT!Chars)
          /\ t = TT!Ready(t) \o Behind(t)
      BY <1>1, ReadyFacts, Zenon
    <3>2. Len(t) - TT!Solid(t) = 0
      BY <1>1, <2>1
    <3>. QED  BY <3>1, <3>2
  <2>3. Behind(t) = <<>>
    BY <2>2
  <2>4. TT!Ready(t) = t
    BY <2>2, <2>3
  <2>. QED  BY <1>4, <2>3, <2>4 DEF t
<1>. QED  BY <1>3, <1>4 DEF t

\* Leading blanks are dropped for good when a character follows that is not blank.
LEMMA LeadAppend ==
    ASSUME NEW s \in Seq(TT!Chars), NEW c \in TT!Chars
    PROVE  /\ TT!WithoutLead(s) \in Seq(TT!Chars)
           /\ TT!WithoutLead(s) # <<>> => TT!WithoutLead(s)[1] # Blank
           /\ TT!WithoutLead(Append(s, c)) =
                IF TT!WithoutLead(s) # <<>> THEN Append(TT!WithoutLead(s), c)
                ELSE IF c = Blank THEN <<>> ELSE <<c>>
<1>. DEFINE t == Append(s, c)
            n == Len(s)
            b == TT!Blanks(s)
            u == TT!WithoutLead(s)
<1>1. /\ t \in Seq(TT!Chars) /\ Len(t) = n + 1 /\ n \in Nat
      /\ t[n + 1] = c /\ \A i \in 1 .. n : t[i] = s[i]
  OBVIOUS
<1>2. b \in 0 .. n /\ (\A i \in 1 .. b : s[i] = Blank) /\ (b < n => s[b + 1] # Blank)
  BY BlankFacts
<1>3. u = SubSeq(s, b + 1, n) /\ TT!WithoutLead(t) = SubSeq(t, TT!Blanks(t) + 1, n + 1)
  BY <1>1 DEF TT!WithoutLead
<1>. HIDE DEF t, b, u
<1>4. u \in Seq(TT!Chars) /\ Len(u) = n - b /\ \A i \in 1 .. n - b : u[i] = s[b + i]
  BY <1>2, <1>3, CutAt
<1>5. u # <<>> => b < n /\ u[1] # Blank
  <2> SUFFICES ASSUME u # <<>> PROVE b < n /\ u[1] # Blank
    OBVIOUS
  <2>1. Len(u) # 0
    BY <1>4
  <2>2. b < n /\ 1 \in 1 .. n - b
    BY <1>1, <1>2, <1>4, <2>1
  <2>. QED  BY <1>2, <1>4, <2>2
<1>6. CASE u # <<>>
  <2>1. TT!Blanks(t) = b
    <3>1. b \in 0 .. Len(t) /\ b + 1 \in 1 .. n /\ \A i \in 1 .. b : i \in 1 .. n
      BY <1>1, <1>2, <1>5, <1>6
    <3>. QED  BY <1>1, <1>2, <1>5, <1>6, <3>1, BlanksOf, Zenon
  <2>. DEFINE p == SubSeq(t, b + 1, n + 1)
              q == Append(u, c)
  <2>2. p \in Seq(TT!Chars) /\ Len(p) = n + 1 - b /\ \A i \in 1 .. n + 1 - b : p[i] = t[b + i]
    <3>1. b \in 0 .. Len(t)
      BY <1>1, <1>2
    <3>. QED  BY <1>1, <3>1, CutAt
  <2>3. /\ q \in Seq(TT!Chars) /\ Len(q) = n - b + 1 /\ q[n - b + 1] = c
        /\ \A i \in 1 .. n - b : q[i] = s[b + i]
    BY <1>4, AppendProperties
  <2>. HIDE DEF p, q
  <2>4. ASSUME NEW i \in 1 .. n + 1 - b PROVE p[i] = q[i]
    <3>1. CASE i = n + 1 - b
      BY <1>1, <1>2, <2>2, <2>3, <3>1
    <3>2. CASE i # n + 1 - b
      <4>1. i \in 1 .. n - b /\ b + i \in 1 .. n
        BY <1>1, <1>2, <3>2
      <4>. QED  BY <1>1, <2>2, <2>3, <4>1
    <3>. QED  BY <3>1, <3>2
  <2>5. Len(p) = Len(q)
    BY <1>1, <1>2, <2>2, <2>3
  <2>6. p = q
    BY <2>2, <2>3, <2>4, <2>5, SeqEqual
  <2>. QED  BY <1>3, <1>4, <1>5, <1>6, <2>1, <2>6, Zenon DEF p, q, t, u
<1>7. CASE u = <<>>
  <2>1. b = n
    BY <1>1, <1>2, <1>4, <1>7
  <2>2. CASE c = Blank
    <3>1. TT!Blanks(t) = n + 1
      <4>1. ASSUME NEW i \in 1 .. n + 1 PROVE t[i] = Blank
        <5>1. i = n + 1 \/ i \in 1 .. n
          BY <1>1
        <5>. QED  BY <1>1, <1>2, <2>1, <2>2, <5>1
      <4>2. n + 1 \in 0 .. Len(t) /\ ~(n + 1 < Len(t))
        BY <1>1
      <4>. QED  BY <1>1, <4>1, <4>2, BlanksOf
    <3>2. SubSeq(t, n + 1 + 1, n + 1) = <<>>
      BY <1>1
    <3>. QED  BY <1>3, <1>4, <1>7, <2>2, <3>1, <3>2 DEF t, u
  <2>3. CASE c # Blank
    <3>1. TT!Blanks(t) = n
      <4>1. n \in 0 .. Len(t) /\ \A i \in 1 .. n : t[i] = Blank
        BY <1>1, <1>2, <2>1
      <4>. QED  BY <1>1, <2>3, <4>1, BlanksOf, Zenon
    <3>. DEFINE p == SubSeq(t, n + 1, n + 1)
    <3>2. p \in Seq(TT!Chars) /\ Len(p) = 1 /\ p[1] = c
      BY <1>1
    <3>3. p = <<c>>
      <4>. HIDE DEF p
      <4>. QED  BY <3>2
    <3>. QED  BY <1>3, <1>4, <1>7, <2>3, <3>1, <3>3 DEF t, u
  <2>. QED  BY <2>2, <2>3
<1>. QED  BY <1>6, <1>7

\* _prose: what is passed on of a text, and what waits, after all of the characters s.
Shows(sent, s) == IF sent THEN s ELSE TT!WithoutLead(s)
Told(v, sent, s) ==
    [v EXCEPT !.out = @ \o TT!Ready(Shows(sent, s)), !.gap = Behind(Shows(sent, s))]

LEMMA ShowsFacts ==
    ASSUME NEW sent \in BOOLEAN, NEW s \in Seq(TT!Chars), NEW c \in TT!Chars
    PROVE  LET u == Shows(sent, s)
               w == Shows(sent, Append(s, c))
           IN  /\ u \in Seq(TT!Chars)
               /\ ~sent /\ TT!Ready(u) = <<>> => u = <<>>
               /\ w = IF ~sent /\ u = <<>> /\ c = Blank THEN <<>> ELSE Append(u, c)
<1>. DEFINE u == Shows(sent, s)
            w == Shows(sent, Append(s, c))
<1>. DEFINE Goal == /\ u \in Seq(TT!Chars)
                    /\ ~sent /\ TT!Ready(u) = <<>> => u = <<>>
                    /\ w = IF ~sent /\ u = <<>> /\ c = Blank THEN <<>> ELSE Append(u, c)
<1>1. ASSUME sent PROVE Goal
  BY <1>1 DEF Shows
<1>2. ASSUME ~sent PROVE Goal
  <2>1. u = TT!WithoutLead(s) /\ w = TT!WithoutLead(Append(s, c))
    BY <1>2 DEF Shows
  <2>2. /\ u \in Seq(TT!Chars) /\ (u # <<>> => u[1] # Blank)
        /\ w = IF u # <<>> THEN Append(u, c) ELSE IF c = Blank THEN <<>> ELSE <<c>>
    BY <2>1, LeadAppend
  <2>. HIDE DEF u, w
  <2>3. <<c>> = Append(<<>>, c)
    OBVIOUS
  <2>4. TT!Ready(u) = <<>> => u = <<>>
    <3> SUFFICES ASSUME TT!Ready(u) = <<>>, u # <<>> PROVE FALSE
      OBVIOUS
    <3>1. Len(TT!Ready(u)) = 0 /\ Len(u) # 0 /\ Len(u) \in Nat
      BY <2>2
    <3>2. TT!Solid(u) = 0
      BY <2>2, <3>1, ReadyFacts
    <3>3. 1 \in 0 + 1 .. Len(u)
      BY <3>1
    <3>4. u[1] = Blank
      BY <2>2, <3>2, <3>3, BlankFacts
    <3>. QED  BY <2>2, <3>4
  <2>. QED  BY <1>2, <2>2, <2>3, <2>4, Zenon
<1>3. Goal
  <2>. HIDE DEF Goal
  <2>. QED  BY <1>1, <1>2
<1>. QED  BY <1>3

LEMMA SetTwice ==
    ASSUME NEW v \in ReaderFields, NEW o, NEW g, NEW o2, NEW g2
    PROVE  LET r == [v EXCEPT !.out = o, !.gap = g]
           IN  /\ [r EXCEPT !.gap = g2] = [v EXCEPT !.out = o, !.gap = g2]
               /\ [r EXCEPT !.out = o2, !.gap = g2] = [v EXCEPT !.out = o2, !.gap = g2]
BY Zenon DEF ReaderFields

\* The reader of single characters does the same.
LEMMA ToldNext ==
    ASSUME NEW v \in ReaderFields, NEW s \in Seq(TT!Chars), NEW c \in TT!Chars
    PROVE  /\ Told(v, TT!Shown(v), s) \in ReaderFields
           /\ Told(v, TT!Shown(v), s).mode = v.mode /\ Told(v, TT!Shown(v), s).lt = v.lt
           /\ TT!Shown(Told(v, TT!Shown(v), s)) <=>
                 TT!Shown(v) \/ TT!Ready(Shows(TT!Shown(v), s)) # <<>>
           /\ TT!Text(Told(v, TT!Shown(v), s), c) = Told(v, TT!Shown(v), Append(s, c))
<1>. DEFINE sent == TT!Shown(v)
            u == Shows(sent, s)
            w == Shows(sent, Append(s, c))
            r == Told(v, sent, s)
            All == TT!Chars \cup {"call"}
<1>0. sent \in BOOLEAN
  BY DEF TT!Shown
<1>. HIDE DEF sent
<1>1. /\ u \in Seq(TT!Chars)
      /\ ~sent /\ TT!Ready(u) = <<>> => u = <<>>
      /\ w = IF ~sent /\ u = <<>> /\ c = Blank THEN <<>> ELSE Append(u, c)
  BY <1>0, ShowsFacts
<1>2. r = [v EXCEPT !.out = @ \o TT!Ready(u), !.gap = Behind(u)]
  BY DEF Told
<1>3. Told(v, sent, Append(s, c)) = [v EXCEPT !.out = @ \o TT!Ready(w), !.gap = Behind(w)]
  BY DEF Told
<1>. HIDE DEF u, w, r
<1>4. /\ TT!Ready(u) \in Seq(TT!Chars) /\ TT!Ready(u) \in Seq(All)
      /\ Behind(u) \in Seq(TT!Chars) /\ Behind(u) \in Seq(All)
      /\ u = TT!Ready(u) \o Behind(u)
      /\ v.out \in Seq(All)
  <2>1. TT!Ready(u) \in Seq(TT!Chars) /\ Behind(u) \in Seq(TT!Chars) /\ u = TT!Ready(u) \o Behind(u)
    BY <1>1, ReadyFacts, Zenon
  <2>2. TT!Chars \subseteq All
    OBVIOUS
  <2>. QED  BY <2>1, <2>2 DEF ReaderFields
<1>5. /\ v.out \o TT!Ready(u) \in Seq(All)
      /\ r \in ReaderFields /\ r.out = v.out \o TT!Ready(u) /\ r.gap = Behind(u)
  <2>1. v.out \o TT!Ready(u) \in Seq(All)
    BY <1>4
  <2>. QED  BY <1>2, <1>4, <2>1, Zenon DEF ReaderFields
<1>6. TT!Shown(r) <=> sent \/ TT!Ready(u) # <<>>
  <2>. DEFINE a == v.out
              b == TT!Ready(u)
  <2>1. a \in Seq(All) /\ b \in Seq(TT!Chars) /\ b \in Seq(All) /\ r.out = a \o b
    BY <1>4, <1>5
  <2>2. sent <=> \E i \in 1 .. Len(a) : a[i] # "call"
    <3>1. DOMAIN a = 1 .. Len(a)
      BY <2>1
    <3>. QED  BY <3>1 DEF sent, TT!Shown
  <2>. HIDE DEF a, b
  <2>3. /\ Len(a) \in Nat /\ Len(b) \in Nat /\ DOMAIN (a \o b) = 1 .. Len(a) + Len(b)
        /\ \A i \in 1 .. Len(a) : (a \o b)[i] = a[i]
        /\ \A i \in 1 .. Len(b) : (a \o b)[Len(a) + i] = b[i]
    BY <2>1
  <2>4. "call" \notin TT!Chars
    BY Zenon DEF TT!Chars
  <2>5. b # <<>> => 1 \in 1 .. Len(b)
    BY <2>1
  <2>6. \A i \in 1 .. Len(b) : b[i] \in TT!Chars
    BY <2>1
  <2>7. ASSUME sent PROVE TT!Shown(r)
    <3>1. PICK i \in 1 .. Len(a) : a[i] # "call"
      BY <2>2, <2>7
    <3>2. i \in 1 .. Len(a) + Len(b)
      BY <2>3
    <3>. QED  BY <2>1, <2>3, <3>1, <3>2 DEF TT!Shown
  <2>8. ASSUME b # <<>> PROVE TT!Shown(r)
    <3>1. 1 \in 1 .. Len(b) /\ Len(a) + 1 \in 1 .. Len(a) + Len(b)
      BY <2>3, <2>5, <2>8
    <3>2. (a \o b)[Len(a) + 1] # "call"
      BY <2>3, <2>4, <2>6, <3>1
    <3>. QED  BY <2>1, <2>3, <3>1, <3>2 DEF TT!Shown
  <2>9. ASSUME TT!Shown(r), b = <<>> PROVE sent
    <3>1. Len(b) = 0 /\ a \o b = a
      BY <2>1, <2>9
    <3>2. PICK i \in DOMAIN a : a[i] # "call"
      BY <2>1, <2>9, <3>1 DEF TT!Shown
    <3>3. DOMAIN a = 1 .. Len(a)
      BY <2>1
    <3>. QED  BY <2>2, <3>2, <3>3
  <2>. QED  BY <2>7, <2>8, <2>9 DEF b
<1>7. ASSUME ~sent /\ u = <<>> /\ c = Blank
      PROVE  TT!Text(r, c) = Told(v, sent, Append(s, c))
  <2>1. w = u
    BY <1>1, <1>7
  <2>2. ~TT!Shown(r)
    <3>1. TT!Ready(u) = <<>>
      <4>. DEFINE a == TT!Ready(u)
                  b == Behind(u)
      <4>1. a \in Seq(TT!Chars) /\ b \in Seq(TT!Chars) /\ a \o b = <<>>
        BY <1>4, <1>7, Zenon
      <4>. HIDE DEF a, b
      <4>2. a = <<>>
        BY <4>1
      <4>. QED  BY <4>2 DEF a
    <3>. QED  BY <1>6, <1>7, <3>1
  <2>3. TT!Text(r, c) = [r EXCEPT !.gap = r.gap]
    BY <1>7, <2>2, Zenon DEF TT!Text, Blank
  <2>4. TT!Text(r, c) = r
    BY <1>5, <2>3 DEF ReaderFields
  <2>. QED  BY <1>2, <1>3, <2>1, <2>4
<1>8. ASSUME c = Blank /\ (sent \/ u # <<>>)
      PROVE  TT!Text(r, c) = Told(v, sent, Append(s, c))
  <2>1. TT!Ready(w) = TT!Ready(u) /\ Behind(w) = Append(Behind(u), Blank)
    BY <1>1, <1>8, ReadyAppend
  <2>2. TT!Shown(r)
    BY <1>1, <1>6, <1>8
  <2>3. TT!Text(r, c) = [r EXCEPT !.gap = Append(r.gap, Blank)]
    BY <1>8, <2>2, Zenon DEF TT!Text, Blank
  <2>4. [r EXCEPT !.gap = Append(Behind(u), Blank)]
           = [v EXCEPT !.out = v.out \o TT!Ready(u), !.gap = Append(Behind(u), Blank)]
    BY <1>2, SetTwice, Zenon
  <2>. QED  BY <1>3, <1>5, <2>1, <2>3, <2>4
<1>9. ASSUME c # Blank
      PROVE  TT!Text(r, c) = Told(v, sent, Append(s, c))
  <2>1. w = Append(u, c) /\ TT!Ready(w) = Append(u, c) /\ Behind(w) = <<>>
    BY <1>1, <1>9, ReadyAppend
  <2>2. TT!Text(r, c) = [r EXCEPT !.out = r.out \o (r.gap \o <<c>>), !.gap = <<>>]
    BY <1>9, Zenon DEF TT!Text, Blank
  <2>3. r.out \o (r.gap \o <<c>>) = v.out \o Append(u, c)
    <3>. DEFINE a == v.out
                b == TT!Ready(u)
                d == Behind(u)
    <3>1. a \in Seq(All) /\ b \in Seq(All) /\ d \in Seq(All) /\ c \in All
      BY <1>4
    <3>3. u = b \o d /\ r.out = a \o b /\ r.gap = d
      BY <1>4, <1>5
    <3>. HIDE DEF a, b, d
    <3>2. (a \o b) \o (d \o <<c>>) = a \o Append(b \o d, c)
      <4>. DEFINE e == d \o <<c>>
                  f == b \o d
      <4>. HIDE DEF All
      <4>1. <<c>> \in Seq(All) /\ e \in Seq(All) /\ f \in Seq(All)
        BY <3>1
      <4>2. f \o <<c>> = b \o e
        BY <3>1, <4>1, ConcatAssociative
      <4>. HIDE DEF e, f
      <4>3. (a \o b) \o e = a \o (b \o e)
        BY <3>1, <4>1, ConcatAssociative
      <4>4. Append(f, c) = f \o <<c>>
        BY <3>1, <4>1, AppendIsConcat
      <4>5. (a \o b) \o e = a \o Append(f, c)
        BY <4>2, <4>3, <4>4, Zenon
      <4>. QED  BY <4>5, Zenon DEF e, f
    <3>. QED  BY <3>2, <3>3, Zenon DEF a
  <2>4. TT!Text(r, c) = [v EXCEPT !.out = v.out \o Append(u, c), !.gap = <<>>]
    BY <1>2, <2>2, <2>3, SetTwice, Zenon
  <2>. QED  BY <1>3, <2>1, <2>4
<1>10. TT!Text(r, c) = Told(v, sent, Append(s, c))
  BY <1>7, <1>8, <1>9
<1>11. r.mode = v.mode /\ r.lt = v.lt
  BY <1>2 DEF ReaderFields
<1>. QED  BY <1>5, <1>6, <1>10, <1>11 DEF sent, r, u

LEMMA PrefixGrows ==
    ASSUME NEW S, NEW q \in Seq(S), NEW n \in 0 .. Len(q) - 1
    PROVE  SubSeq(q, 1, n + 1) = Append(SubSeq(q, 1, n), q[n + 1])
<1>. DEFINE a == SubSeq(q, 1, n)
            b == SubSeq(q, 1, n + 1)
<1>1. n \in 0 .. Len(q) /\ n + 1 \in 0 .. Len(q) /\ n + 1 \in 1 .. Len(q) /\ Len(q) \in Nat
  OBVIOUS
<1>2. a \in Seq(S) /\ Len(a) = n /\ \A i \in 1 .. n : a[i] = q[i]
  BY <1>1, CutAt
<1>3. b \in Seq(S) /\ Len(b) = n + 1 /\ \A i \in 1 .. n + 1 : b[i] = q[i]
  BY <1>1, CutAt
<1>. HIDE DEF a, b
<1>4. q[n + 1] \in S
  BY <1>1
<1>. DEFINE c == Append(a, q[n + 1])
<1>5. c \in Seq(S) /\ Len(c) = n + 1 /\ c[n + 1] = q[n + 1] /\ \A i \in 1 .. n : c[i] = a[i]
  BY <1>2, <1>4, AppendProperties
<1>. HIDE DEF c
<1>6. \A i \in 1 .. n + 1 : b[i] = c[i]
  <2> TAKE i \in 1 .. n + 1
  <2>1. i = n + 1 \/ i \in 1 .. n
    BY <1>1
  <2>. QED  BY <1>2, <1>3, <1>5, <2>1
<1>7. b = c
  BY <1>3, <1>5, <1>6, SeqEqual
<1>. QED  BY <1>7 DEF a, b, c

LEMMA ReadingAppend ==
    ASSUME NEW r \in Readers, NEW s \in Seq(TT!Chars), NEW c \in TT!Chars
    PROVE  TT!Reading(r, Append(s, c)) = TT!Read(TT!Reading(r, s), c)
<1>1. Append(s, c) = s \o <<c>> /\ <<c>> \in Seq(TT!Chars)
  BY AppendIsConcat
<1>. DEFINE q == TT!Reading(r, s)
<1>2. q \in Readers
  BY ReadingIsRun
<1>3. TT!Reading(r, s \o <<c>>) = TT!Reading(q, <<c>>)
  BY <1>1, ReadingOn, Zenon
<1>. HIDE DEF q
<1>4. TT!Reading(q, <<c>>) = TT!Read(q, c)
  BY <1>2, ReadingOne
<1>. QED  BY <1>1, <1>3, <1>4 DEF q

\* The first n characters, and then the others.
LEMMA ReadingCut ==
    ASSUME NEW r \in Readers, NEW s \in Seq(TT!Chars), NEW n \in 0 .. Len(s)
    PROVE  /\ SubSeq(s, 1, n) \in Seq(TT!Chars) /\ SubSeq(s, n + 1, Len(s)) \in Seq(TT!Chars)
           /\ TT!Reading(r, s) =
                TT!Reading(TT!Reading(r, SubSeq(s, 1, n)), SubSeq(s, n + 1, Len(s)))
<1>. DEFINE a == SubSeq(s, 1, n)
            b == SubSeq(s, n + 1, Len(s))
<1>1. a \in Seq(TT!Chars) /\ b \in Seq(TT!Chars) /\ s = a \o b
  BY CutAt, Zenon
<1>. HIDE DEF a, b
<1>2. TT!Reading(r, s) = TT!Reading(TT!Reading(r, a), b)
  BY <1>1, ReadingOn
<1>. QED  BY <1>1, <1>2, Zenon DEF a, b

LEMMA GapWaits ==
    ASSUME NEW q \in Seq(TT!Chars), q \in Seq({Blank})
    PROVE  TT!Ready(q) = <<>> /\ Behind(q) = q
<1>1. TT!Solid(q) = 0
  <2>1. 0 \in 0 .. Len(q) /\ \A i \in 0 + 1 .. Len(q) : q[i] = Blank
    OBVIOUS
  <2>. QED  BY <2>1, BlanksOf
<1>. DEFINE a == TT!Ready(q)
            b == Behind(q)
<1>2. a \in Seq(TT!Chars) /\ Len(a) = 0 /\ b \in Seq(TT!Chars) /\ q = a \o b
  BY <1>1, ReadyFacts, Zenon
<1>. HIDE DEF a, b
<1>3. a = <<>>
  BY <1>2
<1>4. b = q
  BY <1>2, <1>3
<1>. QED  BY <1>3, <1>4 DEF a, b

\* Blanks that wait are told already.
LEMMA GapTold ==
    ASSUME NEW v \in ReaderFields, v.gap \in Seq({Blank}), TT!Shown(v) \/ v.gap = <<>>
    PROVE  Told(v, TT!Shown(v), v.gap) = v
<1>. DEFINE sent == TT!Shown(v)
            g    == v.gap
<1>1. g \in Seq(TT!Chars)
  BY DEF ReaderFields
<1>. HIDE DEF g
<1>2. Shows(sent, g) = g
  <2>1. ASSUME ~sent PROVE TT!WithoutLead(g) = <<>> /\ g = <<>>
    <3>1. g = <<>>
      BY <2>1 DEF g
    <3>2. <<>> \in Seq(TT!Chars) /\ Len(<<>>) = 0
      OBVIOUS
    <3>. DEFINE b == TT!Blanks(<<>>)
    <3>3. b = 0
      <4>1. b \in 0 .. Len(<<>>)
        BY <3>2, BlankFacts, Zenon
      <4>. QED  BY <3>2, <4>1
    <3>4. TT!WithoutLead(<<>>) = SubSeq(<<>>, b + 1, 0)
      BY <3>2, Zenon DEF TT!WithoutLead
    <3>. HIDE DEF b
    <3>5. TT!WithoutLead(<<>>) = <<>>
      BY <3>3, <3>4
    <3>. QED  BY <3>1, <3>5
  <2>. QED  BY <2>1 DEF Shows
<1>3. TT!Ready(g) = <<>> /\ Behind(g) = g
  BY <1>1, GapWaits DEF g
<1>4. Told(v, sent, g) = [v EXCEPT !.out = v.out \o <<>>, !.gap = g]
  BY <1>2, <1>3 DEF Told
<1>5. v.out \o <<>> = v.out
  BY DEF ReaderFields
<1>. QED  BY <1>4, <1>5, Zenon DEF g, ReaderFields

\* Text without a "<" is read as _prose tells it.
LEMMA ProseReads ==
    ASSUME NEW v \in Readers, v.mode = "prose", v.lt = FALSE,
           v.gap \in Seq({Blank}), TT!Shown(v) \/ v.gap = <<>>,
           NEW s \in Seq(TT!Chars), \A i \in 1 .. Len(s) : s[i] # "<"
    PROVE  TT!Reading(v, s) = Told(v, TT!Shown(v), v.gap \o s)
<1>. DEFINE n    == Len(s)
            sent == TT!Shown(v)
            g    == v.gap
            P(k) == SubSeq(s, 1, k)
            f    == [k \in 0 .. n |-> Told(v, sent, g \o P(k))]
<1>1. v \in ReaderFields /\ g \in Seq(TT!Chars) /\ n \in Nat
  BY DEF Readers, ReaderFields
<1>. HIDE DEF g
<1>2. \A k \in 0 .. n : P(k) \in Seq(TT!Chars) /\ g \o P(k) \in Seq(TT!Chars)
  <2> TAKE k \in 0 .. n
  <2>1. P(k) \in Seq(TT!Chars)
    BY CutAt
  <2>. HIDE DEF P
  <2>. QED  BY <1>1, <2>1
<1>3. P(0) = <<>>
  OBVIOUS
<1>4. f[0] = v
  <2>1. g \o P(0) = g
    BY <1>1, <1>3
  <2>6. Told(v, sent, g) = v
    BY <1>1, GapTold DEF g
  <2>7. f[0] = Told(v, sent, g \o P(0))
    <3>. HIDE DEF P
    <3>1. 0 \in 0 .. n
      BY <1>1
    <3>. QED  BY <3>1
  <2>. QED  BY <2>1, <2>6, <2>7, Zenon
<1>5. ASSUME NEW k \in 1 .. n PROVE f[k] = TT!Read(f[k - 1], s[k])
  <2>. DEFINE j == k - 1
  <2>1. j \in 0 .. n - 1 /\ j \in 0 .. n /\ k \in 0 .. n /\ j + 1 = k /\ s[k] \in TT!Chars
          /\ s[k] # "<"
    BY <1>1
  <2>. HIDE DEF j
  <2>2. P(k) = Append(P(j), s[k])
    <3>1. SubSeq(s, 1, j + 1) = Append(SubSeq(s, 1, j), s[j + 1])
      BY <2>1, PrefixGrows
    <3>. QED  BY <2>1, <3>1
  <2>3. P(j) \in Seq(TT!Chars) /\ g \o P(j) \in Seq(TT!Chars)
    BY <1>2, <2>1
  <2>4. f[k] = Told(v, sent, g \o P(k)) /\ f[j] = Told(v, sent, g \o P(j))
    BY <2>1
  <2>. HIDE DEF f, P
  <2>5. g \o P(k) = Append(g \o P(j), s[k])
    BY <1>1, <2>1, <2>2, <2>3
  <2>6. /\ f[j] \in ReaderFields /\ f[j].mode = "prose" /\ f[j].lt = FALSE
        /\ TT!Text(f[j], s[k]) = f[k]
    <3>. DEFINE q == g \o P(j)
                c == s[k]
    <3>1. q \in Seq(TT!Chars) /\ c \in TT!Chars /\ g \o P(k) = Append(q, c)
      BY <2>1, <2>3, <2>5
    <3>2. f[k] = Told(v, TT!Shown(v), Append(q, c)) /\ f[j] = Told(v, TT!Shown(v), q)
      BY <2>4, <3>1
    <3>. HIDE DEF q, c
    <3>3. /\ Told(v, TT!Shown(v), q) \in ReaderFields
          /\ Told(v, TT!Shown(v), q).mode = v.mode /\ Told(v, TT!Shown(v), q).lt = v.lt
          /\ TT!Text(Told(v, TT!Shown(v), q), c) = Told(v, TT!Shown(v), Append(q, c))
      BY <1>1, <3>1, ToldNext
    <3>. QED  BY <3>2, <3>3 DEF c
  <2>7. f[j] \in Readers
    BY <2>6 DEF Readers
  <2>8. TT!Read(f[j], s[k]) = TT!Text(f[j], s[k])
    BY <2>1, <2>6, <2>7, ReadRules, Zenon
  <2>. QED  BY <2>6, <2>8 DEF j
<1>6. f = [k \in 0 .. n |-> f[k]] /\ f[n] = Told(v, sent, g \o P(n))
  BY <1>1
<1>7. P(n) = s
  OBVIOUS
<1>. HIDE DEF f
<1>8. Runs(f, v, s)
  BY <1>4, <1>5, <1>6, Zenon DEF Runs
<1>9. TT!Reading(v, s) = f[n]
  BY <1>8, ReadingIsRun
<1>. QED  BY <1>6, <1>7, <1>9, Zenon DEF g

\* Inside a call nothing is passed on, and only the last character can be half a marker.
LEMMA InToolReads ==
    ASSUME NEW v \in Readers, v.mode = "prose", v.lt = FALSE,
           NEW s \in Seq(TT!Chars), Len(s) >= 2, s[1] = "<", s[2] = "t",
           \A i \in 1 .. Len(s) - 1 : ~(s[i] = "<" /\ s[i + 1] = "/")
    PROVE  TT!Reading(v, s) = [v EXCEPT !.mode = "tool", !.lt = (s[Len(s)] = "<")]
<1>. DEFINE n == Len(s)
            held == [v EXCEPT !.mode = "prose", !.lt = TRUE]
            seen(c) == [v EXCEPT !.mode = "tool", !.lt = (c = "<")]
            f == [k \in 0 .. n |-> IF k = 0 THEN v ELSE IF k = 1 THEN held ELSE seen(s[k])]
<1>1. n \in Nat /\ n >= 2 /\ \A k \in 1 .. n : s[k] \in TT!Chars
  OBVIOUS
<1>2. /\ held \in Readers /\ held.mode = "prose" /\ held.lt = TRUE
      /\ \A c : seen(c) \in Readers /\ seen(c).mode = "tool" /\ seen(c).lt = (c = "<")
  BY Zenon DEF Readers, ReaderFields
<1>3. f[0] = v /\ f[1] = held /\ f[2] = seen(s[2]) /\ f[n] = seen(s[n])
      /\ \A k \in 2 .. n : f[k] = seen(s[k])
  <2>. HIDE DEF held, seen
  <2>1. f[0] = v
    BY <1>1
  <2>2. f[1] = held
    <3>1. 1 \in 0 .. n
      BY <1>1
    <3>. QED  BY <3>1
  <2>3. \A k \in 2 .. n : f[k] = seen(s[k])
    BY <1>1
  <2>. HIDE DEF f
  <2>4. 2 \in 2 .. n /\ n \in 2 .. n
    BY <1>1
  <2>. QED  BY <2>1, <2>2, <2>3, <2>4
<1>4. f = [k \in 0 .. n |-> f[k]]
  OBVIOUS
<1>. HIDE DEF f
<1>5. ASSUME NEW k \in 1 .. n PROVE f[k] = TT!Read(f[k - 1], s[k])
  <2>1. CASE k = 1
    <3>1. TT!Read(v, "<") = held
      BY <1>1, <2>1, ReadRules, Zenon
    <3>2. k - 1 = 0
      BY <2>1
    <3>. QED  BY <1>3, <2>1, <3>1, <3>2, Zenon
  <2>2. CASE k = 2
    <3>1. TT!Read(held, "t") = [held EXCEPT !.mode = "tool", !.lt = FALSE]
      <4>1. "t" \in TT!Chars
        BY Zenon DEF TT!Chars
      <4>. HIDE DEF held
      <4>. QED  BY <1>2, <4>1, ReadRules, Zenon
    <3>2. [held EXCEPT !.mode = "tool", !.lt = FALSE] = seen("t")
      BY Zenon DEF Readers, ReaderFields
    <3>3. k - 1 = 1
      BY <2>2
    <3>. QED  BY <1>3, <2>2, <3>1, <3>2, <3>3, Zenon
  <2>3. CASE k > 2
    <3>. DEFINE b == s[k - 1]
                c == s[k]
    <3>1. k - 1 \in 2 .. n /\ k \in 2 .. n /\ k - 1 \in 1 .. n - 1 /\ (k - 1) + 1 = k
      BY <1>1, <2>3
    <3>2. f[k - 1] = seen(b) /\ f[k] = seen(c) /\ c \in TT!Chars /\ ~(b = "<" /\ c = "/")
      BY <1>1, <1>3, <3>1, Zenon
    <3>. HIDE DEF b, c
    <3>3. TT!Read(seen(b), c) = [seen(b) EXCEPT !.lt = (c = "<")]
      <4>1. seen(b) \in Readers /\ seen(b).mode = "tool" /\ ~(seen(b).lt /\ c = "/")
        BY <1>2, <3>2, Zenon
      <4>. HIDE DEF seen
      <4>. QED  BY <3>2, <4>1, ReadRules, Zenon
    <3>4. [seen(b) EXCEPT !.lt = (c = "<")] = seen(c)
      BY Zenon DEF Readers, ReaderFields
    <3>. QED  BY <3>2, <3>3, <3>4 DEF c
  <2>. QED  BY <1>1, <2>1, <2>2, <2>3
<1>6. Runs(f, v, s)
  BY <1>3, <1>4, <1>5, Zenon DEF Runs
<1>7. TT!Reading(v, s) = f[n]
  BY <1>6, ReadingIsRun
<1>. QED  BY <1>3, <1>7, Zenon

LEMMA ReadingFirst ==
    ASSUME NEW r \in Readers, NEW s \in Seq(TT!Chars), s # <<>>
    PROVE  /\ s[1] \in TT!Chars /\ Len(s) >= 1
           /\ Tail(s) \in Seq(TT!Chars) /\ Len(Tail(s)) = Len(s) - 1
           /\ \A i \in 1 .. Len(s) - 1 : Tail(s)[i] = s[i + 1]
           /\ Tail(s) = SubSeq(s, 2, Len(s))
           /\ TT!Reading(r, s) = TT!Reading(TT!Read(r, s[1]), Tail(s))
<1>. DEFINE n == 1
            a == SubSeq(s, 1, n)
            b == SubSeq(s, n + 1, Len(s))
<1>1. /\ s[1] \in TT!Chars /\ Len(s) \in Nat /\ Len(s) >= 1
      /\ Tail(s) \in Seq(TT!Chars) /\ Len(Tail(s)) = Len(s) - 1
      /\ \A i \in 1 .. Len(s) - 1 : Tail(s)[i] = s[i + 1]
  OBVIOUS
<1>2. n \in 0 .. Len(s) /\ n = 1 /\ b = SubSeq(s, 2, Len(s))
  BY <1>1
<1>. HIDE DEF n
<1>3. /\ a \in Seq(TT!Chars) /\ Len(a) = n /\ \A i \in 1 .. n : a[i] = s[i]
      /\ b \in Seq(TT!Chars) /\ Len(b) = Len(s) - n /\ \A i \in 1 .. Len(s) - n : b[i] = s[n + i]
  BY <1>2, CutAt, Zenon
<1>4. TT!Reading(r, s) = TT!Reading(TT!Reading(r, a), b)
  BY <1>2, ReadingCut
<1>5. TT!Reading(r, <<s[1]>>) = TT!Read(r, s[1])
  BY <1>1, ReadingOne
<1>. HIDE DEF a, b
<1>6. a = <<s[1]>>
  BY <1>2, <1>3
<1>7. Tail(s) = b
  <2>1. \A i \in 1 .. Len(s) - 1 : i + 1 = 1 + i
    BY <1>1
  <2>. QED  BY <1>1, <1>2, <1>3, <2>1, SeqEqual
<1>. QED  BY <1>1, <1>2, <1>4, <1>5, <1>6, <1>7, Zenon

-----------------------------------------------------------------------------
(* What holds between two turns of the loop of feed.                       *)

\* The stream as a reader of single characters.
View == [mode |-> IF initial THEN "lead" ELSE "prose", lt |-> FALSE, gap |-> space, out |-> emitted]

Passed == TT!Reading(TT!Start0, fed)

NoEnd(i) == ~(pending[i] = "<" /\ pending[i + 1] = "/")

\* What may be left in the buffer between two chunks.
Quiet ==
    \/ pending = <<>>
    \/ ~inTool /\ ~initial /\ Len(pending) = 1 /\ pending[1] = "<"
    \/ inTool /\ \A i \in 1 .. Len(pending) - 1 : NoEnd(i)

StreamTypes ==
    /\ fed \in Seq(TT!Chars) /\ pending \in Seq(TT!Chars)
    /\ emitted \in Seq(TT!Chars \cup {"call"}) /\ space \in Seq({Blank})
    /\ initial \in BOOLEAN /\ deferredJson \in BOOLEAN /\ inTool \in BOOLEAN /\ busy \in BOOLEAN
    /\ searchFrom \in Nat /\ searchFrom <= Len(pending)

\* The buffer begins with the marker of a call, and has no end where the search begins.
Searched ==
    IF inTool
    THEN /\ ~initial /\ Len(pending) >= 2 /\ pending[1] = "<" /\ pending[2] = "t"
         /\ \A i \in 1 .. searchFrom : i < Len(pending) /\ NoEnd(i)
    ELSE searchFrom = 0

ChunksInv ==
    /\ StreamTypes
    /\ TT!TextSent \/ space = <<>>
    /\ deferredJson => /\ ~busy /\ pending = <<>> /\ ~inTool
                       /\ Passed.mode = "json" /\ Passed.out = emitted
    /\ ~deferredJson => TT!Reading(View, pending) = Passed
    /\ Searched
    /\ ~busy /\ ~deferredJson => Quiet

LEMMA SpaceIsText ==
    ASSUME NEW q \in Seq({Blank})
    PROVE  q \in Seq(TT!Chars)
<1>1. {Blank} \subseteq TT!Chars
  BY Zenon DEF Blank, TT!Chars
<1>. QED  BY <1>1

LEMMA ViewFacts ==
    ASSUME StreamTypes
    PROVE  /\ View \in Readers /\ View \in ReaderFields
           /\ View.mode = (IF initial THEN "lead" ELSE "prose") /\ View.lt = FALSE
           /\ View.gap = space /\ View.out = emitted
           /\ TT!Shown(View) <=> TT!TextSent
<1>1. space \in Seq(TT!Chars) /\ emitted \in Seq(TT!Chars \cup {"call"}) /\ initial \in BOOLEAN
  BY SpaceIsText DEF StreamTypes
<1>2. /\ View.mode = (IF initial THEN "lead" ELSE "prose") /\ View.lt = FALSE
      /\ View.gap = space /\ View.out = emitted
  BY DEF View
<1>3. View \in ReaderFields
  BY <1>1 DEF View, ReaderFields
<1>4. View \in Readers
  BY <1>2, <1>3 DEF Readers
<1>5. TT!Shown(View) <=> TT!TextSent
  BY <1>2 DEF TT!Shown, TT!TextSent
<1>. QED  BY <1>2, <1>3, <1>4, <1>5

LEMMA StartIsReader == TT!Start0 \in Readers
BY DEF TT!Start0, Readers, ReaderFields

LEMMA PassedIsReader ==
    ASSUME StreamTypes
    PROVE  Passed \in Readers
BY StartIsReader, ReadingIsRun DEF StreamTypes, Passed

\* What _prose does is what Told says.
LEMMA ProseTells ==
    ASSUME ChunksInv, ~initial, UNCHANGED initial, NEW text \in Seq(TT!Chars), TT!Prose(text)
    PROVE  /\ View' = Told(View, TT!Shown(View), space \o text)
           /\ emitted' \in Seq(TT!Chars \cup {"call"}) /\ space' \in Seq({Blank})
           /\ TT!TextSent' \/ space' = <<>>
<1>. DEFINE sent == TT!Shown(View)
            s == space \o text
            u == Shows(sent, s)
            All == TT!Chars \cup {"call"}
            e == emitted
            p == space
<1>1. /\ StreamTypes /\ View \in ReaderFields /\ (sent <=> TT!TextSent) /\ View.out = e
      /\ View.mode = "prose" /\ sent \in BOOLEAN
  BY ViewFacts DEF ChunksInv, TT!Shown
<1>2. p \in Seq(TT!Chars) /\ e \in Seq(All)
  BY <1>1, SpaceIsText DEF StreamTypes
<1>3. s \in Seq(TT!Chars)
  BY <1>2
<1>4. "a" \in TT!Chars
  BY Zenon DEF TT!Chars
<1>5. emitted' = e \o TT!Ready(u) /\ space' = Behind(u)
  BY <1>1, Zenon DEF TT!Prose, Shows, Behind
<1>. HIDE DEF u, s, p, e, sent
<1>6. u \in Seq(TT!Chars) /\ (~sent /\ TT!Ready(u) = <<>> => u = <<>>)
  BY <1>1, <1>3, <1>4, ShowsFacts DEF u
<1>7. /\ TT!Ready(u) \in Seq(TT!Chars) /\ Behind(u) \in Seq({Blank}) /\ Behind(u) \in Seq(TT!Chars)
      /\ u = TT!Ready(u) \o Behind(u)
  BY <1>6, ReadyFacts, Zenon
<1>8. emitted' \in Seq(All)
  <2>1. TT!Ready(u) \in Seq(All)
    BY <1>7
  <2>. QED  BY <1>2, <1>5, <2>1
<1>9. View' = Told(View, sent, s)
  <2>1. View' = [mode |-> "prose", lt |-> FALSE, gap |-> space', out |-> emitted']
    BY DEF View
  <2>2. View = [mode |-> "prose", lt |-> FALSE, gap |-> space, out |-> emitted]
    BY DEF View
  <2>3. Told(View, sent, s) = [View EXCEPT !.out = e \o TT!Ready(u), !.gap = Behind(u)]
    BY <1>1 DEF Told, u
  <2>. QED  BY <1>5, <2>1, <2>2, <2>3, Zenon
<1>10. TT!TextSent' <=> TT!Shown(View')
  BY DEF TT!TextSent, TT!Shown, View
<1>11. TT!Shown(View') <=> sent \/ TT!Ready(u) # <<>>
  <2>1. TT!Shown(Told(View, TT!Shown(View), s)) <=>
              TT!Shown(View) \/ TT!Ready(Shows(TT!Shown(View), s)) # <<>>
    BY <1>1, <1>3, <1>4, ToldNext
  <2>. QED  BY <1>9, <2>1 DEF sent, u
<1>12. TT!TextSent' \/ space' = <<>>
  <2> SUFFICES ASSUME ~sent, TT!Ready(u) = <<>> PROVE Behind(u) = <<>>
    BY <1>5, <1>10, <1>11
  <2>1. u = <<>>
    BY <1>6
  <2>. DEFINE a == TT!Ready(u)
              b == Behind(u)
  <2>2. a \in Seq(TT!Chars) /\ b \in Seq(TT!Chars) /\ a \o b = <<>>
    BY <1>7, <2>1
  <2>. HIDE DEF a, b
  <2>3. b = <<>>
    BY <2>2
  <2>. QED  BY <2>3 DEF b
<1>. QED  BY <1>5, <1>7, <1>8, <1>9, <1>12 DEF s, p, sent

\* A JSON call, once seen, takes all that follows.
LEMMA JsonStays ==
    ASSUME NEW r \in Readers, r.mode = "json", NEW s \in Seq(TT!Chars)
    PROVE  TT!Reading(r, s) = r
<1>1. ASSUME NEW i \in 1 .. Len(s) PROVE TT!Read(r, s[i]) = r
  <2>1. s[i] \in TT!Chars
    OBVIOUS
  <2>. QED  BY <2>1, ReadRules, Zenon
<1>. QED  BY <1>1, ReadingStays

\* A chunk arrives.
LEMMA FeedKeepsText ==
    ASSUME ChunksInv, TT!Feed
    PROVE  ChunksInv'
<1>1. PICK n \in 1 .. MaxChunk : \E text \in [1 .. n -> TT!Chars] :
         /\ fed' = fed \o text
         /\ pending' = IF deferredJson THEN pending ELSE pending \o text
         /\ busy' = ~deferredJson
  BY DEF TT!Feed
<1>2. PICK text \in [1 .. n -> TT!Chars] :
         /\ fed' = fed \o text
         /\ pending' = IF deferredJson THEN pending ELSE pending \o text
         /\ busy' = ~deferredJson
  BY <1>1
<1>3. ~busy /\ UNCHANGED <<emitted, space, initial, deferredJson, inTool, searchFrom>>
  BY DEF TT!Feed
<1>4. text \in Seq(TT!Chars)
  <2>1. n \in Nat
    OBVIOUS
  <2>. QED  BY <2>1
<1>5. /\ fed \in Seq(TT!Chars) /\ pending \in Seq(TT!Chars) /\ deferredJson \in BOOLEAN
      /\ inTool \in BOOLEAN /\ StreamTypes
      /\ searchFrom \in Nat /\ searchFrom <= Len(pending)
  BY DEF ChunksInv, StreamTypes
<1>6. /\ fed \o text \in Seq(TT!Chars) /\ pending \o text \in Seq(TT!Chars)
      /\ Len(pending \o text) >= Len(pending) /\ Len(pending) \in Nat
      /\ \A i \in 1 .. Len(pending) : (pending \o text)[i] = pending[i]
  BY <1>4, <1>5
<1>7. StreamTypes' /\ (TT!TextSent \/ space = <<>>)'
  BY <1>2, <1>3, <1>5, <1>6 DEF ChunksInv, StreamTypes, TT!TextSent
<1>8. Passed' = TT!Reading(Passed, text) /\ Passed \in Readers
  BY <1>2, <1>4, <1>5, StartIsReader, ReadingOn, PassedIsReader DEF Passed
<1>9. CASE deferredJson
  <2>1. /\ pending = <<>> /\ ~inTool /\ Passed.mode = "json" /\ Passed.out = emitted
        /\ Searched
    BY <1>9 DEF ChunksInv
  <2>2. Passed' = Passed
    BY <1>4, <1>8, <2>1, JsonStays
  <2>3. Searched'
    BY <1>3, <2>1 DEF Searched
  <2>. QED  BY <1>2, <1>3, <1>7, <1>9, <2>1, <2>2, <2>3, Zenon DEF ChunksInv
<1>10. CASE ~deferredJson
  <2>1. TT!Reading(View, pending) = Passed /\ Searched
    BY <1>10 DEF ChunksInv
  <2>2. View' = View
    BY <1>3 DEF View
  <2>3. TT!Reading(View, pending \o text) = TT!Reading(TT!Reading(View, pending), text)
    BY <1>4, <1>5, ViewFacts, ReadingOn
  <2>4. pending' = pending \o text
    BY <1>2, <1>10
  <2>5. Searched'
    <3>1. CASE inTool
      <4>1. /\ ~initial /\ Len(pending) >= 2 /\ pending[1] = "<" /\ pending[2] = "t"
            /\ \A i \in 1 .. searchFrom : i < Len(pending) /\ NoEnd(i)
        BY <2>1, <3>1 DEF Searched
      <4>2. /\ Len(pending') >= 2 /\ pending'[1] = "<" /\ pending'[2] = "t"
        BY <1>6, <2>4, <4>1
      <4>3. ASSUME NEW i \in 1 .. searchFrom PROVE i < Len(pending') /\ NoEnd(i)'
        <5>1. i < Len(pending) /\ NoEnd(i)
          BY <4>1
        <5>2. i \in 1 .. Len(pending) /\ i + 1 \in 1 .. Len(pending)
          BY <1>5, <1>6, <5>1
        <5>3. pending'[i] = pending[i] /\ pending'[i + 1] = pending[i + 1]
          BY <1>6, <2>4, <5>2
        <5>4. Len(pending') >= Len(pending) /\ Len(pending') \in Nat
          BY <1>6, <2>4
        <5>. QED  BY <1>6, <5>1, <5>2, <5>3, <5>4 DEF NoEnd
      <4>. QED  BY <1>3, <3>1, <4>1, <4>2, <4>3 DEF Searched
    <3>2. CASE ~inTool
      BY <1>3, <2>1, <3>2 DEF Searched
    <3>. QED  BY <3>1, <3>2
  <2>. QED  BY <1>2, <1>3, <1>7, <1>8, <1>10, <2>1, <2>2, <2>3, <2>4, <2>5, Zenon DEF ChunksInv
<1>. QED  BY <1>9, <1>10

\* The ends that the search finds are the ends there are.
LEMMA EndsAreEnds ==
    ASSUME ChunksInv, inTool
    PROVE  /\ \A i \in TT!Ends : /\ i \in Nat /\ i > searchFrom /\ i <= Len(pending) - 1
                                 /\ pending[i] = "<" /\ pending[i + 1] = "/"
           /\ \A i \in 1 .. Len(pending) - 1 : i \in TT!Ends \/ NoEnd(i)
<1>1. /\ pending \in Seq(TT!Chars) /\ Len(pending) \in Nat /\ searchFrom \in Nat
      /\ \A i \in 1 .. searchFrom : NoEnd(i)
  BY DEF ChunksInv, StreamTypes, Searched
<1>2. ASSUME NEW i \in 1 .. Len(pending) - 1
      PROVE  SubSeq(pending, i, i + 1) = TT!Closes <=> ~NoEnd(i)
  <2>. DEFINE a == SubSeq(pending, i, i + 1)
  <2>1. i \in 1 .. Len(pending) /\ i + 1 \in 1 .. Len(pending)
    BY <1>1
  <2>2. a \in Seq(TT!Chars) /\ Len(a) = 2 /\ a[1] = pending[i] /\ a[2] = pending[i + 1]
    BY <1>1, <2>1
  <2>. HIDE DEF a
  <2>3. a = <<"<", "/">> <=> a[1] = "<" /\ a[2] = "/"
    BY <2>2
  <2>. QED  BY <2>2, <2>3 DEF a, NoEnd, TT!Closes
<1>3. ASSUME NEW i \in TT!Ends
      PROVE  /\ i \in Nat /\ i > searchFrom /\ i <= Len(pending) - 1
             /\ pending[i] = "<" /\ pending[i + 1] = "/"
  <2>1. i \in searchFrom + 1 .. Len(pending) - 1 /\ SubSeq(pending, i, i + 1) = TT!Closes
    BY DEF TT!Ends
  <2>2. i \in 1 .. Len(pending) - 1 /\ i \in Nat /\ i > searchFrom /\ i <= Len(pending) - 1
    BY <1>1, <2>1
  <2>. QED  BY <1>2, <2>1, <2>2 DEF NoEnd
<1>4. ASSUME NEW i \in 1 .. Len(pending) - 1, i \notin TT!Ends
      PROVE  NoEnd(i)
  <2>1. CASE i <= searchFrom
    <3>1. i \in 1 .. searchFrom
      BY <2>1
    <3>. QED  BY <1>1, <3>1
  <2>2. CASE i > searchFrom
    <3>1. i \in searchFrom + 1 .. Len(pending) - 1
      BY <1>1, <2>2
    <3>. QED  BY <1>2, <1>4, <3>1 DEF TT!Ends
  <2>. QED  BY <1>1, <2>1, <2>2
<1>. QED  BY <1>3, <1>4

\* A call is waited for, or passed on when its end is there.
LEMMA InToolKeepsText ==
    ASSUME ChunksInv, TT!InTool
    PROVE  ChunksInv'
<1>. DEFINE n == Len(pending)
<1>1. /\ busy /\ inTool /\ ~deferredJson /\ ~initial /\ StreamTypes
           /\ TT!Reading(View, pending) = Passed
      /\ TT!TextSent \/ space = <<>>
      /\ n >= 2 /\ pending[1] = "<" /\ pending[2] = "t"
      /\ pending \in Seq(TT!Chars) /\ n \in Nat
  BY DEF TT!InTool, ChunksInv, Searched, StreamTypes
<1>2. CASE TT!Ends = {}
  <2>1. /\ searchFrom' = TT!ResumeAt(n) /\ busy' = FALSE
        /\ UNCHANGED <<fed, emitted, pending, space, initial, deferredJson, inTool>>
    BY <1>2 DEF TT!InTool, TT!Rest
  <2>2. \A i \in 1 .. n - 1 : NoEnd(i)
    BY <1>1, <1>2, EndsAreEnds
  <2>3. /\ searchFrom' \in Nat /\ searchFrom' <= n
        /\ \A i \in 1 .. searchFrom' : i \in 1 .. n - 1 /\ i < n
    <3>1. Len(TT!Closes) = 2
      BY DEF TT!Closes
    <3>2. searchFrom' = IF n > 2 THEN n - 2 ELSE 0
      BY <2>1, <3>1 DEF TT!ResumeAt
    <3>. QED  BY <1>1, <3>2
  <2>4. View' = View /\ Passed' = Passed /\ (\A i : NoEnd(i)' <=> NoEnd(i))
        /\ (TT!TextSent' <=> TT!TextSent)
    BY <2>1 DEF View, Passed, NoEnd, TT!TextSent
  <2>5. Searched'
    BY <1>1, <2>1, <2>2, <2>3, <2>4 DEF Searched
  <2>6. Quiet'
    BY <1>1, <2>1, <2>2, <2>4 DEF Quiet
  <2>7. StreamTypes'
    BY <1>1, <2>1, <2>3, Zenon DEF StreamTypes
  <2>. QED  BY <1>1, <2>1, <2>4, <2>5, <2>6, <2>7 DEF ChunksInv
<1>3. CASE TT!Ends # {}
  <2>. DEFINE i == CHOOSE i \in TT!Ends : \A j \in TT!Ends : i <= j
  <2>1. /\ emitted' = Append(emitted, "call") /\ pending' = SubSeq(pending, i + 2, n)
        /\ inTool' = FALSE /\ searchFrom' = 0
        /\ UNCHANGED <<fed, space, initial, deferredJson, busy>>
    BY <1>3, Zenon DEF TT!InTool
  <2>2. i \in TT!Ends /\ \A j \in TT!Ends : i <= j
    <3>1. TT!Ends \subseteq Nat
      BY <1>1, EndsAreEnds
    <3>2. Min(TT!Ends) \in TT!Ends /\ \A y \in TT!Ends : Min(TT!Ends) <= y
      BY <1>3, <3>1, MinOfNaturals, Zenon
    <3>. QED  BY <3>2
  <2>. HIDE DEF i
  <2>3. i \in Nat /\ i <= n - 1 /\ pending[i] = "<" /\ pending[i + 1] = "/" /\ i >= 1
    BY <1>1, <2>2, EndsAreEnds DEF StreamTypes
  <2>4. i >= 3
    <3>1. i # 1 /\ i # 2
      BY <1>1, <2>3
    <3>. QED  BY <2>3, <3>1
  <2>5. \A j \in 1 .. i - 1 : NoEnd(j)
    <3> TAKE j \in 1 .. i - 1
    <3>1. j \in 1 .. n - 1 /\ ~(i <= j)
      BY <1>1, <2>3
    <3>. QED  BY <1>1, <2>2, <3>1, EndsAreEnds
  <2>. DEFINE p == SubSeq(pending, 1, i)
              k == i + 1
              rest == SubSeq(pending, k + 1, n)
  <2>6. p \in Seq(TT!Chars) /\ Len(p) = i /\ \A j \in 1 .. i : p[j] = pending[j]
    <3>1. i \in 0 .. n
      BY <1>1, <2>3
    <3>. QED  BY <1>1, <3>1, CutAt
  <2>. HIDE DEF p
  <2>. DEFINE q == TT!Reading(View, p)
  <2>7. q = [View EXCEPT !.mode = "tool", !.lt = TRUE]
    <3>1. View \in Readers /\ View.mode = "prose" /\ View.lt = FALSE
      BY <1>1, ViewFacts, Zenon
    <3>2. Len(p) >= 2 /\ p[1] = "<" /\ p[2] = "t" /\ p[Len(p)] = "<"
      BY <1>1, <2>3, <2>4, <2>6
    <3>3. ASSUME NEW j \in 1 .. Len(p) - 1 PROVE ~(p[j] = "<" /\ p[j + 1] = "/")
      <4>1. j \in 1 .. i - 1 /\ j \in 1 .. i /\ j + 1 \in 1 .. i
        BY <2>3, <2>6
      <4>. QED  BY <2>5, <2>6, <4>1 DEF NoEnd
    <3>4. TT!Reading(View, p) = [View EXCEPT !.mode = "tool", !.lt = (p[Len(p)] = "<")]
      BY <2>6, <3>1, <3>2, <3>3, InToolReads, Zenon
    <3>. QED  BY <3>2, <3>4, Zenon
  <2>8. "/" \in TT!Chars
    BY DEF TT!Chars
  <2>9. SubSeq(pending, 1, k) = Append(p, "/")
    <3>1. i \in 0 .. n - 1
      BY <1>1, <2>3
    <3>2. SubSeq(pending, 1, i + 1) = Append(SubSeq(pending, 1, i), pending[i + 1])
      BY <1>1, <3>1, PrefixGrows
    <3>. QED  BY <2>3, <3>2 DEF p
  <2>10. TT!Reading(View, Append(p, "/")) = TT!Read(q, "/")
    BY <1>1, <2>6, <2>8, ViewFacts, ReadingAppend
  <2>11. TT!Read(q, "/") = View'
    <3>1. q \in Readers /\ q.mode = "tool" /\ q.lt = TRUE /\ View.out = emitted
      BY <1>1, <2>6, <2>7, ViewFacts, ReadingIsRun DEF ReaderFields
    <3>2. View = [mode |-> "prose", lt |-> FALSE, gap |-> space, out |-> emitted]
      BY <1>1 DEF View
    <3>3. View' = [mode |-> "prose", lt |-> FALSE, gap |-> space, out |-> Append(emitted, "call")]
      BY <1>1, <2>1 DEF View
    <3>4. q = [mode |-> "tool", lt |-> TRUE, gap |-> space, out |-> emitted]
      BY <2>7, <3>2, Zenon
    <3>. HIDE DEF q
    <3>5. TT!Read(q, "/") = [q EXCEPT !.mode = "prose", !.lt = FALSE, !.out = Append(@, "call")]
      BY <2>8, <3>1, ReadRules, Zenon
    <3>. QED  BY <3>3, <3>4, <3>5, Zenon
  <2>12. k \in 0 .. n
    BY <1>1, <2>3
  <2>13. rest \in Seq(TT!Chars) /\ TT!Reading(View, pending)
           = TT!Reading(TT!Reading(View, SubSeq(pending, 1, k)), rest)
    <3>. HIDE DEF k
    <3>. QED  BY <1>1, <2>12, ViewFacts, ReadingCut
  <2>14. pending' = rest
    <3>1. i + 2 = k + 1
      BY <2>3
    <3>. QED  BY <2>1, <3>1, Zenon
  <2>. HIDE DEF rest, k, q
  <2>15. TT!Reading(View', pending') = Passed'
    BY <1>1, <2>1, <2>9, <2>10, <2>11, <2>13, <2>14, Zenon DEF Passed
  <2>16. Append(emitted, "call") \in Seq(TT!Chars \cup {"call"})
    BY <1>1 DEF StreamTypes
  <2>17. StreamTypes'
    <3>1. pending' \in Seq(TT!Chars)
      BY <2>13, <2>14
    <3>2. searchFrom' \in Nat /\ searchFrom' <= Len(pending')
      BY <2>1, <3>1
    <3>. QED  BY <1>1, <2>1, <2>16, <3>1, <3>2, Zenon DEF StreamTypes
  <2>18. TT!TextSent => TT!TextSent'
    <3> SUFFICES ASSUME TT!TextSent PROVE TT!TextSent'
      OBVIOUS
    <3>1. PICK j \in DOMAIN emitted : emitted[j] # "call"
      BY DEF TT!TextSent
    <3>2. emitted \in Seq(TT!Chars \cup {"call"}) /\ "call" \in TT!Chars \cup {"call"}
      BY <1>1 DEF StreamTypes
    <3>3. j \in DOMAIN emitted' /\ emitted'[j] = emitted[j]
      BY <2>1, <3>1, <3>2
    <3>. QED  BY <3>1, <3>3 DEF TT!TextSent
  <2>19. Searched'
    BY <2>1 DEF Searched
  <2>. QED  BY <1>1, <2>1, <2>15, <2>17, <2>18, <2>19 DEF ChunksInv
<1>. QED
  <2>. HIDE DEF ChunksInv
  <2>. QED  BY <1>2, <1>3

\* Readers by their fields.
IsReader(v, m, l, g, o) == v \in ReaderFields /\ v.mode = m /\ v.lt = l /\ v.gap = g /\ v.out = o

LEMMA SameReader ==
    ASSUME NEW v, NEW w, NEW m, NEW l, NEW g, NEW o,
           IsReader(v, m, l, g, o), IsReader(w, m, l, g, o)
    PROVE  v = w
BY DEF IsReader, ReaderFields

\* Blanks at the beginning are dropped, and a JSON call is recognised.
LEMMA LeadKeepsText ==
    ASSUME ChunksInv, TT!Lead
    PROVE  ChunksInv'
<1>. DEFINE n == Len(pending)
            b == TT!Blanks(pending)
            text == TT!WithoutLead(pending)
<1>1. /\ busy /\ ~inTool /\ initial /\ ~deferredJson /\ StreamTypes
      /\ TT!Reading(View, pending) = Passed /\ searchFrom = 0
      /\ TT!TextSent \/ space = <<>>
      /\ pending \in Seq(TT!Chars) /\ n \in Nat
      /\ UNCHANGED <<fed, emitted, space, inTool, searchFrom>>
  <2>1. busy /\ ~inTool /\ initial /\ UNCHANGED <<fed, emitted, space, inTool, searchFrom>>
    BY Zenon DEF TT!Lead, TT!Keep
  <2>2. ~deferredJson /\ StreamTypes /\ searchFrom = 0
    BY <2>1 DEF ChunksInv, Searched
  <2>3. TT!Reading(View, pending) = Passed /\ (TT!TextSent \/ space = <<>>)
    BY <2>2 DEF ChunksInv
  <2>4. pending \in Seq(TT!Chars) /\ n \in Nat
    BY <2>2 DEF StreamTypes
  <2>. QED  BY <2>1, <2>2, <2>3, <2>4
<1>2. /\ View \in Readers /\ View.mode = "lead" /\ View.lt = FALSE /\ View.out = emitted
      /\ IsReader(View, "lead", FALSE, space, emitted)
  BY <1>1, ViewFacts, Zenon DEF IsReader
<1>3. \/ /\ text # <<>> /\ Head(text) = "{"
         /\ pending' = <<>> /\ deferredJson' = TRUE /\ busy' = FALSE /\ UNCHANGED initial
      \/ /\ ~(text # <<>> /\ Head(text) = "{")
         /\ pending' = text /\ initial' = (text = <<>>) /\ UNCHANGED <<deferredJson, busy>>
  BY Zenon DEF TT!Lead
<1>13. text \in Seq(TT!Chars) /\ text # <<>> => Head(text) = text[1]
  <2>. HIDE DEF text
  <2>. QED  OBVIOUS
<1>4. b \in 0 .. n /\ (\A i \in 1 .. b : pending[i] = Blank)
  BY <1>1, BlankFacts
<1>5. text = SubSeq(pending, b + 1, n)
  BY DEF TT!WithoutLead
<1>6. text \in Seq(TT!Chars) /\ (text # <<>> => text[1] # Blank)
  <2>1. Blank \in TT!Chars
    BY DEF Blank, TT!Chars
  <2>. QED  BY <1>1, <2>1, LeadAppend
<1>. HIDE DEF b, text
<1>7. TT!Reading(View, text) = Passed
  <2>. DEFINE p == SubSeq(pending, 1, b)
  <2>1. p \in Seq(TT!Chars) /\ Len(p) = b /\ \A i \in 1 .. b : p[i] = pending[i]
    BY <1>1, <1>4, CutAt
  <2>2. TT!Reading(View, pending) = TT!Reading(TT!Reading(View, p), text)
    BY <1>1, <1>2, <1>4, <1>5, ReadingCut
  <2>. HIDE DEF p
  <2>3. ASSUME NEW i \in 1 .. Len(p) PROVE TT!Read(View, p[i]) = View
    <3>1. p[i] = Blank /\ p[i] \in TT!Chars
      BY <1>4, <2>1
    <3>. QED  BY <1>2, <3>1, ReadRules, Zenon DEF Blank
  <2>4. TT!Reading(View, p) = View
    BY <1>2, <2>1, <2>3, ReadingStays
  <2>. QED  BY <1>1, <2>2, <2>4
<1>8. text # <<>> => /\ text[1] \in TT!Chars /\ Tail(text) \in Seq(TT!Chars)
                     /\ TT!Reading(View, text) = TT!Reading(TT!Read(View, text[1]), Tail(text))
  BY <1>2, <1>6, ReadingFirst
<1>9. (TT!TextSent \/ space = <<>>)' /\ Passed' = Passed
  BY <1>1 DEF TT!TextSent, Passed
<1>10. Searched'
  BY <1>1 DEF Searched
<1>11. CASE text # <<>> /\ text[1] = "{"
  <2>1. pending' = <<>> /\ deferredJson' = TRUE /\ busy' = FALSE /\ UNCHANGED initial
    BY <1>3, <1>6, <1>11, <1>13, Zenon
  <2>. DEFINE q == [View EXCEPT !.mode = "json"]
  <2>2. TT!Read(View, text[1]) = q
    BY <1>2, <1>8, <1>11, ReadRules, Zenon
  <2>3. q \in Readers /\ q.mode = "json" /\ q.out = emitted
    BY <1>2 DEF Readers, ReaderFields
  <2>. HIDE DEF q
  <2>4. Passed = q
    BY <1>7, <1>8, <1>11, <2>2, <2>3, JsonStays, Zenon
  <2>5. StreamTypes'
    <3>1. pending' \in Seq(TT!Chars) /\ Len(pending') = 0
      BY <2>1
    <3>2. searchFrom' \in Nat /\ searchFrom' <= Len(pending')
      BY <1>1, <3>1
    <3>3. deferredJson' \in BOOLEAN /\ busy' \in BOOLEAN
      BY <2>1, Zenon
    <3>. QED  BY <1>1, <2>1, <3>1, <3>2, <3>3 DEF StreamTypes
  <2>. QED  BY <1>1, <1>9, <1>10, <2>1, <2>3, <2>4, <2>5 DEF ChunksInv
<1>12. CASE ~(text # <<>> /\ text[1] = "{")
  <2>1. pending' = text /\ initial' = (text = <<>>) /\ UNCHANGED <<deferredJson, busy>>
    BY <1>3, <1>6, <1>12, <1>13, Zenon
  <2>2. StreamTypes'
    <3>1. pending' \in Seq(TT!Chars) /\ Len(pending') \in Nat
      BY <1>6, <2>1
    <3>. QED  BY <1>1, <2>1, <3>1 DEF StreamTypes
  <2>3. TT!Reading(View', pending') = Passed
    <3>1. CASE text = <<>>
      <4>1. View' = View
        BY <1>1, <2>1, <3>1, Zenon DEF View
      <4>. QED  BY <1>7, <2>1, <4>1
    <3>2. CASE text # <<>>
      <4>. DEFINE c == text[1]
                  w == View'
      <4>1. IsReader(w, "prose", FALSE, space, emitted)
        <5>1. w = [mode |-> "prose", lt |-> FALSE, gap |-> space, out |-> emitted]
          BY <1>1, <2>1, <3>2, Zenon DEF View
        <5>2. space \in Seq(TT!Chars) /\ emitted \in Seq(TT!Chars \cup {"call"})
          BY <1>1, SpaceIsText DEF StreamTypes
        <5>. HIDE DEF w
        <5>. QED  BY <5>1, <5>2 DEF IsReader, ReaderFields
      <4>2. w = [View EXCEPT !.mode = "prose"]
        <5>. DEFINE x == [View EXCEPT !.mode = "prose"]
        <5>1. IsReader(x, "prose", FALSE, space, emitted)
          BY <1>2 DEF IsReader, ReaderFields
        <5>. HIDE DEF w, x
        <5>2. w = x
          BY <4>1, <5>1, SameReader, Zenon
        <5>. QED  BY <5>2 DEF x
      <4>3. w \in Readers /\ w.mode = "prose" /\ w.lt = FALSE
        <5>. HIDE DEF w
        <5>. QED  BY <4>1 DEF Readers, IsReader
      <4>4. c \in TT!Chars /\ c # "_" /\ c # "{"
        BY <1>6, <1>8, <1>12, <3>2, Zenon DEF Blank
      <4>. HIDE DEF w, c
      <4>5. TT!Read(View, c) = TT!Read(w, c)
        <5>1. CASE c = "<"
          <6>1. TT!Read(View, c) = [View EXCEPT !.mode = "prose", !.lt = TRUE]
            BY <1>2, <4>4, <5>1, ReadRules, Zenon
          <6>2. TT!Read(w, c) = [w EXCEPT !.mode = "prose", !.lt = TRUE]
            BY <4>3, <4>4, <5>1, ReadRules, Zenon
          <6>3. [View EXCEPT !.mode = "prose", !.lt = TRUE]
                  = [w EXCEPT !.mode = "prose", !.lt = TRUE]
            <7>. DEFINE x == [View EXCEPT !.mode = "prose", !.lt = TRUE]
                        y == [w EXCEPT !.mode = "prose", !.lt = TRUE]
            <7>1. IsReader(x, "prose", TRUE, space, emitted)
                    /\ IsReader(y, "prose", TRUE, space, emitted)
              BY <1>2, <4>1, Zenon DEF IsReader, ReaderFields
            <7>. HIDE DEF x, y
            <7>2. x = y
              BY <7>1, SameReader, Zenon
            <7>. QED  BY <7>2 DEF x, y
          <6>. QED  BY <6>1, <6>2, <6>3
        <5>2. CASE c # "<"
          <6>1. TT!Read(View, c) = TT!Text(w, c)
            BY <1>2, <4>2, <4>4, <5>2, ReadRules, Zenon
          <6>2. TT!Read(w, c) = TT!Text(w, c)
            BY <4>3, <4>4, <5>2, ReadRules, Zenon
          <6>. QED  BY <6>1, <6>2
        <5>. QED  BY <5>1, <5>2
      <4>6. TT!Reading(w, text) = TT!Reading(TT!Read(w, c), Tail(text))
        BY <1>6, <3>2, <4>3, ReadingFirst DEF c
      <4>. QED  BY <1>7, <1>8, <2>1, <3>2, <4>5, <4>6 DEF c, w
    <3>. QED  BY <3>1, <3>2
  <2>. QED  BY <1>1, <1>9, <1>10, <2>1, <2>2, <2>3 DEF ChunksInv
<1>. QED  BY <1>11, <1>12, Zenon

\* What is common to the two actions that pass on text.
LEMMA TextKeepsText ==
    ASSUME ChunksInv, TT!Scanning, NEW text \in Seq(TT!Chars), TT!Prose(text),
           UNCHANGED <<fed, initial, deferredJson, inTool, searchFrom, busy>>,
           pending' \in Seq(TT!Chars), TT!Reading(View', pending') = Passed
    PROVE  ChunksInv'
<1>1. /\ busy /\ ~inTool /\ ~initial /\ ~deferredJson /\ StreamTypes /\ searchFrom = 0
  BY DEF TT!Scanning, ChunksInv, Searched
<1>2. /\ emitted' \in Seq(TT!Chars \cup {"call"}) /\ space' \in Seq({Blank})
      /\ TT!TextSent' \/ space' = <<>>
  BY <1>1, ProseTells
<1>3. StreamTypes'
  <2>1. Len(pending') \in Nat
    OBVIOUS
  <2>. QED  BY <1>1, <1>2, <2>1 DEF StreamTypes
<1>4. Searched' /\ Passed' = Passed
  BY <1>1 DEF Searched, Passed
<1>. QED  BY <1>1, <1>2, <1>3, <1>4 DEF ChunksInv

\* Text up to the next "<".
LEMMA ScanProseKeepsText ==
    ASSUME ChunksInv, TT!ScanProse
    PROVE  ChunksInv'
<1>. DEFINE n == Len(pending)
            Stop(m) == /\ \A i \in 1 .. m : pending[i] # "<"
                       /\ m < n => pending[m + 1] = "<"
            upTo == CHOOSE m \in 1 .. n : Stop(m)
            text == SubSeq(pending, 1, upTo)
            rest == SubSeq(pending, upTo + 1, n)
<1>1. /\ TT!Scanning /\ Head(pending) # "<" /\ pending # <<>>
      /\ busy /\ ~inTool /\ ~initial /\ ~deferredJson /\ StreamTypes
      /\ TT!Reading(View, pending) = Passed
      /\ TT!TextSent \/ space = <<>>
      /\ pending \in Seq(TT!Chars) /\ space \in Seq({Blank})
      /\ UNCHANGED <<fed, initial, deferredJson, inTool, searchFrom, busy>>
  BY DEF TT!ScanProse, TT!Scanning, ChunksInv, StreamTypes
<1>2. n \in Nat /\ n >= 1 /\ pending[1] # "<"
  BY <1>1
<1>3. TT!Prose(text) /\ pending' = rest
  BY DEF TT!ScanProse
<1>4. upTo \in 1 .. n /\ Stop(upTo)
  <2>. DEFINE T == {i \in 1 .. n : pending[i] # "<"}
  <2>1. PICK m \in 0 .. n : (\A i \in 1 .. m : i \in T) /\ (m < n => m + 1 \notin T)
    BY <1>2, Borders, Zenon
  <2>2. m # 0
    <3> SUFFICES ASSUME m = 0 PROVE FALSE
      OBVIOUS
    <3>1. 1 \notin T /\ 1 \in 1 .. n
      BY <1>2, <2>1
    <3>. QED  BY <1>2, <3>1
  <2>3. \A i \in 1 .. m : pending[i] # "<"
    BY <2>1
  <2>4. m < n => pending[m + 1] = "<"
    <3> SUFFICES ASSUME m < n PROVE pending[m + 1] = "<"
      OBVIOUS
    <3>1. m + 1 \in 1 .. n
      BY <1>2
    <3>. QED  BY <2>1, <3>1
  <2>5. m \in 1 .. n /\ Stop(m)
    BY <2>2, <2>3, <2>4
  <2>. HIDE DEF Stop
  <2>. QED  BY <2>5
<1>5. \A i \in 1 .. upTo : pending[i] # "<"
  BY <1>4
<1>. HIDE DEF upTo
<1>6. upTo \in 0 .. n
  BY <1>2, <1>4
<1>7. /\ text \in Seq(TT!Chars) /\ Len(text) = upTo /\ \A i \in 1 .. upTo : text[i] = pending[i]
      /\ rest \in Seq(TT!Chars)
  BY <1>1, <1>6, CutAt
<1>8. /\ View \in Readers /\ View.mode = "prose" /\ View.lt = FALSE /\ View.gap = space
      /\ TT!Shown(View) \/ View.gap = <<>>
  BY <1>1, ViewFacts, Zenon
<1>9. TT!Reading(View, pending) = TT!Reading(TT!Reading(View, text), rest)
  BY <1>1, <1>6, <1>8, ReadingCut
<1>. HIDE DEF text, rest
<1>10. TT!Reading(View, text) = Told(View, TT!Shown(View), View.gap \o text)
  <2>1. \A i \in 1 .. Len(text) : text[i] # "<"
    BY <1>5, <1>7
  <2>2. View.gap \in Seq({Blank})
    BY <1>1, <1>8
  <2>. QED  BY <1>7, <1>8, <2>1, <2>2, ProseReads, Zenon
<1>11. View' = Told(View, TT!Shown(View), space \o text)
  BY <1>1, <1>3, <1>7, ProseTells
<1>12. TT!Reading(View', pending') = Passed
  BY <1>1, <1>3, <1>8, <1>9, <1>10, <1>11
<1>13. pending' \in Seq(TT!Chars)
  BY <1>3, <1>7
<1>. QED  BY <1>1, <1>3, <1>7, <1>12, <1>13, TextKeepsText

\* A "<" waits, begins a call, is dropped with its marker, or is text.
LEMMA ScanMarkerKeepsText ==
    ASSUME ChunksInv, TT!ScanMarker
    PROVE  ChunksInv'
<1>. DEFINE n == Len(pending)
            marker == SubSeq(pending, 1, IF n > 1 THEN 2 ELSE 1)
            behind == SubSeq(pending, 3, n)
            c == pending[2]
            rest == Tail(Tail(pending))
            held == [View EXCEPT !.mode = "prose", !.lt = TRUE]
<1>1. /\ TT!Scanning /\ pending # <<>> /\ Head(pending) = "<"
      /\ busy /\ ~inTool /\ ~initial /\ ~deferredJson /\ StreamTypes
      /\ TT!Reading(View, pending) = Passed /\ searchFrom = 0
      /\ TT!TextSent \/ space = <<>>
      /\ pending \in Seq(TT!Chars) /\ n \in Nat
  <2>1. TT!Scanning /\ pending # <<>> /\ Head(pending) = "<" /\ busy /\ ~inTool /\ ~initial
    BY DEF TT!ScanMarker, TT!Scanning
  <2>2. ~deferredJson /\ StreamTypes /\ searchFrom = 0
    BY <2>1 DEF ChunksInv, Searched
  <2>3. TT!Reading(View, pending) = Passed /\ (TT!TextSent \/ space = <<>>)
    BY <2>2 DEF ChunksInv
  <2>4. pending \in Seq(TT!Chars) /\ n \in Nat
    BY <2>2 DEF StreamTypes
  <2>. QED  BY <2>1, <2>2, <2>3, <2>4
<1>2. /\ View \in Readers /\ View \in ReaderFields
      /\ View.mode = "prose" /\ View.lt = FALSE /\ View.gap = space /\ View.out = emitted
      /\ TT!Shown(View) \/ View.gap = <<>>
  BY <1>1, ViewFacts, Zenon
<1>3. n >= 1 /\ pending[1] = "<"
  BY <1>1
<1>4. \/ n = 1 /\ UNCHANGED searchFrom /\ TT!Rest
      \/ /\ marker = TT!Opens
         /\ inTool' = TRUE
         /\ UNCHANGED <<emitted, space, fed, pending, initial, deferredJson, searchFrom, busy>>
      \/ /\ marker \in {TT!Drops, TT!Begins}
         /\ pending' = behind
         /\ initial' = (marker = TT!Begins)
         /\ UNCHANGED <<emitted, space, fed, deferredJson, inTool, searchFrom, busy>>
      \/ /\ n > 1 /\ marker \notin {TT!Opens, TT!Drops, TT!Begins}
         /\ TT!Prose(<<"<">>)
         /\ pending' = Tail(pending)
         /\ UNCHANGED <<fed, initial, deferredJson, inTool, searchFrom, busy>>
  BY DEF TT!ScanMarker, TT!Keep
<1>5. n > 1 => /\ marker = <<"<", c>> /\ c \in TT!Chars
               /\ Tail(pending) \in Seq(TT!Chars) /\ rest \in Seq(TT!Chars) /\ rest = behind
               /\ Tail(pending) # <<>> /\ Tail(pending)[1] = c
  <2> SUFFICES ASSUME n > 1
               PROVE  /\ marker = <<"<", c>> /\ c \in TT!Chars
                      /\ Tail(pending) \in Seq(TT!Chars) /\ rest \in Seq(TT!Chars) /\ rest = behind
                      /\ Tail(pending) # <<>> /\ Tail(pending)[1] = c
    OBVIOUS
  <2>1. /\ c \in TT!Chars /\ Tail(pending) \in Seq(TT!Chars) /\ Len(Tail(pending)) = n - 1
        /\ \A i \in 1 .. n - 1 : Tail(pending)[i] = pending[i + 1]
    BY <1>1
  <2>2. Tail(pending) # <<>> /\ Tail(pending)[1] = c
    <3>. DEFINE t == Tail(pending)
    <3>1. 1 \in 1 .. n - 1 /\ 1 + 1 = 2
      BY <1>1
    <3>2. t \in Seq(TT!Chars) /\ Len(t) = n - 1 /\ \A i \in 1 .. n - 1 : t[i] = pending[i + 1]
      BY <2>1
    <3>. HIDE DEF t
    <3>3. t[1] = c
      BY <3>1, <3>2
    <3>4. t # <<>>
      BY <1>1, <3>2
    <3>. QED  BY <3>3, <3>4 DEF t
  <2>3. /\ rest \in Seq(TT!Chars) /\ Len(rest) = n - 2
        /\ \A i \in 1 .. n - 2 : rest[i] = pending[i + 2]
    <3>. DEFINE t == Tail(pending)
    <3>1. t \in Seq(TT!Chars) /\ Len(t) = n - 1 /\ t # <<>>
      BY <2>1, <2>2
    <3>. HIDE DEF t
    <3>2. Tail(t) \in Seq(TT!Chars) /\ Len(Tail(t)) = n - 2
            /\ \A i \in 1 .. n - 2 : Tail(t)[i] = t[i + 1]
      BY <1>1, <3>1
    <3>3. ASSUME NEW i \in 1 .. n - 2 PROVE t[i + 1] = pending[i + 2]
      <4>1. i + 1 \in 1 .. n - 1 /\ (i + 1) + 1 = i + 2
        BY <1>1
      <4>. QED  BY <2>1, <4>1 DEF t
    <3>. QED  BY <3>2, <3>3 DEF t
  <2>4. rest = behind
    <3>. DEFINE m == 2
    <3>1. m \in 0 .. n /\ m = 2 /\ behind = SubSeq(pending, m + 1, n)
      BY <1>1
    <3>. HIDE DEF m, behind
    <3>2. /\ behind \in Seq(TT!Chars) /\ Len(behind) = n - m
          /\ \A i \in 1 .. n - m : behind[i] = pending[m + i]
      BY <1>1, <3>1, CutAt, Zenon
    <3>. HIDE DEF rest
    <3>3. \A i \in 1 .. n - 2 : i + 2 = m + i
      BY <3>1
    <3>. QED  BY <2>3, <3>1, <3>2, <3>3, SeqEqual
  <2>5. marker = <<"<", c>>
    <3>. DEFINE a == SubSeq(pending, 1, 2)
    <3>1. marker = a
      OBVIOUS
    <3>2. a \in Seq(TT!Chars) /\ Len(a) = 2 /\ a[1] = pending[1] /\ a[2] = pending[2]
      BY <1>1
    <3>. HIDE DEF a
    <3>3. a = <<"<", c>>
      BY <1>3, <3>2
    <3>. QED  BY <3>1, <3>3
  <2>. QED  BY <2>1, <2>2, <2>3, <2>4, <2>5
<1>6. /\ Len(TT!Opens) = 2 /\ TT!Opens = <<"<", "t">> /\ TT!Drops = <<"<", "|">>
      /\ TT!Begins = <<"<", "s">>
  BY DEF TT!Opens, TT!Drops, TT!Begins
<1>7. n = 1 => marker = <<"<">>
  <2> SUFFICES ASSUME n = 1 PROVE marker = <<"<">>
    OBVIOUS
  <2>. DEFINE a == SubSeq(pending, 1, 1)
  <2>1. marker = a
    OBVIOUS
  <2>2. a \in Seq(TT!Chars) /\ Len(a) = 1 /\ a[1] = pending[1]
    BY <1>1, <1>3
  <2>. HIDE DEF a
  <2>3. a = <<"<">>
    BY <1>3, <2>2
  <2>. QED  BY <2>1, <2>3
<1>. HIDE DEF marker, behind, rest, c
<1>8. marker \in {TT!Opens, TT!Drops, TT!Begins} => n > 1
  <2>3. n = 1 \/ n > 1
    <3>1. n \in Nat /\ n >= 1
      BY <1>1, <1>3
    <3>. HIDE DEF n
    <3>. QED  BY <3>1
  <2> SUFFICES ASSUME n = 1, marker \in {TT!Opens, TT!Drops, TT!Begins} PROVE FALSE
    BY <2>3
  <2>1. Len(marker) = 1
    BY <1>7
  <2>2. Len(TT!Opens) = 2 /\ Len(TT!Drops) = 2 /\ Len(TT!Begins) = 2
    BY <1>6
  <2>. QED  BY <2>1, <2>2
<1>9. TT!Read(View, "<") = held /\ "<" \in TT!Chars
  <2>1. "<" \in TT!Chars
    BY DEF TT!Chars
  <2>. QED  BY <1>2, <2>1, ReadRules, Zenon
<1>10. held \in Readers /\ held.mode = "prose" /\ held.lt = TRUE
  BY <1>2, Zenon DEF Readers, ReaderFields
<1>16. IsReader(View, "prose", FALSE, space, emitted)
  BY <1>2 DEF IsReader
<1>17. IsReader(held, "prose", TRUE, space, emitted)
  BY <1>16, Zenon DEF IsReader, ReaderFields
<1>18. space \in Seq(TT!Chars) /\ emitted \in Seq(TT!Chars \cup {"call"})
  BY <1>1, SpaceIsText DEF StreamTypes
<1>. HIDE DEF held
<1>11. n > 1 => Passed = TT!Reading(TT!Read(held, c), rest)
  <2> SUFFICES ASSUME n > 1 PROVE Passed = TT!Reading(TT!Read(held, c), rest)
    OBVIOUS
  <2>1. Passed = TT!Reading(held, Tail(pending))
    BY <1>1, <1>2, <1>3, <1>9, ReadingFirst
  <2>. DEFINE t == Tail(pending)
  <2>2. t \in Seq(TT!Chars) /\ t # <<>> /\ t[1] = c /\ rest = Tail(t)
    BY <1>5 DEF rest
  <2>. HIDE DEF t
  <2>3. TT!Reading(held, t) = TT!Reading(TT!Read(held, t[1]), Tail(t))
    BY <1>10, <2>2, ReadingFirst
  <2>. QED  BY <2>1, <2>2, <2>3 DEF t
<1>12. CASE n = 1 /\ UNCHANGED searchFrom /\ TT!Rest
  <2>1. /\ busy' = FALSE /\ searchFrom' = searchFrom
        /\ UNCHANGED <<fed, emitted, pending, space, initial, deferredJson, inTool>>
    BY <1>12 DEF TT!Rest
  <2>2. StreamTypes'
    BY <1>1, <2>1, Zenon DEF StreamTypes
  <2>3. View' = View /\ Passed' = Passed /\ (TT!TextSent' <=> TT!TextSent)
    BY <2>1 DEF View, Passed, TT!TextSent
  <2>4. Searched' /\ Quiet'
    BY <1>1, <1>3, <1>12, <2>1 DEF Searched, Quiet
  <2>. QED  BY <1>1, <2>1, <2>2, <2>3, <2>4 DEF ChunksInv
<1>13. CASE /\ marker = TT!Opens
            /\ inTool' = TRUE
            /\ UNCHANGED <<emitted, space, fed, pending, initial, deferredJson, searchFrom, busy>>
  <2>1. n > 1 /\ c = "t"
    BY <1>5, <1>6, <1>8, <1>13
  <2>2. StreamTypes'
    BY <1>1, <1>13 DEF StreamTypes
  <2>3. View' = View /\ Passed' = Passed /\ (TT!TextSent' <=> TT!TextSent)
    BY <1>13 DEF View, Passed, TT!TextSent
  <2>4. Searched'
    <3>1. n >= 2 /\ \A i \in 1 .. searchFrom : FALSE
      BY <1>1, <2>1
    <3>. QED  BY <1>1, <1>3, <1>13, <2>1, <3>1 DEF Searched, c
  <2>. QED  BY <1>1, <1>13, <2>2, <2>3, <2>4 DEF ChunksInv
<1>14. CASE /\ marker \in {TT!Drops, TT!Begins}
            /\ pending' = behind
            /\ initial' = (marker = TT!Begins)
            /\ UNCHANGED <<emitted, space, fed, deferredJson, inTool, searchFrom, busy>>
  <2>1. n > 1 /\ pending' = rest /\ pending' \in Seq(TT!Chars)
    BY <1>5, <1>8, <1>14
  <2>3. TT!Read(held, c) = View'
    <3>1. CASE marker = TT!Drops
      <4>1. c = "|" /\ initial' = FALSE
        BY <1>5, <1>6, <1>14, <2>1, <3>1, Zenon
      <4>. DEFINE w == View'
                  x == [held EXCEPT !.lt = FALSE]
      <4>2. IsReader(w, "prose", FALSE, space, emitted)
        <5>1. w = [mode |-> "prose", lt |-> FALSE, gap |-> space, out |-> emitted]
          BY <1>14, <4>1 DEF View
        <5>. HIDE DEF w
        <5>. QED  BY <1>18, <5>1 DEF IsReader, ReaderFields
      <4>3. TT!Read(held, c) = [held EXCEPT !.lt = FALSE]
        BY <1>5, <1>10, <2>1, <4>1, ReadRules, Zenon
      <4>4. IsReader(x, "prose", FALSE, space, emitted)
        BY <1>17, Zenon DEF IsReader, ReaderFields
      <4>. HIDE DEF w, x
      <4>5. w = x
        BY <4>2, <4>4, SameReader, Zenon
      <4>. QED  BY <4>3, <4>5 DEF w, x
    <3>2. CASE marker = TT!Begins
      <4>1. c = "s" /\ initial' = TRUE
        BY <1>5, <1>6, <1>14, <2>1, <3>2, Zenon
      <4>. DEFINE w == View'
                  x == [held EXCEPT !.mode = "lead", !.lt = FALSE]
      <4>2. IsReader(w, "lead", FALSE, space, emitted)
        <5>1. w = [mode |-> "lead", lt |-> FALSE, gap |-> space, out |-> emitted]
          BY <1>14, <4>1 DEF View
        <5>. HIDE DEF w
        <5>. QED  BY <1>18, <5>1 DEF IsReader, ReaderFields
      <4>3. TT!Read(held, c) = [held EXCEPT !.mode = "lead", !.lt = FALSE]
        BY <1>5, <1>10, <2>1, <4>1, ReadRules, Zenon
      <4>4. IsReader(x, "lead", FALSE, space, emitted)
        BY <1>17, Zenon DEF IsReader, ReaderFields
      <4>. HIDE DEF w, x
      <4>5. w = x
        BY <4>2, <4>4, SameReader, Zenon
      <4>. QED  BY <4>3, <4>5 DEF w, x
    <3>. QED  BY <1>14, <3>1, <3>2
  <2>4. StreamTypes'
    <3>1. searchFrom' \in Nat /\ searchFrom' <= Len(pending')
      BY <1>1, <1>14, <2>1
    <3>2. initial' \in BOOLEAN
      BY <1>14
    <3>. QED  BY <1>1, <1>14, <2>1, <3>1, <3>2 DEF StreamTypes
  <2>5. Searched' /\ Passed' = Passed /\ (TT!TextSent' <=> TT!TextSent)
    BY <1>1, <1>14 DEF Searched, Passed, TT!TextSent
  <2>. QED  BY <1>1, <1>11, <1>14, <2>1, <2>3, <2>4, <2>5 DEF ChunksInv
<1>15. CASE /\ n > 1 /\ marker \notin {TT!Opens, TT!Drops, TT!Begins}
            /\ TT!Prose(<<"<">>)
            /\ pending' = Tail(pending)
            /\ UNCHANGED <<fed, initial, deferredJson, inTool, searchFrom, busy>>
  <2>. DEFINE w == View'
              r == [held EXCEPT !.lt = FALSE]
  <2>1. c \notin {"t", "|", "s"}
    BY <1>5, <1>6, <1>15
  <2>2. <<"<">> \in Seq(TT!Chars)
    BY <1>9
  <2>3. w = TT!Text(View, "<")
    <3>1. View' = Told(View, TT!Shown(View), space \o <<"<">>)
      BY <1>1, <1>15, <2>2, ProseTells, Zenon
    <3>. DEFINE p == space
    <3>2. p \in Seq({Blank}) /\ p \in Seq(TT!Chars)
      BY <1>1, SpaceIsText DEF StreamTypes
    <3>3. Told(View, TT!Shown(View), View.gap) = View
      BY <1>2, <3>2, GapTold
    <3>. HIDE DEF p
    <3>4. TT!Text(Told(View, TT!Shown(View), p), "<") = Told(View, TT!Shown(View), Append(p, "<"))
      BY <1>2, <1>9, <3>2, ToldNext
    <3>5. Append(p, "<") = p \o <<"<">>
      BY <1>9, <3>2, AppendIsConcat
    <3>. QED  BY <1>2, <3>1, <3>3, <3>4, <3>5, Zenon DEF p
  <2>4. r = View
    <3>1. IsReader(r, "prose", FALSE, space, emitted)
      BY <1>17, Zenon DEF IsReader, ReaderFields
    <3>. HIDE DEF r
    <3>. QED  BY <1>16, <3>1, SameReader, Zenon
  <2>5. w \in Readers /\ w.mode = "prose" /\ w.lt = FALSE
    BY <1>2, <1>9, <2>3, TextIsRead DEF Readers
  <2>. HIDE DEF w, r
  <2>6. TT!Read(held, c) = TT!Read(w, c)
    <3>1. CASE c = "<"
      <4>1. TT!Read(held, c) = TT!Text(held, "<")
        BY <1>9, <1>10, <3>1, ReadRules, Zenon
      <4>2. TT!Read(w, c) = [w EXCEPT !.mode = "prose", !.lt = TRUE]
        BY <1>9, <2>5, <3>1, ReadRules, Zenon
      <4>3. TT!Text(held, "<") = [held EXCEPT !.out = held.out \o (held.gap \o <<"<">>),
              !.gap = <<>>]
        BY DEF TT!Text
      <4>4. w = [View EXCEPT !.out = View.out \o (View.gap \o <<"<">>), !.gap = <<>>]
        BY <2>3 DEF TT!Text
      <4>. DEFINE o == View.out \o (View.gap \o <<"<">>)
      <4>7. held.out = View.out /\ held.gap = View.gap
        BY <1>16, <1>17 DEF IsReader
      <4>12. o \in Seq(TT!Chars \cup {"call"})
        <5>. DEFINE g == View.gap
                    All == TT!Chars \cup {"call"}
        <5>1. g \in Seq(All) /\ View.out \in Seq(All) /\ <<"<">> \in Seq(All)
          BY <1>2, <1>9, <1>18
        <5>. HIDE DEF All, g
        <5>2. g \o <<"<">> \in Seq(All)
          BY <5>1
        <5>. QED  BY <5>1, <5>2 DEF All, g
      <4>. HIDE DEF o
      <4>. DEFINE x == [held EXCEPT !.out = o, !.gap = <<>>]
                  y == [w EXCEPT !.mode = "prose", !.lt = TRUE]
      <4>8. TT!Text(held, "<") = x /\ w = [View EXCEPT !.out = o, !.gap = <<>>]
        BY <4>3, <4>4, <4>7 DEF o
      <4>13. <<>> \in Seq(TT!Chars)
        OBVIOUS
      <4>9. IsReader(x, "prose", TRUE, <<>>, o)
        BY <1>17, <4>12, <4>13, Zenon DEF IsReader, ReaderFields
      <4>10. IsReader(w, "prose", FALSE, <<>>, o)
        BY <1>16, <4>8, <4>12, <4>13, Zenon DEF IsReader, ReaderFields
      <4>11. IsReader(y, "prose", TRUE, <<>>, o)
        BY <4>10, Zenon DEF IsReader, ReaderFields
      <4>. HIDE DEF x, y
      <4>14. x = y
        BY <4>9, <4>11, SameReader, Zenon
      <4>. QED  BY <4>1, <4>2, <4>8, <4>14 DEF y
    <3>2. CASE c # "<"
      <4>1. TT!Read(held, c) = TT!Text(TT!Text(r, "<"), c)
        BY <1>5, <1>10, <1>15, <2>1, <3>2, ReadRules, Zenon DEF r
      <4>2. TT!Read(w, c) = TT!Text(w, c)
        BY <1>5, <1>15, <2>5, <3>2, ReadRules, Zenon
      <4>. QED  BY <2>3, <2>4, <4>1, <4>2
    <3>. QED  BY <3>1, <3>2
  <2>7. TT!Reading(w, pending') = Passed
    <3>. DEFINE t == Tail(pending)
    <3>1. t \in Seq(TT!Chars) /\ t # <<>> /\ t[1] = c /\ rest = Tail(t)
      BY <1>5, <1>15 DEF rest
    <3>. HIDE DEF t
    <3>2. TT!Reading(w, t) = TT!Reading(TT!Read(w, t[1]), Tail(t))
      BY <2>5, <3>1, ReadingFirst
    <3>. QED  BY <1>11, <1>15, <2>6, <3>1, <3>2 DEF t
  <2>. QED  BY <1>1, <1>5, <1>15, <2>2, <2>7, TextKeepsText, Zenon DEF w
<1>. QED  BY <1>4, <1>12, <1>13, <1>14, <1>15, Zenon

\* The buffer is used up.
LEMMA ConsumedKeepsText ==
    ASSUME ChunksInv, TT!Consumed
    PROVE  ChunksInv'
<1>1. /\ busy' = FALSE /\ pending = <<>>
      /\ UNCHANGED <<fed, emitted, pending, space, initial, deferredJson, inTool, searchFrom>>
  BY DEF TT!Consumed, TT!Rest
<1>2. View' = View /\ Passed' = Passed /\ (TT!TextSent' <=> TT!TextSent)
      /\ (\A i : NoEnd(i)' <=> NoEnd(i))
  BY <1>1 DEF View, Passed, TT!TextSent, NoEnd
<1>3. StreamTypes' /\ Searched'
  BY <1>1, <1>2, Zenon DEF ChunksInv, StreamTypes, Searched
<1>4. Quiet'
  BY <1>1 DEF Quiet
<1>. QED  BY <1>1, <1>2, <1>3, <1>4 DEF ChunksInv

LEMMA TextRests ==
    ASSUME ChunksInv, UNCHANGED TT!svars
    PROVE  ChunksInv'
<1>1. UNCHANGED <<fed, emitted, pending, space, initial, deferredJson, inTool, searchFrom, busy>>
  BY DEF TT!svars
<1>2. View' = View /\ Passed' = Passed /\ (TT!TextSent' <=> TT!TextSent)
      /\ (\A i : NoEnd(i)' <=> NoEnd(i))
  BY <1>1 DEF View, Passed, TT!TextSent, NoEnd
<1>3. StreamTypes' /\ Searched' /\ (Quiet' <=> Quiet)
  BY <1>1, <1>2 DEF ChunksInv, StreamTypes, Searched, Quiet
<1>. QED  BY <1>1, <1>2, <1>3 DEF ChunksInv

\* Between two chunks, what was passed on is what the reader passes on.
LEMMA ChunksHold == ChunksInv => TT!TypeOK /\ TT!ChunksDoNotMatter
<1> SUFFICES ASSUME ChunksInv PROVE TT!TypeOK /\ TT!ChunksDoNotMatter
  OBVIOUS
<1>1. StreamTypes
  BY DEF ChunksInv
<1>2. TT!TypeOK
  BY <1>1, Zenon DEF TT!TypeOK, StreamTypes, Blank
<1>3. ASSUME ~busy PROVE emitted = Passed.out
  <2>1. CASE deferredJson
    BY <2>1 DEF ChunksInv
  <2>2. CASE ~deferredJson
    <3>1. TT!Reading(View, pending) = Passed /\ Quiet /\ Searched
      BY <1>3, <2>2 DEF ChunksInv
    <3>2. View \in Readers /\ View.out = emitted /\ pending \in Seq(TT!Chars)
          /\ View.mode = (IF initial THEN "lead" ELSE "prose") /\ View.lt = FALSE
      BY <1>1, ViewFacts, Zenon DEF StreamTypes
    <3>3. CASE pending = <<>>
      BY <3>1, <3>2, <3>3, ReadingNothing
    <3>4. CASE ~inTool /\ ~initial /\ Len(pending) = 1 /\ pending[1] = "<"
      <4>1. pending = <<"<">>
        BY <3>2, <3>4
      <4>5. "<" \in TT!Chars
        BY DEF TT!Chars
      <4>2. TT!Reading(View, pending) = TT!Read(View, "<")
        BY <3>2, <4>1, <4>5, ReadingOne
      <4>3. TT!Read(View, "<") = [View EXCEPT !.mode = "prose", !.lt = TRUE]
        BY <3>2, <3>4, <4>5, ReadRules, Zenon
      <4>4. [View EXCEPT !.mode = "prose", !.lt = TRUE].out = View.out
        BY <3>2 DEF Readers, ReaderFields
      <4>. QED  BY <3>1, <3>2, <4>2, <4>3, <4>4, Zenon
    <3>5. CASE inTool /\ \A i \in 1 .. Len(pending) - 1 : NoEnd(i)
      <4>1. ~initial /\ Len(pending) >= 2 /\ pending[1] = "<" /\ pending[2] = "t"
        BY <3>1, <3>5 DEF Searched
      <4>2. \A i \in 1 .. Len(pending) - 1 : ~(pending[i] = "<" /\ pending[i + 1] = "/")
        BY <3>5 DEF NoEnd
      <4>3. View.mode = "prose"
        BY <3>2, <4>1
      <4>4. TT!Reading(View, pending) = [View EXCEPT !.mode = "tool",
              !.lt = (pending[Len(pending)] = "<")]
        BY <3>2, <4>1, <4>2, <4>3, InToolReads, Zenon
      <4>5. [View EXCEPT !.mode = "tool", !.lt = (pending[Len(pending)] = "<")].out = View.out
        BY <3>2 DEF Readers, ReaderFields
      <4>. QED  BY <3>1, <3>2, <4>4, <4>5
    <3>. QED  BY <3>1, <3>3, <3>4, <3>5 DEF Quiet
  <2>. QED  BY <1>1, <2>1, <2>2 DEF StreamTypes
<1>. QED  BY <1>2, <1>3 DEF TT!ChunksDoNotMatter, Passed

LEMMA ChunksInit == Init => ChunksInv
<1> SUFFICES ASSUME TT!Init PROVE ChunksInv
  BY DEF Init
<1>1. /\ fed = <<>> /\ emitted = <<>> /\ pending = <<>> /\ space = <<>>
      /\ initial = TRUE /\ deferredJson = FALSE /\ inTool = FALSE /\ searchFrom = 0 /\ busy = FALSE
  BY DEF TT!Init
<1>2. StreamTypes
  <2>1. /\ fed \in Seq(TT!Chars) /\ pending \in Seq(TT!Chars) /\ Len(pending) = 0
        /\ emitted \in Seq(TT!Chars \cup {"call"}) /\ space \in Seq({Blank})
    BY <1>1
  <2>2. searchFrom \in Nat /\ searchFrom <= Len(pending)
    BY <1>1, <2>1
  <2>3. initial \in BOOLEAN /\ deferredJson \in BOOLEAN /\ inTool \in BOOLEAN /\ busy \in BOOLEAN
    BY <1>1, Zenon
  <2>. QED  BY <2>1, <2>2, <2>3 DEF StreamTypes
<1>3. View = TT!Start0
  BY <1>1 DEF View, TT!Start0
<1>4. TT!Reading(View, pending) = Passed
  BY <1>1, <1>3 DEF Passed
<1>5. Searched /\ Quiet
  BY <1>1 DEF Searched, Quiet
<1>. QED  BY <1>1, <1>2, <1>4, <1>5 DEF ChunksInv

LEMMA ChunksStep == ChunksInv /\ [Next]_vars => ChunksInv'
<1> SUFFICES ASSUME ChunksInv, [Next]_vars PROVE ChunksInv'
  OBVIOUS
<1>1. TT!Next \/ UNCHANGED TT!svars
  <2>1. CASE Next
    BY <2>1 DEF Next, tooltextVars, TT!svars
  <2>2. CASE UNCHANGED vars
    BY <2>2 DEF vars, tooltextVars, TT!svars
  <2>. QED  BY <2>1, <2>2
<1>2. CASE TT!Done \/ UNCHANGED TT!svars
  BY <1>2, TextRests DEF TT!Done
<1>. QED  BY <1>1, <1>2, FeedKeepsText, InToolKeepsText, LeadKeepsText, ScanProseKeepsText,
           ScanMarkerKeepsText, ConsumedKeepsText DEF TT!Next

LEMMA ChunksNeverMatter == Spec => [](TT!TypeOK /\ TT!ChunksDoNotMatter)
BY ChunksInit, ChunksStep, ChunksHold, PTL DEF Spec

-----------------------------------------------------------------------------
(* What the callbacks get of a generation (GenerationRun).                 *)

\* A way through the tokens a, with those of kind x left out.
Leaves(f, a, x) ==
    /\ f = [n \in 0 .. Len(a) |-> f[n]]
    /\ f[0] = <<>>
    /\ \A n \in 1 .. Len(a) : f[n] = IF a[n] = x THEN f[n - 1] ELSE Append(f[n - 1], a[n])

LEMMA LeavesAgree ==
    ASSUME NEW a \in Seq(GR!Tokens), NEW x, NEW f, NEW g, Leaves(f, a, x), Leaves(g, a, x)
    PROVE  f = g
<1>. DEFINE T == {n \in 0 .. Len(a) : f[n] = g[n]}
<1>1. Len(a) \in Nat
  OBVIOUS
<1>2. 0 \in T
  BY <1>1 DEF Leaves
<1>3. ASSUME NEW n \in 0 .. Len(a) - 1, n \in T PROVE n + 1 \in T
  <2>1. n + 1 \in 1 .. Len(a) /\ (n + 1) - 1 = n
    BY <1>1
  <2>2. /\ f[n + 1] = IF a[n + 1] = x THEN f[n] ELSE Append(f[n], a[n + 1])
        /\ g[n + 1] = IF a[n + 1] = x THEN g[n] ELSE Append(g[n], a[n + 1])
    BY <2>1, Zenon DEF Leaves
  <2>. QED  BY <1>1, <1>3, <2>1, <2>2
<1>4. \A n \in 0 .. Len(a) : n \in T
  <2>. HIDE DEF T
  <2>. QED  BY <1>1, <1>2, <1>3, UpTo, Zenon
<1>. QED  BY <1>4 DEF Leaves

\* If there is such a way, it ends in what Without says.
LEMMA WithoutIsLeft ==
    ASSUME NEW a \in Seq(GR!Tokens), NEW x, NEW g, Leaves(g, a, x)
    PROVE  GR!Without(a, x) = g[Len(a)]
<1>. DEFINE Body(f) == [n \in 0 .. Len(a) |->
                            IF n = 0 THEN <<>>
                            ELSE IF a[n] = x THEN f[n - 1] ELSE Append(f[n - 1], a[n])]
            after    == CHOOSE f : f = Body(f)
<1>1. GR!Without(a, x) = after[Len(a)]
  BY DEF GR!Without
<1>2. Len(a) \in Nat
  OBVIOUS
<1>3. \A f : Leaves(f, a, x) <=> f = Body(f)
  <2>1. ASSUME NEW f, Leaves(f, a, x) PROVE f = Body(f)
    <3>1. ASSUME NEW n \in 0 .. Len(a)
          PROVE  f[n] = IF n = 0 THEN <<>>
                        ELSE IF a[n] = x THEN f[n - 1] ELSE Append(f[n - 1], a[n])
      <4>1. CASE n = 0
        BY <2>1, <4>1 DEF Leaves
      <4>2. CASE n # 0
        <5>1. n \in 1 .. Len(a)
          BY <1>2, <4>2
        <5>. QED  BY <2>1, <4>2, <5>1, Zenon DEF Leaves
      <4>. QED  BY <4>1, <4>2
    <3>2. f = [n \in 0 .. Len(a) |-> f[n]]
      BY <2>1 DEF Leaves
    <3>3. [n \in 0 .. Len(a) |-> f[n]] = Body(f)
      BY <3>1
    <3>. QED  BY <3>2, <3>3
  <2>2. ASSUME NEW f, f = Body(f) PROVE Leaves(f, a, x)
    <3>1. \A n \in 0 .. Len(a) : f[n] = IF n = 0 THEN <<>>
                            ELSE IF a[n] = x THEN f[n - 1] ELSE Append(f[n - 1], a[n])
      BY <2>2, Zenon
    <3>2. f = [n \in 0 .. Len(a) |-> f[n]]
      BY <2>2
    <3>. QED  BY <1>2, <3>1, <3>2 DEF Leaves
  <2>. QED  BY <2>1, <2>2
<1>5. Leaves(after, a, x)
  <2>. HIDE DEF Body
  <2>. QED  BY <1>3
<1>. HIDE DEF after
<1>6. after = g
  BY <1>5, LeavesAgree
<1>. QED  BY <1>1, <1>6

LEMMA LeavesExist ==
    ASSUME NEW a \in Seq(GR!Tokens), NEW x
    PROVE  \E f : Leaves(f, a, x) /\ f \in [0 .. Len(a) -> Seq(GR!Tokens)]
<1>. DEFINE Part(n, f) ==
                /\ f \in [0 .. n -> Seq(GR!Tokens)] /\ f[0] = <<>>
                /\ \A k \in 1 .. n : f[k] = IF a[k] = x THEN f[k - 1] ELSE Append(f[k - 1], a[k])
            T == {n \in 0 .. Len(a) : \E f : Part(n, f)}
<1>. HIDE DEF GR!Tokens
<1>1. Len(a) \in Nat
  OBVIOUS
<1>2. 0 \in T
  <2>1. Part(0, [k \in 0 .. 0 |-> <<>>])
    OBVIOUS
  <2>2. 0 \in 0 .. Len(a)
    BY <1>1
  <2>. HIDE DEF Part
  <2>. QED  BY <2>1, <2>2
<1>3. ASSUME NEW n \in 0 .. Len(a) - 1, n \in T PROVE n + 1 \in T
  <2>1. PICK f : Part(n, f)
    BY <1>3, Zenon
  <2>. DEFINE c == IF a[n + 1] = x THEN f[n] ELSE Append(f[n], a[n + 1])
              g == [k \in 0 .. n + 1 |-> IF k = n + 1 THEN c ELSE f[k]]
  <2>2. n \in Nat /\ n + 1 \in 1 .. Len(a) /\ a[n + 1] \in GR!Tokens /\ n \in 0 .. n
    BY <1>1
  <2>3. c \in Seq(GR!Tokens)
    <3>1. f[n] \in Seq(GR!Tokens)
      BY <2>1, <2>2
    <3>2. Append(f[n], a[n + 1]) \in Seq(GR!Tokens)
      BY <2>2, <3>1, AppendProperties
    <3>. QED  BY <3>1, <3>2
  <2>. HIDE DEF c
  <2>4. /\ g \in [0 .. n + 1 -> Seq(GR!Tokens)] /\ g[0] = <<>>
        /\ g[n + 1] = c /\ \A k \in 0 .. n : g[k] = f[k]
    <3>. DEFINE S == Seq(GR!Tokens)
    <3>1. \A k \in 0 .. n : f[k] \in S
      BY <2>1
    <3>2. c \in S /\ f[0] = <<>>
      BY <2>1, <2>3
    <3>. HIDE DEF S
    <3>3. \A k \in 0 .. n + 1 : k \in 0 .. n \/ k = n + 1
      BY <2>2
    <3>4. \A k \in 0 .. n + 1 : (IF k = n + 1 THEN c ELSE f[k]) \in S
      BY <3>1, <3>2, <3>3
    <3>5. g \in [0 .. n + 1 -> S]
      BY <3>4
    <3>6. 0 \in 0 .. n + 1 /\ n + 1 \in 0 .. n + 1 /\ 0 # n + 1
      BY <2>2
    <3>7. g[0] = <<>> /\ g[n + 1] = c
      BY <3>2, <3>6
    <3>8. ASSUME NEW k \in 0 .. n PROVE g[k] = f[k]
      <4>1. k \in 0 .. n + 1 /\ k # n + 1
        BY <2>2
      <4>. QED  BY <4>1
    <3>. QED  BY <3>5, <3>7, <3>8 DEF S
  <2>. HIDE DEF g
  <2>5. ASSUME NEW k \in 1 .. n + 1
        PROVE  g[k] = IF a[k] = x THEN g[k - 1] ELSE Append(g[k - 1], a[k])
    <3>1. CASE k = n + 1
      <4>1. k - 1 = n /\ n \in 0 .. n
        BY <2>2, <3>1
      <4>. QED  BY <2>4, <3>1, <4>1 DEF c
    <3>2. CASE k \in 1 .. n
      <4>1. k \in 0 .. n /\ k - 1 \in 0 .. n
        BY <3>2
      <4>. QED  BY <2>1, <2>4, <3>2, <4>1, Zenon
    <3>. QED  BY <2>2, <3>1, <3>2
  <2>6. Part(n + 1, g)
    BY <2>4, <2>5
  <2>7. n + 1 \in 0 .. Len(a)
    BY <1>1
  <2>. QED  BY <2>6, <2>7, Zenon
<1>4. Len(a) \in T
  <2>. HIDE DEF T
  <2>1. \A k \in 0 .. Len(a) : k \in T
    BY <1>1, <1>2, <1>3, UpTo, Zenon
  <2>. QED  BY <1>1, <2>1
<1>5. PICK f : Part(Len(a), f)
  BY <1>4
<1>6. Leaves(f, a, x)
  BY <1>1, <1>5 DEF Leaves
<1>. QED  BY <1>5, <1>6

\* One token at a time.
LEMMA WithoutOne ==
    ASSUME NEW a \in Seq(GR!Tokens), NEW c \in GR!Tokens, NEW x
    PROVE  /\ GR!Without(a, x) \in Seq(GR!Tokens)
           /\ GR!Without(Append(a, c), x) =
                IF c = x THEN GR!Without(a, x) ELSE Append(GR!Without(a, x), c)
<1>. HIDE DEF GR!Tokens
<1>. DEFINE n == Len(a)
            b == Append(a, c)
<1>1. /\ b \in Seq(GR!Tokens) /\ Len(b) = n + 1 /\ n \in Nat
      /\ b[n + 1] = c /\ \A i \in 1 .. n : b[i] = a[i]
  OBVIOUS
<1>2. PICK f : Leaves(f, a, x) /\ f \in [0 .. n -> Seq(GR!Tokens)]
  BY LeavesExist
<1>3. GR!Without(a, x) = f[n] /\ f[n] \in Seq(GR!Tokens)
  <2>1. n \in 0 .. n
    BY <1>1
  <2>. QED  BY <1>2, <2>1, WithoutIsLeft
<1>. HIDE DEF b
<1>4. PICK g : Leaves(g, b, x)
  BY <1>1, LeavesExist, Zenon
<1>5. GR!Without(b, x) = g[n + 1]
  <2>1. GR!Without(b, x) = g[Len(b)]
    BY <1>1, <1>4, WithoutIsLeft
  <2>. QED  BY <1>1, <2>1
<1>6. g[n + 1] = IF c = x THEN g[n] ELSE Append(g[n], c)
  <2>1. n + 1 \in 1 .. Len(b) /\ (n + 1) - 1 = n
    BY <1>1
  <2>2. g[n + 1] = IF b[n + 1] = x THEN g[(n + 1) - 1] ELSE Append(g[(n + 1) - 1], b[n + 1])
    BY <1>4, <2>1 DEF Leaves
  <2>. QED  BY <1>1, <2>1, <2>2
<1>. DEFINE h == [k \in 0 .. n |-> g[k]]
<1>7. /\ \A k \in 0 .. n : h[k] = g[k]
      /\ h = [k \in 0 .. n |-> h[k]]
  OBVIOUS
<1>. HIDE DEF h
<1>8. Leaves(h, a, x)
  <2>1. h[0] = <<>>
    BY <1>1, <1>4, <1>7 DEF Leaves
  <2>2. ASSUME NEW k \in 1 .. n
        PROVE  h[k] = IF a[k] = x THEN h[k - 1] ELSE Append(h[k - 1], a[k])
    <3>1. k \in 1 .. Len(b) /\ k \in 0 .. n /\ k - 1 \in 0 .. n /\ b[k] = a[k]
      BY <1>1
    <3>2. g[k] = IF b[k] = x THEN g[k - 1] ELSE Append(g[k - 1], b[k])
      BY <1>4, <3>1, Zenon DEF Leaves
    <3>. QED  BY <1>7, <3>1, <3>2, Zenon
  <2>. QED  BY <1>7, <2>1, <2>2, Zenon DEF Leaves
<1>9. h[n] = f[n] /\ h[n] = g[n]
  <2>1. n \in 0 .. n
    BY <1>1
  <2>. QED  BY <1>2, <1>7, <1>8, <2>1, LeavesAgree
<1>. QED  BY <1>3, <1>5, <1>6, <1>9 DEF b

\* What there is to hear of an answer.
Spoken(a) == GR!Without(GR!Without(a, "thought"), "half")

LEMMA SpokenOne ==
    ASSUME NEW a \in Seq(GR!Tokens), NEW c \in GR!Tokens
    PROVE  /\ Spoken(a) \in Seq(GR!Tokens)
           /\ Spoken(Append(a, c)) =
                IF c \in {"thought", "half"} THEN Spoken(a) ELSE Append(Spoken(a), c)
<1>. DEFINE w == GR!Without(a, "thought")
<1>1. /\ w \in Seq(GR!Tokens)
      /\ GR!Without(Append(a, c), "thought") = IF c = "thought" THEN w ELSE Append(w, c)
  BY WithoutOne
<1>. HIDE DEF w, GR!Tokens
<1>2. /\ GR!Without(w, "half") \in Seq(GR!Tokens)
      /\ GR!Without(Append(w, c), "half") =
            IF c = "half" THEN GR!Without(w, "half") ELSE Append(GR!Without(w, "half"), c)
  BY <1>1, WithoutOne
<1>3. Spoken(a) = GR!Without(w, "half")
  BY DEF Spoken, w
<1>4. Spoken(Append(a, c)) = GR!Without(IF c = "thought" THEN w ELSE Append(w, c), "half")
  BY <1>1, Zenon DEF Spoken
<1>. QED  BY <1>2, <1>3, <1>4, Zenon

LEMMA NothingLeft == GR!Without(<<>>, "thought") = <<>> /\ Spoken(<<>>) = <<>>
<1>1. ASSUME NEW x PROVE GR!Without(<<>>, x) = <<>>
  <2>1. <<>> \in Seq(GR!Tokens) /\ Len(<<>>) = 0
    OBVIOUS
  <2>. DEFINE f == [n \in 0 .. 0 |-> <<>>]
  <2>2. Leaves(f, <<>>, x) /\ f[0] = <<>>
    BY <2>1 DEF Leaves
  <2>. HIDE DEF f
  <2>3. GR!Without(<<>>, x) = f[Len(<<>>)]
    BY <2>1, <2>2, WithoutIsLeft, Zenon
  <2>. QED  BY <2>1, <2>2, <2>3
<1>. QED  BY <1>1 DEF Spoken

-----------------------------------------------------------------------------
\* The text up to the stop string.
Cut(a) ==
    IF GR!Stopped(a)
    THEN LET n == CHOOSE i \in 1 .. Len(a) : /\ a[i] = "stop"
                                            /\ \A j \in 1 .. i - 1 : a[j] # "stop"
         IN  SubSeq(a, 1, n - 1)
    ELSE a

LEMMA CutOne ==
    ASSUME NEW a \in Seq(GR!Tokens), NEW c \in GR!Tokens
    PROVE  /\ Cut(a) \in Seq(GR!Tokens)
           /\ GR!Stopped(Append(a, c)) <=> GR!Stopped(a) \/ c = "stop"
           /\ Cut(Append(a, c)) = IF GR!Stopped(a) THEN Cut(a)
                ELSE IF c = "stop" THEN a ELSE Append(a, c)
<1>. DEFINE m == Len(a)
            b == Append(a, c)
            First(s, i) == s[i] = "stop" /\ \A j \in 1 .. i - 1 : s[j] # "stop"
<1>0. GR!Stopped(b) <=> GR!Stopped(a) \/ c = "stop"
  BY OneMoreToken, Zenon DEF GR!Stopped
<1>. HIDE DEF GR!Tokens
<1>1. /\ b \in Seq(GR!Tokens) /\ Len(b) = m + 1 /\ m \in Nat
      /\ b[m + 1] = c /\ \A i \in 1 .. m : b[i] = a[i]
  OBVIOUS
<1>2. \A s : GR!Stopped(s) <=> \E i \in 1 .. Len(s) : s[i] = "stop"
  BY DEF GR!Stopped, GR!Contains
<1>. HIDE DEF b
<1>3. CASE GR!Stopped(a)
  <2>1. \E i \in 1 .. m : First(a, i)
    <3>. DEFINE B == {i \in 1 .. m : a[i] = "stop"}
                k == Min(B)
    <3>1. B # {} /\ B \subseteq Nat
      BY <1>2, <1>3
    <3>2. k \in B /\ \A y \in B : k <= y
      BY <3>1, MinOfNaturals, Zenon
    <3>. HIDE DEF k
    <3>3. ASSUME NEW j \in 1 .. k - 1 PROVE a[j] # "stop"
      <4>1. j \in 1 .. m /\ ~(k <= j)
        BY <1>1, <3>2
      <4>. QED  BY <3>2, <4>1
    <3>. QED  BY <3>2, <3>3
  <2>. DEFINE n == CHOOSE i \in 1 .. Len(a) : First(a, i)
              p == CHOOSE i \in 1 .. Len(b) : First(b, i)
  <2>2. n \in 1 .. m /\ First(a, n)
    <3>. HIDE DEF First
    <3>. QED  BY <2>1
  <2>. HIDE DEF n
  <2>3. n \in 1 .. Len(b) /\ First(b, n)
    <3>1. \A j \in 1 .. n : j \in 1 .. m /\ b[j] = a[j]
      BY <1>1, <2>2
    <3>2. \A j \in 1 .. n - 1 : j \in 1 .. n
      BY <2>2
    <3>. QED  BY <1>1, <2>2, <3>1, <3>2
  <2>4. p \in 1 .. Len(b) /\ First(b, p)
    <3>. HIDE DEF First
    <3>. QED  BY <2>3
  <2>. HIDE DEF p
  <2>5. p = n
    <3>1. p \in Nat /\ n \in Nat /\ p >= 1 /\ n >= 1
      BY <1>1, <2>2, <2>4
    <3>2. ASSUME p < n PROVE FALSE
      <4>1. p \in 1 .. n - 1
        BY <3>1, <3>2
      <4>. QED  BY <2>3, <2>4, <4>1
    <3>3. ASSUME n < p PROVE FALSE
      <4>1. n \in 1 .. p - 1
        BY <3>1, <3>3
      <4>. QED  BY <2>3, <2>4, <4>1
    <3>. QED  BY <3>1, <3>2, <3>3
  <2>6. Cut(a) = SubSeq(a, 1, n - 1) /\ Cut(b) = SubSeq(b, 1, p - 1)
    BY <1>0, <1>3, Zenon DEF Cut, n, p
  <2>7. n - 1 \in 0 .. m /\ n - 1 \in 0 .. Len(b)
    BY <1>1, <2>2
  <2>. DEFINE k == n - 1
              u == SubSeq(a, 1, k)
              v == SubSeq(b, 1, k)
  <2>8. k \in 0 .. m /\ k \in 0 .. Len(b)
    BY <2>7
  <2>. HIDE DEF k
  <2>9. u \in Seq(GR!Tokens) /\ Len(u) = k /\ \A i \in 1 .. k : u[i] = a[i]
    BY <2>8
  <2>10. v \in Seq(GR!Tokens) /\ Len(v) = k /\ \A i \in 1 .. k : v[i] = b[i]
    BY <1>1, <2>8
  <2>. HIDE DEF u, v
  <2>11. \A i \in 1 .. k : a[i] = b[i]
    BY <1>1, <2>8
  <2>12. u = v
    BY <2>9, <2>10, <2>11, SeqEqual
  <2>. QED  BY <1>0, <1>3, <2>5, <2>6, <2>9, <2>12, Zenon DEF u, v, k, b
<1>4. CASE ~GR!Stopped(a) /\ c = "stop"
  <2>. DEFINE p == CHOOSE i \in 1 .. Len(b) : First(b, i)
  <2>1. m + 1 \in 1 .. Len(b) /\ First(b, m + 1)
    <3>1. \A j \in 1 .. (m + 1) - 1 : j \in 1 .. m
      BY <1>1
    <3>. QED  BY <1>1, <1>2, <1>4, <3>1
  <2>2. p \in 1 .. Len(b) /\ First(b, p)
    <3>. HIDE DEF First
    <3>. QED  BY <2>1
  <2>. HIDE DEF p
  <2>3. p = m + 1
    <3>1. p \in 1 .. m + 1
      BY <1>1, <2>2
    <3>2. ASSUME p \in 1 .. m PROVE FALSE
      BY <1>1, <1>2, <1>4, <2>2, <3>2
    <3>. QED  BY <1>1, <3>1, <3>2
  <2>4. Cut(b) = SubSeq(b, 1, p - 1)
    BY <1>0, <1>4, Zenon DEF Cut, p
  <2>5. m \in 0 .. Len(b) /\ p - 1 = m
    BY <1>1, <2>3
  <2>. DEFINE v == SubSeq(b, 1, m)
  <2>6. v \in Seq(GR!Tokens) /\ Len(v) = m /\ \A i \in 1 .. m : v[i] = b[i]
    BY <1>1, <2>5
  <2>. HIDE DEF v
  <2>7. v = a
    BY <1>1, <2>6, SeqEqual
  <2>8. Cut(a) = a
    BY <1>4 DEF Cut
  <2>. QED  BY <1>0, <1>4, <2>4, <2>5, <2>7, <2>8 DEF v, b
<1>5. CASE ~GR!Stopped(a) /\ c # "stop"
  BY <1>0, <1>1, <1>5 DEF Cut, b
<1>. QED  BY <1>3, <1>4, <1>5

\* Nothing is cut from an answer that has no stop string, or is empty.
LEMMA NothingCut ==
    ASSUME NEW a \in Seq(GR!Tokens)
    PROVE  /\ ~GR!Stopped(a) => Cut(a) = a
           /\ a = <<>> => ~GR!Stopped(a)
<1>1. ~GR!Stopped(a) => Cut(a) = a
  BY DEF Cut
<1>2. a = <<>> => ~GR!Stopped(a)
  BY DEF GR!Stopped, GR!Contains
<1>. QED  BY <1>1, <1>2

LEMMA PrefixFacts ==
    ASSUME NEW a \in Seq(GR!Tokens), NEW b \in Seq(GR!Tokens), NEW c \in GR!Tokens,
           GR!IsPrefix(a, b)
    PROVE  GR!IsPrefix(b, b) /\ GR!IsPrefix(a, Append(b, c)) /\ GR!IsPrefix(b, Append(b, c))
<1>. HIDE DEF GR!Tokens
<1>. DEFINE n == Len(a)
            m == Len(b)
            d == Append(b, c)
<1>1. /\ n \in Nat /\ m \in Nat /\ d \in Seq(GR!Tokens) /\ Len(d) = m + 1
      /\ \A i \in 1 .. m : d[i] = b[i]
  OBVIOUS
<1>2. n <= m /\ SubSeq(a, 1, n) = SubSeq(b, 1, n)
  BY DEF GR!IsPrefix
<1>. HIDE DEF d
<1>3. ASSUME NEW k \in 0 .. m
      PROVE  SubSeq(b, 1, k) = SubSeq(d, 1, k)
  <2>. DEFINE u == SubSeq(b, 1, k)
              v == SubSeq(d, 1, k)
  <2>1. k \in 0 .. Len(d)
    BY <1>1
  <2>2. u \in Seq(GR!Tokens) /\ Len(u) = k /\ \A i \in 1 .. k : u[i] = b[i]
    OBVIOUS
  <2>3. v \in Seq(GR!Tokens) /\ Len(v) = k /\ \A i \in 1 .. k : v[i] = d[i]
    BY <1>1, <2>1
  <2>4. \A i \in 1 .. k : b[i] = d[i]
    BY <1>1
  <2>. HIDE DEF u, v
  <2>5. u = v
    BY <2>2, <2>3, <2>4, SeqEqual
  <2>. QED  BY <2>5 DEF u, v
<1>4. n \in 0 .. m /\ m \in 0 .. m /\ n <= m + 1 /\ m <= m + 1 /\ m <= m
  BY <1>1, <1>2
<1>5. SubSeq(b, 1, n) = SubSeq(d, 1, n) /\ SubSeq(b, 1, m) = SubSeq(d, 1, m)
  BY <1>3, <1>4
<1>. HIDE DEF n, m
<1>6. GR!IsPrefix(b, b)
  BY <1>4 DEF GR!IsPrefix, m
<1>7. GR!IsPrefix(a, d) /\ GR!IsPrefix(b, d)
  BY <1>1, <1>2, <1>4, <1>5 DEF GR!IsPrefix, n, m
<1>. QED  BY <1>6, <1>7 DEF d

-----------------------------------------------------------------------------
(* What has been passed on so far.                                         *)

\* What the callbacks should have heard: a chat and the remote server stop at the stop
\* string, the others go on.
Aloud == IF shape \in {"chat", "remote"} THEN Spoken(Cut(answer)) ELSE Spoken(answer)

PassedOn ==
    /\ passed \in Seq(GR!Tokens)
    /\ stage \notin {"tokens", "ended"} => passed = <<>>
    /\ shape = "vision" => ~GR!Stopped(answer)
    /\ stage = "tokens" => /\ GR!Without(passed, "thought") = Aloud
                           /\ GR!IsPrefix(Spoken(Cut(answer)), Spoken(answer))
    /\ GR!StreamFollowsAnswer

StreamInv == GenerationInv /\ PassedOn

LEMMA StreamInit == Init => StreamInv
<1> SUFFICES ASSUME Init PROVE StreamInv
  OBVIOUS
<1>0. GR!Init
  BY DEF Init
<1>1. passed = <<>> /\ stage = "begin" /\ outcome = "none" /\ shape = "chat"
  BY <1>0 DEF GR!Init
<1>2. passed \in Seq(GR!Tokens)
  BY <1>1
<1>3. PassedOn
  BY <1>1, <1>2 DEF PassedOn, GR!StreamFollowsAnswer
<1>. QED  BY <1>3, GenerationInit DEF StreamInv

\* A step that passes nothing on and generates nothing.
LEMMA QuietStep ==
    ASSUME StreamInv, GenerationInv', UNCHANGED <<answer, passed>>, outcome' # "answer",
           stage' \notin {"tokens", "ended"} => stage \notin {"tokens", "ended"},
           stage = "tokens" => UNCHANGED shape,
           shape' # shape => stage = "begin",
           stage' = "tokens" => stage \in {"prompt", "tokens"}
    PROVE  StreamInv'
<1>0. answer \in Seq(GR!Tokens)
  BY DEF StreamInv, GenerationInv, GenerationTypes
<1>1. GR!StreamFollowsAnswer'
  BY DEF GR!StreamFollowsAnswer
<1>2. shape' = "vision" => ~GR!Stopped(answer')
  <2>1. CASE shape' = shape
    BY <2>1 DEF StreamInv, PassedOn
  <2>2. CASE stage = "begin"
    <3>1. answer = <<>>
      BY <2>2 DEF StreamInv, GenerationInv, CancelIsNear
    <3>. QED  BY <1>0, <3>1, NothingCut, Zenon
  <2>. QED  BY <2>1, <2>2
<1>3. stage' = "tokens" => /\ GR!Without(passed', "thought") = Aloud'
                           /\ GR!IsPrefix(Spoken(Cut(answer')), Spoken(answer'))
  <2>1. CASE stage = "tokens"
    BY <2>1 DEF StreamInv, PassedOn, Aloud
  <2>2. CASE stage = "prompt"
    <3>1. answer = <<>> /\ passed = <<>>
      BY <2>2 DEF StreamInv, GenerationInv, CancelIsNear, PassedOn
    <3>2. Cut(<<>>) = <<>>
      BY <1>0, <3>1, NothingCut, Zenon
    <3>3. GR!IsPrefix(<<>>, <<>>)
      BY DEF GR!IsPrefix
    <3>. QED  BY <3>1, <3>2, <3>3, NothingLeft DEF Aloud
  <2>. QED  BY <2>1, <2>2
<1>4. /\ passed' \in Seq(GR!Tokens)
      /\ stage' \notin {"tokens", "ended"} => passed' = <<>>
  BY DEF StreamInv, PassedOn
<1>5. PassedOn'
  <2>1. /\ (Cut(answer))' = Cut(answer') /\ (Spoken(answer))' = Spoken(answer')
        /\ (Spoken(Cut(answer)))' = Spoken(Cut(answer'))
        /\ GR!Stopped(answer)' = GR!Stopped(answer')
        /\ GR!Without(passed, "thought")' = GR!Without(passed', "thought")
    OBVIOUS
  <2>. QED  BY <1>1, <1>2, <1>3, <1>4, <2>1 DEF PassedOn
<1>. QED  BY <1>5 DEF StreamInv

LEMMA TokenPassed ==
    ASSUME StreamInv, GR!Token
    PROVE  PassedOn'
<1>0. /\ stage = "tokens" /\ outcome = "none" /\ UNCHANGED <<shape, asked, cancelled>>
      /\ answer \in Seq(GR!Tokens)
  BY DEF GR!Token, StreamInv, GenerationInv, EndsOnce, GenerationTypes
<1>1. PICK t \in GR!Tokens :
        /\ shape = "vision" => t # "stop"
        /\ answer' = Append(answer, t)
        /\ IF GR!Visible(answer')
           THEN IF cancelled
                THEN GR!Raise("cancelled") /\ UNCHANGED passed
                ELSE passed' = Append(passed, t) /\ UNCHANGED <<stage, outcome>>
           ELSE UNCHANGED <<stage, passed, outcome>>
  BY DEF GR!Token
<1>2. /\ passed \in Seq(GR!Tokens) /\ GR!Without(passed, "thought") = Aloud
      /\ GR!IsPrefix(Spoken(Cut(answer)), Spoken(answer))
      /\ shape = "vision" => ~GR!Stopped(answer)
  BY <1>0 DEF StreamInv, PassedOn
<1>3. /\ GR!Last(answer') = t
      /\ GR!Stopped(answer') <=> GR!Stopped(answer) \/ t = "stop"
      /\ Cut(answer) \in Seq(GR!Tokens)
      /\ Cut(answer') = IF GR!Stopped(answer) THEN Cut(answer)
                        ELSE IF t = "stop" THEN answer ELSE answer'
      /\ ~GR!Stopped(answer) => Cut(answer) = answer
  BY <1>0, <1>1, OneMoreToken, CutOne, NothingCut, Zenon
<1>4. t \in {"thought", "word", "half", "stop"}
  BY DEF GR!Tokens
<1>5. passed' \in Seq(GR!Tokens)
  <2>1. Append(passed, t) \in Seq(GR!Tokens)
    BY <1>2, AppendProperties
  <2>. QED  BY <1>1, <1>2, <2>1
<1>. DEFINE stopped == GR!Stopped(answer)
            w == GR!Without(passed, "thought")
            s == Spoken(answer)
            c == Spoken(Cut(answer))
            v == t # "half" /\ (shape \in {"chat", "remote"} => ~stopped /\ t # "stop")
                   /\ (shape = "chat" /\ t = "thought" => asked.emits)
<1>6. GR!Visible(answer') <=> v
  BY <1>3 DEF GR!Visible
<1>7. /\ s \in Seq(GR!Tokens) /\ c \in Seq(GR!Tokens)
      /\ Spoken(answer') = IF t \in {"thought", "half"} THEN s ELSE Append(s, t)
  BY <1>0, <1>1, <1>3, SpokenOne
<1>8. Spoken(Cut(answer')) = IF stopped THEN c ELSE IF t = "stop" THEN s ELSE Spoken(answer')
  BY <1>3
<1>9. ~stopped => c = s
  BY <1>3
<1>10. w = IF shape \in {"chat", "remote"} THEN c ELSE s
  BY <1>2 DEF Aloud
<1>11. GR!Without(Append(passed, t), "thought") = IF t = "thought" THEN w ELSE Append(w, t)
  BY <1>2, WithoutOne
<1>12. shape' = "vision" => ~GR!Stopped(answer')
  BY <1>0, <1>1, <1>2, <1>3
<1>13. \/ stage' = "ended" /\ outcome' = "cancelled"
       \/ stage' = "tokens" /\ outcome' = "none"
  BY <1>0, <1>1 DEF GR!Raise
<1>14. GR!StreamFollowsAnswer'
  BY <1>13 DEF GR!StreamFollowsAnswer
<1>. DEFINE x == Spoken(answer')
            y == Spoken(Cut(answer'))
            z == GR!Without(passed', "thought")
<1>15. stage' = "tokens" => passed' = IF v THEN Append(passed, t) ELSE passed
  BY <1>1, <1>6, <1>13 DEF GR!Raise
<1>16. stage' = "tokens" => z = IF v /\ t # "thought" THEN Append(w, t) ELSE w
  <2>. HIDE DEF v, w
  <2>. QED  BY <1>11, <1>15, Zenon DEF w
<1>17. /\ x = IF t \in {"thought", "half"} THEN s ELSE Append(s, t)
       /\ y = IF stopped THEN c ELSE IF t = "stop" THEN s ELSE x
  BY <1>7, <1>8
<1>18. GR!IsPrefix(s, s) /\ GR!IsPrefix(c, s) /\ GR!IsPrefix(c, Append(s, t))
       /\ GR!IsPrefix(s, Append(s, t)) /\ GR!IsPrefix(x, x)
  <2>1. GR!IsPrefix(c, s)
    BY <1>2
  <2>. HIDE DEF c, s
  <2>2. /\ GR!IsPrefix(s, s) /\ GR!IsPrefix(c, Append(s, t)) /\ GR!IsPrefix(s, Append(s, t))
    BY <1>7, <2>1, PrefixFacts
  <2>3. GR!IsPrefix(Append(s, t), Append(s, t))
    <3>1. Append(s, t) \in Seq(GR!Tokens)
      BY <1>7, AppendProperties
    <3>. QED  BY <1>7, <2>2, <3>1, PrefixFacts, Zenon
  <2>. QED  BY <1>17, <2>1, <2>2, <2>3
<1>. HIDE DEF stopped, w, s, c, x, y, z
<1>19. GR!IsPrefix(y, x)
  BY <1>17, <1>18
<1>20. stage' = "tokens" => z = IF shape \in {"chat", "remote"} THEN y ELSE x
  <2>1. CASE shape \in {"chat", "remote"} /\ stopped
    BY <1>10, <1>16, <1>17, <2>1
  <2>2. CASE shape \in {"chat", "remote"} /\ ~stopped
    BY <1>4, <1>9, <1>10, <1>16, <1>17, <2>2
  <2>3. CASE shape \notin {"chat", "remote"}
    BY <1>4, <1>10, <1>16, <1>17, <2>3
  <2>. QED  BY <2>1, <2>2, <2>3
<1>21. stage' = "tokens" => /\ GR!Without(passed', "thought") = Aloud'
                            /\ GR!IsPrefix(Spoken(Cut(answer')), Spoken(answer'))
  BY <1>0, <1>19, <1>20 DEF x, y, z, Aloud
<1>22. stage' \notin {"tokens", "ended"} => passed' = <<>>
  BY <1>13
<1>. QED  BY <1>5, <1>12, <1>14, <1>21, <1>22 DEF PassedOn

LEMMA FinishPassed ==
    ASSUME StreamInv, GR!Finish
    PROVE  PassedOn'
<1>0. /\ stage = "tokens" /\ stage' = "ended" /\ UNCHANGED <<shape, answer, passed>>
      /\ outcome' = "answer" => \E told \in BOOLEAN : result' = GR!Measured(told)
      /\ answer \in Seq(GR!Tokens)
  BY DEF GR!Finish, GR!Raise, StreamInv, GenerationInv, GenerationTypes
<1>1. /\ passed \in Seq(GR!Tokens) /\ GR!Without(passed, "thought") = Aloud
      /\ GR!IsPrefix(Spoken(Cut(answer)), Spoken(answer))
      /\ shape = "vision" => ~GR!Stopped(answer)
  BY <1>0 DEF StreamInv, PassedOn
<1>2. GR!StreamFollowsAnswer'
  <2> SUFFICES ASSUME outcome' = "answer" PROVE GR!StreamFollowsAnswer'
    BY DEF GR!StreamFollowsAnswer
  <2>1. result'.text = GR!Without(GR!Final, "thought")
    BY <1>0 DEF GR!Measured
  <2>2. GR!Final = Cut(answer)
    BY DEF GR!Final, Cut
  <2>3. GR!Without(result'.text, "half") = Spoken(Cut(answer))
    BY <2>1, <2>2 DEF Spoken
  <2>. DEFINE shown == GR!Without(passed, "thought")
              whole == Spoken(Cut(answer))
  <2>4. GR!IsPrefix(whole, shown)
    <3>1. CASE shape \in {"chat", "remote"}
      <4>1. shown = whole /\ GR!IsPrefix(whole, whole)
        <5>1. Cut(answer) \in Seq(GR!Tokens) /\ "word" \in GR!Tokens
          BY <1>0, CutOne DEF GR!Tokens
        <5>2. whole \in Seq(GR!Tokens) /\ Spoken(answer) \in Seq(GR!Tokens)
          BY <1>0, <5>1, SpokenOne
        <5>3. GR!IsPrefix(whole, whole)
          BY DEF GR!IsPrefix
        <5>. QED  BY <1>1, <3>1, <5>3 DEF Aloud
      <4>. QED  BY <4>1
    <3>2. CASE shape \notin {"chat", "remote"}
      BY <1>1, <3>2 DEF Aloud
    <3>. QED  BY <3>1, <3>2
  <2>5. shown # whole => shape = "completion" /\ GR!Stopped(answer)
    <3>1. shape \in {"chat", "completion", "vision", "remote"}
      BY DEF StreamInv, GenerationInv, GenerationTypes, GR!TypeOK, GR!Shapes
    <3>2. ~GR!Stopped(answer) => Cut(answer) = answer
      BY <1>0, NothingCut
    <3>. QED  BY <1>1, <3>1, <3>2 DEF Aloud
  <2>. QED  BY <1>0, <2>3, <2>4, <2>5 DEF GR!StreamFollowsAnswer, GR!Stopped
<1>3. shape' = "vision" => ~GR!Stopped(answer')
  BY <1>0, <1>1
<1>. QED  BY <1>0, <1>1, <1>2, <1>3 DEF PassedOn

LEMMA StreamStep == StreamInv /\ [Next]_vars => StreamInv'
<1> SUFFICES ASSUME StreamInv, [Next]_vars PROVE StreamInv'
  OBVIOUS
<1>0. GenerationInv /\ GenerationInv'
  BY GenerationStep DEF StreamInv
<1>1. GR!Next \/ UNCHANGED GR!gVars
  <2>1. CASE Next
    BY <2>1 DEF Next, generationVars, GR!gVars
  <2>2. CASE UNCHANGED vars
    BY <2>2 DEF vars, generationVars, GR!gVars
  <2>. QED  BY <2>1, <2>2
<1>2. CASE GR!Begin
  <2>1. /\ stage = "begin" /\ stage' = "load" /\ UNCHANGED <<answer, passed, outcome>>
        /\ outcome = "none"
    BY <1>0, <1>2 DEF GR!Begin, GenerationInv, EndsOnce
  <2>. QED  BY <1>0, <2>1, QuietStep
<1>3. CASE GR!Cancel
  <2>1. /\ UNCHANGED <<shape, stage, answer, passed, outcome>> /\ outcome = "none"
    BY <1>0, <1>3 DEF GR!Cancel, GenerationInv, EndsOnce
  <2>. QED  BY <1>0, <2>1, QuietStep DEF StreamInv, PassedOn
<1>4. CASE GR!Load \/ GR!Lease \/ GR!Limit \/ GR!Prompted
  <2>1. /\ stage \in {"load", "queue", "limit", "prompt"} /\ UNCHANGED <<shape, answer, passed>>
        /\ stage' = "tokens" => stage = "prompt"
        /\ outcome = "none" /\ outcome' # "answer"
    BY <1>0, <1>4 DEF GR!Load, GR!Lease, GR!Limit, GR!Prompted, GR!Raise, GenerationInv, EndsOnce
  <2>. QED  BY <1>0, <2>1, QuietStep
<1>5. CASE GR!Token
  BY <1>0, <1>5, TokenPassed DEF StreamInv
<1>6. CASE GR!Finish
  BY <1>0, <1>6, FinishPassed DEF StreamInv
<1>7. CASE GR!Done \/ UNCHANGED GR!gVars
  <2>1. UNCHANGED <<shape, asked, stage, answer, passed, outcome, result>>
    BY <1>7 DEF GR!Done, GR!gVars
  <2>2. PassedOn'
    BY <2>1 DEF StreamInv, PassedOn, Aloud, GR!StreamFollowsAnswer
  <2>. QED  BY <1>0, <2>2 DEF StreamInv
<1>. QED  BY <1>1, <1>2, <1>3, <1>4, <1>5, <1>6, <1>7 DEF GR!Next

LEMMA StreamHolds == StreamInv => GR!StreamFollowsAnswer
  BY DEF StreamInv, PassedOn

-----------------------------------------------------------------------------
(* The streams together.                                                   *)

LEMMA AnswerIsPassedOn == Spec => []GR!StreamFollowsAnswer
BY StreamInit, StreamStep, StreamHolds, PTL DEF Spec

\* The text of a stream, for answers, texts and cuts of any length: the callbacks of a
\* generation get the final text in order and nothing beyond it but what a completion says
\* after a stop string (RuntimeManager.chat, generate); the blocks of a stream are opened,
\* written and closed in order (handle_anthropic_message, handle_openai_response); and the
\* text that tool calls are taken out of does not depend on how the model's text was cut
\* (ToolAwareTextStream).
THEOREM GatewayStreamsAreWellFormed == Spec => []StreamsAreWellFormed
<1>1. /\ GR!StreamFollowsAnswer
      /\ SB!TypeOK /\ SB!PartsAreWellFormed
      /\ TT!TypeOK /\ TT!ChunksDoNotMatter
      => StreamsAreWellFormed
  BY DEF StreamsAreWellFormed
<1>. QED  BY <1>1, AnswerIsPassedOn, BlocksAreWellFormed, ChunksNeverMatter, PTL
=============================================================================
