------------------------ MODULE ModelResidencyProofs ------------------------
(***************************************************************************)
(* Proofs about ModelResidency, for any number of threads, configurations, *)
(* entries and replicas, and whether or not a release may fail.            *)
(***************************************************************************)
EXTENDS ModelResidency, FiniteSetTheorems, TLAPS

\* What a thread works with, by the place it is at.
RolesAreKept ==
    /\ \A c \in Users : /\ using[c] = NoEntry <=> pc[c] \in {"idle", "lookup"}
                        /\ todo[c] # {} => pc[c] = "lookup"
    /\ \A c \in Requests : pc[c] \notin {"reserve", "warmed", "failed"}
    /\ \A c \in Warmers : pc[c] \notin {"generated", "leaving"}
    /\ \A c \in Stoppers :
         /\ todo[c] # {} => pc[c] = "stopping"
         /\ using[c] # NoEntry => using[c] \in todo[c] /\ ~open[using[c]]
    /\ \A c \in Threads : using[c] # NoEntry => using[c] \in loaded

\* Entries that do not exist yet are as Init made them.
NewIsUntouched ==
    /\ forgotten \subseteq loaded
    /\ \A e \in Entries \ loaded : open[e] /\ lock[e] = Nobody /\ releases[e] = 0

\* The three places of an entry exclude each other.
TableHasIt(e)   == \E k \in Configs : models[k] = e
ThreadHasIt(e)  == \E c \in Threads : e \in todo[c]

TableIsExact ==
    \A k \in Configs :
        models[k] # NoEntry =>
            LET e == models[k]
            IN  /\ \A j \in Configs : models[j] = e => j = k
                /\ e \in loaded \ forgotten
                /\ open[e] /\ lock[e] = Nobody /\ releases[e] = 0

ListsAreExact ==
    \A c \in Threads : \A e \in todo[c] :
        /\ \A d \in Threads : e \in todo[d] => d = c
        /\ e \in loaded \ forgotten
        /\ ~TableHasIt(e)
        /\ releases[e] = 0
        /\ c \in Stoppers => lock[e] = Nobody
        /\ c \notin Stoppers => ~open[e] /\ Idle(e)

NoneIsLost ==
    \A e \in loaded : \/ TableHasIt(e) \/ ThreadHasIt(e)
                      \/ releases[e] = 1 \/ e \in forgotten

\* A closed pool takes nobody in: what was idle stays idle.
LockedIsIdle   == \A e \in Entries : lock[e] # Nobody => ~open[e] /\ Idle(e)
ReleasedIsGone == \A e \in Entries : releases[e] > 0 => /\ ~open[e] /\ Drained(e)
                                                        /\ e \notin forgotten

Custody == /\ NewIsUntouched /\ TableIsExact /\ ListsAreExact /\ NoneIsLost
           /\ LockedIsIdle /\ ReleasedIsGone

\* OneWarmup without cardinalities.
Busy(c, e) == using[c] = e /\ pc[c] # "reserve"

WarmupIsExact ==
    /\ \A c, d \in Warmers : \A e \in Entries : Busy(c, e) /\ Busy(d, e) => c = d
    /\ \A e \in Entries : /\ warming[e] <=> \E c \in Warmers : Busy(c, e)
                          /\ warming[e] => warmups[e] = 0

Inv == TypeOK /\ RolesAreKept /\ Custody /\ WarmupIsExact

-----------------------------------------------------------------------------
(* Types.                                                                  *)

USE DEF Places

LEMMA Kinds ==
    /\ Requests \subseteq Users /\ Warmers \subseteq Users
    /\ Users \subseteq Threads /\ Stoppers \subseteq Threads
    /\ \A c \in Users : c \in Requests \/ c \in Warmers
    /\ \A c \in Users : c \notin Stoppers
    /\ \A c \in Requests : c \notin Warmers
    /\ Nobody \notin Threads /\ Nobody \notin Users
BY ResidencyAssumption DEF Threads, Users

LEMMA InitInv == Init => Inv
<1>. SUFFICES ASSUME Init PROVE Inv
  OBVIOUS
<1>1. TypeOK
  BY Kinds DEF Init, TypeOK
<1>2. RolesAreKept
  BY Kinds DEF Init, RolesAreKept
<1>3. Custody
  BY DEF Init, Custody, NewIsUntouched, TableIsExact, ListsAreExact, NoneIsLost,
         LockedIsIdle, ReleasedIsGone
<1>4. WarmupIsExact
  BY Kinds, ResidencyAssumption DEF Init, WarmupIsExact, Busy
<1>. QED  BY <1>1, <1>2, <1>3, <1>4 DEF Inv

LEMMA LeaseTypes ==
    ASSUME TypeOK, NEW c \in Users, NEW e \in Entries, Lease(c, e)
    PROVE  /\ owner' \in [Entries -> [Replicas -> Users \cup {Nobody}]]
           /\ \E p \in {"running", "admission"} : pc' = [pc EXCEPT ![c] = p]
           /\ \A f \in Entries \ {e} : owner'[f] = owner[f]
<1>1. PICK r \in Replicas : owner' = [owner EXCEPT ![e][r] = c]
  BY DEF Lease, FreeReplicas
<1>2. owner \in [Entries -> [Replicas -> Users \cup {Nobody}]]
  BY DEF TypeOK
<1>3. \E p \in {"running", "admission"} : pc' = [pc EXCEPT ![c] = p]
  BY Zenon DEF Lease
<1>. QED  BY <1>1, <1>2, <1>3

LEMMA ReturnTypes ==
    ASSUME TypeOK, NEW c \in Users, using[c] # NoEntry, Return(c)
    PROVE  /\ owner' \in [Entries -> [Replicas -> Users \cup {Nobody}]]
           /\ \A e \in Entries : (Drained(e) => Drained(e)')
BY Kinds DEF TypeOK, Return, LeasesOf, Drained, FreeReplicas

LEMMA TypeInv == Inv /\ [Next]_vars => TypeOK'
<1>. SUFFICES ASSUME Inv, [Next]_vars PROVE TypeOK'
  OBVIOUS
<1>. TypeOK /\ RolesAreKept /\ Custody /\ WarmupIsExact
  BY DEF Inv
<1>. USE Kinds
<1>1. ASSUME NEW c \in Users, UserStep(c) PROVE TypeOK'
  <2>. USE <1>1
  <2>1. ASSUME NEW k \in Configs, GetOrLoad(c, k) PROVE TypeOK'
    <3>1. \A x \in Entries : Obtain(c, x) => /\ using' \in [Threads -> Entries \cup {NoEntry}]
                                             /\ forever' \in [Entries -> BOOLEAN]
                                             /\ expired' \in [Entries -> BOOLEAN]
      BY DEF Obtain, Touch, TypeOK
    <3>2. \A x \in Entries : Obtain(c, x) => pc' \in [Threads -> Places]
      BY DEF Obtain, TypeOK
    <3>3. models[k] # NoEntry => models[k] \in Entries
      BY DEF TypeOK
    <3>. QED  BY <2>1, <3>1, <3>2, <3>3 DEF GetOrLoad, TypeOK
  <2>2. CASE AdmitDirect(c) \/ AdmitQueued(c)
    <3>1. using[c] \in Entries
      BY <2>2 DEF AdmitDirect, AdmitQueued, TypeOK, RolesAreKept
    <3>2. Lease(c, using[c])
      BY <2>2 DEF AdmitDirect, AdmitQueued
    <3>3. owner' \in [Entries -> [Replicas -> Users \cup {Nobody}]]
      BY <3>1, <3>2, LeaseTypes
    <3>4. pc' \in [Threads -> Places]
      BY <3>1, <3>2, LeaseTypes DEF TypeOK
    <3>5. waiters' \in [Entries -> SUBSET Users]
      BY <2>2, <3>1 DEF AdmitDirect, AdmitQueued, TypeOK
    <3>. QED  BY <2>2, <3>3, <3>4, <3>5 DEF AdmitDirect, AdmitQueued, TypeOK
  <2>3. CASE Enqueue(c)
    BY <2>3 DEF Enqueue, TypeOK
  <2>8. CASE Refused(c)
    <3>1. /\ pc' \in [Threads -> Places]
          /\ using' \in [Threads -> Entries \cup {NoEntry}]
      BY <2>8 DEF Refused, TypeOK
    <3>2. waiters' \in [Entries -> SUBSET Users]
      <4>. waiters' = [waiters EXCEPT ![using[c]] = @ \ {c}]
        BY <2>8 DEF Refused
      <4>. QED  BY DEF TypeOK
    <3>. QED  BY <2>8, <3>1, <3>2 DEF Refused, TypeOK
  <2>4. CASE GenerationEnds(c) \/ WarmupRuns(c)
    BY <2>4 DEF GenerationEnds, WarmupRuns, TypeOK, entryVars
  <2>5. CASE MarkUsed(c) \/ Reserve(c)
    BY <2>5 DEF MarkUsed, Reserve, Touch, TypeOK
  <2>6. CASE Leave(c) \/ WarmupReleases(c)
    <3>1. using[c] # NoEntry /\ Return(c)
      BY <2>6 DEF Leave, WarmupReleases, RolesAreKept
    <3>2. owner' \in [Entries -> [Replicas -> Users \cup {Nobody}]]
      BY <3>1, ReturnTypes
    <3>3. CASE Leave(c)
      BY <3>2, <3>3 DEF Leave, TypeOK
    <3>4. CASE WarmupReleases(c)
      BY <3>2, <3>4 DEF WarmupReleases, TypeOK
    <3>. QED  BY <2>6, <3>3, <3>4
  <2>7. CASE WarmupEnds(c)
    <3>1. using[c] \in Entries /\ c \in Warmers
      BY <2>7 DEF WarmupEnds, TypeOK, RolesAreKept
    <3>2. warmups[using[c]] = 0
      BY <2>7, <3>1 DEF WarmupEnds, WarmupIsExact, Busy
    <3>. QED  BY <2>7, <3>1, <3>2 DEF WarmupEnds, Touch, TypeOK
  <2>. QED  BY <2>1, <2>2, <2>3, <2>4, <2>5, <2>6, <2>7, <2>8 DEF UserStep
<1>2. ASSUME NEW c \in Threads, Sweep(c) PROVE TypeOK'
  <2>1. Victims(c) \subseteq Entries
    BY DEF Victims, Mapped, TypeOK
  <2>. QED  BY <1>2, <2>1 DEF Sweep, Remove, TypeOK
<1>3. ASSUME NEW c \in Threads, NEW e \in Entries, Evict(c, e) PROVE TypeOK'
  <2>1. releases[e] = 0
    BY <1>3 DEF Evict, Custody, ListsAreExact
  <2>2. releases' \in [Entries -> 0 .. 1] /\ lock' \in [Entries -> Threads \cup {Nobody}]
    BY <1>3, <2>1 DEF Evict, TypeOK
  <2>3. todo' \in [Threads -> SUBSET Entries]
    <3>1. \/ todo' = [todo EXCEPT ![c] = @ \ {e}]
         \/ todo' = [todo EXCEPT ![c] = {}]
      BY <1>3 DEF Evict
    <3>2. todo[c] \ {e} \in SUBSET Entries /\ {} \in SUBSET Entries
      BY DEF TypeOK
    <3>3. todo \in [Threads -> SUBSET Entries]
      BY DEF TypeOK
    <3>. HIDE DEF Inv
    <3>4. PICK rest \in SUBSET Entries : todo' = [todo EXCEPT ![c] = rest]
      BY <3>1, <3>2
    <3>. QED  BY <3>3, <3>4
  <2>4. \/ pc' = pc
        \/ \E p \in {"idle", "dead"} : pc' = [pc EXCEPT ![c] = p]
    BY <1>3, Zenon DEF Evict
  <2>5. pc' \in [Threads -> Places]
    BY <2>4 DEF TypeOK
  <2>. QED  BY <1>3, <2>2, <2>3, <2>5 DEF Evict, TypeOK
<1>4. ASSUME NEW c \in Stoppers, NEW ks \in SUBSET Configs, Stop(c, ks) PROVE TypeOK'
  BY <1>4 DEF Stop, Remove, TypeOK, entryVars
<1>5. ASSUME NEW c \in Stoppers, NEW e \in Entries, StopCloses(c, e) PROVE TypeOK'
  BY <1>5 DEF StopCloses, TypeOK
<1>6. ASSUME NEW c \in Stoppers, StopReleases(c) PROVE TypeOK'
  <2>1. using[c] \in Entries /\ using[c] \in todo[c]
    BY <1>6 DEF StopReleases, TypeOK, RolesAreKept
  <2>2. releases[using[c]] = 0
    BY <2>1 DEF Custody, ListsAreExact
  <2>3. releases' \in [Entries -> 0 .. 1] /\ using' \in [Threads -> Entries \cup {NoEntry}]
    BY <1>6, <2>1, <2>2 DEF StopReleases, TypeOK
  <2>4. pc' \in [Threads -> Places] /\ todo' \in [Threads -> SUBSET Entries]
    BY <1>6 DEF StopReleases, TypeOK
  <2>. QED  BY <1>6, <2>3, <2>4 DEF StopReleases, TypeOK
<1>7. ASSUME NEW e \in Entries, Expire(e) PROVE TypeOK'
  BY <1>7 DEF Expire, TypeOK
<1>8. CASE UNCHANGED vars
  BY <1>8 DEF TypeOK, vars, entryVars
<1>. QED
  BY <1>1, <1>2, <1>3, <1>4, <1>5, <1>6, <1>7, <1>8 DEF Next

-----------------------------------------------------------------------------
(* Roles.                                                                  *)

\* Only c moves, and to a place that fits what it works with.
OnlyMoves(c) == \A d \in Threads \ {c} : pc'[d] = pc[d] /\ using'[d] = using[d]

FitsUser(c, p, e) ==
    /\ e = NoEntry <=> p \in {"idle", "lookup"}
    /\ c \in Requests => p \notin {"reserve", "warmed", "failed"}
    /\ c \in Warmers => p \notin {"generated", "leaving"}

LEMMA UserMoves ==
    ASSUME RolesAreKept, NEW c \in Users, OnlyMoves(c), UNCHANGED <<open, todo>>,
           loaded \subseteq loaded', todo[c] = {}, FitsUser(c, pc'[c], using'[c]),
           using'[c] # NoEntry => using'[c] \in loaded'
    PROVE  RolesAreKept'
BY Kinds DEF RolesAreKept, OnlyMoves, FitsUser

LEMMA RolesInv == Inv /\ [Next]_vars => RolesAreKept'
<1>. SUFFICES ASSUME Inv, [Next]_vars PROVE RolesAreKept'
  OBVIOUS
<1>. TypeOK /\ RolesAreKept /\ Custody
  BY DEF Inv
<1>. USE Kinds, ResidencyAssumption DEF RolesAreKept
<1>1. ASSUME NEW c \in Users, UserStep(c) PROVE RolesAreKept'
  <2>1. ASSUME NEW k \in Configs, GetOrLoad(c, k) PROVE RolesAreKept'
    <3>1. OnlyMoves(c)
      BY <2>1 DEF GetOrLoad, Obtain, TypeOK, OnlyMoves
    <3>2. FitsUser(c, pc'[c], using'[c])
      BY <2>1 DEF GetOrLoad, Obtain, TypeOK, FitsUser
    <3>3. using'[c] # NoEntry => using'[c] \in loaded'
      BY <2>1 DEF GetOrLoad, Obtain, TypeOK, Custody, TableIsExact
    <3>. QED  BY <2>1, <3>1, <3>2, <3>3, UserMoves DEF GetOrLoad
  <2>. SUFFICES ASSUME ~(\E k \in Configs : GetOrLoad(c, k)) PROVE RolesAreKept'
    BY <2>1
  <2>2. pc[c] # "lookup" /\ OnlyMoves(c) /\ FitsUser(c, pc'[c], using'[c])
    <3>1. CASE AdmitDirect(c)
      BY <3>1 DEF AdmitDirect, Lease, TypeOK, OnlyMoves, FitsUser
    <3>2. CASE AdmitQueued(c)
      BY <3>2 DEF AdmitQueued, Lease, TypeOK, OnlyMoves, FitsUser
    <3>3. CASE Enqueue(c)
      BY <3>3 DEF Enqueue, TypeOK, OnlyMoves, FitsUser
    <3>4. CASE Refused(c)
      BY <3>4 DEF Refused, TypeOK, OnlyMoves, FitsUser
    <3>5. CASE GenerationEnds(c) \/ WarmupRuns(c)
      BY <3>5 DEF GenerationEnds, WarmupRuns, TypeOK, OnlyMoves, FitsUser
    <3>6. CASE MarkUsed(c) \/ Leave(c)
      BY <3>6 DEF MarkUsed, Leave, TypeOK, OnlyMoves, FitsUser
    <3>7. CASE Reserve(c)
      BY <3>7 DEF Reserve, TypeOK, OnlyMoves, FitsUser
    <3>8. CASE WarmupReleases(c)
      BY <3>8 DEF WarmupReleases, TypeOK, OnlyMoves, FitsUser
    <3>9. CASE WarmupEnds(c)
      BY <3>9 DEF WarmupEnds, TypeOK, OnlyMoves, FitsUser
    <3>. QED
      BY <1>1, <3>1, <3>2, <3>3, <3>4, <3>5, <3>6, <3>7, <3>8, <3>9 DEF UserStep
  <2>3. UNCHANGED <<models, loaded, open, releases, forgotten, lock, todo>>
    BY <1>1 DEF UserStep, AdmitDirect, AdmitQueued, Enqueue, Refused, GenerationEnds,
                WarmupRuns, MarkUsed, Leave, Reserve, WarmupReleases, WarmupEnds, entryVars
  <2>4. using'[c] \in {using[c], NoEntry}
    BY <1>1 DEF UserStep, AdmitDirect, AdmitQueued, Enqueue, Refused, GenerationEnds,
                WarmupRuns, MarkUsed, Leave, Reserve, WarmupReleases, WarmupEnds, TypeOK
  <2>. QED  BY <2>2, <2>3, <2>4, UserMoves
<1>2. ASSUME NEW c \in Threads, Sweep(c) PROVE RolesAreKept'
  BY <1>2 DEF Sweep, TypeOK
<1>3. ASSUME NEW c \in Threads, NEW e \in Entries, Evict(c, e) PROVE RolesAreKept'
  <2>1. c \in Users => pc[c] = "lookup"
    BY <1>3 DEF Evict
  <2>2. \/ UNCHANGED pc
        \/ todo'[c] = {} /\ pc' = [pc EXCEPT ![c] = IF c \in Users THEN "idle" ELSE "dead"]
    BY <1>3 DEF Evict, TypeOK
  <2>3. \A d \in Threads \ {c} : pc'[d] = pc[d] /\ todo'[d] = todo[d]
    BY <1>3 DEF Evict, TypeOK
  <2>4. c \in Users /\ todo'[c] # {} => pc'[c] = "lookup"
    BY <2>1, <2>2
  <2>5. c \in Users => pc'[c] \in {"idle", "lookup"}
    BY <2>1, <2>2 DEF TypeOK
  <2>. QED  BY <1>3, <2>1, <2>3, <2>4, <2>5 DEF Evict
<1>4. ASSUME NEW c \in Stoppers, NEW ks \in SUBSET Configs, Stop(c, ks)
      PROVE  RolesAreKept'
  BY <1>4 DEF Stop, TypeOK, entryVars
<1>5. ASSUME NEW c \in Stoppers, NEW e \in Entries, StopCloses(c, e)
      PROVE  RolesAreKept'
  BY <1>5 DEF StopCloses, TypeOK, Custody, ListsAreExact
<1>6. ASSUME NEW c \in Stoppers, StopReleases(c) PROVE RolesAreKept'
  BY <1>6 DEF StopReleases, TypeOK
<1>7. CASE (\E e \in Entries : Expire(e)) \/ UNCHANGED vars
  BY <1>7 DEF Expire, vars, entryVars
<1>. QED
  BY <1>1, <1>2, <1>3, <1>4, <1>5, <1>6, <1>7 DEF Next

-----------------------------------------------------------------------------
(* Warm-ups.                                                               *)

\* Nobody's part in a warm-up changes.
LEMMA WarmupKept ==
    ASSUME WarmupIsExact, UNCHANGED <<warming, warmups>>,
           \A c \in Warmers : \A e \in Entries : Busy(c, e)' <=> Busy(c, e)
    PROVE  WarmupIsExact'
BY DEF WarmupIsExact

LEMMA WarmupInv == Inv /\ [Next]_vars => WarmupIsExact'
<1>. SUFFICES ASSUME Inv, [Next]_vars PROVE WarmupIsExact'
  OBVIOUS
<1>. TypeOK /\ RolesAreKept /\ WarmupIsExact
  BY DEF Inv
<1>. USE Kinds, ResidencyAssumption
<1>1. ASSUME NEW c \in Users, UserStep(c) PROVE WarmupIsExact'
  <2>1. CASE Reserve(c)
    <3>0. PICK e \in Entries : e = using[c]
      BY <2>1 DEF Reserve, TypeOK, RolesAreKept
    <3>1. c \in Warmers /\ e \in Entries /\ pc[c] = "reserve" /\ UNCHANGED warmups
      BY <2>1 DEF Reserve, TypeOK, RolesAreKept
    <3>2. \A d \in Warmers \ {c} : \A f \in Entries : Busy(d, f)' <=> Busy(d, f)
      BY <2>1 DEF Reserve, Busy, TypeOK
    <3>3. CASE ~Taken(e)
      <4>1. warming' = [warming EXCEPT ![e] = TRUE] /\ Busy(c, e)' /\ warmups[e] = 0
        BY <2>1, <3>0, <3>1, <3>3 DEF Reserve, Busy, Taken, TypeOK
      <4>2. \A f \in Entries \ {e} : ~Busy(c, f)' /\ ~Busy(c, f)
        BY <2>1, <3>0, <3>3 DEF Reserve, Busy, TypeOK
      <4>3. \A d \in Warmers : ~Busy(d, e)
        BY <3>1, <3>3 DEF Taken, WarmupIsExact
      <4>4. \A f \in Entries : \A d \in Warmers :
               Busy(d, f)' <=> IF f = e THEN d = c ELSE Busy(d, f)
        <5>1. ASSUME NEW f \in Entries, NEW d \in Warmers, d # c
              PROVE  Busy(d, f)' <=> IF f = e THEN d = c ELSE Busy(d, f)
          BY <3>2, <4>3, <5>1
        <5>2. ASSUME NEW f \in Entries
              PROVE  Busy(c, f)' <=> IF f = e THEN TRUE ELSE Busy(c, f)
          <6>1. CASE f = e
            BY <4>1, <6>1
          <6>2. CASE f # e
            BY <4>2, <6>2
          <6>. QED  BY <6>1, <6>2
        <5>. QED  BY <5>1, <5>2
      <4>5. warming'[e] /\ \A f \in Entries \ {e} : warming'[f] = warming[f]
        BY <3>1, <4>1 DEF TypeOK
      <4>6. \A d, x \in Warmers : \A f \in Entries : Busy(d, f)' /\ Busy(x, f)' => d = x
        BY <4>4 DEF WarmupIsExact
      <4>7. ASSUME NEW f \in Entries
            PROVE  /\ warming'[f] <=> \E d \in Warmers : Busy(d, f)'
                   /\ warming'[f] => warmups'[f] = 0
        BY <3>1, <4>1, <4>4, <4>5 DEF WarmupIsExact
      <4>. QED  BY <4>6, <4>7 DEF WarmupIsExact
    <3>4. CASE Taken(e)
      <4>1. UNCHANGED warming
        BY <2>1, <3>0, <3>4 DEF Reserve
      <4>2. \A f \in Entries : ~Busy(c, f)' /\ ~Busy(c, f)
        BY <2>1, <3>0, <3>4 DEF Reserve, Busy, TypeOK
      <4>. QED  BY <3>1, <3>2, <4>1, <4>2, WarmupKept
    <3>. QED  BY <3>3, <3>4
  <2>2. CASE WarmupEnds(c)
    BY <2>2 DEF WarmupEnds, Busy, WarmupIsExact, TypeOK, RolesAreKept
  <2>3. CASE \E k \in Configs : GetOrLoad(c, k)
    <3>1. UNCHANGED <<warming, warmups>>
      BY <2>3 DEF GetOrLoad
    <3>2. \A d \in Warmers : \A e \in Entries : Busy(d, e)' <=> Busy(d, e)
      BY <2>3 DEF GetOrLoad, Obtain, Busy, TypeOK, RolesAreKept
    <3>. QED  BY <3>1, <3>2, WarmupKept
  <2>4. CASE Refused(c)
    <3>1. \A d \in Warmers : \A e \in Entries : Busy(d, e)' <=> Busy(d, e)
      BY <2>4 DEF Refused, Busy, TypeOK
    <3>. QED  BY <2>4, <3>1, WarmupKept DEF Refused
  <2>5. CASE AdmitDirect(c) \/ AdmitQueued(c) \/ Enqueue(c)
    <3>1. \A d \in Warmers : \A e \in Entries : Busy(d, e)' <=> Busy(d, e)
      BY <2>5 DEF AdmitDirect, AdmitQueued, Enqueue, Lease, Busy, TypeOK
    <3>. QED  BY <2>5, <3>1, WarmupKept DEF AdmitDirect, AdmitQueued, Enqueue
  <2>6. CASE GenerationEnds(c) \/ WarmupRuns(c) \/ WarmupReleases(c)
    <3>1. \A d \in Warmers : \A e \in Entries : Busy(d, e)' <=> Busy(d, e)
      BY <2>6 DEF GenerationEnds, WarmupRuns, WarmupReleases, Busy, TypeOK
    <3>. QED
      BY <2>6, <3>1, WarmupKept DEF GenerationEnds, WarmupRuns, WarmupReleases, entryVars
  <2>7. CASE MarkUsed(c) \/ Leave(c)
    <3>1. \A d \in Warmers : \A e \in Entries : Busy(d, e)' <=> Busy(d, e)
      BY <2>7 DEF MarkUsed, Leave, Busy, TypeOK, RolesAreKept
    <3>. QED  BY <2>7, <3>1, WarmupKept DEF MarkUsed, Leave
  <2>. QED  BY <1>1, <2>1, <2>2, <2>3, <2>4, <2>5, <2>6, <2>7 DEF UserStep
<1>2. ASSUME NEW c \in Threads, Sweep(c) PROVE WarmupIsExact'
  <2>1. \A d \in Warmers : \A e \in Entries : Busy(d, e)' <=> Busy(d, e)
    <3>1. c \in Warmers => using[c] = NoEntry
      BY <1>2 DEF Sweep, RolesAreKept
    <3>2. UNCHANGED using /\ \A d \in Threads \ {c} : pc'[d] = pc[d]
      BY <1>2 DEF Sweep, TypeOK
    <3>. QED  BY <3>1, <3>2 DEF Busy
  <2>. QED  BY <1>2, <2>1, WarmupKept DEF Sweep
<1>3. ASSUME NEW c \in Threads, NEW e \in Entries, Evict(c, e) PROVE WarmupIsExact'
  <2>1. \A d \in Warmers : \A f \in Entries : Busy(d, f)' <=> Busy(d, f)
    <3>1. c \in Warmers => using[c] = NoEntry
      BY <1>3 DEF Evict, RolesAreKept
    <3>2. UNCHANGED using /\ \A d \in Threads \ {c} : pc'[d] = pc[d]
      BY <1>3 DEF Evict, TypeOK
    <3>. QED  BY <3>1, <3>2 DEF Busy
  <2>. QED  BY <1>3, <2>1, WarmupKept DEF Evict
<1>4. ASSUME NEW c \in Stoppers, \/ \E ks \in SUBSET Configs : Stop(c, ks)
                                 \/ \E e \in Entries : StopCloses(c, e)
                                 \/ StopReleases(c)
      PROVE  WarmupIsExact'
  <2>1. \A d \in Warmers : \A f \in Entries : Busy(d, f)' <=> Busy(d, f)
    <3>1. CASE \E ks \in SUBSET Configs : Stop(c, ks)
      BY <3>1 DEF Stop, Busy, TypeOK
    <3>2. CASE \E e \in Entries : StopCloses(c, e)
      BY <3>2 DEF StopCloses, Busy, TypeOK
    <3>3. CASE StopReleases(c)
      <4>. \A d \in Threads \ {c} : pc'[d] = pc[d] /\ using'[d] = using[d]
        BY <3>3 DEF StopReleases, TypeOK
      <4>. QED  BY DEF Busy
    <3>. QED  BY <1>4, <3>1, <3>2, <3>3
  <2>. QED
    BY <1>4, <2>1, WarmupKept DEF Stop, StopCloses, StopReleases, entryVars
<1>5. CASE (\E e \in Entries : Expire(e)) \/ UNCHANGED vars
  BY <1>5, WarmupKept DEF Expire, vars, entryVars, Busy
<1>. QED
  BY <1>1, <1>2, <1>3, <1>4, <1>5 DEF Next

-----------------------------------------------------------------------------
(* Custody.                                                                *)

\* No entry changes hands, and no closed pool gets a lease or a waiter.
SamePlaces ==
    UNCHANGED <<models, loaded, open, lock, releases, forgotten, todo>>

NoneTakenIn ==
    \A e \in Entries :
        ~open[e] => (Idle(e) => Idle(e)') /\ (Drained(e) => Drained(e)')

LEMMA CustodyKept == Custody /\ SamePlaces /\ NoneTakenIn /\ TypeOK => Custody'
<1>. SUFFICES ASSUME Custody, SamePlaces, NoneTakenIn, TypeOK PROVE Custody'
  OBVIOUS
<1>1. NewIsUntouched' /\ TableIsExact' /\ NoneIsLost'
  BY DEF Custody, SamePlaces, NewIsUntouched, TableIsExact, NoneIsLost, TableHasIt,
         ThreadHasIt
<1>2. ListsAreExact'
  BY DEF Custody, SamePlaces, NoneTakenIn, ListsAreExact, TableHasIt, TypeOK
<1>3. LockedIsIdle' /\ ReleasedIsGone'
  BY DEF Custody, SamePlaces, NoneTakenIn, LockedIsIdle, ReleasedIsGone
<1>. QED  BY <1>1, <1>2, <1>3 DEF Custody

\* The steps of a user beside get_or_load.
LEMMA UserTakesNothingIn ==
    ASSUME Inv, NEW c \in Users, UserStep(c), ~\E k \in Configs : GetOrLoad(c, k)
    PROVE  SamePlaces /\ NoneTakenIn
<1>. TypeOK /\ RolesAreKept
  BY DEF Inv
<1>1. SamePlaces
  BY DEF SamePlaces, UserStep, AdmitDirect, AdmitQueued, Enqueue, Refused, GenerationEnds,
         WarmupRuns, MarkUsed, Leave, Reserve, WarmupReleases, WarmupEnds, entryVars
<1>. USE Kinds, ResidencyAssumption DEF NoneTakenIn
<1>2. CASE AdmitDirect(c) \/ AdmitQueued(c)
  <2>1. using[c] \in Entries /\ open[using[c]] /\ Lease(c, using[c])
    BY <1>2 DEF AdmitDirect, AdmitQueued, TypeOK, RolesAreKept
  <2>2. \A e \in Entries \ {using[c]} : owner'[e] = owner[e]
    BY <2>1, LeaseTypes
  <2>3. \A e \in Entries \ {using[c]} : waiters'[e] = waiters[e]
    BY <1>2, <2>1 DEF AdmitDirect, AdmitQueued, TypeOK
  <2>. QED  BY <1>1, <2>1, <2>2, <2>3 DEF Idle, Drained, FreeReplicas
<1>3. CASE Enqueue(c)
  BY <1>1, <1>3 DEF Enqueue, Idle, Drained, FreeReplicas, TypeOK
<1>4. CASE Refused(c)
  BY <1>1, <1>4 DEF Refused, Idle, Drained, FreeReplicas, TypeOK
<1>5. CASE Leave(c) \/ WarmupReleases(c)
  <2>1. using[c] # NoEntry /\ Return(c) /\ UNCHANGED waiters
    BY <1>5 DEF Leave, WarmupReleases, RolesAreKept
  <2>. QED  BY <1>1, <2>1, ReturnTypes DEF Idle
<1>6. CASE UNCHANGED <<owner, waiters>>
  BY <1>1, <1>6 DEF Idle, Drained, FreeReplicas
<1>. QED
  BY <1>2, <1>3, <1>4, <1>5, <1>6
  DEF UserStep, GenerationEnds, WarmupRuns, MarkUsed, Reserve, WarmupEnds, entryVars

\* c takes e off its list, or, when the release raises, forgets all others on it.
Released(c, e) ==
    /\ \A d \in Threads \ {c} : todo'[d] = todo[d]
    /\ \/ todo'[c] = todo[c] \ {e} /\ UNCHANGED forgotten
       \/ todo'[c] = {} /\ forgotten' = forgotten \cup (todo[c] \ {e})

LEMMA ReleaseCustody ==
    ASSUME TypeOK, Custody, NEW c \in Threads, NEW e \in todo[c], e \in Entries,
           \A d \in Threads \ {c} : e \notin todo[d],
           e \in loaded \ forgotten, ~TableHasIt(e), ~open[e], Drained(e),
           UNCHANGED <<models, loaded, open, owner, waiters>>, Released(c, e),
           releases'[e] = 1, \A f \in Entries \ {e} : releases'[f] = releases[f],
           lock'[e] = Nobody, \A f \in Entries \ {e} : lock'[f] = lock[f]
    PROVE  Custody'
<1>1. \A f \in Entries : /\ TableHasIt(f)' <=> TableHasIt(f)
                         /\ Idle(f)' <=> Idle(f)
                         /\ Drained(f)' <=> Drained(f)
  BY DEF TableHasIt, Idle, Drained, FreeReplicas
<1>2. \A d \in Threads : todo'[d] \subseteq todo[d] \ {e}
  BY DEF Released
<1>3. /\ forgotten \subseteq forgotten' /\ e \notin forgotten'
      /\ \A f \in forgotten' : f \in forgotten \/ f \in todo[c] \ {e}
      /\ \A d \in Threads \ {c} : todo'[d] = todo[d]
      /\ \A f \in todo'[c] : f \notin forgotten' \ forgotten
      /\ \A f \in todo[c] \ {e} : f \in todo'[c] \/ f \in forgotten'
  BY DEF Released
<1>4. \A f \in todo[c] : /\ f \in loaded \ forgotten /\ ~TableHasIt(f) /\ releases[f] = 0
                         /\ \A d \in Threads : f \in todo[d] => d = c
  BY DEF Custody, ListsAreExact
<1>5. NewIsUntouched'
  BY <1>3, <1>4 DEF Custody, NewIsUntouched
<1>6. TableIsExact'
  BY <1>3, <1>4 DEF Custody, TableIsExact, TableHasIt, TypeOK
<1>7. ListsAreExact'
  <2>. SUFFICES ASSUME NEW d \in Threads, NEW f \in todo'[d]
                PROVE  /\ \A x \in Threads : f \in todo'[x] => x = d
                       /\ f \in loaded \ forgotten' /\ ~TableHasIt(f)' /\ releases'[f] = 0
                       /\ d \in Stoppers => lock'[f] = Nobody
                       /\ d \notin Stoppers => ~open[f] /\ Idle(f)'
    BY DEF ListsAreExact
  <2>1. f \in todo[d] /\ f # e /\ f \in Entries
    BY <1>2 DEF TypeOK
  <2>2. f \notin forgotten'
    BY <1>3, <1>4, <2>1 DEF Custody, ListsAreExact
  <2>. QED  BY <1>1, <1>2, <2>1, <2>2 DEF Custody, ListsAreExact
<1>8. NoneIsLost'
  <2>. SUFFICES ASSUME NEW f \in loaded, f # e
                PROVE  \/ TableHasIt(f) \/ \E d \in Threads : f \in todo'[d]
                       \/ releases[f] = 1 \/ f \in forgotten'
    BY <1>1 DEF NoneIsLost, ThreadHasIt, TypeOK
  <2>. QED  BY <1>3 DEF Custody, NoneIsLost, ThreadHasIt
<1>9. LockedIsIdle'
  BY <1>1 DEF Custody, LockedIsIdle
<1>10. ReleasedIsGone'
  BY <1>1, <1>3, <1>4 DEF Custody, ReleasedIsGone
<1>. QED  BY <1>5, <1>6, <1>7, <1>8, <1>9, <1>10 DEF Custody

LEMMA CustodyInv == Inv /\ [Next]_vars => Custody'
<1>. SUFFICES ASSUME Inv, [Next]_vars PROVE Custody'
  OBVIOUS
<1>. TypeOK /\ RolesAreKept /\ Custody
  BY DEF Inv
<1>. USE Kinds, ResidencyAssumption
<1>1. ASSUME NEW c \in Users, UserStep(c) PROVE Custody'
  <2>1. ASSUME NEW k \in Configs, GetOrLoad(c, k) PROVE Custody'
    <3>1. CASE UNCHANGED <<models, loaded>>
      BY <2>1, <3>1, CustodyKept
      DEF GetOrLoad, SamePlaces, NoneTakenIn, Idle, Drained, FreeReplicas
    <3>2. ASSUME models[k] = NoEntry, NEW e \in Entries \ loaded,
                 loaded' = loaded \cup {e}, models' = [models EXCEPT ![k] = e]
          PROVE  Custody'
      <4>1. UNCHANGED <<open, owner, waiters, lock, releases, forgotten, todo>>
        BY <2>1 DEF GetOrLoad
      <4>2. /\ models'[k] = e /\ \A j \in Configs \ {k} : models'[j] = models[j]
            /\ ~TableHasIt(e) /\ ~ThreadHasIt(e)
        BY <3>2 DEF TypeOK, Custody, TableIsExact, ListsAreExact, TableHasIt, ThreadHasIt
      <4>3. /\ e \notin forgotten /\ open[e] /\ lock[e] = Nobody /\ releases[e] = 0
            /\ \A j \in Configs \ {k} : models[j] # e
        BY <3>2, <4>2 DEF Custody, NewIsUntouched, TableHasIt
      <4>6. NewIsUntouched'
        BY <3>2, <4>1 DEF Custody, NewIsUntouched
      <4>7. TableIsExact'
        BY <3>2, <4>1, <4>2, <4>3 DEF Custody, TableIsExact
      <4>8. NoneIsLost'
        <5>1. \A f \in Entries : TableHasIt(f) => TableHasIt(f)'
          BY <3>2, <4>2 DEF TableHasIt
        <5>2. TableHasIt(e)'
          BY <4>2 DEF TableHasIt
        <5>. QED
          BY <3>2, <4>1, <5>1, <5>2 DEF Custody, NoneIsLost, ThreadHasIt, TypeOK
      <4>4. ListsAreExact'
        BY <3>2, <4>1, <4>2
        DEF Custody, ListsAreExact, TableHasIt, ThreadHasIt, Idle, Drained, FreeReplicas
      <4>5. LockedIsIdle' /\ ReleasedIsGone'
        BY <4>1 DEF Custody, LockedIsIdle, ReleasedIsGone, Idle, Drained, FreeReplicas
      <4>. QED  BY <4>4, <4>5, <4>6, <4>7, <4>8 DEF Custody
    <3>. QED  BY <2>1, <3>1, <3>2 DEF GetOrLoad
  <2>. QED  BY <1>1, <2>1, UserTakesNothingIn, CustodyKept
<1>2. ASSUME NEW c \in Threads, Sweep(c) PROVE Custody'
  <2>. DEFINE gone == Victims(c)
  <2>1. /\ gone \subseteq Entries
        /\ \A e \in gone : TableHasIt(e) /\ Idle(e)
    BY DEF Victims, Mapped, TypeOK, TableHasIt
  <2>2. /\ UNCHANGED <<loaded, owner, waiters, releases, forgotten>>
        /\ todo[c] = {} /\ todo' = [todo EXCEPT ![c] = gone] /\ c \notin Stoppers
        /\ models' = [k \in Configs |-> IF models[k] \in gone THEN NoEntry ELSE models[k]]
        /\ open' = [e \in Entries |-> open[e] /\ e \notin gone]
        /\ lock' = [e \in Entries |-> IF e \in gone THEN c ELSE lock[e]]
    BY <1>2 DEF Sweep, Remove
  <2>3. \A e \in Entries : (Idle(e)' <=> Idle(e)) /\ (Drained(e)' <=> Drained(e))
    BY <2>2 DEF Idle, Drained, FreeReplicas
  <2>4. \A e \in Entries : TableHasIt(e)' <=> TableHasIt(e) /\ e \notin gone
    BY <2>2 DEF TableHasIt
  <2>5. \A e \in gone : e \in loaded \ forgotten /\ releases[e] = 0 /\ ~ThreadHasIt(e)
    BY <2>1 DEF Custody, TableIsExact, ListsAreExact, TableHasIt, ThreadHasIt
  <2>. HIDE DEF gone
  <2>6. todo'[c] = gone /\ \A d \in Threads \ {c} : todo'[d] = todo[d]
    BY <2>2 DEF TypeOK
  <2>7. NewIsUntouched' /\ TableIsExact'
    BY <2>1, <2>2, <2>5 DEF Custody, NewIsUntouched, TableIsExact, TypeOK
  <2>8. ListsAreExact'
    <3>. SUFFICES ASSUME NEW d \in Threads, NEW e \in todo'[d]
                  PROVE  /\ \A x \in Threads : e \in todo'[x] => x = d
                         /\ e \in loaded \ forgotten /\ ~TableHasIt(e)' /\ releases[e] = 0
                         /\ d \in Stoppers => lock'[e] = Nobody
                         /\ d \notin Stoppers => ~open'[e] /\ Idle(e)'
      BY <2>2 DEF ListsAreExact
    <3>1. CASE d = c
      <4>1. e \in gone /\ e \in Entries
        BY <2>1, <2>6, <3>1
      <4>2. \A x \in Threads \ {c} : e \notin todo'[x]
        BY <2>5, <2>6, <4>1 DEF ThreadHasIt
      <4>3. /\ e \in loaded \ forgotten /\ ~TableHasIt(e)' /\ releases[e] = 0
            /\ d \notin Stoppers /\ Idle(e)'
        BY <2>1, <2>2, <2>3, <2>4, <2>5, <3>1, <4>1
      <4>4. ~open'[e]
        BY <2>2, <4>1
      <4>5. \A x \in Threads : e \in todo'[x] => x = d
        BY <3>1, <4>2
      <4>6. d \in Stoppers => lock'[e] = Nobody
        BY <4>3
      <4>. QED  BY <4>3, <4>4, <4>5, <4>6
    <3>2. CASE d # c
      <4>1. e \in todo[d] /\ e \in Entries
        BY <2>6, <3>2 DEF TypeOK
      <4>2. e \notin gone
        BY <2>5, <4>1 DEF ThreadHasIt
      <4>3. /\ \A x \in Threads : e \in todo[x] => x = d
            /\ e \in loaded \ forgotten /\ ~TableHasIt(e) /\ releases[e] = 0
            /\ d \in Stoppers => lock[e] = Nobody
            /\ d \notin Stoppers => ~open[e] /\ Idle(e)
        BY <4>1 DEF Custody, ListsAreExact
      <4>4. \A x \in Threads : e \in todo'[x] => x = d
        BY <2>6, <4>2, <4>3
      <4>. QED  BY <2>2, <2>3, <2>4, <4>1, <4>2, <4>3, <4>4
    <3>. QED  BY <3>1, <3>2
  <2>9. NoneIsLost'
    <3>1. \A e \in Entries : ThreadHasIt(e)' <=> ThreadHasIt(e) \/ e \in gone
      BY <2>2, <2>6 DEF ThreadHasIt
    <3>. QED  BY <2>2, <2>4, <3>1 DEF Custody, NoneIsLost, TypeOK
  <2>10. LockedIsIdle' /\ ReleasedIsGone'
    BY <2>1, <2>2, <2>3 DEF Custody, LockedIsIdle, ReleasedIsGone
  <2>. QED  BY <2>7, <2>8, <2>9, <2>10 DEF Custody
<1>3. ASSUME NEW c \in Threads, NEW e \in Entries, Evict(c, e) PROVE Custody'
  <2>1. /\ c \notin Stoppers /\ e \in todo[c] /\ e \in loaded \ forgotten
        /\ ~TableHasIt(e) /\ releases[e] = 0 /\ ~open[e] /\ Idle(e)
        /\ \A d \in Threads \ {c} : e \notin todo[d]
    BY <1>3 DEF Evict, Custody, ListsAreExact
  <2>2. UNCHANGED <<models, loaded, open, owner, waiters>>
    BY <1>3 DEF Evict
  <2>3. /\ releases'[e] = 1 /\ \A f \in Entries \ {e} : releases'[f] = releases[f]
        /\ lock'[e] = Nobody /\ \A f \in Entries \ {e} : lock'[f] = lock[f]
    BY <1>3, <2>1 DEF Evict, TypeOK
  <2>4. Released(c, e)
    BY <1>3 DEF Evict, Released, TypeOK
  <2>. QED  BY <2>1, <2>2, <2>3, <2>4, ReleaseCustody DEF Idle
<1>4. ASSUME NEW c \in Stoppers, NEW ks \in SUBSET Configs, Stop(c, ks) PROVE Custody'
  <2>. DEFINE gone == {models[k] : k \in ks} \ {NoEntry}
  <2>1. \A e \in gone : TableHasIt(e) /\ e # NoEntry
    BY DEF TableHasIt
  <2>2. /\ UNCHANGED <<loaded, open, owner, waiters, lock, releases, forgotten>>
        /\ todo' = [todo EXCEPT ![c] = gone]
        /\ models' = [k \in Configs |-> IF models[k] \in gone THEN NoEntry ELSE models[k]]
    BY <1>4 DEF Stop, Remove, entryVars
  <2>. HIDE DEF gone
  <2>3. \A e \in Entries : (Idle(e)' <=> Idle(e)) /\ (Drained(e)' <=> Drained(e))
    BY <2>2 DEF Idle, Drained, FreeReplicas
  <2>4. \A e \in Entries : TableHasIt(e)' <=> TableHasIt(e) /\ e \notin gone
    BY <2>2 DEF TableHasIt
  <2>5. \A e \in gone : /\ e \in loaded \ forgotten /\ releases[e] = 0 /\ lock[e] = Nobody
                        /\ ~ThreadHasIt(e)
    BY <2>1 DEF Custody, TableIsExact, ListsAreExact, TableHasIt, ThreadHasIt
  <2>6. /\ todo[c] = {} /\ todo'[c] = gone
        /\ \A d \in Threads \ {c} : todo'[d] = todo[d]
    <3>1. pc[c] = "idle"
      BY <1>4 DEF Stop
    <3>2. todo[c] = {}
      BY <3>1 DEF RolesAreKept
    <3>3. c \in Threads /\ todo \in [Threads -> SUBSET Entries]
      BY DEF Threads, TypeOK
    <3>. HIDE DEF Inv
    <3>. QED  BY <2>2, <3>2, <3>3
  <2>7. NewIsUntouched' /\ TableIsExact'
    BY <2>2 DEF Custody, NewIsUntouched, TableIsExact, TypeOK
  <2>8. ListsAreExact'
    <3>. SUFFICES ASSUME NEW d \in Threads, NEW e \in todo'[d]
                  PROVE  /\ \A x \in Threads : e \in todo'[x] => x = d
                         /\ e \in loaded \ forgotten /\ ~TableHasIt(e)' /\ releases[e] = 0
                         /\ d \in Stoppers => lock[e] = Nobody
                         /\ d \notin Stoppers => ~open[e] /\ Idle(e)'
      BY <2>2 DEF ListsAreExact
    <3>1. CASE d = c
      <4>1. e \in gone /\ e \in Entries
        BY <2>5, <2>6, <3>1 DEF TypeOK
      <4>2. \A x \in Threads \ {c} : e \notin todo'[x]
        BY <2>5, <2>6, <4>1 DEF ThreadHasIt
      <4>. QED  BY <2>4, <2>5, <3>1, <4>1, <4>2
    <3>2. CASE d # c
      <4>1. e \in todo[d] /\ e \in Entries
        BY <2>6, <3>2 DEF TypeOK
      <4>2. e \notin gone
        BY <2>5, <4>1 DEF ThreadHasIt
      <4>. QED  BY <2>2, <2>3, <2>4, <2>6, <3>2, <4>1, <4>2 DEF Custody, ListsAreExact
    <3>. QED  BY <3>1, <3>2
  <2>9. NoneIsLost'
    <3>1. \A e \in Entries : ThreadHasIt(e)' <=> ThreadHasIt(e) \/ e \in gone
      BY <2>2, <2>6 DEF ThreadHasIt
    <3>. QED  BY <2>2, <2>4, <3>1 DEF Custody, NoneIsLost, TypeOK
  <2>10. LockedIsIdle' /\ ReleasedIsGone'
    BY <2>2, <2>3 DEF Custody, LockedIsIdle, ReleasedIsGone
  <2>. QED  BY <2>7, <2>8, <2>9, <2>10 DEF Custody
<1>5. ASSUME NEW c \in Stoppers, NEW e \in Entries, StopCloses(c, e) PROVE Custody'
  <2>1. /\ UNCHANGED <<models, loaded, owner, waiters, lock, releases, forgotten, todo>>
        /\ \A f \in Entries : open'[f] => open[f]
        /\ \A f \in Entries \ {e} : open'[f] = open[f]
    BY <1>5 DEF StopCloses, TypeOK
  <2>2. e \in loaded /\ ~TableHasIt(e)
    BY <1>5 DEF StopCloses, Custody, ListsAreExact
  <2>3. \A f \in Entries : (Idle(f)' <=> Idle(f)) /\ (Drained(f)' <=> Drained(f))
    BY <2>1 DEF Idle, Drained, FreeReplicas
  <2>4. NewIsUntouched' /\ NoneIsLost' /\ LockedIsIdle' /\ ReleasedIsGone'
    BY <2>1, <2>2, <2>3 DEF Custody, NewIsUntouched, NoneIsLost, LockedIsIdle,
                            ReleasedIsGone, TableHasIt, ThreadHasIt
  <2>5. TableIsExact'
    BY <2>1, <2>2 DEF Custody, TableIsExact, TableHasIt, TypeOK
  <2>6. ListsAreExact'
    BY <2>1, <2>3 DEF Custody, ListsAreExact, TableHasIt, TypeOK
  <2>. QED  BY <2>4, <2>5, <2>6 DEF Custody
<1>6. ASSUME NEW c \in Stoppers, StopReleases(c) PROVE Custody'
  <2>. DEFINE e == using[c]
  <2>1. e \in Entries /\ e \in todo[c] /\ ~open[e] /\ Drained(e)
    BY <1>6 DEF StopReleases, CloseReturns, RolesAreKept, TypeOK
  <2>2. /\ e \in loaded \ forgotten /\ ~TableHasIt(e) /\ releases[e] = 0 /\ lock[e] = Nobody
        /\ \A d \in Threads \ {c} : e \notin todo[d]
    BY <2>1 DEF Custody, ListsAreExact
  <2>3. UNCHANGED <<models, loaded, open, owner, waiters, lock>>
    BY <1>6 DEF StopReleases
  <2>4. releases'[e] = 1 /\ \A f \in Entries \ {e} : releases'[f] = releases[f]
    BY <1>6, <2>1, <2>2 DEF StopReleases, TypeOK
  <2>5. Released(c, e)
    BY <1>6 DEF StopReleases, Released, TypeOK
  <2>. HIDE DEF e
  <2>. QED  BY <2>1, <2>2, <2>3, <2>4, <2>5, ReleaseCustody
<1>7. CASE (\E e \in Entries : Expire(e)) \/ UNCHANGED vars
  BY <1>7, CustodyKept DEF Expire, vars, entryVars, SamePlaces, NoneTakenIn, Idle, Drained,
                           FreeReplicas
<1>. QED
  BY <1>1, <1>2, <1>3, <1>4, <1>5, <1>6, <1>7 DEF Next

-----------------------------------------------------------------------------
(* The theorems.                                                           *)

LEMMA NextInv == Inv /\ [Next]_vars => Inv'
BY TypeInv, RolesInv, CustodyInv, WarmupInv DEF Inv

LEMMA ResidencyInvariant == Spec => []Inv
BY InitInv, NextInv, PTL DEF Spec

\* The variables always have their types; no entry is warmed or released twice.
THEOREM ResidencyTypeCorrect == Spec => []TypeOK
<1>1. Inv => TypeOK
  BY DEF Inv
<1>. QED  BY <1>1, ResidencyInvariant, PTL

\* No accelerator is released under a generation or a warm-up (evict_expired, stop).
THEOREM ResidencyNoUseAfterRelease == Spec => []NoUseAfterRelease
<1>1. Inv => NoUseAfterRelease
  BY DEF Inv, Custody, ReleasedIsGone, NoUseAfterRelease
<1>. QED  BY <1>1, ResidencyInvariant, PTL

\* An eviction takes no entry from a request that is queued or admitted.
THEOREM ResidencyEvictionSparesUsers == Spec => []EvictionSparesUsers
<1>1. Inv => EvictionSparesUsers
  BY Kinds DEF Inv, Custody, LockedIsIdle, EvictionSparesUsers, Idle, Drained, FreeReplicas,
               LeasesOf
<1>. QED  BY <1>1, ResidencyInvariant, PTL

\* A set without two elements.
LEMMA AtMostOne ==
    ASSUME NEW S, \A x, y \in S : x = y
    PROVE  Cardinality(S) = IF S = {} THEN 0 ELSE 1
<1>1. CASE S = {}
  BY <1>1, FS_EmptySet
<1>2. CASE S # {}
  <2>1. PICK x : S = {x}
    BY <1>2
  <2>. QED  BY <1>2, <2>1, FS_Singleton
<1>. QED  BY <1>1, <1>2

\* Each loaded entry is in the table, where it is open and nobody evicts it, on one
\* list, or released, once (get_or_load, evict_expired, stop).
THEOREM ResidencyOneCustodian == Spec => []OneCustodian
<1>1. Inv => OneCustodian
  <2>0. Inv => ServedEntriesAreOpen
    BY DEF Inv, Custody, TableIsExact, ServedEntriesAreOpen, Mapped
  <2>. SUFFICES ASSUME Inv, NEW e \in loaded
                PROVE  Cardinality({k \in Configs : models[k] = e})
                           + Cardinality({c \in Threads : e \in todo[c]}) + releases[e]
                       = IF e \in forgotten THEN 0 ELSE 1
    BY <2>0 DEF OneCustodian
  <2>. DEFINE K == {k \in Configs : models[k] = e}
              C == {c \in Threads : e \in todo[c]}
  <2>1. e \in Entries /\ releases[e] \in {0, 1} /\ e # NoEntry
    BY ResidencyAssumption DEF Inv, TypeOK
  <2>2. Cardinality(K) = IF K = {} THEN 0 ELSE 1
    <3>1. \A j, k \in K : j = k
      BY <2>1 DEF Inv, Custody, TableIsExact
    <3>. HIDE DEF K
    <3>. QED  BY <3>1, AtMostOne
  <2>3. Cardinality(C) = IF C = {} THEN 0 ELSE 1
    <3>1. \A c, d \in C : c = d
      BY DEF Inv, Custody, ListsAreExact
    <3>. HIDE DEF C
    <3>. QED  BY <3>1, AtMostOne
  <2>4. (K # {} <=> TableHasIt(e)) /\ (C # {} <=> ThreadHasIt(e))
    BY DEF TableHasIt, ThreadHasIt
  <2>5. /\ TableHasIt(e) => ~ThreadHasIt(e) /\ releases[e] = 0 /\ e \notin forgotten
        /\ ThreadHasIt(e) => releases[e] = 0 /\ e \notin forgotten
        /\ releases[e] = 1 => e \notin forgotten
        /\ TableHasIt(e) \/ ThreadHasIt(e) \/ releases[e] = 1 \/ e \in forgotten
    BY <2>1 DEF Inv, Custody, TableIsExact, ListsAreExact, ReleasedIsGone, NoneIsLost,
                TableHasIt, ThreadHasIt
  <2>. HIDE DEF K, C
  <2>. QED  BY <2>1, <2>2, <2>3, <2>4, <2>5 DEF K, C
<1>. QED  BY <1>1, ResidencyInvariant, PTL

\* At most one warm-up of an entry is under way, and none follows a successful one.
THEOREM ResidencyOneWarmup == Spec => []OneWarmup
<1>1. Inv => OneWarmup
  <2>. SUFFICES ASSUME Inv, NEW e \in Entries
                PROVE  LET busy == {c \in Warmers : using[c] = e /\ pc[c] # "reserve"}
                       IN  /\ Cardinality(busy) <= 1
                           /\ warming[e] <=> busy # {}
                           /\ warming[e] => warmups[e] = 0
    BY DEF OneWarmup
  <2>. DEFINE busy == {c \in Warmers : using[c] = e /\ pc[c] # "reserve"}
  <2>1. \A c, d \in busy : c = d
    BY DEF Inv, WarmupIsExact, Busy
  <2>2. (warming[e] <=> busy # {}) /\ (warming[e] => warmups[e] = 0)
    BY DEF Inv, WarmupIsExact, Busy
  <2>. HIDE DEF busy
  <2>3. Cardinality(busy) <= 1
    BY <2>1, AtMostOne
  <2>. QED  BY <2>2, <2>3 DEF busy
<1>. QED  BY <1>1, ResidencyInvariant, PTL

-----------------------------------------------------------------------------
(* The pools of the entries.                                               *)

PoolStep(e) == [Pool(e)!Next]_(Pool(e)!vars)

LEMMA PoolRests ==
    ASSUME NEW e \in Entries, owner'[e] = owner[e], open'[e] = open[e],
           releases'[e] = releases[e]
    PROVE  PoolStep(e)
BY DEF PoolStep, Pool!vars

\* It is closed, or was, and perhaps drained.
LEMMA PoolShuts ==
    ASSUME TypeOK, NEW e \in Entries, owner'[e] = owner[e], ~open'[e],
           open'[e] \in BOOLEAN,
           \/ releases'[e] = releases[e]
           \/ releases[e] = 0 /\ releases'[e] = 1 /\ Drained(e)
    PROVE  PoolStep(e)
<1>1. Pool(e)!AllFree <=> Drained(e)
  BY DEF Pool!AllFree, Drained, FreeReplicas
<1>2. (releases'[e] > 0) \in {releases[e] > 0, Pool(e)!AllFree}
  <2>1. CASE releases'[e] = releases[e]
    BY <2>1
  <2>2. CASE releases[e] = 0 /\ releases'[e] = 1 /\ Drained(e)
    <3>1. (releases'[e] > 0) = TRUE
      BY <2>2
    <3>2. Pool(e)!AllFree = TRUE
      BY <1>1, <2>2 DEF Pool!AllFree
    <3>. QED  BY <3>1, <3>2
  <2>. QED  BY <2>1, <2>2
<1>3. releases[e] > 0 => releases'[e] > 0
  OBVIOUS
<1>. QED  BY <1>2, <1>3 DEF PoolStep, Pool!Next, Pool!Shut

LEMMA PoolGrants ==
    ASSUME TypeOK, NEW c \in Users, NEW e \in Entries, Lease(c, e), open[e],
           UNCHANGED <<open, releases>>, NEW f \in Entries
    PROVE  PoolStep(f)
<1>1. CASE f # e
  BY <1>1, LeaseTypes, PoolRests
<1>2. CASE f = e
  <2>1. PICK r \in Replicas : owner[e][r] = Nobody /\ owner' = [owner EXCEPT ![e][r] = c]
    BY DEF Lease, FreeReplicas
  <2>2. owner'[e] = [owner[e] EXCEPT ![r] = c]
    BY <2>1 DEF TypeOK
  <2>3. Pool(e)!Grant(c, r)
    BY <2>1, <2>2 DEF Pool!Grant, TypeOK
  <2>. QED  BY <1>2, <2>3, Kinds DEF PoolStep, Pool!Next
<1>. QED  BY <1>1, <1>2

LEMMA PoolTakesBack ==
    ASSUME TypeOK, NEW c \in Users, using[c] # NoEntry, Return(c),
           UNCHANGED <<open, releases>>, NEW f \in Entries
    PROVE  PoolStep(f)
<1>1. PICK e \in Entries : e = using[c]
  BY Kinds DEF TypeOK
<1>2. PICK r \in Replicas : owner[e][r] = c /\ owner' = [owner EXCEPT ![e][r] = Nobody]
  BY <1>1 DEF Return, LeasesOf
<1>3. CASE f # e
  <2>1. owner'[f] = owner[f]
    BY <1>2, <1>3 DEF TypeOK
  <2>. QED  BY <2>1, PoolRests
<1>4. CASE f = e
  <2>1. owner'[e] = [owner[e] EXCEPT ![r] = Nobody]
    BY <1>2 DEF TypeOK
  <2>2. Pool(e)!Return(r)
    BY <1>2, <2>1, Kinds DEF Pool!Return
  <2>. QED  BY <1>4, <2>2 DEF PoolStep, Pool!Next
<1>. QED  BY <1>3, <1>4

LEMMA PoolSteps == Inv /\ [Next]_vars => \A e \in Entries : PoolStep(e)
<1>. SUFFICES ASSUME Inv, [Next]_vars, NEW f \in Entries PROVE PoolStep(f)
  OBVIOUS
<1>. TypeOK /\ RolesAreKept /\ Custody /\ TypeOK'
  BY TypeInv DEF Inv
<1>. USE Kinds
<1>1. CASE UNCHANGED <<owner, open, releases>>
  BY <1>1, PoolRests
<1>2. ASSUME NEW c \in Users, UserStep(c) PROVE PoolStep(f)
  <2>1. CASE AdmitDirect(c) \/ AdmitQueued(c)
    <3>1. PICK e \in Entries : e = using[c]
      BY <2>1 DEF AdmitDirect, AdmitQueued, TypeOK, RolesAreKept
    <3>2. Lease(c, e) /\ open[e] /\ UNCHANGED <<open, releases>>
      BY <2>1, <3>1 DEF AdmitDirect, AdmitQueued
    <3>. QED  BY <3>2, PoolGrants
  <2>2. CASE Leave(c) \/ WarmupReleases(c)
    <3>1. using[c] # NoEntry /\ Return(c) /\ UNCHANGED <<open, releases>>
      BY <2>2 DEF Leave, WarmupReleases, RolesAreKept
    <3>. QED  BY <3>1, PoolTakesBack
  <2>. QED
    BY <1>1, <1>2, <2>1, <2>2
    DEF UserStep, GetOrLoad, Enqueue, Refused, GenerationEnds, MarkUsed, Reserve,
        WarmupRuns, WarmupEnds, entryVars
<1>3. ASSUME NEW c \in Threads, Sweep(c) PROVE PoolStep(f)
  <2>1. UNCHANGED <<owner, releases>>
    BY <1>3 DEF Sweep
  <2>2. open'[f] = (open[f] /\ f \notin Victims(c))
    BY <1>3 DEF Sweep
  <2>3. CASE f \in Victims(c)
    BY <2>1, <2>2, <2>3, PoolShuts
  <2>4. CASE f \notin Victims(c)
    <3>1. open'[f] = open[f]
      BY <2>2, <2>4 DEF TypeOK
    <3>. QED  BY <2>1, <3>1, PoolRests
  <2>. QED  BY <2>3, <2>4
<1>4. ASSUME NEW c \in Threads, NEW e \in Entries, Evict(c, e) PROVE PoolStep(f)
  <2>1. releases[e] = 0 /\ ~open[e] /\ Drained(e)
    BY <1>4 DEF Evict, Custody, ListsAreExact, Idle
  <2>2. UNCHANGED <<owner, open>> /\ releases' = [releases EXCEPT ![e] = @ + 1]
    BY <1>4 DEF Evict
  <2>. QED  BY <2>1, <2>2, PoolShuts, PoolRests DEF TypeOK
<1>5. ASSUME NEW c \in Stoppers, NEW e \in Entries, StopCloses(c, e) PROVE PoolStep(f)
  BY <1>5, PoolShuts, PoolRests DEF StopCloses, TypeOK
<1>6. ASSUME NEW c \in Stoppers, StopReleases(c) PROVE PoolStep(f)
  <2>1. PICK e \in Entries : e = using[c]
    BY <1>6 DEF StopReleases, TypeOK
  <2>2. ~open[e] /\ Drained(e) /\ releases[e] = 0
    BY <1>6, <2>1
    DEF StopReleases, CloseReturns, RolesAreKept, Custody, ListsAreExact
  <2>3. UNCHANGED <<owner, open>> /\ releases' = [releases EXCEPT ![e] = @ + 1]
    BY <1>6, <2>1 DEF StopReleases
  <2>. QED  BY <2>2, <2>3, PoolShuts, PoolRests DEF TypeOK
<1>. QED
  BY <1>1, <1>2, <1>3, <1>4, <1>5, <1>6 DEF Next, Stop, Expire, vars, entryVars

\* The pool of each entry does what LeaseAllocator promises.
THEOREM ResidencyPoolsKeepTheirPromise == Spec => PoolsKeepTheirPromise
<1>1. Init => \A e \in Entries : Pool(e)!Init
  BY DEF Init, Pool!Init
<1>2. Inv /\ [Next]_vars => [\A e \in Entries : [Pool(e)!Next]_(Pool(e)!vars)]_vars
  BY PoolSteps DEF PoolStep
<1>. QED  BY <1>1, <1>2, ResidencyInvariant, PTL DEF Spec, PoolsKeepTheirPromise

=============================================================================
