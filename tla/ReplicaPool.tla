----------------------------- MODULE ReplicaPool -----------------------------
(***************************************************************************)
(* The admission scheduler of one resident model                           *)
(* (machboost/scheduler.py, class ReplicaPool).                            *)
(*                                                                         *)
(* Request threads acquire and release replicas under one condition        *)
(* variable.  A critical section of the code (the code between two waits)  *)
(* is one action.  A thread blocked in acquire wakes at least every 0.1 s, *)
(* so its loop iteration (Poll) is always possible; a thread blocked in    *)
(* close has no timeout and depends on notify_all, which is modelled.      *)
(*                                                                         *)
(* A ticket only identifies a waiting call, so the client stands for it.   *)
(* The counters that snapshot reports decide nothing and are left out.     *)
(* Operators marked "Mutant" are the bugs the properties are tried on.     *)
(***************************************************************************)
EXTENDS Integers, FiniteSets, SequencesExt

CONSTANTS Clients,     \* threads that acquire one replica (slot)
          Warmers,     \* threads that acquire every replica (_perform_warmup)
          Tenants,     \* tenant keys of authenticated callers
          Anonymous,   \* the tenant_key None
          N,           \* number of replicas
          MaxQueue,    \* max_queue
          NoAffinity,  \* a call without affinity_key
          Nobody       \* the owner of a replica nobody leases

ASSUME PoolAssumption ==
    /\ N \in Nat \ {0}
    /\ MaxQueue \in Nat
    /\ Clients \cap Warmers = {}
    /\ Anonymous \notin Tenants
    /\ NoAffinity \notin Int
    /\ Nobody \notin Clients \cup Warmers

Replicas == 0 .. N - 1
Threads  == Clients \cup Warmers
Keys     == Tenants \cup {Anonymous}
Want(c)  == IF c \in Warmers THEN N ELSE 1

Deadlines == {"none", "ahead", "passed"}

VARIABLES
    available,   \* _available
    active,      \* _active
    waiters,     \* _waiters, with the call that owns each ticket
    lastTenant,  \* _last_tenant
    closed,      \* _closed
    pc,          \* where each thread is
    held,        \* the leases a thread holds
    call,        \* arguments of the acquire a thread is blocked in
    cancelled,   \* threads whose cancel_event is set
    closer,      \* the thread inside close(wait=True)
    retired      \* try_close_idle has returned True

vars == <<available, active, waiters, lastTenant, closed, pc, held, call,
          cancelled, closer, retired>>

NoCall == [prefer |-> NoAffinity, deadline |-> "none"]

Init ==
    /\ available = Replicas
    /\ active = {}
    /\ waiters = <<>>
    /\ lastTenant = Anonymous
    /\ closed = FALSE
    /\ pc = [c \in Threads |-> "idle"]
    /\ held = [c \in Threads |-> {}]
    /\ call = [c \in Threads |-> NoCall]
    /\ cancelled = {}
    /\ closer = "none"
    /\ retired = FALSE

-----------------------------------------------------------------------------
(* Helpers.                                                                *)

\* Mutant: no waiting thread is told.
NotifyNobody == closer' = closer

\* notify_all, as far as it matters: only close waits without a timeout.
NotifyAll == closer' = IF closer = "asleep" THEN "notified" ELSE closer

\* Mutant: the newest waiter of another tenant.
NewestOther(q, last) ==
    LET others == {i \in DOMAIN q : q[i].tenant # last}
    IN  IF others = {} THEN 1 ELSE Max(others)

\* Mutant: first come, first served.
AlwaysFirst(q, last) == 1

\* The first waiter of another tenant than the last one admitted, else the
\* first one.  (The code's test for a queue of anonymous waiters yields the
\* head, which is what this yields too.)
NextInTurn(q, last) ==
    LET others == {i \in DOMAIN q : q[i].tenant # last}
    IN  IF others = {} THEN 1 ELSE Min(others)

\* Mutant: no tenant is served twice in a row, whoever waits.
NeverTwice(q, c) ==
    LET i == NextInTurn(q, lastTenant)
    IN  /\ available # {}
        /\ q[i].client = c
        /\ q[i].tenant # lastTenant

MyTurn(q, c) == /\ available # {}
                /\ q[NextInTurn(q, lastTenant)].client = c

\* _remove_waiter
Position(q, c) == CHOOSE i \in DOMAIN q : q[i].client = c
Without(q, c)  == RemoveAt(q, Position(q, c))

\* Mutant: the preferred replica, available or not.
PreferredAlways(prefer) ==
    IF prefer \in Replicas THEN prefer ELSE Min(available)

\* _select_available
Select(prefer) == IF prefer \in available THEN prefer ELSE Min(available)

\* The end of acquire: c gets a lease.
Admit(c, tenant, prefer) ==
    LET r == Select(prefer)
    IN  /\ available' = available \ {r}
        /\ active' = active \cup {r}
        /\ held' = [held EXCEPT ![c] = @ \cup {r}]
        /\ lastTenant' = tenant
        /\ pc' = [pc EXCEPT ![c] = "running"]
        /\ call' = [call EXCEPT ![c] = NoCall]
        /\ NotifyAll
        /\ UNCHANGED <<closed, cancelled, retired>>

\* acquire raises RequestAdmissionError: a request is over, a warm-up
\* releases what it got so far.
Refuse(c) ==
    /\ pc' = [pc EXCEPT ![c] = IF held[c] = {} THEN "idle" ELSE "unwinding"]
    /\ call' = [call EXCEPT ![c] = NoCall]
    /\ cancelled' = IF held[c] = {} THEN cancelled \ {c} ELSE cancelled
    /\ UNCHANGED <<available, active, held, lastTenant, closed, retired>>

\* c is about to call acquire: a request that holds nothing, or a warm-up
\* that wants one more replica.
Calling(c) == \/ pc[c] = "idle"
              \/ pc[c] = "running" /\ Cardinality(held[c]) < Want(c)

\* The arguments a thread passes: a warm-up passes timeout=-1 only.
Passes(c, tenant, prefer, deadline) ==
    c \in Warmers => /\ tenant = Anonymous
                     /\ prefer = NoAffinity
                     /\ deadline = "none"

MustQueue == waiters # <<>> \/ available = {}

\* Mutant: one waiter too many.
QueueOverfull == Len(waiters) > MaxQueue

QueueFull == Len(waiters) >= MaxQueue

-----------------------------------------------------------------------------
(* acquire                                                                 *)

\* Cancelled before admission, closed, or the queue is full.
AcquireRefused(c) ==
    /\ Calling(c)
    /\ \/ c \in cancelled
       \/ closed
       \/ MustQueue /\ QueueFull
    /\ Refuse(c)
    /\ UNCHANGED <<waiters, closer>>

AcquireDirect(c, tenant, prefer) ==
    /\ Calling(c)
    /\ c \notin cancelled
    /\ ~closed
    /\ ~MustQueue
    /\ Admit(c, tenant, prefer)
    /\ UNCHANGED waiters

\* The call takes a ticket and goes through the loop once before it blocks:
\* it may be its turn at once, and its deadline may already have passed.
AcquireQueued(c, tenant, prefer, deadline) ==
    LET q == Append(waiters, [client |-> c, tenant |-> tenant])
    IN  /\ Calling(c)
        /\ c \notin cancelled
        /\ ~closed
        /\ MustQueue
        /\ ~QueueFull
        /\ \/ /\ MyTurn(q, c)
              /\ Admit(c, tenant, prefer)
              /\ UNCHANGED waiters
           \/ /\ ~MyTurn(q, c)
              /\ deadline = "passed"
              /\ Refuse(c)
              /\ NotifyAll
              /\ UNCHANGED waiters
           \/ /\ ~MyTurn(q, c)
              /\ deadline # "passed"
              /\ waiters' = q
              /\ pc' = [pc EXCEPT ![c] = "waiting"]
              /\ call' = [call EXCEPT ![c] = [prefer |-> prefer,
                                              deadline |-> deadline]]
              /\ UNCHANGED <<available, active, lastTenant, closed, held,
                             cancelled, closer, retired>>

\* Mutant: the waiter stays in the queue.
ForgetToLeave(c) == UNCHANGED waiters

Leave(c) == waiters' = Without(waiters, c)

-----------------------------------------------------------------------------
(* One iteration of the loop of a blocked acquire, in the code's order.    *)

PollCancelled(c) ==
    /\ c \in cancelled
    /\ Leave(c)
    /\ Refuse(c)
    /\ NotifyAll

PollClosed(c) ==
    /\ c \notin cancelled
    /\ closed
    /\ Leave(c)
    /\ Refuse(c)
    /\ UNCHANGED closer

\* Mutant: a wake-up by close is taken for a turn.
PollAdmittedClosed(c) ==
    /\ c \notin cancelled
    /\ MyTurn(waiters, c)
    /\ Leave(c)
    /\ Admit(c, waiters[Position(waiters, c)].tenant, call[c].prefer)

PollAdmitted(c) ==
    /\ c \notin cancelled
    /\ ~closed
    /\ MyTurn(waiters, c)
    /\ Leave(c)
    /\ Admit(c, waiters[Position(waiters, c)].tenant, call[c].prefer)

PollTimedOut(c) ==
    /\ c \notin cancelled
    /\ ~closed
    /\ ~MyTurn(waiters, c)
    /\ call[c].deadline = "passed"
    /\ Leave(c)
    /\ Refuse(c)
    /\ NotifyAll

Poll(c) ==
    /\ pc[c] = "waiting"
    /\ PollCancelled(c) \/ PollClosed(c) \/ PollAdmitted(c) \/ PollTimedOut(c)

-----------------------------------------------------------------------------
(* release, by the finally of slot or of _perform_warmup                   *)

\* Mutant: the replica stays marked as busy.
FreeNotActive(r) == /\ UNCHANGED active
                    /\ available' = available \cup {r}

Free(r) == /\ active' = active \ {r}
           /\ available' = available \cup {r}

Release(c) ==
    /\ \/ pc[c] = "running" /\ Cardinality(held[c]) = Want(c)
       \/ pc[c] = "unwinding"
    /\ \E r \in held[c] :
          LET last == held[c] = {r}
          IN  /\ Free(r)
              /\ held' = [held EXCEPT ![c] = @ \ {r}]
              /\ pc' = [pc EXCEPT ![c] = IF last THEN "idle" ELSE "unwinding"]
              /\ cancelled' = IF last THEN cancelled \ {c} ELSE cancelled
    /\ NotifyAll
    /\ UNCHANGED <<waiters, lastTenant, closed, call, retired>>

(* close and try_close_idle                                                *)

Close ==
    /\ closer = "none"
    /\ closed' = TRUE
    /\ closer' = IF active = {} THEN "returned" ELSE "asleep"
    /\ UNCHANGED <<available, active, waiters, lastTenant, pc, held, call,
                   cancelled, retired>>

CloserWakes ==
    /\ closer = "notified"
    /\ closer' = IF active = {} THEN "returned" ELSE "asleep"
    /\ UNCHANGED <<available, active, waiters, lastTenant, closed, pc, held,
                   call, cancelled, retired>>

TryCloseIdle ==
    /\ active = {}
    /\ waiters = <<>>
    /\ closed' = TRUE
    /\ retired' = TRUE
    /\ NotifyAll
    /\ UNCHANGED <<available, active, waiters, lastTenant, pc, held, call,
                   cancelled>>

(* The environment: a cancel request, and time.                            *)

Cancel(c) ==
    /\ c \in Clients \ cancelled
    /\ cancelled' = cancelled \cup {c}
    /\ UNCHANGED <<available, active, waiters, lastTenant, closed, pc, held,
                   call, closer, retired>>

DeadlinePasses(c) ==
    /\ call[c].deadline = "ahead"
    /\ call' = [call EXCEPT ![c].deadline = "passed"]
    /\ UNCHANGED <<available, active, waiters, lastTenant, closed, pc, held,
                   cancelled, closer, retired>>

Acquire(c) ==
    \/ AcquireRefused(c)
    \/ \E t \in Keys, p \in Replicas \cup {NoAffinity}, d \in Deadlines :
          /\ Passes(c, t, p, d)
          /\ AcquireDirect(c, t, p) \/ AcquireQueued(c, t, p, d)

Next ==
    \/ \E c \in Threads :
          \/ Acquire(c)
          \/ Poll(c)
          \/ Release(c)
          \/ Cancel(c)
          \/ DeadlinePasses(c)
    \/ Close
    \/ CloserWakes
    \/ TryCloseIdle

Spec == Init /\ [][Next]_vars

\* A blocked acquire polls every 0.1 s, deadlines pass, an admitted request
\* or warm-up ends and releases in a finally, and a notified close goes on.
\* Nobody has to call acquire, cancel or close.
Fairness ==
    /\ \A c \in Threads : /\ WF_vars(Poll(c))
                          /\ WF_vars(Release(c))
                          /\ WF_vars(DeadlinePasses(c))
    /\ \A c \in Warmers : WF_vars(pc[c] = "running" /\ Acquire(c))
    /\ WF_vars(CloserWakes)

FairSpec == Spec /\ Fairness

-----------------------------------------------------------------------------
(* Properties.                                                             *)

TypeOK ==
    /\ available \subseteq Replicas
    /\ active \subseteq Replicas
    /\ waiters \in Seq([client : Threads, tenant : Keys])
    /\ Len(waiters) <= MaxQueue
    /\ lastTenant \in Keys
    /\ closed \in BOOLEAN
    /\ pc \in [Threads -> {"idle", "waiting", "running", "unwinding"}]
    /\ held \in [Threads -> SUBSET Replicas]
    /\ call \in [Threads -> [prefer : Replicas \cup {NoAffinity},
                             deadline : Deadlines]]
    /\ cancelled \subseteq Clients
    /\ closer \in {"none", "asleep", "notified", "returned"}
    /\ retired \in BOOLEAN

\* A replica is either available or leased, and leased to one thread: two
\* generations never share the mutable cache of one accelerator, and no
\* path through acquire and release loses a replica.
LeaseOwnership ==
    /\ available \cap active = {}
    /\ available \cup active = Replicas
    /\ \A r \in Replicas : r \in active <=> \E c \in Threads : r \in held[c]
    /\ \A c, d \in Threads : c # d => held[c] \cap held[d] = {}

\* The queue holds one ticket for each blocked acquire and no other: a ticket
\* left behind would take a turn nobody uses and block the pool.
QueueMatchesCalls ==
    /\ \A i, j \in DOMAIN waiters :
          waiters[i].client = waiters[j].client => i = j
    /\ \A c \in Threads :
          pc[c] = "waiting" <=> \E i \in DOMAIN waiters : waiters[i].client = c

\* Once close(wait=True) or a successful try_close_idle has returned, no lease
\* is out or will be: the caller releases the accelerators next.
ClosedPoolIsDrained ==
    /\ retired \/ closer # "none" => closed
    /\ retired \/ closer = "returned" => active = {}

\* The step admits c.
Admits(c) == held[c] # held'[c] /\ held[c] \subseteq held'[c]

\* The head of the queue is passed over at most once in a row: the turn goes
\* past it only to another tenant than its own, right after its own tenant
\* was served, and then its tenant is not the last one any more.  This bounds
\* the wait of every ticket.
HeadBypassedOnce ==
    [][ (/\ \E c \in Threads : Admits(c)
         /\ waiters # <<>> /\ waiters' # <<>>
         /\ Head(waiters') = Head(waiters))
        => /\ Head(waiters).tenant = lastTenant
           /\ lastTenant' # lastTenant ]_vars

\* Calls with the same tenant key are admitted in the order they queued,
\* whatever other tenants, timeouts and new arrivals do.
TenantFIFO ==
    [][ \A c \in Threads : Admits(c) =>
          \A i \in DOMAIN waiters :
             waiters[i].tenant = lastTenant' =>
                \E j \in 1 .. i : waiters[j].client = c ]_vars

\* A tenant is served twice in a row only when nobody else waits
\* (test_tenant_round_robin_prevents_one_key_from_blocking_another).
TenantsAlternate ==
    [][ \A c \in Threads : Admits(c) /\ lastTenant' = lastTenant =>
          \A i \in DOMAIN waiters : waiters[i].tenant = lastTenant ]_vars

\* Every blocked acquire returns or raises, without help from new events:
\* also the one of a warm-up, which has no deadline, under a stream of
\* arrivals of other tenants.
EveryCallReturns ==
    \A c \in Threads : pc[c] = "waiting" ~> pc[c] # "waiting"

\* A warm-up holds replicas while it waits for more; it still ends.
WarmupEnds == \A c \in Warmers : pc[c] # "idle" ~> pc[c] = "idle"

\* close(wait=True) blocks without a timeout and returns once the leases are
\* back: no release may fail to notify it.
CloseReturns == closer = "asleep" ~> closer = "returned"

-----------------------------------------------------------------------------
(* The abstract allocator this pool implements.                            *)

owner == [r \in Replicas |->
             IF r \in active THEN CHOOSE c \in Threads : r \in held[c] ELSE Nobody]

Allocator == INSTANCE LeaseAllocator
                 WITH open <- ~closed,
                      drained <- retired \/ closer = "returned"

\* The pool implements LeaseAllocator.
ImplementsAllocator == Allocator!Spec

=============================================================================
