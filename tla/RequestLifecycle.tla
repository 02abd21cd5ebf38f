-------------------------- MODULE RequestLifecycle --------------------------
(***************************************************************************)
(* One inference request of the gateway from its admission to its trace    *)
(* (machboost/server.py, run_traced_operation and OperationRegistry;       *)
(* machboost/team.py, TeamAdmissionController.slot), a model pull, which   *)
(* uses the registry alone, and /api/cancel.                               *)
(*                                                                         *)
(* A section under the lock of the controller or of the registry is one    *)
(* action.  The clock is read before the controller's lock is taken.       *)
(***************************************************************************)
EXTENDS Integers, Sequences, FiniteSets

CONSTANTS Threads,        \* handler threads
          Ids,            \* request ids clients choose
          Principals, Admins,
          MaxConcurrent,  \* max_concurrent of every principal
          PerMinute,      \* requests_per_minute of every principal
          Window,         \* 60 seconds
          MaxTime,        \* bound on the clock
          MaxCalls        \* bound on the calls that arrive

VARIABLES
    pc,          \* where each thread is
    call,        \* its request: id, principal, kind and the time it read
    status,      \* how its operation ended
    active,      \* TeamAdmissionController._active
    requests,    \* TeamAdmissionController._requests
    operations,  \* OperationRegistry._active: the threads that run an operation
    cancelledBy, \* who has set the cancel event of a thread's running operation
    totals,      \* OperationRegistry._totals, per kind
    traces,      \* rows of the traces table per status
    clock,
    calls,       \* history: calls so far
    admitted,    \* history: the times of the admissions of each principal
    latest       \* history: the latest time an admission was decided with

registry == <<operations, cancelledBy, totals>>
window   == <<requests, admitted, latest>>
vars == <<pc, call, status, active, registry, window, traces, clock, calls>>

Kinds    == {"chat", "pull"}
Statuses == {"completed", "cancelled", "failed"}
NoCall   == [id |-> CHOOSE i \in Ids : TRUE, principal |-> CHOOSE p \in Principals : TRUE,
             kind |-> "chat", now |-> 0]

Init ==
    /\ pc = [t \in Threads |-> "idle"]
    /\ call = [t \in Threads |-> NoCall]
    /\ status = [t \in Threads |-> "failed"]
    /\ active = [p \in Principals |-> 0]
    /\ requests = [p \in Principals |-> <<>>]
    /\ admitted = [p \in Principals |-> <<>>]
    /\ operations = {}
    /\ cancelledBy = [t \in Threads |-> {}]
    /\ totals = [k \in Kinds |-> [s \in Statuses |-> 0]]
    /\ traces = [s \in Statuses |-> 0]
    /\ clock = 0
    /\ calls = 0
    /\ latest = 0

-----------------------------------------------------------------------------
(* TeamAdmissionController.slot.                                           *)

\* What is left of a window once the head that has gone out of date is
\* dropped; behind a young head an old entry stays.
Pruned(h, now) ==
    LET old == {i \in DOMAIN h : \A j \in 1 .. i : h[j] <= now - Window}
    IN  SubSeq(h, Cardinality(old) + 1, Len(h))

\* A pull, and a chat between slot and trace.
Enters(k) == IF k = "chat" THEN "slot" ELSE "begin"

\* The request is authorized, and run_traced_operation or handle_pull begins.
\* The scope and the models of the key were checked and time.monotonic read.
Arrive(t) ==
    /\ pc[t] = "idle"
    /\ calls < MaxCalls
    /\ \E i \in Ids, p \in Principals, k \in Kinds :
         /\ call' = [call EXCEPT ![t] = [id |-> i, principal |-> p,
                                         kind |-> k, now |-> clock]]
         /\ pc' = [pc EXCEPT ![t] = Enters(k)]
    /\ status' = [status EXCEPT ![t] = "failed"]
    /\ calls' = calls + 1
    /\ UNCHANGED <<active, registry, window, traces, clock>>

Slot(t) ==
    LET p   == call[t].principal
        now == call[t].now
        h   == Pruned(requests[p], now)
        ok  == Len(h) < PerMinute /\ active[p] < MaxConcurrent
    IN  /\ pc[t] = "slot"
        /\ latest' = IF now > latest THEN now ELSE latest
        /\ requests' = [requests EXCEPT ![p] = IF ok THEN Append(h, now) ELSE h]
        /\ admitted' = [admitted EXCEPT ![p] = IF ok THEN Append(@, now) ELSE @]
        /\ active' = [active EXCEPT ![p] = IF ok THEN @ + 1 ELSE @]
        /\ pc' = [pc EXCEPT ![t] = IF ok THEN "begin" ELSE "trace"]
        /\ UNCHANGED <<call, status, registry, traces, clock, calls>>

GiveBack(t) ==
    active' = [active EXCEPT ![call[t].principal] = IF @ = 0 THEN 0 ELSE @ - 1]

LeaveSlot(t) ==
    /\ pc[t] = "leave"
    /\ GiveBack(t)
    /\ pc' = [pc EXCEPT ![t] = "trace"]
    /\ UNCHANGED <<call, status, registry, window, traces, clock, calls>>

\* The finally clause of run_traced_operation.
RecordTrace(t) ==
    /\ pc[t] = "trace"
    /\ traces' = [traces EXCEPT ![status[t]] = @ + 1]
    /\ pc' = [pc EXCEPT ![t] = "idle"]
    /\ call' = [call EXCEPT ![t] = NoCall]
    /\ status' = [status EXCEPT ![t] = "failed"]
    /\ UNCHANGED <<active, registry, window, clock, calls>>

-----------------------------------------------------------------------------
(* OperationRegistry and run_operation.                                    *)

\* A chat still has its slot and its trace, which tells the status s; a pull is over.
Ended(t, s) ==
    IF call[t].kind = "chat"
    THEN /\ pc' = [pc EXCEPT ![t] = "leave"]
         /\ status' = [status EXCEPT ![t] = s]
         /\ UNCHANGED call
    ELSE /\ pc' = [pc EXCEPT ![t] = "idle"]
         /\ call' = [call EXCEPT ![t] = NoCall]
         /\ UNCHANGED status

\* Mutant: the id of an active operation is taken over.
AlwaysFree(i) == TRUE

IdFree(i) == \A t \in operations : call[t].id # i

\* begin: an id in use is an error of the request that brings it.
Begin(t) ==
    /\ pc[t] = "begin"
    /\ IF IdFree(call[t].id)
       THEN /\ operations' = {u \in operations : call[u].id # call[t].id} \cup {t}
            /\ cancelledBy' = [cancelledBy EXCEPT ![t] = {}]
            /\ pc' = [pc EXCEPT ![t] = "running"]
            /\ UNCHANGED <<call, status>>
       ELSE Ended(t, "failed") /\ UNCHANGED <<operations, cancelledBy>>
    /\ UNCHANGED <<active, window, totals, traces, clock, calls>>

MayCancel(q, t) == q \in Admins \/ q = call[t].principal

\* /api/cancel from principal q.
Cancel(q) ==
    /\ \E t \in operations :
         /\ MayCancel(q, t)
         /\ cancelledBy' = [cancelledBy EXCEPT ![t] = @ \cup {q}]
    /\ UNCHANGED <<pc, call, status, active, window, operations, totals, traces,
                   clock, calls>>

\* What the callback may end with: RequestCancelled, or an admission refused for
\* it, needs the event; a callback that no longer looks at the event completes.
MayEnd(t, s) == s = "cancelled" => cancelledBy[t] # {}

\* finish, after the callback has returned or raised.
Finish(t) ==
    /\ pc[t] = "running"
    /\ \E s \in Statuses :
         /\ MayEnd(t, s)
         /\ Ended(t, s)
         /\ totals' = [totals EXCEPT ![call[t].kind][s] = @ + 1]
    /\ operations' = operations \ {t}
    /\ cancelledBy' = [cancelledBy EXCEPT ![t] = {}]
    /\ UNCHANGED <<active, window, traces, clock, calls>>

-----------------------------------------------------------------------------
Tick ==
    /\ clock < MaxTime
    /\ clock' = clock + 1
    /\ UNCHANGED <<pc, call, status, active, registry, window, traces, calls>>

\* The bound on calls is reached and nothing is under way.
Done ==
    /\ calls = MaxCalls
    /\ \A t \in Threads : pc[t] = "idle"
    /\ UNCHANGED vars

Step(t) == Slot(t) \/ Begin(t) \/ Finish(t) \/ LeaveSlot(t) \/ RecordTrace(t)

Next == \/ \E t \in Threads : Arrive(t) \/ Step(t)
        \/ \E q \in Principals : Cancel(q)
        \/ Tick
        \/ Done

Spec == Init /\ [][Next]_vars

-----------------------------------------------------------------------------
TypeOK ==
    /\ pc \in [Threads -> {"idle", "slot", "begin", "running", "leave", "trace"}]
    /\ call \in [Threads -> [id : Ids, principal : Principals, kind : Kinds,
                             now : 0 .. MaxTime]]
    /\ status \in [Threads -> Statuses]
    /\ active \in [Principals -> 0 .. Cardinality(Threads)]
    /\ \A p \in Principals : requests[p] \in Seq(0 .. MaxTime)
    /\ operations \subseteq Threads
    /\ cancelledBy \in [Threads -> SUBSET Principals]

InSlot(p) == {t \in Threads : /\ call[t].kind = "chat"
                              /\ call[t].principal = p
                              /\ pc[t] \in {"begin", "running", "leave"}}

\* A key has exactly as many slots in use as it has requests between their
\* admission and the end of the with block, never more than max_concurrent,
\* whatever way they end; and of the admissions stamped within one window of
\* the latest decision there are at most requests_per_minute, although times
\* are read before the lock and the window may be out of order (slot).
LimitsHold ==
    \A p \in Principals :
        /\ active[p] = Cardinality(InSlot(p))
        /\ active[p] <= MaxConcurrent
        /\ Cardinality({i \in DOMAIN admitted[p] :
                            admitted[p][i] > latest - Window}) <= PerMinute

\* The registry lists exactly the running operations, no two under one id, and
\* what it counts as completed or cancelled is what is or will be traced
\* (OperationRegistry.begin and finish, run_traced_operation).
RegistryIsExact ==
    /\ operations = {t \in Threads : pc[t] = "running"}
    /\ \A t, u \in operations : call[t].id = call[u].id => t = u
    /\ \A s \in {"completed", "cancelled"} :
         totals["chat"][s] =
             traces[s] + Cardinality({t \in Threads :
                             pc[t] \in {"leave", "trace"} /\ status[t] = s})

\* An operation ends as cancelled only if an administrator or its own
\* principal has cancelled this operation: a cancel of an earlier request with
\* the same id, or by somebody who knows the id, has no effect on it.
CancelStaysWithOwner ==
    \A t \in Threads :
        /\ pc[t] = "running" /\ pc'[t] # "running"
        /\ totals'[call[t].kind]["cancelled"] # totals[call[t].kind]["cancelled"]
        => \E q \in cancelledBy[t] : q \in Admins \/ q = call[t].principal
=============================================================================
