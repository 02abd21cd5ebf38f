----------------------------- MODULE TeamTraces -----------------------------
(***************************************************************************)
(* The traces of a team's requests and the settings that limit them        *)
(* (machboost/team.py, class TeamStore).                                   *)
(*                                                                         *)
(* A section under _lock is one action.  record_trace, update_settings and *)
(* prune_traces read the settings in a section of their own and work later *)
(* with what they have read.                                               *)
(***************************************************************************)
EXTENDS Integers, FiniteSets, FiniteSetsExt

CONSTANTS Writers,      \* handler threads that record a trace
          Admins,       \* threads that change settings, delete and evaluate
          Limits,       \* values of max_storage_bytes
          Sizes,        \* bytes that the content of a trace takes
          Days,         \* values of retention_days, the last one is None
          MaxTime,      \* bound on the clock, in days
          MaxTraces,    \* bound on the traces recorded
          MaxUpdates    \* bound on the changes of settings

Threads    == Writers \cup Admins
TraceModes == {"off", "metadata", "full"}
Forever    == MaxTime + 1       \* retention_days is None
Settings   == [mode : TraceModes, days : Days \cup {Forever}, limit : Limits]
Trace      == [id : 1 .. MaxTraces, start : 0 .. MaxTime, bytes : Sizes \cup {1}]

VARIABLES
    settings,   \* the settings table
    traces,     \* the traces table
    recorded,   \* traces recorded so far
    pc, read,   \* where a thread is, and the settings it has read
    trace,      \* the trace a writer is about to insert
    now,        \* time.time
    updates,    \* changes of settings so far
    old         \* history: traces that were too old when the clock last moved

tvars == <<settings, traces, recorded, pc, read, trace, now, updates, old>>

AnyTrace    == [id |-> 1, start |-> 0, bytes |-> 1]
AnySettings == [mode |-> "metadata", days |-> Max(Days), limit |-> Max(Limits)]

Init ==
    /\ settings = AnySettings
    /\ traces = {} /\ recorded = 0
    /\ pc = [t \in Threads |-> "idle"]
    /\ read = [t \in Threads |-> AnySettings]
    /\ trace = [t \in Writers |-> AnyTrace]
    /\ now = 0 /\ updates = 0 /\ old = {}

Goes(t, where) == pc' = [pc EXCEPT ![t] = where]
Reads(t) == read' = [read EXCEPT ![t] = settings]

Expired(S, days) == {r \in S : days # Forever /\ r.start < now - days}

-----------------------------------------------------------------------------
(* record_trace.                                                           *)

\* What the mode says decides what is stored: nothing, the metadata alone (one
\* unit), or the content as well.  The request began at some time before.
Begin(t) ==
    /\ pc[t] = "idle" /\ recorded < MaxTraces
    /\ settings.mode # "off"
    /\ \E start \in 0 .. now, n \in IF settings.mode = "full" THEN Sizes ELSE {1} :
         trace' = [trace EXCEPT ![t] = [id |-> recorded + 1, start |-> start, bytes |-> n]]
    /\ recorded' = recorded + 1
    /\ Goes(t, "insert")
    /\ UNCHANGED <<settings, traces, read, now, updates, old>>

\* Mutant: only update_settings prunes.
NoPrune == "idle"

AfterInsert == "prune"

Insert(t) ==
    /\ pc[t] = "insert"
    /\ traces' = traces \cup {trace[t]}
    /\ trace' = [trace EXCEPT ![t] = AnyTrace]
    /\ Goes(t, AfterInsert)
    /\ UNCHANGED <<settings, recorded, read, now, updates, old>>

-----------------------------------------------------------------------------
(* update_settings and delete_traces.                                      *)

BeginUpdate(t) ==
    /\ pc[t] = "idle" /\ updates < MaxUpdates
    /\ Reads(t)
    /\ updates' = updates + 1
    /\ Goes(t, "write")
    /\ UNCHANGED <<settings, traces, recorded, trace, now, old>>

\* A field keeps the value that was read unless the call gives one: of two
\* updates at a time the later takes back what the earlier has written.
Write(t) ==
    /\ pc[t] = "write"
    /\ \/ \E mode \in TraceModes : settings' = [read[t] EXCEPT !.mode = mode]
       \/ \E days \in Days \cup {Forever} : settings' = [read[t] EXCEPT !.days = days]
       \/ \E limit \in Limits : settings' = [read[t] EXCEPT !.limit = limit]
    /\ Goes(t, "prune")
    /\ UNCHANGED <<traces, recorded, read, trace, now, updates, old>>

\* delete_traces: some by their ids, or all of them.
DeleteTraces(t) ==
    /\ pc[t] = "idle"
    /\ \E r \in traces : traces' \in {traces \ {r}, {}}
    /\ UNCHANGED <<settings, recorded, pc, read, trace, now, updates, old>>

-----------------------------------------------------------------------------
(* prune_traces.                                                           *)

ReadLimits(t) ==
    /\ pc[t] = "prune"
    /\ Reads(t)
    /\ Goes(t, "delete")
    /\ UNCHANGED <<settings, traces, recorded, trace, now, updates, old>>

Bytes(S) == MapThenSumSet(LAMBDA r : r.bytes, S)

\* What the limit leaves of S: newest first, up to the first that overflows.
\* Of traces of one time the database chooses.
WithinLimit(S, limit) ==
    {K \in SUBSET S :
        /\ Bytes(K) <= limit
        /\ \A k \in K, r \in S \ K : k.start >= r.start
        /\ K # S => \E r \in S \ K : /\ Bytes(K \cup {r}) > limit
                                     /\ \A q \in S \ K : r.start >= q.start}

Prune(t) ==
    /\ pc[t] = "delete"
    /\ LET kept == traces \ Expired(traces, read[t].days)
       IN  traces' \in WithinLimit(kept, read[t].limit)
    /\ read' = [read EXCEPT ![t] = AnySettings]
    /\ Goes(t, "idle")
    /\ UNCHANGED <<settings, recorded, trace, now, updates, old>>

Tick ==
    /\ now < MaxTime
    /\ now' = now + 1
    /\ old' = {r \in traces : settings.days # Forever /\ r.start < now + 1 - settings.days}
    /\ UNCHANGED <<settings, traces, recorded, pc, read, trace, updates>>

Done ==
    /\ \A t \in Threads : pc[t] = "idle"
    /\ (recorded = MaxTraces \/ settings.mode = "off") /\ updates = MaxUpdates /\ now = MaxTime
    /\ UNCHANGED tvars

Next ==
    \/ \E t \in Writers : Begin(t) \/ Insert(t)
    \/ \E t \in Admins : BeginUpdate(t) \/ Write(t) \/ DeleteTraces(t)
    \/ \E t \in Threads : ReadLimits(t) \/ Prune(t)
    \/ Tick \/ Done

Spec == Init /\ [][Next]_tvars

-----------------------------------------------------------------------------
(* Properties.                                                             *)

TypeOK ==
    /\ settings \in Settings
    /\ traces \subseteq Trace /\ recorded \in 0 .. MaxTraces
    /\ pc \in [Threads -> {"idle", "insert", "write", "prune", "delete"}]
    /\ read \in [Threads -> Settings]
    /\ trace \in [Writers -> Trace]
    /\ now \in 0 .. MaxTime /\ updates \in 0 .. MaxUpdates

\* When no call is under way the store is within the limits of the settings in
\* force: not those that a call has read before another one changed them.  Of
\* the time limit this holds but for the traces that have become too old since,
\* which stay until the next call.
StoreWithinLimits ==
    (\A t \in Threads : pc[t] \in {"idle", "insert"}) =>
        /\ Bytes(traces) <= settings.limit
        /\ Expired(traces, settings.days) \subseteq old
=============================================================================
