--------------------------- MODULE ModelResidency ---------------------------
(***************************************************************************)
(* Which models are resident (machboost/server.py, class RuntimeManager).  *)
(*                                                                         *)
(* Three kinds of lock are involved.  RuntimeManager._lock protects the    *)
(* table of resident models: a section under it is one action.             *)
(* LoadedModel.lock (lock) is kept by an eviction from the sweep to the    *)
(* release and taken for a moment by everybody else.  The condition of the *)
(* ReplicaPool is inside the pool, of which only the promise of module     *)
(* LeaseAllocator and the presence of waiters matter here.                 *)
(*                                                                         *)
(* A request looks an entry up under _lock, lets go of it, and uses the    *)
(* entry: meanwhile it may be evicted or stopped.                          *)
(***************************************************************************)
EXTENDS Integers, FiniteSets

CONSTANTS Requests,        \* threads in chat or generate
          Warmers,         \* threads in get_or_load and then warm
          Reapers,         \* threads that only evict (reaper, ps)
          Stoppers,        \* threads in stop
          Configs,         \* ModelConfig values
          Entries,         \* identities of LoadedModel objects (a bound)
          N,               \* replicas of each entry
          ReleaseMayFail,  \* may release_accelerator raise?
          NoEntry, Nobody

ASSUME ResidencyAssumption ==
    /\ N \in Nat \ {0}
    /\ ReleaseMayFail \in BOOLEAN
    /\ NoEntry \notin Entries
    /\ Nobody \notin Requests \cup Warmers \cup Reapers \cup Stoppers
    /\ Requests \cap Warmers = {}
    /\ (Requests \cup Warmers) \cap Stoppers = {}

Replicas == 0 .. N - 1
Users    == Requests \cup Warmers
Threads  == Users \cup Reapers \cup Stoppers

VARIABLES
    models,    \* _models
    loaded,    \* entries created so far
    open,      \* the pool of an entry is not closed
    owner,     \* who holds each replica of an entry
    waiters,   \* threads queued in the pool of an entry
    lock,      \* the thread that keeps LoadedModel.lock
    expired,   \* expires_at has been reached
    forever,   \* keep_alive is negative
    warming,   \* LoadedModel.warming
    warmups,   \* LoadedModel.warmups
    releases,  \* calls of release_entry_accelerators for an entry
    forgotten, \* history: entries on the list of a loop that an exception has left
    pc,        \* where each thread is
    using,     \* the entry a user works with
    todo       \* the entries a thread has popped and must release

entryVars == <<open, owner, waiters, lock, expired, forever, warming, warmups,
               releases, forgotten>>
vars == <<models, loaded, entryVars, pc, using, todo>>

Init ==
    /\ models = [k \in Configs |-> NoEntry]
    /\ loaded = {}
    /\ open = [e \in Entries |-> TRUE]
    /\ owner = [e \in Entries |-> [r \in Replicas |-> Nobody]]
    /\ waiters = [e \in Entries |-> {}]
    /\ lock = [e \in Entries |-> Nobody]
    /\ expired = [e \in Entries |-> FALSE]
    /\ forever = [e \in Entries |-> FALSE]
    /\ warming = [e \in Entries |-> FALSE]
    /\ warmups = [e \in Entries |-> 0]
    /\ releases = [e \in Entries |-> 0]
    /\ forgotten = {}
    /\ pc = [c \in Threads |-> "idle"]
    /\ using = [c \in Threads |-> NoEntry]
    /\ todo = [c \in Threads |-> {}]

-----------------------------------------------------------------------------
(* The pool of an entry, as module ReplicaPool shows it to behave.         *)

FreeReplicas(e) == {r \in Replicas : owner[e][r] = Nobody}
LeasesOf(c, e)  == {r \in Replicas : owner[e][r] = c}
Drained(e)      == FreeReplicas(e) = Replicas
Idle(e)         == Drained(e) /\ waiters[e] = {}

Mapped == {models[k] : k \in Configs} \ {NoEntry}

\* Replicas a user wants: chat one, a warm-up all.
Want(c) == IF c \in Warmers THEN N ELSE 1

\* c can take LoadedModel.lock (an RLock) now.
CanLock(c, e) == lock[e] \in {Nobody, c}

-----------------------------------------------------------------------------
(* evict_expired, by the reaper, by ps and first thing in get_or_load.     *)

\* Mutant: a pool with waiters but without leases counts as idle.
ExpiredWhileQueued(c) ==
    {e \in Mapped : expired[e] /\ CanLock(c, e) /\ Drained(e)}

\* Mutant: a busy pool is closed as well.
ExpiredEntries(c) == {e \in Mapped : expired[e] /\ CanLock(c, e)}

\* The entries one pass evicts: try_close_idle holds the pool's lock while it
\* looks and closes.  (The time is read before _lock is taken, so an entry
\* that expires in between is left to the next pass.)
Victims(c) == {e \in Mapped : expired[e] /\ CanLock(c, e) /\ Idle(e)}

\* Mutant: the table keeps what is evicted or stopped.
KeepInTable(gone) == UNCHANGED models

Remove(gone) ==
    models' = [k \in Configs |-> IF models[k] \in gone THEN NoEntry
                                                       ELSE models[k]]

Sweep(c) ==
    /\ c \notin Stoppers
    /\ pc[c] = "idle"
    /\ todo[c] = {}
    /\ LET gone == Victims(c)
       IN  /\ Remove(gone)
           /\ open' = [e \in Entries |-> open[e] /\ e \notin gone]
           /\ lock' = [e \in Entries |-> IF e \in gone THEN c ELSE lock[e]]
           /\ todo' = [todo EXCEPT ![c] = gone]
    /\ pc' = [pc EXCEPT ![c] = IF c \in Users THEN "lookup" ELSE "idle"]
    /\ UNCHANGED <<loaded, owner, waiters, expired, forever, warming, warmups,
                   releases, forgotten, using>>

Evict(c, e) ==
    /\ c \notin Stoppers
    /\ e \in todo[c]
    /\ releases' = [releases EXCEPT ![e] = @ + 1]
    /\ lock' = [lock EXCEPT ![e] = Nobody]
    /\ \/ /\ todo' = [todo EXCEPT ![c] = @ \ {e}]
          /\ UNCHANGED <<pc, forgotten>>
       \/ \* The exception leaves the loop: the other locks stay taken.
          /\ ReleaseMayFail
          /\ todo' = [todo EXCEPT ![c] = {}]
          /\ forgotten' = forgotten \cup (todo[c] \ {e})
          /\ pc' = [pc EXCEPT ![c] = IF c \in Users THEN "idle" ELSE "dead"]
    /\ UNCHANGED <<models, loaded, open, owner, waiters, expired, forever,
                   warming, warmups, using>>

-----------------------------------------------------------------------------
(* get_or_load, after its call of evict_expired                            *)

Touch(e) == expired' = [expired EXCEPT ![e] = FALSE]

\* The caller goes on with e and its own keep_alive.
Obtain(c, e) ==
    /\ using' = [using EXCEPT ![c] = e]
    /\ pc' = [pc EXCEPT ![c] = IF c \in Warmers THEN "reserve" ELSE "admission"]
    /\ \E ttl \in BOOLEAN : forever' = [forever EXCEPT ![e] = ttl]
    /\ Touch(e)

GetOrLoad(c, k) ==
    /\ pc[c] = "lookup"
    /\ todo[c] = {}
    /\ \/ /\ models[k] # NoEntry
          /\ Obtain(c, models[k])
          /\ UNCHANGED <<models, loaded>>
       \/ /\ models[k] = NoEntry
          /\ \E e \in Entries \ loaded :
                /\ Obtain(c, e)
                /\ loaded' = loaded \cup {e}
                /\ models' = [models EXCEPT ![k] = e]
       \/ \* The loader raises.
          /\ models[k] = NoEntry
          /\ pc' = [pc EXCEPT ![c] = "idle"]
          /\ UNCHANGED <<models, loaded, using, forever, expired>>
    /\ UNCHANGED <<open, owner, waiters, lock, warming, warmups, releases,
                   forgotten, todo>>

-----------------------------------------------------------------------------
(* Leases                                                                  *)

Lease(c, e) ==
    /\ \E r \in FreeReplicas(e) : owner' = [owner EXCEPT ![e][r] = c]
    /\ pc' = [pc EXCEPT ![c] =
                 IF Cardinality(LeasesOf(c, e)) + 1 = Want(c) THEN "running"
                                                              ELSE "admission"]

AdmitDirect(c) ==
    LET e == using[c]
    IN  /\ pc[c] = "admission"
        /\ open[e]
        /\ waiters[e] = {}
        /\ Lease(c, e)
        /\ UNCHANGED <<models, loaded, open, waiters, lock, expired, forever,
                       warming, warmups, releases, forgotten, using, todo>>

Enqueue(c) ==
    LET e == using[c]
    IN  /\ pc[c] = "admission"
        /\ open[e]
        /\ waiters[e] # {} \/ FreeReplicas(e) = {}
        /\ waiters' = [waiters EXCEPT ![e] = @ \cup {c}]
        /\ pc' = [pc EXCEPT ![c] = "queued"]
        /\ UNCHANGED <<models, loaded, open, owner, lock, expired, forever,
                       warming, warmups, releases, forgotten, using, todo>>

AdmitQueued(c) ==
    LET e == using[c]
    IN  /\ pc[c] = "queued"
        /\ open[e]
        /\ Lease(c, e)
        /\ waiters' = [waiters EXCEPT ![e] = @ \ {c}]
        /\ UNCHANGED <<models, loaded, open, lock, expired, forever, warming,
                       warmups, releases, forgotten, using, todo>>

\* Closed, queue full, timed out or cancelled.  A warm-up waits without a
\* deadline and cannot be cancelled.
Refused(c) ==
    LET e == using[c]
    IN  /\ pc[c] \in {"admission", "queued"}
        /\ open[e] => \/ c \in Requests
                      \/ /\ pc[c] = "admission"
                         /\ waiters[e] # {} \/ FreeReplicas(e) = {}
        /\ waiters' = [waiters EXCEPT ![e] = @ \ {c}]
        /\ IF c \in Warmers
           THEN /\ pc' = [pc EXCEPT ![c] = "failed"]
                /\ UNCHANGED using
           ELSE /\ pc' = [pc EXCEPT ![c] = "idle"]
                /\ using' = [using EXCEPT ![c] = NoEntry]
        /\ UNCHANGED <<models, loaded, open, owner, lock, expired, forever,
                       warming, warmups, releases, forgotten, todo>>

Return(c) ==
    \E r \in LeasesOf(c, using[c]) :
        owner' = [owner EXCEPT ![using[c]][r] = Nobody]

-----------------------------------------------------------------------------
(* chat and generate                                                       *)

\* Mutant: no finally: a generation that raises keeps its lease.
FailureKeepsLease(c) ==
    /\ c \in Requests
    /\ pc[c] = "running"
    /\ \/ pc' = [pc EXCEPT ![c] = "generated"] /\ UNCHANGED using
       \/ /\ pc' = [pc EXCEPT ![c] = "idle"]
          /\ using' = [using EXCEPT ![c] = NoEntry]
    /\ UNCHANGED <<models, loaded, entryVars, todo>>

\* The generation ends well or raises.
GenerationEnds(c) ==
    /\ c \in Requests
    /\ pc[c] = "running"
    /\ pc' \in {[pc EXCEPT ![c] = "generated"], [pc EXCEPT ![c] = "leaving"]}
    /\ UNCHANGED <<models, loaded, entryVars, using, todo>>

\* The entry is marked as used, under its lock and while the lease is held.
MarkUsed(c) ==
    /\ pc[c] = "generated"
    /\ CanLock(c, using[c])
    /\ Touch(using[c])
    /\ pc' = [pc EXCEPT ![c] = "leaving"]
    /\ UNCHANGED <<models, loaded, open, owner, waiters, lock, forever,
                   warming, warmups, releases, forgotten, using, todo>>

Leave(c) ==
    /\ pc[c] = "leaving"
    /\ Return(c)
    /\ pc' = [pc EXCEPT ![c] = "idle"]
    /\ using' = [using EXCEPT ![c] = NoEntry]
    /\ UNCHANGED <<models, loaded, open, waiters, lock, expired, forever,
                   warming, warmups, releases, forgotten, todo>>

-----------------------------------------------------------------------------
(* warm and warm_async                                                     *)

\* Mutant: a warm-up in progress is not noticed.
DoneBefore(e) == warmups[e] > 0

\* Mutant: a finished warm-up is not noticed.
InProgress(e) == warming[e]

Taken(e) == warmups[e] > 0 \/ warming[e]

Reserve(c) ==
    LET e == using[c]
    IN  /\ pc[c] = "reserve"
        /\ CanLock(c, e)
        /\ \/ /\ ~Taken(e)
              /\ warming' = [warming EXCEPT ![e] = TRUE]
              /\ pc' = [pc EXCEPT ![c] = "admission"]
              /\ UNCHANGED <<using, expired>>
           \/ /\ Taken(e)
              /\ Touch(e) \/ UNCHANGED expired      \* warm, warm_async
              /\ pc' = [pc EXCEPT ![c] = "idle"]
              /\ using' = [using EXCEPT ![c] = NoEntry]
              /\ UNCHANGED warming
        /\ UNCHANGED <<models, loaded, open, owner, waiters, lock, forever,
                       warmups, releases, forgotten, todo>>

WarmupRuns(c) ==
    /\ c \in Warmers
    /\ pc[c] = "running"
    /\ pc' \in {[pc EXCEPT ![c] = "warmed"], [pc EXCEPT ![c] = "failed"]}
    /\ UNCHANGED <<models, loaded, entryVars, using, todo>>

\* The finally of _perform_warmup: each lease, then the entry.
WarmupReleases(c) ==
    /\ pc[c] \in {"warmed", "failed"}
    /\ Return(c)
    /\ UNCHANGED <<models, loaded, open, waiters, lock, expired, forever,
                   warming, warmups, releases, forgotten, pc, using, todo>>

WarmupEnds(c) ==
    LET e == using[c]
    IN  /\ pc[c] \in {"warmed", "failed"}
        /\ LeasesOf(c, e) = {}
        /\ CanLock(c, e)
        /\ warmups' = [warmups EXCEPT ![e] = IF pc[c] = "warmed" THEN @ + 1 ELSE @]
        /\ warming' = [warming EXCEPT ![e] = FALSE]
        /\ Touch(e)
        /\ pc' = [pc EXCEPT ![c] = "idle"]
        /\ using' = [using EXCEPT ![c] = NoEntry]
        /\ UNCHANGED <<models, loaded, open, owner, waiters, lock, forever,
                       releases, forgotten, todo>>

-----------------------------------------------------------------------------
(* stop, of one configuration or of all (model=None)                       *)

Stop(c, ks) ==
    LET gone == {models[k] : k \in ks} \ {NoEntry}
    IN  /\ c \in Stoppers
        /\ pc[c] = "idle"
        /\ gone # {}
        /\ Remove(gone)
        /\ todo' = [todo EXCEPT ![c] = gone]
        /\ pc' = [pc EXCEPT ![c] = "stopping"]
        /\ UNCHANGED <<loaded, entryVars, using>>

\* Mutant: the entry is locked while close waits.
StopClosesLocked(c, e) ==
    /\ pc[c] = "stopping"
    /\ e \in todo[c]
    /\ using[c] = NoEntry
    /\ CanLock(c, e)
    /\ lock' = [lock EXCEPT ![e] = c]
    /\ using' = [using EXCEPT ![c] = e]
    /\ open' = [open EXCEPT ![e] = FALSE]
    /\ UNCHANGED <<models, loaded, owner, waiters, expired, forever, warming,
                   warmups, releases, forgotten, pc, todo>>

\* close(wait=True) starts to wait; the entry is the one in "using".
StopCloses(c, e) ==
    /\ pc[c] = "stopping"
    /\ e \in todo[c]
    /\ using[c] = NoEntry
    /\ using' = [using EXCEPT ![c] = e]
    /\ open' = [open EXCEPT ![e] = FALSE]
    /\ UNCHANGED <<models, loaded, owner, waiters, lock, expired, forever,
                   warming, warmups, releases, forgotten, pc, todo>>

\* Mutant: close(wait=False).
CloseDoesNotWait(e) == ~open[e]

\* close(wait=True) returns.
CloseReturns(e) == ~open[e] /\ Drained(e)

StopReleases(c) ==
    LET e == using[c]
    IN  /\ pc[c] = "stopping"
        /\ e # NoEntry
        /\ CloseReturns(e)
        /\ CanLock(c, e)
        /\ releases' = [releases EXCEPT ![e] = @ + 1]
        /\ using' = [using EXCEPT ![c] = NoEntry]
        /\ \/ /\ todo' = [todo EXCEPT ![c] = @ \ {e}]
              /\ pc' = [pc EXCEPT ![c] = IF todo[c] = {e} THEN "idle"
                                                          ELSE "stopping"]
              /\ UNCHANGED forgotten
           \/ \* The exception leaves the loop: the others stay open.
              /\ ReleaseMayFail
              /\ todo' = [todo EXCEPT ![c] = {}]
              /\ forgotten' = forgotten \cup (todo[c] \ {e})
              /\ pc' = [pc EXCEPT ![c] = "idle"]
        /\ UNCHANGED <<models, loaded, open, owner, waiters, lock, expired,
                       forever, warming, warmups>>

\* keep_alive runs out.
Expire(e) ==
    /\ e \in loaded
    /\ ~expired[e]
    /\ ~forever[e]
    /\ expired' = [expired EXCEPT ![e] = TRUE]
    /\ UNCHANGED <<models, loaded, open, owner, waiters, lock, forever,
                   warming, warmups, releases, forgotten, pc, using, todo>>

-----------------------------------------------------------------------------

UserStep(c) ==
    \/ \E k \in Configs : GetOrLoad(c, k)
    \/ AdmitDirect(c)
    \/ Enqueue(c)
    \/ AdmitQueued(c)
    \/ Refused(c)
    \/ GenerationEnds(c)
    \/ MarkUsed(c)
    \/ Leave(c)
    \/ Reserve(c)
    \/ WarmupRuns(c)
    \/ WarmupReleases(c)
    \/ WarmupEnds(c)

Next ==
    \/ \E c \in Users : UserStep(c)
    \/ \E c \in Threads : Sweep(c) \/ \E e \in Entries : Evict(c, e)
    \/ \E c \in Stoppers : \/ \E ks \in SUBSET Configs : Stop(c, ks)
                          \/ \E e \in Entries : StopCloses(c, e)
                          \/ StopReleases(c)
    \/ \E e \in Entries : Expire(e)

Spec == Init /\ [][Next]_vars

\* Threads run; the reaper loops; a generation is bounded by its token limit
\* and a load by its files.  A queued call is admitted in turn, as
\* EveryCallReturns of ReplicaPool says, hence the strong fairness.  Nobody
\* has to call anything, and keep_alive need not run out.
Fairness ==
    /\ \A c \in Users : WF_vars(UserStep(c)) /\ SF_vars(AdmitQueued(c))
    /\ \A c \in Reapers : WF_vars(Sweep(c))
    /\ \A c \in Users \cup Reapers : WF_vars(\E e \in Entries : Evict(c, e))
    /\ \A c \in Stoppers : WF_vars((\E e \in Entries : StopCloses(c, e))
                                  \/ StopReleases(c))

FairSpec == Spec /\ Fairness

-----------------------------------------------------------------------------
(* Properties.                                                             *)

Places == {"idle", "lookup", "admission", "queued", "running", "generated", "leaving",
           "reserve", "warmed", "failed", "stopping", "dead"}

TypeOK ==
    /\ models \in [Configs -> Entries \cup {NoEntry}]
    /\ loaded \subseteq Entries
    /\ open \in [Entries -> BOOLEAN]
    /\ owner \in [Entries -> [Replicas -> Users \cup {Nobody}]]
    /\ waiters \in [Entries -> SUBSET Users]
    /\ lock \in [Entries -> Threads \cup {Nobody}]
    /\ expired \in [Entries -> BOOLEAN]
    /\ forever \in [Entries -> BOOLEAN]
    /\ warming \in [Entries -> BOOLEAN]
    /\ warmups \in [Entries -> 0 .. 1]
    /\ releases \in [Entries -> 0 .. 1]
    /\ pc \in [Threads -> Places]
    /\ using \in [Threads -> Entries \cup {NoEntry}]
    /\ todo \in [Threads -> SUBSET Entries]

\* No accelerator is released under a generation or a warm-up, whichever of
\* eviction and stop releases it, and none starts on a released one, although
\* callers keep entries they looked up before.
NoUseAfterRelease ==
    \A e \in Entries : releases[e] > 0 => Drained(e) /\ ~open[e]

\* get_or_load never returns an entry whose pool is closed or whose lock an
\* eviction keeps.
ServedEntriesAreOpen ==
    \A e \in Mapped : open[e] /\ lock[e] = Nobody /\ releases[e] = 0

\* Each loaded entry is in the table, where it can be served, or on the list of
\* exactly one thread that will release it, or released once: concurrent evictions
\* and stops neither release an entry twice nor forget one, except those on the
\* list of a thread when one of its releases raises.
OneCustodian ==
    /\ ServedEntriesAreOpen
    /\ \A e \in loaded :
         LET custodians == Cardinality({k \in Configs : models[k] = e})
                           + Cardinality({c \in Threads : e \in todo[c]})
         IN  custodians + releases[e] = IF e \in forgotten THEN 0 ELSE 1

\* An eviction takes no entry from a request or warm-up that is queued or
\* admitted (docstring of try_close_idle), at any later moment either.
EvictionSparesUsers ==
    \A c \in Users, e \in Entries :
        c \in waiters[e] \/ LeasesOf(c, e) # {} => lock[e] = Nobody

\* LoadedModel.warming says whether a warm-up is under way; at most one is,
\* also while the model is stopped, and none follows a successful one.
OneWarmup ==
    \A e \in Entries :
        LET busy == {c \in Warmers : using[c] = e /\ pc[c] # "reserve"}
        IN  /\ Cardinality(busy) <= 1
            /\ warming[e] <=> busy # {}
            /\ warming[e] => warmups[e] = 0

\* stop returns: it waits for leases whose holders may need the entry's lock.
StopReturns == \A c \in Stoppers : pc[c] = "stopping" ~> pc[c] = "idle"

\* Who works with an entry lets go of it, also when it is closed under them.
UsersLetGo == \A c \in Users : using[c] # NoEntry ~> using[c] = NoEntry

\* A model whose keep-alive has run out and that nobody uses does not stay.
ExpiredModelsGo == \A e \in Entries : []<>~(e \in Mapped /\ expired[e])

\* What leaves the table is released.
RemovedModelsAreReleased ==
    \A e \in Entries : e \in loaded \ Mapped ~> releases[e] = 1

\* The pool of each entry does what LeaseAllocator promises, and it has told
\* that it is drained before the accelerators are released.
Pool(e) == INSTANCE LeaseAllocator
               WITH owner <- owner[e], open <- open[e],
                    drained <- releases[e] > 0

PoolsKeepTheirPromise ==
    /\ \A e \in Entries : Pool(e)!Init
    /\ [][\A e \in Entries : [Pool(e)!Next]_(Pool(e)!vars)]_vars

=============================================================================
