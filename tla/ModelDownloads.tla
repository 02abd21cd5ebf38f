---------------------------- MODULE ModelDownloads ----------------------------
(***************************************************************************)
(* The weights on disk (machboost/server.py: pull, handle_pull,            *)
(* RepositoryDownloadMonitor, delete_model_weights and /api/delete;        *)
(* machboost/models.py: model_repositories, repository_download_state,     *)
(* delete_cached_repositories, catalog_rows).                              *)
(*                                                                         *)
(* A model needs one repository, or two: a target and a draft.  A pull, a  *)
(* load that downloads what is missing, and a deletion work on the same    *)
(* files; a thread of the pull reports its progress to the same socket.    *)
(***************************************************************************)
EXTENDS Integers, Sequences, FiniteSets

CONSTANTS Shards, DraftShards,  \* files of the target and of the draft
          MaxPulls              \* bound on the pulls; there is one deletion

Repositories == {"target", "draft"}
Kinds == {"single", "pair"}

VARIABLES
    disk,     \* the shards of each repository that are complete
    pull,     \* the pull that is under way, or the last one
    monitor,  \* its RepositoryDownloadMonitor: the thread's place, and what it has read
    behind,   \* there is a thread that the join has not waited for
    shown,    \* the progress that the last row tells
    done,     \* the row with "done" is written
    listens,  \* the client is still there
    resident, \* models that are loaded
    remover,  \* a deletion; "met" are the models loaded while it removes files
    pulls,
    flaws     \* history: what went wrong with the rows, and which work was overtaken

dVars == <<disk, pull, monitor, behind, shown, done, listens, resident, remover, pulls, flaws>>

NoPull   == [pc |-> "idle", model |-> "single", at |-> 1, left |-> {}, cancel |-> FALSE,
             stream |-> FALSE, status |-> "none"]
NoRemove == [pc |-> "idle", model |-> "single", todo |-> <<>>, met |-> {}]

\* model_repositories, and the repository a loaded model goes by (model_targets).
ModelRepositories(m) == IF m = "pair" THEN <<"target", "draft">> ELSE <<"target">>
Needs(m)  == {ModelRepositories(m)[i] : i \in DOMAIN ModelRepositories(m)}
Weights(r)  == IF r = "draft" THEN DraftShards ELSE Shards
Target(m) == ModelRepositories(m)[1]

\* catalog_rows, cached_repo_path.
Cached(m) == \A r \in Needs(m) : disk[r] = Weights(r)

Init ==
    /\ disk = [r \in Repositories |-> {}]
    /\ pull = NoPull /\ remover = NoRemove
    /\ monitor = [pc |-> "none", seen |-> 0] /\ behind = FALSE
    /\ shown = 0 /\ done = FALSE /\ listens = TRUE
    /\ resident = {} /\ pulls = 0
    /\ flaws = {}

-----------------------------------------------------------------------------
(* pull and handle_pull.                                                   *)

Repository == ModelRepositories(pull.model)[pull.at]

\* repository_download_state.
Completed == Cardinality(disk[Repository])

Active == pull.pc \notin {"idle", "ended"}

BeginPull ==
    /\ ~Active /\ pulls < MaxPulls
    /\ pulls' = pulls + 1
    /\ \E m \in Kinds, s \in BOOLEAN :
         pull' = [NoPull EXCEPT !.pc = "resolve", !.model = m, !.stream = s]
    /\ done' = FALSE /\ listens' = TRUE /\ shown' = 0 /\ behind' = FALSE
    /\ flaws' = IF /\ remover.pc \in {"unload", "remove"}
                   /\ Needs(remover.model) \cap Needs(pull'.model) # {}
                THEN {"overtaken"} ELSE {}
    /\ UNCHANGED <<disk, monitor, resident, remover>>

Cancel ==
    /\ Active /\ ~pull.cancel
    /\ pull' = [pull EXCEPT !.cancel = TRUE]
    /\ UNCHANGED <<disk, monitor, behind, shown, done, listens, resident, remover, pulls, flaws>>

Hangup ==
    /\ Active /\ pull.stream /\ listens
    /\ listens' = FALSE
    /\ UNCHANGED <<disk, pull, monitor, behind, shown, done, resident, remover, pulls, flaws>>

\* A row of progress.  It tells of less than the last one, or comes after the end.
Row(n) ==
    /\ shown' = n
    /\ flaws' = flaws \cup (IF n < shown THEN {"back"} ELSE {})
                      \cup (IF done THEN {"late"} ELSE {})

\* write_json_line fails once the client has gone.
CanWrite == listens \/ ~pull.stream

Raise(status) == pull' = [pull EXCEPT !.pc = "ending", !.status = status]

\* check_cancelled, the row "resolving", the list of files and the first report of the
\* monitor.
Resolve ==
    /\ pull.pc = "resolve"
    /\ IF pull.cancel \/ ~CanWrite
       THEN /\ Raise(IF pull.cancel THEN "cancelled" ELSE "failed")
            /\ UNCHANGED <<monitor, shown>>
       ELSE /\ pull' = [pull EXCEPT !.pc = "download", !.left = Weights(Repository)]
            /\ monitor' = [pc |-> IF pull.stream THEN "waits" ELSE "none", seen |-> 0]
            /\ shown' = IF pull.stream THEN Completed ELSE shown
    /\ UNCHANGED <<disk, behind, done, listens, resident, remover, pulls, flaws>>

\* snapshot_download comes to a file that is there, or gets it; an update of the progress
\* raises once the pull is cancelled, and the network may fail.
Download ==
    /\ pull.pc = "download"
    /\ \E s \in pull.left, fails \in BOOLEAN :
         IF pull.cancel \/ fails
         THEN /\ pull' = [pull EXCEPT !.pc = "stop",
                                    !.status = IF pull.cancel THEN "cancelled" ELSE "failed"]
              /\ UNCHANGED disk
         ELSE /\ pull' = [pull EXCEPT !.left = @ \ {s},
                                     !.pc = IF pull.left = {s} THEN "stop" ELSE @]
              /\ disk' = [disk EXCEPT ![Repository] = @ \cup {s}]
    /\ UNCHANGED <<monitor, behind, shown, done, listens, resident, remover, pulls, flaws>>

\* The join ends with the thread, or after its timeout if a report takes that long.
JoinEnds == monitor.pc \in {"none", "waits"}

\* RepositoryDownloadMonitor.stop.
StopMonitor ==
    /\ pull.pc = "stop" /\ JoinEnds
    /\ monitor' = IF monitor.pc = "waits" THEN [monitor EXCEPT !.pc = "none"] ELSE monitor
    /\ IF ~pull.stream
       THEN pull' = [pull EXCEPT !.pc = "next"] /\ UNCHANGED <<shown, flaws>>
       ELSE IF listens
            THEN Row(Completed) /\ pull' = [pull EXCEPT !.pc = "next"]
            ELSE Raise("failed") /\ UNCHANGED <<shown, flaws>>
    /\ UNCHANGED <<disk, behind, done, listens, resident, remover, pulls>>

\* A report takes longer than the join waits.
JoinTimesOut ==
    /\ pull.pc = "stop" /\ monitor.pc = "reports"
    /\ monitor' = [monitor EXCEPT !.pc = "none"]
    /\ behind' = TRUE
    /\ UNCHANGED <<disk, pull, shown, done, listens, resident, remover, pulls, flaws>>

\* After an exception, or the check, or with the next repository, or the end.
NextRepository ==
    /\ pull.pc = "next"
    /\ IF pull.status # "none" THEN Raise(pull.status)
       ELSE IF pull.cancel THEN Raise("cancelled")
       ELSE IF pull.at < Len(ModelRepositories(pull.model))
            THEN pull' = [pull EXCEPT !.at = @ + 1, !.pc = "resolve"]
            ELSE Raise("completed")
    /\ shown' = 0
    /\ UNCHANGED <<disk, behind, monitor, done, listens, resident, remover, pulls, flaws>>

\* OperationRegistry.finish, then the row with "done".
EndPull ==
    /\ pull.pc = "ending"
    /\ pull' = [pull EXCEPT !.pc = "ended", !.left = {}]
    /\ done' = (pull.stream /\ listens)
    /\ flaws' = flaws \cup (IF pull.status = "completed" /\ ~Cached(pull.model)
                         THEN {"incomplete"} ELSE {})
    /\ UNCHANGED <<disk, monitor, behind, shown, listens, resident, remover, pulls>>

-----------------------------------------------------------------------------
(* The monitor's thread.                                                   *)

MonitorReads ==
    /\ monitor.pc = "waits" /\ pull.pc \in {"download", "stop"}
    /\ monitor' = [monitor EXCEPT !.pc = "reports", !.seen = Completed]
    /\ UNCHANGED <<disk, behind, pull, shown, done, listens, resident, remover, pulls, flaws>>

\* It reports, or dies of the client's absence; told to stop, it ends.
MonitorReports ==
    /\ monitor.pc = "reports"
    /\ IF listens THEN Row(monitor.seen) ELSE UNCHANGED <<shown, flaws>>
    /\ monitor' = [monitor EXCEPT !.pc =
                    IF listens /\ pull.pc = "download" THEN "waits" ELSE "none"]
    /\ UNCHANGED <<disk, behind, pull, done, listens, resident, remover, pulls>>

\* A row of a thread that was left behind tells of any earlier progress.
ReportLate ==
    /\ behind /\ listens
    /\ flaws' = IF done THEN flaws \cup {"late"} ELSE flaws
    /\ UNCHANGED <<disk, pull, monitor, behind, shown, done, listens, resident, remover, pulls>>

-----------------------------------------------------------------------------
(* A request that loads a model gets what is missing (in one step here).   *)

Load ==
    /\ \E m \in Kinds \ resident :
         /\ disk' = [r \in Repositories |-> IF r \in Needs(m) THEN Weights(r) ELSE disk[r]]
         /\ resident' = resident \cup {m}
         /\ remover' = IF remover.pc = "remove" THEN [remover EXCEPT !.met = @ \cup {m}]
                                                ELSE remover
    /\ UNCHANGED <<pull, monitor, behind, shown, done, listens, pulls, flaws>>

-----------------------------------------------------------------------------
(* /api/delete and delete_model_weights.                                   *)

\* RuntimeManager.stop: every model that goes by the same repository.
Unloaded(m) == {x \in resident : Target(x) # Target(m)}

\* The model is unloaded and its alias removed, whatever becomes of the weights.
BeginDelete ==
    /\ remover.pc = "idle"
    /\ \E m \in Kinds, purge \in BOOLEAN :
         /\ resident' = Unloaded(m)
         /\ remover' = IF purge THEN [NoRemove EXCEPT !.pc = "check", !.model = m]
                                 ELSE [NoRemove EXCEPT !.pc = "ended"]
    /\ UNCHANGED <<disk, pull, monitor, behind, shown, done, listens, pulls, flaws>>

Overlaps(m, n) == Needs(m) \cap Needs(n) # {}

CheckPulls ==
    /\ remover.pc = "check"
    /\ remover' = IF Active /\ Overlaps(pull.model, remover.model)
                  THEN [NoRemove EXCEPT !.pc = "ended"] ELSE [remover EXCEPT !.pc = "unload"]
    /\ UNCHANGED <<disk, pull, monitor, behind, shown, done, listens, resident, pulls, flaws>>

StopAll(m) == Unloaded(m)

Unload ==
    /\ remover.pc = "unload"
    /\ resident' = StopAll(remover.model)
    /\ remover' = [remover EXCEPT !.pc = "remove", !.todo = ModelRepositories(remover.model)]
    /\ UNCHANGED <<disk, pull, monitor, behind, shown, done, listens, pulls, flaws>>

\* delete_cached_repositories: a file of the first repository, or on to the next.
Remove ==
    /\ remover.pc = "remove"
    /\ IF remover.todo = <<>>
       THEN remover' = [NoRemove EXCEPT !.pc = "ended", !.met = remover.met] /\ UNCHANGED disk
       ELSE LET r == Head(remover.todo)
            IN  \/ \E s \in disk[r] : disk' = [disk EXCEPT ![r] = @ \ {s}] /\ UNCHANGED remover
                \/ /\ disk[r] = {}
                   /\ remover' = [remover EXCEPT !.todo = Tail(@)] /\ UNCHANGED disk
    /\ UNCHANGED <<pull, monitor, behind, shown, done, listens, resident, pulls, flaws>>

\* The last pull and the deletion have ended, and no thread is left.
Done ==
    /\ ~Active /\ pulls = MaxPulls /\ remover.pc = "ended"
    /\ UNCHANGED dVars

Next ==
    \/ BeginPull \/ Cancel \/ Hangup \/ Resolve \/ Download
    \/ StopMonitor \/ JoinTimesOut \/ NextRepository \/ EndPull
    \/ MonitorReads \/ MonitorReports \/ ReportLate
    \/ Load
    \/ BeginDelete \/ CheckPulls \/ Unload \/ Remove
    \/ Done

Spec == Init /\ [][Next]_dVars

-----------------------------------------------------------------------------
TypeOK ==
    /\ \A r \in Repositories : disk[r] \subseteq Weights(r)
    /\ resident \subseteq Kinds
    /\ pull.model \in Kinds /\ pull.left \subseteq Shards \cup DraftShards
    /\ monitor.pc \in {"none", "waits", "reports"}
    /\ flaws \subseteq {"overtaken", "back", "late", "incomplete"}

\* server.py:1292: "cancel the active model download before deleting its files".  A pull
\* that reports success has all its files, of both repositories, whatever was deleted,
\* unless it began after a deletion had looked for active pulls.
DownloadsAreSpared == "incomplete" \in flaws => "overtaken" \in flaws

\* A model that is loaded has its files, although a deletion of another name may take a
\* repository from it, unless it was loaded while the files were being removed.
ResidentHasWeights == \A m \in resident \ remover.met : Cached(m)

\* The rows of a pull tell of no less than before and end with the one that says "done",
\* although two threads write them, unless a report took longer than the monitor is
\* waited for, or files were deleted or are downloaded again.
RowsAreInOrder ==
    /\ "late" \in flaws => behind
    /\ "back" \in flaws => "overtaken" \in flaws

=============================================================================
