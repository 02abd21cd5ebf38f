------------------------------ MODULE MCStores ------------------------------
(***************************************************************************)
(* What the gateway and its launchers keep, one store at a time: the       *)
(* stores share no state, and each is checked in all its own behaviours.   *)
(***************************************************************************)
EXTENDS Integers, FiniteSets

CONSTANTS
    Writers, TraceAdmins, Limits, Sizes, Days, MaxTime, MaxTraces, MaxUpdates,
    Callers, Keys, Devices, Models, MaxAsked, MaxCount, Nobody, Files,
    Readers, MaxEdits, MaxIndexes, MaxCrashes, Requests, Employees, Admins,
    MaxRevision, MaxRecords, MaxPuts, Team, Shards, DraftShards, MaxPulls,
    MaxUserEdits, MaxCommands, MaxKills, Launchers, MaxStops, Handlers, Ids,
    SkillIds, ExtensionNames, Secrets, Tools, FoundLimits, Nothing, MaxCalls

\* There is a greatest limit and a longest retention, which a store begins with.
ASSUME TraceAssumption ==
    /\ Limits \subseteq Nat /\ \E n \in Limits : \A m \in Limits : m <= n
    /\ Days \subseteq Nat /\ \E n \in Days : \A m \in Days : m <= n
    /\ Sizes \subseteq Nat
    /\ MaxTime \in Nat /\ MaxTraces \in Nat \ {0} /\ MaxUpdates \in Nat

\* A workspace has files.
ASSUME IndexAssumption ==
    /\ Files # {}
    /\ MaxEdits \in Nat /\ MaxIndexes \in Nat /\ MaxCrashes \in Nat

\* The owner of what is shared is nobody of those who share it.
ASSUME MemoryAssumption ==
    /\ IsFiniteSet(Requests)
    /\ Team \notin Employees \cup Admins
    /\ MaxRecords \in Nat /\ MaxRevision \in Nat

\* A repository has finitely many files.
ASSUME DownloadAssumption == IsFiniteSet(Shards) /\ IsFiniteSet(DraftShards)

ASSUME ProfileAssumption == MaxUserEdits \in Nat

\* A launcher is told from the other servers, and from the reasons a server ends for.
ASSUME DaemonAssumption ==
    /\ Launchers \cap {"before", "app", "port", "told", "user", "timeout"} = {}
    /\ Nobody \notin Launchers \cup {"before", "app"}

ASSUME RegisterAssumption == MaxAsked \in Nat /\ MaxCount \in Nat

\* There are names enough for the connectors, and names and tools are in an order.
ASSUME ExtensionAssumption ==
    /\ IsFiniteSet(Ids) /\ ExtensionNames \subseteq Int /\ ExtensionNames # {}
    /\ \E f \in [Ids -> ExtensionNames] : \A i, k \in Ids : f[i] = f[k] => i = k
    /\ IsFiniteSet(Tools) /\ Tools \subseteq Int /\ FoundLimits \subseteq Int
    /\ MaxCalls \in Nat

VARIABLES
    part,  \* the component that moves in this behaviour
    \* TeamTraces
    settings, traces, recordedTraces, tracing, read, trace, now, updates, old,
    \* TeamRegister
    created, enabled, seen, count, asked, caller, verdict,
    \* WorkspaceIndex
    disk, edits, rows, meta, indexing, work, todo, found, stat, runs, cache,
    answer, crashes, settled, torn,
    \* TeamMemory
    index, revisionKept, memories, exact, request, puts,
    \* ModelDownloads
    weights, pull, monitor, behind, shown, done, listens, resident, remover,
    pulls, flaws,
    \* DesktopProfiles
    kind, value, state, running, recorded, spawned, command, left, remote,
    snapshot, userEdits, commands, kills, users, lost,
    \* DaemonStart
    upgraded, process, told, launcher, seenServer, server, stops, mistaken,
    why,
    \* Extensions
    servers, skills, job, requests, given

TR == INSTANCE TeamTraces WITH
          pc <- tracing, recorded <- recordedTraces, Admins <- TraceAdmins
TG == INSTANCE TeamRegister
WI == INSTANCE WorkspaceIndex WITH
          pc <- indexing
TM == INSTANCE TeamMemory WITH
          meta <- revisionKept
MD == INSTANCE ModelDownloads WITH
          disk <- weights
DP == INSTANCE DesktopProfiles WITH
          pc <- command, edits <- userEdits, crashes <- kills,
          MaxEdits <- MaxUserEdits, MaxCrashes <- MaxKills
DS == INSTANCE DaemonStart WITH
          pc <- launcher, seen <- seenServer
XT == INSTANCE Extensions WITH
          Limits <- FoundLimits, Names <- ExtensionNames

tracesVars ==
    <<settings, traces, recordedTraces, tracing, read, trace, now, updates,
      old>>
registerVars ==
    <<created, enabled, seen, count, asked, caller, verdict>>
indexVars ==
    <<disk, edits, rows, meta, indexing, work, todo, found, stat, runs, cache,
      answer, crashes, settled, torn>>
memoryVars ==
    <<index, revisionKept, memories, exact, request, puts>>
downloadsVars ==
    <<weights, pull, monitor, behind, shown, done, listens, resident, remover,
      pulls, flaws>>
profilesVars ==
    <<kind, value, state, running, recorded, spawned, command, left, remote,
      snapshot, userEdits, commands, kills, users, lost>>
daemonVars ==
    <<upgraded, process, told, launcher, seenServer, server, stops, mistaken,
      why>>
extensionsVars ==
    <<servers, skills, job, requests, given>>

Parts == {"traces", "register", "index", "memory", "downloads", "profiles",
          "daemon", "extensions"}

Init ==
    /\ part \in Parts
    /\ TR!Init
    /\ TG!Init
    /\ WI!Init
    /\ TM!Init
    /\ MD!Init
    /\ DP!Init
    /\ DS!Init
    /\ XT!Init
    /\ part # "profiles" => kind = "codex"
    /\ part # "daemon" => upgraded = {}
    /\ IF part # "extensions" THEN servers = << >>
       ELSE \A i \in Ids : /\ i \in DOMAIN servers
                           /\ servers[i].secret # Nothing <=> servers[i].name = 1

\* Only the chosen component moves.
Only(p) == part = p /\ UNCHANGED part

Next ==
    \/ /\ Only("traces") /\ TR!Next
       /\ UNCHANGED <<registerVars, indexVars, memoryVars, downloadsVars,
                       profilesVars, daemonVars, extensionsVars>>
    \/ /\ Only("register") /\ TG!Next
       /\ UNCHANGED <<tracesVars, indexVars, memoryVars, downloadsVars,
                       profilesVars, daemonVars, extensionsVars>>
    \/ /\ Only("index") /\ WI!Next
       /\ UNCHANGED <<tracesVars, registerVars, memoryVars, downloadsVars,
                       profilesVars, daemonVars, extensionsVars>>
    \/ /\ Only("memory") /\ TM!Next
       /\ UNCHANGED <<tracesVars, registerVars, indexVars, downloadsVars,
                       profilesVars, daemonVars, extensionsVars>>
    \/ /\ Only("downloads") /\ MD!Next
       /\ UNCHANGED <<tracesVars, registerVars, indexVars, memoryVars,
                       profilesVars, daemonVars, extensionsVars>>
    \/ /\ Only("profiles") /\ DP!Next
       /\ UNCHANGED <<tracesVars, registerVars, indexVars, memoryVars,
                       downloadsVars, daemonVars, extensionsVars>>
    \/ /\ Only("daemon") /\ DS!Next
       /\ UNCHANGED <<tracesVars, registerVars, indexVars, memoryVars,
                       downloadsVars, profilesVars, extensionsVars>>
    \/ /\ Only("extensions") /\ XT!Next
       /\ UNCHANGED <<tracesVars, registerVars, indexVars, memoryVars,
                       downloadsVars, profilesVars, daemonVars>>

vars == <<part, tracesVars, registerVars, indexVars, memoryVars,
                downloadsVars, profilesVars, daemonVars, extensionsVars>>

Spec == Init /\ [][Next]_vars

-----------------------------------------------------------------------------
\* When no call is under way the traces are within the limits in force, whatever two
\* administrators have changed meanwhile (TeamStore.prune_traces, update_settings).
TracesStayWithinLimits == part = "traces" => TR!TypeOK /\ TR!StoreWithinLimits

\* What an administrator decides stands: a model request is decided once
\* (TeamStore.create_model_request, resolve_model_request), and the late answer of a
\* connector changes no configuration, which keeps its own secrets (ExtensionStore,
\* MCPConnectorManager).
DecisionsStand ==
    /\ [](part = "register" => TG!TypeOK /\ TG!DecidedOnce)
    /\ [](part = "extensions" =>
            XT!TypeOK /\ XT!SecretsStayWithTheirConnector /\ XT!SearchIsComplete)
    /\ [][part = "extensions" => XT!LateAnswersOnlyReport]_XT!xvars

\* What a search finds is what was on the disk, under the revision it is said to
\* have (WorkspaceStore.index, query, capsule).
\* What is loaded has its weights, and a pull that reports success has got them, with
\* rows in order (delete_model_weights, RuntimeManager.pull, RepositoryDownloadMonitor).
DiskIsFollowed ==
    /\ part = "index" => WI!TypeOK /\ WI!IndexFollowsDisk /\ WI!MapsMatchRevision
    /\ part = "downloads" =>
         /\ MD!TypeOK /\ MD!DownloadsAreSpared
         /\ MD!ResidentHasWeights /\ MD!RowsAreInOrder

\* Neither knowledge nor cached answers cross from one principal to another, and the
\* store holds no more than its limit, the records still to be pruned and what is pinned
\* (TeamMemoryStore.search, get_exact, put, prune).
MemoryStaysPrivate ==
    part = "memory" => /\ TM!TypeOK /\ TM!StoreWithinLimit
                       /\ TM!KnowledgeStaysPrivate /\ TM!CachedAnswersStayPrivate

\* The user's configuration survives launches, restores and killed commands, and no
\* relay is left (CodexCLIProfileManager, ChatGPTProfileManager,
\* ClaudeDesktopProfileManager, start_gateway_relay); nor is a server that a command
\* started and found wanting, and the one it returns keeps running (ensure_server).
ProfilesAreRestored ==
    /\ part = "profiles" =>
         /\ DP!TypeOK /\ DP!RestoreGivesBack
         /\ DP!CapturedIsTheUsers /\ DP!NoRelayIsLost
    /\ part = "daemon" =>
         /\ DS!TypeOK /\ DS!StaleServersAreStopped
         /\ DS!ReturnedServersStay /\ DS!NoProcessIsLost

\* docs/TEAM_GATEWAY.md:294: "Entries with a mismatched repository revision or
\* changed dependency digest are rejected as stale".
MismatchedRevisionRejected == TM!MismatchedRevisionRejected

\* README.md:449: "records their previous values, and restores them".
RestoreKeepsPreviousValues == DP!RestoreKeepsPreviousValues

=============================================================================
