--------------------------- MODULE DesktopProfiles --------------------------
(***************************************************************************)
(* The launchers that put MachBoost into the configuration of another      *)
(* application and take it out again: CodexCLIProfileManager and           *)
(* ChatGPTProfileManager (machboost/codex_integration.py),                 *)
(* ClaudeDesktopProfileManager (machboost/claude_desktop.py), the commands *)
(* that run them (machboost/cli.py), and the relay that two of them need   *)
(* (machboost/relay.py).                                                   *)
(*                                                                         *)
(* A command runs alone.  It replaces one file after another, each of them *)
(* atomically, and may be killed between any two; relays are processes of  *)
(* their own and go on.  Of a file only what a launcher manages is         *)
(* followed: whether that is the user's, MachBoost's, or not there.        *)
(***************************************************************************)
EXTENDS Integers, Sequences, Functions

CONSTANTS MaxEdits,     \* bound on the user's edits
          MaxCommands,  \* bound on the commands
          MaxCrashes    \* bound on the commands that are killed

Kinds == {"codex", "chatgpt", "claude"}

\* The files in the order in which configure writes them, and restore.
Configured(kind) ==
    CASE kind = "codex"   -> <<"catalog", "profile">>
      [] kind = "chatgpt" -> <<"catalog", "config">>
      [] kind = "claude"  -> <<"mode", "meta", "profile">>
Restored(kind) ==
    CASE kind = "codex"   -> <<"profile", "catalog">>
      [] kind = "chatgpt" -> <<"config", "catalog">>
      [] kind = "claude"  -> <<"mode", "meta", "profile">>

Targets == {"catalog", "profile", "config", "mode", "meta"}
Ours    == 0            \* MachBoost's value
Missing == -1           \* no value: the file or the key is not there
Values  == {Ours, Missing} \cup 1 .. MaxEdits
NoState == [there |-> FALSE, value |-> [f \in Targets |-> Missing]]

VARIABLES
    kind,       \* the launcher
    value,      \* what each of its files has
    state,      \* the launcher's state file: the values that were captured
    running,    \* relays that run
    recorded,   \* the relay the relay's state file names, 0 if it is not there
    spawned,    \* relays started so far; the newest is the one being waited for
    pc, left,   \* where the command is, and the files it still has to write
    remote,     \* the launch has started a relay of Claude's
    snapshot,   \* restore: the state it has read
    edits, commands, crashes,
    users,      \* history: what the user had in each file last, or was left with
    lost        \* history: a command was killed between a relay and its record

files    == <<value, state>>
relays   == <<running, recorded, spawned>>
command  == <<pc, left, snapshot, remote>>
bounds   == <<edits, commands, crashes>>
dvars    == <<kind, files, relays, command, bounds, users, lost>>

Mine == Range(Configured(kind))
Relayed == kind # "codex"

Init ==
    /\ kind \in Kinds
    /\ value = [f \in Targets |-> Missing] /\ users = value
    /\ state = NoState
    /\ running = {} /\ recorded = 0 /\ spawned = 0
    /\ pc = "idle" /\ left = <<>> /\ snapshot = NoState /\ remote = FALSE
    /\ edits = 0 /\ commands = 0 /\ crashes = 0
    /\ lost = FALSE

\* The user edits a file of the other application while MachBoost is not in it.
\* The catalog is MachBoost's own: ChatGPT's is not captured and nobody else's.
UserEdits ==
    /\ pc = "idle" /\ ~state.there /\ edits < MaxEdits
    /\ \E f \in Mine \ (IF kind = "chatgpt" THEN {"catalog"} ELSE {}),
          v \in {edits + 1, Missing} :
         /\ value[f] # Ours
         /\ value' = [value EXCEPT ![f] = v]
         /\ users' = [users EXCEPT ![f] = v]
    /\ edits' = edits + 1
    /\ UNCHANGED <<kind, state, relays, command, commands, crashes, lost>>

-----------------------------------------------------------------------------
(* The relay.                                                              *)

\* A relay ends by itself, or with the machine.
RelayEnds ==
    /\ \E pid \in running : running' = running \ {pid}
    /\ UNCHANGED <<kind, files, recorded, spawned, command, bounds, users, lost>>

\* stop_claude_gateway_relay: the process that the file names, if it is a relay,
\* is gone when this ends; then the file goes.  (It is terminated, waited for,
\* and killed.)
StopRelay ==
    /\ running' = running \ {recorded}
    /\ recorded' = 0
    /\ UNCHANGED spawned

\* start_gateway_relay ends the old relay before it starts the new one.
StopOld ==
    /\ pc = "relay"
    /\ StopRelay
    /\ pc' = "spawn"
    /\ UNCHANGED <<kind, files, left, snapshot, remote, bounds, users, lost>>

Spawn ==
    /\ pc = "spawn"
    /\ spawned' = spawned + 1
    /\ running' = running \cup {spawned'}
    /\ pc' = "health"
    /\ UNCHANGED <<kind, files, recorded, left, snapshot, remote, bounds, users, lost>>

\* Mutant: a relay that does not answer in time is left to itself.
LeftRunning == running

Terminated == running \ {spawned}

\* It answers and is written down, or it does not in time, or has ended.
Healthy ==
    /\ pc = "health"
    /\ \/ /\ spawned \in running
          /\ recorded' = spawned
          /\ pc' = "connect"
          /\ UNCHANGED running
       \/ /\ running' = Terminated
          /\ pc' = "idle"
          /\ UNCHANGED recorded
    /\ left' = IF pc' = "idle" THEN <<>> ELSE left
    /\ UNCHANGED <<kind, files, spawned, snapshot, remote, bounds, users, lost>>

-----------------------------------------------------------------------------
(* configure.                                                              *)

Launch ==
    /\ pc = "idle" /\ commands < MaxCommands
    /\ commands' = commands + 1
    /\ left' = Configured(kind)
    /\ \/ Relayed /\ pc' = "relay"
       \/ kind # "chatgpt" /\ pc' = "connect"
    /\ remote' = (kind = "claude" /\ pc' = "relay")
    /\ UNCHANGED <<kind, files, relays, snapshot, edits, crashes, users, lost>>

\* The command for Claude stops the relay it has started when anything fails after
\* that: the server's models, before the files are written, or the restart of the
\* application, after.  The others leave a relay where it is.
GiveUp ==
    /\ pc \in {"connect", "restart"}
    /\ pc' = "idle" /\ left' = <<>>
    /\ IF remote THEN StopRelay ELSE UNCHANGED relays
    /\ UNCHANGED <<kind, files, snapshot, remote, bounds, users, lost>>

Restarted ==
    /\ pc = "restart"
    /\ pc' = "idle"
    /\ UNCHANGED <<kind, files, relays, left, snapshot, remote, bounds, users, lost>>

NotYet == ~state.there

\* _capture_state_once
Capture ==
    /\ pc = "connect"
    /\ state' = IF NotYet THEN [there |-> TRUE, value |-> value] ELSE state
    /\ pc' = "write"
    /\ UNCHANGED <<kind, value, relays, left, snapshot, remote, bounds, users, lost>>

Write ==
    /\ pc = "write"
    /\ value' = [value EXCEPT ![Head(left)] = Ours]
    /\ left' = Tail(left)
    /\ pc' = IF left' = <<>> THEN "restart" ELSE "write"
    /\ UNCHANGED <<kind, state, relays, snapshot, remote, bounds, users, lost>>

-----------------------------------------------------------------------------
(* restore.                                                                *)

Restore ==
    /\ pc = "idle" /\ commands < MaxCommands
    /\ commands' = commands + 1
    /\ snapshot' = state
    /\ left' = Restored(kind)
    /\ pc' = "restore"
    /\ remote' = FALSE
    /\ UNCHANGED <<kind, files, relays, edits, crashes, users, lost>>

\* A value is put back or taken away.  Without a state all are taken away, but
\* for the name of the provider that Claude has if it is not MachBoost's.
PutBack(f) ==
    IF kind = "chatgpt" /\ f = "catalog" THEN Missing
    ELSE IF snapshot.there THEN
        IF f = "meta" /\ snapshot.value[f] = Missing /\ value[f] # Ours THEN value[f]
        ELSE snapshot.value[f]
    ELSE IF f = "meta" /\ value[f] # Ours THEN value[f] ELSE Missing

WriteBack ==
    /\ pc = "restore"
    /\ value' = [value EXCEPT ![Head(left)] = PutBack(Head(left))]
    /\ left' = Tail(left)
    /\ pc' = IF left' = <<>> THEN "forget" ELSE "restore"
    /\ UNCHANGED <<kind, state, relays, snapshot, remote, bounds, users, lost>>

Forget ==
    /\ pc = "forget"
    /\ state' = NoState
    /\ pc' = IF Relayed THEN "stop" ELSE "restored"
    /\ UNCHANGED <<kind, value, relays, left, snapshot, remote, bounds, users, lost>>

StopBridge ==
    /\ pc = "stop"
    /\ StopRelay
    /\ pc' = "restored"
    /\ UNCHANGED <<kind, files, left, snapshot, remote, bounds, users, lost>>

\* What a restore without a state leaves behind is what the user has from then on.
LeftWith == users' = IF snapshot.there THEN users ELSE value

End ==
    /\ pc = "restored"
    /\ LeftWith
    /\ pc' = "idle" /\ snapshot' = NoState
    /\ UNCHANGED <<kind, files, relays, left, remote, bounds, lost>>

\* The command is killed.
Crash ==
    /\ pc # "idle" /\ crashes < MaxCrashes
    /\ crashes' = crashes + 1
    /\ lost' = (lost \/ pc = "health")
    /\ IF pc \in {"restore", "forget", "stop", "restored"} THEN LeftWith
       ELSE UNCHANGED users
    /\ pc' = "idle" /\ left' = <<>> /\ snapshot' = NoState
    /\ UNCHANGED <<kind, files, relays, remote, edits, commands>>

Done ==
    /\ pc = "idle" /\ commands = MaxCommands
    /\ UNCHANGED dvars

Next ==
    \/ UserEdits \/ RelayEnds \/ Launch \/ StopOld \/ Spawn \/ Healthy \/ GiveUp
    \/ Restarted \/ Capture \/ Write \/ Restore \/ WriteBack \/ Forget \/ StopBridge \/ End
    \/ Crash \/ Done

Spec == Init /\ [][Next]_dvars

-----------------------------------------------------------------------------
(* Properties.                                                             *)

TypeOK ==
    /\ kind \in Kinds
    /\ value \in [Targets -> Values] /\ users \in [Targets -> Values \ {Ours}]
    /\ state \in [there : BOOLEAN, value : [Targets -> Values]]
    /\ running \subseteq 1 .. spawned /\ recorded \in 0 .. spawned
    /\ pc \in {"idle", "relay", "spawn", "health", "connect", "write", "restart",
               "restore", "forget", "stop", "restored"}
    /\ remote \in BOOLEAN
    /\ left = <<>> \/ Len(left) <= Len(Configured(kind))

\* A restore that ends gives the user back what was there before the first launch,
\* however many launches and restores were begun, and killed, in between.
RestoreGivesBack ==
    pc = "restored" /\ snapshot.there => \A f \in Mine : value[f] = users[f]

\* What is captured is the user's, never MachBoost's own.
CapturedIsTheUsers ==
    state.there => \A f \in Mine \ (IF kind = "chatgpt" THEN {"catalog"} ELSE {}) :
                        state.value[f] = users[f]

\* No relay outlives the restore, and none runs that the record does not name
\* except while it is being started; a command killed in between may leave one.
NoRelayIsLost ==
    ~lost => /\ running \subseteq {recorded} \cup (IF pc = "health" THEN {spawned} ELSE {})
             /\ pc = "restored" => running = {}

\* README.md, of ChatGPT's values: the launcher "records their previous values, and
\* restores them with the command above".
RestoreKeepsPreviousValues ==
    kind = "chatgpt" /\ pc = "restored" => value["config"] = users["config"]
=============================================================================
