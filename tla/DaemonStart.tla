----------------------------- MODULE DaemonStart -----------------------------
(***************************************************************************)
(* The resident server and the commands that start it on demand            *)
(* (machboost/client.py: ensure_server, _wake_machboost_app;               *)
(* machboost/cli.py: run_serve, run_server_action, connect_resident;       *)
(* machboost/server.py: MachBoostHTTPServer, serve, /api/shutdown).        *)
(*                                                                         *)
(* Each command asks the port for its health, stops a server of another    *)
(* version, and starts one of its own if nobody answers.  Nothing but the  *)
(* port itself keeps two of them apart: there is no lock, and server.pid   *)
(* is written and never read.                                              *)
(***************************************************************************)
EXTENDS Naturals, FiniteSets

CONSTANTS Launchers,  \* commands that call ensure_server
          Nobody,
          MaxStops    \* bound on "machboost shutdown"

\* Processes: one for each launcher, the server that ran before, that of the application.
Processes == Launchers \cup {"before", "app"}

VARIABLES
    upgraded, \* commands that have the new version; the server before has the old one
    process,  \* each process: "none", "starting", "bound", "serving", "closing", "ended"
    told,     \* servers that were asked to shut down
    pc, seen, \* each launcher, and the server of another version that it saw
    server,   \* what it returned: the server that it found healthy
    stops,
    mistaken, \* history: launchers that stopped another server than they had seen
    why       \* history: what ended each process

aVars == <<upgraded, process, told, pc, seen, server, stops, mistaken, why>>

Version(p) == IF p \in upgraded \cup {"app"} THEN "new" ELSE "old"

Init ==
    /\ upgraded \in SUBSET Launchers
    /\ process = [p \in Processes |-> IF p = "before" THEN "serving" ELSE "none"]
    /\ told = {}
    /\ pc = [l \in Launchers |-> "begin"]
    /\ seen = [l \in Launchers |-> Nobody] /\ server = [l \in Launchers |-> Nobody]
    /\ stops = 0 /\ mistaken = {}
    /\ why = [p \in Processes |-> {}]

Listening == {p \in Processes : process[p] \in {"bound", "serving", "closing"}}
Serving   == {p \in Processes : process[p] = "serving"}

\* Nobody answers: no process listens, or the one that does is closing for longer than the
\* request waits.  A request to a server that has not begun to serve waits for it.
Silent == \A p \in Listening : process[p] = "closing"

Goto(l, there) == pc' = [pc EXCEPT ![l] = there]
Ended(p, for)  == /\ process' = [process EXCEPT ![p] = "ended"]
                  /\ why' = [why EXCEPT ![p] = @ \cup for]

-----------------------------------------------------------------------------
(* A server process.                                                       *)

\* run_serve, serve and MachBoostHTTPServer.__init__: only one process has the port.  The
\* others end with an exception.
Bind(p) ==
    /\ process[p] = "starting"
    /\ IF Listening = {} THEN process' = [process EXCEPT ![p] = "bound"] /\ UNCHANGED why
                         ELSE Ended(p, {"port"})
    /\ UNCHANGED <<upgraded, told, pc, seen, server, stops, mistaken>>

Serve(p) ==
    /\ process[p] = "bound"
    /\ process' = [process EXCEPT ![p] = "serving"]
    /\ UNCHANGED <<upgraded, told, pc, seen, server, stops, mistaken, why>>

\* The thread that /api/shutdown starts after its reply ends serve_forever.
StopServing(p) ==
    /\ process[p] = "serving" /\ p \in told
    /\ process' = [process EXCEPT ![p] = "closing"]
    /\ UNCHANGED <<upgraded, told, pc, seen, server, stops, mistaken, why>>

\* server_close: the reaper is joined, the models and the stores are closed, then the socket.
ServerClose(p) ==
    /\ process[p] = "closing"
    /\ Ended(p, {"told"})
    /\ UNCHANGED <<upgraded, told, pc, seen, server, stops, mistaken>>

\* "machboost shutdown": /api/shutdown of whatever answers.
UserShutdown ==
    /\ stops < MaxStops
    /\ \E p \in Serving : told' = told \cup {p} /\ why' = [why EXCEPT ![p] = @ \cup {"user"}]
    /\ stops' = stops + 1
    /\ UNCHANGED <<upgraded, process, pc, seen, server, mistaken>>

-----------------------------------------------------------------------------
(* ensure_server.                                                          *)

Matches(l, p) == Version(p) = Version(l)

Return(l, p) == Goto(l, "returned") /\ server' = [server EXCEPT ![l] = p]

Begin(l) ==
    /\ pc[l] = "begin"
    /\ \/ Silent /\ Goto(l, "wake") /\ UNCHANGED <<seen, server>>
       \/ \E p \in Serving :
            IF Matches(l, p) THEN Return(l, p) /\ UNCHANGED seen
            ELSE /\ Goto(l, "shutdown") /\ UNCHANGED server
                 /\ seen' = [seen EXCEPT ![l] = p]
    /\ UNCHANGED <<upgraded, process, told, stops, mistaken, why>>

\* The request goes to the server that has the port now.
Shutdown(l) ==
    /\ pc[l] = "shutdown"
    /\ \/ \E p \in Serving :
            /\ told' = told \cup {p}
            /\ why' = [why EXCEPT ![p] = @ \cup {l}]
            /\ mistaken' = IF p # seen[l] THEN mistaken \cup {l} ELSE mistaken
            /\ Goto(l, "wait")
       \/ Silent /\ Goto(l, "failed") /\ UNCHANGED <<told, mistaken, why>>
    /\ UNCHANGED <<upgraded, process, seen, server, stops>>

\* is_healthy does not look at who answers; after five seconds the launcher gives up.
WaitForSilence(l) ==
    /\ pc[l] = "wait"
    /\ \/ Silent /\ Goto(l, "wake")
       \/ Serving # {} /\ Goto(l, "failed")
    /\ UNCHANGED <<upgraded, process, told, seen, server, stops, mistaken, why>>

\* An application of the same version is woken, which starts a server if it likes
\* (external); the launcher waits for any server of its version, for a while.
Wake(l) ==
    /\ pc[l] = "wake" /\ Matches(l, "app") /\ process["app"] = "none"
    /\ process' = [process EXCEPT !["app"] = "starting"]
    /\ UNCHANGED <<upgraded, told, pc, seen, server, stops, mistaken, why>>

Woken(l) ==
    /\ pc[l] = "wake" /\ Matches(l, "app")
    /\ \E p \in Serving : Matches(l, p) /\ Return(l, p)
    /\ UNCHANGED <<upgraded, process, told, seen, stops, mistaken, why>>

\* (The process id goes to server.pid, which nobody reads.)
Spawn(l) ==
    /\ pc[l] = "wake"
    /\ process' = [process EXCEPT ![l] = "starting"]
    /\ Goto(l, "health")
    /\ UNCHANGED <<upgraded, told, seen, server, stops, mistaken, why>>

\* The loop: any server of the version will do.
Health(l) ==
    /\ pc[l] = "health"
    /\ \/ \E p \in Serving : IF Matches(l, p) THEN Return(l, p)
                             ELSE Goto(l, "poll") /\ UNCHANGED server
       \/ Silent /\ Goto(l, "poll") /\ UNCHANGED server
    /\ UNCHANGED <<upgraded, process, told, seen, stops, mistaken, why>>

Poll(l) ==
    /\ pc[l] = "poll"
    /\ Goto(l, IF process[l] = "ended" THEN "failed" ELSE "health")
    /\ UNCHANGED <<upgraded, process, told, seen, server, stops, mistaken, why>>

Terminated(l) == {l}

\* The timeout: its own child is terminated, if it is there, whatever it does by then.
TimeOut(l) ==
    /\ pc[l] = "health"
    /\ process' = [p \in Processes |-> IF p \in Terminated(l) THEN "ended" ELSE process[p]]
    /\ why' = [p \in Processes |-> IF p \in Terminated(l) /\ process[p] # "ended"
                                   THEN why[p] \cup {"timeout"} ELSE why[p]]
    /\ Goto(l, "failed")
    /\ UNCHANGED <<upgraded, told, seen, server, stops, mistaken>>

Done ==
    /\ \A l \in Launchers : pc[l] \in {"returned", "failed"}
    /\ UNCHANGED aVars

Next ==
    \/ \E p \in Processes : Bind(p) \/ Serve(p) \/ StopServing(p) \/ ServerClose(p)
    \/ UserShutdown
    \/ \E l \in Launchers :
          \/ Begin(l) \/ Shutdown(l) \/ WaitForSilence(l) \/ Wake(l) \/ Woken(l)
          \/ Spawn(l) \/ Health(l) \/ Poll(l) \/ TimeOut(l)
    \/ Done

Spec == Init /\ [][Next]_aVars

-----------------------------------------------------------------------------
TypeOK ==
    /\ upgraded \subseteq Launchers
    /\ process \in [Processes -> {"none", "starting", "bound", "serving", "closing", "ended"}]
    /\ told \subseteq Processes /\ mistaken \subseteq Launchers
    /\ seen \in [Launchers -> Processes \cup {Nobody}]

\* A server is stopped by launchers of the other version only, unless a launcher's check
\* was overtaken: the server it had seen has gone, and it stops the one that came after.
\* Commands of one version never disturb each other's server.
StaleServersAreStopped ==
    \A p \in Processes, l \in Launchers :
       l \in why[p] => \/ Version(p) # Version(l)
                       \/ l \in mistaken /\ process[seen[l]] \in {"closing", "ended"}

\* A server that a command has returned goes on serving until it is told to stop, or the
\* command that started it, which may be another, has timed out.
ReturnedServersStay ==
    \A l \in Launchers :
       server[l] # Nobody =>
          LET p == server[l]
          IN  /\ Version(p) = Version(l)
              /\ \/ process[p] = "serving"
                 \/ process[p] \in {"closing", "ended"} /\ p \in told
                 \/ process[p] = "ended" /\ p \in Launchers /\ "timeout" \in why[p]

\* A process whose launcher is done is not left behind: it has the port, or is about to
\* find out, and one that timed out is gone.
NoProcessIsLost ==
    \A l \in Launchers :
       /\ pc[l] = "failed" => process[l] \in {"none", "ended"}
       /\ process[l] = "ended" => why[l] # {}

=============================================================================
