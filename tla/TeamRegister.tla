---------------------------- MODULE TeamRegister ----------------------------
(***************************************************************************)
(* Keys, devices and requests for a model (machboost/team.py, class        *)
(* TeamStore, and the routes of machboost/server.py that call it).         *)
(*                                                                         *)
(* A request is authenticated first and its call made later, each in a     *)
(* section of its own under _lock: a key may be revoked in between.        *)
(***************************************************************************)
EXTENDS Integers, FiniteSets, Sequences

CONSTANTS Callers,      \* handler threads
          Keys,         \* keys that may be created
          Devices,
          Models,
          MaxAsked,     \* bound on the requests for a model
          MaxCount,     \* bound on the requests of a device
          Nobody

VARIABLES
    created, enabled,   \* api_keys
    seen,               \* team_clients: the key a device reported with last
    count,              \* team_clients: its requests since it was first seen
    asked,              \* model_requests: key, model and status
    caller,             \* the key a thread's request was authenticated with
    verdict             \* history: the first decision on a request

gvars == <<created, enabled, seen, count, asked, caller, verdict>>

Statuses == {"pending", "downloaded", "declined", "cancelled"}
Asked    == [key : Keys, model : Models, status : Statuses]

Init ==
    /\ created = {} /\ enabled = {}
    /\ seen = [d \in Devices |-> Nobody]
    /\ count = [d \in Devices |-> 0]
    /\ asked = <<>>
    /\ caller = [c \in Callers |-> Nobody]
    /\ verdict = <<>>

Answers(c) == caller' = [caller EXCEPT ![c] = Nobody]

CreateKey ==
    /\ \E k \in Keys \ created :
         created' = created \cup {k} /\ enabled' = enabled \cup {k}
    /\ UNCHANGED <<seen, count, asked, caller, verdict>>

\* A key is disabled for good; its row, its devices and its requests stay.
RevokeKey ==
    /\ \E k \in enabled : enabled' = enabled \ {k}
    /\ UNCHANGED <<created, seen, count, asked, caller, verdict>>

Authenticate(c) ==
    /\ caller[c] = Nobody
    /\ \E k \in enabled : caller' = [caller EXCEPT ![c] = k]
    /\ UNCHANGED <<created, enabled, seen, count, asked, verdict>>

\* record_client_presence: a device belongs to the key that reported it last.
Report(c, d) ==
    /\ caller[c] # Nobody
    /\ seen' = [seen EXCEPT ![d] = caller[c]]
    /\ Answers(c)
    /\ UNCHANGED <<created, enabled, count, asked, verdict>>

\* record_client_request counts for the device only if it is the key's own.
CountRequest(c, d) ==
    /\ caller[c] # Nobody /\ count[d] < MaxCount
    /\ count' = IF seen[d] = caller[c] THEN [count EXCEPT ![d] = @ + 1] ELSE count
    /\ Answers(c)
    /\ UNCHANGED <<created, enabled, seen, asked, verdict>>

\* Mutant: each call asks anew.
AskedAnew(k, m) == FALSE

AlreadyAsked(k, m) ==
    \E i \in DOMAIN asked : asked[i] = [key |-> k, model |-> m, status |-> "pending"]

\* create_model_request looks for a pending one and inserts, in one section.
AskForModel(c, m) ==
    /\ caller[c] # Nobody /\ Len(asked) < MaxAsked
    /\ IF AlreadyAsked(caller[c], m)
       THEN UNCHANGED <<asked, verdict>>
       ELSE /\ asked' = Append(asked, [key |-> caller[c], model |-> m, status |-> "pending"])
            /\ verdict' = Append(verdict, "pending")
    /\ Answers(c)
    /\ UNCHANGED <<created, enabled, seen, count>>

MayDecide(i) == asked[i].status = "pending"

\* resolve_model_request: two administrators may decide the same request; the
\* row says who comes first.
Decide(i, status) ==
    /\ i \in DOMAIN asked /\ MayDecide(i)
    /\ asked' = [asked EXCEPT ![i].status = status]
    /\ verdict' = [verdict EXCEPT ![i] = IF @ = "pending" THEN status ELSE @]
    /\ UNCHANGED <<created, enabled, seen, count, caller>>

Done ==
    /\ created = Keys /\ enabled = {} /\ \A c \in Callers : caller[c] = Nobody
    /\ UNCHANGED gvars

Next ==
    \/ CreateKey \/ RevokeKey \/ Done
    \/ \E c \in Callers :
         \/ Authenticate(c)
         \/ \E d \in Devices : Report(c, d) \/ CountRequest(c, d)
         \/ \E m \in Models : AskForModel(c, m)
    \/ \E i \in 1 .. MaxAsked, status \in Statuses \ {"pending"} : Decide(i, status)

Spec == Init /\ [][Next]_gvars

-----------------------------------------------------------------------------
(* Properties.                                                             *)

TypeOK ==
    /\ enabled \subseteq created /\ created \subseteq Keys
    /\ seen \in [Devices -> Keys \cup {Nobody}]
    /\ count \in [Devices -> 0 .. MaxCount]
    /\ asked \in Seq(Asked) /\ Len(asked) <= MaxAsked
    /\ caller \in [Callers -> Keys \cup {Nobody}]
    /\ verdict \in Seq(Statuses) /\ Len(verdict) = Len(asked)

\* A key has at most one open request for a model, however many of its calls
\* meet, and the first decision of an administrator on a request stands.
DecidedOnce ==
    \A i \in DOMAIN asked :
        /\ asked[i].status = verdict[i]
        /\ asked[i].status = "pending" =>
              \A j \in DOMAIN asked : asked[j] = asked[i] => j = i
=============================================================================
