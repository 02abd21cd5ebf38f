---------------------------- MODULE Connections ----------------------------
(***************************************************************************)
(* The hosts a user has saved (machboost/connections.py: ConnectionStore;  *)
(* the commands connect, use and disconnect of cli.py; the constructor of  *)
(* client.py: MachBoostClient).                                            *)
(*                                                                         *)
(* Each command is a process.  It reads connections.json, writes what it   *)
(* makes of it to connections.tmp and renames that; there is no lock, and  *)
(* all commands share the temporary name.  Tokens are in the Keychain,     *)
(* which is written after the file.                                        *)
(***************************************************************************)
EXTENDS Naturals

CONSTANTS Commands,   \* processes that change the file
          Clients,    \* processes that use it
          Names,      \* of hosts, which ignore case
          Endpoints,  \* each has a token of its own
          Local,      \* the local server: no profile is active
          Nobody,
          MaxIds,     \* bound on the profiles created
          MaxStarts,  \* bound on the commands started
          MaxKills

Inodes == Commands \cup {"first", "second", "third"}

VARIABLES
    file, tmp,    \* the files the two names stand for
    content,      \* what is in each
    keychain,     \* tokens by id; a token is named by the endpoint it was given for
    job,          \* the commands
    client,       \* and the clients
    ids, starts, kills,
    overlapped,   \* history: two commands were between reading and renaming at a time
    cut           \* history: profiles whose command ended between file and Keychain, or
                  \* met another there

cVars == <<file, tmp, content, keychain, job, client, ids, starts, kills, overlapped, cut>>

Ids      == 1 .. MaxIds
Auto     == MaxIds + 1   \* what the file says is active, besides an id
NoneIsActive == 0
Profile  == [id : Ids, name : Names, endpoint : Endpoints]
Registry == [active : Ids \cup {NoneIsActive, Auto}, profiles : SUBSET Profile]
None     == [active |-> NoneIsActive, profiles |-> {}]
Empty    == [whole |-> FALSE, data |-> None]
Whole(d) == [whole |-> TRUE, data |-> d]

Idle   == [at |-> "idle"]
NoHost == [at |-> "idle", endpoint |-> Local, token |-> Nobody, disturbed |-> FALSE]

\* A user who has saved no host yet, or has saved one and routes automatically.
Init ==
    /\ \/ /\ file = Nobody /\ ids = 0
          /\ content = [f \in Inodes |-> Empty]
          /\ keychain = [i \in Ids |-> Nobody]
       \/ \E name \in Names, e \in Endpoints :
            LET saved == [id |-> 1, name |-> name, endpoint |-> e]
            IN  /\ file = "first" /\ ids = 1
                /\ content = [f \in Inodes |-> IF f # file THEN Empty
                                 ELSE Whole([active |-> Auto, profiles |-> {saved}])]
                /\ keychain = [i \in Ids |-> IF i = 1 THEN e ELSE Nobody]
    /\ tmp = Nobody
    /\ job = [c \in Commands |-> Idle] /\ client = [k \in Clients |-> NoHost]
    /\ starts = 0 /\ kills = 0
    /\ overlapped = FALSE /\ cut = {}

UnderWay == {c \in Commands : job[c].at # "idle"}
Changing == {c \in Commands : job[c].at \in {"again", "open", "write", "replace"}}
Overlaps == overlapped' = (overlapped \/ Changing # {})
Goes(c, j) == job' = [job EXCEPT ![c] = j]

\* Clients that are under way see what changes now.
Disturbs == client' = [k \in Clients |->
    IF client[k].at = "idle" THEN client[k] ELSE [client[k] EXCEPT !.disturbed = TRUE]]

\* _load: no file is an empty registry; what cannot be read is an error.
Readable == file = Nobody \/ content[file].whole
Loaded   == IF file = Nobody THEN None ELSE content[file].data

Named(name) == {p \in Loaded.profiles : p.name = name}

-----------------------------------------------------------------------------
(* The commands.                                                           *)

Starts(c, j) ==
    /\ job[c].at = "idle" /\ starts < MaxStarts
    /\ Goes(c, j) /\ starts' = starts + 1 /\ Disturbs
    /\ UNCHANGED <<file, tmp, content, keychain, ids, kills, overlapped, cut>>

\* run_connect, once the host has answered.
Connect(c) == \E name \in Names, e \in Endpoints :
    Starts(c, [at |-> "load", what |-> "save", name |-> name, endpoint |-> e])

\* run_use_connection: a host, "auto" or "local".
Use(c) ==
    \/ \E name \in Names : Starts(c, [at |-> "get", what |-> "use", name |-> name])
    \/ \E mode \in {"auto", "local"} : Starts(c, [at |-> "load", what |-> mode, name |-> Nobody])

\* run_disconnect.
Disconnect(c) == \E name \in Names : Starts(c, [at |-> "get", what |-> "remove", name |-> name])

End(c) == Goes(c, Idle)

\* select and remove look the name up in a reading of their own.
Get(c) ==
    LET j == job[c] IN
    /\ j.at = "get"
    /\ IF Readable /\ Named(j.name) # {}
       THEN /\ \E p \in Named(j.name) :
                 Goes(c, [at |-> "again", what |-> j.what, name |-> j.name, profile |-> p])
            /\ Overlaps
       ELSE End(c) /\ UNCHANGED overlapped
    /\ UNCHANGED <<file, tmp, content, keychain, client, ids, starts, kills, cut>>

Saved(j, id) == [id |-> id, name |-> j.name, endpoint |-> j.endpoint]

\* A name that is saved again keeps its id, and with it the token in the Keychain.
IdOf(name) == IF Named(name) = {} THEN ids + 1 ELSE (CHOOSE p \in Named(name) : TRUE).id

\* What the command makes of what it has read.
Changed(j, p) ==
    LET others == {q \in Loaded.profiles : q.id # p.id}
    IN  CASE j.what = "save"   -> [active |-> p.id, profiles |-> others \cup {p}]
          [] j.what = "use"    -> [Loaded EXCEPT !.active = p.id]
          [] j.what = "remove" -> [active   |-> IF Loaded.active = p.id THEN NoneIsActive
                                                 ELSE Loaded.active,
                                   profiles |-> others]
          [] OTHER             -> [Loaded EXCEPT !.active =
                                     IF j.what = "auto" THEN Auto ELSE NoneIsActive]

\* "auto" needs a profile: also after connect has saved one.
Load(c) ==
    LET j == job[c]
        p == IF j.what = "save" THEN Saved(j, IdOf(j.name))
             ELSE IF j.what \in {"use", "remove"} THEN j.profile
             ELSE [id |-> 0]
    IN  /\ j.at \in {"load", "again"}
        /\ overlapped' = (overlapped \/ Changing \ {c} # {})
        /\ IF Readable /\ ~(j.what = "auto" /\ Loaded.profiles = {})
           THEN /\ j.what = "save" => p.id \in Ids
                /\ Goes(c, [at |-> "open", what |-> j.what, id |-> p.id, data |-> Changed(j, p),
                            token |-> IF j.what = "save" THEN j.endpoint ELSE Nobody])
                /\ ids' = IF p.id > ids THEN p.id ELSE ids
           ELSE End(c) /\ UNCHANGED ids
        /\ UNCHANGED <<file, tmp, content, keychain, client, starts, kills, cut>>

-----------------------------------------------------------------------------
(* _write.                                                                 *)

InUse == {file, tmp} \cup {job[c].fd : c \in {d \in Commands : job[d].at = "write"}}

Target == IF tmp = Nobody THEN CHOOSE f \in Inodes : f \notin InUse ELSE tmp

\* The temporary file is created, or emptied if another command, or one that was killed,
\* has left it.
Open(c) ==
    LET j == job[c]
        f == Target
    IN  /\ j.at = "open"
        /\ tmp' = f /\ content' = [content EXCEPT ![f] = Empty]
        /\ Goes(c, [at |-> "write", what |-> j.what, id |-> j.id, data |-> j.data,
                    token |-> j.token, fd |-> f])
        /\ UNCHANGED <<file, keychain, client, ids, starts, kills, overlapped, cut>>

\* The text goes to the file that was opened, whatever its name is by now; over a longer
\* text it leaves the rest of that.
WriteText(c) ==
    LET j == job[c] IN
    /\ j.at = "write"
    /\ \E text \in {Whole(j.data)}
                   \cup (IF content[j.fd] \in {Empty, Whole(j.data)} THEN {} ELSE {Empty}) :
         content' = [content EXCEPT ![j.fd] = text]
    /\ Goes(c, [at |-> "replace", what |-> j.what, id |-> j.id, token |-> j.token])
    /\ IF file = j.fd THEN Disturbs ELSE UNCHANGED client
    /\ UNCHANGED <<file, tmp, keychain, ids, starts, kills, overlapped, cut>>

AtKeychain == {c \in Commands : job[c].at = "keychain"}

\* chmod and replace: a FileNotFoundError, which no command catches, if another has
\* renamed the file.
Replace(c) ==
    LET j == job[c] IN
    /\ j.at = "replace"
    /\ IF tmp = Nobody
       THEN End(c) /\ UNCHANGED <<file, tmp, client, cut>>
       ELSE /\ file' = tmp /\ tmp' = Nobody
            /\ IF j.what \in {"save", "remove"} THEN Goes(c, [j EXCEPT !.at = "keychain"])
                                                ELSE End(c)
            /\ Disturbs
            /\ cut' = cut \cup ({j.id} \cap {job[d].id : d \in AtKeychain})
    /\ UNCHANGED <<content, keychain, ids, starts, kills, overlapped>>

-----------------------------------------------------------------------------
(* The Keychain.                                                           *)

NewToken(j) == IF j.what = "remove" THEN Nobody ELSE j.token

\* set_connection_secret, after which connect selects "auto"; delete_connection_secret.
\* The Keychain may refuse: an error of connect, while disconnect says nothing.
Keychain(c) ==
    LET j    == job[c]
        next == IF j.what = "save" THEN [at |-> "load", what |-> "auto", name |-> Nobody] ELSE Idle
    IN  /\ j.at = "keychain"
        /\ \/ /\ keychain' = [keychain EXCEPT ![j.id] = NewToken(j)]
              /\ Goes(c, next) /\ Disturbs
              /\ UNCHANGED <<kills, cut>>
           \/ /\ kills < MaxKills /\ kills' = kills + 1
              /\ cut' = cut \cup {j.id} /\ End(c)
              /\ UNCHANGED <<keychain, client>>
        /\ UNCHANGED <<file, tmp, content, ids, starts, overlapped>>

\* Ctrl-C, or the end of the session.
Kill(c) ==
    /\ job[c].at # "idle" /\ kills < MaxKills
    /\ kills' = kills + 1
    /\ cut' = IF job[c].at = "keychain" THEN cut \cup {job[c].id} ELSE cut
    /\ End(c)
    /\ UNCHANGED <<file, tmp, content, keychain, client, ids, starts, overlapped>>

-----------------------------------------------------------------------------
(* A client without an endpoint of its own.                                *)

Active == {p \in Loaded.profiles : p.id = Loaded.active}

\* default_endpoint: a file that cannot be read stands for the local server.
ReadEndpoint(k) ==
    /\ client[k].at = "idle"
    /\ client' = [client EXCEPT ![k] =
         [at |-> "token", token |-> Nobody, disturbed |-> UnderWay # {},
          endpoint |-> IF Readable /\ Active # {}
                       THEN (CHOOSE p \in Active : TRUE).endpoint ELSE Local]]
    /\ UNCHANGED <<file, tmp, content, keychain, job, ids, starts, kills, overlapped, cut>>

TokenOf == Active

Secret(p) == keychain[p.id]

\* active_connection_token reads the file again: the profile may be another one.  Here
\* what cannot be read is an error.
ReadToken(k) ==
    /\ client[k].at = "token"
    /\ client' = [client EXCEPT ![k] =
         IF ~Readable THEN NoHost
         ELSE IF TokenOf = {} THEN [@ EXCEPT !.at = "ready"]
         ELSE [@ EXCEPT !.at = "ready", !.token = Secret(CHOOSE p \in TokenOf : TRUE)]]
    /\ UNCHANGED <<file, tmp, content, keychain, job, ids, starts, kills, overlapped, cut>>

EndClient(k) ==
    /\ client[k].at = "ready"
    /\ client' = [client EXCEPT ![k] = NoHost]
    /\ UNCHANGED <<file, tmp, content, keychain, job, ids, starts, kills, overlapped, cut>>

Next ==
    \/ \E c \in Commands :
         \/ Connect(c) \/ Use(c) \/ Disconnect(c) \/ Get(c) \/ Load(c)
         \/ Open(c) \/ WriteText(c) \/ Replace(c) \/ Keychain(c) \/ Kill(c)
    \/ \E k \in Clients : ReadEndpoint(k) \/ ReadToken(k) \/ EndClient(k)

Spec == Init /\ [][Next]_cVars

-----------------------------------------------------------------------------
(* Properties.                                                             *)

TypeOK ==
    /\ {file, tmp} \subseteq Inodes \cup {Nobody}
    /\ content \in [Inodes -> [whole : BOOLEAN, data : Registry]]
    /\ keychain \in [Ids -> Endpoints \cup {Nobody}]
    /\ ids \in 0 .. MaxIds /\ starts \in 0 .. MaxStarts /\ kills \in 0 .. MaxKills

\* Commands that do not read and rename at the same time leave a file that can be read and
\* names profiles it has, wherever one of them was killed.
FileIsWhole ==
    ~overlapped =>
        /\ Readable
        /\ Loaded.active \in {NoneIsActive, Auto} \cup {p.id : p \in Loaded.profiles}
        /\ \A p, q \in Loaded.profiles : p.name = q.name => p = q

\* A saved host has the token that was given for it and one that is forgotten has none,
\* unless a command ended, met another, or is, between the file and the Keychain.
TokensFollowProfiles ==
    ~overlapped => \A i \in Ids :
        \/ i \in cut \/ \E c \in AtKeychain : job[c].id = i
        \/ \E p \in Loaded.profiles : p.id = i /\ keychain[i] = p.endpoint
        \/ keychain[i] = Nobody /\ \A p \in Loaded.profiles : p.id # i

\* A client that no command disturbs between its two readings sends a token to the host
\* it was given for.
TokensGoToTheirHosts ==
    \A k \in Clients : client[k].at = "ready" /\ ~client[k].disturbed /\ ~overlapped /\ cut = {} =>
        client[k].token = IF client[k].endpoint = Local THEN Nobody ELSE client[k].endpoint
=============================================================================
