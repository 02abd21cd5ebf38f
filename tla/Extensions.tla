----------------------------- MODULE Extensions -----------------------------
(***************************************************************************)
(* The MCP connectors and reusable instructions of a gateway               *)
(* (machboost/extensions.py: ExtensionStore, MCPConnectorManager; the      *)
(* routes of server.py, the commands of cli.py and client.py that use it). *)
(*                                                                         *)
(* Each statement on the store is a section of its own under its lock.  A  *)
(* configuration reads, writes and reads again; a connector is read, then  *)
(* its server is awaited, then the status is written by id: what was read  *)
(* may have been changed or deleted by then.                               *)
(***************************************************************************)
EXTENDS Integers, FiniteSets, Sequences, Functions

CONSTANTS Handlers,     \* handler threads
          Ids,          \* of connectors
          SkillIds,
          Names,        \* numbers in the order of the names, which ignore case
          Secrets,      \* values of env and headers
          Tools,        \* a tool is the number of its name, see Score
          Limits,       \* of a search, as the client gives them
          Nothing,
          MaxCalls      \* bound on the requests

VARIABLES
    servers, skills,    \* the two tables, by id
    job,                \* what each handler is doing
    requests,           \* how many there have been
    given               \* history: the secrets given for a connector

xvars == <<servers, skills, job, requests, given>>

Row   == [name : Names, secret : Secrets \cup {Nothing}, enabled : BOOLEAN,
          tools : 0 .. Cardinality(Tools), status : {"none", "ready", "error"}]
Skill == [name : Names, enabled : BOOLEAN]
Idle  == [at |-> "idle"]
Fresh == [name |-> CHOOSE n \in Names : TRUE, secret |-> Nothing, enabled |-> TRUE,
          tools |-> 0, status |-> "none"]

\* A gateway starts with the rows its last run left.
Init ==
    /\ \E left \in SUBSET Ids, secret \in [Ids -> Secrets \cup {Nothing}] :
         LET name == CHOOSE f \in [Ids -> Names] : IsInjective(f)
         IN  /\ servers = [i \in left |-> [Fresh EXCEPT !.name = name[i], !.secret = secret[i]]]
             /\ given = [i \in Ids |-> IF i \in left THEN {secret[i]} \ {Nothing} ELSE {}]
    /\ skills = << >>
    /\ job = [h \in Handlers |-> Idle] /\ requests = 0

Starts(h, j) ==
    /\ job[h].at = "idle" /\ requests < MaxCalls
    /\ job' = [job EXCEPT ![h] = j] /\ requests' = requests + 1

Ends(h) == job' = [job EXCEPT ![h] = Idle]
Goes(h, j) == job' = [job EXCEPT ![h] = j]
Done(outcome, j) == [at |-> "answered", outcome |-> outcome, was |-> j.at, gone |-> j.gone]

\* The response is sent, and the handler takes its next request.
Respond(h) ==
    /\ job[h].at \in {"answered", "found", "prompted"} /\ Ends(h)
    /\ UNCHANGED <<servers, skills, requests, given>>

Put(table, i, row) == [k \in DOMAIN table \cup {i} |-> IF k = i THEN row ELSE table[k]]
Without(table, i)  == [k \in DOMAIN table \ {i} |-> table[k]]

\* The columns "name" are UNIQUE COLLATE NOCASE.
Taken(table, i, name) == \E k \in DOMAIN table \ {i} : table[k].name = name

-----------------------------------------------------------------------------
(* Configuration.                                                          *)

Existing(i) == IF i \in DOMAIN servers THEN servers[i] ELSE Fresh

\* configure_server up to the write.  An id that is not given is a new one; env and
\* headers that are not given are those of the row it finds (client.py always gives them,
\* empty ones if need be).
ConfigureServer(h) ==
    \E i \in Ids, name \in Names, enabled, kept \in BOOLEAN, secret \in Secrets \cup {Nothing} :
      LET existing == Existing(i)
      IN  /\ kept => secret = Nothing
          /\ Starts(h, [at |-> "writing", table |-> "servers", id |-> i, gone |-> FALSE,
                        row |-> [existing EXCEPT !.name = name, !.enabled = enabled,
                                   !.secret = IF kept THEN @ ELSE secret]])
          /\ given' = [given EXCEPT ![i] = @ \cup ({secret} \ {Nothing})]
          /\ UNCHANGED <<servers, skills>>

ConfigureSkill(h) ==
    \E i \in SkillIds, name \in Names, enabled \in BOOLEAN :
      /\ Starts(h, [at |-> "writing", table |-> "skills", id |-> i, gone |-> FALSE,
                    row |-> [name |-> name, enabled |-> enabled]])
      /\ UNCHANGED <<servers, skills, given>>

\* INSERT ... ON CONFLICT(id) DO UPDATE: the count and the status of a row that is
\* there stay; a row deleted since it was read is inserted with those that were read.
Upserted(i, row) ==
    IF i \in DOMAIN servers
    THEN [servers[i] EXCEPT !.name = row.name, !.secret = row.secret, !.enabled = row.enabled]
    ELSE row

Write(h) ==
    LET j == job[h] IN
    /\ j.at = "writing"
    /\ IF Taken(IF j.table = "servers" THEN servers ELSE skills, j.id, j.row.name)
       THEN Goes(h, Done("taken", j)) /\ UNCHANGED <<servers, skills>>
       ELSE /\ Goes(h, [j EXCEPT !.at = "written"])
            /\ IF j.table = "servers"
               THEN servers' = Put(servers, j.id, Upserted(j.id, j.row)) /\ UNCHANGED skills
               ELSE skills' = Put(skills, j.id, j.row) /\ UNCHANGED servers
    /\ UNCHANGED <<requests, given>>

\* The row is read back for the answer: "could not be saved" if it is gone.
ReadBack(h) ==
    LET j == job[h] IN
    /\ j.at = "written"
    /\ Goes(h, Done(IF j.id \in DOMAIN (IF j.table = "servers" THEN servers ELSE skills)
                    THEN "saved" ELSE "lost", j))
    /\ UNCHANGED <<servers, skills, requests, given>>

\* A deletion is one statement; the jobs under way (history) are told of it.
Gone(i, table) == [k \in Handlers |->
    IF \/ job[k].at \in {"writing", "written"} /\ job[k].table = table /\ job[k].id = i
       \/ job[k].at \in {"searching", "asking"} /\ table = "servers"
    THEN [job[k] EXCEPT !.gone = TRUE] ELSE job[k]]

DeleteServer(h) ==
    /\ job[h].at = "idle" /\ requests < MaxCalls
    /\ \E i \in DOMAIN servers : servers' = Without(servers, i) /\ job' = Gone(i, "servers")
    /\ requests' = requests + 1 /\ UNCHANGED <<skills, given>>

DeleteSkill(h) ==
    /\ job[h].at = "idle" /\ requests < MaxCalls
    /\ \E i \in DOMAIN skills : skills' = Without(skills, i) /\ job' = Gone(i, "skills")
    /\ requests' = requests + 1 /\ UNCHANGED <<servers, given>>

-----------------------------------------------------------------------------
(* Instructions.                                                           *)

\* The members of S, less being an order of theirs.
Sorted(S, less) ==
    [k \in 1 .. Cardinality(S) |->
        CHOOSE x \in S : Cardinality({y \in S : <<y, x>> \in less}) = k - 1]

InOrder(table, wanted) ==
    Sorted(wanted, {p \in wanted \X wanted : table[p[1]].name < table[p[2]].name})

\* skill_prompt: those that are asked for by id, enabled or not, or all enabled ones.
SkillPrompt(choice, asked) ==
    InOrder(skills, {i \in DOMAIN skills : IF choice = "named" THEN i \in asked
                                           ELSE choice = "enabled" /\ skills[i].enabled})

\* apply_skill_instructions: a request may say "off", name some, or leave it open.
Chat(h) ==
    \E choice \in {"off", "enabled", "named"}, asked \in SUBSET SkillIds :
      /\ choice # "named" => asked = {}
      /\ Starts(h, [at |-> "prompted", sections |-> SkillPrompt(choice, asked)])
      /\ UNCHANGED <<servers, skills, given>>

-----------------------------------------------------------------------------
(* Connectors in use.                                                      *)

\* record_server_status is an UPDATE: it does nothing to a row that is gone.
Recorded(i, row, status, count) ==
    IF i \notin DOMAIN servers THEN servers
    ELSE [servers EXCEPT ![i].status = status, ![i].tools = count]

\* _required_server.  A call is refused if the connector is disabled when it is read.
Use(h, i, what) ==
    LET j == [at |-> what, id |-> i, gone |-> FALSE, row |-> Existing(i)] IN
    IF i \notin DOMAIN servers THEN Starts(h, Done("missing", j))
    ELSE IF what = "calling" /\ ~servers[i].enabled THEN Starts(h, Done("disabled", j))
    ELSE Starts(h, j)

ListTools(h) == \E i \in Ids : Use(h, i, "listing") /\ UNCHANGED <<servers, skills, given>>
CallTool(h)  == \E i \in Ids : Use(h, i, "calling") /\ UNCHANGED <<servers, skills, given>>

\* The server answers or fails.  A call leaves the count it read, whatever a listing
\* has recorded since; a listing that fails counts none.
Listed(h) ==
    LET j == job[h] IN
    /\ j.at = "listing"
    /\ \/ \E offered \in SUBSET Tools :
            /\ servers' = Recorded(j.id, j.row, "ready", Cardinality(offered))
            /\ Goes(h, Done("ready", j))
       \/ servers' = Recorded(j.id, j.row, "error", 0) /\ Goes(h, Done("error", j))
    /\ UNCHANGED <<skills, requests, given>>

Called(h) ==
    LET j == job[h] IN
    /\ j.at = "calling"
    /\ \E status \in {"ready", "error"} :
         /\ servers' = Recorded(j.id, j.row, status, j.row.tools)
         /\ Goes(h, Done(status, j))
    /\ UNCHANGED <<skills, requests, given>>

-----------------------------------------------------------------------------
(* Search.                                                                 *)

\* A word of the query in the name of a tool counts three, in the rest one.
Score(tool, words) == IF ~words THEN 0 ELSE IF tool = 1 THEN 3 ELSE IF tool = 2 THEN 1 ELSE 0

Limit(n) == LET asked == IF n = 0 THEN 8 ELSE n
                below == IF asked < 25 THEN asked ELSE 25
            IN  IF below > 1 THEN below ELSE 1

Before(words, a, b) ==
    \/ Score(a.tool, words) > Score(b.tool, words)
    \/ /\ Score(a.tool, words) = Score(b.tool, words)
       /\ a.name < b.name \/ (a.name = b.name /\ a.tool < b.tool)

\* search_tools begins: the connectors enabled now, in the order of their names.
Search(h) ==
    \E words \in BOOLEAN, n \in Limits :
      LET enabled == {i \in DOMAIN servers : servers[i].enabled}
      IN  /\ Starts(h, [at |-> "searching", id |-> Nothing, gone |-> FALSE,
                        words |-> words, limit |-> n, left |-> InOrder(servers, enabled),
                        rows |-> << >>, row |-> Fresh,
                        first |-> enabled, asked |-> {}, answers |-> {}])
          /\ UNCHANGED <<servers, skills, given>>

\* Each is read again; one that is gone is a ValueError, which nothing here catches.
AskNext(h) ==
    LET j == job[h] IN
    /\ j.at = "searching" /\ j.left # << >>
    /\ LET i == Head(j.left) IN
       Goes(h, IF i \notin DOMAIN servers THEN Done("missing", j)
               ELSE [j EXCEPT !.at = "asking", !.id = i, !.row = servers[i], !.asked = @ \cup {i}])
    /\ UNCHANGED <<servers, skills, requests, given>>

AfterFailure(left) == Tail(left)

\* A tool of the connector that answers, and its tools in the order of their names.
Hit(j, tool) == [name |-> j.row.name, id |-> j.id, tool |-> tool]
Hits(j, tools) ==
    LET order == Sorted(tools, {p \in tools \X tools : p[1] < p[2]})
    IN  [k \in 1 .. Len(order) |-> Hit(j, order[k])]

Matches(words, tool) == words => Score(tool, TRUE) > 0

WithAnswer(j, offered) ==
    [j EXCEPT !.at = "searching", !.id = Nothing, !.left = Tail(@),
              !.answers = @ \cup {Hit(j, t) : t \in offered},
              !.rows = @ \o Hits(j, {t \in offered : Matches(j.words, t)})]

WithFailure(j) ==
    [j EXCEPT !.at = "searching", !.id = Nothing, !.left = AfterFailure(@)]

Asked(h) ==
    LET j == job[h] IN
    /\ j.at = "asking"
    /\ \/ \E offered \in SUBSET Tools :
            /\ servers' = Recorded(j.id, j.row, "ready", Cardinality(offered))
            /\ Goes(h, WithAnswer(j, offered))
       \/ servers' = Recorded(j.id, j.row, "error", 0) /\ Goes(h, WithFailure(j))
    /\ UNCHANGED <<skills, requests, given>>

\* A stable sort, cut to the limit.
Places(j) == {p \in (DOMAIN j.rows) \X (DOMAIN j.rows) :
    \/ Before(j.words, j.rows[p[1]], j.rows[p[2]])
    \/ ~Before(j.words, j.rows[p[2]], j.rows[p[1]]) /\ p[1] < p[2]}

Best(j) ==
    LET order == Sorted(DOMAIN j.rows, Places(j))
        few   == Limit(j.limit)
    IN  [k \in 1 .. (IF few < Len(order) THEN few ELSE Len(order)) |-> j.rows[order[k]]]

Found(h) ==
    LET j == job[h] IN
    /\ j.at = "searching" /\ j.left = << >>
    /\ Goes(h, [j EXCEPT !.at = "found", !.rows = Best(j)])
    /\ UNCHANGED <<servers, skills, requests, given>>

Over == /\ requests = MaxCalls /\ \A h \in Handlers : job[h] = Idle
        /\ UNCHANGED xvars

Next ==
    \/ Over
    \/ \E h \in Handlers :
         \/ ConfigureServer(h) \/ ConfigureSkill(h) \/ Write(h) \/ ReadBack(h)
         \/ DeleteServer(h) \/ DeleteSkill(h) \/ Chat(h)
         \/ ListTools(h) \/ Listed(h) \/ CallTool(h) \/ Called(h)
         \/ Search(h) \/ AskNext(h) \/ Asked(h) \/ Found(h) \/ Respond(h)

Spec == Init /\ [][Next]_xvars

-----------------------------------------------------------------------------
(* Properties.                                                             *)

TypeOK ==
    /\ DOMAIN servers \subseteq Ids /\ \A i \in DOMAIN servers : servers[i] \in Row
    /\ DOMAIN skills \subseteq SkillIds /\ \A i \in DOMAIN skills : skills[i] \in Skill
    /\ requests \in 0 .. MaxCalls /\ given \in [Ids -> SUBSET Secrets]

\* However requests meet, a connector is used with secrets that were given for it, and
\* names stay apart (configure_server keeps the env and headers it finds).
SecretsStayWithTheirConnector ==
    \A i \in DOMAIN servers :
        /\ servers[i].secret \in given[i] \cup {Nothing}
        /\ \A k \in DOMAIN servers \ {i} : servers[k].name # servers[i].name

\* The late answer of a connector changes its count and status at most: it neither brings
\* back one that was deleted nor undoes a configuration (record_server_status).
LateAnswersOnlyReport ==
    \A h \in Handlers : job[h].at \in {"listing", "calling", "asking"} /\ job'[h].at # job[h].at =>
        /\ DOMAIN servers' = DOMAIN servers
        /\ \A i \in DOMAIN servers, field \in {"name", "secret", "enabled"} :
             servers'[i][field] = servers[i][field]

\* A search has asked every connector that was enabled when it began, whether or not some
\* of them fail, and its tools are the best of what they answered; it fails only if one was
\* deleted under it, and a configuration is not saved only if its row was (search_tools,
\* configure_server, configure_skill).
SearchIsComplete ==
    \A h \in Handlers :
      LET j       == job[h]
          best    == Range(j.rows)
          matches == {a \in j.answers : Matches(j.words, a.tool)}
      IN  /\ j.at = "answered" /\ j.outcome = "lost" => j.gone
          /\ j.at = "answered" /\ j.was = "searching" => j.gone
          /\ j.at = "found" =>
               /\ j.asked = j.first /\ best \subseteq matches
               /\ best # matches => Cardinality(best) = Limit(j.limit)
               /\ \A a \in best, b \in matches \ best : ~Before(j.words, b, a)

LateAnswers == [][LateAnswersOnlyReport]_xvars
=============================================================================
