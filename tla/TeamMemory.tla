----------------------------- MODULE TeamMemory -----------------------------
(***************************************************************************)
(* The memory of a team and its cache of exact answers (machboost/         *)
(* memory.py), as the chat handlers of machboost/server.py use them: they  *)
(* query the workspace, read the digests of its files, search, answer or   *)
(* take a cached answer, and remember the exchange.                        *)
(*                                                                         *)
(* Each step is a section of its own.  The workspace may be indexed anew   *)
(* between any two of them; its database is committed before the revision  *)
(* is written (module WorkspaceIndex).  Of the files of a workspace one is *)
(* followed; a change of another changes the revision alone.               *)
(*                                                                         *)
(* What a text tells is abstracted to whose exchanges it comes from.       *)
(***************************************************************************)
EXTENDS Integers, FiniteSets

CONSTANTS Requests,     \* handler threads
          Employees, Admins,
          MaxRevision,  \* bound on the times the workspace is indexed
          MaxRecords,   \* max_storage_bytes, of records of one byte
          MaxPuts,      \* bound on the records and answers written
          Team,         \* the owner of what is shared
          Nobody

Principals == Employees \cup Admins
Owners     == Principals \cup {Team}
NoFile     == -1            \* no dependency on the file, or no hit in it
Revisions  == 0 .. MaxRevision
Digests    == {NoFile} \cup Revisions

VARIABLES
    index,      \* the workspace's database: its revision, the file's digest
    meta,       \* the revision in its metadata
    memories,   \* the memories table
    exact,      \* the exact_cache table
    request,    \* what a thread's request has so far
    puts        \* records and answers written so far

mvars == <<index, meta, memories, exact, request, puts>>

\* One exchange is told from another by where it comes from and what it is about.
Memory == [owner : Owners, revision : Revisions, digest : Digests,
           from : SUBSET Principals, pinned : BOOLEAN, overdue : BOOLEAN]
Exact  == [owner : Owners, revision : Revisions, from : SUBSET Principals,
           overdue : BOOLEAN]

Idle == [at |-> "idle", who |-> Nobody, write |-> Nobody, cache |-> Nobody,
         revision |-> 0, hit |-> FALSE, digest |-> NoFile, from |-> {},
         got |-> {}]  \* the revisions of what it found

Init ==
    /\ index = [revision |-> 0, digest |-> 0] /\ meta = 0
    /\ memories = {} /\ exact = {}
    /\ request = [r \in Requests |-> Idle]
    /\ puts = 0

Becomes(r, s) == request' = [request EXCEPT ![r] = s]
At(r, where)  == request[r].at = where

-----------------------------------------------------------------------------
(* The workspace.                                                          *)

Reindex ==
    /\ index.revision = meta /\ index.revision < MaxRevision
    /\ \E digest \in {index.digest, index.revision + 1} :
         index' = [revision |-> index.revision + 1, digest |-> digest]
    /\ UNCHANGED <<meta, memories, exact, request, puts>>

WriteMetadata ==
    /\ index.revision # meta
    /\ meta' = index.revision
    /\ UNCHANGED <<index, memories, exact, request, puts>>

-----------------------------------------------------------------------------
(* The store.                                                              *)

Visible(m, who) == m.owner \in {who, Team}

IsStale(m, revision, digest) ==
    IF m.digest # NoFile THEN m.digest # digest ELSE m.revision # revision

Fresh(S) == {e \in S : ~e.overdue}      \* prune_expired

\* What prune leaves: pinned records stay even if they are too many; of the
\* others those of the least utility go until the rest fits.
Pruned(S) ==
    {K \in SUBSET S : /\ {m \in S : m.pinned} \subseteq K
                      /\ \A m \in K : m.pinned \/ Cardinality(K) <= MaxRecords
                      /\ K # S => Cardinality(K) >= MaxRecords}

\* A record of the same content takes the place of the old one.
Same(n, m) == [n EXCEPT !.pinned = m.pinned, !.overdue = m.overdue] = m

Put(S, m) == {n \in S : ~Same(n, m)} \cup {m}

\* The time of a record or of an answer is up.
Expire ==
    \/ \E m \in Fresh(memories) :
         /\ ~m.pinned
         /\ memories' = (memories \ {m}) \cup {[m EXCEPT !.overdue = TRUE]}
         /\ UNCHANGED <<index, meta, exact, request, puts>>
    \/ \E e \in Fresh(exact) :
         /\ exact' = (exact \ {e}) \cup {[e EXCEPT !.overdue = TRUE]}
         /\ UNCHANGED <<index, meta, memories, request, puts>>

-----------------------------------------------------------------------------
(* A request.                                                              *)

\* Mutant: anybody writes what a team shares.
AsAsked(who, scope) == IF scope = "team" THEN Team ELSE who

Owner(who, scope) == IF scope = "team" /\ who \in Admins THEN Team ELSE who

\* The scopes it asks for; query reads the metadata of the workspace first.
Begin(r, who) ==
    /\ At(r, "idle") /\ puts < MaxPuts
    /\ \E scope, cacheScope \in {"private", "team"} :
         Becomes(r, [Idle EXCEPT !.at = "index", !.who = who, !.revision = meta,
                                 !.write = Owner(who, scope),
                                 !.cache = Owner(who, cacheScope), !.from = {who}])
    /\ UNCHANGED <<index, meta, memories, exact, puts>>

\* The rows that match, and then the digests, from the database as it is now.
ReadIndex(r) ==
    /\ At(r, "index")
    /\ \E hit \in BOOLEAN :
         Becomes(r, [request[r] EXCEPT !.at = "search", !.hit = hit, !.digest = index.digest])
    /\ UNCHANGED <<index, meta, memories, exact, puts>>

\* search: what has expired goes first, and what is stale is not returned.
Search(r) ==
    /\ At(r, "search")
    /\ memories' = Fresh(memories) /\ exact' = Fresh(exact)
    /\ \E got \in SUBSET {m \in memories' :
                           /\ Visible(m, request[r].who)
                           /\ ~IsStale(m, request[r].revision, request[r].digest)} :
         Becomes(r, [request[r] EXCEPT !.at = "answer", !.got = {m.revision : m \in got},
                                       !.from = @ \cup UNION {m.from : m \in got}])
    /\ UNCHANGED <<index, meta, puts>>

\* The key of an answer has the namespace: whose it is, and the revision.  (The
\* model and the text of the request are the same for all here.)
Matches(e, r) == e.owner = request[r].cache /\ e.revision = request[r].revision

\* get_exact: a hit ends the request, and an answer that has expired goes.
TakeExact(r) ==
    /\ At(r, "answer")
    /\ \E e \in exact :
         /\ Matches(e, r)
         /\ IF e.overdue
            THEN exact' = exact \ {e} /\ UNCHANGED request
            ELSE Becomes(r, Idle) /\ UNCHANGED exact
    /\ UNCHANGED <<index, meta, memories, puts>>

Exchange(r) ==
    [owner |-> request[r].write, revision |-> request[r].revision,
     digest |-> IF request[r].hit THEN request[r].digest ELSE NoFile,
     from |-> request[r].from, pinned |-> FALSE, overdue |-> FALSE]

\* The answer is generated, and remember_exchange writes it down with the digest
\* of the file if the evidence is from there.
Remember(r) ==
    /\ At(r, "answer")
    /\ memories' = Put(memories, Exchange(r))
    /\ puts' = puts + 1
    /\ Becomes(r, [request[r] EXCEPT !.at = "prune"])
    /\ UNCHANGED <<index, meta, exact>>

\* The record it has written may be the one that prune takes: put raises then
\* when it reads it back, and the answer is not cached.
Prune(r) ==
    /\ At(r, "prune")
    /\ memories' \in Pruned(Fresh(memories))
    /\ exact' = Fresh(exact)
    /\ Becomes(r, IF \E n \in memories' : Same(n, Exchange(r))
                  THEN [request[r] EXCEPT !.at = "cache", !.got = {}, !.digest = NoFile]
                  ELSE Idle)
    /\ UNCHANGED <<index, meta, puts>>

\* exact_cache_put, unless the request did not ask for it.
CacheExact(r) ==
    /\ At(r, "cache")
    /\ \/ exact' = {e \in exact : ~Matches(e, r)} \cup
                   {[owner |-> request[r].cache, revision |-> request[r].revision,
                     from |-> request[r].from, overdue |-> FALSE]}
       \/ UNCHANGED exact
    /\ Becomes(r, Idle)
    /\ UNCHANGED <<index, meta, memories, puts>>

-----------------------------------------------------------------------------
(* The routes of the memory.                                               *)

\* POST /api/memory: only an administrator publishes, and puts prunes too.
Publish(who) ==
    /\ puts < MaxPuts
    /\ \E owner \in {who} \cup (IF who \in Admins THEN {Team} ELSE {}),
          pinned \in BOOLEAN, digest \in {NoFile, index.digest} :
         memories' \in Pruned(Fresh(Put(memories,
             [owner |-> owner, revision |-> meta, digest |-> digest,
              from |-> {who}, pinned |-> pinned, overdue |-> FALSE])))
    /\ puts' = puts + 1
    /\ UNCHANGED <<index, meta, exact, request>>

\* POST /api/memory/delete removes what its caller sees; an administrator all.
Delete(who) ==
    /\ \E m \in memories : /\ who \in Admins \/ Visible(m, who)
                           /\ memories' = memories \ {m}
    /\ UNCHANGED <<index, meta, exact, request, puts>>

Done ==
    /\ puts >= MaxPuts /\ \A r \in Requests : At(r, "idle")
    /\ UNCHANGED mvars

Next ==
    \/ Reindex \/ WriteMetadata \/ Expire \/ Done
    \/ \E r \in Requests :
         \/ \E who \in Principals : Begin(r, who)
         \/ ReadIndex(r) \/ Search(r) \/ TakeExact(r)
         \/ Remember(r) \/ Prune(r) \/ CacheExact(r)
    \/ \E who \in Principals : Publish(who) \/ Delete(who)

Spec == Init /\ [][Next]_mvars

-----------------------------------------------------------------------------
(* Properties.                                                             *)

TypeOK ==
    /\ index \in [revision : Revisions, digest : Revisions] /\ meta \in Revisions
    /\ memories \subseteq Memory /\ exact \subseteq Exact
    /\ \A m, n \in memories : Same(n, m) => n = m
    /\ \A r \in Requests : /\ request[r].from \subseteq Principals
                           /\ request[r].got \subseteq Revisions
    /\ puts \in Nat

\* What an employee's request is told of comes from its own exchanges and those
\* of administrators, through however many records and cached answers.
KnowledgeStaysPrivate ==
    \A r \in Requests : request[r].from \subseteq {request[r].who} \cup Admins

\* The answer a request may take from the cache is one it could have been given: from
\* exchanges of its owner and of administrators, or of these alone if a team shares it.
CachedAnswersStayPrivate ==
    \A e \in exact : e.from \subseteq {e.owner} \cup Admins

\* Between the writing of a record and the pruning that follows it the store is
\* over its limit by the records of the requests there; else never, but for what
\* administrators and employees have pinned.
StoreWithinLimit ==
    \/ Cardinality(memories) <=
         MaxRecords + Cardinality({r \in Requests : At(r, "prune")})
    \/ Cardinality({m \in memories : m.pinned}) >= MaxRecords

\* docs/TEAM_GATEWAY.md: "Entries with a mismatched repository revision or
\* changed dependency digest are rejected as stale."
MismatchedRevisionRejected ==
    \A r \in Requests : request[r].got \subseteq {request[r].revision}
=============================================================================
