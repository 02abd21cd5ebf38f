----------------------------- MODULE Transcripts -----------------------------
(***************************************************************************)
(* The transcript of an agent's conversation, which the client keeps and   *)
(* sends whole with every request (machboost/protocols.py,                 *)
(* machboost/compaction.py, machboost/ollama_compat.py: truncate_messages, *)
(* and handle_anthropic_message and handle_responses_compact of            *)
(* machboost/server.py): which tools are offered to the model, which calls *)
(* are passed to the client, what the model is sent, and what a compaction *)
(* puts in the place of the history.                                       *)
(*                                                                         *)
(* A text, a call or a result is one token, and so is the template of a    *)
(* message; a text is known by the tools it speaks of, a call by its tool. *)
(***************************************************************************)
EXTENDS Integers, Sequences, FiniteSets, SequencesExt, FiniteSetsExt

CONSTANTS Tools,        \* numbers: the order of the client's list, and of the rank
          Core,         \* _CORE_AGENT_TOOLS
          ToolLimit,    \* MACHBOOST_ANTHROPIC_TOOL_LIMIT
          Few,          \* this many are offered whatever they score (4 in the code)
          Subjects,     \* what a user's text speaks of: sets of tools
          Recent,       \* items a compaction retains whatever they are (4 in the code)
          Budgets,      \* tokens that num_ctx leaves for the prompt
          MaxParallel,  \* bound: calls in one answer
          MaxItems,     \* bound: items of a conversation
          MaxCompactions

VARIABLES
    api,        \* "messages" (Anthropic), "responses" or "chat" (Ollama, OpenAI)
    chat,       \* the client's messages, each a sequence of items
    at,         \* "user", "request", "answer", "execute"
    disabled,   \* the request that is under way offers no tools
    selections, \* history: the tools selected when none was forced
    lanes,      \* history: the lanes of the cache
    strange,    \* history: a call of a tool that was not selected
    kept,       \* history: calls, results and images, in order
    compactions

tVars == <<api, chat, at, disabled, selections, lanes, strange, kept, compactions>>

Item(kind, id, of) == [kind |-> kind, id |-> id, of |-> of, retained |-> <<>>]
System == Item("system", 0, {})

-----------------------------------------------------------------------------
(* What the transcript says.                                               *)

\* expand_items: the summary becomes an assistant's text, followed by what was retained.
Expand(items) ==
    FlattenSeq([i \in DOMAIN items |->
        IF items[i].kind = "compaction" THEN <<Item("text", 0, {})>> \o items[i].retained
                                        ELSE <<items[i]>>])

Items == Expand(FlattenSeq(chat))

IsResult(x) == x.kind \in {"result", "error"}

\* anthropic_messages: a message's results follow, each as a message, its other parts.
\* responses_messages: each item is a message, and the instructions are the first.
Converted ==
    IF api = "messages"
    THEN <<<<System>>>> \o FlattenSeq([i \in DOMAIN chat |->
            LET rest    == SelectSeq(chat[i], LAMBDA x : ~IsResult(x))
                results == SelectSeq(chat[i], IsResult)
            IN  (IF rest = <<>> THEN <<>> ELSE <<rest>>)
                \o [j \in DOMAIN results |-> <<results[j]>>]])
    ELSE [i \in 1 .. Len(Items) + 1 |-> IF i = 1 THEN <<System>> ELSE <<Items[i - 1]>>]

\* select_anthropic_tools and its helpers: forced, used and core tools, then those the
\* first text of the user speaks of, then a few more.
Query == LET texts == SelectSeq(Items, LAMBDA x : x.kind = "user")
         IN  IF texts = <<>> THEN {} ELSE texts[1].of

Used == UNION {x.of : x \in {y \in ToSet(Items) : y.kind = "call"}}

Selected(forced) ==
    LET mandatory == Core \cup Used \cup forced
        list      == SelectSeq([t \in 1 .. Max(Tools) |-> t], LAMBDA t : t \in Tools)
        ranked    == SelectSeq(list, LAMBDA t : t \in Query)
                       \o SelectSeq(list, LAMBDA t : t \notin Query)
        most      == Max({ToolLimit, Cardinality(mandatory)})
        add(s, t) == IF Cardinality(s) >= most \/ (t \notin Query /\ Cardinality(s) >= Few)
                     THEN s ELSE s \cup {t}
    IN  FoldLeft(add, mandatory, ranked)

\* repeated_completed_anthropic_calls: in the whole conversation.  The client of this
\* interface is Claude Code here; others have no such guard.
Completed(t) == Len(SelectSeq(Items, LAMBDA x : x.kind = "result" /\ x.of = {t}))

Repeated == IF api = "messages" THEN {t \in Tools : Completed(t) >= 2} ELSE {}

-----------------------------------------------------------------------------
(* A turn.                                                                 *)

Init ==
    /\ api \in {"messages", "responses", "chat"}
    /\ chat = <<>> /\ at = "user" /\ disabled = FALSE
    /\ selections = {} /\ lanes = {} /\ strange = FALSE
    /\ kept = <<>> /\ compactions = 0

Room == Len(Items) < MaxItems
Ids == Len(SelectSeq(kept, LAMBDA x : x.kind = "call"))

\* Some clients put each item in a message of its own.
Put(items) ==
    chat' = IF api = "messages" THEN Append(chat, items)
            ELSE chat \o [i \in DOMAIN items |-> <<items[i]>>]

\* Calls, results and images are remembered.
Remember(items) ==
    kept' = kept \o SelectSeq(items, LAMBDA x : x.kind \in {"call", "result", "error", "image"})

Say ==
    /\ at = "user" /\ Room
    /\ \E s \in Subjects, kind \in {"user", "image"} :
         /\ kind = "image" => s = {} /\ chat # <<>>
         /\ api = "messages" \/ s = {}
         /\ Put(<<Item(kind, 0, s)>>) /\ Remember(<<Item(kind, 0, s)>>)
    /\ at' = "request"
    /\ UNCHANGED <<api, disabled, selections, lanes, strange, compactions>>

\* anthropic_cache_affinity: of one session, model and first text.
Lane(tools) == IF tools = {} THEN "utility" ELSE "agent"

\* handle_anthropic_message: no tools once a call is repeated; the lane is that of the
\* selected ones all the same.  For the other clients none are selected.
Request ==
    /\ at = "request"
    /\ disabled' = (Repeated # {})
    /\ IF api # "messages" THEN UNCHANGED <<selections, lanes>>
       ELSE \E forced \in {{}} \cup {{t} : t \in Tools} :
              /\ selections' = IF forced = {} THEN selections \cup {Selected({})} ELSE selections
              /\ lanes' = lanes \cup {Lane(Selected(forced))}
    /\ at' = "answer"
    /\ UNCHANGED <<api, chat, strange, kept, compactions>>

\* Which tool it is matters to one kind of client.
Callable == IF api = "messages" THEN Tools ELSE Core

\* A model may call a tool again that is not offered any more.
Passed(calls) == SelectSeq(calls, LAMBDA t : t \notin Repeated)

Answer ==
    /\ at = "answer"
    /\ \E calls \in BoundedSeq(Callable, MaxParallel) :
         /\ calls # <<>> => Room
         /\ LET made == [i \in DOMAIN Passed(calls) |-> Item("call", Ids + i, {Passed(calls)[i]})]
                out  == IF made = <<>> THEN <<Item("text", 0, {})>> ELSE made
            IN  /\ Put(out) /\ Remember(out)
                /\ at' = IF made = <<>> THEN "user" ELSE "execute"
                /\ strange' = (strange \/ ToSet(Passed(calls)) \ Selected({}) # {})
    /\ disabled' = FALSE
    /\ UNCHANGED <<api, selections, lanes, compactions>>

Open == {x \in ToSet(kept) : x.kind = "call" /\ ~\E y \in ToSet(kept) : IsResult(y) /\ y.id = x.id}

\* The client answers every call, in order, and may add a text.
Execute ==
    /\ at = "execute"
    /\ LET calls == SelectSeq(kept, LAMBDA x : x \in Open)
       IN  \E kind \in {"result", "error"}, text \in {FALSE, api = "messages"} :
             LET results == [i \in DOMAIN calls |-> Item(kind, calls[i].id, calls[i].of)]
                 out     == results \o (IF text THEN <<Item("user", 0, {})>> ELSE <<>>)
             IN  Put(out) /\ Remember(out)
    /\ at' = "request"
    /\ UNCHANGED <<api, disabled, selections, lanes, strange, compactions>>

-----------------------------------------------------------------------------
(* Compaction.                                                             *)

\* prepare: the older texts are summarised, all else is retained.
Retains(items, i) == i > Len(items) - Recent \/ items[i].kind \notin {"user", "text"}

Prepared == <<System>> \o Items

Retained == LET items  == Prepared
                places == SelectSeq([i \in DOMAIN items |-> i], LAMBDA i : Retains(items, i))
            IN  [k \in DOMAIN places |-> items[places[k]]]

\* handle_responses_compact and envelope: a summary that failed leaves all as it is.
Compact ==
    /\ api = "responses" /\ at \in {"user", "request", "execute"} /\ chat # <<>>
    /\ compactions < MaxCompactions
    /\ compactions' = compactions + 1
    /\ \/ chat' = <<<<[Item("compaction", 0, {}) EXCEPT !.retained = Retained]>>>>
       \/ /\ Len(Retained) < Len(Prepared)
          /\ UNCHANGED chat
    /\ UNCHANGED <<api, at, disabled, selections, lanes, strange, kept>>

-----------------------------------------------------------------------------
(* truncate_messages.                                                      *)

Size(messages) == FoldLeft(LAMBDA n, m : n + 1 + Len(m), 0, messages)
IsSystem(m) == m[1].kind = "system"

Removable(messages) == {i \in 1 .. Len(messages) - 1 : ~IsSystem(messages[i])}

Shorter(messages, budget) ==
    IF Size(messages) <= budget \/ Removable(messages) = {} THEN messages
    ELSE RemoveAt(messages, Min(Removable(messages)))

\* The loop takes at most as many turns as there are messages.
Shrunk(messages, budget) == FoldLeft(LAMBDA left, m : Shorter(left, budget), messages, messages)

\* A content that is a string may be cut; a list of parts may not.  A call has none.
Content(m) == IF IsSystem(m) \/ m[1].kind = "call" THEN 0
              ELSE IF api = "chat" \/ IsResult(m[1]) THEN Len(m) ELSE 0

\* The tokens that are cut from the last text, -1 if that is not enough.
Cut(messages, budget) ==
    LET over == Size(messages) - budget
    IN  IF over <= 0 THEN 0
        ELSE IF \E i \in DOMAIN messages : Content(messages[i]) >= over THEN over ELSE -1

Done == at = "user" /\ ~Room /\ UNCHANGED tVars

Next == Say \/ Request \/ Answer \/ Execute \/ Compact \/ Done

Spec == Init /\ [][Next]_tVars

-----------------------------------------------------------------------------
TypeOK ==
    /\ at \in {"user", "request", "answer", "execute"}
    /\ selections \subseteq SUBSET Tools /\ lanes \subseteq {"agent", "utility"}
    /\ (at = "execute") = (Open # {})

\* The tools that open the prompt, and the lane of the cache, are the same in every turn
\* of a conversation, although what the user speaks of changes, tools that were used are
\* kept and may push others out, and tools may be disabled; only a call of a tool that
\* was not selected, or a forced one, changes them.
SelectionIsStable == ~strange => Cardinality(selections) <= 1 /\ Cardinality(lanes) <= 1

\* An unchanged call succeeds once before the answer that repeats it, and after this one
\* no more, although the model may go on calling (release-notes/0.16.22.md:5).
LoopsEnd == api = "messages" => \A t \in Tools : Completed(t) <= 1 + MaxParallel

\* In what the model is sent every result follows its call, no call or result is lost or
\* doubled, and when a model is asked every call has its result, after any number of
\* compactions.
ResultsFollowCalls ==
    LET sent  == FlattenSeq(Converted)
        state == {"call", "result", "error", "image"}
    IN  /\ SelectSeq(Items, LAMBDA x : x.kind \in state) = kept
        /\ {x \in ToSet(sent) : x.kind \in state} = ToSet(kept)
        /\ \A i \in DOMAIN sent : IsResult(sent[i]) =>
              \E j \in 1 .. i - 1 : sent[j].kind = "call" /\ sent[j].id = sent[i].id

\* Truncation keeps the system messages, the last message and as many before it as fit,
\* and fails only if the system messages leave no room for the last one.
TruncationKeepsTheEnd ==
    at = "request" =>
        \A budget \in Budgets :
            LET all    == Converted
                left   == Shrunk(all, budget)
                cut    == Cut(left, budget)
                others == SelectSeq(all, LAMBDA m : ~IsSystem(m))
                stay   == SelectSeq(left, LAMBDA m : ~IsSystem(m))
                gone   == Len(others) - Len(stay)
            IN  /\ SelectSeq(left, IsSystem) = SelectSeq(all, IsSystem)
                /\ stay = SubSeq(others, gone + 1, Len(others)) /\ stay # <<>>
                /\ gone > 0 => Size(left) + Size(<<others[gone]>>) > budget
                /\ cut >= 0 => Size(left) - cut <= budget
                /\ cut = -1 /\ api = "chat" => Size(SelectSeq(all, IsSystem)) + 1 > budget

\* server.py:6376: "Find unchanged successful calls already executed twice in this agent
\* turn", for which the tools of a request are disabled.  The calls of all turns count.
RepeatsAreOfThisTurn ==
    disabled =>
        LET begins == Max({i \in DOMAIN chat : chat[i][1].kind \in {"user", "image"}})
            turn   == FlattenSeq(SubSeq(chat, begins, Len(chat)))
        IN  \E t \in Tools :
              Cardinality({i \in DOMAIN turn : turn[i].kind = "result" /\ turn[i].of = {t}}) >= 2

=============================================================================
