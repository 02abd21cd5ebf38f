---------------------------- MODULE StreamBlocks ----------------------------
(***************************************************************************)
(* The structure of the two streams whose text lies in numbered parts      *)
(* (machboost/server.py): the content blocks of handle_anthropic_message   *)
(* and the output items of handle_openai_response.                         *)
(*                                                                         *)
(* The runtime calls emit_thinking, emit and emit_tool in any order; then  *)
(* the handler sends what is left of the result and closes the stream.  A  *)
(* callback is one action: the state of the handler is a record, and each  *)
(* callback maps it to the next, with the events it writes.                *)
(***************************************************************************)
EXTENDS Integers, Sequences, FiniteSets

CONSTANT MaxCallbacks   \* bound on the callbacks of one stream

None == -1              \* no block is open

VARIABLES
    api,       \* which of the two protocols
    blocks,    \* next, thinking, text: the block indices of the handler
    log,       \* the events written
    callbacks, \* so far
    phase

bvars == <<api, blocks, log, callbacks, phase>>

Event(type, index) == [type |-> type, index |-> index]

Init ==
    /\ api \in {"messages", "responses"}
    /\ blocks = [next |-> 0, thinking |-> None, text |-> None, log |-> <<>>]
    /\ log = <<>>
    /\ callbacks = 0
    /\ phase = "streaming"

Put(b, events) == [b EXCEPT !.log = @ \o events]

-----------------------------------------------------------------------------
(* handle_anthropic_message.                                               *)

\* close_thinking: a signature and the stop.
CloseThinking(b) ==
    IF b.thinking = None THEN b
    ELSE Put([b EXCEPT !.thinking = None],
             <<Event("delta", b.thinking), Event("stop", b.thinking)>>)

CloseText(b) ==
    IF b.text = None THEN b
    ELSE Put([b EXCEPT !.text = None], <<Event("stop", b.text)>>)

\* A block of thinking or of text that is not open yet is opened.
OpenThinking(b) ==
    IF b.thinking # None THEN b
    ELSE Put([b EXCEPT !.thinking = b.next, !.next = @ + 1],
             <<Event("start", b.next)>>)

OpenText(b) ==
    IF b.text # None THEN b
    ELSE Put([b EXCEPT !.text = b.next, !.next = @ + 1],
             <<Event("start", b.next)>>)

\* emit_thinking.
Thinking(b) ==
    LET c == OpenThinking(CloseText(b)) IN Put(c, <<Event("delta", c.thinking)>>)

\* Blank thinking opens no block, but goes into one that is open.
BlankThinking(b) == IF b.thinking = None THEN b ELSE Thinking(b)

\* emit.
Text(b) ==
    LET c == OpenText(CloseThinking(b)) IN Put(c, <<Event("delta", c.text)>>)

\* emit_tool; a call that has been repeated is suppressed (the other case).
Tool(b) ==
    LET c == CloseText(CloseThinking(b))
    IN  Put([c EXCEPT !.next = @ + 1],
            <<Event("start", c.next), Event("delta", c.next),
              Event("stop", c.next)>>)

Tools(b, n) ==
    LET after[i \in 0 .. n] == IF i = 0 THEN b ELSE Tool(after[i - 1])
    IN  after[n]

\* The rest of the thinking and of the text, or the text that explains a
\* suppressed call; then the calls the stream has not sent, and the end.
MessageEnds(b, thinks, speaks, n) ==
    LET c == IF thinks THEN Thinking(b) ELSE b
        d == IF speaks THEN Text(c) ELSE c
    IN  Put(Tools(CloseText(CloseThinking(d)), n), <<Event("end", None)>>)

-----------------------------------------------------------------------------
(* handle_openai_response: text is item 0; the calls follow.               *)

ItemText(b) ==
    LET c == IF b.text # None THEN b
             ELSE Put([b EXCEPT !.text = 0], <<Event("start", 0)>>)
    IN  Put(c, <<Event("delta", 0)>>)

Item(b, i) == Put(b, <<Event("start", i), Event("delta", i), Event("stop", i)>>)

\* output_index once the text is done.  The code looks at the text of the whole answer,
\* which is not empty if and only if some of it was streamed or is sent at the end.
AfterText(b) == IF b.text = None THEN 0 ELSE 1

Items(b, n) ==
    LET after[i \in 0 .. n] ==
            IF i = 0 THEN b ELSE Item(after[i - 1], AfterText(b) + i - 1)
    IN  after[n]

ResponseEnds(b, speaks, n) ==
    LET c == IF speaks THEN ItemText(b) ELSE b
        d == IF c.text = None THEN c ELSE Put(c, <<Event("stop", 0)>>)
    IN  Put([Items(d, n) EXCEPT !.text = None], <<Event("end", None)>>)

-----------------------------------------------------------------------------
Become(b) == blocks' = [b EXCEPT !.log = <<>>] /\ log' = log \o b.log

\* A callback of the runtime; responses has none for thinking and tools.
Callback ==
    /\ phase = "streaming"
    /\ callbacks < MaxCallbacks
    /\ callbacks' = callbacks + 1
    /\ \/ api = "messages" /\ \/ Become(Thinking(blocks))
                              \/ Become(BlankThinking(blocks))
                              \/ Become(Text(blocks))
                              \/ Become(Tool(blocks))
       \/ api = "responses" /\ Become(ItemText(blocks))
    /\ UNCHANGED <<api, phase>>

\* The runtime has returned: the handler ends the stream.
Finish ==
    /\ phase = "streaming"
    /\ \E thinks, speaks \in BOOLEAN, n \in 0 .. 2 :
          IF api = "messages" THEN Become(MessageEnds(blocks, thinks, speaks, n))
                              ELSE Become(ResponseEnds(blocks, speaks, n))
    /\ phase' = "done"
    /\ UNCHANGED <<api, callbacks>>

\* An exception or a cancellation: one error event, whatever is open.
Abort ==
    /\ phase = "streaming"
    /\ Become(Put(blocks, <<Event("error", None)>>))
    /\ phase' = "done"
    /\ UNCHANGED <<api, callbacks>>

Done == phase = "done" /\ UNCHANGED bvars

Next == Callback \/ Finish \/ Abort \/ Done

Spec == Init /\ [][Next]_bvars

-----------------------------------------------------------------------------
TypeOK ==
    /\ api \in {"messages", "responses"}
    /\ blocks \in [next : Nat, thinking : Nat \cup {None}, text : Nat \cup {None},
                   log : {<<>>}]
    /\ log \in Seq([type : {"start", "delta", "stop", "end", "error"},
                    index : Nat \cup {None}])
    /\ phase \in {"streaming", "done"}

\* The block that is open for the client after the first n events.
OpenAfter(n) ==
    {i \in {log[k].index : k \in 1 .. n} :
        /\ \E k \in 1 .. n : log[k] = Event("start", i)
        /\ \A k \in 1 .. n : log[k] # Event("stop", i)}

\* What the two protocols promise a client, in every order of the callbacks:
\* parts are numbered from 0 without a gap, one is open at a time, text and
\* thinking only arrive for the open one, and none is open at the end
\* (emit_thinking, close_thinking, emit, emit_tool, start_text).
PartsAreWellFormed ==
    \A n \in DOMAIN log :
        LET e == log[n]
            started == {k \in 1 .. n - 1 : log[k].type = "start"}
        IN  CASE e.type = "start" -> OpenAfter(n - 1) = {} /\ e.index = Cardinality(started)
              [] e.type \in {"delta", "stop"} -> OpenAfter(n - 1) = {e.index}
              [] e.type = "end" -> OpenAfter(n - 1) = {} /\ n = Len(log)
              [] e.type = "error" -> n = Len(log)
=============================================================================
