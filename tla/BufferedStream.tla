-------------------------- MODULE BufferedStream --------------------------
(***************************************************************************)
(* The stream of an Ollama answer (machboost/adapters/ollama_mlx.py,       *)
(* buffered_stream and generate_chat): a thread reads the socket into a    *)
(* bounded queue, the request's thread takes the chunks out and passes     *)
(* them to the callbacks.                                                  *)
(*                                                                         *)
(* Both wait in slices of 50 ms and look between them whether the request  *)
(* was cancelled or the consumer has stopped.  The server is the           *)
(* environment: it gives chunks, ends the answer, fails, or leaves the     *)
(* reader waiting.                                                         *)
(***************************************************************************)
EXTENDS Integers, Sequences

CONSTANTS MaxBuffered,   \* max_buffered_chunks
          MaxAnswer      \* bound: chunks of an answer

VARIABLES
    given,      \* chunks read from the stream
    producer,   \* "reading", "looking" (for a cancel), "putting", "ended"
    item,       \* what it has to put: a chunk (its number), Error or End
    raised,     \* history: the stream has failed
    events,     \* the queue
    consumer,   \* "looking", "taking", "passing", "closing", "left"
    chunk,      \* the chunk it passes on
    passed,     \* chunks given to the callbacks
    outcome,    \* of generate_chat
    cancelled,  \* cancel_event
    stopped,    \* the finally of buffered_stream has run
    shut,       \* stream.close() has succeeded
    late        \* history: chunks read after stopped was set

produced == <<given, producer, item, raised, late>>
consumed == <<consumer, chunk, passed, outcome, stopped, shut>>
bufferVars == <<produced, events, consumed, cancelled>>

Error == 0
End   == -1

Init ==
    /\ given = 0 /\ producer = "reading" /\ item = End /\ raised = FALSE /\ late = 0
    /\ events = <<>>
    /\ consumer = "looking" /\ chunk = End /\ passed = <<>> /\ outcome = "none"
    /\ cancelled = FALSE /\ stopped = FALSE /\ shut = FALSE

GivesUp == stopped \/ cancelled

-----------------------------------------------------------------------------
(* produce, in its own thread.                                             *)

Enqueue(x) == item' = x /\ producer' = "looking"

\* A stream that was closed gives no chunk and does not fail.
Read ==
    /\ producer = "reading"
    /\ \/ /\ given < MaxAnswer /\ ~shut
          /\ given' = given + 1 /\ Enqueue(given + 1)
          /\ late' = IF stopped THEN late + 1 ELSE late
          /\ UNCHANGED raised
       \/ ~shut /\ raised' = TRUE /\ Enqueue(Error) /\ UNCHANGED <<given, late>>
       \/ Enqueue(End) /\ UNCHANGED <<given, raised, late>>
    /\ UNCHANGED <<events, consumed, cancelled>>

\* enqueue gives up.  The end is tried once more after an error, in vain as well.
AfterGivingUp == "ended"

LookFirst ==
    /\ producer = "looking"
    /\ producer' = IF GivesUp THEN AfterGivingUp ELSE "putting"
    /\ UNCHANGED <<given, item, raised, late, events, consumed, cancelled>>

Room == Len(events) < MaxBuffered

\* A slice of put.
Put ==
    /\ producer = "putting"
    /\ IF ~Room THEN producer' = "looking" /\ UNCHANGED <<item, events>>
       ELSE /\ events' = Append(events, item)
            /\ CASE item > 0     -> producer' = "reading" /\ UNCHANGED item
                 [] item = Error -> Enqueue(End)
                 [] item = End   -> producer' = "ended" /\ UNCHANGED item
    /\ UNCHANGED <<given, raised, late, consumed, cancelled>>

-----------------------------------------------------------------------------
(* buffered_stream and the loop of generate_chat, in the request's thread. *)

Leave(how) == outcome' = how /\ consumer' = "closing" /\ stopped' = TRUE

Look ==
    /\ consumer = "looking"
    /\ IF cancelled THEN Leave("cancelled")
                    ELSE consumer' = "taking" /\ UNCHANGED <<outcome, stopped>>
    /\ UNCHANGED <<produced, events, chunk, passed, shut, cancelled>>

\* A slice of get.
Take ==
    /\ consumer = "taking"
    /\ IF events = <<>>
       THEN consumer' = "looking" /\ UNCHANGED <<events, chunk, outcome, stopped>>
       ELSE /\ events' = Tail(events)
            /\ chunk' = Head(events)
            /\ CASE Head(events) > 0     -> consumer' = "passing" /\ UNCHANGED <<outcome, stopped>>
                 [] Head(events) = Error -> Leave("raised")
                 [] Head(events) = End   -> Leave("returned")
    /\ UNCHANGED <<produced, passed, shut, cancelled>>

\* generate_chat looks once more for a cancel before it calls back; a callback raises
\* when the client has gone.
Pass ==
    /\ consumer = "passing"
    /\ IF cancelled THEN Leave("cancelled") /\ UNCHANGED passed
       ELSE /\ passed' = Append(passed, chunk)
            /\ \/ consumer' = "looking" /\ UNCHANGED <<outcome, stopped>>
               \/ Leave("gone")
    /\ UNCHANGED <<produced, events, chunk, shut, cancelled>>

\* The finally of generate_chat.  A stream the producer is reading from cannot be
\* closed: the error is swallowed.
CloseStream ==
    /\ consumer = "closing"
    /\ consumer' = "left"
    /\ shut' = (producer # "reading")
    /\ UNCHANGED <<produced, events, chunk, passed, outcome, stopped, cancelled>>

Cancel ==
    /\ ~cancelled /\ consumer # "left"
    /\ cancelled' = TRUE
    /\ UNCHANGED <<produced, events, consumed>>

\* A server that says nothing more keeps the reader waiting.
Done == consumer = "left" /\ producer \in {"ended", "reading"} /\ UNCHANGED bufferVars

Next == Read \/ LookFirst \/ Put \/ Look \/ Take \/ Pass \/ CloseStream \/ Cancel \/ Done

Spec == Init /\ [][Next]_bufferVars

-----------------------------------------------------------------------------
TypeOK ==
    /\ given \in 0 .. MaxAnswer /\ item \in {End, Error} \cup 1 .. MaxAnswer
    /\ producer \in {"reading", "looking", "putting", "ended"}
    /\ consumer \in {"looking", "taking", "passing", "closing", "left"}
    /\ outcome \in {"none", "returned", "raised", "cancelled", "gone"}
    /\ Len(events) <= MaxBuffered

\* The client gets the chunks of the server in their order, without a gap.  An answer is
\* taken for whole only if the server has ended it and all of it was passed on; a failure
\* of the server is told after all that came before it.  That two threads share a queue
\* that may be full, and give up at any moment, never turns a failure into an end.
AnswerIsWhole ==
    /\ \A i \in DOMAIN passed : passed[i] = i
    /\ outcome = "returned" => ~raised /\ Len(passed) = given
    /\ outcome = "raised" => raised /\ Len(passed) = given

\* Once the request has gone, the reader takes at most the one chunk it waits for.
ReaderStops == late <= 1

=============================================================================
