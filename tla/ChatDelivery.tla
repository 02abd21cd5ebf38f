---------------------------- MODULE ChatDelivery ----------------------------
(***************************************************************************)
(* How a chat or completion handler answers one request                    *)
(* (machboost/server.py, the chat handlers): from the exact cache, by a     *)
(* provider or by the local model, as one JSON body or as a stream of rows *)
(* that begins once the request is admitted.                               *)
(*                                                                         *)
(* The handlers share their shape; the record of an endpoint says where    *)
(* they differ.  What the local model, a provider or the memory store does *)
(* is a choice, and the client may hang up between any two steps.          *)
(***************************************************************************)
EXTENDS Integers, Sequences, FiniteSets

CONSTANT MaxPieces   \* bound on the pieces of text an answer has

\* What distinguishes the handlers: whether they route to providers, use the
\* exact cache, keep the exchange in the memory before or after the last text,
\* and send text the stream has held back.
OllamaChat       == [routed |-> TRUE,  cached |-> TRUE,  tail |-> TRUE,  late |-> FALSE]
OllamaGenerate   == [routed |-> FALSE, cached |-> TRUE,  tail |-> FALSE, late |-> FALSE]
OpenAIChat       == [routed |-> TRUE,  cached |-> TRUE,  tail |-> TRUE,  late |-> FALSE]
OpenAICompletion == [routed |-> FALSE, cached |-> TRUE,  tail |-> FALSE, late |-> FALSE]
OpenAIResponse   == [routed |-> FALSE, cached |-> FALSE, tail |-> TRUE,  late |-> TRUE]
AnthropicMessage == [routed |-> FALSE, cached |-> FALSE, tail |-> TRUE,  late |-> TRUE]

Endpoints == {OllamaChat, OllamaGenerate, OpenAIChat, OpenAICompletion,
              OpenAIResponse, AnthropicMessage}

Modes == {<<"local">>, <<"external">>, <<"local", "external">>,
          <<"external", "local">>}

VARIABLES
    pc,
    endpoint, stream, exact,  \* the request; exact: its cache is enabled
    legs,      \* the sources not tried yet
    rows,      \* what was written to the connection
    sources,   \* history: who contributed to the rows
    started,   \* stream_started
    streamed,  \* pieces of text emitted so far
    content,   \* pieces of the final text; 0 before it is known
    rewritten, \* the final text does not begin with what was streamed
    remembered, cacheEntry,
    alive,     \* the client is there
    lost       \* history: an exception after the headers, or a connection
               \* error of a provider taken for one of the client

request == <<endpoint, stream, exact>>
answer  == <<content, rewritten>>
stores  == <<remembered, cacheEntry>>
output  == <<rows, sources, started, streamed>>
dvars   == <<pc, request, legs, output, answer, stores, alive, lost>>

Init ==
    /\ pc = "begin"
    /\ endpoint = OllamaChat /\ stream = FALSE /\ exact = FALSE
    /\ legs = <<"local">>
    /\ rows = <<>> /\ sources = {} /\ started = FALSE /\ streamed = 0
    /\ content = 0 /\ rewritten = FALSE
    /\ remembered = {} /\ cacheEntry = "none"
    /\ alive = TRUE /\ lost = FALSE

Terminal == {"json", "jsonError", "end", "error", "cancelled"}
Source   == Head(legs)

Write(kind, from) ==
    /\ rows' = Append(rows, kind)
    /\ sources' = sources \cup from

-----------------------------------------------------------------------------
(* The request, its routing and the exact cache.                           *)

Begin ==
    /\ pc = "begin"
    /\ endpoint' \in Endpoints
    /\ stream' \in BOOLEAN
    /\ exact' \in BOOLEAN
    /\ legs' \in IF endpoint'.routed THEN Modes ELSE {<<"local">>}
    /\ cacheEntry' \in IF endpoint'.cached THEN {"none", "earlier"} ELSE {"none"}
    /\ pc' = IF ~stream' /\ endpoint'.cached /\ exact' THEN "lookup" ELSE "route"
    /\ UNCHANGED <<output, answer, remembered, alive, lost>>

\* exact_cache_get: a hit is sent without an operation and a trace.
Lookup ==
    /\ pc = "lookup"
    /\ IF cacheEntry = "earlier"
       THEN Write("json", {"cache"}) /\ pc' = "done"
       ELSE pc' = "route" /\ UNCHANGED <<rows, sources>>
    /\ UNCHANGED <<request, legs, started, streamed, answer, stores, alive, lost>>

\* do_POST: an error is a JSON body unless headers have been sent.
Fail == pc' = "failed" /\ UNCHANGED legs

\* The next source, or the error of the last one.
FallBack ==
    IF Len(legs) > 1 THEN legs' = Tail(legs) /\ pc' = "route" ELSE Fail

\* external_chat: an answer; a transient error; another one; or the provider
\* breaks the connection, which only the JSON path falls back on, and which
\* do_POST takes for a client that is gone.
External ==
    /\ pc = "route" /\ Source = "external"
    /\ \/ /\ content' \in 1 .. MaxPieces
          /\ pc' = "remember"
          /\ UNCHANGED <<legs, lost>>
       \/ FallBack /\ UNCHANGED <<content, lost>>
       \/ Fail /\ UNCHANGED <<content, lost>>
       \/ /\ IF ~stream /\ Len(legs) > 1
             THEN FallBack /\ UNCHANGED lost
             ELSE pc' = "done" /\ lost' = TRUE /\ UNCHANGED legs
          /\ UNCHANGED content
    /\ UNCHANGED <<request, output, rewritten, stores, alive>>

\* run_traced_operation for a JSON answer.  A full queue, a timeout and the
\* like fall back; other errors and a cancellation do not.
Local ==
    /\ pc = "route" /\ Source = "local" /\ ~stream
    /\ \/ content' \in 1 .. MaxPieces /\ pc' = "remember" /\ UNCHANGED legs
       \/ FallBack /\ UNCHANGED content
       \/ Fail /\ UNCHANGED content
    /\ UNCHANGED <<request, output, rewritten, stores, alive, lost>>

-----------------------------------------------------------------------------
(* A local stream.                                                         *)

\* A refused admission may fall back, a cancelled one does not, and on_admitted
\* sends the headers.
Admit ==
    /\ pc = "route" /\ Source = "local" /\ stream
    /\ \/ FallBack /\ UNCHANGED started
       \/ Fail /\ UNCHANGED started
       \/ started' = TRUE /\ pc' = "streaming" /\ UNCHANGED legs
    /\ UNCHANGED <<request, rows, sources, streamed, answer, stores, alive, lost>>

\* emit and emit_thinking.
Emit ==
    /\ pc = "streaming" /\ streamed < MaxPieces
    /\ Write("piece", {"local"})
    /\ streamed' = streamed + 1
    /\ UNCHANGED <<pc, request, legs, started, answer, stores, alive, lost>>

\* The runtime returns: the text ends with what the stream has held back, or
\* tool calls were cut out of it and it begins in another way.
Generated ==
    /\ pc = "streaming"
    /\ rewritten' \in {FALSE, streamed > 0}
    /\ content' \in (IF rewritten' THEN 1 ELSE streamed) .. MaxPieces
    /\ content' > 0
    /\ pc' = IF endpoint.late THEN "tail" ELSE "remember"
    /\ UNCHANGED <<request, legs, output, stores, alive, lost>>

\* RequestCancelled or another exception once the stream has begun.
Broken ==
    /\ pc = "streaming"
    /\ \E kind \in {"cancelled", "error"} : Write(kind, {})
    /\ pc' = "done"
    /\ UNCHANGED <<request, legs, started, streamed, answer, stores, alive, lost>>

\* Mutant: the final text is sent whole.
WholeText == IF content > 0 /\ ~rewritten THEN content ELSE 0

\* stream_remainder.
Remainder == IF rewritten THEN 0 ELSE content - streamed

\* What is left of the text, for the handlers that look.
SendTail ==
    /\ pc = "tail"
    /\ IF endpoint.tail /\ Remainder > 0
       THEN Write("piece", {Source}) /\ streamed' = streamed + Remainder
       ELSE UNCHANGED <<rows, sources, streamed>>
    /\ pc' = IF endpoint.late THEN "remember" ELSE "end"
    /\ UNCHANGED <<request, legs, started, answer, stores, alive, lost>>

-----------------------------------------------------------------------------
(* The end of an answer.                                                   *)

\* remember_exchange, which may raise (module TeamMemory).  A JSON answer and a
\* provider's are not written before it.
Remember ==
    /\ pc = "remember"
    /\ \/ /\ remembered' \in {remembered, remembered \cup {Source}}
          /\ pc' = IF ~stream \/ Source = "external" THEN "send"
                   ELSE IF endpoint.late THEN "end" ELSE "tail"
       \/ /\ pc' = "failed"
          /\ UNCHANGED remembered
    /\ UNCHANGED <<request, legs, output, answer, cacheEntry, alive, lost>>

\* Only a local JSON answer is cached.
Cacheable == endpoint.cached /\ exact /\ ~stream /\ Source = "local"

\* exact_cache_put, the last thing before the body is sent.
Stored == IF Cacheable THEN Source ELSE cacheEntry

\* A JSON body, or a provider's answer as a whole stream: headers, text, end.
Send ==
    /\ pc = "send"
    /\ cacheEntry' = Stored
    /\ IF stream
       THEN /\ started' = TRUE
            /\ streamed' = content
            /\ rows' = rows \o <<"piece", "end">>
            /\ sources' = sources \cup {Source}
       ELSE Write("json", {Source}) /\ UNCHANGED <<started, streamed>>
    /\ pc' = "done"
    /\ UNCHANGED <<request, legs, answer, remembered, alive, lost>>

End ==
    /\ pc = "end"
    /\ Write("end", {Source})
    /\ pc' = "done"
    /\ UNCHANGED <<request, legs, started, streamed, answer, stores, alive, lost>>

\* headers_sent.
MayReport == ~started

\* The error handling of do_POST and send_error_json.
ReportError ==
    /\ pc = "failed"
    /\ IF MayReport
       THEN Write("jsonError", {}) /\ UNCHANGED lost
       ELSE lost' = TRUE /\ UNCHANGED <<rows, sources>>
    /\ pc' = "done"
    /\ UNCHANGED <<request, legs, started, streamed, answer, stores, alive>>

-----------------------------------------------------------------------------
(* The client.                                                             *)

HangUp ==
    /\ alive
    /\ alive' = FALSE
    /\ UNCHANGED <<pc, request, legs, output, answer, stores, lost>>

\* Writing to a client that is gone fails, the attempt to report the error too;
\* do_POST gives up.  The first writes may still go to the socket buffer.
GiveUp ==
    /\ ~alive
    /\ pc \in {"lookup", "route", "streaming", "tail", "send", "end", "failed"}
    /\ pc = "route" => Source = "local" /\ stream
    /\ pc' = "done"
    /\ UNCHANGED <<request, legs, output, answer, stores, alive, lost>>

Done == pc = "done" /\ UNCHANGED dvars

Next == \/ Begin \/ Lookup \/ External \/ Local
        \/ Admit \/ Emit \/ Generated \/ Broken \/ SendTail
        \/ Remember \/ Send \/ End \/ ReportError
        \/ HangUp \/ GiveUp \/ Done

Spec == Init /\ [][Next]_dvars

-----------------------------------------------------------------------------
TypeOK ==
    /\ pc \in {"begin", "lookup", "route", "streaming", "tail", "remember",
               "send", "end", "failed", "done"}
    /\ endpoint \in Endpoints /\ legs \in Modes
    /\ rows \in Seq(Terminal \cup {"piece"})
    /\ streamed \in 0 .. MaxPieces /\ content \in 0 .. MaxPieces
    /\ remembered \subseteq {"local", "external"}
    /\ cacheEntry \in {"none", "earlier", "local", "external"}

\* A request has one answer: its rows come from one source, a JSON body stands
\* alone, nothing follows a terminal row, and text a stream has sent is not
\* sent again by the remainder; when the handler is done the client, if it
\* stayed, has a terminal row, unless an exception came after the headers or a
\* provider's connection broke (handle_ollama_chat and its siblings, do_POST).
OneAnswer ==
    /\ Cardinality(sources) <= 1
    /\ \A i \in DOMAIN rows :
          /\ rows[i] \in Terminal => i = Len(rows)
          /\ rows[i] \in {"json", "jsonError"} => Len(rows) = 1 /\ ~started
    /\ streamed <= MaxPieces
    /\ pc = "done" /\ alive /\ ~lost => rows # <<>> /\ rows[Len(rows)] \in Terminal
    /\ pc = "done" /\ rows # <<>> /\ rows[Len(rows)] = "end" /\ endpoint.tail
         => rewritten \/ streamed = content

\* The exact cache only ever takes a complete local JSON answer, and what is
\* remembered or cached is from the source the client was answered by
\* (exact_cache_put, remember_exchange).
StoresFollowAnswer ==
    /\ cacheEntry \notin {"none", "earlier"}
         => cacheEntry = "local" /\ ~stream /\ sources = {"local"}
    /\ Cardinality(remembered) <= 1
    /\ remembered # {} /\ sources # {} => remembered = sources
=============================================================================
