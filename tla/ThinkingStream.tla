-------------------------- MODULE ThinkingStream --------------------------
(***************************************************************************)
(* What a chat answer passes through on its way to the client:             *)
(* ChatTextStreamer (machboost/accelerator.py), which drops the role at    *)
(* its beginning and ends it at a stop string, and ThinkingStreamSplitter  *)
(* (machboost/reasoning.py), which tells reasoning from content by         *)
(* markers, as Accelerator.generate_chat joins them.                       *)
(*                                                                         *)
(* Text comes in chunks that know nothing of markers, and what was emitted *)
(* cannot be taken back.  A text is a sequence of characters; each kind of *)
(* marker is one short sequence that shares its first character with the   *)
(* others, as "<think>" and "</think>" do.                                 *)
(***************************************************************************)
EXTENDS Integers, Sequences, FiniteSets, SequencesExt

CONSTANTS MaxText,     \* bound: characters of an answer
          MaxChunk     \* bound: characters of a chunk

VARIABLES
    fed,               \* all that was pushed so far
    held,              \* ChatTextStreamer.buffer
    started, stopped,
    splitter,          \* mode, buffer, and what was emitted: reasoning, content
    ended,             \* finish and the final feed have run
    thinkingFirst      \* history: starts_in_thinking

kvars == <<fed, held, started, stopped, splitter, ended, thinkingFirst>>

Chars   == {"<", "t", "/", "c", "a", "n"}
Open    == <<"<", "t">>      \* open_markers
Close   == <<"<", "/">>      \* close_markers
Content == <<"<", "c">>      \* CONTENT_MARKERS
Role    == <<"a", "a">>      \* "Assistant:"
Stop    == <<"/", "a">>      \* stop_strings
Newline == "n"               \* and white space

Opposite == [before |-> "thinking", thinking |-> "after"]

Splitter(first) == [mode |-> IF first THEN "thinking" ELSE "before",
                    buffer |-> <<>>, reasoning |-> <<>>, content |-> <<>>]

Init ==
    /\ fed = <<>> /\ held = <<>> /\ started = FALSE /\ stopped = FALSE /\ ended = FALSE
    /\ thinkingFirst \in BOOLEAN
    /\ splitter = Splitter(thinkingFirst)

From(text, i)   == SubSeq(text, i, Len(text))
Starts(text, i) == {m \in {Open, Close, Content, Role, Stop} : IsPrefix(m, From(text, i))}
Places(text, m) == {i \in DOMAIN text : m \in Starts(text, i)}
Find(text, m)   == CHOOSE i \in Places(text, m) : \A j \in Places(text, m) : i <= j

\* replace(m, "").
Without(text, m) ==
    LET rest[i \in 1 .. Len(text) + 1] ==
          CASE i > Len(text)         -> <<>>
            [] i \in Places(text, m) -> rest[i + Len(m)]
            [] OTHER                 -> <<text[i]>> \o rest[i + 1]
    IN  rest[1]

\* lstrip.
Trim(text) ==
    LET blank == {n \in 0 .. Len(text) : \A i \in 1 .. n : text[i] = Newline}
    IN  From(text, 1 + Cardinality(blank \ {0}))

\* Mutant: nothing is kept back.
HoldsNothing(text, markers) == 0

\* The end of a text that may be the beginning of one of the markers (_split_partial).
Hold(text, markers) ==
    IF text # <<>> /\ \E m \in markers : Last(text) = Head(m) THEN 1 ELSE 0

-----------------------------------------------------------------------------
(* ThinkingStreamSplitter.feed.                                            *)

Watched(mode) == CASE mode = "before"   -> {Open, Content}
                   [] mode = "thinking" -> {Close}
                   [] mode = "after"    -> {Content}

Emit(s, text) == IF s.mode = "thinking"
                 THEN [s EXCEPT !.reasoning = @ \o Without(text, Open)]
                 ELSE [s EXCEPT !.content = @ \o Without(text, Content)]

\* One turn of its loop: up to the marker that ends the mode, or all but what must be
\* held.  A turn more changes nothing, and three are enough for any text.
Turn(s, final) ==
    LET marker == IF s.mode = "before" THEN Open ELSE Close
        i      == Find(s.buffer, marker)
        hold   == IF final THEN 0 ELSE Hold(s.buffer, Watched(s.mode))
    IN  IF s.mode # "after" /\ Places(s.buffer, marker) # {}
        THEN [Emit(s, SubSeq(s.buffer, 1, i - 1)) EXCEPT
                 !.mode = Opposite[s.mode],
                 !.buffer = Trim(From(s.buffer, i + Len(marker)))]
        ELSE [Emit(s, SubSeq(s.buffer, 1, Len(s.buffer) - hold)) EXCEPT
                 !.buffer = From(s.buffer, Len(s.buffer) - hold + 1)]

Split(s, text, final) ==
    Turn(Turn(Turn([s EXCEPT !.buffer = @ \o text], final), final), final)

-----------------------------------------------------------------------------
(* ChatTextStreamer.                                                       *)

\* _strip_leading_role_prefix, as long as nothing has started.
Stripped(text, force) ==
    LET rest == Trim(text)
    IN  IF IsPrefix(Role, rest) THEN [started |-> TRUE, text |-> Trim(From(rest, Len(Role) + 1))]
        ELSE IF ~force /\ IsPrefix(rest, Role) THEN [started |-> FALSE, text |-> text]
        ELSE [started |-> TRUE, text |-> rest]

Lead(text, force) == IF started THEN [started |-> TRUE, text |-> text] ELSE Stripped(text, force)

\* trailing_stop_prefix_length.
MayStop(text) == Hold(text, {Stop})

\* push: up to a stop string, or all but what may become one (_emit_safe_text).
Push ==
    /\ ~ended /\ Len(fed) < MaxText
    /\ \E chunk \in BoundedSeq(Chars, MaxChunk) \ {<<>>} :
         /\ Len(fed) + Len(chunk) <= MaxText
         /\ fed' = fed \o chunk
         /\ LET lead == Lead(held \o chunk, FALSE)
                text == lead.text
                safe == Len(text) - MayStop(text)
            IN  IF stopped THEN UNCHANGED <<held, started, stopped, splitter>>
                ELSE /\ started' = lead.started
                     /\ stopped' = (lead.started /\ Places(text, Stop) # {})
                     /\ IF ~lead.started THEN held' = text /\ UNCHANGED splitter
                        ELSE IF stopped'
                        THEN /\ held' = <<>>
                             /\ splitter' = Split(splitter,
                                                  SubSeq(text, 1, Find(text, Stop) - 1), FALSE)
                        ELSE /\ held' = From(text, safe + 1)
                             /\ splitter' = Split(splitter, SubSeq(text, 1, safe), FALSE)
    /\ UNCHANGED <<ended, thinkingFirst>>

Truncated(text) == IF Places(text, Stop) = {} THEN text
                                              ELSE SubSeq(text, 1, Find(text, Stop) - 1)

\* finish, and the final feed of the splitter.
Finish ==
    /\ ~ended
    /\ ended' = TRUE
    /\ IF stopped
       THEN splitter' = Split(splitter, <<>>, TRUE) /\ UNCHANGED <<held, started>>
       ELSE LET lead == Lead(held, TRUE)
                s    == Split(splitter, Truncated(lead.text), FALSE)
            IN  /\ started' = TRUE /\ held' = <<>>
                /\ splitter' = Split(s, <<>>, TRUE)
    /\ UNCHANGED <<fed, stopped, thinkingFirst>>

Done == ended /\ UNCHANGED kvars

Next == Push \/ Finish \/ Done

Spec == Init /\ [][Next]_kvars

-----------------------------------------------------------------------------
TypeOK ==
    /\ fed \in Seq(Chars) /\ held \in Seq(Chars)
    /\ splitter.mode \in {"before", "thinking", "after"}
    /\ splitter.buffer \in Seq(Chars) /\ Len(splitter.buffer) <= 1
    /\ splitter.reasoning \in Seq(Chars) /\ splitter.content \in Seq(Chars)
    /\ ended => held = <<>> /\ splitter.buffer = <<>>

\* The reference: the answer taken at once.
Answer(text) == Truncated(Stripped(text, TRUE).text)
Whole(text) ==
    LET first == IF thinkingFirst THEN "thinking" ELSE "before"
        s     == Split([mode |-> first, buffer |-> <<>>, reasoning |-> <<>>, content |-> <<>>],
                       Answer(text), TRUE)
    IN  [reasoning |-> s.reasoning, content |-> s.content]

\* Where the cut of the chunks does decide in the code: white space after the role or
\* a marker goes only with the chunk they end in, and an open marker in the reasoning is
\* removed only if it comes in one.
CutMatters(text) ==
    \/ \E i \in DOMAIN text \ {1} :
          text[i] = Newline /\ \E m \in {Open, Close, Role} : IsSuffix(m, SubSeq(text, 1, i - 1))
    \/ Cardinality(Places(text, Open)) > (IF thinkingFirst THEN 0 ELSE 1)

\* However the answer is cut into chunks, what the client has is always the beginning of
\* what the whole answer means, and all of it in the end: no marker, role or stop string
\* leaks because it came in pieces, and no text is lost because it looked like one.
ChunksDoNotMatter ==
    CutMatters(fed) \/
    /\ IsPrefix(splitter.reasoning, Whole(fed).reasoning)
    /\ IsPrefix(splitter.content, Whole(fed).content)
    /\ ended => /\ splitter.reasoning = Whole(fed).reasoning
                /\ splitter.content = Whole(fed).content
=============================================================================
