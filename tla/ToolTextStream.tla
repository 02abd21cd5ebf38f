--------------------------- MODULE ToolTextStream ---------------------------
(***************************************************************************)
(* Tool calls cut out of streamed text (machboost/server.py, class         *)
(* ToolAwareTextStream).  Text arrives in chunks with arbitrary borders,   *)
(* and what is emitted is never taken back, so nothing may be emitted that *)
(* a later chunk turns into a marker.                                      *)
(*                                                                         *)
(* Characters are the few the code tells apart: "a" is text, "_" blank,    *)
(* and a marker is "<" and one character: a call begins with "<" "t" and   *)
(* ends with "<" "/", "<" "|" is a control marker to drop, and after       *)
(* "<" "s" a new answer begins.  An answer that begins with "{" may be a   *)
(* JSON call and is held back.  One turn of the loop of feed is one action.*)
(***************************************************************************)
EXTENDS Integers, Sequences

CONSTANTS MaxText,    \* bound on the characters fed
          MaxChunk    \* bound on the characters of one chunk

Chars  == {"a", "_", "<", "t", "/", "|", "s", "{"}
Opens  == <<"<", "t">>
Closes == <<"<", "/">>
Drops  == <<"<", "|">>
Begins == <<"<", "s">>

VARIABLES
    fed,        \* history: all characters so far
    emitted,    \* text and calls passed on, in order
    pending, space, initial, deferredJson, inTool, searchFrom,
    busy        \* inside feed

svars == <<fed, emitted, pending, space, initial, deferredJson, inTool,
           searchFrom, busy>>

Init ==
    /\ fed = <<>> /\ emitted = <<>> /\ pending = <<>> /\ space = <<>>
    /\ initial = TRUE /\ deferredJson = FALSE
    /\ inTool = FALSE /\ searchFrom = 0
    /\ busy = FALSE

\* str.lstrip and str.rstrip as far as they are needed.
Blanks(s) == CHOOSE n \in 0 .. Len(s) : /\ \A i \in 1 .. n : s[i] = "_"
                                        /\ n < Len(s) => s[n + 1] # "_"
Solid(s)  == CHOOSE n \in 0 .. Len(s) : /\ \A i \in n + 1 .. Len(s) : s[i] = "_"
                                        /\ n > 0 => s[n] # "_"
WithoutLead(s) == SubSeq(s, Blanks(s) + 1, Len(s))
Ready(s)       == SubSeq(s, 1, Solid(s))

TextSent == \E i \in DOMAIN emitted : emitted[i] # "call"

\* _prose: blanks wait for the text that follows them.
Prose(text) ==
    LET all   == space \o text
        shown == IF TextSent THEN all ELSE WithoutLead(all)
    IN  /\ emitted' = emitted \o Ready(shown)
        /\ space' = SubSeq(shown, Len(Ready(shown)) + 1, Len(shown))

Keep == UNCHANGED <<emitted, space>>
Rest == busy' = FALSE /\ UNCHANGED <<fed, emitted, pending, space, initial,
                                     deferredJson, inTool>>

-----------------------------------------------------------------------------
Feed ==
    /\ ~busy
    /\ \E n \in 1 .. MaxChunk : \E text \in [1 .. n -> Chars] :
         /\ Len(fed) + n <= MaxText
         /\ fed' = fed \o text
         /\ pending' = IF deferredJson THEN pending ELSE pending \o text
         /\ busy' = ~deferredJson
    /\ UNCHANGED <<emitted, space, initial, deferredJson, inTool, searchFrom>>

\* Mutant: a closing marker that is split between two chunks is overlooked.
ResumeAtEnd(n) == n

\* Where the search for the closing marker resumes.
ResumeAt(n) == IF n > Len(Closes) THEN n - Len(Closes) ELSE 0

Ends == {i \in searchFrom + 1 .. Len(pending) - 1 :
            SubSeq(pending, i, i + 1) = Closes}

\* Inside a call: wait for its end, or pass the call on.
InTool ==
    /\ busy /\ pending # <<>> /\ inTool
    /\ IF Ends = {}
       THEN searchFrom' = ResumeAt(Len(pending)) /\ Rest
       ELSE LET i == CHOOSE i \in Ends : \A j \in Ends : i <= j
            IN  /\ emitted' = Append(emitted, "call")
                /\ pending' = SubSeq(pending, i + 2, Len(pending))
                /\ inTool' = FALSE /\ searchFrom' = 0
                /\ UNCHANGED <<fed, space, initial, deferredJson, busy>>

\* At the beginning of an answer: drop blanks, recognise a JSON call.
Lead ==
    /\ busy /\ pending # <<>> /\ ~inTool /\ initial
    /\ LET text == WithoutLead(pending)
       IN  IF text # <<>> /\ Head(text) = "{"
           THEN pending' = <<>> /\ deferredJson' = TRUE /\ busy' = FALSE
                /\ UNCHANGED initial
           ELSE pending' = text /\ initial' = (text = <<>>)
                /\ UNCHANGED <<deferredJson, busy>>
    /\ Keep /\ UNCHANGED <<fed, inTool, searchFrom>>

Scanning == busy /\ pending # <<>> /\ ~inTool /\ ~initial

\* Text up to the next "<".
ScanProse ==
    /\ Scanning /\ Head(pending) # "<"
    /\ LET upTo == CHOOSE n \in 1 .. Len(pending) :
                      /\ \A i \in 1 .. n : pending[i] # "<"
                      /\ n < Len(pending) => pending[n + 1] = "<"
       IN  /\ Prose(SubSeq(pending, 1, upTo))
           /\ pending' = SubSeq(pending, upTo + 1, Len(pending))
    /\ UNCHANGED <<fed, initial, deferredJson, inTool, searchFrom, busy>>

\* A "<" that may become a marker waits; markers are dropped or open a call;
\* any other "<" is text.
ScanMarker ==
    /\ Scanning /\ Head(pending) = "<"
    /\ LET marker == SubSeq(pending, 1, IF Len(pending) > 1 THEN 2 ELSE 1)
           behind == SubSeq(pending, 3, Len(pending))
       IN  \/ Len(pending) = 1 /\ UNCHANGED searchFrom /\ Rest
           \/ /\ marker = Opens
              /\ inTool' = TRUE
              /\ Keep /\ UNCHANGED <<fed, pending, initial, deferredJson, searchFrom, busy>>
           \/ /\ marker \in {Drops, Begins}
              /\ pending' = behind
              /\ initial' = (marker = Begins)
              /\ Keep /\ UNCHANGED <<fed, deferredJson, inTool, searchFrom, busy>>
           \/ /\ Len(pending) > 1 /\ marker \notin {Opens, Drops, Begins}
              /\ Prose(<<"<">>)
              /\ pending' = Tail(pending)
              /\ UNCHANGED <<fed, initial, deferredJson, inTool, searchFrom, busy>>

Consumed == busy /\ pending = <<>> /\ UNCHANGED searchFrom /\ Rest

\* The bound on the text is reached.
Done == ~busy /\ Len(fed) = MaxText /\ UNCHANGED svars

Next == Feed \/ InTool \/ Lead \/ ScanProse \/ ScanMarker \/ Consumed \/ Done

Spec == Init /\ [][Next]_svars

-----------------------------------------------------------------------------
TypeOK ==
    /\ fed \in Seq(Chars) /\ pending \in Seq(Chars)
    /\ emitted \in Seq(Chars \cup {"call"}) /\ space \in Seq({"_"})
    /\ searchFrom <= Len(pending)

\* What a reader of single characters passes on.  lt: a "<" is held back.
Start0 == [mode |-> "lead", lt |-> FALSE, gap |-> <<>>, out |-> <<>>]

Shown(r) == \E i \in DOMAIN r.out : r.out[i] # "call"
Text(r, c) ==
    IF c = "_"
    THEN [r EXCEPT !.gap = IF Shown(r) THEN Append(@, "_") ELSE @]
    ELSE [r EXCEPT !.out = @ \o (r.gap \o <<c>>), !.gap = <<>>]

Read(r, c) ==
    CASE r.mode = "json" -> r
      [] r.mode = "tool" /\ r.lt /\ c = "/" ->
            [r EXCEPT !.mode = "prose", !.lt = FALSE, !.out = Append(@, "call")]
      [] r.mode = "tool" /\ ~(r.lt /\ c = "/") -> [r EXCEPT !.lt = (c = "<")]
      [] r.mode = "lead" /\ c = "_" -> r
      [] r.mode = "lead" /\ c = "{" -> [r EXCEPT !.mode = "json"]
      [] r.mode \in {"lead", "prose"} /\ ~r.lt /\ c = "<" ->
            [r EXCEPT !.mode = "prose", !.lt = TRUE]
      [] r.mode = "lead" /\ c \notin {"_", "{", "<"} ->
            Text([r EXCEPT !.mode = "prose"], c)
      [] r.mode = "prose" /\ ~r.lt /\ c # "<" -> Text(r, c)
      [] r.mode = "prose" /\ r.lt ->
            CASE c = "t" -> [r EXCEPT !.mode = "tool", !.lt = FALSE]
              [] c = "|" -> [r EXCEPT !.lt = FALSE]
              [] c = "s" -> [r EXCEPT !.mode = "lead", !.lt = FALSE]
              [] c = "<" -> Text(r, "<")
              [] c \notin {"t", "|", "s", "<"} -> Text(Text([r EXCEPT !.lt = FALSE], "<"), c)

\* What has become of reader r after the characters s.
Reading(r, s) ==
    LET after[k \in 0 .. Len(s)] == IF k = 0 THEN r ELSE Read(after[k - 1], s[k])
    IN  after[Len(s)]

\* However the text is cut into chunks, between two chunks the stream has
\* passed on exactly what reading it character by character passes on: a
\* marker split between chunks is neither shown nor missed, and blanks are
\* kept inside a text and dropped around it (feed, _prose).
ChunksDoNotMatter == ~busy => emitted = Reading(Start0, fed).out
=============================================================================
