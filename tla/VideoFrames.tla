---------------------------- MODULE VideoFrames ----------------------------
(***************************************************************************)
(* The frames of a video (machboost/video.py, TemporalVideoSampler).       *)
(* FFmpeg extracts them into a directory named after the video's path,     *)
(* time and size; a manifest written at the end marks them as complete,    *)
(* and later commands take them from there.  From the frames those that    *)
(* changed most are selected.                                              *)
(*                                                                         *)
(* Several commands may sample the same video, and each may be killed at   *)
(* any step.  The video itself does not change here: a change gives it     *)
(* another directory.                                                      *)
(***************************************************************************)
EXTENDS Integers, FiniteSets, Sequences, SequencesExt

CONSTANTS Commands,
          Frames,        \* number of frames of the video
          MaxScore,      \* bound: of a frame's change
          MaxKept        \* bound: of max_frames

VARIABLES
    dir,          \* frame files in the directory
    manifest,     \* it exists
    step,         \* of each command
    got,          \* the frames each has found
    selection,    \* what a command has just selected, from which frames
    overlapped    \* history: two commands were extracting at once

fVars == <<dir, manifest, step, got, selection, overlapped>>

All == 0 .. Frames - 1
NoSelection == [frames |-> {}]
Wanted == [strategy : {"temporal", "uniform"}, most : 1 .. MaxKept, threshold : 0 .. MaxScore]

Init ==
    /\ dir = {} /\ manifest = FALSE /\ overlapped = FALSE
    /\ step = [c \in Commands |-> "start"]
    /\ got = [c \in Commands |-> {}]
    /\ selection = NoSelection

Go(c, there) == step' = [step EXCEPT ![c] = there]

Extracting == {c \in Commands : step[c] \in {"clear", "ffmpeg", "list", "mark"}}

-----------------------------------------------------------------------------
(* _extract_frames.                                                        *)

Complete == manifest /\ dir # {}

Look(c) ==
    /\ step[c] = "start"
    /\ IF Complete
       THEN /\ got' = [got EXCEPT ![c] = dir]
            /\ Go(c, "select") /\ UNCHANGED overlapped
       ELSE /\ Go(c, "clear") /\ UNCHANGED got
            /\ overlapped' = (overlapped \/ Extracting # {})
    /\ UNCHANGED <<dir, manifest>>

\* Frames of an earlier command are deleted, one after the other.
Clear(c) ==
    /\ step[c] = "clear"
    /\ IF dir = {} THEN Go(c, "ffmpeg") /\ UNCHANGED dir
       ELSE \E f \in dir : dir' = dir \ {f} /\ UNCHANGED step
    /\ UNCHANGED <<manifest, got, overlapped>>

\* FFmpeg writes the frames in their order, or fails and leaves what it has written.
Extract(c) ==
    /\ step[c] = "ffmpeg"
    /\ \/ /\ All \ dir # {}
          /\ dir' = dir \cup {CHOOSE f \in All \ dir : \A g \in All \ dir : f <= g}
          /\ UNCHANGED step
       \/ /\ All \subseteq dir
          /\ Go(c, "list") /\ UNCHANGED dir
       \/ Go(c, "ended") /\ UNCHANGED dir
    /\ UNCHANGED <<manifest, got, overlapped>>

List(c) ==
    /\ step[c] = "list"
    /\ got' = [got EXCEPT ![c] = dir]
    /\ Go(c, "mark")
    /\ UNCHANGED <<dir, manifest, overlapped>>

Mark(c) ==
    /\ step[c] = "mark"
    /\ manifest' = TRUE
    /\ Go(c, IF got[c] = {} THEN "ended" ELSE "select")
    /\ UNCHANGED <<dir, got, overlapped>>

Kill(c) ==
    /\ step[c] \notin {"ended"}
    /\ Go(c, "ended")
    /\ UNCHANGED <<dir, manifest, got, overlapped>>

-----------------------------------------------------------------------------
(* The selection, from a sequence of changes: the frames are 0 .. last.    *)

LastOf(scores) == Len(scores) - 1
Score(scores, f) == scores[f + 1]

Boundaries(scores, most) == IF most = 1 THEN {0} ELSE {0, LastOf(scores)}

\* select_temporal_frames: the strongest changes, the earlier ones first.
Stronger(scores, f, g) ==
    \/ Score(scores, f) > Score(scores, g)
    \/ Score(scores, f) = Score(scores, g) /\ f < g

Temporal(scores, threshold, most) ==
    LET last   == LastOf(scores)
        chosen == {0, last} \cup {f \in 1 .. last : Score(scores, f) >= threshold}
        ends   == Boundaries(scores, most)
        ranked == SetToSortSeq(chosen \ ends, LAMBDA f, g : Stronger(scores, f, g))
        budget == most - Cardinality(ends)
    IN  IF Cardinality(chosen) <= most THEN chosen
        ELSE ends \cup {ranked[i] : i \in DOMAIN ranked \cap 1 .. budget}

\* Python's round, of a quotient: a half goes to the even number.
Round(a, b) ==
    LET low == a \div b  rest == a % b
    IN  CASE 2 * rest < b -> low
          [] 2 * rest > b -> low + 1
          [] OTHER        -> IF low % 2 = 0 THEN low ELSE low + 1

\* select_uniform_frames, as a sequence.
Uniform(count, most) ==
    LET k == IF count < most THEN count ELSE most
    IN  IF k = 1 THEN <<0>> ELSE [i \in 1 .. k |-> Round((i - 1) * (count - 1), k - 1)]

\* frame_change_scores, and the selection.  The frames found are numbered anew.
Select(c) ==
    /\ step[c] = "select"
    /\ \E w \in Wanted, scores \in [1 .. Cardinality(got[c]) -> 0 .. MaxScore] :
         /\ scores[1] = MaxScore
         /\ selection' = [frames |-> got[c], wanted |-> w, scores |-> scores,
                selected |-> IF w.strategy = "temporal"
                             THEN Temporal(scores, w.threshold, w.most)
                             ELSE ToSet(Uniform(Len(scores), w.most))]
    /\ Go(c, "ended")
    /\ UNCHANGED <<dir, manifest, got, overlapped>>

\* The next command for the video.
Again(c) ==
    /\ step[c] = "ended"
    /\ Go(c, "start")
    /\ got' = [got EXCEPT ![c] = {}]
    /\ UNCHANGED <<dir, manifest, overlapped>>

Next == \E c \in Commands :
    \/ /\ Look(c) \/ Clear(c) \/ Extract(c) \/ List(c) \/ Mark(c) \/ Kill(c) \/ Again(c)
       /\ selection' = NoSelection
    \/ Select(c)

Spec == Init /\ [][Next]_fVars

-----------------------------------------------------------------------------
TypeOK ==
    /\ dir \subseteq All /\ manifest \in BOOLEAN /\ overlapped \in BOOLEAN
    /\ \A c \in Commands :
         /\ step[c] \in {"start", "clear", "ffmpeg", "list", "mark", "select", "ended"}
         /\ got[c] \subseteq All

\* As long as no two commands extract at once, a selection is made from all frames of the
\* video, though commands before it were killed or failed at any step.
FramesAreComplete ==
    selection # NoSelection /\ ~overlapped => selection.frames = All

\* What is selected fits the budget, begins with the first frame and, if there is room,
\* ends with the last; no frame that changed more than a selected one between them is left
\* out, and no budget is left unused while a frame that changed enough waits.
SelectionIsFair ==
    selection # NoSelection =>
        LET scores == selection.scores  last == LastOf(scores)
            w      == selection.wanted  s    == selection.selected
        IN  /\ s \subseteq 0 .. last /\ Cardinality(s) <= w.most
            /\ 0 \in s /\ (w.most > 1 => last \in s)
            /\ w.strategy = "uniform" =>
                 Cardinality(s) = (IF Len(scores) < w.most THEN Len(scores) ELSE w.most)
            /\ w.strategy = "temporal" =>
                 \A f \in 1 .. last - 1 :
                   /\ f \in s => Score(scores, f) >= w.threshold
                   /\ f \notin s /\ Score(scores, f) >= w.threshold =>
                        /\ Cardinality(s) = w.most
                        /\ \A g \in s \ {0, last} : Score(scores, g) >= Score(scores, f)

=============================================================================
