------------------------------ MODULE ChatLoop ------------------------------
(***************************************************************************)
(* The interactive chat (machboost/cli.py, run_resident_chat and           *)
(* run_native_chat; machboost/coding.py, CodingWorkspace;                  *)
(* machboost/client.py, MachBoostClient.chat).                             *)
(*                                                                         *)
(* The loop keeps the history of the talk and sends all of it with every   *)
(* request.  A reply may fail or be stopped in the middle; with the coding *)
(* tools one thing the user says may take several requests, between which  *)
(* the tools change files.                                                 *)
(*                                                                         *)
(* kind is "resident" (through the server), "coding" (the same with tools) *)
(* or "native" (the model in this process).  A message holds who says it,  *)
(* the number of its tool calls, the call it answers and its images.       *)
(***************************************************************************)
EXTENDS Integers, Sequences, FiniteSets

CONSTANTS Images,
          Contents,        \* contents of the workspace's file
          MaxMessages,     \* bound: messages before the user says something more
          MaxCalls,        \* bound: tool calls of a reply
          MaxToolRounds,   \* max_tool_rounds
          MaxChanges       \* bound: changes of the file

VARIABLES
    kind,
    turns,       \* the history
    at,          \* "reading" (a line), "asking", "running" (tools), "left"
    turnStart,   \* the messages there were before the user spoke
    before,      \* history: what they were
    round, retries,
    todo,        \* calls that are to be executed
    active,      \* active_images
    permission,  \* permission_mode
    file,        \* the file of the workspace; Absent if there is none
    original,    \* _originals of the file; NotKept if there is no entry
    atStart,     \* history: the file when the session began
    others,      \* history: somebody else has changed it
    failed,      \* history: the last thing said was not answered
    changes

talk  == <<turns, at, turnStart, before, round, retries, todo, failed>>
files == <<file, original, others, changes>>
lVars == <<kind, talk, active, permission, files, atStart>>

Absent  == "absent"
NotKept == "unkept"
Modes   == {"manual", "accept-edits", "plan", "bypass"}

Message(role) == [role |-> role, calls |-> 0, answers |-> 0, images |-> {}]

Init ==
    /\ kind \in {"resident", "coding", "native"}
    /\ turns = <<>> /\ turnStart = 0 /\ before = <<>> /\ at = "reading"
    /\ round = 0 /\ retries = 0 /\ todo = <<>> /\ failed = FALSE /\ active = {}
    /\ permission = "manual"
    /\ file \in Contents \cup {Absent} /\ atStart = file
    /\ original = NotKept /\ others = FALSE /\ changes = 0

-----------------------------------------------------------------------------
(* A line of the user.                                                     *)

\* In the native chat the images are put into the message of the history itself.
SaidWithImages == [Message("user") EXCEPT !.images = IF kind = "native" THEN active ELSE {}]

Say ==
    /\ at = "reading" /\ Len(turns) < MaxMessages
    /\ turnStart' = Len(turns) /\ before' = turns
    /\ turns' = Append(turns, SaidWithImages)
    /\ at' = "asking" /\ round' = 0 /\ retries' = 0 /\ failed' = FALSE
    /\ UNCHANGED <<kind, todo, active, permission, files, atStart>>

Clear ==
    /\ at = "reading"
    /\ turns' = <<>> /\ turnStart' = 0 /\ before' = <<>> /\ failed' = FALSE
    /\ UNCHANGED <<kind, at, round, retries, todo, active, permission, files, atStart>>

Attach ==
    /\ at = "reading"
    /\ \E i \in Images \ active : active' = active \cup {i}
    /\ UNCHANGED <<kind, talk, permission, files, atStart>>

ClearImages ==
    /\ at = "reading"
    /\ active' = {}
    /\ UNCHANGED <<kind, talk, permission, files, atStart>>

SetMode ==
    /\ at = "reading" /\ kind = "coding"
    /\ permission' \in Modes
    /\ UNCHANGED <<kind, talk, active, files, atStart>>

Leave ==
    \* /bye, or Ctrl-C in a tool, or in a reply of the native chat
    /\ at \in {"reading", "running"} \/ (at = "asking" /\ kind = "native")
    /\ at' = "left"
    /\ UNCHANGED <<kind, turns, turnStart, before, round, retries, todo, failed, active,
                   permission, files, atStart>>

-----------------------------------------------------------------------------
(* The reply.                                                              *)

\* The messages of a request: the resident chat adds its images to the last message of the
\* user, in a copy (MachBoostClient.chat).
LastUser == CHOOSE i \in DOMAIN turns :
    turns[i].role = "user" /\ \A j \in DOMAIN turns : turns[j].role = "user" => j <= i
Sent == IF kind = "native" THEN turns ELSE [turns EXCEPT ![LastUser].images = active]

Back(history) ==
    /\ turns' = history /\ at' = "reading"
    /\ turnStart' = 0 /\ before' = <<>> /\ round' = 0 /\ retries' = 0

\* Mutant: only what the user said last is taken back.
Popped == SubSeq(turns, 1, Len(turns) - 1)

Undone == SubSeq(turns, 1, turnStart)

\* Ctrl-C, or an error of the API; the native chat ends with an error instead.
Fail ==
    /\ at = "asking"
    /\ failed' = TRUE
    /\ IF kind = "native"
       THEN turns' = SubSeq(turns, 1, Len(turns) - 1) /\ at' = "left"
       ELSE turns' = Undone /\ at' = "reading"
    /\ round' = 0 /\ retries' = 0 /\ UNCHANGED <<turnStart, before>>
    /\ UNCHANGED <<kind, todo, active, permission, files, atStart>>

\* A reply without text is not kept by the resident chat.
Answer(text) ==
    /\ at = "asking" /\ kind # "coding"
    /\ Back(IF text \/ kind = "native" THEN Append(turns, Message("assistant")) ELSE turns)
    /\ failed' = FALSE
    /\ UNCHANGED <<kind, todo, active, permission, files, atStart>>

\* Without tool calls a reply ends the turn; an empty one after tool results is asked for
\* again three times.
AgentAnswer(text) ==
    /\ at = "asking" /\ kind = "coding"
    /\ IF ~text /\ round > 0 /\ retries < 3
       THEN /\ turns' = Append(turns, Message("user")) /\ retries' = retries + 1
            /\ UNCHANGED <<at, turnStart, before, round>>
       ELSE Back(IF text \/ round > 0 THEN Append(turns, Message("assistant")) ELSE turns)
    /\ failed' = FALSE
    /\ UNCHANGED <<kind, todo, active, permission, files, atStart>>

\* normalize_agent_tool_calls names the calls after their round.
AgentCalls(n) ==
    /\ at = "asking" /\ kind = "coding"
    /\ turns' = Append(turns, [Message("assistant") EXCEPT !.calls = n])
    /\ todo' = [i \in 1 .. n |-> i]
    /\ at' = "running"
    /\ UNCHANGED <<kind, turnStart, before, round, retries, failed, active, permission,
                   files, atStart>>

-----------------------------------------------------------------------------
(* CodingWorkspace.execute: whatever happens, the call is answered.        *)

\* _approval, of a tool that changes a file.
Allowed(yes) == CASE permission \in {"bypass", "accept-edits"} -> TRUE
                  [] permission = "plan" -> FALSE
                  [] OTHER -> yes

\* _originals.setdefault.
Keep == IF original = NotKept THEN file ELSE original

\* /changes (session_diff): of a file with an entry what it was and what it is.
SessionDiff == IF original = NotKept THEN {} ELSE {<<original, file>>}

Respond ==
    /\ turns' = Append(turns, [Message("tool") EXCEPT !.answers = Head(todo)])
    /\ todo' = Tail(todo)
    /\ IF todo' # <<>> THEN UNCHANGED <<at, round>>
       ELSE /\ round' = round + 1
            /\ at' = IF round + 1 >= MaxToolRounds THEN "reading" ELSE "asking"
    /\ UNCHANGED <<kind, turnStart, before, retries, failed, active, permission, atStart>>

\* A tool that reads, one that is declined, or one that raises.
ReadTool == at = "running" /\ Respond /\ UNCHANGED files

Edit(new) ==
    /\ at = "running" /\ changes < MaxChanges
    /\ \E yes \in BOOLEAN : Allowed(yes)
    /\ file' = new
    /\ original' = Keep
    /\ changes' = changes + 1
    /\ Respond /\ UNCHANGED others

ReplaceInFile == file # Absent /\ \E new \in Contents : Edit(new)
CreateFile    == file = Absent /\ \E new \in Contents : Edit(new)
DeleteFile    == file # Absent /\ Edit(Absent)

\* run_command, an editor, another program.
Elsewhere ==
    /\ changes < MaxChanges /\ at # "left"
    /\ file' \in (Contents \cup {Absent}) \ {file}
    /\ others' = TRUE /\ changes' = changes + 1
    /\ UNCHANGED <<kind, talk, active, permission, original, atStart>>

Done == at = "left" /\ UNCHANGED lVars

Next ==
    \/ Say \/ Clear \/ Attach \/ ClearImages \/ SetMode \/ Leave \/ Fail
    \/ \E text \in BOOLEAN : Answer(text) \/ AgentAnswer(text)
    \/ \E n \in 1 .. MaxCalls : AgentCalls(n)
    \/ ReadTool \/ ReplaceInFile \/ CreateFile \/ DeleteFile \/ Elsewhere \/ Done

Spec == Init /\ [][Next]_lVars

-----------------------------------------------------------------------------
TypeOK ==
    /\ kind \in {"resident", "coding", "native"}
    /\ at \in {"reading", "asking", "running", "left"}
    /\ active \subseteq Images /\ permission \in Modes
    /\ file \in Contents \cup {Absent} /\ original \in Contents \cup {Absent, NotKept}
    /\ retries \in 0 .. 3 /\ round \in 0 .. MaxToolRounds

\* The number of tool results that follow a message directly.
Results(i) == CHOOSE n \in 0 .. Len(turns) - i :
    /\ \A j \in i + 1 .. i + n : turns[j].role = "tool"
    /\ i + n = Len(turns) \/ turns[i + n + 1].role # "tool"

\* A model is asked with a history it can follow: it ends with what the user said or with
\* tool results, every tool call is followed by its result, in the order of the calls, and
\* there is no result without a call, whatever was stopped, denied or took too many rounds
\* before.
HistoryIsWhole ==
    at = "asking" =>
        /\ turns[Len(turns)].role \in {"user", "tool"}
        /\ \A i \in DOMAIN turns :
             /\ turns[i].role # "tool" =>
                  /\ Results(i) = turns[i].calls
                  /\ \A k \in 1 .. Results(i) : turns[i + k].answers = k
             /\ turns[i].role = "tool" => i > 1

\* What was stopped or failed leaves nothing in the history, though it may have gone
\* through several requests and tools; only the files the tools changed stay changed.
FailureLeavesNoTurn ==
    failed /\ at = "reading" => turns = before

\* /changes compares with what the file was when the session began, unless somebody else
\* has changed it; a file it says nothing of was not changed by the tools.
ChangesAreShown ==
    ~others => IF file = atStart THEN SessionDiff \subseteq {<<atStart, file>>}
                                 ELSE SessionDiff = {<<atStart, file>>}

\* The resident chat sends the images that are attached, and sends them once.
ImagesAreSent ==
    at = "asking" /\ kind # "native" =>
        /\ UNION {Sent[i].images : i \in DOMAIN Sent} = active
        /\ Cardinality({i \in DOMAIN Sent : Sent[i].images # {}}) <= 1

=============================================================================
