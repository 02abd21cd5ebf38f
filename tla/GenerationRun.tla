---------------------------- MODULE GenerationRun ----------------------------
(***************************************************************************)
(* One generation in the runtime (machboost/server.py: RuntimeManager.chat *)
(* and generate; machboost/accelerator.py: generate_chat and               *)
(* generate_result; machboost/generation.py; machboost/ollama_compat.py:   *)
(* truncate_prompt).                                                       *)
(*                                                                         *)
(* The call may be cancelled at any moment, which is noticed only between  *)
(* steps and when a piece of text is passed on; the context window and the *)
(* limit on new tokens are shared between prompt and answer; and the times *)
(* of the result are put together from two clocks.  The pool is that of    *)
(* module ReplicaPool, the entry that of ModelResidency.                   *)
(***************************************************************************)
EXTENDS Integers, Sequences, SequencesExt

CONSTANTS MaxPrompt, MaxAnswer,  \* bounds on the tokens of a prompt and an answer
          Contexts,              \* values of num_ctx; 0: not given
          Limits,                \* values of num_predict, besides -1 for no limit
          Keeps,                 \* values of num_keep
          Window,                \* context length of the model
          MaxTime                \* bound on the clock

\* The accelerators, and whether the call is a chat: text models filter the reasoning
\* and the stop strings of a chat in the runtime, the others do so themselves.
Shapes == {"chat", "completion", "vision", "remote"}
Tokens == {"thought", "word", "half", "stop"}  \* "half": no text comes of it yet

VARIABLES
    shape, call,     \* the call: prompt, ctx, most, keep, cut, emits
    pc,
    prompt, allowed, \* tokens of the prompt in use, and max_tokens
    answer,          \* tokens generated
    passed,          \* those of them that were passed to a callback
    cancelled,       \* cancel_event is set
    late,            \* tokens generated after it was
    outcome, counted,
    clock, times,    \* when the steps happened
    result

gVars == <<shape, call, pc, prompt, allowed, answer, passed, cancelled, late, outcome, counted,
           clock, times, result>>

NoCall   == [prompt |-> 0, ctx |-> 0, most |-> 0, keep |-> 0, cut |-> TRUE, emits |-> FALSE]
NoTimes  == [start |-> 0, lease |-> 0, prompted |-> 0, first |-> -1]
NoResult == [text |-> <<>>, reason |-> "none", total |-> 0, wait |-> 0, load |-> 0,
             prompt |-> 0, eval |-> 0, ttft |-> -1]

Smaller(a, b) == IF a < b THEN a ELSE b
Larger(a, b)  == IF a > b THEN a ELSE b

Init ==
    /\ shape = "chat" /\ call = NoCall /\ pc = "begin"
    /\ prompt = 0 /\ allowed = 0 /\ answer = <<>> /\ passed = <<>>
    /\ cancelled = FALSE /\ late = 0 /\ outcome = "none" /\ counted = 0
    /\ clock = 0 /\ times = NoTimes /\ result = NoResult

Raise(kind) == pc' = "ended" /\ outcome' = kind

Waits == clock' \in {clock, Smaller(clock + 1, MaxTime)}

Begin ==
    /\ pc = "begin"
    /\ shape' \in Shapes
    /\ call' \in [prompt : 1 .. MaxPrompt, ctx : Contexts, most : Limits \cup {-1}, keep : Keeps,
                  cut : BOOLEAN, emits : BOOLEAN]
    /\ call'.ctx = 0 => call'.cut                   \* without a window nothing is cut
    /\ shape' # "completion" => call'.keep = 0      \* only truncate_prompt keeps
    /\ shape' \in {"vision", "remote"} => call'.ctx = 0
    /\ pc' = "load"
    /\ UNCHANGED <<prompt, allowed, answer, passed, cancelled, late, outcome, counted, clock,
                   times, result>>

\* cancel_event is set by another request (module RequestLifecycle).
Cancel ==
    /\ pc \notin {"begin", "ended"} /\ ~cancelled
    /\ cancelled' = TRUE
    /\ UNCHANGED <<shape, call, pc, prompt, allowed, answer, passed, late, outcome, counted,
                   clock, times, result>>

\* get_or_load, between two checks.
Load ==
    /\ pc = "load"
    /\ IF cancelled THEN Raise("cancelled") /\ UNCHANGED <<clock, times>>
       ELSE /\ Waits /\ times' = [times EXCEPT !.start = clock']
            /\ pc' = "queue" /\ UNCHANGED outcome
    /\ UNCHANGED <<shape, call, prompt, allowed, answer, passed, cancelled, late, counted, result>>

\* The slot of a replica, which may be refused; on_admitted may fail with the client.
Lease ==
    /\ pc = "queue"
    /\ Waits /\ times' = [times EXCEPT !.lease = clock']
    /\ \/ cancelled /\ Raise("cancelled")
       \/ ~cancelled /\ (Raise("refused") \/ Raise("error"))
       \/ ~cancelled /\ pc' = "limit" /\ UNCHANGED outcome
    /\ UNCHANGED <<shape, call, prompt, allowed, answer, passed, cancelled, late, counted, result>>

-----------------------------------------------------------------------------
(* The window: truncate_prompt, output_token_limit.                        *)

Budget == call.ctx - Larger(0, call.most)

\* The first "keep" tokens and the last ones, for a completion; a chat loses messages
\* (module Transcripts) and may end below the budget.
Truncated(n) ==
    IF shape = "chat" THEN n \in 1 .. Budget
    ELSE LET kept == Smaller(Smaller(call.keep, Budget), call.prompt)
         IN  n = kept + (Budget - kept)

\* Mutant: the prompt does not count in num_ctx.
LimitedAlone(n) ==
    IF call.most >= 0 THEN call.most
    ELSE IF call.ctx # 0 THEN call.ctx
    ELSE IF shape = "remote" THEN MaxAnswer ELSE Window - n

\* The new max_tokens.
Limited(n) ==
    IF call.most >= 0 THEN call.most
    ELSE IF call.ctx # 0 THEN call.ctx - n
    ELSE IF shape = "remote" THEN MaxAnswer ELSE Window - n

Limit ==
    /\ pc = "limit"
    /\ IF call.ctx = 0 THEN prompt' = call.prompt
       ELSE \/ call.prompt <= Budget /\ prompt' = call.prompt
            \/ call.prompt > Budget /\ prompt' \in 0 .. MaxPrompt
                                    /\ IF Budget >= 1 /\ call.cut THEN Truncated(prompt')
                                                                  ELSE prompt' = 0
    /\ allowed' = Limited(prompt')
    /\ IF prompt' = 0 \/ (call.most < 0 /\ allowed' < 1)
       THEN Raise("error")
       ELSE pc' = "prompt" /\ UNCHANGED outcome
    /\ UNCHANGED <<shape, call, answer, passed, cancelled, late, counted, clock, times, result>>

-----------------------------------------------------------------------------
(* The accelerator.                                                        *)

\* The prompt is evaluated without a look at cancel_event, but by the remote one.
Prompted ==
    /\ pc = "prompt"
    /\ Waits /\ times' = [times EXCEPT !.prompted = clock']
    /\ IF cancelled /\ shape = "remote" THEN Raise("cancelled")
       ELSE pc' = "tokens" /\ UNCHANGED outcome
    /\ UNCHANGED <<shape, call, prompt, allowed, answer, passed, cancelled, late, counted, result>>

Stopped(tokens) == Contains(tokens, "stop")
HeldBack == answer # <<>> /\ Last(answer) = "half"

\* Whether the text of the last token reaches a callback: ChatTextStreamer is silent from
\* the stop string on, and without emit_thinking nobody asks for the reasoning of a chat
\* with a text model.
Visible(tokens) ==
    /\ Last(tokens) # "half"
    /\ shape \in {"chat", "remote"} => ~Stopped(tokens)
    /\ shape = "chat" /\ Last(tokens) = "thought" => call.emits

\* timed_emit and timed_emit_thinking look at cancel_event first.  A stop string ends the
\* generation of the remote server only.
Token ==
    /\ pc = "tokens" /\ Len(answer) < Smaller(allowed, MaxAnswer)
    /\ shape = "remote" => ~Stopped(answer)
    /\ Waits
    /\ \E t \in Tokens :
         /\ t = "thought" => ~Contains(answer, "word")
         /\ t = "half" => ~HeldBack
         /\ shape = "vision" => t # "stop"
         /\ answer' = Append(answer, t)
         /\ IF Visible(answer')
            THEN IF cancelled THEN Raise("cancelled") /\ UNCHANGED <<passed, times>>
                 ELSE /\ passed' = Append(passed, t)
                      /\ times' = [times EXCEPT !.first = IF @ = -1 THEN clock' ELSE @]
                      /\ UNCHANGED <<pc, outcome>>
            ELSE UNCHANGED <<pc, passed, times, outcome>>
    /\ late' = IF cancelled THEN late + 1 ELSE late
    /\ UNCHANGED <<shape, call, prompt, allowed, cancelled, counted, result>>

\* truncate_at_stop_strings and clean_chat_response: the final text.
Final ==
    IF Stopped(answer)
    THEN LET n == CHOOSE i \in 1 .. Len(answer) : /\ answer[i] = "stop"
                                                 /\ \A j \in 1 .. i - 1 : answer[j] # "stop"
         IN  SubSeq(answer, 1, n - 1)
    ELSE answer

\* The tokens of a kind left out, as the reasoning is split off the text.
Without(tokens, kind) ==
    LET after[n \in 0 .. Len(tokens)] ==
            IF n = 0 THEN <<>>
            ELSE IF tokens[n] = kind THEN after[n - 1] ELSE Append(after[n - 1], tokens[n])
    IN  after[Len(tokens)]

\* generation_done_reason; the remote server gives its own.
Reason ==
    IF shape = "remote" THEN IF Stopped(answer) \/ Len(answer) < allowed THEN "stop" ELSE "length"
    ELSE LET most == IF call.ctx # 0 THEN allowed ELSE call.most
         IN  IF most >= 0 /\ Len(answer) >= most THEN "length" ELSE "stop"

-----------------------------------------------------------------------------
(* The result.                                                             *)

Wait == times.lease - times.start

\* eval_duration_s, where the backend tells none.
Evaluation(request, evaluated) == Larger(0, request - Wait - evaluated)

\* time_to_first_token_s: the first call back, or the backend's own measure.
FirstToken(told) ==
    IF times.first # -1 THEN times.first - times.start
    ELSE IF told /\ answer # <<>> THEN Wait + times.prompted - times.lease ELSE -1

\* "told": the backend measures its phases; otherwise the evaluation of the prompt
\* counts as generation.
Measured(told) ==
    LET request   == clock - times.start
        evaluated == IF told THEN times.prompted - times.lease ELSE 0
    IN  [text   |-> Without(Final, "thought"),
         reason |-> Reason, total |-> clock, load |-> times.start,
         wait   |-> Wait, prompt |-> evaluated,
         eval   |-> IF told /\ clock > times.prompted THEN clock - times.prompted
                    ELSE Evaluation(request, evaluated),
         ttft   |-> FirstToken(told)]

\* The end of the text.  It may not have the format that was asked for, or the accelerator
\* fails; then cancel_event is looked at.
Finish ==
    /\ pc = "tokens"
    /\ \/ Raise("error") /\ UNCHANGED <<counted, result>>
       \/ cancelled /\ Raise("cancelled") /\ UNCHANGED <<counted, result>>
       \/ /\ ~cancelled
          /\ counted' = counted + 1
          /\ \E told \in BOOLEAN : result' = Measured(told)
          /\ Raise("answer")
    /\ UNCHANGED <<shape, call, prompt, allowed, answer, passed, cancelled, late, clock, times>>

Done == pc = "ended" /\ UNCHANGED gVars

Next ==
    \/ Begin \/ Cancel \/ Load \/ Lease \/ Limit \/ Prompted \/ Token \/ Finish \/ Done

Spec == Init /\ [][Next]_gVars

-----------------------------------------------------------------------------
TypeOK ==
    /\ shape \in Shapes /\ prompt \in 0 .. MaxPrompt
    /\ pc \in {"begin", "load", "queue", "limit", "prompt", "tokens", "ended"}
    /\ outcome \in {"none", "answer", "cancelled", "refused", "error"}
    /\ clock \in 0 .. MaxTime /\ counted \in 0 .. 1

\* Prompt and answer fit in num_ctx together, and in the window of the model if only that
\* limits the answer; a prompt that is truncated keeps room for what was asked.
ContextFits ==
    pc = "tokens" =>
        /\ call.ctx # 0 => prompt + Smaller(allowed, MaxAnswer) <= call.ctx
        /\ call.ctx = 0 /\ call.most < 0 /\ shape # "remote" => prompt + allowed <= Window
        /\ Len(answer) <= allowed

\* A cancelled call goes on for one visible token at most (and one that is held back),
\* and it never gives an answer, except that nothing stops what is generated in a chat
\* after a stop string, or its reasoning if nobody listens to it.
CancelIsNoticed ==
    /\ outcome # "none" => (outcome = "answer") = (counted = 1)
    /\ late > 2 => \/ shape = "chat" /\ Stopped(answer)
                   \/ shape = "chat" /\ ~call.emits /\ Contains(answer, "thought")

\* The callbacks get the final text in order and not a token beyond it, save that a
\* completion passes on what follows a stop string.
StreamFollowsAnswer ==
    outcome = "answer" =>
        LET shown == Without(passed, "thought")
            whole == Without(result.text, "half")
        IN  /\ IsPrefix(whole, shown)
            /\ shown # whole => shape = "completion" /\ Stopped(answer)

\* An answer that did not end by itself is reported as cut, unless only the model's own
\* window cut it.
ReasonIsTrue ==
    outcome = "answer" =>
        /\ result.reason = "length" => Len(answer) >= allowed
        /\ result.reason = "stop" /\ ~Stopped(answer) /\ Len(answer) = allowed
             => call.most < 0 /\ call.ctx = 0

\* The parts of the time do not overlap: they add up to no more than the request, and the
\* first token comes after the wait and before the end.
TimesAddUp ==
    outcome = "answer" =>
        /\ result.wait + result.prompt + result.eval <= result.total - result.load
        /\ result.ttft # -1 => /\ result.wait <= result.ttft
                               /\ result.ttft <= result.total - result.load

=============================================================================
