-------------------------- MODULE VerifiedDecoding --------------------------
(***************************************************************************)
(* Verified speculative decoding (machboost/core.py, class                 *)
(* BoostedService): a drafter guesses several next tokens, the model       *)
(* verifies them in one call, and the accepted ones are put out together   *)
(* with the model's own next token.                                        *)
(*                                                                         *)
(* The drafter may guess anything within its limits.  The model is any     *)
(* function from prefixes to next tokens; its verification accepts some    *)
(* of the guesses it agrees with (a margin may make it accept fewer) and   *)
(* may tell its own token after those (residual or bonus).                 *)
(***************************************************************************)
EXTENDS Integers, Sequences

CONSTANTS Tokens,     \* the vocabulary
          End,        \* next_token returns None
          NoToken,    \* no residual or bonus
          MaxTokens,  \* max_tokens
          MaxDraft,   \* max_draft_tokens of the drafter
          Limit,      \* candidate_limit
          Probes      \* reentry_probe_tokens

ASSUME DecodingAssumption ==
    /\ MaxTokens \in Nat
    /\ MaxDraft \in Nat \ {0}
    /\ Limit \in Nat \ {0}
    /\ Probes \in Nat
    /\ End \notin Tokens
    /\ NoToken \notin Tokens

VARIABLES predict,    \* the model
          stop,       \* stop_set
          generated,
          stopped,
          tries,      \* candidates of this round not verified yet
          fallback,   \* fallback_residual
          probes,     \* probe_remaining
          pc

vars == <<predict, stop, generated, stopped, tries, fallback, probes, pc>>

Decoding == INSTANCE GreedyDecoding WITH output <- generated,
                                         finished <- pc = "done"

Prefixes  == Decoding!Prefixes
Remaining == MaxTokens - Len(generated)
AtMost(m, n) == IF m <= n THEN m ELSE n

Init ==
    /\ predict \in Decoding!Predictors
    /\ stop \in SUBSET Tokens
    /\ generated = <<>>
    /\ stopped = FALSE
    /\ tries = 0
    /\ fallback = NoToken
    /\ probes \in {0, AtMost(Probes, MaxTokens)}    \* without, with a corpus
    /\ pc = "loop"

-----------------------------------------------------------------------------
(* What the drafter and the model may answer.                              *)

\* CorpusDrafter.candidates, limited to the tokens still wanted.
Candidates == {c \in Prefixes : Len(c) \in 1 .. AtMost(MaxDraft, Remaining)}

\* The model agrees with the first a tokens of c.
Agrees(c, a) ==
    \A i \in 1 .. a : c[i] = predict[generated \o SubSeq(c, 1, i - 1)]

\* Its own token after s, told or not.  (predict does not reach beyond
\* MaxTokens, but a verification does.)
Told(s) == {NoToken} \cup
           IF Len(s) < MaxTokens THEN {predict[s]} \ {End} ELSE Tokens

\* Mutant: the stop token itself is kept.
KeepsStop(c, a, n) ==
    /\ \A i \in 1 .. n - 1 : c[i] \notin stop
    /\ n < a => n > 0 /\ c[n] \in stop

\* _without_stop_tokens keeps the first n of the first a tokens of c.
CutsAt(c, a, n) ==
    /\ \A i \in 1 .. n : c[i] \notin stop
    /\ n < a => c[n + 1] \in stop

-----------------------------------------------------------------------------

Commit(s) ==
    /\ generated' = s
    /\ probes' = AtMost(Probes, MaxTokens - Len(s))
    /\ pc' = "loop"

\* The drafter proposes.
Draft ==
    /\ pc = "loop"
    /\ Remaining > 0
    /\ ~stopped
    /\ Candidates # {}
    /\ tries' \in 1 .. Limit
    /\ fallback' = NoToken
    /\ pc' = "verify"
    /\ UNCHANGED <<predict, stop, generated, stopped, probes>>

\* Mutant: there is always room for the continuation.
RoomAssumed(s) == TRUE

\* The model's token after the accepted ones still fits.
Room(s) == Len(s) < MaxTokens

\* The model accepts a > 0 tokens of c, of which n come before a stop token,
\* and tells r.
Accepts(c, a, n, r) ==
    LET s == generated \o SubSeq(c, 1, n)
        continues == n = a /\ r # NoToken /\ Room(s)
    IN  /\ pc = "verify"
        /\ tries > 0
        /\ Agrees(c, a)
        /\ CutsAt(c, a, n)
        /\ stopped' = (n < a \/ (continues /\ r \in stop))
        /\ Commit(IF continues /\ r \notin stop THEN Append(s, r) ELSE s)
        /\ tries' = 0
        /\ UNCHANGED <<predict, stop, fallback>>

\* The model accepts nothing of a candidate.
Rejects(r) ==
    /\ pc = "verify"
    /\ tries > 0
    /\ tries' = tries - 1
    /\ fallback' = IF fallback = NoToken THEN r ELSE fallback
    /\ UNCHANGED <<predict, stop, generated, stopped, probes, pc>>

Verify ==
    \/ \E c \in Candidates : \E a \in 1 .. Len(c) : \E n \in 0 .. a :
          \E r \in Told(generated \o SubSeq(c, 1, a)) : Accepts(c, a, n, r)
    \/ \E r \in Told(generated) : Rejects(r)

\* Mutant: a stop token is put out.
UseAnyResidual ==
    /\ pc = "verify"
    /\ tries = 0
    /\ fallback # NoToken
    /\ Commit(Append(generated, fallback))
    /\ UNCHANGED <<predict, stop, stopped, tries, fallback>>

\* All candidates were rejected: the residual is the next token.
UseResidual ==
    /\ pc = "verify"
    /\ tries = 0
    /\ fallback # NoToken
    /\ \/ /\ fallback \in stop
          /\ pc' = "done"
          /\ UNCHANGED <<generated, probes>>
       \/ /\ fallback \notin stop
          /\ Commit(Append(generated, fallback))
    /\ UNCHANGED <<predict, stop, stopped, tries, fallback>>

\* Mutant: when nothing was accepted the drafter is asked again instead of
\* the model.
DraftAgain ==
    /\ pc = "verify"
    /\ tries = 0
    /\ fallback = NoToken
    /\ pc' = "loop"
    /\ UNCHANGED <<predict, stop, generated, stopped, tries, fallback, probes>>

\* next_token, as a probe, without a draft, or after a draft without a
\* residual.
Step ==
    /\ \/ pc = "loop" /\ Remaining > 0 /\ ~stopped
       \/ pc = "verify" /\ tries = 0 /\ fallback = NoToken
    /\ \/ /\ predict[generated] \in stop \cup {End}
          /\ pc' = "done"
          /\ generated' = generated
       \/ /\ predict[generated] \notin stop \cup {End}
          /\ generated' = Append(generated, predict[generated])
          /\ pc' = "loop"
    /\ probes' = IF pc = "loop" /\ probes > 0 THEN probes - 1 ELSE probes
    /\ UNCHANGED <<predict, stop, stopped, tries, fallback>>

\* continue_tokens of the service: the model goes on by itself to the end.
\* Not while probes remain.
ContinueTail ==
    /\ pc = "loop"
    /\ Remaining > 0
    /\ ~stopped
    /\ probes = 0
    /\ \E s \in Prefixes : /\ Len(s) >= Len(generated)
                           /\ SubSeq(s, 1, Len(generated)) = generated
                           /\ Decoding!Greedy(s)
                           /\ Decoding!Complete(s)
                           /\ generated' = s
    /\ pc' = "done"
    /\ UNCHANGED <<predict, stop, stopped, tries, fallback, probes>>

Finish ==
    /\ pc = "loop"
    /\ Remaining = 0 \/ stopped
    /\ pc' = "done"
    /\ UNCHANGED <<predict, stop, generated, stopped, tries, fallback, probes>>

Next == Draft \/ Verify \/ UseResidual \/ Step \/ ContinueTail \/ Finish

Spec == Init /\ [][Next]_vars

\* The loop runs in one thread and each call of the model returns.
FairSpec == Spec /\ WF_vars(Next)

-----------------------------------------------------------------------------
(* Properties.                                                             *)

TypeOK ==
    /\ predict \in Decoding!Predictors
    /\ stop \subseteq Tokens
    /\ generated \in Prefixes
    /\ stopped \in BOOLEAN
    /\ tries \in 0 .. Limit
    /\ fallback \in Tokens \cup {NoToken}
    /\ probes \in 0 .. Probes
    /\ pc \in {"loop", "verify", "done"}

\* Whatever the drafter guesses, the output is what greedy decoding puts out:
\* a greedy prefix at any time, and complete at the end.  This relates
\* acceptance, residual, bonus, stop tokens and the token limit.
EmitsGreedyOutput ==
    /\ Decoding!Greedy(generated)
    /\ pc = "done" \/ stopped => Decoding!Complete(generated)

\* Verified decoding implements greedy decoding.
ImplementsGreedy == Decoding!Spec

\* Wrong guesses and missing residuals do not keep generate from returning.
Terminates == <>(pc = "done")

=============================================================================
