--------------------------- MODULE GreedyDecoding ---------------------------
(***************************************************************************)
(* Greedy decoding: what a model answers to a prompt when its most likely  *)
(* next token is appended until it ends the text, until that token is a    *)
(* stop token, or until MaxTokens tokens are out.                          *)
(***************************************************************************)
EXTENDS Integers, Sequences

CONSTANTS Tokens,     \* the vocabulary
          End,        \* next_token returns None
          MaxTokens   \* max_tokens

\* The prompt is fixed, so a prefix is what was generated after it.
TokenLists(n) == UNION {[1 .. i -> Tokens] : i \in 0 .. n}
Prefixes     == TokenLists(MaxTokens)
Predictors   == [TokenLists(MaxTokens - 1) -> Tokens \cup {End}]

VARIABLES predict,    \* the model: next_token of each prefix
          stop,       \* stop_tokens
          output,     \* tokens put out so far
          finished

\* Each token of s is the model's choice after those before it, and none
\* is a stop token.
Greedy(s) ==
    \A i \in 1 .. Len(s) : /\ s[i] = predict[SubSeq(s, 1, i - 1)]
                           /\ s[i] \notin stop

\* Nothing comes after s.
Complete(s) == Len(s) < MaxTokens => predict[s] \in stop \cup {End}

vars == <<predict, stop, output, finished>>

Init == /\ predict \in Predictors
        /\ stop \in SUBSET Tokens
        /\ output = <<>>
        /\ finished = FALSE

\* The next tokens come out, one or several at a time.
Emit == /\ ~finished
        /\ \E s \in Prefixes : /\ Len(s) >= Len(output)
                               /\ SubSeq(s, 1, Len(output)) = output
                               /\ Greedy(s)
                               /\ output' = s
        /\ UNCHANGED <<predict, stop>>
        /\ finished' \in BOOLEAN
        /\ finished' => Complete(output')

Next == Emit

Spec == Init /\ [][Next]_vars

=============================================================================
