---------------------------- MODULE PromptCache ----------------------------
(***************************************************************************)
(* The key/value caches of the MLX adapter (machboost/adapters/mlx.py,     *)
(* class MLXCausalLMService) under the generations that machboost/         *)
(* accelerator.py and machboost/core.py run on it.                         *)
(*                                                                         *)
(* A forward call extends the tensors of the cache in place by all the     *)
(* tokens it is given, before it is known which of them are accepted.  The *)
(* tensors stand here for the sequence they were computed from, and a row  *)
(* of logits for the sequence whose next token it tells.                   *)
(*                                                                         *)
(* The other cache, of prompts, is a store of mlx-lm (external): it gives  *)
(* out a copy of an entry cut down to what the new prompt shares with it.  *)
(* Its entries are those of one namespace: the others are never found.     *)
(***************************************************************************)
EXTENDS Integers, Sequences, FiniteSets, SequencesExt

CONSTANTS Tokens,
          MaxLength,    \* bound: tokens of a prompt and its answer
          MaxDraft,     \* bound: tokens of a draft
          MaxEntries,   \* native_prompt_cache_size
          MaxRuns       \* bound: generations

VARIABLES cache,      \* there, held (the tensors), prefix (_cache_prefix), row (_cache_logits)
          supported,  \* _cache_supported
          text,       \* the prompt and what was generated after it
          pc,         \* "idle", "stepping" (BoostedService), "prefill", "native"
          answer,     \* the last answer: asked, the row it was told from, and torn then
          torn,       \* a forward call has raised since the last reset_cache
          store,      \* prompt cache: key, held, and whether cut off, oldest first
          native,     \* the native generation: key, held and cut of its cache
          runs

pvars == <<cache, supported, text, pc, answer, torn, store, native, runs>>

Texts == BoundedSeq(Tokens, MaxLength) \ {<<>>}
NoCache == [there |-> FALSE, held |-> <<>>, prefix |-> <<>>, row |-> <<>>]
NoRun == [key |-> <<>>, held |-> <<>>, cut |-> FALSE]
Told(asked, row, broken) == [asked |-> asked, row |-> row, torn |-> broken]
From(s, n) == SubSeq(s, n + 1, Len(s))

Init ==
    /\ cache = NoCache /\ supported \in BOOLEAN
    /\ text = <<>> /\ pc = "idle" /\ answer = Told(<<>>, <<>>, FALSE) /\ torn = FALSE
    /\ store = <<>> /\ native = NoRun /\ runs = 0

-----------------------------------------------------------------------------
(* Generations.                                                            *)

\* generate_result resets the cache before it generates; a caller of machboost()
\* wraps the service itself and resets nothing.
Reset == cache' = NoCache /\ torn' = FALSE

Start ==
    /\ pc = "idle" /\ runs < MaxRuns
    /\ text' \in Texts /\ pc' = "stepping" /\ runs' = runs + 1
    /\ Reset \/ UNCHANGED <<cache, torn>>
    /\ UNCHANGED <<supported, answer, store, native>>

Ends == pc' = "idle"

\* BoostedService.generate goes on with what was accepted and the token told, which
\* is left out only at a stop token or the limit.
GoesOn(accepted, told) ==
    /\ text' = text \o accepted \o told
    /\ Len(text') <= MaxLength
    /\ IF accepted # <<>> /\ told = <<>> THEN Ends ELSE pc' \in {"stepping", "idle"}

\* max_tokens, a stop token or a callback that raises.
Finish ==
    /\ pc = "stepping" /\ Ends
    /\ UNCHANGED <<cache, supported, text, answer, torn, store, native, runs>>

-----------------------------------------------------------------------------
(* One row of logits (_cached_next_logits).                                *)

Kept(t) == cache.there /\ cache.prefix = t
Extends(t) == cache.there /\ IsStrictPrefix(cache.prefix, t)

\* The cache that has the row for t, when no call raises.
Advanced(t) ==
    LET delta == From(t, Len(cache.prefix))
        held  == IF Extends(t) THEN cache.held \o delta ELSE t
    IN  IF Kept(t) THEN cache
        ELSE [there |-> TRUE, held |-> held, prefix |-> t, row |-> held]

\* With the cache, or without it, by a forward call over all of t.
Row(t) == IF supported THEN Advanced(t).row ELSE t
Cached(t) == IF supported THEN Advanced(t) ELSE cache

NextToken ==
    /\ pc = "stepping"
    /\ cache' = Cached(text)
    /\ answer' = Told(text, Row(text), torn)
    /\ \E t \in Tokens : GoesOn(<<>>, <<t>>)
    /\ UNCHANGED <<supported, torn, store, native, runs>>

\* An AttributeError, ImportError or TypeError from a new cache: never again.
CacheUnsupported ==
    /\ pc = "stepping" /\ supported /\ ~Kept(text) /\ ~Extends(text)
    /\ supported' = FALSE /\ Reset
    /\ UNCHANGED <<text, pc, answer, store, native, runs>>

-----------------------------------------------------------------------------
(* Verification of a draft.                                                *)

Drafts == {d \in BoundedSeq(Tokens, MaxDraft) : d # <<>> /\ Len(text) + Len(d) <= MaxLength}

\* Only the last token of the prefix is not yet in the cache: one forward call takes it
\* and the draft (_verification_cached_extension).
OneBehind == cache.there /\ Len(text) = Len(cache.prefix) + 1 /\ Front(text) = cache.prefix

\* Mutant: the rejected tokens stay.
Untrimmed(held, n) == held

Trimmed(held, n) == SubSeq(held, 1, Len(held) - n)

\* What becomes of the cache after n tokens of d were accepted and the tensors hold
\* `held`: trimmed if it can be, or computed anew.
Committed(held, d, n) ==
    LET t     == text \o SubSeq(d, 1, n)
        rest  == Len(d) - n
        clean == [there |-> TRUE, held |-> t, prefix |-> t, row |-> t]
    IN  {[there |-> TRUE, held |-> Trimmed(held, rest), prefix |-> t,
          row |-> SubSeq(held, 1, Len(held) - rest)]}
        \cup (IF rest > 0 THEN {clean} ELSE {})

VerifyExtension ==
    /\ pc = "stepping" /\ OneBehind
    /\ \E d \in Drafts, n \in 0 .. MaxDraft :
         LET held == cache.held \o <<Last(text)>> \o d
         IN  /\ n <= Len(d)
             /\ cache' \in Committed(held, d, n)
             /\ answer' = Told(text \o SubSeq(d, 1, n),
                               SubSeq(held, 1, Len(cache.held) + 1 + n), torn)
             /\ \E told \in {<<>>} \cup {<<t>> : t \in Tokens} :
                    GoesOn(SubSeq(d, 1, n), told)
    /\ UNCHANGED <<supported, torn, store, native, runs>>

\* The first token of the draft is compared with the row that is kept; only if it is
\* right are the tensors extended (_verification_cached_mutating).
VerifyCached ==
    /\ pc = "stepping" /\ ~OneBehind /\ supported
    /\ LET now == Advanced(text)
       IN  \/ /\ cache' = now
              /\ answer' = Told(text, now.row, torn)
              /\ (\E t \in Tokens : GoesOn(<<>>, <<t>>)) \/ GoesOn(<<>>, <<>>)
           \/ \E d \in Drafts, n \in 1 .. MaxDraft :
                LET held == now.held \o d
                IN  /\ n <= Len(d)
                    /\ cache' \in Committed(held, d, n)
                    /\ answer' = Told(text \o SubSeq(d, 1, n),
                                      SubSeq(held, 1, Len(now.held) + n), torn)
                    /\ \E told \in {<<>>} \cup {<<t>> : t \in Tokens} :
                           GoesOn(SubSeq(d, 1, n), told)
    /\ UNCHANGED <<supported, torn, store, native, runs>>

VerifyStateless ==
    /\ pc = "stepping" /\ ~OneBehind /\ ~supported
    /\ \E d \in Drafts, n \in 0 .. MaxDraft, told \in {<<>>} \cup {<<t>> : t \in Tokens} :
         /\ n <= Len(d)
         /\ answer' = Told(text \o SubSeq(d, 1, n), text \o SubSeq(d, 1, n), FALSE)
         /\ GoesOn(SubSeq(d, 1, n), told)
    /\ UNCHANGED <<cache, supported, torn, store, native, runs>>

\* continue_tokens hands the cache to mlx-lm, which generates the rest on it, and
\* drops it however that ends.
ContinueTokens ==
    /\ pc = "stepping" /\ OneBehind
    /\ answer' = Told(text, Append(cache.held, Last(text)), torn)
    /\ Reset /\ Ends
    /\ UNCHANGED <<supported, text, store, native, runs>>

\* A forward call that raises may have extended the tensors or not; what the
\* service says of them is as before.  The generation is over.
ForwardRaises ==
    /\ pc = "stepping" /\ (OneBehind \/ supported)
    /\ \E d \in Drafts \cup (IF Kept(text) THEN {} ELSE {<<>>}) :
         LET kept == IF Kept(text) \/ Extends(text) THEN cache ELSE [NoCache EXCEPT !.there = TRUE]
             more == From(text, Len(kept.prefix)) \o d
         IN  \E n \in 0 .. Len(more) :
                 cache' = [kept EXCEPT !.held = @ \o SubSeq(more, 1, n)]
    /\ torn' = TRUE /\ Ends
    /\ UNCHANGED <<supported, text, answer, store, native, runs>>

-----------------------------------------------------------------------------
(* Generation by mlx-lm, with the prompt cache.                            *)

Common(s, t) == LongestCommonPrefix({s, t})
LeastOf(m, n) == IF m < n THEN m ELSE n

\* fetch_nearest_cache: of an entry, what a trim by the rest of its key leaves.
Fetched(kept, prompt) ==
    {NoRun} \cup
    UNION {{[key |-> SubSeq(kept[i].key, 1, n), cut |-> kept[i].cut,
             held |-> Trimmed(kept[i].held,
                              LeastOf(Len(kept[i].key) - n, Len(kept[i].held)))] :
            n \in 1 .. Len(Common(kept[i].key, prompt))} : i \in DOMAIN kept}

\* A generation with options, or without a context: configure_native_prompt_cache comes
\* first, and empties the store when its size changes.
StartNative ==
    /\ pc = "idle" /\ runs < MaxRuns
    /\ store' \in {store, <<>>}
    /\ text' \in Texts
    /\ native' \in Fetched(store', text')
    /\ Reset
    /\ pc' = "prefill" /\ runs' = runs + 1
    /\ UNCHANGED <<supported, answer>>

\* The part of the prompt that was not found is taken in; the first token is told from
\* what the tensors hold then.
Missing == From(text, Len(native.key))

Prefill ==
    /\ pc = "prefill"
    /\ native' = [native EXCEPT !.key = text, !.held = @ \o Missing]
    /\ pc' = "native"
    /\ UNCHANGED <<cache, supported, text, answer, torn, store, runs>>

NativeToken ==
    /\ pc = "native" /\ Len(text) < MaxLength
    /\ \E t \in Tokens :
         /\ text' = Append(text, t)
         /\ native' = [native EXCEPT !.held = Append(@, t), !.key = Append(@, t)]
         /\ answer' = Told(text, native.held, native.cut)
    /\ UNCHANGED <<cache, supported, pc, torn, store, runs>>

\* insert_cache, in the finally: the entry becomes the newest of the store, and the
\* oldest goes.
Inserted(entry) ==
    LET same   == {i \in DOMAIN store : store[i].key = entry.key}
        others == IF same = {} THEN store ELSE RemoveAt(store, CHOOSE i \in same : TRUE)
    IN  Append(IF Len(others) = MaxEntries THEN Tail(others) ELSE others, entry)

\* At a stop token, at the limit, or when the callback raises to cancel.
NativeEnds ==
    /\ pc = "native"
    /\ store' = Inserted(native)
    /\ native' = NoRun /\ Ends
    /\ UNCHANGED <<cache, supported, text, answer, torn, runs>>

\* A generation that raises while the prompt is taken in is inserted under the whole
\* prompt all the same: the entry then says more than it holds.
PrefillRaises ==
    /\ pc = "prefill"
    /\ \E n \in 0 .. Len(Missing) :
           store' = Inserted([key |-> text, held |-> native.held \o SubSeq(Missing, 1, n),
                              cut |-> native.cut \/ n < Len(Missing)])
    /\ native' = NoRun /\ Ends
    /\ UNCHANGED <<cache, supported, text, answer, torn, runs>>

Done == pc = "idle" /\ runs = MaxRuns /\ UNCHANGED pvars

Next ==
    \/ Start \/ Finish \/ NextToken \/ CacheUnsupported
    \/ VerifyExtension \/ VerifyCached \/ VerifyStateless \/ ContinueTokens \/ ForwardRaises
    \/ StartNative \/ Prefill \/ NativeToken \/ NativeEnds \/ PrefillRaises
    \/ Done

Spec == Init /\ [][Next]_pvars

-----------------------------------------------------------------------------
TypeOK ==
    /\ cache.there \in BOOLEAN /\ cache.held \in Seq(Tokens) /\ cache.prefix \in Seq(Tokens)
    /\ supported \in BOOLEAN /\ torn \in BOOLEAN
    /\ text \in BoundedSeq(Tokens, MaxLength)
    /\ pc \in {"idle", "stepping", "prefill", "native"}
    /\ Len(store) <= MaxEntries /\ \A i, j \in DOMAIN store : store[i].key = store[j].key => i = j

\* Every token that is accepted, refused or generated is told from the logits of exactly
\* the text it follows, whatever the caches held before: drafts that were taken back,
\* a cache that cannot be trimmed, another prompt, another generation.  (Not after a
\* forward call has raised and nobody has called reset_cache, and not from an entry that
\* a failed prefill has left.)
AnswersFollowText == answer.torn \/ answer.row = answer.asked

\* A cache holds what it is said to hold, for whoever uses it next.
CachesHoldTheirKeys ==
    /\ cache.there /\ ~torn => cache.held = cache.prefix /\ cache.row = cache.prefix
    /\ \A i \in DOMAIN store : store[i].cut \/ store[i].held = store[i].key

=============================================================================
