------------------------- MODULE CorpusSpeculation -------------------------
(***************************************************************************)
(* Drafting from a corpus: the search for drafts that machboost/core.py    *)
(* (CorpusDrafter), internal/candidate (CorpusSource) and                  *)
(* scripts/hf_corpus_speculate.py (find_candidates) share, the script's    *)
(* generation with a key/value cache and three ways to verify a draft, its *)
(* comparison over a sweep of draft lengths, and the coverage and the      *)
(* drafting that internal/overlap estimates.                               *)
(*                                                                         *)
(* The model is any model: a draft is accepted up to any token.  Logits    *)
(* and a cache are known by the text they were computed from.              *)
(***************************************************************************)
EXTENDS Integers, Sequences, FiniteSets, SequencesExt, FiniteSetsExt

CONSTANTS Tokens,
          MaxCorpus,      \* bound: tokens of the corpus
          PromptLength, NGram, MaxSuffix, Limit,
          MaxNew,         \* max_new_tokens
          DraftSweep,     \* max_draft_tokens of the runs
          InitialDraft, MinDraft, DraftStep,
          Anchors,        \* anchor_tokens
          MaxSpeed        \* bound: of a speedup

VARIABLES
    corpus, text,    \* the source, and the prompt with what was generated
    options,         \* of the run: verify_mode, draft_policy, most, kind of cache
    pc,              \* "idle", "top", "try", "ended", "reported"
    cache, logits,   \* what past_key_values and current_logits were computed from
    allowed,         \* current_draft_tokens
    todo,            \* candidates that are still to be tried
    forwards, drafted,
    results,         \* runs of the sweep
    report,
    astray           \* history: a token was told from the logits of another text

xVars == <<corpus, text, options, pc, cache, logits, allowed, todo, forwards, drafted,
           results, report, astray>>

NoReport == [verdict |-> "none"]
Options == [verify : {"block", "sequential", "hybrid"}, policy : {"fixed", "adaptive"},
            most : DraftSweep, cacheKind : {"cropped", "opaque"}]

-----------------------------------------------------------------------------
(* Candidates.                                                             *)

Suffix(seq, k) == SubSeq(seq, Len(seq) - k + 1, Len(seq))
Lower(a, b) == IF a < b THEN a ELSE b
Upper(a, b) == IF a > b THEN a ELSE b

\* build_index.
Index(key) == {i \in 1 .. Len(corpus) - NGram + 1 : SubSeq(corpus, i, i + NGram - 1) = key}

\* Where the text goes on after its last k tokens; the corpus must go on as well.
Places(k) ==
    {p \in {q - (k - NGram) : q \in Index(Suffix(text, NGram))} :
        /\ p >= 1 /\ p + k <= Len(corpus)
        /\ SubSeq(corpus, p, p + k - 1) = Suffix(text, k)}

Draft(p, k, most) == SubSeq(corpus, p + k, Lower(p + k + most - 1, Len(corpus)))

Lengths == NGram .. Lower(MaxSuffix, Len(text))

\* What follows the places of the last k tokens.
Found(k, most) ==
    {[draft |-> Draft(p, k, most), suffix |-> k, at |-> p + k] :
        p \in IF most > 0 THEN Places(k) ELSE {}}

\* As many of the candidates as are wanted, each after those that come first.
InOrder(kept, First(_, _)) ==
    [i \in 1 .. Lower(Limit, Cardinality(kept)) |->
        CHOOSE c \in kept : Cardinality({d \in kept : First(d, c)}) = i - 1]

\* Mutant: a longer draft comes before a longer match.
DraftScore(c) == 100 * Len(c.draft) + c.suffix

Score(c) == 100 * c.suffix + Len(c.draft)
Better(c, d) ==
    \/ Score(c) > Score(d)
    \/ Score(c) = Score(d) /\ c.suffix > d.suffix
    \/ Score(c) = Score(d) /\ c.suffix = d.suffix /\ c.at < d.at

Searched(most) ==
    LET drafts(k) == {c.draft : c \in UNION {Found(j, most) : j \in {l \in Lengths : l >= k}}}
    IN  {k \in Lengths : \A j \in Lengths : j > k => Cardinality(drafts(j)) < Limit}

\* CorpusDrafter.candidates: for each draft its best match, from the longest suffixes on
\* until there are enough, sorted by score, length and place.
Candidates(most) ==
    LET all == UNION {Found(k, most) : k \in Searched(most)}
    IN  InOrder({c \in all : \A d \in all : d.draft = c.draft => d = c \/ Better(c, d)}, Better)

\* find_candidates of the script: in the order of the search, the first of each draft.
Before(c, d) == c.suffix > d.suffix \/ (c.suffix = d.suffix /\ c.at < d.at)

FirstFound(most) ==
    LET all == UNION {Found(k, most) : k \in Searched(most)}
    IN  {c \in all : ~\E d \in all : d.draft = c.draft /\ Before(d, c)}

FoundInOrder(most) == InOrder(FirstFound(most), Before)

\* candidatesFromTokens of "machboost draft": a draft may be listed for several suffixes,
\* and of equal scores any may be the first.
LeadsReport(most) ==
    LET pairs(K) == {<<c.draft, c.suffix>> : c \in UNION {Found(k, most) : k \in K}}
        From(k)  == {j \in Lengths : j >= k}
        kept     == pairs({k \in Lengths : \A j \in Lengths :
                             j > k => Cardinality(pairs(From(j))) < Limit})
        score(p) == 100 * p[2] + Len(p[1])
    IN  {p \in kept : \A q \in kept : score(q) <= score(p)}

-----------------------------------------------------------------------------
(* speculative_generate.                                                   *)

Init ==
    /\ corpus = <<>> /\ text = <<>> /\ cache = <<>> /\ logits = <<>> /\ todo = <<>>
    /\ options = [verify |-> "block", policy |-> "fixed", most |-> Min(DraftSweep),
                  cacheKind |-> "cropped"]
    /\ pc = "idle" /\ allowed = 0 /\ forwards = 0 /\ drafted = 0
    /\ results = <<>> /\ report = NoReport /\ astray = FALSE

Prefill(prompt) ==
    /\ text' = prompt /\ cache' = prompt /\ logits' = prompt
    /\ forwards' = 1 /\ drafted' = 0 /\ astray' = FALSE /\ todo' = <<>>
    /\ allowed' = IF options'.policy = "fixed" THEN options'.most
                  ELSE Lower(options'.most, Upper(MinDraft, InitialDraft))
    /\ pc' = "top"

\* The first run of a comparison.
Begin ==
    /\ pc = "idle" /\ results = <<>>
    /\ options' \in {o \in Options : o.most = Min(DraftSweep)}
    /\ corpus' \in BoundedSeq(Tokens, MaxCorpus)
    /\ \E prompt \in TupleOf(Tokens, PromptLength) : Prefill(prompt)
    /\ UNCHANGED <<results, report>>

\* Another draft length of the sweep, which is in order as the default one is.
Again ==
    /\ pc = "idle" /\ results # <<>>
    /\ \E most \in DraftSweep :
         /\ most > options.most /\ \A d \in DraftSweep : d > options.most => d >= most
         /\ options' = [options EXCEPT !.most = most]
    /\ Prefill(SubSeq(text, 1, PromptLength))
    /\ UNCHANGED <<corpus, results, report>>

Left == MaxNew - (Len(text) - PromptLength)

Propose ==
    /\ pc = "top"
    /\ todo' = [i \in DOMAIN FoundInOrder(allowed) |->
                  LET d == FoundInOrder(allowed)[i].draft IN SubSeq(d, 1, Lower(Left, Len(d)))]
    /\ pc' = "try"
    /\ UNCHANGED <<corpus, text, options, cache, logits, allowed, forwards, drafted, results,
                   report, astray>>

\* crop_cache: the draft's rejected tokens leave the cache, if its length can be told.
Crop(draft, m) == IF options.cacheKind = "opaque" THEN draft ELSE SubSeq(draft, 1, m)

\* verify_candidate_block: one forward of the draft, none if its first token is wrong.
Block(draft, m) ==
    [count |-> m, cached |-> IF m = 0 THEN <<>> ELSE Crop(draft, m),
     calls |-> IF m = 0 THEN 0 ELSE 1]

\* verify_candidate_sequential.
Sequential(draft, m) == [count |-> m, cached |-> SubSeq(draft, 1, m), calls |-> m]

\* verify_candidate_hybrid: the anchors one by one, or nothing; the rest in a block.
Hybrid(draft, m) ==
    LET a    == Lower(Anchors, Len(draft))
        tail == Block(SubSeq(draft, a + 1, Len(draft)), m - a)
    IN  IF m < a THEN [count |-> 0, cached |-> <<>>, calls |-> m]
        ELSE [count |-> m, cached |-> SubSeq(draft, 1, a) \o tail.cached, calls |-> a + tail.calls]

Verified(draft, m) == CASE options.verify = "block"      -> Block(draft, m)
                        [] options.verify = "sequential" -> Sequential(draft, m)
                        [] options.verify = "hybrid"     -> Hybrid(draft, m)

\* The model agrees with m tokens of the draft.
Try ==
    /\ pc = "try" /\ todo # <<>>
    /\ \E m \in 0 .. Len(Head(todo)) :
         LET draft == Head(todo)
             v     == Verified(draft, m)
             taken == SubSeq(draft, 1, v.count)
         IN  /\ forwards' = forwards + v.calls
             /\ IF v.count = 0
                THEN /\ todo' = Tail(todo)
                     /\ UNCHANGED <<text, cache, logits, drafted, allowed, astray, pc>>
                ELSE /\ text' = text \o taken
                     /\ cache' = cache \o v.cached
                     /\ logits' = cache \o taken
                     /\ drafted' = drafted + v.count
                     /\ astray' = (astray \/ logits # text \/ (v.count > 1 /\ cache # text))
                     /\ allowed' = IF options.policy = "adaptive" /\ v.count >= allowed
                                   THEN Lower(options.most, allowed + DraftStep) ELSE allowed
                     /\ todo' = <<>>
                     /\ pc' = IF v.count = Left THEN "ended" ELSE "top"
    /\ UNCHANGED <<corpus, options, results, report>>

\* next_greedy_from_logits and advance_cache.
Greedy ==
    /\ pc = "try" /\ todo = <<>>
    /\ allowed' = IF options.policy = "fixed" THEN allowed
                                              ELSE Upper(MinDraft, allowed - DraftStep)
    /\ \E t \in Tokens :
         /\ text' = Append(text, t)
         /\ astray' = (astray \/ logits # text)
         /\ IF Left = 1
            THEN pc' = "ended" /\ UNCHANGED <<cache, logits, forwards>>
            ELSE /\ cache' = Append(cache, t) /\ logits' = Append(cache, t)
                 /\ forwards' = forwards + 1
                 /\ pc' = "top"
    /\ UNCHANGED <<corpus, options, todo, drafted, results, report>>

-----------------------------------------------------------------------------
(* compare_with_runtime and auto_draft_with_runtime.                       *)

\* In percent, of the forwards of baseline_generate: one for each token.
Reduction == ((MaxNew - forwards) * 100) \div MaxNew

Verdict(match) == CASE ~match          -> "output_mismatch"
                    [] match /\ drafted = 0 -> "no_draft_acceptance"
                    [] match /\ drafted > 0 /\ Reduction >= 20 -> "mechanism_viable"
                    [] match /\ drafted > 0 /\ Reduction \in 5 .. 19 -> "weak_mechanism_signal"
                    [] OTHER -> "no_clear_mechanism_gain"

\* A token that was told from other logits may be the right one all the same.
Judge ==
    /\ pc = "ended"
    /\ \E match \in (IF astray THEN BOOLEAN ELSE {TRUE}), speed \in 0 .. MaxSpeed :
         results' = Append(results, [most |-> options.most, match |-> match, speed |-> speed,
                                     viable |-> Reduction >= 20, verdict |-> Verdict(match)])
    /\ pc' = "idle"
    /\ UNCHANGED <<corpus, text, options, cache, logits, allowed, todo, forwards, drafted, report,
                   astray>>

\* The first of those runs that are fastest; the runs whose output was right come first.
Fastest(runs) == results[Min({i \in runs : \A j \in runs : results[j].speed <= results[i].speed})]
Right == {i \in DOMAIN results : results[i].match}
Best == Fastest(IF Right = {} THEN DOMAIN results ELSE Right)

Report ==
    /\ pc = "idle" /\ results # <<>>
    /\ report' = [Best EXCEPT !.verdict =
                     IF Best.match /\ Best.viable THEN "mechanism_viable" ELSE @]
    /\ pc' = "reported"
    /\ UNCHANGED <<corpus, text, options, cache, logits, allowed, todo, forwards, drafted, results,
                   astray>>

Done == pc = "reported" /\ UNCHANGED xVars

Next == Begin \/ Again \/ Propose \/ Try \/ Greedy \/ Judge \/ Report \/ Done

Spec == Init /\ [][Next]_xVars

-----------------------------------------------------------------------------
(* internal/overlap: greedyCoverage of an output by a source.              *)

\* The longest run of the output from i that is in the source; shorter ones do not count.
Match(source, output, i) ==
    LET runs == {n \in 1 .. Len(output) - i + 1 :
                   \E p \in 1 .. Len(source) - n + 1 :
                      SubSeq(source, p, p + n - 1) = SubSeq(output, i, i + n - 1)}
    IN  IF runs = {} \/ Max(runs) < NGram THEN 0 ELSE Max(runs)

\* The output is walked with the longest matches, cut to "most": the coverage does not
\* cut them, the simulation of drafting takes each for a draft that is accepted.
Walk(source, output, most) ==
    LET walk[i \in 1 .. Len(output) + 1] ==
          IF i > Len(output) THEN [covered |-> 0, longest |-> 0, passes |-> 0]
          ELSE LET n == Lower(Match(source, output, i), most)
                   w == walk[i + Upper(n, 1)]
               IN  [covered |-> w.covered + n, longest |-> Upper(w.longest, n),
                    passes |-> w.passes + 1]
    IN  walk[1]

Coverage(source, output) == Walk(source, output, Len(output))
Simulated(source, output, most) == Walk(source, output, most)

-----------------------------------------------------------------------------
TypeOK ==
    /\ options \in Options /\ pc \in {"idle", "top", "try", "ended", "reported"}
    /\ Len(text) <= PromptLength + MaxNew
    /\ pc # "idle" \/ results # <<>> =>
            allowed \in Lower(MinDraft, options.most) .. Upper(MinDraft, options.most)
    /\ report = NoReport \/ report.verdict # "none"

\* Every token is told from the logits of exactly the text before it, in each way of
\* verifying, whatever was drafted, rejected and cropped before: the output is the one of
\* plain greedy decoding.  Only a cache whose length cannot be told keeps rejected tokens.
OutputIsGreedy ==
    options.cacheKind = "cropped" =>
        /\ ~astray
        /\ pc = "top" => cache = text /\ logits = text

\* The search, which looks at long suffixes first and stops early, puts first a draft that
\* follows the longest match there is, proposes no draft twice and only what stands in the
\* corpus; the order of the search and the order by score are the same.
CandidatesAreBest ==
    pc = "top" =>
        LET c == Candidates(allowed)
            matches == {k \in Lengths : \E p \in 1 .. Len(corpus) - k :
                          SubSeq(corpus, p, p + k - 1) = Suffix(text, k)}
        IN  /\ c = FoundInOrder(allowed)
            /\ Len(text) >= NGram /\ matches # {} => c # <<>> /\ c[1].suffix = Max(matches)
            /\ \A i, j \in DOMAIN c : c[i].draft = c[j].draft => i = j
            /\ \A p \in LeadsReport(allowed) : p[2] = Max(matches)
            /\ \A i \in DOMAIN c : c[i].draft # <<>> /\ Len(c[i].draft) <= allowed

\* What the sweep reports is a run whose output was right, if there was one, and of these
\* the fastest; it is called viable only if its output was right.
ReportIsHonest ==
    report # NoReport =>
        /\ Right # {} => report.match /\ \A i \in Right : results[i].speed <= report.speed
        /\ report.verdict = "mechanism_viable" => report.match

\* The coverage and the simulation count only tokens that are part of a common run of n
\* tokens, count some if there are any, and no run longer than the longest there is; the
\* simulated decoding never takes more passes than plain decoding, and as many fewer as
\* it accepts tokens beyond the first of each draft.
CoverageIsBounded ==
    pc = "ended" =>
        LET c == Coverage(corpus, text)
            d == Simulated(corpus, text, options.most)
            inside == {i \in DOMAIN text : \E s \in 1 .. i : Match(corpus, text, s) > i - s}
            runs   == {Match(corpus, text, s) : s \in DOMAIN text}
        IN  /\ \A w \in {c, d} : /\ w.covered <= Cardinality(inside)
                               /\ (w.covered = 0) = (inside = {})
                               /\ w.longest <= Max(runs)
            /\ d.longest <= options.most
            /\ d.passes >= Len(text) - d.covered + (IF d.covered > 0 THEN 1 ELSE 0)
            /\ d.passes <= Len(text) /\ c.passes <= Len(text)

=============================================================================
