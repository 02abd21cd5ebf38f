---------------------------- MODULE CachesProofs ----------------------------
(***************************************************************************)
(* What a model is told and what a comparison of runs tells, whatever is   *)
(* kept of other texts, drafts and images (PromptCache, VisionCache,       *)
(* CorpusSpeculation), proved for any tokens, files, pictures and bounds.  *)
(* The theorems are about MCAdapters, as in GatewayProofs.                 *)
(***************************************************************************)
EXTENDS MCAdapters, QueueFacts, FiniteSetTheorems, TLAPS

-----------------------------------------------------------------------------
(* The key/value caches of the MLX adapter (PromptCache).                  *)

TokenSeq == Seq(Tokens)

\* The first tokens of a text, and what is left without them, are it together.
LEMMA FirstTokens ==
    ASSUME NEW s \in TokenSeq, NEW n \in 0 .. Len(s)
    PROVE  /\ SubSeq(s, 1, n) \in TokenSeq
           /\ Len(SubSeq(s, 1, n)) = n
           /\ \A i \in 1 .. n : SubSeq(s, 1, n)[i] = s[i]
<1>1. Len(s) \in Nat /\ n \in Nat /\ n <= Len(s) /\ \A i \in 1 .. Len(s) : s[i] \in Tokens
  BY DEF TokenSeq
<1>2. \A i \in 1 .. n : s[i] \in Tokens
  BY <1>1
<1>3. /\ SubSeq(s, 1, n) \in Seq(Tokens)
      /\ Len(SubSeq(s, 1, n)) = IF 1 <= n THEN n - 1 + 1 ELSE 0
      /\ \A i \in 1 .. n - 1 + 1 : SubSeq(s, 1, n)[i] = s[1 + i - 1]
  BY <1>1, <1>2, SubSeqProperties
<1>4. n - 1 + 1 = n /\ (IF 1 <= n THEN n - 1 + 1 ELSE 0) = n /\ \A i \in 1 .. n : 1 + i - 1 = i
  BY <1>1
<1>. QED  BY <1>3, <1>4 DEF TokenSeq

LEMMA RestOfTokens ==
    ASSUME NEW s \in TokenSeq, NEW n \in 0 .. Len(s)
    PROVE  /\ PC!From(s, n) \in TokenSeq
           /\ Len(PC!From(s, n)) = Len(s) - n
           /\ \A i \in 1 .. Len(s) - n : PC!From(s, n)[i] = s[n + i]
BY SuffixFacts DEF PC!From, TokenSeq

LEMMA TokensTogether ==
    ASSUME NEW s \in TokenSeq, NEW t \in TokenSeq
    PROVE  /\ s \o t \in TokenSeq
           /\ Len(s \o t) = Len(s) + Len(t) /\ Len(s) \in Nat /\ Len(t) \in Nat
           /\ \A i \in 1 .. Len(s) + Len(t) :
                (s \o t)[i] = IF i <= Len(s) THEN s[i] ELSE t[i - Len(s)]
<1>1. Len(s) \in Nat /\ Len(t) \in Nat
  BY DEF TokenSeq
<1>. QED  BY <1>1, ConcatProperties DEF TokenSeq

LEMMA SameTokens ==
    ASSUME NEW s \in TokenSeq, NEW t \in TokenSeq, Len(s) = Len(t),
           \A i \in 1 .. Len(s) : s[i] = t[i]
    PROVE  s = t
BY SeqEqual DEF TokenSeq

LEMMA ShareAndRest ==
    ASSUME NEW s \in TokenSeq, NEW n \in 0 .. Len(s)
    PROVE  SubSeq(s, 1, n) \o PC!From(s, n) = s
<1>. DEFINE a == SubSeq(s, 1, n)
            b == PC!From(s, n)
<1>0. Len(s) \in Nat /\ n \in Nat /\ n <= Len(s)
  BY DEF TokenSeq
<1>1. a \in TokenSeq /\ Len(a) = n /\ \A i \in 1 .. n : a[i] = s[i]
  BY FirstTokens
<1>2. b \in TokenSeq /\ Len(b) = Len(s) - n /\ \A i \in 1 .. Len(s) - n : b[i] = s[n + i]
  BY RestOfTokens
<1>. HIDE DEF a, b
<1>3. /\ a \o b \in TokenSeq /\ Len(a \o b) = Len(s)
      /\ \A i \in 1 .. Len(s) : (a \o b)[i] = IF i <= n THEN a[i] ELSE b[i - n]
  <2>1. n + (Len(s) - n) = Len(s)
    BY <1>0
  <2>2. /\ a \o b \in TokenSeq /\ Len(a \o b) = n + (Len(s) - n)
        /\ \A i \in 1 .. n + (Len(s) - n) :
             (a \o b)[i] = IF i <= n THEN a[i] ELSE b[i - n]
    <3>1. /\ a \o b \in TokenSeq /\ Len(a \o b) = Len(a) + Len(b)
          /\ \A i \in 1 .. Len(a) + Len(b) :
               (a \o b)[i] = IF i <= Len(a) THEN a[i] ELSE b[i - Len(a)]
      BY <1>1, <1>2, TokensTogether, Zenon
    <3>2. Len(a) = n /\ Len(b) = Len(s) - n
      BY <1>1, <1>2
    <3>. QED  BY <3>1, <3>2
  <2>. QED  BY <2>1, <2>2
<1>4. \A i \in 1 .. Len(s) : (a \o b)[i] = s[i]
  <2>1. SUFFICES ASSUME NEW i \in 1 .. Len(s) PROVE (a \o b)[i] = s[i]
    BY Zenon
  <2>2. CASE i <= n
    BY <1>0, <1>1, <1>3, <2>2
  <2>3. CASE ~(i <= n)
    <3>1. i - n \in 1 .. Len(s) - n /\ n + (i - n) = i
      BY <1>0, <2>3
    <3>2. b[i - n] = s[n + (i - n)]
      BY <1>2, <3>1
    <3>. QED  BY <1>3, <2>3, <3>1, <3>2
  <2>. QED  BY <2>2, <2>3, Zenon
<1>5. a \o b = s
  BY <1>3, <1>4, SameTokens, Zenon
<1>. QED  BY <1>5 DEF a, b

\* The beginning of a text with a draft after it is the text with a beginning of the draft.
LEMMA CutDraft ==
    ASSUME NEW t \in TokenSeq, NEW d \in TokenSeq, NEW n \in 0 .. Len(d)
    PROVE  /\ SubSeq(t \o d, 1, Len(t) + n) = t \o SubSeq(d, 1, n)
           /\ SubSeq(t \o d, 1, Len(t \o d) - (Len(d) - n)) = t \o SubSeq(d, 1, n)
<1>. DEFINE td == t \o d
            a  == SubSeq(d, 1, n)
            ta == t \o a
            m  == Len(t) + n
            x  == SubSeq(td, 1, m)
<1>0. Len(t) \in Nat /\ Len(d) \in Nat /\ n \in Nat /\ n <= Len(d)
  BY DEF TokenSeq
<1>1. /\ td \in TokenSeq /\ Len(td) = Len(t) + Len(d)
      /\ \A i \in 1 .. Len(t) + Len(d) : td[i] = IF i <= Len(t) THEN t[i] ELSE d[i - Len(t)]
  BY TokensTogether
<1>2. a \in TokenSeq /\ Len(a) = n /\ \A i \in 1 .. n : a[i] = d[i]
  BY FirstTokens
<1>. HIDE DEF td, a
<1>3. /\ ta \in TokenSeq /\ Len(ta) = m
      /\ \A i \in 1 .. m : ta[i] = IF i <= Len(t) THEN t[i] ELSE a[i - Len(t)]
  BY <1>2, TokensTogether, Zenon
<1>4. m \in 0 .. Len(td) /\ Len(td) - (Len(d) - n) = m
  BY <1>0, <1>1
<1>5. x \in TokenSeq /\ Len(x) = m /\ \A i \in 1 .. m : x[i] = td[i]
  BY <1>1, <1>4, FirstTokens
<1>. HIDE DEF ta, x
<1>6. \A i \in 1 .. m : x[i] = ta[i]
  <2>1. SUFFICES ASSUME NEW i \in 1 .. m PROVE x[i] = ta[i]
    OBVIOUS
  <2>2. i \in 1 .. Len(t) + Len(d) /\ m = Len(t) + n
    BY <1>0
  <2>3. CASE i <= Len(t)
    BY <1>1, <1>3, <1>5, <2>2, <2>3
  <2>4. CASE ~(i <= Len(t))
    <3>1. i - Len(t) \in 1 .. n
      BY <1>0, <2>4
    <3>2. a[i - Len(t)] = d[i - Len(t)]
      BY <1>2, <3>1
    <3>. QED  BY <1>1, <1>3, <1>5, <2>2, <2>4, <3>2
  <2>. QED  BY <2>3, <2>4
<1>7. x = ta
  <2>. HIDE DEF m
  <2>. QED  BY <1>3, <1>5, <1>6, SameTokens
<1>. QED  BY <1>4, <1>7, Zenon DEF x, ta, a, td

\* A text but its last token, and that token, are the text.
LEMMA FrontAndLast ==
    ASSUME NEW t \in TokenSeq, Len(t) # 0
    PROVE  /\ PC!Last(t) \in Tokens
           /\ PC!Front(t) \o <<PC!Last(t)>> = t
           /\ Append(PC!Front(t), PC!Last(t)) = t
<1>0. Len(t) \in Nat /\ Len(t) - 1 \in 0 .. Len(t) /\ t[Len(t)] \in Tokens
  BY DEF TokenSeq
<1>. DEFINE f == SubSeq(t, 1, Len(t) - 1)
            e == t[Len(t)]
            b == Append(f, e)
<1>1. /\ f \in TokenSeq /\ Len(f) = Len(t) - 1
      /\ \A i \in 1 .. Len(t) - 1 : f[i] = t[i]
  BY <1>0, FirstTokens, Zenon
<1>. HIDE DEF f
<1>2. /\ b \in TokenSeq /\ Len(b) = Len(t)
      /\ \A i \in 1 .. Len(t) : b[i] = IF i = Len(t) THEN e ELSE f[i]
  <2>. HIDE DEF e
  <2>1. e \in Tokens
    BY <1>0 DEF e
  <2>. QED  BY <1>0, <1>1, <2>1 DEF TokenSeq
<1>3. \A i \in 1 .. Len(t) : b[i] = t[i]
  <2>1. SUFFICES ASSUME NEW i \in 1 .. Len(t) PROVE b[i] = t[i]
    BY Zenon
  <2>2. i = Len(t) \/ i \in 1 .. Len(t) - 1
    BY <1>0
  <2>. HIDE DEF b
  <2>. QED  BY <1>1, <1>2, <2>2
<1>4. b = t
  <2>. HIDE DEF b
  <2>. QED  BY <1>2, <1>3, SameTokens
<1>5. b = f \o <<e>>
  BY <1>0, <1>1, AppendIsConcat DEF TokenSeq
<1>. QED  BY <1>0, <1>4, <1>5, Zenon DEF f, PC!Last, PC!Front

\* A bounded sequence is a sequence of at most so many tokens.
LEMMA BoundedTokens ==
    ASSUME NEW n \in Nat, NEW s
    PROVE  s \in PC!BoundedSeq(Tokens, n) <=> s \in TokenSeq /\ Len(s) <= n
<1>1. PC!BoundedSeq(Tokens, n) = UNION {[1 .. m -> Tokens] : m \in 0 .. n}
  BY DEF PC!BoundedSeq, PC!SeqOf
<1>2. ASSUME s \in PC!BoundedSeq(Tokens, n)
      PROVE  s \in TokenSeq /\ Len(s) <= n
  <2>1. PICK m \in 0 .. n : s \in [1 .. m -> Tokens]
    BY <1>1, <1>2
  <2>2. m \in Nat /\ m <= n
    OBVIOUS
  <2>3. s \in Seq(Tokens) /\ Len(s) = m
    BY <2>1, <2>2
  <2>. QED  BY <2>2, <2>3 DEF TokenSeq
<1>3. ASSUME s \in TokenSeq, Len(s) <= n
      PROVE  s \in PC!BoundedSeq(Tokens, n)
  <2>1. Len(s) \in 0 .. n /\ s \in [1 .. Len(s) -> Tokens]
    BY <1>3 DEF TokenSeq
  <2>. QED  BY <1>1, <2>1, Zenon
<1>. QED  BY <1>2, <1>3

\* The longest beginning that two texts share is a beginning of both.
LEMMA SharedBeginning ==
    ASSUME NEW s \in TokenSeq, NEW t \in TokenSeq
    PROVE  /\ Len(PC!Common(s, t)) \in Nat
           /\ Len(PC!Common(s, t)) <= Len(s) /\ Len(PC!Common(s, t)) <= Len(t)
           /\ \A n \in 0 .. Len(PC!Common(s, t)) : SubSeq(s, 1, n) = SubSeq(t, 1, n)
<1>. DEFINE P == PC!CommonPrefixes({s, t})
            c == PC!Common(s, t)
            A == {Len(s) - Len(p) : p \in P}
<1>0. Len(s) \in Nat /\ Len(t) \in Nat
  BY DEF TokenSeq
<1>1. ASSUME NEW p \in P
      PROVE  /\ p \in TokenSeq /\ Len(p) \in Nat /\ Len(p) <= Len(s) /\ Len(p) <= Len(t)
             /\ SubSeq(p, 1, Len(p)) = SubSeq(s, 1, Len(p))
             /\ SubSeq(p, 1, Len(p)) = SubSeq(t, 1, Len(p))
  <2>1. /\ p \in UNION {PC!Prefixes(q) : q \in {s, t}}
        /\ PC!IsPrefix(p, s) /\ PC!IsPrefix(p, t)
    BY DEF PC!CommonPrefixes
  <2>2. p \in PC!Prefixes(s) \/ p \in PC!Prefixes(t)
    BY <2>1
  <2>3. p \in TokenSeq
    BY <2>2, FirstTokens, Zenon DEF PC!Prefixes
  <2>4. Len(p) \in Nat
    BY <2>3 DEF TokenSeq
  <2>. QED  BY <2>1, <2>3, <2>4 DEF PC!IsPrefix
<1>2. <<>> \in P
  <2>1. SubSeq(s, 1, 0) = <<>> /\ SubSeq(t, 1, 0) = <<>> /\ SubSeq(<<>>, 1, 0) = <<>>
    <3>1. /\ SubSeq(s, 1, 0) \in TokenSeq /\ Len(SubSeq(s, 1, 0)) = 0
          /\ SubSeq(t, 1, 0) \in TokenSeq /\ Len(SubSeq(t, 1, 0)) = 0
      BY <1>0, FirstTokens
    <3>2. <<>> \in TokenSeq /\ Len(<<>>) = 0
      BY DEF TokenSeq
    <3>3. SubSeq(<<>>, 1, 0) \in TokenSeq /\ Len(SubSeq(<<>>, 1, 0)) = 0
      BY <3>2, FirstTokens
    <3>. QED  BY <3>1, <3>2, <3>3, SameTokens
  <2>2. PC!IsPrefix(<<>>, s) /\ PC!IsPrefix(<<>>, t)
    <3>1. Len(<<>>) = 0
      OBVIOUS
    <3>. QED  BY <1>0, <2>1, <3>1 DEF PC!IsPrefix
  <2>3. <<>> \in PC!Prefixes(s)
    <3>1. 0 \in 0 .. Len(s)
      BY <1>0
    <3>. QED  BY <2>1, <3>1 DEF PC!Prefixes
  <2>. QED  BY <2>2, <2>3 DEF PC!CommonPrefixes
<1>. HIDE DEF P
<1>3. A \subseteq Nat /\ A # {}
  <2>1. \A p \in P : Len(s) - Len(p) \in Nat
    BY <1>0, <1>1
  <2>. QED  BY <1>2, <2>1
<1>4. \E p \in P : \A q \in P : Len(q) <= Len(p)
  <2>1. PICK m \in A : \A y \in A : m <= y
    BY <1>3, MinOfNaturals, Zenon
  <2>2. PICK p \in P : m = Len(s) - Len(p)
    BY <2>1
  <2>3. ASSUME NEW q \in P
        PROVE  Len(q) <= Len(p)
    <3>1. Len(s) - Len(p) <= Len(s) - Len(q)
      BY <2>1, <2>2, Zenon
    <3>2. Len(p) \in Nat /\ Len(q) \in Nat
      BY <1>1
    <3>. QED  BY <1>0, <3>1, <3>2
  <2>. QED  BY <2>3
<1>5. c \in P
  BY <1>4, Zenon DEF PC!Common, PC!LongestCommonPrefix, P
<1>. HIDE DEF c
<1>6. /\ c \in TokenSeq /\ Len(c) \in Nat /\ Len(c) <= Len(s) /\ Len(c) <= Len(t)
      /\ SubSeq(s, 1, Len(c)) = SubSeq(t, 1, Len(c))
  BY <1>1, <1>5
<1>7. ASSUME NEW n \in 0 .. Len(c)
      PROVE  SubSeq(s, 1, n) = SubSeq(t, 1, n)
  <2>0. n \in 0 .. Len(s) /\ n \in 0 .. Len(t) /\ Len(c) \in 0 .. Len(s) /\ Len(c) \in 0 .. Len(t)
    BY <1>0, <1>6
  <2>1. /\ SubSeq(s, 1, n) \in TokenSeq /\ Len(SubSeq(s, 1, n)) = n
        /\ \A i \in 1 .. n : SubSeq(s, 1, n)[i] = s[i]
    BY <2>0, FirstTokens
  <2>2. /\ SubSeq(t, 1, n) \in TokenSeq /\ Len(SubSeq(t, 1, n)) = n
        /\ \A i \in 1 .. n : SubSeq(t, 1, n)[i] = t[i]
    BY <2>0, FirstTokens
  <2>3. \A i \in 1 .. Len(c) : s[i] = t[i]
    <3>1. \A i \in 1 .. Len(c) : SubSeq(s, 1, Len(c))[i] = s[i]
      BY <2>0, FirstTokens
    <3>2. \A i \in 1 .. Len(c) : SubSeq(t, 1, Len(c))[i] = t[i]
      BY <2>0, FirstTokens
    <3>. QED  BY <1>6, <3>1, <3>2
  <2>4. \A i \in 1 .. n : i \in 1 .. Len(c)
    BY <1>6
  <2>5. \A i \in 1 .. n : SubSeq(s, 1, n)[i] = SubSeq(t, 1, n)[i]
    BY <2>1, <2>2, <2>3, <2>4
  <2>. QED  BY <2>1, <2>2, <2>5, SameTokens
<1>. QED  BY <1>6, <1>7 DEF c

-----------------------------------------------------------------------------
(* The invariant.                                                          *)

CacheRecord == [there : BOOLEAN, held : TokenSeq, prefix : TokenSeq, row : TokenSeq]
PromptEntry == [key : TokenSeq, held : TokenSeq, cut : BOOLEAN]

PromptSteps == {"idle", "stepping", "prefill", "native"}

\* A store has room for MaxEntries prompts, of different keys.
IsPromptStore(q) ==
    /\ q \in Seq(PromptEntry) /\ Len(q) <= MaxEntries
    /\ \A i, j \in 1 .. Len(q) : q[i].key = q[j].key => i = j

PromptTypes ==
    /\ cache \in CacheRecord /\ supported \in BOOLEAN /\ tornCache \in BOOLEAN
    /\ text \in TokenSeq /\ Len(text) <= MaxLength /\ pc \in PromptSteps
    /\ IsPromptStore(promptStore) /\ native \in PromptEntry

\* The tensors are those of the prefix, and the row is theirs.
IsTrueCache(c) == c.there => c.held = c.prefix /\ c.row = c.prefix

IsTruePrompt(entry) == entry.cut \/ entry.held = entry.key

\* What was fetched is of a beginning of the prompt; once the prompt is taken in, what is
\* held is of the text.
NativeIsOfText ==
    /\ IsTruePrompt(native)
    /\ pc = "prefill" => /\ Len(native.key) <= Len(text)
                         /\ SubSeq(text, 1, Len(native.key)) = native.key
    /\ pc = "native" => native.key = text

PromptsInv ==
    /\ PromptTypes
    /\ tornCache \/ IsTrueCache(cache)
    /\ \A i \in 1 .. Len(promptStore) : IsTruePrompt(promptStore[i])
    /\ NativeIsOfText
    /\ PC!AnswersFollowText

LEMMA PromptsInit == Init => PromptsInv
<1> SUFFICES ASSUME Init PROVE PromptsInv
  OBVIOUS
<1>0. PC!Init
  BY DEF Init
<1>1. <<>> \in TokenSeq /\ Len(<<>>) = 0
  BY DEF TokenSeq
<1>2. PC!NoCache \in CacheRecord /\ ~PC!NoCache.there
  BY <1>1 DEF PC!NoCache, CacheRecord
<1>3. /\ PC!NoRun \in PromptEntry /\ PC!NoRun.held = PC!NoRun.key
  BY <1>1 DEF PC!NoRun, PromptEntry
<1>4. IsPromptStore(<<>>)
  <2>1. <<>> \in Seq(PromptEntry) /\ 0 <= MaxEntries
    BY PromptAssumption
  <2>. QED  BY <1>1, <2>1 DEF IsPromptStore
<1>5. 0 <= MaxLength
  BY PromptAssumption
<1>6. PromptTypes
  BY <1>0, <1>1, <1>2, <1>3, <1>4, <1>5, Zenon DEF PC!Init, PromptTypes, PromptSteps
<1>7. IsTrueCache(cache) /\ NativeIsOfText
  BY <1>0, <1>2, <1>3 DEF PC!Init, IsTrueCache, NativeIsOfText, IsTruePrompt
<1>8. PC!AnswersFollowText
  BY <1>0 DEF PC!Init, PC!AnswersFollowText, PC!Told
<1>. QED  BY <1>0, <1>1, <1>6, <1>7, <1>8 DEF PC!Init, PromptsInv

LEMMA PromptsHold ==
    ASSUME PromptsInv
    PROVE  PC!TypeOK /\ PC!AnswersFollowText /\ PC!CachesHoldTheirKeys
<1>1. /\ cache.there \in BOOLEAN /\ cache.held \in Seq(Tokens) /\ cache.prefix \in Seq(Tokens)
  BY DEF PromptsInv, PromptTypes, CacheRecord, TokenSeq
<1>2. text \in PC!BoundedSeq(Tokens, MaxLength)
  BY BoundedTokens, PromptAssumption DEF PromptsInv, PromptTypes
<1>3. DOMAIN promptStore = 1 .. Len(promptStore)
  BY DEF PromptsInv, PromptTypes, IsPromptStore
<1>4. PC!TypeOK
  BY <1>1, <1>2, <1>3 DEF PromptsInv, PromptTypes, IsPromptStore, PromptSteps, PC!TypeOK
<1>5. PC!CachesHoldTheirKeys
  BY <1>3 DEF PromptsInv, IsTrueCache, IsTruePrompt, PC!CachesHoldTheirKeys
<1>. QED  BY <1>4, <1>5 DEF PromptsInv

\* What a generation does to the text and the cache is all a step of it has to show.
LEMMA PromptsCacheStep ==
    ASSUME PromptsInv, UNCHANGED <<promptStore, native>>, cache' \in CacheRecord,
           supported' \in BOOLEAN, tornCache' \in BOOLEAN,
           text' \in TokenSeq, Len(text') <= MaxLength, pc' \in {"idle", "stepping"},
           tornCache' \/ IsTrueCache(cache'),
           answer' = answer \/ answer'.torn \/ answer'.row = answer'.asked
    PROVE  PromptsInv'
<1>1. PromptTypes'
  BY DEF PromptsInv, PromptTypes, PromptSteps, IsPromptStore
<1>2. NativeIsOfText'
  BY DEF PromptsInv, NativeIsOfText, IsTruePrompt
<1>3. PC!AnswersFollowText'
  BY DEF PromptsInv, PC!AnswersFollowText
<1>4. \A i \in 1 .. Len(promptStore') : IsTruePrompt(promptStore'[i])
  BY DEF PromptsInv
<1>. QED  BY <1>1, <1>2, <1>3, <1>4 DEF PromptsInv, IsTrueCache, IsTruePrompt

\* What the current text goes on with is a text.
LEMMA TextGoesOn ==
    ASSUME PromptsInv, NEW accepted \in TokenSeq, NEW told, PC!GoesOn(accepted, told),
           told = <<>> \/ \E t \in Tokens : told = <<t>>
    PROVE  text' \in TokenSeq /\ Len(text') <= MaxLength /\ pc' \in {"idle", "stepping"}
<1>1. text \in TokenSeq
  BY DEF PromptsInv, PromptTypes
<1>2. told \in TokenSeq
  <2>1. CASE told = <<>>
    BY <2>1 DEF TokenSeq
  <2>2. CASE \E t \in Tokens : told = <<t>>
    BY <2>2 DEF TokenSeq
  <2>. QED  BY <2>1, <2>2
<1>3. text \o accepted \in TokenSeq
  BY <1>1, TokensTogether
<1>4. text \o accepted \o told \in TokenSeq
  BY <1>2, <1>3, TokensTogether
<1>. QED  BY <1>4 DEF PC!GoesOn, PC!Ends

LEMMA NoCacheFacts ==
    /\ PC!NoCache \in CacheRecord /\ IsTrueCache(PC!NoCache)
    /\ PC!NoCache.held = <<>> /\ PC!NoCache.prefix = <<>> /\ PC!NoCache.row = <<>>
<1>1. <<>> \in TokenSeq
  BY DEF TokenSeq
<1>. QED  BY <1>1 DEF PC!NoCache, CacheRecord, IsTrueCache

\* The cache with the row for a text is of that text, if it was one.
LEMMA AdvancedFacts ==
    ASSUME cache \in CacheRecord, NEW t \in TokenSeq
    PROVE  /\ PC!Advanced(t) \in CacheRecord
           /\ PC!Advanced(t).there /\ PC!Advanced(t).prefix = t
           /\ IsTrueCache(cache) => PC!Advanced(t).held = t /\ PC!Advanced(t).row = t
<1>0. cache.there \in BOOLEAN /\ cache.held \in TokenSeq /\ cache.prefix \in TokenSeq
      /\ cache.row \in TokenSeq
  BY DEF CacheRecord
<1>1. CASE PC!Kept(t)
  <2>1. PC!Advanced(t) = cache
    BY <1>1 DEF PC!Advanced
  <2>. QED  BY <1>0, <1>1, <2>1 DEF PC!Kept, IsTrueCache
<1>2. CASE ~PC!Kept(t)
  <2>. DEFINE delta == PC!From(t, Len(cache.prefix))
              stood  == IF PC!Extends(t) THEN cache.held \o delta ELSE t
  <2>1. PC!Advanced(t) = [there |-> TRUE, held |-> stood, prefix |-> t, row |-> stood]
    BY <1>2 DEF PC!Advanced
  <2>2. stood \in TokenSeq /\ (IsTrueCache(cache) => stood = t)
    <3>1. CASE ~PC!Extends(t)
      BY <3>1
    <3>2. CASE PC!Extends(t)
      <4>1. /\ cache.there /\ Len(cache.prefix) <= Len(t)
            /\ SubSeq(cache.prefix, 1, Len(cache.prefix)) = SubSeq(t, 1, Len(cache.prefix))
        BY <3>2 DEF PC!Extends, PC!IsStrictPrefix, PC!IsPrefix
      <4>2. PICK n : n = Len(cache.prefix)
        BY Zenon
      <4>3. n \in 0 .. Len(t) /\ n \in 0 .. Len(cache.prefix)
        BY <1>0, <4>1, <4>2 DEF TokenSeq
      <4>4. SubSeq(t, 1, n) = cache.prefix
        <5>1. /\ SubSeq(cache.prefix, 1, n) \in TokenSeq
              /\ Len(SubSeq(cache.prefix, 1, n)) = n
              /\ \A i \in 1 .. n : SubSeq(cache.prefix, 1, n)[i] = cache.prefix[i]
          BY <1>0, <4>3, FirstTokens
        <5>2. SubSeq(cache.prefix, 1, n) = cache.prefix
          BY <1>0, <4>2, <5>1, SameTokens, Zenon
        <5>. QED  BY <4>1, <4>2, <5>2
      <4>5. delta = PC!From(t, n) /\ delta \in TokenSeq
        BY <4>2, <4>3, RestOfTokens
      <4>6. SubSeq(t, 1, n) \o PC!From(t, n) = t
        BY <4>3, ShareAndRest
      <4>7. stood = cache.held \o PC!From(t, n)
        BY <3>2, <4>5
      <4>8. stood \in TokenSeq
        BY <1>0, <4>5, <4>7, TokensTogether, Zenon
      <4>9. IsTrueCache(cache) => cache.held = SubSeq(t, 1, n)
        BY <4>1, <4>4 DEF IsTrueCache
      <4>. HIDE DEF stood, delta
      <4>. QED  BY <4>6, <4>7, <4>8, <4>9, Zenon
    <3>. QED  BY <3>1, <3>2, Zenon
  <2>. HIDE DEF stood
  <2>3. /\ PC!Advanced(t) \in CacheRecord
        /\ PC!Advanced(t).there /\ PC!Advanced(t).prefix = t
        /\ PC!Advanced(t).held = stood /\ PC!Advanced(t).row = stood
    BY <2>1, <2>2 DEF CacheRecord
  <2>. QED  BY <2>2, <2>3
<1>. QED  BY <1>1, <1>2

-----------------------------------------------------------------------------
(* The steps of a generation.                                              *)

\* A draft is a text.
LEMMA DraftIsText ==
    ASSUME NEW d \in PC!Drafts
    PROVE  d \in TokenSeq /\ Len(d) \in Nat
<1>1. d \in PC!BoundedSeq(Tokens, MaxDraft)
  BY DEF PC!Drafts
<1>2. d \in TokenSeq
  BY <1>1, BoundedTokens, PromptAssumption
<1>. QED  BY <1>2 DEF TokenSeq

\* What becomes of a cache after a draft: it is of the text with what was accepted of it.
LEMMA CommittedFacts ==
    ASSUME text \in TokenSeq, NEW base \in TokenSeq, NEW d \in TokenSeq, NEW n \in 0 .. Len(d),
           NEW c \in PC!Committed(base \o d, d, n)
    PROVE  /\ c \in CacheRecord
           /\ base = text => IsTrueCache(c)
<1>. DEFINE t       == text \o SubSeq(d, 1, n)
            rest    == Len(d) - n
            shorter == SubSeq(base \o d, 1, Len(base \o d) - rest)
<1>0. Len(d) \in Nat
  BY DEF TokenSeq
<1>1. \/ c = [there |-> TRUE, held |-> shorter, prefix |-> t, row |-> shorter]
      \/ c = [there |-> TRUE, held |-> t, prefix |-> t, row |-> t]
  BY Zenon DEF PC!Committed, PC!Trimmed
<1>2. SubSeq(d, 1, n) \in TokenSeq
  BY FirstTokens
<1>3. t \in TokenSeq
  BY <1>2, TokensTogether
<1>4. shorter = base \o SubSeq(d, 1, n)
  BY CutDraft, Zenon
<1>5. shorter \in TokenSeq
  <2>. HIDE DEF shorter
  <2>. QED  BY <1>2, <1>4, TokensTogether
<1>6. base = text => shorter = t
  BY <1>4
<1>. HIDE DEF t, shorter
<1>7. CASE c = [there |-> TRUE, held |-> shorter, prefix |-> t, row |-> shorter]
  <2>1. c.held = shorter /\ c.prefix = t /\ c.row = shorter
    BY <1>7
  <2>2. c \in CacheRecord
    BY <1>3, <1>5, <1>7 DEF CacheRecord
  <2>. QED  BY <1>6, <2>1, <2>2 DEF IsTrueCache
<1>8. CASE c = [there |-> TRUE, held |-> t, prefix |-> t, row |-> t]
  <2>1. c.held = t /\ c.prefix = t /\ c.row = t
    BY <1>8
  <2>2. c \in CacheRecord
    BY <1>3, <1>8 DEF CacheRecord
  <2>. QED  BY <2>1, <2>2 DEF IsTrueCache
<1>. QED  BY <1>1, <1>7, <1>8

LEMMA PromptsStart ==
    ASSUME PromptsInv, PC!Start
    PROVE  PromptsInv'
<1>1. /\ text' \in PC!Texts /\ pc' = "stepping"
      /\ PC!Reset \/ UNCHANGED <<cache, tornCache>>
      /\ UNCHANGED <<supported, answer, promptStore, native>>
  BY DEF PC!Start
<1>2. text' \in TokenSeq /\ Len(text') <= MaxLength
  BY <1>1, BoundedTokens, PromptAssumption DEF PC!Texts
<1>3. /\ cache' \in CacheRecord /\ tornCache' \in BOOLEAN
      /\ tornCache' \/ IsTrueCache(cache')
  <2>1. CASE PC!Reset
    BY <2>1, NoCacheFacts, Zenon DEF PC!Reset
  <2>2. CASE UNCHANGED <<cache, tornCache>>
    BY <2>2 DEF PromptsInv, PromptTypes
  <2>. QED  BY <1>1, <2>1, <2>2
<1>4. supported' \in BOOLEAN
  BY <1>1 DEF PromptsInv, PromptTypes
<1>. QED  BY <1>1, <1>2, <1>3, <1>4, PromptsCacheStep

LEMMA PromptsFinish ==
    ASSUME PromptsInv, PC!Finish
    PROVE  PromptsInv'
<1>1. pc' = "idle" /\ UNCHANGED <<cache, supported, text, answer, tornCache, promptStore, native>>
  BY DEF PC!Finish, PC!Ends
<1>. QED  BY <1>1, PromptsCacheStep DEF PromptsInv, PromptTypes

LEMMA PromptsNextToken ==
    ASSUME PromptsInv, PC!NextToken
    PROVE  PromptsInv'
<1>1. /\ cache' = PC!Cached(text) /\ answer' = PC!Told(text, PC!Row(text), tornCache)
      /\ UNCHANGED <<supported, tornCache, promptStore, native>>
  BY DEF PC!NextToken
<1>2. PICK t \in Tokens : PC!GoesOn(<<>>, <<t>>)
  BY DEF PC!NextToken
<1>3. text \in TokenSeq /\ cache \in CacheRecord /\ supported \in BOOLEAN
      /\ tornCache \in BOOLEAN /\ (tornCache \/ IsTrueCache(cache))
  BY DEF PromptsInv, PromptTypes
<1>4. text' \in TokenSeq /\ Len(text') <= MaxLength /\ pc' \in {"idle", "stepping"}
  <2>1. <<>> \in TokenSeq
    BY DEF TokenSeq
  <2>2. <<t>> = <<>> \/ \E u \in Tokens : <<t>> = <<u>>
    OBVIOUS
  <2>. QED  BY <1>2, <2>1, <2>2, TextGoesOn
<1>5. /\ cache' \in CacheRecord /\ (tornCache \/ IsTrueCache(cache'))
      /\ tornCache \/ PC!Row(text) = text
  <2>1. CASE supported
    <3>1. cache' = PC!Advanced(text) /\ PC!Row(text) = PC!Advanced(text).row
      BY <1>1, <2>1 DEF PC!Cached, PC!Row
    <3>. QED  BY <1>3, <3>1, AdvancedFacts DEF IsTrueCache
  <2>2. CASE ~supported
    BY <1>1, <1>3, <2>2 DEF PC!Cached, PC!Row
  <2>. QED  BY <1>3, <2>1, <2>2
<1>6. answer'.torn \/ answer'.row = answer'.asked
  BY <1>1, <1>5 DEF PC!Told
<1>. QED  BY <1>1, <1>3, <1>4, <1>5, <1>6, PromptsCacheStep

LEMMA PromptsCacheUnsupported ==
    ASSUME PromptsInv, PC!CacheUnsupported
    PROVE  PromptsInv'
<1>1. /\ supported' = FALSE /\ cache' = PC!NoCache /\ tornCache' = FALSE /\ pc = "stepping"
      /\ UNCHANGED <<text, pc, answer, promptStore, native>>
  BY DEF PC!CacheUnsupported, PC!Reset
<1>2. text' \in TokenSeq /\ Len(text') <= MaxLength /\ pc' \in {"idle", "stepping"}
  BY <1>1 DEF PromptsInv, PromptTypes
<1>3. supported' \in BOOLEAN /\ tornCache' \in BOOLEAN
  BY <1>1, Zenon
<1>. QED  BY <1>1, <1>2, <1>3, NoCacheFacts, PromptsCacheStep

\* The tensors with the last token of the text, when only that is not yet in them.
LEMMA OneMore ==
    ASSUME PromptsInv, PC!OneBehind
    PROVE  /\ PC!Last(text) \in Tokens
           /\ cache.held \o <<PC!Last(text)>> \in TokenSeq
           /\ Append(cache.held, PC!Last(text)) = cache.held \o <<PC!Last(text)>>
           /\ Len(cache.held \o <<PC!Last(text)>>) = Len(cache.held) + 1
           /\ tornCache \/ cache.held \o <<PC!Last(text)>> = text
<1>0. /\ text \in TokenSeq /\ cache.held \in TokenSeq /\ cache.prefix \in TokenSeq
      /\ tornCache \/ IsTrueCache(cache)
  BY DEF PromptsInv, PromptTypes, CacheRecord
<1>1. cache.there /\ Len(text) = Len(cache.prefix) + 1 /\ PC!Front(text) = cache.prefix
  BY DEF PC!OneBehind
<1>2. Len(cache.prefix) \in Nat /\ Len(cache.held) \in Nat
  BY <1>0 DEF TokenSeq
<1>3. Len(text) # 0
  BY <1>1, <1>2
<1>4. PC!Last(text) \in Tokens /\ PC!Front(text) \o <<PC!Last(text)>> = text
  BY <1>0, <1>3, FrontAndLast
<1>5. PICK e \in Tokens : e = PC!Last(text)
  BY <1>4
<1>6. <<e>> \in TokenSeq /\ Len(<<e>>) = 1
  BY DEF TokenSeq
<1>7. cache.held \o <<e>> \in TokenSeq /\ Len(cache.held \o <<e>>) = Len(cache.held) + 1
  BY <1>0, <1>6, TokensTogether, Zenon
<1>8. Append(cache.held, e) = cache.held \o <<e>>
  BY <1>0, AppendIsConcat DEF TokenSeq
<1>9. tornCache \/ cache.held = PC!Front(text)
  BY <1>0, <1>1 DEF IsTrueCache
<1>. QED  BY <1>4, <1>5, <1>7, <1>8, <1>9

LEMMA PromptsVerifyExtension ==
    ASSUME PromptsInv, PC!VerifyExtension
    PROVE  PromptsInv'
<1>. DEFINE base == cache.held \o <<PC!Last(text)>>
<1>1. PC!OneBehind /\ UNCHANGED <<supported, tornCache, promptStore, native>>
  BY DEF PC!VerifyExtension
<1>2. PICK d \in PC!Drafts, n \in 0 .. MaxDraft :
         /\ n <= Len(d)
         /\ cache' \in PC!Committed(base \o d, d, n)
         /\ answer' = PC!Told(text \o SubSeq(d, 1, n),
                              SubSeq(base \o d, 1, Len(cache.held) + 1 + n), tornCache)
         /\ \E told \in {<<>>} \cup {<<t>> : t \in Tokens} : PC!GoesOn(SubSeq(d, 1, n), told)
  BY DEF PC!VerifyExtension
<1>3. base \in TokenSeq /\ Len(base) = Len(cache.held) + 1 /\ (tornCache \/ base = text)
  BY <1>1, OneMore
<1>. HIDE DEF base
<1>4. text \in TokenSeq /\ supported \in BOOLEAN /\ tornCache \in BOOLEAN
  BY DEF PromptsInv, PromptTypes
<1>5. d \in TokenSeq /\ n \in 0 .. Len(d)
  BY <1>2, DraftIsText
<1>6. SubSeq(d, 1, n) \in TokenSeq
  BY <1>5, FirstTokens
<1>7. text' \in TokenSeq /\ Len(text') <= MaxLength /\ pc' \in {"idle", "stepping"}
  <2>1. PICK told \in {<<>>} \cup {<<t>> : t \in Tokens} : PC!GoesOn(SubSeq(d, 1, n), told)
    BY <1>2
  <2>2. told = <<>> \/ \E t \in Tokens : told = <<t>>
    BY <2>1
  <2>. QED  BY <1>6, <2>1, <2>2, TextGoesOn
<1>8. cache' \in CacheRecord /\ (tornCache \/ IsTrueCache(cache'))
  BY <1>2, <1>3, <1>4, <1>5, CommittedFacts
<1>9. SubSeq(base \o d, 1, Len(base) + n) = base \o SubSeq(d, 1, n)
  BY <1>3, <1>5, CutDraft, Zenon
<1>10. answer'.torn \/ answer'.row = answer'.asked
  <2>1. /\ answer'.torn = tornCache /\ answer'.asked = text \o SubSeq(d, 1, n)
        /\ answer'.row = SubSeq(base \o d, 1, Len(base) + n)
    BY <1>2, <1>3, Zenon DEF PC!Told
  <2>. QED  BY <1>3, <1>9, <2>1, Zenon
<1>. QED  BY <1>1, <1>4, <1>7, <1>8, <1>10, PromptsCacheStep

LEMMA PromptsVerifyCached ==
    ASSUME PromptsInv, PC!VerifyCached
    PROVE  PromptsInv'
<1>. DEFINE now == PC!Advanced(text)
<1>1. UNCHANGED <<supported, tornCache, promptStore, native>>
  BY DEF PC!VerifyCached
<1>2. \/ /\ cache' = now
         /\ answer' = PC!Told(text, now.row, tornCache)
         /\ (\E t \in Tokens : PC!GoesOn(<<>>, <<t>>)) \/ PC!GoesOn(<<>>, <<>>)
      \/ \E d \in PC!Drafts, n \in 1 .. MaxDraft :
            /\ n <= Len(d)
            /\ cache' \in PC!Committed(now.held \o d, d, n)
            /\ answer' = PC!Told(text \o SubSeq(d, 1, n),
                                 SubSeq(now.held \o d, 1, Len(now.held) + n), tornCache)
            /\ \E told \in {<<>>} \cup {<<t>> : t \in Tokens} :
                  PC!GoesOn(SubSeq(d, 1, n), told)
  BY DEF PC!VerifyCached
<1>3. text \in TokenSeq /\ supported \in BOOLEAN /\ tornCache \in BOOLEAN
      /\ cache \in CacheRecord /\ (tornCache \/ IsTrueCache(cache))
  BY DEF PromptsInv, PromptTypes
<1>4. /\ now \in CacheRecord /\ now.there /\ now.prefix = text
      /\ tornCache \/ (now.held = text /\ now.row = text)
  BY <1>3, AdvancedFacts
<1>. HIDE DEF now
<1>5. now.held \in TokenSeq
  BY <1>4 DEF CacheRecord
<1>6. <<>> \in TokenSeq
  BY DEF TokenSeq
<1>7. CASE /\ cache' = now
           /\ answer' = PC!Told(text, now.row, tornCache)
           /\ (\E t \in Tokens : PC!GoesOn(<<>>, <<t>>)) \/ PC!GoesOn(<<>>, <<>>)
  <2>1. text' \in TokenSeq /\ Len(text') <= MaxLength /\ pc' \in {"idle", "stepping"}
    <3>1. CASE \E t \in Tokens : PC!GoesOn(<<>>, <<t>>)
      <4>1. PICK t \in Tokens : PC!GoesOn(<<>>, <<t>>)
        BY <3>1
      <4>2. <<t>> = <<>> \/ \E u \in Tokens : <<t>> = <<u>>
        OBVIOUS
      <4>. QED  BY <1>6, <4>1, <4>2, TextGoesOn
    <3>2. CASE PC!GoesOn(<<>>, <<>>)
      BY <1>6, <3>2, TextGoesOn
    <3>. QED  BY <1>7, <3>1, <3>2
  <2>2. cache' \in CacheRecord /\ (tornCache \/ IsTrueCache(cache'))
    BY <1>4, <1>7 DEF IsTrueCache
  <2>3. answer'.torn \/ answer'.row = answer'.asked
    BY <1>4, <1>7 DEF PC!Told
  <2>. QED  BY <1>1, <1>3, <2>1, <2>2, <2>3, PromptsCacheStep
<1>8. CASE \E d \in PC!Drafts, n \in 1 .. MaxDraft :
              /\ n <= Len(d)
              /\ cache' \in PC!Committed(now.held \o d, d, n)
              /\ answer' = PC!Told(text \o SubSeq(d, 1, n),
                                   SubSeq(now.held \o d, 1, Len(now.held) + n), tornCache)
              /\ \E told \in {<<>>} \cup {<<t>> : t \in Tokens} :
                    PC!GoesOn(SubSeq(d, 1, n), told)
  <2>1. PICK d \in PC!Drafts, n \in 1 .. MaxDraft :
              /\ n <= Len(d)
              /\ cache' \in PC!Committed(now.held \o d, d, n)
              /\ answer' = PC!Told(text \o SubSeq(d, 1, n),
                                   SubSeq(now.held \o d, 1, Len(now.held) + n), tornCache)
              /\ \E told \in {<<>>} \cup {<<t>> : t \in Tokens} :
                    PC!GoesOn(SubSeq(d, 1, n), told)
    BY <1>8
  <2>2. d \in TokenSeq /\ n \in 0 .. Len(d)
    BY <2>1, DraftIsText
  <2>3. SubSeq(d, 1, n) \in TokenSeq
    BY <2>2, FirstTokens
  <2>4. text' \in TokenSeq /\ Len(text') <= MaxLength /\ pc' \in {"idle", "stepping"}
    <3>1. PICK told \in {<<>>} \cup {<<t>> : t \in Tokens} : PC!GoesOn(SubSeq(d, 1, n), told)
      BY <2>1
    <3>2. told = <<>> \/ \E t \in Tokens : told = <<t>>
      BY <3>1
    <3>. QED  BY <2>3, <3>1, <3>2, TextGoesOn
  <2>5. cache' \in CacheRecord /\ (tornCache \/ IsTrueCache(cache'))
    BY <1>3, <1>4, <1>5, <2>1, <2>2, CommittedFacts
  <2>6. SubSeq(now.held \o d, 1, Len(now.held) + n) = now.held \o SubSeq(d, 1, n)
    BY <1>5, <2>2, CutDraft, Zenon
  <2>7. answer'.torn \/ answer'.row = answer'.asked
    <3>1. /\ answer'.torn = tornCache /\ answer'.asked = text \o SubSeq(d, 1, n)
          /\ answer'.row = SubSeq(now.held \o d, 1, Len(now.held) + n)
      BY <2>1 DEF PC!Told
    <3>. QED  BY <1>4, <2>6, <3>1, Zenon
  <2>. QED  BY <1>1, <1>3, <2>4, <2>5, <2>7, PromptsCacheStep
<1>. QED  BY <1>2, <1>7, <1>8, Zenon

LEMMA PromptsVerifyStateless ==
    ASSUME PromptsInv, PC!VerifyStateless
    PROVE  PromptsInv'
<1>1. PICK d \in PC!Drafts, n \in 0 .. MaxDraft, told \in {<<>>} \cup {<<t>> : t \in Tokens} :
         /\ n <= Len(d)
         /\ answer' = PC!Told(text \o SubSeq(d, 1, n), text \o SubSeq(d, 1, n), FALSE)
         /\ PC!GoesOn(SubSeq(d, 1, n), told)
  BY Zenon DEF PC!VerifyStateless
<1>2. UNCHANGED <<cache, supported, tornCache, promptStore, native>>
  BY DEF PC!VerifyStateless
<1>3. d \in TokenSeq /\ n \in 0 .. Len(d)
  BY <1>1, DraftIsText
<1>4. SubSeq(d, 1, n) \in TokenSeq
  BY <1>3, FirstTokens
<1>5. text' \in TokenSeq /\ Len(text') <= MaxLength /\ pc' \in {"idle", "stepping"}
  <2>1. told = <<>> \/ \E t \in Tokens : told = <<t>>
    BY <1>1
  <2>. QED  BY <1>1, <1>4, <2>1, TextGoesOn
<1>6. answer'.torn \/ answer'.row = answer'.asked
  BY <1>1 DEF PC!Told
<1>. QED  BY <1>2, <1>5, <1>6, PromptsCacheStep DEF PromptsInv, PromptTypes

LEMMA PromptsContinueTokens ==
    ASSUME PromptsInv, PC!ContinueTokens
    PROVE  PromptsInv'
<1>1. /\ PC!OneBehind /\ answer' = PC!Told(text, Append(cache.held, PC!Last(text)), tornCache)
      /\ cache' = PC!NoCache /\ tornCache' = FALSE /\ pc' = "idle"
      /\ UNCHANGED <<supported, text, promptStore, native>>
  BY DEF PC!ContinueTokens, PC!Reset, PC!Ends
<1>2. answer'.torn \/ answer'.row = answer'.asked
  BY <1>1, OneMore DEF PC!Told
<1>3. /\ text' \in TokenSeq /\ Len(text') <= MaxLength /\ pc' \in {"idle", "stepping"}
      /\ supported' \in BOOLEAN
  BY <1>1 DEF PromptsInv, PromptTypes
<1>4. tornCache' \in BOOLEAN
  BY <1>1, Zenon
<1>. QED  BY <1>1, <1>2, <1>3, <1>4, NoCacheFacts, PromptsCacheStep

LEMMA PromptsForwardRaises ==
    ASSUME PromptsInv, PC!ForwardRaises
    PROVE  PromptsInv'
<1>. DEFINE start == IF PC!Kept(text) \/ PC!Extends(text) THEN cache
                     ELSE [PC!NoCache EXCEPT !.there = TRUE]
<1>1. PICK d \in PC!Drafts \cup (IF PC!Kept(text) THEN {} ELSE {<<>>}) :
         \E n \in 0 .. Len(PC!From(text, Len(start.prefix)) \o d) :
            cache' = [start EXCEPT !.held =
                        @ \o SubSeq(PC!From(text, Len(start.prefix)) \o d, 1, n)]
  BY Zenon DEF PC!ForwardRaises
<1>2. /\ tornCache' = TRUE /\ pc' = "idle"
      /\ UNCHANGED <<supported, text, answer, promptStore, native>>
  BY DEF PC!ForwardRaises, PC!Ends
<1>3. text \in TokenSeq /\ cache \in CacheRecord
  BY DEF PromptsInv, PromptTypes
<1>4. start \in CacheRecord /\ Len(start.prefix) \in 0 .. Len(text)
  <2>0. Len(text) \in Nat
    BY <1>3 DEF TokenSeq
  <2>1. CASE PC!Kept(text)
    BY <1>3, <2>0, <2>1 DEF PC!Kept
  <2>2. CASE PC!Extends(text)
    <3>1. Len(cache.prefix) <= Len(text)
      BY <2>2 DEF PC!Extends, PC!IsStrictPrefix, PC!IsPrefix
    <3>2. Len(cache.prefix) \in Nat
      BY <1>3 DEF CacheRecord, TokenSeq
    <3>. QED  BY <1>3, <2>0, <2>2, <3>1, <3>2
  <2>3. CASE ~(PC!Kept(text) \/ PC!Extends(text))
    <3>0. <<>> \in TokenSeq
      BY DEF TokenSeq
    <3>1. PICK z \in TokenSeq : z = <<>>
      BY <3>0
    <3>2. start = [there |-> TRUE, held |-> z, prefix |-> z, row |-> z]
      BY <2>3, <3>1, Zenon DEF PC!NoCache
    <3>3. start \in CacheRecord
      <4>1. [there |-> TRUE, held |-> z, prefix |-> z, row |-> z] \in CacheRecord
        BY DEF CacheRecord
      <4>. HIDE DEF start
      <4>. QED  BY <3>2, <4>1
    <3>4. start.prefix = <<>> /\ Len(<<>>) = 0
      BY <3>1, <3>2
    <3>. QED  BY <2>0, <3>3, <3>4
  <2>. QED  BY <2>1, <2>2, <2>3
<1>. HIDE DEF start
<1>5. d \in TokenSeq
  <2>1. d \in PC!Drafts \/ d = <<>>
    BY <1>1
  <2>2. <<>> \in TokenSeq
    BY DEF TokenSeq
  <2>. QED  BY <2>1, <2>2, DraftIsText
<1>. DEFINE more == PC!From(text, Len(start.prefix)) \o d
<1>6. more \in TokenSeq
  <2>1. PC!From(text, Len(start.prefix)) \in TokenSeq
    BY <1>3, <1>4, RestOfTokens
  <2>. QED  BY <1>5, <2>1, TokensTogether
<1>7. PICK n \in 0 .. Len(more) : cache' = [start EXCEPT !.held = @ \o SubSeq(more, 1, n)]
  BY <1>1, Zenon
<1>. HIDE DEF more
<1>8. SubSeq(more, 1, n) \in TokenSeq
  BY <1>6, FirstTokens
<1>9. start.held \o SubSeq(more, 1, n) \in TokenSeq
  <2>1. start.held \in TokenSeq
    BY <1>4 DEF CacheRecord
  <2>. QED  BY <1>8, <2>1, TokensTogether
<1>10. PICK h \in TokenSeq : h = start.held \o SubSeq(more, 1, n)
  BY <1>9, Zenon
<1>11. cache' = [start EXCEPT !.held = h]
  BY <1>7, <1>10
<1>12. cache' \in CacheRecord
  BY <1>4, <1>11 DEF CacheRecord
<1>13. /\ text' \in TokenSeq /\ Len(text') <= MaxLength /\ supported' \in BOOLEAN
  BY <1>2 DEF PromptsInv, PromptTypes
<1>14. tornCache' \in BOOLEAN /\ tornCache'
  BY <1>2
<1>. QED  BY <1>2, <1>12, <1>13, <1>14, PromptsCacheStep

-----------------------------------------------------------------------------
(* The steps of a generation by mlx-lm.                                    *)

\* What a store holds after an entry is inserted: that entry, and entries it held before.
LEMMA InsertedFacts ==
    ASSUME IsPromptStore(promptStore),
           \A i \in 1 .. Len(promptStore) : IsTruePrompt(promptStore[i]),
           NEW e \in PromptEntry, IsTruePrompt(e)
    PROVE  /\ IsPromptStore(PC!Inserted(e))
           /\ \A i \in 1 .. Len(PC!Inserted(e)) : IsTruePrompt(PC!Inserted(e)[i])
<1>. DEFINE same == {i \in DOMAIN promptStore : promptStore[i].key = e.key}
            n    == CHOOSE i \in same : TRUE
            o    == IF same = {} THEN promptStore ELSE PC!RemoveAt(promptStore, n)
            r    == IF Len(o) = MaxEntries THEN Tail(o) ELSE o
            s    == Append(r, e)
            q    == promptStore
<1>0. q \in Seq(PromptEntry) /\ Len(q) \in Nat /\ DOMAIN q = 1 .. Len(q) /\ Len(q) <= MaxEntries
  BY DEF IsPromptStore
<1>a. MaxEntries \in Nat /\ MaxEntries >= 1
  BY PromptAssumption
<1>1. PC!Inserted(e) = s
  BY DEF PC!Inserted
<1>2. /\ o \in Seq(PromptEntry) /\ Len(o) \in Nat /\ Len(o) <= MaxEntries
      /\ \A i \in 1 .. Len(o) : o[i].key # e.key /\ \E j \in 1 .. Len(q) : o[i] = q[j]
      /\ \A i, j \in 1 .. Len(o) : o[i].key = o[j].key => i = j
  <2>1. CASE same = {}
    BY <1>0, <2>1 DEF IsPromptStore
  <2>2. CASE same # {}
    <3>1. n \in 1 .. Len(q) /\ q[n].key = e.key
      BY <1>0, <2>2
    <3>2. o = RemoveAt(q, n)
      BY <2>2, Zenon DEF PC!RemoveAt, RemoveAt
    <3>. HIDE DEF n, o
    <3>3. /\ RemoveAt(q, n) \in Seq(PromptEntry) /\ Len(RemoveAt(q, n)) = Len(q) - 1
          /\ \A j \in 1 .. Len(q) - 1 :
               RemoveAt(q, n)[j] = IF j < n THEN q[j] ELSE q[j + 1]
      BY <1>0, <3>1, RemoveAtFacts, Zenon
    <3>4. o \in Seq(PromptEntry) /\ Len(o) = Len(q) - 1 /\ Len(q) - 1 \in Nat
      BY <1>0, <3>1, <3>2, <3>3
    <3>5. ASSUME NEW i \in 1 .. Len(o)
          PROVE  \E m \in 1 .. Len(q) : o[i] = q[m] /\ m # n /\ m = (IF i < n THEN i ELSE i + 1)
      <4>1. i \in 1 .. Len(q) - 1 /\ i \in Nat /\ n \in Nat
        BY <1>0, <3>1, <3>4
      <4>2. o[i] = IF i < n THEN q[i] ELSE q[i + 1]
        BY <3>2, <3>3, <4>1
      <4>. HIDE DEF q
      <4>. QED  BY <1>0, <4>1, <4>2
    <3>6. ASSUME NEW i \in 1 .. Len(o)
          PROVE  o[i].key # e.key
      <4>1. PICK m \in 1 .. Len(q) : o[i] = q[m] /\ m # n
        BY <3>5
      <4>. QED  BY <3>1, <4>1 DEF IsPromptStore
    <3>7. ASSUME NEW i \in 1 .. Len(o), NEW j \in 1 .. Len(o), o[i].key = o[j].key
          PROVE  i = j
      <4>1. PICK m \in 1 .. Len(q) : o[i] = q[m] /\ m = (IF i < n THEN i ELSE i + 1)
        BY <3>5
      <4>2. PICK k \in 1 .. Len(q) : o[j] = q[k] /\ k = (IF j < n THEN j ELSE j + 1)
        BY <3>5
      <4>3. m = k
        BY <3>7, <4>1, <4>2 DEF IsPromptStore
      <4>4. i \in Nat /\ j \in Nat /\ n \in Nat
        BY <1>0, <3>1, <3>4
      <4>. QED  BY <4>1, <4>2, <4>3, <4>4
    <3>8. \A i \in 1 .. Len(o) : \E j \in 1 .. Len(q) : o[i] = q[j]
      BY <3>5
    <3>9. Len(o) \in Nat /\ Len(o) <= MaxEntries
      <4>. HIDE DEF q
      <4>. QED  BY <1>0, <1>a, <3>4
    <3>. QED  BY <3>4, <3>6, <3>7, <3>8, <3>9
  <2>. QED  BY <2>1, <2>2, Zenon
<1>. HIDE DEF same, n, o, q
<1>3. /\ r \in Seq(PromptEntry) /\ Len(r) \in Nat /\ Len(r) + 1 <= MaxEntries
      /\ \A i \in 1 .. Len(r) : r[i].key # e.key /\ \E j \in 1 .. Len(q) : r[i] = q[j]
      /\ \A i, j \in 1 .. Len(r) : r[i].key = r[j].key => i = j
  <2>1. CASE Len(o) = MaxEntries
    <3>0. r = Tail(o)
      BY <2>1
    <3>1. o # <<>>
      <4>1. Len(o) # 0
        BY <1>a, <2>1
      <4>. QED  BY <4>1
    <3>2. /\ Tail(o) \in Seq(PromptEntry) /\ Len(Tail(o)) = Len(o) - 1
          /\ \A i \in 1 .. Len(o) - 1 : Tail(o)[i] = o[i + 1]
      BY <1>2, <3>1
    <3>3. PICK l \in Nat : l = Len(o)
      BY <1>2
    <3>4. l >= 1 /\ l - 1 \in Nat /\ l - 1 + 1 <= MaxEntries
          /\ \A i \in 1 .. l - 1 : i + 1 \in 1 .. l
      BY <1>a, <2>1, <3>3
    <3>5. \A i \in 1 .. l - 1 : Tail(o)[i] = o[i + 1] /\ i + 1 \in 1 .. l
      BY <3>2, <3>3, <3>4
    <3>6. \A i, j \in 1 .. l - 1 : Tail(o)[i].key = Tail(o)[j].key => i = j
      <4>1. SUFFICES ASSUME NEW i \in 1 .. l - 1, NEW j \in 1 .. l - 1,
                            o[i + 1].key = o[j + 1].key
                     PROVE  i = j
        BY <3>5, Zenon
      <4>2. i + 1 = j + 1
        BY <1>2, <3>3, <3>4, <4>1
      <4>. QED  BY <4>2
    <3>7. \A i \in 1 .. l - 1 :
             Tail(o)[i].key # e.key /\ \E j \in 1 .. Len(q) : Tail(o)[i] = q[j]
      BY <1>2, <3>3, <3>5
    <3>8. Len(Tail(o)) = l - 1 /\ Len(Tail(o)) \in Nat /\ Len(Tail(o)) + 1 <= MaxEntries
      BY <3>2, <3>3, <3>4
    <3>. QED  BY <3>0, <3>2, <3>6, <3>7, <3>8, Zenon
  <2>2. CASE Len(o) # MaxEntries
    <3>1. Len(o) + 1 <= MaxEntries
      BY <1>2, <1>a, <2>2
    <3>. QED  BY <1>2, <2>2, <3>1
  <2>. QED  BY <2>1, <2>2, Zenon
<1>. HIDE DEF r
<1>4. /\ s \in Seq(PromptEntry) /\ Len(s) = Len(r) + 1 /\ s[Len(r) + 1] = e
      /\ \A i \in 1 .. Len(r) : s[i] = r[i]
  BY <1>3
<1>. HIDE DEF s
<1>5. \A i \in 1 .. Len(s) : i \in 1 .. Len(r) \/ i = Len(r) + 1
  BY <1>3, <1>4
<1>6. \A i, j \in 1 .. Len(s) : s[i].key = s[j].key => i = j
  <2>1. SUFFICES ASSUME NEW i \in 1 .. Len(s), NEW j \in 1 .. Len(s), s[i].key = s[j].key
                 PROVE  i = j
    OBVIOUS
  <2>2. CASE i \in 1 .. Len(r) /\ j \in 1 .. Len(r)
    BY <1>3, <1>4, <2>1, <2>2
  <2>3. CASE i \in 1 .. Len(r) /\ j = Len(r) + 1
    BY <1>3, <1>4, <2>1, <2>3, Zenon
  <2>4. CASE i = Len(r) + 1 /\ j \in 1 .. Len(r)
    BY <1>3, <1>4, <2>1, <2>4
  <2>. QED  BY <1>5, <2>2, <2>3, <2>4
<1>7. IsPromptStore(s)
  BY <1>3, <1>4, <1>6 DEF IsPromptStore
<1>8. \A i \in 1 .. Len(s) : IsTruePrompt(s[i])
  BY <1>3, <1>4, <1>5 DEF q
<1>. QED  BY <1>1, <1>7, <1>8

LEMMA PromptsStartNative ==
    ASSUME PromptsInv, PC!StartNative
    PROVE  PromptsInv'
<1>1. /\ promptStore' \in {promptStore, <<>>} /\ text' \in PC!Texts
      /\ native' \in PC!Fetched(promptStore', text')
      /\ cache' = PC!NoCache /\ tornCache' = FALSE /\ pc' = "prefill"
      /\ UNCHANGED <<supported, answer>>
  BY DEF PC!StartNative, PC!Reset
<1>2. text' \in TokenSeq /\ Len(text') <= MaxLength /\ Len(text') \in Nat
  <2>1. text' \in TokenSeq /\ Len(text') <= MaxLength
    BY <1>1, BoundedTokens, PromptAssumption DEF PC!Texts
  <2>. QED  BY <2>1 DEF TokenSeq
<1>3. /\ IsPromptStore(promptStore')
      /\ \A i \in 1 .. Len(promptStore') : IsTruePrompt(promptStore'[i])
  <2>1. CASE promptStore' = promptStore
    BY <2>1 DEF PromptsInv, PromptTypes, IsPromptStore
  <2>2. CASE promptStore' = <<>>
    <3>1. <<>> \in Seq(PromptEntry) /\ Len(<<>>) = 0
      OBVIOUS
    <3>2. 0 <= MaxEntries
      BY PromptAssumption
    <3>. QED  BY <2>2, <3>1, <3>2 DEF IsPromptStore
  <2>. QED  BY <1>1, <2>1, <2>2
<1>4. /\ native' \in PromptEntry /\ IsTruePrompt(native')
      /\ Len(native'.key) <= Len(text')
      /\ SubSeq(text', 1, Len(native'.key)) = native'.key
  <2>1. CASE native' = PC!NoRun
    <3>1. <<>> \in TokenSeq /\ Len(<<>>) = 0
      BY DEF TokenSeq
    <3>2. native'.key = <<>> /\ native'.held = <<>> /\ native' \in PromptEntry
      BY <2>1, <3>1 DEF PC!NoRun, PromptEntry
    <3>3. SubSeq(text', 1, 0) = <<>>
      <4>1. SubSeq(text', 1, 0) \in TokenSeq /\ Len(SubSeq(text', 1, 0)) = 0
        BY <1>2, FirstTokens
      <4>. QED  BY <3>1, <4>1, SameTokens
    <3>. QED  BY <1>2, <3>1, <3>2, <3>3 DEF IsTruePrompt
  <2>2. CASE native' # PC!NoRun
    <3>1. PICK i \in DOMAIN promptStore' :
            \E n \in 1 .. Len(PC!Common(promptStore'[i].key, text')) :
               native' = [key |-> SubSeq(promptStore'[i].key, 1, n), cut |-> promptStore'[i].cut,
                          held |-> PC!Trimmed(promptStore'[i].held,
                                     PC!LeastOf(Len(promptStore'[i].key) - n,
                                                Len(promptStore'[i].held)))]
      BY <1>1, <2>2 DEF PC!Fetched
    <3>2. PICK p : p = promptStore'[i]
      OBVIOUS
    <3>3. PICK n \in 1 .. Len(PC!Common(p.key, text')) :
             native' = [key |-> SubSeq(p.key, 1, n), cut |-> p.cut,
                        held |-> PC!Trimmed(p.held, PC!LeastOf(Len(p.key) - n, Len(p.held)))]
      BY <3>1, <3>2
    <3>4. p \in PromptEntry /\ IsTruePrompt(p)
      <4>1. i \in 1 .. Len(promptStore') /\ promptStore' \in Seq(PromptEntry)
        BY <1>3 DEF IsPromptStore
      <4>. QED  BY <1>3, <3>2, <4>1
    <3>5. p.key \in TokenSeq /\ p.held \in TokenSeq /\ p.cut \in BOOLEAN
      BY <3>4 DEF PromptEntry
    <3>6. Len(p.key) \in Nat /\ Len(p.held) \in Nat
      BY <3>5 DEF TokenSeq
    <3>7. /\ n \in 0 .. Len(p.key) /\ n <= Len(text')
          /\ SubSeq(p.key, 1, n) = SubSeq(text', 1, n)
      <4>1. PICK l : l = Len(PC!Common(p.key, text'))
        OBVIOUS
      <4>2. /\ l \in Nat /\ l <= Len(p.key) /\ l <= Len(text')
            /\ \A m \in 0 .. l : SubSeq(p.key, 1, m) = SubSeq(text', 1, m)
        BY <1>2, <3>5, <4>1, SharedBeginning, Zenon
      <4>3. n \in 0 .. l
        BY <3>3, <4>1, <4>2
      <4>. QED  BY <1>2, <3>6, <4>2, <4>3
    <3>8. SubSeq(p.key, 1, n) \in TokenSeq /\ Len(SubSeq(p.key, 1, n)) = n
      BY <3>5, <3>7, FirstTokens
    <3>9. PICK m : m = Len(p.held) - PC!LeastOf(Len(p.key) - n, Len(p.held))
      OBVIOUS
    <3>10. m \in 0 .. Len(p.held) /\ (p.held = p.key => m = n)
      <4>1. PICK a : a = Len(p.key)
        OBVIOUS
      <4>2. PICK b : b = Len(p.held)
        BY Zenon
      <4>3. /\ a \in Nat /\ b \in Nat /\ n \in 0 .. a
            /\ m = b - (IF a - n < b THEN a - n ELSE b) /\ (p.held = p.key => a = b)
        BY <3>6, <3>7, <3>9, <4>1, <4>2 DEF PC!LeastOf
      <4>4. m \in 0 .. b /\ (a = b => m = n)
        BY <4>3
      <4>. QED  BY <4>2, <4>3, <4>4
    <3>11. native' = [key |-> SubSeq(p.key, 1, n), cut |-> p.cut, held |-> SubSeq(p.held, 1, m)]
      BY <3>3, <3>9 DEF PC!Trimmed
    <3>12. SubSeq(p.held, 1, m) \in TokenSeq
      BY <3>5, <3>10, FirstTokens
    <3>13. /\ native'.key = SubSeq(p.key, 1, n) /\ native'.held = SubSeq(p.held, 1, m)
           /\ native'.cut = p.cut
      BY <3>11, Zenon
    <3>14. native' \in PromptEntry
      BY <3>5, <3>8, <3>11, <3>12 DEF PromptEntry
    <3>15. IsTruePrompt(native')
      BY <3>4, <3>10, <3>13 DEF IsTruePrompt
    <3>. QED  BY <3>7, <3>8, <3>13, <3>14, <3>15
  <2>. QED  BY <2>1, <2>2
<1>5. PromptTypes'
  BY <1>1, <1>2, <1>3, <1>4, NoCacheFacts, Zenon
  DEF PromptsInv, PromptTypes, PromptSteps, IsPromptStore
<1>6. NativeIsOfText'
  BY <1>1, <1>4 DEF NativeIsOfText, IsTruePrompt
<1>7. IsTrueCache(cache')
  BY <1>1, NoCacheFacts
<1>8. PC!AnswersFollowText'
  BY <1>1 DEF PromptsInv, PC!AnswersFollowText
<1>. QED  BY <1>3, <1>5, <1>6, <1>7, <1>8 DEF PromptsInv, IsTrueCache, IsTruePrompt

\* What was found of the prompt and what was missing are the prompt.
LEMMA MissingFacts ==
    ASSUME PromptsInv, pc = "prefill"
    PROVE  /\ PC!Missing \in TokenSeq
           /\ native.held \in TokenSeq
           /\ native.key \o PC!Missing = text
<1>1. /\ text \in TokenSeq /\ native.key \in TokenSeq /\ native.held \in TokenSeq
      /\ Len(native.key) <= Len(text)
      /\ SubSeq(text, 1, Len(native.key)) = native.key
  BY DEF PromptsInv, PromptTypes, PromptEntry, NativeIsOfText
<1>2. PICK n : n = Len(native.key)
  BY Zenon
<1>3. n \in 0 .. Len(text)
  BY <1>1, <1>2 DEF TokenSeq
<1>4. PC!Missing = PC!From(text, n)
  BY <1>2 DEF PC!Missing
<1>. QED  BY <1>1, <1>2, <1>3, <1>4, RestOfTokens, ShareAndRest, Zenon

LEMMA PromptsPrefill ==
    ASSUME PromptsInv, PC!Prefill
    PROVE  PromptsInv'
<1>1. /\ pc = "prefill" /\ pc' = "native"
      /\ native' = [native EXCEPT !.key = text, !.held = @ \o PC!Missing]
      /\ UNCHANGED <<cache, supported, text, answer, tornCache, promptStore>>
  BY DEF PC!Prefill
<1>2. PICK h : h = native.held \o PC!Missing
  BY Zenon
<1>3. h \in TokenSeq
  BY <1>1, <1>2, MissingFacts, TokensTogether
<1>4. native \in PromptEntry /\ text \in TokenSeq
  BY DEF PromptsInv, PromptTypes
<1>5. native' = [native EXCEPT !.key = text, !.held = h]
  BY <1>1, <1>2
<1>6. native' \in PromptEntry /\ native'.key = text /\ native'.held = h /\ native'.cut = native.cut
  BY <1>3, <1>4, <1>5, Zenon DEF PromptEntry
<1>7. native.cut \/ h = text
  BY <1>1, <1>2, MissingFacts, Zenon DEF PromptsInv, NativeIsOfText, IsTruePrompt
<1>8. PromptTypes'
  BY <1>1, <1>6 DEF PromptsInv, PromptTypes, PromptSteps, IsPromptStore
<1>9. NativeIsOfText'
  BY <1>1, <1>6, <1>7 DEF NativeIsOfText, IsTruePrompt
<1>10. PC!AnswersFollowText'
  BY <1>1 DEF PromptsInv, PC!AnswersFollowText
<1>. QED  BY <1>1, <1>8, <1>9, <1>10 DEF PromptsInv, IsTrueCache, IsTruePrompt

LEMMA PromptsNativeToken ==
    ASSUME PromptsInv, PC!NativeToken
    PROVE  PromptsInv'
<1>1. /\ pc = "native" /\ Len(text) < MaxLength
      /\ UNCHANGED <<cache, supported, pc, tornCache, promptStore>>
  BY DEF PC!NativeToken
<1>2. PICK t \in Tokens :
         /\ text' = Append(text, t)
         /\ native' = [native EXCEPT !.held = Append(@, t), !.key = Append(@, t)]
         /\ answer' = PC!Told(text, native.held, native.cut)
  BY Zenon DEF PC!NativeToken
<1>3. /\ native \in PromptEntry /\ text \in TokenSeq /\ native.key = text
      /\ native.cut \/ native.held = native.key
  BY <1>1 DEF PromptsInv, PromptTypes, NativeIsOfText, IsTruePrompt
<1>4. native.held \in TokenSeq /\ native.key \in TokenSeq
  BY <1>3 DEF PromptEntry
<1>5. PICK h : h = Append(native.held, t)
  BY Zenon
<1>6. PICK k : k = Append(native.key, t)
  BY Zenon
<1>7. h \in TokenSeq /\ k \in TokenSeq /\ text' \in TokenSeq /\ Len(text') = Len(text) + 1
  BY <1>2, <1>3, <1>4, <1>5, <1>6 DEF TokenSeq
<1>8. native' = [native EXCEPT !.held = h, !.key = k]
  BY <1>2, <1>5, <1>6
<1>9. native' \in PromptEntry /\ native'.key = k /\ native'.held = h /\ native'.cut = native.cut
  BY <1>3, <1>7, <1>8, Zenon DEF PromptEntry
<1>10. k = text' /\ (native.cut \/ h = k)
  BY <1>2, <1>3, <1>5, <1>6
<1>11. Len(text') <= MaxLength
  <2>1. Len(text) \in Nat
    BY <1>3 DEF TokenSeq
  <2>. QED  BY <1>1, <1>7, <2>1, PromptAssumption
<1>12. PromptTypes'
  BY <1>1, <1>7, <1>9, <1>11 DEF PromptsInv, PromptTypes, IsPromptStore
<1>13. NativeIsOfText'
  BY <1>1, <1>9, <1>10 DEF NativeIsOfText, IsTruePrompt
<1>14. PC!AnswersFollowText'
  BY <1>2, <1>3 DEF PC!AnswersFollowText, PC!Told
<1>. QED  BY <1>1, <1>12, <1>13, <1>14 DEF PromptsInv, IsTrueCache, IsTruePrompt

\* A generation by mlx-lm that has ended leaves an entry.
LEMMA PromptsNativeLeaves ==
    ASSUME PromptsInv, NEW e \in PromptEntry, IsTruePrompt(e), promptStore' = PC!Inserted(e),
           native' = PC!NoRun, pc' = "idle", UNCHANGED <<cache, supported, text, answer, tornCache>>
    PROVE  PromptsInv'
<1>1. IsPromptStore(promptStore) /\ \A i \in 1 .. Len(promptStore) : IsTruePrompt(promptStore[i])
  BY DEF PromptsInv, PromptTypes
<1>2. /\ IsPromptStore(promptStore')
      /\ \A i \in 1 .. Len(promptStore') : IsTruePrompt(promptStore'[i])
  BY <1>1, InsertedFacts
<1>3. native' \in PromptEntry /\ native'.held = native'.key
  <2>1. <<>> \in TokenSeq
    BY DEF TokenSeq
  <2>. QED  BY <2>1 DEF PC!NoRun, PromptEntry
<1>4. PromptTypes'
  BY <1>2, <1>3 DEF PromptsInv, PromptTypes, PromptSteps, IsPromptStore
<1>5. NativeIsOfText'
  BY <1>3 DEF NativeIsOfText, IsTruePrompt
<1>6. PC!AnswersFollowText'
  BY DEF PromptsInv, PC!AnswersFollowText
<1>. QED  BY <1>2, <1>4, <1>5, <1>6 DEF PromptsInv, IsTrueCache, IsTruePrompt

LEMMA PromptsNativeEnds ==
    ASSUME PromptsInv, PC!NativeEnds
    PROVE  PromptsInv'
<1>1. /\ promptStore' = PC!Inserted(native) /\ native' = PC!NoRun /\ pc' = "idle"
      /\ UNCHANGED <<cache, supported, text, answer, tornCache>>
  BY DEF PC!NativeEnds, PC!Ends
<1>2. native \in PromptEntry /\ IsTruePrompt(native)
  BY DEF PromptsInv, PromptTypes, NativeIsOfText
<1>. QED  BY <1>1, <1>2, PromptsNativeLeaves

LEMMA PromptsPrefillRaises ==
    ASSUME PromptsInv, PC!PrefillRaises
    PROVE  PromptsInv'
<1>1. /\ pc = "prefill" /\ native' = PC!NoRun /\ pc' = "idle"
      /\ UNCHANGED <<cache, supported, text, answer, tornCache>>
  BY DEF PC!PrefillRaises, PC!Ends
<1>2. PICK n \in 0 .. Len(PC!Missing) :
         promptStore' = PC!Inserted([key |-> text,
                                     held |-> native.held \o SubSeq(PC!Missing, 1, n),
                                     cut |-> native.cut \/ n < Len(PC!Missing)])
  BY Zenon DEF PC!PrefillRaises
<1>3. PICK h : h = native.held \o SubSeq(PC!Missing, 1, n)
  BY Zenon
<1>4. PICK b : b = (native.cut \/ n < Len(PC!Missing))
  OBVIOUS
<1>5. PICK e : e = [key |-> text, held |-> h, cut |-> b]
  BY Zenon
<1>6. promptStore' = PC!Inserted(e)
  BY <1>2, <1>3, <1>4, <1>5
<1>7. /\ PC!Missing \in TokenSeq /\ native.held \in TokenSeq
      /\ native.key \o PC!Missing = text /\ text \in TokenSeq
  BY <1>1, MissingFacts DEF PromptsInv, PromptTypes
<1>8. SubSeq(PC!Missing, 1, n) \in TokenSeq
  BY <1>7, FirstTokens
<1>9. h \in TokenSeq
  BY <1>3, <1>7, <1>8, TokensTogether, Zenon
<1>10. b \in BOOLEAN
  BY <1>4, Zenon
<1>11. e \in PromptEntry /\ e.key = text /\ e.held = h /\ e.cut = b
  BY <1>5, <1>7, <1>9, <1>10 DEF PromptEntry
<1>12. IsTruePrompt(e)
  <2>1. SUFFICES ASSUME ~b PROVE h = text
    BY <1>11 DEF IsTruePrompt
  <2>2. ~native.cut /\ ~(n < Len(PC!Missing))
    BY <1>4, <2>1, Zenon
  <2>3. PICK l : l = Len(PC!Missing)
    OBVIOUS
  <2>4. l \in Nat /\ n \in 0 .. l /\ ~(n < l)
    BY <1>7, <2>2, <2>3 DEF TokenSeq
  <2>5. n = l
    BY <2>4
  <2>6. SubSeq(PC!Missing, 1, n) = PC!Missing
    <3>1. /\ SubSeq(PC!Missing, 1, n) \in TokenSeq /\ Len(SubSeq(PC!Missing, 1, n)) = n
          /\ \A i \in 1 .. n : SubSeq(PC!Missing, 1, n)[i] = PC!Missing[i]
      BY <1>7, FirstTokens
    <3>. QED  BY <1>7, <2>3, <2>5, <3>1, SameTokens, Zenon
  <2>7. native.held = native.key
    BY <2>2 DEF PromptsInv, NativeIsOfText, IsTruePrompt
  <2>. QED  BY <1>3, <1>7, <2>6, <2>7, Zenon
<1>. QED  BY <1>1, <1>6, <1>11, <1>12, PromptsNativeLeaves

LEMMA PromptsStep == PromptsInv /\ [Next]_vars => PromptsInv'
<1> SUFFICES ASSUME PromptsInv, [Next]_vars PROVE PromptsInv'
  OBVIOUS
<1>1. CASE UNCHANGED promptsVars \/ PC!Done
  <2>1. UNCHANGED <<cache, supported, text, pc, answer, tornCache, promptStore, native>>
    BY <1>1 DEF promptsVars, PC!Done, PC!pvars
  <2>. QED
    BY <2>1 DEF PromptsInv, PromptTypes, IsPromptStore, IsTrueCache, IsTruePrompt,
       NativeIsOfText, PC!AnswersFollowText
<1>2. CASE PC!Next
  BY <1>1, <1>2, PromptsStart, PromptsFinish, PromptsNextToken, PromptsCacheUnsupported,
     PromptsVerifyExtension, PromptsVerifyCached, PromptsVerifyStateless, PromptsContinueTokens,
     PromptsForwardRaises, PromptsStartNative, PromptsPrefill, PromptsNativeToken,
     PromptsNativeEnds, PromptsPrefillRaises
  DEF PC!Next
<1>3. UNCHANGED promptsVars \/ PC!Next
  BY DEF Next, vars
<1>. QED  BY <1>1, <1>2, <1>3

-----------------------------------------------------------------------------
(* The images a vision model has seen (VisionCache).                       *)

ImageEntry == [key : VC!Keys, value : VC!Keys \cup {VC!None}]

\* A cache has room for MaxSize entries, of different keys.
IsImageCache(q) ==
    /\ q \in Seq(ImageEntry) /\ Len(q) <= MaxSize
    /\ \A i, j \in 1 .. Len(q) : q[i].key = q[j].key => i = j

ImageSteps == {"idle", "prepare", "prompt", "lookup", "store", "stream", "answered"}

ImageTypes ==
    /\ family \in VC!Families
    /\ disk \in [Files -> [content : Pictures, stamp : Nat]]
    /\ vision \in ImageSteps /\ request \in VC!Requests
    /\ keys \subseteq VC!Keys /\ tornKeys \subseteq VC!Keys /\ during \subseteq Pictures
    /\ IsImageCache(features) /\ IsImageCache(prompts)

\* A digest with the file's stamp is the one of its content.
DigestsAreTrue ==
    /\ DOMAIN digests \subseteq Files
    /\ \A f \in DOMAIN digests :
         /\ digests[f].stamp \in Nat /\ digests[f].stamp <= disk[f].stamp
         /\ digests[f].stamp = disk[f].stamp => digests[f].digest = disk[f].content

\* Outside of torn keys an entry holds what its key says, or no key/value state yet.
IsTrueOf(entry, broken) ==
    entry.key \in broken \/ entry.value = entry.key \/ entry.value = VC!None

ImageEntriesAreTrue ==
    /\ \A i \in 1 .. Len(features) :
         IsTrueOf(features[i], tornKeys) /\ features[i].value # VC!None
    /\ \A i \in 1 .. Len(prompts) : IsTrueOf(prompts[i], tornKeys)

\* The pixels are those of a moment of the request, and of the file as it is now if it has
\* the stamp they were read with.
PixelsAreRead ==
    vision \in {"prompt", "lookup", "store"} =>
        /\ pixels \in during
        /\ readAt \in Nat /\ readAt <= disk[request.file].stamp
        /\ readAt = disk[request.file].stamp => pixels = disk[request.file].content

\* The prompt state of a request stands under a key of the request, and is of its pixels
\* unless the key is torn.
StateIsOfPixels ==
    /\ promptState \in keys /\ VC!Has(prompts, promptState)
    /\ pixels \in during
    /\ promptState \in tornKeys \/ promptState = <<pixels, request.size>>

RequestIsTrue ==
    /\ vision # "idle" => disk[request.file].content \in during
    /\ vision = "idle" => keys = {} /\ during = {}
    /\ vision \in {"idle", "prepare", "prompt"} =>
         promptState = VC!None /\ used = VC!None
    /\ vision = "lookup" => StateIsOfPixels /\ used = VC!None
    /\ vision = "store" => StateIsOfPixels /\ used = <<pixels, request.size>>
    /\ vision = "stream" =>
         \/ promptState = VC!None /\ used = VC!None
         \/ /\ StateIsOfPixels
            /\ used \in VC!Keys \cup {VC!None}
            /\ promptState \in tornKeys \/ used = promptState \/ used = VC!None

AnswerIsTrue == VC!AnswersSeeTheImage

ImagesInv ==
    /\ ImageTypes /\ DigestsAreTrue /\ ImageEntriesAreTrue /\ PixelsAreRead
    /\ RequestIsTrue /\ AnswerIsTrue

\* A key is not the empty value.
LEMMA KeyIsNotNone ==
    /\ \A k \in VC!Keys : k # VC!None
    /\ \A p \in Pictures, s \in VC!Sizes :
         /\ <<p, s>> \in VC!Keys /\ <<p, s>> # VC!None
         /\ <<p, s>>[1] = p /\ <<p, s>>[2] = s
BY DEF VC!Keys, VC!None

\* The entries of a cache but the one with a key.
LEMMA OtherImages ==
    ASSUME NEW q, IsImageCache(q), NEW k
    PROVE  /\ IsImageCache(VC!Others(q, k))
           /\ Len(VC!Others(q, k)) = IF VC!Has(q, k) THEN Len(q) - 1 ELSE Len(q)
           /\ \A i \in 1 .. Len(VC!Others(q, k)) :
                /\ VC!Others(q, k)[i].key # k
                /\ \E j \in 1 .. Len(q) : VC!Others(q, k)[i] = q[j]
<1>0. q \in Seq(ImageEntry) /\ Len(q) \in Nat /\ DOMAIN q = 1 .. Len(q)
  BY DEF IsImageCache
<1>1. CASE ~VC!Has(q, k)
  BY <1>0, <1>1 DEF VC!Others, VC!Has
<1>2. CASE VC!Has(q, k)
  <2>. DEFINE n == VC!At(q, k)
  <2>1. n \in 1 .. Len(q) /\ q[n].key = k
    BY <1>0, <1>2 DEF VC!Has, VC!At
  <2>2. VC!Others(q, k) = RemoveAt(q, n)
    BY <1>2, Zenon DEF VC!Others, RemoveAt
  <2>. HIDE DEF n
  <2>3. /\ RemoveAt(q, n) \in Seq(ImageEntry) /\ Len(RemoveAt(q, n)) = Len(q) - 1
        /\ \A j \in 1 .. Len(q) - 1 :
             RemoveAt(q, n)[j] = IF j < n THEN q[j] ELSE q[j + 1]
    BY <1>0, <2>1, RemoveAtFacts, Zenon
  <2>. DEFINE r == RemoveAt(q, n)
  <2>. HIDE DEF r
  <2>4. r \in Seq(ImageEntry) /\ Len(r) = Len(q) - 1
    BY <2>3 DEF r
  <2>5. ASSUME NEW i \in 1 .. Len(r)
        PROVE  \E m \in 1 .. Len(q) : r[i] = q[m] /\ m # n /\ m = (IF i < n THEN i ELSE i + 1)
    <3>1. i \in 1 .. Len(q) - 1 /\ i \in Nat /\ n \in Nat
      BY <1>0, <2>1, <2>4
    <3>2. r[i] = IF i < n THEN q[i] ELSE q[i + 1]
      BY <2>3, <3>1 DEF r
    <3>. QED  BY <1>0, <3>1, <3>2
  <2>6. ASSUME NEW i \in 1 .. Len(r)
        PROVE  r[i].key # k
    <3>1. PICK m \in 1 .. Len(q) : r[i] = q[m] /\ m # n
      BY <2>5
    <3>. QED  BY <2>1, <3>1 DEF IsImageCache
  <2>7. ASSUME NEW i \in 1 .. Len(r), NEW j \in 1 .. Len(r), r[i].key = r[j].key
        PROVE  i = j
    <3>1. PICK m \in 1 .. Len(q) : r[i] = q[m] /\ m = (IF i < n THEN i ELSE i + 1)
      BY <2>5
    <3>2. PICK o \in 1 .. Len(q) : r[j] = q[o] /\ o = (IF j < n THEN j ELSE j + 1)
      BY <2>5
    <3>3. m = o
      BY <2>7, <3>1, <3>2 DEF IsImageCache
    <3>. QED  BY <1>0, <2>1, <2>4, <3>1, <3>2, <3>3
  <2>8. \A i \in 1 .. Len(r) : \E j \in 1 .. Len(q) : r[i] = q[j]
    BY <2>5
  <2>9. Len(r) <= MaxSize
    BY <1>0, <2>4, VisionAssumption DEF IsImageCache
  <2>10. IsImageCache(r)
    BY <2>4, <2>7, <2>9 DEF IsImageCache
  <2>. QED  BY <1>2, <2>2, <2>4, <2>6, <2>8, <2>10 DEF r
<1>. QED  BY <1>1, <1>2

\* What a cache holds after an entry is stored: that entry, and entries it held before.
LEMMA StoredImages ==
    ASSUME NEW q, IsImageCache(q), NEW k \in VC!Keys, NEW v \in VC!Keys \cup {VC!None}
    PROVE  /\ IsImageCache(VC!Stored(q, k, v))
           /\ VC!Has(VC!Stored(q, k, v), k)
           /\ \A i \in 1 .. Len(VC!Stored(q, k, v)) :
                \/ VC!Stored(q, k, v)[i] = [key |-> k, value |-> v]
                \/ \E j \in 1 .. Len(q) : VC!Stored(q, k, v)[i] = q[j]
<1>. DEFINE small == VC!Has(q, k) \/ Len(q) < MaxSize
            rest  == IF small THEN q ELSE Tail(q)
            o     == VC!Others(rest, k)
            e     == [key |-> k, value |-> v]
<1>0. q \in Seq(ImageEntry) /\ Len(q) \in Nat /\ DOMAIN q = 1 .. Len(q) /\ Len(q) <= MaxSize
  BY DEF IsImageCache
<1>a. MaxSize \in Nat /\ MaxSize >= 1
  BY VisionAssumption
<1>1. VC!Stored(q, k, v) = Append(o, e)
  BY DEF VC!Stored
<1>2. /\ IsImageCache(rest)
      /\ \A i \in 1 .. Len(rest) : \E j \in 1 .. Len(q) : rest[i] = q[j]
      /\ IF VC!Has(rest, k) THEN Len(rest) <= MaxSize ELSE Len(rest) < MaxSize
  <2>1. CASE small
    BY <1>0, <2>1
  <2>2. CASE ~small
    <3>0. Len(q) = MaxSize
      <4>1. ~(Len(q) < MaxSize)
        BY <2>2
      <4>2. PICK n : n = Len(q)
        BY Zenon
      <4>3. n \in Nat /\ n <= MaxSize /\ ~(n < MaxSize) /\ MaxSize \in Nat
        BY <1>0, <1>a, <4>1, <4>2
      <4>4. n = MaxSize
        BY <4>3
      <4>. QED  BY <4>2, <4>4
    <3>1. Len(q) = MaxSize /\ q # <<>>
      <4>1. Len(q) # 0
        BY <1>a, <3>0
      <4>. QED  BY <3>0, <4>1
    <3>2. Tail(q) \in Seq(ImageEntry) /\ Len(Tail(q)) = Len(q) - 1
      BY <1>0, <3>1
    <3>3. \A i \in 1 .. Len(q) - 1 : Tail(q)[i] = q[i + 1]
      BY <1>0, <3>1
    <3>4. \A i \in 1 .. Len(q) - 1 : i + 1 \in 1 .. Len(q)
      BY <1>0
    <3>5. \A i, j \in 1 .. Len(q) - 1 : Tail(q)[i].key = Tail(q)[j].key => i = j
      <4>1. SUFFICES ASSUME NEW i \in 1 .. Len(q) - 1, NEW j \in 1 .. Len(q) - 1,
                            q[i + 1].key = q[j + 1].key
                     PROVE  i = j
        BY <3>3
      <4>2. i + 1 = j + 1
        BY <3>4, <4>1 DEF IsImageCache
      <4>. QED  BY <1>0, <4>2
    <3>6. Len(Tail(q)) < MaxSize
      BY <1>0, <1>a, <3>1, <3>2
    <3>7. IsImageCache(Tail(q))
      BY <1>0, <1>a, <3>2, <3>5, <3>6 DEF IsImageCache
    <3>. QED  BY <1>0, <1>a, <2>2, <3>2, <3>3, <3>4, <3>6, <3>7
  <2>. QED  BY <2>1, <2>2
<1>. HIDE DEF small, rest
<1>3. /\ IsImageCache(o)
      /\ Len(o) = IF VC!Has(rest, k) THEN Len(rest) - 1 ELSE Len(rest)
      /\ \A i \in 1 .. Len(o) : o[i].key # k /\ \E j \in 1 .. Len(rest) : o[i] = rest[j]
  BY <1>2, OtherImages
<1>. HIDE DEF o
<1>4. o \in Seq(ImageEntry) /\ Len(o) \in Nat /\ Len(o) < MaxSize
  <2>1. Len(rest) \in Nat
    BY <1>2 DEF IsImageCache
  <2>2. o \in Seq(ImageEntry) /\ Len(o) \in Nat
    BY <1>3 DEF IsImageCache
  <2>. QED  BY <1>2, <1>3, <1>a, <2>1, <2>2
<1>5. e \in ImageEntry /\ e.key = k
  BY DEF ImageEntry
<1>. DEFINE s == Append(o, e)
<1>6. /\ s \in Seq(ImageEntry) /\ Len(s) = Len(o) + 1 /\ s[Len(o) + 1] = e
      /\ \A i \in 1 .. Len(o) : s[i] = o[i]
  <2>. HIDE DEF e
  <2>. QED  BY <1>4, <1>5
<1>. HIDE DEF s, e
<1>7. \A i \in 1 .. Len(s) : i \in 1 .. Len(o) \/ i = Len(o) + 1
  BY <1>4, <1>6
<1>8. \A i, j \in 1 .. Len(s) : s[i].key = s[j].key => i = j
  <2>1. SUFFICES ASSUME NEW i \in 1 .. Len(s), NEW j \in 1 .. Len(s), s[i].key = s[j].key
                 PROVE  i = j
    OBVIOUS
  <2>2. CASE i \in 1 .. Len(o) /\ j \in 1 .. Len(o)
    BY <1>3, <1>6, <2>1, <2>2, Zenon DEF IsImageCache
  <2>3. CASE i \in 1 .. Len(o) /\ j = Len(o) + 1
    BY <1>3, <1>5, <1>6, <2>1, <2>3, Zenon
  <2>4. CASE i = Len(o) + 1 /\ j \in 1 .. Len(o)
    BY <1>3, <1>5, <1>6, <2>1, <2>4, Zenon
  <2>. QED  BY <1>7, <2>2, <2>3, <2>4
<1>9. IsImageCache(s)
  <2>1. Len(s) <= MaxSize
    BY <1>4, <1>6, <1>a
  <2>. QED  BY <1>6, <1>8, <2>1 DEF IsImageCache
<1>10. VC!Has(s, k)
  <2>1. Len(o) + 1 \in DOMAIN s
    BY <1>4, <1>6
  <2>. QED  BY <1>5, <1>6, <2>1 DEF VC!Has
<1>11. ASSUME NEW i \in 1 .. Len(s)
       PROVE  s[i] = e \/ \E j \in 1 .. Len(q) : s[i] = q[j]
  BY <1>2, <1>3, <1>6, <1>7
<1>. QED  BY <1>1, <1>9, <1>10, <1>11 DEF s, e

\* The value under a key a cache has is the one of an entry with this key.
LEMMA ImageValue ==
    ASSUME NEW q, IsImageCache(q), NEW k, VC!Has(q, k)
    PROVE  /\ VC!Value(q, k) \in VC!Keys \cup {VC!None}
           /\ \E i \in 1 .. Len(q) : q[i].key = k /\ q[i].value = VC!Value(q, k)
<1>1. q \in Seq(ImageEntry) /\ DOMAIN q = 1 .. Len(q)
  BY DEF IsImageCache
<1>2. VC!At(q, k) \in 1 .. Len(q) /\ q[VC!At(q, k)].key = k
  BY <1>1 DEF VC!Has, VC!At
<1>3. q[VC!At(q, k)] \in ImageEntry
  BY <1>1, <1>2
<1>. QED  BY <1>2, <1>3 DEF VC!Value, ImageEntry

\* The digest of a file is the one of its content, and is remembered.
LEMMA DigestIsContent ==
    ASSUME DigestsAreTrue, NEW f \in Files
    PROVE  VC!Digest(f) = disk[f].content
BY DEF DigestsAreTrue, VC!Digest

LEMMA KeyIsContent ==
    ASSUME ImageTypes, DigestsAreTrue
    PROVE  /\ request.file \in Files /\ request.size \in VC!Sizes
           /\ request.cached \in BOOLEAN
           /\ disk[request.file].content \in Pictures
           /\ disk[request.file].stamp \in Nat
           /\ VC!KeyFor = <<disk[request.file].content, request.size>>
           /\ VC!KeyFor \in VC!Keys
<1>1. request.file \in Files /\ request.size \in VC!Sizes /\ request.cached \in BOOLEAN
  BY DEF ImageTypes, VC!Requests
<1>2. disk[request.file] \in [content : Pictures, stamp : Nat]
  BY <1>1 DEF ImageTypes
<1>3. disk[request.file].content \in Pictures /\ disk[request.file].stamp \in Nat
  BY <1>2
<1>4. VC!KeyFor = <<disk[request.file].content, request.size>>
  BY <1>1, DigestIsContent DEF VC!KeyFor
<1>. QED  BY <1>1, <1>3, <1>4, KeyIsNotNone

LEMMA RememberKeeps ==
    ASSUME ImageTypes, DigestsAreTrue, VC!Remember, UNCHANGED disk
    PROVE  DigestsAreTrue'
<1>1. request.file \in Files /\ disk[request.file].stamp \in Nat
  BY KeyIsContent
<1>2. VC!Digest(request.file) = disk[request.file].content
  BY <1>1, DigestIsContent
<1>3. digests' = [f \in DOMAIN digests \cup {request.file} |->
                    IF f = request.file
                    THEN [stamp |-> disk[f].stamp, digest |-> VC!Digest(f)] ELSE digests[f]]
  BY DEF VC!Remember
<1>4. DOMAIN digests' = DOMAIN digests \cup {request.file}
  BY <1>3
<1>5. ASSUME NEW f \in DOMAIN digests'
      PROVE  /\ digests'[f].stamp \in Nat /\ digests'[f].stamp <= disk[f].stamp
             /\ digests'[f].stamp = disk[f].stamp => digests'[f].digest = disk[f].content
  <2>1. CASE f = request.file
    <3>1. digests'[f] = [stamp |-> disk[f].stamp, digest |-> disk[f].content]
      BY <1>2, <1>3, <1>4, <2>1
    <3>. QED  BY <1>1, <2>1, <3>1
  <2>2. CASE f # request.file
    <3>1. digests'[f] = digests[f] /\ f \in DOMAIN digests
      BY <1>3, <1>4, <2>2
    <3>. QED  BY <3>1 DEF DigestsAreTrue
  <2>. QED  BY <2>1, <2>2
<1>. QED  BY <1>1, <1>4, <1>5 DEF DigestsAreTrue

\* What is torn stays torn, and a cache that is true stays so.
LEMMA TornGrows ==
    ASSUME NEW e, NEW small, NEW big, small \subseteq big, IsTrueOf(e, small)
    PROVE  IsTrueOf(e, big)
BY DEF IsTrueOf

LEMMA TearGrows ==
    ASSUME NEW set, VC!Tear(set)
    PROVE  /\ tornKeys \subseteq tornKeys' /\ tornKeys' \subseteq tornKeys \cup set
           /\ readAt # disk[request.file].stamp => set \subseteq tornKeys'
BY DEF VC!Tear

LEMMA StoredIsTrue ==
    ASSUME NEW q, IsImageCache(q), NEW k \in VC!Keys, NEW v \in VC!Keys \cup {VC!None},
           NEW small, NEW big, small \subseteq big,
           \A i \in 1 .. Len(q) : IsTrueOf(q[i], small),
           k \in big \/ v = k \/ v = VC!None
    PROVE  \A i \in 1 .. Len(VC!Stored(q, k, v)) : IsTrueOf(VC!Stored(q, k, v)[i], big)
<1>1. ASSUME NEW i \in 1 .. Len(VC!Stored(q, k, v))
      PROVE  IsTrueOf(VC!Stored(q, k, v)[i], big)
  <2>. DEFINE e == VC!Stored(q, k, v)[i]
  <2>1. e = [key |-> k, value |-> v] \/ \E j \in 1 .. Len(q) : e = q[j]
    BY StoredImages
  <2>. SUFFICES IsTrueOf(e, big)
    OBVIOUS
  <2>. HIDE DEF e
  <2>2. CASE e = [key |-> k, value |-> v]
    BY <2>2 DEF IsTrueOf
  <2>3. CASE \E j \in 1 .. Len(q) : e = q[j]
    BY <2>3, TornGrows
  <2>. QED  BY <2>1, <2>2, <2>3
<1>. QED  BY <1>1

LEMMA ImagesInit == Init => ImagesInv
<1> SUFFICES ASSUME Init PROVE ImagesInv
  OBVIOUS
<1>0. VC!Init
  BY DEF Init
<1>1. (CHOOSE c \in Pictures : TRUE) \in Pictures /\ (CHOOSE f \in Files : TRUE) \in Files
  BY VisionAssumption
<1>2. disk \in [Files -> [content : Pictures, stamp : Nat]]
  BY <1>0, <1>1 DEF VC!Init
<1>3. request \in VC!Requests /\ family \in VC!Families
  BY <1>0, <1>1 DEF VC!Init, VC!Requests, VC!Sizes
<1>4. IsImageCache(<<>>)
  <2>1. <<>> \in Seq(ImageEntry) /\ Len(<<>>) = 0
    OBVIOUS
  <2>2. 0 <= MaxSize
    BY VisionAssumption
  <2>. QED  BY <2>1, <2>2 DEF IsImageCache
<1>5. ImageTypes
  BY <1>0, <1>2, <1>3, <1>4 DEF VC!Init, ImageTypes, ImageSteps
<1>6. DigestsAreTrue
  BY <1>0 DEF VC!Init, DigestsAreTrue
<1>7. ImageEntriesAreTrue /\ PixelsAreRead /\ RequestIsTrue /\ AnswerIsTrue
  BY <1>0 DEF VC!Init, ImageEntriesAreTrue, PixelsAreRead, RequestIsTrue, AnswerIsTrue,
     VC!AnswersSeeTheImage
<1>. QED  BY <1>5, <1>6, <1>7 DEF ImagesInv

LEMMA ImagesHold ==
    ASSUME ImagesInv
    PROVE  VC!TypeOK /\ VC!AnswersSeeTheImage
<1>1. ASSUME NEW q, IsImageCache(q)
      PROVE  VC!IsCache(q)
  <2>1. q \in Seq(ImageEntry) /\ DOMAIN q = 1 .. Len(q)
    BY <1>1 DEF IsImageCache
  <2>2. \A i \in 1 .. Len(q) : q[i] \in ImageEntry
    BY <2>1
  <2>3. \A i \in 1 .. Len(q) : q[i].key \in VC!Keys /\ q[i].value \in VC!Keys \cup {VC!None}
    BY <2>2 DEF ImageEntry
  <2>. QED  BY <1>1, <2>1, <2>3 DEF IsImageCache, VC!IsCache
<1>2. vision = "stream" /\ promptState # VC!None => VC!Has(prompts, promptState)
  BY DEF ImagesInv, RequestIsTrue, StateIsOfPixels
<1>3. VC!IsCache(features) /\ VC!IsCache(prompts)
  BY <1>1 DEF ImagesInv, ImageTypes
<1>. QED  BY <1>2, <1>3 DEF ImagesInv, ImageTypes, ImageSteps, AnswerIsTrue, VC!TypeOK

-----------------------------------------------------------------------------
(* The steps.                                                              *)

LEMMA ImagesBegin ==
    ASSUME ImagesInv, VC!Begin
    PROVE  ImagesInv'
<1>0. /\ vision = "idle" /\ request' \in VC!Requests
      /\ vision' = IF request'.cached THEN "prepare" ELSE "stream"
      /\ during' = {disk[request'.file].content}
      /\ UNCHANGED <<family, disk, digests, features, prompts, pixels, readAt, used,
                     promptState, seen, keys, tornKeys>>
  BY DEF VC!Begin, VC!caches
<1>1. request'.file \in Files
  BY <1>0 DEF VC!Requests
<1>2. disk[request'.file].content \in Pictures
  <2>1. disk[request'.file] \in [content : Pictures, stamp : Nat]
    BY <1>1 DEF ImagesInv, ImageTypes
  <2>. QED  BY <2>1
<1>3. ImageTypes'
  BY <1>0, <1>2 DEF ImagesInv, ImageTypes, ImageSteps
<1>4. DigestsAreTrue' /\ ImageEntriesAreTrue'
  BY <1>0 DEF ImagesInv, DigestsAreTrue, ImageEntriesAreTrue
<1>5. RequestIsTrue'
  BY <1>0 DEF ImagesInv, RequestIsTrue
<1>6. PixelsAreRead' /\ AnswerIsTrue'
  BY <1>0 DEF PixelsAreRead, AnswerIsTrue, VC!AnswersSeeTheImage
<1>. QED  BY <1>3, <1>4, <1>5, <1>6 DEF ImagesInv

LEMMA ImagesReadPixels ==
    ASSUME ImagesInv, VC!ReadPixels
    PROVE  ImagesInv'
<1>0. /\ vision = "prepare" /\ vision' = "prompt"
      /\ pixels' = disk[request.file].content /\ readAt' = disk[request.file].stamp
      /\ UNCHANGED <<family, disk, digests, features, prompts, request, used, promptState,
                     seen, keys, during, tornKeys>>
  BY DEF VC!ReadPixels, VC!caches
<1>1. disk[request.file].stamp \in Nat
  BY KeyIsContent DEF ImagesInv
<1>2. ImageTypes'
  BY <1>0 DEF ImagesInv, ImageTypes, ImageSteps
<1>3. DigestsAreTrue' /\ ImageEntriesAreTrue'
  BY <1>0 DEF ImagesInv, DigestsAreTrue, ImageEntriesAreTrue
<1>4. RequestIsTrue'
  BY <1>0 DEF ImagesInv, RequestIsTrue
<1>5. PixelsAreRead' /\ AnswerIsTrue'
  BY <1>0, <1>1 DEF ImagesInv, RequestIsTrue, PixelsAreRead, AnswerIsTrue,
     VC!AnswersSeeTheImage
<1>. QED  BY <1>2, <1>3, <1>4, <1>5 DEF ImagesInv

LEMMA ImagesPromptState ==
    ASSUME ImagesInv, VC!PromptState
    PROVE  ImagesInv'
<1>. DEFINE k == VC!KeyFor
<1>0. /\ vision = "prompt" /\ VC!Remember /\ keys' = keys \cup {k} /\ VC!Tear({k})
      /\ promptState' = k /\ prompts' = VC!PromptsFor(k)
      /\ vision' \in {"stream", "lookup"}
      /\ UNCHANGED <<family, disk, features, request, pixels, readAt, used, seen, during>>
  BY DEF VC!PromptState
<1>1. /\ k \in VC!Keys /\ k = <<disk[request.file].content, request.size>>
      /\ request.size \in VC!Sizes
  BY KeyIsContent DEF ImagesInv
<1>. HIDE DEF k
<1>2. /\ tornKeys \subseteq tornKeys' /\ tornKeys' \subseteq tornKeys \cup {k}
      /\ readAt # disk[request.file].stamp => k \in tornKeys'
  BY <1>0, TearGrows
<1>3. /\ pixels \in during
      /\ readAt = disk[request.file].stamp => pixels = disk[request.file].content
      /\ used = VC!None
  BY <1>0 DEF ImagesInv, PixelsAreRead, RequestIsTrue
<1>4. IsImageCache(prompts) /\ \A i \in 1 .. Len(prompts) : IsTrueOf(prompts[i], tornKeys)
  BY DEF ImagesInv, ImageTypes, ImageEntriesAreTrue
<1>5. \E v \in VC!Keys \cup {VC!None} :
         /\ prompts' = VC!Stored(prompts, k, v)
         /\ k \in tornKeys \/ v = k \/ v = VC!None
  <2>1. CASE VC!Has(prompts, k) /\ family # "recurrent"
    <3>1. prompts' = VC!Stored(prompts, k, VC!Value(prompts, k))
      BY <1>0, <2>1 DEF VC!PromptsFor, VC!Touched
    <3>2. VC!Value(prompts, k) \in VC!Keys \cup {VC!None}
      BY <1>4, <2>1, ImageValue
    <3>3. PICK i \in 1 .. Len(prompts) :
             prompts[i].key = k /\ prompts[i].value = VC!Value(prompts, k)
      BY <1>4, <2>1, ImageValue
    <3>4. IsTrueOf(prompts[i], tornKeys)
      BY <1>4
    <3>5. k \in tornKeys \/ VC!Value(prompts, k) = k \/ VC!Value(prompts, k) = VC!None
      BY <3>3, <3>4 DEF IsTrueOf
    <3>. QED  BY <3>1, <3>2, <3>5
  <2>2. CASE ~(VC!Has(prompts, k) /\ family # "recurrent")
    BY <1>0, <2>2 DEF VC!PromptsFor
  <2>. QED  BY <2>1, <2>2
<1>6. PICK v \in VC!Keys \cup {VC!None} :
         /\ prompts' = VC!Stored(prompts, k, v)
         /\ k \in tornKeys \/ v = k \/ v = VC!None
  BY <1>5
<1>7. IsImageCache(prompts') /\ VC!Has(prompts', k)
  BY <1>1, <1>4, <1>6, StoredImages, Zenon
<1>8. \A i \in 1 .. Len(prompts') : IsTrueOf(prompts'[i], tornKeys')
  <2>1. k \in tornKeys' \/ v = k \/ v = VC!None
    BY <1>2, <1>6
  <2>. QED  BY <1>1, <1>2, <1>4, <1>6, <2>1, StoredIsTrue, Zenon
<1>9. ImageTypes'
  BY <1>0, <1>1, <1>2, <1>7, Zenon DEF ImagesInv, ImageTypes, ImageSteps, IsImageCache
<1>10. DigestsAreTrue'
  BY <1>0, RememberKeeps DEF ImagesInv
<1>11. ImageEntriesAreTrue'
  BY <1>0, <1>2, <1>8, TornGrows DEF ImagesInv, ImageEntriesAreTrue
<1>12. PixelsAreRead'
  BY <1>0 DEF ImagesInv, PixelsAreRead
<1>13. StateIsOfPixels'
  <2>1. k \in tornKeys' \/ k = <<pixels, request.size>>
    BY <1>1, <1>2, <1>3
  <2>. QED  BY <1>0, <1>3, <1>7, <2>1 DEF StateIsOfPixels, VC!Has
<1>14. RequestIsTrue'
  BY <1>0, <1>3, <1>13 DEF ImagesInv, RequestIsTrue
<1>15. AnswerIsTrue'
  BY <1>0 DEF AnswerIsTrue, VC!AnswersSeeTheImage
<1>. QED  BY <1>9, <1>10, <1>11, <1>12, <1>14, <1>15 DEF ImagesInv

LEMMA ImagesLookup ==
    ASSUME ImagesInv, VC!Lookup
    PROVE  ImagesInv'
<1>. DEFINE k == VC!KeyFor
<1>0. /\ vision = "lookup" /\ VC!Remember /\ keys' = keys \cup {k}
      /\ VC!Tear({k, promptState})
      /\ UNCHANGED <<family, disk, prompts, request, pixels, readAt, seen, during>>
  BY DEF VC!Lookup
<1>a. \/ /\ VC!Has(features, k) /\ used' = VC!Value(features, k)
         /\ features' = VC!Touched(features, k)
         /\ vision' = "stream" /\ promptState' = promptState
      \/ /\ features' = features /\ vision' = "stream" /\ promptState' = VC!None
         /\ used' = used
      \/ /\ features' = features /\ vision' = "store" /\ used' = <<pixels, request.size>>
         /\ promptState' = promptState
  BY DEF VC!Lookup
<1>1. /\ k \in VC!Keys /\ k = <<disk[request.file].content, request.size>>
      /\ request.size \in VC!Sizes
  BY KeyIsContent DEF ImagesInv
<1>. HIDE DEF k
<1>2. /\ tornKeys \subseteq tornKeys' /\ tornKeys' \subseteq tornKeys \cup {k, promptState}
      /\ readAt # disk[request.file].stamp => {k, promptState} \subseteq tornKeys'
  BY <1>0, TearGrows
<1>3. /\ pixels \in during
      /\ readAt = disk[request.file].stamp => pixels = disk[request.file].content
      /\ used = VC!None /\ StateIsOfPixels
  BY <1>0 DEF ImagesInv, PixelsAreRead, RequestIsTrue
<1>4. /\ IsImageCache(features)
      /\ \A i \in 1 .. Len(features) :
           IsTrueOf(features[i], tornKeys) /\ features[i].value # VC!None
  BY DEF ImagesInv, ImageTypes, ImageEntriesAreTrue
<1>5. /\ IsImageCache(features')
      /\ \A i \in 1 .. Len(features') :
           IsTrueOf(features'[i], tornKeys') /\ features'[i].value # VC!None
      /\ used' \in VC!Keys \cup {VC!None}
      /\ VC!Has(features, k) /\ used' = VC!Value(features, k) =>
           k \in tornKeys \/ used' = k
  <2>1. CASE VC!Has(features, k) /\ used' = VC!Value(features, k)
               /\ features' = VC!Touched(features, k)
    <3>1. features' = VC!Stored(features, k, used')
      BY <2>1 DEF VC!Touched
    <3>2. used' \in VC!Keys \cup {VC!None}
      BY <1>4, <2>1, ImageValue
    <3>3. PICK i \in 1 .. Len(features) : features[i].key = k /\ features[i].value = used'
      BY <1>4, <2>1, ImageValue
    <3>4. IsTrueOf(features[i], tornKeys) /\ used' # VC!None
      BY <1>4, <3>3
    <3>5. k \in tornKeys \/ used' = k
      BY <3>3, <3>4 DEF IsTrueOf
    <3>6. k \in tornKeys' \/ used' = k \/ used' = VC!None
      BY <1>2, <3>5
    <3>7. \A n \in 1 .. Len(features') : IsTrueOf(features'[n], tornKeys')
      BY <1>1, <1>2, <1>4, <3>1, <3>2, <3>6, StoredIsTrue, Zenon
    <3>8. IsImageCache(features')
      BY <1>1, <1>4, <3>1, <3>2, StoredImages, Zenon
    <3>9. ASSUME NEW n \in 1 .. Len(features')
          PROVE  features'[n].value # VC!None
      <4>1. features'[n] = [key |-> k, value |-> used']
              \/ \E j \in 1 .. Len(features) : features'[n] = features[j]
        BY <1>1, <1>4, <3>1, <3>2, StoredImages, Zenon
      <4>. QED  BY <1>4, <3>4, <4>1
    <3>. QED  BY <3>2, <3>5, <3>7, <3>8, <3>9
  <2>2. CASE /\ features' = features /\ vision' = "stream" /\ promptState' = VC!None
             /\ used' = used
    <3>1. VC!Has(features, k) /\ used' = VC!Value(features, k) =>
             k \in tornKeys \/ used' = k
      <4>1. SUFFICES ASSUME VC!Has(features, k), used' = VC!Value(features, k)
                     PROVE  FALSE
        OBVIOUS
      <4>2. PICK i \in 1 .. Len(features) : features[i].key = k /\ features[i].value = used'
        BY <1>4, <4>1, ImageValue
      <4>. QED  BY <1>3, <1>4, <2>2, <4>2
    <3>. QED  BY <1>2, <1>3, <1>4, <2>2, <3>1, TornGrows
  <2>3. CASE /\ features' = features /\ used' = <<pixels, request.size>>
             /\ ~VC!Has(features, k)
    <3>1. pixels \in Pictures
      BY <1>3 DEF ImagesInv, ImageTypes
    <3>2. used' \in VC!Keys
      BY <1>1, <2>3, <3>1, KeyIsNotNone
    <3>. QED  BY <1>2, <1>4, <2>3, <3>2, TornGrows
  <2>4. \/ VC!Has(features, k)
        \/ ~VC!Has(features, k)
    OBVIOUS
  <2>5. \/ /\ VC!Has(features, k) /\ used' = VC!Value(features, k)
           /\ features' = VC!Touched(features, k)
        \/ /\ features' = features /\ vision' = "stream" /\ promptState' = VC!None
           /\ used' = used
        \/ /\ features' = features /\ used' = <<pixels, request.size>>
           /\ ~VC!Has(features, k)
    BY DEF VC!Lookup, k
  <2>. QED  BY <2>1, <2>2, <2>3, <2>5
<1>6. promptState \in VC!Keys
  BY <1>3 DEF StateIsOfPixels, ImagesInv, ImageTypes
<1>7. ImageTypes'
  BY <1>0, <1>a, <1>1, <1>2, <1>5, <1>6, Zenon DEF ImagesInv, ImageTypes, ImageSteps, IsImageCache
<1>8. DigestsAreTrue'
  BY <1>0, RememberKeeps DEF ImagesInv
<1>9. ImageEntriesAreTrue'
  BY <1>0, <1>2, <1>5, TornGrows DEF ImagesInv, ImageEntriesAreTrue
<1>10. PixelsAreRead'
  BY <1>0 DEF ImagesInv, PixelsAreRead
<1>11. promptState' = promptState => StateIsOfPixels'
  BY <1>0, <1>2, <1>3 DEF StateIsOfPixels, VC!Has
<1>12. RequestIsTrue'
  <2>1. vision' \in {"stream", "store"} /\ disk[request.file].content \in during
    BY <1>0, <1>a DEF ImagesInv, RequestIsTrue
  <2>2. vision' = "store" => StateIsOfPixels' /\ used' = <<pixels, request.size>>
    BY <1>a, <1>11
  <2>3. vision' = "stream" =>
           \/ promptState' = VC!None /\ used' = VC!None
           \/ /\ StateIsOfPixels' /\ used' \in VC!Keys \cup {VC!None}
              /\ promptState' \in tornKeys' \/ used' = promptState' \/ used' = VC!None
    <3>1. CASE promptState' = VC!None /\ used' = used
      BY <1>3, <3>1
    <3>2. CASE VC!Has(features, k) /\ used' = VC!Value(features, k)
                 /\ promptState' = promptState
      <4>1. CASE readAt # disk[request.file].stamp
        BY <1>2, <1>5, <1>11, <3>2, <4>1
      <4>2. CASE readAt = disk[request.file].stamp
        <5>1. k = <<pixels, request.size>>
          BY <1>1, <1>3, <4>2
        <5>2. promptState \in tornKeys \/ promptState = k
          BY <1>3, <5>1 DEF StateIsOfPixels
        <5>3. promptState' \in tornKeys' \/ used' = promptState'
          BY <1>2, <1>5, <3>2, <5>2
        <5>. QED  BY <1>5, <1>11, <3>2, <5>3
      <4>. QED  BY <4>1, <4>2
    <3>. QED  BY <1>a, <3>1, <3>2
  <2>. QED  BY <1>0, <2>1, <2>2, <2>3 DEF RequestIsTrue
<1>13. AnswerIsTrue'
  BY <1>a DEF AnswerIsTrue, VC!AnswersSeeTheImage
<1>. QED  BY <1>7, <1>8, <1>9, <1>10, <1>12, <1>13 DEF ImagesInv

LEMMA ImagesStore ==
    ASSUME ImagesInv, VC!Store
    PROVE  ImagesInv'
<1>. DEFINE k == VC!KeyFor
<1>0. /\ vision = "store" /\ VC!Remember /\ keys' = keys \cup {k} /\ VC!Tear({k})
      /\ features' = VC!Stored(features, k, used) /\ vision' = "stream"
      /\ UNCHANGED <<family, disk, prompts, request, pixels, readAt, used, promptState, seen,
                     during>>
  BY DEF VC!Store
<1>1. /\ k \in VC!Keys /\ k = <<disk[request.file].content, request.size>>
      /\ request.size \in VC!Sizes
  BY KeyIsContent DEF ImagesInv
<1>. HIDE DEF k
<1>2. /\ tornKeys \subseteq tornKeys' /\ tornKeys' \subseteq tornKeys \cup {k}
      /\ readAt # disk[request.file].stamp => k \in tornKeys'
  BY <1>0, TearGrows
<1>3. /\ pixels \in during /\ pixels \in Pictures
      /\ readAt = disk[request.file].stamp => pixels = disk[request.file].content
      /\ used = <<pixels, request.size>> /\ StateIsOfPixels
  BY <1>0 DEF ImagesInv, ImageTypes, PixelsAreRead, RequestIsTrue
<1>4. /\ IsImageCache(features)
      /\ \A i \in 1 .. Len(features) :
           IsTrueOf(features[i], tornKeys) /\ features[i].value # VC!None
  BY DEF ImagesInv, ImageTypes, ImageEntriesAreTrue
<1>5. used \in VC!Keys /\ used # VC!None
  BY <1>1, <1>3, KeyIsNotNone
<1>6. k \in tornKeys' \/ used = k \/ used = VC!None
  BY <1>1, <1>2, <1>3
<1>7. IsImageCache(features')
  BY <1>0, <1>1, <1>4, <1>5, StoredImages, Zenon
<1>8. \A i \in 1 .. Len(features') : IsTrueOf(features'[i], tornKeys')
  BY <1>0, <1>1, <1>2, <1>4, <1>5, <1>6, StoredIsTrue, Zenon
<1>9. ASSUME NEW i \in 1 .. Len(features')
      PROVE  features'[i].value # VC!None
  <2>1. features'[i] = [key |-> k, value |-> used]
          \/ \E j \in 1 .. Len(features) : features'[i] = features[j]
    BY <1>0, <1>1, <1>4, <1>5, StoredImages
  <2>. QED  BY <1>4, <1>5, <2>1
<1>10. ImageTypes'
  BY <1>0, <1>1, <1>2, <1>7, Zenon DEF ImagesInv, ImageTypes, ImageSteps, IsImageCache
<1>11. DigestsAreTrue'
  BY <1>0, RememberKeeps DEF ImagesInv
<1>12. ImageEntriesAreTrue'
  BY <1>0, <1>2, <1>8, <1>9, TornGrows DEF ImagesInv, ImageEntriesAreTrue
<1>13. PixelsAreRead'
  BY <1>0 DEF PixelsAreRead
<1>14. StateIsOfPixels'
  BY <1>0, <1>2, <1>3 DEF StateIsOfPixels, VC!Has
<1>15. promptState' \in tornKeys' \/ used' = promptState'
  BY <1>0, <1>2, <1>3 DEF StateIsOfPixels
<1>16. RequestIsTrue'
  BY <1>0, <1>5, <1>14, <1>15 DEF ImagesInv, RequestIsTrue
<1>17. AnswerIsTrue'
  BY <1>0 DEF AnswerIsTrue, VC!AnswersSeeTheImage
<1>. QED  BY <1>10, <1>11, <1>12, <1>13, <1>16, <1>17 DEF ImagesInv

LEMMA ImagesStream ==
    ASSUME ImagesInv, VC!Stream
    PROVE  ImagesInv'
<1>0. /\ vision = "stream" /\ vision' = "answered"
      /\ UNCHANGED <<family, disk, digests, features, request, pixels, readAt, used,
                     promptState, keys, during, tornKeys>>
  BY DEF VC!Stream
<1>a. \/ /\ promptState # VC!None /\ VC!Value(prompts, promptState) # VC!None
         /\ seen' = VC!Value(prompts, promptState) /\ prompts' = prompts
      \/ /\ seen' = VC!Shown
         /\ prompts' = IF promptState = VC!None THEN prompts
                       ELSE VC!Stored(prompts, promptState, VC!Shown)
  BY DEF VC!Stream
<1>1. /\ request.size \in VC!Sizes /\ disk[request.file].content \in Pictures
      /\ disk[request.file].content \in during
  BY <1>0, KeyIsContent DEF ImagesInv, RequestIsTrue
<1>2. IsImageCache(prompts) /\ \A i \in 1 .. Len(prompts) : IsTrueOf(prompts[i], tornKeys)
  BY DEF ImagesInv, ImageTypes, ImageEntriesAreTrue
<1>3. \/ promptState = VC!None /\ used = VC!None
      \/ /\ StateIsOfPixels /\ used \in VC!Keys \cup {VC!None}
         /\ promptState \in tornKeys \/ used = promptState \/ used = VC!None
  BY <1>0 DEF ImagesInv, RequestIsTrue
<1>4. /\ IsImageCache(prompts')
      /\ \A i \in 1 .. Len(prompts') : IsTrueOf(prompts'[i], tornKeys)
      /\ \/ keys \cap tornKeys # {}
         \/ seen'[1] \in during /\ seen'[2] = request.size
  <2>1. CASE promptState = VC!None /\ used = VC!None
    <3>1. VC!Shown = <<disk[request.file].content, request.size>>
      BY <2>1 DEF VC!Shown
    <3>2. seen' = <<disk[request.file].content, request.size>> /\ prompts' = prompts
      BY <1>a, <2>1, <3>1
    <3>. QED  BY <1>1, <1>2, <3>2, KeyIsNotNone
  <2>2. CASE /\ StateIsOfPixels /\ used \in VC!Keys \cup {VC!None}
             /\ promptState \in tornKeys \/ used = promptState \/ used = VC!None
    <3>1. /\ promptState \in VC!Keys /\ promptState # VC!None /\ pixels \in Pictures
          /\ pixels \in during /\ promptState \in keys /\ VC!Has(prompts, promptState)
          /\ promptState \in tornKeys \/ promptState = <<pixels, request.size>>
      BY <2>2, KeyIsNotNone DEF StateIsOfPixels, ImagesInv, ImageTypes
    <3>2. CASE /\ VC!Value(prompts, promptState) # VC!None
               /\ seen' = VC!Value(prompts, promptState) /\ prompts' = prompts
      <4>1. PICK i \in 1 .. Len(prompts) : /\ prompts[i].key = promptState
                                           /\ prompts[i].value = VC!Value(prompts, promptState)
        BY <1>2, <3>1, ImageValue
      <4>2. promptState \in tornKeys \/ seen' = promptState
        BY <1>2, <3>2, <4>1 DEF IsTrueOf
      <4>3. promptState \in tornKeys \/ seen' = <<pixels, request.size>>
        BY <3>1, <4>2
      <4>4. promptState \in tornKeys \/ (seen'[1] \in during /\ seen'[2] = request.size)
        BY <1>1, <3>1, <4>3, KeyIsNotNone
      <4>. QED  BY <1>2, <3>1, <3>2, <4>4
    <3>3. CASE /\ seen' = VC!Shown
               /\ prompts' = VC!Stored(prompts, promptState, VC!Shown)
      <4>1. /\ VC!Shown \in VC!Keys
            /\ promptState \in tornKeys \/ VC!Shown = <<pixels, request.size>>
        <5>1. CASE used # VC!None
          <6>1. VC!Shown = used
            BY <5>1 DEF VC!Shown
          <6>. QED  BY <2>2, <3>1, <5>1, <6>1
        <5>2. CASE used = VC!None
          <6>1. VC!Shown = <<pixels, request.size>>
            BY <3>1, <5>2 DEF VC!Shown
          <6>2. <<pixels, request.size>> \in VC!Keys
            BY <1>1, <3>1, KeyIsNotNone
          <6>. QED  BY <6>1, <6>2
        <5>. QED  BY <5>1, <5>2
      <4>2. promptState \in tornKeys \/ VC!Shown = promptState \/ VC!Shown = VC!None
        BY <3>1, <4>1
      <4>3. IsImageCache(prompts')
        BY <1>2, <3>1, <3>3, <4>1, StoredImages, Zenon
      <4>4. \A i \in 1 .. Len(prompts') : IsTrueOf(prompts'[i], tornKeys)
        BY <1>2, <3>1, <3>3, <4>1, <4>2, StoredIsTrue, Zenon
      <4>5. promptState \in tornKeys \/ (seen'[1] \in during /\ seen'[2] = request.size)
        BY <1>1, <3>1, <3>3, <4>1, KeyIsNotNone
      <4>. QED  BY <3>1, <4>3, <4>4, <4>5
    <3>. QED  BY <1>a, <3>1, <3>2, <3>3
  <2>. QED  BY <1>3, <2>1, <2>2
<1>5. ImageTypes'
  BY <1>0, <1>4 DEF ImagesInv, ImageTypes, ImageSteps, IsImageCache
<1>6. DigestsAreTrue'
  BY <1>0 DEF ImagesInv, DigestsAreTrue
<1>7. ImageEntriesAreTrue'
  BY <1>0, <1>4 DEF ImagesInv, ImageEntriesAreTrue
<1>8. PixelsAreRead' /\ RequestIsTrue'
  BY <1>0, <1>1 DEF PixelsAreRead, RequestIsTrue
<1>9. AnswerIsTrue'
  BY <1>0, <1>4 DEF AnswerIsTrue, VC!AnswersSeeTheImage
<1>. QED  BY <1>5, <1>6, <1>7, <1>8, <1>9 DEF ImagesInv

LEMMA ImagesEnd ==
    ASSUME ImagesInv, VC!Ended
    PROVE  ImagesInv'
<1>0. /\ vision' = "idle" /\ used' = VC!None /\ promptState' = VC!None
      /\ keys' = {} /\ during' = {}
      /\ UNCHANGED <<family, disk, digests, features, prompts, request, tornKeys>>
  BY DEF VC!Ended, VC!caches
<1>1. ImageTypes'
  BY <1>0 DEF ImagesInv, ImageTypes, ImageSteps, IsImageCache
<1>2. DigestsAreTrue' /\ ImageEntriesAreTrue'
  BY <1>0 DEF ImagesInv, DigestsAreTrue, ImageEntriesAreTrue
<1>3. PixelsAreRead' /\ RequestIsTrue' /\ AnswerIsTrue'
  BY <1>0 DEF PixelsAreRead, RequestIsTrue, AnswerIsTrue, VC!AnswersSeeTheImage
<1>. QED  BY <1>1, <1>2, <1>3 DEF ImagesInv

LEMMA ImagesReset ==
    ASSUME ImagesInv, VC!Reset
    PROVE  ImagesInv'
<1>0. /\ vision = "idle" /\ digests' = <<>> /\ features' = <<>> /\ prompts' = <<>>
      /\ UNCHANGED <<family, disk, vision, request, pixels, readAt, used, promptState, seen,
                     keys, during, tornKeys>>
  BY DEF VC!Reset, VC!Cleared, VC!run
<1>1. IsImageCache(<<>>)
  <2>1. <<>> \in Seq(ImageEntry) /\ Len(<<>>) = 0
    OBVIOUS
  <2>2. 0 <= MaxSize
    BY VisionAssumption
  <2>. QED  BY <2>1, <2>2 DEF IsImageCache
<1>2. ImageTypes'
  BY <1>0, <1>1 DEF ImagesInv, ImageTypes, IsImageCache
<1>3. DigestsAreTrue' /\ ImageEntriesAreTrue'
  BY <1>0 DEF DigestsAreTrue, ImageEntriesAreTrue
<1>4. RequestIsTrue'
  BY <1>0 DEF ImagesInv, RequestIsTrue
<1>5. PixelsAreRead' /\ AnswerIsTrue'
  BY <1>0 DEF PixelsAreRead, AnswerIsTrue, VC!AnswersSeeTheImage
<1>. QED  BY <1>2, <1>3, <1>4, <1>5 DEF ImagesInv

LEMMA ImagesEdit ==
    ASSUME ImagesInv, VC!Edit
    PROVE  ImagesInv'
<1>0. UNCHANGED <<family, digests, features, prompts, vision, request, pixels, readAt, used,
                  promptState, seen, keys, tornKeys>>
  BY DEF VC!Edit, VC!caches, VC!run
<1>1. PICK f \in Files, c \in Pictures :
         /\ disk' = [disk EXCEPT ![f] = [content |-> c, stamp |-> @.stamp + 1]]
         /\ during' = IF f = request.file /\ vision # "idle" THEN during \cup {c} ELSE during
  BY Zenon DEF VC!Edit
<1>2. disk \in [Files -> [content : Pictures, stamp : Nat]]
  BY DEF ImagesInv, ImageTypes
<1>3. disk[f].stamp \in Nat
  <2>1. disk[f] \in [content : Pictures, stamp : Nat]
    BY <1>2
  <2>. QED  BY <2>1
<1>4. PICK e : e = [content |-> c, stamp |-> disk[f].stamp + 1]
  BY Zenon
<1>5. e \in [content : Pictures, stamp : Nat] /\ e.content = c
      /\ e.stamp = disk[f].stamp + 1
  BY <1>3, <1>4
<1>6. disk' = [disk EXCEPT ![f] = e]
  BY <1>1, <1>4
<1>7. /\ disk' \in [Files -> [content : Pictures, stamp : Nat]]
      /\ \A g \in Files : disk'[g] = IF g = f THEN e ELSE disk[g]
  BY <1>2, <1>5, <1>6
<1>8. \A g \in Files :
         /\ disk'[g].stamp \in Nat /\ disk[g].stamp \in Nat
         /\ g = f => disk'[g].stamp = disk[g].stamp + 1 /\ disk'[g].content = c
         /\ g # f => disk'[g] = disk[g]
  <2>1. \A g \in Files : disk[g].stamp \in Nat
    <3>1. \A g \in Files : disk[g] \in [content : Pictures, stamp : Nat]
      BY <1>2
    <3>. QED  BY <3>1
  <2>. QED  BY <1>5, <1>7, <2>1
<1>9. request.file \in Files
  BY KeyIsContent DEF ImagesInv
<1>10. during \subseteq during' /\ during' \subseteq Pictures
  BY <1>1 DEF ImagesInv, ImageTypes
<1>11. ImageTypes'
  BY <1>0, <1>7, <1>10 DEF ImagesInv, ImageTypes, IsImageCache
<1>12. DigestsAreTrue'
  <2>1. DOMAIN digests \subseteq Files /\ DOMAIN digests' = DOMAIN digests
    BY <1>0 DEF ImagesInv, DigestsAreTrue
  <2>2. ASSUME NEW g \in DOMAIN digests
        PROVE  /\ digests'[g].stamp \in Nat /\ digests'[g].stamp <= disk'[g].stamp
               /\ digests'[g].stamp = disk'[g].stamp => digests'[g].digest = disk'[g].content
    <3>1. /\ g \in Files /\ digests'[g] = digests[g]
          /\ digests[g].stamp \in Nat /\ digests[g].stamp <= disk[g].stamp
          /\ digests[g].stamp = disk[g].stamp => digests[g].digest = disk[g].content
      BY <1>0, <2>1 DEF ImagesInv, DigestsAreTrue
    <3>2. CASE g = f
      <4>1. disk'[g].stamp = disk[g].stamp + 1 /\ disk[g].stamp \in Nat
        BY <1>8, <3>1, <3>2
      <4>2. digests[g].stamp <= disk'[g].stamp /\ digests[g].stamp # disk'[g].stamp
        BY <3>1, <4>1
      <4>. QED  BY <3>1, <4>2
    <3>3. CASE g # f
      <4>1. disk'[g] = disk[g]
        BY <1>8, <3>1, <3>3
      <4>. QED  BY <3>1, <4>1
    <3>. QED  BY <3>2, <3>3
  <2>. QED  BY <2>1, <2>2 DEF DigestsAreTrue
<1>13. ImageEntriesAreTrue'
  BY <1>0 DEF ImagesInv, ImageEntriesAreTrue
<1>14. PixelsAreRead'
  <2>1. SUFFICES ASSUME vision \in {"prompt", "lookup", "store"}
                 PROVE  /\ pixels \in during' /\ readAt \in Nat
                        /\ readAt <= disk'[request.file].stamp
                        /\ readAt = disk'[request.file].stamp =>
                             pixels = disk'[request.file].content
    BY <1>0 DEF PixelsAreRead
  <2>2. /\ pixels \in during /\ readAt \in Nat /\ readAt <= disk[request.file].stamp
        /\ readAt = disk[request.file].stamp => pixels = disk[request.file].content
    BY <2>1 DEF ImagesInv, PixelsAreRead
  <2>3. CASE request.file = f
    <3>1. disk'[request.file].stamp = disk[request.file].stamp + 1
          /\ disk[request.file].stamp \in Nat
      BY <1>8, <1>9, <2>3
    <3>2. readAt <= disk'[request.file].stamp /\ readAt # disk'[request.file].stamp
      BY <2>2, <3>1
    <3>. QED  BY <1>10, <2>2, <3>2
  <2>4. CASE request.file # f
    <3>1. disk'[request.file] = disk[request.file]
      BY <1>8, <1>9, <2>4
    <3>. QED  BY <1>10, <2>2, <3>1
  <2>. QED  BY <2>3, <2>4
<1>15. StateIsOfPixels => StateIsOfPixels'
  BY <1>0, <1>10 DEF StateIsOfPixels, VC!Has
<1>16. vision # "idle" => disk'[request.file].content \in during'
  BY <1>1, <1>8, <1>9, <1>10 DEF ImagesInv, RequestIsTrue
<1>17. vision = "idle" => during' = {}
  BY <1>1 DEF ImagesInv, RequestIsTrue
<1>18. RequestIsTrue'
  BY <1>0, <1>15, <1>16, <1>17 DEF ImagesInv, RequestIsTrue
<1>19. AnswerIsTrue'
  BY <1>0, <1>10 DEF ImagesInv, AnswerIsTrue, VC!AnswersSeeTheImage
<1>. QED  BY <1>11, <1>12, <1>13, <1>14, <1>18, <1>19 DEF ImagesInv

LEMMA ImagesStep == ImagesInv /\ [Next]_vars => ImagesInv'
<1> SUFFICES ASSUME ImagesInv, [Next]_vars PROVE ImagesInv'
  OBVIOUS
<1>1. CASE UNCHANGED imagesVars
  BY <1>1 DEF imagesVars, ImagesInv, ImageTypes, DigestsAreTrue, ImageEntriesAreTrue,
     PixelsAreRead, RequestIsTrue, StateIsOfPixels, AnswerIsTrue, VC!AnswersSeeTheImage,
     VC!Has
<1>2. CASE VC!Next
  BY <1>2, ImagesBegin, ImagesReadPixels, ImagesPromptState, ImagesLookup, ImagesStore,
     ImagesStream, ImagesEnd, ImagesReset, ImagesEdit
  DEF VC!Next, VC!Raise, VC!Return
<1>3. UNCHANGED imagesVars \/ VC!Next
  BY DEF Next, vars
<1>. QED  BY <1>1, <1>2, <1>3

-----------------------------------------------------------------------------
(* Drafting from a corpus (CorpusSpeculation).                             *)

DraftSeq == Seq(Tokens)

Verdicts == {"output_mismatch", "no_draft_acceptance", "mechanism_viable",
             "weak_mechanism_signal", "no_clear_mechanism_gain"}

RunResult == [most : Nat, match : BOOLEAN, speed : 0 .. MaxSpeed, viable : BOOLEAN,
              verdict : Verdicts]

DraftTypes ==
    /\ options \in CS!Options /\ stage \in {"idle", "top", "try", "ended", "reported"}
    /\ corpus \in DraftSeq /\ written \in DraftSeq
    /\ allowed \in Nat /\ drafted \in Nat /\ forwards \in Nat
    /\ sweep \in Seq(DraftSeq)
    /\ results \in Seq(RunResult)

\* A run goes on until the output has its length, and no draft goes beyond it.
LengthsFit ==
    /\ Len(written) <= PromptLength + MaxNew
    /\ stage \in {"top", "try"} => Len(written) < PromptLength + MaxNew
    /\ stage = "ended" => Len(written) > 0
    /\ stage # "idle" \/ results # <<>> =>
         /\ PromptLength <= Len(written)
         /\ allowed \in CS!Lower(MinDraft, options.most) .. CS!Upper(MinDraft, options.most)
    /\ stage = "try" => \A i \in 1 .. Len(sweep) : Len(sweep[i]) <= CS!Left

\* A cache whose length can be told is the text's, and the logits are those after it.
CacheIsText ==
    options.cacheKind = "cropped" =>
        ~astray /\ (stage \in {"top", "try"} => logitsCache = written /\ logits = written)

\* A run is called viable only if its output was right.
VerdictsAreHonest ==
    /\ \A i \in 1 .. Len(results) :
          results[i].verdict = "mechanism_viable" => results[i].match
    /\ report # CS!NoReport =>
          /\ report.verdict \in Verdicts
          /\ stage = "reported"
    /\ CS!ReportIsHonest

DraftsInv == DraftTypes /\ LengthsFit /\ CacheIsText /\ VerdictsAreHonest

LEMMA LowerUpper ==
    ASSUME NEW a \in Int, NEW b \in Int
    PROVE  /\ CS!Lower(a, b) \in Int /\ CS!Upper(a, b) \in Int
           /\ CS!Lower(a, b) <= a /\ CS!Lower(a, b) <= b
           /\ CS!Upper(a, b) >= a /\ CS!Upper(a, b) >= b
           /\ CS!Lower(a, b) = a \/ CS!Lower(a, b) = b
           /\ CS!Upper(a, b) = a \/ CS!Upper(a, b) = b
BY DEF CS!Lower, CS!Upper

LEMMA OptionFacts ==
    ASSUME options \in CS!Options
    PROVE  /\ options.most \in DraftSweep /\ options.most \in Nat /\ options.most >= 1
           /\ options.verify \in {"block", "sequential", "hybrid"}
           /\ options.policy \in {"fixed", "adaptive"}
           /\ options.cacheKind \in {"cropped", "opaque"}
<1>1. /\ options.most \in DraftSweep
      /\ options.verify \in {"block", "sequential", "hybrid"}
      /\ options.policy \in {"fixed", "adaptive"}
      /\ options.cacheKind \in {"cropped", "opaque"}
  BY DEF CS!Options
<1>2. options.most \in Nat /\ options.most >= 1
  <2>1. options.most \in Nat \ {0}
    BY <1>1, DraftAssumption, Zenon
  <2>2. PICK m : m = options.most
    OBVIOUS
  <2>3. m \in Nat /\ m # 0
    BY <2>1, <2>2
  <2>. QED  BY <2>2, <2>3
<1>. QED  BY <1>1, <1>2

LEMMA LeastDraft ==
    /\ CS!Min(DraftSweep) \in DraftSweep
    /\ CS!Min(DraftSweep) \in Nat
<1>1. \E d \in DraftSweep : \A e \in DraftSweep : d <= e
  BY DraftAssumption
<1>2. CS!Min(DraftSweep) \in DraftSweep
  BY <1>1 DEF CS!Min
<1>. QED  BY <1>2, DraftAssumption, Zenon

\* A part of a sequence.
LEMMA PartOfTokens ==
    ASSUME NEW s \in DraftSeq, NEW a \in Int, NEW b \in Int, 1 <= a, b <= Len(s)
    PROVE  /\ SubSeq(s, a, b) \in DraftSeq
           /\ Len(SubSeq(s, a, b)) = IF a <= b THEN b - a + 1 ELSE 0
           /\ \A i \in 1 .. b - a + 1 : SubSeq(s, a, b)[i] = s[a + i - 1]
<1>1. Len(s) \in Nat /\ \A i \in 1 .. Len(s) : s[i] \in Tokens
  BY DEF DraftSeq
<1>2. \A i \in a .. b : s[i] \in Tokens
  BY <1>1
<1>. QED  BY <1>1, <1>2, SubSeqProperties DEF DraftSeq

LEMMA StartOfTokens ==
    ASSUME NEW s \in DraftSeq, NEW n \in 0 .. Len(s)
    PROVE  /\ SubSeq(s, 1, n) \in DraftSeq
           /\ Len(SubSeq(s, 1, n)) = n
           /\ \A i \in 1 .. n : SubSeq(s, 1, n)[i] = s[i]
<1>1. Len(s) \in Nat /\ n \in Nat /\ n <= Len(s) /\ 1 <= 1
  BY DEF DraftSeq
<1>2. /\ SubSeq(s, 1, n) \in DraftSeq
      /\ Len(SubSeq(s, 1, n)) = IF 1 <= n THEN n - 1 + 1 ELSE 0
      /\ \A i \in 1 .. n - 1 + 1 : SubSeq(s, 1, n)[i] = s[1 + i - 1]
  BY <1>1, PartOfTokens
<1>3. n - 1 + 1 = n /\ (IF 1 <= n THEN n - 1 + 1 ELSE 0) = n /\ \A i \in 1 .. n : 1 + i - 1 = i
  BY <1>1
<1>. QED  BY <1>2, <1>3

-----------------------------------------------------------------------------
(* The candidates.                                                         *)

\* What the script finds: drafts that stand in the corpus.
LEMMA FoundIsText ==
    ASSUME DraftTypes, NEW most \in Nat, NEW c \in CS!FirstFound(most)
    PROVE  /\ c.draft \in DraftSeq
           /\ c.suffix \in CS!Lengths /\ c.suffix \in Nat
           /\ c.at \in 1 .. Len(corpus)
           /\ c = [draft |-> SubSeq(corpus, c.at, CS!Lower(c.at + most - 1, Len(corpus))),
                   suffix |-> c.suffix, at |-> c.at]
<1>0. corpus \in DraftSeq /\ Len(corpus) \in Nat /\ Len(written) \in Nat
  BY DEF DraftTypes, DraftSeq
<1>1. PICK k \in CS!Searched(most) : c \in CS!Found(k, most)
  BY DEF CS!FirstFound
<1>2. k \in CS!Lengths
  BY <1>1 DEF CS!Searched
<1>3. k \in Int /\ k >= NGram /\ NGram \in Nat /\ NGram >= 1
  <2>1. k \in NGram .. CS!Lower(MaxSuffix, Len(written))
    BY <1>2 DEF CS!Lengths
  <2>2. NGram \in Nat /\ NGram >= 1 /\ CS!Lower(MaxSuffix, Len(written)) \in Int
    BY <1>0, DraftAssumption, LowerUpper
  <2>. QED  BY <2>1, <2>2
<1>4. PICK p \in CS!Places(k) :
         c = [draft |-> CS!Draft(p, k, most), suffix |-> k, at |-> p + k]
  BY <1>1 DEF CS!Found
<1>5. p \in Int /\ p >= 1 /\ p + k <= Len(corpus)
  <2>1. PICK q \in CS!Index(CS!Suffix(written, NGram)) : p = q - (k - NGram)
    BY DEF CS!Places
  <2>2. q \in Int
    BY <1>0, <1>3 DEF CS!Index
  <2>3. p >= 1 /\ p + k <= Len(corpus)
    BY DEF CS!Places
  <2>. QED  BY <1>3, <2>1, <2>2, <2>3
<1>6. c.draft = CS!Draft(p, k, most) /\ c.suffix = k /\ c.at = p + k
  BY <1>4
<1>7. PICK a : a = p + k
  OBVIOUS
<1>8. a \in 1 .. Len(corpus)
  BY <1>0, <1>3, <1>5, <1>7
<1>9. CS!Draft(p, k, most) = SubSeq(corpus, a, CS!Lower(a + most - 1, Len(corpus)))
  BY <1>7 DEF CS!Draft
<1>10. /\ CS!Lower(a + most - 1, Len(corpus)) \in Int
       /\ CS!Lower(a + most - 1, Len(corpus)) <= Len(corpus)
  <2>1. a + most - 1 \in Int
    BY <1>8
  <2>. QED  BY <1>0, <2>1, LowerUpper
<1>11. SubSeq(corpus, a, CS!Lower(a + most - 1, Len(corpus))) \in DraftSeq
  <2>1. a \in Int /\ 1 <= a
    BY <1>8
  <2>. QED  BY <1>0, <1>10, <2>1, PartOfTokens, Zenon
<1>12. k \in Nat
  BY <1>3
<1>. QED  BY <1>2, <1>4, <1>6, <1>7, <1>8, <1>9, <1>11, <1>12

LEMMA DraftCardinality == \A S : CS!Cardinality(S) = Cardinality(S)
BY DEF CS!Cardinality, Cardinality

\* A draft is known by the suffix it follows and the place where it stands.
LEMMA FoundIsFinite ==
    ASSUME DraftTypes, NEW most \in Nat
    PROVE  IsFiniteSet(CS!FirstFound(most))
<1>. DEFINE K == CS!FirstFound(most)
            T == CS!Lengths \X (1 .. Len(corpus))
            f == [c \in K |-> <<c.suffix, c.at>>]
<1>0. Len(corpus) \in Nat /\ Len(written) \in Nat
  BY DEF DraftTypes, DraftSeq
<1>1. IsFiniteSet(CS!Lengths)
  <2>1. NGram \in Int /\ CS!Lower(MaxSuffix, Len(written)) \in Int
    BY <1>0, DraftAssumption, LowerUpper
  <2>2. IsFiniteSet(NGram .. CS!Lower(MaxSuffix, Len(written)))
    BY <2>1, FS_Interval
  <2>. QED  BY <2>2 DEF CS!Lengths
<1>2. IsFiniteSet(1 .. Len(corpus))
  BY <1>0, FS_Interval
<1>3. IsFiniteSet(T)
  BY <1>1, <1>2, FS_Product
<1>4. f \in Injection(K, T)
  <2>1. ASSUME NEW c \in K
        PROVE  f[c] \in T /\ f[c] = <<c.suffix, c.at>>
    BY FoundIsText
  <2>2. ASSUME NEW c \in K, NEW d \in K, f[c] = f[d]
        PROVE  c = d
    <3>1. c.suffix = d.suffix /\ c.at = d.at
      BY <2>1, <2>2
    <3>2. /\ c = [draft |-> SubSeq(corpus, c.at, CS!Lower(c.at + most - 1, Len(corpus))),
                  suffix |-> c.suffix, at |-> c.at]
          /\ d = [draft |-> SubSeq(corpus, d.at, CS!Lower(d.at + most - 1, Len(corpus))),
                  suffix |-> d.suffix, at |-> d.at]
      BY FoundIsText
    <3>3. PICK x, y : x = c.suffix /\ y = c.at
      OBVIOUS
    <3>4. /\ c = [draft |-> SubSeq(corpus, y, CS!Lower(y + most - 1, Len(corpus))),
                  suffix |-> x, at |-> y]
          /\ d = [draft |-> SubSeq(corpus, y, CS!Lower(y + most - 1, Len(corpus))),
                  suffix |-> x, at |-> y]
      BY <3>1, <3>2, <3>3
    <3>. QED  BY <3>4
  <2>3. f \in [K -> T]
    <3>. HIDE DEF T
    <3>. QED  BY <2>1
  <2>. HIDE DEF f, T, K
  <2>. QED  BY <2>2, <2>3 DEF Injection, IsInjective
<1>. HIDE DEF f, T
<1>. QED  BY <1>3, <1>4, FS_Injection

LEMMA FoundHasPlaces ==
    ASSUME DraftTypes, NEW most \in Nat
    PROVE  \E n \in Nat :
              /\ DOMAIN CS!FoundInOrder(most) = 1 .. n
              /\ n = CS!Lower(Limit, Cardinality(CS!FirstFound(most)))
              /\ \A i \in 1 .. n :
                    LET c == CS!FoundInOrder(most)[i]
                    IN  /\ c \in CS!FirstFound(most)
                        /\ Cardinality({d \in CS!FirstFound(most) : CS!Before(d, c)}) = i - 1
<1>. DEFINE K == CS!FirstFound(most)
            R == {p \in K \X K : CS!Before(p[1], p[2])}
            n == CS!Lower(Limit, CS!Cardinality(K))
<1>1. IsFiniteSet(K) /\ Cardinality(K) \in Nat /\ CS!Cardinality(K) = Cardinality(K)
  <2>1. IsFiniteSet(K)
    BY FoundIsFinite
  <2>. HIDE DEF K
  <2>. QED  BY <2>1, FS_CardinalityType, DraftCardinality
<1>2. n \in Nat /\ n <= Cardinality(K)
  <2>1. Limit \in Nat
    BY DraftAssumption
  <2>. HIDE DEF K
  <2>. QED  BY <1>1, <2>1 DEF CS!Lower
<1>3. \A c, d \in K : <<c, d>> \in R <=> CS!Before(c, d)
  <2>. HIDE DEF K
  <2>. QED  OBVIOUS
<1>4. \A c \in K : {d \in K : <<d, c>> \in R} = {d \in K : CS!Before(d, c)}
  <2>. HIDE DEF K, R
  <2>. QED  BY <1>3
<1>5. \A c \in K : /\ c.suffix \in Nat /\ c.at \in Nat
                   /\ c = [draft |-> SubSeq(corpus, c.at,
                                            CS!Lower(c.at + most - 1, Len(corpus))),
                           suffix |-> c.suffix, at |-> c.at]
  <2>1. Len(corpus) \in Nat
    BY DEF DraftTypes, DraftSeq
  <2>. QED  BY <2>1, FoundIsText
<1>6. \A c, d \in K : c # d => c.suffix # d.suffix \/ c.at # d.at
  <2>. HIDE DEF K
  <2>. SUFFICES ASSUME NEW c \in K, NEW d \in K, c.suffix = d.suffix, c.at = d.at
                PROVE  c = d
    OBVIOUS
  <2>1. PICK x, y : x = c.suffix /\ y = c.at
    OBVIOUS
  <2>2. /\ c = [draft |-> SubSeq(corpus, y, CS!Lower(y + most - 1, Len(corpus))),
                suffix |-> x, at |-> y]
        /\ d = [draft |-> SubSeq(corpus, y, CS!Lower(y + most - 1, Len(corpus))),
                suffix |-> x, at |-> y]
    BY <1>5, <2>1
  <2>. QED  BY <2>2
<1>7. /\ \A c \in K : ~CS!Before(c, c)
      /\ \A c, d \in K : c # d => (CS!Before(c, d) \/ CS!Before(d, c))
      /\ \A c, d, e \in K : (CS!Before(c, d) /\ CS!Before(d, e)) => CS!Before(c, e)
  <2>. HIDE DEF K
  <2>0. \A c \in K : c.suffix \in Nat /\ c.at \in Nat
    BY <1>5
  <2>1. \A c \in K : ~CS!Before(c, c)
    BY <2>0 DEF CS!Before
  <2>2. \A c, d \in K : c # d => (CS!Before(c, d) \/ CS!Before(d, c))
    BY <2>0, <1>6 DEF CS!Before
  <2>3. ASSUME NEW c \in K, NEW d \in K, NEW e \in K, CS!Before(c, d), CS!Before(d, e)
        PROVE  CS!Before(c, e)
    <3>1. /\ c.suffix > d.suffix \/ (c.suffix = d.suffix /\ c.at < d.at)
          /\ d.suffix > e.suffix \/ (d.suffix = e.suffix /\ d.at < e.at)
      BY <2>3 DEF CS!Before
    <3>2. c.suffix > e.suffix \/ (c.suffix = e.suffix /\ c.at < e.at)
      BY <2>0, <3>1
    <3>. QED  BY <3>2 DEF CS!Before
  <2>. QED  BY <2>1, <2>2, <2>3
<1>8. ASSUME NEW i \in 1 .. n
      PROVE  /\ CS!FoundInOrder(most)[i] \in K
             /\ Cardinality({d \in K : CS!Before(d, CS!FoundInOrder(most)[i])}) = i - 1
  <2>1. PICK k \in 0 .. Cardinality(K) - 1 : k = i - 1
    <3>. HIDE DEF K, n
    <3>1. i - 1 \in 0 .. Cardinality(K) - 1
      BY <1>1, <1>2
    <3>. QED  BY <3>1
  <2>2. \E c \in K : Cardinality({d \in K : <<d, c>> \in R}) = k
    <3>. HIDE DEF K, R, n
    <3>1. IsOrder(K, R)
      BY <1>3, <1>7 DEF IsOrder
    <3>. QED  BY <1>1, <3>1, PlacesInOrder
  <2>3. \E c \in K : CS!Cardinality({d \in K : CS!Before(d, c)}) = i - 1
    <3>. HIDE DEF K, R, n
    <3>. QED  BY <1>4, <2>1, <2>2, DraftCardinality, Zenon
  <2>4. CS!FoundInOrder(most)[i]
          = CHOOSE c \in K : CS!Cardinality({d \in K : CS!Before(d, c)}) = i - 1
    BY DEF CS!FoundInOrder, CS!InOrder
  <2>. HIDE DEF K, R, n
  <2>. QED  BY <2>3, <2>4, DraftCardinality
<1>9. DOMAIN CS!FoundInOrder(most) = 1 .. n
  BY DEF CS!FoundInOrder, CS!InOrder
<1>10. n = CS!Lower(Limit, Cardinality(K))
  <2>. HIDE DEF K
  <2>. QED  BY <1>1
<1>. HIDE DEF K, R, n
<1>. QED  BY <1>2, <1>8, <1>9, <1>10 DEF K

-----------------------------------------------------------------------------
(* Generation.                                                             *)

\* A run begins with the prompt in the cache, the logits after it, and drafts of a length
\* between the least and the greatest.
LEMMA DraftsPrefill ==
    ASSUME DraftsInv, options' \in CS!Options, corpus' \in DraftSeq, NEW prompt \in DraftSeq,
           Len(prompt) = PromptLength, CS!Prefill(prompt), UNCHANGED <<results, report>>,
           stage = "idle"
    PROVE  DraftsInv'
<1>1. /\ written' = prompt /\ logitsCache' = prompt /\ logits' = prompt
      /\ forwards' = 1 /\ drafted' = 0 /\ astray' = FALSE /\ sweep' = <<>> /\ stage' = "top"
      /\ allowed' = IF options'.policy = "fixed" THEN options'.most
                    ELSE CS!Lower(options'.most, CS!Upper(MinDraft, InitialDraft))
  BY DEF CS!Prefill
<1>2. options'.most \in Nat
  BY OptionFacts, DraftAssumption, Zenon DEF CS!Options
<1>3. /\ MinDraft \in Nat /\ InitialDraft \in Nat /\ PromptLength \in Nat
      /\ MaxNew \in Nat /\ MaxNew > 0
  BY DraftAssumption
<1>4. allowed' \in Nat
      /\ allowed' \in CS!Lower(MinDraft, options'.most) .. CS!Upper(MinDraft, options'.most)
  <2>1. PICK most : most = options'.most
    OBVIOUS
  <2>2. \/ allowed' = most
        \/ allowed' = CS!Lower(most, CS!Upper(MinDraft, InitialDraft))
    BY <1>1, <2>1
  <2>. QED  BY <1>2, <1>3, <2>1, <2>2 DEF CS!Lower, CS!Upper
<1>5. sweep' \in Seq(DraftSeq) /\ Len(sweep') = 0
  BY <1>1
<1>6. DraftTypes'
  BY <1>1, <1>4, <1>5 DEF DraftsInv, DraftTypes
<1>7. LengthsFit'
  <2>1. Len(written') = PromptLength
    BY <1>1
  <2>2. /\ Len(written') <= PromptLength + MaxNew
        /\ Len(written') < PromptLength + MaxNew
        /\ PromptLength <= Len(written')
    BY <1>3, <2>1
  <2>. QED  BY <1>1, <1>4, <2>2 DEF LengthsFit
<1>8. CacheIsText'
  BY <1>1 DEF CacheIsText
<1>9. VerdictsAreHonest'
  <2>1. report = CS!NoReport
    BY DEF DraftsInv, VerdictsAreHonest
  <2>. QED
    BY <2>1 DEF DraftsInv, VerdictsAreHonest, CS!ReportIsHonest, CS!NoReport
<1>. QED  BY <1>6, <1>7, <1>8, <1>9 DEF DraftsInv

LEMMA DraftsBegin == ASSUME DraftsInv, CS!Begin PROVE DraftsInv'
<1>1. /\ stage = "idle" /\ options' \in CS!Options
      /\ corpus' \in CS!BoundedSeq(Tokens, MaxCorpus)
      /\ UNCHANGED <<results, report>>
  BY DEF CS!Begin
<1>2. PICK prompt \in CS!TupleOf(Tokens, PromptLength) : CS!Prefill(prompt)
  BY DEF CS!Begin
<1>3. corpus' \in DraftSeq
  <2>1. PICK m \in 0 .. MaxCorpus : corpus' \in [1 .. m -> Tokens]
    BY <1>1 DEF CS!BoundedSeq, CS!SeqOf
  <2>. QED  BY <2>1 DEF DraftSeq
<1>4. prompt \in DraftSeq /\ Len(prompt) = PromptLength
  <2>1. PromptLength \in Nat
    BY DraftAssumption
  <2>. QED  BY <2>1 DEF CS!TupleOf, DraftSeq
<1>. QED  BY <1>1, <1>2, <1>3, <1>4, DraftsPrefill

LEMMA DraftsAgain == ASSUME DraftsInv, CS!Again PROVE DraftsInv'
<1>1. /\ stage = "idle" /\ results # <<>>
      /\ CS!Prefill(SubSeq(written, 1, PromptLength))
      /\ UNCHANGED <<corpus, results, report>>
  BY DEF CS!Again
<1>2. PICK most \in DraftSweep : options' = [options EXCEPT !.most = most]
  BY DEF CS!Again
<1>3. options' \in CS!Options
  BY <1>2, Zenon DEF DraftsInv, DraftTypes, CS!Options
<1>4. PromptLength \in 0 .. Len(written) /\ written \in DraftSeq /\ corpus \in DraftSeq
  <2>1. PromptLength <= Len(written) /\ written \in DraftSeq /\ corpus \in DraftSeq
    BY <1>1 DEF DraftsInv, LengthsFit, DraftTypes
  <2>2. PromptLength \in Nat /\ Len(written) \in Nat
    BY <2>1, DraftAssumption DEF DraftSeq
  <2>. QED  BY <2>1, <2>2
<1>5. /\ SubSeq(written, 1, PromptLength) \in DraftSeq
      /\ Len(SubSeq(written, 1, PromptLength)) = PromptLength
  BY <1>4, StartOfTokens
<1>. QED  BY <1>1, <1>3, <1>4, <1>5, DraftsPrefill, Zenon

\* Drafts stand in the corpus, and none is longer than what is left to be generated.
LEMMA DraftsPropose == ASSUME DraftsInv, CS!Propose PROVE DraftsInv'
<1>. DEFINE F == CS!FoundInOrder(allowed)
<1>1. /\ stage = "top" /\ stage' = "try"
      /\ sweep' = [i \in DOMAIN F |-> SubSeq(F[i].draft, 1, CS!Lower(CS!Left, Len(F[i].draft)))]
      /\ UNCHANGED <<corpus, written, options, logitsCache, logits, allowed, forwards, drafted,
                     results, report, astray>>
  BY DEF CS!Propose
<1>2. DraftTypes /\ allowed \in Nat
  BY DEF DraftsInv, DraftTypes
<1>3. PICK n \in Nat : DOMAIN F = 1 .. n /\ \A i \in 1 .. n : F[i] \in CS!FirstFound(allowed)
  <2>. HIDE DEF F
  <2>. QED  BY <1>2, FoundHasPlaces DEF F
<1>4. CS!Left \in Nat
  <2>1. Len(written) \in Nat /\ Len(written) < PromptLength + MaxNew
    BY <1>1 DEF DraftsInv, LengthsFit, DraftTypes, DraftSeq
  <2>2. PromptLength \in Nat /\ MaxNew \in Nat
    BY DraftAssumption
  <2>. QED  BY <2>1, <2>2 DEF CS!Left
<1>. HIDE DEF F
<1>5. ASSUME NEW i \in 1 .. n
      PROVE  /\ SubSeq(F[i].draft, 1, CS!Lower(CS!Left, Len(F[i].draft))) \in DraftSeq
             /\ Len(SubSeq(F[i].draft, 1, CS!Lower(CS!Left, Len(F[i].draft)))) <= CS!Left
  <2>1. F[i].draft \in DraftSeq
    BY <1>2, <1>3, FoundIsText
  <2>2. Len(F[i].draft) \in Nat
    BY <2>1 DEF DraftSeq
  <2>3. /\ CS!Lower(CS!Left, Len(F[i].draft)) \in 0 .. Len(F[i].draft)
        /\ CS!Lower(CS!Left, Len(F[i].draft)) <= CS!Left
    BY <1>4, <2>2 DEF CS!Lower
  <2>. QED  BY <2>1, <2>3, StartOfTokens
<1>6. /\ sweep' \in Seq(DraftSeq) /\ Len(sweep') = n
      /\ \A i \in 1 .. n : Len(sweep'[i]) <= CS!Left
  <2>1. sweep' = [i \in 1 .. n |-> SubSeq(F[i].draft, 1, CS!Lower(CS!Left, Len(F[i].draft)))]
    BY <1>1, <1>3
  <2>2. sweep' \in [1 .. n -> DraftSeq] /\ \A i \in 1 .. n : Len(sweep'[i]) <= CS!Left
    BY <1>5, <2>1, Zenon
  <2>. QED  BY <2>2
<1>7. CS!Left' = CS!Left
  BY <1>1 DEF CS!Left
<1>8. DraftTypes'
  BY <1>1, <1>2, <1>6 DEF DraftTypes
<1>9. LengthsFit'
  BY <1>1, <1>6, <1>7, Zenon DEF DraftsInv, LengthsFit
<1>10. CacheIsText' /\ VerdictsAreHonest'
  BY <1>1 DEF DraftsInv, CacheIsText, VerdictsAreHonest, CS!ReportIsHonest, CS!Right
<1>. QED  BY <1>8, <1>9, <1>10 DEF DraftsInv

LEMMA SameDrafts ==
    ASSUME NEW s \in DraftSeq, NEW t \in DraftSeq, Len(s) = Len(t),
           \A i \in 1 .. Len(s) : s[i] = t[i]
    PROVE  s = t
BY SeqEqual DEF DraftSeq

\* A start of a draft and what comes next are a longer start.
LEMMA DraftGoesOn ==
    ASSUME NEW s \in DraftSeq, NEW a \in Nat, NEW b \in Nat, a + b <= Len(s)
    PROVE  /\ SubSeq(s, 1, a) \in DraftSeq
           /\ SubSeq(s, a + 1, Len(s)) \in DraftSeq
           /\ Len(SubSeq(s, a + 1, Len(s))) = Len(s) - a
           /\ SubSeq(SubSeq(s, a + 1, Len(s)), 1, b) \in DraftSeq
           /\ SubSeq(s, 1, a) \o SubSeq(SubSeq(s, a + 1, Len(s)), 1, b) = SubSeq(s, 1, a + b)
<1>1. Len(s) \in Nat /\ a \in 0 .. Len(s) /\ a + b \in 0 .. Len(s)
  BY DEF DraftSeq
<1>2. PICK x : x = SubSeq(s, 1, a)
  BY Zenon
<1>3. x \in DraftSeq /\ Len(x) = a /\ \A i \in 1 .. a : x[i] = s[i]
  BY <1>1, <1>2, StartOfTokens
<1>4. PICK y : y = SubSeq(s, a + 1, Len(s))
  BY Zenon
<1>5. y \in DraftSeq /\ Len(y) = Len(s) - a /\ \A i \in 1 .. Len(s) - a : y[i] = s[a + i]
  BY <1>1, <1>4, SuffixFacts DEF DraftSeq
<1>6. PICK z : z = SubSeq(y, 1, b)
  BY Zenon
<1>7. z \in DraftSeq /\ Len(z) = b /\ \A i \in 1 .. b : z[i] = s[a + i]
  <2>1. b \in 0 .. Len(y)
    BY <1>1, <1>5
  <2>2. z \in DraftSeq /\ Len(z) = b /\ \A i \in 1 .. b : z[i] = y[i]
    BY <1>5, <1>6, <2>1, StartOfTokens
  <2>. QED  BY <1>1, <1>5, <2>2
<1>8. PICK w : w = x \o z
  BY Zenon
<1>9. /\ w \in DraftSeq /\ Len(w) = a + b
      /\ \A i \in 1 .. a + b : w[i] = IF i <= a THEN x[i] ELSE z[i - a]
  BY <1>3, <1>7, <1>8, ConcatProperties, Zenon DEF DraftSeq
<1>10. \A i \in 1 .. a + b : w[i] = s[i]
  <2>1. ASSUME NEW i \in 1 .. a + b, i <= a
        PROVE  w[i] = s[i]
    BY <1>3, <1>9, <2>1
  <2>2. ASSUME NEW i \in 1 .. a + b, ~(i <= a)
        PROVE  w[i] = s[i]
    <3>1. i - a \in 1 .. b /\ a + (i - a) = i
      BY <2>2
    <3>2. z[i - a] = s[a + (i - a)]
      BY <1>7, <3>1
    <3>. QED  BY <1>9, <2>2, <3>1, <3>2
  <2>. QED  BY <2>1, <2>2
<1>11. PICK v : v = SubSeq(s, 1, a + b)
  BY Zenon
<1>12. v \in DraftSeq /\ Len(v) = a + b /\ \A i \in 1 .. a + b : v[i] = s[i]
  BY <1>1, <1>11, StartOfTokens
<1>13. w = v
  BY <1>9, <1>10, <1>12, SameDrafts
<1>. QED  BY <1>2, <1>3, <1>4, <1>5, <1>6, <1>7, <1>8, <1>11, <1>13, Zenon

\* Each way to verify a draft takes a start of it; if the cache can be cropped, it keeps
\* just what was taken.
LEMMA VerifiedIsTaken ==
    ASSUME options \in CS!Options, NEW draft \in DraftSeq, NEW m \in 0 .. Len(draft)
    PROVE  /\ CS!Verified(draft, m).count \in 0 .. Len(draft)
           /\ CS!Verified(draft, m).calls \in Nat
           /\ (options.cacheKind = "cropped" /\ CS!Verified(draft, m).count # 0)
                => CS!Verified(draft, m).cached = SubSeq(draft, 1, CS!Verified(draft, m).count)
<1>. DEFINE v == CS!Verified(draft, m)
<1>0. Len(draft) \in Nat /\ m \in Nat /\ m <= Len(draft) /\ 0 \in 0 .. Len(draft)
  BY DEF DraftSeq
<1>1. CASE options.verify = "block"
  <2>1. v = CS!Block(draft, m)
    BY <1>1 DEF CS!Verified
  <2>2. /\ v.count = m
        /\ v.cached = IF m = 0 THEN <<>> ELSE CS!Crop(draft, m)
        /\ v.calls = IF m = 0 THEN 0 ELSE 1
    BY <2>1 DEF CS!Block
  <2>3. options.cacheKind = "cropped" => CS!Crop(draft, m) = SubSeq(draft, 1, m)
    BY DEF CS!Crop
  <2>. HIDE DEF v
  <2>4. v.count \in 0 .. Len(draft) /\ v.calls \in Nat
       /\ ((options.cacheKind = "cropped" /\ v.count # 0)
             => v.cached = SubSeq(draft, 1, v.count))
    BY <2>2, <2>3
  <2>. QED  BY <2>4 DEF v
<1>2. CASE options.verify = "sequential"
  <2>1. v = CS!Sequential(draft, m)
    BY <1>2 DEF CS!Verified
  <2>2. v.count = m /\ v.cached = SubSeq(draft, 1, m) /\ v.calls = m
    BY <2>1 DEF CS!Sequential
  <2>. QED  BY <1>0, <2>2
<1>3. CASE options.verify = "hybrid"
  <2>1. v = CS!Hybrid(draft, m)
    BY <1>3 DEF CS!Verified
  <2>2. PICK a : a = CS!Lower(Anchors, Len(draft))
    OBVIOUS
  <2>3. a \in Nat /\ a <= Len(draft)
    <3>1. Anchors \in Nat
      BY DraftAssumption
    <3>. QED  BY <1>0, <2>2, <3>1 DEF CS!Lower
  <2>4. CASE m < a
    <3>1. v.count = 0 /\ v.calls = m
      BY <2>1, <2>2, <2>4 DEF CS!Hybrid
    <3>. HIDE DEF v
    <3>2. v.count \in 0 .. Len(draft) /\ v.calls \in Nat
          /\ ((options.cacheKind = "cropped" /\ v.count # 0)
                => v.cached = SubSeq(draft, 1, v.count))
      BY <1>0, <3>1
    <3>. QED  BY <3>2 DEF v
  <2>5. CASE ~(m < a)
    <3>1. PICK b : b = m - a
      OBVIOUS
    <3>2. b \in Nat /\ a + b = m /\ a + b <= Len(draft)
      BY <1>0, <2>3, <2>5, <3>1
    <3>3. /\ v.count = m /\ v.calls \in Nat
          /\ v.cached = SubSeq(draft, 1, a)
                          \o CS!Block(SubSeq(draft, a + 1, Len(draft)), b).cached
      <4>1. PICK c : c = CS!Block(SubSeq(draft, a + 1, Len(draft)), m - a)
        OBVIOUS
      <4>2. v = [count |-> m, cached |-> SubSeq(draft, 1, a) \o c.cached,
                 calls |-> a + c.calls]
        BY <2>1, <2>2, <2>5, <4>1 DEF CS!Hybrid
      <4>3. c.calls = 0 \/ c.calls = 1
        BY <4>1 DEF CS!Block
      <4>. HIDE DEF v
      <4>4. v.count = m /\ v.cached = SubSeq(draft, 1, a) \o c.cached /\ v.calls = a + c.calls
        BY <4>2, Zenon
      <4>5. v.calls \in Nat
        BY <2>3, <4>3, <4>4
      <4>. QED  BY <3>1, <4>1, <4>4, <4>5
    <3>4. CS!Block(SubSeq(draft, a + 1, Len(draft)), b).cached
            = IF b = 0 THEN <<>> ELSE CS!Crop(SubSeq(draft, a + 1, Len(draft)), b)
      BY DEF CS!Block
    <3>5. options.cacheKind = "cropped"
            => CS!Crop(SubSeq(draft, a + 1, Len(draft)), b)
                 = SubSeq(SubSeq(draft, a + 1, Len(draft)), 1, b)
      BY DEF CS!Crop
    <3>. HIDE DEF v
    <3>6. CASE b = 0
      <4>1. a = m
        BY <2>3, <3>2, <3>6
      <4>2. SubSeq(draft, 1, m) \o <<>> = SubSeq(draft, 1, m)
        <5>1. SubSeq(draft, 1, m) \in Seq(Tokens)
          BY StartOfTokens DEF DraftSeq
        <5>. QED  BY <5>1
      <4>3. v.cached = SubSeq(draft, 1, m)
        BY <3>3, <3>4, <3>6, <4>1, <4>2, Zenon
      <4>4. v.count \in 0 .. Len(draft) /\ v.calls \in Nat
            /\ ((options.cacheKind = "cropped" /\ v.count # 0)
                  => v.cached = SubSeq(draft, 1, v.count))
        BY <3>3, <4>3, Zenon
      <4>. QED  BY <4>4 DEF v
    <3>7. CASE b # 0
      <4>1. SubSeq(draft, 1, a) \o SubSeq(SubSeq(draft, a + 1, Len(draft)), 1, b)
              = SubSeq(draft, 1, m)
        BY <2>3, <3>2, DraftGoesOn, Zenon
      <4>2. options.cacheKind = "cropped" => v.cached = SubSeq(draft, 1, m)
        BY <3>3, <3>4, <3>5, <3>7, <4>1, Zenon
      <4>3. v.count \in 0 .. Len(draft) /\ v.calls \in Nat
            /\ ((options.cacheKind = "cropped" /\ v.count # 0)
                  => v.cached = SubSeq(draft, 1, v.count))
        BY <3>3, <4>2, Zenon
      <4>. QED  BY <4>3 DEF v
    <3>. QED  BY <3>6, <3>7
  <2>. QED  BY <2>4, <2>5
<1>. QED  BY <1>1, <1>2, <1>3, OptionFacts

\* A rejected draft leaves the next to be tried; an accepted one becomes text, with the
\* cache and the logits that follow it.
LEMMA DraftsTry == ASSUME DraftsInv, CS!Try PROVE DraftsInv'
<1>0. DraftTypes /\ LengthsFit /\ CacheIsText /\ VerdictsAreHonest
  BY DEF DraftsInv
<1>1. /\ stage = "try" /\ sweep # <<>>
      /\ UNCHANGED <<corpus, options, results, report>>
  BY DEF CS!Try
<1>2. PICK m \in 0 .. Len(Head(sweep)) :
         LET v     == CS!Verified(Head(sweep), m)
             taken == SubSeq(Head(sweep), 1, v.count)
         IN  /\ forwards' = forwards + v.calls
             /\ IF v.count = 0
                THEN /\ sweep' = Tail(sweep)
                     /\ UNCHANGED <<written, logitsCache, logits, drafted, allowed, astray, stage>>
                ELSE /\ written' = written \o taken
                     /\ logitsCache' = logitsCache \o v.cached
                     /\ logits' = logitsCache \o taken
                     /\ drafted' = drafted + v.count
                     /\ astray' = (\/ astray \/ logits # written
                                   \/ (v.count > 1 /\ logitsCache # written))
                     /\ allowed' = IF options.policy = "adaptive" /\ v.count >= allowed
                                   THEN CS!Lower(options.most, allowed + DraftStep) ELSE allowed
                     /\ sweep' = <<>>
                     /\ stage' = IF v.count = CS!Left THEN "ended" ELSE "top"
  BY Zenon DEF CS!Try
<1>3. PICK draft : draft = Head(sweep)
  OBVIOUS
<1>4. draft \in DraftSeq /\ Len(draft) \in Nat /\ Len(draft) <= CS!Left
  <2>1. sweep \in Seq(DraftSeq) /\ sweep # <<>>
    BY <1>0, <1>1 DEF DraftTypes
  <2>2. draft = sweep[1] /\ 1 \in 1 .. Len(sweep) /\ draft \in DraftSeq
    BY <1>3, <2>1
  <2>3. Len(draft) <= CS!Left
    BY <1>0, <1>1, <2>2 DEF LengthsFit
  <2>. QED  BY <2>2, <2>3 DEF DraftSeq
<1>5. PICK v : v = CS!Verified(draft, m)
  OBVIOUS
<1>6. PICK n : n = v.count
  OBVIOUS
<1>7. PICK taken : taken = SubSeq(draft, 1, n)
  BY Zenon
<1>8. n \in 0 .. Len(draft) /\ v.calls \in Nat
      /\ ((options.cacheKind = "cropped" /\ n # 0) => v.cached = taken)
  <2>1. m \in 0 .. Len(draft) /\ options \in CS!Options
    BY <1>0, <1>3 DEF DraftTypes
  <2>. QED  BY <1>4, <1>5, <1>6, <1>7, <2>1, VerifiedIsTaken
<1>9. taken \in DraftSeq /\ Len(taken) = n
  BY <1>4, <1>7, <1>8, StartOfTokens
<1>10. IF n = 0
       THEN /\ sweep' = Tail(sweep)
            /\ UNCHANGED <<written, logitsCache, logits, drafted, allowed, astray, stage>>
       ELSE /\ written' = written \o taken
            /\ logitsCache' = logitsCache \o v.cached
            /\ logits' = logitsCache \o taken
            /\ drafted' = drafted + n
            /\ astray' = (astray \/ logits # written \/ (n > 1 /\ logitsCache # written))
            /\ allowed' = IF options.policy = "adaptive" /\ n >= allowed
                          THEN CS!Lower(options.most, allowed + DraftStep) ELSE allowed
            /\ sweep' = <<>>
            /\ stage' = IF n = CS!Left THEN "ended" ELSE "top"
  BY <1>2, <1>3, <1>5, <1>6, <1>7, Zenon
<1>11. forwards' \in Nat
  <2>1. forwards' = forwards + v.calls
    BY <1>2, <1>3, <1>5
  <2>2. forwards \in Nat
    BY <1>0 DEF DraftTypes
  <2>. QED  BY <1>8, <2>1, <2>2
<1>12. CASE n = 0
  <2>1. /\ sweep' = Tail(sweep)
        /\ UNCHANGED <<written, logitsCache, logits, drafted, allowed, astray, stage>>
    BY <1>10, <1>12
  <2>2. /\ sweep \in Seq(DraftSeq) /\ sweep # <<>>
        /\ \A i \in 1 .. Len(sweep) : Len(sweep[i]) <= CS!Left
    BY <1>0, <1>1 DEF DraftTypes, LengthsFit
  <2>3. /\ sweep' \in Seq(DraftSeq) /\ Len(sweep') = Len(sweep) - 1
        /\ \A i \in 1 .. Len(sweep') : sweep'[i] = sweep[i + 1]
    BY <2>1, <2>2
  <2>4. CS!Left' = CS!Left
    BY <2>1 DEF CS!Left
  <2>5. \A i \in 1 .. Len(sweep') : Len(sweep'[i]) <= CS!Left'
    <3>. TAKE i \in 1 .. Len(sweep')
    <3>1. i + 1 \in 1 .. Len(sweep)
      <4>1. Len(sweep) \in Nat
        BY <2>2
      <4>. QED  BY <2>3, <4>1
    <3>. QED  BY <2>2, <2>3, <2>4, <3>1, Zenon
  <2>6. DraftTypes'
    BY <1>0, <1>1, <1>11, <2>1, <2>3 DEF DraftTypes
  <2>7. LengthsFit'
    BY <1>0, <1>1, <2>1, <2>5 DEF LengthsFit
  <2>8. CacheIsText' /\ VerdictsAreHonest'
    BY <1>0, <1>1, <2>1 DEF CacheIsText, VerdictsAreHonest, CS!ReportIsHonest, CS!Right
  <2>. QED  BY <2>6, <2>7, <2>8 DEF DraftsInv
<1>13. CASE n # 0
  <2>1. /\ written' = written \o taken
        /\ logitsCache' = logitsCache \o v.cached
        /\ logits' = logitsCache \o taken
        /\ drafted' = drafted + n
        /\ astray' = (astray \/ logits # written \/ (n > 1 /\ logitsCache # written))
        /\ allowed' = IF options.policy = "adaptive" /\ n >= allowed
                      THEN CS!Lower(options.most, allowed + DraftStep) ELSE allowed
        /\ sweep' = <<>>
        /\ stage' = IF n = CS!Left THEN "ended" ELSE "top"
    BY <1>10, <1>13, Zenon
  <2>2. /\ written \in DraftSeq /\ Len(written) \in Nat /\ drafted \in Nat /\ allowed \in Nat
        /\ options \in CS!Options /\ options.most \in Nat
    BY <1>0, OptionFacts DEF DraftTypes, DraftSeq
  <2>3. /\ Len(written) < PromptLength + MaxNew /\ PromptLength <= Len(written)
        /\ allowed \in CS!Lower(MinDraft, options.most) .. CS!Upper(MinDraft, options.most)
    BY <1>0, <1>1 DEF LengthsFit
  <2>4. PromptLength \in Nat /\ MaxNew \in Nat /\ MinDraft \in Nat /\ DraftStep \in Nat
    BY DraftAssumption
  <2>5. n \in Nat
    BY <1>4, <1>8
  <2>6. written' \in DraftSeq /\ Len(written') = Len(written) + n
    BY <1>9, <2>1, <2>2, ConcatProperties, Zenon DEF DraftSeq
  <2>7. n <= MaxNew - (Len(written) - PromptLength)
    BY <1>4, <1>8, <2>2, <2>4 DEF CS!Left
  <2>8. /\ Len(written') <= PromptLength + MaxNew
        /\ PromptLength <= Len(written')
        /\ n # CS!Left => Len(written') < PromptLength + MaxNew
        /\ Len(written') > 0
    <3>1. PICK k : k = Len(written)
      BY Zenon
    <3>2. n # CS!Left => n # MaxNew - (k - PromptLength)
      BY <3>1 DEF CS!Left
    <3>3. n > 0
      BY <1>13, <2>5
    <3>. QED  BY <2>2, <2>3, <2>4, <2>5, <2>6, <2>7, <3>1, <3>2, <3>3
  <2>9. /\ allowed' \in Nat
        /\ allowed' \in CS!Lower(MinDraft, options.most) .. CS!Upper(MinDraft, options.most)
    <3>1. allowed' = allowed \/ allowed' = CS!Lower(options.most, allowed + DraftStep)
      BY <2>1
    <3>2. PICK most : most = options.most
      OBVIOUS
    <3>. QED  BY <2>2, <2>3, <2>4, <3>1, <3>2 DEF CS!Lower, CS!Upper
  <2>10. drafted' \in Nat
    BY <2>1, <2>2, <2>5
  <2>11. sweep' \in Seq(DraftSeq) /\ stage' \in {"top", "ended"}
    <3>1. sweep' \in Seq(DraftSeq)
      BY <2>1
    <3>. QED  BY <2>1, <3>1
  <2>12. DraftTypes'
    BY <1>0, <1>1, <1>11, <2>6, <2>9, <2>10, <2>11 DEF DraftTypes
  <2>13. LengthsFit'
    <3>1. stage' = "top" => n # CS!Left
      BY <2>1
    <3>. QED  BY <1>1, <2>8, <2>9, <2>11, <3>1 DEF LengthsFit
  <2>14. CacheIsText'
    <3>. SUFFICES ASSUME options.cacheKind = "cropped"
                  PROVE  ~astray' /\ logitsCache' = written' /\ logits' = written'
      BY <1>1 DEF CacheIsText
    <3>1. ~astray /\ logitsCache = written /\ logits = written
      BY <1>0, <1>1 DEF CacheIsText
    <3>2. v.cached = taken
      BY <1>8, <1>13
    <3>. QED  BY <2>1, <3>1, <3>2, Zenon
  <2>15. VerdictsAreHonest'
    <3>1. report = CS!NoReport
      BY <1>0, <1>1 DEF VerdictsAreHonest
    <3>. QED  BY <1>0, <1>1, <3>1 DEF VerdictsAreHonest, CS!ReportIsHonest
  <2>. QED  BY <2>12, <2>13, <2>14, <2>15 DEF DraftsInv
<1>. QED  BY <1>12, <1>13

LEMMA DraftsGreedy == ASSUME DraftsInv, CS!Greedy PROVE DraftsInv'
<1>0. DraftTypes /\ LengthsFit /\ CacheIsText /\ VerdictsAreHonest
  BY DEF DraftsInv
<1>1. /\ stage = "try" /\ sweep = <<>>
      /\ allowed' = IF options.policy = "fixed" THEN allowed
                                                ELSE CS!Upper(MinDraft, allowed - DraftStep)
      /\ UNCHANGED <<corpus, options, sweep, drafted, results, report>>
  BY DEF CS!Greedy
<1>2. PICK t \in Tokens :
         /\ written' = Append(written, t)
         /\ astray' = (astray \/ logits # written)
         /\ IF CS!Left = 1
            THEN stage' = "ended" /\ UNCHANGED <<logitsCache, logits, forwards>>
            ELSE /\ logitsCache' = Append(logitsCache, t) /\ logits' = Append(logitsCache, t)
                 /\ forwards' = forwards + 1
                 /\ stage' = "top"
  BY DEF CS!Greedy
<1>3. /\ written \in DraftSeq /\ Len(written) \in Nat /\ allowed \in Nat
      /\ options \in CS!Options /\ options.most \in Nat
  BY <1>0, OptionFacts DEF DraftTypes, DraftSeq
<1>4. /\ Len(written) < PromptLength + MaxNew /\ PromptLength <= Len(written)
      /\ allowed \in CS!Lower(MinDraft, options.most) .. CS!Upper(MinDraft, options.most)
  BY <1>0, <1>1 DEF LengthsFit
<1>5. PromptLength \in Nat /\ MaxNew \in Nat /\ MinDraft \in Nat /\ DraftStep \in Nat
  BY DraftAssumption
<1>6. written' \in DraftSeq /\ Len(written') = Len(written) + 1
  BY <1>2, <1>3 DEF DraftSeq
<1>7. /\ Len(written') <= PromptLength + MaxNew
      /\ PromptLength <= Len(written')
      /\ CS!Left # 1 => Len(written') < PromptLength + MaxNew
      /\ Len(written') > 0
  <2>1. PICK k : k = Len(written)
    BY Zenon
  <2>2. CS!Left # 1 => MaxNew - (k - PromptLength) # 1
    BY <2>1 DEF CS!Left
  <2>. QED  BY <1>3, <1>4, <1>5, <1>6, <2>1, <2>2
<1>8. /\ allowed' \in Nat
      /\ allowed' \in CS!Lower(MinDraft, options.most) .. CS!Upper(MinDraft, options.most)
  <2>1. allowed' = allowed \/ allowed' = CS!Upper(MinDraft, allowed - DraftStep)
    BY <1>1
  <2>2. PICK most : most = options.most
    OBVIOUS
  <2>. QED  BY <1>3, <1>4, <1>5, <2>1, <2>2 DEF CS!Lower, CS!Upper
<1>9. stage' \in {"top", "ended"} /\ (stage' = "top" => CS!Left # 1)
  BY <1>2
<1>10. DraftTypes'
  <2>1. forwards' = forwards \/ forwards' = forwards + 1
    BY <1>2
  <2>2. forwards' \in Nat
    BY <1>0, <2>1 DEF DraftTypes
  <2>. QED  BY <1>0, <1>1, <1>6, <1>8, <1>9, <2>2 DEF DraftTypes
<1>11. LengthsFit'
  BY <1>1, <1>7, <1>8, <1>9 DEF LengthsFit
<1>12. CacheIsText'
  <2>. SUFFICES ASSUME options.cacheKind = "cropped"
                PROVE  ~astray' /\ (stage' = "top" => logitsCache' = written' /\ logits' = written')
    BY <1>1, <1>9 DEF CacheIsText
  <2>1. ~astray /\ logitsCache = written /\ logits = written
    BY <1>0, <1>1 DEF CacheIsText
  <2>. QED  BY <1>2, <2>1, Zenon
<1>13. VerdictsAreHonest'
  <2>1. report = CS!NoReport
    BY <1>0, <1>1 DEF VerdictsAreHonest
  <2>. QED  BY <1>0, <1>1, <2>1 DEF VerdictsAreHonest, CS!ReportIsHonest
<1>. QED  BY <1>10, <1>11, <1>12, <1>13 DEF DraftsInv

-----------------------------------------------------------------------------
(* The comparison.                                                         *)

LEMMA VerdictFacts ==
    ASSUME NEW match \in BOOLEAN
    PROVE  /\ CS!Verdict(match) \in Verdicts
           /\ CS!Verdict(match) = "mechanism_viable" => match
<1>1. CASE ~match
  <2>1. CS!Verdict(match) = "output_mismatch"
    BY <1>1 DEF CS!Verdict
  <2>. QED  BY <2>1 DEF Verdicts
<1>2. CASE match
  <2>1. \/ CS!Verdict(match) = "no_draft_acceptance"
        \/ CS!Verdict(match) = "mechanism_viable"
        \/ CS!Verdict(match) = "weak_mechanism_signal"
        \/ CS!Verdict(match) = "no_clear_mechanism_gain"
    BY <1>2 DEF CS!Verdict
  <2>. QED  BY <1>2, <2>1, Zenon DEF Verdicts
<1>. QED  BY <1>1, <1>2

LEMMA DraftsJudge == ASSUME DraftsInv, CS!Judge PROVE DraftsInv'
<1>0. DraftTypes /\ LengthsFit /\ CacheIsText /\ VerdictsAreHonest
  BY DEF DraftsInv
<1>1. /\ stage = "ended" /\ stage' = "idle"
      /\ UNCHANGED <<corpus, written, options, logitsCache, logits, allowed, sweep, forwards,
                     drafted, report, astray>>
  BY DEF CS!Judge
<1>2. PICK match \in BOOLEAN, speed \in 0 .. MaxSpeed :
         results' = Append(results, [most |-> options.most, match |-> match, speed |-> speed,
                                     viable |-> CS!Reduction >= 20,
                                     verdict |-> CS!Verdict(match)])
  BY Zenon DEF CS!Judge
<1>3. PICK b : b = (CS!Reduction >= 20)
  OBVIOUS
<1>4. b \in BOOLEAN
  <2>1. PICK k : k = (MaxNew - forwards) * 100
    OBVIOUS
  <2>2. k \in Int /\ MaxNew \in Nat /\ MaxNew > 0
    BY <1>0, <2>1, DraftAssumption DEF DraftTypes
  <2>3. PICK reduction : reduction = k \div MaxNew
    OBVIOUS
  <2>4. reduction \in Int
    BY <2>2, <2>3
  <2>5. b = (reduction >= 20)
    BY <1>3, <2>1, <2>3 DEF CS!Reduction
  <2>. QED  BY <2>4, <2>5
<1>5. PICK r : r = [most |-> options.most, match |-> match, speed |-> speed, viable |-> b,
                    verdict |-> CS!Verdict(match)]
  BY Zenon
<1>6. options.most \in Nat /\ CS!Verdict(match) \in Verdicts
      /\ (CS!Verdict(match) = "mechanism_viable" => match)
  BY <1>0, OptionFacts, VerdictFacts DEF DraftTypes
<1>7. r \in RunResult /\ r.match = match /\ r.verdict = CS!Verdict(match)
  BY <1>4, <1>5, <1>6 DEF RunResult
<1>8. results' = Append(results, r)
  BY <1>2, <1>3, <1>5
<1>9. results \in Seq(RunResult)
  BY <1>0 DEF DraftTypes
<1>10. /\ results' \in Seq(RunResult) /\ Len(results') = Len(results) + 1
       /\ \A i \in 1 .. Len(results) : results'[i] = results[i]
       /\ results'[Len(results) + 1] = r
  BY <1>7, <1>8, <1>9
<1>11. DraftTypes'
  BY <1>0, <1>1, <1>10 DEF DraftTypes
<1>12. results # <<>> \/ stage # "idle"
  BY <1>1
<1>13. LengthsFit'
  BY <1>0, <1>1, <1>12 DEF LengthsFit
<1>14. CacheIsText'
  BY <1>0, <1>1 DEF CacheIsText
<1>15. VerdictsAreHonest'
  <2>1. report = CS!NoReport /\ report' = CS!NoReport
    BY <1>0, <1>1 DEF VerdictsAreHonest
  <2>2. ASSUME NEW i \in 1 .. Len(results'), results'[i].verdict = "mechanism_viable"
        PROVE  results'[i].match
    <3>1. CASE i = Len(results) + 1
      BY <1>6, <1>7, <1>10, <2>2, <3>1
    <3>2. CASE i # Len(results) + 1
      <4>1. i \in 1 .. Len(results)
        <5>1. Len(results) \in Nat
          BY <1>9
        <5>. QED  BY <1>10, <3>2, <5>1
      <4>. QED  BY <1>0, <1>10, <2>2, <4>1 DEF VerdictsAreHonest
    <3>. QED  BY <3>1, <3>2
  <2>. QED  BY <2>1, <2>2 DEF VerdictsAreHonest, CS!ReportIsHonest, CS!NoReport
<1>. QED  BY <1>11, <1>13, <1>14, <1>15 DEF DraftsInv

\* Of some tries, there is one as fast as any.
LEMMA FastestIsOne ==
    ASSUME DraftTypes, NEW tries, tries \subseteq 1 .. Len(results), tries # {}
    PROVE  \E i \in tries : /\ CS!Fastest(tries) = results[i]
                          /\ \A j \in tries : results[j].speed <= results[i].speed
<1>0. /\ Len(results) \in Nat /\ MaxSpeed \in Nat
      /\ \A i \in tries : i \in Nat /\ results[i].speed \in 0 .. MaxSpeed
  <2>1. results \in Seq(RunResult) /\ Len(results) \in Nat /\ MaxSpeed \in Nat
    BY DraftAssumption DEF DraftTypes
  <2>2. ASSUME NEW i \in tries
        PROVE  i \in Nat /\ results[i].speed \in 0 .. MaxSpeed
    <3>1. i \in 1 .. Len(results)
      OBVIOUS
    <3>2. results[i] \in RunResult
      BY <2>1, <3>1
    <3>. QED  BY <2>1, <3>1, <3>2 DEF RunResult
  <2>. QED  BY <2>1, <2>2
<1>1. PICK D : D = {MaxSpeed - results[i].speed : i \in tries}
  BY Zenon
<1>2. D \subseteq Nat /\ D # {}
  <2>1. ASSUME NEW i \in tries
        PROVE  MaxSpeed - results[i].speed \in Nat
    <3>1. PICK x : x = results[i].speed
      OBVIOUS
    <3>2. x \in 0 .. MaxSpeed
      BY <1>0, <3>1
    <3>. QED  BY <1>0, <3>1, <3>2
  <2>2. PICK i : i \in tries
    OBVIOUS
  <2>. QED  BY <1>1, <2>1, <2>2
<1>3. Min(D) \in D /\ \A y \in D : Min(D) <= y
  BY <1>2, MinOfNaturals, Zenon
<1>4. PICK k \in tries : Min(D) = MaxSpeed - results[k].speed
  BY <1>1, <1>3, Zenon
<1>5. \A j \in tries : results[j].speed <= results[k].speed
  <2>. TAKE j \in tries
  <2>1. MaxSpeed - results[k].speed <= MaxSpeed - results[j].speed
    BY <1>1, <1>3, <1>4
  <2>2. PICK x, y : x = results[k].speed /\ y = results[j].speed
    OBVIOUS
  <2>. QED  BY <1>0, <2>1, <2>2
<1>6. PICK top : top = {i \in tries : \A j \in tries : results[j].speed <= results[i].speed}
  BY Zenon
<1>7. top \subseteq Nat /\ top # {}
  BY <1>0, <1>5, <1>6, Zenon
<1>8. Min(top) \in top
  BY <1>7, MinOfNaturals, Zenon
<1>9. CS!Min(top) = Min(top)
  BY DEF CS!Min, Min
<1>10. CS!Fastest(tries) = results[CS!Min(top)]
  BY <1>6 DEF CS!Fastest
<1>. QED  BY <1>6, <1>8, <1>9, <1>10, Zenon

LEMMA DraftsReport == ASSUME DraftsInv, CS!Report PROVE DraftsInv'
<1>0. DraftTypes /\ LengthsFit /\ CacheIsText /\ VerdictsAreHonest
  BY DEF DraftsInv
<1>1. /\ stage = "idle" /\ results # <<>> /\ stage' = "reported"
      /\ report' = [CS!Best EXCEPT !.verdict =
                       IF CS!Best.match /\ CS!Best.viable THEN "mechanism_viable" ELSE @]
      /\ UNCHANGED <<corpus, written, options, logitsCache, logits, allowed, sweep, forwards,
                     drafted, results, astray>>
  BY DEF CS!Report
<1>2. results \in Seq(RunResult) /\ DOMAIN results = 1 .. Len(results) /\ 1 .. Len(results) # {}
  <2>1. results \in Seq(RunResult) /\ results # <<>>
    BY <1>0, <1>1 DEF DraftTypes
  <2>2. Len(results) \in Nat /\ Len(results) # 0 /\ DOMAIN results = 1 .. Len(results)
    BY <2>1
  <2>3. 1 \in 1 .. Len(results)
    BY <2>2
  <2>. QED  BY <2>1, <2>2, <2>3
<1>3. PICK tries : tries = IF CS!Right = {} THEN DOMAIN results ELSE CS!Right
  OBVIOUS
<1>4. tries \subseteq 1 .. Len(results) /\ tries # {}
  BY <1>2, <1>3 DEF CS!Right
<1>5. PICK i \in tries : /\ CS!Fastest(tries) = results[i]
                       /\ \A j \in tries : results[j].speed <= results[i].speed
  BY <1>0, <1>4, FastestIsOne
<1>6. CS!Best = results[i] /\ i \in 1 .. Len(results)
  BY <1>3, <1>4, <1>5 DEF CS!Best
<1>7. PICK best : best = results[i]
  OBVIOUS
<1>8. best \in RunResult /\ (best.verdict = "mechanism_viable" => best.match)
  BY <1>0, <1>2, <1>6, <1>7 DEF VerdictsAreHonest
<1>9. PICK verdict : verdict = IF best.match /\ best.viable THEN "mechanism_viable"
                                                           ELSE best.verdict
  OBVIOUS
<1>10. report' = [best EXCEPT !.verdict = verdict]
  BY <1>1, <1>6, <1>7, <1>9
<1>11. /\ verdict \in Verdicts
       /\ verdict = "mechanism_viable" => best.match
  BY <1>8, <1>9 DEF RunResult, Verdicts
<1>12. /\ report'.verdict = verdict /\ report'.match = best.match /\ report'.speed = best.speed
  BY <1>8, <1>10 DEF RunResult
<1>13. CS!Right' = CS!Right
  BY <1>1 DEF CS!Right
<1>14. ASSUME CS!Right # {}
       PROVE  report'.match /\ \A j \in CS!Right : results[j].speed <= report'.speed
  <2>1. tries = CS!Right
    BY <1>3, <1>14
  <2>2. best.match
    BY <1>5, <1>7, <2>1 DEF CS!Right
  <2>. QED  BY <1>5, <1>7, <1>12, <2>1, <2>2
<1>15. CS!ReportIsHonest'
  BY <1>1, <1>11, <1>12, <1>13, <1>14 DEF CS!ReportIsHonest
<1>16. VerdictsAreHonest'
  BY <1>0, <1>1, <1>11, <1>12, <1>15 DEF VerdictsAreHonest
<1>17. DraftTypes'
  BY <1>0, <1>1 DEF DraftTypes
<1>18. LengthsFit'
  BY <1>0, <1>1 DEF LengthsFit
<1>19. CacheIsText'
  BY <1>0, <1>1 DEF CacheIsText
<1>. QED  BY <1>16, <1>17, <1>18, <1>19 DEF DraftsInv

LEMMA DraftsInit == Init => DraftsInv
<1>. SUFFICES ASSUME Init PROVE DraftsInv
  OBVIOUS
<1>0. CS!Init
  BY DEF Init
<1>1. /\ corpus = <<>> /\ written = <<>> /\ sweep = <<>> /\ results = <<>>
      /\ options = [verify |-> "block", policy |-> "fixed", most |-> CS!Min(DraftSweep),
                    cacheKind |-> "cropped"]
      /\ stage = "idle" /\ allowed = 0 /\ drafted = 0 /\ forwards = 0
      /\ report = CS!NoReport /\ astray = FALSE
  BY <1>0 DEF CS!Init
<1>2. options \in CS!Options
  BY <1>1, LeastDraft DEF CS!Options
<1>3. PICK e \in DraftSeq : e = <<>>
  <2>1. <<>> \in Seq(Tokens)
    OBVIOUS
  <2>. QED  BY <2>1, Zenon DEF DraftSeq
<1>4. corpus \in DraftSeq /\ written \in DraftSeq /\ Len(written) = 0
  BY <1>1, <1>3
<1>5. sweep \in Seq(DraftSeq) /\ results \in Seq(RunResult) /\ Len(results) = 0
  BY <1>1
<1>6. PromptLength \in Nat /\ MaxNew \in Nat
  BY DraftAssumption
<1>7. DraftTypes
  BY <1>1, <1>2, <1>4, <1>5 DEF DraftTypes
<1>8. LengthsFit
  BY <1>1, <1>4, <1>6 DEF LengthsFit
<1>9. CacheIsText /\ VerdictsAreHonest
  BY <1>1, <1>5 DEF CacheIsText, VerdictsAreHonest, CS!ReportIsHonest
<1>. QED  BY <1>7, <1>8, <1>9 DEF DraftsInv

LEMMA DraftsHold == DraftsInv => CS!TypeOK /\ CS!OutputIsGreedy /\ CS!ReportIsHonest
<1>. SUFFICES ASSUME DraftsInv PROVE CS!TypeOK /\ CS!OutputIsGreedy /\ CS!ReportIsHonest
  OBVIOUS
<1>1. report = CS!NoReport \/ report.verdict # "none"
  BY DEF DraftsInv, VerdictsAreHonest, Verdicts
<1>2. CS!TypeOK
  BY <1>1 DEF DraftsInv, DraftTypes, LengthsFit, CS!TypeOK
<1>3. CS!OutputIsGreedy
  BY DEF DraftsInv, CacheIsText, CS!OutputIsGreedy
<1>. QED  BY <1>2, <1>3 DEF DraftsInv, VerdictsAreHonest

LEMMA DraftsStep == DraftsInv /\ [Next]_vars => DraftsInv'
<1> SUFFICES ASSUME DraftsInv, [Next]_vars PROVE DraftsInv'
  OBVIOUS
<1>1. CASE UNCHANGED draftsVars \/ CS!Done
  <2>1. UNCHANGED draftsVars
    BY <1>1 DEF CS!Done, CS!xVars, draftsVars
  <2>. QED
    BY <2>1 DEF draftsVars, DraftsInv, DraftTypes, LengthsFit, CacheIsText, VerdictsAreHonest,
       CS!ReportIsHonest, CS!Right, CS!Left
<1>2. CASE CS!Next
  BY <1>1, <1>2, DraftsBegin, DraftsAgain, DraftsPropose, DraftsTry, DraftsGreedy, DraftsJudge,
     DraftsReport
  DEF CS!Next
<1>3. UNCHANGED draftsVars \/ CS!Next
  BY DEF Next, vars
<1>. QED  BY <1>1, <1>2, <1>3

-----------------------------------------------------------------------------
(* The order of the candidates.                                            *)

\* In the score a token of the suffix counts as much as a hundred tokens of the draft.
DraftsInReach ==
    /\ Limit > 0 /\ MinDraft \in 1 .. 100
    /\ \A d \in DraftSweep : d <= 100

LEMMA GreatestIsOne ==
    ASSUME NEW S, S \subseteq Nat, S # {}, NEW b \in Nat, \A x \in S : x <= b
    PROVE  CS!Max(S) \in S /\ \A y \in S : y <= CS!Max(S)
<1>. DEFINE D == {b - x : x \in S}
<1>1. D \subseteq Nat /\ D # {}
  <2>1. \A x \in S : b - x \in Nat
    OBVIOUS
  <2>. QED  BY <2>1
<1>2. Min(D) \in D /\ \A y \in D : Min(D) <= y
  <2>. HIDE DEF D
  <2>. QED  BY <1>1, MinOfNaturals
<1>3. PICK g \in S : Min(D) = b - g
  BY <1>2
<1>4. \A y \in S : g >= y
  <2>. TAKE y \in S
  <2>1. b - y \in D
    OBVIOUS
  <2>2. b - g <= b - y
    BY <1>2, <1>3, <2>1
  <2>. QED  BY <2>2
<1>5. CS!Max(S) \in S /\ \A y \in S : CS!Max(S) >= y
  <2>. HIDE DEF D
  <2>. QED  BY <1>4, Zenon DEF CS!Max
<1>6. CS!Max(S) \in Nat
  BY <1>5
<1>. QED  BY <1>5, <1>6

LEMMA LengthsAreNats ==
    ASSUME DraftTypes
    PROVE  /\ Len(written) \in Nat /\ Len(corpus) \in Nat
           /\ NGram \in Nat /\ NGram >= 1
           /\ \A k \in CS!Lengths : /\ k \in Nat /\ k >= 1 /\ k >= NGram
                                    /\ k <= MaxSuffix /\ k <= Len(written)
<1>1. /\ Len(written) \in Nat /\ Len(corpus) \in Nat
      /\ NGram \in Nat /\ NGram >= 1 /\ MaxSuffix \in Nat
  BY DraftAssumption DEF DraftTypes, DraftSeq
<1>2. /\ CS!Lower(MaxSuffix, Len(written)) \in Int
      /\ CS!Lower(MaxSuffix, Len(written)) <= MaxSuffix
      /\ CS!Lower(MaxSuffix, Len(written)) <= Len(written)
  BY <1>1 DEF CS!Lower
<1>. QED  BY <1>1, <1>2 DEF CS!Lengths

\* What is found for a suffix: the draft of which length, and where.
LEMMA FoundRules ==
    ASSUME DraftTypes, NEW most \in Nat, most > 0, NEW k \in CS!Lengths,
           NEW c \in CS!Found(k, most)
    PROVE  /\ c.suffix = k
           /\ c.at \in Nat /\ c.at - k >= 1 /\ c.at <= Len(corpus)
           /\ SubSeq(corpus, c.at - k, c.at - k + k - 1) = CS!Suffix(written, k)
           /\ c.draft = SubSeq(corpus, c.at, CS!Lower(c.at + most - 1, Len(corpus)))
           /\ c.draft \in DraftSeq
           /\ Len(c.draft) = CS!Lower(most, Len(corpus) - c.at + 1)
           /\ Len(c.draft) \in 1 .. most
           /\ c = [draft |-> SubSeq(corpus, c.at, CS!Lower(c.at + most - 1, Len(corpus))),
                   suffix |-> k, at |-> c.at]
<1>1. k \in Nat /\ k >= NGram /\ NGram \in Nat /\ Len(corpus) \in Nat /\ corpus \in DraftSeq
  BY LengthsAreNats DEF DraftTypes
<1>2. PICK p \in CS!Places(k) :
         c = [draft |-> CS!Draft(p, k, most), suffix |-> k, at |-> p + k]
  BY DEF CS!Found
<1>3. /\ p \in Int /\ p >= 1 /\ p + k <= Len(corpus)
      /\ SubSeq(corpus, p, p + k - 1) = CS!Suffix(written, k)
  <2>1. PICK q \in CS!Index(CS!Suffix(written, NGram)) : p = q - (k - NGram)
    BY DEF CS!Places
  <2>2. q \in Int
    BY <1>1 DEF CS!Index
  <2>3. /\ p >= 1 /\ p + k <= Len(corpus)
        /\ SubSeq(corpus, p, p + k - 1) = CS!Suffix(written, k)
    BY DEF CS!Places
  <2>. QED  BY <1>1, <2>1, <2>2, <2>3
<1>4. PICK a : a = p + k
  OBVIOUS
<1>5. a \in Nat /\ a >= 1 /\ a <= Len(corpus) /\ a - k = p /\ p >= 1
  BY <1>1, <1>3, <1>4
<1>6. c.suffix = k /\ c.at = a /\ c.draft = CS!Draft(p, k, most)
  BY <1>2, <1>4
<1>7. CS!Draft(p, k, most) = SubSeq(corpus, a, CS!Lower(a + most - 1, Len(corpus)))
  BY <1>4 DEF CS!Draft
<1>8. PICK e : e = CS!Lower(a + most - 1, Len(corpus))
  OBVIOUS
<1>9. /\ e \in Int /\ a <= e /\ e <= Len(corpus)
      /\ e - a + 1 = CS!Lower(most, Len(corpus) - a + 1)
      /\ e - a + 1 <= most
  BY <1>1, <1>5, <1>8 DEF CS!Lower
<1>10. /\ SubSeq(corpus, a, e) \in DraftSeq
       /\ Len(SubSeq(corpus, a, e)) = e - a + 1
  <2>1. a \in Int /\ 1 <= a
    BY <1>5
  <2>2. Len(SubSeq(corpus, a, e)) = IF a <= e THEN e - a + 1 ELSE 0
    BY <1>1, <1>9, <2>1, PartOfTokens
  <2>3. SubSeq(corpus, a, e) \in DraftSeq
    BY <1>1, <1>9, <2>1, PartOfTokens
  <2>. QED  BY <1>9, <2>2, <2>3
<1>11. e - a + 1 \in 1 .. most
  BY <1>5, <1>9
<1>12. c.draft = SubSeq(corpus, a, e)
  BY <1>6, <1>7, <1>8
<1>13. SubSeq(corpus, c.at - k, c.at - k + k - 1) = CS!Suffix(written, k)
  <2>1. c.at - k = p
    BY <1>5, <1>6
  <2>. QED  BY <1>3, <2>1
<1>14. c = [draft |-> SubSeq(corpus, c.at, CS!Lower(c.at + most - 1, Len(corpus))),
            suffix |-> k, at |-> c.at]
  BY <1>2, <1>6, <1>7
<1>. QED
  BY <1>5, <1>6, <1>8, <1>9, <1>10, <1>11, <1>12, <1>13, <1>14

\* The suffixes that stand in the corpus, which goes on after them.
Matches ==
    {k \in CS!Lengths : \E p \in 1 .. Len(corpus) - k :
                          SubSeq(corpus, p, p + k - 1) = CS!Suffix(written, k)}

\* The index of the last NGram tokens leads to every place of a longer suffix.
LEMMA MatchIsFound ==
    ASSUME DraftTypes, NEW most \in Nat, most > 0, NEW k \in CS!Lengths
    PROVE  k \in Matches <=> CS!Found(k, most) # {}
<1>0. /\ k \in Nat /\ k >= NGram /\ k <= Len(written) /\ NGram \in Nat /\ NGram >= 1
      /\ Len(corpus) \in Nat /\ Len(written) \in Nat
      /\ corpus \in DraftSeq /\ written \in DraftSeq
  BY LengthsAreNats DEF DraftTypes
<1>1. ASSUME NEW c \in CS!Found(k, most)
      PROVE  k \in Matches
  <2>1. PICK a : a = c.at
    OBVIOUS
  <2>2. a \in Nat /\ a - k >= 1 /\ a <= Len(corpus)
    BY <2>1, FoundRules
  <2>3. SubSeq(corpus, a - k, a - k + k - 1) = CS!Suffix(written, k)
    BY <2>1, FoundRules
  <2>4. PICK p : p = a - k
    OBVIOUS
  <2>5. p \in 1 .. Len(corpus) - k
    BY <1>0, <2>2, <2>4
  <2>. QED  BY <2>3, <2>4, <2>5 DEF Matches
<1>2. ASSUME k \in Matches
      PROVE  CS!Found(k, most) # {}
  <2>1. PICK p \in 1 .. Len(corpus) - k :
           SubSeq(corpus, p, p + k - 1) = CS!Suffix(written, k)
    BY <1>2 DEF Matches
  <2>2. PICK q, e, w, l : /\ q = p + k - NGram /\ e = p + k - 1
                          /\ w = Len(written) - k + 1 /\ l = Len(written) - NGram + 1
    OBVIOUS
  <2>3. /\ p \in Int /\ 1 <= p /\ q \in Int /\ 1 <= q /\ e \in Int /\ e <= Len(corpus)
        /\ w \in Int /\ 1 <= w /\ l \in Int /\ 1 <= l
        /\ q + NGram - 1 = e /\ p <= e /\ q <= e
        /\ w <= Len(written) /\ l <= Len(written)
    BY <1>0, <2>2
  <2>4. \A i \in 1 .. k : corpus[p + i - 1] = written[w + i - 1]
    <3>1. \A i \in 1 .. e - p + 1 : SubSeq(corpus, p, e)[i] = corpus[p + i - 1]
      BY <1>0, <2>3, PartOfTokens
    <3>2. \A i \in 1 .. Len(written) - w + 1 :
             SubSeq(written, w, Len(written))[i] = written[w + i - 1]
      BY <1>0, <2>3, PartOfTokens
    <3>3. SubSeq(corpus, p, e) = SubSeq(written, w, Len(written))
      BY <2>1, <2>2 DEF CS!Suffix
    <3>4. e - p + 1 = k /\ Len(written) - w + 1 = k
      BY <1>0, <2>2
    <3>. QED  BY <3>1, <3>2, <3>3, <3>4
  <2>5. SubSeq(corpus, q, e) = SubSeq(written, l, Len(written))
    <3>1. /\ SubSeq(corpus, q, e) \in DraftSeq
          /\ Len(SubSeq(corpus, q, e)) = IF q <= e THEN e - q + 1 ELSE 0
          /\ \A i \in 1 .. e - q + 1 : SubSeq(corpus, q, e)[i] = corpus[q + i - 1]
      BY <1>0, <2>3, PartOfTokens
    <3>2. /\ SubSeq(written, l, Len(written)) \in DraftSeq
          /\ Len(SubSeq(written, l, Len(written)))
               = IF l <= Len(written) THEN Len(written) - l + 1 ELSE 0
          /\ \A i \in 1 .. Len(written) - l + 1 :
                SubSeq(written, l, Len(written))[i] = written[l + i - 1]
      BY <1>0, <2>3, PartOfTokens
    <3>3. e - q + 1 = NGram /\ Len(written) - l + 1 = NGram
      BY <1>0, <2>2
    <3>4. ASSUME NEW i \in 1 .. NGram
          PROVE  corpus[q + i - 1] = written[l + i - 1]
      <4>1. PICK j : j = k - NGram + i
        OBVIOUS
      <4>2. j \in 1 .. k /\ p + j - 1 = q + i - 1 /\ w + j - 1 = l + i - 1
        BY <1>0, <2>2, <4>1
      <4>3. corpus[p + j - 1] = written[w + j - 1]
        BY <2>4, <4>2
      <4>. QED  BY <4>2, <4>3
    <3>5. PICK s, t : s = SubSeq(corpus, q, e) /\ t = SubSeq(written, l, Len(written))
      OBVIOUS
    <3>6. /\ s \in Seq(Tokens) /\ t \in Seq(Tokens) /\ Len(s) = NGram /\ Len(t) = NGram
          /\ \A i \in 1 .. NGram : s[i] = t[i]
      BY <2>3, <3>1, <3>2, <3>3, <3>4, <3>5 DEF DraftSeq
    <3>7. s = t
      BY <3>6, SeqEqual
    <3>. QED  BY <3>5, <3>7
  <2>6. q \in CS!Index(CS!Suffix(written, NGram))
    <3>1. q \in 1 .. Len(corpus) - NGram + 1
      BY <1>0, <2>3
    <3>2. SubSeq(corpus, q, q + NGram - 1) = CS!Suffix(written, NGram)
      BY <2>2, <2>3, <2>5 DEF CS!Suffix
    <3>. QED  BY <3>1, <3>2 DEF CS!Index
  <2>7. p = q - (k - NGram) /\ p >= 1 /\ p + k <= Len(corpus)
    BY <1>0, <2>2
  <2>8. p \in CS!Places(k)
    BY <2>1, <2>6, <2>7 DEF CS!Places
  <2>. QED  BY <2>8 DEF CS!Found
<1>. QED  BY <1>1, <1>2

\* What the search comes to.
AllFound(most) == UNION {CS!Found(k, most) : k \in CS!Searched(most)}

LEMMA AllFoundRules ==
    ASSUME DraftTypes, NEW most \in Nat, most > 0, NEW c \in AllFound(most)
    PROVE  /\ c.suffix \in CS!Lengths /\ c.suffix \in CS!Searched(most)
           /\ c \in CS!Found(c.suffix, most) /\ c.suffix \in Matches /\ c.suffix \in Nat
           /\ c.at \in Nat /\ c.draft \in DraftSeq /\ Len(c.draft) \in 1 .. most
           /\ Len(c.draft) = CS!Lower(most, Len(corpus) - c.at + 1)
           /\ c = [draft |-> SubSeq(corpus, c.at, CS!Lower(c.at + most - 1, Len(corpus))),
                   suffix |-> c.suffix, at |-> c.at]
<1>1. PICK k \in CS!Searched(most) : c \in CS!Found(k, most)
  BY DEF AllFound
<1>2. k \in CS!Lengths
  BY <1>1 DEF CS!Searched
<1>3. c.suffix = k
  BY <1>1, <1>2, FoundRules
<1>4. k \in Matches /\ k \in Nat
  BY <1>1, <1>2, MatchIsFound, LengthsAreNats
<1>. QED  BY <1>1, <1>2, <1>3, <1>4, FoundRules

\* Of two drafts the better one is the one that the search of the script finds before the
\* other: a longer match outweighs any draft, and what stands later is not longer.
LEMMA BetterIsBefore ==
    ASSUME DraftTypes, NEW most \in 1 .. 100, NEW c \in AllFound(most), NEW d \in AllFound(most)
    PROVE  /\ CS!Better(c, d) <=> CS!Before(c, d)
           /\ c # d => CS!Before(c, d) \/ CS!Before(d, c)
           /\ ~(CS!Before(c, d) /\ CS!Before(d, c))
<1>1. PICK k, m, a, b, x, y : /\ k = c.suffix /\ m = d.suffix /\ a = c.at /\ b = d.at
                              /\ x = Len(c.draft) /\ y = Len(d.draft)
  OBVIOUS
<1>2. /\ k \in Nat /\ m \in Nat /\ a \in Nat /\ b \in Nat /\ Len(corpus) \in Nat
      /\ x \in 1 .. most /\ y \in 1 .. most
      /\ x = CS!Lower(most, Len(corpus) - a + 1) /\ y = CS!Lower(most, Len(corpus) - b + 1)
  <2>0. most \in Nat /\ most > 0
    OBVIOUS
  <2>1. /\ c.suffix \in Nat /\ c.at \in Nat /\ Len(c.draft) \in 1 .. most
        /\ Len(c.draft) = CS!Lower(most, Len(corpus) - c.at + 1)
    BY <2>0, AllFoundRules
  <2>2. /\ d.suffix \in Nat /\ d.at \in Nat /\ Len(d.draft) \in 1 .. most
        /\ Len(d.draft) = CS!Lower(most, Len(corpus) - d.at + 1)
    BY <2>0, AllFoundRules
  <2>. QED  BY <1>1, <2>1, <2>2, LengthsAreNats
<1>3. /\ x \in 1 .. 100 /\ y \in 1 .. 100
      /\ a <= b => x >= y
      /\ b <= a => y >= x
  <2>1. PICK l : l = Len(corpus)
    OBVIOUS
  <2>2. /\ x = IF most < l - a + 1 THEN most ELSE l - a + 1
        /\ y = IF most < l - b + 1 THEN most ELSE l - b + 1
    BY <1>2, <2>1 DEF CS!Lower
  <2>3. most \in Nat /\ most <= 100 /\ l \in Nat /\ a \in Nat /\ b \in Nat
        /\ x \in 1 .. most /\ y \in 1 .. most
    BY <1>2, <2>1
  <2>. QED  BY <2>2, <2>3
<1>4. CS!Better(c, d) <=> \/ 100 * k + x > 100 * m + y
                         \/ (100 * k + x = 100 * m + y /\ k > m)
                         \/ (100 * k + x = 100 * m + y /\ k = m /\ a < b)
  BY <1>1 DEF CS!Better, CS!Score
<1>5. /\ CS!Before(c, d) <=> k > m \/ (k = m /\ a < b)
      /\ CS!Before(d, c) <=> m > k \/ (m = k /\ b < a)
  BY <1>1 DEF CS!Before
<1>6. CS!Better(c, d) <=> CS!Before(c, d)
  <2>1. CASE k > m
    <3>1. 100 * k + x > 100 * m + y
      BY <1>2, <1>3, <2>1
    <3>. QED  BY <1>4, <1>5, <2>1, <3>1
  <2>2. CASE k < m
    <3>1. 100 * k + x < 100 * m + y /\ ~(k > m) /\ k # m
      BY <1>2, <1>3, <2>2
    <3>2. ~(100 * k + x > 100 * m + y) /\ 100 * k + x # 100 * m + y
      BY <1>2, <1>3, <3>1
    <3>. QED  BY <1>4, <1>5, <3>1, <3>2
  <2>3. CASE k = m
    <3>1. 100 * k + x > 100 * m + y <=> x > y
      BY <1>2, <1>3, <2>3
    <3>2. 100 * k + x = 100 * m + y <=> x = y
      BY <1>2, <1>3, <2>3
    <3>3. x > y => a < b
      BY <1>2, <1>3
    <3>4. a < b => x > y \/ x = y
      BY <1>2, <1>3
    <3>5. ~(k > m)
      BY <1>2, <2>3
    <3>. QED  BY <1>4, <1>5, <2>3, <3>1, <3>2, <3>3, <3>4, <3>5
  <2>. QED  BY <1>2, <2>1, <2>2, <2>3
<1>7. ASSUME c # d
      PROVE  CS!Before(c, d) \/ CS!Before(d, c)
  <2>1. k # m \/ a # b
    <3>1. /\ c = [draft |-> SubSeq(corpus, a, CS!Lower(a + most - 1, Len(corpus))),
                  suffix |-> k, at |-> a]
          /\ d = [draft |-> SubSeq(corpus, b, CS!Lower(b + most - 1, Len(corpus))),
                  suffix |-> m, at |-> b]
      <4>0. most \in Nat /\ most > 0
        OBVIOUS
      <4>1. c = [draft |-> SubSeq(corpus, c.at, CS!Lower(c.at + most - 1, Len(corpus))),
                 suffix |-> c.suffix, at |-> c.at]
        BY <4>0, AllFoundRules
      <4>2. d = [draft |-> SubSeq(corpus, d.at, CS!Lower(d.at + most - 1, Len(corpus))),
                 suffix |-> d.suffix, at |-> d.at]
        BY <4>0, AllFoundRules
      <4>. QED  BY <1>1, <4>1, <4>2
    <3>. QED  BY <1>7, <3>1
  <2>. QED  BY <1>2, <1>5, <2>1
<1>8. ~(CS!Before(c, d) /\ CS!Before(d, c))
  BY <1>2, <1>5
<1>. QED  BY <1>6, <1>7, <1>8

\* The order by score and the order of the search are the same.
LEMMA CandidatesInOrder ==
    ASSUME DraftTypes, NEW most \in 1 .. 100
    PROVE  CS!Candidates(most) = CS!FoundInOrder(most)
<1>. DEFINE A == AllFound(most)
            B == {c \in A : \A d \in A : d.draft = c.draft => d = c \/ CS!Better(c, d)}
            K == CS!FirstFound(most)
<1>1. \A c, d \in A : /\ CS!Better(c, d) <=> CS!Before(c, d)
                      /\ c # d => CS!Before(c, d) \/ CS!Before(d, c)
                      /\ ~(CS!Before(c, d) /\ CS!Before(d, c))
  <2>. HIDE DEF A
  <2>. QED  BY BetterIsBefore DEF A
<1>2. K = {c \in A : ~\E d \in A : d.draft = c.draft /\ CS!Before(d, c)}
  BY DEF CS!FirstFound, AllFound
<1>. HIDE DEF A, K
<1>3. B = K
  <2>1. ASSUME NEW c \in A
        PROVE  (\A d \in A : d.draft = c.draft => d = c \/ CS!Better(c, d))
                 <=> ~\E d \in A : d.draft = c.draft /\ CS!Before(d, c)
    BY <1>1, Zenon
  <2>. QED  BY <1>2, <2>1
<1>4. CS!Candidates(most) = CS!InOrder(B, CS!Better)
  BY DEF CS!Candidates, AllFound, A
<1>5. CS!FoundInOrder(most) = CS!InOrder(K, CS!Before)
  BY DEF CS!FoundInOrder, K
<1>6. \A c \in K : {d \in K : CS!Better(d, c)} = {d \in K : CS!Before(d, c)}
  BY <1>1, <1>2
<1>. HIDE DEF B
<1>7. CS!InOrder(K, CS!Better) = CS!InOrder(K, CS!Before)
  <2>. DEFINE n    == CS!Lower(Limit, CS!Cardinality(K))
              E(i) == CHOOSE c \in K : CS!Cardinality({d \in K : CS!Better(d, c)}) = i - 1
              F(i) == CHOOSE c \in K : CS!Cardinality({d \in K : CS!Before(d, c)}) = i - 1
  <2>1. ASSUME NEW i
        PROVE  E(i) = F(i)
    <3>. DEFINE P(c) == CS!Cardinality({d \in K : CS!Better(d, c)}) = i - 1
                Q(c) == CS!Cardinality({d \in K : CS!Before(d, c)}) = i - 1
    <3>1. \A c \in K : P(c) <=> Q(c)
      BY <1>6
    <3>. HIDE DEF P, Q
    <3>2. (CHOOSE c \in K : P(c)) = CHOOSE c \in K : Q(c)
      BY <3>1
    <3>. QED  BY <3>2 DEF P, Q
  <2>2. /\ CS!InOrder(K, CS!Better) = [i \in 1 .. n |-> E(i)]
        /\ CS!InOrder(K, CS!Before) = [i \in 1 .. n |-> F(i)]
    BY DEF CS!InOrder
  <2>. HIDE DEF n, E, F
  <2>3. [i \in 1 .. n |-> E(i)] = [i \in 1 .. n |-> F(i)]
    BY <2>1
  <2>. QED  BY <2>2, <2>3
<1>. QED  BY <1>3, <1>4, <1>5, <1>7

\* The search does not end before it comes to the longest match.
LEMMA LongestIsSearched ==
    ASSUME DraftTypes, NEW most \in Nat, most > 0, Limit > 0, Matches # {}
    PROVE  /\ CS!Max(Matches) \in Matches /\ CS!Max(Matches) \in Nat
           /\ \A k \in Matches : k <= CS!Max(Matches)
           /\ CS!Max(Matches) \in CS!Searched(most)
           /\ CS!Found(CS!Max(Matches), most) # {}
           /\ \A k \in CS!Lengths : k > CS!Max(Matches) => CS!Found(k, most) = {}
<1>. DEFINE K == CS!Max(Matches)
            Longer(k) == UNION {CS!Found(j, most) : j \in {l \in CS!Lengths : l >= k}}
            Drafts(k) == {c.draft : c \in Longer(k)}
<1>1. K \in Matches /\ \A k \in Matches : k <= K
  <2>1. Matches \subseteq Nat /\ \A k \in Matches : k <= MaxSuffix
    BY LengthsAreNats DEF Matches
  <2>2. MaxSuffix \in Nat
    BY DraftAssumption
  <2>. QED  BY <2>1, <2>2, GreatestIsOne
<1>. HIDE DEF K
<1>2. K \in CS!Lengths /\ K \in Nat
  BY <1>1, LengthsAreNats DEF Matches
<1>3. ASSUME NEW k \in CS!Lengths, k > K
      PROVE  CS!Found(k, most) = {}
  <2>1. k \notin Matches
    <3>1. k \in Nat /\ ~(k <= K)
      BY <1>2, <1>3, LengthsAreNats
    <3>. QED  BY <1>1, <3>1
  <2>. QED  BY <2>1, MatchIsFound
<1>4. CS!Found(K, most) # {}
  BY <1>1, <1>2, MatchIsFound
<1>5. ASSUME NEW k \in CS!Lengths, k > K
      PROVE  CS!Cardinality(Drafts(k)) < Limit
  <2>1. \A j \in {l \in CS!Lengths : l >= k} : CS!Found(j, most) = {}
    <3>1. \A j \in CS!Lengths : j >= k => j > K
      BY <1>2, <1>5, LengthsAreNats
    <3>. QED  BY <1>3, <3>1
  <2>2. Longer(k) = {}
    BY <2>1
  <2>. HIDE DEF Longer
  <2>3. Drafts(k) = {}
    BY <2>2
  <2>. HIDE DEF Drafts
  <2>4. CS!Cardinality(Drafts(k)) = 0
    BY <2>3, DraftCardinality, FS_EmptySet
  <2>. QED  BY <2>4, DraftAssumption
<1>6. CS!Searched(most) = {k \in CS!Lengths : \A j \in CS!Lengths :
                             j > k => CS!Cardinality(Drafts(j)) < Limit}
  BY DEF CS!Searched
<1>. HIDE DEF Drafts
<1>7. K \in CS!Searched(most)
  BY <1>2, <1>5, <1>6
<1>. QED  BY <1>1, <1>2, <1>3, <1>4, <1>7 DEF K

\* What "machboost draft" puts first follows the longest match as well.
LEMMA LeadsAreLongest ==
    ASSUME DraftTypes, NEW most \in 1 .. 100, Limit > 0, NEW p \in CS!LeadsReport(most)
    PROVE  p[2] = CS!Max(Matches)
<1>. DEFINE K == CS!Max(Matches)
            Pairs(S) == {<<c.draft, c.suffix>> : c \in UNION {CS!Found(k, most) : k \in S}}
            From(k) == {j \in CS!Lengths : j >= k}
            S == {k \in CS!Lengths : \A j \in CS!Lengths :
                     j > k => CS!Cardinality(Pairs(From(j))) < Limit}
            Points(q) == 100 * q[2] + Len(q[1])
<1>0. most \in Nat /\ most > 0 /\ most <= 100 /\ Limit \in Nat
  BY DraftAssumption
<1>1. p \in Pairs(S) /\ \A q \in Pairs(S) : Points(q) <= Points(p)
  BY DEF CS!LeadsReport
<1>2. PICK k \in S : \E c \in CS!Found(k, most) : p = <<c.draft, c.suffix>>
  BY <1>1
<1>3. PICK c \in CS!Found(k, most) : p = <<c.draft, c.suffix>>
  BY <1>2
<1>4. k \in CS!Lengths /\ k \in Matches /\ k \in Nat
  BY <1>0, <1>2, <1>3, MatchIsFound, LengthsAreNats
<1>5. p[2] = k /\ Len(p[1]) \in 1 .. most
  BY <1>0, <1>3, <1>4, FoundRules
<1>6. /\ K \in Matches /\ K \in Nat /\ k <= K
      /\ CS!Found(K, most) # {}
      /\ \A j \in CS!Lengths : j > K => CS!Found(j, most) = {}
  BY <1>0, <1>4, LongestIsSearched
<1>. HIDE DEF K
<1>7. K \in CS!Lengths
  BY <1>6 DEF Matches
<1>8. ASSUME NEW j \in CS!Lengths, j > K
      PROVE  CS!Cardinality(Pairs(From(j))) < Limit
  <2>1. \A i \in From(j) : CS!Found(i, most) = {}
    <3>1. \A i \in CS!Lengths : i >= j => i > K
      BY <1>6, <1>8, LengthsAreNats
    <3>. QED  BY <1>6, <3>1
  <2>2. UNION {CS!Found(i, most) : i \in From(j)} = {}
    BY <2>1
  <2>3. Pairs(From(j)) = {}
    <3>. HIDE DEF From
    <3>. QED  BY <2>2
  <2>. HIDE DEF Pairs, From
  <2>4. CS!Cardinality(Pairs(From(j))) = 0
    BY <2>3, DraftCardinality, FS_EmptySet
  <2>. QED  BY <1>0, <2>4
<1>9. K \in S
  BY <1>7, <1>8
<1>10. PICK e : e \in CS!Found(K, most)
  BY <1>6
<1>11. e.suffix = K /\ Len(e.draft) \in 1 .. most
  BY <1>0, <1>7, <1>10, FoundRules
<1>. HIDE DEF S
<1>12. <<e.draft, e.suffix>> \in Pairs(S)
  BY <1>9, <1>10
<1>. HIDE DEF Pairs
<1>13. 100 * K + Len(e.draft) <= 100 * k + Len(p[1])
  <2>1. Points(<<e.draft, e.suffix>>) <= Points(p)
    BY <1>1, <1>12
  <2>. QED  BY <1>5, <1>11, <2>1
<1>14. PICK x, y : x = Len(e.draft) /\ y = Len(p[1])
  OBVIOUS
<1>15. x \in 1 .. most /\ y \in 1 .. most /\ 100 * K + x <= 100 * k + y
  BY <1>5, <1>11, <1>13, <1>14
<1>16. k = K
  BY <1>0, <1>4, <1>6, <1>15
<1>. QED  BY <1>5, <1>16 DEF K

LEMMA CandidatesHold ==
    ASSUME DraftsInv, DraftsInReach
    PROVE  CS!CandidatesAreBest
<1>. SUFFICES ASSUME stage = "top" PROVE CS!CandidatesAreBest
  BY DEF CS!CandidatesAreBest
<1>. DEFINE F == CS!FoundInOrder(allowed)
            H == CS!FirstFound(allowed)
            A == AllFound(allowed)
            K == CS!Max(Matches)
            n == CS!Lower(Limit, Cardinality(H))
            Earlier(c) == {d \in H : CS!Before(d, c)}
<1>0. DraftTypes
  BY DEF DraftsInv
<1>1. allowed \in 1 .. 100 /\ allowed \in Nat /\ allowed > 0
  <2>1. PICK m : m = options.most
    OBVIOUS
  <2>2. m \in Nat /\ m >= 1 /\ m <= 100
    <3>1. m \in DraftSweep /\ m \in Nat /\ m >= 1
      BY <1>0, <2>1, OptionFacts DEF DraftTypes
    <3>. QED  BY <3>1 DEF DraftsInReach
  <2>3. allowed \in CS!Lower(MinDraft, m) .. CS!Upper(MinDraft, m)
    BY <2>1 DEF DraftsInv, LengthsFit
  <2>4. MinDraft \in 1 .. 100
    BY DEF DraftsInReach
  <2>. QED  BY <2>2, <2>3, <2>4 DEF CS!Lower, CS!Upper
<1>2. Limit \in Nat /\ Limit > 0
  BY DraftAssumption DEF DraftsInReach
<1>3. CS!Candidates(allowed) = F
  BY <1>0, <1>1, CandidatesInOrder
<1>4. H = {c \in A : ~\E d \in A : d.draft = c.draft /\ CS!Before(d, c)}
  BY DEF CS!FirstFound, AllFound
<1>5. \A c, d \in A : /\ c # d => CS!Before(c, d) \/ CS!Before(d, c)
                      /\ ~(CS!Before(c, d) /\ CS!Before(d, c))
  <2>. HIDE DEF A
  <2>. QED  BY <1>0, <1>1, BetterIsBefore DEF A
<1>6. IsFiniteSet(H) /\ Cardinality(H) \in Nat
  <2>1. IsFiniteSet(H)
    BY <1>0, <1>1, FoundIsFinite
  <2>. HIDE DEF H
  <2>. QED  BY <2>1, FS_CardinalityType
<1>7. /\ n \in Nat /\ DOMAIN F = 1 .. n
      /\ \A i \in 1 .. n : F[i] \in H /\ Cardinality(Earlier(F[i])) = i - 1
  BY <1>0, <1>1, FoundHasPlaces
<1>8. \A c \in A : /\ c.suffix \in Matches /\ c.suffix \in Nat /\ c.at \in Nat
                   /\ Len(c.draft) \in 1 .. allowed
  BY <1>0, <1>1, AllFoundRules
<1>. HIDE DEF F, H, A, K
<1>9. ASSUME NEW i \in 1 .. n, NEW j \in 1 .. n, F[i].draft = F[j].draft
      PROVE  i = j
  <2>1. F[i] \in A /\ F[j] \in A /\ ~CS!Before(F[i], F[j]) /\ ~CS!Before(F[j], F[i])
    BY <1>4, <1>7, <1>9
  <2>2. F[i] = F[j]
    BY <1>5, <2>1
  <2>3. i - 1 = j - 1
    BY <1>7, <2>2
  <2>4. i \in Nat /\ j \in Nat
    BY <1>7
  <2>. QED  BY <2>3, <2>4
<1>10. ASSUME NEW i \in 1 .. n
       PROVE  F[i].draft # <<>> /\ Len(F[i].draft) <= allowed
  <2>1. Len(F[i].draft) \in 1 .. allowed
    BY <1>4, <1>7, <1>8
  <2>2. Len(<<>>) = 0
    OBVIOUS
  <2>. QED  BY <1>1, <2>1, <2>2
<1>11. ASSUME Matches # {}
       PROVE  F # <<>> /\ F[1].suffix = K
  <2>1. /\ K \in Matches /\ K \in Nat
        /\ \A k \in Matches : k <= K
        /\ K \in CS!Searched(allowed)
        /\ CS!Found(K, allowed) # {}
    BY <1>0, <1>1, <1>2, <1>11, LongestIsSearched DEF K
  <2>2. K \in CS!Lengths
    BY <2>1 DEF Matches
  <2>. DEFINE P == {c.at : c \in CS!Found(K, allowed)}
              a == Min(P)
  <2>3. \A c \in CS!Found(K, allowed) : c.suffix = K /\ c.at \in Nat /\ c \in A
    BY <1>0, <1>1, <2>1, <2>2, FoundRules DEF A, AllFound
  <2>4. P \subseteq Nat /\ P # {}
    BY <2>1, <2>3
  <2>5. a \in P /\ \A x \in P : a <= x
    <3>. HIDE DEF P
    <3>. QED  BY <2>4, MinOfNaturals
  <2>6. PICK e \in CS!Found(K, allowed) : e.at = a
    BY <2>5
  <2>7. e \in A /\ e.suffix = K
    BY <2>3, <2>6
  <2>8. ASSUME NEW d \in A, CS!Before(d, e)
        PROVE  FALSE
    <3>1. d.suffix > K \/ (d.suffix = K /\ d.at < a)
      BY <2>6, <2>7, <2>8 DEF CS!Before
    <3>2. d.suffix \in Nat /\ d.suffix <= K
      BY <1>8, <2>1
    <3>3. d.suffix = K /\ d.at < a
      BY <2>1, <3>1, <3>2
    <3>4. d \in CS!Found(K, allowed)
      BY <1>0, <1>1, <3>3, AllFoundRules DEF A
    <3>5. a <= d.at /\ d.at \in Nat /\ a \in Nat
      BY <2>3, <2>4, <2>5, <3>4
    <3>. QED  BY <3>3, <3>5
  <2>9. e \in H
    BY <1>4, <2>7, <2>8
  <2>10. n > 0
    <3>1. Cardinality(H) # 0
      BY <1>6, <2>9, FS_EmptySet
    <3>. QED  BY <1>2, <1>6, <3>1 DEF CS!Lower
  <2>11. 1 \in 1 .. n /\ F # <<>>
    <3>1. 1 \in 1 .. n
      BY <1>7, <2>10
    <3>. QED  BY <1>7, <3>1
  <2>12. F[1] \in H /\ F[1] \in A /\ Cardinality(Earlier(F[1])) = 0
    BY <1>4, <1>7, <2>11
  <2>13. ~CS!Before(e, F[1])
    <3>1. IsFiniteSet(Earlier(F[1]))
      BY <1>6, FS_Subset
    <3>2. Earlier(F[1]) = {}
      <4>. HIDE DEF Earlier
      <4>. QED  BY <2>12, <3>1, FS_EmptySet
    <3>. QED  BY <2>9, <3>2
  <2>14. F[1].suffix \in Nat /\ F[1].suffix <= K
    BY <1>8, <2>1, <2>12
  <2>15. ~(K > F[1].suffix)
    BY <2>7, <2>13 DEF CS!Before
  <2>16. F[1].suffix = K
    BY <2>1, <2>14, <2>15
  <2>. QED  BY <2>11, <2>16
<1>12. ASSUME NEW p \in CS!LeadsReport(allowed)
       PROVE  p[2] = K
  BY <1>0, <1>1, <1>2, LeadsAreLongest DEF K
<1>13. /\ F = F
       /\ Len(written) >= NGram /\ Matches # {} => F # <<>> /\ F[1].suffix = K
       /\ \A i, j \in DOMAIN F : F[i].draft = F[j].draft => i = j
       /\ \A p \in CS!LeadsReport(allowed) : p[2] = K
       /\ \A i \in DOMAIN F : F[i].draft # <<>> /\ Len(F[i].draft) <= allowed
  BY <1>7, <1>9, <1>10, <1>11, <1>12
<1>14. Matches = {k \in CS!Lengths : \E p \in 1 .. Len(corpus) - k :
                    SubSeq(corpus, p, p + k - 1) = CS!Suffix(written, k)}
  BY DEF Matches
<1>15. F = CS!FoundInOrder(allowed) /\ K = CS!Max(Matches)
  BY DEF F, K
<1>. HIDE DEF Matches
<1>. QED  BY <1>3, <1>13, <1>14, <1>15, Zenon DEF CS!CandidatesAreBest

-----------------------------------------------------------------------------
(* What of the output is covered by the corpus.                            *)

Common(i) == CS!Match(corpus, written, i)

LEMMA CommonFits ==
    ASSUME DraftTypes, NEW i \in 1 .. Len(written)
    PROVE  Common(i) \in Nat /\ Common(i) <= Len(written) - i + 1
<1>. DEFINE lens == {n \in 1 .. Len(written) - i + 1 :
                       \E p \in 1 .. Len(corpus) - n + 1 :
                          SubSeq(corpus, p, p + n - 1) = SubSeq(written, i, i + n - 1)}
<1>1. Len(written) \in Nat /\ i \in Nat /\ Len(written) - i + 1 \in Nat
  BY LengthsAreNats
<1>2. lens \subseteq Nat /\ \A n \in lens : n <= Len(written) - i + 1
  BY <1>1
<1>3. Common(i) = IF lens = {} \/ CS!Max(lens) < NGram THEN 0 ELSE CS!Max(lens)
  BY DEF Common, CS!Match
<1>. HIDE DEF lens
<1>4. lens # {} => CS!Max(lens) \in Nat /\ CS!Max(lens) <= Len(written) - i + 1
  BY <1>1, <1>2, GreatestIsOne
<1>. QED  BY <1>1, <1>3, <1>4

\* The tokens that are part of a common run, from the i-th on.
Inside(i) == {j \in i .. Len(written) : \E s \in 1 .. j : Common(s) > j - s}

LEMMA InsideIsFinite ==
    ASSUME DraftTypes, NEW i \in Nat
    PROVE  IsFiniteSet(Inside(i)) /\ Cardinality(Inside(i)) \in Nat
<1>1. IsFiniteSet(i .. Len(written))
  BY LengthsAreNats, FS_Interval
<1>2. Inside(i) \in SUBSET (i .. Len(written))
  BY DEF Inside
<1>. HIDE DEF Inside
<1>. QED  BY <1>1, <1>2, FS_Subset, FS_CardinalityType

\* A run that is common from i on has its tokens inside.
LEMMA InsideGrows ==
    ASSUME DraftTypes, NEW i \in 1 .. Len(written), NEW n \in Nat, n <= Common(i),
           NEW m, m = i + CS!Upper(n, 1)
    PROVE  /\ m \in i + 1 .. Len(written) + 1
           /\ n + Cardinality(Inside(m)) <= Cardinality(Inside(i))
<1>. DEFINE S == i .. i + n - 1
<1>1. /\ Len(written) \in Nat /\ i \in Nat /\ Common(i) \in Nat
      /\ n <= Len(written) - i + 1
  BY LengthsAreNats, CommonFits
<1>2. m \in i + 1 .. Len(written) + 1 /\ m \in Nat /\ m >= i + n
  BY <1>1 DEF CS!Upper
<1>3. IsFiniteSet(S) /\ Cardinality(S) = n
  <2>1. i \in Int /\ i + n - 1 \in Int
    BY <1>1
  <2>2. /\ IsFiniteSet(i .. i + n - 1)
        /\ Cardinality(i .. i + n - 1) = IF i > i + n - 1 THEN 0 ELSE i + n - 1 - i + 1
    BY <2>1, FS_Interval
  <2>3. (IF i > i + n - 1 THEN 0 ELSE i + n - 1 - i + 1) = n
    BY <1>1
  <2>. QED  BY <2>2, <2>3
<1>4. /\ IsFiniteSet(Inside(i)) /\ Cardinality(Inside(i)) \in Nat
      /\ IsFiniteSet(Inside(m)) /\ Cardinality(Inside(m)) \in Nat
  BY <1>1, <1>2, InsideIsFinite
<1>5. ASSUME NEW j \in S
      PROVE  j \in Inside(i) /\ j \notin Inside(m)
  <2>1. j \in i .. Len(written) /\ i \in 1 .. j /\ Common(i) > j - i /\ j < m
    BY <1>1, <1>2
  <2>2. j \in Inside(i)
    BY <2>1 DEF Inside
  <2>3. j \notin m .. Len(written)
    BY <1>1, <1>2, <2>1
  <2>. QED  BY <2>2, <2>3 DEF Inside
<1>6. Inside(m) \subseteq Inside(i)
  <2>1. \A j \in m .. Len(written) : j \in i .. Len(written)
    BY <1>1, <1>2
  <2>. QED  BY <2>1 DEF Inside
<1>. HIDE DEF S
<1>7. S \cap Inside(m) = {} /\ S \cup Inside(m) \subseteq Inside(i)
  BY <1>5, <1>6
<1>8. IsFiniteSet(S \cup Inside(m)) /\ Cardinality(S \cup Inside(m)) = n + Cardinality(Inside(m))
  <2>1. Cardinality(S \cap Inside(m)) = 0
    BY <1>7, FS_EmptySet
  <2>2. /\ IsFiniteSet(S \cup Inside(m))
        /\ Cardinality(S \cup Inside(m))
             = Cardinality(S) + Cardinality(Inside(m)) - Cardinality(S \cap Inside(m))
    BY <1>3, <1>4, FS_Union
  <2>. QED  BY <1>3, <1>4, <2>1, <2>2
<1>9. Cardinality(S \cup Inside(m)) <= Cardinality(Inside(i))
  BY <1>4, <1>7, FS_Subset
<1>. QED  BY <1>2, <1>8, <1>9

-----------------------------------------------------------------------------
(* The walk.                                                               *)

WalkRow == [covered : Nat, longest : Nat, passes : Nat]

\* One step of the walk f, which is known from later places on.
StepAt(f, i, most) ==
    IF i > Len(written) THEN [covered |-> 0, longest |-> 0, passes |-> 0]
    ELSE LET n == CS!Lower(Common(i), most)
             w == f[i + CS!Upper(n, 1)]
         IN  [covered |-> w.covered + n, longest |-> CS!Upper(w.longest, n),
              passes |-> w.passes + 1]

LEMMA StepRules ==
    ASSUME DraftTypes, NEW most \in Nat, NEW i \in 1 .. Len(written)
    PROVE  LET n == CS!Lower(Common(i), most)
               m == i + CS!Upper(n, 1)
           IN  /\ n \in Nat /\ n <= Common(i) /\ n <= most
               /\ most > 0 => (n = 0 <=> Common(i) = 0)
               /\ m \in i + 1 .. Len(written) + 1
               /\ n = 0 => m = i + 1
               /\ n > 0 => m = i + n
               /\ n + Cardinality(Inside(m)) <= Cardinality(Inside(i))
<1>. DEFINE n == CS!Lower(Common(i), most)
            m == i + CS!Upper(n, 1)
<1>1. Common(i) \in Nat
  BY CommonFits
<1>2. /\ n \in Nat /\ n <= Common(i) /\ n <= most
      /\ most > 0 => (n = 0 <=> Common(i) = 0)
  BY <1>1 DEF CS!Lower
<1>3. /\ n = 0 => m = i + 1
      /\ n > 0 => m = i + n
  <2>. HIDE DEF n
  <2>. QED  BY <1>2 DEF CS!Upper
<1>4. /\ m \in i + 1 .. Len(written) + 1
      /\ n + Cardinality(Inside(m)) <= Cardinality(Inside(i))
  <2>. HIDE DEF n
  <2>. QED  BY <1>2, InsideGrows
<1>. HIDE DEF n, m
<1>5. /\ n \in Nat /\ n <= Common(i) /\ n <= most
      /\ most > 0 => (n = 0 <=> Common(i) = 0)
      /\ m \in i + 1 .. Len(written) + 1
      /\ n = 0 => m = i + 1
      /\ n > 0 => m = i + n
      /\ n + Cardinality(Inside(m)) <= Cardinality(Inside(i))
  BY <1>2, <1>3, <1>4
<1>. QED  BY <1>5 DEF n, m

LEMMA StepLater ==
    ASSUME DraftTypes, NEW most \in Nat, NEW i \in 1 .. Len(written) + 1, NEW f, NEW g,
           \A m \in i + 1 .. Len(written) + 1 : f[m] = g[m] /\ f[m] \in WalkRow
    PROVE  StepAt(f, i, most) = StepAt(g, i, most) /\ StepAt(f, i, most) \in WalkRow
<1>0. Len(written) \in Nat
  BY LengthsAreNats
<1>1. CASE i > Len(written)
  BY <1>1 DEF StepAt, WalkRow
<1>2. CASE ~(i > Len(written))
  <2>. DEFINE n == CS!Lower(Common(i), most)
              m == i + CS!Upper(n, 1)
  <2>1. n \in Nat /\ m \in i + 1 .. Len(written) + 1
    <3>1. i \in 1 .. Len(written)
      BY <1>0, <1>2
    <3>. QED  BY <3>1, StepRules
  <2>2. /\ StepAt(f, i, most) = [covered |-> f[m].covered + n,
                                longest |-> CS!Upper(f[m].longest, n), passes |-> f[m].passes + 1]
        /\ StepAt(g, i, most) = [covered |-> g[m].covered + n,
                                longest |-> CS!Upper(g[m].longest, n), passes |-> g[m].passes + 1]
    BY <1>2 DEF StepAt
  <2>. HIDE DEF n, m
  <2>3. PICK w : w = f[m] /\ w = g[m] /\ w \in WalkRow
    BY <2>1
  <2>4. /\ w.covered \in Nat /\ w.longest \in Nat /\ w.passes \in Nat
    BY <2>3 DEF WalkRow
  <2>5. w.covered + n \in Nat /\ CS!Upper(w.longest, n) \in Nat /\ w.passes + 1 \in Nat
    BY <2>1, <2>4 DEF CS!Upper
  <2>. QED  BY <2>2, <2>3, <2>5 DEF WalkRow
<1>. QED  BY <1>1, <1>2

\* Step by step from the end, a walk is found.
LEMMA WalkExists ==
    ASSUME DraftTypes, NEW most \in Nat
    PROVE  \E f \in [1 .. Len(written) + 1 -> WalkRow] :
              \A i \in 1 .. Len(written) + 1 : f[i] = StepAt(f, i, most)
<1>. DEFINE L == Len(written)
            Part(k, f) == /\ f \in [L + 1 - k .. L + 1 -> WalkRow]
                          /\ \A i \in L + 1 - k .. L + 1 : f[i] = StepAt(f, i, most)
            T == {k \in 0 .. L : \E f : Part(k, f)}
<1>1. L \in Nat
  BY LengthsAreNats
<1>2. 0 \in T
  <2>. DEFINE z == [covered |-> 0, longest |-> 0, passes |-> 0]
              f == [i \in L + 1 - 0 .. L + 1 |-> z]
  <2>1. z \in WalkRow
    BY DEF WalkRow
  <2>2. ASSUME NEW i \in L + 1 - 0 .. L + 1
        PROVE  f[i] = StepAt(f, i, most)
    <3>1. i > Len(written)
      BY <1>1
    <3>2. f[i] = z
      OBVIOUS
    <3>. HIDE DEF f
    <3>. QED  BY <3>1, <3>2 DEF StepAt
  <2>3. f \in [L + 1 - 0 .. L + 1 -> WalkRow]
    BY <2>1
  <2>. HIDE DEF f
  <2>4. Part(0, f)
    BY <2>2, <2>3
  <2>5. 0 \in 0 .. L
    BY <1>1
  <2>. HIDE DEF Part, L
  <2>. QED  BY <2>4, <2>5
<1>3. ASSUME NEW k \in 0 .. L - 1, k \in T
      PROVE  k + 1 \in T
  <2>1. PICK f : Part(k, f)
    BY <1>3
  <2>2. PICK j : j = L - k
    OBVIOUS
  <2>3. /\ j \in 1 .. L /\ j \in Nat /\ L + 1 - (k + 1) = j /\ L + 1 - k = j + 1
        /\ k + 1 \in 0 .. L
    BY <1>1, <2>2
  <2>4. /\ f \in [j + 1 .. L + 1 -> WalkRow]
        /\ \A i \in j + 1 .. L + 1 : f[i] = StepAt(f, i, most)
    BY <2>1, <2>3
  <2>. DEFINE g == [i \in j .. L + 1 |-> IF i = j THEN StepAt(f, j, most) ELSE f[i]]
  <2>5. /\ g[j] = StepAt(f, j, most)
        /\ \A i \in j + 1 .. L + 1 : g[i] = f[i] /\ f[i] = g[i] /\ f[i] \in WalkRow
        /\ g = [i \in j .. L + 1 |-> g[i]]
    <3>1. j \in j .. L + 1 /\ \A i \in j + 1 .. L + 1 : i \in j .. L + 1 /\ i # j
      BY <1>1, <2>3
    <3>. HIDE DEF L
    <3>. QED  BY <2>4, <3>1
  <2>. HIDE DEF g
  <2>6. ASSUME NEW i \in j .. L + 1
        PROVE  g[i] = StepAt(g, i, most) /\ g[i] \in WalkRow
    <3>1. i \in 1 .. Len(written) + 1
      BY <1>1, <2>3
    <3>2. \A m \in i + 1 .. L + 1 : m \in j + 1 .. L + 1
      BY <1>1, <2>3
    <3>3. \A m \in i + 1 .. Len(written) + 1 : f[m] = g[m] /\ f[m] \in WalkRow
      <4>. HIDE DEF StepAt
      <4>. QED  BY <2>5, <3>2
    <3>4. StepAt(f, i, most) = StepAt(g, i, most) /\ StepAt(f, i, most) \in WalkRow
      BY <3>1, <3>3, StepLater
    <3>5. g[i] = StepAt(f, i, most)
      <4>1. i = j \/ i \in j + 1 .. L + 1
        BY <1>1, <2>3
      <4>. QED  BY <2>4, <2>5, <4>1
    <3>. QED  BY <3>4, <3>5
  <2>7. g \in [j .. L + 1 -> WalkRow]
    BY <2>5, <2>6
  <2>8. Part(k + 1, g)
    BY <2>3, <2>6, <2>7
  <2>. HIDE DEF Part, L
  <2>. QED  BY <2>3, <2>8
<1>4. L \in T
  <2>. HIDE DEF T
  <2>1. \A k \in 0 .. L : k \in T
    BY <1>1, <1>2, <1>3, UpTo, Zenon
  <2>. QED  BY <1>1, <2>1
<1>5. PICK f : Part(L, f)
  BY <1>4
<1>6. L + 1 - L = 1
  BY <1>1
<1>. QED  BY <1>5, <1>6

LEMMA WalkIsRun ==
    ASSUME DraftTypes, NEW most \in Nat
    PROVE  \E f \in [1 .. Len(written) + 1 -> WalkRow] :
              /\ CS!Walk(corpus, written, most) = f[1]
              /\ \A i \in 1 .. Len(written) + 1 : f[i] = StepAt(f, i, most)
<1>. DEFINE Body(f) == [i \in 1 .. Len(written) + 1 |-> StepAt(f, i, most)]
            walk == CHOOSE f : f = Body(f)
<1>1. CS!Walk(corpus, written, most) = walk[1]
  BY DEF CS!Walk, StepAt, Common
<1>2. PICK f \in [1 .. Len(written) + 1 -> WalkRow] :
              \A i \in 1 .. Len(written) + 1 : f[i] = StepAt(f, i, most)
  BY WalkExists
<1>3. f = Body(f)
  <2>. HIDE DEF StepAt
  <2>. QED  BY <1>2
<1>4. walk = Body(walk)
  <2>. HIDE DEF Body
  <2>. QED  BY <1>3
<1>. HIDE DEF walk
<1>5. walk = [i \in 1 .. Len(written) + 1 |-> walk[i]]
      /\ \A i \in 1 .. Len(written) + 1 : walk[i] = StepAt(walk, i, most)
  BY <1>4
<1>. DEFINE L == Len(written)
            T == {k \in 0 .. L : \A i \in L + 1 - k .. L + 1 : walk[i] = f[i]}
<1>6. L \in Nat
  BY LengthsAreNats
<1>7. ASSUME NEW i \in 1 .. L + 1, \A m \in i + 1 .. L + 1 : walk[m] = f[m]
      PROVE  walk[i] = f[i]
  <2>1. \A m \in i + 1 .. Len(written) + 1 : f[m] = walk[m] /\ f[m] \in WalkRow
    <3>1. \A m \in i + 1 .. L + 1 : m \in 1 .. Len(written) + 1
      BY <1>6
    <3>. QED  BY <1>2, <1>7, <3>1
  <2>2. i \in 1 .. Len(written) + 1
    OBVIOUS
  <2>3. StepAt(f, i, most) = StepAt(walk, i, most)
    BY <2>1, <2>2, StepLater
  <2>. HIDE DEF StepAt
  <2>. QED  BY <1>2, <1>5, <2>2, <2>3
<1>8. 0 \in T
  <2>1. L + 1 \in 1 .. L + 1 /\ \A m \in L + 1 + 1 .. L + 1 : walk[m] = f[m]
    BY <1>6
  <2>2. walk[L + 1] = f[L + 1]
    BY <1>7, <2>1
  <2>3. \A i \in L + 1 - 0 .. L + 1 : i = L + 1
    BY <1>6
  <2>. HIDE DEF L
  <2>. QED  BY <1>6, <2>2, <2>3
<1>9. ASSUME NEW k \in 0 .. L - 1, k \in T
      PROVE  k + 1 \in T
  <2>1. PICK j : j = L - k
    OBVIOUS
  <2>2. /\ j \in 1 .. L + 1 /\ L + 1 - (k + 1) = j /\ L + 1 - k = j + 1 /\ k + 1 \in 0 .. L
        /\ \A i \in j .. L + 1 : i = j \/ i \in j + 1 .. L + 1
    BY <1>6, <2>1
  <2>3. \A i \in j + 1 .. L + 1 : walk[i] = f[i]
    BY <1>9, <2>2
  <2>4. walk[j] = f[j]
    <3>. HIDE DEF L
    <3>. QED  BY <1>7, <2>2, <2>3
  <2>5. \A i \in j .. L + 1 : walk[i] = f[i]
    BY <2>2, <2>3, <2>4
  <2>. HIDE DEF L
  <2>. QED  BY <2>2, <2>5
<1>10. L \in T
  <2>. HIDE DEF T
  <2>1. \A k \in 0 .. L : k \in T
    BY <1>6, <1>8, <1>9, UpTo, Zenon
  <2>. QED  BY <1>6, <2>1
<1>11. walk[1] = f[1]
  <2>1. L + 1 - L = 1 /\ 1 \in 1 .. L + 1
    BY <1>6
  <2>. HIDE DEF L
  <2>. QED  BY <1>10, <2>1
<1>. QED  BY <1>1, <1>2, <1>11

-----------------------------------------------------------------------------
(* Its bounds.                                                             *)

\* What a walk has come to from the i-th token on.
WalkFits(r, i, most) ==
    /\ r \in WalkRow
    /\ r.covered <= Cardinality(Inside(i))
    /\ r.covered = 0 => \A s \in i .. Len(written) : Common(s) = 0
    /\ r.longest <= most
    /\ r.longest # 0 => \E s \in 1 .. Len(written) : r.longest <= Common(s)
    /\ r.passes <= Len(written) - i + 1
    /\ r.passes >= Len(written) - i + 1 - r.covered + (IF r.covered > 0 THEN 1 ELSE 0)

LEMMA StepFits ==
    ASSUME DraftTypes, NEW most \in Nat, most > 0, NEW i \in 1 .. Len(written), NEW f,
           \A m \in i + 1 .. Len(written) + 1 : WalkFits(f[m], m, most)
    PROVE  WalkFits(StepAt(f, i, most), i, most)
<1>. DEFINE n == CS!Lower(Common(i), most)
            m == i + CS!Upper(n, 1)
<1>1. /\ n \in Nat /\ n <= Common(i) /\ n <= most /\ Common(i) \in Nat
      /\ n = 0 <=> Common(i) = 0
      /\ m \in i + 1 .. Len(written) + 1
      /\ n = 0 => m = i + 1
      /\ n > 0 => m = i + n
      /\ n + Cardinality(Inside(m)) <= Cardinality(Inside(i))
  BY StepRules, CommonFits
<1>2. Len(written) \in Nat /\ i \in Nat /\ ~(i > Len(written)) /\ m \in Nat
  BY <1>1, LengthsAreNats
<1>3. StepAt(f, i, most) = [covered |-> f[m].covered + n,
                           longest |-> CS!Upper(f[m].longest, n), passes |-> f[m].passes + 1]
  BY <1>2 DEF StepAt
<1>. HIDE DEF n, m
<1>4. WalkFits(f[m], m, most)
  BY <1>1
<1>5. PICK cov, lon, pas : cov = f[m].covered /\ lon = f[m].longest /\ pas = f[m].passes
  OBVIOUS
<1>6. /\ cov \in Nat /\ lon \in Nat /\ pas \in Nat
      /\ cov <= Cardinality(Inside(m))
      /\ lon <= most
      /\ pas <= Len(written) - m + 1
      /\ pas >= Len(written) - m + 1 - cov + (IF cov > 0 THEN 1 ELSE 0)
  BY <1>4, <1>5 DEF WalkFits, WalkRow
<1>7. /\ cov = 0 => \A s \in m .. Len(written) : Common(s) = 0
      /\ lon # 0 => \E s \in 1 .. Len(written) : lon <= Common(s)
  BY <1>4, <1>5 DEF WalkFits
<1>8. PICK r : r = [covered |-> cov + n, longest |-> CS!Upper(lon, n), passes |-> pas + 1]
  OBVIOUS
<1>9. r.covered = cov + n /\ r.longest = CS!Upper(lon, n) /\ r.passes = pas + 1
  BY <1>8
<1>10. /\ r \in WalkRow
       /\ r.longest <= most
       /\ r.longest = lon \/ r.longest = n
  BY <1>1, <1>6, <1>8 DEF WalkRow, CS!Upper
<1>11. r.covered <= Cardinality(Inside(i))
  <2>1. Cardinality(Inside(i)) \in Nat /\ Cardinality(Inside(m)) \in Nat
    BY <1>2, InsideIsFinite
  <2>2. PICK x, y : x = Cardinality(Inside(i)) /\ y = Cardinality(Inside(m))
    OBVIOUS
  <2>3. /\ x \in Nat /\ y \in Nat /\ cov <= y /\ n + y <= x /\ cov \in Nat /\ n \in Nat
    BY <1>1, <1>6, <2>1, <2>2
  <2>4. cov + n <= x
    BY <2>3
  <2>. QED  BY <1>9, <2>2, <2>4
<1>12. ASSUME r.covered = 0
       PROVE  \A s \in i .. Len(written) : Common(s) = 0
  <2>1. n = 0 /\ cov = 0
    BY <1>1, <1>6, <1>9, <1>12
  <2>2. m = i + 1 /\ Common(i) = 0
    BY <1>1, <2>1
  <2>3. \A s \in i .. Len(written) : s = i \/ s \in i + 1 .. Len(written)
    BY <1>2
  <2>. QED  BY <1>7, <2>1, <2>2, <2>3
<1>13. ASSUME r.longest # 0
       PROVE  \E s \in 1 .. Len(written) : r.longest <= Common(s)
  BY <1>1, <1>7, <1>10, <1>13
<1>14. r.passes <= Len(written) - i + 1
  BY <1>1, <1>2, <1>6, <1>9
<1>15. r.passes >= Len(written) - i + 1 - r.covered + (IF r.covered > 0 THEN 1 ELSE 0)
  <2>1. PICK l : l = Len(written)
    OBVIOUS
  <2>2. CASE n = 0
    <3>1. /\ r.covered = cov /\ r.passes = pas + 1 /\ m = i + 1
      BY <1>1, <1>6, <1>9, <2>2
    <3>2. pas + 1 >= l - i + 1 - cov + (IF cov > 0 THEN 1 ELSE 0)
      BY <1>2, <1>6, <2>1, <3>1
    <3>. QED  BY <2>1, <3>1, <3>2
  <2>3. CASE n # 0
    <3>1. m = i + n /\ n > 0 /\ cov + n > 0
      BY <1>1, <1>6, <2>3
    <3>2. pas >= l - m + 1 - cov
      BY <1>2, <1>6, <2>1
    <3>3. pas + 1 >= l - i + 1 - (cov + n) + 1
      BY <1>1, <1>2, <1>6, <2>1, <3>1, <3>2
    <3>. QED  BY <1>9, <2>1, <3>1, <3>3
  <2>. QED  BY <2>2, <2>3
<1>16. WalkFits(r, i, most)
  BY <1>10, <1>11, <1>12, <1>13, <1>14, <1>15 DEF WalkFits
<1>. QED  BY <1>3, <1>5, <1>8, <1>16

LEMMA WalkIsBounded ==
    ASSUME DraftTypes, NEW most \in Nat, most > 0
    PROVE  WalkFits(CS!Walk(corpus, written, most), 1, most)
<1>. DEFINE L == Len(written)
<1>1. PICK f \in [1 .. Len(written) + 1 -> WalkRow] :
              /\ CS!Walk(corpus, written, most) = f[1]
              /\ \A i \in 1 .. Len(written) + 1 : f[i] = StepAt(f, i, most)
  BY WalkIsRun
<1>. DEFINE T == {k \in 0 .. L : \A i \in L + 1 - k .. L + 1 : WalkFits(f[i], i, most)}
<1>2. L \in Nat
  BY LengthsAreNats
<1>3. 0 \in T
  <2>1. f[L + 1] = [covered |-> 0, longest |-> 0, passes |-> 0]
    <3>1. L + 1 \in 1 .. Len(written) + 1 /\ L + 1 > Len(written)
      BY <1>2
    <3>. QED  BY <1>1, <3>1 DEF StepAt
  <2>2. WalkFits([covered |-> 0, longest |-> 0, passes |-> 0], L + 1, most)
    <3>1. PICK r : r = [covered |-> 0, longest |-> 0, passes |-> 0]
      OBVIOUS
    <3>2. r \in WalkRow /\ r.covered = 0 /\ r.longest = 0 /\ r.passes = 0
      BY <3>1 DEF WalkRow
    <3>3. L + 1 .. Len(written) = {} /\ Len(written) - (L + 1) + 1 = 0
      BY <1>2
    <3>4. Cardinality(Inside(L + 1)) \in Nat
      BY <1>2, InsideIsFinite
    <3>5. r.covered <= Cardinality(Inside(L + 1)) /\ r.longest <= most
      BY <3>2, <3>4
    <3>6. /\ r.passes <= Len(written) - (L + 1) + 1
          /\ r.passes >= Len(written) - (L + 1) + 1 - r.covered
                            + (IF r.covered > 0 THEN 1 ELSE 0)
      BY <3>2, <3>3
    <3>7. WalkFits(r, L + 1, most)
      BY <3>2, <3>3, <3>5, <3>6 DEF WalkFits
    <3>. QED  BY <3>1, <3>7
  <2>3. \A i \in L + 1 - 0 .. L + 1 : i = L + 1
    BY <1>2
  <2>. HIDE DEF L
  <2>. QED  BY <1>2, <2>1, <2>2, <2>3
<1>4. ASSUME NEW k \in 0 .. L - 1, k \in T
      PROVE  k + 1 \in T
  <2>1. PICK j : j = L - k
    OBVIOUS
  <2>2. /\ j \in 1 .. L /\ j \in 1 .. L + 1 /\ L + 1 - (k + 1) = j /\ L + 1 - k = j + 1
        /\ k + 1 \in 0 .. L
        /\ \A i \in j .. L + 1 : i = j \/ i \in j + 1 .. L + 1
    BY <1>2, <2>1
  <2>3. \A i \in j + 1 .. L + 1 : WalkFits(f[i], i, most)
    BY <1>4, <2>2
  <2>4. WalkFits(f[j], j, most)
    <3>1. WalkFits(StepAt(f, j, most), j, most)
      BY <2>2, <2>3, StepFits
    <3>. QED  BY <1>1, <2>2, <3>1
  <2>5. \A i \in j .. L + 1 : WalkFits(f[i], i, most)
    BY <2>2, <2>3, <2>4
  <2>. HIDE DEF L
  <2>. QED  BY <2>2, <2>5
<1>5. L \in T
  <2>. HIDE DEF T
  <2>1. \A k \in 0 .. L : k \in T
    BY <1>2, <1>3, <1>4, UpTo, Zenon
  <2>. QED  BY <1>2, <2>1
<1>6. WalkFits(f[1], 1, most)
  <2>1. L + 1 - L = 1 /\ 1 \in 1 .. L + 1
    BY <1>2
  <2>. HIDE DEF L
  <2>. QED  BY <1>5, <2>1
<1>. QED  BY <1>1, <1>6

LEMMA CoverageHolds ==
    ASSUME DraftsInv
    PROVE  CS!CoverageIsBounded
<1>. SUFFICES ASSUME stage = "ended" PROVE CS!CoverageIsBounded
  BY DEF CS!CoverageIsBounded
<1>. DEFINE c == CS!Coverage(corpus, written)
            d == CS!Simulated(corpus, written, options.most)
            inside == {i \in DOMAIN written : \E s \in 1 .. i : Common(s) > i - s}
            spans == {Common(s) : s \in DOMAIN written}
            K == CS!Max(spans)
            L == Len(written)
<1>1. /\ DraftTypes /\ L \in Nat /\ L > 0 /\ options.most \in Nat /\ options.most > 0
      /\ DOMAIN written = 1 .. L
  <2>1. DraftTypes /\ L > 0
    BY DEF DraftsInv, LengthsFit
  <2>2. written \in Seq(Tokens)
    BY <2>1 DEF DraftTypes, DraftSeq
  <2>3. options.most \in Nat /\ options.most >= 1
    BY <2>1, OptionFacts DEF DraftTypes
  <2>4. options.most > 0
    <3>1. PICK m : m = options.most
      OBVIOUS
    <3>. QED  BY <2>3, <3>1
  <2>. QED  BY <2>1, <2>2, <2>3, <2>4
<1>2. WalkFits(c, 1, L) /\ WalkFits(d, 1, options.most)
  BY <1>1, WalkIsBounded DEF CS!Coverage, CS!Simulated
<1>3. inside = Inside(1)
  BY <1>1 DEF Inside
<1>4. K \in Nat /\ \A s \in 1 .. L : Common(s) <= K
  <2>1. \A s \in 1 .. L : Common(s) \in Nat /\ Common(s) <= L
    <3>. TAKE s \in 1 .. L
    <3>1. Common(s) \in Nat /\ Common(s) <= Len(written) - s + 1
      BY <1>1, CommonFits
    <3>. QED  BY <1>1, <3>1
  <2>2. spans \subseteq Nat /\ spans # {} /\ \A x \in spans : x <= L
    <3>1. 1 \in 1 .. L
      BY <1>1
    <3>. QED  BY <1>1, <2>1, <3>1
  <2>. HIDE DEF spans
  <2>3. K \in spans /\ \A y \in spans : y <= K
    BY <1>1, <2>2, GreatestIsOne
  <2>. QED  BY <1>1, <2>2, <2>3 DEF spans
<1>. HIDE DEF c, d, inside, spans, K
<1>5. ASSUME NEW w, NEW most, WalkFits(w, 1, most)
      PROVE  /\ w.covered <= CS!Cardinality(inside)
             /\ (w.covered = 0) = (inside = {})
             /\ w.longest <= K /\ w.longest <= most
             /\ w.passes <= L
             /\ w.passes >= L - w.covered + (IF w.covered > 0 THEN 1 ELSE 0)
  <2>1. /\ w.covered \in Nat /\ w.longest \in Nat /\ w.passes \in Nat
        /\ w.covered <= Cardinality(Inside(1))
        /\ w.covered = 0 => \A s \in 1 .. L : Common(s) = 0
        /\ w.longest <= most
        /\ w.longest # 0 => \E s \in 1 .. L : w.longest <= Common(s)
    BY <1>5 DEF WalkFits, WalkRow
  <2>2. /\ w.passes <= L - 1 + 1
        /\ w.passes >= L - 1 + 1 - w.covered + (IF w.covered > 0 THEN 1 ELSE 0)
    BY <1>5 DEF WalkFits
  <2>3. w.covered <= CS!Cardinality(inside)
    BY <1>3, <2>1, DraftCardinality
  <2>4. ASSUME w.covered = 0
        PROVE  inside = {}
    <3>. SUFFICES ASSUME NEW j \in Inside(1) PROVE FALSE
      BY <1>3
    <3>1. PICK s \in 1 .. j : Common(s) > j - s
      BY DEF Inside
    <3>2. j \in 1 .. L
      BY DEF Inside
    <3>3. s \in 1 .. L /\ j - s >= 0
      BY <1>1, <3>2
    <3>4. Common(s) = 0
      BY <2>1, <2>4, <3>3
    <3>. QED  BY <3>1, <3>2, <3>3, <3>4
  <2>5. ASSUME inside = {}
        PROVE  w.covered = 0
    <3>1. Cardinality(Inside(1)) = 0
      BY <1>3, <2>5, FS_EmptySet
    <3>. QED  BY <2>1, <3>1
  <2>6. w.longest <= K
    <3>1. CASE w.longest = 0
      BY <1>4, <3>1
    <3>2. CASE w.longest # 0
      <4>1. PICK s \in 1 .. L : w.longest <= Common(s)
        BY <2>1, <3>2
      <4>2. Common(s) <= K /\ Common(s) \in Nat
        BY <1>1, <1>4, CommonFits
      <4>. QED  BY <1>4, <2>1, <4>1, <4>2
    <3>. QED  BY <3>1, <3>2
  <2>7. /\ w.passes <= L
        /\ w.passes >= L - w.covered + (IF w.covered > 0 THEN 1 ELSE 0)
    <3>1. PICK x, y, l : x = w.passes /\ y = w.covered /\ l = L
      OBVIOUS
    <3>2. /\ x \in Nat /\ y \in Nat /\ l \in Nat
          /\ x <= l - 1 + 1 /\ x >= l - 1 + 1 - y + (IF y > 0 THEN 1 ELSE 0)
      BY <1>1, <2>1, <2>2, <3>1
    <3>3. x <= l /\ x >= l - y + (IF y > 0 THEN 1 ELSE 0)
      BY <3>2
    <3>. QED  BY <3>1, <3>3
  <2>8. (w.covered = 0) = (inside = {})
    BY <2>4, <2>5
  <2>. QED  BY <2>1, <2>3, <2>6, <2>7, <2>8
<1>6. /\ c.covered <= CS!Cardinality(inside) /\ (c.covered = 0) = (inside = {})
      /\ c.longest <= K /\ c.passes <= L
  BY <1>2, <1>5
<1>7. /\ d.covered <= CS!Cardinality(inside) /\ (d.covered = 0) = (inside = {})
      /\ d.longest <= K /\ d.longest <= options.most /\ d.passes <= L
      /\ d.passes >= L - d.covered + (IF d.covered > 0 THEN 1 ELSE 0)
  BY <1>2, <1>5
<1>8. /\ \A w \in {c, d} : /\ w.covered <= CS!Cardinality(inside)
                           /\ (w.covered = 0) = (inside = {})
                           /\ w.longest <= CS!Max(spans)
      /\ d.longest <= options.most
      /\ d.passes >= L - d.covered + (IF d.covered > 0 THEN 1 ELSE 0)
      /\ d.passes <= L /\ c.passes <= L
  BY <1>6, <1>7 DEF K
<1>. QED  BY <1>8 DEF CS!CoverageIsBounded, c, d, inside, spans, Common

-----------------------------------------------------------------------------
(* The theorems.                                                           *)

\* What a model tells is told of what it was asked, whatever was kept of other texts, of
\* rejected drafts, of other images and of failed calls, and a comparison of runs reports
\* one whose output was right (MLXCausalLMService, MLXVLMAccelerator,
\* hf_corpus_speculate.py).
THEOREM AdaptersCachesAreFaithful == Spec => []CachesAreFaithful
<1>. DEFINE Inv == PromptsInv /\ ImagesInv /\ DraftsInv
<1>1. Inv => CachesAreFaithful
  BY PromptsHold, ImagesHold, DraftsHold DEF CachesAreFaithful
<1>2. Init => Inv
  BY PromptsInit, ImagesInit, DraftsInit
<1>3. Inv /\ [Next]_vars => Inv'
  BY PromptsStep, ImagesStep, DraftsStep
<1>. QED  BY <1>1, <1>2, <1>3, PTL DEF Spec

\* The drafts that are proposed are the best there are, in the order by score and in the
\* order of the search, and the coverage and the simulated decoding count no more than the
\* corpus gives (CorpusDrafter, hf_corpus_speculate.py, internal/overlap): as long as no
\* draft is longer than the hundred tokens that a token of the suffix outweighs.
THEOREM AdaptersDraftsAreBest ==
    ASSUME DraftsInReach
    PROVE  Spec => []DraftsAreBest
<1>1. DraftsInv => DraftsAreBest
  BY CandidatesHold, CoverageHolds DEF DraftsAreBest
<1>2. Init => DraftsInv
  BY DraftsInit
<1>3. DraftsInv /\ [Next]_vars => DraftsInv'
  BY DraftsStep
<1>. QED  BY <1>1, <1>2, <1>3, PTL DEF Spec
=============================================================================
