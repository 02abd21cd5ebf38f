----------------------- MODULE VerifiedDecodingProofs -----------------------
(***************************************************************************)
(* Proofs about VerifiedDecoding, for any vocabulary, model, stop tokens   *)
(* and limits.                                                             *)
(***************************************************************************)
EXTENDS VerifiedDecoding, SequenceTheorems, TLAPS

Greedy(s)   == Decoding!Greedy(s)
Complete(s) == Decoding!Complete(s)

\* What a round of candidates knows: there is room for a token, and the
\* residual kept from the rejected candidates is the next one.
RoundIsOpen ==
    pc = "verify" => /\ Len(generated) < MaxTokens
                     /\ ~stopped
                     /\ fallback # NoToken => fallback = predict[generated]

\* The conjunction is inductive.
Inv == TypeOK /\ EmitsGreedyOutput /\ RoundIsOpen

-----------------------------------------------------------------------------
(* Prefixes and what may be appended to them.                              *)

LEMMA TokenListFacts ==
    ASSUME NEW n \in Nat, NEW s
    PROVE  s \in Decoding!TokenLists(n) <=> s \in Seq(Tokens) /\ Len(s) <= n
<1>1. ASSUME s \in Decoding!TokenLists(n)
      PROVE  s \in Seq(Tokens) /\ Len(s) <= n
  <2>1. PICK i \in 0 .. n : s \in [1 .. i -> Tokens]
    BY <1>1 DEF Decoding!TokenLists
  <2>2. i \in Nat /\ i <= n
    OBVIOUS
  <2>3. s \in Seq(Tokens)
    BY <2>1, <2>2, SeqDef
  <2>4. Len(s) = i
    BY <2>1, <2>2, <2>3, LenProperties
  <2>. QED  BY <2>2, <2>3, <2>4
<1>2. ASSUME s \in Seq(Tokens), Len(s) <= n
      PROVE  s \in Decoding!TokenLists(n)
  <2>1. Len(s) \in 0 .. n /\ s \in [1 .. Len(s) -> Tokens]
    BY <1>2, LenProperties
  <2>. QED  BY <2>1 DEF Decoding!TokenLists
<1>. QED  BY <1>1, <1>2

LEMMA PrefixFacts ==
    ASSUME NEW s
    PROVE  s \in Prefixes <=> s \in Seq(Tokens) /\ Len(s) <= MaxTokens
BY TokenListFacts, DecodingAssumption DEF Prefixes, Decoding!Prefixes

\* A prefix with room has a next token or an end.
LEMMA NextTokenFacts ==
    ASSUME predict \in Decoding!Predictors,
           NEW s \in Seq(Tokens), Len(s) < MaxTokens
    PROVE  predict[s] \in Tokens \cup {End}
<1>1. MaxTokens - 1 \in Nat /\ Len(s) <= MaxTokens - 1
  BY DecodingAssumption, LenProperties
<1>2. s \in Decoding!TokenLists(MaxTokens - 1)
  BY <1>1, TokenListFacts
<1>. QED  BY <1>2 DEF Decoding!Predictors

LEMMA EmptyIsGreedy == <<>> \in Prefixes /\ Len(<<>>) = 0 /\ Greedy(<<>>)
<1>. DEFINE none == <<>>
<1>1. Len(none) = 0 /\ none \in Seq(Tokens)
  BY EmptySeq
<1>. HIDE DEF none
<1>2. none \in Prefixes
  <2>1. Len(none) <= MaxTokens
    BY <1>1, DecodingAssumption
  <2>. QED  BY <1>1, <2>1, PrefixFacts
<1>3. Greedy(none)
  BY <1>1 DEF Greedy, Decoding!Greedy
<1>. QED  BY <1>1, <1>2, <1>3 DEF none

\* Sequences that agree on their first k tokens.
LEMMA CommonPrefix ==
    ASSUME NEW s \in Seq(Tokens), NEW u \in Seq(Tokens), NEW k \in Nat,
           k <= Len(s), k <= Len(u), \A i \in 1 .. k : s[i] = u[i]
    PROVE  SubSeq(s, 1, k) = SubSeq(u, 1, k)
<1>. DEFINE First(v) == SubSeq(v, 1, k)
<1>1. ASSUME NEW v \in Seq(Tokens), k <= Len(v)
      PROVE  /\ First(v) \in Seq(Tokens)
             /\ Len(First(v)) = k
             /\ \A i \in 1 .. k : First(v)[i] = v[i]
  <2>0. Len(v) \in Nat /\ k \in Int /\ 1 \in Int
    BY LenProperties
  <2>1. \A i \in 1 .. k : v[i] \in Tokens
    BY <1>1, <2>0, ElementOfSeq
  <2>2. /\ First(v) \in Seq(Tokens)
        /\ Len(First(v)) = IF 1 <= k THEN k - 1 + 1 ELSE 0
        /\ \A i \in 1 .. k - 1 + 1 : First(v)[i] = v[1 + i - 1]
    BY <2>0, <2>1, SubSeqProperties
  <2>3. Len(First(v)) = k
    BY <2>0, <2>2
  <2>4. ASSUME NEW i \in 1 .. k
        PROVE  First(v)[i] = v[i]
    <3>1. i \in 1 .. k - 1 + 1 /\ 1 + i - 1 = i
      BY <2>0
    <3>2. First(v)[i] = v[1 + i - 1]
      BY <2>2, <3>1
    <3>. QED  BY <3>1, <3>2
  <2>. QED  BY <2>2, <2>3, <2>4
<1>. HIDE DEF First
<1>2. /\ First(s) \in Seq(Tokens) /\ First(u) \in Seq(Tokens)
      /\ Len(First(s)) = Len(First(u))
      /\ \A i \in 1 .. Len(First(s)) : First(s)[i] = First(u)[i]
  BY <1>1
<1>3. First(s) = First(u)
  BY <1>2, SeqEqual
<1>. QED  BY <1>3 DEF First

\* The model's own next token keeps the output greedy.
LEMMA AppendIsGreedy ==
    ASSUME NEW s \in Prefixes, Len(s) < MaxTokens, Greedy(s),
           NEW t \in Tokens \ stop, t = predict[s]
    PROVE  /\ Append(s, t) \in Prefixes
           /\ Len(Append(s, t)) = Len(s) + 1
           /\ SubSeq(Append(s, t), 1, Len(s)) = s
           /\ Greedy(Append(s, t))
<1>. DEFINE u == Append(s, t)
<1>0. s \in Seq(Tokens) /\ Len(s) \in Nat /\ MaxTokens \in Nat
  BY PrefixFacts, LenProperties, DecodingAssumption
<1>1. /\ u \in Seq(Tokens)
      /\ Len(u) = Len(s) + 1
      /\ \A i \in 1 .. Len(s) : u[i] = s[i]
      /\ u[Len(s) + 1] = t
  BY <1>0, AppendProperties
<1>. HIDE DEF u
<1>2. u \in Prefixes
  BY <1>0, <1>1, PrefixFacts
<1>3. ASSUME NEW i \in 1 .. Len(s) + 1
      PROVE  SubSeq(u, 1, i - 1) = SubSeq(s, 1, i - 1)
  <2>1. i - 1 \in Nat /\ i - 1 <= Len(s) /\ i - 1 <= Len(u)
    BY <1>0, <1>1
  <2>2. \A j \in 1 .. i - 1 : u[j] = s[j]
    BY <1>0, <1>1, <2>1
  <2>. QED  BY <1>0, <1>1, <2>1, <2>2, CommonPrefix
<1>4. SubSeq(s, 1, Len(s)) = s
  BY <1>0, SubSeqFull
<1>5. SubSeq(u, 1, Len(s)) = s
  <2>1. Len(s) + 1 \in 1 .. Len(s) + 1 /\ (Len(s) + 1) - 1 = Len(s)
    BY <1>0
  <2>. QED  BY <1>3, <1>4, <2>1
<1>6. ASSUME NEW i \in 1 .. Len(u)
      PROVE  u[i] = predict[SubSeq(u, 1, i - 1)] /\ u[i] \notin stop
  <2>1. CASE i \in 1 .. Len(s)
    <3>1. i \in 1 .. Len(s) + 1
      BY <1>1
    <3>. QED  BY <1>1, <1>3, <2>1, <3>1 DEF Greedy, Decoding!Greedy
  <2>2. CASE i = Len(s) + 1
    <3>1. i - 1 = Len(s)
      BY <1>0, <2>2
    <3>2. SubSeq(u, 1, i - 1) = s
      BY <1>5, <3>1
    <3>. QED  BY <1>1, <2>2, <3>2
  <2>. QED  BY <1>0, <1>1, <2>1, <2>2
<1>. QED
  BY <1>1, <1>2, <1>5, <1>6 DEF u, Greedy, Decoding!Greedy

-----------------------------------------------------------------------------
(* Accepted tokens.                                                        *)

\* The first n tokens of c after g, token by token.
LEMMA ExtensionFacts ==
    ASSUME NEW g \in Seq(Tokens), NEW c \in Seq(Tokens), NEW n \in 0 .. Len(c)
    PROVE  LET s == g \o SubSeq(c, 1, n)
           IN  /\ s \in Seq(Tokens)
               /\ Len(s) = Len(g) + n
               /\ \A i \in 1 .. Len(g) : s[i] = g[i]
               /\ \A i \in 1 .. n : s[Len(g) + i] = c[i]
<1>. DEFINE d == SubSeq(c, 1, n)
<1>0. /\ Len(g) \in Nat /\ Len(c) \in Nat
      /\ n \in Nat /\ n <= Len(c) /\ n \in Int /\ 1 \in Int
  BY LenProperties
<1>1. \A i \in 1 .. n : c[i] \in Tokens
  BY <1>0, ElementOfSeq
<1>2. /\ d \in Seq(Tokens)
      /\ Len(d) = IF 1 <= n THEN n - 1 + 1 ELSE 0
      /\ \A i \in 1 .. n - 1 + 1 : d[i] = c[1 + i - 1]
  BY <1>0, <1>1, SubSeqProperties
<1>3. Len(d) = n /\ \A i \in 1 .. n : d[i] = c[i]
  <2>1. Len(d) = n
    BY <1>0, <1>2
  <2>2. ASSUME NEW i \in 1 .. n
        PROVE  d[i] = c[i]
    <3>1. 1 + i - 1 = i /\ i \in 1 .. n - 1 + 1
      BY <1>0
    <3>2. d[i] = c[1 + i - 1]
      BY <1>2, <3>1
    <3>. QED  BY <3>1, <3>2
  <2>. QED  BY <2>1, <2>2
<1>. HIDE DEF d
<1>4. /\ g \o d \in Seq(Tokens)
      /\ Len(g \o d) = Len(g) + Len(d)
      /\ \A i \in 1 .. Len(g) + Len(d) :
            (g \o d)[i] = IF i <= Len(g) THEN g[i] ELSE d[i - Len(g)]
  BY <1>2, ConcatProperties
<1>5. \A i \in 1 .. Len(g) : (g \o d)[i] = g[i]
  BY <1>0, <1>3, <1>4
<1>6. ASSUME NEW i \in 1 .. n
      PROVE  (g \o d)[Len(g) + i] = c[i]
  <2>1. /\ Len(g) + i \in 1 .. Len(g) + Len(d)
        /\ ~ (Len(g) + i <= Len(g))
        /\ (Len(g) + i) - Len(g) = i
    BY <1>0, <1>3
  <2>. QED  BY <1>3, <1>4, <2>1
<1>. QED  BY <1>3, <1>4, <1>5, <1>6 DEF d

\* The visible part of what the model accepts keeps the output greedy, and
\* completes it if a stop token was cut off.
LEMMA AcceptedIsGreedy ==
    ASSUME generated \in Prefixes, Greedy(generated),
           NEW c \in Candidates, NEW a \in 1 .. Len(c), NEW n \in 0 .. a,
           Agrees(c, a), CutsAt(c, a, n)
    PROVE  LET s == generated \o SubSeq(c, 1, n)
           IN  /\ s \in Prefixes
               /\ Len(s) = Len(generated) + n
               /\ SubSeq(s, 1, Len(generated)) = generated
               /\ Greedy(s)
               /\ n < a => Complete(s)
<1>. DEFINE g == generated
            s == generated \o SubSeq(c, 1, n)
<1>0. /\ g \in Seq(Tokens) /\ Len(g) \in Nat /\ Len(g) <= MaxTokens
      /\ c \in Seq(Tokens) /\ Len(c) \in Nat
      /\ n \in Nat /\ a \in Nat /\ n <= a /\ a <= Len(c) /\ n \in 0 .. Len(c)
      /\ MaxTokens \in Nat
  BY PrefixFacts, LenProperties, DecodingAssumption DEF Candidates
<1>00. Len(g) + Len(c) <= MaxTokens
  BY <1>0, DecodingAssumption DEF Candidates, Remaining, AtMost
<1>1. /\ s \in Seq(Tokens)
      /\ Len(s) = Len(g) + n
      /\ \A i \in 1 .. Len(g) : s[i] = g[i]
      /\ \A i \in 1 .. n : s[Len(g) + i] = c[i]
  BY <1>0, ExtensionFacts
<1>2. ASSUME NEW j \in 0 .. n
      PROVE  SubSeq(s, 1, Len(g) + j) = g \o SubSeq(c, 1, j)
  <2>. DEFINE u == g \o SubSeq(c, 1, j)
  <2>1. /\ u \in Seq(Tokens)
        /\ Len(u) = Len(g) + j
        /\ \A i \in 1 .. Len(g) : u[i] = g[i]
        /\ \A i \in 1 .. j : u[Len(g) + i] = c[i]
    <3>1. j \in 0 .. Len(c)
      BY <1>0
    <3>. QED  BY <1>0, <3>1, ExtensionFacts
  <2>. HIDE DEF u, s
  <2>2. ASSUME NEW i \in 1 .. Len(g) + j
        PROVE  s[i] = u[i]
    <3>1. CASE i <= Len(g)
      BY <1>0, <1>1, <2>1, <3>1
    <3>2. CASE ~ (i <= Len(g))
      <4>1. /\ i - Len(g) \in 1 .. j /\ i - Len(g) \in 1 .. n
            /\ Len(g) + (i - Len(g)) = i
        BY <1>0, <3>2
      <4>2. s[Len(g) + (i - Len(g))] = u[Len(g) + (i - Len(g))]
        BY <1>1, <2>1, <4>1
      <4>. QED  BY <4>1, <4>2
    <3>. QED  BY <3>1, <3>2
  <2>3. /\ Len(g) + j \in Nat
        /\ Len(g) + j <= Len(s) /\ Len(g) + j <= Len(u)
    BY <1>0, <1>1, <2>1
  <2>4. SubSeq(s, 1, Len(g) + j) = SubSeq(u, 1, Len(g) + j)
    BY <1>1, <2>1, <2>2, <2>3, CommonPrefix
  <2>5. SubSeq(u, 1, Len(g) + j) = u
    BY <2>1, SubSeqFull
  <2>. QED  BY <2>4, <2>5 DEF u
<1>3. SubSeq(s, 1, Len(g)) = g
  <2>. HIDE DEF s
  <2>1. SubSeq(s, 1, Len(g)) = SubSeq(g, 1, Len(g))
    BY <1>0, <1>1, CommonPrefix
  <2>. QED  BY <1>0, <2>1, SubSeqFull
<1>4. s \in Prefixes
  <2>. HIDE DEF s
  <2>1. Len(s) <= MaxTokens
    BY <1>0, <1>00, <1>1
  <2>. QED  BY <1>1, <2>1, PrefixFacts
<1>5. ASSUME NEW i \in 1 .. Len(s)
      PROVE  s[i] = predict[SubSeq(s, 1, i - 1)] /\ s[i] \notin stop
  <2>1. CASE i <= Len(g)
    <3>. HIDE DEF s
    <3>1. i \in 1 .. Len(g) /\ i - 1 \in Nat /\ i - 1 <= Len(g)
          /\ i - 1 <= Len(s)
      BY <1>0, <1>1, <2>1
    <3>2. SubSeq(s, 1, i - 1) = SubSeq(g, 1, i - 1)
      <4>1. \A k \in 1 .. i - 1 : s[k] = g[k]
        BY <1>0, <1>1, <3>1
      <4>. QED  BY <1>0, <1>1, <3>1, <4>1, CommonPrefix
    <3>. QED  BY <1>1, <3>1, <3>2 DEF Greedy, Decoding!Greedy
  <2>2. CASE ~ (i <= Len(g))
    <3>. DEFINE j == i - Len(g)
    <3>1. /\ j \in 1 .. n /\ j \in 1 .. a /\ j - 1 \in 0 .. n
          /\ Len(g) + j = i /\ Len(g) + (j - 1) = i - 1
      BY <1>0, <1>1, <2>2
    <3>. HIDE DEF j
    <3>2. s[i] = c[j]
      BY <1>1, <3>1
    <3>3. SubSeq(s, 1, i - 1) = g \o SubSeq(c, 1, j - 1)
      BY <1>2, <3>1
    <3>4. c[j] = predict[g \o SubSeq(c, 1, j - 1)] /\ c[j] \notin stop
      BY <3>1 DEF Agrees, CutsAt
    <3>. QED  BY <3>2, <3>3, <3>4
  <2>. QED  BY <2>1, <2>2
<1>6. ASSUME n < a
      PROVE  predict[s] \in stop
  <2>1. n + 1 \in 1 .. a /\ (n + 1) - 1 = n
    BY <1>0, <1>6
  <2>2. c[n + 1] = predict[generated \o SubSeq(c, 1, n)]
    BY <2>1 DEF Agrees
  <2>. QED  BY <1>6, <2>2 DEF CutsAt
<1>. QED
  <2>. HIDE DEF s
  <2>1. Greedy(s)
    BY <1>5 DEF Greedy, Decoding!Greedy
  <2>2. n < a => Complete(s)
    BY <1>6 DEF Complete, Decoding!Complete
  <2>. QED  BY <1>1, <1>3, <1>4, <2>1, <2>2 DEF s

-----------------------------------------------------------------------------
(* The invariant is inductive, and the output only grows.                  *)

\* What a step of greedy decoding asks of generated.
Grows == /\ UNCHANGED <<predict, stop>>
         /\ generated' \in Prefixes
         /\ Greedy(generated')
         /\ Len(generated') >= Len(generated)
         /\ SubSeq(generated', 1, Len(generated)) = generated

LEMMA ProbesInRange ==
    ASSUME NEW n \in Nat, n <= MaxTokens
    PROVE  AtMost(Probes, MaxTokens - n) \in 0 .. Probes
BY DecodingAssumption DEF AtMost

LEMMA InitEstablishes == Init => Inv
<1>. SUFFICES ASSUME Init PROVE Inv
  OBVIOUS
<1>1. generated \in Prefixes /\ Len(generated) = 0 /\ Greedy(generated)
  BY EmptyIsGreedy DEF Init
<1>2. AtMost(Probes, MaxTokens) \in 0 .. Probes /\ 0 \in 0 .. Probes
      /\ 0 \in 0 .. Limit
  BY DecodingAssumption DEF AtMost
<1>3. TypeOK
  BY <1>1, <1>2 DEF Init, TypeOK
<1>4. EmitsGreedyOutput /\ RoundIsOpen
  BY <1>1 DEF Init, EmitsGreedyOutput, RoundIsOpen, Greedy
<1>. QED  BY <1>3, <1>4 DEF Inv

\* Steps that leave the output alone.
LEMMA SameOutput ==
    ASSUME Inv, UNCHANGED <<predict, stop, generated>>
    PROVE  /\ Grows
           /\ Decoding!Greedy(generated)'
           /\ Complete(generated) => Decoding!Complete(generated)'
<1>1. generated \in Seq(Tokens)
  BY PrefixFacts DEF Inv, TypeOK
<1>2. SubSeq(generated, 1, Len(generated)) = generated
  BY <1>1, SubSeqFull
<1>3. Len(generated) >= Len(generated)
  BY <1>1, LenProperties
<1>. QED
  BY <1>2, <1>3 DEF Inv, TypeOK, EmitsGreedyOutput, Grows, Greedy, Complete,
                    Decoding!Greedy, Decoding!Complete

\* Steps that put out s.
LEMMA NewOutput ==
    ASSUME Inv, UNCHANGED <<predict, stop>>, NEW s \in Prefixes,
           generated' = s, Greedy(s), Len(s) >= Len(generated),
           SubSeq(s, 1, Len(generated)) = generated
    PROVE  /\ Grows
           /\ Decoding!Greedy(generated)'
           /\ Complete(s) => Decoding!Complete(generated)'
BY DEF Grows, Greedy, Complete, Decoding!Greedy, Decoding!Complete

LEMMA CommitFacts ==
    ASSUME NEW s \in Prefixes, Commit(s)
    PROVE  generated' = s /\ probes' \in 0 .. Probes /\ pc' = "loop"
<1>1. Len(s) \in Nat /\ Len(s) <= MaxTokens
  BY PrefixFacts, LenProperties
<1>. QED  BY <1>1, ProbesInRange DEF Commit

LEMMA DraftPreserves ==
    ASSUME Inv, Draft PROVE Inv' /\ Grows
<1>1. UNCHANGED <<predict, stop, generated>>
  BY DEF Draft
<1>2. Len(generated) < MaxTokens
  <2>1. Len(generated) \in Nat /\ MaxTokens \in Nat
    BY PrefixFacts, LenProperties, DecodingAssumption DEF Inv, TypeOK
  <2>. QED  BY <2>1 DEF Draft, Remaining
<1>3. TypeOK'
  <2>1. tries' \in 0 .. Limit
    BY DecodingAssumption DEF Draft
  <2>. QED  BY <2>1 DEF Inv, TypeOK, Draft
<1>4. EmitsGreedyOutput' /\ RoundIsOpen'
  BY <1>1, <1>2, SameOutput
  DEF Inv, Draft, EmitsGreedyOutput, RoundIsOpen, Complete
<1>. QED  BY <1>1, <1>3, <1>4, SameOutput DEF Inv

LEMMA AcceptsPreserves ==
    ASSUME Inv, NEW c \in Candidates, NEW a \in 1 .. Len(c), NEW n \in 0 .. a,
           NEW r \in Told(generated \o SubSeq(c, 1, a)), Accepts(c, a, n, r)
    PROVE  Inv' /\ Grows
<1>. DEFINE s == generated \o SubSeq(c, 1, n)
            continues == n = a /\ r # NoToken /\ Room(s)
<1>0. /\ UNCHANGED <<predict, stop, fallback>>
      /\ Agrees(c, a) /\ CutsAt(c, a, n)
      /\ stopped' = (n < a \/ (continues /\ r \in stop))
      /\ Commit(IF continues /\ r \notin stop THEN Append(s, r) ELSE s)
      /\ tries' = 0
  BY DEF Accepts
<1>1. /\ s \in Prefixes
      /\ Len(s) = Len(generated) + n
      /\ SubSeq(s, 1, Len(generated)) = generated
      /\ Greedy(s)
      /\ n < a => Complete(s)
  BY <1>0, AcceptedIsGreedy DEF Inv, TypeOK, EmitsGreedyOutput, Greedy
<1>2. /\ Len(generated) \in Nat /\ Len(s) \in Nat /\ n \in Nat /\ a \in Nat
      /\ Len(s) >= Len(generated) /\ s \in Seq(Tokens)
  <2>1. Len(generated) \in Nat /\ c \in Seq(Tokens) /\ Len(c) \in Nat
    BY PrefixFacts, LenProperties DEF Inv, TypeOK, Candidates
  <2>2. n \in Nat /\ a \in Nat
    BY <2>1
  <2>. HIDE DEF s
  <2>. QED  BY <1>1, <2>1, <2>2, PrefixFacts
<1>3. ASSUME continues
      PROVE  Len(s) < MaxTokens /\ r = predict[s] /\ r \in Tokens
  <2>1. Len(s) < MaxTokens /\ r \in Told(s) /\ r # NoToken
    BY <1>3 DEF Room
  <2>. HIDE DEF s
  <2>2. r \in {predict[s]} \ {End}
    BY <2>1 DEF Told
  <2>3. predict[s] \in Tokens \cup {End}
    BY <1>2, <2>1, NextTokenFacts DEF Inv, TypeOK
  <2>. QED  BY <2>1, <2>2, <2>3
<1>. HIDE DEF s, continues
<1>4. 0 \in 0 .. Limit
  BY DecodingAssumption
<1>5. CASE continues /\ r \notin stop
  <2>. DEFINE t == Append(s, r)
  <2>1. /\ t \in Prefixes
        /\ Len(t) = Len(s) + 1
        /\ Greedy(t)
    BY <1>1, <1>3, <1>5, AppendIsGreedy
  <2>. HIDE DEF t
  <2>2. SubSeq(t, 1, Len(generated)) = generated
    <3>1. t \in Seq(Tokens) /\ Len(generated) <= Len(t)
          /\ Len(generated) <= Len(s)
      BY <1>2, <2>1, PrefixFacts
    <3>2. ASSUME NEW i \in 1 .. Len(generated)
          PROVE  t[i] = s[i]
      BY <1>2, <1>3, <1>5, AppendProperties DEF t
    <3>3. SubSeq(t, 1, Len(generated)) = SubSeq(s, 1, Len(generated))
      BY <1>2, <3>1, <3>2, CommonPrefix
    <3>. QED  BY <1>1, <3>3
  <2>3. generated' = t /\ probes' \in 0 .. Probes /\ pc' = "loop" /\ ~stopped'
    <3>1. Commit(t)
      BY <1>0, <1>5 DEF t
    <3>2. ~stopped'
      <4>1. n = a
        BY <1>5 DEF continues
      <4>2. ~ (n < a)
        BY <1>2, <4>1
      <4>. QED  BY <1>0, <1>5, <4>2, Zenon
    <3>. QED  BY <2>1, <3>1, <3>2, CommitFacts
  <2>4. t \in Prefixes /\ Greedy(t) /\ Len(t) >= Len(generated)
    BY <1>2, <2>1
  <2>5. Grows /\ Decoding!Greedy(generated)'
    BY <1>0, <2>2, <2>3, <2>4, NewOutput
  <2>6. TypeOK'
    BY <1>0, <1>4, <2>3, <2>4 DEF Inv, TypeOK
  <2>7. EmitsGreedyOutput' /\ RoundIsOpen'
    BY <2>3, <2>5 DEF EmitsGreedyOutput, RoundIsOpen
  <2>. QED  BY <2>5, <2>6, <2>7 DEF Inv
<1>6. CASE ~ (continues /\ r \notin stop)
  <2>1. generated' = s /\ probes' \in 0 .. Probes /\ pc' = "loop"
    <3>1. Commit(s)
      BY <1>0, <1>6
    <3>. QED  BY <1>1, <3>1, CommitFacts
  <2>2. Grows /\ Decoding!Greedy(generated)'
        /\ (Complete(s) => Decoding!Complete(generated)')
    BY <1>0, <1>1, <1>2, <2>1, NewOutput
  <2>3. stopped' => Complete(s)
    <3>1. continues /\ r \in stop => Complete(s)
      BY <1>3 DEF Complete, Decoding!Complete
    <3>. QED  BY <1>0, <1>1, <3>1
  <2>4. stopped' \in BOOLEAN
    BY <1>0
  <2>5. TypeOK'
    BY <1>0, <1>1, <1>4, <2>1, <2>4 DEF Inv, TypeOK
  <2>6. EmitsGreedyOutput' /\ RoundIsOpen'
    BY <2>1, <2>2, <2>3 DEF EmitsGreedyOutput, RoundIsOpen
  <2>. QED  BY <2>2, <2>5, <2>6 DEF Inv
<1>. QED  BY <1>5, <1>6

LEMMA RejectsPreserves ==
    ASSUME Inv, NEW r \in Told(generated), Rejects(r)
    PROVE  Inv' /\ Grows
<1>1. UNCHANGED <<predict, stop, generated, stopped, probes, pc>>
      /\ pc = "verify"
  BY DEF Rejects
<1>2. r = NoToken \/ (r = predict[generated] /\ r \in Tokens)
  <2>1. Len(generated) < MaxTokens /\ generated \in Seq(Tokens)
    BY <1>1, PrefixFacts DEF Inv, TypeOK, RoundIsOpen
  <2>2. predict[generated] \in Tokens \cup {End}
    BY <2>1, NextTokenFacts DEF Inv, TypeOK
  <2>. QED  BY <2>1, <2>2 DEF Told
<1>3. tries' \in 0 .. Limit
  BY DecodingAssumption DEF Inv, TypeOK, Rejects
<1>4. TypeOK'
  BY <1>1, <1>2, <1>3 DEF Inv, TypeOK, Rejects
<1>5. EmitsGreedyOutput'
  BY <1>1, SameOutput DEF Inv, EmitsGreedyOutput, Complete
<1>6. RoundIsOpen'
  BY <1>1, <1>2 DEF Inv, RoundIsOpen, Rejects
<1>. QED  BY <1>1, <1>4, <1>5, <1>6, SameOutput DEF Inv

LEMMA UseResidualPreserves ==
    ASSUME Inv, UseResidual PROVE Inv' /\ Grows
<1>1. /\ UNCHANGED <<predict, stop, stopped, tries, fallback>>
      /\ Len(generated) < MaxTokens /\ ~stopped
      /\ fallback = predict[generated] /\ fallback \in Tokens
      /\ generated \in Prefixes /\ Greedy(generated)
  BY DEF Inv, TypeOK, EmitsGreedyOutput, RoundIsOpen, UseResidual, Greedy
<1>2. CASE fallback \in stop
  <2>1. UNCHANGED <<generated, probes>> /\ pc' = "done"
    BY <1>2 DEF UseResidual
  <2>2. Complete(generated)
    BY <1>1, <1>2 DEF Complete, Decoding!Complete
  <2>3. TypeOK'
    BY <1>1, <2>1 DEF Inv, TypeOK
  <2>4. EmitsGreedyOutput' /\ RoundIsOpen'
    BY <1>1, <2>1, <2>2, SameOutput DEF EmitsGreedyOutput, RoundIsOpen
  <2>. QED  BY <1>1, <2>1, <2>3, <2>4, SameOutput DEF Inv
<1>3. CASE fallback \notin stop
  <2>. DEFINE t == Append(generated, fallback)
  <2>1. /\ t \in Prefixes
        /\ Len(t) = Len(generated) + 1
        /\ SubSeq(t, 1, Len(generated)) = generated
        /\ Greedy(t)
    BY <1>1, <1>3, AppendIsGreedy
  <2>. HIDE DEF t
  <2>2. generated' = t /\ probes' \in 0 .. Probes /\ pc' = "loop"
    <3>1. Commit(t)
      BY <1>3 DEF UseResidual, t
    <3>. QED  BY <2>1, <3>1, CommitFacts
  <2>3. Len(t) >= Len(generated)
    <3>1. Len(generated) \in Nat
      BY <1>1, PrefixFacts, LenProperties
    <3>. QED  BY <2>1, <3>1
  <2>4. Grows /\ Decoding!Greedy(generated)'
    BY <1>1, <2>1, <2>2, <2>3, NewOutput
  <2>5. TypeOK'
    BY <1>1, <2>1, <2>2 DEF Inv, TypeOK
  <2>6. EmitsGreedyOutput' /\ RoundIsOpen'
    BY <1>1, <2>2, <2>4 DEF EmitsGreedyOutput, RoundIsOpen
  <2>. QED  BY <2>4, <2>5, <2>6 DEF Inv
<1>. QED  BY <1>2, <1>3

LEMMA StepPreserves ==
    ASSUME Inv, Step PROVE Inv' /\ Grows
<1>1. /\ UNCHANGED <<predict, stop, stopped, tries, fallback>>
      /\ generated \in Prefixes /\ Greedy(generated)
  BY DEF Inv, TypeOK, EmitsGreedyOutput, Step, Greedy
<1>2. Len(generated) < MaxTokens /\ ~stopped /\ Len(generated) \in Nat
  <2>1. Len(generated) \in Nat /\ MaxTokens \in Nat
    BY <1>1, PrefixFacts, LenProperties, DecodingAssumption
  <2>. QED  BY <2>1 DEF Inv, RoundIsOpen, Step, Remaining
<1>3. probes' \in 0 .. Probes
  BY DecodingAssumption DEF Inv, TypeOK, Step
<1>4. CASE predict[generated] \in stop \cup {End}
  <2>1. generated' = generated /\ pc' = "done"
    BY <1>4 DEF Step
  <2>2. Complete(generated)
    BY <1>4 DEF Complete, Decoding!Complete
  <2>3. TypeOK'
    BY <1>1, <1>3, <2>1 DEF Inv, TypeOK
  <2>4. EmitsGreedyOutput' /\ RoundIsOpen'
    BY <1>1, <2>1, <2>2, SameOutput DEF EmitsGreedyOutput, RoundIsOpen
  <2>. QED  BY <1>1, <2>1, <2>3, <2>4, SameOutput DEF Inv
<1>5. CASE predict[generated] \notin stop \cup {End}
  <2>. DEFINE t == Append(generated, predict[generated])
  <2>0. predict[generated] \in Tokens \ stop
    <3>1. generated \in Seq(Tokens)
      BY <1>1, PrefixFacts
    <3>2. predict[generated] \in Tokens \cup {End}
      BY <1>2, <3>1, NextTokenFacts DEF Inv, TypeOK
    <3>. QED  BY <1>5, <3>2
  <2>1. /\ t \in Prefixes
        /\ Len(t) = Len(generated) + 1
        /\ SubSeq(t, 1, Len(generated)) = generated
        /\ Greedy(t)
    BY <1>1, <1>2, <2>0, AppendIsGreedy
  <2>2. generated' = t /\ pc' = "loop"
    BY <1>5 DEF Step
  <2>. HIDE DEF t
  <2>3. Len(t) >= Len(generated)
    BY <1>2, <2>1
  <2>4. Grows /\ Decoding!Greedy(generated)'
    BY <1>1, <2>1, <2>2, <2>3, NewOutput
  <2>5. TypeOK'
    BY <1>1, <1>3, <2>1, <2>2 DEF Inv, TypeOK
  <2>6. EmitsGreedyOutput' /\ RoundIsOpen'
    BY <1>1, <1>2, <2>2, <2>4 DEF EmitsGreedyOutput, RoundIsOpen
  <2>. QED  BY <2>4, <2>5, <2>6 DEF Inv
<1>. QED  BY <1>4, <1>5

LEMMA ContinueTailPreserves ==
    ASSUME Inv, ContinueTail PROVE Inv' /\ Grows
<1>1. /\ UNCHANGED <<predict, stop, stopped, tries, fallback, probes>>
      /\ ~stopped /\ pc' = "done"
  BY DEF ContinueTail
<1>2. PICK s \in Prefixes : /\ Len(s) >= Len(generated)
                            /\ SubSeq(s, 1, Len(generated)) = generated
                            /\ Greedy(s)
                            /\ Complete(s)
                            /\ generated' = s
  BY DEF ContinueTail, Greedy, Complete
<1>3. Grows /\ Decoding!Greedy(generated)' /\ Decoding!Complete(generated)'
  BY <1>1, <1>2, NewOutput
<1>4. TypeOK'
  BY <1>1, <1>2 DEF Inv, TypeOK
<1>5. EmitsGreedyOutput' /\ RoundIsOpen'
  BY <1>1, <1>3 DEF EmitsGreedyOutput, RoundIsOpen
<1>. QED  BY <1>3, <1>4, <1>5 DEF Inv

LEMMA FinishPreserves ==
    ASSUME Inv, Finish PROVE Inv' /\ Grows
<1>1. UNCHANGED <<predict, stop, generated, stopped, tries, fallback, probes>>
      /\ pc' = "done"
  BY DEF Finish
<1>2. Complete(generated)
  <2>1. Len(generated) \in Nat /\ MaxTokens \in Nat
    BY PrefixFacts, LenProperties, DecodingAssumption DEF Inv, TypeOK
  <2>2. Remaining = 0 => Complete(generated)
    BY <2>1 DEF Remaining, Complete, Decoding!Complete
  <2>. QED  BY <2>2 DEF Inv, EmitsGreedyOutput, Finish, Complete
<1>3. TypeOK'
  BY <1>1 DEF Inv, TypeOK
<1>4. EmitsGreedyOutput' /\ RoundIsOpen'
  BY <1>1, <1>2, SameOutput DEF EmitsGreedyOutput, RoundIsOpen
<1>. QED  BY <1>1, <1>3, <1>4, SameOutput DEF Inv

LEMMA StutterPreserves ==
    ASSUME Inv, UNCHANGED vars PROVE Inv' /\ Grows
<1>1. TypeOK'
  BY DEF Inv, TypeOK, vars
<1>2. EmitsGreedyOutput'
  BY SameOutput DEF Inv, EmitsGreedyOutput, Complete, vars
<1>3. RoundIsOpen'
  BY DEF Inv, RoundIsOpen, vars
<1>. QED  BY <1>1, <1>2, <1>3, SameOutput DEF Inv, vars

LEMMA NextPreserves == Inv /\ [Next]_vars => Inv' /\ Grows
<1>. SUFFICES ASSUME Inv, [Next]_vars PROVE Inv' /\ Grows
  OBVIOUS
<1>1. ASSUME Verify PROVE Inv' /\ Grows
  <2>1. CASE \E c \in Candidates : \E a \in 1 .. Len(c) : \E n \in 0 .. a :
                \E r \in Told(generated \o SubSeq(c, 1, a)) : Accepts(c, a, n, r)
    BY <2>1, AcceptsPreserves
  <2>2. CASE \E r \in Told(generated) : Rejects(r)
    BY <2>2, RejectsPreserves
  <2>. QED  BY <1>1, <2>1, <2>2 DEF Verify
<1>. QED
  BY <1>1, DraftPreserves, UseResidualPreserves, StepPreserves,
     ContinueTailPreserves, FinishPreserves, StutterPreserves DEF Next

LEMMA DecodingInvariant == Spec => []Inv
BY InitEstablishes, NextPreserves, PTL DEF Spec

-----------------------------------------------------------------------------
(* The theorems.                                                           *)

\* The output never exceeds max_tokens, and the counters stay in range.
THEOREM DecodingTypeCorrect == Spec => []TypeOK
BY DecodingInvariant, PTL DEF Inv

\* For any model and any drafter, generate puts out what greedy decoding does.
THEOREM DecodingIsGreedy == Spec => []EmitsGreedyOutput
BY DecodingInvariant, PTL DEF Inv

\* Every behaviour of generate is, seen through its output, a behaviour of
\* greedy decoding.
THEOREM DecodingImplementsGreedy == Spec => ImplementsGreedy
<1>1. Init => Decoding!Init
  BY DEF Init, Decoding!Init
<1>2. Inv /\ Inv' /\ Grows /\ [Next]_vars
         => [Decoding!Next]_(Decoding!vars)
  <2>. SUFFICES ASSUME Inv, Inv', Grows, [Next]_vars
                PROVE  [Decoding!Next]_(Decoding!vars)
    OBVIOUS
  <2>1. CASE pc = "done"
    <3>1. UNCHANGED vars
      BY <2>1 DEF Next, Draft, Verify, Accepts, Rejects, UseResidual, Step,
                  ContinueTail, Finish
    <3>. QED  BY <3>1 DEF vars, Decoding!vars
  <2>2. CASE pc # "done"
    <3>1. pc' = "done" => Decoding!Complete(generated)'
      BY DEF Inv, EmitsGreedyOutput
    <3>2. pc' = "done" => Decoding!Complete(generated')
      BY <3>1 DEF Grows, Decoding!Complete
    <3>3. (pc' = "done") \in BOOLEAN
      OBVIOUS
    <3>4. Decoding!Emit
      BY <2>2, <3>2, <3>3 DEF Grows, Greedy, Prefixes, Decoding!Emit
    <3>. QED  BY <3>4 DEF Decoding!Next
  <2>. QED  BY <2>1, <2>2
<1>. QED
  BY <1>1, <1>2, DecodingInvariant, NextPreserves, PTL
  DEF Spec, ImplementsGreedy, Decoding!Spec

=============================================================================
