----------------------------- MODULE QueueFacts -----------------------------
(***************************************************************************)
(* Facts about sequences and sets of naturals that the proofs of the       *)
(* queues of this project rest on.                                         *)
(***************************************************************************)
EXTENDS SequencesExt, SequenceTheorems, FiniteSetTheorems, WellFoundedInduction,
        TLAPS

\* A nonempty set of naturals has a least element, the one Min names.
LEMMA MinOfNaturals ==
    ASSUME NEW S, S \subseteq Nat, S # {}
    PROVE  Min(S) \in S /\ \A y \in S : Min(S) <= y
<1>. DEFINE Less == {p \in Nat \X Nat : p[1] < p[2]}
<1>1. IsWellFoundedOn(Less, Nat)
  BY NatLessThanWellFounded DEF OpToRel
<1>2. \E x \in S : \A y \in S : <<y, x>> \notin Less
  <2>. HIDE DEF Less
  <2>. QED  BY <1>1, WFMin
<1>3. PICK x \in S : \A y \in S : <<y, x>> \notin Less
  BY <1>2
<1>4. ASSUME NEW y \in S
      PROVE  x <= y
  <2>1. <<y, x>> \in Nat \X Nat /\ <<y, x>>[1] = y /\ <<y, x>>[2] = x
    OBVIOUS
  <2>2. ~ (y < x)
    BY <1>3, <2>1
  <2>. QED  BY <2>2
<1>. QED
  BY <1>4 DEF Min

\* What holds at 0 and of the number after each it holds of, holds up to n.
LEMMA UpTo ==
    ASSUME NEW n \in Nat, NEW T, 0 \in T, \A k \in 0 .. n - 1 : k \in T => k + 1 \in T
    PROVE  \A k \in 0 .. n : k \in T
<1>. DEFINE B == {k \in 0 .. n : k \notin T}
            m == Min(B)
<1> SUFFICES ASSUME B # {} PROVE FALSE
  OBVIOUS
<1>1. m \in B /\ \A y \in B : m <= y
  BY MinOfNaturals
<1>. HIDE DEF m
<1>2. m # 0 /\ m - 1 \in 0 .. n - 1
  BY <1>1
<1>3. m - 1 \in T
  BY <1>1, <1>2
<1>. QED  BY <1>1, <1>2, <1>3

\* Removing one position of a sequence.
LEMMA RemoveAtFacts ==
    ASSUME NEW S, NEW q \in Seq(S), NEW i \in 1 .. Len(q)
    PROVE  /\ RemoveAt(q, i) \in Seq(S)
           /\ Len(RemoveAt(q, i)) = Len(q) - 1
           /\ \A j \in 1 .. Len(q) - 1 :
                 RemoveAt(q, i)[j] = IF j < i THEN q[j] ELSE q[j + 1]
<1>. DEFINE front == SubSeq(q, 1, i - 1)
            back  == SubSeq(q, i + 1, Len(q))
<1>0. Len(q) \in Nat
  OBVIOUS
<1>1. /\ front \in Seq(S)
      /\ Len(front) = i - 1
      /\ \A j \in 1 .. i - 1 : front[j] = q[j]
  BY <1>0
<1>2. /\ back \in Seq(S)
      /\ Len(back) = Len(q) - i
      /\ \A j \in 1 .. Len(q) - i : back[j] = q[i + j]
  BY <1>0
<1>. HIDE DEF front, back
<1>3. /\ front \o back \in Seq(S)
      /\ Len(front \o back) = Len(front) + Len(back)
      /\ \A j \in 1 .. Len(front) + Len(back) :
            (front \o back)[j] = IF j <= Len(front) THEN front[j]
                                 ELSE back[j - Len(front)]
  BY <1>1, <1>2, ConcatProperties
<1>4. ASSUME NEW j \in 1 .. Len(q) - 1
      PROVE  (front \o back)[j] = IF j < i THEN q[j] ELSE q[j + 1]
  <2>0. i \in Int /\ j \in Int
    BY <1>0
  <2>1. j \in 1 .. Len(front) + Len(back)
    BY <1>0, <1>1, <1>2
  <2>2. CASE j < i
    BY <1>0, <1>1, <1>3, <2>1, <2>2
  <2>3. CASE j >= i
    <3>1. j - Len(front) \in 1 .. Len(q) - i
      BY <1>0, <1>1, <2>3
    <3>. QED  BY <1>0, <1>1, <1>2, <1>3, <2>1, <2>3, <3>1
  <2>4. j < i \/ j >= i
    BY <2>0
  <2>. QED  BY <2>2, <2>3, <2>4
<1>5. Len(front \o back) = Len(q) - 1
  BY <1>0, <1>1, <1>2, <1>3
<1>6. RemoveAt(q, i) = front \o back
  BY DEF RemoveAt, front, back
<1>. QED
  BY <1>3, <1>4, <1>5, <1>6

\* A part of an interval that has what is below each of its members is an
\* interval, and its size tells where it ends.
LEMMA InitialPart ==
    ASSUME NEW n \in Nat, NEW S, S \subseteq 1 .. n,
           \A i \in S : \A j \in 1 .. i : j \in S
    PROVE  /\ Cardinality(S) \in 0 .. n
           /\ S = 1 .. Cardinality(S)
<1>. DEFINE T == (1 .. n + 1) \ S
            m == Min(T)
<1>1. T \subseteq Nat /\ n + 1 \in T
  OBVIOUS
<1>2. m \in T /\ \A y \in T : m <= y
  BY <1>1, MinOfNaturals
<1>. HIDE DEF m
<1>3. S = 1 .. m - 1
  <2>1. ASSUME NEW i \in S PROVE i \in 1 .. m - 1
    <3>1. ~(m <= i)
      <4>1. SUFFICES ASSUME m <= i PROVE FALSE
        OBVIOUS
      <4>2. m \in 1 .. i
        BY <1>2, <4>1
      <4>. QED  BY <1>2, <4>2
    <3>. QED  BY <1>2, <3>1
  <2>2. ASSUME NEW i \in 1 .. m - 1 PROVE i \in S
    BY <1>2
  <2>. QED  BY <2>1, <2>2
<1>4. Cardinality(S) = m - 1
  BY <1>2, <1>3, FS_Interval
<1>. QED  BY <1>2, <1>3, <1>4

\* What is left of a sequence without its first n elements.
LEMMA SuffixFacts ==
    ASSUME NEW S, NEW h \in Seq(S), NEW n \in 0 .. Len(h)
    PROVE  /\ SubSeq(h, n + 1, Len(h)) \in Seq(S)
           /\ Len(SubSeq(h, n + 1, Len(h))) = Len(h) - n
           /\ \A i \in 1 .. Len(h) - n : SubSeq(h, n + 1, Len(h))[i] = h[n + i]
<1>1. /\ Len(h) \in Nat /\ n \in Nat /\ n <= Len(h)
      /\ \A i \in 1 .. Len(h) : h[i] \in S
  OBVIOUS
<1>2. \A i \in n + 1 .. Len(h) : h[i] \in S
  BY <1>1
<1>3. /\ SubSeq(h, n + 1, Len(h)) \in Seq(S)
      /\ Len(SubSeq(h, n + 1, Len(h))) =
            IF n + 1 <= Len(h) THEN Len(h) - (n + 1) + 1 ELSE 0
      /\ \A i \in 1 .. Len(h) - (n + 1) + 1 :
            SubSeq(h, n + 1, Len(h))[i] = h[(n + 1) + i - 1]
  BY <1>1, <1>2, SubSeqProperties
<1>4. Len(SubSeq(h, n + 1, Len(h))) = Len(h) - n
  BY <1>1, <1>3
<1>5. \A i \in 1 .. Len(h) - n : (n + 1) + i - 1 = n + i /\ i \in 1 .. Len(h) - (n + 1) + 1
  BY <1>1
<1>. QED  BY <1>3, <1>4, <1>5

\* R tells of any two members of S which comes first.
IsOrder(S, R) ==
    /\ \A c \in S : <<c, c>> \notin R
    /\ \A c, d \in S : c # d => <<c, d>> \in R \/ <<d, c>> \in R
    /\ \A c, d, e \in S : <<c, d>> \in R /\ <<d, e>> \in R => <<c, e>> \in R

\* In a finite set that is in order, what comes later has more before it.
LEMMA PlacesFollow ==
    ASSUME NEW S, IsFiniteSet(S), NEW R, IsOrder(S, R),
           NEW c \in S, NEW d \in S, <<c, d>> \in R
    PROVE  LET L(x) == {e \in S : <<e, x>> \in R}
           IN  /\ Cardinality(L(c)) \in Nat /\ Cardinality(L(d)) \in Nat
               /\ Cardinality(L(c)) < Cardinality(L(d))
<1>. DEFINE L(x) == {e \in S : <<e, x>> \in R}
<1>1. ASSUME NEW x \in S
      PROVE  IsFiniteSet(L(x)) /\ Cardinality(L(x)) \in Nat
  <2>1. L(x) \in SUBSET S
    OBVIOUS
  <2>. HIDE DEF L
  <2>2. IsFiniteSet(L(x))
    BY <2>1, FS_Subset
  <2>. QED  BY <2>2, FS_CardinalityType
<1>2. c \in L(d) /\ L(c) \in SUBSET (L(d) \ {c})
  BY DEF IsOrder
<1>3. /\ IsFiniteSet(L(d)) /\ Cardinality(L(d)) \in Nat /\ Cardinality(L(c)) \in Nat
  BY <1>1
<1>. HIDE DEF L
<1>4. IsFiniteSet(L(d) \ {c}) /\ Cardinality(L(d) \ {c}) = Cardinality(L(d)) - 1
  BY <1>2, <1>3, FS_RemoveElement
<1>5. Cardinality(L(c)) <= Cardinality(L(d) \ {c})
  BY <1>2, <1>4, FS_Subset
<1>6. Cardinality(L(c)) < Cardinality(L(d))
  BY <1>3, <1>4, <1>5
<1>. QED  BY <1>3, <1>6 DEF L

\* In a finite set that is in order, for each number below its size there is a member that
\* has as many before it.
LEMMA PlacesInOrder ==
    ASSUME NEW S, IsFiniteSet(S), NEW R, IsOrder(S, R),
           NEW n \in 0 .. Cardinality(S) - 1
    PROVE  \E c \in S : Cardinality({d \in S : <<d, c>> \in R}) = n
<1>. DEFINE L(c) == {d \in S : <<d, c>> \in R}
            N    == Cardinality(S)
            T    == 0 .. N - 1
            f    == [c \in S |-> Cardinality(L(c))]
<1>1. N \in Nat
  BY FS_CardinalityType
<1>2. ASSUME NEW c \in S
      PROVE  IsFiniteSet(L(c)) /\ Cardinality(L(c)) \in Nat /\ Cardinality(L(c)) <= N - 1
  <2>1. IsFiniteSet(S \ {c}) /\ Cardinality(S \ {c}) = N - 1
    BY FS_RemoveElement
  <2>2. L(c) \in SUBSET (S \ {c})
    BY DEF IsOrder
  <2>. HIDE DEF L
  <2>3. IsFiniteSet(L(c)) /\ Cardinality(L(c)) <= N - 1
    BY <2>1, <2>2, FS_Subset
  <2>. QED  BY <2>3, FS_CardinalityType
<1>3. ASSUME NEW c \in S, NEW d \in S, <<c, d>> \in R
      PROVE  Cardinality(L(c)) < Cardinality(L(d))
  BY <1>3, PlacesFollow
<1>4. f \in Injection(S, T)
  <2>1. ASSUME NEW c \in S
        PROVE  f[c] \in T
    <3>1. f[c] = Cardinality(L(c))
      OBVIOUS
    <3>. HIDE DEF L, f
    <3>. QED  BY <1>1, <1>2, <3>1
  <2>2. ASSUME NEW c \in S, NEW d \in S, f[c] = f[d]
        PROVE  c = d
    <3>1. f[c] = Cardinality(L(c)) /\ f[d] = Cardinality(L(d))
      OBVIOUS
    <3>. HIDE DEF L, f
    <3>2. Cardinality(L(c)) \in Nat
      BY <1>2
    <3>3. PICK k : k = Cardinality(L(c))
      OBVIOUS
    <3>4. Cardinality(L(d)) = k /\ ~(k < k)
      <4>1. Cardinality(L(d)) = k
        BY <2>2, <3>1, <3>3
      <4>2. k \in Nat
        BY <3>2, <3>3
      <4>3. ~(k < k)
        BY <4>2
      <4>. QED  BY <4>1, <4>3
    <3>5. <<c, d>> \notin R
      BY <1>3, <3>3, <3>4
    <3>6. <<d, c>> \notin R
      BY <1>3, <3>3, <3>4
    <3>. QED  BY <3>5, <3>6 DEF IsOrder
  <2>3. f \in [S -> T]
    <3>. HIDE DEF T
    <3>. QED  BY <2>1
  <2>. HIDE DEF f, T
  <2>. QED  BY <2>2, <2>3 DEF Injection, IsInjective
<1>5. IsFiniteSet(T) /\ Cardinality(T) = N
  <2>1. 0 \in Int /\ N - 1 \in Int
    BY <1>1
  <2>2. IsFiniteSet(0 .. N - 1)
        /\ Cardinality(0 .. N - 1) = IF 0 > N - 1 THEN 0 ELSE (N - 1) - 0 + 1
    <3>. HIDE DEF N
    <3>. QED  BY <2>1, FS_Interval
  <2>. HIDE DEF N
  <2>. QED  BY <1>1, <2>2
<1>6. f \in Surjection(S, T)
  <2>. HIDE DEF f, T
  <2>. QED  BY <1>4, <1>5, FS_Injection
<1>7. PICK c \in S : f[c] = n
  <2>1. n \in T
    OBVIOUS
  <2>. HIDE DEF f, T
  <2>. QED  BY <1>6, <2>1 DEF Surjection
<1>. QED  BY <1>7

\* The sequence of the members of a finite set that is in order, each at its place.
InPlaces(S, R) ==
    [k \in 1 .. Cardinality(S) |->
        CHOOSE x \in S : Cardinality({y \in S : <<y, x>> \in R}) = k - 1]

LEMMA PlacesEnumerate ==
    ASSUME NEW S, IsFiniteSet(S), NEW R, IsOrder(S, R)
    PROVE  LET q == InPlaces(S, R)
           IN  /\ q \in Seq(S) /\ Len(q) = Cardinality(S) /\ Len(q) \in Nat
               /\ \A k, m \in 1 .. Len(q) : k < m <=> <<q[k], q[m]>> \in R
               /\ \A x \in S : \E k \in 1 .. Len(q) : q[k] = x
<1>. DEFINE L(x) == {y \in S : <<y, x>> \in R}
            C(x) == Cardinality(L(x))
            N    == Cardinality(S)
            E(k) == CHOOSE x \in S : C(x) = k - 1
            q    == [k \in 1 .. N |-> E(k)]
<1>1. N \in Nat
  BY FS_CardinalityType
<1>2. \A x \in S : C(x) \in 0 .. N - 1
  <2>. SUFFICES ASSUME NEW x \in S PROVE C(x) \in 0 .. N - 1
    OBVIOUS
  <2>1. IsFiniteSet(S \ {x}) /\ Cardinality(S \ {x}) = N - 1
    BY FS_RemoveElement
  <2>2. L(x) \in SUBSET (S \ {x})
    BY DEF IsOrder
  <2>. HIDE DEF L, N
  <2>3. IsFiniteSet(L(x)) /\ C(x) <= N - 1
    BY <2>1, <2>2, FS_Subset
  <2>4. C(x) \in Nat
    BY <2>3, FS_CardinalityType
  <2>. QED  BY <1>1, <2>3, <2>4
<1>3. ASSUME NEW c \in S, NEW d \in S, <<c, d>> \in R
      PROVE  C(c) < C(d)
  BY <1>3, PlacesFollow
<1>4. \A c, d \in S : C(c) = C(d) => c = d
  <2>. SUFFICES ASSUME NEW c \in S, NEW d \in S, C(c) = C(d), c # d PROVE FALSE
    OBVIOUS
  <2>1. <<c, d>> \in R \/ <<d, c>> \in R
    BY DEF IsOrder
  <2>2. C(c) < C(d) \/ C(d) < C(c)
    <3>. HIDE DEF C, L
    <3>. QED  BY <1>3, <2>1
  <2>. HIDE DEF C, L, N
  <2>3. C(c) \in Int /\ C(d) \in Int
    BY <1>1, <1>2
  <2>. QED  BY <2>2, <2>3
<1>5. \A k \in 1 .. N : E(k) \in S /\ C(E(k)) = k - 1
  <2>. SUFFICES ASSUME NEW k \in 1 .. N PROVE E(k) \in S /\ C(E(k)) = k - 1
    OBVIOUS
  <2>1. PICK n \in 0 .. Cardinality(S) - 1 : n = k - 1
    <3>. HIDE DEF E, q
    <3>1. k - 1 \in 0 .. N - 1
      <4>. HIDE DEF N
      <4>. QED  BY <1>1
    <3>. QED  BY <3>1
  <2>2. \E x \in S : Cardinality({y \in S : <<y, x>> \in R}) = n
    <3>. HIDE DEF E, q, L, C, N
    <3>1. n \in 0 .. Cardinality(S) - 1
      OBVIOUS
    <3>. QED  BY <3>1, PlacesInOrder
  <2>3. \E x \in S : C(x) = k - 1
    BY <2>1, <2>2
  <2>. HIDE DEF C, L, N
  <2>. QED  BY <2>3
<1>6. q = [k \in 1 .. N |-> E(k)] /\ \A k \in 1 .. N : q[k] = E(k)
  <2>. HIDE DEF C, L, N, E
  <2>. QED  OBVIOUS
<1>7. q \in Seq(S) /\ Len(q) = N /\ \A k \in 1 .. N : q[k] \in S /\ C(q[k]) = k - 1
  <2>. HIDE DEF C, L, N, E, q
  <2>1. q \in [1 .. N -> S]
    BY <1>5, <1>6
  <2>2. q \in Seq(S) /\ Len(q) = N
    BY <1>1, <2>1
  <2>. QED  BY <1>5, <1>6, <2>2
<1>. HIDE DEF E, q
<1>8. \A k, m \in 1 .. N : k < m <=> <<q[k], q[m]>> \in R
  <2>. SUFFICES ASSUME NEW k \in 1 .. N, NEW m \in 1 .. N
                PROVE  k < m <=> <<q[k], q[m]>> \in R
    OBVIOUS
  <2>1. q[k] \in S /\ q[m] \in S /\ C(q[k]) = k - 1 /\ C(q[m]) = m - 1
    BY <1>7
  <2>. HIDE DEF C, L, N
  <2>2. k \in Int /\ m \in Int
    BY <1>1
  <2>3. ASSUME k < m PROVE <<q[k], q[m]>> \in R
    <3>1. <<q[m], q[k]>> \notin R
      <4>1. ~(C(q[m]) < C(q[k]))
        BY <2>1, <2>2, <2>3
      <4>. QED  BY <1>3, <2>1, <4>1
    <3>2. q[k] # q[m]
      <4>1. C(q[m]) # C(q[k])
        BY <2>1, <2>2, <2>3
      <4>. QED  BY <4>1
    <3>. QED  BY <2>1, <3>1, <3>2 DEF IsOrder
  <2>4. ASSUME <<q[k], q[m]>> \in R PROVE k < m
    <3>1. C(q[k]) < C(q[m])
      BY <1>3, <2>1, <2>4
    <3>. QED  BY <2>1, <2>2, <3>1
  <2>. QED  BY <2>3, <2>4
<1>9. \A x \in S : \E k \in 1 .. N : q[k] = x
  <2>. SUFFICES ASSUME NEW x \in S PROVE \E k \in 1 .. N : q[k] = x
    OBVIOUS
  <2>. HIDE DEF C, L, N
  <2>1. PICK k : k = C(x) + 1
    OBVIOUS
  <2>2. k \in 1 .. N /\ k - 1 = C(x)
    BY <1>1, <1>2, <2>1
  <2>3. q[k] \in S /\ C(q[k]) = C(x)
    BY <1>7, <2>2
  <2>. QED  BY <1>4, <2>2, <2>3
<1>10. /\ q \in Seq(S) /\ Len(q) = N /\ Len(q) \in Nat
       /\ \A k, m \in 1 .. Len(q) : k < m <=> <<q[k], q[m]>> \in R
       /\ \A x \in S : \E k \in 1 .. Len(q) : q[k] = x
  <2>. HIDE DEF C, L, N
  <2>. QED  BY <1>1, <1>7, <1>8, <1>9
<1>11. InPlaces(S, R) = q
  BY DEF InPlaces, q, E, C, L, N
<1>. QED  BY <1>10, <1>11
=============================================================================
