---------------------------- MODULE StoresProofs ----------------------------
(***************************************************************************)
(* What the stores beside the gateway keep (TeamTraces, TeamRegister,      *)
(* TeamMemory, Extensions, DesktopProfiles, DaemonStart, WorkspaceIndex,   *)
(* ModelDownloads), proved for any settings, employees, connectors, files, *)
(* launchers and weights. The theorems are about MCStores, as in           *)
(* GatewayProofs.                                                          *)
(***************************************************************************)
EXTENDS MCStores, QueueFacts, FiniteSetTheorems, TLAPS

-----------------------------------------------------------------------------
(* The size of a store (TeamTraces).                                       *)

Some(S) == CHOOSE r \in S : TRUE

\* The function that adds up the sizes of a set of traces, one after the other.
IsSizeOf(f, S) ==
    f = [s \in SUBSET S |-> IF s = {} THEN 0 ELSE Some(s).bytes + f[s \ {Some(s)}]]

LEMMA BytesAreAdded ==
    ASSUME NEW S
    PROVE  TR!Bytes(S) = (CHOOSE f : IsSizeOf(f, S))[S]
BY DEF TR!Bytes, TR!MapThenSumSet, TR!MapThenFoldSet, IsSizeOf, Some

\* Of some finite sets, one has no other of them as a part.
LEMMA LeastSet ==
    ASSUME NEW bad, bad # {}, \A s \in bad : IsFiniteSet(s)
    PROVE  \E s \in bad : \A t \in bad : t \subseteq s => t = s
<1>1. PICK D : D = {Cardinality(s) : s \in bad}
  OBVIOUS
<1>2. D \subseteq Nat /\ D # {}
  <2>1. \A s \in bad : Cardinality(s) \in Nat
    BY FS_CardinalityType
  <2>2. PICK s : s \in bad
    OBVIOUS
  <2>. QED  BY <1>1, <2>1, <2>2
<1>3. Min(D) \in D /\ \A y \in D : Min(D) <= y
  BY <1>2, MinOfNaturals
<1>4. PICK s \in bad : Cardinality(s) = Min(D)
  BY <1>1, <1>3
<1>5. ASSUME NEW t \in bad, t \subseteq s
      PROVE  t = s
  <2>1. IsFiniteSet(s) /\ t \in SUBSET s
    BY <1>5
  <2>2. /\ Cardinality(t) \in Nat /\ Cardinality(s) \in Nat
        /\ Cardinality(t) <= Cardinality(s)
        /\ Cardinality(t) = Cardinality(s) => t = s
    BY <2>1, FS_Subset, FS_CardinalityType
  <2>3. Cardinality(s) <= Cardinality(t)
    BY <1>1, <1>3, <1>4
  <2>4. PICK x, y : x = Cardinality(s) /\ y = Cardinality(t)
    OBVIOUS
  <2>5. x = y
    BY <2>2, <2>3, <2>4
  <2>. QED  BY <2>2, <2>4, <2>5
<1>. QED  BY <1>4, <1>5

LEMMA SomeIsOne == ASSUME NEW S, S # {} PROVE Some(S) \in S
BY DEF Some

LEMMA SizeOfPart ==
    ASSUME NEW S, NEW f, IsSizeOf(f, S), NEW T \in SUBSET S
    PROVE  IsSizeOf([s \in SUBSET T |-> f[s]], T)
<1>1. \A s \in SUBSET S : f[s] = IF s = {} THEN 0 ELSE Some(s).bytes + f[s \ {Some(s)}]
  BY Zenon DEF IsSizeOf
<1>2. PICK g : g = [s \in SUBSET T |-> f[s]]
  OBVIOUS
<1>3. \A s \in SUBSET T : g[s] = f[s]
  BY <1>2
<1>4. \A s \in SUBSET T : s \in SUBSET S /\ s \ {Some(s)} \in SUBSET T
  OBVIOUS
<1>5. \A s \in SUBSET T : g[s] = IF s = {} THEN 0 ELSE Some(s).bytes + g[s \ {Some(s)}]
  <2>. TAKE s \in SUBSET T
  <2>1. g[s] = f[s] /\ g[s \ {Some(s)}] = f[s \ {Some(s)}]
    BY <1>3, <1>4
  <2>2. f[s] = IF s = {} THEN 0 ELSE Some(s).bytes + f[s \ {Some(s)}]
    BY <1>1, <1>4
  <2>. QED  BY <2>1, <2>2
<1>6. g = [s \in SUBSET T |-> IF s = {} THEN 0 ELSE Some(s).bytes + g[s \ {Some(s)}]]
  <2>1. g = [s \in SUBSET T |-> g[s]]
    BY <1>2
  <2>. QED  BY <1>5, <2>1, Zenon
<1>. QED  BY <1>2, <1>6 DEF IsSizeOf

LEMMA SizeIsUnique ==
    ASSUME NEW S, IsFiniteSet(S), NEW f, IsSizeOf(f, S), NEW g, IsSizeOf(g, S)
    PROVE  f = g
<1>. DEFINE bad == {t \in SUBSET S : f[t] # g[t]}
<1>1. /\ \A s \in SUBSET S : f[s] = IF s = {} THEN 0 ELSE Some(s).bytes + f[s \ {Some(s)}]
      /\ \A s \in SUBSET S : g[s] = IF s = {} THEN 0 ELSE Some(s).bytes + g[s \ {Some(s)}]
  BY Zenon DEF IsSizeOf
<1>2. bad = {}
  <2>. SUFFICES ASSUME bad # {} PROVE FALSE
    OBVIOUS
  <2>1. \A s \in bad : IsFiniteSet(s)
    BY FS_Subset
  <2>2. PICK s \in bad : \A t \in bad : t \subseteq s => t = s
    <3>. HIDE DEF bad
    <3>. QED  BY <2>1, LeastSet
  <2>3. s \in SUBSET S /\ f[s] # g[s]
    OBVIOUS
  <2>4. s # {}
    BY <1>1, <2>3
  <2>5. PICK t : t = s \ {Some(s)}
    OBVIOUS
  <2>6. t \in SUBSET S /\ t \subseteq s /\ t # s
    BY <2>3, <2>4, <2>5, SomeIsOne
  <2>7. f[t] = g[t]
    BY <2>2, <2>6
  <2>8. f[s] = Some(s).bytes + f[t] /\ g[s] = Some(s).bytes + g[t]
    BY <1>1, <2>3, <2>4, <2>5
  <2>. QED  BY <2>3, <2>7, <2>8
<1>3. \A t \in SUBSET S : f[t] = g[t]
  BY <1>2
<1>4. f = [t \in SUBSET S |-> f[t]] /\ g = [t \in SUBSET S |-> g[t]]
  BY DEF IsSizeOf
<1>. QED  BY <1>3, <1>4, Zenon

LEMMA BytesOfPart ==
    ASSUME NEW S, IsFiniteSet(S), NEW f, IsSizeOf(f, S), NEW T \in SUBSET S
    PROVE  TR!Bytes(T) = f[T]
<1>1. PICK g : g = [s \in SUBSET T |-> f[s]]
  OBVIOUS
<1>2. IsSizeOf(g, T) /\ g[T] = f[T]
  BY <1>1, SizeOfPart
<1>3. PICK h : h = CHOOSE x : IsSizeOf(x, T)
  OBVIOUS
<1>4. IsSizeOf(h, T) /\ TR!Bytes(T) = h[T]
  BY <1>2, <1>3, BytesAreAdded
<1>5. IsFiniteSet(T)
  BY FS_Subset
<1>6. h = g
  BY <1>2, <1>4, <1>5, SizeIsUnique
<1>. QED  BY <1>2, <1>4, <1>6

\* The sum of no traces, and of some.
LEMMA BytesOfNone == TR!Bytes({}) = 0 /\ \E f : IsSizeOf(f, {})
<1>1. PICK f : f = [s \in SUBSET {} |-> 0]
  OBVIOUS
<1>2. \A s \in SUBSET {} : s = {}
  OBVIOUS
<1>3. f = [s \in SUBSET {} |-> IF s = {} THEN 0 ELSE Some(s).bytes + f[s \ {Some(s)}]]
  BY <1>1, <1>2, Zenon
<1>4. IsSizeOf(f, {}) /\ f[{}] = 0 /\ IsFiniteSet({})
  BY <1>1, <1>3, FS_EmptySet DEF IsSizeOf
<1>. QED  BY <1>4, BytesOfPart

LEMMA SizeExists == ASSUME NEW S, IsFiniteSet(S) PROVE \E f : IsSizeOf(f, S)
<1>. DEFINE bad == {t \in SUBSET S : ~\E f : IsSizeOf(f, t)}
<1>. SUFFICES ASSUME bad # {} PROVE FALSE
  OBVIOUS
<1>1. \A s \in SUBSET S : IsFiniteSet(s)
  BY FS_Subset
<1>2. PICK s \in bad : \A t \in bad : t \subseteq s => t = s
  <2>1. \A t \in bad : IsFiniteSet(t)
    BY <1>1
  <2>. HIDE DEF bad
  <2>. QED  BY <2>1, LeastSet
<1>3. s \in SUBSET S /\ ~\E f : IsSizeOf(f, s)
  OBVIOUS
<1>4. s # {}
  BY <1>3, BytesOfNone
<1>5. PICK c, T : c = Some(s) /\ T = s \ {c}
  OBVIOUS
<1>6. c \in s /\ T # s /\ T \in SUBSET s
  BY <1>4, <1>5, SomeIsOne
<1>7. ASSUME NEW x \in SUBSET s, x # s, x # {}
      PROVE  TR!Bytes(x) = Some(x).bytes + TR!Bytes(x \ {Some(x)})
  <2>1. x \in SUBSET S /\ x \notin bad
    BY <1>2, <1>3, <1>7
  <2>2. PICK f : IsSizeOf(f, x)
    BY <2>1
  <2>3. IsFiniteSet(x)
    BY <1>1, <2>1
  <2>4. TR!Bytes(x) = f[x] /\ TR!Bytes(x \ {Some(x)}) = f[x \ {Some(x)}]
    <3>1. x \in SUBSET x /\ x \ {Some(x)} \in SUBSET x
      OBVIOUS
    <3>. QED  BY <2>2, <2>3, <3>1, BytesOfPart
  <2>5. f[x] = IF x = {} THEN 0 ELSE Some(x).bytes + f[x \ {Some(x)}]
    <3>1. x \in SUBSET x
      OBVIOUS
    <3>. QED  BY <2>2, <3>1, Zenon DEF IsSizeOf
  <2>. QED  BY <1>7, <2>4, <2>5
<1>8. PICK g : g = [x \in SUBSET s |-> IF x = s THEN c.bytes + TR!Bytes(T) ELSE TR!Bytes(x)]
  OBVIOUS
<1>9. g[s] = c.bytes + TR!Bytes(T) /\ \A x \in SUBSET s : x # s => g[x] = TR!Bytes(x)
  BY <1>8
<1>. HIDE DEF bad
<1>10. \A x \in SUBSET s : g[x] = IF x = {} THEN 0 ELSE Some(x).bytes + g[x \ {Some(x)}]
  <2>. TAKE x \in SUBSET s
  <2>1. CASE x = s
    BY <1>4, <1>5, <1>6, <1>9, <2>1
  <2>2. CASE x # s /\ x = {}
    BY <1>9, <2>2, BytesOfNone
  <2>3. CASE x # s /\ x # {}
    <3>1. x \ {Some(x)} \in SUBSET s /\ x \ {Some(x)} # s
      BY <2>3, SomeIsOne
    <3>. QED  BY <1>7, <1>9, <2>3, <3>1
  <2>. QED  BY <2>1, <2>2, <2>3
<1>11. IsSizeOf(g, s)
  <2>1. g = [x \in SUBSET s |-> g[x]]
    BY <1>8
  <2>2. g = [x \in SUBSET s |-> IF x = {} THEN 0 ELSE Some(x).bytes + g[x \ {Some(x)}]]
    BY <1>10, <2>1, Zenon
  <2>. QED  BY <2>2 DEF IsSizeOf
<1>. QED  BY <1>3, <1>11

LEMMA BytesOfSome ==
    ASSUME NEW S, IsFiniteSet(S), S # {}
    PROVE  TR!Bytes(S) = Some(S).bytes + TR!Bytes(S \ {Some(S)})
<1>1. PICK f : IsSizeOf(f, S)
  BY SizeExists
<1>2. S \in SUBSET S /\ S \ {Some(S)} \in SUBSET S
  OBVIOUS
<1>3. TR!Bytes(S) = f[S] /\ TR!Bytes(S \ {Some(S)}) = f[S \ {Some(S)}]
  BY <1>1, <1>2, BytesOfPart
<1>4. f[S] = IF S = {} THEN 0 ELSE Some(S).bytes + f[S \ {Some(S)}]
  BY <1>1, <1>2, Zenon DEF IsSizeOf
<1>. QED  BY <1>3, <1>4
LEMMA TraceNumbers ==
    /\ Limits \subseteq Nat /\ Days \subseteq Nat /\ Sizes \subseteq Nat
    /\ MaxTime \in Nat /\ MaxTraces \in Nat
    /\ \A r \in TR!Trace : r.bytes \in Nat
<1>1. /\ Limits \subseteq Nat /\ Days \subseteq Nat /\ Sizes \subseteq Nat
      /\ MaxTime \in Nat /\ MaxTraces \in Nat
  BY TraceAssumption
<1>2. \A r \in TR!Trace : r.bytes \in Sizes \cup {1}
  BY DEF TR!Trace
<1>3. \A r \in TR!Trace : r.bytes \in Nat
  <2>. TAKE r \in TR!Trace
  <2>1. r.bytes \in Sizes \/ r.bytes = 1
    BY <1>2
  <2>2. CASE r.bytes \in Sizes
    BY <1>1, <2>2
  <2>3. CASE r.bytes = 1
    <3>1. 1 \in Nat
      OBVIOUS
    <3>. QED  BY <2>3, <3>1, Zenon
  <2>. QED  BY <2>1, <2>2, <2>3
<1>. QED  BY <1>1, <1>3

LEMMA BytesOfTraces ==
    ASSUME NEW S, IsFiniteSet(S), S \subseteq TR!Trace
    PROVE  TR!Bytes(S) \in Nat
<1>. DEFINE bad == {t \in SUBSET S : TR!Bytes(t) \notin Nat}
<1>. SUFFICES ASSUME bad # {} PROVE FALSE
  OBVIOUS
<1>1. \A s \in SUBSET S : IsFiniteSet(s)
  BY FS_Subset
<1>2. PICK s \in bad : \A t \in bad : t \subseteq s => t = s
  <2>1. \A t \in bad : IsFiniteSet(t)
    BY <1>1
  <2>. HIDE DEF bad
  <2>. QED  BY <2>1, LeastSet
<1>3. s \in SUBSET S /\ TR!Bytes(s) \notin Nat /\ s # {}
  BY BytesOfNone
<1>4. PICK c, t : c = Some(s) /\ t = s \ {c}
  OBVIOUS
<1>5. c \in s /\ t # s /\ t \in SUBSET s
  BY <1>3, <1>4, SomeIsOne
<1>6. TR!Bytes(t) \in Nat
  BY <1>2, <1>3, <1>5
<1>7. c.bytes \in Nat
  <2>1. c \in TR!Trace
    BY <1>3, <1>5
  <2>. QED  BY <2>1, TraceNumbers
<1>8. TR!Bytes(s) = c.bytes + TR!Bytes(t)
  BY <1>1, <1>3, <1>4, BytesOfSome
<1>. QED  BY <1>3, <1>6, <1>7, <1>8

\* Whichever trace is counted last, the sum is the same.
LEMMA BytesWithout ==
    ASSUME NEW S, IsFiniteSet(S), S \subseteq TR!Trace, NEW r \in S
    PROVE  TR!Bytes(S) = r.bytes + TR!Bytes(S \ {r})
<1>. DEFINE bad == {t \in SUBSET S : \E x \in t : TR!Bytes(t) # x.bytes + TR!Bytes(t \ {x})}
<1>. SUFFICES ASSUME bad # {} PROVE FALSE
  OBVIOUS
<1>1. \A s \in SUBSET S : IsFiniteSet(s)
  BY FS_Subset
<1>2. PICK s \in bad : \A t \in bad : t \subseteq s => t = s
  <2>1. \A t \in bad : IsFiniteSet(t)
    BY <1>1
  <2>. HIDE DEF bad
  <2>. QED  BY <2>1, LeastSet
<1>3. s \in SUBSET S
  OBVIOUS
<1>4. PICK x \in s : TR!Bytes(s) # x.bytes + TR!Bytes(s \ {x})
  OBVIOUS
<1>5. \A t \in SUBSET s : t # s => \A y \in t : TR!Bytes(t) = y.bytes + TR!Bytes(t \ {y})
  BY <1>2, <1>3
<1>. HIDE DEF bad
<1>6. PICK c : c = Some(s)
  OBVIOUS
<1>7. c \in s /\ TR!Bytes(s) = c.bytes + TR!Bytes(s \ {c})
  BY <1>1, <1>3, <1>4, <1>6, SomeIsOne, BytesOfSome
<1>8. c # x
  BY <1>4, <1>7
<1>9. PICK both : both = (s \ {c}) \ {x}
  OBVIOUS
<1>10. (s \ {x}) \ {c} = both
  BY <1>9
<1>11. TR!Bytes(s \ {c}) = x.bytes + TR!Bytes(both)
  <2>1. s \ {c} \in SUBSET s /\ s \ {c} # s /\ x \in s \ {c}
    BY <1>7, <1>8
  <2>. QED  BY <1>5, <1>9, <2>1
<1>12. TR!Bytes(s \ {x}) = c.bytes + TR!Bytes(both)
  <2>1. s \ {x} \in SUBSET s /\ s \ {x} # s /\ c \in s \ {x}
    BY <1>7, <1>8
  <2>. QED  BY <1>5, <1>10, <2>1
<1>13. c.bytes \in Nat /\ x.bytes \in Nat
  <2>1. c \in TR!Trace /\ x \in TR!Trace
    BY <1>3, <1>7
  <2>. QED  BY <2>1, TraceNumbers
<1>14. TR!Bytes(both) \in Nat
  <2>1. both \in SUBSET S
    BY <1>3, <1>9
  <2>. QED  BY <1>1, <2>1, BytesOfTraces
<1>15. PICK a, b, n : a = c.bytes /\ b = x.bytes /\ n = TR!Bytes(both)
  OBVIOUS
<1>16. a + (b + n) = b + (a + n)
  BY <1>13, <1>14, <1>15
<1>. QED  BY <1>4, <1>7, <1>11, <1>12, <1>15, <1>16

LEMMA BytesOfFewer ==
    ASSUME NEW S, IsFiniteSet(S), S \subseteq TR!Trace, NEW T \in SUBSET S
    PROVE  TR!Bytes(T) <= TR!Bytes(S)
<1>. DEFINE bad == {s \in SUBSET S : T \subseteq s /\ ~(TR!Bytes(T) <= TR!Bytes(s))}
<1>. SUFFICES ASSUME bad # {} PROVE FALSE
  OBVIOUS
<1>1. \A s \in SUBSET S : IsFiniteSet(s) /\ s \subseteq TR!Trace /\ TR!Bytes(s) \in Nat
  BY FS_Subset, BytesOfTraces
<1>2. PICK s \in bad : \A t \in bad : t \subseteq s => t = s
  <2>1. \A t \in bad : IsFiniteSet(t)
    BY <1>1
  <2>. HIDE DEF bad
  <2>. QED  BY <2>1, LeastSet
<1>3. s \in SUBSET S /\ T \subseteq s /\ ~(TR!Bytes(T) <= TR!Bytes(s))
  OBVIOUS
<1>4. s # T
  BY <1>1, <1>3
<1>5. PICK r \in s : r \notin T
  BY <1>3, <1>4
<1>6. PICK t : t = s \ {r}
  OBVIOUS
<1>7. t \in SUBSET S /\ T \subseteq t /\ t # s /\ t \subseteq s
  BY <1>3, <1>5, <1>6
<1>8. TR!Bytes(T) <= TR!Bytes(t)
  BY <1>2, <1>7
<1>. HIDE DEF bad
<1>9. TR!Bytes(s) = r.bytes + TR!Bytes(t)
  BY <1>1, <1>3, <1>6, BytesWithout
<1>10. r.bytes \in Nat
  BY <1>1, <1>3, TraceNumbers
<1>. QED  BY <1>1, <1>3, <1>7, <1>8, <1>9, <1>10

-----------------------------------------------------------------------------
(* The traces of a team (TeamTraces).                                      *)

TraceTypes ==
    /\ settings \in TR!Settings
    /\ traces \subseteq TR!Trace /\ IsFiniteSet(traces)
    /\ recordedTraces \in 0 .. MaxTraces
    /\ tracing \in [TR!Threads -> {"idle", "insert", "write", "prune", "delete"}]
    /\ read \in [TR!Threads -> TR!Settings]
    /\ trace \in [Writers -> TR!Trace]
    /\ now \in 0 .. MaxTime /\ updates \in 0 .. MaxUpdates

\* A call that will still prune with the settings in force, or has just to read them.
PruneIsDue ==
    \E t \in TR!Threads : \/ tracing[t] = "prune"
                          \/ tracing[t] = "delete" /\ read[t] = settings

WithinLimits ==
    /\ TR!Bytes(traces) <= settings.limit
    /\ TR!Expired(traces, settings.days) \subseteq old

TracesInv == TraceTypes /\ (PruneIsDue \/ WithinLimits)

LEMMA SettingFacts ==
    ASSUME NEW s \in TR!Settings
    PROVE  s.limit \in Nat /\ s.days \in Nat /\ s.mode \in TR!TraceModes
<1>1. s.limit \in Limits /\ s.days \in Days \cup {MaxTime + 1} /\ s.mode \in TR!TraceModes
  BY DEF TR!Settings, TR!Forever
<1>2. MaxTime + 1 \in Nat
  BY TraceNumbers
<1>. QED  BY <1>1, <1>2, TraceNumbers

LEMMA AnySettingsAreSettings == TR!AnySettings \in TR!Settings
<1>1. TR!Max(Limits) \in Limits
  BY TraceAssumption DEF TR!Max
<1>2. TR!Max(Days) \in Days
  BY TraceAssumption DEF TR!Max
<1>. QED  BY <1>1, <1>2 DEF TR!AnySettings, TR!Settings, TR!TraceModes

LEMMA AnyTraceIsTrace == TR!AnyTrace \in TR!Trace
<1>1. 1 \in 1 .. MaxTraces /\ 0 \in 0 .. MaxTime
  BY TraceAssumption
<1>. QED  BY <1>1 DEF TR!AnyTrace, TR!Trace

LEMMA TracesInit == Init => TracesInv
<1>. SUFFICES ASSUME Init PROVE TracesInv
  OBVIOUS
<1>0. TR!Init
  BY DEF Init
<1>1. TraceTypes
  BY <1>0, AnySettingsAreSettings, AnyTraceIsTrace, TraceAssumption, FS_EmptySet
  DEF TR!Init, TraceTypes
<1>2. settings.limit \in Nat /\ TR!Bytes(traces) = 0
  BY <1>0, <1>1, SettingFacts, BytesOfNone DEF TR!Init, TraceTypes
<1>3. WithinLimits
  BY <1>0, <1>2 DEF TR!Init, TR!Expired, WithinLimits
<1>. QED  BY <1>1, <1>3 DEF TracesInv

LEMMA TracesHold == TracesInv => TR!TypeOK /\ TR!StoreWithinLimits
<1>. SUFFICES ASSUME TracesInv PROVE TR!TypeOK /\ TR!StoreWithinLimits
  OBVIOUS
<1>1. TR!TypeOK
  BY DEF TracesInv, TraceTypes, TR!TypeOK
<1>2. (\A t \in TR!Threads : tracing[t] \in {"idle", "insert"}) => ~PruneIsDue
  BY DEF PruneIsDue
<1>3. TR!StoreWithinLimits
  BY <1>2 DEF TracesInv, WithinLimits, TR!StoreWithinLimits
<1>. QED  BY <1>1, <1>3

\* What another thread has still to do stays to be done.
LEMMA DueStays ==
    ASSUME TraceTypes, NEW t \in TR!Threads, NEW where, NEW new,
           tracing' = [tracing EXCEPT ![t] = where], read' = [read EXCEPT ![t] = new],
           UNCHANGED settings,
           NEW u \in TR!Threads, u # t,
           \/ tracing[u] = "prune"
           \/ tracing[u] = "delete" /\ read[u] = settings
    PROVE  PruneIsDue'
<1>1. tracing'[u] = tracing[u] /\ read'[u] = read[u]
  BY DEF TraceTypes
<1>. QED  BY <1>1 DEF PruneIsDue

LEMMA ReadStays ==
    ASSUME TraceTypes, NEW t \in TR!Threads, UNCHANGED read
    PROVE  read' = [read EXCEPT ![t] = read[t]]
BY DEF TraceTypes

\* An idle thread takes up something else than a prune.
LEMMA TracesElse ==
    ASSUME TracesInv, TraceTypes', NEW t \in TR!Threads, tracing[t] = "idle",
           NEW where, tracing' = [tracing EXCEPT ![t] = where],
           NEW new, read' = [read EXCEPT ![t] = new],
           UNCHANGED <<settings, traces, now, old>>
    PROVE  TracesInv'
<1>1. CASE PruneIsDue
  <2>1. PICK u \in TR!Threads : \/ tracing[u] = "prune"
                                \/ tracing[u] = "delete" /\ read[u] = settings
    BY <1>1 DEF PruneIsDue
  <2>2. u # t
    BY <2>1
  <2>3. PruneIsDue'
    BY <2>1, <2>2, DueStays DEF TracesInv
  <2>. QED  BY <2>3 DEF TracesInv
<1>2. CASE WithinLimits
  <2>1. WithinLimits'
    BY <1>2 DEF WithinLimits, TR!Expired
  <2>. QED  BY <2>1 DEF TracesInv
<1>. QED  BY <1>1, <1>2 DEF TracesInv

LEMMA TracesBegin == ASSUME TracesInv, NEW t \in Writers, TR!Begin(t) PROVE TracesInv'
<1>1. /\ tracing[t] = "idle" /\ recordedTraces < MaxTraces
      /\ recordedTraces' = recordedTraces + 1
      /\ tracing' = [tracing EXCEPT ![t] = "insert"]
      /\ UNCHANGED <<settings, traces, read, now, updates, old>>
  BY DEF TR!Begin, TR!Goes
<1>2. PICK start \in 0 .. now, n \in IF settings.mode = "full" THEN Sizes ELSE {1} :
         trace' = [trace EXCEPT ![t] = [id |-> recordedTraces + 1, start |-> start, bytes |-> n]]
  BY DEF TR!Begin
<1>3. TraceTypes /\ t \in TR!Threads
  BY DEF TracesInv, TR!Threads
<1>4. recordedTraces + 1 \in 1 .. MaxTraces /\ recordedTraces' \in 0 .. MaxTraces
      /\ start \in 0 .. MaxTime
  BY <1>1, <1>3, TraceNumbers DEF TraceTypes
<1>5. n \in Sizes \cup {1}
  OBVIOUS
<1>6. [id |-> recordedTraces + 1, start |-> start, bytes |-> n] \in TR!Trace
  BY <1>4, <1>5 DEF TR!Trace
<1>7. trace' \in [Writers -> TR!Trace]
  BY <1>2, <1>3, <1>6 DEF TraceTypes
<1>8. tracing' \in [TR!Threads -> {"idle", "insert", "write", "prune", "delete"}]
  BY <1>1, <1>3 DEF TraceTypes
<1>9. TraceTypes'
  BY <1>1, <1>3, <1>4, <1>7, <1>8 DEF TraceTypes
<1>. QED  BY <1>1, <1>3, <1>9, ReadStays, TracesElse

LEMMA TracesInsert == ASSUME TracesInv, NEW t \in Writers, TR!Insert(t) PROVE TracesInv'
<1>1. /\ traces' = traces \cup {trace[t]}
      /\ trace' = [trace EXCEPT ![t] = TR!AnyTrace]
      /\ tracing' = [tracing EXCEPT ![t] = "prune"]
      /\ UNCHANGED <<settings, recordedTraces, read, now, updates, old>>
  BY DEF TR!Insert, TR!Goes, TR!AfterInsert
<1>2. TraceTypes /\ t \in TR!Threads
  BY DEF TracesInv, TR!Threads
<1>3. traces' \subseteq TR!Trace /\ IsFiniteSet(traces')
  BY <1>1, <1>2, FS_AddElement DEF TraceTypes
<1>4. trace' \in [Writers -> TR!Trace]
  BY <1>1, <1>2, AnyTraceIsTrace DEF TraceTypes
<1>5. /\ tracing' \in [TR!Threads -> {"idle", "insert", "write", "prune", "delete"}]
      /\ tracing'[t] = "prune"
  BY <1>1, <1>2 DEF TraceTypes
<1>6. TraceTypes'
  BY <1>1, <1>2, <1>3, <1>4, <1>5 DEF TraceTypes
<1>. QED  BY <1>2, <1>5, <1>6 DEF TracesInv, PruneIsDue

LEMMA TracesBeginUpdate ==
    ASSUME TracesInv, NEW t \in TraceAdmins, TR!BeginUpdate(t)
    PROVE  TracesInv'
<1>1. /\ tracing[t] = "idle" /\ updates < MaxUpdates /\ updates' = updates + 1
      /\ tracing' = [tracing EXCEPT ![t] = "write"]
      /\ read' = [read EXCEPT ![t] = settings]
      /\ UNCHANGED <<settings, traces, recordedTraces, trace, now, old>>
  BY DEF TR!BeginUpdate, TR!Goes, TR!Reads
<1>2. TraceTypes /\ t \in TR!Threads
  BY DEF TracesInv, TR!Threads
<1>3. updates' \in 0 .. MaxUpdates
  BY <1>1, <1>2, TraceAssumption DEF TraceTypes
<1>4. tracing' \in [TR!Threads -> {"idle", "insert", "write", "prune", "delete"}]
  BY <1>1, <1>2 DEF TraceTypes
<1>5. read' \in [TR!Threads -> TR!Settings]
  BY <1>1, <1>2 DEF TraceTypes
<1>6. TraceTypes'
  BY <1>1, <1>2, <1>3, <1>4, <1>5 DEF TraceTypes
<1>. QED  BY <1>1, <1>2, <1>6, TracesElse

LEMMA TracesWrite == ASSUME TracesInv, NEW t \in TraceAdmins, TR!Write(t) PROVE TracesInv'
<1>1. /\ tracing' = [tracing EXCEPT ![t] = "prune"]
      /\ UNCHANGED <<traces, recordedTraces, read, trace, now, updates, old>>
      /\ \/ \E mode \in TR!TraceModes : settings' = [read[t] EXCEPT !.mode = mode]
         \/ \E days \in Days \cup {TR!Forever} : settings' = [read[t] EXCEPT !.days = days]
         \/ \E limit \in Limits : settings' = [read[t] EXCEPT !.limit = limit]
  BY DEF TR!Write, TR!Goes
<1>2. TraceTypes /\ t \in TR!Threads
  BY DEF TracesInv, TR!Threads
<1>3. read[t] \in TR!Settings
  BY <1>2 DEF TraceTypes
<1>4. settings' \in TR!Settings
  BY <1>1, <1>3 DEF TR!Settings
<1>5. /\ tracing' \in [TR!Threads -> {"idle", "insert", "write", "prune", "delete"}]
      /\ tracing'[t] = "prune"
  BY <1>1, <1>2 DEF TraceTypes
<1>6. TraceTypes'
  BY <1>1, <1>2, <1>4, <1>5 DEF TraceTypes
<1>. QED  BY <1>2, <1>5, <1>6 DEF TracesInv, PruneIsDue

\* With fewer traces the store stays within its limits.
LEMMA FewerTraces ==
    ASSUME TraceTypes, WithinLimits, traces' \subseteq traces, UNCHANGED <<settings, now, old>>
    PROVE  WithinLimits'
<1>1. TR!Bytes(traces') <= TR!Bytes(traces)
  BY BytesOfFewer DEF TraceTypes
<1>2. TR!Bytes(traces) \in Nat /\ TR!Bytes(traces') \in Nat /\ settings.limit \in Nat
  <2>1. IsFiniteSet(traces') /\ traces' \subseteq TR!Trace
    BY FS_Subset DEF TraceTypes
  <2>. QED  BY <2>1, BytesOfTraces, SettingFacts DEF TraceTypes
<1>3. TR!Bytes(traces) <= settings.limit
  BY DEF WithinLimits
<1>4. TR!Bytes(traces') <= settings.limit
  BY <1>1, <1>2, <1>3
<1>5. TR!Expired(traces, settings.days)' \subseteq TR!Expired(traces, settings.days)
  BY DEF TR!Expired
<1>. QED  BY <1>4, <1>5 DEF WithinLimits

LEMMA TracesDelete ==
    ASSUME TracesInv, NEW t \in TraceAdmins, TR!DeleteTraces(t)
    PROVE  TracesInv'
<1>1. /\ traces' \subseteq traces
      /\ UNCHANGED <<settings, recordedTraces, tracing, read, trace, now, updates, old>>
  BY DEF TR!DeleteTraces
<1>2. IsFiniteSet(traces') /\ traces' \subseteq TR!Trace
  BY <1>1, FS_Subset DEF TracesInv, TraceTypes
<1>3. TraceTypes'
  BY <1>1, <1>2 DEF TracesInv, TraceTypes
<1>4. PruneIsDue => PruneIsDue'
  BY <1>1 DEF PruneIsDue
<1>5. WithinLimits => WithinLimits'
  BY <1>1, FewerTraces DEF TracesInv
<1>. QED  BY <1>3, <1>4, <1>5 DEF TracesInv

LEMMA TracesReadLimits ==
    ASSUME TracesInv, NEW t \in TR!Threads, TR!ReadLimits(t)
    PROVE  TracesInv'
<1>1. /\ tracing' = [tracing EXCEPT ![t] = "delete"]
      /\ read' = [read EXCEPT ![t] = settings]
      /\ UNCHANGED <<settings, traces, recordedTraces, trace, now, updates, old>>
  BY DEF TR!ReadLimits, TR!Goes, TR!Reads
<1>2. /\ tracing' \in [TR!Threads -> {"idle", "insert", "write", "prune", "delete"}]
      /\ tracing'[t] = "delete"
  BY <1>1 DEF TracesInv, TraceTypes
<1>3. read' \in [TR!Threads -> TR!Settings] /\ read'[t] = settings'
  BY <1>1 DEF TracesInv, TraceTypes
<1>4. TraceTypes'
  BY <1>1, <1>2, <1>3 DEF TracesInv, TraceTypes
<1>. QED  BY <1>2, <1>3, <1>4 DEF TracesInv, PruneIsDue

\* A prune with the settings in force leaves what they allow; one with older settings
\* leaves fewer traces.
LEMMA TracesPrune == ASSUME TracesInv, NEW t \in TR!Threads, TR!Prune(t) PROVE TracesInv'
<1>1. /\ tracing[t] = "delete"
      /\ tracing' = [tracing EXCEPT ![t] = "idle"]
      /\ read' = [read EXCEPT ![t] = TR!AnySettings]
      /\ traces' \in TR!WithinLimit(traces \ TR!Expired(traces, read[t].days), read[t].limit)
      /\ UNCHANGED <<settings, recordedTraces, trace, now, updates, old>>
  BY DEF TR!Prune, TR!Goes
<1>2. /\ traces' \subseteq traces \ TR!Expired(traces, read[t].days)
      /\ TR!Bytes(traces') <= read[t].limit
  BY <1>1 DEF TR!WithinLimit
<1>3. IsFiniteSet(traces') /\ traces' \subseteq TR!Trace
  BY <1>2, FS_Subset DEF TracesInv, TraceTypes
<1>4. tracing' \in [TR!Threads -> {"idle", "insert", "write", "prune", "delete"}]
  BY <1>1 DEF TracesInv, TraceTypes
<1>5. read' \in [TR!Threads -> TR!Settings]
  BY <1>1, AnySettingsAreSettings DEF TracesInv, TraceTypes
<1>6. TraceTypes'
  BY <1>1, <1>3, <1>4, <1>5 DEF TracesInv, TraceTypes
<1>7. CASE WithinLimits
  <2>1. WithinLimits'
    BY <1>1, <1>2, <1>7, FewerTraces DEF TracesInv
  <2>. QED  BY <1>6, <2>1 DEF TracesInv
<1>8. CASE PruneIsDue
  <2>1. PICK u \in TR!Threads : \/ tracing[u] = "prune"
                                \/ tracing[u] = "delete" /\ read[u] = settings
    BY <1>8 DEF PruneIsDue
  <2>2. CASE u # t
    <3>1. PruneIsDue'
      BY <1>1, <2>1, <2>2, DueStays DEF TracesInv
    <3>. QED  BY <1>6, <3>1 DEF TracesInv
  <2>3. CASE u = t
    <3>1. read[t] = settings
      BY <1>1, <2>1, <2>3
    <3>2. TR!Expired(traces, settings.days)' = {}
      BY <1>1, <1>2, <3>1 DEF TR!Expired
    <3>3. WithinLimits'
      BY <1>1, <1>2, <3>1, <3>2 DEF WithinLimits
    <3>. QED  BY <1>6, <3>3 DEF TracesInv
  <2>. QED  BY <2>2, <2>3
<1>. QED  BY <1>7, <1>8 DEF TracesInv

LEMMA TracesTick == ASSUME TracesInv, TR!Tick PROVE TracesInv'
<1>1. /\ now < MaxTime /\ now' = now + 1
      /\ old' = {r \in traces : settings.days # TR!Forever /\ r.start < now + 1 - settings.days}
      /\ UNCHANGED <<settings, traces, recordedTraces, tracing, read, trace, updates>>
  BY DEF TR!Tick
<1>2. now' \in 0 .. MaxTime
  BY <1>1, TraceNumbers DEF TracesInv, TraceTypes
<1>3. TraceTypes'
  BY <1>1, <1>2 DEF TracesInv, TraceTypes
<1>4. PruneIsDue => PruneIsDue'
  BY <1>1 DEF PruneIsDue
<1>5. WithinLimits => WithinLimits'
  <2>1. ASSUME NEW r \in TR!Expired(traces, settings.days)'
        PROVE  r \in old'
    <3>1. /\ r \in traces /\ settings.days # TR!Forever
          /\ r.start < now' - settings.days
      BY <1>1, <2>1 DEF TR!Expired, TR!Forever
    <3>2. PICK then : then = now' /\ then = now + 1
      BY <1>1
    <3>3. r.start < then - settings.days
      BY <3>1, <3>2, Zenon
    <3>4. PICK days : days = settings.days /\ days \in Int
      <4>1. settings.days \in Days \/ settings.days = MaxTime + 1
        BY DEF TracesInv, TraceTypes, TR!Settings, TR!Forever
      <4>2. CASE settings.days \in Days
        <5>1. settings.days \in Nat
          BY <4>2, TraceNumbers, Zenon
        <5>. QED  BY <5>1
      <4>3. MaxTime + 1 \in Int
        BY TraceNumbers
      <4>4. CASE settings.days = MaxTime + 1
        BY <4>3, <4>4, Zenon
      <4>. QED  BY <4>1, <4>2, <4>4
    <3>5. now \in Int
      BY DEF TracesInv, TraceTypes
    <3>6. then - days = now + 1 - days
      BY <3>2, <3>4, <3>5
    <3>7. r.start < now + 1 - settings.days
      BY <3>3, <3>4, <3>6, Zenon
    <3>. QED  BY <1>1, <3>1, <3>7
  <2>2. TR!Expired(traces, settings.days)' \subseteq old'
    BY <2>1
  <2>. QED  BY <1>1, <2>2 DEF WithinLimits
<1>. QED  BY <1>3, <1>4, <1>5 DEF TracesInv

LEMMA TracesStep == TracesInv /\ [Next]_vars => TracesInv'
<1>. SUFFICES ASSUME TracesInv, [Next]_vars PROVE TracesInv'
  OBVIOUS
<1>1. CASE UNCHANGED tracesVars \/ TR!Done
  <2>1. UNCHANGED <<settings, traces, recordedTraces, tracing, read, trace, now, updates, old>>
    BY <1>1 DEF tracesVars, TR!Done, TR!tvars
  <2>. QED
    BY <2>1 DEF TracesInv, TraceTypes, PruneIsDue, WithinLimits, TR!Expired
<1>2. CASE TR!Next
  BY <1>1, <1>2, TracesBegin, TracesInsert, TracesBeginUpdate, TracesWrite, TracesDelete,
     TracesReadLimits, TracesPrune, TracesTick
  DEF TR!Next
<1>3. UNCHANGED tracesVars \/ TR!Next
  BY DEF Next, vars
<1>. QED  BY <1>1, <1>2, <1>3

\* When no call is under way the traces are within the limits in force, whatever two
\* administrators have changed meanwhile and whoever has recorded more (TeamStore.
\* prune_traces, TeamStore.update_settings).
THEOREM StoresTracesStayWithinLimits == Spec => []TracesStayWithinLimits
<1>1. TracesInv => TracesStayWithinLimits
  BY TracesHold DEF TracesStayWithinLimits
<1>2. Init => TracesInv
  BY TracesInit
<1>3. TracesInv /\ [Next]_vars => TracesInv'
  BY TracesStep
<1>. QED  BY <1>1, <1>2, <1>3, PTL DEF Spec

-----------------------------------------------------------------------------
(* Keys, devices and requests for a model (TeamRegister).                  *)

RegisterInv == TG!TypeOK /\ TG!DecidedOnce

LEMMA RegisterInit == Init => RegisterInv
<1>. SUFFICES ASSUME Init PROVE RegisterInv
  OBVIOUS
<1>1. TG!Init
  BY DEF Init
<1>2. MaxAsked \in Nat /\ MaxCount \in Nat
  BY RegisterAssumption
<1>3. /\ asked = <<>> /\ verdict = <<>> /\ created = {} /\ enabled = {}
      /\ seen = [d \in Devices |-> Nobody] /\ count = [d \in Devices |-> 0]
      /\ caller = [c \in Callers |-> Nobody]
  BY <1>1 DEF TG!Init
<1>4. /\ asked \in Seq(TG!Asked) /\ verdict \in Seq(TG!Statuses)
      /\ Len(asked) = 0 /\ Len(verdict) = 0
  BY <1>3
<1>5. TG!TypeOK
  BY <1>2, <1>3, <1>4 DEF TG!TypeOK
<1>6. TG!DecidedOnce
  BY <1>3 DEF TG!DecidedOnce
<1>. QED  BY <1>5, <1>6 DEF RegisterInv

\* A key asks once more for a model only if it has no open request for it.
LEMMA RegisterAsk ==
    ASSUME RegisterInv, NEW c \in Callers, NEW m \in Models, TG!AskForModel(c, m)
    PROVE  RegisterInv'
<1>1. /\ caller[c] # Nobody /\ Len(asked) < MaxAsked
      /\ caller' = [caller EXCEPT ![c] = Nobody]
      /\ UNCHANGED <<created, enabled, seen, count>>
  BY DEF TG!AskForModel, TG!Answers
<1>2. caller[c] \in Keys /\ caller' \in [Callers -> Keys \cup {Nobody}]
  BY <1>1 DEF RegisterInv, TG!TypeOK
<1>3. CASE UNCHANGED <<asked, verdict>>
  BY <1>1, <1>2, <1>3 DEF RegisterInv, TG!TypeOK, TG!DecidedOnce
<1>4. CASE /\ ~TG!AlreadyAsked(caller[c], m)
           /\ asked' = Append(asked, [key |-> caller[c], model |-> m, status |-> "pending"])
           /\ verdict' = Append(verdict, "pending")
  <2>1. PICK new : new = [key |-> caller[c], model |-> m, status |-> "pending"]
    OBVIOUS
  <2>2. new \in TG!Asked /\ new.status = "pending" /\ "pending" \in TG!Statuses
    BY <1>2, <2>1 DEF TG!Asked, TG!Statuses
  <2>3. \A i \in DOMAIN asked : asked[i] # new
    BY <1>4, <2>1 DEF TG!AlreadyAsked
  <2>4. PICK n \in Nat : n = Len(asked) /\ n = Len(verdict)
    BY DEF RegisterInv, TG!TypeOK
  <2>5. /\ asked \in Seq(TG!Asked) /\ verdict \in Seq(TG!Statuses)
        /\ DOMAIN asked = 1 .. n
    BY <2>4 DEF RegisterInv, TG!TypeOK
  <2>6. /\ asked' = Append(asked, new) /\ asked' \in Seq(TG!Asked)
        /\ verdict' = Append(verdict, "pending") /\ verdict' \in Seq(TG!Statuses)
    BY <1>4, <2>1, <2>2, <2>5
  <2>7. /\ Len(asked') = n + 1 /\ Len(verdict') = n + 1 /\ DOMAIN asked' = 1 .. n + 1
        /\ asked'[n + 1] = new /\ verdict'[n + 1] = "pending"
        /\ \A i \in 1 .. n : asked'[i] = asked[i] /\ verdict'[i] = verdict[i]
    BY <2>2, <2>4, <2>5, <2>6
  <2>8. TG!TypeOK'
    <3>1. n + 1 <= MaxAsked
      BY <1>1, <2>4, RegisterAssumption
    <3>. QED  BY <1>1, <1>2, <2>6, <2>7, <3>1 DEF RegisterInv, TG!TypeOK
  <2>9. TG!DecidedOnce'
    <3>1. \A i \in 1 .. n + 1 : i \in 1 .. n \/ i = n + 1
      BY <2>4
    <3>2. ASSUME NEW i \in 1 .. n + 1
          PROVE  asked'[i].status = verdict'[i]
      BY <2>2, <2>5, <2>7, <3>1, <3>2 DEF RegisterInv, TG!DecidedOnce
    <3>3. ASSUME NEW i \in 1 .. n + 1, asked'[i].status = "pending",
                 NEW j \in 1 .. n + 1, asked'[j] = asked'[i]
          PROVE  j = i
      <4>1. CASE i \in 1 .. n /\ j \in 1 .. n
        BY <2>5, <2>7, <3>3, <4>1 DEF RegisterInv, TG!DecidedOnce
      <4>2. CASE i = n + 1 /\ j \in 1 .. n
        BY <2>3, <2>5, <2>7, <3>3, <4>2
      <4>3. CASE i \in 1 .. n /\ j = n + 1
        BY <2>3, <2>5, <2>7, <3>3, <4>3
      <4>. QED  BY <3>1, <4>1, <4>2, <4>3
    <3>. QED  BY <2>7, <3>2, <3>3 DEF TG!DecidedOnce
  <2>. QED  BY <2>8, <2>9 DEF RegisterInv
<1>. QED  BY <1>3, <1>4 DEF TG!AskForModel

LEMMA RegisterDecide ==
    ASSUME RegisterInv, NEW i \in 1 .. MaxAsked, NEW status \in TG!Statuses \ {"pending"},
           TG!Decide(i, status)
    PROVE  RegisterInv'
<1>1. /\ i \in DOMAIN asked /\ asked[i].status = "pending"
      /\ asked' = [asked EXCEPT ![i].status = status]
      /\ verdict' = [verdict EXCEPT ![i] = IF @ = "pending" THEN status ELSE @]
      /\ UNCHANGED <<created, enabled, seen, count, caller>>
  BY DEF TG!Decide, TG!MayDecide
<1>2. PICK n \in Nat : n = Len(asked) /\ n = Len(verdict)
  BY DEF RegisterInv, TG!TypeOK
<1>3. /\ asked \in Seq(TG!Asked) /\ verdict \in Seq(TG!Statuses)
      /\ DOMAIN asked = 1 .. n /\ DOMAIN verdict = 1 .. n /\ i \in 1 .. n
  BY <1>1, <1>2 DEF RegisterInv, TG!TypeOK
<1>4. verdict[i] = "pending"
  BY <1>1, <1>3 DEF RegisterInv, TG!DecidedOnce
<1>5. PICK new : new = [asked[i] EXCEPT !.status = status]
  OBVIOUS
<1>6. new \in TG!Asked /\ new.status = status
  <2>1. asked[i] \in TG!Asked
    BY <1>3
  <2>. QED  BY <1>5, <2>1 DEF TG!Asked
<1>7. asked' = [asked EXCEPT ![i] = new] /\ verdict' = [verdict EXCEPT ![i] = status]
  BY <1>1, <1>3, <1>4, <1>5
<1>8. /\ DOMAIN asked' = 1 .. n /\ DOMAIN verdict' = 1 .. n
      /\ asked'[i] = new /\ verdict'[i] = status
      /\ \A j \in 1 .. n : j # i => asked'[j] = asked[j] /\ verdict'[j] = verdict[j]
  BY <1>3, <1>7
<1>9. /\ asked' \in Seq(TG!Asked) /\ verdict' \in Seq(TG!Statuses)
      /\ Len(asked') = n /\ Len(verdict') = n
  BY <1>2, <1>3, <1>6, <1>7
<1>10. TG!TypeOK'
  BY <1>1, <1>2, <1>9 DEF RegisterInv, TG!TypeOK
<1>11. TG!DecidedOnce'
  <2>1. ASSUME NEW k \in 1 .. n
        PROVE  asked'[k].status = verdict'[k]
    BY <1>3, <1>6, <1>8, <2>1 DEF RegisterInv, TG!DecidedOnce
  <2>2. ASSUME NEW k \in 1 .. n, asked'[k].status = "pending",
               NEW j \in 1 .. n, asked'[j] = asked'[k]
        PROVE  j = k
    <3>1. k # i /\ j # i
      BY <1>6, <1>8, <2>2
    <3>. QED  BY <1>3, <1>8, <2>2, <3>1 DEF RegisterInv, TG!DecidedOnce
  <2>. QED  BY <1>8, <2>1, <2>2 DEF TG!DecidedOnce
<1>. QED  BY <1>10, <1>11 DEF RegisterInv

\* The other calls leave the requests alone.
LEMMA RegisterOthers ==
    ASSUME RegisterInv,
           \/ TG!CreateKey \/ TG!RevokeKey \/ TG!Done \/ UNCHANGED registerVars
           \/ \E c \in Callers : \/ TG!Authenticate(c)
                                 \/ \E d \in Devices : TG!Report(c, d) \/ TG!CountRequest(c, d)
    PROVE  RegisterInv'
<1>1. UNCHANGED <<asked, verdict>>
  BY DEF TG!CreateKey, TG!RevokeKey, TG!Done, TG!gvars, registerVars, TG!Authenticate,
         TG!Report, TG!CountRequest
<1>2. TG!DecidedOnce'
  BY <1>1 DEF RegisterInv, TG!DecidedOnce
<1>3. TG!TypeOK'
  <2>1. enabled' \subseteq created' /\ created' \subseteq Keys
    BY DEF RegisterInv, TG!TypeOK, TG!CreateKey, TG!RevokeKey, TG!Done, TG!gvars, registerVars,
           TG!Authenticate, TG!Report, TG!CountRequest
  <2>2. /\ seen' \in [Devices -> Keys \cup {Nobody}]
        /\ caller' \in [Callers -> Keys \cup {Nobody}]
    BY DEF RegisterInv, TG!TypeOK, TG!CreateKey, TG!RevokeKey, TG!Done, TG!gvars, registerVars,
           TG!Authenticate, TG!Report, TG!CountRequest, TG!Answers
  <2>3. count' \in [Devices -> 0 .. MaxCount]
    <3>1. CASE UNCHANGED count
      BY <3>1 DEF RegisterInv, TG!TypeOK
    <3>2. ASSUME NEW c \in Callers, NEW d \in Devices, TG!CountRequest(c, d)
          PROVE  count' \in [Devices -> 0 .. MaxCount]
      <4>1. count[d] + 1 \in 0 .. MaxCount
        BY <3>2, RegisterAssumption DEF RegisterInv, TG!TypeOK, TG!CountRequest
      <4>2. count' = count \/ count' = [count EXCEPT ![d] = count[d] + 1]
        BY <3>2 DEF TG!CountRequest
      <4>. QED  BY <4>1, <4>2 DEF RegisterInv, TG!TypeOK
    <3>. QED
      BY <3>1, <3>2 DEF TG!CreateKey, TG!RevokeKey, TG!Done, TG!gvars, registerVars,
                        TG!Authenticate, TG!Report
  <2>. QED  BY <1>1, <2>1, <2>2, <2>3 DEF RegisterInv, TG!TypeOK
<1>. QED  BY <1>2, <1>3 DEF RegisterInv

LEMMA RegisterStep == RegisterInv /\ [Next]_vars => RegisterInv'
<1>. SUFFICES ASSUME RegisterInv, [Next]_vars PROVE RegisterInv'
  OBVIOUS
<1>1. UNCHANGED registerVars \/ TG!Next
  BY DEF Next, vars
<1>. QED  BY <1>1, RegisterAsk, RegisterDecide, RegisterOthers DEF TG!Next

-----------------------------------------------------------------------------
(* The memory of a team and its exact answers (TeamMemory).                *)

MemoryRequest ==
    [at : {"idle", "index", "search", "answer", "prune", "cache"},
     who : TM!Principals \cup {Nobody}, write : TM!Owners \cup {Nobody},
     cache : TM!Owners \cup {Nobody}, revision : TM!Revisions, hit : BOOLEAN,
     digest : TM!Digests, from : SUBSET TM!Principals, got : SUBSET TM!Revisions]

\* What the type invariant of the component leaves out.
MemoryTypes ==
    /\ index \in [revision : TM!Revisions, digest : TM!Revisions]
    /\ revisionKept \in TM!Revisions
    /\ memories \subseteq TM!Memory /\ IsFiniteSet(memories)
    /\ exact \subseteq TM!Exact
    /\ request \in [Requests -> MemoryRequest]
    /\ puts \in Nat

\* Only an administrator writes what the team shares.
MayOwn(owner, who) == owner = who \/ (owner = Team /\ who \in Admins)

\* A request knows what its principal may, and writes what it may.
RequestIsOwn(q) ==
    IF q.at = "idle" THEN q.from = {}
    ELSE /\ q.who \in TM!Principals /\ q.from \subseteq {q.who} \cup Admins
         /\ q.write \in TM!Owners /\ MayOwn(q.write, q.who)
         /\ q.cache \in TM!Owners /\ MayOwn(q.cache, q.who)

RequestsAreOwn == \A r \in Requests : RequestIsOwn(request[r])

\* So do the records and the answers.
RecordsAreOwn ==
    /\ \A m \in memories : m.from \subseteq {m.owner} \cup Admins
    /\ \A e \in exact : e.from \subseteq {e.owner} \cup Admins

OnePerContent == \A m, n \in memories : TM!Same(n, m) => n = m

Loose(S)  == {m \in S : ~m.pinned}
Pinned(S) == {m \in S : m.pinned}
Pruning   == {r \in Requests : request[r].at = "prune"}

\* A prune leaves records that are not pinned only if all of them fit, and each
\* request that has still to prune has added one.
RoomIsKept ==
    \/ Cardinality(Loose(memories)) <= Cardinality(Pruning)
    \/ Cardinality(Loose(memories)) + Cardinality(Pinned(memories))
         <= MaxRecords + Cardinality(Pruning)

MemoryInv ==
    MemoryTypes /\ RequestsAreOwn /\ RecordsAreOwn /\ OnePerContent /\ RoomIsKept

LEMMA SameCount == \A S : TM!Cardinality(S) = Cardinality(S)
BY DEF TM!Cardinality, Cardinality

\* Records are pinned or not.
LEMMA LooseAndPinned ==
    ASSUME NEW S, IsFiniteSet(S)
    PROVE  /\ IsFiniteSet(Loose(S)) /\ IsFiniteSet(Pinned(S))
           /\ Cardinality(Loose(S)) \in Nat /\ Cardinality(Pinned(S)) \in Nat
           /\ Cardinality(S) = Cardinality(Loose(S)) + Cardinality(Pinned(S))
<1>1. /\ S = Loose(S) \cup Pinned(S) /\ Loose(S) \cap Pinned(S) = {}
      /\ Loose(S) \subseteq S /\ Pinned(S) \subseteq S
  BY DEF Loose, Pinned
<1>2. IsFiniteSet(Loose(S)) /\ IsFiniteSet(Pinned(S))
  BY <1>1, FS_Subset
<1>3. /\ Cardinality(Loose(S)) \in Nat /\ Cardinality(Pinned(S)) \in Nat
      /\ Cardinality({}) = 0
  BY <1>2, FS_CardinalityType, FS_EmptySet
<1>4. Cardinality(S) = Cardinality(Loose(S)) + Cardinality(Pinned(S)) - Cardinality({})
  BY <1>1, <1>2, FS_Union
<1>. QED  BY <1>2, <1>3, <1>4

LEMMA FewPrune == IsFiniteSet(Pruning) /\ Cardinality(Pruning) \in Nat
<1>1. Pruning \subseteq Requests
  BY DEF Pruning
<1>. QED  BY <1>1, MemoryAssumption, FS_Subset, FS_CardinalityType

LEMMA MemoryInit == Init => MemoryInv
<1> SUFFICES ASSUME Init PROVE MemoryInv
  OBVIOUS
<1>0. TM!Init
  BY DEF Init
<1>1. 0 \in TM!Revisions /\ TM!NoFile \in TM!Digests /\ TM!Revisions \subseteq Nat
  BY MemoryAssumption DEF TM!Revisions, TM!Digests
<1>2. TM!Idle \in MemoryRequest /\ TM!Idle.at = "idle" /\ TM!Idle.from = {}
  BY <1>1 DEF TM!Idle, MemoryRequest
<1>3. MemoryTypes
  <2>1. IsFiniteSet(memories) /\ memories \subseteq TM!Memory /\ exact \subseteq TM!Exact
    BY <1>0, FS_EmptySet DEF TM!Init
  <2>. QED  BY <1>0, <1>1, <1>2, <2>1 DEF TM!Init, MemoryTypes
<1>4. RequestsAreOwn
  BY <1>0, <1>2 DEF TM!Init, RequestsAreOwn, RequestIsOwn
<1>5. RecordsAreOwn /\ OnePerContent
  BY <1>0 DEF TM!Init, RecordsAreOwn, OnePerContent
<1>6. RoomIsKept
  <2>1. Loose(memories) = {}
    BY <1>0 DEF TM!Init, Loose
  <2>2. Cardinality(Loose(memories)) = 0
    BY <2>1, FS_EmptySet
  <2>. QED  BY <2>2, FewPrune DEF RoomIsKept
<1>. QED  BY <1>3, <1>4, <1>5, <1>6 DEF MemoryInv

LEMMA MemoryHolds ==
    ASSUME MemoryInv
    PROVE  /\ TM!TypeOK /\ TM!StoreWithinLimit
           /\ TM!KnowledgeStaysPrivate /\ TM!CachedAnswersStayPrivate
<1>1. TM!TypeOK
  BY DEF MemoryInv, MemoryTypes, MemoryRequest, OnePerContent, TM!TypeOK
<1>2. TM!StoreWithinLimit
  <2>1. PICK p \in Nat, l \in Nat, k \in Nat :
          /\ p = Cardinality(Pinned(memories)) /\ l = Cardinality(Loose(memories))
          /\ k = Cardinality(Pruning) /\ Cardinality(memories) = l + p
    BY LooseAndPinned, FewPrune DEF MemoryInv, MemoryTypes
  <2>2. l <= k \/ l + p <= MaxRecords + k
    BY <2>1 DEF MemoryInv, RoomIsKept
  <2>3. l + p <= MaxRecords + k \/ p >= MaxRecords
    BY <2>1, <2>2, MemoryAssumption
  <2>4. /\ Pinned(memories) = {m \in memories : m.pinned}
        /\ Pruning = {r \in Requests : TM!At(r, "prune")}
    BY DEF Pinned, Pruning, TM!At
  <2>. QED  BY <2>1, <2>3, <2>4, SameCount DEF TM!StoreWithinLimit
<1>3. TM!KnowledgeStaysPrivate
  BY DEF MemoryInv, RequestsAreOwn, RequestIsOwn, TM!KnowledgeStaysPrivate
<1>4. TM!CachedAnswersStayPrivate
  BY DEF MemoryInv, RecordsAreOwn, TM!CachedAnswersStayPrivate
<1>. QED  BY <1>1, <1>2, <1>3, <1>4

-----------------------------------------------------------------------------
(* The steps.                                                              *)

\* A request that goes on, and neither begins nor ends to prune.
LEMMA RequestMoves ==
    ASSUME MemoryInv, NEW r \in Requests, NEW q \in MemoryRequest, RequestIsOwn(q),
           TM!Becomes(r, q)
    PROVE  /\ request' \in [Requests -> MemoryRequest] /\ RequestsAreOwn'
           /\ q.at # "prune" /\ request[r].at # "prune" => Pruning' = Pruning
<1>1. /\ request \in [Requests -> MemoryRequest] /\ request' = [request EXCEPT ![r] = q]
      /\ \A s \in Requests : RequestIsOwn(request[s])
  BY DEF MemoryInv, MemoryTypes, RequestsAreOwn, TM!Becomes
<1>2. \A s \in Requests : request'[s] = IF s = r THEN q ELSE request[s]
  BY <1>1
<1>3. request' \in [Requests -> MemoryRequest]
  BY <1>1
<1>4. RequestsAreOwn'
  <2>1. \A s \in Requests : RequestIsOwn(request'[s])
    BY <1>1, <1>2
  <2>. QED  BY <2>1 DEF RequestsAreOwn, RequestIsOwn, MayOwn
<1>5. q.at # "prune" /\ request[r].at # "prune" => Pruning' = Pruning
  BY <1>2 DEF Pruning
<1>. QED  BY <1>3, <1>4, <1>5

\* Records that have gone make room.
LEMMA FewerRecords ==
    ASSUME MemoryInv, memories' \subseteq memories, Pruning' = Pruning
    PROVE  /\ memories' \subseteq TM!Memory /\ IsFiniteSet(memories')
           /\ OnePerContent' /\ RoomIsKept'
<1>1. memories \subseteq TM!Memory /\ IsFiniteSet(memories)
  BY DEF MemoryInv, MemoryTypes
<1>2. IsFiniteSet(memories')
  BY <1>1, FS_Subset
<1>3. OnePerContent'
  BY DEF MemoryInv, OnePerContent, TM!Same
<1>4. RoomIsKept'
  <2>1. Loose(memories') \subseteq Loose(memories) /\ Pinned(memories') \subseteq Pinned(memories)
    BY DEF Loose, Pinned
  <2>2. IsFiniteSet(Loose(memories)) /\ IsFiniteSet(Pinned(memories))
    BY <1>1, LooseAndPinned
  <2>3. PICK l \in Nat, p \in Nat, k \in Nat, a \in Nat, b \in Nat :
          /\ l = Cardinality(Loose(memories)) /\ p = Cardinality(Pinned(memories))
          /\ k = Cardinality(Pruning)
          /\ a = Cardinality(Loose(memories')) /\ b = Cardinality(Pinned(memories'))
    BY <1>1, <1>2, LooseAndPinned, FewPrune
  <2>4. a <= l /\ b <= p
    BY <2>1, <2>2, <2>3, FS_Subset
  <2>5. l <= k \/ l + p <= MaxRecords + k
    BY <2>3 DEF MemoryInv, RoomIsKept
  <2>6. a <= k \/ a + b <= MaxRecords + k
    BY <2>4, <2>5, MemoryAssumption
  <2>7. k = Cardinality(Pruning')
    BY <2>3
  <2>8. \/ Cardinality(Loose(memories')) <= Cardinality(Pruning')
        \/ Cardinality(Loose(memories')) + Cardinality(Pinned(memories'))
             <= MaxRecords + Cardinality(Pruning')
    BY <2>3, <2>6, <2>7
  <2>. QED  BY <2>8 DEF RoomIsKept, Loose, Pinned, Pruning
<1>. QED  BY <1>1, <1>2, <1>3, <1>4

\* What prune leaves fits, whoever else has still to prune.
LEMMA PrunedFits ==
    ASSUME NEW S, IsFiniteSet(S), S \subseteq TM!Memory,
           \A m, n \in S : TM!Same(n, m) => n = m,
           memories' \in TM!Pruned(S)
    PROVE  /\ memories' \subseteq S /\ memories' \subseteq TM!Memory /\ IsFiniteSet(memories')
           /\ OnePerContent' /\ RoomIsKept'
<1>1. memories' \subseteq S /\ \A m \in memories' : m.pinned \/ Cardinality(memories') <= MaxRecords
  BY SameCount DEF TM!Pruned
<1>2. IsFiniteSet(memories')
  BY <1>1, FS_Subset
<1>3. OnePerContent'
  BY <1>1 DEF OnePerContent, TM!Same
<1>4. RoomIsKept'
  <2>0. Cardinality(Pruning') \in Nat
    <3>1. Pruning' \subseteq Requests
      BY DEF Pruning
    <3>. QED  BY <3>1, MemoryAssumption, FS_Subset, FS_CardinalityType
  <2>1. CASE Loose(memories') = {}
    <3>1. Cardinality(Loose(memories')) = 0
      BY <2>1, FS_EmptySet
    <3>2. Cardinality(Loose(memories')) <= Cardinality(Pruning')
      BY <2>0, <3>1
    <3>. QED  BY <3>2 DEF RoomIsKept, Loose, Pinned, Pruning
  <2>2. CASE Loose(memories') # {}
    <3>1. Cardinality(memories') <= MaxRecords
      BY <1>1, <2>2 DEF Loose
    <3>2. PICK l \in Nat, p \in Nat :
            /\ l = Cardinality(Loose(memories')) /\ p = Cardinality(Pinned(memories'))
            /\ Cardinality(memories') = l + p
      BY <1>2, LooseAndPinned
    <3>3. l + p <= MaxRecords + Cardinality(Pruning')
      BY <2>0, <3>1, <3>2, MemoryAssumption
    <3>4. Cardinality(Loose(memories')) + Cardinality(Pinned(memories'))
            <= MaxRecords + Cardinality(Pruning')
      BY <3>2, <3>3
    <3>. QED  BY <3>4 DEF RoomIsKept, Loose, Pinned, Pruning
  <2>. QED  BY <2>1, <2>2
<1>. QED  BY <1>1, <1>2, <1>3, <1>4

\* One record more, and one more that has to prune.
LEMMA OneMoreRecord ==
    ASSUME MemoryInv, NEW m \in TM!Memory, ~m.pinned,
           memories' = TM!Put(memories, m),
           NEW r \in Requests, r \notin Pruning, Pruning' = Pruning \cup {r}
    PROVE  RoomIsKept'
<1> DEFINE Kept == {n \in memories : ~TM!Same(n, m)}
<1>1. memories \subseteq TM!Memory /\ IsFiniteSet(memories)
  BY DEF MemoryInv, MemoryTypes
<1>2. Kept \subseteq memories /\ memories' = Kept \cup {m}
  BY DEF TM!Put
<1>3. /\ Loose(memories') \subseteq Loose(memories) \cup {m}
      /\ Pinned(memories') \subseteq Pinned(memories)
  BY <1>2 DEF Loose, Pinned
<1>4. IsFiniteSet(Loose(memories)) /\ IsFiniteSet(Pinned(memories))
  BY <1>1, LooseAndPinned
<1>5. /\ IsFiniteSet(Loose(memories) \cup {m})
      /\ \/ Cardinality(Loose(memories) \cup {m}) = Cardinality(Loose(memories))
         \/ Cardinality(Loose(memories) \cup {m}) = Cardinality(Loose(memories)) + 1
  BY <1>4, FS_AddElement
<1>6. IsFiniteSet(memories')
  <2>1. IsFiniteSet(Kept)
    BY <1>1, <1>2, FS_Subset
  <2>. QED  BY <1>2, <2>1, FS_AddElement
<1>7. Cardinality(Pruning') = Cardinality(Pruning) + 1
  BY FewPrune, FS_AddElement
<1>8. PICK l \in Nat, p \in Nat, k \in Nat, a \in Nat, b \in Nat :
        /\ l = Cardinality(Loose(memories)) /\ p = Cardinality(Pinned(memories))
        /\ k = Cardinality(Pruning)
        /\ a = Cardinality(Loose(memories')) /\ b = Cardinality(Pinned(memories'))
  BY <1>1, <1>6, LooseAndPinned, FewPrune
<1>9. b <= p
  BY <1>3, <1>4, <1>8, FS_Subset
<1>10. Cardinality(Loose(memories')) <= Cardinality(Loose(memories) \cup {m})
  BY <1>3, <1>5, FS_Subset
<1>11. a <= l + 1
  BY <1>5, <1>8, <1>10
<1>12. l <= k \/ l + p <= MaxRecords + k
  BY <1>8 DEF MemoryInv, RoomIsKept
<1>13. a <= k + 1 \/ a + b <= MaxRecords + (k + 1)
  BY <1>9, <1>11, <1>12, MemoryAssumption
<1>14. \/ Cardinality(Loose(memories')) <= Cardinality(Pruning')
       \/ Cardinality(Loose(memories')) + Cardinality(Pinned(memories'))
            <= MaxRecords + Cardinality(Pruning')
  BY <1>7, <1>8, <1>13
<1>. QED  BY <1>14 DEF RoomIsKept, Loose, Pinned, Pruning

\* What is put is one of a kind.
LEMMA PutIsOnePerContent ==
    ASSUME MemoryInv, NEW m \in TM!Memory
    PROVE  /\ TM!Put(memories, m) \subseteq TM!Memory /\ IsFiniteSet(TM!Put(memories, m))
           /\ \A a, b \in TM!Put(memories, m) : TM!Same(b, a) => b = a
           /\ \A n \in TM!Put(memories, m) : n = m \/ n \in memories
<1> DEFINE Kept == {n \in memories : ~TM!Same(n, m)}
<1>1. memories \subseteq TM!Memory /\ IsFiniteSet(memories)
  BY DEF MemoryInv, MemoryTypes
<1>2. Kept \subseteq memories /\ TM!Put(memories, m) = Kept \cup {m}
  BY DEF TM!Put
<1>3. IsFiniteSet(Kept \cup {m})
  <2>1. IsFiniteSet(Kept)
    BY <1>1, <1>2, FS_Subset
  <2>. QED  BY <2>1, FS_AddElement
<1>4. ASSUME NEW n \in TM!Memory, NEW o \in TM!Memory
      PROVE  TM!Same(n, o) <=> /\ n.owner = o.owner /\ n.revision = o.revision
                               /\ n.digest = o.digest /\ n.from = o.from
  BY DEF TM!Same, TM!Memory
<1>5. \A a, b \in Kept \cup {m} : TM!Same(b, a) => b = a
  <2> SUFFICES ASSUME NEW a \in Kept \cup {m}, NEW b \in Kept \cup {m}, TM!Same(b, a)
               PROVE  b = a
    OBVIOUS
  <2>1. CASE a \in Kept /\ b \in Kept
    BY <1>2, <2>1 DEF MemoryInv, OnePerContent
  <2>2. CASE a = m /\ b \in Kept
    BY <2>2
  <2>3. CASE a \in Kept /\ b = m
    <3>1. a \in TM!Memory /\ ~TM!Same(a, m)
      BY <1>1, <2>3
    <3>. QED  BY <1>4, <2>3, <3>1
  <2>. QED  BY <2>1, <2>2, <2>3
<1>. QED  BY <1>1, <1>2, <1>3, <1>5

\* A record whose time is up is the same record.
LEMMA ExpiredRecord ==
    ASSUME MemoryInv, NEW m \in memories, ~m.pinned, NEW o \in TM!Memory,
           o = [m EXCEPT !.overdue = TRUE], memories' = (memories \ {m}) \cup {o},
           Pruning' = Pruning
    PROVE  /\ memories' \subseteq TM!Memory /\ IsFiniteSet(memories')
           /\ OnePerContent' /\ RoomIsKept'
<1>1. memories \subseteq TM!Memory /\ IsFiniteSet(memories)
  BY DEF MemoryInv, MemoryTypes
<1>2. memories' \subseteq TM!Memory
  BY <1>1
<1>3. IsFiniteSet(memories \ {m}) /\ IsFiniteSet(memories')
  <2>1. IsFiniteSet(memories \ {m})
    BY <1>1, FS_Subset
  <2>. QED  BY <2>1, FS_AddElement
<1>4. ASSUME NEW n \in TM!Memory, NEW c \in TM!Memory
      PROVE  TM!Same(n, c) <=> /\ n.owner = c.owner /\ n.revision = c.revision
                               /\ n.digest = c.digest /\ n.from = c.from
  BY DEF TM!Same, TM!Memory
<1>5. /\ m \in TM!Memory /\ o.owner = m.owner /\ o.revision = m.revision
      /\ o.digest = m.digest /\ o.from = m.from /\ ~o.pinned
  BY <1>1 DEF TM!Memory
<1>6. \A a, b \in memories' : TM!Same(b, a) => b = a
  <2> SUFFICES ASSUME NEW a \in memories', NEW b \in memories', TM!Same(b, a)
               PROVE  b = a
    OBVIOUS
  <2>1. CASE a \in memories /\ b \in memories
    BY <2>1 DEF MemoryInv, OnePerContent
  <2>2. CASE a = o /\ b \in memories \ {m}
    <3>1. TM!Same(b, m)
      BY <1>1, <1>4, <1>5, <2>2
    <3>. QED  BY <2>2, <3>1 DEF MemoryInv, OnePerContent
  <2>3. CASE a \in memories \ {m} /\ b = o
    <3>1. TM!Same(m, a)
      BY <1>1, <1>4, <1>5, <2>3
    <3>. QED  BY <2>3, <3>1 DEF MemoryInv, OnePerContent
  <2>. QED  BY <2>1, <2>2, <2>3
<1>7. OnePerContent'
  BY <1>6 DEF OnePerContent, TM!Same
<1>8. /\ Pinned(memories') \subseteq Pinned(memories)
      /\ Loose(memories') = (Loose(memories) \ {m}) \cup {o} /\ m \in Loose(memories)
  BY <1>5 DEF Loose, Pinned
<1>9. IsFiniteSet(Loose(memories)) /\ IsFiniteSet(Pinned(memories))
  BY <1>1, LooseAndPinned
<1>10. PICK l \in Nat, p \in Nat, k \in Nat, a \in Nat, b \in Nat :
        /\ l = Cardinality(Loose(memories)) /\ p = Cardinality(Pinned(memories))
        /\ k = Cardinality(Pruning)
        /\ a = Cardinality(Loose(memories')) /\ b = Cardinality(Pinned(memories'))
  BY <1>1, <1>3, LooseAndPinned, FewPrune
<1>11. b <= p
  BY <1>8, <1>9, <1>10, FS_Subset
<1>12. IsFiniteSet(Loose(memories) \ {m}) /\ Cardinality(Loose(memories) \ {m}) = l - 1
  BY <1>8, <1>9, <1>10, FS_RemoveElement
<1>13. \/ Cardinality((Loose(memories) \ {m}) \cup {o}) = Cardinality(Loose(memories) \ {m})
       \/ Cardinality((Loose(memories) \ {m}) \cup {o}) = Cardinality(Loose(memories) \ {m}) + 1
  BY <1>12, FS_AddElement
<1>14. a <= l
  BY <1>8, <1>10, <1>12, <1>13
<1>15. l <= k \/ l + p <= MaxRecords + k
  BY <1>10 DEF MemoryInv, RoomIsKept
<1>16. a <= k \/ a + b <= MaxRecords + k
  BY <1>11, <1>14, <1>15, MemoryAssumption
<1>17. \/ Cardinality(Loose(memories')) <= Cardinality(Pruning')
       \/ Cardinality(Loose(memories')) + Cardinality(Pinned(memories'))
            <= MaxRecords + Cardinality(Pruning')
  BY <1>10, <1>16
<1>18. RoomIsKept'
  BY <1>17 DEF RoomIsKept, Loose, Pinned, Pruning
<1>. QED  BY <1>2, <1>3, <1>7, <1>18

\* The request is not concerned.
LEMMA RequestsStay ==
    ASSUME MemoryInv, UNCHANGED request
    PROVE  /\ request' \in [Requests -> MemoryRequest] /\ RequestsAreOwn'
           /\ Pruning' = Pruning
BY DEF MemoryInv, MemoryTypes, RequestsAreOwn, RequestIsOwn, MayOwn, Pruning

\* Nor are the records.
LEMMA RecordsStay ==
    ASSUME MemoryInv, UNCHANGED memories, Pruning' = Pruning
    PROVE  /\ memories' \subseteq TM!Memory /\ IsFiniteSet(memories')
           /\ OnePerContent' /\ RoomIsKept'
BY FewerRecords

LEMMA MemoryReindex ==
    ASSUME MemoryInv, TM!Reindex \/ TM!WriteMetadata
    PROVE  MemoryInv'
<1>1. UNCHANGED <<memories, exact, request, puts>>
  BY DEF TM!Reindex, TM!WriteMetadata
<1>2. /\ request' \in [Requests -> MemoryRequest] /\ RequestsAreOwn'
      /\ Pruning' = Pruning
  BY <1>1, RequestsStay
<1>3. /\ memories' \subseteq TM!Memory /\ IsFiniteSet(memories')
      /\ OnePerContent' /\ RoomIsKept'
  BY <1>1, <1>2, RecordsStay
<1>4. index' \in [revision : TM!Revisions, digest : TM!Revisions]
  <2>1. CASE TM!WriteMetadata
    BY <2>1 DEF MemoryInv, MemoryTypes, TM!WriteMetadata
  <2>2. CASE TM!Reindex
    <3>1. PICK digest \in {index.digest, index.revision + 1} :
            index' = [revision |-> index.revision + 1, digest |-> digest]
      BY <2>2 DEF TM!Reindex
    <3>2. index.revision \in 0 .. MaxRevision /\ index.digest \in 0 .. MaxRevision
      BY DEF MemoryInv, MemoryTypes, TM!Revisions
    <3>3. index.revision + 1 \in 0 .. MaxRevision
      BY <2>2, <3>2, MemoryAssumption DEF TM!Reindex
    <3>. QED  BY <3>1, <3>2, <3>3 DEF TM!Revisions
  <2>. QED  BY <2>1, <2>2
<1>5. revisionKept' \in TM!Revisions
  BY DEF MemoryInv, MemoryTypes, TM!Reindex, TM!WriteMetadata
<1>6. MemoryTypes'
  BY <1>1, <1>2, <1>3, <1>4, <1>5 DEF MemoryInv, MemoryTypes
<1>7. RecordsAreOwn'
  BY <1>1 DEF MemoryInv, RecordsAreOwn
<1>. QED  BY <1>2, <1>3, <1>6, <1>7 DEF MemoryInv

LEMMA MemoryExpire ==
    ASSUME MemoryInv, TM!Expire
    PROVE  MemoryInv'
<1>1. UNCHANGED <<index, revisionKept, request, puts>>
  BY DEF TM!Expire
<1>2. /\ request' \in [Requests -> MemoryRequest] /\ RequestsAreOwn'
      /\ Pruning' = Pruning
  BY <1>1, RequestsStay
<1>3. /\ memories \subseteq TM!Memory /\ exact \subseteq TM!Exact
      /\ RecordsAreOwn
  BY DEF MemoryInv, MemoryTypes
<1>4. CASE \E m \in TM!Fresh(memories) :
              /\ ~m.pinned
              /\ memories' = (memories \ {m}) \cup {[m EXCEPT !.overdue = TRUE]}
              /\ UNCHANGED <<index, revisionKept, exact, request, puts>>
  <2>1. PICK m \in TM!Fresh(memories) :
          /\ ~m.pinned
          /\ memories' = (memories \ {m}) \cup {[m EXCEPT !.overdue = TRUE]}
          /\ UNCHANGED exact
    BY <1>4
  <2>2. m \in memories /\ m \in TM!Memory
    BY <1>3, <2>1 DEF TM!Fresh
  <2>3. /\ [m EXCEPT !.overdue = TRUE] \in TM!Memory
        /\ [m EXCEPT !.overdue = TRUE].from = m.from
        /\ [m EXCEPT !.overdue = TRUE].owner = m.owner
    BY <2>2 DEF TM!Memory
  <2>4. /\ memories' \subseteq TM!Memory /\ IsFiniteSet(memories')
        /\ OnePerContent' /\ RoomIsKept'
    BY <1>2, <2>1, <2>2, <2>3, ExpiredRecord
  <2>5. RecordsAreOwn'
    BY <1>3, <2>1, <2>2, <2>3 DEF RecordsAreOwn
  <2>. QED  BY <1>1, <1>2, <2>1, <2>4, <2>5 DEF MemoryInv, MemoryTypes
<1>5. CASE \E e \in TM!Fresh(exact) :
              /\ exact' = (exact \ {e}) \cup {[e EXCEPT !.overdue = TRUE]}
              /\ UNCHANGED <<index, revisionKept, memories, request, puts>>
  <2>1. PICK e \in TM!Fresh(exact) :
          /\ exact' = (exact \ {e}) \cup {[e EXCEPT !.overdue = TRUE]}
          /\ UNCHANGED memories
    BY <1>5
  <2>2. e \in exact /\ e \in TM!Exact
    BY <1>3, <2>1 DEF TM!Fresh
  <2>3. /\ [e EXCEPT !.overdue = TRUE] \in TM!Exact
        /\ [e EXCEPT !.overdue = TRUE].from = e.from
        /\ [e EXCEPT !.overdue = TRUE].owner = e.owner
    BY <2>2 DEF TM!Exact
  <2>4. /\ memories' \subseteq TM!Memory /\ IsFiniteSet(memories')
        /\ OnePerContent' /\ RoomIsKept'
    BY <1>2, <2>1, RecordsStay
  <2>5. RecordsAreOwn' /\ exact' \subseteq TM!Exact
    BY <1>3, <2>1, <2>2, <2>3 DEF RecordsAreOwn
  <2>. QED  BY <1>1, <1>2, <2>1, <2>4, <2>5 DEF MemoryInv, MemoryTypes
<1>. QED  BY <1>4, <1>5 DEF TM!Expire

\* What a request is, while it goes on.
LEMMA RequestFacts ==
    ASSUME MemoryInv, NEW r \in Requests
    PROVE  /\ request[r] \in MemoryRequest /\ RequestIsOwn(request[r])
           /\ TM!Idle \in MemoryRequest /\ RequestIsOwn(TM!Idle) /\ TM!Idle.at = "idle"
<1>1. 0 \in TM!Revisions /\ TM!NoFile \in TM!Digests
  BY MemoryAssumption DEF TM!Revisions, TM!Digests
<1>. QED  BY <1>1 DEF MemoryInv, MemoryTypes, RequestsAreOwn, TM!Idle, MemoryRequest,
                      RequestIsOwn

LEMMA MemoryBegin ==
    ASSUME MemoryInv, NEW r \in Requests, NEW who \in TM!Principals, TM!Begin(r, who)
    PROVE  MemoryInv'
<1>1. PICK scope, cacheScope \in {"private", "team"} :
        TM!Becomes(r, [TM!Idle EXCEPT !.at = "index", !.who = who, !.revision = revisionKept,
                                      !.write = TM!Owner(who, scope),
                                      !.cache = TM!Owner(who, cacheScope), !.from = {who}])
  BY DEF TM!Begin
<1> DEFINE q == [TM!Idle EXCEPT !.at = "index", !.who = who, !.revision = revisionKept,
                                !.write = TM!Owner(who, scope),
                                !.cache = TM!Owner(who, cacheScope), !.from = {who}]
<1>2. /\ MayOwn(TM!Owner(who, scope), who) /\ TM!Owner(who, scope) \in TM!Owners
      /\ MayOwn(TM!Owner(who, cacheScope), who) /\ TM!Owner(who, cacheScope) \in TM!Owners
  BY DEF TM!Owner, MayOwn, TM!Owners
<1>3. TM!Idle \in MemoryRequest /\ revisionKept \in TM!Revisions
  BY RequestFacts DEF MemoryInv, MemoryTypes
<1>4. q \in MemoryRequest /\ RequestIsOwn(q)
  <2>1. PICK w \in TM!Owners, c \in TM!Owners :
          /\ w = TM!Owner(who, scope) /\ c = TM!Owner(who, cacheScope)
          /\ MayOwn(w, who) /\ MayOwn(c, who)
    BY <1>2
  <2>2. who \in TM!Principals \cup {Nobody} /\ {who} \subseteq TM!Principals
    OBVIOUS
  <2> DEFINE i == TM!Idle
             o == [i EXCEPT !.at = "index", !.who = who, !.revision = revisionKept,
                            !.write = w, !.cache = c, !.from = {who}]
  <2>3. q = o
    BY <2>1
  <2>. HIDE DEF i
  <2>4. i \in MemoryRequest
    BY <1>3 DEF i
  <2>5. /\ o \in MemoryRequest /\ o.at = "index" /\ o.who = who /\ o.from = {who}
        /\ o.write = w /\ o.cache = c
    BY <1>3, <2>1, <2>2, <2>4 DEF MemoryRequest
  <2>. QED  BY <2>1, <2>3, <2>5 DEF RequestIsOwn
<1> HIDE DEF q
<1>5. request[r].at # "prune" /\ q.at # "prune"
  BY <1>4 DEF TM!Begin, TM!At, q, RequestIsOwn, TM!Idle
<1>6. /\ request' \in [Requests -> MemoryRequest] /\ RequestsAreOwn'
      /\ Pruning' = Pruning
  BY <1>1, <1>4, <1>5, RequestMoves DEF q
<1>7. UNCHANGED <<index, revisionKept, memories, exact, puts>>
  BY DEF TM!Begin
<1>8. /\ memories' \subseteq TM!Memory /\ IsFiniteSet(memories')
      /\ OnePerContent' /\ RoomIsKept'
  BY <1>6, <1>7, RecordsStay
<1>. QED  BY <1>6, <1>7, <1>8 DEF MemoryInv, MemoryTypes, RecordsAreOwn

LEMMA MemoryReadIndex ==
    ASSUME MemoryInv, NEW r \in Requests, TM!ReadIndex(r)
    PROVE  MemoryInv'
<1>1. PICK hit \in BOOLEAN :
        TM!Becomes(r, [request[r] EXCEPT !.at = "search", !.hit = hit,
                                         !.digest = index.digest])
  BY DEF TM!ReadIndex
<1> DEFINE q == [request[r] EXCEPT !.at = "search", !.hit = hit, !.digest = index.digest]
<1>2. request[r] \in MemoryRequest /\ RequestIsOwn(request[r]) /\ request[r].at = "index"
  BY RequestFacts DEF TM!ReadIndex, TM!At
<1>3. index.digest \in TM!Digests
  BY DEF MemoryInv, MemoryTypes, TM!Digests
<1>4. q \in MemoryRequest /\ RequestIsOwn(q) /\ q.at = "search"
  BY <1>2, <1>3 DEF MemoryRequest, RequestIsOwn
<1> HIDE DEF q
<1>5. /\ request' \in [Requests -> MemoryRequest] /\ RequestsAreOwn'
      /\ Pruning' = Pruning
  BY <1>1, <1>2, <1>4, RequestMoves DEF q
<1>6. UNCHANGED <<index, revisionKept, memories, exact, puts>>
  BY DEF TM!ReadIndex
<1>7. /\ memories' \subseteq TM!Memory /\ IsFiniteSet(memories')
      /\ OnePerContent' /\ RoomIsKept'
  BY <1>5, <1>6, RecordsStay
<1>. QED  BY <1>5, <1>6, <1>7 DEF MemoryInv, MemoryTypes, RecordsAreOwn

\* What it finds is its principal's, or what administrators share.
LEMMA MemorySearch ==
    ASSUME MemoryInv, NEW r \in Requests, TM!Search(r)
    PROVE  MemoryInv'
<1>1. PICK got \in SUBSET {m \in memories' :
                /\ TM!Visible(m, request[r].who)
                /\ ~TM!IsStale(m, request[r].revision, request[r].digest)} :
        TM!Becomes(r, [request[r] EXCEPT !.at = "answer", !.got = {m.revision : m \in got},
                                         !.from = @ \cup UNION {m.from : m \in got}])
  BY DEF TM!Search
<1>2. /\ memories' = TM!Fresh(memories) /\ exact' = TM!Fresh(exact)
      /\ UNCHANGED <<index, revisionKept, puts>>
  BY DEF TM!Search
<1>3. memories' \subseteq memories /\ exact' \subseteq exact
  BY <1>2 DEF TM!Fresh
<1>4. /\ request[r] \in MemoryRequest /\ RequestIsOwn(request[r])
      /\ request[r].at = "search" /\ request[r].who \in TM!Principals
  BY RequestFacts DEF TM!Search, TM!At, RequestIsOwn
<1>5. memories \subseteq TM!Memory /\ RecordsAreOwn
  BY DEF MemoryInv, MemoryTypes
<1>6. \A m \in got : m.revision \in TM!Revisions /\ m.from \subseteq {request[r].who} \cup Admins
  <2> SUFFICES ASSUME NEW m \in got
               PROVE  m.revision \in TM!Revisions /\ m.from \subseteq {request[r].who} \cup Admins
    OBVIOUS
  <2>1. m \in memories /\ m \in TM!Memory /\ TM!Visible(m, request[r].who)
    BY <1>1, <1>3, <1>5
  <2>2. m.revision \in TM!Revisions /\ m.from \subseteq TM!Principals
    BY <2>1 DEF TM!Memory
  <2>3. m.from \subseteq {m.owner} \cup Admins /\ m.owner \in {request[r].who, Team}
    BY <1>5, <2>1 DEF RecordsAreOwn, TM!Visible
  <2>4. Team \notin TM!Principals
    BY MemoryAssumption DEF TM!Principals
  <2>. QED  BY <2>2, <2>3, <2>4
<1> DEFINE whose  == UNION {m.from : m \in got}
           marked == {m.revision : m \in got}
           q      == [request[r] EXCEPT !.at = "answer", !.got = marked, !.from = @ \cup whose]
<1>7. whose \subseteq {request[r].who} \cup Admins /\ marked \subseteq TM!Revisions
  BY <1>6
<1>8. {request[r].who} \cup Admins \subseteq TM!Principals
  BY <1>4 DEF TM!Principals
<1>. HIDE DEF whose, marked
<1>9. /\ q \in MemoryRequest /\ q.at = "answer" /\ q.from = request[r].from \cup whose
      /\ q.who = request[r].who /\ q.write = request[r].write /\ q.cache = request[r].cache
  BY <1>4, <1>7, <1>8 DEF MemoryRequest
<1>10. RequestIsOwn(q)
  BY <1>4, <1>7, <1>9 DEF RequestIsOwn
<1>11. TM!Becomes(r, q)
  BY <1>1 DEF whose, marked
<1>. HIDE DEF q
<1>12. /\ request' \in [Requests -> MemoryRequest] /\ RequestsAreOwn'
       /\ Pruning' = Pruning
  BY <1>4, <1>9, <1>10, <1>11, RequestMoves
<1>13. /\ memories' \subseteq TM!Memory /\ IsFiniteSet(memories')
       /\ OnePerContent' /\ RoomIsKept'
  BY <1>3, <1>12, FewerRecords
<1>14. RecordsAreOwn'
  BY <1>3, <1>5 DEF RecordsAreOwn
<1>. QED  BY <1>2, <1>3, <1>12, <1>13, <1>14 DEF MemoryInv, MemoryTypes

LEMMA MemoryTakeExact ==
    ASSUME MemoryInv, NEW r \in Requests, TM!TakeExact(r)
    PROVE  MemoryInv'
<1>1. exact' \subseteq exact /\ (UNCHANGED request \/ TM!Becomes(r, TM!Idle))
  BY DEF TM!TakeExact
<1>2. UNCHANGED <<index, revisionKept, memories, puts>> /\ request[r].at = "answer"
  BY DEF TM!TakeExact, TM!At
<1>3. /\ request' \in [Requests -> MemoryRequest] /\ RequestsAreOwn'
      /\ Pruning' = Pruning
  BY <1>1, <1>2, RequestsStay, RequestFacts, RequestMoves
<1>4. /\ memories' \subseteq TM!Memory /\ IsFiniteSet(memories')
      /\ OnePerContent' /\ RoomIsKept'
  BY <1>2, <1>3, RecordsStay
<1>. QED  BY <1>1, <1>2, <1>3, <1>4 DEF MemoryInv, MemoryTypes, RecordsAreOwn

\* What a request has learnt is its owner's to keep.
LEMMA MayKeep ==
    ASSUME NEW q \in MemoryRequest, RequestIsOwn(q), q.at # "idle"
    PROVE  /\ q.from \subseteq {q.write} \cup Admins /\ q.from \subseteq {q.cache} \cup Admins
           /\ q.write \in TM!Owners /\ q.cache \in TM!Owners /\ q.from \subseteq TM!Principals
           /\ q.revision \in TM!Revisions /\ q.digest \in TM!Digests
BY DEF RequestIsOwn, MayOwn, MemoryRequest

LEMMA MemoryRemember ==
    ASSUME MemoryInv, NEW r \in Requests, TM!Remember(r)
    PROVE  MemoryInv'
<1>1. /\ memories' = TM!Put(memories, TM!Exchange(r)) /\ puts' = puts + 1
      /\ TM!Becomes(r, [request[r] EXCEPT !.at = "prune"])
      /\ UNCHANGED <<index, revisionKept, exact>> /\ request[r].at = "answer"
  BY DEF TM!Remember, TM!At
<1>2. request[r] \in MemoryRequest /\ RequestIsOwn(request[r])
  BY RequestFacts
<1>3. /\ request[r].from \subseteq {request[r].write} \cup Admins
      /\ request[r].write \in TM!Owners /\ request[r].from \subseteq TM!Principals
      /\ request[r].revision \in TM!Revisions /\ request[r].digest \in TM!Digests
      /\ TM!NoFile \in TM!Digests
  BY <1>1, <1>2, MayKeep DEF TM!Digests
<1>4. /\ TM!Exchange(r) \in TM!Memory /\ ~TM!Exchange(r).pinned
      /\ TM!Exchange(r).from \subseteq {TM!Exchange(r).owner} \cup Admins
  BY <1>3 DEF TM!Exchange, TM!Memory
<1> DEFINE q == [request[r] EXCEPT !.at = "prune"]
<1>5. q \in MemoryRequest /\ RequestIsOwn(q) /\ q.at = "prune" /\ TM!Becomes(r, q)
  BY <1>1, <1>2 DEF MemoryRequest, RequestIsOwn
<1>. HIDE DEF q
<1>6. request' \in [Requests -> MemoryRequest] /\ RequestsAreOwn'
  BY <1>5, RequestMoves
<1>7. Pruning' = Pruning \cup {r} /\ r \notin Pruning
  BY <1>1, <1>5 DEF Pruning, TM!Becomes, MemoryInv, MemoryTypes
<1>8. /\ memories' \subseteq TM!Memory /\ IsFiniteSet(memories')
      /\ \A a, b \in memories' : TM!Same(b, a) => b = a
      /\ \A n \in memories' : n = TM!Exchange(r) \/ n \in memories
  BY <1>1, <1>4, PutIsOnePerContent
<1>9. OnePerContent'
  BY <1>8 DEF OnePerContent, TM!Same
<1>10. RoomIsKept'
  BY <1>1, <1>4, <1>7, OneMoreRecord
<1>11. RecordsAreOwn'
  BY <1>1, <1>4, <1>8 DEF RecordsAreOwn, MemoryInv
<1>12. puts' \in Nat
  BY <1>1 DEF MemoryInv, MemoryTypes
<1>. QED  BY <1>1, <1>6, <1>8, <1>9, <1>10, <1>11, <1>12 DEF MemoryInv, MemoryTypes

LEMMA MemoryPrune ==
    ASSUME MemoryInv, NEW r \in Requests, TM!Prune(r)
    PROVE  MemoryInv'
<1>1. /\ memories' \in TM!Pruned(TM!Fresh(memories)) /\ exact' \subseteq exact
      /\ UNCHANGED <<index, revisionKept, puts>> /\ request[r].at = "prune"
  BY DEF TM!Prune, TM!At, TM!Fresh
<1>2. \/ TM!Becomes(r, TM!Idle)
      \/ TM!Becomes(r, [request[r] EXCEPT !.at = "cache", !.got = {}, !.digest = TM!NoFile])
  BY DEF TM!Prune
<1>3. request[r] \in MemoryRequest /\ RequestIsOwn(request[r])
  BY RequestFacts
<1> DEFINE q == [request[r] EXCEPT !.at = "cache", !.got = {}, !.digest = TM!NoFile]
<1>4. q \in MemoryRequest /\ RequestIsOwn(q)
  BY <1>1, <1>3 DEF MemoryRequest, RequestIsOwn, TM!Digests
<1>. HIDE DEF q
<1>5. request' \in [Requests -> MemoryRequest] /\ RequestsAreOwn'
  BY <1>2, <1>4, RequestFacts, RequestMoves DEF q
<1>6. memories \subseteq TM!Memory /\ IsFiniteSet(memories) /\ OnePerContent
  BY DEF MemoryInv, MemoryTypes
<1>7. TM!Fresh(memories) \subseteq memories /\ IsFiniteSet(TM!Fresh(memories))
  <2>1. TM!Fresh(memories) \subseteq memories
    BY DEF TM!Fresh
  <2>. QED  BY <1>6, <2>1, FS_Subset
<1>8. \A m, n \in TM!Fresh(memories) : TM!Same(n, m) => n = m
  BY <1>6, <1>7 DEF OnePerContent
<1>9. /\ memories' \subseteq TM!Fresh(memories)
      /\ memories' \subseteq TM!Memory /\ IsFiniteSet(memories')
      /\ OnePerContent' /\ RoomIsKept'
  BY <1>1, <1>6, <1>7, <1>8, PrunedFits
<1>10. RecordsAreOwn' /\ exact' \subseteq TM!Exact
  BY <1>1, <1>7, <1>9 DEF RecordsAreOwn, MemoryInv, MemoryTypes
<1>. QED  BY <1>1, <1>5, <1>9, <1>10 DEF MemoryInv, MemoryTypes

LEMMA MemoryCacheExact ==
    ASSUME MemoryInv, NEW r \in Requests, TM!CacheExact(r)
    PROVE  MemoryInv'
<1>1. /\ TM!Becomes(r, TM!Idle) /\ UNCHANGED <<index, revisionKept, memories, puts>>
      /\ request[r].at = "cache"
  BY DEF TM!CacheExact, TM!At
<1>2. /\ request[r] \in MemoryRequest /\ RequestIsOwn(request[r])
      /\ TM!Idle \in MemoryRequest /\ RequestIsOwn(TM!Idle) /\ TM!Idle.at = "idle"
  BY RequestFacts
<1>3. /\ request' \in [Requests -> MemoryRequest] /\ RequestsAreOwn'
      /\ Pruning' = Pruning
  BY <1>1, <1>2, RequestMoves
<1>4. /\ memories' \subseteq TM!Memory /\ IsFiniteSet(memories')
      /\ OnePerContent' /\ RoomIsKept'
  BY <1>1, <1>3, RecordsStay
<1> DEFINE e == [owner |-> request[r].cache, revision |-> request[r].revision,
                 from |-> request[r].from, overdue |-> FALSE]
<1>5. e \in TM!Exact /\ e.from \subseteq {e.owner} \cup Admins
  BY <1>1, <1>2, MayKeep DEF TM!Exact
<1>6. exact' \subseteq exact \cup {e}
  BY DEF TM!CacheExact
<1>. HIDE DEF e
<1>7. RecordsAreOwn' /\ exact' \subseteq TM!Exact
  BY <1>1, <1>5, <1>6 DEF RecordsAreOwn, MemoryInv, MemoryTypes
<1>. QED  BY <1>1, <1>3, <1>4, <1>7 DEF MemoryInv, MemoryTypes

LEMMA MemoryPublish ==
    ASSUME MemoryInv, NEW who \in TM!Principals, TM!Publish(who)
    PROVE  MemoryInv'
<1>1. /\ puts' = puts + 1 /\ UNCHANGED <<index, revisionKept, exact, request>>
  BY DEF TM!Publish
<1>2. PICK owner \in {who} \cup (IF who \in Admins THEN {Team} ELSE {}),
           pinned \in BOOLEAN, digest \in {TM!NoFile, index.digest} :
        memories' \in TM!Pruned(TM!Fresh(TM!Put(memories,
             [owner |-> owner, revision |-> revisionKept, digest |-> digest,
              from |-> {who}, pinned |-> pinned, overdue |-> FALSE])))
  BY DEF TM!Publish
<1> DEFINE m == [owner |-> owner, revision |-> revisionKept, digest |-> digest,
                 from |-> {who}, pinned |-> pinned, overdue |-> FALSE]
<1>3. m \in TM!Memory
  BY <1>2 DEF TM!Memory, TM!Owners, TM!Digests, MemoryInv, MemoryTypes
<1>4. m.from \subseteq {m.owner} \cup Admins
  BY <1>2
<1>5. memories' \in TM!Pruned(TM!Fresh(TM!Put(memories, m)))
  BY <1>2
<1>. HIDE DEF m
<1> DEFINE all == TM!Put(memories, m)
<1>6. /\ all \subseteq TM!Memory /\ IsFiniteSet(all)
      /\ \A a, b \in all : TM!Same(b, a) => b = a
      /\ \A n \in all : n = m \/ n \in memories
  BY <1>3, PutIsOnePerContent
<1>. HIDE DEF all
<1>7. TM!Fresh(all) \subseteq all
  BY DEF TM!Fresh
<1>8. IsFiniteSet(TM!Fresh(all)) /\ TM!Fresh(all) \subseteq TM!Memory
  BY <1>6, <1>7, FS_Subset
<1>9. \A a, b \in TM!Fresh(all) : TM!Same(b, a) => b = a
  BY <1>6, <1>7
<1>10. memories' \in TM!Pruned(TM!Fresh(all))
  BY <1>5 DEF all
<1>11. /\ memories' \subseteq TM!Fresh(all)
       /\ memories' \subseteq TM!Memory /\ IsFiniteSet(memories')
       /\ OnePerContent' /\ RoomIsKept'
  BY <1>8, <1>9, <1>10, PrunedFits
<1>12. request' \in [Requests -> MemoryRequest] /\ RequestsAreOwn'
  BY <1>1, RequestsStay
<1>13. RecordsAreOwn'
  BY <1>1, <1>4, <1>6, <1>7, <1>11 DEF RecordsAreOwn, MemoryInv
<1>14. puts' \in Nat
  BY <1>1 DEF MemoryInv, MemoryTypes
<1>. QED  BY <1>1, <1>11, <1>12, <1>13, <1>14 DEF MemoryInv, MemoryTypes

LEMMA MemoryDelete ==
    ASSUME MemoryInv, NEW who \in TM!Principals, TM!Delete(who)
    PROVE  MemoryInv'
<1>1. memories' \subseteq memories /\ UNCHANGED <<index, revisionKept, exact, request, puts>>
  BY DEF TM!Delete
<1>2. /\ request' \in [Requests -> MemoryRequest] /\ RequestsAreOwn'
      /\ Pruning' = Pruning
  BY <1>1, RequestsStay
<1>3. /\ memories' \subseteq TM!Memory /\ IsFiniteSet(memories')
      /\ OnePerContent' /\ RoomIsKept'
  BY <1>1, <1>2, FewerRecords
<1>. QED  BY <1>1, <1>2, <1>3 DEF MemoryInv, MemoryTypes, RecordsAreOwn

\* Nothing of the memory changes.
LEMMA MemoryRests ==
    ASSUME MemoryInv, UNCHANGED memoryVars
    PROVE  MemoryInv'
<1>1. UNCHANGED <<index, revisionKept, memories, exact, request, puts>>
  BY DEF memoryVars
<1>2. /\ request' \in [Requests -> MemoryRequest] /\ RequestsAreOwn'
      /\ Pruning' = Pruning
  BY <1>1, RequestsStay
<1>3. /\ memories' \subseteq TM!Memory /\ IsFiniteSet(memories')
      /\ OnePerContent' /\ RoomIsKept'
  BY <1>1, <1>2, RecordsStay
<1>. QED  BY <1>1, <1>2, <1>3 DEF MemoryInv, MemoryTypes, RecordsAreOwn

LEMMA MemoryStep == MemoryInv /\ [Next]_vars => MemoryInv'
<1> SUFFICES ASSUME MemoryInv, [Next]_vars
             PROVE  MemoryInv'
  OBVIOUS
<1>1. CASE TM!Next
  <2>1. CASE TM!Done
    BY <2>1, MemoryRests DEF TM!Done, TM!mvars, memoryVars
  <2>2. CASE \E r \in Requests : \E who \in TM!Principals : TM!Begin(r, who)
    BY <2>2, MemoryBegin
  <2>3. CASE \E who \in TM!Principals : TM!Publish(who) \/ TM!Delete(who)
    BY <2>3, MemoryPublish, MemoryDelete
  <2>. QED  BY <1>1, <2>1, <2>2, <2>3, MemoryReindex, MemoryExpire, MemoryReadIndex,
               MemorySearch, MemoryTakeExact, MemoryRemember, MemoryPrune,
               MemoryCacheExact DEF TM!Next
<1>2. CASE UNCHANGED memoryVars
  BY <1>2, MemoryRests
<1>. QED  BY <1>1, <1>2 DEF Next, vars

\* Neither knowledge nor cached answers cross from one principal to another, and the
\* store is never over its limit by more than what is still to be pruned or is pinned
\* (TeamMemoryStore.search, get_exact, put, prune).
THEOREM StoresMemoryStaysPrivate == Spec => []MemoryStaysPrivate
<1>1. MemoryInv => MemoryStaysPrivate
  BY MemoryHolds DEF MemoryStaysPrivate
<1>2. Init => MemoryInv
  BY MemoryInit
<1>3. MemoryInv /\ [Next]_vars => MemoryInv'
  BY MemoryStep
<1>. QED  BY <1>1, <1>2, <1>3, PTL DEF Spec

-----------------------------------------------------------------------------
(* Connectors and reusable instructions (Extensions).                      *)

Hit == [name : ExtensionNames, id : Ids, tool : Tools]

WriteJob ==
    [at : {"writing", "written"}, table : {"servers", "skills"}, id : Ids \cup SkillIds,
     gone : BOOLEAN, row : XT!Row \cup XT!Skill]
UseJob == [at : {"listing", "calling"}, id : Ids, gone : BOOLEAN, row : XT!Row]
SearchJob ==
    [at : {"searching", "asking", "found"}, id : Ids \cup {Nothing}, gone : BOOLEAN,
     words : BOOLEAN, limit : FoundLimits, left : Seq(Ids), rows : Seq(Hit), row : XT!Row,
     first : SUBSET Ids, asked : SUBSET Ids, answers : SUBSET Hit]
EndJob ==
    [at : {"answered"},
     outcome : {"taken", "saved", "lost", "missing", "disabled", "ready", "error"},
     was : {"writing", "written", "listing", "calling", "searching"}, gone : BOOLEAN]

JobShape(j) ==
    \/ j = XT!Idle \/ j \in WriteJob \/ j \in UseJob \/ j \in SearchJob \/ j \in EndJob
    \/ \E s : j = [at |-> "prompted", sections |-> s]

\* What a configuration is about to write is of its table, and has secrets given for it;
\* what it has written is there unless it was deleted.
WriteOK(j, there, instructions, secrets) ==
    /\ j.table = "servers" =>
          /\ j.id \in Ids /\ j.row \in XT!Row /\ j.row.secret \in secrets[j.id] \cup {Nothing}
    /\ j.table = "skills" => j.id \in SkillIds /\ j.row \in XT!Skill
    /\ j.at = "written" /\ ~j.gone =>
          j.id \in IF j.table = "servers" THEN there ELSE instructions

\* The rows of a search are what was answered and matches, each once.
HitsOK(j) ==
    /\ \A k, m \in 1 .. Len(j.rows) : j.rows[k] = j.rows[m] => k = m
    /\ \A k \in 1 .. Len(j.rows) :
          j.rows[k] \in j.answers /\ XT!Matches(j.words, j.rows[k].tool)
    /\ \A a \in j.answers :
          XT!Matches(j.words, a.tool) => \E k \in 1 .. Len(j.rows) : j.rows[k] = a

\* A search has asked what it has not left to ask, and nothing twice.
SearchOK(j, there) ==
    /\ \A k, m \in 1 .. Len(j.left) : j.left[k] = j.left[m] => k = m
    /\ ~j.gone => \A k \in 1 .. Len(j.left) : j.left[k] \in there
    /\ j.first = j.asked \cup {j.left[k] : k \in 1 .. Len(j.left)}
    /\ HitsOK(j)
    /\ IF j.at = "searching"
       THEN /\ \A k \in 1 .. Len(j.left) : j.left[k] \notin j.asked
            /\ \A a \in j.answers : a.id \in j.asked
       ELSE /\ Len(j.left) > 0 /\ j.id = j.left[1] /\ j.id \in j.asked
            /\ \A k \in 2 .. Len(j.left) : j.left[k] \notin j.asked
            /\ \A a \in j.answers : a.id \in j.asked \ {j.id}

BestOnes(answers, words, limit, best) ==
    LET matches == {a \in answers : XT!Matches(words, a.tool)}
    IN  /\ best \subseteq matches
        /\ best # matches => XT!Cardinality(best) = XT!Limit(limit)
        /\ \A a \in best, b \in matches \ best : ~XT!Before(words, b, a)

FoundOK(j) ==
    j.asked = j.first /\ BestOnes(j.answers, j.words, j.limit, XT!Range(j.rows))

JobOK(j, there, instructions, secrets) ==
    /\ JobShape(j)
    /\ j.at \in {"writing", "written"} => WriteOK(j, there, instructions, secrets)
    /\ j.at \in {"searching", "asking"} => SearchOK(j, there)
    /\ j.at = "found" => FoundOK(j)
    /\ j.at = "answered" => (j.outcome = "lost" => j.gone) /\ (j.was = "searching" => j.gone)

TablesOK ==
    /\ servers = [i \in DOMAIN servers |-> servers[i]]
    /\ skills = [i \in DOMAIN skills |-> skills[i]]
    /\ job = [h \in Handlers |-> job[h]]
    /\ XT!TypeOK /\ XT!SecretsStayWithTheirConnector

ExtensionsInv ==
    /\ TablesOK
    /\ \A h \in Handlers : JobOK(job[h], DOMAIN servers, DOMAIN skills, given)

-----------------------------------------------------------------------------
(* What stays.                                                             *)

LEMMA ExtensionCardinality == \A S : XT!Cardinality(S) = Cardinality(S)
BY DEF XT!Cardinality, Cardinality

\* Which kind of job is done at a time.
LEMMA JobKinds ==
    ASSUME NEW j, JobShape(j)
    PROVE  /\ j.at \in {"searching", "asking"} => j \in SearchJob
           /\ j.at \in {"listing", "calling"} => j \in UseJob
BY DEF JobShape, XT!Idle, WriteJob, UseJob, SearchJob, EndJob

\* A job is right while tables only grow and more secrets are given.
LEMMA JobStays ==
    ASSUME NEW j, NEW S, NEW S1, NEW T, NEW T1, NEW G, NEW G1, JobOK(j, S, T, G),
           S \subseteq S1, T \subseteq T1, \A i \in Ids : G[i] \subseteq G1[i]
    PROVE  JobOK(j, S1, T1, G1)
<1>1. j.at \in {"writing", "written"} => WriteOK(j, S1, T1, G1)
  BY DEF JobOK, WriteOK
<1>2. j.at \in {"searching", "asking"} => SearchOK(j, S1)
  BY DEF JobOK, SearchOK
<1>. QED  BY <1>1, <1>2 DEF JobOK

\* A handler that does something alone leaves the jobs of the others right.
LEMMA JobsStay ==
    ASSUME ExtensionsInv, NEW h \in Handlers, NEW new, job' = [job EXCEPT ![h] = new],
           DOMAIN servers \subseteq DOMAIN servers', DOMAIN skills \subseteq DOMAIN skills',
           \A i \in Ids : given[i] \subseteq given'[i],
           JobOK(new, DOMAIN servers', DOMAIN skills', given')
    PROVE  /\ \A k \in Handlers : JobOK(job'[k], DOMAIN servers', DOMAIN skills', given')
           /\ job' = [k \in Handlers |-> job'[k]]
<1>1. job = [k \in Handlers |-> job[k]]
  BY DEF ExtensionsInv, TablesOK
<1>2. job' = [k \in Handlers |-> IF k = h THEN new ELSE job[k]]
  BY <1>1
<1>3. ASSUME NEW k \in Handlers
      PROVE  JobOK(job'[k], DOMAIN servers', DOMAIN skills', given')
  <2>1. CASE k = h
    BY <1>2, <2>1
  <2>2. CASE k # h
    <3>1. JobOK(job[k], DOMAIN servers, DOMAIN skills, given)
      BY DEF ExtensionsInv
    <3>2. JobOK(job[k], DOMAIN servers', DOMAIN skills', given')
      BY <3>1, JobStays
    <3>3. job'[k] = job[k]
      BY <1>2, <2>2
    <3>. QED  BY <3>2, <3>3
  <2>. QED  BY <2>1, <2>2
<1>. QED  BY <1>2, <1>3

\* What is left alone stays right.
LEMMA TablesStay ==
    ASSUME TablesOK, UNCHANGED <<servers, skills>>,
           requests' \in 0 .. MaxCalls, given' \in [Ids -> SUBSET Secrets],
           \A i \in Ids : given[i] \subseteq given'[i],
           job' = [k \in Handlers |-> job'[k]]
    PROVE  TablesOK'
<1>1. XT!TypeOK'
  BY DEF TablesOK, XT!TypeOK
<1>2. XT!SecretsStayWithTheirConnector'
  BY DEF TablesOK, XT!TypeOK, XT!SecretsStayWithTheirConnector
<1>. QED  BY <1>1, <1>2 DEF TablesOK

LEMMA ExtensionsStarts ==
    ASSUME ExtensionsInv, NEW h \in Handlers, NEW new, XT!Starts(h, new),
           UNCHANGED <<servers, skills>>, given' \in [Ids -> SUBSET Secrets],
           \A i \in Ids : given[i] \subseteq given'[i],
           JobOK(new, DOMAIN servers', DOMAIN skills', given')
    PROVE  ExtensionsInv'
<1>1. /\ job' = [job EXCEPT ![h] = new] /\ requests < MaxCalls /\ requests' = requests + 1
  BY DEF XT!Starts
<1>2. requests' \in 0 .. MaxCalls
  BY <1>1, ExtensionAssumption DEF ExtensionsInv, TablesOK, XT!TypeOK
<1>3. DOMAIN servers \subseteq DOMAIN servers' /\ DOMAIN skills \subseteq DOMAIN skills'
  OBVIOUS
<1>4. /\ \A k \in Handlers : JobOK(job'[k], DOMAIN servers', DOMAIN skills', given')
      /\ job' = [k \in Handlers |-> job'[k]]
  BY <1>1, <1>3, JobsStay
<1>5. TablesOK'
  BY <1>2, <1>4, TablesStay DEF ExtensionsInv
<1>. QED  BY <1>4, <1>5 DEF ExtensionsInv

\* A step of one handler that leaves the tables alone.
LEMMA ExtensionsGoes ==
    ASSUME ExtensionsInv, NEW h \in Handlers, NEW new, XT!Goes(h, new),
           UNCHANGED <<servers, skills, requests, given>>,
           JobOK(new, DOMAIN servers, DOMAIN skills, given)
    PROVE  ExtensionsInv'
<1>1. job' = [job EXCEPT ![h] = new]
  BY DEF XT!Goes
<1>2. /\ requests' \in 0 .. MaxCalls /\ given' \in [Ids -> SUBSET Secrets]
      /\ \A i \in Ids : given[i] \subseteq given'[i]
      /\ DOMAIN servers \subseteq DOMAIN servers' /\ DOMAIN skills \subseteq DOMAIN skills'
      /\ JobOK(new, DOMAIN servers', DOMAIN skills', given')
  BY DEF ExtensionsInv, TablesOK, XT!TypeOK
<1>3. /\ \A k \in Handlers : JobOK(job'[k], DOMAIN servers', DOMAIN skills', given')
      /\ job' = [k \in Handlers |-> job'[k]]
  BY <1>1, <1>2, JobsStay
<1>4. TablesOK'
  BY <1>2, <1>3, TablesStay DEF ExtensionsInv
<1>. QED  BY <1>3, <1>4 DEF ExtensionsInv

-----------------------------------------------------------------------------
(* The beginning and configuration.                                        *)

LEMMA FreshRow == XT!Fresh \in XT!Row /\ XT!Fresh.secret = Nothing
<1>1. (CHOOSE n \in ExtensionNames : TRUE) \in ExtensionNames
  BY ExtensionAssumption
<1>2. 0 \in 0 .. XT!Cardinality(Tools)
  BY ExtensionAssumption, FS_CardinalityType, ExtensionCardinality
<1>. QED  BY <1>1, <1>2 DEF XT!Fresh, XT!Row

LEMMA ExtensionsInit == Init => ExtensionsInv
<1>. SUFFICES ASSUME Init PROVE ExtensionsInv
  OBVIOUS
<1>1. XT!Init
  BY DEF Init
<1>. DEFINE name == CHOOSE f \in [Ids -> ExtensionNames] : XT!IsInjective(f)
<1>2. PICK before \in SUBSET Ids, secret \in [Ids -> Secrets \cup {Nothing}] :
        /\ servers = [i \in before |->
                        [XT!Fresh EXCEPT !.name = name[i], !.secret = secret[i]]]
        /\ given = [i \in Ids |-> IF i \in before THEN {secret[i]} \ {Nothing} ELSE {}]
  BY <1>1, Zenon DEF XT!Init
<1>3. name \in [Ids -> ExtensionNames] /\ \A i, k \in Ids : name[i] = name[k] => i = k
  <2>1. \E f \in [Ids -> ExtensionNames] : XT!IsInjective(f)
    BY ExtensionAssumption DEF XT!IsInjective
  <2>2. name \in [Ids -> ExtensionNames] /\ XT!IsInjective(name)
    BY <2>1
  <2>. QED  BY <2>2 DEF XT!IsInjective
<1>. HIDE DEF name
<1>5. skills = <<>> /\ job = [h \in Handlers |-> XT!Idle] /\ requests = 0
  BY <1>1 DEF XT!Init
<1>6. DOMAIN skills = {}
  BY <1>5
<1>7. /\ servers = [i \in DOMAIN servers |-> servers[i]] /\ DOMAIN servers = before
      /\ skills = [i \in DOMAIN skills |-> skills[i]]
      /\ job = [h \in Handlers |-> job[h]]
  <2>1. DOMAIN servers = before
    BY <1>2
  <2>2. servers = [i \in DOMAIN servers |-> servers[i]]
    BY <1>2, <2>1
  <2>3. skills = [i \in DOMAIN skills |-> skills[i]]
    BY <1>5, <1>6
  <2>4. job = [h \in Handlers |-> job[h]]
    BY <1>5
  <2>. QED  BY <2>1, <2>2, <2>3, <2>4
<1>8. ASSUME NEW i \in before
      PROVE  /\ servers[i] \in XT!Row /\ servers[i].name = name[i]
             /\ servers[i].secret = secret[i]
  <2>1. PICK r, n, s : r = XT!Fresh /\ n = name[i] /\ s = secret[i]
    OBVIOUS
  <2>2. r \in XT!Row /\ n \in ExtensionNames /\ s \in Secrets \cup {Nothing}
    BY <1>3, <1>2, <2>1, FreshRow
  <2>3. servers[i] = [r EXCEPT !.name = n, !.secret = s]
    BY <1>2, <2>1
  <2>. QED  BY <2>1, <2>2, <2>3 DEF XT!Row
<1>9. given \in [Ids -> SUBSET Secrets] /\ \A i \in before : secret[i] \in given[i] \cup {Nothing}
  BY <1>2
<1>10. XT!TypeOK
  <2>1. requests \in 0 .. MaxCalls
    BY <1>5, ExtensionAssumption
  <2>. QED  BY <1>6, <1>7, <1>8, <1>9, <2>1 DEF XT!TypeOK
<1>11. XT!SecretsStayWithTheirConnector
  BY <1>3, <1>7, <1>8, <1>9 DEF XT!SecretsStayWithTheirConnector
<1>12. ASSUME NEW h \in Handlers
       PROVE  JobOK(job[h], DOMAIN servers, DOMAIN skills, given)
  <2>1. job[h] = XT!Idle /\ job[h].at = "idle"
    BY <1>5 DEF XT!Idle
  <2>. QED  BY <2>1 DEF JobOK, JobShape
<1>. QED  BY <1>7, <1>10, <1>11, <1>12 DEF ExtensionsInv, TablesOK

LEMMA ExtensionsConfigureServer ==
    ASSUME ExtensionsInv, NEW h \in Handlers, XT!ConfigureServer(h)
    PROVE  ExtensionsInv'
<1>1. PICK i \in Ids, name \in ExtensionNames, on, same \in BOOLEAN,
           secret \in Secrets \cup {Nothing} :
        /\ XT!Starts(h, [at |-> "writing", table |-> "servers", id |-> i, gone |-> FALSE,
                         row |-> [XT!Existing(i) EXCEPT !.name = name, !.enabled = on,
                                    !.secret = IF same THEN @ ELSE secret]])
        /\ given' = [given EXCEPT ![i] = @ \cup ({secret} \ {Nothing})]
        /\ UNCHANGED <<servers, skills>>
  BY DEF XT!ConfigureServer
<1>2. /\ given \in [Ids -> SUBSET Secrets]
      /\ \A k \in DOMAIN servers :
           servers[k] \in XT!Row /\ servers[k].secret \in given[k] \cup {Nothing}
  BY DEF ExtensionsInv, TablesOK, XT!TypeOK, XT!SecretsStayWithTheirConnector
<1>3. /\ given' \in [Ids -> SUBSET Secrets] /\ \A k \in Ids : given[k] \subseteq given'[k]
      /\ secret \in given'[i] \cup {Nothing}
  BY <1>1, <1>2
<1>4. PICK had, row : /\ had = XT!Existing(i)
                       /\ row = [had EXCEPT !.name = name, !.enabled = on,
                                   !.secret = IF same THEN @ ELSE secret]
  OBVIOUS
<1>5. had \in XT!Row /\ had.secret \in given'[i] \cup {Nothing}
  BY <1>2, <1>3, <1>4, FreshRow DEF XT!Existing
<1>6. /\ row \in XT!Row /\ row.secret \in {had.secret, secret}
  BY <1>4, <1>5 DEF XT!Row
<1>7. PICK new : new = [at |-> "writing", table |-> "servers", id |-> i, gone |-> FALSE,
                        row |-> row]
  OBVIOUS
<1>8. new \in WriteJob /\ new.at = "writing" /\ new.table = "servers" /\ new.id = i
      /\ new.row = row
  BY <1>6, <1>7 DEF WriteJob
<1>9. WriteOK(new, DOMAIN servers', DOMAIN skills', given')
  BY <1>3, <1>5, <1>6, <1>8 DEF WriteOK
<1>10. JobOK(new, DOMAIN servers', DOMAIN skills', given')
  BY <1>8, <1>9 DEF JobOK, JobShape
<1>11. XT!Starts(h, new) /\ UNCHANGED <<servers, skills>>
  BY <1>1, <1>4, <1>7
<1>. QED  BY <1>3, <1>10, <1>11, ExtensionsStarts

LEMMA ExtensionsConfigureSkill ==
    ASSUME ExtensionsInv, NEW h \in Handlers, XT!ConfigureSkill(h)
    PROVE  ExtensionsInv'
<1>1. PICK i \in SkillIds, name \in ExtensionNames, on \in BOOLEAN :
        XT!Starts(h, [at |-> "writing", table |-> "skills", id |-> i, gone |-> FALSE,
                      row |-> [name |-> name, enabled |-> on]])
  BY DEF XT!ConfigureSkill
<1>2. UNCHANGED <<servers, skills, given>>
  BY DEF XT!ConfigureSkill
<1>3. PICK new : new = [at |-> "writing", table |-> "skills", id |-> i, gone |-> FALSE,
                        row |-> [name |-> name, enabled |-> on]]
  OBVIOUS
<1>4. [name |-> name, enabled |-> on] \in XT!Skill
  BY DEF XT!Skill
<1>5. new \in WriteJob /\ new.at = "writing" /\ new.table = "skills" /\ new.id = i
      /\ new.row \in XT!Skill
  BY <1>3, <1>4 DEF WriteJob
<1>6. WriteOK(new, DOMAIN servers', DOMAIN skills', given')
  BY <1>5 DEF WriteOK
<1>7. JobOK(new, DOMAIN servers', DOMAIN skills', given')
  BY <1>5, <1>6 DEF JobOK, JobShape
<1>8. XT!Starts(h, new) /\ given' \in [Ids -> SUBSET Secrets]
      /\ \A k \in Ids : given[k] \subseteq given'[k]
  BY <1>1, <1>2, <1>3 DEF ExtensionsInv, TablesOK, XT!TypeOK
<1>. QED  BY <1>2, <1>7, <1>8, ExtensionsStarts

\* An upsert leaves a row of its table with the secrets of the one or the other.
LEMMA ExtensionsWrite ==
    ASSUME ExtensionsInv, NEW h \in Handlers, XT!Write(h)
    PROVE  ExtensionsInv'
<1>1. PICK j : j = job[h]
  OBVIOUS
<1>2. j.at = "writing" /\ UNCHANGED <<requests, given>>
  BY <1>1 DEF XT!Write
<1>3. JobOK(j, DOMAIN servers, DOMAIN skills, given)
  BY <1>1 DEF ExtensionsInv
<1>4. j \in WriteJob /\ WriteOK(j, DOMAIN servers, DOMAIN skills, given)
  BY <1>2, <1>3 DEF JobOK, JobShape, XT!Idle, UseJob, SearchJob, EndJob
<1>5. CASE /\ XT!Goes(h, XT!Done("taken", j)) /\ UNCHANGED <<servers, skills>>
  <2>1. PICK new : new = XT!Done("taken", j)
    OBVIOUS
  <2>2. /\ new \in EndJob /\ new.at = "answered" /\ new.outcome = "taken"
        /\ new.was = "writing"
    BY <1>2, <1>4, <2>1 DEF XT!Done, EndJob, WriteJob
  <2>3. JobOK(new, DOMAIN servers, DOMAIN skills, given)
    BY <2>2 DEF JobOK, JobShape
  <2>. QED  BY <1>2, <1>5, <2>1, <2>3, ExtensionsGoes
<1>6. CASE /\ ~XT!Taken(IF j.table = "servers" THEN servers ELSE skills, j.id, j.row.name)
           /\ XT!Goes(h, [j EXCEPT !.at = "written"])
           /\ IF j.table = "servers"
              THEN servers' = XT!Put(servers, j.id, XT!Upserted(j.id, j.row)) /\ UNCHANGED skills
              ELSE skills' = XT!Put(skills, j.id, j.row) /\ UNCHANGED servers
  <2>1. PICK new : new = [j EXCEPT !.at = "written"]
    OBVIOUS
  <2>2. /\ new \in WriteJob /\ new.at = "written" /\ new.table = j.table /\ new.id = j.id
        /\ new.row = j.row /\ new.gone = j.gone
    BY <1>4, <2>1 DEF WriteJob
  <2>3. job' = [job EXCEPT ![h] = new]
    BY <1>6, <2>1 DEF XT!Goes
  <2>4. \A k \in Ids : given[k] \subseteq given'[k]
    BY <1>2
  <2>5. CASE j.table = "servers"
    <3>1. PICK i, row : i = j.id /\ row = XT!Upserted(i, j.row)
      OBVIOUS
    <3>2. /\ i \in Ids /\ j.row \in XT!Row /\ j.row.secret \in given[i] \cup {Nothing}
      BY <1>4, <2>5, <3>1 DEF WriteOK
    <3>3. row \in XT!Row /\ row.name = j.row.name /\ row.secret = j.row.secret
      <4>1. CASE i \in DOMAIN servers
        <5>1. PICK had : had = servers[i]
          OBVIOUS
        <5>2. had \in XT!Row
          BY <4>1, <5>1 DEF ExtensionsInv, TablesOK, XT!TypeOK
        <5>3. row = [had EXCEPT !.name = j.row.name, !.secret = j.row.secret,
                                !.enabled = j.row.enabled]
          BY <3>1, <4>1, <5>1 DEF XT!Upserted
        <5>. QED  BY <3>2, <5>2, <5>3 DEF XT!Row
      <4>2. CASE i \notin DOMAIN servers
        BY <3>1, <3>2, <4>2 DEF XT!Upserted
      <4>. QED  BY <4>1, <4>2
    <3>4. /\ servers' = [k \in DOMAIN servers \cup {i} |-> IF k = i THEN row ELSE servers[k]]
          /\ UNCHANGED skills
      BY <1>6, <2>5, <3>1 DEF XT!Put
    <3>5. /\ DOMAIN servers' = DOMAIN servers \cup {i} /\ servers'[i] = row
          /\ \A k \in DOMAIN servers : k # i => servers'[k] = servers[k]
          /\ servers' = [k \in DOMAIN servers' |-> servers'[k]]
      BY <3>4
    <3>6. \A k \in DOMAIN servers \ {i} : servers[k].name # j.row.name
      BY <1>6, <2>5, <3>1 DEF XT!Taken
    <3>7. XT!TypeOK'
      BY <1>2, <3>2, <3>3, <3>4, <3>5 DEF ExtensionsInv, TablesOK, XT!TypeOK
    <3>8. XT!SecretsStayWithTheirConnector'
      <4>1. ASSUME NEW k \in DOMAIN servers'
            PROVE  servers'[k].secret \in given'[k] \cup {Nothing}
        BY <1>2, <3>2, <3>3, <3>5
        DEF ExtensionsInv, TablesOK, XT!SecretsStayWithTheirConnector
      <4>2. ASSUME NEW k \in DOMAIN servers', NEW m \in DOMAIN servers' \ {k}
            PROVE  servers'[m].name # servers'[k].name
        <5>1. CASE k # i /\ m # i
          BY <3>5, <5>1 DEF ExtensionsInv, TablesOK, XT!SecretsStayWithTheirConnector
        <5>2. CASE k = i
          BY <3>3, <3>5, <3>6, <5>2
        <5>3. CASE m = i
          BY <3>3, <3>5, <3>6, <5>3
        <5>. QED  BY <5>1, <5>2, <5>3
      <4>. QED  BY <4>1, <4>2 DEF XT!SecretsStayWithTheirConnector
    <3>9. WriteOK(new, DOMAIN servers', DOMAIN skills', given')
      BY <1>2, <2>2, <2>5, <3>1, <3>2, <3>5 DEF WriteOK
    <3>10. JobOK(new, DOMAIN servers', DOMAIN skills', given')
      BY <2>2, <3>9 DEF JobOK, JobShape
    <3>11. /\ \A k \in Handlers : JobOK(job'[k], DOMAIN servers', DOMAIN skills', given')
           /\ job' = [k \in Handlers |-> job'[k]]
      BY <2>3, <2>4, <3>4, <3>5, <3>10, JobsStay
    <3>12. TablesOK'
      BY <3>4, <3>5, <3>7, <3>8, <3>11 DEF ExtensionsInv, TablesOK
    <3>. QED  BY <3>11, <3>12 DEF ExtensionsInv
  <2>6. CASE j.table = "skills"
    <3>1. PICK i : i = j.id
      OBVIOUS
    <3>2. i \in SkillIds /\ j.row \in XT!Skill
      BY <1>4, <2>6, <3>1 DEF WriteOK
    <3>3. /\ skills' = [k \in DOMAIN skills \cup {i} |-> IF k = i THEN j.row ELSE skills[k]]
          /\ UNCHANGED servers
      BY <1>6, <2>6, <3>1 DEF XT!Put
    <3>4. /\ DOMAIN skills' = DOMAIN skills \cup {i} /\ skills'[i] = j.row
          /\ \A k \in DOMAIN skills : k # i => skills'[k] = skills[k]
          /\ skills' = [k \in DOMAIN skills' |-> skills'[k]]
      BY <3>3
    <3>5. XT!TypeOK'
      BY <1>2, <3>2, <3>3, <3>4 DEF ExtensionsInv, TablesOK, XT!TypeOK
    <3>6. XT!SecretsStayWithTheirConnector'
      BY <1>2, <3>3 DEF ExtensionsInv, TablesOK, XT!SecretsStayWithTheirConnector
    <3>7. WriteOK(new, DOMAIN servers', DOMAIN skills', given')
      BY <2>2, <2>6, <3>1, <3>2, <3>4 DEF WriteOK
    <3>8. JobOK(new, DOMAIN servers', DOMAIN skills', given')
      BY <2>2, <3>7 DEF JobOK, JobShape
    <3>9. /\ \A k \in Handlers : JobOK(job'[k], DOMAIN servers', DOMAIN skills', given')
          /\ job' = [k \in Handlers |-> job'[k]]
      BY <2>3, <2>4, <3>3, <3>4, <3>8, JobsStay
    <3>10. TablesOK'
      BY <3>3, <3>4, <3>5, <3>6, <3>9 DEF ExtensionsInv, TablesOK
    <3>. QED  BY <3>9, <3>10 DEF ExtensionsInv
  <2>. QED  BY <1>4, <2>5, <2>6 DEF WriteJob
<1>. QED  BY <1>1, <1>5, <1>6 DEF XT!Write

LEMMA ExtensionsReadBack ==
    ASSUME ExtensionsInv, NEW h \in Handlers, XT!ReadBack(h)
    PROVE  ExtensionsInv'
<1>1. PICK j : j = job[h]
  OBVIOUS
<1>2. PICK outcome : outcome = IF j.id \in DOMAIN (IF j.table = "servers" THEN servers ELSE skills)
                               THEN "saved" ELSE "lost"
  OBVIOUS
<1>3. /\ j.at = "written" /\ UNCHANGED <<servers, skills, requests, given>>
      /\ XT!Goes(h, XT!Done(outcome, j))
  BY <1>1, <1>2 DEF XT!ReadBack
<1>4. JobOK(j, DOMAIN servers, DOMAIN skills, given)
  BY <1>1 DEF ExtensionsInv
<1>5. j \in WriteJob /\ WriteOK(j, DOMAIN servers, DOMAIN skills, given)
  BY <1>3, <1>4 DEF JobOK, JobShape, XT!Idle, UseJob, SearchJob, EndJob
<1>6. outcome \in {"saved", "lost"} /\ (outcome = "lost" => j.gone)
  BY <1>2, <1>3, <1>5 DEF WriteOK, WriteJob
<1>7. PICK new : new = XT!Done(outcome, j)
  OBVIOUS
<1>8. PICK was \in {"writing", "written"} : was = j.at
  BY <1>3
<1>9. new = [at |-> "answered", outcome |-> outcome, was |-> was, gone |-> j.gone]
  BY <1>7, <1>8 DEF XT!Done
<1>10. new \in EndJob /\ new.at = "answered" /\ new.outcome = outcome /\ new.gone = j.gone
       /\ new.was = was
  BY <1>5, <1>6, <1>9 DEF EndJob, WriteJob
<1>11. JobOK(new, DOMAIN servers, DOMAIN skills, given)
  BY <1>6, <1>8, <1>10 DEF JobOK, JobShape
<1>. QED  BY <1>3, <1>7, <1>11, ExtensionsGoes

\* A deletion tells the jobs that count on what it deletes.
LEMMA DeletionIsTold ==
    ASSUME NEW j, NEW table \in {"servers", "skills"}, NEW i, NEW S, NEW T, NEW G, NEW new,
           JobOK(j, S, T, G),
           new = IF \/ j.at \in {"writing", "written"} /\ j.table = table /\ j.id = i
                    \/ j.at \in {"searching", "asking"} /\ table = "servers"
                 THEN [j EXCEPT !.gone = TRUE] ELSE j
    PROVE  JobOK(new, IF table = "servers" THEN S \ {i} ELSE S,
                 IF table = "skills" THEN T \ {i} ELSE T, G)
<1>. DEFINE S1 == IF table = "servers" THEN S \ {i} ELSE S
            T1 == IF table = "skills" THEN T \ {i} ELSE T
<1>1. CASE j.at \in {"writing", "written"}
  <2>1. j \in WriteJob /\ WriteOK(j, S, T, G)
    BY <1>1 DEF JobOK, JobShape, XT!Idle, UseJob, SearchJob, EndJob
  <2>2. /\ new \in WriteJob /\ new.at = j.at /\ new.table = j.table /\ new.id = j.id
        /\ new.row = j.row
        /\ new.gone = j.gone \/ new.gone
        /\ j.table = table /\ j.id = i => new.gone
    <3>1. CASE new = j
      BY <2>1, <3>1, <1>1 DEF WriteJob
    <3>2. CASE new = [j EXCEPT !.gone = TRUE]
      BY <2>1, <3>2 DEF WriteJob
    <3>. QED  BY <3>1, <3>2
  <2>3. new.at = "written" /\ ~new.gone =>
           new.id \in IF new.table = "servers" THEN S1 ELSE T1
    BY <2>1, <2>2 DEF WriteOK, WriteJob
  <2>. HIDE DEF S1, T1
  <2>4. WriteOK(new, S1, T1, G)
    BY <2>1, <2>2, <2>3 DEF WriteOK
  <2>. QED  BY <1>1, <2>2, <2>4 DEF JobOK, JobShape, S1, T1
<1>2. CASE j.at \in {"searching", "asking"}
  <2>1. j \in SearchJob /\ SearchOK(j, S)
    BY <1>2 DEF JobOK, JobShape, XT!Idle, UseJob, WriteJob, EndJob
  <2>2. CASE table = "servers"
    <3>1. new = [j EXCEPT !.gone = TRUE]
      BY <1>2, <2>2
    <3>2. /\ new \in SearchJob /\ new.gone /\ new.at = j.at /\ new.id = j.id
          /\ new.words = j.words /\ new.limit = j.limit /\ new.left = j.left
          /\ new.rows = j.rows /\ new.first = j.first /\ new.asked = j.asked
          /\ new.answers = j.answers
      BY <2>1, <3>1 DEF SearchJob
    <3>. HIDE DEF S1, T1
    <3>3. HitsOK(new)
      BY <2>1, <3>2 DEF SearchOK, HitsOK
    <3>4. SearchOK(new, S1)
      BY <2>1, <3>2, <3>3 DEF SearchOK
    <3>. QED  BY <1>2, <3>2, <3>4 DEF JobOK, JobShape, S1, T1
  <2>3. CASE table = "skills"
    <3>1. new = j /\ S1 = S
      BY <1>2, <2>3
    <3>. QED  BY <1>2, <2>1, <3>1 DEF JobOK, JobShape
  <2>. QED  BY <2>2, <2>3
<1>3. CASE j.at \notin {"writing", "written", "searching", "asking"}
  <2>1. new = j
    BY <1>3
  <2>. QED  BY <1>3, <2>1 DEF JobOK
<1>. QED  BY <1>1, <1>2, <1>3

LEMMA ExtensionsDeleteServer ==
    ASSUME ExtensionsInv, NEW h \in Handlers, XT!DeleteServer(h)
    PROVE  ExtensionsInv'
<1>1. PICK i \in DOMAIN servers :
        /\ servers' = [k \in DOMAIN servers \ {i} |-> servers[k]]
        /\ job' = XT!Gone(i, "servers")
  BY DEF XT!DeleteServer, XT!Without
<1>2. requests < MaxCalls /\ requests' = requests + 1 /\ UNCHANGED <<skills, given>>
  BY DEF XT!DeleteServer
<1>3. /\ DOMAIN servers' = DOMAIN servers \ {i}
      /\ \A k \in DOMAIN servers' : servers'[k] = servers[k]
      /\ servers' = [k \in DOMAIN servers' |-> servers'[k]]
  BY <1>1
<1>4. requests' \in 0 .. MaxCalls
  BY <1>2, ExtensionAssumption DEF ExtensionsInv, TablesOK, XT!TypeOK
<1>5. job' = [k \in Handlers |-> job'[k]]
  BY <1>1 DEF XT!Gone
<1>6. TablesOK'
  <2>1. XT!TypeOK'
    BY <1>2, <1>3, <1>4 DEF ExtensionsInv, TablesOK, XT!TypeOK
  <2>2. XT!SecretsStayWithTheirConnector'
    BY <1>2, <1>3 DEF ExtensionsInv, TablesOK, XT!SecretsStayWithTheirConnector
  <2>3. skills' = [k \in DOMAIN skills' |-> skills'[k]]
    BY <1>2 DEF ExtensionsInv, TablesOK
  <2>. QED  BY <1>3, <1>5, <2>1, <2>2, <2>3 DEF TablesOK
<1>7. ASSUME NEW k \in Handlers
      PROVE  JobOK(job'[k], DOMAIN servers', DOMAIN skills', given')
  <2>1. PICK j, new : j = job[k] /\ new = job'[k]
    OBVIOUS
  <2>2. JobOK(j, DOMAIN servers, DOMAIN skills, given)
    BY <2>1 DEF ExtensionsInv
  <2>3. new = IF \/ j.at \in {"writing", "written"} /\ j.table = "servers" /\ j.id = i
                 \/ j.at \in {"searching", "asking"} /\ "servers" = "servers"
              THEN [j EXCEPT !.gone = TRUE] ELSE j
    BY <1>1, <2>1 DEF XT!Gone
  <2>4. JobOK(new, DOMAIN servers \ {i}, DOMAIN skills, given)
    BY <2>2, <2>3, DeletionIsTold
  <2>. QED  BY <1>2, <1>3, <2>1, <2>4
<1>. QED  BY <1>6, <1>7 DEF ExtensionsInv

LEMMA ExtensionsDeleteSkill ==
    ASSUME ExtensionsInv, NEW h \in Handlers, XT!DeleteSkill(h)
    PROVE  ExtensionsInv'
<1>1. PICK i \in DOMAIN skills :
        /\ skills' = [k \in DOMAIN skills \ {i} |-> skills[k]]
        /\ job' = XT!Gone(i, "skills")
  BY DEF XT!DeleteSkill, XT!Without
<1>2. requests < MaxCalls /\ requests' = requests + 1 /\ UNCHANGED <<servers, given>>
  BY DEF XT!DeleteSkill
<1>3. /\ DOMAIN skills' = DOMAIN skills \ {i} /\ \A k \in DOMAIN skills' : skills'[k] = skills[k]
      /\ skills' = [k \in DOMAIN skills' |-> skills'[k]]
  BY <1>1
<1>4. requests' \in 0 .. MaxCalls
  BY <1>2, ExtensionAssumption DEF ExtensionsInv, TablesOK, XT!TypeOK
<1>5. job' = [k \in Handlers |-> job'[k]]
  BY <1>1 DEF XT!Gone
<1>6. TablesOK'
  <2>1. XT!TypeOK'
    BY <1>2, <1>3, <1>4 DEF ExtensionsInv, TablesOK, XT!TypeOK
  <2>2. XT!SecretsStayWithTheirConnector'
    BY <1>2 DEF ExtensionsInv, TablesOK, XT!SecretsStayWithTheirConnector
  <2>3. servers' = [k \in DOMAIN servers' |-> servers'[k]]
    BY <1>2 DEF ExtensionsInv, TablesOK
  <2>. QED  BY <1>3, <1>5, <2>1, <2>2, <2>3 DEF TablesOK
<1>7. ASSUME NEW k \in Handlers
      PROVE  JobOK(job'[k], DOMAIN servers', DOMAIN skills', given')
  <2>1. PICK j, new : j = job[k] /\ new = job'[k]
    OBVIOUS
  <2>2. JobOK(j, DOMAIN servers, DOMAIN skills, given)
    BY <2>1 DEF ExtensionsInv
  <2>3. new = IF \/ j.at \in {"writing", "written"} /\ j.table = "skills" /\ j.id = i
                 \/ j.at \in {"searching", "asking"} /\ "skills" = "servers"
              THEN [j EXCEPT !.gone = TRUE] ELSE j
    BY <1>1, <2>1 DEF XT!Gone
  <2>4. JobOK(new, DOMAIN servers, DOMAIN skills \ {i}, given)
    BY <2>2, <2>3, DeletionIsTold
  <2>. QED  BY <1>2, <1>3, <2>1, <2>4
<1>. QED  BY <1>6, <1>7 DEF ExtensionsInv

-----------------------------------------------------------------------------
(* Instructions and connectors in use.                                     *)

LEMMA ExtensionsChatOrRespond ==
    ASSUME ExtensionsInv, NEW h \in Handlers, XT!Chat(h) \/ XT!Respond(h)
    PROVE  ExtensionsInv'
<1>1. CASE XT!Chat(h)
  <2>1. PICK s : XT!Starts(h, [at |-> "prompted", sections |-> s])
    BY <1>1 DEF XT!Chat
  <2>2. UNCHANGED <<servers, skills, given>>
    BY <1>1 DEF XT!Chat
  <2>3. PICK new : new = [at |-> "prompted", sections |-> s]
    OBVIOUS
  <2>4. new.at = "prompted" /\ JobShape(new)
    BY <2>3 DEF JobShape
  <2>5. JobOK(new, DOMAIN servers', DOMAIN skills', given')
    BY <2>4 DEF JobOK
  <2>6. given' \in [Ids -> SUBSET Secrets] /\ \A i \in Ids : given[i] \subseteq given'[i]
    BY <2>2 DEF ExtensionsInv, TablesOK, XT!TypeOK
  <2>. QED  BY <2>1, <2>2, <2>3, <2>5, <2>6, ExtensionsStarts
<1>2. CASE XT!Respond(h)
  <2>1. XT!Goes(h, XT!Idle) /\ UNCHANGED <<servers, skills, requests, given>>
    BY <1>2 DEF XT!Respond, XT!Ends, XT!Goes
  <2>2. XT!Idle.at = "idle"
    BY DEF XT!Idle
  <2>3. JobOK(XT!Idle, DOMAIN servers, DOMAIN skills, given)
    BY <2>2 DEF JobOK, JobShape
  <2>. QED  BY <2>1, <2>3, ExtensionsGoes
<1>. QED  BY <1>1, <1>2

LEMMA ExtensionsUse ==
    ASSUME ExtensionsInv, NEW h \in Handlers, NEW i \in Ids, NEW what \in {"listing", "calling"},
           XT!Use(h, i, what), UNCHANGED <<servers, skills, given>>
    PROVE  ExtensionsInv'
<1>1. PICK j : j = [at |-> what, id |-> i, gone |-> FALSE, row |-> XT!Existing(i)]
  OBVIOUS
<1>2. XT!Existing(i) \in XT!Row
  BY FreshRow DEF XT!Existing, ExtensionsInv, TablesOK, XT!TypeOK
<1>3. j \in UseJob /\ j.at = what /\ ~j.gone
  BY <1>1, <1>2 DEF UseJob
<1>4. \/ XT!Starts(h, j)
      \/ \E outcome \in {"missing", "disabled"} : XT!Starts(h, XT!Done(outcome, j))
  BY <1>1 DEF XT!Use
<1>5. given' \in [Ids -> SUBSET Secrets] /\ \A k \in Ids : given[k] \subseteq given'[k]
  BY DEF ExtensionsInv, TablesOK, XT!TypeOK
<1>6. CASE XT!Starts(h, j)
  <2>1. JobOK(j, DOMAIN servers', DOMAIN skills', given')
    BY <1>3 DEF JobOK, JobShape
  <2>. QED  BY <1>5, <1>6, <2>1, ExtensionsStarts
<1>7. ASSUME NEW outcome \in {"missing", "disabled"}, XT!Starts(h, XT!Done(outcome, j))
      PROVE  ExtensionsInv'
  <2>1. PICK new : new = XT!Done(outcome, j)
    OBVIOUS
  <2>2. new = [at |-> "answered", outcome |-> outcome, was |-> what, gone |-> FALSE]
    BY <1>3, <2>1 DEF XT!Done, UseJob
  <2>3. new \in EndJob /\ new.at = "answered" /\ new.outcome = outcome /\ new.was = what
    BY <2>2 DEF EndJob
  <2>4. JobOK(new, DOMAIN servers', DOMAIN skills', given')
    BY <2>3 DEF JobOK, JobShape
  <2>. QED  BY <1>5, <1>7, <2>1, <2>4, ExtensionsStarts
<1>. QED  BY <1>4, <1>6, <1>7

\* What is recorded of a connector is its status and the number of its tools.
LEMMA RecordedFacts ==
    ASSUME TablesOK, NEW i \in Ids, NEW row, NEW status \in {"none", "ready", "error"},
           NEW number \in 0 .. XT!Cardinality(Tools),
           servers' = XT!Recorded(i, row, status, number)
    PROVE  /\ DOMAIN servers' = DOMAIN servers
           /\ servers' = [k \in DOMAIN servers' |-> servers'[k]]
           /\ \A k \in DOMAIN servers :
                 /\ servers'[k] \in XT!Row
                 /\ servers'[k].name = servers[k].name /\ servers'[k].secret = servers[k].secret
                 /\ servers'[k].enabled = servers[k].enabled
<1>1. /\ servers = [k \in DOMAIN servers |-> servers[k]]
      /\ \A k \in DOMAIN servers : servers[k] \in XT!Row
  BY DEF TablesOK, XT!TypeOK
<1>3. CASE i \notin DOMAIN servers
  <2>1. servers' = servers
    BY <1>3 DEF XT!Recorded
  <2>. QED  BY <1>1, <2>1
<1>4. CASE i \in DOMAIN servers
  <2>1. PICK had, new : had = servers[i] /\ new = [had EXCEPT !.status = status, !.tools = number]
    OBVIOUS
  <2>2. had \in XT!Row
    BY <1>1, <1>4, <2>1
  <2>3. /\ new \in XT!Row /\ new.name = had.name /\ new.secret = had.secret
        /\ new.enabled = had.enabled
    BY <2>1, <2>2 DEF XT!Row
  <2>4. servers' = [servers EXCEPT ![i].status = status, ![i].tools = number]
    BY <1>4 DEF XT!Recorded
  <2>5. /\ DOMAIN servers' = DOMAIN servers /\ servers'[i] = new
        /\ \A k \in DOMAIN servers : k # i => servers'[k] = servers[k]
        /\ servers' = [k \in DOMAIN servers' |-> servers'[k]]
    <3>1. servers' = [servers EXCEPT ![i] = new]
      BY <1>1, <1>4, <2>1, <2>4
    <3>. QED  BY <1>1, <1>4, <3>1
  <2>. QED  BY <1>1, <2>1, <2>3, <2>5
<1>. QED  BY <1>3, <1>4

LEMMA ExtensionsReport ==
    ASSUME ExtensionsInv, NEW h \in Handlers, NEW new, XT!Goes(h, new),
           NEW i \in Ids, NEW row, NEW status \in {"ready", "error"},
           NEW number \in 0 .. XT!Cardinality(Tools),
           servers' = XT!Recorded(i, row, status, number),
           UNCHANGED <<skills, requests, given>>,
           JobOK(new, DOMAIN servers, DOMAIN skills, given)
    PROVE  ExtensionsInv'
<1>1. status \in {"none", "ready", "error"} /\ TablesOK
  BY DEF ExtensionsInv
<1>2. /\ DOMAIN servers' = DOMAIN servers
      /\ servers' = [k \in DOMAIN servers' |-> servers'[k]]
      /\ \A k \in DOMAIN servers :
            /\ servers'[k] \in XT!Row
            /\ servers'[k].name = servers[k].name /\ servers'[k].secret = servers[k].secret
  BY <1>1, RecordedFacts
<1>3. /\ DOMAIN servers \subseteq DOMAIN servers' /\ DOMAIN skills \subseteq DOMAIN skills'
      /\ \A k \in Ids : given[k] \subseteq given'[k]
      /\ JobOK(new, DOMAIN servers', DOMAIN skills', given')
      /\ job' = [job EXCEPT ![h] = new]
  BY <1>2 DEF XT!Goes
<1>4. /\ \A k \in Handlers : JobOK(job'[k], DOMAIN servers', DOMAIN skills', given')
      /\ job' = [k \in Handlers |-> job'[k]]
  BY <1>3, JobsStay
<1>5. XT!TypeOK'
  BY <1>1, <1>2 DEF TablesOK, XT!TypeOK
<1>6. XT!SecretsStayWithTheirConnector'
  BY <1>1, <1>2 DEF TablesOK, XT!SecretsStayWithTheirConnector
<1>7. skills' = [k \in DOMAIN skills' |-> skills'[k]]
  BY <1>1 DEF TablesOK
<1>8. TablesOK'
  BY <1>2, <1>4, <1>5, <1>6, <1>7 DEF TablesOK
<1>. QED  BY <1>4, <1>8 DEF ExtensionsInv

\* A connector offers some of the tools.
LEMMA OfferedFacts ==
    ASSUME NEW offered \in SUBSET Tools
    PROVE  /\ IsFiniteSet(offered) /\ 0 \in 0 .. XT!Cardinality(Tools)
           /\ XT!Cardinality(offered) \in 0 .. XT!Cardinality(Tools)
<1>1. IsFiniteSet(Tools) /\ Cardinality(Tools) \in Nat
  BY ExtensionAssumption, FS_CardinalityType
<1>2. IsFiniteSet(offered) /\ Cardinality(offered) <= Cardinality(Tools)
  BY <1>1, FS_Subset
<1>3. Cardinality(offered) \in Nat
  BY <1>2, FS_CardinalityType
<1>. QED  BY <1>1, <1>2, <1>3, ExtensionCardinality

LEMMA ExtensionsListedOrCalled ==
    ASSUME ExtensionsInv, NEW h \in Handlers, XT!Listed(h) \/ XT!Called(h)
    PROVE  ExtensionsInv'
<1>1. PICK j : j = job[h]
  OBVIOUS
<1>2. j.at \in {"listing", "calling"} /\ UNCHANGED <<skills, requests, given>>
  BY <1>1 DEF XT!Listed, XT!Called
<1>3. JobOK(j, DOMAIN servers, DOMAIN skills, given)
  BY <1>1 DEF ExtensionsInv
<1>4. j \in UseJob
  BY <1>2, <1>3 DEF JobOK, JobShape, XT!Idle, WriteJob, SearchJob, EndJob
<1>5. \E number \in 0 .. XT!Cardinality(Tools), status \in {"ready", "error"} :
        /\ servers' = XT!Recorded(j.id, j.row, status, number)
        /\ XT!Goes(h, XT!Done(status, j))
  <2>1. CASE XT!Listed(h)
    <3>1. \/ \E offered \in SUBSET Tools :
               /\ servers' = XT!Recorded(j.id, j.row, "ready", XT!Cardinality(offered))
               /\ XT!Goes(h, XT!Done("ready", j))
          \/ /\ servers' = XT!Recorded(j.id, j.row, "error", 0)
             /\ XT!Goes(h, XT!Done("error", j))
      BY <1>1, <2>1 DEF XT!Listed
    <3>. QED  BY <3>1, OfferedFacts
  <2>2. CASE XT!Called(h)
    <3>1. \E status \in {"ready", "error"} :
            /\ servers' = XT!Recorded(j.id, j.row, status, j.row.tools)
            /\ XT!Goes(h, XT!Done(status, j))
      BY <1>1, <2>2 DEF XT!Called
    <3>2. j.row.tools \in 0 .. XT!Cardinality(Tools)
      BY <1>4 DEF UseJob, XT!Row
    <3>. QED  BY <3>1, <3>2
  <2>. QED  BY <2>1, <2>2
<1>6. PICK number \in 0 .. XT!Cardinality(Tools), status \in {"ready", "error"} :
        /\ servers' = XT!Recorded(j.id, j.row, status, number)
        /\ XT!Goes(h, XT!Done(status, j))
  BY <1>5
<1>7. PICK new, was, gone : new = XT!Done(status, j) /\ was = j.at /\ gone = j.gone
  OBVIOUS
<1>8. /\ new = [at |-> "answered", outcome |-> status, was |-> was, gone |-> gone]
      /\ was \in {"listing", "calling"} /\ gone \in BOOLEAN
  BY <1>2, <1>4, <1>7 DEF XT!Done, UseJob
<1>9. new \in EndJob /\ new.at = "answered" /\ new.outcome = status /\ new.was = was
  BY <1>8 DEF EndJob
<1>10. JobOK(new, DOMAIN servers, DOMAIN skills, given)
  BY <1>8, <1>9 DEF JobOK, JobShape
<1>11. j.id \in Ids /\ XT!Goes(h, new)
  BY <1>4, <1>6, <1>7 DEF UseJob
<1>. QED  BY <1>2, <1>6, <1>10, <1>11, ExtensionsReport

-----------------------------------------------------------------------------
(* Search.                                                                 *)

\* The members of a set that is in order, one after the other.
LEMMA SortedFacts ==
    ASSUME NEW S, IsFiniteSet(S), NEW R, IsOrder(S, R)
    PROVE  LET q == XT!Sorted(S, R)
           IN  /\ q \in Seq(S) /\ Len(q) = Cardinality(S) /\ Len(q) \in Nat
               /\ \A k, m \in 1 .. Len(q) : k < m <=> <<q[k], q[m]>> \in R
               /\ \A x \in S : \E k \in 1 .. Len(q) : q[k] = x
<1>1. XT!Sorted(S, R) = InPlaces(S, R)
  BY DEF XT!Sorted, InPlaces, XT!Cardinality, Cardinality
<1>. QED  BY <1>1, PlacesEnumerate

\* Each member of the set has a place of its own.
LEMMA SortedOnce ==
    ASSUME NEW S, IsFiniteSet(S), NEW R, IsOrder(S, R), NEW q, q = XT!Sorted(S, R)
    PROVE  /\ q \in Seq(S) /\ Len(q) = Cardinality(S) /\ Len(q) \in Nat
           /\ \A k \in 1 .. Len(q) : q[k] \in S
           /\ \A k, m \in 1 .. Len(q) : k < m <=> <<q[k], q[m]>> \in R
           /\ \A k, m \in 1 .. Len(q) : q[k] = q[m] => k = m
           /\ \A x \in S : \E k \in 1 .. Len(q) : q[k] = x
<1>1. /\ q \in Seq(S) /\ Len(q) = Cardinality(S) /\ Len(q) \in Nat
      /\ \A k, m \in 1 .. Len(q) : k < m <=> <<q[k], q[m]>> \in R
      /\ \A x \in S : \E k \in 1 .. Len(q) : q[k] = x
  BY SortedFacts
<1>2. \A k \in 1 .. Len(q) : q[k] \in S
  BY <1>1
<1>3. ASSUME NEW k \in 1 .. Len(q), NEW m \in 1 .. Len(q), q[k] = q[m]
      PROVE  k = m
  <2>1. ~(k < m) /\ ~(m < k)
    <3>1. <<q[k], q[m]>> \notin R /\ <<q[m], q[k]>> \notin R
      BY <1>2, <1>3 DEF IsOrder
    <3>. QED  BY <1>1, <3>1
  <2>2. k \in Nat /\ m \in Nat
    BY <1>1
  <2>. QED  BY <2>1, <2>2
<1>. QED  BY <1>1, <1>2, <1>3

LEMMA ExtensionsSearch ==
    ASSUME ExtensionsInv, NEW h \in Handlers, XT!Search(h)
    PROVE  ExtensionsInv'
<1>. DEFINE on == {i \in DOMAIN servers : servers[i].enabled}
            R  == {p \in on \X on : servers[p[1]].name < servers[p[2]].name}
<1>0. PICK queue : queue = XT!Sorted(on, R)
  OBVIOUS
<1>1. PICK words \in BOOLEAN, n \in FoundLimits :
        XT!Starts(h, [at |-> "searching", id |-> Nothing, gone |-> FALSE, words |-> words,
                      limit |-> n, left |-> queue, rows |-> <<>>, row |-> XT!Fresh,
                      first |-> on, asked |-> {}, answers |-> {}])
  BY <1>0 DEF XT!Search, XT!InOrder
<1>2. UNCHANGED <<servers, skills, given>>
  BY DEF XT!Search
<1>3. /\ on \subseteq Ids /\ on \subseteq DOMAIN servers
      /\ \A i \in on : servers[i].name \in Int
      /\ \A i, k \in on : i # k => servers[i].name # servers[k].name
  <2>1. /\ DOMAIN servers \subseteq Ids /\ \A i \in DOMAIN servers : servers[i] \in XT!Row
        /\ \A i \in DOMAIN servers : \A k \in DOMAIN servers \ {i} :
              servers[k].name # servers[i].name
    BY DEF ExtensionsInv, TablesOK, XT!TypeOK, XT!SecretsStayWithTheirConnector
  <2>2. \A r \in XT!Row : r.name \in Int
    BY ExtensionAssumption DEF XT!Row
  <2>. QED  BY <2>1, <2>2
<1>4. IsFiniteSet(on)
  BY <1>3, ExtensionAssumption, FS_Subset
<1>5. IsOrder(on, R)
  <2>1. \A i, k \in on : <<i, k>> \in R <=> servers[i].name < servers[k].name
    <3>. HIDE DEF on
    <3>. QED  OBVIOUS
  <2>. HIDE DEF on, R
  <2>. QED  BY <1>3, <2>1 DEF IsOrder
<1>. HIDE DEF R
<1>6. /\ queue \in Seq(on) /\ Len(queue) \in Nat
      /\ \A k \in 1 .. Len(queue) : queue[k] \in on
      /\ \A k, m \in 1 .. Len(queue) : queue[k] = queue[m] => k = m
      /\ \A x \in on : \E k \in 1 .. Len(queue) : queue[k] = x
  <2>. HIDE DEF on
  <2>. QED  BY <1>0, <1>4, <1>5, SortedOnce
<1>7. queue \in Seq(Ids)
  <2>. HIDE DEF on
  <2>. QED  BY <1>3, <1>6
<1>. HIDE DEF on
<1>8. PICK new : new = [at |-> "searching", id |-> Nothing, gone |-> FALSE, words |-> words,
                        limit |-> n, left |-> queue, rows |-> <<>>, row |-> XT!Fresh,
                        first |-> on, asked |-> {}, answers |-> {}]
  OBVIOUS
<1>9. /\ new.at = "searching" /\ new.left = queue /\ new.rows = <<>> /\ new.first = on
      /\ new.asked = {} /\ new.answers = {}
  BY <1>8
<1>10. new \in SearchJob
  <2>1. <<>> \in Seq(Hit)
    OBVIOUS
  <2>2. PICK r : r = XT!Fresh /\ r \in XT!Row
    BY FreshRow
  <2>. QED  BY <1>3, <1>7, <1>8, <2>1, <2>2 DEF SearchJob
<1>11. HitsOK(new)
  <2>1. Len(new.rows) = 0
    BY <1>9
  <2>. QED  BY <1>9, <2>1 DEF HitsOK
<1>12. SearchOK(new, DOMAIN servers)
  <2>1. on = {} \cup {queue[k] : k \in 1 .. Len(queue)}
    BY <1>6
  <2>2. \A k \in 1 .. Len(queue) : queue[k] \in DOMAIN servers
    BY <1>3, <1>6
  <2>. QED  BY <1>6, <1>9, <1>11, <2>1, <2>2 DEF SearchOK
<1>13. JobOK(new, DOMAIN servers', DOMAIN skills', given')
  BY <1>2, <1>9, <1>10, <1>12 DEF JobOK, JobShape
<1>14. given' \in [Ids -> SUBSET Secrets] /\ \A i \in Ids : given[i] \subseteq given'[i]
  BY <1>2 DEF ExtensionsInv, TablesOK, XT!TypeOK
<1>. QED  BY <1>1, <1>2, <1>8, <1>13, <1>14, ExtensionsStarts

LEMMA ExtensionsAskNext ==
    ASSUME ExtensionsInv, NEW h \in Handlers, XT!AskNext(h)
    PROVE  ExtensionsInv'
<1>1. PICK j, i : j = job[h] /\ i = Head(j.left)
  OBVIOUS
<1>2. /\ j.at = "searching" /\ j.left # <<>> /\ UNCHANGED <<servers, skills, requests, given>>
      /\ XT!Goes(h, IF i \notin DOMAIN servers THEN XT!Done("missing", j)
                    ELSE [j EXCEPT !.at = "asking", !.id = i, !.row = servers[i],
                                   !.asked = @ \cup {i}])
  BY <1>1 DEF XT!AskNext
<1>3. JobOK(j, DOMAIN servers, DOMAIN skills, given)
  BY <1>1 DEF ExtensionsInv
<1>4. j \in SearchJob /\ SearchOK(j, DOMAIN servers)
  BY <1>2, <1>3 DEF JobOK, JobShape, XT!Idle, WriteJob, UseJob, EndJob
<1>5. PICK q \in Seq(Ids) : q = j.left
  BY <1>4 DEF SearchJob
<1>6. Len(q) \in Nat /\ Len(q) > 0 /\ i = q[1] /\ i \in Ids /\ 1 \in 1 .. Len(q)
  BY <1>1, <1>2, <1>5
<1>7. CASE i \notin DOMAIN servers
  <2>1. j.gone
    BY <1>4, <1>5, <1>6, <1>7 DEF SearchOK
  <2>2. PICK new : new = XT!Done("missing", j)
    OBVIOUS
  <2>3. new = [at |-> "answered", outcome |-> "missing", was |-> "searching", gone |-> TRUE]
    <3>1. j.gone = TRUE
      BY <1>4, <2>1 DEF SearchJob
    <3>. QED  BY <1>2, <2>2, <3>1 DEF XT!Done
  <2>4. new \in EndJob /\ new.at = "answered" /\ new.outcome = "missing" /\ new.gone
    BY <2>3 DEF EndJob
  <2>5. JobOK(new, DOMAIN servers, DOMAIN skills, given)
    BY <2>4 DEF JobOK, JobShape
  <2>. QED  BY <1>2, <1>7, <2>2, <2>5, ExtensionsGoes
<1>8. CASE i \in DOMAIN servers
  <2>1. PICK row : row = servers[i]
    OBVIOUS
  <2>2. row \in XT!Row
    BY <1>8, <2>1 DEF ExtensionsInv, TablesOK, XT!TypeOK
  <2>3. PICK new : new = [j EXCEPT !.at = "asking", !.id = i, !.row = row,
                                   !.asked = @ \cup {i}]
    OBVIOUS
  <2>4. /\ new \in SearchJob /\ new.at = "asking" /\ new.id = i /\ new.left = q
        /\ new.asked = j.asked \cup {i} /\ new.first = j.first /\ new.answers = j.answers
        /\ new.rows = j.rows /\ new.gone = j.gone /\ new.words = j.words
    BY <1>4, <1>5, <1>6, <2>2, <2>3 DEF SearchJob
  <2>5. HitsOK(new)
    BY <1>4, <2>4 DEF SearchOK, HitsOK
  <2>6. /\ \A k, m \in 1 .. Len(q) : q[k] = q[m] => k = m
        /\ ~j.gone => \A k \in 1 .. Len(q) : q[k] \in DOMAIN servers
        /\ j.first = j.asked \cup {q[k] : k \in 1 .. Len(q)}
        /\ \A k \in 1 .. Len(q) : q[k] \notin j.asked
        /\ \A a \in j.answers : a.id \in j.asked
    BY <1>2, <1>4, <1>5 DEF SearchOK
  <2>7. \A k \in 2 .. Len(q) : q[k] \notin j.asked \cup {i}
    <3>1. ASSUME NEW k \in 2 .. Len(q)
          PROVE  q[k] \notin j.asked \cup {i}
      <4>1. k \in 1 .. Len(q) /\ k # 1
        BY <1>6
      <4>. QED  BY <1>6, <2>6, <4>1
    <3>. QED  BY <3>1
  <2>8. \A a \in j.answers : a.id \in (j.asked \cup {i}) \ {i}
    BY <1>6, <2>6
  <2>9. j.first = (j.asked \cup {i}) \cup {q[k] : k \in 1 .. Len(q)}
    BY <1>6, <2>6
  <2>10. SearchOK(new, DOMAIN servers)
    BY <1>6, <2>4, <2>5, <2>6, <2>7, <2>8, <2>9 DEF SearchOK
  <2>11. JobOK(new, DOMAIN servers, DOMAIN skills, given)
    BY <2>4, <2>10 DEF JobOK, JobShape
  <2>. QED  BY <1>2, <1>8, <2>1, <2>3, <2>11, ExtensionsGoes
<1>. QED  BY <1>7, <1>8

\* Rows for those of some answers that match, each once.
RowsOf(hs, more, words) ==
    /\ \A k, m \in 1 .. Len(hs) : hs[k] = hs[m] => k = m
    /\ \A k \in 1 .. Len(hs) : hs[k] \in more /\ XT!Matches(words, hs[k].tool)
    /\ \A a \in more : XT!Matches(words, a.tool) => \E k \in 1 .. Len(hs) : hs[k] = a

\* Rows of a connector that has not answered before are added to those of others.
LEMMA HitsGrow ==
    ASSUME NEW j, NEW new, HitsOK(j), j.rows \in Seq(Hit), NEW hs \in Seq(Hit), NEW more,
           new.rows = j.rows \o hs, new.answers = j.answers \cup more, new.words = j.words,
           RowsOf(hs, more, j.words), j.answers \cap more = {}
    PROVE  HitsOK(new)
<1>1. PICK former, all : former = j.rows /\ all = new.rows
  OBVIOUS
<1>2. PICK n \in Nat, m \in Nat : n = Len(former) /\ m = Len(hs)
  BY <1>1
<1>3. /\ all \in Seq(Hit) /\ Len(all) = n + m
      /\ \A k \in 1 .. n : all[k] = former[k]
      /\ \A k \in n + 1 .. n + m : all[k] = hs[k - n]
  <2>1. all = former \o hs
    BY <1>1
  <2>. QED  BY <1>1, <1>2, <2>1, ConcatProperties
<1>4. \A k \in 1 .. n + m : k \in 1 .. n \/ (k \in n + 1 .. n + m /\ k - n \in 1 .. m)
  BY <1>2
<1>5. /\ \A k, l \in 1 .. n : former[k] = former[l] => k = l
      /\ \A k \in 1 .. n : former[k] \in j.answers /\ XT!Matches(j.words, former[k].tool)
      /\ \A a \in j.answers :
            XT!Matches(j.words, a.tool) => \E k \in 1 .. n : former[k] = a
  BY <1>1, <1>2 DEF HitsOK
<1>6. ASSUME NEW k \in 1 .. n + m
      PROVE  all[k] \in j.answers \cup more /\ XT!Matches(j.words, all[k].tool)
  <2>1. CASE k \in 1 .. n
    BY <1>3, <1>5, <2>1
  <2>2. CASE k \in n + 1 .. n + m /\ k - n \in 1 .. m
    BY <1>2, <1>3, <2>2 DEF RowsOf
  <2>. QED  BY <1>4, <2>1, <2>2
<1>7. ASSUME NEW k \in 1 .. n + m, NEW l \in 1 .. n + m, all[k] = all[l]
      PROVE  k = l
  <2>1. CASE k \in 1 .. n /\ l \in 1 .. n
    BY <1>3, <1>5, <1>7, <2>1
  <2>2. CASE k \in 1 .. n /\ l \in n + 1 .. n + m /\ l - n \in 1 .. m
    <3>1. all[k] \in j.answers /\ all[l] \in more
      BY <1>2, <1>3, <1>5, <2>2 DEF RowsOf
    <3>. QED  BY <1>7, <3>1
  <2>3. CASE l \in 1 .. n /\ k \in n + 1 .. n + m /\ k - n \in 1 .. m
    <3>1. all[l] \in j.answers /\ all[k] \in more
      BY <1>2, <1>3, <1>5, <2>3 DEF RowsOf
    <3>. QED  BY <1>7, <3>1
  <2>4. CASE /\ k \in n + 1 .. n + m /\ k - n \in 1 .. m
             /\ l \in n + 1 .. n + m /\ l - n \in 1 .. m
    <3>1. hs[k - n] = hs[l - n]
      BY <1>3, <1>7, <2>4
    <3>2. k - n = l - n
      BY <1>2, <2>4, <3>1 DEF RowsOf
    <3>. QED  BY <3>2
  <2>. QED  BY <1>4, <2>1, <2>2, <2>3, <2>4
<1>8. ASSUME NEW a \in j.answers \cup more, XT!Matches(j.words, a.tool)
      PROVE  \E k \in 1 .. n + m : all[k] = a
  <2>1. CASE a \in j.answers
    <3>1. PICK k \in 1 .. n : former[k] = a
      BY <1>5, <1>8, <2>1
    <3>2. k \in 1 .. n + m /\ all[k] = a
      BY <1>3, <3>1
    <3>. QED  BY <3>2
  <2>2. CASE a \in more
    <3>1. PICK k \in 1 .. m : hs[k] = a
      BY <1>2, <1>8, <2>2 DEF RowsOf
    <3>2. PICK l : l = n + k
      OBVIOUS
    <3>3. l \in n + 1 .. n + m /\ l \in 1 .. n + m /\ l - n = k
      BY <3>2
    <3>. QED  BY <1>3, <3>1, <3>3
  <2>. QED  BY <1>8, <2>1, <2>2
<1>. QED  BY <1>1, <1>3, <1>6, <1>7, <1>8 DEF HitsOK

HitsOf(j, tools, hs) ==
    /\ hs \in Seq(Hit)
    /\ \A k, m \in 1 .. Len(hs) : hs[k] = hs[m] => k = m
    /\ \A k \in 1 .. Len(hs) : \E t \in tools : hs[k] = XT!Hit(j, t) /\ hs[k].tool = t
    /\ \A t \in tools : \E k \in 1 .. Len(hs) : hs[k] = XT!Hit(j, t)

\* The tools of a connector that match, in the order of their names.
LEMMA HitsOfOne ==
    ASSUME NEW j \in SearchJob, j.id \in Ids, NEW tools \in SUBSET Tools, NEW hs,
           hs = XT!Hits(j, tools)
    PROVE  HitsOf(j, tools, hs)
<1>. DEFINE R == {p \in tools \X tools : p[1] < p[2]}
<1>1. IsFiniteSet(tools) /\ tools \subseteq Int
  BY OfferedFacts, ExtensionAssumption
<1>2. IsOrder(tools, R)
  <2>1. \A s, t \in tools : <<s, t>> \in R <=> s < t
    OBVIOUS
  <2>. HIDE DEF R
  <2>. QED  BY <1>1, <2>1 DEF IsOrder
<1>. HIDE DEF R
<1>3. PICK order : order = XT!Sorted(tools, R)
  OBVIOUS
<1>4. /\ Len(order) \in Nat /\ \A k \in 1 .. Len(order) : order[k] \in tools
      /\ \A k, m \in 1 .. Len(order) : order[k] = order[m] => k = m
      /\ \A x \in tools : \E k \in 1 .. Len(order) : order[k] = x
  BY <1>1, <1>2, <1>3, SortedOnce
<1>5. hs = [k \in 1 .. Len(order) |-> XT!Hit(j, order[k])]
  BY <1>3 DEF XT!Hits, R
<1>6. ASSUME NEW t \in tools
      PROVE  XT!Hit(j, t) \in Hit /\ XT!Hit(j, t).tool = t
  <2>1. j.row.name \in ExtensionNames
    BY DEF SearchJob, XT!Row
  <2>. QED  BY <2>1 DEF XT!Hit, Hit
<1>7. hs \in Seq(Hit) /\ Len(hs) = Len(order) /\ \A k \in 1 .. Len(hs) : hs[k] = XT!Hit(j, order[k])
  <2>1. hs \in [1 .. Len(order) -> Hit]
    BY <1>4, <1>5, <1>6
  <2>2. hs \in Seq(Hit) /\ Len(hs) = Len(order)
    BY <1>4, <2>1
  <2>. QED  BY <1>5, <2>2
<1>. QED  BY <1>4, <1>6, <1>7 DEF HitsOf

LEMMA ExtensionsAsked ==
    ASSUME ExtensionsInv, NEW h \in Handlers, XT!Asked(h)
    PROVE  ExtensionsInv'
<1>1. PICK j : j = job[h]
  OBVIOUS
<1>2. j.at = "asking" /\ UNCHANGED <<skills, requests, given>>
  BY <1>1 DEF XT!Asked
<1>3. JobOK(j, DOMAIN servers, DOMAIN skills, given)
  BY <1>1 DEF ExtensionsInv
<1>4. j \in SearchJob /\ SearchOK(j, DOMAIN servers)
  BY <1>2, <1>3 DEF JobOK, JobShape, XT!Idle, WriteJob, UseJob, EndJob
<1>5. PICK q \in Seq(Ids) : q = j.left
  BY <1>4 DEF SearchJob
<1>6. /\ \A k, m \in 1 .. Len(q) : q[k] = q[m] => k = m
      /\ ~j.gone => \A k \in 1 .. Len(q) : q[k] \in DOMAIN servers
      /\ j.first = j.asked \cup {q[k] : k \in 1 .. Len(q)}
      /\ HitsOK(j) /\ Len(q) > 0 /\ j.id = q[1] /\ j.id \in j.asked
      /\ \A k \in 2 .. Len(q) : q[k] \notin j.asked
      /\ \A a \in j.answers : a.id \in j.asked \ {j.id}
  BY <1>2, <1>4, <1>5 DEF SearchOK
<1>7. PICK r \in Seq(Ids) : r = Tail(q)
  <2>1. q \in Seq(Ids) /\ q # <<>>
    BY <1>5, <1>6
  <2>2. Tail(q) \in Seq(Ids)
    BY <2>1
  <2>. QED  BY <2>2
<1>8. PICK n \in Nat : n = Len(r)
  OBVIOUS
<1>9. Len(q) = n + 1 /\ \A k \in 1 .. n : r[k] = q[k + 1]
  BY <1>6, <1>7, <1>8
<1>10. j.id \in Ids
  BY <1>5, <1>6
<1>11. /\ \A k, m \in 1 .. n : r[k] = r[m] => k = m
       /\ ~j.gone => \A k \in 1 .. n : r[k] \in DOMAIN servers
       /\ \A k \in 1 .. n : r[k] \notin j.asked
  <2>1. \A k \in 1 .. n : k + 1 \in 1 .. n + 1 /\ k + 1 \in 2 .. n + 1
    OBVIOUS
  <2>2. ASSUME NEW k \in 1 .. n, NEW m \in 1 .. n, r[k] = r[m]
        PROVE  k = m
    <3>1. k + 1 = m + 1
      BY <1>6, <1>9, <2>1, <2>2
    <3>. QED  BY <3>1
  <2>. QED  BY <1>6, <1>9, <2>1, <2>2
<1>12. j.first = j.asked \cup {r[k] : k \in 1 .. n}
  <2>1. ASSUME NEW x \in {q[k] : k \in 1 .. Len(q)}
        PROVE  x \in j.asked \cup {r[k] : k \in 1 .. n}
    <3>1. PICK k \in 1 .. n + 1 : x = q[k]
      BY <1>9, <2>1
    <3>2. CASE k = 1
      BY <1>6, <3>1, <3>2
    <3>3. CASE k # 1
      <4>1. PICK l \in 1 .. n : l + 1 = k
        <5>1. k - 1 \in 1 .. n /\ (k - 1) + 1 = k
          BY <3>3
        <5>. QED  BY <5>1
      <4>2. r[l] = x
        BY <1>9, <3>1, <4>1
      <4>. QED  BY <4>2
    <3>. QED  BY <3>2, <3>3
  <2>2. ASSUME NEW x \in {r[k] : k \in 1 .. n}
        PROVE  x \in {q[k] : k \in 1 .. Len(q)}
    <3>1. PICK k \in 1 .. n : x = q[k + 1]
      BY <1>9, <2>2
    <3>2. k + 1 \in 1 .. Len(q)
      BY <1>9
    <3>. QED  BY <3>1, <3>2
  <2>. QED  BY <1>6, <2>1, <2>2
<1>13. CASE /\ servers' = XT!Recorded(j.id, j.row, "error", 0)
            /\ XT!Goes(h, XT!WithFailure(j))
  <2>1. PICK new : new = [j EXCEPT !.at = "searching", !.id = Nothing, !.left = r]
    OBVIOUS
  <2>2. /\ new \in SearchJob /\ new.at = "searching" /\ new.left = r /\ new.gone = j.gone
        /\ new.asked = j.asked /\ new.first = j.first /\ new.answers = j.answers
        /\ new.rows = j.rows /\ new.words = j.words
    BY <1>4, <1>7, <2>1 DEF SearchJob
  <2>3. HitsOK(new)
    <3>1. HitsOK(j)
      BY <1>6
    <3>. QED  BY <2>2, <3>1 DEF HitsOK
  <2>4. \A a \in j.answers : a.id \in j.asked
    BY <1>6
  <2>5. SearchOK(new, DOMAIN servers)
    BY <1>8, <1>11, <1>12, <2>2, <2>3, <2>4 DEF SearchOK
  <2>6. JobOK(new, DOMAIN servers, DOMAIN skills, given)
    BY <2>2, <2>5 DEF JobOK, JobShape
  <2>7. XT!Goes(h, new)
    BY <1>5, <1>7, <1>13, <2>1 DEF XT!WithFailure, XT!AfterFailure
  <2>8. 0 \in 0 .. XT!Cardinality(Tools)
    BY OfferedFacts
  <2>. QED  BY <1>2, <1>10, <1>13, <2>6, <2>7, <2>8, ExtensionsReport
<1>14. ASSUME NEW offered \in SUBSET Tools,
              servers' = XT!Recorded(j.id, j.row, "ready", XT!Cardinality(offered)),
              XT!Goes(h, XT!WithAnswer(j, offered))
       PROVE  ExtensionsInv'
  <2>1. PICK more, tools : /\ more = {XT!Hit(j, t) : t \in offered}
                           /\ tools = {t \in offered : XT!Matches(j.words, t)}
    OBVIOUS
  <2>2. PICK hs : hs = XT!Hits(j, tools)
    OBVIOUS
  <2>3. tools \in SUBSET Tools
    BY <2>1
  <2>4. /\ hs \in Seq(Hit)
        /\ \A k, m \in 1 .. Len(hs) : hs[k] = hs[m] => k = m
        /\ \A k \in 1 .. Len(hs) :
              \E t \in tools : hs[k] = XT!Hit(j, t) /\ hs[k].tool = t
        /\ \A t \in tools : \E k \in 1 .. Len(hs) : hs[k] = XT!Hit(j, t)
    <3>1. HitsOf(j, tools, hs)
      BY <1>4, <1>10, <2>2, <2>3, HitsOfOne
    <3>. QED  BY <3>1 DEF HitsOf
  <2>5. ASSUME NEW t \in offered
        PROVE  /\ XT!Hit(j, t) \in Hit /\ XT!Hit(j, t).tool = t /\ XT!Hit(j, t).id = j.id
    <3>1. j.row.name \in ExtensionNames /\ t \in Tools
      BY <1>4 DEF SearchJob, XT!Row
    <3>. QED  BY <1>10, <3>1 DEF XT!Hit, Hit
  <2>6. more \subseteq Hit /\ \A a \in more : a.id = j.id
    BY <2>1, <2>5
  <2>7. PICK longer \in Seq(Hit) : longer = j.rows \o hs
    <3>1. j.rows \in Seq(Hit)
      BY <1>4 DEF SearchJob
    <3>. QED  BY <2>4, <3>1, ConcatProperties
  <2>8. PICK new : new = [j EXCEPT !.at = "searching", !.id = Nothing, !.left = r,
                                   !.answers = @ \cup more, !.rows = longer]
    OBVIOUS
  <2>9. /\ new \in SearchJob /\ new.at = "searching" /\ new.left = r /\ new.gone = j.gone
        /\ new.asked = j.asked /\ new.first = j.first /\ new.answers = j.answers \cup more
        /\ new.rows = longer /\ new.words = j.words
    BY <1>4, <1>7, <2>6, <2>7, <2>8 DEF SearchJob
  <2>10. HitsOK(new)
    <3>1. j.rows \in Seq(Hit) /\ HitsOK(j)
      BY <1>4, <1>6 DEF SearchJob
    <3>2. \A k \in 1 .. Len(hs) : hs[k] \in more /\ XT!Matches(j.words, hs[k].tool)
      BY <2>1, <2>4
    <3>3. \A a \in more : XT!Matches(j.words, a.tool) => \E k \in 1 .. Len(hs) : hs[k] = a
      <4>. SUFFICES ASSUME NEW a \in more, XT!Matches(j.words, a.tool)
                    PROVE  \E k \in 1 .. Len(hs) : hs[k] = a
        OBVIOUS
      <4>1. PICK t \in offered : a = XT!Hit(j, t)
        BY <2>1
      <4>2. t \in tools
        BY <2>1, <2>5, <4>1
      <4>. QED  BY <2>4, <4>1, <4>2
    <3>4. j.answers \cap more = {}
      BY <1>6, <2>6
    <3>6. RowsOf(hs, more, j.words)
      BY <2>4, <3>2, <3>3 DEF RowsOf
    <3>5. new.rows = j.rows \o hs /\ new.answers = j.answers \cup more /\ new.words = j.words
      BY <2>7, <2>9
    <3>. QED  BY <2>4, <3>1, <3>4, <3>5, <3>6, HitsGrow
  <2>11. \A a \in j.answers \cup more : a.id \in j.asked
    BY <1>6, <2>6
  <2>12. SearchOK(new, DOMAIN servers)
    BY <1>8, <1>11, <1>12, <2>9, <2>10, <2>11 DEF SearchOK
  <2>13. JobOK(new, DOMAIN servers, DOMAIN skills, given)
    BY <2>9, <2>12 DEF JobOK, JobShape
  <2>14. XT!Goes(h, new)
    <3>1. new = XT!WithAnswer(j, offered)
      BY <1>5, <1>7, <2>1, <2>2, <2>7, <2>8 DEF XT!WithAnswer
    <3>. QED  BY <1>14, <3>1
  <2>15. XT!Cardinality(offered) \in 0 .. XT!Cardinality(Tools)
    BY OfferedFacts
  <2>. QED  BY <1>2, <1>10, <1>14, <2>13, <2>14, <2>15, ExtensionsReport
<1>15. \/ \E offered \in SUBSET Tools :
             /\ servers' = XT!Recorded(j.id, j.row, "ready", XT!Cardinality(offered))
             /\ XT!Goes(h, XT!WithAnswer(j, offered))
       \/ /\ servers' = XT!Recorded(j.id, j.row, "error", 0)
          /\ XT!Goes(h, XT!WithFailure(j))
  BY <1>1 DEF XT!Asked
<1>. QED  BY <1>13, <1>14, <1>15

-----------------------------------------------------------------------------
(* What a search finds.                                                    *)

\* Rows are before others by their score, or else their connector, or else their name.
LEMMA BeforeFacts ==
    ASSUME NEW words \in BOOLEAN, NEW a \in Hit, NEW b \in Hit, NEW c \in Hit
    PROVE  /\ XT!Before(words, a, b) => ~XT!Before(words, b, a)
           /\ (~XT!Before(words, b, a) /\ ~XT!Before(words, c, b))
                 => /\ ~XT!Before(words, c, a)
                    /\ (XT!Before(words, a, b) \/ XT!Before(words, b, c))
                          => XT!Before(words, a, c)
<1>1. \A x \in Hit : /\ x.name \in Int /\ x.tool \in Int
                     /\ XT!Score(x.tool, words) \in Int
  <2>1. \A n \in ExtensionNames : n \in Int
    BY ExtensionAssumption
  <2>2. \A n \in Tools : n \in Int
    BY ExtensionAssumption
  <2>3. \A t : XT!Score(t, words) \in {0, 1, 3}
    BY DEF XT!Score
  <2>. QED  BY <2>1, <2>2, <2>3 DEF Hit
<1>2. PICK s \in Int, m \in Int, t \in Int :
        s = XT!Score(a.tool, words) /\ m = a.name /\ t = a.tool
  BY <1>1
<1>3. PICK s1 \in Int, m1 \in Int, t1 \in Int :
        s1 = XT!Score(b.tool, words) /\ m1 = b.name /\ t1 = b.tool
  BY <1>1
<1>4. PICK s2 \in Int, m2 \in Int, t2 \in Int :
        s2 = XT!Score(c.tool, words) /\ m2 = c.name /\ t2 = c.tool
  BY <1>1
<1>. DEFINE B(x, y, z, x1, y1, z1) == \/ x > x1
                                      \/ x = x1 /\ (y < y1 \/ (y = y1 /\ z < z1))
<1>5. /\ XT!Before(words, a, b) <=> B(s, m, t, s1, m1, t1)
      /\ XT!Before(words, b, a) <=> B(s1, m1, t1, s, m, t)
      /\ XT!Before(words, b, c) <=> B(s1, m1, t1, s2, m2, t2)
      /\ XT!Before(words, c, b) <=> B(s2, m2, t2, s1, m1, t1)
      /\ XT!Before(words, a, c) <=> B(s, m, t, s2, m2, t2)
      /\ XT!Before(words, c, a) <=> B(s2, m2, t2, s, m, t)
  BY <1>2, <1>3, <1>4 DEF XT!Before
<1>6. /\ B(s, m, t, s1, m1, t1) => ~B(s1, m1, t1, s, m, t)
      /\ (~B(s1, m1, t1, s, m, t) /\ ~B(s2, m2, t2, s1, m1, t1))
            => /\ ~B(s2, m2, t2, s, m, t)
               /\ (B(s, m, t, s1, m1, t1) \/ B(s1, m1, t1, s2, m2, t2))
                     => B(s, m, t, s2, m2, t2)
  OBVIOUS
<1>. HIDE DEF B
<1>. QED  BY <1>5, <1>6

\* The rows are in order by their place of a stable sort.
LEMMA PlacesAreOrdered ==
    ASSUME NEW j, j.words \in BOOLEAN, j.rows \in Seq(Hit)
    PROVE  IsOrder(DOMAIN j.rows, XT!Places(j))
<1>1. PICK q \in Seq(Hit), w \in BOOLEAN : q = j.rows /\ w = j.words
  OBVIOUS
<1>2. PICK D : D = DOMAIN q
  OBVIOUS
<1>3. D \subseteq Int /\ \A k \in D : q[k] \in Hit
  BY <1>2
<1>4. \A k, m \in D : <<k, m>> \in XT!Places(j) <=>
         \/ XT!Before(w, q[k], q[m])
         \/ ~XT!Before(w, q[m], q[k]) /\ k < m
  BY <1>1, <1>2 DEF XT!Places
<1>5. ASSUME NEW k \in D
      PROVE  <<k, k>> \notin XT!Places(j)
  <2>1. ~XT!Before(w, q[k], q[k]) /\ ~(k < k)
    BY <1>3, BeforeFacts
  <2>. QED  BY <1>4, <2>1
<1>6. ASSUME NEW k \in D, NEW m \in D, k # m
      PROVE  <<k, m>> \in XT!Places(j) \/ <<m, k>> \in XT!Places(j)
  <2>1. k < m \/ m < k
    BY <1>3, <1>6
  <2>. QED  BY <1>4, <2>1
<1>7. ASSUME NEW k \in D, NEW m \in D, NEW l \in D,
             <<k, m>> \in XT!Places(j), <<m, l>> \in XT!Places(j)
      PROVE  <<k, l>> \in XT!Places(j)
  <2>1. PICK a \in Hit, b \in Hit, c \in Hit : a = q[k] /\ b = q[m] /\ c = q[l]
    BY <1>3
  <2>2. /\ XT!Before(w, a, b) \/ (~XT!Before(w, b, a) /\ k < m)
        /\ XT!Before(w, b, c) \/ (~XT!Before(w, c, b) /\ m < l)
    BY <1>4, <1>7, <2>1
  <2>3. /\ XT!Before(w, a, b) => ~XT!Before(w, b, a)
        /\ XT!Before(w, b, c) => ~XT!Before(w, c, b)
        /\ (~XT!Before(w, b, a) /\ ~XT!Before(w, c, b))
              => /\ ~XT!Before(w, c, a)
                 /\ (XT!Before(w, a, b) \/ XT!Before(w, b, c)) => XT!Before(w, a, c)
    BY BeforeFacts
  <2>4. (k < m /\ m < l) => k < l
    BY <1>3
  <2>5. XT!Before(w, a, c) \/ (~XT!Before(w, c, a) /\ k < l)
    BY <2>2, <2>3, <2>4
  <2>. QED  BY <1>4, <2>1, <2>5
<1>. QED  BY <1>1, <1>2, <1>5, <1>6, <1>7 DEF IsOrder

\* The first few in order are the best, and fewer than all only if they are as many as
\* may be.
LEMMA BestIsFound ==
    ASSUME NEW j \in SearchJob, HitsOK(j), NEW best, best = XT!Best(j), NEW chosen,
           chosen = XT!Range(best)
    PROVE  best \in Seq(Hit) /\ BestOnes(j.answers, j.words, j.limit, chosen)
<1>0. PICK matches : matches = {a \in j.answers : XT!Matches(j.words, a.tool)}
  OBVIOUS
<1>1. /\ j.rows \in Seq(Hit) /\ j.words \in BOOLEAN
      /\ \E q \in Seq(Hit), w \in BOOLEAN : q = j.rows /\ w = j.words
  BY DEF SearchJob
<1>a. PICK q \in Seq(Hit), w \in BOOLEAN : q = j.rows /\ w = j.words
  BY <1>1
<1>b. PICK D, few, R : D = DOMAIN q /\ few = XT!Limit(j.limit) /\ R = XT!Places(j)
  OBVIOUS
<1>2. PICK n \in Nat : n = Len(q) /\ D = 1 .. n
  BY <1>a, <1>b
<1>3. IsFiniteSet(D) /\ Cardinality(D) = n /\ \A k \in D : q[k] \in Hit
  <2>1. IsFiniteSet(1 .. n) /\ Cardinality(1 .. n) = IF 1 > n THEN 0 ELSE n - 1 + 1
    BY FS_Interval
  <2>2. IsFiniteSet(D) /\ Cardinality(D) = n
    BY <1>2, <2>1
  <2>3. \A k \in 1 .. n : q[k] \in Hit
    BY <1>2
  <2>. QED  BY <1>2, <2>2, <2>3
<1>4. IsOrder(D, R)
  <2>1. IsOrder(DOMAIN j.rows, XT!Places(j))
    BY <1>1, PlacesAreOrdered
  <2>. QED  BY <1>a, <1>b, <2>1
<1>5. PICK order : order = XT!Sorted(D, R)
  OBVIOUS
<1>6. /\ Len(order) = n /\ \A k \in 1 .. n : order[k] \in D
      /\ \A k, m \in 1 .. n : k < m <=> <<order[k], order[m]>> \in R
      /\ \A k, m \in 1 .. n : order[k] = order[m] => k = m
      /\ \A x \in D : \E k \in 1 .. n : order[k] = x
  <2>1. /\ Len(order) = Cardinality(D) /\ \A k \in 1 .. Len(order) : order[k] \in D
        /\ \A k, m \in 1 .. Len(order) : k < m <=> <<order[k], order[m]>> \in R
        /\ \A k, m \in 1 .. Len(order) : order[k] = order[m] => k = m
        /\ \A x \in D : \E k \in 1 .. Len(order) : order[k] = x
    BY <1>3, <1>4, <1>5, SortedOnce
  <2>2. Len(order) = n
    BY <1>3, <2>1
  <2>. QED  BY <2>1, <2>2
<1>7. few \in Nat /\ few > 0
  <2>1. j.limit \in Int
    BY ExtensionAssumption DEF SearchJob
  <2>. QED  BY <1>b, <2>1 DEF XT!Limit
<1>8. PICK N \in Nat : N = IF few < n THEN few ELSE n
  BY <1>7
<1>9. N <= n /\ N <= few /\ (N = few \/ N = n)
  BY <1>7, <1>8
<1>10. best = [k \in 1 .. N |-> q[order[k]]]
  <2>1. /\ XT!Sorted(DOMAIN j.rows, XT!Places(j)) = order /\ XT!Limit(j.limit) = few
        /\ j.rows = q
    BY <1>a, <1>b, <1>5
  <2>. QED  BY <1>6, <1>8, <2>1 DEF XT!Best
<1>11. \A k \in 1 .. N : k \in 1 .. n /\ order[k] \in D /\ best[k] = q[order[k]]
  BY <1>6, <1>9, <1>10
<1>12. best \in Seq(Hit)
  <2>1. best \in [1 .. N -> Hit]
    BY <1>3, <1>10, <1>11
  <2>. QED  BY <2>1
<1>13. chosen = {q[order[k]] : k \in 1 .. N}
  <2>1. DOMAIN best = 1 .. N
    BY <1>10
  <2>2. chosen = {best[k] : k \in DOMAIN best}
    BY DEF XT!Range
  <2>. QED  BY <1>11, <2>1, <2>2
<1>14. /\ \A k, m \in D : q[k] = q[m] => k = m
       /\ \A k \in D : q[k] \in matches
       /\ \A a \in matches : \E k \in D : q[k] = a
  BY <1>0, <1>a, <1>2 DEF HitsOK
<1>15. chosen \subseteq matches
  <2>1. ASSUME NEW k \in 1 .. N PROVE q[order[k]] \in matches
    BY <1>11, <1>14
  <2>. QED  BY <1>13, <2>1
<1>16. \A k \in 1 .. n : q[order[k]] \in chosen => k \in 1 .. N
  <2>. SUFFICES ASSUME NEW k \in 1 .. n, q[order[k]] \in chosen PROVE k \in 1 .. N
    OBVIOUS
  <2>1. PICK m \in 1 .. N : q[order[k]] = q[order[m]]
    BY <1>13
  <2>2. order[k] = order[m]
    BY <1>6, <1>11, <1>14, <2>1
  <2>3. k = m
    BY <1>6, <1>11, <2>2
  <2>. QED  BY <2>3
<1>17. \A a \in matches : \E k \in 1 .. n : q[order[k]] = a
  BY <1>6, <1>14
<1>18. ASSUME chosen # matches
       PROVE  XT!Cardinality(chosen) = few
  <2>1. N = few
    <3>. SUFFICES ASSUME N = n PROVE FALSE
      BY <1>9
    <3>1. matches \subseteq chosen
      BY <1>13, <1>17
    <3>. QED  BY <1>15, <1>18, <3>1
  <2>. DEFINE f == [k \in 1 .. N |-> q[order[k]]]
  <2>2. f \in [1 .. N -> chosen] /\ \A k \in 1 .. N : f[k] = q[order[k]]
    BY <1>13
  <2>. HIDE DEF f
  <2>3. \A k, m \in 1 .. N : f[k] = f[m] => k = m
    BY <1>6, <1>11, <1>14, <2>2
  <2>4. \A a \in chosen : \E k \in 1 .. N : f[k] = a
    <3>. SUFFICES ASSUME NEW a \in chosen PROVE \E k \in 1 .. N : f[k] = a
      OBVIOUS
    <3>1. PICK k \in 1 .. N : a = q[order[k]]
      BY <1>13
    <3>. QED  BY <2>2, <3>1
  <2>5. f \in Surjection(1 .. N, chosen)
    BY <2>2, <2>4 DEF Surjection
  <2>6. f \in Injection(1 .. N, chosen)
    BY <2>2, <2>3 DEF Injection, IsInjective
  <2>7. IsFiniteSet(1 .. N) /\ Cardinality(1 .. N) = N
    <3>1. IsFiniteSet(1 .. N) /\ Cardinality(1 .. N) = IF 1 > N THEN 0 ELSE N - 1 + 1
      BY FS_Interval
    <3>. QED  BY <3>1
  <2>8. Cardinality(chosen) = Cardinality(1 .. N)
    BY <2>5, <2>6, <2>7, FS_Surjection
  <2>9. XT!Cardinality(chosen) = Cardinality(chosen)
    BY ExtensionCardinality
  <2>. QED  BY <2>1, <2>7, <2>8, <2>9
<1>19. ASSUME NEW a \in chosen, NEW b \in matches \ chosen
       PROVE  ~XT!Before(w, b, a)
  <2>1. PICK k \in 1 .. N : a = q[order[k]]
    BY <1>13
  <2>2. PICK m \in 1 .. n : b = q[order[m]]
    BY <1>17, <1>19
  <2>3. k \in 1 .. n /\ k < m
    <3>1. m \notin 1 .. N
      BY <1>13, <1>19, <2>2
    <3>. QED  BY <1>9, <3>1
  <2>4. <<order[k], order[m]>> \in R
    BY <1>6, <2>3
  <2>5. XT!Before(w, a, b) \/ ~XT!Before(w, b, a)
    BY <1>a, <1>b, <2>1, <2>2, <2>4 DEF XT!Places
  <2>6. a \in Hit /\ b \in Hit
    BY <1>3, <1>6, <2>1, <2>2, <2>3
  <2>. QED  BY <2>5, <2>6, BeforeFacts
<1>20. BestOnes(j.answers, j.words, j.limit, chosen)
  BY <1>0, <1>a, <1>b, <1>15, <1>18, <1>19 DEF BestOnes
<1>. QED  BY <1>12, <1>20

LEMMA ExtensionsFound ==
    ASSUME ExtensionsInv, NEW h \in Handlers, XT!Found(h)
    PROVE  ExtensionsInv'
<1>1. PICK j, best : j = job[h] /\ best = XT!Best(j)
  OBVIOUS
<1>2. /\ j.at = "searching" /\ j.left = <<>> /\ UNCHANGED <<servers, skills, requests, given>>
      /\ XT!Goes(h, [j EXCEPT !.at = "found", !.rows = best])
  BY <1>1 DEF XT!Found
<1>3. JobOK(j, DOMAIN servers, DOMAIN skills, given)
  BY <1>1 DEF ExtensionsInv
<1>4. j \in SearchJob /\ SearchOK(j, DOMAIN servers)
  BY <1>2, <1>3 DEF JobOK, JobShape, XT!Idle, WriteJob, UseJob, EndJob
<1>5. HitsOK(j) /\ j.first = j.asked
  <2>1. Len(j.left) = 0
    BY <1>2
  <2>. QED  BY <1>4, <2>1 DEF SearchOK
<1>6. PICK chosen, new :
        chosen = XT!Range(best) /\ new = [j EXCEPT !.at = "found", !.rows = best]
  OBVIOUS
<1>7. best \in Seq(Hit) /\ BestOnes(j.answers, j.words, j.limit, chosen)
  BY <1>1, <1>4, <1>5, <1>6, BestIsFound
<1>8. /\ new \in SearchJob /\ new.at = "found" /\ new.rows = best /\ new.asked = j.asked
      /\ new.first = j.first /\ new.answers = j.answers /\ new.words = j.words
      /\ new.limit = j.limit
  BY <1>4, <1>6, <1>7 DEF SearchJob
<1>9. XT!Range(new.rows) = chosen
  BY <1>6, <1>8
<1>10. FoundOK(new)
  BY <1>5, <1>7, <1>8, <1>9 DEF FoundOK
<1>11. JobOK(new, DOMAIN servers, DOMAIN skills, given)
  BY <1>8, <1>10 DEF JobOK, JobShape
<1>12. XT!Goes(h, new)
  BY <1>2, <1>6
<1>. QED  BY <1>2, <1>11, <1>12, ExtensionsGoes

-----------------------------------------------------------------------------
(* Every step.                                                             *)

LEMMA ExtensionsStep == ExtensionsInv /\ [Next]_vars => ExtensionsInv'
<1>. SUFFICES ASSUME ExtensionsInv, [Next]_vars PROVE ExtensionsInv'
  OBVIOUS
<1>1. CASE UNCHANGED extensionsVars \/ XT!Over
  <2>1. UNCHANGED <<servers, skills, job, requests, given>>
    BY <1>1 DEF extensionsVars, XT!Over, XT!xvars
  <2>2. TablesOK'
    BY <2>1 DEF ExtensionsInv, TablesOK, XT!TypeOK, XT!SecretsStayWithTheirConnector
  <2>. QED  BY <2>1, <2>2 DEF ExtensionsInv
<1>2. ASSUME NEW h \in Handlers,
             \/ XT!ConfigureServer(h) \/ XT!ConfigureSkill(h) \/ XT!Write(h) \/ XT!ReadBack(h)
             \/ XT!DeleteServer(h) \/ XT!DeleteSkill(h) \/ XT!Chat(h) \/ XT!Respond(h)
             \/ XT!Listed(h) \/ XT!Called(h)
             \/ XT!Search(h) \/ XT!AskNext(h) \/ XT!Asked(h) \/ XT!Found(h)
      PROVE  ExtensionsInv'
  BY <1>2, ExtensionsConfigureServer, ExtensionsConfigureSkill, ExtensionsWrite,
     ExtensionsReadBack, ExtensionsDeleteServer, ExtensionsDeleteSkill, ExtensionsChatOrRespond,
     ExtensionsListedOrCalled, ExtensionsSearch, ExtensionsAskNext, ExtensionsAsked,
     ExtensionsFound
<1>3. ASSUME NEW h \in Handlers, XT!ListTools(h) \/ XT!CallTool(h)
      PROVE  ExtensionsInv'
  <2>1. PICK i \in Ids, what \in {"listing", "calling"} :
          XT!Use(h, i, what) /\ UNCHANGED <<servers, skills, given>>
    BY <1>3 DEF XT!ListTools, XT!CallTool
  <2>. QED  BY <2>1, ExtensionsUse
<1>4. UNCHANGED extensionsVars \/ XT!Next
  BY DEF Next, vars
<1>. QED  BY <1>1, <1>2, <1>3, <1>4 DEF XT!Next
\* What the invariant says of a job is what was to be shown.
LEMMA ExtensionsHold ==
    ExtensionsInv => XT!TypeOK /\ XT!SecretsStayWithTheirConnector /\ XT!SearchIsComplete
<1>. SUFFICES ASSUME ExtensionsInv PROVE XT!SearchIsComplete
  BY DEF ExtensionsInv, TablesOK
<1>1. ASSUME NEW h \in Handlers
      PROVE  /\ job[h].at = "answered" /\ job[h].outcome = "lost" => job[h].gone
             /\ job[h].at = "answered" /\ job[h].was = "searching" => job[h].gone
             /\ job[h].at = "found" => FoundOK(job[h])
  BY DEF ExtensionsInv, JobOK
<1>2. ASSUME NEW h \in Handlers, FoundOK(job[h])
      PROVE  LET j       == job[h]
                 best    == XT!Range(j.rows)
                 matches == {a \in j.answers : XT!Matches(j.words, a.tool)}
             IN  /\ j.asked = j.first /\ best \subseteq matches
                 /\ best # matches => XT!Cardinality(best) = XT!Limit(j.limit)
                 /\ \A a \in best, b \in matches \ best : ~XT!Before(j.words, b, a)
  BY <1>2 DEF FoundOK, BestOnes
<1>. SUFFICES ASSUME NEW h \in Handlers
              PROVE  LET j       == job[h]
                         best    == XT!Range(j.rows)
                         matches == {a \in j.answers : XT!Matches(j.words, a.tool)}
                     IN  /\ j.at = "answered" /\ j.outcome = "lost" => j.gone
                         /\ j.at = "answered" /\ j.was = "searching" => j.gone
                         /\ j.at = "found" =>
                              /\ j.asked = j.first /\ best \subseteq matches
                              /\ best # matches => XT!Cardinality(best) = XT!Limit(j.limit)
                              /\ \A a \in best, b \in matches \ best :
                                   ~XT!Before(j.words, b, a)
  BY DEF XT!SearchIsComplete
<1>. QED  BY <1>1, <1>2

\* Who records what a connector answered changes its count and its status at most, and
\* nobody else comes by an answer.
LEMMA LateAnswersStep ==
    ASSUME ExtensionsInv, [Next]_vars
    PROVE  XT!LateAnswersOnlyReport \/ UNCHANGED XT!xvars
<1>0. UNCHANGED XT!xvars \/ XT!Next
  BY DEF Next, vars, extensionsVars, XT!xvars
<1>. SUFFICES ASSUME XT!Next PROVE XT!LateAnswersOnlyReport
  BY <1>0
<1>. SUFFICES ASSUME NEW h \in Handlers,
                     job[h].at \in {"listing", "calling", "asking"}, job'[h].at # job[h].at
              PROVE  /\ DOMAIN servers' = DOMAIN servers
                     /\ \A i \in DOMAIN servers, field \in {"name", "secret", "enabled"} :
                          servers'[i][field] = servers[i][field]
  BY DEF XT!LateAnswersOnlyReport
<1>1. job = [k \in Handlers |-> job[k]] /\ TablesOK
  BY DEF ExtensionsInv, TablesOK
<1>2. ~XT!Over
  BY DEF XT!Over, XT!xvars
<1>3. \A k \in Handlers : \A new : job' = [job EXCEPT ![k] = new] => k = h
  BY <1>1
<1>4. PICK k \in Handlers :
         \/ XT!ConfigureServer(k) \/ XT!ConfigureSkill(k) \/ XT!Write(k) \/ XT!ReadBack(k)
         \/ XT!DeleteServer(k) \/ XT!DeleteSkill(k) \/ XT!Chat(k)
         \/ XT!ListTools(k) \/ XT!Listed(k) \/ XT!CallTool(k) \/ XT!Called(k)
         \/ XT!Search(k) \/ XT!AskNext(k) \/ XT!Asked(k) \/ XT!Found(k) \/ XT!Respond(k)
  BY <1>2 DEF XT!Next
<1>5. \/ XT!DeleteServer(k) \/ XT!DeleteSkill(k)
      \/ (XT!Listed(k) \/ XT!Called(k) \/ XT!Asked(k)) /\ k = h
  <2>1. ASSUME NEW new, job' = [job EXCEPT ![k] = new] PROVE k = h
    BY <1>3, <2>1
  <2>2. ASSUME XT!ConfigureServer(k) \/ XT!ConfigureSkill(k) \/ XT!Chat(k) \/ XT!Search(k)
        PROVE  FALSE
    <3>1. \E new : XT!Starts(k, new)
      <4>1. CASE XT!ConfigureServer(k)
        BY <4>1 DEF XT!ConfigureServer
      <4>2. CASE XT!ConfigureSkill(k)
        BY <4>2 DEF XT!ConfigureSkill
      <4>3. CASE XT!Chat(k)
        BY <4>3 DEF XT!Chat
      <4>4. CASE XT!Search(k)
        BY <4>4 DEF XT!Search
      <4>. QED  BY <2>2, <4>1, <4>2, <4>3, <4>4
    <3>2. job[k].at = "idle" /\ \E new : job' = [job EXCEPT ![k] = new]
      BY <3>1 DEF XT!Starts
    <3>. QED  BY <2>1, <3>2
  <2>3. ASSUME XT!ListTools(k) \/ XT!CallTool(k)
        PROVE  FALSE
    <3>1. job[k].at = "idle" /\ \E new : job' = [job EXCEPT ![k] = new]
      BY <2>3 DEF XT!ListTools, XT!CallTool, XT!Use, XT!Starts
    <3>. QED  BY <2>1, <3>1
  <2>4. ASSUME XT!Write(k) \/ XT!ReadBack(k)
        PROVE  FALSE
    <3>1. job[k].at \in {"writing", "written"} /\ \E new : job' = [job EXCEPT ![k] = new]
      BY <2>4 DEF XT!Write, XT!ReadBack, XT!Goes
    <3>. QED  BY <2>1, <3>1
  <2>5. ASSUME XT!AskNext(k) \/ XT!Found(k)
        PROVE  FALSE
    <3>1. job[k].at = "searching" /\ \E new : job' = [job EXCEPT ![k] = new]
      BY <2>5 DEF XT!AskNext, XT!Found, XT!Goes
    <3>. QED  BY <2>1, <3>1
  <2>6. ASSUME XT!Respond(k)
        PROVE  FALSE
    <3>1. job[k].at \in {"answered", "found", "prompted"}
          /\ \E new : job' = [job EXCEPT ![k] = new]
      BY <2>6 DEF XT!Respond, XT!Ends
    <3>. QED  BY <2>1, <3>1
  <2>7. ASSUME XT!Listed(k) \/ XT!Called(k) \/ XT!Asked(k)
        PROVE  k = h
    <3>1. \E new : job' = [job EXCEPT ![k] = new]
      BY <2>7 DEF XT!Listed, XT!Called, XT!Asked, XT!Goes
    <3>. QED  BY <2>1, <3>1
  <2>. QED  BY <1>4, <2>2, <2>3, <2>4, <2>5, <2>6, <2>7
<1>6. ~XT!DeleteServer(k) /\ ~XT!DeleteSkill(k)
  <2>1. ASSUME NEW i, NEW table, job' = XT!Gone(i, table)
        PROVE  job'[h].at = job[h].at
    <3>1. PICK j : j = job[h] /\ JobOK(j, DOMAIN servers, DOMAIN skills, given)
      BY DEF ExtensionsInv
    <3>2. \/ job'[h] = j
          \/ job'[h] = [j EXCEPT !.gone = TRUE] /\ j.at = "asking"
      BY <2>1, <3>1 DEF XT!Gone
    <3>3. j.at = "asking" => j \in SearchJob
      BY <3>1, JobKinds DEF JobOK
    <3>4. \A g : [j EXCEPT !.gone = g].at = j.at \/ j \notin SearchJob
      BY DEF SearchJob
    <3>. QED  BY <3>1, <3>2, <3>3, <3>4
  <2>. QED  BY <2>1 DEF XT!DeleteServer, XT!DeleteSkill
<1>7. JobOK(job[h], DOMAIN servers, DOMAIN skills, given)
  BY DEF ExtensionsInv
<1>8. PICK number \in 0 .. XT!Cardinality(Tools), status \in {"ready", "error"} :
        job[h].id \in Ids /\ \E prior : servers' = XT!Recorded(job[h].id, prior, status, number)
  <2>1. PICK j : j = job[h]
    OBVIOUS
  <2>2. JobOK(j, DOMAIN servers, DOMAIN skills, given)
    BY <1>7, <2>1
  <2>3. CASE j.at = "asking"
    <3>1. j \in SearchJob /\ SearchOK(j, DOMAIN servers)
      BY <2>2, <2>3, JobKinds DEF JobOK
    <3>2. j.id = j.left[1] /\ Len(j.left) > 0
      BY <2>3, <3>1 DEF SearchOK
    <3>3. j.left \in Seq(Ids)
      BY <3>1 DEF SearchJob
    <3>4. j.id \in Ids
      BY <3>2, <3>3
    <3>5. \/ \E offered \in SUBSET Tools :
               servers' = XT!Recorded(j.id, j.row, "ready", XT!Cardinality(offered))
          \/ servers' = XT!Recorded(j.id, j.row, "error", 0)
      BY <1>5, <1>6, <2>1, <2>3 DEF XT!Asked, XT!Listed, XT!Called
    <3>. QED  BY <2>1, <3>4, <3>5, OfferedFacts
  <2>4. CASE j.at \in {"listing", "calling"}
    <3>1. j \in UseJob
      BY <2>2, <2>4, JobKinds DEF JobOK
    <3>2. j.id \in Ids /\ j.row.tools \in 0 .. XT!Cardinality(Tools)
      BY <3>1 DEF UseJob, XT!Row
    <3>3. \/ \E offered \in SUBSET Tools :
               servers' = XT!Recorded(j.id, j.row, "ready", XT!Cardinality(offered))
          \/ servers' = XT!Recorded(j.id, j.row, "error", 0)
          \/ \E status \in {"ready", "error"} :
               servers' = XT!Recorded(j.id, j.row, status, j.row.tools)
      BY <1>5, <1>6, <2>1, <2>4 DEF XT!Asked, XT!Listed, XT!Called
    <3>. QED  BY <2>1, <3>2, <3>3, OfferedFacts
  <2>. QED  BY <2>1, <2>3, <2>4
<1>9. status \in {"none", "ready", "error"} /\ TablesOK
  BY <1>1
<1>10. PICK i, prior :
         i = job[h].id /\ i \in Ids /\ servers' = XT!Recorded(i, prior, status, number)
  BY <1>8
<1>. QED  BY <1>9, <1>10, RecordedFacts

-----------------------------------------------------------------------------
(* The launchers of other applications (DesktopProfiles).                  *)

Stored    == [there : BOOLEAN, value : [DP!Targets -> DP!Values]]
Restoring == command \in {"restore", "forget", "stop", "restored"}
Pending   == {left[i] : i \in 1 .. Len(left)}
Managed   == DP!Mine

FileTypes ==
    /\ kind \in DP!Kinds
    /\ value \in [DP!Targets -> DP!Values]
    /\ users \in [DP!Targets -> DP!Values \ {DP!Ours}]
    /\ state \in Stored /\ snapshot \in Stored
    /\ userEdits \in 0 .. MaxUserEdits

RelayTypes ==
    spawned \in Nat /\ running \subseteq 1 .. spawned /\ recorded \in 0 .. spawned

CommandTypes ==
    /\ command \in {"idle", "relay", "spawn", "health", "connect", "write", "restart",
                    "restore", "forget", "stop", "restored"}
    /\ remote \in BOOLEAN
    /\ left \in Seq(Managed) /\ Len(left) <= Len(DP!Configured(kind))

\* A restore works from the state until it forgets it.
SnapshotIsRight ==
    /\ command \in {"restore", "forget"} => snapshot = state
    /\ command \in {"stop", "restored"} => ~state.there
    /\ ~Restoring => ~snapshot.there
    /\ command \in {"write", "restart"} => state.there

\* What is captured is what the user had, and a file has this or MachBoost's value.
CapturedIsUsers ==
    /\ state.there => /\ state.value = users
                      /\ \A f \in DP!Targets : value[f] \in {DP!Ours, users[f]}
    /\ snapshot.there => snapshot.value = users

\* MachBoost's value is in no file that it has not captured before.
NothingOursIsLeft ==
    ~state.there => /\ \A f \in DP!Targets : value[f] # DP!Ours
                    /\ value = users \/ (Restoring /\ ~snapshot.there)

\* Only the files of the launcher are written; the catalog of ChatGPT is MachBoost's own.
OnlyManaged ==
    /\ \A f \in DP!Targets \ Managed : value[f] # DP!Ours
    /\ kind = "chatgpt" => /\ value["catalog"] \in {DP!Ours, DP!Missing}
                           /\ users["catalog"] = DP!Missing

\* A command goes through all of its files.
FilesAreDone ==
    /\ command \in {"relay", "spawn", "health", "connect", "write", "restore"} => left # <<>>
    /\ command = "restore" /\ snapshot.there =>
          \A f \in Managed : value[f] = users[f] \/ f \in Pending
    /\ command = "forget" /\ snapshot.there => value = users

RelaysAreKnown ==
    /\ command \in {"spawn", "health"} => recorded = 0
    /\ kind = "codex" => running = {} /\ command \notin {"relay", "spawn", "health", "stop"}
    /\ DP!NoRelayIsLost

ProfilesInv ==
    /\ FileTypes /\ RelayTypes /\ CommandTypes
    /\ SnapshotIsRight /\ CapturedIsUsers /\ NothingOursIsLeft
    /\ OnlyManaged /\ FilesAreDone /\ RelaysAreKnown

LEMMA ElementsOfTwo ==
    ASSUME NEW a, NEW b
    PROVE  /\ <<a, b>> \in Seq({a, b}) /\ <<a, b>> # <<>> /\ Len(<<a, b>>) = 2
           /\ {<<a, b>>[i] : i \in 1 .. Len(<<a, b>>)} = {a, b}
<1>1. Len(<<a, b>>) = 2 /\ <<a, b>>[1] = a /\ <<a, b>>[2] = b
  OBVIOUS
<1>2. 1 .. 2 = {1, 2}
  OBVIOUS
<1>. QED  BY <1>1, <1>2

LEMMA ElementsOfThree ==
    ASSUME NEW a, NEW b, NEW c
    PROVE  /\ <<a, b, c>> \in Seq({a, b, c}) /\ <<a, b, c>> # <<>> /\ Len(<<a, b, c>>) = 3
           /\ {<<a, b, c>>[i] : i \in 1 .. Len(<<a, b, c>>)} = {a, b, c}
<1>1. Len(<<a, b, c>>) = 3 /\ <<a, b, c>>[1] = a /\ <<a, b, c>>[2] = b /\ <<a, b, c>>[3] = c
  OBVIOUS
<1>2. 1 .. 3 = {1, 2, 3}
  OBVIOUS
<1>. QED  BY <1>1, <1>2

AllFiles(q) ==
    /\ q \in Seq(Managed) /\ q # <<>> /\ Len(q) = Len(DP!Configured(kind))
    /\ Managed = {q[i] : i \in 1 .. Len(q)}

\* A configure and a restore go through all the files of their launcher.
LEMMA ManagedFiles ==
    ASSUME kind \in DP!Kinds
    PROVE  /\ Managed \subseteq DP!Targets
           /\ AllFiles(DP!Configured(kind)) /\ AllFiles(DP!Restored(kind))
<1>1. CASE kind = "codex"
  <2>1. DP!Configured(kind) = <<"catalog", "profile">>
    BY <1>1 DEF DP!Configured
  <2>2. DP!Restored(kind) = <<"profile", "catalog">>
    BY <1>1 DEF DP!Restored
  <2>3. Managed = {"catalog", "profile"} /\ {"catalog", "profile"} = {"profile", "catalog"}
    BY <2>1 DEF Managed, DP!Mine, DP!Range
  <2>4. Managed \subseteq DP!Targets
    BY <2>3 DEF DP!Targets
  <2>5. AllFiles(DP!Configured(kind))
    BY <2>1, <2>3, ElementsOfTwo DEF AllFiles
  <2>6. AllFiles(DP!Restored(kind))
    BY <2>1, <2>2, <2>3, ElementsOfTwo DEF AllFiles
  <2>. QED  BY <2>4, <2>5, <2>6
<1>2. CASE kind = "chatgpt"
  <2>1. DP!Configured(kind) = <<"catalog", "config">>
    BY <1>2 DEF DP!Configured
  <2>2. DP!Restored(kind) = <<"config", "catalog">>
    BY <1>2 DEF DP!Restored
  <2>3. Managed = {"catalog", "config"} /\ {"catalog", "config"} = {"config", "catalog"}
    BY <2>1 DEF Managed, DP!Mine, DP!Range
  <2>4. Managed \subseteq DP!Targets
    BY <2>3 DEF DP!Targets
  <2>5. AllFiles(DP!Configured(kind))
    BY <2>1, <2>3, ElementsOfTwo DEF AllFiles
  <2>6. AllFiles(DP!Restored(kind))
    BY <2>1, <2>2, <2>3, ElementsOfTwo DEF AllFiles
  <2>. QED  BY <2>4, <2>5, <2>6
<1>3. CASE kind = "claude"
  <2>1. DP!Configured(kind) = <<"mode", "meta", "profile">>
    BY <1>3 DEF DP!Configured
  <2>2. DP!Restored(kind) = <<"mode", "meta", "profile">>
    BY <1>3 DEF DP!Restored
  <2>3. Managed = {"mode", "meta", "profile"}
    BY <2>1 DEF Managed, DP!Mine, DP!Range
  <2>4. Managed \subseteq DP!Targets
    BY <2>3 DEF DP!Targets
  <2>5. AllFiles(DP!Configured(kind))
    BY <2>1, <2>3, ElementsOfThree DEF AllFiles
  <2>6. AllFiles(DP!Restored(kind))
    BY <2>1, <2>2, <2>3, ElementsOfThree DEF AllFiles
  <2>. QED  BY <2>4, <2>5, <2>6
<1>. QED  BY <1>1, <1>2, <1>3 DEF DP!Kinds

LEMMA NextFile ==
    ASSUME NEW S, NEW q \in Seq(S), q # <<>>
    PROVE  /\ Head(q) \in S /\ Tail(q) \in Seq(S) /\ Len(Tail(q)) = Len(q) - 1
           /\ {q[i] : i \in 1 .. Len(q)}
                = {Head(q)} \cup {Tail(q)[i] : i \in 1 .. Len(Tail(q))}
<1>1. /\ Len(q) \in Nat /\ Len(q) > 0 /\ Head(q) = q[1] /\ Head(q) \in S
      /\ Tail(q) \in Seq(S) /\ Len(Tail(q)) = Len(q) - 1
      /\ \A i \in 1 .. Len(q) - 1 : Tail(q)[i] = q[i + 1]
  OBVIOUS
<1>2. \A i \in 1 .. Len(q) : i = 1 \/ (i - 1 \in 1 .. Len(q) - 1 /\ q[i] = Tail(q)[i - 1])
  BY <1>1
<1>3. ASSUME NEW i \in 1 .. Len(q) - 1
      PROVE  i + 1 \in 1 .. Len(q) /\ q[i + 1] = Tail(q)[i]
  BY <1>1
<1>4. {q[i] : i \in 1 .. Len(q)} \subseteq {Head(q)} \cup {Tail(q)[i] : i \in 1 .. Len(Tail(q))}
  BY <1>1, <1>2
<1>5. {Tail(q)[i] : i \in 1 .. Len(Tail(q))} \subseteq {q[i] : i \in 1 .. Len(q)}
  BY <1>1, <1>3
<1>6. Head(q) \in {q[i] : i \in 1 .. Len(q)}
  BY <1>1
<1>. QED  BY <1>1, <1>4, <1>5, <1>6

LEMMA ProfilesInit == Init => ProfilesInv
<1> SUFFICES ASSUME Init PROVE ProfilesInv
  OBVIOUS
<1>0. DP!Init
  BY DEF Init
<1>1. left = <<>> /\ command = "idle"
  BY <1>0 DEF DP!Init
<1>2. left \in Seq(Managed) /\ Len(left) = 0
  BY <1>1
<1>3. Len(DP!Configured(kind)) \in Nat
  BY <1>0, ManagedFiles DEF DP!Init, AllFiles
<1>4. DP!NoState \in Stored /\ DP!NoState.there = FALSE
  BY DEF DP!NoState, Stored, DP!Values
<1>5. FileTypes /\ RelayTypes /\ CommandTypes
  <2>1. remote \in BOOLEAN
    BY <1>0, Zenon DEF DP!Init
  <2>2. value \in [DP!Targets -> DP!Values] /\ users \in [DP!Targets -> DP!Values \ {DP!Ours}]
    BY <1>0 DEF DP!Init, DP!Values, DP!Ours, DP!Missing
  <2>. QED  BY <1>0, <1>2, <1>3, <1>4, <2>1, <2>2, ProfileAssumption DEF DP!Init, FileTypes,
               RelayTypes, CommandTypes
<1>6. SnapshotIsRight /\ CapturedIsUsers
  BY <1>0, <1>4 DEF DP!Init, SnapshotIsRight, CapturedIsUsers, Restoring
<1>7. NothingOursIsLeft /\ OnlyManaged
  BY <1>0 DEF DP!Init, NothingOursIsLeft, OnlyManaged, DP!Missing, DP!Ours, DP!Targets
<1>8. FilesAreDone /\ RelaysAreKnown
  BY <1>0 DEF DP!Init, FilesAreDone, RelaysAreKnown, DP!NoRelayIsLost
<1>. QED  BY <1>5, <1>6, <1>7, <1>8 DEF ProfilesInv

LEMMA ProfilesHold ==
    ASSUME ProfilesInv
    PROVE  /\ DP!TypeOK /\ DP!RestoreGivesBack
           /\ DP!CapturedIsTheUsers /\ DP!NoRelayIsLost
<1>0. Managed \subseteq DP!Targets
  BY ManagedFiles DEF ProfilesInv, FileTypes
<1>1. DP!TypeOK
  BY DEF ProfilesInv, FileTypes, RelayTypes, CommandTypes, Stored, DP!TypeOK
<1>2. DP!RestoreGivesBack
  BY <1>0 DEF ProfilesInv, SnapshotIsRight, CapturedIsUsers, NothingOursIsLeft,
         Managed, DP!RestoreGivesBack
<1>3. DP!CapturedIsTheUsers
  BY DEF ProfilesInv, CapturedIsUsers, DP!CapturedIsTheUsers
<1>4. DP!NoRelayIsLost
  BY DEF ProfilesInv, RelaysAreKnown
<1>. QED  BY <1>1, <1>2, <1>3, <1>4

LEMMA ProfilesUserEdits ==
    ASSUME ProfilesInv, DP!UserEdits
    PROVE  ProfilesInv'
<1>1. UNCHANGED <<kind, state, snapshot, spawned, running, recorded, command, remote,
                  left, lost>>
  BY DEF DP!UserEdits, DP!files, DP!relays, DP!command, DP!bounds
<1>2. Managed' = Managed /\ Managed \subseteq DP!Targets
      /\ AllFiles(DP!Configured(kind)) /\ AllFiles(DP!Restored(kind))
  BY <1>1, ManagedFiles DEF Managed, DP!Mine, ProfilesInv, FileTypes
<1>3. FileTypes'
  <2>1. PICK f \in Managed, v \in {userEdits + 1, DP!Missing} :
          value' = [value EXCEPT ![f] = v] /\ users' = [users EXCEPT ![f] = v]
    BY DEF DP!UserEdits, Managed
  <2>2. v \in DP!Values \ {DP!Ours} /\ userEdits' \in 0 .. MaxUserEdits
    BY ProfileAssumption DEF DP!UserEdits, ProfilesInv, FileTypes, DP!Values, DP!Ours,
           DP!Missing
  <2>. QED  BY <1>1, <1>2, <2>1, <2>2 DEF ProfilesInv, FileTypes
<1>4. CapturedIsUsers'
  BY <1>1, <1>2 DEF ProfilesInv, CapturedIsUsers, SnapshotIsRight, NothingOursIsLeft,
     OnlyManaged, FilesAreDone, FileTypes, Stored, Restoring, DP!UserEdits
<1>5. NothingOursIsLeft'
  BY <1>1, <1>2 DEF ProfilesInv, NothingOursIsLeft, CapturedIsUsers, SnapshotIsRight,
     OnlyManaged, FilesAreDone, FileTypes, Stored, Restoring, DP!Ours, DP!Missing,
     DP!UserEdits
<1>6. OnlyManaged'
  BY <1>1, <1>2 DEF ProfilesInv, OnlyManaged, NothingOursIsLeft, CapturedIsUsers,
     SnapshotIsRight, FileTypes, Restoring, Stored, DP!Ours, DP!Missing, DP!Targets,
     DP!UserEdits
<1>7. FilesAreDone'
  BY <1>1, <1>2 DEF ProfilesInv, FilesAreDone, OnlyManaged, CapturedIsUsers,
     NothingOursIsLeft, SnapshotIsRight, FileTypes, AllFiles, Pending, Restoring, Stored,
     DP!UserEdits
<1>8. RelayTypes' /\ CommandTypes' /\ SnapshotIsRight' /\ RelaysAreKnown'
  BY <1>1, <1>2 DEF ProfilesInv, RelayTypes, CommandTypes, SnapshotIsRight, RelaysAreKnown,
     DP!NoRelayIsLost, Restoring, Pending, DP!UserEdits
<1>. QED  BY <1>3, <1>4, <1>5, <1>6, <1>7, <1>8 DEF ProfilesInv

LEMMA ProfilesRelayEnds ==
    ASSUME ProfilesInv, DP!RelayEnds
    PROVE  ProfilesInv'
<1>1. UNCHANGED <<kind, value, users, state, snapshot, spawned, recorded, command,
                  remote, left, userEdits, lost>>
  BY DEF DP!RelayEnds, DP!files, DP!relays, DP!command, DP!bounds
<1>2. Managed' = Managed /\ Managed \subseteq DP!Targets
      /\ AllFiles(DP!Configured(kind)) /\ AllFiles(DP!Restored(kind))
  BY <1>1, ManagedFiles DEF Managed, DP!Mine, ProfilesInv, FileTypes
<1>3. RelayTypes'
  BY <1>1, <1>2 DEF ProfilesInv, RelayTypes, DP!RelayEnds
<1>4. RelaysAreKnown'
  BY <1>1, <1>2 DEF ProfilesInv, RelaysAreKnown, RelayTypes, DP!NoRelayIsLost, DP!RelayEnds
<1>5. FileTypes' /\ CommandTypes' /\ SnapshotIsRight' /\ CapturedIsUsers'
      /\ NothingOursIsLeft' /\ OnlyManaged' /\ FilesAreDone'
  BY <1>1, <1>2 DEF ProfilesInv, FileTypes, CommandTypes, SnapshotIsRight, CapturedIsUsers,
     NothingOursIsLeft, OnlyManaged, FilesAreDone, DP!NoRelayIsLost, Restoring, Pending,
     DP!RelayEnds
<1>. QED  BY <1>3, <1>4, <1>5 DEF ProfilesInv

LEMMA ProfilesStopOld ==
    ASSUME ProfilesInv, DP!StopOld
    PROVE  ProfilesInv'
<1>1. UNCHANGED <<kind, value, users, state, snapshot, spawned, remote, left, userEdits, lost>>
  BY DEF DP!StopOld, DP!StopRelay, DP!files, DP!relays, DP!command, DP!bounds
<1>2. Managed' = Managed /\ Managed \subseteq DP!Targets
      /\ AllFiles(DP!Configured(kind)) /\ AllFiles(DP!Restored(kind))
  BY <1>1, ManagedFiles DEF Managed, DP!Mine, ProfilesInv, FileTypes
<1>3. RelayTypes'
  BY <1>1, <1>2 DEF ProfilesInv, RelayTypes, DP!StopOld, DP!StopRelay
<1>4. CommandTypes'
  BY <1>1, <1>2 DEF ProfilesInv, CommandTypes, AllFiles, DP!StopOld, DP!StopRelay
<1>5. SnapshotIsRight'
  BY <1>1, <1>2 DEF ProfilesInv, SnapshotIsRight, Restoring, DP!NoState, DP!StopOld,
     DP!StopRelay
<1>6. NothingOursIsLeft'
  BY <1>1, <1>2 DEF ProfilesInv, NothingOursIsLeft, CapturedIsUsers, SnapshotIsRight,
     OnlyManaged, FilesAreDone, FileTypes, Stored, Restoring, DP!Ours, DP!Missing,
     DP!StopOld, DP!StopRelay
<1>7. FilesAreDone'
  BY <1>1, <1>2 DEF ProfilesInv, FilesAreDone, OnlyManaged, CapturedIsUsers,
     NothingOursIsLeft, SnapshotIsRight, FileTypes, AllFiles, Pending, Restoring, Stored,
     DP!StopOld, DP!StopRelay
<1>8. RelaysAreKnown'
  BY <1>1, <1>2 DEF ProfilesInv, RelaysAreKnown, RelayTypes, DP!NoRelayIsLost, DP!StopOld,
     DP!StopRelay
<1>9. FileTypes' /\ CapturedIsUsers' /\ OnlyManaged'
  BY <1>1, <1>2 DEF ProfilesInv, FileTypes, CapturedIsUsers, OnlyManaged, DP!NoRelayIsLost,
     Restoring, Pending, DP!StopOld
<1>. QED  BY <1>3, <1>4, <1>5, <1>6, <1>7, <1>8, <1>9 DEF ProfilesInv

LEMMA ProfilesSpawn ==
    ASSUME ProfilesInv, DP!Spawn
    PROVE  ProfilesInv'
<1>1. UNCHANGED <<kind, value, users, state, snapshot, recorded, remote, left, userEdits, lost>>
  BY DEF DP!Spawn, DP!files, DP!relays, DP!command, DP!bounds
<1>2. Managed' = Managed /\ Managed \subseteq DP!Targets
      /\ AllFiles(DP!Configured(kind)) /\ AllFiles(DP!Restored(kind))
  BY <1>1, ManagedFiles DEF Managed, DP!Mine, ProfilesInv, FileTypes
<1>3. RelayTypes'
  BY <1>1, <1>2 DEF ProfilesInv, RelayTypes, DP!Spawn
<1>4. CommandTypes'
  BY <1>1, <1>2 DEF ProfilesInv, CommandTypes, AllFiles, DP!Spawn
<1>5. SnapshotIsRight'
  BY <1>1, <1>2 DEF ProfilesInv, SnapshotIsRight, Restoring, DP!NoState, DP!Spawn
<1>6. NothingOursIsLeft'
  BY <1>1, <1>2 DEF ProfilesInv, NothingOursIsLeft, CapturedIsUsers, SnapshotIsRight,
     OnlyManaged, FilesAreDone, FileTypes, Stored, Restoring, DP!Ours, DP!Missing, DP!Spawn
<1>7. FilesAreDone'
  BY <1>1, <1>2 DEF ProfilesInv, FilesAreDone, OnlyManaged, CapturedIsUsers,
     NothingOursIsLeft, SnapshotIsRight, FileTypes, AllFiles, Pending, Restoring, Stored,
     DP!Spawn
<1>8. RelaysAreKnown'
  BY <1>1, <1>2 DEF ProfilesInv, RelaysAreKnown, RelayTypes, DP!NoRelayIsLost, DP!Spawn
<1>9. FileTypes' /\ CapturedIsUsers' /\ OnlyManaged'
  BY <1>1, <1>2 DEF ProfilesInv, FileTypes, CapturedIsUsers, OnlyManaged, DP!NoRelayIsLost,
     Restoring, Pending, DP!Spawn
<1>. QED  BY <1>3, <1>4, <1>5, <1>6, <1>7, <1>8, <1>9 DEF ProfilesInv

LEMMA ProfilesHealthy ==
    ASSUME ProfilesInv, DP!Healthy
    PROVE  ProfilesInv'
<1>1. UNCHANGED <<kind, value, users, state, snapshot, spawned, remote, userEdits, lost>>
  BY DEF DP!Healthy, DP!Terminated, DP!files, DP!relays, DP!command, DP!bounds
<1>2. Managed' = Managed /\ Managed \subseteq DP!Targets
      /\ AllFiles(DP!Configured(kind)) /\ AllFiles(DP!Restored(kind))
  BY <1>1, ManagedFiles DEF Managed, DP!Mine, ProfilesInv, FileTypes
<1>3. RelayTypes'
  <2>1. running' \subseteq running /\ recorded' \in {recorded, spawned}
    BY DEF DP!Healthy, DP!Terminated
  <2>. QED  BY <1>1, <2>1 DEF ProfilesInv, RelayTypes
<1>4. CommandTypes'
  BY <1>1, <1>2 DEF ProfilesInv, CommandTypes, AllFiles, DP!Healthy, DP!Terminated
<1>5. SnapshotIsRight'
  BY <1>1, <1>2 DEF ProfilesInv, SnapshotIsRight, Restoring, DP!NoState, DP!Healthy,
     DP!Terminated
<1>6. NothingOursIsLeft'
  BY <1>1, <1>2 DEF ProfilesInv, NothingOursIsLeft, CapturedIsUsers, SnapshotIsRight,
     OnlyManaged, FilesAreDone, FileTypes, Stored, Restoring, DP!Ours, DP!Missing,
     DP!Healthy, DP!Terminated
<1>7. FilesAreDone'
  BY <1>1, <1>2 DEF ProfilesInv, FilesAreDone, OnlyManaged, CapturedIsUsers,
     NothingOursIsLeft, SnapshotIsRight, FileTypes, AllFiles, Pending, Restoring, Stored,
     DP!Healthy, DP!Terminated
<1>8. RelaysAreKnown'
  <2>0. 0 \notin running
    BY DEF ProfilesInv, RelayTypes
  <2>1. /\ command = "health" /\ recorded = 0
        /\ ~lost => running \subseteq {spawned}
    BY <2>0 DEF DP!Healthy, ProfilesInv, RelaysAreKnown, DP!NoRelayIsLost
  <2>2. \/ command' = "connect" /\ recorded' = spawned /\ running' = running
        \/ command' = "idle" /\ recorded' = recorded /\ running' = running \ {spawned}
    BY DEF DP!Healthy, DP!Terminated
  <2>3. ~lost => running' \subseteq {recorded'}
    BY <2>1, <2>2
  <2>4. kind # "codex"
    BY <2>1 DEF ProfilesInv, RelaysAreKnown
  <2>. QED  BY <1>1, <2>2, <2>3, <2>4 DEF RelaysAreKnown, DP!NoRelayIsLost
<1>9. FileTypes' /\ CapturedIsUsers' /\ OnlyManaged'
  BY <1>1, <1>2 DEF ProfilesInv, FileTypes, CapturedIsUsers, OnlyManaged, DP!NoRelayIsLost,
     Restoring, Pending, DP!Healthy
<1>. QED  BY <1>3, <1>4, <1>5, <1>6, <1>7, <1>8, <1>9 DEF ProfilesInv

LEMMA ProfilesLaunch ==
    ASSUME ProfilesInv, DP!Launch
    PROVE  ProfilesInv'
<1>1. UNCHANGED <<kind, value, users, state, snapshot, spawned, running, recorded,
                  userEdits, lost>>
  BY DEF DP!Launch, DP!Relayed, DP!files, DP!relays, DP!command, DP!bounds
<1>2. Managed' = Managed /\ Managed \subseteq DP!Targets
      /\ AllFiles(DP!Configured(kind)) /\ AllFiles(DP!Restored(kind))
  BY <1>1, ManagedFiles DEF Managed, DP!Mine, ProfilesInv, FileTypes
<1>3. CommandTypes'
  BY <1>1, <1>2 DEF ProfilesInv, CommandTypes, AllFiles, DP!Launch, DP!Relayed
<1>4. SnapshotIsRight'
  BY <1>1, <1>2 DEF ProfilesInv, SnapshotIsRight, Restoring, DP!NoState, DP!Launch,
     DP!Relayed
<1>5. NothingOursIsLeft'
  BY <1>1, <1>2 DEF ProfilesInv, NothingOursIsLeft, CapturedIsUsers, SnapshotIsRight,
     OnlyManaged, FilesAreDone, FileTypes, Stored, Restoring, DP!Ours, DP!Missing,
     DP!Launch, DP!Relayed
<1>6. FilesAreDone'
  BY <1>1, <1>2 DEF ProfilesInv, FilesAreDone, OnlyManaged, CapturedIsUsers,
     NothingOursIsLeft, SnapshotIsRight, FileTypes, AllFiles, Pending, Restoring, Stored,
     DP!Launch, DP!Relayed
<1>7. RelaysAreKnown'
  BY <1>1, <1>2 DEF ProfilesInv, RelaysAreKnown, RelayTypes, DP!NoRelayIsLost, DP!Launch,
     DP!Relayed
<1>8. FileTypes' /\ RelayTypes' /\ CapturedIsUsers' /\ OnlyManaged'
  BY <1>1, <1>2 DEF ProfilesInv, FileTypes, RelayTypes, CapturedIsUsers, OnlyManaged,
     DP!NoRelayIsLost, Restoring, Pending, DP!Launch
<1>. QED  BY <1>3, <1>4, <1>5, <1>6, <1>7, <1>8 DEF ProfilesInv

LEMMA ProfilesGiveUp ==
    ASSUME ProfilesInv, DP!GiveUp
    PROVE  ProfilesInv'
<1>1. UNCHANGED <<kind, value, users, state, snapshot, spawned, remote, userEdits, lost>>
  BY DEF DP!GiveUp, DP!StopRelay, DP!files, DP!relays, DP!command, DP!bounds
<1>2. Managed' = Managed /\ Managed \subseteq DP!Targets
      /\ AllFiles(DP!Configured(kind)) /\ AllFiles(DP!Restored(kind))
  BY <1>1, ManagedFiles DEF Managed, DP!Mine, ProfilesInv, FileTypes
<1>3. RelayTypes'
  <2>1. running' \subseteq running /\ recorded' \in {recorded, 0}
    BY DEF DP!GiveUp, DP!StopRelay, DP!relays
  <2>. QED  BY <1>1, <2>1 DEF ProfilesInv, RelayTypes
<1>4. CommandTypes'
  BY <1>1, <1>2 DEF ProfilesInv, CommandTypes, AllFiles, DP!GiveUp, DP!StopRelay
<1>5. SnapshotIsRight'
  BY <1>1, <1>2 DEF ProfilesInv, SnapshotIsRight, Restoring, DP!NoState, DP!GiveUp,
     DP!StopRelay
<1>6. NothingOursIsLeft'
  BY <1>1, <1>2 DEF ProfilesInv, NothingOursIsLeft, CapturedIsUsers, SnapshotIsRight,
     OnlyManaged, FilesAreDone, FileTypes, Stored, Restoring, DP!Ours, DP!Missing,
     DP!GiveUp, DP!StopRelay
<1>7. FilesAreDone'
  BY <1>1, <1>2 DEF ProfilesInv, FilesAreDone, OnlyManaged, CapturedIsUsers,
     NothingOursIsLeft, SnapshotIsRight, FileTypes, AllFiles, Pending, Restoring, Stored,
     DP!GiveUp, DP!StopRelay
<1>8. RelaysAreKnown'
  <2>1. command \in {"connect", "restart"} /\ command' = "idle"
    BY DEF DP!GiveUp
  <2>2. \/ recorded' = 0 /\ running' = running \ {recorded}
        \/ recorded' = recorded /\ running' = running
    BY DEF DP!GiveUp, DP!StopRelay, DP!relays
  <2>3. /\ ~lost => running \subseteq {recorded}
        /\ kind = "codex" => running = {}
    BY <2>1 DEF ProfilesInv, RelaysAreKnown, DP!NoRelayIsLost
  <2>. QED  BY <1>1, <2>1, <2>2, <2>3 DEF RelaysAreKnown, DP!NoRelayIsLost
<1>9. FileTypes' /\ CapturedIsUsers' /\ OnlyManaged'
  BY <1>1, <1>2 DEF ProfilesInv, FileTypes, CapturedIsUsers, OnlyManaged, DP!NoRelayIsLost,
     Restoring, Pending, DP!GiveUp
<1>. QED  BY <1>3, <1>4, <1>5, <1>6, <1>7, <1>8, <1>9 DEF ProfilesInv

LEMMA ProfilesRestarted ==
    ASSUME ProfilesInv, DP!Restarted
    PROVE  ProfilesInv'
<1>1. UNCHANGED <<kind, value, users, state, snapshot, spawned, running, recorded,
                  remote, left, userEdits, lost>>
  BY DEF DP!Restarted, DP!files, DP!relays, DP!command, DP!bounds
<1>2. Managed' = Managed /\ Managed \subseteq DP!Targets
      /\ AllFiles(DP!Configured(kind)) /\ AllFiles(DP!Restored(kind))
  BY <1>1, ManagedFiles DEF Managed, DP!Mine, ProfilesInv, FileTypes
<1>3. CommandTypes'
  BY <1>1, <1>2 DEF ProfilesInv, CommandTypes, AllFiles, DP!Restarted
<1>4. SnapshotIsRight'
  BY <1>1, <1>2 DEF ProfilesInv, SnapshotIsRight, Restoring, DP!NoState, DP!Restarted
<1>5. NothingOursIsLeft'
  BY <1>1, <1>2 DEF ProfilesInv, NothingOursIsLeft, CapturedIsUsers, SnapshotIsRight,
     OnlyManaged, FilesAreDone, FileTypes, Stored, Restoring, DP!Ours, DP!Missing,
     DP!Restarted
<1>6. FilesAreDone'
  BY <1>1, <1>2 DEF ProfilesInv, FilesAreDone, OnlyManaged, CapturedIsUsers,
     NothingOursIsLeft, SnapshotIsRight, FileTypes, AllFiles, Pending, Restoring, Stored,
     DP!Restarted
<1>7. RelaysAreKnown'
  BY <1>1, <1>2 DEF ProfilesInv, RelaysAreKnown, RelayTypes, DP!NoRelayIsLost, DP!Restarted
<1>8. FileTypes' /\ RelayTypes' /\ CapturedIsUsers' /\ OnlyManaged'
  BY <1>1, <1>2 DEF ProfilesInv, FileTypes, RelayTypes, CapturedIsUsers, OnlyManaged,
     DP!NoRelayIsLost, Restoring, Pending, DP!Restarted
<1>. QED  BY <1>3, <1>4, <1>5, <1>6, <1>7, <1>8 DEF ProfilesInv

LEMMA ProfilesCapture ==
    ASSUME ProfilesInv, DP!Capture
    PROVE  ProfilesInv'
<1>1. UNCHANGED <<kind, value, users, snapshot, spawned, running, recorded, remote,
                  left, userEdits, lost>>
  BY DEF DP!Capture, DP!NotYet, DP!files, DP!relays, DP!command, DP!bounds
<1>2. Managed' = Managed /\ Managed \subseteq DP!Targets
      /\ AllFiles(DP!Configured(kind)) /\ AllFiles(DP!Restored(kind))
  BY <1>1, ManagedFiles DEF Managed, DP!Mine, ProfilesInv, FileTypes
<1>3. FileTypes'
  BY <1>1, <1>2, ProfileAssumption DEF ProfilesInv, FileTypes, Stored, DP!Values, DP!Ours,
     DP!Missing, SnapshotIsRight, NothingOursIsLeft, Restoring, DP!Capture, DP!NotYet
<1>4. CommandTypes'
  BY <1>1, <1>2 DEF ProfilesInv, CommandTypes, AllFiles, DP!Capture, DP!NotYet
<1>5. SnapshotIsRight'
  BY <1>1, <1>2 DEF ProfilesInv, SnapshotIsRight, Restoring, DP!NoState, DP!Capture,
     DP!NotYet
<1>6. CapturedIsUsers'
  BY <1>1, <1>2 DEF ProfilesInv, CapturedIsUsers, SnapshotIsRight, NothingOursIsLeft,
     OnlyManaged, FilesAreDone, FileTypes, Stored, Restoring, DP!Capture, DP!NotYet
<1>7. NothingOursIsLeft'
  BY <1>1, <1>2 DEF ProfilesInv, NothingOursIsLeft, CapturedIsUsers, SnapshotIsRight,
     OnlyManaged, FilesAreDone, FileTypes, Stored, Restoring, DP!Ours, DP!Missing,
     DP!Capture, DP!NotYet
<1>8. FilesAreDone'
  BY <1>1, <1>2 DEF ProfilesInv, FilesAreDone, OnlyManaged, CapturedIsUsers,
     NothingOursIsLeft, SnapshotIsRight, FileTypes, AllFiles, Pending, Restoring, Stored,
     DP!Capture, DP!NotYet
<1>9. RelaysAreKnown'
  BY <1>1, <1>2 DEF ProfilesInv, RelaysAreKnown, RelayTypes, DP!NoRelayIsLost, DP!Capture,
     DP!NotYet
<1>10. RelayTypes' /\ OnlyManaged'
  BY <1>1, <1>2 DEF ProfilesInv, RelayTypes, OnlyManaged, DP!NoRelayIsLost, Restoring,
     Pending, DP!Capture
<1>. QED  BY <1>3, <1>4, <1>5, <1>6, <1>7, <1>8, <1>9, <1>10 DEF ProfilesInv

LEMMA ProfilesWrite ==
    ASSUME ProfilesInv, DP!Write
    PROVE  ProfilesInv'
<1>1. UNCHANGED <<kind, users, state, snapshot, spawned, running, recorded, remote,
                  userEdits, lost>>
  BY DEF DP!Write, DP!files, DP!relays, DP!command, DP!bounds
<1>2. Managed' = Managed /\ Managed \subseteq DP!Targets
      /\ AllFiles(DP!Configured(kind)) /\ AllFiles(DP!Restored(kind))
  BY <1>1, ManagedFiles DEF Managed, DP!Mine, ProfilesInv, FileTypes
<1>3. left \in Seq(Managed) /\ left # <<>>
  BY DEF ProfilesInv, CommandTypes, FilesAreDone, DP!Write
<1>4. /\ Head(left) \in Managed /\ Tail(left) \in Seq(Managed)
      /\ Len(Tail(left)) = Len(left) - 1
      /\ Pending = {Head(left)} \cup {Tail(left)[i] : i \in 1 .. Len(Tail(left))}
  BY <1>3, NextFile DEF Pending
<1>5. left' = Tail(left) /\ Pending' = {Tail(left)[i] : i \in 1 .. Len(Tail(left))}
  BY DEF DP!Write, Pending
<1>6. left' = <<>> => Pending' = {}
  BY DEF Pending
<1>7. Pending = {Head(left)} \cup Pending'
  BY <1>4, <1>5
<1>8. FileTypes'
  BY <1>1, <1>2, <1>3, <1>4, <1>5, <1>6, <1>7, ProfileAssumption DEF ProfilesInv,
     FileTypes, Stored, DP!Values, DP!Ours, DP!Missing, SnapshotIsRight, NothingOursIsLeft,
     Restoring, DP!Write
<1>9. CommandTypes'
  BY <1>1, <1>2, <1>3, <1>4, <1>5, <1>6, <1>7 DEF ProfilesInv, CommandTypes, AllFiles,
     DP!Write
<1>10. SnapshotIsRight'
  BY <1>1, <1>2, <1>3, <1>4, <1>5, <1>6, <1>7 DEF ProfilesInv, SnapshotIsRight, Restoring,
     DP!NoState, DP!Write
<1>11. CapturedIsUsers'
  BY <1>1, <1>2, <1>3, <1>4, <1>5, <1>6, <1>7 DEF ProfilesInv, CapturedIsUsers,
     SnapshotIsRight, NothingOursIsLeft, OnlyManaged, FilesAreDone, FileTypes, Stored,
     Restoring, DP!Write
<1>12. NothingOursIsLeft'
  BY <1>1, <1>2, <1>3, <1>4, <1>5, <1>6, <1>7 DEF ProfilesInv, NothingOursIsLeft,
     CapturedIsUsers, SnapshotIsRight, OnlyManaged, FilesAreDone, FileTypes, Stored,
     Restoring, DP!Ours, DP!Missing, DP!Write
<1>13. OnlyManaged'
  BY <1>1, <1>2, <1>3, <1>4, <1>5, <1>6, <1>7 DEF ProfilesInv, OnlyManaged,
     NothingOursIsLeft, CapturedIsUsers, SnapshotIsRight, FileTypes, Restoring, Stored,
     DP!Ours, DP!Missing, DP!Targets, DP!Write
<1>14. FilesAreDone'
  BY <1>1, <1>2, <1>3, <1>4, <1>5, <1>6, <1>7 DEF ProfilesInv, FilesAreDone, OnlyManaged,
     CapturedIsUsers, NothingOursIsLeft, SnapshotIsRight, FileTypes, AllFiles, Pending,
     Restoring, Stored, DP!Write
<1>15. RelaysAreKnown'
  BY <1>1, <1>2, <1>3, <1>4, <1>5, <1>6, <1>7 DEF ProfilesInv, RelaysAreKnown, RelayTypes,
     DP!NoRelayIsLost, DP!Write
<1>16. RelayTypes'
  BY <1>1, <1>2 DEF ProfilesInv, RelayTypes, DP!NoRelayIsLost, Restoring, Pending, DP!Write
<1>. QED  BY <1>8, <1>9, <1>10, <1>11, <1>12, <1>13, <1>14, <1>15, <1>16 DEF ProfilesInv

LEMMA ProfilesRestore ==
    ASSUME ProfilesInv, DP!Restore
    PROVE  ProfilesInv'
<1>1. UNCHANGED <<kind, value, users, state, spawned, running, recorded, userEdits, lost>>
  BY DEF DP!Restore, DP!files, DP!relays, DP!command, DP!bounds
<1>2. Managed' = Managed /\ Managed \subseteq DP!Targets
      /\ AllFiles(DP!Configured(kind)) /\ AllFiles(DP!Restored(kind))
  BY <1>1, ManagedFiles DEF Managed, DP!Mine, ProfilesInv, FileTypes
<1>3. FileTypes'
  BY <1>1, <1>2, ProfileAssumption DEF ProfilesInv, FileTypes, Stored, DP!Values, DP!Ours,
     DP!Missing, SnapshotIsRight, NothingOursIsLeft, Restoring, DP!Restore
<1>4. CommandTypes'
  <2>1. remote' \in BOOLEAN
    BY Zenon DEF DP!Restore
  <2>2. left' = DP!Restored(kind) /\ command' = "restore"
    BY DEF DP!Restore
  <2>3. Len(DP!Configured(kind)) \in Nat
    BY <1>2 DEF AllFiles
  <2>. QED  BY <1>1, <1>2, <2>1, <2>2, <2>3 DEF CommandTypes, AllFiles
<1>5. SnapshotIsRight'
  BY <1>1, <1>2 DEF ProfilesInv, SnapshotIsRight, Restoring, DP!NoState, DP!Restore
<1>6. CapturedIsUsers'
  BY <1>1, <1>2 DEF ProfilesInv, CapturedIsUsers, SnapshotIsRight, NothingOursIsLeft,
     OnlyManaged, FilesAreDone, FileTypes, Stored, Restoring, DP!Restore
<1>7. NothingOursIsLeft'
  BY <1>1, <1>2 DEF ProfilesInv, NothingOursIsLeft, CapturedIsUsers, SnapshotIsRight,
     OnlyManaged, FilesAreDone, FileTypes, Stored, Restoring, DP!Ours, DP!Missing,
     DP!Restore
<1>8. FilesAreDone'
  BY <1>1, <1>2 DEF ProfilesInv, FilesAreDone, OnlyManaged, CapturedIsUsers,
     NothingOursIsLeft, SnapshotIsRight, FileTypes, AllFiles, Pending, Restoring, Stored,
     DP!Restore
<1>9. RelaysAreKnown'
  BY <1>1, <1>2 DEF ProfilesInv, RelaysAreKnown, RelayTypes, DP!NoRelayIsLost, DP!Restore
<1>10. RelayTypes' /\ OnlyManaged'
  BY <1>1, <1>2 DEF ProfilesInv, RelayTypes, OnlyManaged, DP!NoRelayIsLost, Restoring,
     Pending, DP!Restore
<1>. QED  BY <1>3, <1>4, <1>5, <1>6, <1>7, <1>8, <1>9, <1>10 DEF ProfilesInv

LEMMA ProfilesWriteBack ==
    ASSUME ProfilesInv, DP!WriteBack
    PROVE  ProfilesInv'
<1>1. UNCHANGED <<kind, users, state, snapshot, spawned, running, recorded, remote,
                  userEdits, lost>>
  BY DEF DP!WriteBack, DP!files, DP!relays, DP!command, DP!bounds
<1>2. Managed' = Managed /\ Managed \subseteq DP!Targets
      /\ AllFiles(DP!Configured(kind)) /\ AllFiles(DP!Restored(kind))
  BY <1>1, ManagedFiles DEF Managed, DP!Mine, ProfilesInv, FileTypes
<1>3. left \in Seq(Managed) /\ left # <<>>
  BY DEF ProfilesInv, CommandTypes, FilesAreDone, DP!WriteBack
<1>4. /\ Head(left) \in Managed /\ Tail(left) \in Seq(Managed)
      /\ Len(Tail(left)) = Len(left) - 1
      /\ Pending = {Head(left)} \cup {Tail(left)[i] : i \in 1 .. Len(Tail(left))}
  BY <1>3, NextFile DEF Pending
<1>5. left' = Tail(left) /\ Pending' = {Tail(left)[i] : i \in 1 .. Len(Tail(left))}
  BY DEF DP!WriteBack, Pending
<1>6. left' = <<>> => Pending' = {}
  BY DEF Pending
<1>7. Pending = {Head(left)} \cup Pending'
  BY <1>4, <1>5
<1>8. /\ snapshot.there => DP!PutBack(Head(left)) = users[Head(left)]
      /\ ~snapshot.there => DP!PutBack(Head(left)) \in {value[Head(left)], DP!Missing}
      /\ DP!PutBack(Head(left)) \in DP!Values
  BY <1>2, <1>4 DEF DP!WriteBack, DP!PutBack, ProfilesInv, FileTypes, Stored,
     SnapshotIsRight, CapturedIsUsers, OnlyManaged, DP!Values
<1>9. FileTypes'
  BY <1>1, <1>2, <1>3, <1>4, <1>5, <1>6, <1>7, <1>8, ProfileAssumption DEF ProfilesInv,
     FileTypes, Stored, DP!Values, DP!Ours, DP!Missing, SnapshotIsRight, NothingOursIsLeft,
     Restoring, DP!WriteBack
<1>10. CommandTypes'
  BY <1>1, <1>2, <1>3, <1>4, <1>5, <1>6, <1>7, <1>8 DEF ProfilesInv, CommandTypes,
     AllFiles, DP!WriteBack
<1>11. SnapshotIsRight'
  BY <1>1, <1>2, <1>3, <1>4, <1>5, <1>6, <1>7, <1>8 DEF ProfilesInv, SnapshotIsRight,
     Restoring, DP!NoState, DP!WriteBack
<1>12. CapturedIsUsers'
  BY <1>1, <1>2, <1>3, <1>4, <1>5, <1>6, <1>7, <1>8 DEF ProfilesInv, CapturedIsUsers,
     SnapshotIsRight, NothingOursIsLeft, OnlyManaged, FilesAreDone, FileTypes, Stored,
     Restoring, DP!WriteBack
<1>13. NothingOursIsLeft'
  BY <1>1, <1>2, <1>3, <1>4, <1>5, <1>6, <1>7, <1>8 DEF ProfilesInv, NothingOursIsLeft,
     CapturedIsUsers, SnapshotIsRight, OnlyManaged, FilesAreDone, FileTypes, Stored,
     Restoring, DP!Ours, DP!Missing, DP!WriteBack
<1>14. OnlyManaged'
  BY <1>1, <1>2, <1>3, <1>4, <1>5, <1>6, <1>7, <1>8 DEF ProfilesInv, OnlyManaged,
     NothingOursIsLeft, CapturedIsUsers, SnapshotIsRight, FileTypes, Restoring, Stored,
     DP!Ours, DP!Missing, DP!Targets, DP!WriteBack
<1>15. FilesAreDone'
  <2>1. /\ command = "restore" /\ value' = [value EXCEPT ![Head(left)] = DP!PutBack(Head(left))]
        /\ command' \in {"restore", "forget"} /\ (command' = "restore" <=> left' # <<>>)
    BY DEF DP!WriteBack
  <2>2. value \in [DP!Targets -> DP!Values] /\ users \in [DP!Targets -> DP!Values \ {DP!Ours}]
    BY DEF ProfilesInv, FileTypes
  <2>3. ASSUME snapshot.there, NEW f \in Managed
        PROVE  value'[f] = users[f] \/ f \in Pending'
    BY <1>2, <1>7, <1>8, <2>1, <2>2, <2>3 DEF ProfilesInv, FilesAreDone
  <2>4. ASSUME snapshot.there, left' = <<>>
        PROVE  value' = users
    <3>1. \A f \in Managed : value'[f] = users[f]
      BY <1>6, <2>3, <2>4
    <3>2. \A f \in DP!Targets \ Managed : value'[f] = users[f]
      BY <1>2, <1>4, <2>1, <2>2, <2>4
         DEF ProfilesInv, SnapshotIsRight, CapturedIsUsers, OnlyManaged
    <3>. QED  BY <2>1, <2>2, <3>1, <3>2
  <2>. QED  BY <1>1, <1>2, <2>1, <2>3, <2>4 DEF FilesAreDone
<1>16. RelaysAreKnown'
  BY <1>1, <1>2, <1>3, <1>4, <1>5, <1>6, <1>7, <1>8 DEF ProfilesInv, RelaysAreKnown,
     RelayTypes, DP!NoRelayIsLost, DP!WriteBack
<1>17. RelayTypes'
  BY <1>1, <1>2 DEF ProfilesInv, RelayTypes, DP!NoRelayIsLost, Restoring, Pending,
     DP!WriteBack
<1>. QED  BY <1>9, <1>10, <1>11, <1>12, <1>13, <1>14, <1>15, <1>16, <1>17 DEF ProfilesInv

LEMMA ProfilesForget ==
    ASSUME ProfilesInv, DP!Forget
    PROVE  ProfilesInv'
<1>1. UNCHANGED <<kind, value, users, snapshot, spawned, running, recorded, remote,
                  left, userEdits, lost>>
  BY DEF DP!Forget, DP!NoState, DP!Relayed, DP!files, DP!relays, DP!command, DP!bounds
<1>2. Managed' = Managed /\ Managed \subseteq DP!Targets
      /\ AllFiles(DP!Configured(kind)) /\ AllFiles(DP!Restored(kind))
  BY <1>1, ManagedFiles DEF Managed, DP!Mine, ProfilesInv, FileTypes
<1>3. FileTypes'
  BY <1>1, <1>2, ProfileAssumption DEF ProfilesInv, FileTypes, Stored, DP!Values, DP!Ours,
     DP!Missing, SnapshotIsRight, NothingOursIsLeft, Restoring, DP!Forget, DP!NoState,
     DP!Relayed
<1>4. CommandTypes'
  BY <1>1, <1>2 DEF ProfilesInv, CommandTypes, AllFiles, DP!Forget, DP!NoState, DP!Relayed
<1>5. SnapshotIsRight'
  BY <1>1, <1>2 DEF ProfilesInv, SnapshotIsRight, Restoring, DP!NoState, DP!Forget,
     DP!Relayed
<1>6. CapturedIsUsers'
  BY <1>1, <1>2 DEF ProfilesInv, CapturedIsUsers, SnapshotIsRight, NothingOursIsLeft,
     OnlyManaged, FilesAreDone, FileTypes, Stored, Restoring, DP!Forget, DP!NoState,
     DP!Relayed
<1>7. NothingOursIsLeft'
  BY <1>1, <1>2 DEF ProfilesInv, NothingOursIsLeft, CapturedIsUsers, SnapshotIsRight,
     OnlyManaged, FilesAreDone, FileTypes, Stored, Restoring, DP!Ours, DP!Missing,
     DP!Forget, DP!NoState, DP!Relayed
<1>8. FilesAreDone'
  BY <1>1, <1>2 DEF ProfilesInv, FilesAreDone, OnlyManaged, CapturedIsUsers,
     NothingOursIsLeft, SnapshotIsRight, FileTypes, AllFiles, Pending, Restoring, Stored,
     DP!Forget, DP!NoState, DP!Relayed
<1>9. RelaysAreKnown'
  BY <1>1, <1>2 DEF ProfilesInv, RelaysAreKnown, RelayTypes, DP!NoRelayIsLost, DP!Forget,
     DP!NoState, DP!Relayed
<1>10. RelayTypes' /\ OnlyManaged'
  BY <1>1, <1>2 DEF ProfilesInv, RelayTypes, OnlyManaged, DP!NoRelayIsLost, Restoring,
     Pending, DP!Forget
<1>. QED  BY <1>3, <1>4, <1>5, <1>6, <1>7, <1>8, <1>9, <1>10 DEF ProfilesInv

LEMMA ProfilesStopBridge ==
    ASSUME ProfilesInv, DP!StopBridge
    PROVE  ProfilesInv'
<1>1. UNCHANGED <<kind, value, users, state, snapshot, spawned, remote, left, userEdits, lost>>
  BY DEF DP!StopBridge, DP!StopRelay, DP!files, DP!relays, DP!command, DP!bounds
<1>2. Managed' = Managed /\ Managed \subseteq DP!Targets
      /\ AllFiles(DP!Configured(kind)) /\ AllFiles(DP!Restored(kind))
  BY <1>1, ManagedFiles DEF Managed, DP!Mine, ProfilesInv, FileTypes
<1>3. RelayTypes'
  BY <1>1, <1>2 DEF ProfilesInv, RelayTypes, DP!StopBridge, DP!StopRelay
<1>4. CommandTypes'
  BY <1>1, <1>2 DEF ProfilesInv, CommandTypes, AllFiles, DP!StopBridge, DP!StopRelay
<1>5. SnapshotIsRight'
  BY <1>1, <1>2 DEF ProfilesInv, SnapshotIsRight, Restoring, DP!NoState, DP!StopBridge,
     DP!StopRelay
<1>6. NothingOursIsLeft'
  BY <1>1, <1>2 DEF ProfilesInv, NothingOursIsLeft, CapturedIsUsers, SnapshotIsRight,
     OnlyManaged, FilesAreDone, FileTypes, Stored, Restoring, DP!Ours, DP!Missing,
     DP!StopBridge, DP!StopRelay
<1>7. FilesAreDone'
  BY <1>1, <1>2 DEF ProfilesInv, FilesAreDone, OnlyManaged, CapturedIsUsers,
     NothingOursIsLeft, SnapshotIsRight, FileTypes, AllFiles, Pending, Restoring, Stored,
     DP!StopBridge, DP!StopRelay
<1>8. RelaysAreKnown'
  BY <1>1, <1>2 DEF ProfilesInv, RelaysAreKnown, RelayTypes, DP!NoRelayIsLost,
     DP!StopBridge, DP!StopRelay
<1>9. FileTypes' /\ CapturedIsUsers' /\ OnlyManaged'
  BY <1>1, <1>2 DEF ProfilesInv, FileTypes, CapturedIsUsers, OnlyManaged, DP!NoRelayIsLost,
     Restoring, Pending, DP!StopBridge
<1>. QED  BY <1>3, <1>4, <1>5, <1>6, <1>7, <1>8, <1>9 DEF ProfilesInv

LEMMA ProfilesEnd ==
    ASSUME ProfilesInv, DP!End
    PROVE  ProfilesInv'
<1>1. UNCHANGED <<kind, value, state, spawned, running, recorded, remote, left,
                  userEdits, lost>>
  BY DEF DP!End, DP!LeftWith, DP!NoState, DP!files, DP!relays, DP!command, DP!bounds
<1>2. Managed' = Managed /\ Managed \subseteq DP!Targets
      /\ AllFiles(DP!Configured(kind)) /\ AllFiles(DP!Restored(kind))
  BY <1>1, ManagedFiles DEF Managed, DP!Mine, ProfilesInv, FileTypes
<1>3. FileTypes'
  BY <1>1, <1>2, ProfileAssumption DEF ProfilesInv, FileTypes, Stored, DP!Values, DP!Ours,
     DP!Missing, SnapshotIsRight, NothingOursIsLeft, Restoring, DP!End, DP!LeftWith,
     DP!NoState
<1>4. CommandTypes'
  BY <1>1, <1>2 DEF ProfilesInv, CommandTypes, AllFiles, DP!End, DP!LeftWith, DP!NoState
<1>5. SnapshotIsRight'
  BY <1>1, <1>2 DEF ProfilesInv, SnapshotIsRight, Restoring, DP!NoState, DP!End,
     DP!LeftWith
<1>6. CapturedIsUsers'
  BY <1>1, <1>2 DEF ProfilesInv, CapturedIsUsers, SnapshotIsRight, NothingOursIsLeft,
     OnlyManaged, FilesAreDone, FileTypes, Stored, Restoring, DP!End, DP!LeftWith,
     DP!NoState
<1>7. NothingOursIsLeft'
  BY <1>1, <1>2 DEF ProfilesInv, NothingOursIsLeft, CapturedIsUsers, SnapshotIsRight,
     OnlyManaged, FilesAreDone, FileTypes, Stored, Restoring, DP!Ours, DP!Missing, DP!End,
     DP!LeftWith, DP!NoState
<1>8. OnlyManaged'
  BY <1>1, <1>2 DEF ProfilesInv, OnlyManaged, NothingOursIsLeft, CapturedIsUsers,
     SnapshotIsRight, FileTypes, Restoring, Stored, DP!Ours, DP!Missing, DP!Targets,
     DP!End, DP!LeftWith, DP!NoState
<1>9. FilesAreDone'
  BY <1>1, <1>2 DEF ProfilesInv, FilesAreDone, OnlyManaged, CapturedIsUsers,
     NothingOursIsLeft, SnapshotIsRight, FileTypes, AllFiles, Pending, Restoring, Stored,
     DP!End, DP!LeftWith, DP!NoState
<1>10. RelaysAreKnown'
  BY <1>1, <1>2 DEF ProfilesInv, RelaysAreKnown, RelayTypes, DP!NoRelayIsLost, DP!End,
     DP!LeftWith, DP!NoState
<1>11. RelayTypes'
  BY <1>1, <1>2 DEF ProfilesInv, RelayTypes, DP!NoRelayIsLost, Restoring, Pending, DP!End
<1>. QED  BY <1>3, <1>4, <1>5, <1>6, <1>7, <1>8, <1>9, <1>10, <1>11 DEF ProfilesInv

LEMMA ProfilesCrash ==
    ASSUME ProfilesInv, DP!Crash
    PROVE  ProfilesInv'
<1>1. UNCHANGED <<kind, value, state, spawned, running, recorded, remote, userEdits>>
  BY DEF DP!Crash, DP!LeftWith, DP!NoState, DP!files, DP!relays, DP!command, DP!bounds
<1>2. Managed' = Managed /\ Managed \subseteq DP!Targets
      /\ AllFiles(DP!Configured(kind)) /\ AllFiles(DP!Restored(kind))
  BY <1>1, ManagedFiles DEF Managed, DP!Mine, ProfilesInv, FileTypes
<1>3. FileTypes'
  BY <1>1, <1>2, ProfileAssumption DEF ProfilesInv, FileTypes, Stored, DP!Values, DP!Ours,
     DP!Missing, SnapshotIsRight, NothingOursIsLeft, Restoring, DP!Crash, DP!LeftWith,
     DP!NoState
<1>4. CommandTypes'
  BY <1>1, <1>2 DEF ProfilesInv, CommandTypes, AllFiles, DP!Crash, DP!LeftWith, DP!NoState
<1>5. SnapshotIsRight'
  BY <1>1, <1>2 DEF ProfilesInv, SnapshotIsRight, Restoring, DP!NoState, DP!Crash,
     DP!LeftWith
<1>6. CapturedIsUsers'
  BY <1>1, <1>2 DEF ProfilesInv, CapturedIsUsers, SnapshotIsRight, NothingOursIsLeft,
     OnlyManaged, FilesAreDone, FileTypes, Stored, Restoring, DP!Crash, DP!LeftWith,
     DP!NoState
<1>7. NothingOursIsLeft'
  BY <1>1, <1>2 DEF ProfilesInv, NothingOursIsLeft, CapturedIsUsers, SnapshotIsRight,
     OnlyManaged, FilesAreDone, FileTypes, Stored, Restoring, DP!Ours, DP!Missing,
     DP!Crash, DP!LeftWith, DP!NoState
<1>8. OnlyManaged'
  BY <1>1, <1>2 DEF ProfilesInv, OnlyManaged, NothingOursIsLeft, CapturedIsUsers,
     SnapshotIsRight, FileTypes, Restoring, Stored, DP!Ours, DP!Missing, DP!Targets,
     DP!Crash, DP!LeftWith, DP!NoState
<1>9. FilesAreDone'
  BY <1>1, <1>2 DEF ProfilesInv, FilesAreDone, OnlyManaged, CapturedIsUsers,
     NothingOursIsLeft, SnapshotIsRight, FileTypes, AllFiles, Pending, Restoring, Stored,
     DP!Crash, DP!LeftWith, DP!NoState
<1>10. RelaysAreKnown'
  BY <1>1, <1>2 DEF ProfilesInv, RelaysAreKnown, RelayTypes, DP!NoRelayIsLost, DP!Crash,
     DP!LeftWith, DP!NoState
<1>11. RelayTypes'
  BY <1>1, <1>2 DEF ProfilesInv, RelayTypes, DP!NoRelayIsLost, Restoring, Pending, DP!Crash
<1>. QED  BY <1>3, <1>4, <1>5, <1>6, <1>7, <1>8, <1>9, <1>10, <1>11 DEF ProfilesInv


LEMMA ProfilesRest ==
    ASSUME ProfilesInv, UNCHANGED profilesVars
    PROVE  ProfilesInv'
<1>1. /\ UNCHANGED <<kind, value, state, running, recorded, spawned, command, left, remote>>
      /\ UNCHANGED <<snapshot, userEdits, users, lost>> /\ Managed' = Managed
  BY DEF profilesVars, Managed, DP!Mine
<1>2. FileTypes' /\ RelayTypes' /\ CommandTypes'
  BY <1>1 DEF ProfilesInv, FileTypes, RelayTypes, CommandTypes
<1>3. SnapshotIsRight' /\ CapturedIsUsers' /\ NothingOursIsLeft'
  BY <1>1 DEF ProfilesInv, SnapshotIsRight, CapturedIsUsers, NothingOursIsLeft, Restoring
<1>4. OnlyManaged' /\ FilesAreDone' /\ RelaysAreKnown'
  BY <1>1 DEF ProfilesInv, OnlyManaged, FilesAreDone, RelaysAreKnown, Pending, DP!NoRelayIsLost
<1>. QED  BY <1>2, <1>3, <1>4 DEF ProfilesInv

LEMMA ProfilesStep == ProfilesInv /\ [Next]_vars => ProfilesInv'
<1> SUFFICES ASSUME ProfilesInv, [Next]_vars
             PROVE  ProfilesInv'
  OBVIOUS
<1>1. CASE DP!Next
  <2>1. CASE DP!Done
    BY <2>1, ProfilesRest
       DEF DP!Done, DP!dvars, DP!files, DP!relays, DP!command, DP!bounds, profilesVars
  <2>. QED  BY <1>1, <2>1, ProfilesUserEdits, ProfilesRelayEnds, ProfilesLaunch,
               ProfilesStopOld, ProfilesSpawn, ProfilesHealthy, ProfilesGiveUp,
               ProfilesRestarted, ProfilesCapture, ProfilesWrite, ProfilesRestore,
               ProfilesWriteBack, ProfilesForget, ProfilesStopBridge, ProfilesEnd,
               ProfilesCrash DEF DP!Next
<1>2. CASE UNCHANGED profilesVars
  BY <1>2, ProfilesRest
<1>. QED  BY <1>1, <1>2 DEF Next, vars

-----------------------------------------------------------------------------
(* The commands that start the server on demand (DaemonStart).             *)

ProcessState  == {"none", "starting", "bound", "serving", "closing", "ended"}
LauncherState == {"begin", "shutdown", "wait", "wake", "health", "poll", "returned", "failed"}
Reason == Launchers \cup {"port", "told", "user", "timeout"}

DaemonTypes ==
    /\ upgraded \subseteq Launchers
    /\ process \in [DS!Processes -> ProcessState]
    /\ told \subseteq DS!Processes /\ mistaken \subseteq Launchers
    /\ launcher \in [Launchers -> LauncherState]
    /\ seenServer \in [Launchers -> DS!Processes \cup {Nobody}]
    /\ server \in [Launchers -> DS!Processes \cup {Nobody}]
    /\ why \in [DS!Processes -> SUBSET Reason]

\* The port keeps two servers apart.
OneHasThePort ==
    \A p, q \in DS!Processes :
       /\ process[p] \in {"bound", "serving", "closing"}
       /\ process[q] \in {"bound", "serving", "closing"}
       => p = q

\* A launcher that has not come to start a server has none.
NotYetSpawned ==
    \A l \in Launchers :
       launcher[l] \in {"begin", "shutdown", "wait", "wake"} => process[l] = "none"

\* A launcher that is to stop a server has seen one of another version, which goes on or
\* has gone; one that has stopped another has seen one that has gone.
SeenIsStale ==
    \A l \in Launchers :
       /\ launcher[l] = "shutdown" =>
            /\ seenServer[l] \in DS!Processes
            /\ DS!Version(seenServer[l]) # DS!Version(l)
            /\ process[seenServer[l]] \in {"serving", "closing", "ended"}
       /\ l \in mistaken =>
            /\ launcher[l] \notin {"begin", "shutdown"} /\ seenServer[l] \in DS!Processes
            /\ process[seenServer[l]] \in {"closing", "ended"}

DaemonInv ==
    /\ DaemonTypes /\ OneHasThePort /\ NotYetSpawned /\ SeenIsStale
    /\ DS!StaleServersAreStopped /\ DS!ReturnedServersStay /\ DS!NoProcessIsLost

LEMMA DaemonInit == Init => DaemonInv
<1> SUFFICES ASSUME Init PROVE DaemonInv
  OBVIOUS
<1>0. DS!Init
  BY DEF Init
<1>1. DaemonTypes
  BY <1>0 DEF DS!Init, DaemonTypes, ProcessState, LauncherState
<1>2. OneHasThePort /\ NotYetSpawned /\ SeenIsStale
  BY <1>0, DaemonAssumption DEF DS!Init, OneHasThePort, NotYetSpawned, SeenIsStale,
     DS!Processes
<1>3. DS!StaleServersAreStopped /\ DS!ReturnedServersStay /\ DS!NoProcessIsLost
  BY <1>0 DEF DS!Init, DS!StaleServersAreStopped, DS!ReturnedServersStay,
     DS!NoProcessIsLost, DS!Processes
<1>. QED  BY <1>1, <1>2, <1>3 DEF DaemonInv

LEMMA DaemonBind ==
    ASSUME DaemonInv, NEW p \in DS!Processes, DS!Bind(p)
    PROVE  DaemonInv'
<1>1. DaemonTypes'
  BY DEF DaemonInv, DaemonTypes, DS!Bind, DS!Ended, ProcessState, Reason
<1>2. OneHasThePort'
  BY DEF DaemonInv, DaemonTypes, OneHasThePort, DS!Bind, DS!Ended, DS!Listening
<1>3. NotYetSpawned'
  BY DEF DaemonInv, DaemonTypes, NotYetSpawned, DS!Bind, DS!Ended, DS!Processes
<1>4. SeenIsStale'
  BY DEF DaemonInv, DaemonTypes, SeenIsStale, DS!Bind, DS!Ended, DS!Version
<1>5. DS!StaleServersAreStopped'
  BY DaemonAssumption DEF DaemonInv, DaemonTypes, SeenIsStale, DS!StaleServersAreStopped,
     DS!Bind, DS!Ended, DS!Version
<1>6. DS!ReturnedServersStay'
  BY DEF DaemonInv, DaemonTypes, DS!ReturnedServersStay, DS!Bind, DS!Ended, DS!Version
<1>7. DS!NoProcessIsLost'
  BY DEF DaemonInv, DaemonTypes, DS!NoProcessIsLost, DS!Bind, DS!Ended, DS!Processes
<1>. QED  BY <1>1, <1>2, <1>3, <1>4, <1>5, <1>6, <1>7 DEF DaemonInv

LEMMA DaemonServe ==
    ASSUME DaemonInv, NEW p \in DS!Processes, DS!Serve(p)
    PROVE  DaemonInv'
<1>1. DaemonTypes'
  BY DEF DaemonInv, DaemonTypes, DS!Serve, ProcessState
<1>2. OneHasThePort'
  BY DEF DaemonInv, OneHasThePort, DS!Serve
<1>3. NotYetSpawned'
  BY DEF DaemonInv, NotYetSpawned, DS!Serve
<1>4. SeenIsStale'
  BY DEF DaemonInv, SeenIsStale, DS!Serve, DS!Version
<1>5. DS!StaleServersAreStopped'
  BY DEF DaemonInv, DS!StaleServersAreStopped, DS!Serve, DS!Version
<1>6. DS!ReturnedServersStay'
  BY DEF DaemonInv, DS!ReturnedServersStay, DS!Serve, DS!Version
<1>7. DS!NoProcessIsLost'
  BY DEF DaemonInv, DS!NoProcessIsLost, DS!Serve
<1>. QED  BY <1>1, <1>2, <1>3, <1>4, <1>5, <1>6, <1>7 DEF DaemonInv

LEMMA DaemonStopServing ==
    ASSUME DaemonInv, NEW p \in DS!Processes, DS!StopServing(p)
    PROVE  DaemonInv'
<1>1. DaemonTypes'
  BY DEF DaemonInv, DaemonTypes, DS!StopServing, ProcessState
<1>2. OneHasThePort'
  BY DEF DaemonInv, OneHasThePort, DS!StopServing
<1>3. NotYetSpawned'
  BY DEF DaemonInv, NotYetSpawned, DS!StopServing
<1>4. SeenIsStale'
  BY DEF DaemonInv, SeenIsStale, DS!StopServing, DS!Version
<1>5. DS!StaleServersAreStopped'
  BY DEF DaemonInv, DS!StaleServersAreStopped, DS!StopServing, DS!Version
<1>6. DS!ReturnedServersStay'
  BY DEF DaemonInv, DS!ReturnedServersStay, DS!StopServing, DS!Version
<1>7. DS!NoProcessIsLost'
  BY DEF DaemonInv, DS!NoProcessIsLost, DS!StopServing
<1>. QED  BY <1>1, <1>2, <1>3, <1>4, <1>5, <1>6, <1>7 DEF DaemonInv

LEMMA DaemonServerClose ==
    ASSUME DaemonInv, NEW p \in DS!Processes, DS!ServerClose(p)
    PROVE  DaemonInv'
<1>1. DaemonTypes'
  BY DEF DaemonInv, DaemonTypes, DS!ServerClose, DS!Ended, ProcessState, Reason
<1>2. OneHasThePort'
  BY DEF DaemonInv, OneHasThePort, DS!ServerClose, DS!Ended
<1>3. NotYetSpawned'
  BY DEF DaemonInv, NotYetSpawned, DS!ServerClose, DS!Ended
<1>4. SeenIsStale'
  BY DEF DaemonInv, SeenIsStale, DS!ServerClose, DS!Ended, DS!Version
<1>5. DS!StaleServersAreStopped'
  BY DaemonAssumption DEF DaemonInv, DS!StaleServersAreStopped, DS!ServerClose, DS!Ended,
     DS!Version
<1>6. DS!ReturnedServersStay'
  BY DEF DaemonInv, DS!ReturnedServersStay, DS!ServerClose, DS!Ended, DS!Version
<1>7. DS!NoProcessIsLost'
  <2>1. /\ process' = [process EXCEPT ![p] = "ended"]
        /\ why' = [why EXCEPT ![p] = @ \cup {"told"}]
        /\ launcher' = launcher
    BY DEF DS!ServerClose, DS!Ended
  <2>2. DaemonTypes /\ DS!NoProcessIsLost
    BY DEF DaemonInv
  <2>3. ASSUME NEW l \in Launchers
        PROVE  /\ launcher'[l] = "failed" => process'[l] \in {"none", "ended"}
               /\ process'[l] = "ended" => why'[l] # {}
    <3>1. l \in DS!Processes
      BY DEF DS!Processes
    <3>2. CASE l = p
      <4>1. process'[l] = "ended" /\ why'[l] = why[p] \cup {"told"}
        BY <2>1, <2>2, <3>2 DEF DaemonTypes
      <4>. QED  BY <4>1
    <3>3. CASE l # p
      <4>1. process'[l] = process[l] /\ why'[l] = why[l]
        BY <2>1, <2>2, <3>1, <3>3 DEF DaemonTypes
      <4>. QED  BY <2>1, <2>2, <4>1 DEF DS!NoProcessIsLost
    <3>. QED  BY <3>2, <3>3
  <2>. QED  BY <2>3 DEF DS!NoProcessIsLost
<1>. QED  BY <1>1, <1>2, <1>3, <1>4, <1>5, <1>6, <1>7 DEF DaemonInv

LEMMA DaemonUserShutdown ==
    ASSUME DaemonInv, DS!UserShutdown
    PROVE  DaemonInv'
<1>1. DaemonTypes'
  BY DEF DaemonInv, DaemonTypes, DS!UserShutdown, DS!Serving, Reason
<1>2. DS!StaleServersAreStopped'
  BY DaemonAssumption DEF DaemonInv, DS!StaleServersAreStopped, DS!UserShutdown, DS!Version
<1>3. DS!ReturnedServersStay'
  BY DEF DaemonInv, DS!ReturnedServersStay, DS!UserShutdown, DS!Version
<1>4. DS!NoProcessIsLost'
  BY DEF DaemonInv, DS!NoProcessIsLost, DS!UserShutdown
<1>5. OneHasThePort' /\ NotYetSpawned' /\ SeenIsStale'
  BY DEF DaemonInv, OneHasThePort, NotYetSpawned, SeenIsStale, DS!UserShutdown, DS!Version
<1>. QED  BY <1>1, <1>2, <1>3, <1>4, <1>5 DEF DaemonInv

LEMMA DaemonBegin ==
    ASSUME DaemonInv, NEW l \in Launchers, DS!Begin(l)
    PROVE  DaemonInv'
<1>1. DaemonTypes'
  BY DEF DaemonInv, DaemonTypes, DS!Begin, DS!Goto, DS!Serving, DS!Return, LauncherState
<1>2. NotYetSpawned'
  BY DEF DaemonInv, DaemonTypes, NotYetSpawned, DS!Begin, DS!Goto, DS!Return
<1>3. SeenIsStale'
  BY DEF DaemonInv, DaemonTypes, SeenIsStale, DS!Begin, DS!Goto, DS!Serving, DS!Matches,
     DS!Return, DS!Version
<1>4. DS!StaleServersAreStopped'
  BY DEF DaemonInv, DaemonTypes, SeenIsStale, DS!StaleServersAreStopped, DS!Begin,
     DS!Version
<1>5. DS!ReturnedServersStay'
  BY DEF DaemonInv, DaemonTypes, DS!ReturnedServersStay, DS!Begin, DS!Serving, DS!Matches,
     DS!Return, DS!Version
<1>6. DS!NoProcessIsLost'
  BY DEF DaemonInv, DaemonTypes, DS!NoProcessIsLost, DS!Begin, DS!Goto, DS!Return
<1>7. OneHasThePort'
  BY DEF DaemonInv, OneHasThePort, DS!Begin
<1>. QED  BY <1>1, <1>2, <1>3, <1>4, <1>5, <1>6, <1>7 DEF DaemonInv

LEMMA DaemonShutdown ==
    ASSUME DaemonInv, NEW l \in Launchers, DS!Shutdown(l)
    PROVE  DaemonInv'
<1>1. DaemonTypes'
  BY DEF DaemonInv, DaemonTypes, DS!Shutdown, DS!Goto, DS!Serving, LauncherState, Reason
<1>2. NotYetSpawned'
  BY DEF DaemonInv, DaemonTypes, NotYetSpawned, DS!Shutdown, DS!Goto
<1>3. SeenIsStale'
  BY DEF DaemonInv, DaemonTypes, OneHasThePort, SeenIsStale, DS!Shutdown, DS!Goto,
     DS!Serving, DS!Version
<1>4. DS!StaleServersAreStopped'
  BY DEF DaemonInv, DaemonTypes, OneHasThePort, SeenIsStale, DS!StaleServersAreStopped,
     DS!Shutdown, DS!Serving, DS!Version
<1>5. DS!ReturnedServersStay'
  BY DEF DaemonInv, DaemonTypes, DS!ReturnedServersStay, DS!Shutdown, DS!Version
<1>6. DS!NoProcessIsLost'
  BY DEF DaemonInv, DaemonTypes, NotYetSpawned, DS!NoProcessIsLost, DS!Shutdown, DS!Goto,
     DS!Processes
<1>7. OneHasThePort'
  BY DEF DaemonInv, OneHasThePort, DS!Shutdown
<1>. QED  BY <1>1, <1>2, <1>3, <1>4, <1>5, <1>6, <1>7 DEF DaemonInv

LEMMA DaemonWaitForSilence ==
    ASSUME DaemonInv, NEW l \in Launchers, DS!WaitForSilence(l)
    PROVE  DaemonInv'
<1>1. DaemonTypes'
  BY DEF DaemonInv, DaemonTypes, DS!WaitForSilence, DS!Goto, LauncherState
<1>2. NotYetSpawned'
  BY DEF DaemonInv, DaemonTypes, NotYetSpawned, DS!WaitForSilence, DS!Goto
<1>3. SeenIsStale'
  BY DEF DaemonInv, DaemonTypes, SeenIsStale, DS!WaitForSilence, DS!Goto, DS!Version
<1>4. DS!NoProcessIsLost'
  BY DEF DaemonInv, DaemonTypes, NotYetSpawned, DS!NoProcessIsLost, DS!WaitForSilence,
     DS!Goto
<1>5. OneHasThePort' /\ DS!StaleServersAreStopped' /\ DS!ReturnedServersStay'
  BY DEF DaemonInv, OneHasThePort, DS!StaleServersAreStopped, DS!ReturnedServersStay,
     DS!WaitForSilence, DS!Version
<1>. QED  BY <1>1, <1>2, <1>3, <1>4, <1>5 DEF DaemonInv

LEMMA DaemonWake ==
    ASSUME DaemonInv, NEW l \in Launchers, DS!Wake(l)
    PROVE  DaemonInv'
<1>1. DaemonTypes'
  BY DEF DaemonInv, DaemonTypes, DS!Wake, ProcessState
<1>2. OneHasThePort'
  BY DEF DaemonInv, OneHasThePort, DS!Wake
<1>3. NotYetSpawned'
  BY DaemonAssumption DEF DaemonInv, NotYetSpawned, DS!Wake
<1>4. SeenIsStale'
  BY DEF DaemonInv, SeenIsStale, DS!Wake, DS!Version
<1>5. DS!StaleServersAreStopped'
  BY DEF DaemonInv, DS!StaleServersAreStopped, DS!Wake, DS!Version
<1>6. DS!ReturnedServersStay'
  BY DEF DaemonInv, DS!ReturnedServersStay, DS!Wake, DS!Version
<1>7. DS!NoProcessIsLost'
  BY DaemonAssumption DEF DaemonInv, DS!NoProcessIsLost, DS!Wake
<1>. QED  BY <1>1, <1>2, <1>3, <1>4, <1>5, <1>6, <1>7 DEF DaemonInv

LEMMA DaemonWoken ==
    ASSUME DaemonInv, NEW l \in Launchers, DS!Woken(l)
    PROVE  DaemonInv'
<1>1. DaemonTypes'
  BY DEF DaemonInv, DaemonTypes, DS!Woken, DS!Goto, DS!Serving, DS!Return, LauncherState
<1>2. NotYetSpawned'
  BY DEF DaemonInv, NotYetSpawned, DS!Woken, DS!Goto, DS!Return
<1>3. SeenIsStale'
  BY DEF DaemonInv, SeenIsStale, DS!Woken, DS!Goto, DS!Return, DS!Version
<1>4. DS!ReturnedServersStay'
  BY DEF DaemonInv, DS!ReturnedServersStay, DS!Woken, DS!Serving, DS!Matches, DS!Return,
     DS!Version
<1>5. DS!NoProcessIsLost'
  BY DEF DaemonInv, DS!NoProcessIsLost, DS!Woken, DS!Goto, DS!Return
<1>6. OneHasThePort' /\ DS!StaleServersAreStopped'
  BY DEF DaemonInv, OneHasThePort, DS!StaleServersAreStopped, DS!Woken, DS!Version
<1>. QED  BY <1>1, <1>2, <1>3, <1>4, <1>5, <1>6 DEF DaemonInv

LEMMA DaemonSpawn ==
    ASSUME DaemonInv, NEW l \in Launchers, DS!Spawn(l)
    PROVE  DaemonInv'
<1>1. DaemonTypes'
  BY DEF DaemonInv, DaemonTypes, DS!Spawn, DS!Goto, ProcessState, LauncherState
<1>2. OneHasThePort'
  BY DEF DaemonInv, OneHasThePort, DS!Spawn
<1>3. NotYetSpawned'
  BY DEF DaemonInv, DaemonTypes, NotYetSpawned, DS!Spawn, DS!Goto
<1>4. SeenIsStale'
  BY DEF DaemonInv, NotYetSpawned, SeenIsStale, DS!Spawn, DS!Goto, DS!Version
<1>5. DS!StaleServersAreStopped'
  BY DEF DaemonInv, NotYetSpawned, DS!StaleServersAreStopped, DS!Spawn, DS!Version
<1>6. DS!ReturnedServersStay'
  BY DEF DaemonInv, NotYetSpawned, DS!ReturnedServersStay, DS!Spawn, DS!Version
<1>7. DS!NoProcessIsLost'
  BY DEF DaemonInv, DS!NoProcessIsLost, DS!Spawn, DS!Goto
<1>. QED  BY <1>1, <1>2, <1>3, <1>4, <1>5, <1>6, <1>7 DEF DaemonInv

LEMMA DaemonHealth ==
    ASSUME DaemonInv, NEW l \in Launchers, DS!Health(l)
    PROVE  DaemonInv'
<1>1. DaemonTypes'
  BY DEF DaemonInv, DaemonTypes, DS!Health, DS!Goto, DS!Serving, DS!Return, LauncherState
<1>2. NotYetSpawned'
  BY DEF DaemonInv, DaemonTypes, NotYetSpawned, DS!Health, DS!Goto, DS!Return
<1>3. SeenIsStale'
  BY DEF DaemonInv, DaemonTypes, SeenIsStale, DS!Health, DS!Goto, DS!Return, DS!Version
<1>4. DS!ReturnedServersStay'
  BY DEF DaemonInv, DaemonTypes, DS!ReturnedServersStay, DS!Health, DS!Serving, DS!Matches,
     DS!Return, DS!Version
<1>5. DS!NoProcessIsLost'
  BY DEF DaemonInv, DaemonTypes, DS!NoProcessIsLost, DS!Health, DS!Goto, DS!Return
<1>6. OneHasThePort' /\ DS!StaleServersAreStopped'
  BY DEF DaemonInv, OneHasThePort, DS!StaleServersAreStopped, DS!Health, DS!Version
<1>. QED  BY <1>1, <1>2, <1>3, <1>4, <1>5, <1>6 DEF DaemonInv

LEMMA DaemonPoll ==
    ASSUME DaemonInv, NEW l \in Launchers, DS!Poll(l)
    PROVE  DaemonInv'
<1>1. DaemonTypes'
  BY DEF DaemonInv, DaemonTypes, DS!Poll, DS!Goto, LauncherState
<1>2. NotYetSpawned'
  BY DEF DaemonInv, NotYetSpawned, DS!Poll, DS!Goto
<1>3. SeenIsStale'
  BY DEF DaemonInv, SeenIsStale, DS!Poll, DS!Goto, DS!Version
<1>4. DS!NoProcessIsLost'
  BY DEF DaemonInv, DS!NoProcessIsLost, DS!Poll, DS!Goto
<1>5. OneHasThePort' /\ DS!StaleServersAreStopped' /\ DS!ReturnedServersStay'
  BY DEF DaemonInv, OneHasThePort, DS!StaleServersAreStopped, DS!ReturnedServersStay,
     DS!Poll, DS!Version
<1>. QED  BY <1>1, <1>2, <1>3, <1>4, <1>5 DEF DaemonInv

LEMMA DaemonTimeOut ==
    ASSUME DaemonInv, NEW l \in Launchers, DS!TimeOut(l)
    PROVE  DaemonInv'
<1>1. DaemonTypes'
  BY DEF DaemonInv, DaemonTypes, DS!TimeOut, DS!Goto, ProcessState, LauncherState, Reason
<1>2. OneHasThePort'
  BY DEF DaemonInv, OneHasThePort, DS!TimeOut
<1>3. NotYetSpawned'
  BY DEF DaemonInv, NotYetSpawned, DS!TimeOut, DS!Goto, DS!Terminated, DS!Processes
<1>4. SeenIsStale'
  BY DEF DaemonInv, SeenIsStale, DS!TimeOut, DS!Goto, DS!Version
<1>5. DS!StaleServersAreStopped'
  BY DaemonAssumption DEF DaemonInv, SeenIsStale, DS!StaleServersAreStopped, DS!TimeOut,
     DS!Version
<1>6. DS!ReturnedServersStay'
  BY DEF DaemonInv, DaemonTypes, DS!ReturnedServersStay, DS!TimeOut, DS!Terminated,
     DS!Version
<1>7. DS!NoProcessIsLost'
  BY DEF DaemonInv, DS!NoProcessIsLost, DS!TimeOut, DS!Goto, DS!Terminated, DS!Processes
<1>. QED  BY <1>1, <1>2, <1>3, <1>4, <1>5, <1>6, <1>7 DEF DaemonInv

LEMMA DaemonRests ==
    ASSUME DaemonInv, UNCHANGED daemonVars
    PROVE  DaemonInv'
<1>1. UNCHANGED <<upgraded, process, told, launcher, seenServer, server, mistaken, why>>
  BY DEF daemonVars
<1>2. DaemonTypes' /\ OneHasThePort' /\ NotYetSpawned'
  BY <1>1 DEF DaemonInv, DaemonTypes, OneHasThePort, NotYetSpawned
<1>3. SeenIsStale' /\ DS!StaleServersAreStopped'
  BY <1>1 DEF DaemonInv, SeenIsStale, DS!StaleServersAreStopped, DS!Version
<1>4. DS!ReturnedServersStay' /\ DS!NoProcessIsLost'
  BY <1>1 DEF DaemonInv, DS!ReturnedServersStay, DS!NoProcessIsLost, DS!Version
<1>. QED  BY <1>2, <1>3, <1>4 DEF DaemonInv

LEMMA DaemonStep == DaemonInv /\ [Next]_vars => DaemonInv'
<1> SUFFICES ASSUME DaemonInv, [Next]_vars
             PROVE  DaemonInv'
  OBVIOUS
<1>1. CASE DS!Next
  <2>1. CASE DS!Done
    BY <2>1, DaemonRests DEF DS!Done, DS!aVars, daemonVars
  <2>2. CASE \E p \in DS!Processes : \/ DS!Bind(p) \/ DS!Serve(p)
                                     \/ DS!StopServing(p) \/ DS!ServerClose(p)
    BY <2>2, DaemonBind, DaemonServe, DaemonStopServing, DaemonServerClose
  <2>. QED  BY <1>1, <2>1, <2>2, DaemonUserShutdown, DaemonBegin, DaemonShutdown,
               DaemonWaitForSilence, DaemonWake, DaemonWoken, DaemonSpawn, DaemonHealth,
               DaemonPoll, DaemonTimeOut DEF DS!Next
<1>2. CASE UNCHANGED daemonVars
  BY <1>2, DaemonRests
<1>. QED  BY <1>1, <1>2 DEF Next, vars

-----------------------------------------------------------------------------
(* The index of a workspace (WorkspaceIndex).                              *)

DirectoryTypes ==
    /\ disk \in WI!Rows /\ edits \in 0 .. MaxEdits
    /\ rows \in WI!Rows
    /\ meta \in [there : BOOLEAN, revision : [Files -> WI!Texts]]

IndexerTypes ==
    /\ indexing \in {"idle", "files", "read", "write"}
    /\ work \in WI!Rows /\ todo \subseteq found /\ found \subseteq Files
    /\ stat \in [file : Files, stamp : 0 .. MaxEdits]
    /\ runs \in 0 .. MaxIndexes /\ crashes \in 0 .. MaxCrashes

ReaderTypes ==
    /\ cache \subseteq [revision : [Files -> WI!Texts], map : [Files -> WI!Texts]]
    /\ answer \in [Readers -> [at : {"idle", "hits", "capsule"},
                               revision : [Files -> WI!Texts], hits : [Files -> WI!Texts]]]

\* A row has the text of a file that could be read.
IsRow(row) == row = WI!NoRow \/ row.text \notin {WI!Absent, WI!Binary}

RowsAreReal == \A f \in Files : IsRow(rows[f]) /\ IsRow(work[f])

\* A row that has the stamp of its file has its text.
Tells(row, f) ==
    /\ row.stamp <= edits
    /\ row # WI!NoRow /\ row.stamp = disk[f].stamp => row.text = disk[f].text

StampsTell ==
    /\ \A f \in Files : disk[f].stamp <= edits /\ Tells(rows[f], f) /\ Tells(work[f], f)
    /\ stat.stamp <= edits

TextOnDisk(f) == IF WI!Readable(f) THEN disk[f].text ELSE WI!Absent

\* While nobody edits, what has been discovered is there, and what has been read is right.
WorkFollowsDisk ==
    settled /\ indexing \in {"files", "read"} =>
       /\ found = WI!Present
       /\ \A f \in found \ todo : work[f].text = TextOnDisk(f)

\* The metadata has the revision of the database but between commit and replacement.
RevisionIsKept == ~torn /\ indexing # "write" => meta.revision = WI!Revision(rows)

IndexInv ==
    /\ DirectoryTypes /\ IndexerTypes /\ ReaderTypes
    /\ RowsAreReal /\ StampsTell /\ WorkFollowsDisk /\ RevisionIsKept
    /\ WI!IndexFollowsDisk /\ WI!MapsMatchRevision

\* The texts and stamps of rows are numbers.
LEMMA RowTypes ==
    /\ WI!NoRow \in [text : WI!Texts, stamp : 0 .. MaxEdits]
    /\ WI!Empty \in WI!Rows /\ WI!EmptyIndex \in [Files -> WI!Texts]
    /\ WI!NoStat \in [file : Files, stamp : 0 .. MaxEdits]
    /\ \A r \in WI!Rows : WI!Revision(r) \in [Files -> WI!Texts]
    /\ WI!Revision(WI!Empty) = WI!EmptyIndex
<1>1. 0 \in 0 .. MaxEdits /\ WI!Absent \in WI!Texts
  BY IndexAssumption DEF WI!Absent, WI!Texts
<1>2. (CHOOSE f \in Files : TRUE) \in Files
  BY IndexAssumption
<1>3. WI!NoRow \in [text : WI!Texts, stamp : 0 .. MaxEdits]
  BY <1>1 DEF WI!NoRow
<1>4. WI!Empty \in WI!Rows /\ WI!EmptyIndex \in [Files -> WI!Texts]
  BY <1>1, <1>3 DEF WI!Empty, WI!Rows, WI!EmptyIndex
<1>5. WI!NoStat \in [file : Files, stamp : 0 .. MaxEdits]
  BY <1>1, <1>2 DEF WI!NoStat
<1>6. \A r \in WI!Rows : WI!Revision(r) \in [Files -> WI!Texts]
  BY DEF WI!Rows, WI!Revision
<1>7. WI!Revision(WI!Empty) = WI!EmptyIndex
  BY DEF WI!Revision, WI!Empty, WI!EmptyIndex, WI!NoRow
<1>. QED  BY <1>3, <1>4, <1>5, <1>6, <1>7

LEMMA IndexInit == Init => IndexInv
<1> SUFFICES ASSUME Init PROVE IndexInv
  OBVIOUS
<1>0. WI!Init
  BY DEF Init
<1>1. DirectoryTypes /\ IndexerTypes
  <2>1. disk = WI!Empty /\ rows = WI!Empty /\ work = WI!Empty
    BY <1>0 DEF WI!Init, WI!Empty
  <2>2. meta \in [there : BOOLEAN, revision : [Files -> WI!Texts]]
    BY <1>0, RowTypes DEF WI!Init
  <2>. QED  BY <1>0, <2>1, <2>2, RowTypes, IndexAssumption DEF WI!Init, DirectoryTypes,
         IndexerTypes
<1>2. ReaderTypes
  BY <1>0, RowTypes DEF WI!Init, ReaderTypes, WI!NoAnswer
<1>3. RowsAreReal /\ StampsTell
  BY <1>0 DEF WI!Init, RowsAreReal, StampsTell, IsRow, Tells, WI!Empty, WI!NoRow, WI!NoStat
<1>4. RevisionIsKept
  BY <1>0, RowTypes DEF WI!Init, RevisionIsKept
<1>5. WorkFollowsDisk /\ WI!IndexFollowsDisk /\ WI!MapsMatchRevision
  BY <1>0 DEF WI!Init, WorkFollowsDisk, WI!IndexFollowsDisk, WI!MapsMatchRevision
<1>. QED  BY <1>1, <1>2, <1>3, <1>4, <1>5 DEF IndexInv

LEMMA IndexHolds ==
    ASSUME IndexInv
    PROVE  WI!TypeOK /\ WI!IndexFollowsDisk /\ WI!MapsMatchRevision
BY DEF IndexInv, DirectoryTypes, IndexerTypes, ReaderTypes, WI!TypeOK


LEMMA IndexEdit ==
    ASSUME IndexInv, WI!Edit
    PROVE  IndexInv'
<1>1. UNCHANGED <<rows, meta, indexing, work, todo, found, stat, runs, cache, answer,
                  crashes, torn>>
  BY DEF WI!Edit, WI!disks, WI!stored, WI!indexer
<1>2. DirectoryTypes'
  <2>0. PICK f \in Files : \E text \in {WI!Absent, WI!Binary, edits + 1, disk[f].text} :
          disk' = [disk EXCEPT ![f] = [text |-> text, stamp |-> edits + 1]]
    BY DEF WI!Edit
  <2>1. PICK text \in {WI!Absent, WI!Binary, edits + 1, disk[f].text} :
          disk' = [disk EXCEPT ![f] = [text |-> text, stamp |-> edits + 1]]
    BY <2>0
  <2>2. disk \in WI!Rows /\ edits \in 0 .. MaxEdits /\ edits < MaxEdits
    BY DEF IndexInv, DirectoryTypes, WI!Edit
  <2>3. edits + 1 \in 0 .. MaxEdits /\ edits' = edits + 1
    BY <2>2, IndexAssumption DEF WI!Edit
  <2>4. {WI!Absent, WI!Binary, edits + 1} \subseteq WI!Texts
    BY <2>3, IndexAssumption DEF WI!Texts, WI!Absent, WI!Binary
  <2>5. text \in WI!Texts
    BY <2>1, <2>2, <2>4 DEF WI!Rows
  <2>6. disk' \in WI!Rows
    BY <2>1, <2>2, <2>3, <2>5 DEF WI!Rows
  <2>. QED  BY <1>1, <2>3, <2>6 DEF IndexInv, DirectoryTypes
<1>3. StampsTell'
  BY <1>1, RowTypes, IndexAssumption DEF IndexInv, StampsTell, Tells, DirectoryTypes,
     IndexerTypes, RowsAreReal, WI!Empty, WI!NoRow, WI!NoStat, WI!Rows, WI!Edit
<1>4. WorkFollowsDisk'
  BY <1>1, RowTypes, IndexAssumption DEF IndexInv, WorkFollowsDisk, TextOnDisk,
     WI!Readable, WI!Present, RowsAreReal, IsRow, StampsTell, Tells, DirectoryTypes,
     IndexerTypes, WI!Rows, WI!Edit
<1>5. WI!IndexFollowsDisk'
  BY <1>1, RowTypes, IndexAssumption DEF IndexInv, WI!IndexFollowsDisk, WorkFollowsDisk,
     TextOnDisk, WI!Readable, WI!Present, WI!NoRow, DirectoryTypes, IndexerTypes, WI!Edit
<1>6. /\ IndexerTypes' /\ ReaderTypes' /\ RowsAreReal' /\ RevisionIsKept'
      /\ WI!MapsMatchRevision'
  BY <1>1 DEF IndexInv, IndexerTypes, ReaderTypes, RowsAreReal, RevisionIsKept,
     WI!MapsMatchRevision, Tells, TextOnDisk, WI!Readable, WI!Present, WI!Revision
<1>. QED  BY <1>2, <1>3, <1>4, <1>5, <1>6 DEF IndexInv

LEMMA IndexRegister ==
    ASSUME IndexInv, WI!Register
    PROVE  IndexInv'
<1>1. UNCHANGED <<disk, edits, rows, indexing, work, todo, found, stat, runs, answer,
                  crashes, settled, torn>>
  BY DEF WI!Register, WI!disks, WI!stored, WI!indexer
<1>2. DirectoryTypes'
  BY <1>1, RowTypes, IndexAssumption DEF IndexInv, DirectoryTypes, IndexerTypes, WI!Rows,
     WI!Register
<1>3. ReaderTypes'
  BY <1>1, RowTypes, IndexAssumption DEF IndexInv, ReaderTypes, DirectoryTypes, WI!Register
<1>4. RevisionIsKept'
  BY <1>1, RowTypes, IndexAssumption DEF IndexInv, RevisionIsKept, DirectoryTypes,
     WI!Register
<1>5. WI!MapsMatchRevision'
  BY <1>1, RowTypes, IndexAssumption DEF IndexInv, WI!MapsMatchRevision, RevisionIsKept,
     WI!Register
<1>6. /\ IndexerTypes' /\ RowsAreReal' /\ StampsTell' /\ WorkFollowsDisk'
      /\ WI!IndexFollowsDisk'
  BY <1>1 DEF IndexInv, IndexerTypes, RowsAreReal, StampsTell, WorkFollowsDisk,
     WI!IndexFollowsDisk, Tells, TextOnDisk, WI!Readable, WI!Present, WI!Revision
<1>. QED  BY <1>2, <1>3, <1>4, <1>5, <1>6 DEF IndexInv

LEMMA IndexRemove ==
    ASSUME IndexInv, WI!Remove
    PROVE  IndexInv'
<1>1. UNCHANGED <<disk, edits, indexing, work, todo, found, stat, runs, answer,
                  crashes, settled>>
  BY DEF WI!Remove, WI!disks, WI!stored, WI!indexer
<1>2. DirectoryTypes'
  BY <1>1, RowTypes, IndexAssumption DEF IndexInv, DirectoryTypes, IndexerTypes, WI!Rows,
     WI!Remove
<1>3. ReaderTypes'
  BY <1>1, RowTypes, IndexAssumption DEF IndexInv, ReaderTypes, DirectoryTypes, WI!Remove
<1>4. RowsAreReal'
  BY <1>1, RowTypes, IndexAssumption DEF IndexInv, RowsAreReal, IsRow, WI!Empty, WI!Remove
<1>5. StampsTell'
  BY <1>1, RowTypes, IndexAssumption DEF IndexInv, StampsTell, Tells, DirectoryTypes,
     IndexerTypes, RowsAreReal, WI!Empty, WI!NoRow, WI!NoStat, WI!Rows, WI!Remove
<1>6. RevisionIsKept'
  BY <1>1, RowTypes, IndexAssumption DEF IndexInv, RevisionIsKept, DirectoryTypes,
     WI!Remove
<1>7. WI!IndexFollowsDisk'
  BY <1>1, RowTypes, IndexAssumption DEF IndexInv, WI!IndexFollowsDisk, WorkFollowsDisk,
     TextOnDisk, WI!Readable, WI!Present, WI!NoRow, DirectoryTypes, IndexerTypes, WI!Remove
<1>8. WI!MapsMatchRevision'
  BY <1>1, RowTypes, IndexAssumption DEF IndexInv, WI!MapsMatchRevision, RevisionIsKept,
     WI!Remove
<1>9. IndexerTypes' /\ WorkFollowsDisk'
  BY <1>1 DEF IndexInv, IndexerTypes, WorkFollowsDisk, Tells, TextOnDisk, WI!Readable,
     WI!Present, WI!Revision
<1>. QED  BY <1>2, <1>3, <1>4, <1>5, <1>6, <1>7, <1>8, <1>9 DEF IndexInv

LEMMA IndexBegin ==
    ASSUME IndexInv, WI!Begin
    PROVE  IndexInv'
<1>1. UNCHANGED <<disk, edits, rows, meta, cache, answer, crashes, torn>>
  BY DEF WI!Begin, WI!disks, WI!stored, WI!indexer
<1>2. IndexerTypes'
  <2>1. runs' \in 0 .. MaxIndexes
    BY IndexAssumption DEF WI!Begin, IndexInv, IndexerTypes
  <2>2. todo' = found' /\ found' \subseteq Files
    BY DEF WI!Begin, WI!Present
  <2>. QED  BY <1>1, <2>1, <2>2, RowTypes DEF WI!Begin, IndexInv, IndexerTypes, DirectoryTypes
<1>3. RowsAreReal'
  BY <1>1, RowTypes, IndexAssumption DEF IndexInv, RowsAreReal, IsRow, WI!Empty, WI!Begin
<1>4. StampsTell'
  BY <1>1, RowTypes, IndexAssumption DEF IndexInv, StampsTell, Tells, DirectoryTypes,
     IndexerTypes, RowsAreReal, WI!Empty, WI!NoRow, WI!NoStat, WI!Rows, WI!Begin
<1>5. WorkFollowsDisk'
  BY <1>1, RowTypes, IndexAssumption DEF IndexInv, WorkFollowsDisk, TextOnDisk,
     WI!Readable, WI!Present, RowsAreReal, IsRow, StampsTell, Tells, DirectoryTypes,
     IndexerTypes, WI!Rows, WI!Begin
<1>6. RevisionIsKept'
  BY <1>1, RowTypes, IndexAssumption DEF IndexInv, RevisionIsKept, DirectoryTypes, WI!Begin
<1>7. WI!IndexFollowsDisk'
  BY <1>1, RowTypes, IndexAssumption DEF IndexInv, WI!IndexFollowsDisk, WorkFollowsDisk,
     TextOnDisk, WI!Readable, WI!Present, WI!NoRow, DirectoryTypes, IndexerTypes, WI!Begin
<1>8. DirectoryTypes' /\ ReaderTypes' /\ WI!MapsMatchRevision'
  BY <1>1 DEF IndexInv, DirectoryTypes, ReaderTypes, WI!MapsMatchRevision, Tells,
     TextOnDisk, WI!Readable, WI!Present, WI!Revision
<1>. QED  BY <1>2, <1>3, <1>4, <1>5, <1>6, <1>7, <1>8 DEF IndexInv

LEMMA IndexLookAt ==
    ASSUME IndexInv, NEW f \in Files, WI!LookAt(f)
    PROVE  IndexInv'
<1>1. UNCHANGED <<disk, edits, rows, meta, work, found, runs, cache, answer, crashes,
                  settled, torn>>
  BY DEF WI!LookAt, WI!SameStamp, WI!disks, WI!stored, WI!indexer
<1>2. IndexerTypes'
  BY <1>1, RowTypes, IndexAssumption DEF IndexInv, IndexerTypes, DirectoryTypes, WI!Rows,
     WI!LookAt, WI!SameStamp
<1>3. StampsTell'
  BY <1>1, RowTypes, IndexAssumption DEF IndexInv, StampsTell, Tells, DirectoryTypes,
     IndexerTypes, RowsAreReal, WI!Empty, WI!NoRow, WI!NoStat, WI!Rows, WI!LookAt,
     WI!SameStamp
<1>4. WorkFollowsDisk'
  BY <1>1, RowTypes, IndexAssumption DEF IndexInv, WorkFollowsDisk, TextOnDisk,
     WI!Readable, WI!Present, RowsAreReal, IsRow, StampsTell, Tells, DirectoryTypes,
     IndexerTypes, WI!Rows, WI!LookAt, WI!SameStamp
<1>5. RevisionIsKept'
  BY <1>1, RowTypes, IndexAssumption DEF IndexInv, RevisionIsKept, DirectoryTypes,
     WI!LookAt, WI!SameStamp
<1>6. WI!IndexFollowsDisk'
  BY <1>1, RowTypes, IndexAssumption DEF IndexInv, WI!IndexFollowsDisk, WorkFollowsDisk,
     TextOnDisk, WI!Readable, WI!Present, WI!NoRow, DirectoryTypes, IndexerTypes,
     WI!LookAt, WI!SameStamp
<1>7. DirectoryTypes' /\ ReaderTypes' /\ RowsAreReal' /\ WI!MapsMatchRevision'
  BY <1>1 DEF IndexInv, DirectoryTypes, ReaderTypes, RowsAreReal, WI!MapsMatchRevision,
     Tells, TextOnDisk, WI!Readable, WI!Present, WI!Revision
<1>. QED  BY <1>2, <1>3, <1>4, <1>5, <1>6, <1>7 DEF IndexInv

LEMMA IndexRead ==
    ASSUME IndexInv, WI!Read
    PROVE  IndexInv'
<1>1. UNCHANGED <<disk, edits, rows, meta, found, runs, cache, answer, crashes, settled, torn>>
  BY DEF WI!Read, WI!NewRow, WI!disks, WI!stored, WI!indexer
<1>2. IndexerTypes'
  BY <1>1, RowTypes, IndexAssumption DEF IndexInv, IndexerTypes, DirectoryTypes, WI!Rows,
     WI!Read, WI!NewRow
<1>3. RowsAreReal'
  BY <1>1, RowTypes, IndexAssumption DEF IndexInv, RowsAreReal, IsRow, WI!Empty, WI!Read,
     WI!NewRow
<1>4. StampsTell'
  BY <1>1, RowTypes, IndexAssumption DEF IndexInv, StampsTell, Tells, DirectoryTypes,
     IndexerTypes, RowsAreReal, WI!Empty, WI!NoRow, WI!NoStat, WI!Rows, WI!Read, WI!NewRow
<1>5. WorkFollowsDisk'
  <2> SUFFICES ASSUME settled
               PROVE  /\ found' = WI!Present'
                      /\ \A f \in found' \ todo' : work'[f].text = TextOnDisk(f)'
    BY <1>1 DEF WorkFollowsDisk
  <2>1. /\ found = WI!Present /\ \A f \in found \ todo : work[f].text = TextOnDisk(f)
        /\ work \in WI!Rows /\ stat.file \in Files
    BY DEF IndexInv, WorkFollowsDisk, IndexerTypes, WI!Read
  <2>2. /\ todo' = todo \ {stat.file}
        /\ work' = [work EXCEPT ![stat.file] =
                      IF disk[stat.file].text \in {WI!Absent, WI!Binary} THEN WI!NoRow
                      ELSE WI!NewRow(stat.file)]
    BY DEF WI!Read
  <2>3. work'[stat.file].text = TextOnDisk(stat.file)
    BY <2>1, <2>2 DEF TextOnDisk, WI!Readable, WI!NoRow, WI!NewRow, WI!Rows
  <2>4. ASSUME NEW f \in found \ todo'
        PROVE  work'[f].text = TextOnDisk(f)
    BY <2>1, <2>2, <2>3 DEF WI!Rows
  <2>. QED  BY <1>1, <2>1, <2>4 DEF WI!Present, TextOnDisk, WI!Readable
<1>6. RevisionIsKept'
  BY <1>1, RowTypes, IndexAssumption DEF IndexInv, RevisionIsKept, DirectoryTypes, WI!Read,
     WI!NewRow
<1>7. WI!IndexFollowsDisk'
  BY <1>1, RowTypes, IndexAssumption DEF IndexInv, WI!IndexFollowsDisk, WorkFollowsDisk,
     TextOnDisk, WI!Readable, WI!Present, WI!NoRow, DirectoryTypes, IndexerTypes, WI!Read,
     WI!NewRow
<1>8. DirectoryTypes' /\ ReaderTypes' /\ WI!MapsMatchRevision'
  BY <1>1 DEF IndexInv, DirectoryTypes, ReaderTypes, WI!MapsMatchRevision, Tells,
     TextOnDisk, WI!Readable, WI!Present, WI!Revision
<1>. QED  BY <1>2, <1>3, <1>4, <1>5, <1>6, <1>7, <1>8 DEF IndexInv

LEMMA IndexCommit ==
    ASSUME IndexInv, WI!Commit
    PROVE  IndexInv'
<1>1. UNCHANGED <<disk, edits, meta, todo, stat, runs, cache, answer, crashes, settled, torn>>
  BY DEF WI!Commit, WI!disks, WI!stored, WI!indexer
<1>2. DirectoryTypes'
  BY <1>1, RowTypes, IndexAssumption DEF IndexInv, DirectoryTypes, IndexerTypes, WI!Rows,
     WI!Commit
<1>3. IndexerTypes'
  BY <1>1, RowTypes, IndexAssumption DEF IndexInv, IndexerTypes, DirectoryTypes, WI!Rows,
     WI!Commit
<1>4. RowsAreReal'
  BY <1>1, RowTypes, IndexAssumption DEF IndexInv, RowsAreReal, IsRow, WI!Empty, WI!Commit
<1>5. StampsTell'
  BY <1>1, RowTypes, IndexAssumption DEF IndexInv, StampsTell, Tells, DirectoryTypes,
     IndexerTypes, RowsAreReal, WI!Empty, WI!NoRow, WI!NoStat, WI!Rows, WI!Commit
<1>6. WorkFollowsDisk'
  BY <1>1, RowTypes, IndexAssumption DEF IndexInv, WorkFollowsDisk, TextOnDisk,
     WI!Readable, WI!Present, RowsAreReal, IsRow, StampsTell, Tells, DirectoryTypes,
     IndexerTypes, WI!Rows, WI!Commit
<1>7. RevisionIsKept'
  BY <1>1, RowTypes, IndexAssumption DEF IndexInv, RevisionIsKept, DirectoryTypes,
     WI!Commit
<1>8. WI!IndexFollowsDisk'
  BY <1>1, RowTypes, IndexAssumption DEF IndexInv, WI!IndexFollowsDisk, WorkFollowsDisk,
     TextOnDisk, WI!Readable, WI!Present, WI!NoRow, DirectoryTypes, IndexerTypes, WI!Commit
<1>9. ReaderTypes' /\ WI!MapsMatchRevision'
  BY <1>1 DEF IndexInv, ReaderTypes, WI!MapsMatchRevision, Tells, TextOnDisk, WI!Readable,
     WI!Present, WI!Revision
<1>. QED  BY <1>2, <1>3, <1>4, <1>5, <1>6, <1>7, <1>8, <1>9 DEF IndexInv

LEMMA IndexWriteMetadata ==
    ASSUME IndexInv, WI!WriteMetadata
    PROVE  IndexInv'
<1>1. UNCHANGED <<disk, edits, rows, work, todo, found, stat, runs, answer, crashes, settled>>
  BY DEF WI!WriteMetadata, WI!disks, WI!stored, WI!indexer
<1>2. DirectoryTypes'
  BY <1>1, RowTypes, IndexAssumption DEF IndexInv, DirectoryTypes, IndexerTypes, WI!Rows,
     WI!WriteMetadata
<1>3. IndexerTypes'
  BY <1>1, RowTypes, IndexAssumption DEF IndexInv, IndexerTypes, DirectoryTypes, WI!Rows,
     WI!WriteMetadata
<1>4. ReaderTypes'
  BY <1>1, RowTypes, IndexAssumption DEF IndexInv, ReaderTypes, DirectoryTypes,
     WI!WriteMetadata
<1>5. WorkFollowsDisk'
  BY <1>1, RowTypes, IndexAssumption DEF IndexInv, WorkFollowsDisk, TextOnDisk,
     WI!Readable, WI!Present, RowsAreReal, IsRow, StampsTell, Tells, DirectoryTypes,
     IndexerTypes, WI!Rows, WI!WriteMetadata
<1>6. RevisionIsKept'
  BY <1>1, RowTypes, IndexAssumption DEF IndexInv, RevisionIsKept, DirectoryTypes,
     WI!WriteMetadata
<1>7. WI!IndexFollowsDisk'
  BY <1>1, RowTypes, IndexAssumption DEF IndexInv, WI!IndexFollowsDisk, WorkFollowsDisk,
     TextOnDisk, WI!Readable, WI!Present, WI!NoRow, DirectoryTypes, IndexerTypes,
     WI!WriteMetadata
<1>8. WI!MapsMatchRevision'
  BY <1>1, RowTypes, IndexAssumption DEF IndexInv, WI!MapsMatchRevision, RevisionIsKept,
     WI!WriteMetadata
<1>9. RowsAreReal' /\ StampsTell'
  BY <1>1 DEF IndexInv, RowsAreReal, StampsTell, Tells, TextOnDisk, WI!Readable,
     WI!Present, WI!Revision
<1>. QED  BY <1>2, <1>3, <1>4, <1>5, <1>6, <1>7, <1>8, <1>9 DEF IndexInv

LEMMA IndexCancelIndex ==
    ASSUME IndexInv, WI!CancelIndex
    PROVE  IndexInv'
<1>1. UNCHANGED <<disk, edits, rows, meta, runs, cache, answer, crashes, settled, torn>>
  BY DEF WI!CancelIndex, WI!StopIndexing, WI!disks, WI!stored, WI!indexer
<1>2. IndexerTypes'
  BY <1>1, RowTypes, IndexAssumption DEF IndexInv, IndexerTypes, DirectoryTypes, WI!Rows,
     WI!CancelIndex, WI!StopIndexing
<1>3. RowsAreReal'
  BY <1>1, RowTypes, IndexAssumption DEF IndexInv, RowsAreReal, IsRow, WI!Empty,
     WI!CancelIndex, WI!StopIndexing
<1>4. StampsTell'
  BY <1>1, RowTypes, IndexAssumption DEF IndexInv, StampsTell, Tells, DirectoryTypes,
     IndexerTypes, RowsAreReal, WI!Empty, WI!NoRow, WI!NoStat, WI!Rows, WI!CancelIndex,
     WI!StopIndexing
<1>5. WorkFollowsDisk'
  BY <1>1, RowTypes, IndexAssumption DEF IndexInv, WorkFollowsDisk, TextOnDisk,
     WI!Readable, WI!Present, RowsAreReal, IsRow, StampsTell, Tells, DirectoryTypes,
     IndexerTypes, WI!Rows, WI!CancelIndex, WI!StopIndexing
<1>6. RevisionIsKept'
  BY <1>1, RowTypes, IndexAssumption DEF IndexInv, RevisionIsKept, DirectoryTypes,
     WI!CancelIndex, WI!StopIndexing
<1>7. WI!IndexFollowsDisk'
  BY <1>1, RowTypes, IndexAssumption DEF IndexInv, WI!IndexFollowsDisk, WorkFollowsDisk,
     TextOnDisk, WI!Readable, WI!Present, WI!NoRow, DirectoryTypes, IndexerTypes,
     WI!CancelIndex, WI!StopIndexing
<1>8. DirectoryTypes' /\ ReaderTypes' /\ WI!MapsMatchRevision'
  BY <1>1 DEF IndexInv, DirectoryTypes, ReaderTypes, WI!MapsMatchRevision, Tells,
     TextOnDisk, WI!Readable, WI!Present, WI!Revision
<1>. QED  BY <1>2, <1>3, <1>4, <1>5, <1>6, <1>7, <1>8 DEF IndexInv

LEMMA IndexCrash ==
    ASSUME IndexInv, WI!Crash
    PROVE  IndexInv'
<1>1. UNCHANGED <<disk, edits, rows, meta, runs, settled>>
  BY DEF WI!Crash, WI!StopIndexing, WI!disks, WI!stored, WI!indexer
<1>2. IndexerTypes'
  BY <1>1, RowTypes, IndexAssumption DEF IndexInv, IndexerTypes, DirectoryTypes, WI!Rows,
     WI!Crash, WI!StopIndexing
<1>3. ReaderTypes'
  <2>1. WI!NoAnswer \in [at : {"idle", "hits", "capsule"},
                         revision : [Files -> WI!Texts], hits : [Files -> WI!Texts]]
    BY RowTypes DEF WI!NoAnswer
  <2>2. cache' = {} /\ answer' = [r \in Readers |-> WI!NoAnswer]
    BY DEF WI!Crash
  <2>. QED  BY <2>1, <2>2 DEF ReaderTypes
<1>4. RowsAreReal'
  BY <1>1, RowTypes, IndexAssumption DEF IndexInv, RowsAreReal, IsRow, WI!Empty, WI!Crash,
     WI!StopIndexing
<1>5. StampsTell'
  BY <1>1, RowTypes, IndexAssumption DEF IndexInv, StampsTell, Tells, DirectoryTypes,
     IndexerTypes, RowsAreReal, WI!Empty, WI!NoRow, WI!NoStat, WI!Rows, WI!Crash,
     WI!StopIndexing
<1>6. WorkFollowsDisk'
  BY <1>1, RowTypes, IndexAssumption DEF IndexInv, WorkFollowsDisk, TextOnDisk,
     WI!Readable, WI!Present, RowsAreReal, IsRow, StampsTell, Tells, DirectoryTypes,
     IndexerTypes, WI!Rows, WI!Crash, WI!StopIndexing
<1>7. RevisionIsKept'
  BY <1>1, RowTypes, IndexAssumption DEF IndexInv, RevisionIsKept, DirectoryTypes,
     WI!Crash, WI!StopIndexing
<1>8. WI!IndexFollowsDisk'
  BY <1>1, RowTypes, IndexAssumption DEF IndexInv, WI!IndexFollowsDisk, WorkFollowsDisk,
     TextOnDisk, WI!Readable, WI!Present, WI!NoRow, DirectoryTypes, IndexerTypes, WI!Crash,
     WI!StopIndexing
<1>9. WI!MapsMatchRevision'
  BY <1>1, RowTypes, IndexAssumption DEF IndexInv, WI!MapsMatchRevision, RevisionIsKept,
     WI!Crash, WI!StopIndexing
<1>10. DirectoryTypes'
  BY <1>1 DEF IndexInv, DirectoryTypes, Tells, TextOnDisk, WI!Readable, WI!Present,
     WI!Revision
<1>. QED  BY <1>2, <1>3, <1>4, <1>5, <1>6, <1>7, <1>8, <1>9, <1>10 DEF IndexInv

LEMMA IndexReadMetadata ==
    ASSUME IndexInv, NEW r \in Readers, WI!ReadMetadata(r)
    PROVE  IndexInv'
<1>1. UNCHANGED <<disk, edits, rows, meta, indexing, work, todo, found, stat, runs,
                  cache, crashes, settled, torn>>
  BY DEF WI!ReadMetadata, WI!NoAnswer, WI!disks, WI!stored, WI!indexer
<1>2. ReaderTypes'
  BY <1>1, RowTypes, IndexAssumption DEF IndexInv, ReaderTypes, DirectoryTypes,
     WI!ReadMetadata, WI!NoAnswer
<1>3. /\ DirectoryTypes' /\ IndexerTypes' /\ RowsAreReal' /\ StampsTell'
      /\ WorkFollowsDisk' /\ RevisionIsKept' /\ WI!IndexFollowsDisk'
      /\ WI!MapsMatchRevision'
  BY <1>1 DEF IndexInv, DirectoryTypes, IndexerTypes, RowsAreReal, StampsTell,
     WorkFollowsDisk, RevisionIsKept, WI!IndexFollowsDisk, WI!MapsMatchRevision, Tells,
     TextOnDisk, WI!Readable, WI!Present, WI!Revision
<1>. QED  BY <1>2, <1>3 DEF IndexInv

LEMMA IndexReadHits ==
    ASSUME IndexInv, NEW r \in Readers, WI!ReadHits(r)
    PROVE  IndexInv'
<1>1. UNCHANGED <<disk, edits, rows, meta, indexing, work, todo, found, stat, runs,
                  cache, crashes, settled, torn>>
  BY DEF WI!ReadHits, WI!NoAnswer, WI!disks, WI!stored, WI!indexer
<1>2. ReaderTypes'
  BY <1>1, RowTypes, IndexAssumption DEF IndexInv, ReaderTypes, DirectoryTypes,
     WI!ReadHits, WI!NoAnswer
<1>3. /\ DirectoryTypes' /\ IndexerTypes' /\ RowsAreReal' /\ StampsTell'
      /\ WorkFollowsDisk' /\ RevisionIsKept' /\ WI!IndexFollowsDisk'
      /\ WI!MapsMatchRevision'
  BY <1>1 DEF IndexInv, DirectoryTypes, IndexerTypes, RowsAreReal, StampsTell,
     WorkFollowsDisk, RevisionIsKept, WI!IndexFollowsDisk, WI!MapsMatchRevision, Tells,
     TextOnDisk, WI!Readable, WI!Present, WI!Revision
<1>. QED  BY <1>2, <1>3 DEF IndexInv

LEMMA IndexCapsule ==
    ASSUME IndexInv, NEW r \in Readers, WI!Capsule(r)
    PROVE  IndexInv'
<1>1. UNCHANGED <<disk, edits, rows, meta, indexing, work, todo, found, stat, runs,
                  crashes, settled, torn>>
  BY DEF WI!Capsule, WI!NoAnswer, WI!LockIsFree, WI!disks, WI!stored, WI!indexer
<1>2. ReaderTypes'
  BY <1>1, RowTypes, IndexAssumption DEF IndexInv, ReaderTypes, DirectoryTypes, WI!Capsule,
     WI!NoAnswer, WI!LockIsFree
<1>3. WI!MapsMatchRevision'
  BY <1>1, RowTypes, IndexAssumption DEF IndexInv, WI!MapsMatchRevision, RevisionIsKept,
     WI!Capsule, WI!NoAnswer, WI!LockIsFree
<1>4. /\ DirectoryTypes' /\ IndexerTypes' /\ RowsAreReal' /\ StampsTell'
      /\ WorkFollowsDisk' /\ RevisionIsKept' /\ WI!IndexFollowsDisk'
  BY <1>1 DEF IndexInv, DirectoryTypes, IndexerTypes, RowsAreReal, StampsTell,
     WorkFollowsDisk, RevisionIsKept, WI!IndexFollowsDisk, Tells, TextOnDisk, WI!Readable,
     WI!Present, WI!Revision
<1>. QED  BY <1>2, <1>3, <1>4 DEF IndexInv


LEMMA IndexRests ==
    ASSUME IndexInv, UNCHANGED indexVars
    PROVE  IndexInv'
<1>1. /\ UNCHANGED <<disk, edits, rows, meta, indexing, work, todo, found, stat, runs, cache>>
      /\ UNCHANGED <<answer, crashes, settled, torn>>
  BY DEF indexVars
<1>2. DirectoryTypes' /\ IndexerTypes' /\ ReaderTypes'
  BY <1>1 DEF IndexInv, DirectoryTypes, IndexerTypes, ReaderTypes
<1>3. RowsAreReal' /\ StampsTell' /\ RevisionIsKept'
  BY <1>1 DEF IndexInv, RowsAreReal, StampsTell, Tells, RevisionIsKept, WI!Revision
<1>4. WorkFollowsDisk' /\ WI!IndexFollowsDisk' /\ WI!MapsMatchRevision'
  BY <1>1 DEF IndexInv, WorkFollowsDisk, WI!IndexFollowsDisk, WI!MapsMatchRevision,
     TextOnDisk, WI!Readable, WI!Present
<1>. QED  BY <1>2, <1>3, <1>4 DEF IndexInv

LEMMA IndexStep == IndexInv /\ [Next]_vars => IndexInv'
<1> SUFFICES ASSUME IndexInv, [Next]_vars
             PROVE  IndexInv'
  OBVIOUS
<1>1. CASE WI!Next
  <2>1. CASE WI!Done
    BY <2>1, IndexRests
       DEF WI!Done, WI!wvars, WI!disks, WI!stored, WI!indexer, indexVars
  <2>. QED  BY <1>1, <2>1, IndexEdit, IndexRegister, IndexRemove, IndexBegin, IndexLookAt,
               IndexRead, IndexCommit, IndexWriteMetadata, IndexCancelIndex, IndexCrash,
               IndexReadMetadata, IndexReadHits, IndexCapsule DEF WI!Next
<1>2. CASE UNCHANGED indexVars
  BY <1>2, IndexRests
<1>. QED  BY <1>1, <1>2 DEF Next, vars

-----------------------------------------------------------------------------
(* The weights on disk (ModelDownloads).                                   *)

PullRecord ==
    [pc : {"idle", "resolve", "download", "stop", "next", "ending", "ended"},
     model : MD!Kinds, at : {1, 2}, left : SUBSET (Shards \cup DraftShards),
     cancel : BOOLEAN, stream : BOOLEAN,
     status : {"none", "cancelled", "failed", "completed"}]

RemoverRecord ==
    [pc : {"idle", "check", "unload", "remove", "ended"}, model : MD!Kinds,
     todo : Seq(MD!Repositories), met : SUBSET MD!Kinds]

WeightTypes ==
    /\ weights \in [MD!Repositories -> SUBSET (Shards \cup DraftShards)]
    /\ \A r \in MD!Repositories : weights[r] \subseteq MD!Weights(r)

PullTypes ==
    /\ pull \in PullRecord /\ pull.at <= Len(MD!ModelRepositories(pull.model))
    /\ pull.status = "completed" => pull.pc \in {"ending", "ended"}
    /\ pull.pc = "download" => pull.left \subseteq MD!Weights(MD!Repository)

MonitorTypes ==
    /\ monitor \in [pc : {"none", "waits", "reports"}, seen : Nat]
    /\ shown \in Nat /\ flaws \subseteq {"overtaken", "back", "late", "incomplete"}

RemoverTypes == resident \subseteq MD!Kinds /\ remover \in RemoverRecord

\* A monitor that is waited for belongs to a download, and no row comes after the end.
MonitorWatches ==
    /\ monitor.pc # "none" => pull.pc \in {"download", "stop"}
    /\ done => ~MD!Active

\* Files are removed during a pull only if it began after the removal had looked for
\* pulls, and whatever is loaded meanwhile is known.
RemovalIsKnown ==
    /\ MD!Active /\ remover.pc \in {"unload", "remove"} => "overtaken" \in flaws
    /\ remover.pc = "remove" => resident \subseteq remover.met
    /\ remover.pc \in {"idle", "check", "unload"} => remover.met = {}

\* A pull has what it has been through.
PullAdvances ==
    "overtaken" \notin flaws =>
       /\ MD!Active /\ pull.at = 2 => weights["target"] = Shards
       /\ pull.pc = "download" =>
            MD!Weights(MD!Repository) \ pull.left \subseteq weights[MD!Repository]
       /\ pull.pc \in {"stop", "next"} /\ pull.status = "none" =>
            weights[MD!Repository] = MD!Weights(MD!Repository)
       /\ pull.pc = "ending" /\ pull.status = "completed" => MD!Cached(pull.model)

\* A row tells of no more than there is.
RowsAdvance ==
    "overtaken" \notin flaws =>
       /\ pull.pc = "resolve" => shown = 0
       /\ pull.pc \in {"download", "stop"} => shown <= MD!Completed
       /\ monitor.pc = "reports" => shown <= monitor.seen /\ monitor.seen <= MD!Completed

DownloadInv ==
    /\ WeightTypes /\ PullTypes /\ MonitorTypes /\ RemoverTypes
    /\ MonitorWatches /\ RemovalIsKnown /\ PullAdvances /\ RowsAdvance
    /\ MD!DownloadsAreSpared /\ MD!ResidentHasWeights /\ MD!RowsAreInOrder

LEMMA SameDiskCount == \A S : MD!Cardinality(S) = Cardinality(S)
BY DEF MD!Cardinality, Cardinality

\* A model needs the target, and a pair its draft after that.
LEMMA RepositoriesOfModels ==
    ASSUME NEW m \in MD!Kinds
    PROVE  /\ MD!ModelRepositories(m) \in Seq(MD!Repositories)
           /\ MD!ModelRepositories(m)[1] = "target" /\ MD!Target(m) = "target"
           /\ Len(MD!ModelRepositories(m)) = IF m = "pair" THEN 2 ELSE 1
           /\ m = "pair" => MD!ModelRepositories(m)[2] = "draft"
           /\ MD!Needs(m) = IF m = "pair" THEN {"target", "draft"} ELSE {"target"}
<1>1. CASE m = "pair"
  <2>1. MD!ModelRepositories(m) = <<"target", "draft">>
    BY <1>1 DEF MD!ModelRepositories
  <2>2. MD!Needs(m) = {"target", "draft"}
    BY <2>1 DEF MD!Needs
  <2>3. /\ <<"target", "draft">> \in Seq(MD!Repositories) /\ Len(<<"target", "draft">>) = 2
        /\ <<"target", "draft">>[1] = "target" /\ <<"target", "draft">>[2] = "draft"
    BY DEF MD!Repositories
  <2>4. MD!Target(m) = "target"
    BY <2>1, <2>3 DEF MD!Target
  <2>. QED  BY <1>1, <2>1, <2>2, <2>3, <2>4
<1>2. CASE m # "pair"
  <2>1. MD!ModelRepositories(m) = <<"target">>
    BY <1>2 DEF MD!ModelRepositories
  <2>2. MD!Needs(m) = {"target"}
    BY <2>1 DEF MD!Needs
  <2>. QED  BY <1>2, <2>1, <2>2 DEF MD!Target, MD!Repositories
<1>. QED  BY <1>1, <1>2

\* The repository a pull is at.
LEMMA RepositoryOfPull ==
    ASSUME DownloadInv
    PROVE  /\ MD!Repository = IF pull.at = 1 THEN "target" ELSE "draft"
           /\ MD!Repository \in MD!Repositories /\ (pull.at = 2 => pull.model = "pair")
           /\ MD!Completed = Cardinality(weights[MD!Repository]) /\ MD!Completed \in Nat
<1>1. pull.model \in MD!Kinds /\ pull.at \in {1, 2}
      /\ pull.at <= Len(MD!ModelRepositories(pull.model))
  BY DEF DownloadInv, PullTypes, PullRecord
<1>2. /\ MD!Repository = IF pull.at = 1 THEN "target" ELSE "draft"
      /\ pull.at = 2 => pull.model = "pair"
  BY <1>1, RepositoriesOfModels DEF MD!Repository
<1>3. MD!Repository \in MD!Repositories
  BY <1>2 DEF MD!Repositories
<1>4. IsFiniteSet(weights[MD!Repository])
  <2>1. /\ weights[MD!Repository] \subseteq MD!Weights(MD!Repository)
        /\ IsFiniteSet(MD!Weights(MD!Repository))
    BY <1>3, DownloadAssumption DEF DownloadInv, WeightTypes, MD!Weights
  <2>. QED  BY <2>1, FS_Subset
<1>. QED  BY <1>2, <1>3, <1>4, FS_CardinalityType, SameDiskCount DEF MD!Completed

\* With more files on the disk no less is completed.
LEMMA MoreIsCompleted ==
    ASSUME DownloadInv, UNCHANGED <<pull.model, pull.at>>, WeightTypes',
           weights[MD!Repository] \subseteq weights'[MD!Repository]
    PROVE  /\ MD!Repository' = MD!Repository
           /\ MD!Completed' \in Nat /\ MD!Completed <= MD!Completed'
<1>1. MD!Repository' = MD!Repository /\ MD!Repository \in MD!Repositories
  BY RepositoryOfPull DEF MD!Repository
<1>2. IsFiniteSet(weights'[MD!Repository])
  <2>1. /\ weights'[MD!Repository] \subseteq MD!Weights(MD!Repository)
        /\ IsFiniteSet(MD!Weights(MD!Repository))
    BY <1>1, DownloadAssumption DEF WeightTypes, MD!Weights
  <2>. QED  BY <2>1, FS_Subset
<1>3. MD!Completed' = Cardinality(weights'[MD!Repository])
  BY <1>1, SameDiskCount DEF MD!Completed
<1>. QED  BY <1>1, <1>2, <1>3, FS_Subset, FS_CardinalityType, RepositoryOfPull

LEMMA NothingRemoved ==
    MD!NoRemove \in RemoverRecord /\ MD!NoRemove.pc = "idle" /\ MD!NoRemove.met = {}
<1>1. <<>> \in Seq(MD!Repositories)
  OBVIOUS
<1>. QED  BY <1>1 DEF MD!NoRemove, RemoverRecord, MD!Kinds

LEMMA DownloadInit == Init => DownloadInv
<1> SUFFICES ASSUME Init PROVE DownloadInv
  OBVIOUS
<1>0. MD!Init
  BY DEF Init
<1>1. /\ MD!NoPull \in PullRecord /\ MD!NoPull.pc = "idle" /\ MD!NoPull.at = 1
      /\ MD!NoPull.model \in MD!Kinds /\ MD!NoPull.status = "none"
  BY DEF MD!NoPull, PullRecord, MD!Kinds
<1>2. /\ MD!NoRemove \in RemoverRecord /\ MD!NoRemove.pc = "idle" /\ MD!NoRemove.met = {}
  BY NothingRemoved
<1>3. WeightTypes
  BY <1>0 DEF MD!Init, WeightTypes
<1>4. PullTypes
  BY <1>0, <1>1, RepositoriesOfModels DEF MD!Init, PullTypes
<1>5. MonitorTypes /\ RemoverTypes
  BY <1>0, <1>2 DEF MD!Init, MonitorTypes, RemoverTypes
<1>6. MonitorWatches /\ RemovalIsKnown
  BY <1>0, <1>1, <1>2 DEF MD!Init, MonitorWatches, RemovalIsKnown, MD!Active
<1>7. PullAdvances /\ RowsAdvance
  BY <1>0, <1>1 DEF MD!Init, PullAdvances, RowsAdvance, MD!Active
<1>8. MD!DownloadsAreSpared /\ MD!ResidentHasWeights /\ MD!RowsAreInOrder
  BY <1>0 DEF MD!Init, MD!DownloadsAreSpared, MD!ResidentHasWeights, MD!RowsAreInOrder
<1>. QED  BY <1>3, <1>4, <1>5, <1>6, <1>7, <1>8 DEF DownloadInv

LEMMA DownloadHolds ==
    ASSUME DownloadInv
    PROVE  /\ MD!TypeOK /\ MD!DownloadsAreSpared
           /\ MD!ResidentHasWeights /\ MD!RowsAreInOrder
BY DEF DownloadInv, WeightTypes, PullTypes, MonitorTypes, RemoverTypes, PullRecord, MD!TypeOK


LEMMA DownBeginPull ==
    ASSUME DownloadInv, MD!BeginPull
    PROVE  DownloadInv'
<1>1. UNCHANGED <<weights, monitor, resident, remover>>
  BY DEF MD!BeginPull
<1>2. /\ ~MD!Active /\ pull' \in PullRecord /\ pull'.model \in MD!Kinds
      /\ pull'.pc = "resolve" /\ pull'.at = 1 /\ pull'.status = "none"
  <2>1. PICK m \in MD!Kinds, s \in BOOLEAN :
          pull' = [MD!NoPull EXCEPT !.pc = "resolve", !.model = m, !.stream = s]
    BY DEF MD!BeginPull
  <2>2. MD!NoPull \in PullRecord /\ MD!NoPull.at = 1 /\ MD!NoPull.status = "none"
    BY DEF MD!NoPull, PullRecord, MD!Kinds
  <2>. QED  BY <2>1, <2>2 DEF MD!BeginPull, PullRecord
<1>3. /\ remover.pc \in {"unload", "remove"} => flaws' = {"overtaken"}
      /\ remover.pc \notin {"unload", "remove"} => flaws' = {}
  <2>1. remover.model \in MD!Kinds
    BY DEF DownloadInv, RemoverTypes, RemoverRecord
  <2>2. "target" \in MD!Needs(remover.model) /\ "target" \in MD!Needs(pull'.model)
    BY <1>2, <2>1, RepositoriesOfModels
  <2>. QED  BY <2>2 DEF MD!BeginPull
<1>4. PullTypes'
  BY <1>1, <1>2, <1>3, RepositoryOfPull, RepositoriesOfModels DEF DownloadInv, PullTypes,
     PullRecord, MD!Repository, MD!NoPull, MD!BeginPull
<1>5. MonitorTypes'
  BY <1>1, <1>2, <1>3, RepositoryOfPull, RepositoriesOfModels DEF DownloadInv,
     MonitorTypes, MD!BeginPull
<1>6. MonitorWatches'
  BY <1>1, <1>2, <1>3, RepositoryOfPull, RepositoriesOfModels DEF DownloadInv,
     MonitorWatches, MonitorTypes, MD!Active, MD!NoPull, PullTypes, PullRecord,
     MD!Repository, MD!BeginPull
<1>7. RemovalIsKnown'
  BY <1>1, <1>2, <1>3, RepositoryOfPull, RepositoriesOfModels DEF DownloadInv,
     RemovalIsKnown, RemoverTypes, RemoverRecord, MD!NoRemove, MD!NoPull, MD!Active,
     MD!Kinds, PullTypes, PullRecord, MD!Repository, MD!BeginPull
<1>8. PullAdvances'
  BY <1>1, <1>2, <1>3, RepositoryOfPull, RepositoriesOfModels DEF DownloadInv,
     PullAdvances, RemovalIsKnown, WeightTypes, MD!Active, MD!NoPull, MD!Repository,
     MD!Cached, MD!Weights, MD!Repositories, PullTypes, PullRecord, MD!BeginPull
<1>9. RowsAdvance'
  BY <1>1, <1>2, <1>3, RepositoryOfPull, RepositoriesOfModels DEF DownloadInv, RowsAdvance,
     RemovalIsKnown, MonitorTypes, MonitorWatches, MD!NoPull, MD!Active, PullTypes,
     PullRecord, MD!Repository, MD!BeginPull
<1>10. MD!DownloadsAreSpared'
  BY <1>1, <1>2, <1>3, RepositoryOfPull, RepositoriesOfModels DEF DownloadInv,
     MD!DownloadsAreSpared, PullAdvances, MD!BeginPull
<1>11. MD!RowsAreInOrder'
  BY <1>1, <1>2, <1>3, RepositoryOfPull, RepositoriesOfModels DEF DownloadInv,
     MD!RowsAreInOrder, MonitorWatches, RowsAdvance, MD!Active, MD!BeginPull
<1>12. WeightTypes' /\ RemoverTypes' /\ MD!ResidentHasWeights'
  BY <1>1 DEF DownloadInv, WeightTypes, RemoverTypes, MD!ResidentHasWeights, MD!Active,
     MD!Repository, MD!Completed, MD!Cached
<1>. QED  BY <1>4, <1>5, <1>6, <1>7, <1>8, <1>9, <1>10, <1>11, <1>12 DEF DownloadInv

LEMMA DownCancel ==
    ASSUME DownloadInv, MD!Cancel
    PROVE  DownloadInv'
<1>1. UNCHANGED <<weights, monitor, behind, shown, done, listens, resident, remover, flaws>>
  BY DEF MD!Cancel
<1>2. pull' \in PullRecord /\ pull' = [pull EXCEPT !.cancel = TRUE]
  BY DEF MD!Cancel, DownloadInv, PullTypes, PullRecord
<1>3. /\ pull'.model = pull.model /\ pull'.at = pull.at /\ pull'.pc = pull.pc
      /\ pull'.left = pull.left /\ pull'.status = pull.status
  BY <1>2 DEF DownloadInv, PullTypes, PullRecord
<1>4. MD!Repository' = MD!Repository /\ MD!Completed' = MD!Completed
  BY <1>1, <1>3 DEF MD!Repository, MD!Completed
<1>5. PullTypes'
  BY <1>1, <1>2, <1>3, <1>4, RepositoryOfPull, RepositoriesOfModels DEF DownloadInv,
     PullTypes, PullRecord, MD!Repository, MD!NoPull, MD!Cancel
<1>6. MonitorWatches'
  BY <1>1, <1>2, <1>3, <1>4, RepositoryOfPull, RepositoriesOfModels DEF DownloadInv,
     MonitorWatches, MonitorTypes, MD!Active, MD!NoPull, PullTypes, PullRecord,
     MD!Repository, MD!Cancel
<1>7. RemovalIsKnown'
  BY <1>1, <1>2, <1>3, <1>4, RepositoryOfPull, RepositoriesOfModels DEF DownloadInv,
     RemovalIsKnown, RemoverTypes, RemoverRecord, MD!NoRemove, MD!NoPull, MD!Active,
     MD!Kinds, PullTypes, PullRecord, MD!Repository, MD!Cancel
<1>8. PullAdvances'
  BY <1>1, <1>2, <1>3, <1>4, RepositoryOfPull, RepositoriesOfModels DEF DownloadInv,
     PullAdvances, RemovalIsKnown, WeightTypes, MD!Active, MD!NoPull, MD!Repository,
     MD!Cached, MD!Weights, MD!Repositories, PullTypes, PullRecord, MD!Cancel
<1>9. RowsAdvance'
  BY <1>1, <1>2, <1>3, <1>4, RepositoryOfPull, RepositoriesOfModels DEF DownloadInv,
     RowsAdvance, RemovalIsKnown, MonitorTypes, MonitorWatches, MD!NoPull, MD!Active,
     PullTypes, PullRecord, MD!Repository, MD!Cancel
<1>10. /\ WeightTypes' /\ MonitorTypes' /\ RemoverTypes' /\ MD!DownloadsAreSpared'
      /\ MD!ResidentHasWeights' /\ MD!RowsAreInOrder'
  BY <1>1 DEF DownloadInv, WeightTypes, MonitorTypes, RemoverTypes, MD!DownloadsAreSpared,
     MD!ResidentHasWeights, MD!RowsAreInOrder, MD!Active, MD!Repository, MD!Completed,
     MD!Cached
<1>. QED  BY <1>5, <1>6, <1>7, <1>8, <1>9, <1>10 DEF DownloadInv

LEMMA DownHangup ==
    ASSUME DownloadInv, MD!Hangup
    PROVE  DownloadInv'
<1>1. UNCHANGED <<weights, pull, monitor, behind, shown, done, resident, remover, flaws>>
  BY DEF MD!Hangup
<1>2. /\ WeightTypes' /\ PullTypes' /\ MonitorTypes' /\ RemoverTypes'
      /\ MonitorWatches' /\ RemovalIsKnown' /\ PullAdvances' /\ RowsAdvance'
      /\ MD!DownloadsAreSpared' /\ MD!ResidentHasWeights' /\ MD!RowsAreInOrder'
  BY <1>1 DEF DownloadInv, WeightTypes, PullTypes, MonitorTypes, RemoverTypes,
     MonitorWatches, RemovalIsKnown, PullAdvances, RowsAdvance, MD!DownloadsAreSpared,
     MD!ResidentHasWeights, MD!RowsAreInOrder, MD!Active, MD!Repository, MD!Completed,
     MD!Cached
<1>. QED  BY <1>2 DEF DownloadInv

LEMMA DownResolve ==
    ASSUME DownloadInv, MD!Resolve
    PROVE  DownloadInv'
<1>1. UNCHANGED <<weights, behind, done, listens, resident, remover, flaws>>
  BY DEF MD!Resolve, MD!Raise, MD!CanWrite
<1>2. /\ pull.pc = "resolve" /\ pull' \in PullRecord
      /\ pull'.model = pull.model /\ pull'.at = pull.at
  <2>1. pull \in PullRecord /\ pull.pc = "resolve"
    BY DEF DownloadInv, PullTypes, MD!Resolve
  <2>2. MD!Weights(MD!Repository) \subseteq Shards \cup DraftShards
    BY DEF MD!Weights
  <2>3. \/ \E s \in {"cancelled", "failed"} :
              pull' = [pull EXCEPT !.pc = "ending", !.status = s]
        \/ pull' = [pull EXCEPT !.pc = "download", !.left = MD!Weights(MD!Repository)]
    BY DEF MD!Resolve, MD!Raise
  <2>. QED  BY <2>1, <2>2, <2>3 DEF PullRecord
<1>3. \/ /\ pull'.pc = "ending" /\ pull'.status \in {"cancelled", "failed"}
         /\ shown' = shown /\ monitor' = monitor
      \/ /\ pull'.pc = "download" /\ pull'.left = MD!Weights(MD!Repository)
         /\ monitor' = [pc |-> IF pull.stream THEN "waits" ELSE "none", seen |-> 0]
         /\ shown' = IF pull.stream THEN MD!Completed ELSE shown
  BY DEF MD!Resolve, MD!Raise, DownloadInv, PullTypes, PullRecord
<1>4. MD!Repository' = MD!Repository /\ MD!Completed' = MD!Completed
  BY <1>1, <1>2 DEF MD!Repository, MD!Completed
<1>5. PullTypes'
  BY <1>1, <1>2, <1>3, <1>4, RepositoryOfPull, RepositoriesOfModels DEF DownloadInv,
     PullTypes, PullRecord, MD!Repository, MD!NoPull, MD!Resolve, MD!Raise, MD!CanWrite
<1>6. MonitorTypes'
  BY <1>1, <1>2, <1>3, <1>4, RepositoryOfPull, RepositoriesOfModels DEF DownloadInv,
     MonitorTypes, MD!Resolve, MD!Raise, MD!CanWrite
<1>7. MonitorWatches'
  BY <1>1, <1>2, <1>3, <1>4, RepositoryOfPull, RepositoriesOfModels DEF DownloadInv,
     MonitorWatches, MonitorTypes, MD!Active, MD!NoPull, PullTypes, PullRecord,
     MD!Repository, MD!Resolve, MD!Raise, MD!CanWrite
<1>8. RemovalIsKnown'
  BY <1>1, <1>2, <1>3, <1>4, RepositoryOfPull, RepositoriesOfModels DEF DownloadInv,
     RemovalIsKnown, RemoverTypes, RemoverRecord, MD!NoRemove, MD!NoPull, MD!Active,
     MD!Kinds, PullTypes, PullRecord, MD!Repository, MD!Resolve, MD!Raise, MD!CanWrite
<1>9. PullAdvances'
  BY <1>1, <1>2, <1>3, <1>4, RepositoryOfPull, RepositoriesOfModels DEF DownloadInv,
     PullAdvances, RemovalIsKnown, WeightTypes, MD!Active, MD!NoPull, MD!Repository,
     MD!Cached, MD!Weights, MD!Repositories, PullTypes, PullRecord, MD!Resolve, MD!Raise,
     MD!CanWrite
<1>10. RowsAdvance'
  BY <1>1, <1>2, <1>3, <1>4, RepositoryOfPull, RepositoriesOfModels DEF DownloadInv,
     RowsAdvance, RemovalIsKnown, MonitorTypes, MonitorWatches, MD!NoPull, MD!Active,
     PullTypes, PullRecord, MD!Repository, MD!Resolve, MD!Raise, MD!CanWrite
<1>11. /\ WeightTypes' /\ RemoverTypes' /\ MD!DownloadsAreSpared'
      /\ MD!ResidentHasWeights' /\ MD!RowsAreInOrder'
  BY <1>1 DEF DownloadInv, WeightTypes, RemoverTypes, MD!DownloadsAreSpared,
     MD!ResidentHasWeights, MD!RowsAreInOrder, MD!Active, MD!Repository, MD!Completed,
     MD!Cached
<1>. QED  BY <1>5, <1>6, <1>7, <1>8, <1>9, <1>10, <1>11 DEF DownloadInv

LEMMA DownDownload ==
    ASSUME DownloadInv, MD!Download
    PROVE  DownloadInv'
<1>1. UNCHANGED <<monitor, behind, shown, done, listens, resident, remover, flaws>>
  BY DEF MD!Download
<1>2. /\ pull.pc = "download" /\ pull' \in PullRecord
      /\ pull'.model = pull.model /\ pull'.at = pull.at
  <2>1. pull \in PullRecord /\ pull.pc = "download"
    BY DEF DownloadInv, PullTypes, MD!Download
  <2>2. \/ \E s \in {"cancelled", "failed"} :
              pull' = [pull EXCEPT !.pc = "stop", !.status = s]
        \/ \E s \in pull.left :
              pull' = [pull EXCEPT !.left = @ \ {s},
                                   !.pc = IF pull.left = {s} THEN "stop" ELSE @]
    BY DEF MD!Download
  <2>. QED  BY <2>1, <2>2 DEF PullRecord
<1>3. \/ /\ weights' = weights
         /\ pull'.pc = "stop" /\ pull'.status \in {"cancelled", "failed"}
      \/ \E s \in pull.left :
            /\ weights' = [weights EXCEPT ![MD!Repository] = @ \cup {s}]
            /\ pull'.left = pull.left \ {s} /\ pull'.status = pull.status
            /\ pull'.pc = IF pull.left = {s} THEN "stop" ELSE "download"
  BY DEF MD!Download, DownloadInv, PullTypes, PullRecord
<1>4. /\ MD!Repository' = MD!Repository /\ MD!Repository \in MD!Repositories
      /\ \A r \in MD!Repositories : weights[r] \subseteq weights'[r]
  BY <1>2, <1>3, RepositoryOfPull DEF MD!Repository, DownloadInv, WeightTypes
<1>5. WeightTypes'
  <2>1. CASE weights' = weights
    BY <2>1 DEF DownloadInv, WeightTypes
  <2>2. CASE weights' # weights
    <3>1. PICK s \in pull.left : weights' = [weights EXCEPT ![MD!Repository] = @ \cup {s}]
      BY <1>3, <2>2
    <3>2. s \in Shards \cup DraftShards
      BY DEF DownloadInv, PullTypes, PullRecord
    <3>3. s \in MD!Weights(MD!Repository)
      BY <1>2 DEF DownloadInv, PullTypes
    <3>. QED  BY <1>4, <3>1, <3>2, <3>3 DEF DownloadInv, WeightTypes
  <2>. QED  BY <2>1, <2>2
<1>6. PullTypes'
  BY <1>1, <1>2, <1>3, <1>4, RepositoryOfPull, RepositoriesOfModels DEF DownloadInv,
     PullTypes, PullRecord, MD!Repository, MD!NoPull, MD!Download
<1>7. MonitorWatches'
  BY <1>1, <1>2, <1>3, <1>4, RepositoryOfPull, RepositoriesOfModels DEF DownloadInv,
     MonitorWatches, MonitorTypes, MD!Active, MD!NoPull, PullTypes, PullRecord,
     MD!Repository, MD!Download
<1>8. RemovalIsKnown'
  BY <1>1, <1>2, <1>3, <1>4, RepositoryOfPull, RepositoriesOfModels DEF DownloadInv,
     RemovalIsKnown, RemoverTypes, RemoverRecord, MD!NoRemove, MD!NoPull, MD!Active,
     MD!Kinds, PullTypes, PullRecord, MD!Repository, MD!Download
<1>9. PullAdvances'
  <2> SUFFICES ASSUME "overtaken" \notin flaws
               PROVE  PullAdvances'
    BY <1>1 DEF PullAdvances
  <2>1. /\ pull.at = 2 => weights["target"] = Shards
        /\ MD!Weights(MD!Repository) \ pull.left \subseteq weights[MD!Repository]
    BY <1>2 DEF DownloadInv, PullAdvances, MD!Active
  <2>2. pull.at = 2 => weights'["target"] = Shards
    BY <1>4, <1>5, <2>1 DEF WeightTypes, MD!Weights, MD!Repositories
  <2>3. CASE weights' = weights /\ pull'.pc = "stop" /\ pull'.status \in {"cancelled", "failed"}
    BY <1>2, <2>2, <2>3 DEF PullAdvances
  <2>4. CASE \E s \in pull.left :
               /\ weights' = [weights EXCEPT ![MD!Repository] = @ \cup {s}]
               /\ pull'.left = pull.left \ {s}
               /\ pull'.pc = IF pull.left = {s} THEN "stop" ELSE "download"
    <3>1. MD!Weights(MD!Repository) \ pull'.left \subseteq weights'[MD!Repository]
      BY <1>4, <2>1, <2>4 DEF DownloadInv, WeightTypes
    <3>2. pull'.pc = "stop" => pull'.left = {}
      BY <2>4
    <3>3. weights'[MD!Repository] \subseteq MD!Weights(MD!Repository)
      BY <1>4, <1>5 DEF WeightTypes
    <3>. QED  BY <1>2, <1>4, <2>2, <2>4, <3>1, <3>2, <3>3 DEF PullAdvances
  <2>. QED  BY <1>3, <2>3, <2>4
<1>10. RowsAdvance'
  <2>1. MD!Completed \in Nat /\ MD!Completed' \in Nat /\ MD!Completed <= MD!Completed'
    BY <1>2, <1>4, <1>5, MoreIsCompleted, RepositoryOfPull
  <2>2. pull.pc = "download" /\ pull'.pc # "resolve"
    BY <1>2, <1>3
  <2>. QED  BY <1>1, <2>1, <2>2 DEF DownloadInv, RowsAdvance, MonitorTypes
<1>11. MD!ResidentHasWeights'
  <2>1. ASSUME NEW m \in resident \ remover.met
        PROVE  MD!Cached(m)'
    <3>1. MD!Cached(m) /\ MD!Needs(m) \subseteq MD!Repositories
      BY RepositoriesOfModels DEF DownloadInv, MD!ResidentHasWeights, RemoverTypes,
             MD!Repositories
    <3>. QED  BY <1>4, <1>5, <3>1 DEF MD!Cached, WeightTypes
  <2>. QED  BY <1>1, <2>1 DEF MD!ResidentHasWeights
<1>12. MonitorTypes' /\ RemoverTypes' /\ MD!DownloadsAreSpared' /\ MD!RowsAreInOrder'
  BY <1>1 DEF DownloadInv, MonitorTypes, RemoverTypes, MD!DownloadsAreSpared,
     MD!RowsAreInOrder, MD!Active, MD!Repository, MD!Completed, MD!Cached
<1>. QED  BY <1>5, <1>6, <1>7, <1>8, <1>9, <1>10, <1>11, <1>12 DEF DownloadInv

LEMMA DownStopMonitor ==
    ASSUME DownloadInv, MD!StopMonitor
    PROVE  DownloadInv'
<1>1. UNCHANGED <<weights, behind, done, listens, resident, remover>>
  BY DEF MD!StopMonitor, MD!Row, MD!Raise, MD!JoinEnds
<1>2. /\ pull.pc = "stop" /\ pull' \in PullRecord
      /\ pull'.model = pull.model /\ pull'.at = pull.at
  <2>1. pull \in PullRecord /\ pull.pc = "stop"
    BY DEF DownloadInv, PullTypes, MD!StopMonitor
  <2>2. \/ pull' = [pull EXCEPT !.pc = "ending", !.status = "failed"]
        \/ pull' = [pull EXCEPT !.pc = "next"]
    BY DEF MD!StopMonitor, MD!Raise
  <2>. QED  BY <2>1, <2>2 DEF PullRecord
<1>3. /\ \/ pull'.pc = "ending" /\ pull'.status = "failed"
         \/ pull'.pc = "next" /\ pull'.status = pull.status
      /\ \/ shown' = shown /\ flaws' = flaws
         \/ /\ shown' = MD!Completed
            /\ flaws' = flaws \cup (IF MD!Completed < shown THEN {"back"} ELSE {})
                              \cup (IF done THEN {"late"} ELSE {})
  BY DEF MD!StopMonitor, MD!Raise, MD!Row, DownloadInv, PullTypes, PullRecord
<1>4. monitor'.pc = "none" /\ monitor'.seen = monitor.seen
  BY DEF MD!StopMonitor, MD!JoinEnds, DownloadInv, MonitorTypes
<1>5. MD!Repository' = MD!Repository /\ MD!Completed' = MD!Completed
  BY <1>1, <1>2 DEF MD!Repository, MD!Completed
<1>6. PullTypes'
  BY <1>1, <1>2, <1>3, <1>4, <1>5, RepositoryOfPull, RepositoriesOfModels DEF DownloadInv,
     PullTypes, PullRecord, MD!Repository, MD!NoPull, MD!StopMonitor, MD!Row, MD!Raise,
     MD!JoinEnds
<1>7. MonitorTypes'
  BY <1>1, <1>2, <1>3, <1>4, <1>5, RepositoryOfPull, RepositoriesOfModels DEF DownloadInv,
     MonitorTypes, MD!StopMonitor, MD!Row, MD!Raise, MD!JoinEnds
<1>8. MonitorWatches'
  BY <1>1, <1>2, <1>3, <1>4, <1>5, RepositoryOfPull, RepositoriesOfModels DEF DownloadInv,
     MonitorWatches, MonitorTypes, MD!Active, MD!NoPull, PullTypes, PullRecord,
     MD!Repository, MD!StopMonitor, MD!Row, MD!Raise, MD!JoinEnds
<1>9. RemovalIsKnown'
  BY <1>1, <1>2, <1>3, <1>4, <1>5, RepositoryOfPull, RepositoriesOfModels DEF DownloadInv,
     RemovalIsKnown, RemoverTypes, RemoverRecord, MD!NoRemove, MD!NoPull, MD!Active,
     MD!Kinds, PullTypes, PullRecord, MD!Repository, MD!StopMonitor, MD!Row, MD!Raise,
     MD!JoinEnds
<1>10. PullAdvances'
  BY <1>1, <1>2, <1>3, <1>4, <1>5, RepositoryOfPull, RepositoriesOfModels DEF DownloadInv,
     PullAdvances, RemovalIsKnown, WeightTypes, MD!Active, MD!NoPull, MD!Repository,
     MD!Cached, MD!Weights, MD!Repositories, PullTypes, PullRecord, MD!StopMonitor, MD!Row,
     MD!Raise, MD!JoinEnds
<1>11. RowsAdvance'
  BY <1>1, <1>2, <1>3, <1>4, <1>5, RepositoryOfPull, RepositoriesOfModels DEF DownloadInv,
     RowsAdvance, RemovalIsKnown, MonitorTypes, MonitorWatches, MD!NoPull, MD!Active,
     PullTypes, PullRecord, MD!Repository, MD!StopMonitor, MD!Row, MD!Raise, MD!JoinEnds
<1>12. MD!DownloadsAreSpared'
  BY <1>1, <1>2, <1>3, <1>4, <1>5, RepositoryOfPull, RepositoriesOfModels DEF DownloadInv,
     MD!DownloadsAreSpared, PullAdvances, MD!StopMonitor, MD!Row, MD!Raise, MD!JoinEnds
<1>13. MD!RowsAreInOrder'
  <2>1. ~done
    BY <1>2 DEF DownloadInv, MonitorWatches, MD!Active
  <2>2. "overtaken" \notin flaws => ~(MD!Completed < shown)
    <3>1. "overtaken" \notin flaws => shown <= MD!Completed
      BY <1>2 DEF DownloadInv, RowsAdvance
    <3>. QED  BY <3>1, RepositoryOfPull DEF DownloadInv, MonitorTypes
  <2>. QED  BY <1>1, <1>3, <2>1, <2>2 DEF DownloadInv, MD!RowsAreInOrder
<1>14. WeightTypes' /\ RemoverTypes' /\ MD!ResidentHasWeights'
  BY <1>1 DEF DownloadInv, WeightTypes, RemoverTypes, MD!ResidentHasWeights, MD!Active,
     MD!Repository, MD!Completed, MD!Cached
<1>. QED  BY <1>6, <1>7, <1>8, <1>9, <1>10, <1>11, <1>12, <1>13, <1>14 DEF DownloadInv

LEMMA DownJoinTimesOut ==
    ASSUME DownloadInv, MD!JoinTimesOut
    PROVE  DownloadInv'
<1>1. UNCHANGED <<weights, pull, shown, done, listens, resident, remover, flaws>>
  BY DEF MD!JoinTimesOut
<1>2. MD!Repository' = MD!Repository /\ MD!Completed' = MD!Completed
  BY <1>1 DEF MD!Repository, MD!Completed
<1>3. MonitorTypes'
  BY <1>1, <1>2, RepositoryOfPull, RepositoriesOfModels DEF DownloadInv, MonitorTypes,
     MD!JoinTimesOut
<1>4. MonitorWatches'
  BY <1>1, <1>2, RepositoryOfPull, RepositoriesOfModels DEF DownloadInv, MonitorWatches,
     MonitorTypes, MD!Active, MD!NoPull, PullTypes, PullRecord, MD!Repository,
     MD!JoinTimesOut
<1>5. RowsAdvance'
  BY <1>1, <1>2, RepositoryOfPull, RepositoriesOfModels DEF DownloadInv, RowsAdvance,
     RemovalIsKnown, MonitorTypes, MonitorWatches, MD!NoPull, MD!Active, PullTypes,
     PullRecord, MD!Repository, MD!JoinTimesOut
<1>6. MD!RowsAreInOrder'
  BY <1>1, <1>2, RepositoryOfPull, RepositoriesOfModels DEF DownloadInv, MD!RowsAreInOrder,
     MonitorWatches, RowsAdvance, MD!Active, MD!JoinTimesOut
<1>7. /\ WeightTypes' /\ PullTypes' /\ RemoverTypes' /\ RemovalIsKnown'
      /\ PullAdvances' /\ MD!DownloadsAreSpared' /\ MD!ResidentHasWeights'
  BY <1>1 DEF DownloadInv, WeightTypes, PullTypes, RemoverTypes, RemovalIsKnown,
     PullAdvances, MD!DownloadsAreSpared, MD!ResidentHasWeights, MD!Active, MD!Repository,
     MD!Completed, MD!Cached
<1>. QED  BY <1>3, <1>4, <1>5, <1>6, <1>7 DEF DownloadInv

LEMMA DownNextRepository ==
    ASSUME DownloadInv, MD!NextRepository
    PROVE  DownloadInv'
<1>1. UNCHANGED <<weights, monitor, behind, done, listens, resident, remover, flaws>>
  BY DEF MD!NextRepository, MD!Raise
<1>2. /\ pull.pc = "next" /\ shown' = 0 /\ pull' \in PullRecord /\ pull'.model = pull.model
      /\ \/ /\ pull'.pc = "ending" /\ pull'.at = pull.at
            /\ \/ pull'.status # "completed"
               \/ /\ pull'.status = "completed" /\ pull.status = "none"
                  /\ pull.at = Len(MD!ModelRepositories(pull.model))
         \/ /\ pull'.pc = "resolve" /\ pull.at = 1 /\ pull'.at = 2 /\ pull.model = "pair"
            /\ pull.status = "none" /\ pull'.status = "none"
  <2>1. /\ pull \in PullRecord /\ pull.pc = "next" /\ shown' = 0 /\ pull.at \in {1, 2}
        /\ pull.at <= Len(MD!ModelRepositories(pull.model)) /\ pull.model \in MD!Kinds
    BY DEF DownloadInv, PullTypes, PullRecord, MD!NextRepository
  <2>2. Len(MD!ModelRepositories(pull.model)) = IF pull.model = "pair" THEN 2 ELSE 1
    BY <2>1, RepositoriesOfModels
  <2>3. CASE pull.status # "none"
    <3>1. pull' = [pull EXCEPT !.pc = "ending", !.status = pull.status]
      BY <2>3 DEF MD!NextRepository, MD!Raise
    <3>2. pull.status # "completed"
      BY <2>1 DEF DownloadInv, PullTypes
    <3>. QED  BY <2>1, <3>1, <3>2 DEF PullRecord
  <2>4. CASE pull.status = "none" /\ pull.cancel
    <3>1. pull' = [pull EXCEPT !.pc = "ending", !.status = "cancelled"]
      BY <2>4 DEF MD!NextRepository, MD!Raise
    <3>. QED  BY <2>1, <3>1 DEF PullRecord
  <2>5. CASE pull.status = "none" /\ ~pull.cancel
        /\ pull.at < Len(MD!ModelRepositories(pull.model))
    <3>1. pull.at = 1 /\ pull.model = "pair"
      BY <2>1, <2>2, <2>5
    <3>2. pull' = [pull EXCEPT !.at = 2, !.pc = "resolve"]
      BY <2>5, <3>1 DEF MD!NextRepository
    <3>. QED  BY <2>1, <2>5, <3>1, <3>2 DEF PullRecord
  <2>6. CASE pull.status = "none" /\ ~pull.cancel
        /\ ~(pull.at < Len(MD!ModelRepositories(pull.model)))
    <3>1. pull' = [pull EXCEPT !.pc = "ending", !.status = "completed"]
      BY <2>6 DEF MD!NextRepository, MD!Raise
    <3>2. pull.at = Len(MD!ModelRepositories(pull.model))
      BY <2>1, <2>2, <2>6
    <3>. QED  BY <2>1, <2>6, <3>1, <3>2 DEF PullRecord
  <2>. QED  BY <2>3, <2>4, <2>5, <2>6
<1>3. PullTypes'
  <2>1. /\ pull.at <= Len(MD!ModelRepositories(pull.model)) /\ pull.model \in MD!Kinds
        /\ pull.status # "completed"
    BY <1>2 DEF DownloadInv, PullTypes, PullRecord
  <2>2. pull.model = "pair" => Len(MD!ModelRepositories(pull.model)) = 2
    BY <2>1, RepositoriesOfModels
  <2>3. CASE pull'.pc = "ending"
    BY <1>2, <2>1, <2>3 DEF PullTypes
  <2>4. CASE pull'.pc = "resolve"
    <3>1. /\ pull'.model = "pair" /\ pull'.at = 2 /\ pull'.status = "none"
          /\ pull' \in PullRecord
      BY <1>2, <2>4
    <3>2. Len(MD!ModelRepositories(pull'.model)) = 2
      BY <2>1, <3>1, RepositoriesOfModels DEF MD!Kinds
    <3>3. pull'.at <= Len(MD!ModelRepositories(pull'.model))
      <4>1. 2 <= 2
        OBVIOUS
      <4>. QED  BY <3>1, <3>2, <4>1, Zenon
    <3>4. pull'.status # "completed" /\ pull'.pc # "download"
      BY <2>4, <3>1
    <3>. QED  BY <3>1, <3>3, <3>4 DEF PullTypes
  <2>. QED  BY <1>2, <2>3, <2>4
<1>4. MonitorTypes'
  BY <1>1, <1>2, RepositoryOfPull, RepositoriesOfModels DEF DownloadInv, MonitorTypes,
     MD!NextRepository, MD!Raise
<1>5. MonitorWatches'
  BY <1>1, <1>2, RepositoryOfPull, RepositoriesOfModels DEF DownloadInv, MonitorWatches,
     MonitorTypes, MD!Active, MD!NoPull, PullTypes, PullRecord, MD!Repository,
     MD!NextRepository, MD!Raise
<1>6. RemovalIsKnown'
  BY <1>1, <1>2, RepositoryOfPull, RepositoriesOfModels DEF DownloadInv, RemovalIsKnown,
     RemoverTypes, RemoverRecord, MD!NoRemove, MD!NoPull, MD!Active, MD!Kinds, PullTypes,
     PullRecord, MD!Repository, MD!NextRepository, MD!Raise
<1>7. PullAdvances'
  BY <1>1, <1>2, RepositoryOfPull, RepositoriesOfModels DEF DownloadInv, PullAdvances,
     RemovalIsKnown, WeightTypes, MD!Active, MD!NoPull, MD!Repository, MD!Cached,
     MD!Weights, MD!Repositories, PullTypes, PullRecord, MD!NextRepository, MD!Raise
<1>8. RowsAdvance'
  BY <1>1, <1>2, RepositoryOfPull, RepositoriesOfModels DEF DownloadInv, RowsAdvance,
     RemovalIsKnown, MonitorTypes, MonitorWatches, MD!NoPull, MD!Active, PullTypes,
     PullRecord, MD!Repository, MD!NextRepository, MD!Raise
<1>9. /\ WeightTypes' /\ RemoverTypes' /\ MD!DownloadsAreSpared'
      /\ MD!ResidentHasWeights' /\ MD!RowsAreInOrder'
  BY <1>1 DEF DownloadInv, WeightTypes, RemoverTypes, MD!DownloadsAreSpared,
     MD!ResidentHasWeights, MD!RowsAreInOrder, MD!Active, MD!Repository, MD!Completed,
     MD!Cached
<1>. QED  BY <1>3, <1>4, <1>5, <1>6, <1>7, <1>8, <1>9 DEF DownloadInv

LEMMA DownEndPull ==
    ASSUME DownloadInv, MD!EndPull
    PROVE  DownloadInv'
<1>1. UNCHANGED <<weights, monitor, behind, shown, listens, resident, remover>>
  BY DEF MD!EndPull
<1>2. PullTypes'
  BY <1>1, RepositoryOfPull, RepositoriesOfModels DEF DownloadInv, PullTypes, PullRecord,
     MD!Repository, MD!NoPull, MD!EndPull
<1>3. MonitorTypes'
  BY <1>1, RepositoryOfPull, RepositoriesOfModels DEF DownloadInv, MonitorTypes, MD!EndPull
<1>4. MonitorWatches'
  BY <1>1, RepositoryOfPull, RepositoriesOfModels DEF DownloadInv, MonitorWatches,
     MonitorTypes, MD!Active, MD!NoPull, PullTypes, PullRecord, MD!Repository, MD!EndPull
<1>5. RemovalIsKnown'
  BY <1>1, RepositoryOfPull, RepositoriesOfModels DEF DownloadInv, RemovalIsKnown,
     RemoverTypes, RemoverRecord, MD!NoRemove, MD!NoPull, MD!Active, MD!Kinds, PullTypes,
     PullRecord, MD!Repository, MD!EndPull
<1>6. PullAdvances'
  BY <1>1, RepositoryOfPull, RepositoriesOfModels DEF DownloadInv, PullAdvances,
     RemovalIsKnown, WeightTypes, MD!Active, MD!NoPull, MD!Repository, MD!Cached,
     MD!Weights, MD!Repositories, PullTypes, PullRecord, MD!EndPull
<1>7. RowsAdvance'
  BY <1>1, RepositoryOfPull, RepositoriesOfModels DEF DownloadInv, RowsAdvance,
     RemovalIsKnown, MonitorTypes, MonitorWatches, MD!NoPull, MD!Active, PullTypes,
     PullRecord, MD!Repository, MD!EndPull
<1>8. MD!DownloadsAreSpared'
  BY <1>1, RepositoryOfPull, RepositoriesOfModels DEF DownloadInv, MD!DownloadsAreSpared,
     PullAdvances, MD!EndPull
<1>9. MD!RowsAreInOrder'
  BY <1>1, RepositoryOfPull, RepositoriesOfModels DEF DownloadInv, MD!RowsAreInOrder,
     MonitorWatches, RowsAdvance, MD!Active, MD!EndPull
<1>10. WeightTypes' /\ RemoverTypes' /\ MD!ResidentHasWeights'
  BY <1>1 DEF DownloadInv, WeightTypes, RemoverTypes, MD!ResidentHasWeights, MD!Active,
     MD!Repository, MD!Completed, MD!Cached
<1>. QED  BY <1>2, <1>3, <1>4, <1>5, <1>6, <1>7, <1>8, <1>9, <1>10 DEF DownloadInv

LEMMA DownMonitorReads ==
    ASSUME DownloadInv, MD!MonitorReads
    PROVE  DownloadInv'
<1>1. UNCHANGED <<weights, pull, behind, shown, done, listens, resident, remover, flaws>>
  BY DEF MD!MonitorReads
<1>2. MD!Repository' = MD!Repository /\ MD!Completed' = MD!Completed
  BY <1>1 DEF MD!Repository, MD!Completed
<1>3. MonitorTypes'
  BY <1>1, <1>2, RepositoryOfPull, RepositoriesOfModels DEF DownloadInv, MonitorTypes,
     MD!MonitorReads
<1>4. MonitorWatches'
  BY <1>1, <1>2, RepositoryOfPull, RepositoriesOfModels DEF DownloadInv, MonitorWatches,
     MonitorTypes, MD!Active, MD!NoPull, PullTypes, PullRecord, MD!Repository,
     MD!MonitorReads
<1>5. RowsAdvance'
  BY <1>1, <1>2, RepositoryOfPull, RepositoriesOfModels DEF DownloadInv, RowsAdvance,
     RemovalIsKnown, MonitorTypes, MonitorWatches, MD!NoPull, MD!Active, PullTypes,
     PullRecord, MD!Repository, MD!MonitorReads
<1>6. /\ WeightTypes' /\ PullTypes' /\ RemoverTypes' /\ RemovalIsKnown'
      /\ PullAdvances' /\ MD!DownloadsAreSpared' /\ MD!ResidentHasWeights'
      /\ MD!RowsAreInOrder'
  BY <1>1 DEF DownloadInv, WeightTypes, PullTypes, RemoverTypes, RemovalIsKnown,
     PullAdvances, MD!DownloadsAreSpared, MD!ResidentHasWeights, MD!RowsAreInOrder,
     MD!Active, MD!Repository, MD!Completed, MD!Cached
<1>. QED  BY <1>3, <1>4, <1>5, <1>6 DEF DownloadInv

LEMMA DownMonitorReports ==
    ASSUME DownloadInv, MD!MonitorReports
    PROVE  DownloadInv'
<1>1. UNCHANGED <<weights, pull, behind, done, listens, resident, remover>>
  BY DEF MD!MonitorReports, MD!Row
<1>2. MD!Repository' = MD!Repository /\ MD!Completed' = MD!Completed
  BY <1>1 DEF MD!Repository, MD!Completed
<1>3. MonitorTypes'
  BY <1>1, <1>2, RepositoryOfPull, RepositoriesOfModels DEF DownloadInv, MonitorTypes,
     MD!MonitorReports, MD!Row
<1>4. MonitorWatches'
  BY <1>1, <1>2, RepositoryOfPull, RepositoriesOfModels DEF DownloadInv, MonitorWatches,
     MonitorTypes, MD!Active, MD!NoPull, PullTypes, PullRecord, MD!Repository,
     MD!MonitorReports, MD!Row
<1>5. RemovalIsKnown'
  BY <1>1, <1>2, RepositoryOfPull, RepositoriesOfModels DEF DownloadInv, RemovalIsKnown,
     RemoverTypes, RemoverRecord, MD!NoRemove, MD!NoPull, MD!Active, MD!Kinds, PullTypes,
     PullRecord, MD!Repository, MD!MonitorReports, MD!Row
<1>6. PullAdvances'
  BY <1>1, <1>2, RepositoryOfPull, RepositoriesOfModels DEF DownloadInv, PullAdvances,
     RemovalIsKnown, WeightTypes, MD!Active, MD!NoPull, MD!Repository, MD!Cached,
     MD!Weights, MD!Repositories, PullTypes, PullRecord, MD!MonitorReports, MD!Row
<1>7. RowsAdvance'
  BY <1>1, <1>2, RepositoryOfPull, RepositoriesOfModels DEF DownloadInv, RowsAdvance,
     RemovalIsKnown, MonitorTypes, MonitorWatches, MD!NoPull, MD!Active, PullTypes,
     PullRecord, MD!Repository, MD!MonitorReports, MD!Row
<1>8. MD!DownloadsAreSpared'
  BY <1>1, <1>2, RepositoryOfPull, RepositoriesOfModels DEF DownloadInv,
     MD!DownloadsAreSpared, PullAdvances, MD!MonitorReports, MD!Row
<1>9. MD!RowsAreInOrder'
  <2>1. monitor.pc = "reports" /\ ~done
    BY DEF MD!MonitorReports, DownloadInv, MonitorWatches, MD!Active
  <2>2. "overtaken" \notin flaws => ~(monitor.seen < shown)
    BY <2>1 DEF DownloadInv, RowsAdvance, MonitorTypes
  <2>3. flaws' \subseteq flaws \cup (IF monitor.seen < shown THEN {"back"} ELSE {})
        /\ flaws \subseteq flaws'
    BY <2>1 DEF MD!MonitorReports, MD!Row
  <2>. QED  BY <1>1, <2>2, <2>3 DEF DownloadInv, MD!RowsAreInOrder
<1>10. WeightTypes' /\ PullTypes' /\ RemoverTypes' /\ MD!ResidentHasWeights'
  BY <1>1 DEF DownloadInv, WeightTypes, PullTypes, RemoverTypes, MD!ResidentHasWeights,
     MD!Active, MD!Repository, MD!Completed, MD!Cached
<1>. QED  BY <1>3, <1>4, <1>5, <1>6, <1>7, <1>8, <1>9, <1>10 DEF DownloadInv

LEMMA DownReportLate ==
    ASSUME DownloadInv, MD!ReportLate
    PROVE  DownloadInv'
<1>1. UNCHANGED <<weights, pull, monitor, behind, shown, done, listens, resident, remover>>
  BY DEF MD!ReportLate
<1>2. MD!Repository' = MD!Repository /\ MD!Completed' = MD!Completed
  BY <1>1 DEF MD!Repository, MD!Completed
<1>3. MonitorTypes'
  BY <1>1, <1>2, RepositoryOfPull, RepositoriesOfModels DEF DownloadInv, MonitorTypes,
     MD!ReportLate
<1>4. RemovalIsKnown'
  BY <1>1, <1>2, RepositoryOfPull, RepositoriesOfModels DEF DownloadInv, RemovalIsKnown,
     RemoverTypes, RemoverRecord, MD!NoRemove, MD!NoPull, MD!Active, MD!Kinds, PullTypes,
     PullRecord, MD!Repository, MD!ReportLate
<1>5. PullAdvances'
  BY <1>1, <1>2, RepositoryOfPull, RepositoriesOfModels DEF DownloadInv, PullAdvances,
     RemovalIsKnown, WeightTypes, MD!Active, MD!NoPull, MD!Repository, MD!Cached,
     MD!Weights, MD!Repositories, PullTypes, PullRecord, MD!ReportLate
<1>6. RowsAdvance'
  BY <1>1, <1>2, RepositoryOfPull, RepositoriesOfModels DEF DownloadInv, RowsAdvance,
     RemovalIsKnown, MonitorTypes, MonitorWatches, MD!NoPull, MD!Active, PullTypes,
     PullRecord, MD!Repository, MD!ReportLate
<1>7. MD!DownloadsAreSpared'
  BY <1>1, <1>2, RepositoryOfPull, RepositoriesOfModels DEF DownloadInv,
     MD!DownloadsAreSpared, PullAdvances, MD!ReportLate
<1>8. MD!RowsAreInOrder'
  BY <1>1, <1>2, RepositoryOfPull, RepositoriesOfModels DEF DownloadInv, MD!RowsAreInOrder,
     MonitorWatches, RowsAdvance, MD!Active, MD!ReportLate
<1>9. /\ WeightTypes' /\ PullTypes' /\ RemoverTypes' /\ MonitorWatches'
      /\ MD!ResidentHasWeights'
  BY <1>1 DEF DownloadInv, WeightTypes, PullTypes, RemoverTypes, MonitorWatches,
     MD!ResidentHasWeights, MD!Active, MD!Repository, MD!Completed, MD!Cached
<1>. QED  BY <1>3, <1>4, <1>5, <1>6, <1>7, <1>8, <1>9 DEF DownloadInv

LEMMA DownLoad ==
    ASSUME DownloadInv, MD!Load
    PROVE  DownloadInv'
<1>1. UNCHANGED <<pull, monitor, behind, shown, done, listens, flaws>>
  BY DEF MD!Load
<1>2. \E m \in MD!Kinds :
        /\ resident' = resident \cup {m}
        /\ weights' = [r \in MD!Repositories |-> IF r \in MD!Needs(m) THEN MD!Weights(r)
                                                 ELSE weights[r]]
        /\ remover' = IF remover.pc = "remove" THEN [remover EXCEPT !.met = @ \cup {m}]
                                               ELSE remover
  BY DEF MD!Load
<1>3. \A r \in MD!Repositories : weights[r] \subseteq weights'[r]
  BY <1>2 DEF DownloadInv, WeightTypes
<1>4. MD!Repository' = MD!Repository /\ MD!Repository \in MD!Repositories
  BY <1>1, RepositoryOfPull DEF MD!Repository
<1>5. WeightTypes'
  BY <1>1, <1>2, <1>3, <1>4, RepositoryOfPull, RepositoriesOfModels DEF DownloadInv,
     WeightTypes, PullAdvances, MD!Weights, MD!Repositories, MD!Load
<1>6. RemoverTypes'
  <2>1. /\ resident \subseteq MD!Kinds /\ remover \in RemoverRecord
    BY DEF DownloadInv, RemoverTypes
  <2>2. \E m \in MD!Kinds : /\ resident' = resident \cup {m}
                            /\ \/ remover' = [remover EXCEPT !.met = @ \cup {m}]
                               \/ remover' = remover
    BY <1>2
  <2>. QED  BY <2>1, <2>2 DEF RemoverTypes, RemoverRecord
<1>7. RemovalIsKnown'
  BY <1>1, <1>2, <1>3, <1>4, RepositoryOfPull, RepositoriesOfModels DEF DownloadInv,
     RemovalIsKnown, RemoverTypes, RemoverRecord, MD!NoRemove, MD!NoPull, MD!Active,
     MD!Kinds, PullTypes, PullRecord, MD!Repository, MD!Load
<1>8. PullAdvances'
  BY <1>1, <1>2, <1>3, <1>4, RepositoryOfPull, RepositoriesOfModels DEF DownloadInv,
     PullAdvances, RemovalIsKnown, WeightTypes, MD!Active, MD!NoPull, MD!Repository,
     MD!Cached, MD!Weights, MD!Repositories, PullTypes, PullRecord, MD!Load
<1>9. RowsAdvance'
  <2>1. MD!Completed \in Nat /\ MD!Completed' \in Nat /\ MD!Completed <= MD!Completed'
    BY <1>1, <1>3, <1>4, <1>5, MoreIsCompleted, RepositoryOfPull
  <2>. QED  BY <1>1, <2>1 DEF DownloadInv, RowsAdvance, MonitorTypes
<1>10. MD!ResidentHasWeights'
  BY <1>1, <1>2, <1>3, <1>4, RepositoryOfPull, RepositoriesOfModels DEF DownloadInv,
     MD!ResidentHasWeights, RemovalIsKnown, RemoverTypes, WeightTypes, MD!Cached,
     RemoverRecord, MD!NoRemove, MD!Kinds, MD!Load
<1>11. /\ PullTypes' /\ MonitorTypes' /\ MonitorWatches' /\ MD!DownloadsAreSpared'
      /\ MD!RowsAreInOrder'
  BY <1>1 DEF DownloadInv, PullTypes, MonitorTypes, MonitorWatches, MD!DownloadsAreSpared,
     MD!RowsAreInOrder, MD!Active, MD!Repository, MD!Completed, MD!Cached
<1>. QED  BY <1>5, <1>6, <1>7, <1>8, <1>9, <1>10, <1>11 DEF DownloadInv

LEMMA DownBeginDelete ==
    ASSUME DownloadInv, MD!BeginDelete
    PROVE  DownloadInv'
<1>1. UNCHANGED <<weights, pull, monitor, behind, shown, done, listens, flaws>>
  BY DEF MD!BeginDelete, MD!Unloaded
<1>2. RemoverTypes'
  <2>1. resident' \subseteq resident
    BY DEF MD!BeginDelete, MD!Unloaded
  <2>2. \E m \in MD!Kinds : \/ remover' = [MD!NoRemove EXCEPT !.pc = "check", !.model = m]
                            \/ remover' = [MD!NoRemove EXCEPT !.pc = "ended"]
    BY DEF MD!BeginDelete
  <2>. QED  BY <2>1, <2>2, NothingRemoved DEF DownloadInv, RemoverTypes, RemoverRecord
<1>3. RemovalIsKnown'
  BY <1>1, RepositoryOfPull, RepositoriesOfModels DEF DownloadInv, RemovalIsKnown,
     RemoverTypes, RemoverRecord, MD!NoRemove, MD!NoPull, MD!Active, MD!Kinds, PullTypes,
     PullRecord, MD!Repository, MD!BeginDelete, MD!Unloaded
<1>4. MD!ResidentHasWeights'
  BY <1>1, RepositoryOfPull, RepositoriesOfModels DEF DownloadInv, MD!ResidentHasWeights,
     RemovalIsKnown, RemoverTypes, WeightTypes, MD!Cached, RemoverRecord, MD!NoRemove,
     MD!Kinds, MD!BeginDelete, MD!Unloaded
<1>5. /\ WeightTypes' /\ PullTypes' /\ MonitorTypes' /\ MonitorWatches'
      /\ PullAdvances' /\ RowsAdvance' /\ MD!DownloadsAreSpared'
      /\ MD!RowsAreInOrder'
  BY <1>1 DEF DownloadInv, WeightTypes, PullTypes, MonitorTypes, MonitorWatches,
     PullAdvances, RowsAdvance, MD!DownloadsAreSpared, MD!RowsAreInOrder, MD!Active,
     MD!Repository, MD!Completed, MD!Cached
<1>. QED  BY <1>2, <1>3, <1>4, <1>5 DEF DownloadInv

LEMMA DownCheckPulls ==
    ASSUME DownloadInv, MD!CheckPulls
    PROVE  DownloadInv'
<1>1. UNCHANGED <<weights, pull, monitor, behind, shown, done, listens, resident, flaws>>
  BY DEF MD!CheckPulls, MD!Overlaps
<1>2. RemoverTypes'
  <2>1. \/ remover' = [MD!NoRemove EXCEPT !.pc = "ended"]
        \/ remover' = [remover EXCEPT !.pc = "unload"]
    BY DEF MD!CheckPulls
  <2>. QED  BY <1>1, <2>1, NothingRemoved DEF DownloadInv, RemoverTypes, RemoverRecord
<1>3. RemovalIsKnown'
  BY <1>1, RepositoryOfPull, RepositoriesOfModels DEF DownloadInv, RemovalIsKnown,
     RemoverTypes, RemoverRecord, MD!NoRemove, MD!NoPull, MD!Active, MD!Kinds, PullTypes,
     PullRecord, MD!Repository, MD!CheckPulls, MD!Overlaps
<1>4. MD!ResidentHasWeights'
  BY <1>1, RepositoryOfPull, RepositoriesOfModels DEF DownloadInv, MD!ResidentHasWeights,
     RemovalIsKnown, RemoverTypes, WeightTypes, MD!Cached, RemoverRecord, MD!NoRemove,
     MD!Kinds, MD!CheckPulls, MD!Overlaps
<1>5. /\ WeightTypes' /\ PullTypes' /\ MonitorTypes' /\ MonitorWatches'
      /\ PullAdvances' /\ RowsAdvance' /\ MD!DownloadsAreSpared'
      /\ MD!RowsAreInOrder'
  BY <1>1 DEF DownloadInv, WeightTypes, PullTypes, MonitorTypes, MonitorWatches,
     PullAdvances, RowsAdvance, MD!DownloadsAreSpared, MD!RowsAreInOrder, MD!Active,
     MD!Repository, MD!Completed, MD!Cached
<1>. QED  BY <1>2, <1>3, <1>4, <1>5 DEF DownloadInv

LEMMA DownUnload ==
    ASSUME DownloadInv, MD!Unload
    PROVE  DownloadInv'
<1>1. UNCHANGED <<weights, pull, monitor, behind, shown, done, listens, flaws>>
  BY DEF MD!Unload, MD!StopAll, MD!Unloaded
<1>2. RemoverTypes'
  BY <1>1, RepositoryOfPull, RepositoriesOfModels DEF DownloadInv, RemoverTypes,
     RemoverRecord, MD!NoRemove, MD!Kinds, MD!Unload, MD!StopAll, MD!Unloaded
<1>3. RemovalIsKnown'
  BY <1>1, RepositoryOfPull, RepositoriesOfModels DEF DownloadInv, RemovalIsKnown,
     RemoverTypes, RemoverRecord, MD!NoRemove, MD!NoPull, MD!Active, MD!Kinds, PullTypes,
     PullRecord, MD!Repository, MD!Unload, MD!StopAll, MD!Unloaded
<1>4. MD!ResidentHasWeights'
  BY <1>1, RepositoryOfPull, RepositoriesOfModels DEF DownloadInv, MD!ResidentHasWeights,
     RemovalIsKnown, RemoverTypes, WeightTypes, MD!Cached, RemoverRecord, MD!NoRemove,
     MD!Kinds, MD!Unload, MD!StopAll, MD!Unloaded
<1>5. /\ WeightTypes' /\ PullTypes' /\ MonitorTypes' /\ MonitorWatches'
      /\ PullAdvances' /\ RowsAdvance' /\ MD!DownloadsAreSpared'
      /\ MD!RowsAreInOrder'
  BY <1>1 DEF DownloadInv, WeightTypes, PullTypes, MonitorTypes, MonitorWatches,
     PullAdvances, RowsAdvance, MD!DownloadsAreSpared, MD!RowsAreInOrder, MD!Active,
     MD!Repository, MD!Completed, MD!Cached
<1>. QED  BY <1>2, <1>3, <1>4, <1>5 DEF DownloadInv

LEMMA DownRemove ==
    ASSUME DownloadInv, MD!Remove
    PROVE  DownloadInv'
<1>1. UNCHANGED <<pull, monitor, behind, shown, done, listens, resident, flaws>>
  BY DEF MD!Remove
<1>2. WeightTypes'
  BY <1>1, RepositoryOfPull, RepositoriesOfModels DEF DownloadInv, WeightTypes,
     PullAdvances, MD!Weights, MD!Repositories, MD!Remove
<1>3. RemoverTypes'
  <2>1. remover \in RemoverRecord /\ remover.todo \in Seq(MD!Repositories)
    BY DEF DownloadInv, RemoverTypes, RemoverRecord
  <2>2. \/ remover' = [MD!NoRemove EXCEPT !.pc = "ended", !.met = remover.met]
        \/ remover' = remover
        \/ remover.todo # <<>> /\ remover' = [remover EXCEPT !.todo = Tail(@)]
    BY DEF MD!Remove
  <2>3. remover.todo # <<>> => Tail(remover.todo) \in Seq(MD!Repositories)
    BY <2>1
  <2>. QED  BY <1>1, <2>1, <2>2, <2>3, NothingRemoved DEF DownloadInv, RemoverTypes,
         RemoverRecord
<1>4. RemovalIsKnown'
  BY <1>1, RepositoryOfPull, RepositoriesOfModels DEF DownloadInv, RemovalIsKnown,
     RemoverTypes, RemoverRecord, MD!NoRemove, MD!NoPull, MD!Active, MD!Kinds, PullTypes,
     PullRecord, MD!Repository, MD!Remove
<1>5. PullAdvances'
  BY <1>1, RepositoryOfPull, RepositoriesOfModels DEF DownloadInv, PullAdvances,
     RemovalIsKnown, WeightTypes, MD!Active, MD!NoPull, MD!Repository, MD!Cached,
     MD!Weights, MD!Repositories, PullTypes, PullRecord, MD!Remove
<1>6. RowsAdvance'
  BY <1>1, RepositoryOfPull, RepositoriesOfModels DEF DownloadInv, RowsAdvance,
     RemovalIsKnown, MonitorTypes, MonitorWatches, MD!NoPull, MD!Active, PullTypes,
     PullRecord, MD!Repository, MD!Remove
<1>7. MD!ResidentHasWeights'
  BY <1>1, RepositoryOfPull, RepositoriesOfModels DEF DownloadInv, MD!ResidentHasWeights,
     RemovalIsKnown, RemoverTypes, WeightTypes, MD!Cached, RemoverRecord, MD!NoRemove,
     MD!Kinds, MD!Remove
<1>8. /\ PullTypes' /\ MonitorTypes' /\ MonitorWatches' /\ MD!DownloadsAreSpared'
      /\ MD!RowsAreInOrder'
  BY <1>1 DEF DownloadInv, PullTypes, MonitorTypes, MonitorWatches, MD!DownloadsAreSpared,
     MD!RowsAreInOrder, MD!Active, MD!Repository, MD!Completed, MD!Cached
<1>. QED  BY <1>2, <1>3, <1>4, <1>5, <1>6, <1>7, <1>8 DEF DownloadInv


LEMMA DownRests ==
    ASSUME DownloadInv, UNCHANGED downloadsVars
    PROVE  DownloadInv'
<1>1. /\ UNCHANGED <<weights, pull, monitor, behind, shown, done, listens, resident>>
      /\ UNCHANGED <<remover, flaws>>
  BY DEF downloadsVars
<1>2. WeightTypes' /\ PullTypes' /\ MonitorTypes' /\ RemoverTypes'
  BY <1>1 DEF DownloadInv, WeightTypes, PullTypes, MonitorTypes, RemoverTypes, MD!Repository
<1>3. MonitorWatches' /\ RemovalIsKnown' /\ PullAdvances' /\ RowsAdvance'
  BY <1>1 DEF DownloadInv, MonitorWatches, RemovalIsKnown, PullAdvances, RowsAdvance,
     MD!Active, MD!Repository, MD!Completed, MD!Cached
<1>4. MD!DownloadsAreSpared' /\ MD!ResidentHasWeights' /\ MD!RowsAreInOrder'
  BY <1>1 DEF DownloadInv, MD!DownloadsAreSpared, MD!ResidentHasWeights, MD!RowsAreInOrder,
     MD!Cached
<1>. QED  BY <1>2, <1>3, <1>4 DEF DownloadInv

LEMMA DownloadStep == DownloadInv /\ [Next]_vars => DownloadInv'
<1> SUFFICES ASSUME DownloadInv, [Next]_vars
             PROVE  DownloadInv'
  OBVIOUS
<1>1. CASE MD!Next
  <2>1. CASE MD!Done
    BY <2>1, DownRests DEF MD!Done, MD!dVars, downloadsVars
  <2>. QED  BY <1>1, <2>1, DownBeginPull, DownCancel, DownHangup, DownResolve,
               DownDownload, DownStopMonitor, DownJoinTimesOut, DownNextRepository,
               DownEndPull, DownMonitorReads, DownMonitorReports, DownReportLate, DownLoad,
               DownBeginDelete, DownCheckPulls, DownUnload, DownRemove DEF MD!Next
<1>2. CASE UNCHANGED downloadsVars
  BY <1>2, DownRests
<1>. QED  BY <1>1, <1>2 DEF Next, vars

-----------------------------------------------------------------------------
(* The theorems about what is kept on disk.                                *)

\* While the files of other applications are changed and given back, what the user had is
\* never lost, and no server of another version and none without a launcher goes on
\* (CodexCLIProfileManager, ChatGPTProfileManager, ClaudeDesktopProfileManager,
\* start_gateway_relay, ensure_server).
THEOREM StoresProfilesAreRestored == Spec => []ProfilesAreRestored
<1>1. ProfilesInv /\ DaemonInv => ProfilesAreRestored
  <2> SUFFICES ASSUME ProfilesInv, DaemonInv PROVE ProfilesAreRestored
    OBVIOUS
  <2>1. /\ DP!TypeOK /\ DP!RestoreGivesBack
        /\ DP!CapturedIsTheUsers /\ DP!NoRelayIsLost
    BY ProfilesHold
  <2>2. DS!TypeOK
    BY DEF DaemonInv, DaemonTypes, ProcessState, LauncherState, Reason, DS!TypeOK
  <2>. QED  BY <2>1, <2>2 DEF DaemonInv, ProfilesAreRestored
<1>2. Init => ProfilesInv /\ DaemonInv
  BY ProfilesInit, DaemonInit
<1>3. (ProfilesInv /\ DaemonInv) /\ [Next]_vars => (ProfilesInv /\ DaemonInv)'
  BY ProfilesStep, DaemonStep
<1>. QED  BY <1>1, <1>2, <1>3, PTL DEF Spec

\* An index that runs while no file is edited follows the disk, and a map read back has
\* the revision it is kept under unless an end tore them apart; a download ends complete
\* and its rows in order unless a removal or a thread left behind came between, and a
\* resident model has its weights (WorkspaceStore.index, WorkspaceStore.capsule,
\* RuntimeManager.pull, RuntimeManager.delete_model_weights).
THEOREM StoresDiskIsFollowed == Spec => []DiskIsFollowed
<1>1. IndexInv /\ DownloadInv => DiskIsFollowed
  BY IndexHolds, DownloadHolds DEF DiskIsFollowed
<1>2. Init => IndexInv /\ DownloadInv
  BY IndexInit, DownloadInit
<1>3. (IndexInv /\ DownloadInv) /\ [Next]_vars => (IndexInv /\ DownloadInv)'
  BY IndexStep, DownloadStep
<1>. QED  BY <1>1, <1>2, <1>3, PTL DEF Spec
\* A model request is decided once, a connector keeps the secrets given for it under a name
\* of its own, a search is complete, and a late answer changes no configuration (TeamStore.
\* resolve_model_request, ExtensionStore.configure_server, MCPConnectorManager.search_tools,
\* ExtensionStore.record_server_status).
THEOREM StoresDecisionsStand == Spec => DecisionsStand
<1>1. RegisterInv => (part = "register" => TG!TypeOK /\ TG!DecidedOnce)
  BY DEF RegisterInv
<1>2. ExtensionsInv =>
        (part = "extensions" =>
            XT!TypeOK /\ XT!SecretsStayWithTheirConnector /\ XT!SearchIsComplete)
  BY ExtensionsHold
<1>3. Init => RegisterInv /\ ExtensionsInv
  BY RegisterInit, ExtensionsInit
<1>4. (RegisterInv /\ ExtensionsInv) /\ [Next]_vars => (RegisterInv /\ ExtensionsInv)'
  BY RegisterStep, ExtensionsStep
<1>5. ExtensionsInv /\ [Next]_vars =>
        [part = "extensions" => XT!LateAnswersOnlyReport]_XT!xvars
  BY LateAnswersStep
<1>. QED  BY <1>1, <1>2, <1>3, <1>4, <1>5, PTL DEF Spec, DecisionsStand
=============================================================================
