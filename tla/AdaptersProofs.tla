--------------------------- MODULE AdaptersProofs ---------------------------
(***************************************************************************)
(* What the adapters, the client and the command line keep                 *)
(* (BufferedStream, VideoFrames, ChatLoop, Connections), proved for any    *)
(* requests, commands, files and hosts. The theorems are about MCAdapters, *)
(* as in GatewayProofs.                                                    *)
(***************************************************************************)
EXTENDS MCAdapters, QueueFacts, FiniteSetTheorems, TLAPS

-----------------------------------------------------------------------------
(* The buffered stream (BufferedStream).                                   *)

BufferTypes ==
    /\ given \in 0 .. MaxAnswer /\ raised \in BOOLEAN /\ late \in Nat
    /\ item \in {BS!End, BS!Error} \cup 1 .. MaxAnswer
    /\ producer \in {"reading", "looking", "putting", "ended"}
    /\ events \in Seq(Int) /\ Len(events) <= MaxBuffered
    /\ consumer \in {"looking", "taking", "passing", "closing", "left"}
    /\ passed \in Seq(Int) /\ chunk \in Int
    /\ outcome \in {"none", "returned", "raised", "cancelled", "gone"}

\* The consumer goes on, and has taken so many chunks.
Consumes == consumer \in {"looking", "taking", "passing"}
Taken    == Len(passed) + (IF consumer = "passing" THEN 1 ELSE 0)
Puts     == producer \in {"looking", "putting"}

PassedInOrder ==
    /\ \A i \in DOMAIN passed : passed[i] = i
    /\ consumer = "passing" => chunk = Len(passed) + 1

\* The queue goes on where the consumer is: chunks, then an error, then the end.
QueueInOrder ==
    Consumes => \A i \in DOMAIN events :
       \/ events[i] = Taken + i
       \/ /\ events[i] = BS!Error /\ raised /\ given = Taken + i - 1
          /\ producer # "reading"
          /\ \/ i = Len(events) /\ (Puts => item = BS!End)
             \/ i + 1 = Len(events) /\ events[i + 1] = BS!End /\ producer = "ended"
       \/ /\ events[i] = BS!End /\ i = Len(events) /\ producer = "ended"
          /\ \/ ~raised /\ given = Taken + i - 1
             \/ raised /\ i > 1 /\ events[i - 1] = BS!Error

\* The producer goes on where the queue ends.
PutsInOrder ==
    Consumes =>
       /\ producer = "reading" => ~raised /\ given = Taken + Len(events)
       /\ Puts /\ item > 0 => ~raised /\ item = given /\ given = Taken + Len(events) + 1
       /\ Puts /\ item = BS!Error => raised /\ given = Taken + Len(events)
       /\ Puts /\ item = BS!End =>
            IF raised THEN events # <<>> /\ events[Len(events)] = BS!Error
                      ELSE given = Taken + Len(events)

OutcomeIsTrue ==
    /\ IF Consumes THEN outcome = "none" /\ stopSet = FALSE ELSE stopSet = TRUE
    /\ outcome = "returned" => ~raised /\ Len(passed) = given /\ producer = "ended"
    /\ outcome = "raised" =>
         /\ raised /\ Len(passed) = given /\ producer # "reading"
         /\ Puts => item = BS!End

\* The chunk that was read too late is given up.
LateOnce ==
    /\ late \in {0, 1}
    /\ late = 1 => stopSet = TRUE /\ producer \in {"looking", "ended"}

BufferInv ==
    /\ BufferTypes /\ PassedInOrder /\ QueueInOrder /\ PutsInOrder
    /\ OutcomeIsTrue /\ LateOnce

LEMMA BufferInit == Init => BufferInv
<1> SUFFICES ASSUME Init PROVE BufferInv
  OBVIOUS
<1>0. BS!Init
  BY DEF Init
<1>1. events = <<>> /\ passed = <<>> /\ <<>> \in Seq(Int) /\ Len(<<>>) = 0
  BY <1>0 DEF BS!Init
<1>2. BufferTypes
  <2>1. raised \in BOOLEAN
    BY <1>0, Zenon DEF BS!Init
  <2>. QED  BY <1>0, <1>1, <2>1, BufferAssumption DEF BS!Init, BufferTypes, BS!End
<1>3. OutcomeIsTrue
  BY <1>0 DEF BS!Init, OutcomeIsTrue, Consumes
<1>4. PassedInOrder /\ QueueInOrder
  BY <1>0, <1>1 DEF BS!Init, PassedInOrder, QueueInOrder
<1>5. raised = FALSE /\ given = 0 /\ producer = "reading" /\ consumer = "looking"
  BY <1>0 DEF BS!Init
<1>6. PutsInOrder
  BY <1>1, <1>5 DEF PutsInOrder, Taken, Puts
<1>7. LateOnce
  BY <1>0 DEF BS!Init, LateOnce
<1>. QED  BY <1>2, <1>3, <1>4, <1>6, <1>7 DEF BufferInv

LEMMA BufferHolds ==
    ASSUME BufferInv
    PROVE  BS!TypeOK /\ BS!AnswerIsWhole /\ BS!ReaderStops
<1>1. BS!TypeOK
  BY DEF BufferInv, BufferTypes, BS!TypeOK
<1>2. BS!AnswerIsWhole
  BY DEF BufferInv, PassedInOrder, OutcomeIsTrue, BS!AnswerIsWhole
<1>3. BS!ReaderStops
  BY DEF BufferInv, LateOnce, BS!ReaderStops
<1>. QED  BY <1>1, <1>2, <1>3

\* What is put comes after what there was; what is taken was the first.
LEMMA EventsEnd ==
    ASSUME NEW q \in Seq(Int), NEW x \in Int
    PROVE  /\ Append(q, x) \in Seq(Int) /\ Len(Append(q, x)) = Len(q) + 1
           /\ \A i \in 1 .. Len(q) : Append(q, x)[i] = q[i]
           /\ Append(q, x)[Len(q) + 1] = x
           /\ q # <<>> => /\ Len(q) > 0 /\ Head(q) = q[1] /\ Head(q) \in Int
                          /\ Tail(q) \in Seq(Int) /\ Len(Tail(q)) = Len(q) - 1
                          /\ \A i \in 1 .. Len(q) - 1 : Tail(q)[i] = q[i + 1]
           /\ Len(q) \in Nat /\ DOMAIN q = 1 .. Len(q)
  OBVIOUS


LEMMA BufferRead ==
    ASSUME BufferInv, BS!Read
    PROVE  BufferInv'
<1>1. UNCHANGED <<events, consumer, chunk, passed, outcome, cancelled, stopSet, shut>>
  BY DEF BS!Read, BS!Enqueue, BS!produced, BS!consumed
<1>2. BufferTypes'
  <2>1. raised' \in BOOLEAN
    BY Zenon DEF BS!Read, BufferInv, BufferTypes
  <2>2. given' \in 0 .. MaxAnswer /\ item' \in {BS!End, BS!Error} \cup 1 .. MaxAnswer
    BY BufferAssumption DEF BS!Read, BS!Enqueue, BufferInv, BufferTypes
  <2>3. late' \in Nat /\ producer' = "looking"
    BY DEF BS!Read, BS!Enqueue, BufferInv, BufferTypes
  <2>. QED  BY <1>1, <2>1, <2>2, <2>3 DEF BufferInv, BufferTypes
<1>3. QueueInOrder'
  BY <1>1, BufferAssumption DEF BufferInv, QueueInOrder, PutsInOrder, OutcomeIsTrue,
     Consumes, Taken, Puts, BS!End, BS!Error, BufferTypes, BS!Read, BS!Enqueue
<1>4. PutsInOrder'
  <2>1. PICK t \in Int : Taken = t /\ Taken' = t
    BY <1>1 DEF Taken, BufferInv, BufferTypes
  <2>2. /\ producer = "reading" /\ producer' = "looking" /\ Consumes' = Consumes
        /\ Consumes => ~raised /\ given = t + Len(events)
    BY <1>1, <2>1 DEF BufferInv, PutsInOrder, Consumes, BS!Read, BS!Enqueue
  <2>3. \/ given' = given + 1 /\ item' = given + 1 /\ raised' = raised
        \/ given' = given /\ item' = BS!Error /\ raised' = TRUE
        \/ given' = given /\ item' = BS!End /\ raised' = raised
    BY DEF BS!Read, BS!Enqueue
  <2>4. given \in Nat /\ Len(events) \in Nat
    BY BufferAssumption DEF BufferInv, BufferTypes
  <2>. QED  BY <1>1, <2>1, <2>2, <2>3, <2>4 DEF PutsInOrder, Puts, BS!End, BS!Error
<1>5. OutcomeIsTrue'
  BY <1>1, BufferAssumption DEF BufferInv, OutcomeIsTrue, PutsInOrder, QueueInOrder,
     Consumes, Taken, Puts, BS!End, BS!Error, BufferTypes, BS!Read, BS!Enqueue
<1>6. LateOnce'
  BY <1>1, BufferAssumption DEF BufferInv, LateOnce, OutcomeIsTrue, Consumes, BufferTypes,
     BS!Read, BS!Enqueue
<1>7. PassedInOrder'
  BY <1>1 DEF BufferInv, PassedInOrder, Consumes, Taken, Puts
<1>. QED  BY <1>2, <1>3, <1>4, <1>5, <1>6, <1>7 DEF BufferInv

LEMMA BufferLookFirst ==
    ASSUME BufferInv, BS!LookFirst
    PROVE  BufferInv'
<1>1. UNCHANGED <<given, item, raised, events,
                consumer, chunk, passed, outcome, cancelled, stopSet, shut, late>>
  BY DEF BS!LookFirst, BS!GivesUp, BS!AfterGivingUp, BS!produced, BS!consumed
<1>2. BufferTypes'
  BY <1>1, BufferAssumption DEF BufferInv, BufferTypes, BS!End, BS!Error, BS!LookFirst,
     BS!GivesUp, BS!AfterGivingUp
<1>3. QueueInOrder'
  BY <1>1, BufferAssumption DEF BufferInv, QueueInOrder, PutsInOrder, OutcomeIsTrue,
     Consumes, Taken, Puts, BS!End, BS!Error, BufferTypes, BS!LookFirst, BS!GivesUp,
     BS!AfterGivingUp
<1>4. PutsInOrder'
  BY <1>1, BufferAssumption DEF BufferInv, QueueInOrder, PutsInOrder, OutcomeIsTrue,
     Consumes, Taken, Puts, BS!End, BS!Error, BufferTypes, BS!LookFirst, BS!GivesUp,
     BS!AfterGivingUp
<1>5. OutcomeIsTrue'
  BY <1>1, BufferAssumption DEF BufferInv, OutcomeIsTrue, PutsInOrder, QueueInOrder,
     Consumes, Taken, Puts, BS!End, BS!Error, BufferTypes, BS!LookFirst, BS!GivesUp,
     BS!AfterGivingUp
<1>6. LateOnce'
  BY <1>1, BufferAssumption DEF BufferInv, LateOnce, OutcomeIsTrue, Consumes, BufferTypes,
     BS!LookFirst, BS!GivesUp, BS!AfterGivingUp
<1>7. PassedInOrder'
  BY <1>1 DEF BufferInv, PassedInOrder, Consumes, Taken, Puts
<1>. QED  BY <1>2, <1>3, <1>4, <1>5, <1>6, <1>7 DEF BufferInv

LEMMA BufferLook ==
    ASSUME BufferInv, BS!Look
    PROVE  BufferInv'
<1>1. UNCHANGED <<given, producer, item, raised, events, chunk, passed, cancelled, shut, late>>
  BY DEF BS!Look, BS!Leave, BS!produced, BS!consumed
<1>2. BufferTypes'
  BY <1>1, BufferAssumption DEF BufferInv, BufferTypes, BS!End, BS!Error, BS!Look, BS!Leave
<1>3. PassedInOrder'
  BY <1>1, BufferAssumption DEF BufferInv, PassedInOrder, BufferTypes, BS!Look, BS!Leave
<1>4. QueueInOrder'
  BY <1>1, BufferAssumption, Zenon DEF BufferInv, QueueInOrder, PutsInOrder, OutcomeIsTrue,
     Consumes, Taken, Puts, BS!End, BS!Error, BufferTypes, BS!Look, BS!Leave
<1>5. PutsInOrder'
  BY <1>1, BufferAssumption DEF BufferInv, QueueInOrder, PutsInOrder, OutcomeIsTrue,
     Consumes, Taken, Puts, BS!End, BS!Error, BufferTypes, BS!Look, BS!Leave
<1>6. OutcomeIsTrue'
  BY <1>1, BufferAssumption DEF BufferInv, OutcomeIsTrue, PutsInOrder, QueueInOrder,
     Consumes, Taken, Puts, BS!End, BS!Error, BufferTypes, BS!Look, BS!Leave
<1>7. LateOnce'
  BY <1>1, BufferAssumption DEF BufferInv, LateOnce, OutcomeIsTrue, Consumes, BufferTypes,
     BS!Look, BS!Leave
<1>. QED  BY <1>2, <1>3, <1>4, <1>5, <1>6, <1>7 DEF BufferInv

LEMMA BufferCloseStream ==
    ASSUME BufferInv, BS!CloseStream
    PROVE  BufferInv'
<1>1. UNCHANGED <<given, producer, item, raised, events,
                chunk, passed, outcome, cancelled, stopSet, late>>
  BY DEF BS!CloseStream, BS!produced, BS!consumed
<1>2. BufferTypes'
  BY <1>1, BufferAssumption DEF BufferInv, BufferTypes, BS!End, BS!Error, BS!CloseStream
<1>3. PassedInOrder'
  BY <1>1, BufferAssumption DEF BufferInv, PassedInOrder, BufferTypes, BS!CloseStream
<1>4. QueueInOrder'
  BY <1>1, BufferAssumption DEF BufferInv, QueueInOrder, PutsInOrder, OutcomeIsTrue,
     Consumes, Taken, Puts, BS!End, BS!Error, BufferTypes, BS!CloseStream
<1>5. PutsInOrder'
  BY <1>1, BufferAssumption DEF BufferInv, QueueInOrder, PutsInOrder, OutcomeIsTrue,
     Consumes, Taken, Puts, BS!End, BS!Error, BufferTypes, BS!CloseStream
<1>6. OutcomeIsTrue'
  BY <1>1, BufferAssumption DEF BufferInv, OutcomeIsTrue, PutsInOrder, QueueInOrder,
     Consumes, Taken, Puts, BS!End, BS!Error, BufferTypes, BS!CloseStream
<1>7. LateOnce'
  BY <1>1 DEF BufferInv, LateOnce, Consumes, Taken, Puts
<1>. QED  BY <1>2, <1>3, <1>4, <1>5, <1>6, <1>7 DEF BufferInv

LEMMA BufferCancel ==
    ASSUME BufferInv, BS!Cancel
    PROVE  BufferInv'
<1>1. UNCHANGED <<given, producer, item, raised, events,
                consumer, chunk, passed, outcome, stopSet, shut, late>>
  BY DEF BS!Cancel, BS!produced, BS!consumed
<1>2. /\ BufferTypes' /\ PassedInOrder' /\ QueueInOrder' /\ PutsInOrder'
      /\ OutcomeIsTrue' /\ LateOnce'
  BY <1>1 DEF BufferInv, BufferTypes, PassedInOrder, QueueInOrder, PutsInOrder,
     OutcomeIsTrue, LateOnce, Consumes, Taken, Puts
<1>. QED  BY <1>2 DEF BufferInv

LEMMA BufferPut ==
    ASSUME BufferInv, BS!Put
    PROVE  BufferInv'
<1>1. UNCHANGED <<given, raised, consumer, chunk, passed, outcome, cancelled, stopSet,
                  shut, late>>
  BY DEF BS!Put, BS!consumed
<1>2. /\ BufferTypes /\ PassedInOrder /\ QueueInOrder /\ PutsInOrder
      /\ OutcomeIsTrue /\ LateOnce /\ producer = "putting" /\ Puts
  BY DEF BufferInv, BS!Put, Puts
<1>3. PICK t \in Int : Taken = t /\ Taken' = t
  BY <1>1, <1>2 DEF Taken, BufferTypes
<1>4. /\ Consumes' = Consumes /\ item \in Int /\ given \in Nat
      /\ events \in Seq(Int) /\ Len(events) \in Nat
  BY <1>1, <1>2, BufferAssumption DEF Consumes, BufferTypes, BS!End, BS!Error
<1>5. PassedInOrder' /\ LateOnce'
  BY <1>1, <1>2 DEF PassedInOrder, LateOnce
<1>6. CASE ~BS!Room
  <2>1. events' = events /\ item' = item /\ producer' = "looking" /\ Puts'
    BY <1>6 DEF BS!Put, Puts
  <2>2. BufferTypes' /\ OutcomeIsTrue'
    BY <1>1, <1>2, <1>4, <2>1 DEF BufferTypes, OutcomeIsTrue
  <2>3. QueueInOrder' /\ PutsInOrder'
    BY <1>1, <1>2, <1>3, <1>4, <2>1 DEF QueueInOrder, PutsInOrder
  <2>. QED  BY <1>5, <2>2, <2>3 DEF BufferInv
<1>7. CASE BS!Room
  <2>1. /\ events' = Append(events, item) /\ Len(events) < MaxBuffered
        /\ events' \in Seq(Int) /\ Len(events') = Len(events) + 1
        /\ \A i \in 1 .. Len(events) : events'[i] = events[i]
        /\ events'[Len(events) + 1] = item
        /\ DOMAIN events = 1 .. Len(events) /\ DOMAIN events' = 1 .. Len(events) + 1
    BY <1>4, <1>7, EventsEnd DEF BS!Put, BS!Room
  <2>2. ASSUME Consumes, NEW i \in 1 .. Len(events)
        PROVE  \/ events[i] = t + i
               \/ /\ events[i] = BS!Error /\ raised /\ given = t + i - 1
                  /\ i = Len(events) /\ item = BS!End
    BY <1>2, <1>3, <2>1, <2>2, Zenon DEF QueueInOrder
  <2>6. (CASE item > 0 -> producer' = "reading" /\ item' = item
          [] item = BS!Error -> item' = BS!End /\ producer' = "looking"
          [] item = BS!End -> producer' = "ended" /\ item' = item)
    BY <1>7, Zenon DEF BS!Put, BS!Enqueue
  <2>7. item > 0 => item # BS!Error /\ item # BS!End
    BY <1>4 DEF BS!Error, BS!End
  <2>3. CASE item > 0
    <3>1. producer' = "reading" /\ item' = item /\ ~Puts'
      BY <2>3, <2>6, <2>7 DEF Puts
    <3>2. Consumes => ~raised /\ item = given /\ given = t + Len(events) + 1
      BY <1>2, <1>3, <2>3 DEF PutsInOrder
    <3>3. BufferTypes'
      BY <1>1, <1>2, <1>4, <2>1, <3>1, BufferAssumption DEF BufferTypes
    <3>4. Consumes => \A i \in DOMAIN events' : events'[i] = t + i
      <4> SUFFICES ASSUME Consumes, NEW i \in 1 .. Len(events) + 1
                   PROVE  events'[i] = t + i
        BY <2>1
      <4>1. CASE i = Len(events) + 1
        BY <1>3, <1>4, <2>1, <3>2, <4>1
      <4>2. CASE i # Len(events) + 1
        <5>1. i \in 1 .. Len(events)
          BY <1>4, <4>2
        <5>2. events[i] = t + i
          BY <2>2, <2>7, <2>3, <5>1, Zenon
        <5>. QED  BY <2>1, <5>1, <5>2
      <4>. QED  BY <4>1, <4>2
    <3>5. QueueInOrder' /\ PutsInOrder'
      BY <1>1, <1>3, <1>4, <2>1, <3>1, <3>2, <3>4 DEF QueueInOrder, PutsInOrder
    <3>6. OutcomeIsTrue'
      BY <1>1, <1>2, <1>4, <2>3, <3>1 DEF OutcomeIsTrue, BS!End
    <3>. QED  BY <1>5, <3>3, <3>5, <3>6 DEF BufferInv
  <2>4. CASE item = BS!Error
    <3>1. producer' = "looking" /\ item' = BS!End /\ Puts'
      BY <1>4, <2>4, <2>6 DEF Puts, BS!Error, BS!End
    <3>2. Consumes => raised /\ given = t + Len(events)
      BY <1>2, <1>3, <2>4 DEF PutsInOrder
    <3>3. BufferTypes'
      BY <1>1, <1>2, <1>4, <2>1, <3>1, BufferAssumption DEF BufferTypes
    <3>4. Consumes => \A i \in 1 .. Len(events) : events'[i] = t + i
      BY <1>4, <2>1, <2>2, <2>4 DEF BS!End, BS!Error
    <3>5. QueueInOrder'
      BY <1>1, <1>3, <1>4, <2>1, <2>4, <3>1, <3>2, <3>4 DEF QueueInOrder
    <3>6. PutsInOrder'
      BY <1>1, <1>3, <1>4, <2>1, <2>4, <3>1, <3>2 DEF PutsInOrder, BS!End, BS!Error
    <3>7. OutcomeIsTrue'
      BY <1>1, <1>2, <1>4, <3>1 DEF OutcomeIsTrue
    <3>. QED  BY <1>5, <3>3, <3>5, <3>6, <3>7 DEF BufferInv
  <2>5. CASE item = BS!End
    <3>1. producer' = "ended" /\ item' = item /\ ~Puts'
      BY <1>4, <2>5, <2>6 DEF Puts, BS!Error, BS!End
    <3>2. Consumes => IF raised THEN events # <<>> /\ events[Len(events)] = BS!Error
                                ELSE given = t + Len(events)
      BY <1>2, <1>3, <2>5 DEF PutsInOrder
    <3>3. BufferTypes'
      BY <1>1, <1>2, <1>4, <2>1, <3>1, BufferAssumption DEF BufferTypes
    <3>4. ASSUME Consumes, NEW i \in 1 .. Len(events) + 1
          PROVE  \/ events'[i] = t + i
                 \/ /\ events'[i] = BS!Error /\ raised /\ given = t + i - 1
                    /\ i + 1 = Len(events') /\ events'[i + 1] = BS!End
                 \/ /\ events'[i] = BS!End /\ i = Len(events')
                    /\ \/ ~raised /\ given = t + i - 1
                       \/ raised /\ i > 1 /\ events'[i - 1] = BS!Error
      <4>1. CASE i = Len(events) + 1
        <5>1. events'[i] = BS!End
          BY <2>1, <2>5, <4>1
        <5>2. CASE raised
          <6>1. Len(events) > 0 /\ events[Len(events)] = BS!Error
            BY <1>4, <3>2, <3>4, <5>2
          <6>2. i > 1 /\ i - 1 = Len(events) /\ Len(events) \in 1 .. Len(events)
            BY <1>4, <4>1, <6>1
          <6>. QED  BY <2>1, <4>1, <5>1, <5>2, <6>1, <6>2
        <5>3. CASE ~raised
          <6>1. given = t + i - 1
            BY <1>3, <1>4, <3>2, <3>4, <4>1, <5>3
          <6>2. i = Len(events')
            BY <2>1, <4>1
          <6>. QED  BY <5>1, <5>3, <6>1, <6>2, Zenon
        <5>. QED  BY <5>2, <5>3
      <4>2. CASE i # Len(events) + 1
        <5>1. i \in 1 .. Len(events) /\ i + 1 \in 1 .. Len(events) + 1
          BY <1>4, <4>2
        <5>2. \/ events[i] = t + i
              \/ /\ events[i] = BS!Error /\ raised /\ given = t + i - 1
                 /\ i = Len(events)
          BY <2>2, <3>4, <5>1
        <5>3. events'[i] = events[i]
          BY <2>1, <5>1
        <5>4. i = Len(events) => i + 1 = Len(events') /\ events'[i + 1] = BS!End
          BY <2>1, <2>5
        <5>. QED  BY <5>2, <5>3, <5>4, Zenon
      <4>. QED  BY <4>1, <4>2
    <3>5. QueueInOrder' /\ PutsInOrder'
      BY <1>1, <1>3, <1>4, <2>1, <3>1, <3>4, Zenon DEF QueueInOrder, PutsInOrder
    <3>6. OutcomeIsTrue'
      BY <1>1, <1>2, <1>4, <3>1 DEF OutcomeIsTrue
    <3>. QED  BY <1>5, <3>3, <3>5, <3>6 DEF BufferInv
  <2>. QED  BY <1>2, <2>3, <2>4, <2>5 DEF BufferTypes
<1>. QED  BY <1>6, <1>7

LEMMA BufferTake ==
    ASSUME BufferInv, BS!Take
    PROVE  BufferInv'
<1>1. UNCHANGED <<given, producer, item, raised, late, passed, shut, cancelled>>
  BY DEF BS!Take, BS!produced
<1>2. /\ BufferTypes /\ PassedInOrder /\ QueueInOrder /\ PutsInOrder
      /\ OutcomeIsTrue /\ LateOnce /\ consumer = "taking" /\ Consumes
  BY DEF BufferInv, BS!Take, Consumes
<1>3. PICK t \in Nat : Taken = t /\ Len(passed) = t
  BY <1>2 DEF Taken, BufferTypes
<1>4. events \in Seq(Int) /\ Len(events) \in Nat /\ given \in Nat
  BY <1>2, BufferAssumption DEF BufferTypes
<1>5. CASE events = <<>>
  <2>1. consumer' = "looking" /\ Consumes' /\ Taken' = t
    BY <1>1, <1>3, <1>5 DEF BS!Take, Consumes, Taken
  <2>2. UNCHANGED <<events, chunk, outcome, stopSet>> /\ Puts' = Puts
    BY <1>1, <1>5 DEF BS!Take, Puts
  <2>3. BufferTypes' /\ PassedInOrder' /\ OutcomeIsTrue' /\ LateOnce'
    BY <1>1, <1>2, <2>1, <2>2 DEF BufferTypes, PassedInOrder, OutcomeIsTrue, LateOnce
  <2>4. QueueInOrder' /\ PutsInOrder'
    BY <1>1, <1>2, <1>3, <2>1, <2>2 DEF QueueInOrder, PutsInOrder
  <2>. QED  BY <2>3, <2>4 DEF BufferInv
<1>6. CASE events # <<>>
  <2>1. /\ events' = Tail(events) /\ chunk' = Head(events) /\ Head(events) = events[1]
        /\ Len(events) > 0 /\ events' \in Seq(Int) /\ Len(events') = Len(events) - 1
        /\ \A i \in 1 .. Len(events) - 1 : events'[i] = events[i + 1]
        /\ DOMAIN events = 1 .. Len(events) /\ DOMAIN events' = 1 .. Len(events) - 1
        /\ events[1] \in Int
    BY <1>4, <1>6, EventsEnd DEF BS!Take
  <2>2. ASSUME NEW i \in 1 .. Len(events)
        PROVE  \/ events[i] = t + i
               \/ /\ events[i] = BS!Error /\ raised /\ given = t + i - 1
                  /\ producer # "reading"
                  /\ \/ i = Len(events) /\ (Puts => item = BS!End)
                     \/ i + 1 = Len(events) /\ events[i + 1] = BS!End /\ producer = "ended"
               \/ /\ events[i] = BS!End /\ i = Len(events) /\ producer = "ended"
                  /\ \/ ~raised /\ given = t + i - 1
                     \/ raised /\ i > 1 /\ events[i - 1] = BS!Error
    BY <1>2, <1>3, <2>1, Zenon DEF QueueInOrder
  <2>3. 1 \in 1 .. Len(events) /\ Puts' = Puts
    BY <1>1, <1>4, <2>1 DEF Puts
  <2>7. (CASE events[1] > 0 -> consumer' = "passing" /\ UNCHANGED <<outcome, stopSet>>
          [] events[1] = BS!Error ->
               outcome' = "raised" /\ consumer' = "closing" /\ stopSet' = TRUE
          [] events[1] = BS!End ->
               outcome' = "returned" /\ consumer' = "closing" /\ stopSet' = TRUE)
    <3>1. (CASE Head(events) > 0 -> consumer' = "passing" /\ UNCHANGED <<outcome, stopSet>>
            [] Head(events) = BS!Error ->
                 outcome' = "raised" /\ consumer' = "closing" /\ stopSet' = TRUE
            [] Head(events) = BS!End ->
                 outcome' = "returned" /\ consumer' = "closing" /\ stopSet' = TRUE)
      BY <1>6, Zenon DEF BS!Take, BS!Leave
    <3>. QED  BY <2>1, <3>1, Zenon
  <2>8. events[1] > 0 => events[1] # BS!Error /\ events[1] # BS!End
    BY <2>1 DEF BS!Error, BS!End
  <2>4. CASE events[1] > 0
    <3>1. consumer' = "passing" /\ Consumes' /\ UNCHANGED <<outcome, stopSet>>
      BY <2>4, <2>7, <2>8, Zenon DEF Consumes
    <3>2. Taken' = t + 1
      BY <1>1, <1>3, <3>1 DEF Taken
    <3>3. events[1] = t + 1
      BY <2>2, <2>3, <2>4 DEF BS!Error, BS!End
    <3>4. BufferTypes'
      <4>1. Len(events') <= MaxBuffered
        BY <1>2, <1>4, <2>1, BufferAssumption DEF BufferTypes
      <4>. QED  BY <1>1, <1>2, <2>1, <3>1, <4>1 DEF BufferTypes
    <3>5. PassedInOrder' /\ OutcomeIsTrue' /\ LateOnce'
      BY <1>1, <1>2, <1>3, <2>1, <3>1, <3>3 DEF PassedInOrder, OutcomeIsTrue, LateOnce
    <3>6. ASSUME NEW i \in 1 .. Len(events) - 1
          PROVE  \/ events'[i] = t + 1 + i
                 \/ /\ events'[i] = BS!Error /\ raised /\ given = t + 1 + i - 1
                    /\ producer # "reading"
                    /\ \/ i = Len(events') /\ (Puts => item = BS!End)
                       \/ /\ i + 1 = Len(events') /\ events'[i + 1] = BS!End
                          /\ producer = "ended"
                 \/ /\ events'[i] = BS!End /\ i = Len(events') /\ producer = "ended"
                    /\ \/ ~raised /\ given = t + 1 + i - 1
                       \/ raised /\ i > 1 /\ events'[i - 1] = BS!Error
      <4>1. i + 1 \in 1 .. Len(events) /\ events'[i] = events[i + 1]
        BY <1>4, <2>1
      <4>2. i + 1 < Len(events) => events'[i + 1] = events[i + 2]
        BY <1>4, <2>1
      <4>3. i > 1 => events'[i - 1] = events[i]
        BY <1>4, <2>1
      <4>4. i = 1 => events[i] # BS!Error
        BY <1>3, <3>3 DEF BS!Error
      <4>10. Len(events) \in Int
        BY <1>4
      <4>11. Len(events') = Len(events) - 1
        BY <2>1, Zenon
      <4>8. PICK n \in Int : Len(events) = n /\ Len(events') = n - 1
        BY <4>10, <4>11
      <4>9. i \in Int
        BY <1>4
      <4>5. CASE events[i + 1] = t + (i + 1)
        BY <1>3, <4>1, <4>5
      <4>6. CASE /\ events[i + 1] = BS!Error /\ raised /\ given = t + (i + 1) - 1
                 /\ producer # "reading"
                 /\ \/ i + 1 = Len(events) /\ (Puts => item = BS!End)
                    \/ /\ (i + 1) + 1 = Len(events) /\ events[(i + 1) + 1] = BS!End
                       /\ producer = "ended"
        <5>1. given = t + 1 + i - 1 /\ (i + 1) + 1 = i + 2
          BY <1>3, <1>4, <4>6
        <5>2. i + 1 = Len(events) => i = Len(events')
          BY <4>8, <4>9
        <5>3. i + 2 = Len(events) => i + 1 = Len(events') /\ events'[i + 1] = events[i + 2]
          BY <4>2, <4>8, <4>9
        <5>. QED  BY <4>1, <4>6, <5>1, <5>2, <5>3
      <4>7. CASE /\ events[i + 1] = BS!End /\ i + 1 = Len(events) /\ producer = "ended"
                 /\ \/ ~raised /\ given = t + (i + 1) - 1
                    \/ raised /\ i + 1 > 1 /\ events[(i + 1) - 1] = BS!Error
        <5>1. i = Len(events') /\ (i + 1) - 1 = i
          BY <4>7, <4>8, <4>9
        <5>2. ~raised /\ given = t + (i + 1) - 1 => given = t + 1 + i - 1
          BY <1>3, <1>4
        <5>3. events[i] = BS!Error => i > 1 /\ events'[i - 1] = BS!Error
          BY <4>3, <4>4
        <5>. QED  BY <4>1, <4>7, <5>1, <5>2, <5>3, Zenon
      <4>. QED  BY <2>2, <4>1, <4>5, <4>6, <4>7
    <3>7. QueueInOrder'
      BY <1>1, <2>1, <2>3, <3>2, <3>6, Zenon DEF QueueInOrder
    <3>8. raised /\ Puts /\ item = BS!End =>
            events' # <<>> /\ events'[Len(events')] = BS!Error
      <4> SUFFICES ASSUME raised, Puts, item = BS!End
                   PROVE  events' # <<>> /\ events'[Len(events')] = BS!Error
        OBVIOUS
      <4>1. events[Len(events)] = BS!Error
        BY <1>2 DEF PutsInOrder
      <4>2. Len(events) # 1
        BY <1>3, <3>3, <4>1 DEF BS!Error
      <4>3. /\ Len(events) - 1 \in 1 .. Len(events) - 1 /\ Len(events) - 1 # 0
            /\ (Len(events) - 1) + 1 = Len(events)
        BY <1>4, <2>1, <4>2
      <4>4. events'[Len(events')] = events[Len(events)]
        BY <2>1, <4>3
      <4>5. events' # <<>>
        <5> SUFFICES ASSUME events' = <<>> PROVE FALSE
          OBVIOUS
        <5>. QED  BY <2>1, <4>3
      <4>. QED  BY <4>1, <4>4, <4>5
    <3>9. PutsInOrder'
      <4>1. t + Len(events) = t + 1 + Len(events')
        BY <1>3, <1>4, <2>1
      <4>2. /\ producer = "reading" => ~raised /\ given = t + Len(events)
            /\ Puts /\ item > 0 => ~raised /\ item = given /\ given = t + Len(events) + 1
            /\ Puts /\ item = BS!Error => raised /\ given = t + Len(events)
            /\ Puts /\ item = BS!End => (raised \/ given = t + Len(events))
        BY <1>2, <1>3 DEF PutsInOrder
      <4>. QED  BY <1>1, <2>3, <3>2, <3>8, <4>1, <4>2 DEF PutsInOrder
    <3>. QED  BY <3>4, <3>5, <3>7, <3>9 DEF BufferInv
  <2>5. CASE events[1] = BS!Error
    <3>1. outcome' = "raised" /\ consumer' = "closing" /\ stopSet' = TRUE /\ ~Consumes'
      BY <2>5, <2>7 DEF BS!Error, BS!End, Consumes
    <3>2. raised /\ Len(passed) = given /\ producer # "reading" /\ (Puts => item = BS!End)
      BY <1>3, <2>2, <2>3, <2>5 DEF BS!Error, BS!End, Puts
    <3>3. BufferTypes' /\ PassedInOrder' /\ LateOnce'
      <4>1. Len(events') <= MaxBuffered
        BY <1>2, <1>4, <2>1, BufferAssumption DEF BufferTypes
      <4>. QED  BY <1>1, <1>2, <2>1, <3>1, <4>1 DEF BufferTypes, PassedInOrder, LateOnce
    <3>4. OutcomeIsTrue' /\ QueueInOrder' /\ PutsInOrder'
      BY <1>1, <2>3, <3>1, <3>2 DEF OutcomeIsTrue, QueueInOrder, PutsInOrder
    <3>. QED  BY <3>3, <3>4 DEF BufferInv
  <2>6. CASE events[1] = BS!End
    <3>1. outcome' = "returned" /\ consumer' = "closing" /\ stopSet' = TRUE /\ ~Consumes'
      BY <2>6, <2>7 DEF BS!Error, BS!End, Consumes
    <3>2. ~raised /\ Len(passed) = given /\ producer = "ended"
      BY <1>3, <2>2, <2>3, <2>6 DEF BS!Error, BS!End
    <3>3. BufferTypes' /\ PassedInOrder' /\ LateOnce'
      <4>1. Len(events') <= MaxBuffered
        BY <1>2, <1>4, <2>1, BufferAssumption DEF BufferTypes
      <4>. QED  BY <1>1, <1>2, <2>1, <3>1, <4>1 DEF BufferTypes, PassedInOrder, LateOnce
    <3>4. OutcomeIsTrue' /\ QueueInOrder' /\ PutsInOrder'
      BY <1>1, <2>3, <3>1, <3>2 DEF OutcomeIsTrue, QueueInOrder, PutsInOrder
    <3>. QED  BY <3>3, <3>4 DEF BufferInv
  <2>. QED  BY <1>3, <2>2, <2>3, <2>4, <2>5, <2>6
<1>. QED  BY <1>5, <1>6

LEMMA BufferPass ==
    ASSUME BufferInv, BS!Pass
    PROVE  BufferInv'
<1>1. UNCHANGED <<given, producer, item, raised, late, events, chunk, shut, cancelled>>
  BY DEF BS!Pass, BS!produced
<1>2. /\ BufferTypes /\ PassedInOrder /\ QueueInOrder /\ PutsInOrder
      /\ OutcomeIsTrue /\ LateOnce /\ consumer = "passing" /\ Consumes
  BY DEF BufferInv, BS!Pass, Consumes
<1>3. PICK t \in Nat : Taken = t /\ Len(passed) = t - 1 /\ chunk = t
  BY <1>2 DEF Taken, BufferTypes, PassedInOrder
<1>4. passed \in Seq(Int) /\ chunk \in Int /\ Puts' = Puts
  BY <1>1, <1>2 DEF BufferTypes, Puts
<1>5. passed' \in {passed, Append(passed, chunk)}
  BY DEF BS!Pass
<1>6. /\ passed' \in Seq(Int) /\ \A i \in DOMAIN passed' : passed'[i] = i
      /\ passed' = Append(passed, chunk) => Len(passed') = t
  BY <1>2, <1>3, <1>4, <1>5, EventsEnd DEF PassedInOrder
<1>7. CASE consumer' = "looking"
  <2>1. passed' = Append(passed, chunk) /\ UNCHANGED <<outcome, stopSet>>
    BY <1>7 DEF BS!Pass, BS!Leave
  <2>2. Taken' = t /\ Consumes'
    BY <1>6, <1>7, <2>1 DEF Taken, Consumes
  <2>3. BufferTypes' /\ PassedInOrder' /\ LateOnce'
    BY <1>1, <1>2, <1>6, <1>7, <2>1 DEF BufferTypes, PassedInOrder, LateOnce
  <2>4. QueueInOrder' /\ PutsInOrder'
    BY <1>1, <1>2, <1>3, <1>4, <2>2 DEF QueueInOrder, PutsInOrder
  <2>5. OutcomeIsTrue'
    BY <1>1, <1>2, <2>1, <2>2 DEF OutcomeIsTrue
  <2>. QED  BY <2>3, <2>4, <2>5 DEF BufferInv
<1>8. CASE consumer' # "looking"
  <2>1. /\ outcome' \in {"cancelled", "gone"} /\ consumer' = "closing" /\ stopSet' = TRUE
        /\ ~Consumes'
    BY <1>8 DEF BS!Pass, BS!Leave, Consumes
  <2>2. BufferTypes' /\ PassedInOrder' /\ LateOnce'
    BY <1>1, <1>2, <1>6, <2>1 DEF BufferTypes, PassedInOrder, LateOnce
  <2>3. OutcomeIsTrue' /\ QueueInOrder' /\ PutsInOrder'
    BY <1>1, <2>1 DEF OutcomeIsTrue, QueueInOrder, PutsInOrder
  <2>. QED  BY <2>2, <2>3 DEF BufferInv
<1>. QED  BY <1>7, <1>8


LEMMA BufferRests ==
    ASSUME BufferInv, UNCHANGED bufferVars
    PROVE  BufferInv'
<1>1. /\ UNCHANGED <<given, producer, item, raised, events, consumer, chunk, passed>>
      /\ UNCHANGED <<outcome, cancelled, stopSet, shut, late>>
  BY DEF bufferVars
<1>2. BufferTypes' /\ PassedInOrder' /\ OutcomeIsTrue' /\ LateOnce'
  BY <1>1 DEF BufferInv, BufferTypes, PassedInOrder, OutcomeIsTrue, LateOnce, Consumes, Puts
<1>3. QueueInOrder' /\ PutsInOrder'
  BY <1>1 DEF BufferInv, QueueInOrder, PutsInOrder, Consumes, Puts, Taken
<1>. QED  BY <1>2, <1>3 DEF BufferInv

LEMMA BufferStep == BufferInv /\ [Next]_vars => BufferInv'
<1> SUFFICES ASSUME BufferInv, [Next]_vars
             PROVE  BufferInv'
  OBVIOUS
<1>1. CASE BS!Next
  <2>1. CASE BS!Done
    BY <2>1, BufferRests
       DEF BS!Done, BS!bufferVars, BS!produced, BS!consumed, bufferVars
  <2>. QED  BY <1>1, <2>1, BufferRead, BufferLookFirst, BufferPut, BufferLook, BufferTake,
               BufferPass, BufferCloseStream, BufferCancel DEF BS!Next
<1>2. CASE UNCHANGED bufferVars
  BY <1>2, BufferRests
<1>. QED  BY <1>1, <1>2 DEF Next, vars

-----------------------------------------------------------------------------
(* The frames of a video (VideoFrames).                                    *)

FrameSteps == {"start", "clear", "ffmpeg", "list", "mark", "select", "ended"}

FrameTypes ==
    /\ dir \subseteq VF!All /\ manifest \in BOOLEAN /\ overlapped \in BOOLEAN
    /\ step \in [Commands -> FrameSteps] /\ got \in [Commands -> SUBSET VF!All]

\* Commands that do not meet extract one at a time, all the frames, and mark them then;
\* what is marked is extracted once more only if there is nothing to extract.
OneExtracts ==
    ~overlapped =>
       /\ \A c, d \in VF!Extracting : c = d
       /\ manifest => dir = VF!All
       /\ manifest /\ VF!Extracting # {} => VF!All = {}
       /\ \A c \in Commands :
            /\ step[c] \in {"list", "mark"} => dir = VF!All
            /\ step[c] \in {"mark", "select"} => got[c] = VF!All

SelectsFromAll == VF!FramesAreComplete

FramesInv == FrameTypes /\ OneExtracts /\ SelectsFromAll

LEMMA FramesInit == Init => FramesInv
<1> SUFFICES ASSUME Init PROVE FramesInv
  OBVIOUS
<1>0. VF!Init
  BY DEF Init
<1>1. FrameTypes
  <2>1. manifest \in BOOLEAN /\ overlapped \in BOOLEAN
    BY <1>0, Zenon DEF VF!Init
  <2>. QED  BY <1>0, <2>1 DEF VF!Init, FrameTypes, FrameSteps
<1>2. OneExtracts
  BY <1>0 DEF VF!Init, OneExtracts, VF!Extracting
<1>3. SelectsFromAll
  BY <1>0 DEF VF!Init, SelectsFromAll, VF!FramesAreComplete
<1>. QED  BY <1>1, <1>2, <1>3 DEF FramesInv

LEMMA FramesHold ==
    ASSUME FramesInv
    PROVE  VF!TypeOK /\ VF!FramesAreComplete
BY DEF FramesInv, FrameTypes, SelectsFromAll, VF!TypeOK, FrameSteps

\* FFmpeg writes the next frame that is missing.
LEMMA NextFrame ==
    ASSUME VF!All \ dir # {}
    PROVE  (CHOOSE f \in VF!All \ dir : \A g \in VF!All \ dir : f <= g) \in VF!All
<1>1. VF!All \ dir \subseteq Nat
  BY FrameAssumption DEF VF!All
<1>2. \E f \in VF!All \ dir : \A g \in VF!All \ dir : f <= g
  BY <1>1, MinOfNaturals, Zenon
<1>. QED  BY <1>2

\* A command that has begun, ended or selected extracts nothing.
LEMMA FramesGo ==
    ASSUME FrameTypes, NEW c \in Commands, NEW there \in FrameSteps, VF!Go(c, there)
    PROVE  /\ step' \in [Commands -> FrameSteps]
           /\ step'[c] = there /\ \A d \in Commands \ {c} : step'[d] = step[d]
           /\ VF!Extracting' = IF there \in {"clear", "ffmpeg", "list", "mark"}
                               THEN VF!Extracting \cup {c} ELSE VF!Extracting \ {c}
<1>1. step' = [step EXCEPT ![c] = there] /\ step \in [Commands -> FrameSteps]
  BY DEF FrameTypes, VF!Go
<1>2. /\ step' \in [Commands -> FrameSteps]
      /\ step'[c] = there /\ \A d \in Commands \ {c} : step'[d] = step[d]
  BY <1>1
<1>. QED  BY <1>2 DEF VF!Extracting

\* No step but the selection tells of frames.
LEMMA FramesQuiet ==
    ASSUME selection' = VF!NoSelection
    PROVE  SelectsFromAll'
BY DEF SelectsFromAll, VF!FramesAreComplete

LEMMA FramesStays ==
    ASSUME FramesInv, NEW c \in Commands, NEW there \in {"ended", "start"},
           VF!Go(c, there), UNCHANGED <<dir, manifest, overlapped>>,
           got' \in [Commands -> SUBSET VF!All],
           \A d \in Commands \ {c} : got'[d] = got[d]
    PROVE  FrameTypes' /\ OneExtracts'
<1>1. FrameTypes /\ OneExtracts /\ there \in FrameSteps
  BY DEF FramesInv, FrameSteps
<1>2. /\ step' \in [Commands -> FrameSteps]
      /\ step'[c] = there /\ \A d \in Commands \ {c} : step'[d] = step[d]
      /\ VF!Extracting' = VF!Extracting \ {c}
  BY <1>1, FramesGo
<1>3. FrameTypes'
  BY <1>1, <1>2 DEF FrameTypes
<1>4. OneExtracts'
  BY <1>1, <1>2 DEF OneExtracts
<1>. QED  BY <1>3, <1>4

LEMMA FramesLook ==
    ASSUME FramesInv, NEW c \in Commands, VF!Look(c)
    PROVE  FrameTypes' /\ OneExtracts'
<1>1. FrameTypes /\ OneExtracts /\ UNCHANGED <<dir, manifest>>
  BY DEF FramesInv, VF!Look
<1>2. CASE VF!Complete
  <2>1. got' = [got EXCEPT ![c] = dir] /\ VF!Go(c, "select") /\ overlapped' = overlapped
    BY <1>2 DEF VF!Look
  <2>2. /\ step' \in [Commands -> FrameSteps]
        /\ step'[c] = "select" /\ \A d \in Commands \ {c} : step'[d] = step[d]
        /\ VF!Extracting' = VF!Extracting \ {c}
    BY <1>1, <2>1, FramesGo DEF FrameSteps
  <2>3. /\ got' \in [Commands -> SUBSET VF!All] /\ got'[c] = dir
        /\ \A d \in Commands \ {c} : got'[d] = got[d]
    BY <1>1, <2>1 DEF FrameTypes
  <2>4. FrameTypes'
    BY <1>1, <2>1, <2>2, <2>3 DEF FrameTypes
  <2>5. OneExtracts'
    BY <1>1, <1>2, <2>1, <2>2, <2>3 DEF OneExtracts, VF!Complete
  <2>. QED  BY <2>4, <2>5
<1>3. CASE ~VF!Complete
  <2>1. /\ got' = got /\ VF!Go(c, "clear")
        /\ overlapped' = (overlapped \/ VF!Extracting # {})
    BY <1>3 DEF VF!Look
  <2>2. /\ step' \in [Commands -> FrameSteps]
        /\ step'[c] = "clear" /\ \A d \in Commands \ {c} : step'[d] = step[d]
        /\ VF!Extracting' = VF!Extracting \cup {c}
    BY <1>1, <2>1, FramesGo DEF FrameSteps
  <2>3. overlapped' \in BOOLEAN
    BY <1>1, <2>1, Zenon DEF FrameTypes
  <2>4. FrameTypes'
    BY <1>1, <2>1, <2>2, <2>3 DEF FrameTypes
  <2>5. manifest => dir = {}
    BY <1>3 DEF VF!Complete
  <2>6. OneExtracts'
    BY <1>1, <2>1, <2>2, <2>5, Zenon DEF OneExtracts
  <2>. QED  BY <2>4, <2>6
<1>. QED  BY <1>2, <1>3

LEMMA FramesClear ==
    ASSUME FramesInv, NEW c \in Commands, VF!Clear(c)
    PROVE  FrameTypes' /\ OneExtracts'
<1>1. /\ FrameTypes /\ OneExtracts /\ UNCHANGED <<manifest, got, overlapped>>
      /\ step[c] = "clear" /\ c \in VF!Extracting
  BY DEF FramesInv, VF!Clear, VF!Extracting
<1>2. CASE dir = {}
  <2>1. VF!Go(c, "ffmpeg") /\ dir' = dir
    BY <1>2 DEF VF!Clear
  <2>2. /\ step' \in [Commands -> FrameSteps]
        /\ step'[c] = "ffmpeg" /\ \A d \in Commands \ {c} : step'[d] = step[d]
        /\ VF!Extracting' = VF!Extracting \cup {c}
    BY <1>1, <2>1, FramesGo DEF FrameSteps
  <2>3. FrameTypes'
    BY <1>1, <2>1, <2>2 DEF FrameTypes
  <2>4. OneExtracts'
    BY <1>1, <2>1, <2>2 DEF OneExtracts
  <2>. QED  BY <2>3, <2>4
<1>3. CASE dir # {}
  <2>1. dir' \subseteq dir /\ step' = step
    BY <1>3 DEF VF!Clear
  <2>2. FrameTypes'
    BY <1>1, <2>1 DEF FrameTypes
  <2>3. ASSUME ~overlapped, NEW d \in Commands, step[d] \in {"list", "mark"}
        PROVE  FALSE
    BY <1>1, <2>3 DEF OneExtracts, VF!Extracting
  <2>4. ~overlapped => ~manifest
    BY <1>1, <1>3 DEF OneExtracts, FrameTypes
  <2>5. VF!Extracting' = VF!Extracting
    BY <2>1 DEF VF!Extracting
  <2>6. OneExtracts'
    BY <1>1, <2>1, <2>3, <2>4, <2>5 DEF OneExtracts
  <2>. QED  BY <2>2, <2>6
<1>. QED  BY <1>2, <1>3

LEMMA FramesExtract ==
    ASSUME FramesInv, NEW c \in Commands, VF!Extract(c)
    PROVE  FrameTypes' /\ OneExtracts'
<1>1. /\ FrameTypes /\ OneExtracts /\ UNCHANGED <<manifest, got, overlapped>>
      /\ step[c] = "ffmpeg" /\ c \in VF!Extracting
  BY DEF FramesInv, VF!Extract, VF!Extracting
<1>2. CASE /\ VF!All \ dir # {}
           /\ dir' = dir \cup {CHOOSE f \in VF!All \ dir : \A g \in VF!All \ dir : f <= g}
           /\ UNCHANGED step
  <2>. DEFINE next == CHOOSE f \in VF!All \ dir : \A g \in VF!All \ dir : f <= g
  <2>1. next \in VF!All
    BY <1>2, NextFrame
  <2>2. dir' = dir \cup {next}
    BY <1>2
  <2>. HIDE DEF next
  <2>3. FrameTypes'
    BY <1>1, <1>2, <2>1, <2>2 DEF FrameTypes
  <2>4. ASSUME ~overlapped, NEW d \in Commands, step[d] \in {"list", "mark"}
        PROVE  FALSE
    BY <1>1, <2>4 DEF OneExtracts, VF!Extracting
  <2>5. VF!Extracting' = VF!Extracting
    BY <1>2 DEF VF!Extracting
  <2>6. ~overlapped => ~manifest
    BY <1>1, <1>2 DEF OneExtracts
  <2>7. OneExtracts'
    BY <1>1, <1>2, <2>4, <2>5, <2>6 DEF OneExtracts
  <2>. QED  BY <2>3, <2>7
<1>3. CASE VF!All \subseteq dir /\ VF!Go(c, "list") /\ UNCHANGED dir
  <2>1. /\ step' \in [Commands -> FrameSteps]
        /\ step'[c] = "list" /\ \A d \in Commands \ {c} : step'[d] = step[d]
        /\ VF!Extracting' = VF!Extracting \cup {c}
    BY <1>1, <1>3, FramesGo DEF FrameSteps
  <2>2. dir = VF!All
    BY <1>1, <1>3 DEF FrameTypes
  <2>3. FrameTypes'
    BY <1>1, <1>3, <2>1 DEF FrameTypes
  <2>4. OneExtracts'
    BY <1>1, <1>3, <2>1, <2>2 DEF OneExtracts
  <2>. QED  BY <2>3, <2>4
<1>4. CASE VF!Go(c, "ended") /\ UNCHANGED dir
  BY <1>1, <1>4, FramesStays DEF FrameTypes
<1>. QED  BY <1>2, <1>3, <1>4 DEF VF!Extract

LEMMA FramesList ==
    ASSUME FramesInv, NEW c \in Commands, VF!List(c)
    PROVE  FrameTypes' /\ OneExtracts'
<1>1. /\ FrameTypes /\ OneExtracts /\ UNCHANGED <<dir, manifest, overlapped>>
      /\ step[c] = "list" /\ c \in VF!Extracting
      /\ got' = [got EXCEPT ![c] = dir] /\ VF!Go(c, "mark")
  BY DEF FramesInv, VF!List, VF!Extracting
<1>2. /\ step' \in [Commands -> FrameSteps]
      /\ step'[c] = "mark" /\ \A d \in Commands \ {c} : step'[d] = step[d]
      /\ VF!Extracting' = VF!Extracting \cup {c}
  BY <1>1, FramesGo DEF FrameSteps
<1>3. /\ got' \in [Commands -> SUBSET VF!All] /\ got'[c] = dir
      /\ \A d \in Commands \ {c} : got'[d] = got[d]
  BY <1>1 DEF FrameTypes
<1>4. FrameTypes'
  BY <1>1, <1>2, <1>3 DEF FrameTypes
<1>5. OneExtracts'
  BY <1>1, <1>2, <1>3 DEF OneExtracts
<1>. QED  BY <1>4, <1>5

LEMMA FramesMark ==
    ASSUME FramesInv, NEW c \in Commands, VF!Mark(c)
    PROVE  FrameTypes' /\ OneExtracts'
<1>1. /\ FrameTypes /\ OneExtracts /\ UNCHANGED <<dir, got, overlapped>>
      /\ step[c] = "mark" /\ c \in VF!Extracting /\ manifest' = TRUE
  BY DEF FramesInv, VF!Mark, VF!Extracting
<1>2. PICK there \in {"ended", "select"} : VF!Go(c, there)
  BY DEF VF!Mark
<1>3. /\ step' \in [Commands -> FrameSteps]
      /\ step'[c] = there /\ \A d \in Commands \ {c} : step'[d] = step[d]
      /\ VF!Extracting' = VF!Extracting \ {c}
  BY <1>1, <1>2, FramesGo DEF FrameSteps
<1>4. FrameTypes'
  BY <1>1, <1>3 DEF FrameTypes
<1>5. ~overlapped => dir = VF!All /\ got[c] = VF!All /\ VF!Extracting' = {}
  BY <1>1, <1>3 DEF OneExtracts
<1>6. OneExtracts'
  BY <1>1, <1>2, <1>3, <1>5 DEF OneExtracts
<1>. QED  BY <1>4, <1>6

LEMMA FramesKill ==
    ASSUME FramesInv, NEW c \in Commands, VF!Kill(c)
    PROVE  FrameTypes' /\ OneExtracts'
BY FramesStays DEF FramesInv, FrameTypes, VF!Kill

LEMMA FramesAgain ==
    ASSUME FramesInv, NEW c \in Commands, VF!Again(c)
    PROVE  FrameTypes' /\ OneExtracts'
<1>1. got \in [Commands -> SUBSET VF!All] /\ got' = [got EXCEPT ![c] = {}]
  BY DEF FramesInv, FrameTypes, VF!Again
<1>2. got' \in [Commands -> SUBSET VF!All] /\ \A d \in Commands \ {c} : got'[d] = got[d]
  BY <1>1
<1>. QED  BY <1>2, FramesStays DEF VF!Again

LEMMA FramesSelect ==
    ASSUME FramesInv, NEW c \in Commands, VF!Select(c)
    PROVE  FramesInv'
<1>1. FrameTypes' /\ OneExtracts'
  BY FramesStays DEF FramesInv, FrameTypes, VF!Select
<1>2. /\ FrameTypes /\ OneExtracts /\ step[c] = "select"
      /\ selection'.frames = got[c] /\ UNCHANGED overlapped
  BY DEF FramesInv, VF!Select
<1>3. SelectsFromAll'
  BY <1>2 DEF SelectsFromAll, VF!FramesAreComplete, OneExtracts, FrameTypes, VF!All
<1>. QED  BY <1>1, <1>3 DEF FramesInv

LEMMA FramesStep == FramesInv /\ [Next]_vars => FramesInv'
<1> SUFFICES ASSUME FramesInv, [Next]_vars
             PROVE  FramesInv'
  OBVIOUS
<1>1. CASE VF!Next
  <2>1. PICK c \in Commands :
          \/ /\ \/ VF!Look(c) \/ VF!Clear(c) \/ VF!Extract(c) \/ VF!List(c)
                \/ VF!Mark(c) \/ VF!Kill(c) \/ VF!Again(c)
             /\ selection' = VF!NoSelection
          \/ VF!Select(c)
    BY <1>1 DEF VF!Next
  <2>2. CASE VF!Select(c)
    BY <2>2, FramesSelect
  <2>3. CASE selection' = VF!NoSelection
    <3>1. FrameTypes' /\ OneExtracts'
      BY <2>1, <2>2, FramesLook, FramesClear, FramesExtract, FramesList, FramesMark,
         FramesKill, FramesAgain DEF FramesInv
    <3>. QED  BY <2>3, <3>1, FramesQuiet DEF FramesInv
  <2>. QED  BY <2>1, <2>2, <2>3
<1>2. CASE UNCHANGED framesVars
  <2>1. UNCHANGED <<dir, manifest, step, got, selection, overlapped>>
    BY <1>2 DEF framesVars
  <2>2. FrameTypes'
    BY <2>1 DEF FramesInv, FrameTypes
  <2>3. OneExtracts'
    BY <2>1 DEF FramesInv, OneExtracts, VF!Extracting
  <2>4. SelectsFromAll'
    BY <2>1 DEF FramesInv, SelectsFromAll, VF!FramesAreComplete
  <2>. QED  BY <2>2, <2>3, <2>4 DEF FramesInv
<1>. QED  BY <1>1, <1>2 DEF Next, vars

-----------------------------------------------------------------------------
(* The interactive chat (ChatLoop).                                        *)

Messages == [role : {"user", "assistant", "tool"}, calls : Nat, answers : Nat,
             images : SUBSET Images]

\* The calls of a message are followed by their results, in their order, and no others.
CallsFollowed(t, i) ==
    /\ i + t[i].calls <= Len(t)
    /\ \A k \in 1 .. t[i].calls : t[i + k].role = "tool" /\ t[i + k].answers = k
    /\ i + t[i].calls < Len(t) => t[i + t[i].calls + 1].role # "tool"

WholeTalk(t) ==
    /\ t # <<>> => t[1].role # "tool"
    /\ \A i \in 1 .. Len(t) : t[i].role # "tool" => CallsFollowed(t, i)

\* A talk in the middle of the calls of message s: those of td are still to be executed.
InCallsOf(t, td, s) ==
    /\ t[1].role # "tool" /\ t[s].role = "assistant"
    /\ t[s].calls = (Len(t) - s) + Len(td) /\ td # <<>>
    /\ \A k \in 1 .. Len(td) : td[k] = (Len(t) - s) + k
    /\ \A k \in 1 .. Len(t) - s : t[s + k].role = "tool" /\ t[s + k].answers = k
    /\ \A i \in 1 .. s - 1 : t[i].role # "tool" =>
         /\ i + t[i].calls < s /\ t[i + t[i].calls + 1].role # "tool"
         /\ \A k \in 1 .. t[i].calls : t[i + k].role = "tool" /\ t[i + k].answers = k

InCalls(t, td) == \E s \in 1 .. Len(t) : InCallsOf(t, td, s)

LEMMA QueueEnds ==
    ASSUME NEW S, NEW q \in Seq(S), NEW x \in S
    PROVE  /\ Append(q, x) \in Seq(S) /\ Len(Append(q, x)) = Len(q) + 1
           /\ \A i \in 1 .. Len(q) : Append(q, x)[i] = q[i]
           /\ Append(q, x)[Len(q) + 1] = x
           /\ Len(q) \in Nat /\ DOMAIN q = 1 .. Len(q)
OBVIOUS

LEMMA QueueBegins ==
    ASSUME NEW S, NEW q \in Seq(S), q # <<>>
    PROVE  /\ Len(q) \in Nat \ {0} /\ Head(q) = q[1] /\ Head(q) \in S
           /\ Tail(q) \in Seq(S) /\ Len(Tail(q)) = Len(q) - 1
           /\ \A i \in 1 .. Len(q) - 1 : Tail(q)[i] = q[i + 1]
           /\ Tail(q) # <<>> <=> Len(q) > 1
<1>1. /\ Len(q) \in Nat \ {0} /\ Head(q) = q[1] /\ Head(q) \in S
      /\ Tail(q) \in Seq(S) /\ Len(Tail(q)) = Len(q) - 1
      /\ \A i \in 1 .. Len(q) - 1 : Tail(q)[i] = q[i + 1]
  OBVIOUS
<1>2. \A r \in Seq(S) : r = <<>> <=> Len(r) = 0
  OBVIOUS
<1>3. Tail(q) = <<>> <=> Len(q) - 1 = 0
  BY <1>1, <1>2, Zenon
<1>. QED  BY <1>1, <1>3

\* A message put at the end of a talk.
LEMMA TalkEnds ==
    ASSUME NEW t \in Seq(Messages), NEW m \in Messages
    PROVE  /\ Append(t, m) \in Seq(Messages) /\ Len(Append(t, m)) = Len(t) + 1
           /\ \A i \in 1 .. Len(t) : Append(t, m)[i] = t[i]
           /\ Append(t, m)[Len(t) + 1] = m
           /\ Append(t, m) # <<>> /\ DOMAIN Append(t, m) = 1 .. Len(t) + 1
           /\ Len(t) \in Nat /\ DOMAIN t = 1 .. Len(t)
           /\ \A i \in 1 .. Len(t) : t[i] \in Messages /\ t[i].calls \in Nat
<1>1. /\ Append(t, m) \in Seq(Messages) /\ Len(Append(t, m)) = Len(t) + 1
      /\ \A i \in 1 .. Len(t) : Append(t, m)[i] = t[i]
      /\ Append(t, m)[Len(t) + 1] = m
      /\ Append(t, m) # <<>> /\ DOMAIN Append(t, m) = 1 .. Len(t) + 1
      /\ Len(t) \in Nat /\ DOMAIN t = 1 .. Len(t)
      /\ \A i \in 1 .. Len(t) : t[i] \in Messages
  OBVIOUS
<1>2. \A x \in Messages : x.calls \in Nat
  BY DEF Messages
<1>. QED  BY <1>1, <1>2

LEMMA TalkGoesOn ==
    ASSUME NEW t \in Seq(Messages), NEW m \in Messages, WholeTalk(t),
           m.role # "tool", m.calls = 0
    PROVE  WholeTalk(Append(t, m))
<1>. DEFINE u == Append(t, m)
<1>1. /\ u \in Seq(Messages) /\ Len(u) = Len(t) + 1 /\ Len(t) \in Nat
      /\ \A i \in 1 .. Len(t) : u[i] = t[i] /\ t[i].calls \in Nat
      /\ u[Len(t) + 1] = m
  BY TalkEnds
<1>. HIDE DEF u
<1>2. u[1].role # "tool"
  <2>1. CASE t = <<>>
    BY <1>1, <2>1
  <2>2. CASE t # <<>>
    <3>1. 1 \in 1 .. Len(t)
      BY <2>2
    <3>. QED  BY <1>1, <2>2, <3>1 DEF WholeTalk
  <2>. QED  BY <2>1, <2>2
<1>3. ASSUME NEW i \in 1 .. Len(t) + 1, u[i].role # "tool"
      PROVE  CallsFollowed(u, i)
  <2>1. CASE i = Len(t) + 1
    BY <1>1, <2>1 DEF CallsFollowed
  <2>2. CASE i # Len(t) + 1
    <3>1. i \in 1 .. Len(t) /\ u[i] = t[i] /\ t[i].calls \in Nat
      BY <1>1, <1>3, <2>2
    <3>2. CallsFollowed(t, i)
      BY <1>3, <3>1 DEF WholeTalk
    <3>3. PICK n \in Nat : n = t[i].calls
      BY <3>1
    <3>4. /\ i + n <= Len(t)
          /\ \A k \in 1 .. n : t[i + k].role = "tool" /\ t[i + k].answers = k
          /\ i + n < Len(t) => t[i + n + 1].role # "tool"
      BY <3>2, <3>3, Zenon DEF CallsFollowed
    <3>5. \A k \in 1 .. n : u[i + k] = t[i + k]
      BY <1>1, <3>1, <3>4
    <3>6. i + n + 1 <= Len(t) => u[i + n + 1] = t[i + n + 1]
      BY <1>1, <3>1
    <3>7. u[i + n + 1].role # "tool"
      <4>1. CASE i + n < Len(t)
        BY <1>1, <3>1, <3>4, <3>6, <4>1
      <4>2. CASE i + n = Len(t)
        BY <1>1, <4>2, Zenon
      <4>. QED  BY <1>1, <3>1, <3>4, <4>1, <4>2
    <3>8. i + n <= Len(u) /\ u[i].calls = n
      BY <1>1, <3>1, <3>3, <3>4
    <3>9. \A k \in 1 .. n : u[i + k].role = "tool" /\ u[i + k].answers = k
      BY <3>4, <3>5, Zenon
    <3>. QED  BY <3>7, <3>8, <3>9 DEF CallsFollowed
  <2>. QED  BY <2>1, <2>2
<1>. QED  BY <1>1, <1>2, <1>3 DEF WholeTalk, u

LEMMA TalkCalls ==
    ASSUME NEW t \in Seq(Messages), NEW m \in Messages, WholeTalk(t),
           m.role = "assistant", NEW n \in Nat \ {0}, m.calls = n
    PROVE  InCalls(Append(t, m), [i \in 1 .. n |-> i])
<1>. DEFINE u == Append(t, m)
            td == [i \in 1 .. n |-> i]
            s == Len(t) + 1
<1>1. /\ u \in Seq(Messages) /\ Len(u) = Len(t) + 1 /\ Len(t) \in Nat
      /\ \A i \in 1 .. Len(t) : u[i] = t[i] /\ t[i].calls \in Nat
      /\ u[Len(t) + 1] = m
  BY TalkEnds
<1>2. td \in Seq(Nat) /\ Len(td) = n /\ td # <<>> /\ \A k \in 1 .. n : td[k] = k
  OBVIOUS
<1>. HIDE DEF u, td
<1>3. u[1].role # "tool"
  <2>1. CASE t = <<>>
    BY <1>1, <2>1
  <2>2. CASE t # <<>>
    <3>1. 1 \in 1 .. Len(t)
      BY <2>2
    <3>. QED  BY <1>1, <2>2, <3>1 DEF WholeTalk
  <2>. QED  BY <2>1, <2>2
<1>4. ASSUME NEW i \in 1 .. s - 1, u[i].role # "tool"
      PROVE  /\ i + u[i].calls < s /\ u[i + u[i].calls + 1].role # "tool"
             /\ \A k \in 1 .. u[i].calls : u[i + k].role = "tool" /\ u[i + k].answers = k
  <2>1. i \in 1 .. Len(t) /\ u[i] = t[i] /\ t[i].calls \in Nat
    BY <1>1, <1>4
  <2>2. CallsFollowed(t, i)
    BY <1>4, <2>1 DEF WholeTalk
  <2>3. PICK c \in Nat : c = t[i].calls
    BY <2>1
  <2>4. /\ i + c <= Len(t)
        /\ \A k \in 1 .. c : t[i + k].role = "tool" /\ t[i + k].answers = k
        /\ i + c < Len(t) => t[i + c + 1].role # "tool"
    BY <2>2, <2>3 DEF CallsFollowed
  <2>5. \A k \in 1 .. c : u[i + k] = t[i + k]
    BY <1>1, <2>1, <2>4
  <2>6. u[i + c + 1].role # "tool"
    <3>1. CASE i + c < Len(t)
      <4>1. u[i + c + 1] = t[i + c + 1]
        BY <1>1, <2>1, <3>1
      <4>. QED  BY <2>4, <3>1, <4>1
    <3>2. CASE i + c = Len(t)
      BY <1>1, <3>2, Zenon
    <3>. QED  BY <1>1, <2>1, <2>4, <3>1, <3>2
  <2>7. i + c < s
    BY <1>1, <2>1, <2>4
  <2>. QED  BY <2>1, <2>3, <2>4, <2>5, <2>6, <2>7, Zenon
<1>5. s \in 1 .. Len(u) /\ Len(u) - s = 0
  BY <1>1
<1>6. InCallsOf(u, td, s)
  <2>1. u[s].role = "assistant" /\ u[s].calls = (Len(u) - s) + Len(td)
    BY <1>1, <1>2, <1>5
  <2>2. \A k \in 1 .. Len(td) : td[k] = (Len(u) - s) + k
    BY <1>2, <1>5
  <2>3. \A k \in 1 .. Len(u) - s : u[s + k].role = "tool" /\ u[s + k].answers = k
    BY <1>5
  <2>. HIDE DEF s
  <2>. QED  BY <1>2, <1>3, <1>4, <2>1, <2>2, <2>3 DEF InCallsOf
<1>. QED  BY <1>5, <1>6 DEF InCalls, u, td

\* A result goes on with the calls, or ends them.
LEMMA TalkAnswers ==
    ASSUME NEW t \in Seq(Messages), NEW m \in Messages, NEW td \in Seq(Nat), InCalls(t, td),
           m.role = "tool", m.answers = Head(td)
    PROVE  IF Tail(td) # <<>> THEN InCalls(Append(t, m), Tail(td)) ELSE WholeTalk(Append(t, m))
<1>. DEFINE u == Append(t, m)
            rest == Tail(td)
<1>1. /\ u \in Seq(Messages) /\ Len(u) = Len(t) + 1 /\ Len(t) \in Nat
      /\ \A i \in 1 .. Len(t) : u[i] = t[i] /\ t[i].calls \in Nat
      /\ u[Len(t) + 1] = m
  BY TalkEnds
<1>2. PICK s \in 1 .. Len(t) : InCallsOf(t, td, s)
  BY DEF InCalls
<1>3. /\ t[1].role # "tool" /\ t[s].role = "assistant"
      /\ t[s].calls = (Len(t) - s) + Len(td) /\ td # <<>>
      /\ \A k \in 1 .. Len(td) : td[k] = (Len(t) - s) + k
      /\ \A k \in 1 .. Len(t) - s : t[s + k].role = "tool" /\ t[s + k].answers = k
      /\ \A i \in 1 .. s - 1 : t[i].role # "tool" =>
           /\ i + t[i].calls < s /\ t[i + t[i].calls + 1].role # "tool"
           /\ \A k \in 1 .. t[i].calls : t[i + k].role = "tool" /\ t[i + k].answers = k
  BY <1>2, Zenon DEF InCallsOf
<1>4. /\ Len(td) \in Nat \ {0} /\ Head(td) = td[1]
      /\ rest \in Seq(Nat) /\ Len(rest) = Len(td) - 1
      /\ \A k \in 1 .. Len(td) - 1 : rest[k] = td[k + 1]
      /\ rest # <<>> <=> Len(td) > 1
  BY <1>3, QueueBegins
<1>. HIDE DEF u, rest
<1>12. s \in Nat \ {0} /\ Len(t) - s \in Nat /\ Len(t) = s + (Len(t) - s)
  BY <1>1
<1>5. PICK n \in Nat, l \in Nat, d \in Nat \ {0} :
        n = Len(t) - s /\ l = Len(t) /\ d = Len(td) /\ l = s + n /\ s \in Nat \ {0}
  BY <1>1, <1>4, <1>12, Zenon
<1>6. m.answers = n + 1
  BY <1>3, <1>4, <1>5
<1>7. \A k \in 1 .. n + 1 : u[s + k].role = "tool" /\ u[s + k].answers = k
  <2> SUFFICES ASSUME NEW k \in 1 .. n + 1
               PROVE  u[s + k].role = "tool" /\ u[s + k].answers = k
    OBVIOUS
  <2>1. CASE k = n + 1
    <3>1. s + k = l + 1
      BY <1>5, <2>1
    <3>. QED  BY <1>1, <1>5, <1>6, <2>1, <3>1
  <2>2. CASE k # n + 1
    <3>1. k \in 1 .. n /\ s + k \in 1 .. l
      BY <1>5, <2>2
    <3>. QED  BY <1>1, <1>3, <1>5, <3>1
  <2>. QED  BY <2>1, <2>2
<1>8. ASSUME NEW i \in 1 .. s - 1, u[i].role # "tool"
      PROVE  /\ u[i].calls \in Nat /\ i + u[i].calls < s /\ u[i + u[i].calls + 1].role # "tool"
             /\ \A k \in 1 .. u[i].calls : u[i + k].role = "tool" /\ u[i + k].answers = k
  <2>1. i \in 1 .. l /\ u[i] = t[i] /\ t[i].calls \in Nat
    BY <1>1, <1>5
  <2>2. PICK c \in Nat : c = t[i].calls
    BY <2>1
  <2>3. /\ i + c < s /\ t[i + c + 1].role # "tool"
        /\ \A k \in 1 .. c : t[i + k].role = "tool" /\ t[i + k].answers = k
    BY <1>3, <1>8, <2>1, <2>2
  <2>4. i + c + 1 \in 1 .. l /\ \A k \in 1 .. c : i + k \in 1 .. l
    BY <1>5, <2>3
  <2>. QED  BY <1>1, <1>5, <2>1, <2>2, <2>3, <2>4
<1>9. /\ u[1] = t[1] /\ u[s] = t[s] /\ u[s].role = "assistant" /\ u[s].calls = n + d
      /\ u[1].role # "tool"
  BY <1>1, <1>3, <1>5
<1>10. CASE rest # <<>>
  <2>1. d > 1 /\ Len(rest) = d - 1
    BY <1>4, <1>5, <1>10
  <2>2. Len(u) - s = n + 1 /\ s \in 1 .. Len(u)
    BY <1>1, <1>5
  <2>3. u[s].calls = (Len(u) - s) + Len(rest)
    <3>1. n + d = (n + 1) + (d - 1)
      BY <1>5
    <3>. QED  BY <1>9, <2>1, <2>2, <3>1, Zenon
  <2>4. \A k \in 1 .. Len(rest) : rest[k] = (Len(u) - s) + k
    <3> SUFFICES ASSUME NEW k \in 1 .. d - 1 PROVE rest[k] = (n + 1) + k
      BY <2>1, <2>2, Zenon
    <3>1. k + 1 \in 1 .. d /\ k \in Nat
      BY <1>5
    <3>2. td[k + 1] = n + (k + 1)
      BY <1>3, <1>5, <3>1
    <3>. QED  BY <1>4, <1>5, <3>1, <3>2
  <2>5. InCallsOf(u, rest, s)
    BY <1>7, <1>8, <1>9, <1>10, <2>2, <2>3, <2>4, Zenon DEF InCallsOf
  <2>. QED  BY <1>10, <2>2, <2>5 DEF InCalls, u, rest
<1>11. CASE rest = <<>>
  <2>1. d = 1
    BY <1>4, <1>5, <1>11
  <2>2. u[s].calls = n + 1 /\ s + (n + 1) = l + 1 /\ Len(u) = l + 1
    BY <1>1, <1>5, <1>9, <2>1
  <2>3. ASSUME NEW i \in 1 .. Len(u), u[i].role # "tool"
        PROVE  CallsFollowed(u, i)
    <3>1. CASE i < s
      <4>1. i \in 1 .. s - 1
        BY <1>5, <2>2, <3>1
      <4>2. PICK c \in Nat : c = u[i].calls
        BY <1>8, <2>3, <4>1
      <4>3. /\ i + c < s /\ u[i + c + 1].role # "tool"
            /\ \A k \in 1 .. c : u[i + k].role = "tool" /\ u[i + k].answers = k
        BY <1>8, <2>3, <4>1, <4>2
      <4>4. i + c <= Len(u)
        BY <1>5, <2>2, <4>1, <4>3
      <4>. QED  BY <4>2, <4>3, <4>4 DEF CallsFollowed
    <3>2. CASE i = s
      BY <1>5, <1>7, <2>2, <3>2 DEF CallsFollowed
    <3>3. CASE i > s
      <4>1. i - s \in 1 .. n + 1 /\ s + (i - s) = i
        BY <1>5, <2>2, <3>3
      <4>. QED  BY <1>7, <2>3, <4>1
    <3>. QED  BY <1>5, <2>2, <3>1, <3>2, <3>3
  <2>. QED  BY <1>9, <1>11, <2>3, Zenon DEF WholeTalk, u, rest
<1>. QED  BY <1>10, <1>11 DEF rest

\* What the results of a message are, as the property counts them.
LEMMA ResultsAreCalls ==
    ASSUME turns \in Seq(Messages), WholeTalk(turns),
           NEW i \in 1 .. Len(turns), turns[i].role # "tool"
    PROVE  /\ CL!Results(i) = turns[i].calls
           /\ \A k \in 1 .. turns[i].calls : turns[i + k].answers = k
<1>1. CallsFollowed(turns, i)
  BY DEF WholeTalk
<1>2. PICK l \in Nat, c \in Nat : l = Len(turns) /\ c = turns[i].calls
  <2>1. turns[i] \in Messages /\ Len(turns) \in Nat
    OBVIOUS
  <2>2. turns[i].calls \in Nat
    BY <2>1 DEF Messages
  <2>. QED  BY <2>1, <2>2
<1>3. /\ i \in Nat /\ i + c <= l /\ c \in 0 .. l - i
      /\ \A k \in 1 .. c : turns[i + k].role = "tool" /\ turns[i + k].answers = k
      /\ i + c < l => turns[i + c + 1].role # "tool"
  <2>1. i \in Nat /\ i + c <= l
    BY <1>1, <1>2 DEF CallsFollowed
  <2>. QED  BY <1>1, <1>2, <2>1 DEF CallsFollowed
<1>. DEFINE Fits(n) ==
       /\ \A j \in i + 1 .. i + n : turns[j].role = "tool"
       /\ i + n = Len(turns) \/ turns[i + n + 1].role # "tool"
<1>4. Fits(c)
  <2>1. ASSUME NEW j \in i + 1 .. i + c PROVE turns[j].role = "tool"
    <3>1. j - i \in 1 .. c /\ i + (j - i) = j
      BY <1>3
    <3>. QED  BY <1>3, <3>1, Zenon
  <2>2. i + c = Len(turns) \/ turns[i + c + 1].role # "tool"
    BY <1>2, <1>3
  <2>. QED  BY <2>1, <2>2
<1>5. ASSUME NEW n \in 0 .. l - i, Fits(n)
      PROVE  n = c
  <2>1. CASE n < c
    <3>1. n + 1 \in 1 .. c /\ i + (n + 1) = i + n + 1 /\ i + n # l
      BY <1>3, <2>1
    <3>2. turns[i + n + 1].role = "tool"
      BY <1>3, <3>1, Zenon
    <3>. QED  BY <1>2, <1>5, <3>1, <3>2
  <2>2. CASE n > c
    <3>1. i + c + 1 \in i + 1 .. i + n /\ i + c < l
      BY <1>3, <2>2
    <3>. QED  BY <1>3, <1>5, <3>1
  <2>. QED  BY <1>3, <2>1, <2>2
<1>6. CL!Results(i) = CHOOSE n \in 0 .. l - i : Fits(n)
  BY <1>2 DEF CL!Results
<1>. HIDE DEF Fits
<1>7. CL!Results(i) = c
  BY <1>3, <1>4, <1>5, <1>6
<1>. QED  BY <1>2, <1>3, <1>7

ChatTypes ==
    /\ chatKind \in {"resident", "coding", "native"}
    /\ chatAt \in {"reading", "asking", "running", "left"}
    /\ turns \in Seq(Messages) /\ before \in Seq(Messages)
    /\ turnStart \in Nat /\ todo \in Seq(Nat) /\ failed \in BOOLEAN
    /\ round \in 0 .. MaxToolRounds /\ retries \in 0 .. 3

ShellTypes ==
    /\ active \subseteq Images /\ permission \in CL!Modes /\ others \in BOOLEAN
    /\ file \in Contents \cup {CL!Absent} /\ atStart \in Contents \cup {CL!Absent}
    /\ original \in Contents \cup {CL!Absent, CL!NotKept}

Asks == chatAt \in {"asking", "running"}

\* The history can be followed, but for the calls that are being executed.
TalkIsWhole ==
    /\ chatAt \in {"reading", "asking"} => WholeTalk(turns)
    /\ chatAt = "asking" => /\ turns # <<>>
                            /\ turns[Len(turns)].role \in {"user", "tool"}
    /\ chatAt = "running" => InCalls(turns, todo)
    /\ Asks => round < MaxToolRounds

\* The turn begins with what the user said, after a history that was whole.
TurnCanBeUndone ==
    Asks =>
       /\ ~failed /\ turnStart < Len(turns) /\ Len(before) = turnStart
       /\ \A i \in 1 .. turnStart : before[i] = turns[i]
       /\ WholeTalk(before) /\ turns[turnStart + 1].role = "user"

FailedIsUndone == failed /\ chatAt = "reading" => turns = before

ImagesStayOut == chatKind # "native" => \A i \in 1 .. Len(turns) : turns[i].images = {}

\* What is kept of a file is what it was when the session began.
OriginalsAreKept ==
    ~others => \/ original = CL!NotKept /\ file = atStart
               \/ original = atStart

ChatInv ==
    /\ ChatTypes /\ ShellTypes /\ TalkIsWhole /\ TurnCanBeUndone /\ FailedIsUndone
    /\ ImagesStayOut /\ OriginalsAreKept

LEMMA ChatInit == Init => ChatInv
<1> SUFFICES ASSUME Init PROVE ChatInv
  OBVIOUS
<1>0. CL!Init
  BY DEF Init
<1>1. turns = <<>> /\ before = <<>> /\ todo = <<>> /\ Len(<<>>) = 0
  BY <1>0 DEF CL!Init
<1>2. turns \in Seq(Messages) /\ before \in Seq(Messages) /\ todo \in Seq(Nat)
  BY <1>1
<1>3. failed \in BOOLEAN /\ others \in BOOLEAN
  BY <1>0, Zenon DEF CL!Init
<1>4. ChatTypes /\ ShellTypes
  <2>1. /\ chatKind \in {"resident", "coding", "native"} /\ chatAt = "reading"
        /\ turnStart = 0 /\ round = 0 /\ retries = 0 /\ active = {}
        /\ permission = "manual" /\ file \in Contents \cup {CL!Absent} /\ atStart = file
        /\ original = CL!NotKept
    BY <1>0 DEF CL!Init
  <2>2. ChatTypes
    <3>. MaxToolRounds \in Nat
      BY ChatAssumption
    <3>1. 0 \in 0 .. MaxToolRounds /\ 0 \in 0 .. 3 /\ 0 \in Nat
      OBVIOUS
    <3>2. chatAt \in {"reading", "asking", "running", "left"}
      BY <2>1
    <3>3. round \in 0 .. MaxToolRounds /\ retries \in 0 .. 3 /\ turnStart \in Nat
      BY <2>1, <3>1, Zenon
    <3>. QED  BY <1>2, <1>3, <2>1, <3>2, <3>3, Zenon DEF ChatTypes
  <2>. QED  BY <1>3, <2>1, <2>2 DEF ShellTypes, CL!Modes
<1>5. TalkIsWhole
  BY <1>0, <1>1 DEF CL!Init, TalkIsWhole, WholeTalk, Asks
<1>6. TurnCanBeUndone /\ FailedIsUndone
  BY <1>0, <1>1 DEF CL!Init, TurnCanBeUndone, FailedIsUndone, Asks
<1>7. ImagesStayOut /\ OriginalsAreKept
  BY <1>0, <1>1 DEF CL!Init, ImagesStayOut, OriginalsAreKept
<1>. QED  BY <1>4, <1>5, <1>6, <1>7 DEF ChatInv

\* The last message of the user is one, and there is one in a turn.
LEMMA LastUserIsThere ==
    ASSUME ChatInv, Asks
    PROVE  CL!LastUser \in 1 .. Len(turns)
<1>. DEFINE S == {n \in 0 .. Len(turns) : n < Len(turns) /\ turns[Len(turns) - n].role = "user"}
            l == Len(turns)
<1>1. /\ l \in Nat /\ DOMAIN turns = 1 .. l /\ turnStart \in Nat /\ turnStart < l
      /\ turns[turnStart + 1].role = "user"
  BY DEF ChatInv, ChatTypes, TurnCanBeUndone
<1>. HIDE DEF l
<1>2. l - (turnStart + 1) \in S
  <2>1. l - (turnStart + 1) \in 0 .. l /\ l - (l - (turnStart + 1)) = turnStart + 1
    BY <1>1
  <2>. QED  BY <1>1, <2>1 DEF l
<1>3. PICK m \in S : \A y \in S : m <= y
  <2>1. S \subseteq Nat
    OBVIOUS
  <2>. HIDE DEF S
  <2>. QED  BY <1>2, <2>1, MinOfNaturals, Zenon
<1>4. m \in Nat /\ m < l /\ l - m \in 1 .. l /\ turns[l - m].role = "user"
  BY <1>1, <1>3 DEF l
<1>5. ASSUME NEW j \in 1 .. l, turns[j].role = "user"
      PROVE  j <= l - m
  <2>1. l - j \in 0 .. l /\ l - (l - j) = j /\ l - j < l
    BY <1>1
  <2>2. l - j \in S
    BY <1>5, <2>1 DEF l
  <2>3. m <= l - j
    BY <1>3, <2>2
  <2>. QED  BY <1>1, <1>4, <2>3
<1>. HIDE DEF S
<1>6. \E i \in DOMAIN turns :
        turns[i].role = "user" /\ \A j \in DOMAIN turns : turns[j].role = "user" => j <= i
  BY <1>1, <1>4, <1>5, Zenon
<1>7. CL!LastUser \in DOMAIN turns
  BY <1>6 DEF CL!LastUser
<1>. QED  BY <1>1, <1>7 DEF l

LEMMA ChatHolds ==
    ASSUME ChatInv
    PROVE  /\ CL!TypeOK /\ CL!HistoryIsWhole /\ CL!FailureLeavesNoTurn
           /\ CL!ChangesAreShown /\ CL!ImagesAreSent
<1>1. CL!TypeOK
  BY DEF ChatInv, ChatTypes, ShellTypes, CL!TypeOK
<1>2. CL!HistoryIsWhole
  <2> SUFFICES ASSUME chatAt = "asking"
               PROVE  /\ turns[Len(turns)].role \in {"user", "tool"}
                      /\ \A i \in DOMAIN turns :
                           /\ turns[i].role # "tool" =>
                                /\ CL!Results(i) = turns[i].calls
                                /\ \A k \in 1 .. CL!Results(i) : turns[i + k].answers = k
                           /\ turns[i].role = "tool" => i > 1
    BY DEF CL!HistoryIsWhole
  <2>1. /\ turns \in Seq(Messages) /\ WholeTalk(turns) /\ DOMAIN turns = 1 .. Len(turns)
        /\ turns[Len(turns)].role \in {"user", "tool"} /\ turns # <<>>
    BY DEF ChatInv, ChatTypes, TalkIsWhole
  <2>2. turns[Len(turns)].role \in {"user", "tool"}
    BY <2>1
  <2>3. ASSUME NEW i \in DOMAIN turns, turns[i].role = "tool"
        PROVE  i > 1
    BY <2>1, <2>3 DEF WholeTalk
  <2>4. ASSUME NEW i \in DOMAIN turns, turns[i].role # "tool"
        PROVE  /\ CL!Results(i) = turns[i].calls
               /\ \A k \in 1 .. CL!Results(i) : turns[i + k].answers = k
    BY <2>1, <2>4, ResultsAreCalls
  <2>. QED  BY <2>2, <2>3, <2>4
<1>3. CL!FailureLeavesNoTurn
  BY DEF ChatInv, FailedIsUndone, CL!FailureLeavesNoTurn
<1>4. CL!ChangesAreShown
  <2>1. atStart # CL!NotKept
    BY ChatAssumption DEF ChatInv, ShellTypes, CL!Absent, CL!NotKept
  <2>. QED  BY <2>1 DEF ChatInv, OriginalsAreKept, CL!ChangesAreShown, CL!SessionDiff
<1>5. CL!ImagesAreSent
  <2> SUFFICES ASSUME chatAt = "asking", chatKind # "native"
               PROVE  /\ UNION {CL!Sent[i].images : i \in DOMAIN CL!Sent} = active
                      /\ CL!Cardinality({i \in DOMAIN CL!Sent : CL!Sent[i].images # {}}) <= 1
    BY DEF CL!ImagesAreSent
  <2>1. /\ turns \in Seq(Messages) /\ DOMAIN turns = 1 .. Len(turns)
        /\ \A i \in 1 .. Len(turns) : turns[i].images = {}
    BY DEF ChatInv, ChatTypes, ImagesStayOut
  <2>2. PICK u \in 1 .. Len(turns) : u = CL!LastUser
    BY LastUserIsThere DEF Asks
  <2>3. CL!Sent = [turns EXCEPT ![u].images = active]
    BY <2>2 DEF CL!Sent
  <2>4. /\ DOMAIN CL!Sent = 1 .. Len(turns) /\ CL!Sent[u].images = active
        /\ \A i \in 1 .. Len(turns) \ {u} : CL!Sent[i].images = {}
    BY <2>1, <2>3 DEF Messages
  <2>. DEFINE s == CL!Sent
  <2>. HIDE DEF s
  <2>5. UNION {s[i].images : i \in DOMAIN s} = active
    BY <2>2, <2>4 DEF s
  <2>6. {i \in DOMAIN s : s[i].images # {}} \subseteq {u}
    BY <2>4 DEF s
  <2>7. Cardinality({i \in DOMAIN s : s[i].images # {}}) <= 1
    <3>1. IsFiniteSet({u}) /\ Cardinality({u}) = 1
      BY FS_Singleton
    <3>. QED  BY <2>6, <3>1, FS_Subset
  <2>8. \A S : CL!Cardinality(S) = Cardinality(S)
    BY DEF CL!Cardinality, Cardinality
  <2>. QED  BY <2>5, <2>7, <2>8 DEF s
<1>. QED  BY <1>1, <1>2, <1>3, <1>4, <1>5

ChatTalk ==
    /\ ChatTypes /\ TalkIsWhole /\ TurnCanBeUndone /\ FailedIsUndone /\ ImagesStayOut

LEMMA ChatParts == ChatInv <=> ChatTalk /\ ShellTypes /\ OriginalsAreKept
BY DEF ChatInv, ChatTalk

LEMMA ChatTalkRests ==
    ASSUME ChatTalk,
           UNCHANGED <<chatKind, chatAt, turns, turnStart, before, round, retries, todo, failed>>
    PROVE  ChatTalk'
<1>1. ChatTypes' /\ ImagesStayOut' /\ FailedIsUndone'
  BY DEF ChatTalk, ChatTypes, ImagesStayOut, FailedIsUndone
<1>2. TalkIsWhole'
  BY DEF ChatTalk, TalkIsWhole, Asks
<1>3. TurnCanBeUndone'
  BY DEF ChatTalk, TurnCanBeUndone, Asks
<1>. QED  BY <1>1, <1>2, <1>3 DEF ChatTalk

LEMMA ChatShellRests ==
    ASSUME ShellTypes, OriginalsAreKept,
           UNCHANGED <<active, permission, file, original, others, atStart>>
    PROVE  ShellTypes' /\ OriginalsAreKept'
BY DEF ShellTypes, OriginalsAreKept

\* A message that is put at the end: who says it, and what it holds.
LEMMA NewMessage ==
    \A r \in {"user", "assistant", "tool"} :
       /\ CL!Message(r) \in Messages /\ CL!Message(r).role = r
       /\ CL!Message(r).calls = 0 /\ CL!Message(r).images = {}
BY DEF CL!Message, Messages

LEMMA MessageWith ==
    ASSUME NEW m \in Messages, NEW n \in Nat, NEW S \in SUBSET Images
    PROVE  /\ [m EXCEPT !.images = S] \in Messages /\ [m EXCEPT !.images = S].role = m.role
           /\ [m EXCEPT !.images = S].calls = m.calls /\ [m EXCEPT !.images = S].images = S
           /\ [m EXCEPT !.calls = n] \in Messages /\ [m EXCEPT !.calls = n].role = m.role
           /\ [m EXCEPT !.calls = n].calls = n /\ [m EXCEPT !.calls = n].images = m.images
           /\ [m EXCEPT !.answers = n] \in Messages /\ [m EXCEPT !.answers = n].role = m.role
           /\ [m EXCEPT !.answers = n].answers = n /\ [m EXCEPT !.answers = n].calls = m.calls
           /\ [m EXCEPT !.answers = n].images = m.images
BY DEF Messages

LEMMA ChatSay ==
    ASSUME ChatInv, CL!Say
    PROVE  ChatTalk'
<1>. DEFINE m == CL!SaidWithImages
<1>1. /\ chatAt = "reading" /\ chatAt' = "asking" /\ turns' = Append(turns, m)
      /\ turnStart' = Len(turns) /\ before' = turns /\ round' = 0 /\ retries' = 0
      /\ failed' = FALSE /\ UNCHANGED <<chatKind, todo>>
  BY DEF CL!Say
<1>2. ChatTypes /\ WholeTalk(turns) /\ ImagesStayOut /\ active \in SUBSET Images
  BY <1>1 DEF ChatInv, TalkIsWhole, ShellTypes
<1>3. m \in Messages /\ m.role = "user" /\ m.calls = 0 /\ (chatKind # "native" => m.images = {})
  <2>1. PICK S \in SUBSET Images : /\ chatKind # "native" => S = {}
                                  /\ m = [CL!Message("user") EXCEPT !.images = S]
    BY <1>2, Zenon DEF CL!SaidWithImages
  <2>2. PICK w \in Messages : w = CL!Message("user") /\ w.role = "user" /\ w.calls = 0
    BY NewMessage
  <2>3. m = [w EXCEPT !.images = S]
    BY <2>1, <2>2
  <2>. HIDE DEF m
  <2>4. /\ [w EXCEPT !.images = S] \in Messages /\ [w EXCEPT !.images = S].role = w.role
        /\ [w EXCEPT !.images = S].calls = w.calls /\ [w EXCEPT !.images = S].images = S
    <3>1. 0 \in Nat
      OBVIOUS
    <3>. QED  BY <3>1, MessageWith, Zenon
  <2>. QED  BY <2>1, <2>2, <2>3, <2>4
<1>. HIDE DEF m
<1>4. /\ turns' \in Seq(Messages) /\ Len(turns') = Len(turns) + 1
      /\ \A i \in 1 .. Len(turns) : turns'[i] = turns[i]
      /\ turns'[Len(turns) + 1] = m
      /\ Len(turns) \in Nat /\ turns' # <<>> /\ WholeTalk(turns')
  BY <1>1, <1>2, <1>3, TalkEnds, TalkGoesOn DEF ChatTypes
<1>5. ChatTypes'
  <2>. MaxToolRounds \in Nat
    BY ChatAssumption
  <2>1. failed' \in BOOLEAN
    BY <1>1, Zenon
  <2>2. round' \in 0 .. MaxToolRounds /\ retries' \in 0 .. 3
    BY <1>1
  <2>. QED  BY <1>1, <1>2, <1>4, <2>1, <2>2 DEF ChatTypes
<1>6. TalkIsWhole'
  <2>. MaxToolRounds \in Nat \ {0}
    BY ChatAssumption
  <2>. QED  BY <1>1, <1>3, <1>4 DEF TalkIsWhole, Asks
<1>7. TurnCanBeUndone' /\ FailedIsUndone'
  BY <1>1, <1>2, <1>3, <1>4 DEF TurnCanBeUndone, FailedIsUndone, Asks
<1>8. ImagesStayOut'
  BY <1>1, <1>2, <1>3, <1>4 DEF ImagesStayOut
<1>. QED  BY <1>5, <1>6, <1>7, <1>8 DEF ChatTalk

LEMMA ChatClear ==
    ASSUME ChatInv, CL!Clear
    PROVE  ChatTalk'
<1>1. /\ chatAt = "reading" /\ chatAt' = "reading" /\ turns' = <<>> /\ before' = <<>>
      /\ turnStart' = 0 /\ failed' = FALSE /\ UNCHANGED <<chatKind, todo, round, retries>>
  BY DEF CL!Clear
<1>2. turns' \in Seq(Messages) /\ before' \in Seq(Messages) /\ Len(turns') = 0
  BY <1>1
<1>3. ChatTypes'
  BY <1>1, <1>2, Zenon DEF ChatInv, ChatTypes
<1>4. TalkIsWhole' /\ TurnCanBeUndone' /\ FailedIsUndone' /\ ImagesStayOut'
  BY <1>1, <1>2 DEF TalkIsWhole, TurnCanBeUndone, FailedIsUndone, ImagesStayOut, Asks, WholeTalk
<1>. QED  BY <1>3, <1>4 DEF ChatTalk

LEMMA ChatLeave ==
    ASSUME ChatInv, CL!Leave
    PROVE  ChatTalk'
<1>1. /\ chatAt' = "left" /\ UNCHANGED <<chatKind, turns, turnStart, before>>
      /\ UNCHANGED <<round, retries, todo, failed>>
  BY DEF CL!Leave
<1>2. ChatTypes'
  BY <1>1 DEF ChatInv, ChatTypes
<1>3. TalkIsWhole' /\ TurnCanBeUndone' /\ FailedIsUndone' /\ ImagesStayOut'
  BY <1>1 DEF ChatInv, TalkIsWhole, TurnCanBeUndone, FailedIsUndone, ImagesStayOut, Asks
<1>. QED  BY <1>2, <1>3 DEF ChatTalk

\* What is left of the talk is what it was before.
LEMMA UndoneIsBefore ==
    ASSUME ChatInv, Asks
    PROVE  CL!Undone = before
<1>1. /\ turns \in Seq(Messages) /\ before \in Seq(Messages) /\ turnStart \in Nat
      /\ turnStart < Len(turns) /\ Len(before) = turnStart
      /\ \A i \in 1 .. turnStart : before[i] = turns[i]
  BY DEF ChatInv, ChatTypes, TurnCanBeUndone
<1>2. /\ SubSeq(turns, 1, turnStart) \in Seq(Messages)
      /\ Len(SubSeq(turns, 1, turnStart)) = turnStart
      /\ \A i \in 1 .. turnStart : SubSeq(turns, 1, turnStart)[i] = turns[i]
  BY <1>1
<1>3. SubSeq(turns, 1, turnStart) = before
  BY <1>1, <1>2, SeqEqual
<1>. QED  BY <1>3 DEF CL!Undone

LEMMA ChatFail ==
    ASSUME ChatInv, CL!Fail
    PROVE  ChatTalk'
<1>1. /\ chatAt = "asking" /\ Asks /\ failed' = TRUE /\ round' = 0 /\ retries' = 0
      /\ UNCHANGED <<chatKind, todo, turnStart, before>>
  BY DEF CL!Fail, Asks
<1>2. ChatTypes /\ WholeTalk(before) /\ Len(turns) > 0 /\ ImagesStayOut
  BY <1>1 DEF ChatInv, ChatTypes, TurnCanBeUndone
<1>3. round' \in 0 .. MaxToolRounds /\ retries' \in 0 .. 3 /\ failed' \in BOOLEAN
  <2>. MaxToolRounds \in Nat
    BY ChatAssumption
  <2>. QED  BY <1>1
<1>4. CASE chatKind = "native"
  <2>1. chatAt' = "left" /\ turns' = SubSeq(turns, 1, Len(turns) - 1)
    BY <1>4 DEF CL!Fail
  <2>2. turns' \in Seq(Messages)
    BY <1>2, <2>1 DEF ChatTypes
  <2>3. ChatTypes'
    BY <1>1, <1>2, <1>3, <2>1, <2>2 DEF ChatTypes
  <2>4. TalkIsWhole' /\ TurnCanBeUndone' /\ FailedIsUndone' /\ ImagesStayOut'
    BY <1>1, <1>4, <2>1 DEF TalkIsWhole, TurnCanBeUndone, FailedIsUndone, ImagesStayOut, Asks
  <2>. QED  BY <2>3, <2>4 DEF ChatTalk
<1>5. CASE chatKind # "native"
  <2>1. chatAt' = "reading" /\ turns' = before
    BY <1>1, <1>5, UndoneIsBefore DEF CL!Fail
  <2>2. ChatTypes'
    BY <1>1, <1>2, <1>3, <2>1 DEF ChatTypes
  <2>3. TalkIsWhole' /\ TurnCanBeUndone' /\ FailedIsUndone'
    BY <1>1, <1>2, <2>1 DEF TalkIsWhole, TurnCanBeUndone, FailedIsUndone, Asks
  <2>4. ImagesStayOut'
    <3>1. /\ turnStart \in Nat /\ turnStart < Len(turns) /\ Len(before) = turnStart
          /\ \A i \in 1 .. turnStart : before[i] = turns[i] /\ i \in 1 .. Len(turns)
      BY <1>1, <1>2 DEF ChatInv, ChatTypes, TurnCanBeUndone
    <3>. QED  BY <1>1, <1>2, <2>1, <3>1 DEF ImagesStayOut
  <2>. QED  BY <2>2, <2>3, <2>4 DEF ChatTalk
<1>. QED  BY <1>4, <1>5

\* The turn has ended with a talk that can be followed.
LEMMA ChatBack ==
    ASSUME ChatInv, NEW t \in Seq(Messages), WholeTalk(t), CL!Back(t), failed' = FALSE,
           UNCHANGED <<chatKind, todo>>,
           chatKind # "native" => \A i \in 1 .. Len(t) : t[i].images = {}
    PROVE  ChatTalk'
<1>1. /\ turns' = t /\ chatAt' = "reading" /\ turnStart' = 0 /\ before' = <<>>
      /\ round' = 0 /\ retries' = 0
  BY DEF CL!Back
<1>2. before' \in Seq(Messages)
  BY <1>1
<1>3. round' \in 0 .. MaxToolRounds /\ retries' \in 0 .. 3 /\ failed' \in BOOLEAN
  <2>. MaxToolRounds \in Nat
    BY ChatAssumption
  <2>1. failed' \in BOOLEAN
    BY Zenon
  <2>. QED  BY <1>1, <2>1
<1>4. ChatTypes'
  BY <1>1, <1>2, <1>3 DEF ChatInv, ChatTypes
<1>5. TalkIsWhole' /\ TurnCanBeUndone' /\ FailedIsUndone' /\ ImagesStayOut'
  BY <1>1 DEF TalkIsWhole, TurnCanBeUndone, FailedIsUndone, ImagesStayOut, Asks
<1>. QED  BY <1>4, <1>5 DEF ChatTalk

\* A talk that is whole stays so with one message more, without images.
LEMMA ChatSaid ==
    ASSUME ChatInv, chatAt = "asking", NEW r \in {"user", "assistant"}
    PROVE  LET t == Append(turns, CL!Message(r)) IN
           /\ t \in Seq(Messages) /\ WholeTalk(t) /\ t # <<>> /\ Len(t) = Len(turns) + 1
           /\ \A i \in 1 .. Len(turns) : t[i] = turns[i]
           /\ t[Len(turns) + 1].role = r
           /\ chatKind # "native" => \A i \in 1 .. Len(t) : t[i].images = {}
<1>. DEFINE m == CL!Message(r)
            t == Append(turns, m)
<1>1. m \in Messages /\ m.role = r /\ m.calls = 0 /\ m.images = {}
  BY NewMessage
<1>. HIDE DEF m
<1>2. turns \in Seq(Messages) /\ WholeTalk(turns) /\ ImagesStayOut
  BY DEF ChatInv, ChatTypes, TalkIsWhole
<1>3. /\ t \in Seq(Messages) /\ WholeTalk(t) /\ t # <<>> /\ Len(t) = Len(turns) + 1
      /\ \A i \in 1 .. Len(turns) : t[i] = turns[i]
      /\ t[Len(turns) + 1] = m /\ Len(turns) \in Nat
  BY <1>1, <1>2, TalkEnds, TalkGoesOn
<1>. HIDE DEF t
<1>4. chatKind # "native" => \A i \in 1 .. Len(t) : t[i].images = {}
  BY <1>1, <1>2, <1>3 DEF ImagesStayOut
<1>. QED  BY <1>1, <1>3, <1>4 DEF t, m

LEMMA ChatAnswer ==
    ASSUME ChatInv, NEW words \in BOOLEAN, CL!Answer(words)
    PROVE  ChatTalk'
<1>1. /\ chatAt = "asking" /\ failed' = FALSE /\ UNCHANGED <<chatKind, todo>>
      /\ CL!Back(IF words \/ chatKind = "native" THEN Append(turns, CL!Message("assistant"))
                                                 ELSE turns)
  BY DEF CL!Answer
<1>2. PICK t : CL!Back(t) /\ t \in {turns, Append(turns, CL!Message("assistant"))}
  BY <1>1, Zenon
<1>3. /\ t \in Seq(Messages) /\ WholeTalk(t)
      /\ chatKind # "native" => \A i \in 1 .. Len(t) : t[i].images = {}
  <2>1. CASE t = turns
    BY <1>1, <2>1 DEF ChatInv, ChatTypes, TalkIsWhole, ImagesStayOut
  <2>2. CASE t = Append(turns, CL!Message("assistant"))
    BY <1>1, <2>2, ChatSaid
  <2>. QED  BY <1>2, <2>1, <2>2
<1>. QED  BY <1>1, <1>2, <1>3, ChatBack, Zenon

LEMMA ChatAgentAnswer ==
    ASSUME ChatInv, NEW words \in BOOLEAN, CL!AgentAnswer(words)
    PROVE  ChatTalk'
<1>1. chatAt = "asking" /\ Asks /\ failed' = FALSE /\ UNCHANGED <<chatKind, todo>>
  BY DEF CL!AgentAnswer, Asks
<1>2. CASE ~words /\ round > 0 /\ retries < 3
  <2>. DEFINE t == Append(turns, CL!Message("user"))
  <2>1. turns' = t /\ retries' = retries + 1 /\ UNCHANGED <<chatAt, turnStart, before, round>>
    BY <1>2 DEF CL!AgentAnswer
  <2>2. /\ t \in Seq(Messages) /\ WholeTalk(t) /\ t # <<>> /\ Len(t) = Len(turns) + 1
        /\ \A i \in 1 .. Len(turns) : t[i] = turns[i]
        /\ t[Len(turns) + 1].role = "user"
        /\ chatKind # "native" => \A i \in 1 .. Len(t) : t[i].images = {}
    BY <1>1, ChatSaid
  <2>. HIDE DEF t
  <2>3. ChatTypes'
    <3>1. failed' \in BOOLEAN
      BY <1>1, Zenon
    <3>2. retries' \in 0 .. 3
      BY <1>2, <2>1 DEF ChatInv, ChatTypes
    <3>. QED  BY <1>1, <2>1, <2>2, <3>1, <3>2 DEF ChatInv, ChatTypes
  <2>4. TalkIsWhole'
    BY <1>1, <2>1, <2>2 DEF ChatInv, TalkIsWhole, Asks
  <2>5. TurnCanBeUndone' /\ FailedIsUndone'
    <3>1. /\ turnStart \in Nat /\ Len(turns) \in Nat
          /\ turnStart < Len(turns) /\ Len(before) = turnStart
          /\ \A i \in 1 .. turnStart : before[i] = turns[i]
          /\ WholeTalk(before) /\ turns[turnStart + 1].role = "user"
      BY <1>1 DEF ChatInv, ChatTypes, TurnCanBeUndone
    <3>2. turnStart < Len(t) /\ t[turnStart + 1] = turns[turnStart + 1]
      BY <2>2, <3>1
    <3>3. \A i \in 1 .. turnStart : before[i] = t[i]
      BY <2>2, <3>1
    <3>. QED  BY <1>1, <2>1, <3>1, <3>2, <3>3 DEF TurnCanBeUndone, FailedIsUndone
  <2>6. ImagesStayOut'
    BY <1>1, <2>1, <2>2 DEF ImagesStayOut
  <2>. QED  BY <2>3, <2>4, <2>5, <2>6 DEF ChatTalk
<1>3. CASE ~(~words /\ round > 0 /\ retries < 3)
  <2>1. PICK t : CL!Back(t) /\ t \in {turns, Append(turns, CL!Message("assistant"))}
    BY <1>3, Zenon DEF CL!AgentAnswer
  <2>2. /\ t \in Seq(Messages) /\ WholeTalk(t)
        /\ chatKind # "native" => \A i \in 1 .. Len(t) : t[i].images = {}
    <3>1. CASE t = turns
      BY <1>1, <3>1 DEF ChatInv, ChatTypes, TalkIsWhole, ImagesStayOut
    <3>2. CASE t = Append(turns, CL!Message("assistant"))
      BY <1>1, <3>2, ChatSaid
    <3>. QED  BY <2>1, <3>1, <3>2
  <2>. QED  BY <1>1, <2>1, <2>2, ChatBack, Zenon
<1>. QED  BY <1>2, <1>3

\* While a turn goes on, what is put at the end leaves what was before it.
LEMMA TurnGoesOn ==
    ASSUME ChatInv, Asks, NEW m \in Messages, turns' = Append(turns, m), m.images = {},
           UNCHANGED <<turnStart, before, failed, chatKind>>
    PROVE  /\ TurnCanBeUndone' /\ ImagesStayOut'
           /\ failed' = failed /\ ~failed /\ turns' \in Seq(Messages)
<1>1. /\ turnStart \in Nat /\ Len(turns) \in Nat /\ turns \in Seq(Messages)
      /\ turnStart < Len(turns) /\ Len(before) = turnStart /\ ~failed
      /\ \A i \in 1 .. turnStart : before[i] = turns[i]
      /\ WholeTalk(before) /\ turns[turnStart + 1].role = "user"
      /\ chatKind # "native" => \A i \in 1 .. Len(turns) : turns[i].images = {}
  BY DEF ChatInv, ChatTypes, TurnCanBeUndone, ImagesStayOut
<1>2. /\ turns' \in Seq(Messages) /\ Len(turns') = Len(turns) + 1
      /\ \A i \in 1 .. Len(turns) : turns'[i] = turns[i]
      /\ turns'[Len(turns) + 1] = m
  BY <1>1, TalkEnds
<1>3. turnStart < Len(turns') /\ turns'[turnStart + 1] = turns[turnStart + 1]
  BY <1>1, <1>2
<1>4. \A i \in 1 .. turnStart : before[i] = turns'[i]
  BY <1>1, <1>2
<1>5. TurnCanBeUndone'
  BY <1>1, <1>3, <1>4 DEF TurnCanBeUndone
<1>6. ImagesStayOut'
  BY <1>1, <1>2 DEF ImagesStayOut
<1>. QED  BY <1>1, <1>2, <1>5, <1>6

LEMMA ChatAgentCalls ==
    ASSUME ChatInv, NEW n \in 1 .. MaxCalls, CL!AgentCalls(n)
    PROVE  ChatTalk'
<1>1. /\ chatAt = "asking" /\ Asks /\ chatAt' = "running" /\ Asks'
      /\ turns' = Append(turns, [CL!Message("assistant") EXCEPT !.calls = n])
      /\ todo' = [i \in 1 .. n |-> i]
      /\ UNCHANGED <<chatKind, turnStart, before, round, retries, failed>>
  BY DEF CL!AgentCalls, Asks
<1>2. n \in Nat \ {0}
  BY ChatAssumption
<1>3. PICK m \in Messages : /\ turns' = Append(turns, m) /\ m.role = "assistant"
                            /\ m.calls = n /\ m.images = {}
  <2>1. PICK w \in Messages : /\ w = CL!Message("assistant") /\ w.role = "assistant"
                              /\ w.images = {}
    BY NewMessage
  <2>2. /\ [w EXCEPT !.calls = n] \in Messages /\ [w EXCEPT !.calls = n].role = w.role
        /\ [w EXCEPT !.calls = n].calls = n /\ [w EXCEPT !.calls = n].images = w.images
    <3>1. {} \in SUBSET Images /\ n \in Nat
      BY <1>2
    <3>. QED  BY <3>1, MessageWith, Zenon
  <2>. QED  BY <1>1, <2>1, <2>2, Zenon
<1>4. /\ TurnCanBeUndone' /\ ImagesStayOut' /\ ~failed' /\ turns' \in Seq(Messages)
  BY <1>1, <1>3, TurnGoesOn
<1>5. todo' \in Seq(Nat)
  BY <1>1, <1>2
<1>6. InCalls(turns', todo')
  <2>1. turns \in Seq(Messages) /\ WholeTalk(turns)
    BY <1>1 DEF ChatInv, ChatTypes, TalkIsWhole
  <2>. QED  BY <1>1, <1>2, <1>3, <2>1, TalkCalls
<1>7. ChatTypes'
  BY <1>1, <1>4, <1>5 DEF ChatInv, ChatTypes
<1>8. TalkIsWhole'
  BY <1>1, <1>6 DEF ChatInv, TalkIsWhole
<1>9. FailedIsUndone'
  BY <1>4 DEF FailedIsUndone
<1>. QED  BY <1>4, <1>7, <1>8, <1>9 DEF ChatTalk

LEMMA ChatRespond ==
    ASSUME ChatInv, chatAt = "running", CL!Respond
    PROVE  ChatTalk'
<1>1. /\ Asks /\ turns' = Append(turns, [CL!Message("tool") EXCEPT !.answers = Head(todo)])
      /\ todo' = Tail(todo)
      /\ UNCHANGED <<chatKind, turnStart, before, retries, failed>>
  BY DEF CL!Respond, Asks
<1>2. turns \in Seq(Messages) /\ todo \in Seq(Nat) /\ todo # <<>> /\ InCalls(turns, todo)
  <2>1. InCalls(turns, todo)
    BY DEF ChatInv, TalkIsWhole
  <2>. QED  BY <2>1, Zenon DEF ChatInv, ChatTypes, InCalls, InCallsOf
<1>3. Head(todo) \in Nat /\ todo' \in Seq(Nat)
  BY <1>1, <1>2, QueueBegins
<1>4. PICK m \in Messages : /\ turns' = Append(turns, m) /\ m.role = "tool"
                            /\ m.answers = Head(todo) /\ m.images = {}
  <2>1. PICK w \in Messages : /\ w = CL!Message("tool") /\ w.role = "tool" /\ w.images = {}
    BY NewMessage
  <2>2. PICK n \in Nat : n = Head(todo)
    BY <1>3
  <2>3. /\ [w EXCEPT !.answers = n] \in Messages /\ [w EXCEPT !.answers = n].role = w.role
        /\ [w EXCEPT !.answers = n].answers = n /\ [w EXCEPT !.answers = n].images = w.images
    <3>1. {} \in SUBSET Images
      OBVIOUS
    <3>. QED  BY <3>1, MessageWith, Zenon
  <2>. QED  BY <1>1, <2>1, <2>2, <2>3, Zenon
<1>5. /\ TurnCanBeUndone' /\ ImagesStayOut' /\ ~failed' /\ turns' \in Seq(Messages)
  BY <1>1, <1>4, TurnGoesOn
<1>6. IF todo' # <<>> THEN InCalls(turns', todo') ELSE WholeTalk(turns')
  BY <1>1, <1>2, <1>4, TalkAnswers, Zenon
<1>7. MaxToolRounds \in Nat /\ round \in 0 .. MaxToolRounds /\ round < MaxToolRounds
  BY <1>1, ChatAssumption DEF ChatInv, ChatTypes, TalkIsWhole
<1>8. turns' # <<>> /\ turns'[Len(turns')].role = "tool"
  <2>1. turns' # <<>> /\ turns'[Len(turns) + 1] = m /\ Len(turns') = Len(turns) + 1
    BY <1>2, <1>4, TalkEnds
  <2>. QED  BY <1>4, <2>1
<1>9. CASE todo' # <<>>
  <2>1. UNCHANGED <<chatAt, round>>
    BY <1>9 DEF CL!Respond
  <2>2. ChatTypes'
    BY <1>1, <1>3, <1>5, <2>1 DEF ChatInv, ChatTypes
  <2>3. TalkIsWhole'
    BY <1>6, <1>7, <1>9, <2>1 DEF TalkIsWhole
  <2>4. FailedIsUndone'
    BY <1>5 DEF FailedIsUndone
  <2>. QED  BY <1>5, <2>2, <2>3, <2>4 DEF ChatTalk
<1>10. CASE todo' = <<>>
  <2>1. /\ round' = round + 1
        /\ chatAt' = IF round + 1 >= MaxToolRounds THEN "reading" ELSE "asking"
    BY <1>10 DEF CL!Respond
  <2>2. round' \in 0 .. MaxToolRounds /\ (chatAt' = "asking" => round' < MaxToolRounds)
    BY <1>7, <2>1
  <2>3. chatAt' \in {"reading", "asking"}
    BY <2>1
  <2>4. ChatTypes'
    BY <1>1, <1>3, <1>5, <2>2, <2>3 DEF ChatInv, ChatTypes
  <2>5. TalkIsWhole'
    BY <1>6, <1>8, <1>10, <2>2, <2>3 DEF TalkIsWhole, Asks
  <2>6. FailedIsUndone'
    BY <1>5 DEF FailedIsUndone
  <2>. QED  BY <1>5, <2>4, <2>5, <2>6 DEF ChatTalk
<1>. QED  BY <1>9, <1>10

\* Before a file is changed for the first time, what it was is kept.
LEMMA ChatEdit ==
    ASSUME ChatInv, NEW new \in Contents \cup {CL!Absent}, CL!Edit(new)
    PROVE  ChatInv'
<1>1. ChatTalk'
  BY ChatRespond DEF CL!Edit
<1>2. /\ file' = new /\ original' = IF original = CL!NotKept THEN file ELSE original
      /\ UNCHANGED <<others, active, permission, atStart>>
  BY DEF CL!Edit, CL!Keep, CL!Respond
<1>3. ShellTypes' /\ OriginalsAreKept'
  <2>1. original' \in Contents \cup {CL!Absent, CL!NotKept}
    BY <1>2 DEF ChatInv, ShellTypes
  <2>2. ShellTypes'
    BY <1>2, <2>1 DEF ChatInv, ShellTypes
  <2>4. atStart # CL!NotKept
    BY ChatAssumption DEF ChatInv, ShellTypes, CL!Absent, CL!NotKept
  <2>3. ~others => original' = atStart'
    BY <1>2, <2>4, Zenon DEF ChatInv, OriginalsAreKept
  <2>. QED  BY <1>2, <2>2, <2>3, Zenon DEF OriginalsAreKept
<1>. QED  BY <1>1, <1>3 DEF ChatInv, ChatTalk

LEMMA ChatStep == ChatInv /\ [Next]_vars => ChatInv'
<1> SUFFICES ASSUME ChatInv, [Next]_vars
             PROVE  ChatInv'
  OBVIOUS
<1>1. ChatTalk /\ ShellTypes /\ OriginalsAreKept
  BY DEF ChatInv, ChatTalk
<1>2. ASSUME ChatTalk',
             UNCHANGED <<active, permission, file, original, others, atStart>>
      PROVE  ChatInv'
  BY <1>1, <1>2, ChatShellRests DEF ChatInv, ChatTalk
<1>3. ASSUME UNCHANGED <<chatKind, chatAt, turns, turnStart, before, round, retries, todo,
                         failed>>,
             ShellTypes' /\ OriginalsAreKept'
      PROVE  ChatInv'
  BY <1>1, <1>3, ChatTalkRests DEF ChatInv, ChatTalk
<1>4. CASE UNCHANGED chatVars
  <2>1. /\ UNCHANGED <<chatKind, chatAt, turns, turnStart, before, round, retries, todo, failed>>
        /\ UNCHANGED <<active, permission, file, original, others, atStart>>
    BY <1>4 DEF chatVars
  <2>. QED  BY <1>1, <1>3, <2>1, ChatShellRests
<1>5. CASE CL!Next
  <2>1. CASE CL!Say
    BY <1>2, <2>1, ChatSay, Zenon DEF CL!Say, CL!files
  <2>2. CASE CL!Clear
    BY <1>2, <2>2, ChatClear, Zenon DEF CL!Clear, CL!files
  <2>3. CASE CL!Leave
    BY <1>2, <2>3, ChatLeave DEF CL!Leave, CL!files
  <2>4. CASE CL!Fail
    BY <1>2, <2>4, ChatFail DEF CL!Fail, CL!files
  <2>5. CASE \E words \in BOOLEAN : CL!Answer(words)
    BY <1>2, <2>5, ChatAnswer, Zenon DEF CL!Answer, CL!files
  <2>6. CASE \E words \in BOOLEAN : CL!AgentAnswer(words)
    BY <1>2, <2>6, ChatAgentAnswer, Zenon DEF CL!AgentAnswer, CL!files
  <2>7. CASE \E n \in 1 .. MaxCalls : CL!AgentCalls(n)
    BY <1>2, <2>7, ChatAgentCalls DEF CL!AgentCalls, CL!files
  <2>8. CASE CL!ReadTool
    BY <1>2, <2>8, ChatRespond DEF CL!ReadTool, CL!Respond, CL!files
  <2>9. CASE CL!ReplaceInFile \/ CL!CreateFile \/ CL!DeleteFile
    BY <2>9, ChatEdit DEF CL!ReplaceInFile, CL!CreateFile, CL!DeleteFile
  <2>10. CASE CL!Attach
    BY <1>1, <1>3, <2>10 DEF CL!Attach, CL!talk, CL!files, ShellTypes, OriginalsAreKept
  <2>11. CASE CL!ClearImages
    BY <1>1, <1>3, <2>11 DEF CL!ClearImages, CL!talk, CL!files, ShellTypes, OriginalsAreKept
  <2>12. CASE CL!SetMode
    BY <1>1, <1>3, <2>12 DEF CL!SetMode, CL!talk, CL!files, ShellTypes, OriginalsAreKept
  <2>13. CASE CL!Elsewhere
    <3>1. /\ file' \in Contents \cup {CL!Absent} /\ others' = TRUE
          /\ UNCHANGED <<active, permission, original, atStart>>
      BY <2>13 DEF CL!Elsewhere
    <3>2. others' \in BOOLEAN
      BY <3>1, Zenon
    <3>3. ShellTypes' /\ OriginalsAreKept'
      BY <1>1, <3>1, <3>2 DEF ShellTypes, OriginalsAreKept
    <3>. QED  BY <1>3, <2>13, <3>3 DEF CL!Elsewhere, CL!talk
  <2>14. CASE CL!Done
    BY <1>4, <2>14 DEF CL!Done, CL!lVars, CL!talk, CL!files, chatVars
  <2>. QED  BY <1>5, <2>1, <2>2, <2>3, <2>4, <2>5, <2>6, <2>7, <2>8, <2>9, <2>10, <2>11,
               <2>12, <2>13, <2>14 DEF CL!Next
<1>. QED  BY <1>4, <1>5 DEF Next, vars

-----------------------------------------------------------------------------
(* The hosts a user has saved (Connections).                               *)

Whats == {"save", "use", "remove", "auto", "local"}
Tokens_ == Endpoints \cup {Nobody}
Pending == [at : {"replace", "keychain"}, what : Whats, id : 0 .. MaxIds, token : Tokens_]
Hosts == [at : {"idle", "token", "ready"}, endpoint : Endpoints \cup {Local},
          token : Tokens_, disturbed : BOOLEAN]

JobOK(j) ==
    /\ j.at \in {"idle", "get", "again", "load", "open", "write", "replace", "keychain"}
    /\ j.at \in {"get", "again"} => j.what \in {"use", "remove"} /\ j.name \in Names
    /\ j.at = "again" => j.profile \in CN!Profile
    /\ j.at = "load" => \/ j.what = "save" /\ j.name \in Names /\ j.endpoint \in Endpoints
                        \/ j.what \in {"auto", "local"}
    /\ j.at \in {"open", "write", "replace", "keychain"} =>
         /\ j.what \in Whats /\ j.id \in 0 .. MaxIds /\ j.token \in Tokens_
         /\ j.what \in {"save", "use", "remove"} => j.id \in CN!Ids
         /\ j.what = "save" => j.token \in Endpoints
    /\ j.at \in {"open", "write"} => j.data \in CN!Registry
    /\ j.at = "write" => j.fd \in CN!Inodes
    /\ j.at \in {"replace", "keychain"} => j \in Pending
    /\ j.at = "keychain" => j.what \in {"save", "remove"}

Jobs == DOMAIN job = Commands /\ \A c \in Commands : JobOK(job[c])

ConnTypes ==
    /\ {hostsFile, tmp} \subseteq CN!Inodes \cup {Nobody}
    /\ tmp # Nobody => tmp # hostsFile
    /\ content \in [CN!Inodes -> [whole : BOOLEAN, data : CN!Registry]]
    /\ keychain \in [CN!Ids -> Tokens_]
    /\ ids \in 0 .. MaxIds /\ starts \in 0 .. MaxStarts /\ kills \in 0 .. MaxKills
    /\ hostsOverlapped \in BOOLEAN /\ client \in [Clients -> Hosts]

\* A registry names the profiles it has, and has each of them once; n ids are in use.
Sound(d, n) ==
    /\ d.active \in {CN!NoneIsActive, CN!Auto} \cup {p.id : p \in d.profiles}
    /\ \A p, q \in d.profiles : p.name = q.name \/ p.id = q.id => p = q
    /\ \A p \in d.profiles : p.id <= n

\* The file says of the profile what the Keychain is about to say.
KeyComes(j, d) ==
    /\ j.what = "save" => \E p \in d.profiles : p.id = j.id /\ p.endpoint = j.token
    /\ j.what = "remove" => \A p \in d.profiles : p.id # j.id

\* What a command writes, d, differs from what there is, e, in the profile it is about.
Follows(j, d, e, n) ==
    /\ Sound(d, n) /\ KeyComes(j, d)
    /\ \A q : q.id # j.id => (q \in d.profiles <=> q \in e.profiles)
    /\ j.what \notin {"save", "remove"} => d.profiles = e.profiles

StepIsSound(c) ==
    /\ job[c].at = "again" => job[c].profile \in CN!Loaded.profiles
    /\ job[c].at \in {"open", "write"} => Follows(job[c], job[c].data, CN!Loaded, ids)
    /\ job[c].at = "write" => tmp # Nobody /\ job[c].fd = tmp /\ content[tmp] = CN!Empty
    /\ job[c].at = "replace" =>
         tmp # Nobody /\ content[tmp].whole /\ Follows(job[c], content[tmp].data, CN!Loaded, ids)

KeyIsSound(c) ==
    job[c].at = "keychain" /\ job[c].id \notin cut =>
        /\ KeyComes(job[c], CN!Loaded)
        /\ \A d \in Commands : job[d].at = "keychain" /\ job[d].id = job[c].id => d = c

OneIsChanging == \A c, d \in CN!Changing : c = d
FileIsSound   == CN!Readable /\ Sound(CN!Loaded, ids)
KeysFollow == \A i \in CN!Ids :
    \/ i \in cut \/ \E c \in CN!AtKeychain : job[c].id = i
    \/ \E p \in CN!Loaded.profiles : p.id = i /\ keychain[i] = p.endpoint
    \/ keychain[i] = Nobody /\ \A p \in CN!Loaded.profiles : p.id # i

HostsAreSound ==
    ~hostsOverlapped =>
       /\ OneIsChanging /\ FileIsSound /\ KeysFollow
       /\ \A c \in Commands : StepIsSound(c) /\ KeyIsSound(c)

Disturbed(k) == client[k].at = "idle" \/ client[k].disturbed = TRUE

Expected == IF CN!Active # {} THEN (CHOOSE p \in CN!Active : TRUE).endpoint ELSE Local

\* A client that nothing disturbs has read of the host what the file still says.
ClientKnows(k) ==
    \/ Disturbed(k)
    \/ /\ CN!UnderWay = {}
       /\ client[k].at = "token" /\ ~hostsOverlapped =>
            client[k].endpoint = Expected /\ client[k].token = Nobody
       /\ client[k].at = "ready" /\ ~hostsOverlapped /\ cut = {} =>
            client[k].token = IF client[k].endpoint = Local THEN Nobody ELSE client[k].endpoint

ClientsKnow == \A k \in Clients : ClientKnows(k)

ConnInv == ConnTypes /\ Jobs /\ HostsAreSound /\ ClientsKnow

LEMMA NoneIsSound ==
    CN!None \in CN!Registry /\ (\A n : Sound(CN!None, n)) /\ CN!Empty.data = CN!None
<1>1. CN!None \in CN!Registry
  BY DEF CN!None, CN!Registry, CN!NoneIsActive
<1>2. \A n : Sound(CN!None, n)
  BY DEF CN!None, Sound
<1>. QED  BY <1>1, <1>2 DEF CN!Empty

LEMMA ConnInit == Init => ConnInv
<1> SUFFICES ASSUME Init PROVE ConnInv
  OBVIOUS
<1>0. CN!Init
  BY DEF Init
<1>1. /\ tmp = Nobody /\ job = [c \in Commands |-> CN!Idle]
      /\ client = [k \in Clients |-> CN!NoHost]
      /\ starts = 0 /\ kills = 0 /\ hostsOverlapped = FALSE /\ cut = {}
  BY <1>0 DEF CN!Init
<1>2. Jobs
  BY <1>1 DEF Jobs, JobOK, CN!Idle
<1>3. client \in [Clients -> Hosts] /\ ClientsKnow
  BY <1>1 DEF Hosts, CN!NoHost, Tokens_, ClientsKnow, ClientKnows, Disturbed
<1>4. CN!Changing = {} /\ \A c \in Commands : job[c].at = "idle"
  BY <1>1 DEF CN!Changing, CN!Idle
<1>5. OneIsChanging /\ \A c \in Commands : StepIsSound(c) /\ KeyIsSound(c)
  BY <1>4 DEF OneIsChanging, StepIsSound, KeyIsSound
<1>6. hostsOverlapped \in BOOLEAN
  BY <1>1, Zenon
<1>7. starts \in 0 .. MaxStarts /\ kills \in 0 .. MaxKills /\ MaxIds \in Nat \ {0}
  BY <1>1, ConnectionAssumption
<1>8. CN!Empty \in [whole : BOOLEAN, data : CN!Registry]
  BY NoneIsSound DEF CN!Empty
<1>9. CASE /\ hostsFile = Nobody /\ ids = 0
           /\ content = [f \in CN!Inodes |-> CN!Empty]
           /\ keychain = [i \in CN!Ids |-> Nobody]
  <2>1. content \in [CN!Inodes -> [whole : BOOLEAN, data : CN!Registry]]
    BY <1>8, <1>9
  <2>2. ConnTypes
    BY <1>1, <1>3, <1>6, <1>7, <1>9, <2>1 DEF ConnTypes, Tokens_
  <2>3. FileIsSound
    BY <1>9, NoneIsSound DEF FileIsSound, CN!Readable, CN!Loaded
  <2>4. KeysFollow
    BY <1>9 DEF KeysFollow, CN!Loaded, CN!None
  <2>. QED  BY <1>2, <1>3, <1>5, <2>2, <2>3, <2>4 DEF ConnInv, HostsAreSound
<1>10. ASSUME NEW name \in Names, NEW e \in Endpoints,
              hostsFile = "first", ids = 1,
              content = [f \in CN!Inodes |->
                 IF f # hostsFile THEN CN!Empty
                 ELSE CN!Whole([active |-> CN!Auto,
                                profiles |-> {[id |-> 1, name |-> name, endpoint |-> e]}])],
              keychain = [i \in CN!Ids |-> IF i = 1 THEN e ELSE Nobody]
       PROVE  ConnInv
  <2>. DEFINE p == [id |-> 1, name |-> name, endpoint |-> e]
              d == [active |-> CN!Auto, profiles |-> {p}]
  <2>0. 1 \in CN!Ids /\ "first" \in CN!Inodes /\ "first" # Nobody
    BY <1>7, ConnectionAssumption DEF CN!Ids, CN!Inodes
  <2>1. p \in CN!Profile /\ p.id = 1 /\ p.endpoint = e
    BY <2>0 DEF CN!Profile
  <2>. HIDE DEF p
  <2>2. d \in CN!Registry /\ d.profiles = {p} /\ d.active = CN!Auto
    BY <2>1 DEF CN!Registry
  <2>. HIDE DEF d
  <2>3. CN!Whole(d) \in [whole : BOOLEAN, data : CN!Registry] /\ CN!Whole(d).whole
        /\ CN!Whole(d).data = d
    BY <2>2 DEF CN!Whole
  <2>4. content = [f \in CN!Inodes |-> IF f # hostsFile THEN CN!Empty ELSE CN!Whole(d)]
    BY <1>10 DEF d, p
  <2>5. /\ content \in [CN!Inodes -> [whole : BOOLEAN, data : CN!Registry]]
        /\ content[hostsFile] = CN!Whole(d)
    BY <1>8, <1>10, <2>0, <2>3, <2>4, Zenon
  <2>6. keychain \in [CN!Ids -> Tokens_] /\ keychain[1] = e
        /\ \A i \in CN!Ids \ {1} : keychain[i] = Nobody
    BY <1>10, <2>0 DEF Tokens_
  <2>7. ids \in 0 .. MaxIds
    BY <1>7, <1>10
  <2>8. ConnTypes
    BY <1>1, <1>3, <1>6, <1>7, <1>10, <2>0, <2>5, <2>6, <2>7, Zenon DEF ConnTypes
  <2>9. CN!Loaded = d /\ CN!Readable
    BY <1>10, <2>0, <2>3, <2>5 DEF CN!Loaded, CN!Readable
  <2>10. Sound(d, ids)
    <3>1. p.id <= ids
      BY <1>10, <2>1
    <3>. QED  BY <2>2, <3>1 DEF Sound
  <2>11. KeysFollow
    BY <2>1, <2>2, <2>6, <2>9 DEF KeysFollow
  <2>. QED  BY <1>2, <1>3, <1>5, <2>8, <2>9, <2>10, <2>11
            DEF ConnInv, HostsAreSound, FileIsSound
<1>. QED  BY <1>0, <1>9, <1>10, Zenon DEF CN!Init

LEMMA ConnHolds ==
    ASSUME ConnInv
    PROVE  /\ CN!TypeOK /\ CN!FileIsWhole
           /\ CN!TokensFollowProfiles /\ CN!TokensGoToTheirHosts
<1>1. CN!TypeOK
  BY DEF ConnInv, ConnTypes, CN!TypeOK, Tokens_
<1>2. CN!FileIsWhole
  BY DEF ConnInv, HostsAreSound, FileIsSound, Sound, CN!FileIsWhole
<1>3. CN!TokensFollowProfiles
  BY DEF ConnInv, HostsAreSound, KeysFollow, CN!TokensFollowProfiles
<1>4. CN!TokensGoToTheirHosts
  <2> SUFFICES ASSUME NEW k \in Clients, client[k].at = "ready", ~client[k].disturbed,
                      ~hostsOverlapped, cut = {}
               PROVE  client[k].token = IF client[k].endpoint = Local THEN Nobody
                                        ELSE client[k].endpoint
    BY DEF CN!TokensGoToTheirHosts
  <2>1. ~Disturbed(k)
    BY DEF Disturbed
  <2>. QED  BY <2>1 DEF ConnInv, ClientsKnow, ClientKnows
<1>. QED  BY <1>1, <1>2, <1>3, <1>4

LEMMA LoadedRests ==
    ASSUME hostsFile' = hostsFile,
           hostsFile # Nobody => content'[hostsFile] = content[hostsFile]
    PROVE  /\ CN!Loaded' = CN!Loaded /\ CN!Readable' = CN!Readable
           /\ CN!Active' = CN!Active /\ Expected' = Expected
<1>1. CN!Loaded' = CN!Loaded
  BY DEF CN!Loaded
<1>2. CN!Readable' = CN!Readable
  BY DEF CN!Readable
<1>3. CN!Active' = CN!Active
  BY <1>1 DEF CN!Active
<1>. QED  BY <1>1, <1>2, <1>3 DEF Expected

LEMMA LoadedIsRegistry == ConnTypes => CN!Loaded \in CN!Registry
<1> SUFFICES ASSUME ConnTypes PROVE CN!Loaded \in CN!Registry
  OBVIOUS
<1>1. CASE hostsFile = Nobody
  BY <1>1, NoneIsSound DEF CN!Loaded
<1>2. CASE hostsFile # Nobody
  <2>1. hostsFile \in CN!Inodes
    BY <1>2 DEF ConnTypes
  <2>2. content[hostsFile] \in [whole : BOOLEAN, data : CN!Registry]
    BY <2>1 DEF ConnTypes
  <2>3. content[hostsFile].data \in CN!Registry
    BY <2>2
  <2>. QED  BY <1>2, <2>3 DEF CN!Loaded
<1>. QED  BY <1>1, <1>2

LEMMA ConnGoes ==
    ASSUME Jobs, NEW c \in Commands, NEW j, JobOK(j), CN!Goes(c, j)
    PROVE  /\ Jobs' /\ job'[c] = j /\ \A d \in Commands \ {c} : job'[d] = job[d]
<1>1. job' = [job EXCEPT ![c] = j] /\ DOMAIN job = Commands
  BY DEF CN!Goes, Jobs
<1>2. /\ DOMAIN job' = Commands /\ job'[c] = j
      /\ \A d \in Commands \ {c} : job'[d] = job[d]
  BY <1>1
<1>3. ASSUME NEW d \in Commands PROVE JobOK(job'[d])
  BY <1>2 DEF Jobs
<1>. QED  BY <1>2, <1>3 DEF Jobs

LEMMA IdleIsOK == JobOK(CN!Idle) /\ CN!Idle.at = "idle"
BY DEF JobOK, CN!Idle

\* Every client under way sees a change.
LEMMA ChangesDisturb ==
    ASSUME client \in [Clients -> Hosts], CN!Disturbs
    PROVE  ClientsKnow' /\ client' \in [Clients -> Hosts]
<1>1. client' = [k \in Clients |-> IF client[k].at = "idle" THEN client[k]
                                   ELSE [client[k] EXCEPT !.disturbed = TRUE]]
  BY DEF CN!Disturbs
<1>2. ASSUME NEW h \in Hosts
      PROVE  /\ [h EXCEPT !.disturbed = TRUE] \in Hosts
             /\ [h EXCEPT !.disturbed = TRUE].disturbed = TRUE
  BY Zenon DEF Hosts
<1>3. client' \in [Clients -> Hosts] /\ \A k \in Clients : Disturbed(k)'
  BY <1>1, <1>2 DEF Disturbed
<1>. QED  BY <1>3 DEF ClientsKnow, ClientKnows

\* Clients that are under way while a command is see it.
LEMMA CommandsDisturb ==
    ASSUME ConnInv, NEW c \in Commands, job[c].at # "idle", client' = client \/ CN!Disturbs
    PROVE  ClientsKnow' /\ client' \in [Clients -> Hosts]
<1>1. client \in [Clients -> Hosts] /\ c \in CN!UnderWay
  BY DEF ConnInv, ConnTypes, CN!UnderWay
<1>2. \A k \in Clients : Disturbed(k)
  BY <1>1 DEF ConnInv, ClientsKnow, ClientKnows
<1>3. CASE client' = client
  BY <1>1, <1>2, <1>3 DEF ClientsKnow, ClientKnows, Disturbed
<1>4. CASE CN!Disturbs
  BY <1>1, <1>4, ChangesDisturb
<1>. QED  BY <1>3, <1>4

LEMMA SoundGrows ==
    ASSUME NEW d \in CN!Registry, NEW n \in Nat, NEW m \in Nat, n <= m, Sound(d, n)
    PROVE  Sound(d, m)
<1>1. \A p \in d.profiles : p.id \in Nat
  BY ConnectionAssumption DEF CN!Registry, CN!Profile, CN!Ids
<1>. QED  BY <1>1 DEF Sound

\* A step that leaves what the file says, and takes nothing to the Keychain.
LEMMA FileStays ==
    ASSUME ConnInv, ConnTypes', NEW c \in Commands, NEW j, JobOK(j), CN!Goes(c, j),
           ~hostsOverlapped,
           CN!Loaded' = CN!Loaded, CN!Readable' = CN!Readable, ids <= ids',
           keychain' = keychain, cut \subseteq cut', j.at # "keychain",
           job[c].at = "keychain" => job[c].id \in cut',
           j.at \in {"again", "open", "write", "replace"} => CN!Changing \ {c} = {},
           UNCHANGED <<tmp, content>> \/ CN!Changing \ {c} = {},
           StepIsSound(c)'
    PROVE  HostsAreSound'
<1>0. /\ OneIsChanging /\ FileIsSound /\ KeysFollow /\ Jobs /\ ConnTypes
      /\ \A d \in Commands : StepIsSound(d) /\ KeyIsSound(d)
  BY DEF ConnInv, HostsAreSound
<1>1. /\ Jobs' /\ job'[c] = j /\ \A d \in Commands \ {c} : job'[d] = job[d]
  BY <1>0, ConnGoes
<1>2. PICK n \in Nat, m \in Nat : n = ids /\ m = ids' /\ n <= m
  BY <1>0, ConnectionAssumption DEF ConnTypes
<1>3. FileIsSound'
  <2>1. Sound(CN!Loaded, m)
    BY <1>0, <1>2, LoadedIsRegistry, SoundGrows DEF FileIsSound
  <2>. QED  BY <1>0, <1>2, <2>1 DEF FileIsSound
<1>4. KeysFollow'
  BY <1>0, <1>1 DEF KeysFollow, CN!AtKeychain
<1>5. ASSUME NEW d \in Commands PROVE KeyIsSound(d)'
  <2>1. CASE d = c
    BY <1>1, <2>1 DEF KeyIsSound
  <2>2. CASE d # c
    BY <1>0, <1>1, <2>2 DEF KeyIsSound
  <2>. QED  BY <2>1, <2>2
<1>6. OneIsChanging'
  BY <1>0, <1>1 DEF OneIsChanging, CN!Changing
<1>7. ASSUME NEW d \in Commands PROVE StepIsSound(d)'
  <2>1. CASE d = c
    BY <2>1
  <2>2. CASE d # c /\ d \in CN!Changing
    <3>1. tmp' = tmp /\ content' = content /\ job'[d] = job[d] /\ StepIsSound(d)
      BY <1>0, <1>1, <2>2
    <3>2. ASSUME job[d].at \in {"open", "write"}
          PROVE  Follows(job[d], job[d].data, CN!Loaded, m)
      <4>1. Follows(job[d], job[d].data, CN!Loaded, n) /\ job[d].data \in CN!Registry
        BY <1>0, <1>2, <3>1, <3>2 DEF StepIsSound, Jobs, JobOK
      <4>. QED  BY <1>2, <4>1, SoundGrows DEF Follows
    <3>3. ASSUME job[d].at = "replace"
          PROVE  Follows(job[d], content[tmp].data, CN!Loaded, m)
      <4>1. Follows(job[d], content[tmp].data, CN!Loaded, n) /\ tmp \in CN!Inodes
        BY <1>0, <1>2, <3>1, <3>3 DEF StepIsSound, ConnTypes
      <4>2. content[tmp] \in [whole : BOOLEAN, data : CN!Registry]
        BY <1>0, <4>1 DEF ConnTypes
      <4>3. content[tmp].data \in CN!Registry
        BY <4>2
      <4>. QED  BY <1>2, <4>1, <4>3, SoundGrows DEF Follows
    <3>. QED  BY <1>2, <3>1, <3>2, <3>3 DEF StepIsSound
  <2>3. CASE d # c /\ d \notin CN!Changing
    BY <1>1, <2>3 DEF StepIsSound, CN!Changing
  <2>. QED  BY <2>1, <2>2, <2>3
<1>. QED  BY <1>3, <1>4, <1>5, <1>6, <1>7 DEF HostsAreSound

LEMMA ConnStarts ==
    ASSUME ConnInv, NEW c \in Commands, NEW j, JobOK(j), j.at \in {"load", "get"},
           CN!Starts(c, j)
    PROVE  ConnInv'
<1>1. /\ CN!Goes(c, j) /\ CN!Disturbs /\ starts' = starts + 1 /\ starts < MaxStarts
      /\ UNCHANGED <<hostsFile, tmp, content, keychain, ids, kills, hostsOverlapped, cut>>
      /\ job[c].at = "idle"
  BY DEF CN!Starts
<1>2. ConnTypes /\ Jobs
  BY DEF ConnInv
<1>3. ClientsKnow' /\ client' \in [Clients -> Hosts]
  BY <1>1, <1>2, ChangesDisturb DEF ConnTypes
<1>4. starts' \in 0 .. MaxStarts
  BY <1>1, <1>2, ConnectionAssumption DEF ConnTypes
<1>5. ConnTypes'
  BY <1>1, <1>2, <1>3, <1>4 DEF ConnTypes
<1>6. Jobs' /\ job'[c] = j
  BY <1>1, <1>2, ConnGoes
<1>7. StepIsSound(c)'
  BY <1>6 DEF StepIsSound
<1>8. CN!Loaded' = CN!Loaded /\ CN!Readable' = CN!Readable
  BY <1>1, LoadedRests
<1>9. ids <= ids'
  BY <1>1, <1>2, ConnectionAssumption DEF ConnTypes
<1>10. ~hostsOverlapped => HostsAreSound'
  BY <1>1, <1>5, <1>7, <1>8, <1>9, FileStays
<1>11. HostsAreSound'
  BY <1>1, <1>10 DEF HostsAreSound
<1>. QED  BY <1>3, <1>5, <1>6, <1>11 DEF ConnInv

LEMMA ConnEnds ==
    ASSUME ConnInv, NEW c \in Commands, CN!End(c), job[c].at # "idle",
           UNCHANGED <<hostsFile, tmp, content, keychain, client, ids, starts>>,
           hostsOverlapped' \in BOOLEAN, hostsOverlapped => hostsOverlapped',
           kills' \in 0 .. MaxKills,
           cut \subseteq cut', job[c].at = "keychain" => job[c].id \in cut'
    PROVE  ConnInv'
<1>1. ConnTypes /\ Jobs /\ CN!Goes(c, CN!Idle)
  BY DEF ConnInv, CN!End
<1>2. ClientsKnow' /\ client' \in [Clients -> Hosts]
  BY CommandsDisturb
<1>3. ConnTypes'
  BY <1>1, <1>2 DEF ConnTypes
<1>4. Jobs' /\ job'[c] = CN!Idle
  BY <1>1, ConnGoes, IdleIsOK
<1>5. StepIsSound(c)'
  BY <1>4, IdleIsOK DEF StepIsSound
<1>6. CN!Loaded' = CN!Loaded /\ CN!Readable' = CN!Readable
  BY LoadedRests
<1>7. ids <= ids'
  BY <1>1, ConnectionAssumption DEF ConnTypes
<1>8. ~hostsOverlapped => HostsAreSound'
  <2>1. CN!Idle.at # "keychain" /\ CN!Idle.at \notin {"again", "open", "write", "replace"}
    BY IdleIsOK
  <2>. QED  BY <1>1, <1>3, <1>5, <1>6, <1>7, <2>1, IdleIsOK, FileStays
<1>9. HostsAreSound'
  BY <1>8 DEF HostsAreSound
<1>. QED  BY <1>2, <1>3, <1>4, <1>9 DEF ConnInv

LEMMA ConnGet ==
    ASSUME ConnInv, NEW c \in Commands, CN!Get(c)
    PROVE  ConnInv'
<1>1. /\ job[c].at = "get" /\ ConnTypes /\ Jobs /\ JobOK(job[c])
      /\ UNCHANGED <<hostsFile, tmp, content, keychain, client, ids, starts, kills, cut>>
  BY DEF CN!Get, ConnInv, Jobs
<1>2. CASE CN!Readable /\ CN!Named(job[c].name) # {}
  <2>1. PICK p \in CN!Named(job[c].name) :
          CN!Goes(c, [at |-> "again", what |-> job[c].what, name |-> job[c].name, profile |-> p])
    BY <1>2 DEF CN!Get
  <2>2. hostsOverlapped' = (hostsOverlapped \/ CN!Changing # {})
    BY <1>2 DEF CN!Get, CN!Overlaps
  <2>3. p \in CN!Loaded.profiles /\ p \in CN!Profile
    BY <1>1, <2>1, LoadedIsRegistry DEF CN!Named, CN!Registry
  <2>4. PICK j : /\ CN!Goes(c, j) /\ j.at = "again" /\ j.what = job[c].what
                 /\ j.name = job[c].name /\ j.profile = p
    BY <2>1
  <2>5. JobOK(j)
    BY <1>1, <2>3, <2>4 DEF JobOK
  <2>6. hostsOverlapped' \in BOOLEAN
    BY <1>1, <2>2, Zenon DEF ConnTypes
  <2>7. ClientsKnow' /\ client' \in [Clients -> Hosts]
    BY <1>1, CommandsDisturb
  <2>8. ConnTypes'
    BY <1>1, <2>6, <2>7 DEF ConnTypes
  <2>9. Jobs' /\ job'[c] = j
    BY <1>1, <2>4, <2>5, ConnGoes
  <2>10. CN!Loaded' = CN!Loaded /\ CN!Readable' = CN!Readable
    BY <1>1, LoadedRests
  <2>11. StepIsSound(c)'
    BY <2>3, <2>4, <2>9, <2>10 DEF StepIsSound
  <2>12. ids <= ids'
    BY <1>1, ConnectionAssumption DEF ConnTypes
  <2>13. ~hostsOverlapped' => HostsAreSound'
    <3> SUFFICES ASSUME ~hostsOverlapped' PROVE HostsAreSound'
      OBVIOUS
    <3>1. ~hostsOverlapped /\ CN!Changing \ {c} = {}
      BY <2>2, Zenon
    <3>. QED  BY <1>1, <2>4, <2>5, <2>8, <2>10, <2>11, <2>12, <3>1, FileStays
  <2>14. HostsAreSound'
    BY <2>13 DEF HostsAreSound
  <2>. QED  BY <2>7, <2>8, <2>9, <2>14 DEF ConnInv
<1>3. CASE ~(CN!Readable /\ CN!Named(job[c].name) # {})
  <2>1. CN!End(c) /\ hostsOverlapped' = hostsOverlapped
    BY <1>3 DEF CN!Get
  <2>. QED  BY <1>1, <2>1, ConnEnds DEF ConnTypes
<1>. QED  BY <1>2, <1>3

LEMMA ConnKill ==
    ASSUME ConnInv, NEW c \in Commands, CN!Kill(c)
    PROVE  ConnInv'
<1>1. /\ job[c].at # "idle" /\ CN!End(c) /\ kills < MaxKills /\ kills' = kills + 1
      /\ cut' = IF job[c].at = "keychain" THEN cut \cup {job[c].id} ELSE cut
      /\ UNCHANGED <<hostsFile, tmp, content, keychain, client, ids, starts, hostsOverlapped>>
  BY DEF CN!Kill
<1>2. kills' \in 0 .. MaxKills /\ hostsOverlapped \in BOOLEAN
  BY <1>1, ConnectionAssumption DEF ConnInv, ConnTypes
<1>3. cut \subseteq cut' /\ (job[c].at = "keychain" => job[c].id \in cut')
  BY <1>1
<1>. QED  BY <1>1, <1>2, <1>3, ConnEnds

\* A profile takes the place of the one with its id, which is the one with its name.
LEMMA SavedFollows ==
    ASSUME NEW e \in CN!Registry, NEW n \in Nat, NEW m \in Nat, n <= m, Sound(e, n),
           NEW p \in CN!Profile, p.id <= m, \A q \in e.profiles : q.name = p.name <=> q.id = p.id,
           NEW d \in CN!Registry, d.active = p.id,
           d.profiles = {q \in e.profiles : q.id # p.id} \cup {p}
    PROVE  /\ Sound(d, m) /\ p \in d.profiles
           /\ \A q : q.id # p.id => (q \in d.profiles <=> q \in e.profiles)
<1>1. Sound(e, m)
  BY SoundGrows
<1>2. /\ \A q, r \in e.profiles : q.name = r.name \/ q.id = r.id => q = r
      /\ \A q \in e.profiles : q.id <= m
  BY <1>1 DEF Sound
<1>3. \A q, r \in d.profiles : q.name = r.name \/ q.id = r.id => q = r
  BY <1>2
<1>4. \A q \in d.profiles : q.id <= m
  BY <1>2
<1>5. d.active \in {q.id : q \in d.profiles}
  OBVIOUS
<1>6. Sound(d, m)
  BY <1>3, <1>4, <1>5 DEF Sound
<1>. QED  BY <1>6

LEMMA RemovedFollows ==
    ASSUME NEW e \in CN!Registry, NEW n \in Nat, Sound(e, n), NEW i \in Nat,
           NEW d \in CN!Registry,
           d.active = IF e.active = i THEN CN!NoneIsActive ELSE e.active,
           d.profiles = {q \in e.profiles : q.id # i}
    PROVE  /\ Sound(d, n) /\ \A q \in d.profiles : q.id # i
           /\ \A q : q.id # i => (q \in d.profiles <=> q \in e.profiles)
<1>1. /\ \A q, r \in d.profiles : q.name = r.name \/ q.id = r.id => q = r
      /\ \A q \in d.profiles : q.id <= n
  BY DEF Sound
<1>2. d.active \in {CN!NoneIsActive, CN!Auto} \cup {q.id : q \in d.profiles}
  BY DEF Sound
<1>3. Sound(d, n)
  BY <1>1, <1>2 DEF Sound
<1>. QED  BY <1>3

LEMMA SwitchedFollows ==
    ASSUME NEW e \in CN!Registry, NEW n \in Nat, Sound(e, n),
           NEW a \in {CN!NoneIsActive, CN!Auto} \cup {q.id : q \in e.profiles}
    PROVE  LET d == [e EXCEPT !.active = a]
           IN  d \in CN!Registry /\ d.profiles = e.profiles /\ Sound(d, n)
<1>. DEFINE d == [e EXCEPT !.active = a]
<1>1. a \in CN!Ids \cup {CN!NoneIsActive, CN!Auto}
  BY DEF CN!Registry, CN!Profile
<1>2. d \in CN!Registry /\ d.profiles = e.profiles /\ d.active = a
  BY <1>1 DEF CN!Registry
<1>. HIDE DEF d
<1>3. Sound(d, n)
  BY <1>2 DEF Sound
<1>. QED  BY <1>2, <1>3 DEF d

\* What load and select, remove and the modes make of the file.
LEMMA ChangedFollows ==
    ASSUME ConnTypes, Sound(CN!Loaded, ids), NEW c \in Commands, JobOK(job[c]),
           job[c].at \in {"load", "again"},
           NEW p,
           p = IF job[c].what = "save" THEN CN!Saved(job[c], CN!IdOf(job[c].name))
               ELSE IF job[c].what \in {"use", "remove"} THEN job[c].profile
               ELSE [id |-> 0],
           job[c].what = "save" => p.id \in CN!Ids,
           job[c].at = "again" => p \in CN!Loaded.profiles,
           NEW m, m = IF p.id > ids THEN p.id ELSE ids,
           NEW j, j.what = job[c].what, j.id = p.id,
           job[c].what = "save" => j.token = job[c].endpoint
    PROVE  Follows(j, CN!Changed(job[c], p), CN!Loaded, m)
<1>. DEFINE e == CN!Loaded
            d == CN!Changed(job[c], p)
            w == job[c].what
            rest == {q \in e.profiles : q.id # p.id}
<1>1. e \in CN!Registry /\ ids \in Nat /\ MaxIds \in Nat /\ Sound(e, ids)
  BY LoadedIsRegistry, ConnectionAssumption DEF ConnTypes
<1>2. e.profiles \subseteq CN!Profile /\ \A q \in CN!Profile : q.id \in Nat /\ q.id \in CN!Ids
  BY <1>1 DEF CN!Registry, CN!Profile, CN!Ids
<1>3. w \in Whats /\ (w \in {"use", "remove"} => job[c].at = "again")
  BY DEF JobOK, Whats
<1>4. CASE w = "save"
  <2>1. p = [id |-> CN!IdOf(job[c].name), name |-> job[c].name, endpoint |-> job[c].endpoint]
    BY <1>4 DEF CN!Saved
  <2>2. job[c].name \in Names /\ job[c].endpoint \in Endpoints
    BY <1>4 DEF JobOK
  <2>3. /\ p.id = CN!IdOf(job[c].name) /\ p.name = job[c].name /\ p.endpoint = job[c].endpoint
        /\ p \in CN!Profile
    BY <1>4, <2>1, <2>2 DEF CN!Profile
  <2>4. d = [active |-> p.id, profiles |-> rest \cup {p}]
    BY <1>4 DEF CN!Changed
  <2>5. d \in CN!Registry /\ d.active = p.id /\ d.profiles = rest \cup {p}
    BY <1>2, <2>3, <2>4 DEF CN!Registry
  <2>6. m \in Nat /\ ids <= m /\ p.id <= m
    BY <1>1, <1>2, <2>3
  <2>7. \A q \in e.profiles : q.name = p.name <=> q.id = p.id
    <3>1. CASE CN!Named(p.name) = {}
      <4>1. p.id = ids + 1
        BY <2>3, <3>1 DEF CN!IdOf
      <4>2. \A q \in e.profiles : q.name # p.name /\ q.id <= ids /\ q.id \in Nat
        BY <1>1, <1>2, <3>1 DEF CN!Named, Sound
      <4>. QED  BY <1>1, <4>1, <4>2
    <3>2. CASE CN!Named(p.name) # {}
      <4>1. PICK r \in CN!Named(p.name) : p.id = r.id
        BY <2>3, <3>2, Zenon DEF CN!IdOf
      <4>2. r \in e.profiles /\ r.name = p.name
        BY <4>1 DEF CN!Named
      <4>. QED  BY <1>1, <4>1, <4>2 DEF Sound
    <3>. QED  BY <3>1, <3>2
  <2>. HIDE DEF d, e
  <2>8. /\ Sound(d, m) /\ p \in d.profiles
        /\ \A q : q.id # p.id => (q \in d.profiles <=> q \in e.profiles)
    BY <1>1, <2>3, <2>5, <2>6, <2>7, SavedFollows
  <2>. QED  BY <1>4, <2>3, <2>8 DEF Follows, KeyComes, d, e
<1>5. CASE w \in {"use", "remove"}
  <2>1. p \in e.profiles /\ p.id \in Nat /\ p.id <= ids
    BY <1>1, <1>2, <1>3, <1>5 DEF Sound
  <2>2. m = ids
    BY <1>1, <2>1
  <2>3. CASE w = "use"
    <3>1. d = [e EXCEPT !.active = p.id]
      BY <2>3 DEF CN!Changed
    <3>2. p.id \in {CN!NoneIsActive, CN!Auto} \cup {q.id : q \in e.profiles}
      BY <2>1
    <3>. HIDE DEF d, e
    <3>3. d.profiles = e.profiles /\ Sound(d, ids)
      BY <1>1, <3>1, <3>2, SwitchedFollows
    <3>. QED  BY <2>2, <2>3, <3>3 DEF Follows, KeyComes, d, e
  <2>4. CASE w = "remove"
    <3>1. d = [active |-> IF e.active = p.id THEN CN!NoneIsActive ELSE e.active,
               profiles |-> rest]
      BY <2>4 DEF CN!Changed
    <3>2. /\ d \in CN!Registry /\ d.profiles = rest
          /\ d.active = IF e.active = p.id THEN CN!NoneIsActive ELSE e.active
      BY <1>1, <3>1 DEF CN!Registry
    <3>. HIDE DEF d, e
    <3>3. /\ Sound(d, ids) /\ \A q \in d.profiles : q.id # p.id
          /\ \A q : q.id # p.id => (q \in d.profiles <=> q \in e.profiles)
      BY <1>1, <2>1, <3>2, RemovedFollows
    <3>. QED  BY <2>2, <2>4, <3>3 DEF Follows, KeyComes, d, e
  <2>. QED  BY <1>5, <2>3, <2>4
<1>6. CASE w \in {"auto", "local"}
  <2>1. p = [id |-> 0] /\ p.id = 0
    BY <1>6
  <2>2. m = ids
    BY <1>1, <2>1
  <2>3. PICK a \in {CN!NoneIsActive, CN!Auto} : d = [e EXCEPT !.active = a]
    BY <1>6 DEF CN!Changed
  <2>. HIDE DEF d, e
  <2>4. d.profiles = e.profiles /\ Sound(d, ids)
    BY <1>1, <2>3, SwitchedFollows
  <2>. QED  BY <1>6, <2>2, <2>4 DEF Follows, KeyComes, d, e
<1>. QED  BY <1>3, <1>4, <1>5, <1>6 DEF Whats

LEMMA ChangedIsRegistry ==
    ASSUME ConnTypes, NEW c \in Commands, JobOK(job[c]), job[c].at \in {"load", "again"},
           NEW p,
           p = IF job[c].what = "save" THEN CN!Saved(job[c], CN!IdOf(job[c].name))
               ELSE IF job[c].what \in {"use", "remove"} THEN job[c].profile
               ELSE [id |-> 0],
           job[c].what = "save" => p.id \in CN!Ids
    PROVE  /\ CN!Changed(job[c], p) \in CN!Registry
           /\ p.id \in 0 .. MaxIds
           /\ job[c].what \in {"save", "use", "remove"} => p.id \in CN!Ids
<1>. DEFINE w == job[c].what
<1>1. CN!Loaded \in CN!Registry /\ MaxIds \in Nat
  BY LoadedIsRegistry, ConnectionAssumption
<1>2. PICK e \in CN!Registry : e = CN!Loaded
  BY <1>1
<1>3. /\ e.active \in CN!Ids \cup {CN!NoneIsActive, CN!Auto} /\ e.profiles \subseteq CN!Profile
      /\ \A a \in CN!Ids \cup {CN!NoneIsActive, CN!Auto} :
           /\ [e EXCEPT !.active = a] \in CN!Registry
           /\ \A s \in SUBSET CN!Profile : [active |-> a, profiles |-> s] \in CN!Registry
  BY DEF CN!Registry
<1>0. \A i \in CN!Ids : i \in 0 .. MaxIds
  BY <1>1 DEF CN!Ids
<1>4. CASE w = "save"
  <2>1. p = [id |-> CN!IdOf(job[c].name), name |-> job[c].name, endpoint |-> job[c].endpoint]
    BY <1>4 DEF CN!Saved
  <2>2. job[c].name \in Names /\ job[c].endpoint \in Endpoints
    BY <1>4 DEF JobOK
  <2>3. p \in CN!Profile /\ p.id \in CN!Ids
    BY <1>4, <2>1, <2>2 DEF CN!Profile
  <2>4. CN!Changed(job[c], p)
          = [active |-> p.id, profiles |-> {q \in e.profiles : q.id # p.id} \cup {p}]
    BY <1>2, <1>4 DEF CN!Changed
  <2>5. PICK s \in SUBSET CN!Profile : s = {q \in e.profiles : q.id # p.id} \cup {p}
    BY <1>3, <2>3, Zenon
  <2>6. [active |-> p.id, profiles |-> s] \in CN!Registry
    BY <1>3, <2>3, Zenon
  <2>7. CN!Changed(job[c], p) \in CN!Registry
    BY <2>4, <2>5, <2>6, Zenon
  <2>. QED  BY <1>0, <2>3, <2>7
<1>5. CASE w \in {"use", "remove"}
  <2>1. p \in CN!Profile
    BY <1>5 DEF JobOK
  <2>2. p.id \in CN!Ids
    BY <2>1 DEF CN!Profile
  <2>3. CASE w = "use"
    <3>1. CN!Changed(job[c], p) = [e EXCEPT !.active = p.id]
      BY <1>2, <2>3 DEF CN!Changed
    <3>2. CN!Changed(job[c], p) \in CN!Registry
      BY <1>3, <2>2, <3>1
    <3>. QED  BY <1>0, <2>2, <3>2
  <2>4. CASE w = "remove"
    <3>1. CN!Changed(job[c], p)
            = [active |-> IF e.active = p.id THEN CN!NoneIsActive ELSE e.active,
               profiles |-> {q \in e.profiles : q.id # p.id}]
      BY <1>2, <2>4 DEF CN!Changed
    <3>2. {q \in e.profiles : q.id # p.id} \in SUBSET CN!Profile
      BY <1>3
    <3>3. (IF e.active = p.id THEN CN!NoneIsActive ELSE e.active)
            \in CN!Ids \cup {CN!NoneIsActive, CN!Auto}
      BY <1>3
    <3>4. CN!Changed(job[c], p) \in CN!Registry
      BY <1>3, <3>1, <3>2, <3>3, Zenon
    <3>. QED  BY <1>0, <2>2, <3>4
  <2>. QED  BY <1>5, <2>3, <2>4
<1>6. CASE w \in {"auto", "local"}
  <2>1. p = [id |-> 0] /\ p.id = 0
    BY <1>6
  <2>2. PICK a \in {CN!NoneIsActive, CN!Auto} : CN!Changed(job[c], p) = [e EXCEPT !.active = a]
    BY <1>2, <1>6 DEF CN!Changed
  <2>3. [e EXCEPT !.active = a] \in CN!Registry
    BY <1>3
  <2>4. 0 \in 0 .. MaxIds
    BY <1>1
  <2>. QED  BY <1>6, <2>1, <2>2, <2>3, <2>4
<1>. QED  BY <1>4, <1>5, <1>6 DEF JobOK

LEMMA ConnLoad ==
    ASSUME ConnInv, NEW c \in Commands, CN!Load(c)
    PROVE  ConnInv'
<1>. DEFINE w == job[c].what
<1>1. /\ job[c].at \in {"load", "again"} /\ ConnTypes /\ Jobs /\ JobOK(job[c])
      /\ hostsOverlapped' = (hostsOverlapped \/ CN!Changing \ {c} # {})
      /\ UNCHANGED <<hostsFile, tmp, content, keychain, client, starts, kills, cut>>
  BY DEF CN!Load, ConnInv, Jobs
<1>2. PICK p :
        p = IF w = "save" THEN CN!Saved(job[c], CN!IdOf(job[c].name))
            ELSE IF w \in {"use", "remove"} THEN job[c].profile ELSE [id |-> 0]
  BY Zenon
<1>3. hostsOverlapped' \in BOOLEAN
  BY <1>1, Zenon DEF ConnTypes
<1>4. CASE CN!Readable /\ ~(w = "auto" /\ CN!Loaded.profiles = {})
  <2>1. /\ w = "save" => p.id \in CN!Ids
        /\ CN!Goes(c, [at |-> "open", what |-> w, id |-> p.id, data |-> CN!Changed(job[c], p),
                       token |-> IF w = "save" THEN job[c].endpoint ELSE Nobody])
        /\ ids' = IF p.id > ids THEN p.id ELSE ids
    BY <1>2, <1>4 DEF CN!Load
  <2>2. PICK j : /\ CN!Goes(c, j) /\ j.at = "open" /\ j.what = w /\ j.id = p.id
                 /\ j.data = CN!Changed(job[c], p)
                 /\ j.token = IF w = "save" THEN job[c].endpoint ELSE Nobody
    BY <2>1
  <2>3. /\ CN!Changed(job[c], p) \in CN!Registry /\ p.id \in 0 .. MaxIds
        /\ w \in {"save", "use", "remove"} => p.id \in CN!Ids
    BY <1>1, <1>2, <2>1, ChangedIsRegistry
  <2>4. w \in Whats /\ (w = "save" => job[c].endpoint \in Endpoints)
    BY <1>1 DEF JobOK, Whats
  <2>5. JobOK(j)
    BY <2>2, <2>3, <2>4 DEF JobOK, Tokens_
  <2>6. ids' \in 0 .. MaxIds /\ ids <= ids'
    BY <1>1, <2>1, <2>3, ConnectionAssumption DEF ConnTypes
  <2>7. ClientsKnow' /\ client' \in [Clients -> Hosts]
    BY <1>1, CommandsDisturb
  <2>8. ConnTypes'
    BY <1>1, <1>3, <2>6, <2>7 DEF ConnTypes
  <2>9. Jobs' /\ job'[c] = j
    BY <1>1, <2>2, <2>5, ConnGoes
  <2>10. CN!Loaded' = CN!Loaded /\ CN!Readable' = CN!Readable
    BY <1>1, LoadedRests
  <2>11. ASSUME ~hostsOverlapped' PROVE HostsAreSound'
    <3>1. /\ ~hostsOverlapped /\ CN!Changing \ {c} = {}
          /\ FileIsSound /\ StepIsSound(c)
      BY <1>1, <2>11, Zenon DEF ConnInv, HostsAreSound
    <3>2. job[c].at = "again" => p \in CN!Loaded.profiles
      BY <1>1, <1>2, <3>1 DEF StepIsSound, JobOK
    <3>3. Follows(j, CN!Changed(job[c], p), CN!Loaded, ids')
      BY <1>1, <1>2, <2>1, <2>2, <3>1, <3>2, ChangedFollows DEF FileIsSound
    <3>4. StepIsSound(c)'
      BY <2>2, <2>9, <2>10, <3>3 DEF StepIsSound
    <3>. QED  BY <1>1, <2>2, <2>5, <2>6, <2>8, <2>10, <3>1, <3>4, FileStays
  <2>12. HostsAreSound'
    BY <2>11 DEF HostsAreSound
  <2>. QED  BY <2>7, <2>8, <2>9, <2>12 DEF ConnInv
<1>5. CASE ~(CN!Readable /\ ~(w = "auto" /\ CN!Loaded.profiles = {}))
  <2>1. CN!End(c) /\ ids' = ids
    BY <1>5 DEF CN!Load
  <2>2. kills' \in 0 .. MaxKills
    BY <1>1 DEF ConnTypes
  <2>. QED  BY <1>1, <1>3, <2>1, <2>2, ConnEnds, Zenon
<1>. QED  BY <1>4, <1>5

\* There is a file for the temporary name: no command has more than one open.
LEMMA TargetIsFree ==
    ASSUME ConnTypes, Jobs
    PROVE  /\ CN!Target \in CN!Inodes /\ CN!Target \notin {Nobody, hostsFile}
           /\ tmp # Nobody => CN!Target = tmp
<1>0. /\ Nobody \notin CN!Inodes /\ IsFiniteSet(Commands)
      /\ "first" \notin Commands /\ "second" \notin Commands
  BY ConnectionAssumption DEF CN!Inodes
<1>1. CASE tmp # Nobody
  BY <1>0, <1>1 DEF ConnTypes, CN!Target
<1>2. CASE tmp = Nobody
  <2>. DEFINE W  == {d \in Commands : job[d].at = "write"}
              F  == {job[d].fd : d \in W}
              fd == [d \in W |-> job[d].fd]
              S  == Commands \cup {"first"} \cup {"second"}
  <2>1. IsFiniteSet(W) /\ Cardinality(W) <= Cardinality(Commands)
    BY <1>0, FS_Subset
  <2>2. fd \in Surjection(W, F)
    BY DEF Surjection
  <2>3. IsFiniteSet(F) /\ Cardinality(F) <= Cardinality(W)
    BY <2>1, <2>2, FS_Surjection
  <2>4. /\ IsFiniteSet(F \cup {hostsFile})
        /\ Cardinality(F \cup {hostsFile}) <= Cardinality(F) + 1
    <3>. HIDE DEF F
    <3>1. /\ IsFiniteSet(F \cup {hostsFile})
          /\ Cardinality(F \cup {hostsFile}) = IF hostsFile \in F THEN Cardinality(F)
                                               ELSE Cardinality(F) + 1
      BY <2>3, FS_AddElement
    <3>2. Cardinality(F) \in Nat
      BY <2>3, FS_CardinalityType
    <3>. QED  BY <3>1, <3>2
  <2>5. /\ IsFiniteSet(Commands \cup {"first"})
        /\ Cardinality(Commands \cup {"first"}) = Cardinality(Commands) + 1
    BY <1>0, FS_AddElement
  <2>6. Cardinality(S) = Cardinality(Commands \cup {"first"}) + 1
    BY <1>0, <2>5, FS_AddElement, Zenon
  <2>7. Cardinality(Commands) \in Nat /\ Cardinality(W) \in Nat /\ Cardinality(F) \in Nat
        /\ Cardinality(F \cup {hostsFile}) \in Nat
    BY <1>0, <2>1, <2>3, <2>4, FS_CardinalityType
  <2>8. ~(S \subseteq F \cup {hostsFile})
    <3> SUFFICES ASSUME S \subseteq F \cup {hostsFile} PROVE FALSE
      OBVIOUS
    <3>1. Cardinality(S) <= Cardinality(F \cup {hostsFile})
      BY <2>4, FS_Subset
    <3>. HIDE DEF S, F, W
    <3>. QED  BY <2>1, <2>3, <2>4, <2>5, <2>6, <2>7, <3>1
  <2>9. \E f \in CN!Inodes : f \notin CN!InUse
    BY <1>0, <1>2, <2>8 DEF CN!Inodes, CN!InUse
  <2>10. CN!Target \in CN!Inodes /\ CN!Target \notin CN!InUse
    BY <1>2, <2>9 DEF CN!Target
  <2>. QED  BY <1>2, <2>10 DEF CN!InUse
<1>. QED  BY <1>1, <1>2

LEMMA ConnOpen ==
    ASSUME ConnInv, NEW c \in Commands, CN!Open(c)
    PROVE  ConnInv'
<1>. DEFINE f == CN!Target
<1>1. /\ job[c].at = "open" /\ ConnTypes /\ Jobs /\ JobOK(job[c])
      /\ tmp' = f /\ content' = [content EXCEPT ![f] = CN!Empty]
      /\ CN!Goes(c, [at |-> "write", what |-> job[c].what, id |-> job[c].id,
                     data |-> job[c].data, token |-> job[c].token, fd |-> f])
      /\ UNCHANGED <<hostsFile, keychain, client, ids, starts, kills, hostsOverlapped, cut>>
  BY DEF CN!Open, ConnInv, Jobs
<1>2. f \in CN!Inodes /\ f \notin {Nobody, hostsFile}
  BY <1>1, TargetIsFree
<1>. HIDE DEF f
<1>3. PICK j : /\ CN!Goes(c, j) /\ j.at = "write" /\ j.what = job[c].what /\ j.id = job[c].id
               /\ j.data = job[c].data /\ j.token = job[c].token /\ j.fd = f
  BY <1>1
<1>4. JobOK(j)
  BY <1>1, <1>2, <1>3 DEF JobOK
<1>5. ClientsKnow' /\ client' \in [Clients -> Hosts]
  BY <1>1, CommandsDisturb
<1>6. CN!Empty \in [whole : BOOLEAN, data : CN!Registry]
  BY NoneIsSound DEF CN!Empty
<1>7. /\ content' \in [CN!Inodes -> [whole : BOOLEAN, data : CN!Registry]]
      /\ content'[f] = CN!Empty /\ \A g \in CN!Inodes : g # f => content'[g] = content[g]
  BY <1>1, <1>2, <1>6 DEF ConnTypes
<1>8. ConnTypes'
  BY <1>1, <1>2, <1>5, <1>7 DEF ConnTypes
<1>9. Jobs' /\ job'[c] = j
  BY <1>1, <1>3, <1>4, ConnGoes
<1>10. CN!Loaded' = CN!Loaded /\ CN!Readable' = CN!Readable
  BY <1>1, <1>2, <1>7, LoadedRests DEF ConnTypes
<1>11. ASSUME ~hostsOverlapped PROVE HostsAreSound'
  <2>1. CN!Changing \ {c} = {} /\ StepIsSound(c)
    BY <1>1, <1>11 DEF ConnInv, HostsAreSound, OneIsChanging, CN!Changing
  <2>2. Follows(job[c], job[c].data, CN!Loaded, ids)
    BY <1>1, <2>1 DEF StepIsSound
  <2>3. Follows(j, j.data, CN!Loaded, ids)
    BY <1>3, <2>2 DEF Follows, KeyComes
  <2>4. StepIsSound(c)'
    BY <1>1, <1>2, <1>3, <1>7, <1>9, <1>10, <2>3 DEF StepIsSound, CN!Empty
  <2>5. ids <= ids'
    BY <1>1, ConnectionAssumption DEF ConnTypes
  <2>. QED  BY <1>1, <1>3, <1>4, <1>8, <1>10, <1>11, <2>1, <2>4, <2>5, FileStays
<1>12. HostsAreSound'
  BY <1>1, <1>11 DEF HostsAreSound
<1>. QED  BY <1>5, <1>8, <1>9, <1>12 DEF ConnInv

LEMMA ConnWriteText ==
    ASSUME ConnInv, NEW c \in Commands, CN!WriteText(c)
    PROVE  ConnInv'
<1>. DEFINE fd == job[c].fd
<1>1. /\ job[c].at = "write" /\ ConnTypes /\ Jobs /\ JobOK(job[c])
      /\ CN!Goes(c, [at |-> "replace", what |-> job[c].what, id |-> job[c].id,
                     token |-> job[c].token])
      /\ client' = client \/ CN!Disturbs
      /\ UNCHANGED <<hostsFile, tmp, keychain, ids, starts, kills, hostsOverlapped, cut>>
  BY DEF CN!WriteText, ConnInv, Jobs
<1>2. /\ fd \in CN!Inodes /\ job[c].data \in CN!Registry
  BY <1>1 DEF JobOK
<1>3. PICK new \in {CN!Whole(job[c].data)}
                    \cup (IF content[fd] \in {CN!Empty, CN!Whole(job[c].data)} THEN {}
                          ELSE {CN!Empty}) :
        content' = [content EXCEPT ![fd] = new]
  BY Zenon DEF CN!WriteText
<1>4. PICK j : /\ CN!Goes(c, j) /\ j \in Pending /\ j.at = "replace" /\ j.what = job[c].what
               /\ j.id = job[c].id /\ j.token = job[c].token
  <2>1. /\ job[c].what \in Whats /\ job[c].id \in 0 .. MaxIds /\ job[c].token \in Tokens_
    BY <1>1 DEF JobOK
  <2>. QED  BY <1>1, <2>1 DEF Pending
<1>5. JobOK(j)
  BY <1>1, <1>4 DEF JobOK
<1>6. ClientsKnow' /\ client' \in [Clients -> Hosts]
  BY <1>1, CommandsDisturb
<1>7. /\ CN!Empty \in [whole : BOOLEAN, data : CN!Registry]
      /\ CN!Whole(job[c].data) \in [whole : BOOLEAN, data : CN!Registry]
      /\ CN!Whole(job[c].data).whole /\ CN!Whole(job[c].data).data = job[c].data
  BY <1>2, NoneIsSound DEF CN!Empty, CN!Whole
<1>8. new \in [whole : BOOLEAN, data : CN!Registry]
  BY <1>3, <1>7
<1>9. /\ content' \in [CN!Inodes -> [whole : BOOLEAN, data : CN!Registry]]
      /\ content'[fd] = new /\ \A g \in CN!Inodes : g # fd => content'[g] = content[g]
  BY <1>1, <1>2, <1>3, <1>8 DEF ConnTypes
<1>10. ConnTypes'
  BY <1>1, <1>6, <1>9 DEF ConnTypes
<1>11. Jobs' /\ job'[c] = j
  BY <1>1, <1>4, <1>5, ConnGoes
<1>12. ASSUME ~hostsOverlapped PROVE HostsAreSound'
  <2>1. CN!Changing \ {c} = {} /\ StepIsSound(c)
    BY <1>1, <1>12 DEF ConnInv, HostsAreSound, OneIsChanging, CN!Changing
  <2>2. /\ Follows(job[c], job[c].data, CN!Loaded, ids)
        /\ tmp # Nobody /\ fd = tmp /\ content[fd] = CN!Empty
    BY <1>1, <2>1 DEF StepIsSound
  <2>3. new = CN!Whole(job[c].data)
    BY <1>3, <2>2
  <2>4. CN!Loaded' = CN!Loaded /\ CN!Readable' = CN!Readable
    <3>1. hostsFile # Nobody => content'[hostsFile] = content[hostsFile]
      BY <1>1, <1>9, <2>2 DEF ConnTypes
    <3>. QED  BY <1>1, <3>1, LoadedRests
  <2>5. Follows(j, job[c].data, CN!Loaded, ids)
    BY <1>4, <2>2 DEF Follows, KeyComes
  <2>6. content'[tmp'].whole /\ content'[tmp'].data = job[c].data /\ tmp' # Nobody
    BY <1>1, <1>7, <1>9, <2>2, <2>3
  <2>7. StepIsSound(c)'
    BY <1>1, <1>4, <1>11, <2>4, <2>5, <2>6 DEF StepIsSound
  <2>8. ids <= ids'
    BY <1>1, ConnectionAssumption DEF ConnTypes
  <2>. QED  BY <1>1, <1>4, <1>5, <1>10, <1>12, <2>1, <2>4, <2>7, <2>8, FileStays
<1>13. HostsAreSound'
  BY <1>1, <1>12 DEF HostsAreSound
<1>. QED  BY <1>6, <1>10, <1>11, <1>13 DEF ConnInv

\* A renaming changes what the file says of one profile, and meets who is at the Keychain
\* about it.
LEMMA RenamingIsSound ==
    ASSUME ConnInv, Jobs', NEW c \in Commands, job[c].at = "replace", ~hostsOverlapped,
           tmp # Nobody, hostsFile' = tmp, UNCHANGED <<content, keychain, ids>>,
           cut' = cut \cup ({job[c].id} \cap {job[d].id : d \in CN!AtKeychain}),
           \A d \in Commands \ {c} : job'[d] = job[d],
           IF job[c].what \in {"save", "remove"}
           THEN /\ job'[c].at = "keychain" /\ job'[c].what = job[c].what
                /\ job'[c].id = job[c].id /\ job'[c].token = job[c].token
           ELSE job'[c].at = "idle"
    PROVE  HostsAreSound'
<1>. DEFINE i == job[c].id
            d == content[tmp].data
<1>1. /\ OneIsChanging /\ FileIsSound /\ KeysFollow /\ Jobs /\ ConnTypes
      /\ \A e \in Commands : StepIsSound(e) /\ KeyIsSound(e)
  BY DEF ConnInv, HostsAreSound
<1>2. content[tmp].whole /\ Follows(job[c], d, CN!Loaded, ids)
  BY <1>1 DEF StepIsSound
<1>3. /\ Sound(d, ids) /\ KeyComes(job[c], d)
      /\ \A q : q.id # i => (q \in d.profiles <=> q \in CN!Loaded.profiles)
      /\ job[c].what \notin {"save", "remove"} => d.profiles = CN!Loaded.profiles
  BY <1>2 DEF Follows
<1>4. CN!Loaded' = d /\ CN!Readable'
  BY <1>2 DEF CN!Loaded, CN!Readable
<1>. HIDE DEF d
<1>5. PICK e : e = CN!Loaded
  OBVIOUS
<1>6. \A q : q.id # i => (q \in d.profiles <=> q \in e.profiles)
  BY <1>3, <1>5
<1>7. \A b \in Commands : b \in CN!Changing => b = c
  BY <1>1 DEF OneIsChanging, CN!Changing
<1>8. \A b \in Commands : b \notin CN!Changing'
  BY <1>7 DEF CN!Changing
<1>9. OneIsChanging' /\ \A b \in Commands : StepIsSound(b)'
  BY <1>8 DEF OneIsChanging, StepIsSound, CN!Changing
<1>10. FileIsSound'
  BY <1>3, <1>4 DEF FileIsSound
<1>11. ASSUME NEW n \in CN!Ids
       PROVE  \/ n \in cut' \/ \E b \in CN!AtKeychain' : job'[b].id = n
              \/ \E p \in d.profiles : p.id = n /\ keychain'[n] = p.endpoint
              \/ keychain'[n] = Nobody /\ \A p \in d.profiles : p.id # n
  <2>1. \/ n \in cut \/ \E b \in CN!AtKeychain : job[b].id = n
        \/ \E p \in e.profiles : p.id = n /\ keychain[n] = p.endpoint
        \/ keychain[n] = Nobody /\ \A p \in e.profiles : p.id # n
    BY <1>1, <1>5 DEF KeysFollow
  <2>2. \A b \in CN!AtKeychain : b \in CN!AtKeychain' /\ job'[b].id = job[b].id
    BY DEF CN!AtKeychain
  <2>3. CASE n = i /\ job[c].what \in {"save", "remove"}
    BY <2>3 DEF CN!AtKeychain
  <2>4. CASE job[c].what \notin {"save", "remove"}
    BY <1>3, <1>5, <2>1, <2>2, <2>4
  <2>5. CASE n # i
    BY <1>6, <2>1, <2>2, <2>5
  <2>. QED  BY <2>3, <2>4, <2>5
<1>12. KeysFollow'
  BY <1>4, <1>11 DEF KeysFollow
<1>13. ASSUME NEW b \in Commands, job'[b].at = "keychain", job'[b].id \notin cut'
       PROVE  /\ KeyComes(job'[b], d)
              /\ \A g \in Commands :
                   job'[g].at = "keychain" /\ job'[g].id = job'[b].id => g = b
  <2>1. CASE b = c
    <3>1. job'[c].id = i /\ job'[c].what = job[c].what /\ job'[c].token = job[c].token
      BY <1>13, <2>1
    <3>2. KeyComes(job'[c], d)
      BY <1>3, <3>1 DEF KeyComes
    <3>3. \A g \in Commands : job[g].at = "keychain" => job[g].id # i
      BY <1>13, <2>1, <3>1 DEF CN!AtKeychain
    <3>. QED  BY <2>1, <3>1, <3>2, <3>3
  <2>2. CASE b # c
    <3>1. job'[b] = job[b] /\ job[b].at = "keychain" /\ job[b].id \notin cut /\ job[b].id # i
      BY <1>13, <2>2 DEF CN!AtKeychain
    <3>2. /\ KeyComes(job[b], e)
          /\ \A g \in Commands : job[g].at = "keychain" /\ job[g].id = job[b].id => g = b
      BY <1>1, <1>5, <3>1 DEF KeyIsSound
    <3>3. KeyComes(job[b], d)
      BY <1>6, <3>1, <3>2 DEF KeyComes
    <3>. QED  BY <3>1, <3>2, <3>3
  <2>. QED  BY <2>1, <2>2
<1>14. \A b \in Commands : KeyIsSound(b)'
  BY <1>4, <1>13 DEF KeyIsSound
<1>. QED  BY <1>9, <1>10, <1>12, <1>14 DEF HostsAreSound

LEMMA ConnReplace ==
    ASSUME ConnInv, NEW c \in Commands, CN!Replace(c)
    PROVE  ConnInv'
<1>1. /\ job[c].at = "replace" /\ ConnTypes /\ Jobs /\ JobOK(job[c])
      /\ UNCHANGED <<content, keychain, ids, starts, kills, hostsOverlapped>>
  BY DEF CN!Replace, ConnInv, Jobs
<1>2. CASE tmp = Nobody
  <2>1. CN!End(c) /\ UNCHANGED <<hostsFile, tmp, client, cut>>
    BY <1>2 DEF CN!Replace
  <2>2. kills' \in 0 .. MaxKills /\ hostsOverlapped' \in BOOLEAN
    BY <1>1 DEF ConnTypes
  <2>. QED  BY <1>1, <2>1, <2>2, ConnEnds
<1>3. CASE tmp # Nobody
  <2>1. /\ hostsFile' = tmp /\ tmp' = Nobody /\ CN!Disturbs
        /\ IF job[c].what \in {"save", "remove"}
           THEN CN!Goes(c, [job[c] EXCEPT !.at = "keychain"]) ELSE CN!End(c)
        /\ cut' = cut \cup ({job[c].id} \cap {job[d].id : d \in CN!AtKeychain})
    BY <1>3 DEF CN!Replace
  <2>2. PICK j : /\ CN!Goes(c, j) /\ JobOK(j)
                 /\ IF job[c].what \in {"save", "remove"}
                    THEN /\ j.at = "keychain" /\ j.what = job[c].what
                         /\ j.id = job[c].id /\ j.token = job[c].token
                    ELSE j.at = "idle"
    <3>1. CASE job[c].what \in {"save", "remove"}
      <4>1. PICK r \in Pending : r = job[c]
        BY <1>1 DEF JobOK
      <4>2. PICK j : j = [r EXCEPT !.at = "keychain"]
        BY Zenon
      <4>3. /\ j \in Pending /\ j.at = "keychain" /\ j.what = r.what /\ j.id = r.id
            /\ j.token = r.token
        BY <4>2 DEF Pending
      <4>4. JobOK(j)
        BY <1>1, <3>1, <4>1, <4>3 DEF JobOK
      <4>. QED  BY <2>1, <3>1, <4>1, <4>2, <4>3, <4>4, Zenon
    <3>2. CASE job[c].what \notin {"save", "remove"}
      BY <2>1, <3>2, IdleIsOK DEF CN!End
    <3>. QED  BY <3>1, <3>2
  <2>3. Jobs' /\ job'[c] = j /\ \A d \in Commands \ {c} : job'[d] = job[d]
    BY <1>1, <2>2, ConnGoes
  <2>4. ClientsKnow' /\ client' \in [Clients -> Hosts]
    BY <1>1, <2>1, CommandsDisturb
  <2>5. ConnTypes'
    BY <1>1, <1>3, <2>1, <2>4 DEF ConnTypes
  <2>6. ~hostsOverlapped => HostsAreSound'
    BY <1>1, <1>3, <2>1, <2>2, <2>3, RenamingIsSound
  <2>7. HostsAreSound'
    BY <1>1, <2>6 DEF HostsAreSound
  <2>. QED  BY <2>3, <2>4, <2>5, <2>7 DEF ConnInv
<1>. QED  BY <1>2, <1>3

LEMMA ConnKeychain ==
    ASSUME ConnInv, NEW c \in Commands, CN!Keychain(c)
    PROVE  ConnInv'
<1>. DEFINE i == job[c].id
            t == CN!NewToken(job[c])
<1>1. /\ job[c].at = "keychain" /\ ConnTypes /\ Jobs /\ JobOK(job[c])
      /\ UNCHANGED <<hostsFile, tmp, content, ids, starts, hostsOverlapped>>
  BY DEF CN!Keychain, ConnInv, Jobs
<1>2. CASE /\ kills < MaxKills /\ kills' = kills + 1
           /\ cut' = cut \cup {i} /\ CN!End(c) /\ UNCHANGED <<keychain, client>>
  <2>1. kills' \in 0 .. MaxKills /\ hostsOverlapped' \in BOOLEAN
    BY <1>1, <1>2, ConnectionAssumption DEF ConnTypes
  <2>. QED  BY <1>1, <1>2, <2>1, ConnEnds
<1>3. CASE /\ keychain' = [keychain EXCEPT ![i] = t]
           /\ CN!Goes(c, IF job[c].what = "save"
                         THEN [at |-> "load", what |-> "auto", name |-> Nobody] ELSE CN!Idle)
           /\ CN!Disturbs /\ UNCHANGED <<kills, cut>>
  <2>1. PICK j : CN!Goes(c, j) /\ JobOK(j) /\ j.at \in {"load", "idle"}
    <3>1. JobOK([at |-> "load", what |-> "auto", name |-> Nobody])
      BY DEF JobOK
    <3>. QED  BY <1>3, <3>1, IdleIsOK
  <2>2. Jobs' /\ job'[c] = j /\ \A d \in Commands \ {c} : job'[d] = job[d]
    BY <1>1, <2>1, ConnGoes
  <2>3. ClientsKnow' /\ client' \in [Clients -> Hosts]
    BY <1>1, <1>3, CommandsDisturb
  <2>4. i \in CN!Ids /\ t \in Tokens_ /\ job[c].what \in {"save", "remove"}
    BY <1>1 DEF JobOK, CN!NewToken, Tokens_
  <2>. HIDE DEF t
  <2>5. /\ keychain' \in [CN!Ids -> Tokens_] /\ keychain'[i] = t
        /\ \A n \in CN!Ids : n # i => keychain'[n] = keychain[n]
    BY <1>1, <1>3, <2>4 DEF ConnTypes
  <2>6. ConnTypes'
    BY <1>1, <1>3, <2>3, <2>5 DEF ConnTypes
  <2>7. ASSUME ~hostsOverlapped PROVE HostsAreSound'
    <3>1. /\ OneIsChanging /\ FileIsSound /\ KeysFollow
          /\ \A d \in Commands : StepIsSound(d) /\ KeyIsSound(d)
      BY <2>7 DEF ConnInv, HostsAreSound
    <3>2. CN!Loaded' = CN!Loaded /\ CN!Readable' = CN!Readable
      BY <1>1, LoadedRests
    <3>3. OneIsChanging'
      BY <2>1, <2>2, <3>1 DEF OneIsChanging, CN!Changing
    <3>4. FileIsSound'
      BY <1>1, <3>1, <3>2 DEF FileIsSound
    <3>5. ASSUME NEW d \in Commands PROVE StepIsSound(d)' /\ KeyIsSound(d)'
      <4>1. CASE d = c
        BY <2>1, <2>2, <4>1 DEF StepIsSound, KeyIsSound
      <4>2. CASE d # c
        <5>1. job'[d] = job[d]
          BY <2>2, <4>2
        <5>2. StepIsSound(d)'
          BY <1>1, <3>1, <3>2, <5>1 DEF StepIsSound
        <5>3. KeyIsSound(d)'
          BY <1>3, <2>1, <2>2, <3>1, <3>2, <5>1 DEF KeyIsSound
        <5>. QED  BY <5>2, <5>3
      <4>. QED  BY <4>1, <4>2
    <3>6. PICK e : e = CN!Loaded
      OBVIOUS
    <3>7. ASSUME NEW n \in CN!Ids
          PROVE  \/ n \in cut' \/ \E b \in CN!AtKeychain' : job'[b].id = n
                 \/ \E p \in e.profiles : p.id = n /\ keychain'[n] = p.endpoint
                 \/ keychain'[n] = Nobody /\ \A p \in e.profiles : p.id # n
      <4>1. CASE n = i
        <5>1. i \in cut \/ KeyComes(job[c], e)
          BY <1>1, <3>1, <3>6 DEF KeyIsSound
        <5>2. job[c].what = "save" => t = job[c].token
          BY DEF t, CN!NewToken
        <5>3. job[c].what = "remove" => t = Nobody
          BY DEF t, CN!NewToken
        <5>. QED  BY <1>3, <2>4, <2>5, <4>1, <5>1, <5>2, <5>3 DEF KeyComes
      <4>2. CASE n # i
        <5>1. \A b \in CN!AtKeychain : job[b].id = n => b \in CN!AtKeychain' /\ job'[b].id = n
          BY <2>2, <4>2 DEF CN!AtKeychain
        <5>. QED  BY <1>3, <2>5, <3>1, <3>6, <4>2, <5>1 DEF KeysFollow
      <4>. QED  BY <4>1, <4>2
    <3>8. KeysFollow'
      BY <3>2, <3>6, <3>7 DEF KeysFollow
    <3>. QED  BY <3>3, <3>4, <3>5, <3>8 DEF HostsAreSound
  <2>8. HostsAreSound'
    BY <1>1, <2>7 DEF HostsAreSound
  <2>. QED  BY <2>2, <2>3, <2>6, <2>8 DEF ConnInv
<1>. QED  BY <1>2, <1>3 DEF CN!Keychain

\* A client reads, or ends, while no command moves.
LEMMA ClientStays ==
    ASSUME ConnInv, NEW k \in Clients, NEW h \in Hosts, client' = [client EXCEPT ![k] = h],
           UNCHANGED <<hostsFile, tmp, content, keychain, job, ids, starts, kills,
                       hostsOverlapped, cut>>,
           \/ h.at = "idle" \/ h.disturbed
           \/ /\ CN!UnderWay = {}
              /\ h.at = "token" /\ ~hostsOverlapped => h.endpoint = Expected /\ h.token = Nobody
              /\ h.at = "ready" /\ ~hostsOverlapped /\ cut = {} =>
                   h.token = IF h.endpoint = Local THEN Nobody ELSE h.endpoint
    PROVE  ConnInv'
<1>1. ConnTypes /\ Jobs /\ HostsAreSound /\ ClientsKnow
  BY DEF ConnInv
<1>2. /\ client' \in [Clients -> Hosts] /\ client'[k] = h
      /\ \A l \in Clients : l # k => client'[l] = client[l]
  BY <1>1 DEF ConnTypes
<1>3. ConnTypes' /\ Jobs'
  BY <1>1, <1>2 DEF ConnTypes, Jobs
<1>4. /\ CN!Loaded' = CN!Loaded /\ CN!Readable' = CN!Readable /\ Expected' = Expected
  BY LoadedRests
<1>5. CN!UnderWay' = CN!UnderWay /\ CN!Changing' = CN!Changing /\ CN!AtKeychain' = CN!AtKeychain
  BY DEF CN!UnderWay, CN!Changing, CN!AtKeychain
<1>6. \A c \in Commands : (StepIsSound(c) => StepIsSound(c)') /\ (KeyIsSound(c) => KeyIsSound(c)')
  BY <1>4 DEF StepIsSound, KeyIsSound
<1>7. /\ OneIsChanging => OneIsChanging'
      /\ FileIsSound => FileIsSound'
      /\ KeysFollow => KeysFollow'
  BY <1>4, <1>5 DEF OneIsChanging, FileIsSound, KeysFollow
<1>8. HostsAreSound'
  BY <1>1, <1>6, <1>7 DEF HostsAreSound
<1>9. ASSUME NEW l \in Clients PROVE ClientKnows(l)'
  <2>1. CASE l = k
    <3>1. h.disturbed => h.disturbed = TRUE
      BY DEF Hosts
    <3>. QED  BY <1>2, <1>4, <1>5, <2>1, <3>1 DEF ClientKnows, Disturbed
  <2>2. CASE l # k
    BY <1>1, <1>2, <1>4, <1>5, <2>2 DEF ClientsKnow, ClientKnows, Disturbed
  <2>. QED  BY <2>1, <2>2
<1>. QED  BY <1>3, <1>8, <1>9 DEF ConnInv, ClientsKnow

LEMMA ExpectedIs ==
    ASSUME ConnTypes
    PROVE  /\ CN!Active \subseteq CN!Profile /\ Expected \in Endpoints \cup {Local}
           /\ CN!Active # {} => Expected = (CHOOSE p \in CN!Active : TRUE).endpoint
<1>1. CN!Active \subseteq CN!Profile
  BY LoadedIsRegistry DEF CN!Active, CN!Registry
<1>2. CASE CN!Active # {}
  <2>1. (CHOOSE p \in CN!Active : TRUE) \in CN!Profile
    BY <1>1, <1>2
  <2>2. (CHOOSE p \in CN!Active : TRUE).endpoint \in Endpoints
    BY <2>1 DEF CN!Profile
  <2>. QED  BY <1>1, <1>2, <2>2 DEF Expected
<1>3. CASE CN!Active = {}
  BY <1>1, <1>3 DEF Expected
<1>. QED  BY <1>2, <1>3

LEMMA ConnReadEndpoint ==
    ASSUME ConnInv, NEW k \in Clients, CN!ReadEndpoint(k)
    PROVE  ConnInv'
<1>. DEFINE e == IF CN!Readable /\ CN!Active # {}
                 THEN (CHOOSE p \in CN!Active : TRUE).endpoint ELSE Local
            h == [at |-> "token", token |-> Nobody, disturbed |-> CN!UnderWay # {},
                  endpoint |-> e]
<1>1. /\ client' = [client EXCEPT ![k] = h]
      /\ UNCHANGED <<hostsFile, tmp, content, keychain, job, ids, starts, kills,
                     hostsOverlapped, cut>>
  BY DEF CN!ReadEndpoint
<1>2. ConnTypes
  BY DEF ConnInv
<1>3. e \in Endpoints \cup {Local} /\ (CN!Readable => e = Expected)
  BY <1>2, ExpectedIs DEF Expected
<1>. HIDE DEF e
<1>4. h \in Hosts /\ h.at = "token" /\ h.token = Nobody /\ h.endpoint = e
  BY <1>3 DEF Hosts, Tokens_
<1>5. h.disturbed = (CN!UnderWay # {})
  OBVIOUS
<1>. HIDE DEF h
<1>6. ~hostsOverlapped => CN!Readable
  BY DEF ConnInv, HostsAreSound, FileIsSound
<1>. QED  BY <1>1, <1>3, <1>4, <1>5, <1>6, ClientStays, Zenon

LEMMA ConnReadToken ==
    ASSUME ConnInv, NEW k \in Clients, CN!ReadToken(k)
    PROVE  ConnInv'
<1>1. /\ client[k].at = "token"
      /\ UNCHANGED <<hostsFile, tmp, content, keychain, job, ids, starts, kills,
                     hostsOverlapped, cut>>
  BY DEF CN!ReadToken
<1>2. ConnTypes
  BY DEF ConnInv
<1>3. PICK g \in Hosts : g = client[k]
  BY <1>2 DEF ConnTypes
<1>4. \/ g.disturbed
      \/ /\ CN!UnderWay = {}
         /\ ~hostsOverlapped => g.endpoint = Expected /\ g.token = Nobody
  BY <1>1, <1>3 DEF ConnInv, ClientsKnow, ClientKnows, Disturbed
<1>5. CASE ~CN!Readable
  <2>1. client' = [client EXCEPT ![k] = CN!NoHost]
    BY <1>5 DEF CN!ReadToken
  <2>2. CN!NoHost \in Hosts /\ CN!NoHost.at = "idle"
    BY DEF CN!NoHost, Hosts, Tokens_
  <2>. QED  BY <1>1, <2>1, <2>2, ClientStays, Zenon
<1>6. CASE CN!Readable /\ CN!Active = {}
  <2>1. client' = [client EXCEPT ![k] = [g EXCEPT !.at = "ready"]]
    BY <1>3, <1>6 DEF CN!ReadToken, CN!TokenOf
  <2>2. PICK h : h = [g EXCEPT !.at = "ready"]
    BY Zenon
  <2>3. /\ h \in Hosts /\ h.at = "ready"
        /\ h.endpoint = g.endpoint /\ h.token = g.token /\ h.disturbed = g.disturbed
    BY <2>2 DEF Hosts
  <2>4. Expected = Local
    BY <1>6 DEF Expected
  <2>5. client' = [client EXCEPT ![k] = h]
    BY <2>1, <2>2
  <2>. QED  BY <1>1, <1>4, <2>3, <2>4, <2>5, ClientStays, Zenon
<1>7. CASE CN!Readable /\ CN!Active # {}
  <2>1. PICK p : p = CHOOSE q \in CN!Active : TRUE
    OBVIOUS
  <2>2. client' = [client EXCEPT ![k] = [g EXCEPT !.at = "ready", !.token = keychain[p.id]]]
    BY <1>3, <1>7, <2>1, Zenon DEF CN!ReadToken, CN!TokenOf, CN!Secret
  <2>3. p \in CN!Active /\ p \in CN!Profile /\ Expected = p.endpoint
    BY <1>2, <1>7, <2>1, ExpectedIs
  <2>4. p \in CN!Loaded.profiles /\ p.id \in CN!Ids /\ p.endpoint \in Endpoints
    BY <2>3 DEF CN!Active, CN!Profile
  <2>5. keychain[p.id] \in Tokens_
    BY <1>2, <2>4 DEF ConnTypes
  <2>6. PICK t \in Tokens_ : t = keychain[p.id]
    BY <2>5
  <2>7. PICK h : h = [g EXCEPT !.at = "ready", !.token = t]
    OBVIOUS
  <2>8. /\ h \in Hosts /\ h.at = "ready"
        /\ h.endpoint = g.endpoint /\ h.token = t /\ h.disturbed = g.disturbed
    BY <2>7, Zenon DEF Hosts
  <2>9. client' = [client EXCEPT ![k] = h]
    BY <2>2, <2>6, <2>7
  <2>10. ASSUME CN!UnderWay = {}, ~hostsOverlapped, cut = {} PROVE t = p.endpoint
    <3>1. KeysFollow /\ FileIsSound /\ CN!AtKeychain = {}
      BY <2>10 DEF ConnInv, HostsAreSound, CN!AtKeychain, CN!UnderWay
    <3>2. PICK q \in CN!Loaded.profiles : q.id = p.id /\ keychain[p.id] = q.endpoint
      BY <2>4, <2>10, <3>1 DEF KeysFollow
    <3>3. q = p
      BY <2>4, <3>1, <3>2 DEF FileIsSound, Sound
    <3>. QED  BY <2>6, <3>2, <3>3
  <2>11. p.endpoint # Local
    BY <2>4, ConnectionAssumption
  <2>. QED  BY <1>1, <1>4, <2>3, <2>8, <2>9, <2>10, <2>11, ClientStays, Zenon
<1>. QED  BY <1>5, <1>6, <1>7

LEMMA ConnEndClient ==
    ASSUME ConnInv, NEW k \in Clients, CN!EndClient(k)
    PROVE  ConnInv'
<1>1. CN!NoHost \in Hosts /\ CN!NoHost.at = "idle"
  BY DEF CN!NoHost, Hosts, Tokens_
<1>. QED  BY <1>1, ClientStays, Zenon DEF CN!EndClient

LEMMA ConnStep == ConnInv /\ [Next]_vars => ConnInv'
<1>1. ASSUME ConnInv, NEW c \in Commands, CN!Connect(c) PROVE ConnInv'
  <2>1. PICK name \in Names, e \in Endpoints :
          CN!Starts(c, [at |-> "load", what |-> "save", name |-> name, endpoint |-> e])
    BY <1>1 DEF CN!Connect
  <2>2. PICK j : /\ CN!Starts(c, j) /\ j.at = "load" /\ j.what = "save" /\ j.name = name
                 /\ j.endpoint = e
    BY <2>1
  <2>3. JobOK(j)
    BY <2>2 DEF JobOK
  <2>. QED  BY <1>1, <2>2, <2>3, ConnStarts
<1>2. ASSUME ConnInv, NEW c \in Commands, CN!Use(c) PROVE ConnInv'
  <2>1. ASSUME NEW name \in Names, CN!Starts(c, [at |-> "get", what |-> "use", name |-> name])
        PROVE  ConnInv'
    <3>1. PICK j : CN!Starts(c, j) /\ j.at = "get" /\ j.what = "use" /\ j.name = name
      BY <2>1
    <3>2. JobOK(j)
      BY <3>1 DEF JobOK
    <3>. QED  BY <1>2, <3>1, <3>2, ConnStarts
  <2>2. ASSUME NEW mode \in {"auto", "local"},
               CN!Starts(c, [at |-> "load", what |-> mode, name |-> Nobody])
        PROVE  ConnInv'
    <3>1. PICK j : CN!Starts(c, j) /\ j.at = "load" /\ j.what = mode
      BY <2>2
    <3>2. JobOK(j)
      BY <3>1 DEF JobOK
    <3>. QED  BY <1>2, <3>1, <3>2, ConnStarts
  <2>. QED  BY <1>2, <2>1, <2>2, Zenon DEF CN!Use
<1>3. ASSUME ConnInv, NEW c \in Commands, CN!Disconnect(c) PROVE ConnInv'
  <2>1. PICK name \in Names : CN!Starts(c, [at |-> "get", what |-> "remove", name |-> name])
    BY <1>3 DEF CN!Disconnect
  <2>2. PICK j : CN!Starts(c, j) /\ j.at = "get" /\ j.what = "remove" /\ j.name = name
    BY <2>1
  <2>3. JobOK(j)
    BY <2>2 DEF JobOK
  <2>. QED  BY <1>3, <2>2, <2>3, ConnStarts
<1>4. ASSUME ConnInv, UNCHANGED connectionsVars PROVE ConnInv'
  <2>1. UNCHANGED <<hostsFile, tmp, content, keychain, job, client, ids, starts, kills,
                    hostsOverlapped, cut>>
    BY <1>4 DEF connectionsVars
  <2>2. CN!Loaded' = CN!Loaded /\ CN!Readable' = CN!Readable /\ Expected' = Expected
    BY <2>1, LoadedRests
  <2>3. ConnTypes' /\ Jobs'
    BY <1>4, <2>1 DEF ConnInv, ConnTypes, Jobs
  <2>4. HostsAreSound'
    BY <1>4, <2>1, <2>2 DEF ConnInv, HostsAreSound, OneIsChanging, FileIsSound, KeysFollow,
         StepIsSound, KeyIsSound, CN!Changing, CN!AtKeychain
  <2>5. ClientsKnow'
    BY <1>4, <2>1, <2>2 DEF ConnInv, ClientsKnow, ClientKnows, Disturbed, CN!UnderWay
  <2>. QED  BY <2>3, <2>4, <2>5 DEF ConnInv
<1>5. [Next]_vars => CN!Next \/ UNCHANGED connectionsVars
  BY DEF Next, vars
<1>. QED
  BY <1>1, <1>2, <1>3, <1>4, <1>5, ConnGet, ConnLoad, ConnOpen, ConnWriteText, ConnReplace,
     ConnKeychain, ConnKill, ConnReadEndpoint, ConnReadToken, ConnEndClient DEF CN!Next

-----------------------------------------------------------------------------
(* The theorems.                                                           *)

\* A stream that is taken for whole is whole, a turn that failed leaves nothing in the
\* history and the changes of a session are told as they are, the saved hosts stay whole
\* and each is asked with its own token, and frames are selected from all frames, wherever
\* a reader stops, a command is killed or a call fails (buffered_stream,
\* run_resident_chat, ConnectionStore, TemporalVideoSampler).
THEOREM AdaptersSessionsAreWhole == Spec => []SessionsAreWhole
<1>. DEFINE Inv == BufferInv /\ FramesInv /\ ChatInv /\ ConnInv
<1>1. Inv => SessionsAreWhole
  BY BufferHolds, FramesHold, ChatHolds, ConnHolds DEF SessionsAreWhole
<1>2. Init => Inv
  BY BufferInit, FramesInit, ChatInit, ConnInit
<1>3. Inv /\ [Next]_vars => Inv'
  BY BufferStep, FramesStep, ChatStep, ConnStep
<1>. QED  BY <1>1, <1>2, <1>3, PTL DEF Spec
=============================================================================
