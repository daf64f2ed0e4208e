--------------------------- MODULE MsgQueueProofs ---------------------------
(* Theorems about MsgQueue, for any ring of two slots or more and any finite     *)
(* sets of threads.                                                              *)
EXTENDS MsgQueue, CountingLemmas

-----------------------------------------------------------------------------
(* The arithmetic of the ring. *)

(* The index after a slot, without the remainder. *)
LEMMA FollowingSlot ==
    ASSUME NEW s \in Slot
    PROVE  Following(s) = (IF s = QueueSize - 1 THEN 0 ELSE s + 1) /\ Following(s) \in Slot
  BY QueueSizeAssumption, SMT DEF Following, Slot

(* How many messages the ring holds, and when it is empty or full. *)
LEMMA CountBounds ==
    ASSUME first \in Slot, tail \in Slot
    PROVE  /\ Count \in 0 .. QueueSize - 1
           /\ IsEmpty <=> Count = 0
           /\ IsFull <=> Count = QueueSize - 1
  <1>1. Following(tail) = IF tail = QueueSize - 1 THEN 0 ELSE tail + 1
    BY FollowingSlot
  <1> QED
    BY <1>1, QueueSizeAssumption, SMT DEF Count, IsEmpty, IsFull, Slot

(* A push that finds room adds one message. *)
LEMMA CountAfterPush ==
    ASSUME first \in Slot, tail \in Slot, ~IsFull,
           first' = first, tail' = Following(tail)
    PROVE  Count' = Count + 1
  <1>1. Following(tail) = IF tail = QueueSize - 1 THEN 0 ELSE tail + 1
    BY FollowingSlot
  <1> QED
    BY <1>1, QueueSizeAssumption, SMT DEF Count, IsFull, Slot

(* A pop that finds a message removes one. *)
LEMMA CountAfterPop ==
    ASSUME first \in Slot, tail \in Slot, ~IsEmpty,
           tail' = tail, first' = Following(first)
    PROVE  Count' = Count - 1
  <1>1. Following(first) = IF first = QueueSize - 1 THEN 0 ELSE first + 1
    BY FollowingSlot
  <1> QED
    BY <1>1, QueueSizeAssumption, SMT DEF Count, IsEmpty, Slot

-----------------------------------------------------------------------------
(* Typing. *)

(* pthread_cond_signal only removes threads from the set it wakes one of. *)
LEMMA SignalShrinks ==
    ASSUME NEW sleeping, NEW rest, Signal(sleeping, rest)
    PROVE  rest \subseteq sleeping
  BY DEF Signal

LEMMA InitTypeOK == Init => TypeOK
  BY QueueSizeAssumption, SMT DEF Init, TypeOK, Slot

LEMMA TypeOKPreserved == TypeOK /\ [Next]_vars => TypeOK'
  <1> SUFFICES ASSUME TypeOK, [Next]_vars PROVE TypeOK'
    OBVIOUS
  <1> USE DEF TypeOK
  <1>1. ASSUME NEW p \in Producers, NEW d \in Data, CallPush(p, d) PROVE TypeOK'
    BY <1>1 DEF CallPush, ring, waiters
  <1>2. ASSUME NEW p \in Producers, PushWait(p) PROVE TypeOK'
    BY <1>2 DEF PushWait, ring, calls
  <1>3. ASSUME NEW p \in Producers, Push(p) PROVE TypeOK'
    <2>1. waitWrite' \in SUBSET Consumers
      BY <1>3, SignalShrinks DEF Push
    <2>2. tail' \in Slot
      BY <1>3, FollowingSlot DEF Push
    <2> QED
      BY <1>3, <2>1, <2>2 DEF Push, Pushing
  <1>4. ASSUME NEW c \in Consumers, CallPop(c) PROVE TypeOK'
    BY <1>4 DEF CallPop, ring, waiters
  <1>5. ASSUME NEW c \in Consumers, PopWait(c) PROVE TypeOK'
    BY <1>5 DEF PopWait, ring, calls
  <1>6. ASSUME NEW c \in Consumers, Pop(c) PROVE TypeOK'
    <2>1. waitRead' \in SUBSET Producers
      BY <1>6, SignalShrinks DEF Pop
    <2>2. first' \in Slot
      BY <1>6, FollowingSlot DEF Pop
    <2> QED
      BY <1>6, <2>1, <2>2 DEF Pop
  <1>7. ASSUME NEW c \in Consumers, Peek(c) PROVE TypeOK'
    BY <1>7 DEF Peek, ring, waiters
  <1>8. CASE SpuriousWakeup
    BY <1>8 DEF SpuriousWakeup, ring, calls
  <1>9. CASE UNCHANGED vars
    BY <1>9 DEF vars, ring, calls, waiters
  <1> QED
    BY <1>1, <1>2, <1>3, <1>4, <1>5, <1>6, <1>7, <1>8, <1>9 DEF Next, Producing, Consuming

(* The ring's indices stay inside the array, and every variable keeps its type   *)
(* (msgqueue.c:8-16): type correctness of the queue.                             *)
THEOREM TypeCorrect == Spec => []TypeOK
  BY InitTypeOK, TypeOKPreserved, PTL DEF Spec

-----------------------------------------------------------------------------
(* No wake-up is lost.  The inductive invariant is TypeOK /\ NoLostWakeup: the   *)
(* two counting conjuncts need each other's threads to be inside their calls,    *)
(* and nothing else.                                                             *)

AwakeConsumers == popping \ waitWrite
AwakeProducers == Pushing \ waitRead

LEMMA AwakeFinite ==
    ASSUME TypeOK
    PROVE  /\ IsFiniteSet(AwakeConsumers) /\ Cardinality(AwakeConsumers) \in Nat
           /\ IsFiniteSet(AwakeProducers) /\ Cardinality(AwakeProducers) \in Nat
  <1>1. AwakeConsumers \in SUBSET Consumers /\ AwakeProducers \in SUBSET Producers
    BY DEF TypeOK, AwakeConsumers, AwakeProducers, Pushing
  <1> QED
    BY <1>1, ThreadsAssumption, FS_Subset, FS_CardinalityType

(* The consumers' half holds after a step that adds no message and takes away no *)
(* awake consumer.                                                               *)
LEMMA ConsumersKept ==
    ASSUME TypeOK, TypeOK', NoLostWakeup,
           Count' <= Count,
           waitWrite' \subseteq waitWrite,
           AwakeConsumers \subseteq AwakeConsumers'
    PROVE  ConsumersNotForgotten'
  <1>0. IsFiniteSet(AwakeConsumers')
    <2>1. AwakeConsumers' \in SUBSET Consumers
      BY DEF TypeOK, AwakeConsumers
    <2> QED
      BY <2>1, ThreadsAssumption, FS_Subset
  <1>1. /\ Cardinality(AwakeConsumers) \in Nat /\ Cardinality(AwakeConsumers') \in Nat
        /\ Cardinality(AwakeConsumers) <= Cardinality(AwakeConsumers')
    BY <1>0, NoFewer
  <1>2. Count \in Int /\ Count' \in Int
    BY QueueSizeAssumption, SMT DEF TypeOK, Slot, Count
  <1>3. ASSUME waitWrite' # {} PROVE Count' <= Cardinality(AwakeConsumers')
    <2>1. Count <= Cardinality(AwakeConsumers)
      BY <1>3 DEF NoLostWakeup, ConsumersNotForgotten, AwakeConsumers
    <2> QED
      BY <2>1, <1>1, <1>2
  <1> QED
    BY <1>3 DEF ConsumersNotForgotten, AwakeConsumers

(* The producers' half holds after a step that takes no message away and takes   *)
(* away no awake producer.                                                       *)
LEMMA ProducersKept ==
    ASSUME TypeOK, TypeOK', NoLostWakeup,
           Count' >= Count,
           waitRead' \subseteq waitRead,
           AwakeProducers \subseteq AwakeProducers'
    PROVE  ProducersNotForgotten'
  <1>0. IsFiniteSet(AwakeProducers')
    <2>1. AwakeProducers' \in SUBSET Producers
      BY DEF TypeOK, AwakeProducers, Pushing
    <2> QED
      BY <2>1, ThreadsAssumption, FS_Subset
  <1>1. /\ Cardinality(AwakeProducers) \in Nat /\ Cardinality(AwakeProducers') \in Nat
        /\ Cardinality(AwakeProducers) <= Cardinality(AwakeProducers')
    BY <1>0, NoFewer
  <1>2. Count \in Int /\ Count' \in Int
    BY QueueSizeAssumption, SMT DEF TypeOK, Slot, Count
  <1>3. ASSUME waitRead' # {} PROVE QueueSize - 1 - Count' <= Cardinality(AwakeProducers')
    <2>1. QueueSize - 1 - Count <= Cardinality(AwakeProducers)
      BY <1>3 DEF NoLostWakeup, ProducersNotForgotten, AwakeProducers
    <2> QED
      BY <2>1, <1>1, <1>2, QueueSizeAssumption
  <1> QED
    BY <1>3 DEF ProducersNotForgotten, AwakeProducers

(* Push: one message more, and one sleeping consumer, if there is one, woken for it. *)
LEMMA PushKeeps ==
    ASSUME TypeOK, TypeOK', NoLostWakeup, NEW p \in Producers, Push(p)
    PROVE  NoLostWakeup'
  <1> USE DEF TypeOK
  <1>1. Count' = Count + 1 /\ Count \in 0 .. QueueSize - 1
    BY CountAfterPush, CountBounds DEF Push
  <1>2. Pushing' = Pushing \ {p}
    BY NoneAssumption DEF Push, Pushing
  <1>3. SleepersInCall'
    <2>1. waitWrite' \subseteq popping'
      BY SignalShrinks DEF Push, NoLostWakeup, SleepersInCall
    <2>2. waitRead' \subseteq Pushing'
      BY <1>2 DEF Push, NoLostWakeup, SleepersInCall
    <2> QED
      BY <2>1, <2>2 DEF SleepersInCall
  <1>4. ConsumersNotForgotten'
    <2>1. ASSUME waitWrite' # {}
          PROVE  Count' <= Cardinality(popping' \ waitWrite')
      <3>1. waitWrite # {}
        BY <2>1, SignalShrinks DEF Push
      <3>2. PICK t \in waitWrite : waitWrite' = waitWrite \ {t}
        BY <3>1 DEF Push, Signal
      <3>3. popping' \ waitWrite' = AwakeConsumers \cup {t} /\ t \notin AwakeConsumers
        BY <3>2 DEF Push, AwakeConsumers, NoLostWakeup, SleepersInCall
      <3>4. Cardinality(popping' \ waitWrite') = Cardinality(AwakeConsumers) + 1
        BY <3>3, AwakeFinite, OneMore
      <3>5. Count <= Cardinality(AwakeConsumers)
        BY <3>1 DEF NoLostWakeup, ConsumersNotForgotten, AwakeConsumers
      <3> QED
        BY <3>4, <3>5, <1>1, AwakeFinite
    <2> QED
      BY <2>1 DEF ConsumersNotForgotten
  <1>5. ProducersNotForgotten'
    <2>1. ASSUME waitRead' # {}
          PROVE  QueueSize - 1 - Count' <= Cardinality(Pushing' \ waitRead')
      <3>1. Pushing' \ waitRead' = AwakeProducers \ {p} /\ p \in AwakeProducers
        BY <1>2 DEF Push, AwakeProducers
      <3>2. Cardinality(Pushing' \ waitRead') = Cardinality(AwakeProducers) - 1
        BY <3>1, AwakeFinite, OneLess
      <3>3. QueueSize - 1 - Count <= Cardinality(AwakeProducers)
        BY <2>1 DEF Push, NoLostWakeup, ProducersNotForgotten, AwakeProducers
      <3> QED
        BY <3>2, <3>3, <1>1, AwakeFinite, QueueSizeAssumption
    <2> QED
      BY <2>1 DEF ProducersNotForgotten
  <1> QED
    BY <1>3, <1>4, <1>5 DEF NoLostWakeup

(* Pop: one slot more, and one sleeping producer, if there is one, woken for it. *)
LEMMA PopKeeps ==
    ASSUME TypeOK, TypeOK', NoLostWakeup, NEW c \in Consumers, Pop(c)
    PROVE  NoLostWakeup'
  <1> USE DEF TypeOK
  <1>1. Count' = Count - 1 /\ Count \in 0 .. QueueSize - 1
    BY CountAfterPop, CountBounds DEF Pop
  <1>2. Pushing' = Pushing
    BY DEF Pop, Pushing
  <1>3. SleepersInCall'
    <2>1. waitWrite' \subseteq popping'
      BY DEF Pop, NoLostWakeup, SleepersInCall
    <2>2. waitRead' \subseteq Pushing'
      BY <1>2, SignalShrinks DEF Pop, NoLostWakeup, SleepersInCall
    <2> QED
      BY <2>1, <2>2 DEF SleepersInCall
  <1>4. ConsumersNotForgotten'
    <2>1. ASSUME waitWrite' # {}
          PROVE  Count' <= Cardinality(popping' \ waitWrite')
      <3>1. popping' \ waitWrite' = AwakeConsumers \ {c} /\ c \in AwakeConsumers
        BY DEF Pop, AwakeConsumers
      <3>2. Cardinality(popping' \ waitWrite') = Cardinality(AwakeConsumers) - 1
        BY <3>1, AwakeFinite, OneLess
      <3>3. Count <= Cardinality(AwakeConsumers)
        BY <2>1 DEF Pop, NoLostWakeup, ConsumersNotForgotten, AwakeConsumers
      <3> QED
        BY <3>2, <3>3, <1>1, AwakeFinite
    <2> QED
      BY <2>1 DEF ConsumersNotForgotten
  <1>5. ProducersNotForgotten'
    <2>1. ASSUME waitRead' # {}
          PROVE  QueueSize - 1 - Count' <= Cardinality(Pushing' \ waitRead')
      <3>1. waitRead # {}
        BY <2>1, SignalShrinks DEF Pop
      <3>2. PICK t \in waitRead : waitRead' = waitRead \ {t}
        BY <3>1 DEF Pop, Signal
      <3>3. Pushing' \ waitRead' = AwakeProducers \cup {t} /\ t \notin AwakeProducers
        BY <3>2, <1>2 DEF AwakeProducers, NoLostWakeup, SleepersInCall
      <3>4. Cardinality(Pushing' \ waitRead') = Cardinality(AwakeProducers) + 1
        BY <3>3, AwakeFinite, OneMore
      <3>5. QueueSize - 1 - Count <= Cardinality(AwakeProducers)
        BY <3>1 DEF NoLostWakeup, ProducersNotForgotten, AwakeProducers
      <3> QED
        BY <3>4, <3>5, <1>1, AwakeFinite, QueueSizeAssumption
    <2> QED
      BY <2>1 DEF ProducersNotForgotten
  <1> QED
    BY <1>3, <1>4, <1>5 DEF NoLostWakeup

(* A consumer going to sleep finds no message it could have taken. *)
LEMMA PopWaitKeeps ==
    ASSUME TypeOK, TypeOK', NoLostWakeup, NEW c \in Consumers, PopWait(c)
    PROVE  NoLostWakeup'
  <1> USE DEF TypeOK
  <1>1. Count' = Count /\ Count = 0 /\ Pushing' = Pushing
    BY CountBounds DEF PopWait, ring, calls, Count, Pushing
  <1>2. SleepersInCall'
    BY <1>1 DEF PopWait, calls, NoLostWakeup, SleepersInCall
  <1>3. ConsumersNotForgotten'
    <2>1. popping' \ waitWrite' \in SUBSET Consumers
      OBVIOUS
    <2>2. Cardinality(popping' \ waitWrite') \in Nat
      BY <2>1, ThreadsAssumption, NoFewer
    <2> QED
      BY <1>1, <2>2 DEF ConsumersNotForgotten
  <1>4. ProducersNotForgotten'
    BY <1>1, ProducersKept DEF PopWait, AwakeProducers
  <1> QED
    BY <1>2, <1>3, <1>4 DEF NoLostWakeup

(* A producer going to sleep finds no slot it could have filled. *)
LEMMA PushWaitKeeps ==
    ASSUME TypeOK, TypeOK', NoLostWakeup, NEW p \in Producers, PushWait(p)
    PROVE  NoLostWakeup'
  <1> USE DEF TypeOK
  <1>1. Count' = Count /\ Count = QueueSize - 1 /\ Pushing' = Pushing
    BY CountBounds DEF PushWait, ring, calls, Count, Pushing
  <1>2. SleepersInCall'
    BY <1>1 DEF PushWait, calls, NoLostWakeup, SleepersInCall
  <1>3. ConsumersNotForgotten'
    BY <1>1, ConsumersKept DEF PushWait, calls, AwakeConsumers
  <1>4. ProducersNotForgotten'
    <2>1. Pushing' \ waitRead' \in SUBSET Producers
      BY DEF Pushing
    <2>2. Cardinality(Pushing' \ waitRead') \in Nat
      BY <2>1, ThreadsAssumption, NoFewer
    <2> QED
      BY <1>1, <2>2, QueueSizeAssumption DEF ProducersNotForgotten
  <1> QED
    BY <1>2, <1>3, <1>4 DEF NoLostWakeup

(* A step that leaves the ring alone, puts nobody to sleep and takes nobody out  *)
(* of a call.                                                                    *)
LEMMA OthersKeep ==
    ASSUME TypeOK, TypeOK', NoLostWakeup, UNCHANGED ring,
           waitWrite' \subseteq waitWrite, waitRead' \subseteq waitRead,
           popping \subseteq popping', Pushing \subseteq Pushing'
    PROVE  NoLostWakeup'
  <1>1. Count' = Count /\ Count \in Int
    BY QueueSizeAssumption, SMT DEF ring, Count, TypeOK, Slot
  <1>2. AwakeConsumers \subseteq AwakeConsumers' /\ AwakeProducers \subseteq AwakeProducers'
    BY DEF AwakeConsumers, AwakeProducers
  <1>3. SleepersInCall'
    BY DEF NoLostWakeup, SleepersInCall
  <1> QED
    BY <1>1, <1>2, <1>3, ConsumersKept, ProducersKept DEF NoLostWakeup

LEMMA InitNoLostWakeup == Init => NoLostWakeup
  BY DEF Init, NoLostWakeup, SleepersInCall, ConsumersNotForgotten, ProducersNotForgotten

LEMMA NoLostWakeupPreserved ==
    TypeOK /\ TypeOK' /\ NoLostWakeup /\ [Next]_vars => NoLostWakeup'
  <1> SUFFICES ASSUME TypeOK, TypeOK', NoLostWakeup, [Next]_vars PROVE NoLostWakeup'
    OBVIOUS
  <1>1. ASSUME NEW p \in Producers, NEW d \in Data, CallPush(p, d) PROVE NoLostWakeup'
    <2>1. Pushing \subseteq Pushing'
      BY <1>1, NoneAssumption DEF CallPush, Pushing, TypeOK
    <2> QED
      BY <1>1, <2>1, OthersKeep DEF CallPush, waiters
  <1>2. ASSUME NEW c \in Consumers, CallPop(c) PROVE NoLostWakeup'
    BY <1>2, OthersKeep DEF CallPop, waiters, Pushing
  <1>3. ASSUME NEW c \in Consumers, Peek(c) PROVE NoLostWakeup'
    BY <1>3, OthersKeep DEF Peek, waiters, Pushing
  <1>4. CASE SpuriousWakeup
    BY <1>4, OthersKeep DEF SpuriousWakeup, calls, Pushing
  <1>5. CASE UNCHANGED vars
    BY <1>5, OthersKeep DEF vars, calls, waiters, Pushing
  <1> QED
    BY <1>1, <1>2, <1>3, <1>4, <1>5, PushKeeps, PopKeeps, PushWaitKeeps, PopWaitKeeps
       DEF Next, Producing, Consuming

(* No wake-up is lost (msgqueue.c:36-72): one signal per push and per pop is     *)
(* enough, for any number of slots and of threads.                               *)
THEOREM WakeupsNotLost == Spec => []NoLostWakeup
  <1>1. Init => TypeOK /\ NoLostWakeup
    BY InitTypeOK, InitNoLostWakeup
  <1>2. TypeOK /\ NoLostWakeup /\ [Next]_vars => TypeOK' /\ NoLostWakeup'
    BY TypeOKPreserved, NoLostWakeupPreserved
  <1> QED
    BY <1>1, <1>2, PTL DEF Spec

(* The queue never puts all its threads to sleep at once (msgqueue.c:41, 59):    *)
(* with one slot or more free, or one message or more in the ring, some thread   *)
(* inside a call is awake.                                                       *)
THEOREM NotAllAsleep ==
    ASSUME TypeOK, NoLostWakeup, waitWrite # {}, waitRead # {}
    PROVE  AwakeConsumers # {} \/ AwakeProducers # {}
  <1> SUFFICES ASSUME AwakeConsumers = {}, AwakeProducers = {} PROVE FALSE
    OBVIOUS
  <1>1. Cardinality(AwakeConsumers) = 0 /\ Cardinality(AwakeProducers) = 0
    BY FS_EmptySet
  <1>2. Count <= 0 /\ QueueSize - 1 - Count <= 0
    BY <1>1 DEF NoLostWakeup, ConsumersNotForgotten, ProducersNotForgotten,
               AwakeConsumers, AwakeProducers
  <1>3. Count \in 0 .. QueueSize - 1
    BY CountBounds DEF TypeOK
  <1> QED
    BY <1>2, <1>3, QueueSizeAssumption

-----------------------------------------------------------------------------
(* The ring is a bounded FIFO. *)

Contents == Data \cup {None}

LEMMA SlotOfInRange ==
    ASSUME TypeOK, NEW i \in 1 .. Count
    PROVE  SlotOf(i) \in Slot
  BY QueueSizeAssumption, SMT DEF TypeOK, Slot, SlotOf, Count

QueuedShape ==
    /\ Queued \in Seq(Contents) /\ Len(Queued) = Count
    /\ \A i \in 1 .. Count : Queued[i] = messages[SlotOf(i)]

LEMMA QueuedIsSeq == TypeOK => QueuedShape
  <1> SUFFICES ASSUME TypeOK PROVE QueuedShape
    OBVIOUS
  <1>1. Count \in Nat
    BY CountBounds, QueueSizeAssumption DEF TypeOK
  <1>2. \A i \in 1 .. Count : messages[SlotOf(i)] \in Contents
    BY SlotOfInRange DEF TypeOK, Contents
  <1>3. Queued \in [1 .. Count -> Contents]
    BY <1>2 DEF Queued
  <1>4. Queued \in Seq(Contents)
    BY <1>1, <1>3, SeqDef
  <1>5. Len(Queued) = Count
    BY <1>1, <1>3, <1>4, LenProperties
  <1> QED
    BY <1>4, <1>5 DEF Queued, QueuedShape

(* The queue is empty, or full, exactly when the ring is. *)
LEMMA QueuedEmptyOrFull ==
    ASSUME TypeOK
    PROVE  /\ Queued = <<>> <=> IsEmpty
           /\ Len(Queued) < QueueSize - 1 <=> ~IsFull
  <1>1. /\ Count \in 0 .. QueueSize - 1
        /\ IsEmpty <=> Count = 0
        /\ IsFull <=> Count = QueueSize - 1
    BY CountBounds DEF TypeOK
  <1>2. Queued = <<>> <=> Count = 0
    BY QueuedIsSeq, EmptySeq, <1>1 DEF QueuedShape
  <1> QED
    BY <1>1, <1>2, QueuedIsSeq, QueueSizeAssumption DEF QueuedShape

(* A step that leaves the ring alone leaves the queue alone. *)
LEMMA RingUnchanged ==
    ASSUME UNCHANGED ring
    PROVE  Queued' = Queued
  BY DEF ring, Queued, Count, SlotOf

LEMMA PushRefines ==
    ASSUME TypeOK, TypeOK', NEW p \in Producers, Push(p)
    PROVE  Fifo!Push(p)
  <1>1. Count' = Count + 1 /\ Count \in 0 .. QueueSize - 1
    BY CountAfterPush, CountBounds DEF Push, TypeOK
  <1>2. pending[p] \in Contents
    BY DEF TypeOK, Contents
  <1>3. \A i \in 1 .. Count : SlotOf(i) # tail /\ SlotOf(i)' = SlotOf(i)
    BY QueueSizeAssumption, SMT DEF TypeOK, Slot, SlotOf, Count, Push
  <1>4. SlotOf(Count)' = tail
    <2>1. SlotOf(Count)' = IF first + Count < QueueSize THEN first + Count
                                                      ELSE first + Count - QueueSize
      BY <1>1, QueueSizeAssumption, SMT DEF SlotOf, Push, TypeOK, Slot
    <2> QED
      BY <2>1, QueueSizeAssumption, SMT DEF TypeOK, Slot, Count
  <1>5. /\ Queued' \in Seq(Contents) /\ Len(Queued') = Count'
        /\ \A i \in 1 .. Count' : Queued'[i] = messages'[SlotOf(i)']
    <2>1. QueuedShape'
      BY QueuedIsSeq, PTL
    <2> QED
      BY <2>1 DEF QueuedShape
  <1>6. Queued' = Append(Queued, pending[p])
    <2> DEFINE longer == Append(Queued, pending[p])
    <2>1. /\ longer \in Seq(Contents) /\ Len(longer) = Count + 1
          /\ \A i \in 1 .. Count : longer[i] = messages[SlotOf(i)]
          /\ longer[Count + 1] = pending[p]
      BY <1>2, QueuedIsSeq, AppendProperties DEF QueuedShape
    <2>2. \A i \in 1 .. Count : Queued'[i] = longer[i]
      <3> SUFFICES ASSUME NEW i \in 1 .. Count PROVE Queued'[i] = longer[i]
        OBVIOUS
      <3>1. Queued'[i] = messages'[SlotOf(i)]
        BY <1>1, <1>3, <1>5
      <3>2. messages'[SlotOf(i)] = messages[SlotOf(i)]
        BY <1>3, SlotOfInRange DEF Push, TypeOK
      <3> QED
        BY <3>1, <3>2, <2>1
    <2>3. Queued'[Count + 1] = longer[Count + 1]
      <3>1. Queued'[Count'] = messages'[tail]
        BY <1>1, <1>4, <1>5
      <3> QED
        BY <3>1, <2>1, <1>1 DEF Push, TypeOK
    <2>4. \A i \in 1 .. Len(Queued') : Queued'[i] = longer[i]
      <3> SUFFICES ASSUME NEW i \in 1 .. Count + 1 PROVE Queued'[i] = longer[i]
        BY <1>1, <1>5
      <3>1. i \in 1 .. Count \/ i = Count + 1
        BY <1>1
      <3> QED
        BY <3>1, <2>2, <2>3
    <2> HIDE DEF longer
    <2>5. Queued' = longer
      BY <2>1, <2>4, <1>1, <1>5, SeqEqual
    <2> QED
      BY <2>5 DEF longer
  <1> QED
    BY <1>6, QueuedEmptyOrFull DEF Fifo!Push, Push, Pushing

LEMMA PopRefines ==
    ASSUME TypeOK, TypeOK', NEW c \in Consumers, Pop(c)
    PROVE  Fifo!Pop(c)
  <1>1. Count' = Count - 1 /\ Count \in 1 .. QueueSize - 1
    BY CountAfterPop, CountBounds DEF Pop, TypeOK
  <1>2. \A i \in 1 .. Count' : SlotOf(i)' = SlotOf(i + 1)
    <2>1. Following(first) = IF first = QueueSize - 1 THEN 0 ELSE first + 1
      BY FollowingSlot DEF TypeOK
    <2> QED
      BY <2>1, QueueSizeAssumption, SMT DEF TypeOK, Slot, SlotOf, Count, Pop
  <1>3. SlotOf(1) = first
    BY QueueSizeAssumption, SMT DEF TypeOK, Slot, SlotOf
  <1>4. Queued # <<>>
    BY QueuedEmptyOrFull DEF Pop
  <1>5. /\ Queued' \in Seq(Contents) /\ Len(Queued') = Count'
        /\ \A i \in 1 .. Count' : Queued'[i] = messages'[SlotOf(i)']
    <2>1. QueuedShape'
      BY QueuedIsSeq, PTL
    <2> QED
      BY <2>1 DEF QueuedShape
  <1>6. Head(Queued) = messages[first]
    BY <1>1, <1>3, <1>4, QueuedIsSeq DEF QueuedShape
  <1>7. Queued' = Tail(Queued)
    <2> DEFINE rest == Tail(Queued)
    <2>1. /\ rest \in Seq(Contents) /\ Len(rest) = Count - 1
          /\ \A i \in 1 .. Count - 1 : rest[i] = Queued[i + 1]
      BY <1>4, QueuedIsSeq, HeadTailProperties DEF QueuedShape
    <2>2. \A i \in 1 .. Len(Queued') : Queued'[i] = rest[i]
      <3> SUFFICES ASSUME NEW i \in 1 .. Count' PROVE Queued'[i] = rest[i]
        BY <1>5
      <3>1. i + 1 \in 1 .. Count /\ i \in 1 .. Count - 1
        BY <1>1
      <3>2. Queued'[i] = messages[SlotOf(i + 1)]
        BY <1>2, <1>5 DEF Pop
      <3>3. rest[i] = messages[SlotOf(i + 1)]
        BY <3>1, <2>1, QueuedIsSeq DEF QueuedShape
      <3> QED
        BY <3>2, <3>3
    <2> HIDE DEF rest
    <2>3. Queued' = rest
      BY <2>1, <2>2, <1>1, <1>5, SeqEqual
    <2> QED
      BY <2>3 DEF rest
  <1> QED
    BY <1>4, <1>6, <1>7 DEF Fifo!Pop, Pop

LEMMA InitRefines == Init => Fifo!Init
  <1> SUFFICES ASSUME Init PROVE Fifo!Init
    OBVIOUS
  <1>1. Queued = <<>>
    BY InitTypeOK, QueuedEmptyOrFull DEF Init, IsEmpty
  <1> QED
    BY <1>1 DEF Init, Fifo!Init

LEMMA StepRefines == TypeOK /\ TypeOK' /\ [Next]_vars => [Fifo!Next]_(Fifo!vars)
  <1> SUFFICES ASSUME TypeOK, TypeOK', [Next]_vars PROVE [Fifo!Next]_(Fifo!vars)
    OBVIOUS
  <1> USE DEF Fifo!vars
  <1>1. ASSUME NEW p \in Producers, NEW d \in Data, CallPush(p, d) PROVE Fifo!Next
    BY <1>1, RingUnchanged DEF CallPush, Fifo!CallPush, Fifo!Next
  <1>2. ASSUME NEW p \in Producers, Push(p) PROVE Fifo!Next
    BY <1>2, PushRefines DEF Fifo!Next
  <1>3. ASSUME NEW c \in Consumers, CallPop(c) PROVE Fifo!Next
    BY <1>3, RingUnchanged DEF CallPop, Fifo!CallPop, Fifo!Next
  <1>4. ASSUME NEW c \in Consumers, Pop(c) PROVE Fifo!Next
    BY <1>4, PopRefines DEF Fifo!Next
  <1>5. ASSUME \/ \E p \in Producers : PushWait(p)
               \/ \E c \in Consumers : PopWait(c) \/ Peek(c)
               \/ SpuriousWakeup \/ UNCHANGED vars
        PROVE  UNCHANGED Fifo!vars
    BY <1>5, RingUnchanged DEF PushWait, PopWait, Peek, SpuriousWakeup, vars, calls
  <1> QED
    BY <1>1, <1>2, <1>3, <1>4, <1>5 DEF Next, Producing, Consuming

(* The message queue implements a FIFO of QueueSize - 1 messages                 *)
(* (msgqueue.c:36-72), for every size and every set of threads.                  *)
THEOREM QueueIsFifo == Spec => ImplementsFifo
  <1>1. Init => Fifo!Init
    BY InitRefines
  <1>2. TypeOK /\ TypeOK' /\ [Next]_vars => [Fifo!Next]_(Fifo!vars)
    BY StepRefines
  <1>3. Spec => []TypeOK
    BY TypeCorrect
  <1> QED
    BY <1>1, <1>2, <1>3, PTL DEF Spec, ImplementsFifo, Fifo!Spec
-----------------------------------------------------------------------------
(* What a peek saw.  Only the consumer itself takes messages out, and a push     *)
(* never fills the slot of the oldest message.                                   *)

OneConsumer == \A c, d \in Consumers : c = d

LEMMA PeekedPreserved ==
    OneConsumer /\ TypeOK /\ PeekedIsNext /\ [Next]_vars => PeekedIsNext'
  <1> SUFFICES ASSUME OneConsumer, TypeOK, PeekedIsNext, [Next]_vars,
                      NEW c \in Consumers, peeked'[c] # None
               PROVE  ~IsEmpty' /\ messages'[first'] = peeked'[c]
    BY DEF PeekedIsNext
  <1>1. ASSUME NEW p \in Producers, Push(p) PROVE ~IsEmpty' /\ messages'[first'] = peeked'[c]
    <2>1. ~IsEmpty /\ messages[first] = peeked[c] /\ peeked' = peeked /\ first' = first
      BY <1>1 DEF Push, PeekedIsNext
    <2>2. tail' # first'
      BY <1>1, <2>1 DEF Push, IsFull
    <2>3. messages'[first] = messages[first]
      BY <1>1, <2>1 DEF Push, TypeOK, IsEmpty
    <2> QED
      BY <2>1, <2>2, <2>3 DEF IsEmpty
  <1>2. ASSUME NEW d \in Consumers, Pop(d) PROVE FALSE
    BY <1>2 DEF Pop, TypeOK, OneConsumer
  <1>3. ASSUME NEW d \in Consumers, Peek(d) PROVE ~IsEmpty' /\ messages'[first'] = peeked'[c]
    <2>1. peeked'[c] = IF IsEmpty THEN None ELSE messages[first]
      BY <1>3 DEF Peek, TypeOK, OneConsumer
    <2> QED
      BY <1>3, <2>1 DEF Peek, ring, IsEmpty
  <1>4. ASSUME UNCHANGED ring, UNCHANGED peeked
        PROVE  ~IsEmpty' /\ messages'[first'] = peeked'[c]
    BY <1>4 DEF ring, IsEmpty, PeekedIsNext
  <1> QED
    BY <1>1, <1>2, <1>3, <1>4
       DEF Next, Producing, Consuming, CallPush, PushWait, CallPop, PopWait, SpuriousWakeup,
           vars, calls

(* In a queue with one consumer, as every queue of the program has, the message  *)
(* a peek found is the one the next pop takes (plane.c:10-16, msgqueue.c:74-85), *)
(* for any number of slots and of producers.                                     *)
THEOREM PeekIsHonoured == OneConsumer => (Spec => []PeekedIsNext)
  <1> SUFFICES ASSUME OneConsumer PROVE Spec => []PeekedIsNext
    OBVIOUS
  <1>1. Init => PeekedIsNext
    BY DEF Init, PeekedIsNext
  <1>2. TypeOK /\ PeekedIsNext /\ [Next]_vars => PeekedIsNext'
    BY PeekedPreserved
  <1>3. Spec => []TypeOK
    BY TypeCorrect
  <1> QED
    BY <1>1, <1>2, <1>3, PTL DEF Spec
=============================================================================
