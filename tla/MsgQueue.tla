------------------------------ MODULE MsgQueue ------------------------------
(* communication/msgqueue.c: the bounded queue between two threads of one       *)
(* process.  A ring of QueueSize slots, of which one is always free, under one  *)
(* mutex, with two condition variables: `write' is signalled by a push and      *)
(* waited on by pop, `read' is signalled by a pop and waited on by push.        *)
(*                                                                              *)
(* The grain is one step per stretch of code that holds the mutex: from         *)
(* pthread_mutex_lock, or from the return of pthread_cond_wait, to the next     *)
(* pthread_cond_wait or pthread_mutex_unlock.  A woken thread only contends for *)
(* the mutex again, so another thread may run before it and it must re-check.   *)
(* message_queue_destroy is called once the other thread has been joined        *)
(* (airline.c:61-66, main.c:218-257), when nobody is inside a call, so          *)
(* `closing' stays 0 during every step modelled here.                           *)
EXTENDS Integers, FiniteSets

CONSTANTS Producers, Consumers, Data, None,
          QueueSize      \* QUEUE_SIZE

ASSUME QueueSizeAssumption == QueueSize \in Nat /\ QueueSize >= 2
ASSUME ThreadsAssumption == IsFiniteSet(Producers) /\ IsFiniteSet(Consumers)
ASSUME NoneAssumption == None \notin Data

VARIABLES messages, first, tail,
          pending,    \* for each producer the message its push call carries, or None
          popping,    \* the consumers inside message_queue_pop
          got,        \* what the last pop of each consumer returned, or None
          peeked,     \* what each consumer's last peek returned since its last pop, or None
          waitWrite,  \* the consumers asleep on the condition variable `write'
          waitRead    \* the producers asleep on the condition variable `read'

ring    == <<messages, first, tail>>
calls   == <<pending, popping, got, peeked>>
waiters == <<waitWrite, waitRead>>
vars    == <<ring, calls, waiters>>

Slot == 0 .. QueueSize - 1

TypeOK == /\ messages \in [Slot -> Data \cup {None}]
          /\ first \in Slot
          /\ tail \in Slot
          /\ pending \in [Producers -> Data \cup {None}]
          /\ popping \in SUBSET Consumers
          /\ got \in [Consumers -> Data \cup {None}]
          /\ peeked \in [Consumers -> Data \cup {None}]
          /\ waitWrite \in SUBSET Consumers
          /\ waitRead \in SUBSET Producers

(* Mutant of Following: the ring does not wrap around.                          *)
FollowingUnwrapped(slot) == slot + 1

Following(slot) == (slot + 1) % QueueSize

IsEmpty == first = tail
IsFull  == Following(tail) = first
Pushing == {p \in Producers : pending[p] # None}

Init == /\ messages = [s \in Slot |-> None]
        /\ first = 0
        /\ tail = 0
        /\ pending = [p \in Producers |-> None]
        /\ popping = {}
        /\ got = [c \in Consumers |-> None]
        /\ peeked = [c \in Consumers |-> None]
        /\ waitWrite = {}
        /\ waitRead = {}

-----------------------------------------------------------------------------
(* pthread_cond_signal: wakes one sleeping thread if there is one. *)
Signal(sleeping, sleepingNext) ==
    IF sleeping = {} THEN sleepingNext = {}
                     ELSE \E t \in sleeping : sleepingNext = sleeping \ {t}

CallPush(p, d) == /\ pending[p] = None
                  /\ pending' = [pending EXCEPT ![p] = d]
                  /\ UNCHANGED <<ring, popping, got, peeked, waiters>>

(* message_queue_push found the ring full and sleeps on `read'. *)
PushWait(p) == /\ p \in Pushing \ waitRead
               /\ IsFull
               /\ waitRead' = waitRead \cup {p}
               /\ UNCHANGED <<ring, calls, waitWrite>>

(* Mutant of Push: it signals the condition variable the producers wait on.     *)
PushSignalsRead(p) ==
    /\ p \in Pushing \ waitRead
    /\ ~IsFull
    /\ messages' = [messages EXCEPT ![tail] = pending[p]]
    /\ tail' = Following(tail)
    /\ pending' = [pending EXCEPT ![p] = None]
    /\ Signal(waitRead, waitRead')
    /\ UNCHANGED <<first, popping, got, peeked, waitWrite>>

(* Mutant of Push: the ring is not checked for a free slot.                     *)
PushUnchecked(p) ==
    /\ p \in Pushing \ waitRead
    /\ messages' = [messages EXCEPT ![tail] = pending[p]]
    /\ tail' = Following(tail)
    /\ pending' = [pending EXCEPT ![p] = None]
    /\ Signal(waitWrite, waitWrite')
    /\ UNCHANGED <<first, popping, got, peeked, waitRead>>

Push(p) == /\ p \in Pushing \ waitRead
           /\ ~IsFull
           /\ messages' = [messages EXCEPT ![tail] = pending[p]]
           /\ tail' = Following(tail)
           /\ pending' = [pending EXCEPT ![p] = None]
           /\ Signal(waitWrite, waitWrite')
           /\ UNCHANGED <<first, popping, got, peeked, waitRead>>

CallPop(c) == /\ c \notin popping
              /\ popping' = popping \cup {c}
              /\ UNCHANGED <<ring, pending, got, peeked, waiters>>

(* message_queue_pop found the ring empty and sleeps on `write'. *)
PopWait(c) == /\ c \in popping \ waitWrite
              /\ IsEmpty
              /\ waitWrite' = waitWrite \cup {c}
              /\ UNCHANGED <<ring, calls, waitRead>>

(* Mutant of Pop: nobody is told that a slot has become free.                   *)
PopSilently(c) ==
    /\ c \in popping \ waitWrite
    /\ ~IsEmpty
    /\ got' = [got EXCEPT ![c] = messages[first]]
    /\ first' = Following(first)
    /\ popping' = popping \ {c}
    /\ peeked' = [peeked EXCEPT ![c] = None]
    /\ UNCHANGED <<messages, tail, pending, waiters>>

Pop(c) == /\ c \in popping \ waitWrite
          /\ ~IsEmpty
          /\ got' = [got EXCEPT ![c] = messages[first]]
          /\ first' = Following(first)
          /\ popping' = popping \ {c}
          /\ Signal(waitRead, waitRead')
          /\ peeked' = [peeked EXCEPT ![c] = None]
          /\ UNCHANGED <<messages, tail, pending, waitWrite>>

(* Mutant of Peek: it looks at the slot a push fills next.                      *)
PeekTail(c) ==
    /\ c \notin popping
    /\ peeked' = [peeked EXCEPT ![c] = IF IsEmpty THEN None ELSE messages[tail]]
    /\ UNCHANGED <<ring, pending, popping, got, waiters>>

(* message_queue_peek: the oldest message, which stays in the queue, or None.   *)
Peek(c) == /\ c \notin popping
           /\ peeked' = [peeked EXCEPT ![c] = IF IsEmpty THEN None ELSE messages[first]]
           /\ UNCHANGED <<ring, pending, popping, got, waiters>>

(* POSIX lets pthread_cond_wait return without a signal. *)
SpuriousWakeup == \/ \E c \in waitWrite : /\ waitWrite' = waitWrite \ {c}
                                          /\ UNCHANGED waitRead
                                          /\ UNCHANGED <<ring, calls>>
                  \/ \E p \in waitRead : /\ waitRead' = waitRead \ {p}
                                         /\ UNCHANGED waitWrite
                                         /\ UNCHANGED <<ring, calls>>

Producing(p) == Push(p) \/ PushWait(p)
Consuming(c) == Pop(c) \/ PopWait(c)

Next == \/ \E p \in Producers : Producing(p) \/ \E d \in Data : CallPush(p, d)
        \/ \E c \in Consumers : Consuming(c) \/ CallPop(c) \/ Peek(c)
        \/ SpuriousWakeup

Spec == Init /\ [][Next]_vars

(* A thread inside a call that is not asleep runs (the scheduler), and the       *)
(* reader of a queue keeps reading it: run_plane and run_output are loops that   *)
(* go back to message_queue_pop.  Nothing makes a producer push.                 *)
FairSpec == /\ Spec
            /\ \A p \in Producers : WF_vars(Producing(p))
            /\ \A c \in Consumers : WF_vars(Consuming(c)) /\ WF_vars(CallPop(c))

-----------------------------------------------------------------------------
(* How many messages the ring holds. *)
Count == IF tail >= first THEN tail - first ELSE tail - first + QueueSize

(* The slot of the i-th oldest message. *)
SlotOf(i) == IF first + i - 1 < QueueSize THEN first + i - 1
                                          ELSE first + i - 1 - QueueSize

(* The queue the ring stands for, oldest message first. *)
Queued == [i \in 1 .. Count |-> messages[SlotOf(i)]]

(* A thread that sleeps sleeps inside the call it made. *)
SleepersInCall == waitWrite \subseteq popping /\ waitRead \subseteq Pushing

ConsumersNotForgotten ==
    waitWrite # {} => Count <= Cardinality(popping \ waitWrite)

ProducersNotForgotten ==
    waitRead # {} => QueueSize - 1 - Count <= Cardinality(Pushing \ waitRead)

(* No wake-up is lost: while a consumer sleeps, every message in the ring has a  *)
(* consumer that is awake and inside pop to take it, and while a producer sleeps *)
(* every free slot has a producer awake to fill it.  A push or pop signals once, *)
(* and only one thread (msgqueue.c:50, 70); this says that is enough, even when  *)
(* the woken thread is overtaken and goes back to sleep (msgqueue.c:41, 59).     *)
NoLostWakeup == SleepersInCall /\ ConsumersNotForgotten /\ ProducersNotForgotten

(* The ring, the indices and the sleeping implement a bounded FIFO of            *)
(* QueueSize - 1 messages: every push and pop takes effect exactly once, in      *)
(* order, whatever the interleaving and the wake-ups (msgqueue.c:36-72).         *)
Fifo == INSTANCE BoundedFifo WITH q <- Queued, Capacity <- QueueSize - 1
ImplementsFifo == Fifo!Spec

(* With one consumer, a message that a peek found is still the one the next pop  *)
(* takes, whatever is pushed in between: the plane decides on what it peeked and *)
(* only then calls on (plane.c:10-16).                                           *)
PeekedIsNext == \A c \in Consumers :
                    peeked[c] # None => ~IsEmpty /\ messages[first] = peeked[c]

(* Every call comes to an end.  With one consumer, as every queue of the program *)
(* has, a push returns unless other producers keep pushing and overtake it: once *)
(* the map thread has ended, the EndOutput of the main thread gets into the      *)
(* queue however full that is (msgqueue.c:56-72, main.c:245-248).  A pop that    *)
(* sleeps on a ring that has a message returns (msgqueue.c:36-54).               *)
OthersStop(p) == <>[](\A o \in Producers \ {p} : pending[o] = None)

PushReturns == \A p \in Producers :
                   OthersStop(p) => (pending[p] # None) ~> (pending[p] = None)

PopReturns == \A c \in Consumers : (c \in popping /\ ~IsEmpty) ~> (c \notin popping)

CallsReturn == PushReturns /\ PopReturns
=============================================================================
