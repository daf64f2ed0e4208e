----------------------------- MODULE BoundedFifo -----------------------------
(* What every one-way message channel of the program promises: a call to push   *)
(* (write) takes effect once, at one instant, by appending its message to a     *)
(* sequence of at most Capacity messages, and a call to pop (read) by removing  *)
(* the oldest message.  How a thread sleeps and is woken is not visible here.   *)
EXTENDS Sequences, Naturals

CONSTANTS Producers,  \* the threads that push
          Consumers,  \* the threads that pop
          Data,       \* the messages
          None,       \* "no message"
          Capacity    \* how many messages the channel holds

VARIABLES q,        \* the messages in the channel, oldest first
          pending,  \* for each producer the message its push call carries, or None
          popping,  \* the consumers inside a call to pop
          got       \* for each consumer the message its last pop returned, or None

vars == <<q, pending, popping, got>>

TypeOK == /\ q \in Seq(Data) /\ Len(q) <= Capacity
          /\ pending \in [Producers -> Data \cup {None}]
          /\ popping \subseteq Consumers
          /\ got \in [Consumers -> Data \cup {None}]

Init == /\ q = <<>>
        /\ pending = [p \in Producers |-> None]
        /\ popping = {}
        /\ got = [c \in Consumers |-> None]

CallPush(p, d) == /\ pending[p] = None
                  /\ pending' = [pending EXCEPT ![p] = d]
                  /\ UNCHANGED <<q, popping, got>>

Push(p) == /\ pending[p] # None
           /\ Len(q) < Capacity
           /\ q' = Append(q, pending[p])
           /\ pending' = [pending EXCEPT ![p] = None]
           /\ UNCHANGED <<popping, got>>

CallPop(c) == /\ c \notin popping
              /\ popping' = popping \cup {c}
              /\ UNCHANGED <<q, pending, got>>

Pop(c) == /\ c \in popping
          /\ q # <<>>
          /\ got' = [got EXCEPT ![c] = Head(q)]
          /\ q' = Tail(q)
          /\ popping' = popping \ {c}
          /\ UNCHANGED pending

Next == \/ \E p \in Producers : Push(p) \/ \E d \in Data : CallPush(p, d)
        \/ \E c \in Consumers : Pop(c) \/ CallPop(c)

Spec == Init /\ [][Next]_vars
=============================================================================
