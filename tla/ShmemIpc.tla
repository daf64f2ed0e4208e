------------------------------ MODULE ShmemIpc ------------------------------
(* ipc/shmem.c: the channel of one process in a build with IPC=shmem.  A table   *)
(* of entries in shared memory, an index of the entries in use from the oldest   *)
(* to the newest, and three semaphores: writeSem counts the entries a writer may *)
(* still claim, readWait the messages the reader may still take, and lock guards *)
(* the table.  Many threads of several processes write, one thread reads.        *)
(*                                                                               *)
(* A write finds its entry in one step and fills it in another, so a writer      *)
(* without the lock is seen to do harm; a read is one step under the lock.       *)
(* ipc_sem_wait and ipc_sem_post are repeated when a signal interrupts them      *)
(* (utils/sem.c:70, 90); sem_wait on the lock is not, and its result is not      *)
(* looked at (shmem.c:210, 239): Interrupted.                                    *)
EXTENDS Integers, FiniteSets, FiniteSetsExt

CONSTANTS Writers, Data,
          None,           \* "no message"; as the content of an entry, len = 0
          Entries,        \* ENTRIES_PER_QUEUE
          MaxInterrupts   \* how many signals arrive during a sem_wait

Slot   == 0 .. Entries - 1
Unused == -1
Reader == "reader"
Thread == Writers \cup {Reader}

ASSUME EntriesAssumption == Entries \in Nat \ {0} /\ MaxInterrupts \in Nat
ASSUME WritersAssumption == /\ IsFiniteSet(Writers) /\ Reader \notin Writers
                            /\ None \notin Data

VARIABLES index, slots,               \* struct Queue
          writeSem, readWait, lock,   \* the values of the semaphores
          pc,                         \* where each thread is in ipc_write or ipc_read
          message,                    \* for each writer the message of its call, or None
          found,                      \* for each writer the entry it found
          got,                        \* what the last read returned, or None
          interrupts                  \* the signals so far

table == <<index, slots>>
sems  == <<writeSem, readWait>>
calls == <<message, found, got>>
vars  == <<table, sems, lock, pc, calls, interrupts>>

Init == /\ index = [k \in Slot |-> Unused]
        /\ slots = [s \in Slot |-> None]
        /\ writeSem = Entries /\ readWait = 0 /\ lock = 1
        /\ pc = [t \in Thread |-> "idle"]
        /\ message = [w \in Writers |-> None]
        /\ found = [w \in Writers |-> [slot |-> 0, at |-> 0]]
        /\ got = None
        /\ interrupts = 0

At(t, here) == pc[t] = here
Goto(t, there) == pc' = [pc EXCEPT ![t] = there]

-----------------------------------------------------------------------------
(* The lock, for writers and the reader alike. *)

(* Mutant of Lock: it is tried, and taken for granted.                           *)
LockTried(t) == /\ At(t, "lock")
                /\ lock' = IF lock > 0 THEN lock - 1 ELSE lock
                /\ Goto(t, "locked")
                /\ UNCHANGED <<table, sems, calls, interrupts>>

Lock(t) == /\ At(t, "lock") /\ lock > 0
           /\ lock' = lock - 1
           /\ Goto(t, "locked")
           /\ UNCHANGED <<table, sems, calls, interrupts>>

(* A signal while the thread is blocked in sem_wait: it goes on without the lock.*)
Interrupted(t) == /\ At(t, "lock") /\ lock = 0
                  /\ interrupts < MaxInterrupts
                  /\ interrupts' = interrupts + 1
                  /\ Goto(t, "locked")
                  /\ UNCHANGED <<table, sems, lock, calls>>

Unlock(t) == /\ At(t, "unlock")
             /\ lock' = lock + 1
             /\ Goto(t, "post")
             /\ UNCHANGED <<table, sems, calls, interrupts>>

-----------------------------------------------------------------------------
(* ipc_write *)

CallWrite(w, d) == /\ At(w, "idle")
                   /\ message' = [message EXCEPT ![w] = d]
                   /\ Goto(w, "wait")
                   /\ UNCHANGED <<table, sems, lock, found, got, interrupts>>

WriteWait(w) == /\ At(w, "wait") /\ writeSem > 0
                /\ writeSem' = writeSem - 1
                /\ Goto(w, "lock")
                /\ UNCHANGED <<table, readWait, lock, calls, interrupts>>

(* The first entry that passes a test; Entries, one too far, when none does. *)
FirstOr(free) == IF free = {} THEN Entries ELSE Min(free)

WriteFind(w) ==
    /\ At(w, "locked")
    /\ found' = [found EXCEPT ![w] =
                    [slot |-> FirstOr({s \in Slot : slots[s] = None}),
                     at   |-> FirstOr({k \in Slot : index[k] = Unused})]]
    /\ Goto(w, "fill")
    /\ UNCHANGED <<table, sems, lock, message, got, interrupts>>

(* Mutant of WriteFill: the newest message goes to the front of the index.       *)
WriteFillFront(w) ==
    /\ At(w, "fill")
    /\ index' = [k \in Slot |-> IF k = 0 THEN found[w].slot ELSE index[k - 1]]
    /\ slots' = [slots EXCEPT ![found[w].slot] = message[w]]
    /\ Goto(w, "unlock")
    /\ UNCHANGED <<sems, lock, calls, interrupts>>

(* An entry one too far is outside the table: the write goes astray.             *)
WriteFill(w) ==
    /\ At(w, "fill")
    /\ LET place == found[w]
       IN  /\ index' = IF place.at \in Slot THEN [index EXCEPT ![place.at] = place.slot]
                                            ELSE index
           /\ slots' = IF place.slot \in Slot
                       THEN [slots EXCEPT ![place.slot] = message[w]] ELSE slots
    /\ Goto(w, "unlock")
    /\ UNCHANGED <<sems, lock, calls, interrupts>>

WritePost(w) == /\ At(w, "post")
                /\ readWait' = readWait + 1
                /\ message' = [message EXCEPT ![w] = None]
                /\ Goto(w, "idle")
                /\ UNCHANGED <<table, writeSem, lock, found, got, interrupts>>

-----------------------------------------------------------------------------
(* ipc_read *)

CallRead == /\ At(Reader, "idle")
            /\ Goto(Reader, "wait")
            /\ UNCHANGED <<table, sems, lock, calls, interrupts>>

ReadWait == /\ At(Reader, "wait") /\ readWait > 0
            /\ readWait' = readWait - 1
            /\ Goto(Reader, "lock")
            /\ UNCHANGED <<table, writeSem, lock, calls, interrupts>>

Shifted == [k \in Slot |-> IF k + 1 \in Slot THEN index[k + 1] ELSE Unused]

(* Mutant of ReadTake: the entry is not given back.                              *)
ReadTakeKept == /\ At(Reader, "locked") /\ index[0] \in Slot
                /\ got' = slots[index[0]]
                /\ index' = Shifted
                /\ Goto(Reader, "unlock")
                /\ UNCHANGED <<slots, sems, lock, message, found, interrupts>>

(* The oldest entry is copied and freed, and the index moves up.  An entry that  *)
(* is not in use is outside the table: nothing that was sent is read.            *)
ReadTake == /\ At(Reader, "locked")
            /\ IF index[0] \in Slot
               THEN /\ got' = slots[index[0]]
                    /\ slots' = [slots EXCEPT ![index[0]] = None]
               ELSE got' = None /\ UNCHANGED slots
            /\ index' = Shifted
            /\ Goto(Reader, "unlock")
            /\ UNCHANGED <<sems, lock, message, found, interrupts>>

(* Mutant of ReadPost: the read goes on to the next message.                     *)
ReadPostAgain == /\ At(Reader, "post")
                 /\ writeSem' = writeSem + 1
                 /\ Goto(Reader, "wait")
                 /\ UNCHANGED <<table, readWait, lock, calls, interrupts>>

(* Mutant of ReadPost: the entry is given back twice.                            *)
ReadPostTwice == /\ At(Reader, "post")
                 /\ writeSem' = writeSem + 2
                 /\ Goto(Reader, "idle")
                 /\ UNCHANGED <<table, readWait, lock, calls, interrupts>>

ReadPost == /\ At(Reader, "post")
            /\ writeSem' = writeSem + 1
            /\ Goto(Reader, "idle")
            /\ UNCHANGED <<table, readWait, lock, calls, interrupts>>

-----------------------------------------------------------------------------
Writing(w) == WriteWait(w) \/ Lock(w) \/ WriteFind(w) \/ WriteFill(w) \/ Unlock(w)
                 \/ WritePost(w)
Reading    == ReadWait \/ Lock(Reader) \/ ReadTake \/ Unlock(Reader) \/ ReadPost

Next == \/ \E w \in Writers : Writing(w) \/ \E d \in Data : CallWrite(w, d)
        \/ Reading \/ CallRead
        \/ \E t \in Thread : Interrupted(t)

Spec == Init /\ [][Next]_vars

(* Every thread inside a call runs, as far as the semaphores let it, and the     *)
(* reader comes back for more (listen and the loops of runMap).  Semaphores need *)
(* not be fair.                                                                  *)
FairSpec == /\ Spec
            /\ \A w \in Writers : WF_vars(Writing(w))
            /\ WF_vars(Reading) /\ WF_vars(CallRead)

-----------------------------------------------------------------------------
Places == {"idle", "wait", "lock", "locked", "unlock", "post"}

TypeOK == /\ index \in [Slot -> Slot \cup {Unused, Entries}]
          /\ slots \in [Slot -> Data \cup {None}]
          /\ writeSem \in 0 .. Entries /\ readWait \in 0 .. Entries /\ lock \in Nat
          /\ pc \in [Thread -> Places \cup {"fill"}] /\ pc[Reader] \in Places
          /\ message \in [Writers -> Data \cup {None}]
          /\ \A w \in Writers : (message[w] = None) <=> At(w, "idle")
          /\ found \in [Writers -> [slot : Slot \cup {Entries}, at : Slot \cup {Entries}]]
          /\ got \in Data \cup {None}
          /\ interrupts \in 0 .. MaxInterrupts

(* The threads that work on the table. *)
Inside == {t \in Thread : pc[t] \in {"locked", "fill", "unlock"}}

(* doc/informe.tex:196: with shared memory it is necessary to make sure that the *)
(* operations are "bloqueantes y atomicas" (blocking and atomic): no two threads *)
(* work on the table at a time (shmem.c:210-227, 239-271).                       *)
Atomic == Cardinality(Inside) <= 1

(* What that comes down to: a thread that goes on without the lock posts it all  *)
(* the same, so that every interrupted sem_wait lets one more thread in, for     *)
(* good; without one there is never more than one (shmem.c:210, 227, 239, 271).  *)
OnePermitPerInterruption == lock + Cardinality(Inside) = 1 + interrupts

(* No sem_wait on the lock has been interrupted: what the table then promises.   *)
Undisturbed == interrupts = 0

(* "If we got this far, we know we have a place to write on!" (shmem.c:242): a   *)
(* writer that has been through writeSem finds an entry and a place in the       *)
(* index, and what it found is still free when it fills it, unless a thread      *)
(* that was interrupted works beside it.                                         *)
PlaceToWrite == Undisturbed => \A w \in Writers : At(w, "fill") =>
    /\ found[w].slot \in Slot /\ slots[found[w].slot] = None
    /\ found[w].at \in Slot /\ index[found[w].at] = Unused

(* The index and the entries agree: the places in use come first, name each      *)
(* entry in use once, and name no other (shmem.c:213, 222-225, 262-269).         *)
Used == {k \in Slot : index[k] # Unused}

TableConsistent == Undisturbed =>
    /\ \A k \in Used : \A j \in Slot : j < k => j \in Used
    /\ \A j, k \in Used : index[j] = index[k] => j = k
    /\ {index[k] : k \in Used} = {s \in Slot : slots[s] # None}

(* No credit of the two counting semaphores is lost or made, even by a writer    *)
(* that works without the lock: assert_sems (shmem.c:190-200) has nothing to     *)
(* report, also when the table is no longer consistent.                          *)
CreditsKept ==
    writeSem + readWait + Cardinality({t \in Thread : pc[t] \notin {"idle", "wait"}})
        = Entries

(* The semaphores and the table agree (shmem.c:209-228, 238-272): every entry    *)
(* can be claimed, is claimed, is in use, or is about to be given back, and      *)
(* every message in the table is counted in readWait, about to be counted or     *)
(* about to be taken.                                                            *)
Claimed   == {w \in Writers : pc[w] \in {"lock", "locked", "fill"}}
Uncounted == {w \in Writers : pc[w] \in {"unlock", "post"}}
OneIf(P)  == IF P THEN 1 ELSE 0

SemaphoresAgree == Undisturbed =>
    /\ writeSem + Cardinality(Claimed) + Cardinality(Used)
          + OneIf(pc[Reader] \in {"unlock", "post"}) = Entries
    /\ readWait + Cardinality(Uncounted) = Cardinality(Used)
                                              - OneIf(pc[Reader] \in {"lock", "locked"})

(* The table is what ipc_write and ipc_read take it for, until a sem_wait on the *)
(* lock is interrupted (shmem.c:203-275).                                        *)
TableSound == PlaceToWrite /\ TableConsistent /\ SemaphoresAgree

(* The table, the index and the semaphores are a bounded FIFO: every message     *)
(* arrives once, whole, and in the order of the writes, until a sem_wait is      *)
(* interrupted (shmem.c:203-275).                                                *)
Stored == [n \in 1 .. Cardinality(Used) |-> slots[index[n - 1]]]

Fifo == INSTANCE BoundedFifo WITH
            q <- Stored, Capacity <- Entries,
            Producers <- Writers, Consumers <- {Reader},
            pending <- [w \in Writers |->
                           IF pc[w] \in {"unlock", "post"} THEN None ELSE message[w]],
            popping <- IF pc[Reader] \in {"wait", "lock", "locked"} THEN {Reader} ELSE {},
            got <- [r \in {Reader} |-> got]
ImplementsFifo == Fifo!Init /\ [][Undisturbed' => Fifo!Next]_(Fifo!vars)

(* The reader gets every message in time, however the writers contend for the    *)
(* lock: they run out of entries before it starves (shmem.c:209-210, 238).       *)
ReadReturns == (At(Reader, "wait") /\ readWait > 0) ~> At(Reader, "idle")
=============================================================================
