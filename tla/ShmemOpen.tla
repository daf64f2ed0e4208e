------------------------------ MODULE ShmemOpen ------------------------------
(* ipc/shmem.c, ipc_create: several processes open the table behind one name at  *)
(* the same time, the owner to read from it and the others to write to it.  A    *)
(* named semaphore that starts at 0 keeps them apart: its maker initialises the  *)
(* table and posts it, the others wait for it and post it again.                 *)
(*                                                                               *)
(* The steps of a call are separate, and those after sem_open may fail.  sem_wait *)
(* may also be interrupted, which nobody looks at (shmem.c:71).  A semaphore or a *)
(* memory is named by how many were made before it; the owner may unlink both    *)
(* names, and then there is a second one.                                        *)
EXTENDS Naturals

CONSTANTS Openers,
          Owner,         \* the one that calls ipc_listen
          MaxFailures,   \* how many system calls fail
          MaxInterrupts  \* how many times sem_wait is interrupted

ASSUME OpenAssumption == Owner \in Openers /\ MaxFailures \in Nat /\ MaxInterrupts \in Nat

Object  == 1 .. MaxFailures + 1
Nothing == 0

VARIABLES semName, shmName,   \* the object behind each name, or Nothing
          sems, memories,     \* how many semaphores and memories were made
          value,              \* of each semaphore
          memory,             \* of each memory: new, sized, table
          tables,             \* history: how many times it was made a table
          mySem, myMemory,    \* conn->lock, conn->fd and what is mapped from it
          isInited,           \* the openers that do not initialise
          pc,                 \* where each is in ipc_create, or what it returned
          failures, interrupts

semaphore == <<semName, sems, value>>
shared    == <<shmName, memories, memory, tables>>
conn      == <<mySem, myMemory, isInited>>
faults    == <<failures, interrupts>>
vars      == <<semaphore, shared, conn, pc, faults>>

At(p, here)    == pc[p] = here
Goto(p, there) == pc' = [pc EXCEPT ![p] = there]

Init == /\ semName = Nothing /\ shmName = Nothing
        /\ sems = 0 /\ memories = 0
        /\ value = [s \in Object |-> 0]
        /\ memory = [m \in Object |-> "new"] /\ tables = [m \in Object |-> 0]
        /\ mySem = [p \in Openers |-> Nothing] /\ myMemory = [p \in Openers |-> Nothing]
        /\ isInited = {}
        /\ pc = [p \in Openers |-> "make"]
        /\ failures = 0 /\ interrupts = 0

-----------------------------------------------------------------------------
(* Mutant of InitialValue: the lock is open from the start.                      *)
Open == 1

(* The last argument of sem_open. *)
InitialValue == 0

(* Mutant of MakeLock: without O_EXCL whoever comes takes himself for the maker. *)
MakeLockShared(p) == /\ At(p, "make")
                     /\ sems' = IF semName = Nothing THEN sems + 1 ELSE sems
                     /\ semName' = sems'
                     /\ value' = IF semName = Nothing
                                 THEN [value EXCEPT ![sems'] = InitialValue] ELSE value
                     /\ mySem' = [mySem EXCEPT ![p] = semName']
                     /\ Goto(p, "shm")
                     /\ UNCHANGED <<shared, myMemory, isInited, faults>>

(* sem_open with O_CREAT | O_EXCL *)
MakeLock(p) == /\ At(p, "make")
               /\ IF semName = Nothing
                  THEN /\ sems' = sems + 1
                       /\ semName' = sems'
                       /\ value' = [value EXCEPT ![sems'] = InitialValue]
                       /\ mySem' = [mySem EXCEPT ![p] = sems']
                       /\ Goto(p, "shm")
                  ELSE Goto(p, "open") /\ UNCHANGED <<semaphore, mySem>>
               /\ UNCHANGED <<shared, myMemory, isInited, faults>>

(* ... and without, when it exists; by now it may be gone again *)
OpenLock(p) == /\ At(p, "open")
               /\ mySem' = [mySem EXCEPT ![p] = semName]
               /\ Goto(p, IF semName = Nothing THEN "NULL" ELSE "wait")
               /\ UNCHANGED <<semaphore, shared, myMemory, isInited, faults>>

WaitLock(p) == /\ At(p, "wait") /\ value[mySem[p]] > 0
               /\ value' = [value EXCEPT ![mySem[p]] = @ - 1]
               /\ isInited' = isInited \cup {p}
               /\ Goto(p, "shm")
               /\ UNCHANGED <<semName, sems, shared, mySem, myMemory, faults>>

Interrupted(p) == /\ At(p, "wait") /\ value[mySem[p]] = 0
                  /\ interrupts < MaxInterrupts /\ interrupts' = interrupts + 1
                  /\ isInited' = isInited \cup {p}
                  /\ Goto(p, "shm")
                  /\ UNCHANGED <<semaphore, shared, mySem, myMemory, failures>>

(* shm_open with O_CREAT *)
OpenMemory(p) == /\ At(p, "shm")
                 /\ memories' = IF shmName = Nothing THEN memories + 1 ELSE memories
                 /\ shmName' = IF shmName = Nothing THEN memories' ELSE shmName
                 /\ myMemory' = [myMemory EXCEPT ![p] = shmName']
                 /\ Goto(p, IF p \in isInited THEN "map" ELSE "truncate")
                 /\ UNCHANGED <<semaphore, memory, tables, mySem, isInited, faults>>

(* ftruncate gives a new memory its size, filled with zeros. *)
Truncate(p) == /\ At(p, "truncate")
               /\ memory' = [memory EXCEPT ![myMemory[p]] = IF @ = "new" THEN "sized" ELSE @]
               /\ Goto(p, "map")
               /\ UNCHANGED <<semaphore, shmName, memories, tables, conn, faults>>

(* mmap *)
MapMemory(p) == /\ At(p, "map")
                /\ Goto(p, IF p \in isInited THEN "post" ELSE "init")
                /\ UNCHANGED <<semaphore, shared, conn, faults>>

(* The index, the entries and the two counting semaphores. *)
InitTable(p) == LET m == myMemory[p]
                IN  /\ At(p, "init")
                    /\ memory' = [memory EXCEPT ![m] = "table"]
                    /\ tables' = [tables EXCEPT ![m] = @ + 1]
                    /\ Goto(p, "post")
                    /\ UNCHANGED <<semaphore, shmName, memories, conn, faults>>

(* Mutant of PostLock: only the one who has initialised the table posts.         *)
PostLockOnce(p) == /\ At(p, "post")
                   /\ value' = [value EXCEPT ![mySem[p]] = IF p \in isInited THEN @ ELSE @ + 1]
                   /\ Goto(p, "opened")
                   /\ UNCHANGED <<semName, sems, shared, conn, faults>>

PostLock(p) == /\ At(p, "post")
               /\ value' = [value EXCEPT ![mySem[p]] = @ + 1]
               /\ Goto(p, "opened")
               /\ UNCHANGED <<semName, sems, shared, conn, faults>>

(* A call fails: the owner unlinks the names, nobody posts the semaphore.        *)
Fails(p) == /\ pc[p] \in {"shm", "truncate", "map", "init"}
            /\ failures < MaxFailures /\ failures' = failures + 1
            /\ semName' = IF p = Owner THEN Nothing ELSE semName
            /\ shmName' = IF p = Owner /\ ~At(p, "shm") THEN Nothing ELSE shmName
            /\ Goto(p, "NULL")
            /\ UNCHANGED <<sems, value, memories, memory, tables, conn, interrupts>>

-----------------------------------------------------------------------------
Returned(p) == pc[p] \in {"opened", "NULL"}

ipc_create(p) == \/ MakeLock(p) \/ OpenLock(p) \/ WaitLock(p) \/ OpenMemory(p)
                 \/ Truncate(p) \/ MapMemory(p) \/ InitTable(p) \/ PostLock(p)

Next == \E p \in Openers : ipc_create(p) \/ Interrupted(p) \/ Fails(p)

Spec == Init /\ [][Next]_vars

(* Every process runs; a semaphore need not be fair. *)
FairSpec == Spec /\ \A p \in Openers : WF_vars(ipc_create(p))

-----------------------------------------------------------------------------
Places == {"make", "open", "wait", "shm", "truncate", "map", "init", "post", "opened", "NULL"}

(* A semaphore is never worth more than its one permit and one for each wait     *)
(* that was interrupted.                                                         *)
TypeOK == /\ sems \in 0 .. MaxFailures + 1 /\ semName \in 0 .. sems
          /\ memories \in 0 .. MaxFailures + 1 /\ shmName \in 0 .. memories
          /\ value \in [Object -> 0 .. 1 + interrupts]
          /\ memory \in [Object -> {"new", "sized", "table"}]
          /\ tables \in [Object -> Nat]
          /\ mySem \in [Openers -> 0 .. sems] /\ myMemory \in [Openers -> 0 .. memories]
          /\ isInited \subseteq Openers
          /\ pc \in [Openers -> Places]
          /\ failures \in 0 .. MaxFailures /\ interrupts \in 0 .. MaxInterrupts

(* Nobody is given a connection whose table is not initialised, even when others *)
(* fail, unless a sem_wait is interrupted (shmem.c:64-72, 117-142).              *)
TableReady == interrupts = 0 =>
    \A p \in Openers : At(p, "opened") => memory[myMemory[p]] = "table"

(* A table is not initialised again under those that use it, and all use the     *)
(* same one, unless the owner itself has failed (shmem.c:66, 81, 109).           *)
OneTable == ~At(Owner, "NULL") =>
    /\ \A m \in Object : tables[m] <= 1
    /\ \A p, q \in Openers : At(p, "opened") /\ At(q, "opened") => myMemory[p] = myMemory[q]

(* Every opener gets through, or waits for a lock that another has failed to     *)
(* give back (shmem.c:71, 75-84, 116, 141).                                      *)
LeftLocked(s) == \E q \in Openers : At(q, "NULL") /\ mySem[q] = s

OpenReturns == \A p \in Openers :
    At(p, "make") ~> (Returned(p) \/ (At(p, "wait") /\ LeftLocked(mySem[p])))
=============================================================================
