-------------------------- MODULE ShmemOpenProofs --------------------------
(* Theorems about ShmemOpen, for any set of processes that open one table and    *)
(* any number of failures.                                                       *)
EXTENDS ShmemOpen, TLAPS

-----------------------------------------------------------------------------
(* What the variables hold, and what a process has at each place of its call.    *)

Calling == {"shm", "truncate", "map", "init", "post"}

Shapes == /\ semName \in Nat /\ sems \in Nat /\ shmName \in Nat /\ memories \in Nat
          /\ value \in [Object -> Nat] /\ tables \in [Object -> Nat]
          /\ memory \in [Object -> {"new", "sized", "table"}]
          /\ mySem \in [Openers -> Nat] /\ myMemory \in [Openers -> Nat]
          /\ isInited \subseteq Openers
          /\ pc \in [Openers -> Places]
          /\ failures \in 0 .. MaxFailures /\ interrupts \in Nat

CallsProceed == \A p \in Openers :
    /\ mySem[p] <= sems /\ myMemory[p] <= memories
    /\ pc[p] \in {"make", "open"} => mySem[p] = Nothing
    /\ pc[p] \in Calling \cup {"wait"} => mySem[p] \in 1 .. sems
    /\ pc[p] \in {"truncate", "map", "init", "post", "opened"} => myMemory[p] \in 1 .. memories
    /\ pc[p] \in {"make", "open", "wait", "truncate", "init"} => p \notin isInited

(* Only the owner unlinks the names, and only once.                              *)
OwnerFailed == At(Owner, "NULL") /\ failures >= 1

MadeTwiceAtMost(name, made) ==
    /\ made \in 0 .. 2 /\ name \in {Nothing, made}
    /\ made = 2 => name = 2 /\ OwnerFailed
    /\ made = 1 /\ name = Nothing => OwnerFailed

Names == MadeTwiceAtMost(semName, sems) /\ MadeTwiceAtMost(shmName, memories)

(* A semaphore has one maker.                                                    *)
Made(p) == p \notin isInited /\ mySem[p] # Nothing /\ pc[p] # "wait"

OneMaker == \A p, q \in Openers : Made(p) /\ Made(q) /\ mySem[p] = mySem[q] => p = q

InitedByMaker == ~At(Owner, "NULL") => \A m \in Object :
    /\ tables[m] <= 1
    /\ tables[m] = 1 => \E p \in Openers : Made(p) /\ pc[p] \in {"post", "opened"}

Opening == Shapes /\ CallsProceed /\ Names /\ OneMaker /\ InitedByMaker

(* One process at a time holds the permit of a semaphore, and while it does the  *)
(* memory behind the name is the one it works on.                                *)
Holding(p) == pc[p] \in Calling

OneHolder == /\ \A p, q \in Openers : Holding(p) /\ Holding(q) /\ mySem[p] = mySem[q] => p = q
             /\ \A p \in Openers : Holding(p) => value[mySem[p]] = 0
             /\ \A s \in Object : value[s] <= 1 /\ (value[s] > 0 => s <= sems)

NameReady == shmName # Nothing /\ memory[shmName] = "table"

Ready == /\ \A s \in Object : value[s] > 0 => NameReady
         /\ \A p \in Openers :
              /\ pc[p] \in {"truncate", "map", "init", "post"} =>
                    myMemory[p] = shmName /\ shmName # Nothing
              /\ p \in isInited /\ At(p, "shm") => NameReady
              /\ (p \in isInited /\ At(p, "map")) \/ pc[p] \in {"post", "opened"} =>
                    memory[myMemory[p]] = "table"

Undisturbed == interrupts = 0
Permitted == Undisturbed => OneHolder /\ Ready

-----------------------------------------------------------------------------
(* Typing and the names.                                                         *)

LEMMA ObjectFacts == /\ Owner \in Openers /\ MaxFailures \in Nat /\ MaxInterrupts \in Nat
                     /\ \A s \in Object : s \in Nat /\ s # 0
                     /\ \A s \in Nat : s # 0 /\ s <= MaxFailures + 1 => s \in Object
  BY OpenAssumption, SMT DEF Object

LEMMA InitOpening == Init => Opening
  <1> SUFFICES ASSUME Init PROVE Opening
    OBVIOUS
  <1>1. Shapes
    <2>1. pc \in [Openers -> Places]
      BY DEF Init, Places
    <2>2. failures \in 0 .. MaxFailures /\ interrupts \in Nat
      BY ObjectFacts DEF Init
    <2>3. semName \in Nat /\ sems \in Nat /\ shmName \in Nat /\ memories \in Nat
      BY SMT DEF Init, Nothing
    <2>4. /\ value \in [Object -> Nat] /\ tables \in [Object -> Nat]
          /\ mySem \in [Openers -> Nat] /\ myMemory \in [Openers -> Nat]
      BY SMT DEF Init, Nothing
    <2>5. memory \in [Object -> {"new", "sized", "table"}] /\ isInited \subseteq Openers
      BY DEF Init
    <2> QED
      BY <2>1, <2>2, <2>3, <2>4, <2>5 DEF Shapes
  <1>2. CallsProceed
    <2>1. ASSUME NEW p \in Openers
          PROVE  /\ pc[p] = "make" /\ mySem[p] = 0 /\ myMemory[p] = 0
                 /\ sems = 0 /\ memories = 0 /\ p \notin isInited
      BY DEF Init, Nothing
    <2>2. \A p \in Openers : /\ pc[p] \notin Calling \cup {"wait"}
                             /\ pc[p] \notin {"truncate", "map", "init", "post", "opened"}
      BY <2>1 DEF Calling
    <2>3. \A p \in Openers : mySem[p] <= sems /\ myMemory[p] <= memories
      <3>1. 0 <= 0
        BY SMT
      <3> QED
        BY <2>1, <3>1, Zenon
    <2> QED
      BY <2>1, <2>2, <2>3 DEF CallsProceed, Nothing
  <1>3. Names
    BY DEF Init, Names, MadeTwiceAtMost, Nothing
  <1>4. OneMaker /\ InitedByMaker
    BY DEF Init, OneMaker, InitedByMaker, Made, Nothing
  <1> QED
    BY <1>1, <1>2, <1>3, <1>4 DEF Opening

LEMMA NextShapes ==
    ASSUME Shapes, [Next]_vars
    PROVE  Shapes'
  <1> USE DEF Shapes, Goto, At, Places
  <1>1. ASSUME NEW p \in Openers, MakeLock(p) PROVE Shapes'
    BY <1>1 DEF MakeLock, InitialValue, semaphore, shared, faults
  <1>2. ASSUME NEW p \in Openers, OpenLock(p) PROVE Shapes'
    BY <1>2 DEF OpenLock, semaphore, shared, faults
  <1>3. ASSUME NEW p \in Openers, WaitLock(p) PROVE Shapes'
    <2>1. \A n \in Nat : n > 0 => n - 1 \in Nat
      BY SMT
    <2>2. mySem[p] \in Object => value[mySem[p]] - 1 \in Nat
      BY <1>3, <2>1 DEF WaitLock
    <2>3. value' = [value EXCEPT ![mySem[p]] = value[mySem[p]] - 1]
      BY <1>3 DEF WaitLock
    <2>4. value' \in [Object -> Nat]
      <3> HIDE DEF Shapes
      <3>1. value \in [Object -> Nat]
        BY DEF Shapes
      <3> QED
        BY <2>2, <2>3, <3>1
    <2> QED
      BY <1>3, <2>4 DEF WaitLock, shared, faults
  <1>4. ASSUME NEW p \in Openers, Interrupted(p) PROVE Shapes'
    BY <1>4 DEF Interrupted, semaphore, shared
  <1>5. ASSUME NEW p \in Openers, OpenMemory(p) PROVE Shapes'
    <2>1. memories' \in Nat /\ shmName' \in Nat
      BY <1>5 DEF OpenMemory
    <2>2. myMemory' \in [Openers -> Nat] /\ pc' \in [Openers -> Places]
      BY <1>5, <2>1 DEF OpenMemory
    <2> QED
      BY <1>5, <2>1, <2>2 DEF OpenMemory, semaphore, faults
  <1>6. ASSUME NEW p \in Openers, Truncate(p) PROVE Shapes'
    <2>1. memory' \in [Object -> {"new", "sized", "table"}]
      BY <1>6 DEF Truncate
    <2> QED
      BY <1>6, <2>1 DEF Truncate, semaphore, conn, faults
  <1>7. ASSUME NEW p \in Openers, MapMemory(p) PROVE Shapes'
    BY <1>7 DEF MapMemory, semaphore, shared, conn, faults
  <1>8. ASSUME NEW p \in Openers, InitTable(p) PROVE Shapes'
    <2>1. \A n \in Nat : n + 1 \in Nat
      BY SMT
    <2>2. tables' \in [Object -> Nat] /\ memory' \in [Object -> {"new", "sized", "table"}]
      BY <1>8, <2>1 DEF InitTable
    <2> QED
      BY <1>8, <2>2 DEF InitTable, semaphore, conn, faults
  <1>9. ASSUME NEW p \in Openers, PostLock(p) PROVE Shapes'
    <2>1. \A n \in Nat : n + 1 \in Nat
      BY SMT
    <2>2. value' \in [Object -> Nat]
      BY <1>9, <2>1 DEF PostLock
    <2> QED
      BY <1>9, <2>2 DEF PostLock, shared, conn, faults
  <1>10. ASSUME NEW p \in Openers, Fails(p) PROVE Shapes'
    <2>1. failures' \in 0 .. MaxFailures
      BY <1>10, ObjectFacts DEF Fails
    <2> QED
      BY <1>10, <2>1 DEF Fails, conn, Nothing
  <1>11. CASE UNCHANGED vars
    BY <1>11 DEF vars, semaphore, shared, conn, faults
  <1> QED
    BY <1>1, <1>2, <1>3, <1>4, <1>5, <1>6, <1>7, <1>8, <1>9, <1>10, <1>11
       DEF Next, ipc_create

(* What a step may do to the rest: one process moves, and the others keep what   *)
(* they have.                                                                    *)
LEMMA OthersStay ==
    ASSUME Shapes, NEW p \in Openers, ipc_create(p) \/ Interrupted(p) \/ Fails(p)
    PROVE  /\ sems' \in {sems, sems + 1} /\ memories' \in {memories, memories + 1}
           /\ \A q \in Openers : q # p =>
                 /\ pc'[q] = pc[q] /\ mySem'[q] = mySem[q] /\ myMemory'[q] = myMemory[q]
                 /\ q \in isInited' <=> q \in isInited
  BY DEF Shapes, ipc_create, MakeLock, OpenLock, WaitLock, Interrupted, OpenMemory, Truncate,
         MapMemory, InitTable, PostLock, Fails, Goto, semaphore, shared, conn

LEMMA NextCalls ==
    ASSUME Shapes, CallsProceed, Names, [Next]_vars
    PROVE  CallsProceed'
  <1>1. CASE UNCHANGED vars
    BY <1>1 DEF vars, semaphore, shared, conn, CallsProceed
  <1>2. ASSUME NEW p \in Openers, ipc_create(p) \/ Interrupted(p) \/ Fails(p)
        PROVE  CallsProceed'
    <2>1. /\ sems \in Nat /\ memories \in Nat
          /\ sems' \in {sems, sems + 1} /\ memories' \in {memories, memories + 1}
          /\ \A q \in Openers : q # p =>
                /\ pc'[q] = pc[q] /\ mySem'[q] = mySem[q] /\ myMemory'[q] = myMemory[q]
                /\ q \in isInited' <=> q \in isInited
                /\ mySem[q] \in Nat /\ myMemory[q] \in Nat
      BY <1>2, OthersStay DEF Shapes
    <2> SUFFICES ASSUME NEW q \in Openers
                 PROVE  /\ mySem'[q] <= sems' /\ myMemory'[q] <= memories'
                        /\ pc'[q] \in {"make", "open"} => mySem'[q] = Nothing
                        /\ pc'[q] \in Calling \cup {"wait"} => mySem'[q] \in 1 .. sems'
                        /\ pc'[q] \in {"truncate", "map", "init", "post", "opened"}
                              => myMemory'[q] \in 1 .. memories'
                        /\ pc'[q] \in {"make", "open", "wait", "truncate", "init"}
                              => q \notin isInited'
      BY DEF CallsProceed
    <2> USE DEF Calling
    <2>2. CASE q # p
      BY <2>1, <2>2 DEF CallsProceed
    <2>3. CASE q = p
      <3> USE DEF Shapes, CallsProceed, Goto, At
      <3>1. CASE MakeLock(p)
        BY <2>3, <3>1 DEF MakeLock, semaphore, shared, Nothing
      <3>2. CASE OpenLock(p)
        BY <2>3, <3>2 DEF OpenLock, semaphore, shared, Nothing, Names, MadeTwiceAtMost
      <3>3. CASE WaitLock(p) \/ Interrupted(p)
        BY <2>3, <3>3 DEF WaitLock, Interrupted, semaphore, shared
      <3>4. CASE OpenMemory(p)
        BY <2>3, <3>4 DEF OpenMemory, semaphore, Nothing, Names, MadeTwiceAtMost
      <3>5. CASE Truncate(p) \/ MapMemory(p) \/ InitTable(p) \/ PostLock(p) \/ Fails(p)
        BY <2>3, <3>5
           DEF Truncate, MapMemory, InitTable, PostLock, Fails, semaphore, shared, conn
      <3> QED
        BY <1>2, <3>1, <3>2, <3>3, <3>4, <3>5 DEF ipc_create
    <2> QED
      BY <2>2, <2>3
  <1> QED
    BY <1>1, <1>2 DEF Next

LEMMA NextNames ==
    ASSUME Shapes, CallsProceed, Names, [Next]_vars
    PROVE  Names'
  <1>1. CASE UNCHANGED vars
    BY <1>1 DEF vars, semaphore, shared, faults, Names, MadeTwiceAtMost, OwnerFailed, At
  <1>2. ASSUME NEW p \in Openers, ipc_create(p) \/ Interrupted(p) \/ Fails(p)
        PROVE  Names'
    <2> USE DEF Shapes, Names, MadeTwiceAtMost, At, Goto, Nothing
    <2>1. OwnerFailed => OwnerFailed'
      BY <1>2, ObjectFacts
         DEF OwnerFailed, ipc_create, MakeLock, OpenLock, WaitLock, Interrupted, OpenMemory,
             Truncate, MapMemory, InitTable, PostLock, Fails, faults
    <2>2. CASE MakeLock(p)
      BY <2>1, <2>2 DEF MakeLock, semaphore, shared
    <2>3. CASE OpenMemory(p)
      BY <2>1, <2>3 DEF OpenMemory, semaphore
    <2>4. CASE Fails(p)
      <3>1. p = Owner => OwnerFailed'
        BY <2>4 DEF Fails, OwnerFailed
      <3>2. /\ sems' = sems /\ memories' = memories
            /\ semName' # semName => semName' = 0 /\ OwnerFailed' /\ ~OwnerFailed
            /\ shmName' # shmName => shmName' = 0 /\ OwnerFailed' /\ ~OwnerFailed
        BY <2>4, <3>1 DEF Fails, OwnerFailed
      <3> HIDE DEF Shapes
      <3> QED
        BY <2>1, <3>2
    <2>5. CASE \/ OpenLock(p) \/ WaitLock(p) \/ Interrupted(p) \/ Truncate(p) \/ MapMemory(p)
              \/ InitTable(p) \/ PostLock(p)
      BY <2>1, <2>5
         DEF OpenLock, WaitLock, Interrupted, Truncate, MapMemory, InitTable, PostLock,
             semaphore, shared
    <2> QED
      BY <1>2, <2>2, <2>3, <2>4, <2>5 DEF ipc_create
  <1> QED
    BY <1>1, <1>2 DEF Next

(* Whatever a call uses was made.                                                *)
LEMMA WithinObjects ==
    ASSUME Shapes, CallsProceed, Names
    PROVE  /\ sems # 0 => sems \in Object
           /\ \A p \in Openers :
                /\ pc[p] \in Calling \cup {"wait"} => mySem[p] \in Object
                /\ pc[p] \in {"truncate", "map", "init", "post", "opened"} => myMemory[p] \in Object
  <1>1. sems \in 0 .. MaxFailures + 1 /\ memories \in 0 .. MaxFailures + 1
    BY ObjectFacts DEF Shapes, Names, MadeTwiceAtMost, OwnerFailed
  <1>2. \A n \in Nat : \A made \in 0 .. MaxFailures + 1 : n \in 1 .. made => n \in Object
    BY ObjectFacts, SMT DEF Object
  <1>3. sems # 0 => sems \in 1 .. sems
    BY <1>1, SMT
  <1> QED
    BY <1>1, <1>2, <1>3 DEF CallsProceed, Shapes

(* A process that has failed stays so, and before the owner does there is one    *)
(* semaphore and one memory.                                                     *)
LEMMA FailedForGood ==
    ASSUME Shapes, [Next]_vars, At(Owner, "NULL")
    PROVE  At(Owner, "NULL")'
  <1>1. CASE UNCHANGED vars
    BY <1>1 DEF vars, At
  <1>2. ASSUME NEW p \in Openers, ipc_create(p) \/ Interrupted(p) \/ Fails(p)
        PROVE  At(Owner, "NULL")'
    BY <1>2, ObjectFacts
       DEF Shapes, At, Goto, ipc_create, MakeLock, OpenLock, WaitLock, Interrupted, OpenMemory,
           Truncate, MapMemory, InitTable, PostLock, Fails
  <1> QED
    BY <1>1, <1>2 DEF Next

LEMMA OneOfEach ==
    ASSUME Names, ~At(Owner, "NULL")
    PROVE  sems \in 0 .. 1 /\ memories \in 0 .. 1
  BY DEF Names, MadeTwiceAtMost, OwnerFailed

LEMMA MadeStep ==
    ASSUME Shapes, CallsProceed, NEW p \in Openers, ipc_create(p) \/ Interrupted(p) \/ Fails(p)
    PROVE  /\ Made(p)' => (Made(p) /\ mySem'[p] = mySem[p]) \/ mySem'[p] = sems + 1
           /\ \A q \in Openers : q # p => (Made(q)' <=> Made(q)) /\ mySem'[q] = mySem[q]
  <1> USE DEF Shapes, CallsProceed, Made, Goto, At, Nothing
  <1>1. \A q \in Openers : q # p => (Made(q)' <=> Made(q)) /\ mySem'[q] = mySem[q]
    BY OthersStay
  <1>2. CASE MakeLock(p)
    BY <1>1, <1>2 DEF MakeLock, semaphore
  <1>3. CASE OpenLock(p) \/ WaitLock(p) \/ Interrupted(p)
    BY <1>1, <1>3 DEF OpenLock, WaitLock, Interrupted, semaphore
  <1>4. CASE \/ OpenMemory(p) \/ Truncate(p) \/ MapMemory(p) \/ InitTable(p) \/ PostLock(p)
             \/ Fails(p)
    BY <1>1, <1>4 DEF OpenMemory, Truncate, MapMemory, InitTable, PostLock, Fails, conn
  <1> QED
    BY <1>2, <1>3, <1>4 DEF ipc_create

LEMMA NextOneMaker ==
    ASSUME Shapes, CallsProceed, OneMaker, [Next]_vars
    PROVE  OneMaker'
  <1>1. CASE UNCHANGED vars
    BY <1>1 DEF vars, conn, OneMaker, Made
  <1>2. ASSUME NEW p \in Openers, ipc_create(p) \/ Interrupted(p) \/ Fails(p)
        PROVE  OneMaker'
    <2>1. /\ Made(p)' => (Made(p) /\ mySem'[p] = mySem[p]) \/ mySem'[p] = sems + 1
          /\ \A q \in Openers : q # p => (Made(q)' <=> Made(q)) /\ mySem'[q] = mySem[q]
      BY <1>2, MadeStep
    <2>2. \A q \in Openers : mySem[q] # sems + 1
      BY DEF Shapes, CallsProceed
    <2> QED
      BY <2>1, <2>2 DEF OneMaker
  <1> QED
    BY <1>1, <1>2 DEF Next

LEMMA NextInited ==
    ASSUME Shapes, CallsProceed, Names, OneMaker, InitedByMaker, [Next]_vars
    PROVE  InitedByMaker'
  <1>1. CASE UNCHANGED vars
    BY <1>1 DEF vars, shared, conn, InitedByMaker, Made, At
  <1>2. ASSUME NEW p \in Openers, ipc_create(p) \/ Interrupted(p) \/ Fails(p)
        PROVE  InitedByMaker'
    <2> SUFFICES ASSUME ~At(Owner, "NULL"), ~At(Owner, "NULL")'
                 PROVE  \A m \in Object :
                            /\ tables'[m] <= 1
                            /\ tables'[m] = 1 => \E q \in Openers :
                                                    Made(q)' /\ pc'[q] \in {"post", "opened"}
      BY FailedForGood DEF InitedByMaker
    <2>1. sems \in 0 .. 1
      BY OneOfEach
    <2>2. \A q \in Openers : Made(q) => mySem[q] = 1
      BY <2>1 DEF Shapes, CallsProceed, Made, Nothing
    <2>3. \A m \in Object : /\ tables[m] \in Nat /\ tables[m] <= 1
                            /\ tables[m] = 1 => \E q \in Openers :
                                                   Made(q) /\ pc[q] \in {"post", "opened"}
      BY DEF InitedByMaker, Shapes
    <2>4. \A q \in Openers : q # p => (Made(q)' <=> Made(q)) /\ pc'[q] = pc[q]
      BY <1>2, MadeStep, OthersStay
    <2>5. CASE InitTable(p)
      <3>1. Made(p) /\ pc[p] = "init"
        BY <2>5, <2>1 DEF InitTable, At, Made, Shapes, CallsProceed, Calling, Nothing
      <3>2. \A q \in Openers : Made(q) => q = p
        BY <2>2, <3>1 DEF OneMaker
      <3>3. \A m \in Object : tables[m] = 0
        BY <2>3, <3>1, <3>2, SMT
      <3>4. Made(p)' /\ pc'[p] = "post"
        BY <2>5, <3>1 DEF InitTable, Made, conn, Goto, Shapes
      <3>5. \A m \in Object : tables'[m] \in 0 .. 1
        BY <2>5, <3>3 DEF InitTable, Shapes
      <3> QED
        BY <3>4, <3>5
    <2>6. CASE ~InitTable(p)
      <3>1. tables' = tables
        BY <1>2, <2>6 DEF ipc_create, MakeLock, OpenLock, WaitLock, Interrupted, OpenMemory,
                          Truncate, MapMemory, PostLock, Fails, shared
      <3>2. \A q \in Openers : Made(q) /\ pc[q] \in {"post", "opened"}
                                  => Made(q)' /\ pc'[q] \in {"post", "opened"}
        <4>1. CASE PostLock(p)
          BY <2>4, <4>1 DEF PostLock, Made, conn, Goto, Shapes, At
        <4>2. CASE ~PostLock(p)
          <5>1. pc[p] \notin {"post", "opened"}
            BY <1>2, <2>6, <4>2
               DEF ipc_create, MakeLock, OpenLock, WaitLock, Interrupted, OpenMemory,
                   Truncate, MapMemory, Fails, At
          <5> QED
            BY <2>4, <5>1
        <4> QED
          BY <4>1, <4>2
      <3> QED
        BY <2>3, <3>1, <3>2
    <2> QED
      BY <2>5, <2>6
  <1> QED
    BY <1>1, <1>2 DEF Next

LEMMA OpeningHolds == Spec => []Opening
  <1>1. Opening /\ [Next]_vars => Opening'
    BY NextShapes, NextCalls, NextNames, NextOneMaker, NextInited DEF Opening
  <1> QED
    BY InitOpening, <1>1, PTL DEF Spec

(* All that have opened the table use the same one, which was initialised once,  *)
(* unless the owner has failed (shmem.c:66, 81, 109).                            *)
THEOREM OneTableForAll == Spec => []OneTable
  <1>1. Opening => OneTable
    <2> SUFFICES ASSUME Opening, ~At(Owner, "NULL") PROVE OneTable
      BY DEF OneTable
    <2>1. memories \in 0 .. 1
      BY OneOfEach DEF Opening
    <2>2. \A p \in Openers : At(p, "opened") => myMemory[p] = 1
      BY <2>1 DEF Opening, Shapes, CallsProceed, At
    <2>3. \A m \in Object : tables[m] <= 1
      BY DEF Opening, InitedByMaker
    <2> QED
      BY <2>2, <2>3 DEF OneTable
  <1> QED
    BY OpeningHolds, <1>1, PTL

-----------------------------------------------------------------------------
(* Who holds the permit, and the table it stands for.                            *)

LEMMA InitPermitted == Init => Permitted
  BY DEF Init, Permitted, OneHolder, Ready, Holding, Calling, At, NameReady, Nothing

LEMMA StillUndisturbed ==
    ASSUME Shapes, [Next]_vars, Undisturbed'
    PROVE  Undisturbed
  <1>1. CASE UNCHANGED vars
    BY <1>1 DEF vars, faults, Undisturbed
  <1>2. ASSUME NEW p \in Openers, ipc_create(p) \/ Interrupted(p) \/ Fails(p)
        PROVE  Undisturbed
    BY <1>2 DEF Shapes, Undisturbed, ipc_create, MakeLock, OpenLock, WaitLock, Interrupted,
                OpenMemory, Truncate, MapMemory, InitTable, PostLock, Fails, faults
  <1> QED
    BY <1>1, <1>2 DEF Next

LEMMA NoInterruption ==
    ASSUME Shapes, Undisturbed', NEW p \in Openers
    PROVE  ~Interrupted(p)
  BY DEF Shapes, Undisturbed, Interrupted

LEMMA LastIsObject == Opening => (sems # 0 => sems \in Object)
  BY WithinObjects DEF Opening

LEMMA NextOneHolder ==
    ASSUME Opening, Opening', OneHolder,
           NEW p \in Openers, ipc_create(p) \/ Fails(p)
    PROVE  OneHolder'
  <1>1. /\ \A q \in Openers : q # p => (Holding(q)' <=> Holding(q)) /\ mySem'[q] = mySem[q]
        /\ sems \in Nat /\ sems' \in Nat
        /\ \A q \in Openers : mySem[q] \in Nat /\ mySem[q] <= sems
    BY OthersStay DEF Opening, Shapes, CallsProceed, Holding
  <1>2. /\ \A q \in Openers : Holding(q) => mySem[q] \in Object
        /\ At(p, "wait") => mySem[p] \in Object
        /\ sems' # 0 => sems' \in Object
    <2>1. (sems # 0 => sems \in Object)'
      BY LastIsObject, PTL
    <2> QED
      BY <2>1, WithinObjects DEF Opening, Holding, At
  <1>3. value \in [Object -> Nat] /\ \A s \in Object : s \in Nat
    BY ObjectFacts DEF Opening, Shapes
  <1>4. CASE MakeLock(p) /\ semName = Nothing
    <2>1. /\ sems' = sems + 1 /\ sems' \in Object
          /\ value' = [value EXCEPT ![sems'] = 0]
          /\ mySem' = [mySem EXCEPT ![p] = sems']
      BY <1>4, <1>1, <1>2 DEF MakeLock, InitialValue
    <2>2. mySem'[p] = sems + 1 /\ (\A q \in Openers : mySem[q] # sems + 1)
      BY <1>1, <2>1 DEF Opening, Shapes
    <2>3. value'[sems'] = 0 /\ (\A s \in Object : s # sems' => value'[s] = value[s])
      BY <1>3, <2>1
    <2>4. \A q \in Openers : Holding(q)' => value'[mySem'[q]] = 0
      BY <1>1, <1>2, <2>1, <2>2, <2>3 DEF OneHolder
    <2>5. \A s \in Object : value'[s] <= 1 /\ (value'[s] > 0 => s <= sems')
      BY <1>1, <1>3, <2>1, <2>3 DEF OneHolder
    <2> QED
      BY <1>1, <2>2, <2>4, <2>5 DEF OneHolder
  <1>5. CASE WaitLock(p)
    <2>1. /\ value' = [value EXCEPT ![mySem[p]] = value[mySem[p]] - 1]
          /\ mySem[p] \in Object /\ value[mySem[p]] > 0 /\ sems' = sems /\ mySem' = mySem
      BY <1>5, <1>2 DEF WaitLock
    <2>2. value'[mySem[p]] = 0 /\ (\A s \in Object : s # mySem[p] => value'[s] = value[s])
      BY <1>3, <2>1 DEF OneHolder
    <2>3. \A q \in Openers : Holding(q) => mySem[q] # mySem[p]
      BY <2>1, <1>3 DEF OneHolder
    <2>4. \A s \in Object : value'[s] <= 1 /\ (value'[s] > 0 => s <= sems')
      BY <1>3, <2>1, <2>2 DEF OneHolder
    <2>5. \A q \in Openers : Holding(q)' => value'[mySem'[q]] = 0
      BY <1>1, <1>2, <2>1, <2>2, <2>3 DEF OneHolder
    <2> QED
      BY <1>1, <2>1, <2>3, <2>4, <2>5 DEF OneHolder
  <1>6. CASE PostLock(p)
    <2>1. /\ value' = [value EXCEPT ![mySem[p]] = value[mySem[p]] + 1]
          /\ Holding(p) /\ ~Holding(p)' /\ sems' = sems /\ mySem' = mySem
      BY <1>6 DEF PostLock, conn, Holding, Calling, At, Goto, Opening, Shapes
    <2>2. /\ mySem[p] \in Object /\ value'[mySem[p]] = 1
          /\ \A s \in Object : s # mySem[p] => value'[s] = value[s]
      BY <1>2, <1>3, <2>1 DEF OneHolder
    <2>3. \A q \in Openers : q # p /\ Holding(q) => mySem[q] # mySem[p]
      BY <2>1 DEF OneHolder
    <2>4. \A s \in Object : value'[s] <= 1 /\ (value'[s] > 0 => s <= sems')
      BY <1>1, <1>3, <2>1, <2>2 DEF OneHolder
    <2>5. \A q \in Openers : Holding(q)' => value'[mySem'[q]] = 0
      BY <1>1, <1>2, <2>1, <2>2, <2>3 DEF OneHolder
    <2> QED
      BY <1>1, <2>1, <2>4, <2>5 DEF OneHolder
  <1>7. CASE ~WaitLock(p) /\ ~PostLock(p) /\ ~(MakeLock(p) /\ semName = Nothing)
    <2>1. /\ value' = value /\ sems' = sems
          /\ Holding(p)' => Holding(p) /\ mySem'[p] = mySem[p]
      BY <1>7 DEF ipc_create, MakeLock, OpenLock, OpenMemory, Truncate, MapMemory, InitTable, Fails,
                  Holding, Calling, At, Goto, semaphore, conn, Opening, Shapes
    <2> QED
      BY <1>1, <2>1 DEF OneHolder
  <1> QED
    BY <1>4, <1>5, <1>6, <1>7

(* When the owner unlinks the memory it holds the only permit there is.          *)
LEMMA UnlinkedAlone ==
    ASSUME Opening, OneHolder, Holding(Owner)
    PROVE  /\ \A q \in Openers : Holding(q) => q = Owner
           /\ \A s \in Object : value[s] = 0
  <1>1. sems \in 0 .. 1
    BY OneOfEach, ObjectFacts DEF Opening, Holding, Calling, At
  <1>2. \A q \in Openers : Holding(q) => mySem[q] = 1
    BY <1>1 DEF Opening, Shapes, CallsProceed, Holding
  <1>3. mySem[Owner] = 1 /\ value[1] = 0
    BY <1>2, ObjectFacts DEF OneHolder
  <1>4. \A s \in Object : value[s] \in Nat /\ s \in Nat /\ s # 0 /\ (value[s] > 0 => s <= sems)
    BY ObjectFacts DEF OneHolder, Opening, Shapes
  <1>5. \A s \in Object : value[s] > 0 => s = 1
    BY <1>1, <1>4, SMT
  <1>6. \A s \in Object : value[s] = 0
    BY <1>3, <1>4, <1>5, SMT
  <1> QED
    BY <1>2, <1>3, <1>6, ObjectFacts DEF OneHolder

(* A memory that is a table stays one.                                           *)
LEMMA StaysTable ==
    ASSUME Shapes, NEW p \in Openers, ipc_create(p) \/ Fails(p)
    PROVE  \A m \in Object : memory[m] = "table" => memory'[m] = "table"
  BY DEF Shapes, ipc_create, MakeLock, OpenLock, WaitLock, OpenMemory, Truncate,
         MapMemory, InitTable, PostLock, Fails, shared

LEMMA NextReady ==
    ASSUME Opening, Opening', OneHolder, Ready, NEW p \in Openers, ipc_create(p) \/ Fails(p)
    PROVE  Ready'
  <1>1. \A q \in Openers : q # p =>
           /\ pc'[q] = pc[q] /\ mySem'[q] = mySem[q] /\ myMemory'[q] = myMemory[q]
           /\ q \in isInited' <=> q \in isInited
    BY OthersStay DEF Opening
  <1>2. \A q \in Openers : pc[q] \in {"truncate", "map", "init", "post", "opened"} =>
           myMemory[q] \in Object
    BY WithinObjects DEF Opening
  <1>3. \A m \in Object : memory[m] = "table" => memory'[m] = "table"
    BY StaysTable DEF Opening
  <1>4. shmName # Nothing => shmName \in Object
    <2>1. shmName # Nothing => shmName = memories /\ memories \in 1 .. memories
      BY DEF Opening, Names, MadeTwiceAtMost, Nothing
    <2> QED
      BY <2>1, ObjectFacts DEF Opening, Names, MadeTwiceAtMost, OwnerFailed, Shapes, Nothing
  <1>5. CASE shmName' = shmName
    <2>1. NameReady => NameReady'
      BY <1>3, <1>4, <1>5 DEF NameReady
    <2>2. \A s \in Object : value'[s] > 0 => NameReady'
      <3>1. CASE PostLock(p)
        <4>1. NameReady
          BY <3>1 DEF PostLock, At, Ready, NameReady
        <4> QED
          BY <2>1, <4>1
      <3>2. CASE ~PostLock(p)
        <4>1. \A s \in Object : value'[s] > 0 => value[s] > 0
          BY <3>2 DEF ipc_create, MakeLock, OpenLock, WaitLock, OpenMemory, Truncate,
                      MapMemory, InitTable, Fails, semaphore, InitialValue, Opening, Shapes
        <4> QED
          BY <2>1, <4>1 DEF Ready
      <3> QED
        BY <3>1, <3>2
    <2>3. \A q \in Openers :
            /\ q \in isInited' /\ At(q, "shm")' => NameReady'
            /\ pc'[q] \in {"truncate", "map", "init", "post"} =>
                  myMemory'[q] = shmName' /\ shmName' # Nothing
            /\ (q \in isInited' /\ At(q, "map")') \/ pc'[q] \in {"post", "opened"} =>
                  memory'[myMemory'[q]] = "table"
      <3> TAKE q \in Openers
      <3>1. CASE q # p
        BY <1>1, <1>2, <1>3, <1>5, <2>1, <3>1 DEF Ready, At
      <3>2. CASE q = p /\ (MakeLock(p) \/ OpenLock(p))
        BY <3>2 DEF MakeLock, OpenLock, Opening, Shapes, CallsProceed, At, Goto
      <3>3. CASE q = p /\ WaitLock(p)
        <4>1. NameReady
          BY <3>3, WithinObjects DEF WaitLock, At, Opening, Ready
        <4> QED
          BY <2>1, <3>3, <4>1 DEF WaitLock, At, Goto, Opening, Shapes
      <3>4. CASE q = p /\ OpenMemory(p)
        <4>1. /\ pc'[p] = IF p \in isInited THEN "map" ELSE "truncate"
              /\ myMemory'[p] = shmName' /\ isInited' = isInited /\ memory' = memory
              /\ p \in isInited => NameReady
          BY <3>4 DEF OpenMemory, At, Goto, Opening, Shapes, Ready
        <4>2. shmName # Nothing
          BY <1>5, <3>4 DEF OpenMemory, Nothing, Opening, Shapes
        <4> QED
          BY <1>5, <3>4, <4>1, <4>2 DEF At, NameReady
      <3>5. CASE q = p /\ (Truncate(p) \/ MapMemory(p))
        BY <1>2, <1>3, <1>5, <3>5
           DEF Truncate, MapMemory, conn, At, Goto, Opening, Shapes, CallsProceed, Ready
      <3>6. CASE q = p /\ (InitTable(p) \/ PostLock(p) \/ Fails(p))
        BY <1>2, <1>3, <1>5, <3>6
           DEF InitTable, PostLock, Fails, shared, conn, At, Goto, Opening, Shapes, Ready
      <3> QED
        BY <3>1, <3>2, <3>3, <3>4, <3>5, <3>6 DEF ipc_create
    <2> QED
      BY <2>2, <2>3 DEF Ready
  <1>6. CASE OpenMemory(p) /\ shmName' # shmName
    <2>1. shmName = Nothing /\ value' = value /\ memory' = memory /\ isInited' = isInited
      BY <1>6 DEF OpenMemory, semaphore
    <2>2. /\ \A s \in Object : ~(value[s] > 0)
          /\ \A q \in Openers : /\ pc[q] \notin {"truncate", "map", "init", "post"}
                                /\ ~(q \in isInited /\ At(q, "shm"))
      BY <2>1 DEF Ready, NameReady
    <2>3. /\ pc'[p] = "truncate" /\ myMemory'[p] = shmName' /\ shmName' # Nothing
      BY <1>6, <2>1, <2>2 DEF OpenMemory, At, Goto, Opening, Shapes, Nothing
    <2> QED
      BY <1>1, <2>1, <2>2, <2>3 DEF Ready, At
  <1>7. CASE Fails(p) /\ shmName' # shmName
    <2>1. /\ p = Owner /\ Holding(p) /\ value' = value /\ memory' = memory /\ isInited' = isInited
          /\ pc'[p] = "NULL"
      BY <1>7 DEF Fails, At, Goto, Holding, Calling, conn, Opening, Shapes
    <2>2. /\ \A s \in Object : value'[s] = 0
          /\ \A q \in Openers : q # p => pc'[q] \notin Calling
      BY <1>1, <2>1, UnlinkedAlone DEF Holding
    <2>3. \A s \in Object : ~(value'[s] > 0)
      BY <2>2, SMT
    <2> QED
      BY <1>1, <2>1, <2>2, <2>3 DEF Ready, At, Calling
  <1> QED
    BY <1>5, <1>6, <1>7
       DEF ipc_create, MakeLock, OpenLock, WaitLock, Truncate, MapMemory, InitTable, PostLock, shared

LEMMA NextPermitted ==
    ASSUME Opening, Opening', Permitted, [Next]_vars
    PROVE  Permitted'
  <1> SUFFICES ASSUME Undisturbed' PROVE OneHolder' /\ Ready'
    BY DEF Permitted
  <1>1. OneHolder /\ Ready
    BY StillUndisturbed DEF Permitted, Opening
  <1>2. CASE UNCHANGED vars
    BY <1>1, <1>2 DEF vars, semaphore, shared, conn, OneHolder, Ready, Holding, At, NameReady
  <1>3. ASSUME NEW p \in Openers, ipc_create(p) \/ Fails(p)
        PROVE  OneHolder' /\ Ready'
    BY <1>1, <1>3, NextOneHolder, NextReady
  <1> QED
    BY <1>2, <1>3, NoInterruption DEF Next, Opening

(* Whoever is given a connection finds its table initialised, whichever calls of *)
(* the others have failed, unless a sem_wait was interrupted (shmem.c:64-72,     *)
(* 117-142).                                                                     *)
THEOREM TableReadyForAll == Spec => []TableReady
  <1>1. Init => Opening /\ Permitted
    BY InitOpening, InitPermitted
  <1>2. Opening /\ Permitted /\ [Next]_vars => Opening' /\ Permitted'
    <2>1. Opening /\ [Next]_vars => Opening'
      BY NextShapes, NextCalls, NextNames, NextOneMaker, NextInited DEF Opening
    <2> QED
      BY <2>1, NextPermitted
  <1>3. Permitted => TableReady
    BY DEF Permitted, Undisturbed, Ready, TableReady, At
  <1> QED
    BY <1>1, <1>2, <1>3, PTL DEF Spec
=============================================================================
