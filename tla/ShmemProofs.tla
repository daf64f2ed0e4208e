---------------------------- MODULE ShmemProofs ----------------------------
(* Theorems about ShmemIpc, for any number of entries, of writers and of         *)
(* signals.                                                                      *)
EXTENDS ShmemIpc, CountingLemmas, WellFoundedInduction

-----------------------------------------------------------------------------
(* Where the threads are, and what their variables hold. *)

Shapes == /\ index \in [Slot -> Slot \cup {Unused, Entries}]
          /\ slots \in [Slot -> Data \cup {None}]
          /\ writeSem \in Nat /\ readWait \in Nat /\ lock \in Nat
          /\ interrupts \in 0 .. MaxInterrupts
          /\ pc \in [Thread -> Places \cup {"fill"}] /\ pc[Reader] \in Places
          /\ message \in [Writers -> Data \cup {None}]
          /\ \A w \in Writers : (message[w] = None) <=> At(w, "idle")
          /\ found \in [Writers -> [slot : Slot \cup {Entries}, at : Slot \cup {Entries}]]
          /\ got \in Data \cup {None}

LEMMA SlotFacts ==
    /\ 0 \in Slot /\ Slot \subseteq Nat /\ Unused \notin Slot /\ Entries \notin Slot
    /\ Unused # Entries
    /\ \A s \in Nat : s < Entries <=> s \in Slot
  BY EntriesAssumption, SMT DEF Slot, Unused

LEMMA ThreadsFinite ==
    IsFiniteSet(Thread) /\ IsFiniteSet(Writers) /\ Writers \subseteq Thread /\ Reader \in Thread
  BY WritersAssumption, FS_AddElement DEF Thread

(* The first entry that passes a test is one that does, and no earlier one does. *)
LEMMA FirstFound ==
    ASSUME NEW free \in SUBSET Slot
    PROVE  /\ FirstOr(free) \in Slot \cup {Entries}
           /\ free # {} => /\ FirstOr(free) \in free
                           /\ \A s \in free : FirstOr(free) <= s
  <1>1. CASE free = {}
    BY <1>1 DEF FirstOr
  <1>2. CASE free # {}
    <2> DEFINE less == {pair \in Nat \X Nat : pair[1] < pair[2]}
    <2>1. free \subseteq Nat
      BY SlotFacts
    <2>2. PICK s \in free : \A r \in free : <<r, s>> \notin less
      <3>1. IsWellFoundedOn(less, Nat)
        BY NatLessThanWellFounded, Zenon DEF OpToRel
      <3> HIDE DEF less
      <3> QED
        BY <1>2, <2>1, <3>1, WFMin
    <2>3. \A r \in free : s <= r
      <3> SUFFICES ASSUME NEW r \in free, ~(s <= r) PROVE <<r, s>> \in less
        BY <2>2
      <3>1. r \in Nat /\ s \in Nat
        BY <2>1
      <3>2. r < s
        BY <3>1
      <3> QED
        BY <3>1, <3>2, Zenon
    <2>4. Min(free) \in free /\ \A r \in free : Min(free) <= r
      BY <2>3 DEF Min
    <2> QED
      BY <1>2, <2>4 DEF FirstOr
  <1> QED
    BY <1>1, <1>2

LEMMA InitShapes == Init => Shapes
  <1> SUFFICES ASSUME Init PROVE Shapes
    OBVIOUS
  <1>1. /\ index \in [Slot -> Slot \cup {Unused, Entries}]
        /\ writeSem \in Nat /\ readWait \in Nat /\ lock \in Nat
        /\ interrupts \in 0 .. MaxInterrupts
    BY EntriesAssumption, SMT DEF Init
  <1>2. found \in [Writers -> [slot : Slot \cup {Entries}, at : Slot \cup {Entries}]]
    BY SlotFacts DEF Init
  <1>3. pc \in [Thread -> Places \cup {"fill"}] /\ pc[Reader] \in Places
    BY ThreadsFinite DEF Init, Places
  <1> QED
    BY <1>1, <1>2, <1>3, ThreadsFinite DEF Init, Shapes, At

LEMMA NextShapes == Shapes /\ [Next]_vars => Shapes'
  <1> SUFFICES ASSUME Shapes, [Next]_vars PROVE Shapes'
    OBVIOUS
  <1> USE DEF Shapes, At, Goto, Places
  <1>1. ASSUME NEW t \in Thread, Lock(t) \/ Unlock(t) \/ Interrupted(t) PROVE Shapes'
    <2>1. /\ lock' \in Nat /\ interrupts' \in 0 .. MaxInterrupts
          /\ UNCHANGED <<table, sems, calls>>
      BY <1>1, EntriesAssumption, SMT DEF Lock, Unlock, Interrupted
    <2>2. PICK there \in {"locked", "post"} :
             Goto(t, there) /\ pc[t] \notin {"idle"}
      BY <1>1 DEF Lock, Unlock, Interrupted
    <2>3. /\ pc' \in [Thread -> Places \cup {"fill"}] /\ pc'[Reader] \in Places
          /\ \A w \in Writers : pc'[w] = "idle" <=> pc[w] = "idle"
      BY <2>2, ThreadsFinite
    <2> QED
      BY <2>1, <2>3 DEF table, sems, calls
  <1>2. ASSUME NEW w \in Writers, NEW d \in Data, CallWrite(w, d) PROVE Shapes'
    BY <1>2, ThreadsFinite, WritersAssumption DEF CallWrite, table, sems
  <1>3. ASSUME NEW w \in Writers, WriteWait(w) PROVE Shapes'
    <2>1. writeSem' \in Nat
      BY <1>3, SMT DEF WriteWait
    <2> QED
      BY <1>3, <2>1, ThreadsFinite, WritersAssumption DEF WriteWait, table, calls
  <1>4. ASSUME NEW w \in Writers, WriteFind(w) PROVE Shapes'
    <2>1. /\ FirstOr({s \in Slot : slots[s] = None}) \in Slot \cup {Entries}
          /\ FirstOr({k \in Slot : index[k] = Unused}) \in Slot \cup {Entries}
      BY FirstFound
    <2>2. found' \in [Writers -> [slot : Slot \cup {Entries}, at : Slot \cup {Entries}]]
      BY <1>4, <2>1 DEF WriteFind
    <2> QED
      BY <1>4, <2>2, ThreadsFinite, WritersAssumption DEF WriteFind, table, sems
  <1>5. ASSUME NEW w \in Writers, WriteFill(w) PROVE Shapes'
    <2>1. /\ index' \in [Slot -> Slot \cup {Unused, Entries}]
          /\ slots' \in [Slot -> Data \cup {None}]
      BY <1>5 DEF WriteFill
    <2> QED
      BY <1>5, <2>1, ThreadsFinite, WritersAssumption DEF WriteFill, calls, sems
  <1>6. ASSUME NEW w \in Writers, WritePost(w) PROVE Shapes'
    <2>1. readWait' \in Nat
      BY <1>6, SMT DEF WritePost
    <2> QED
      BY <1>6, <2>1, ThreadsFinite, WritersAssumption DEF WritePost, table
  <1>7. CASE CallRead \/ ReadWait \/ ReadPost
    <2>1. writeSem' \in Nat /\ readWait' \in Nat
      BY <1>7, SMT DEF CallRead, ReadWait, ReadPost, sems
    <2> QED
      BY <1>7, <2>1, ThreadsFinite, WritersAssumption
         DEF CallRead, ReadWait, ReadPost, table, calls
  <1>8. CASE ReadTake
    <2>1. Shifted \in [Slot -> Slot \cup {Unused, Entries}]
      BY DEF Shifted
    <2>2. slots' \in [Slot -> Data \cup {None}] /\ got' \in Data \cup {None}
      BY <1>8 DEF ReadTake
    <2> QED
      BY <1>8, <2>1, <2>2, ThreadsFinite, WritersAssumption DEF ReadTake, sems
  <1>9. CASE UNCHANGED vars
    BY <1>9 DEF vars, table, sems, calls
  <1> QED
    BY <1>1, <1>2, <1>3, <1>4, <1>5, <1>6, <1>7, <1>8, <1>9, ThreadsFinite
       DEF Next, Writing, Reading

-----------------------------------------------------------------------------
(* What a thread's move from one place to another changes about the number of    *)
(* threads at some places.                                                       *)

LEMMA Moves ==
    ASSUME Shapes, NEW t \in Thread, NEW there, Goto(t, there),
           NEW threads \in SUBSET Thread, NEW places
    PROVE  LET before == Cardinality(Among(pc, threads, places))
               after  == Cardinality(Among(pc', threads, places))
           IN  /\ before \in Nat /\ after \in Nat
               /\ t \in threads /\ pc[t] \notin places /\ there \in places
                     => after = before + 1
               /\ t \in threads /\ pc[t] \in places /\ there \notin places
                     => after = before - 1
               /\ t \notin threads \/ (pc[t] \in places <=> there \in places)
                     => after = before
  <1>1. IsFiniteSet(threads)
    BY ThreadsFinite, FS_Subset
  <1>2. OneMoves(pc, pc', threads, t, there)
    BY DEF Goto, Shapes, OneMoves
  <1> QED
    BY <1>1, <1>2, OneStep

TableWork == {"locked", "fill", "unlock"}
Entered   == {"lock", "locked", "fill", "unlock", "post"}

LEMMA PlacesCounted ==
    ASSUME Shapes
    PROVE  /\ Inside = Among(pc, Thread, TableWork)
           /\ {t \in Thread : pc[t] \notin {"idle", "wait"}} = Among(pc, Thread, Entered)
  BY DEF Inside, Among, TableWork, Entered, Shapes, Places

Working == Cardinality(Among(pc, Thread, TableWork))
Busy    == Cardinality(Among(pc, Thread, Entered))

(* The permits of the lock, and the credits of the counting semaphores.          *)
Permits == lock + Working = 1 + interrupts
Credits == writeSem + readWait + Busy = Entries

LEMMA InitCounts == Init => Permits /\ Credits
  <1> SUFFICES ASSUME Init PROVE Permits /\ Credits
    OBVIOUS
  <1>1. \A t \in Thread : pc[t] = "idle"
    BY DEF Init
  <1>2. Among(pc, Thread, TableWork) = {} /\ Among(pc, Thread, Entered) = {}
    BY <1>1 DEF Among, TableWork, Entered
  <1>3. Working = 0 /\ Busy = 0
    BY <1>2, FS_EmptySet DEF Working, Busy
  <1> QED
    BY <1>3, EntriesAssumption DEF Init, Permits, Credits

LEMMA NextCounts == Shapes /\ Permits /\ Credits /\ [Next]_vars => Permits' /\ Credits'
  <1> SUFFICES ASSUME Shapes, Permits, Credits, [Next]_vars PROVE Permits' /\ Credits'
    OBVIOUS
  <1>1. ASSUME NEW t \in Thread, NEW there, Goto(t, there)
        PROVE  /\ Working \in Nat /\ Working' \in Nat /\ Busy \in Nat /\ Busy' \in Nat
               /\ pc[t] \notin TableWork /\ there \in TableWork => Working' = Working + 1
               /\ pc[t] \in TableWork /\ there \notin TableWork => Working' = Working - 1
               /\ (pc[t] \in TableWork <=> there \in TableWork) => Working' = Working
               /\ pc[t] \notin Entered /\ there \in Entered => Busy' = Busy + 1
               /\ pc[t] \in Entered /\ there \notin Entered => Busy' = Busy - 1
               /\ (pc[t] \in Entered <=> there \in Entered) => Busy' = Busy
    BY <1>1, Moves DEF Working, Busy
  <1> HIDE DEF Working, Busy
  <1> USE DEF TableWork, Entered, At, Permits, Credits
  <1>2. ASSUME NEW t \in Thread, Lock(t) PROVE Permits' /\ Credits'
    <2>1. Working' = Working + 1 /\ Busy' = Busy /\ Working \in Nat /\ Busy \in Nat
      BY <1>1, <1>2 DEF Lock
    <2> QED
      BY <1>2, <2>1 DEF Lock, sems, Shapes
  <1>3. ASSUME NEW t \in Thread, Interrupted(t) PROVE Permits' /\ Credits'
    <2>1. Working' = Working + 1 /\ Busy' = Busy /\ Working \in Nat /\ Busy \in Nat
      BY <1>1, <1>3 DEF Interrupted
    <2> QED
      BY <1>3, <2>1 DEF Interrupted, sems, Shapes
  <1>4. ASSUME NEW t \in Thread, Unlock(t) PROVE Permits' /\ Credits'
    <2>1. Working' = Working - 1 /\ Busy' = Busy /\ Working \in Nat /\ Busy \in Nat
      BY <1>1, <1>4 DEF Unlock
    <2> QED
      BY <1>4, <2>1 DEF Unlock, sems, Shapes
  <1>5. ASSUME NEW w \in Writers, NEW d \in Data, CallWrite(w, d) PROVE Permits' /\ Credits'
    <2>1. Working' = Working /\ Busy' = Busy
      BY <1>1, <1>5, ThreadsFinite DEF CallWrite
    <2> QED
      BY <1>5, <2>1 DEF CallWrite, sems
  <1>6. ASSUME NEW w \in Writers, WriteWait(w) PROVE Permits' /\ Credits'
    <2>1. Working' = Working /\ Busy' = Busy + 1 /\ Busy \in Nat
      BY <1>1, <1>6, ThreadsFinite DEF WriteWait
    <2> QED
      BY <1>6, <2>1, EntriesAssumption DEF WriteWait, Shapes
  <1>7. ASSUME NEW w \in Writers, WriteFind(w) \/ WriteFill(w) PROVE Permits' /\ Credits'
    <2>1. Working' = Working /\ Busy' = Busy
      BY <1>1, <1>7, ThreadsFinite DEF WriteFind, WriteFill
    <2> QED
      BY <1>7, <2>1 DEF WriteFind, WriteFill, sems
  <1>8. ASSUME NEW w \in Writers, WritePost(w) PROVE Permits' /\ Credits'
    <2>1. Working' = Working /\ Busy' = Busy - 1 /\ Busy \in Nat
      BY <1>1, <1>8, ThreadsFinite DEF WritePost
    <2> QED
      BY <1>8, <2>1, EntriesAssumption DEF WritePost, Shapes
  <1>9. CASE CallRead \/ ReadTake
    <2>1. Working' = Working /\ Busy' = Busy
      BY <1>1, <1>9, ThreadsFinite DEF CallRead, ReadTake
    <2> QED
      BY <1>9, <2>1 DEF CallRead, ReadTake, sems
  <1>10. CASE ReadWait
    <2>1. Working' = Working /\ Busy' = Busy + 1 /\ Busy \in Nat
      BY <1>1, <1>10, ThreadsFinite DEF ReadWait
    <2> QED
      BY <1>10, <2>1, EntriesAssumption DEF ReadWait, Shapes
  <1>11. CASE ReadPost
    <2>1. Working' = Working /\ Busy' = Busy - 1 /\ Busy \in Nat
      BY <1>1, <1>11, ThreadsFinite DEF ReadPost
    <2> QED
      BY <1>11, <2>1, EntriesAssumption DEF ReadPost, Shapes
  <1>12. CASE UNCHANGED vars
    BY <1>12 DEF vars, sems, Working, Busy
  <1> QED
    BY <1>2, <1>3, <1>4, <1>5, <1>6, <1>7, <1>8, <1>9, <1>10, <1>11, <1>12, ThreadsFinite
       DEF Next, Writing, Reading

Counted == Shapes /\ Permits /\ Credits

LEMMA AlwaysCounted == Spec => []Counted
  <1>1. Init => Counted
    BY InitShapes, InitCounts DEF Counted
  <1>2. Counted /\ [Next]_vars => Counted'
    BY NextShapes, NextCounts DEF Counted
  <1> QED
    BY <1>1, <1>2, PTL DEF Spec

(* A thread whose sem_wait was interrupted posts the lock all the same: each     *)
(* interruption lets one more thread work on the table for good, and without one *)
(* never two do (shmem.c:210, 227, 239, 271).                                    *)
THEOREM PermitPerInterruption == Spec => []OnePermitPerInterruption
  <1>1. Counted => OnePermitPerInterruption
    BY PlacesCounted DEF Counted, Permits, Working, OnePermitPerInterruption
  <1> QED
    BY <1>1, AlwaysCounted, PTL

(* The two counting semaphores and the calls under way always add up to the      *)
(* number of entries, interrupted or not (shmem.c:190-200, 209-228, 238-272).    *)
THEOREM NoCreditLost == Spec => []CreditsKept
  <1>1. Counted => CreditsKept
    BY PlacesCounted DEF Counted, Credits, Busy, CreditsKept
  <1> QED
    BY <1>1, AlwaysCounted, PTL

(* Every variable keeps its type: no semaphore ever counts more than the entries *)
(* (shmem.c:190-200, 203-275).                                                   *)
THEOREM ShmemTypeCorrect == Spec => []TypeOK
  <1>1. Counted => TypeOK
    <2> SUFFICES ASSUME Counted PROVE TypeOK
      OBVIOUS
    <2>1. Busy \in Nat
      BY ThreadsFinite, AmongFinite DEF Busy
    <2>2. writeSem \in 0 .. Entries /\ readWait \in 0 .. Entries
      BY <2>1, EntriesAssumption DEF Counted, Shapes, Credits
    <2> QED
      BY <2>2 DEF Counted, Shapes, TypeOK
  <1> QED
    BY <1>1, AlwaysCounted, PTL

-----------------------------------------------------------------------------
(* The table, as long as no sem_wait has been interrupted.  TableSound is not    *)
(* inductive: a writer must also know that what it found is the first free place *)
(* of the index, for the places in use to stay together.                         *)

Ordered ==
    /\ \E n \in 0 .. Entries : Used = 0 .. n - 1
    /\ \A k \in Used : index[k] \in Slot /\ slots[index[k]] # None
    /\ \A j, k \in Used : index[j] = index[k] => j = k
    /\ \A s \in Slot : slots[s] # None => \E k \in Used : index[k] = s

FirstPlaceFound == \A w \in Writers : At(w, "fill") =>
    /\ found[w].slot \in Slot /\ slots[found[w].slot] = None
    /\ found[w].at \in Slot /\ index[found[w].at] = Unused
    /\ \A k \in Slot : k < found[w].at => k \in Used

claimed   == Cardinality(Claimed)
uncounted == Cardinality(Uncounted)
used      == Cardinality(Used)
Freeing   == OneIf(pc[Reader] \in {"unlock", "post"})
Taking    == OneIf(pc[Reader] \in {"lock", "locked"})

EntriesAgree  == writeSem + claimed + used + Freeing = Entries
MessagesAgree == readWait + uncounted = used - Taking

Sound == Ordered /\ FirstPlaceFound /\ EntriesAgree /\ MessagesAgree

(* While nothing has been interrupted one thread at most works on the table. *)
LEMMA Alone ==
    ASSUME Counted, Undisturbed, NEW t \in Thread, NEW u \in Thread,
           pc[t] \in TableWork, pc[u] \in TableWork
    PROVE  t = u
  <1>1. IsFiniteSet(Among(pc, Thread, TableWork)) /\ Working \in Nat
    BY ThreadsFinite, AmongFinite DEF Working
  <1>2. Working <= 1
    BY <1>1 DEF Counted, Shapes, Permits, Undisturbed
  <1> QED
    BY <1>1, <1>2, AtMostOne DEF Working, Among

LEMMA UsedCounted ==
    ASSUME Shapes, Ordered
    PROVE  used \in 0 .. Entries /\ Used = 0 .. used - 1
  <1>1. PICK n \in 0 .. Entries : Used = 0 .. n - 1
    BY DEF Ordered
  <1>2. Cardinality(0 .. n - 1) = n
    BY FS_Interval, EntriesAssumption
  <1> QED
    BY <1>1, <1>2 DEF used

LEMMA UsedIs ==
    ASSUME NEW n \in 0 .. Entries
    PROVE  Cardinality(0 .. n - 1) = n
  BY FS_Interval, EntriesAssumption

(* The entries in use are as many as the places in use. *)
LEMMA FreeEntry ==
    ASSUME Shapes, Ordered, used < Entries
    PROVE  /\ {s \in Slot : slots[s] = None} # {}
           /\ {k \in Slot : index[k] = Unused} # {}
  <1>1. used \in 0 .. Entries /\ Used = 0 .. used - 1
    BY UsedCounted
  <1>2. {k \in Slot : index[k] = Unused} # {}
    <2>1. used \in Slot /\ used \notin Used
      BY <1>1, EntriesAssumption DEF Slot
    <2> QED
      BY <2>1 DEF Used
  <1>3. {s \in Slot : slots[s] = None} # {}
    <2> SUFFICES ASSUME \A s \in Slot : slots[s] # None PROVE FALSE
      OBVIOUS
    <2> DEFINE f == [k \in Used |-> index[k]]
    <2>1. f \in [Used -> Slot] /\ \A s \in Slot : \E k \in Used : f[k] = s
      BY DEF Ordered
    <2>2. f \in Surjection(Used, Slot)
      BY <2>1, Fun_IsSurj
    <2>3. IsFiniteSet(Used)
      BY <1>1, FS_Interval
    <2>4. Cardinality(Slot) <= used
      BY <2>2, <2>3, FS_Surjection DEF used
    <2>5. Cardinality(Slot) = Entries
      BY UsedIs, EntriesAssumption DEF Slot
    <2> QED
      BY <1>1, <2>4, <2>5, EntriesAssumption
  <1> QED
    BY <1>2, <1>3

(* How the counts of the calls move with a thread.                               *)
ClaimPlaces   == {"lock", "locked", "fill"}
PublishPlaces == {"unlock", "post"}

LEMMA WriterMoves ==
    ASSUME Shapes, NEW t \in Thread, NEW there, Goto(t, there)
    PROVE  /\ claimed \in Nat /\ claimed' \in Nat /\ uncounted \in Nat /\ uncounted' \in Nat
           /\ t \in Writers =>
                /\ pc[t] \notin ClaimPlaces /\ there \in ClaimPlaces => claimed' = claimed + 1
                /\ pc[t] \in ClaimPlaces /\ there \notin ClaimPlaces => claimed' = claimed - 1
                /\ (pc[t] \in ClaimPlaces <=> there \in ClaimPlaces) => claimed' = claimed
                /\ pc[t] \notin PublishPlaces /\ there \in PublishPlaces
                      => uncounted' = uncounted + 1
                /\ pc[t] \in PublishPlaces /\ there \notin PublishPlaces
                      => uncounted' = uncounted - 1
                /\ (pc[t] \in PublishPlaces <=> there \in PublishPlaces)
                      => uncounted' = uncounted
           /\ t = Reader => claimed' = claimed /\ uncounted' = uncounted
  <1>1. /\ claimed = Cardinality(Among(pc, Writers, ClaimPlaces))
        /\ claimed' = Cardinality(Among(pc', Writers, ClaimPlaces))
        /\ uncounted = Cardinality(Among(pc, Writers, PublishPlaces))
        /\ uncounted' = Cardinality(Among(pc', Writers, PublishPlaces))
    BY DEF claimed, uncounted, Claimed, Uncounted, Among, ClaimPlaces, PublishPlaces
  <1>2. Writers \in SUBSET Thread
    BY ThreadsFinite
  <1> QED
    BY <1>1, <1>2, Moves, WritersAssumption

(* Where the writer stays, the reader's part is as it was. *)
LEMMA ReaderStays ==
    ASSUME Shapes, NEW w \in Writers, NEW there, Goto(w, there)
    PROVE  pc'[Reader] = pc[Reader] /\ Freeing' = Freeing /\ Taking' = Taking
  <1>1. pc'[Reader] = pc[Reader]
    BY ThreadsFinite, WritersAssumption DEF Shapes, Goto
  <1> QED
    BY <1>1 DEF Freeing, Taking

LEMMA ReaderCounts ==
    /\ pc[Reader] \in {"unlock", "post"} => Freeing = 1
    /\ pc[Reader] \notin {"unlock", "post"} => Freeing = 0
    /\ pc[Reader] \in {"lock", "locked"} => Taking = 1
    /\ pc[Reader] \notin {"lock", "locked"} => Taking = 0
  BY DEF Freeing, Taking, OneIf

(* A step that leaves the table alone and takes nobody to the place where the    *)
(* table is filled.                                                              *)
LEMMA TableUntouched ==
    ASSUME Shapes, Ordered, FirstPlaceFound, UNCHANGED table,
           \A w \in Writers : pc'[w] = "fill" => pc[w] = "fill" /\ found'[w] = found[w]
    PROVE  Ordered' /\ FirstPlaceFound' /\ used' = used /\ used \in 0 .. Entries
  <1>1. Used' = Used /\ index' = index /\ slots' = slots
    BY DEF table, Used
  <1> QED
    BY <1>1, UsedCounted DEF Ordered, FirstPlaceFound, used, At

LEMMA WriterPasses ==
    ASSUME Counted, Undisturbed, Sound, NEW w \in Writers,
           \/ \E d \in Data : CallWrite(w, d)
           \/ WriteWait(w) \/ Lock(w) \/ Unlock(w) \/ WritePost(w)
    PROVE  Sound'
  <1> USE DEF Sound, Counted
  <1>1. PICK there \in {"wait", "lock", "locked", "post", "idle"} : Goto(w, there)
    BY DEF CallWrite, WriteWait, Lock, Unlock, WritePost
  <1>2. UNCHANGED <<table, found>>
    BY DEF CallWrite, WriteWait, Lock, Unlock, WritePost, calls
  <1>3. w \in Thread
    BY ThreadsFinite
  <1>4. Ordered' /\ FirstPlaceFound' /\ used' = used /\ used \in 0 .. Entries
    <2>1. \A v \in Writers : pc'[v] = "fill" => pc[v] = "fill" /\ found'[v] = found[v]
      BY <1>1, <1>2, <1>3 DEF Goto, Shapes
    <2> QED
      BY <1>2, <2>1, TableUntouched
  <1>5. pc'[Reader] = pc[Reader] /\ Freeing' = Freeing /\ Taking' = Taking
    BY <1>1, ReaderStays
  <1>6. Freeing \in {0, 1} /\ Taking \in {0, 1}
    BY ReaderCounts
  <1>7. EntriesAgree' /\ MessagesAgree'
    <2> HIDE DEF claimed, uncounted, used, Freeing, Taking
    <2>1. CASE (\E d \in Data : CallWrite(w, d)) \/ Lock(w) \/ Unlock(w)
      <3>1. claimed' = claimed /\ uncounted' = uncounted
        BY <1>3, <2>1, WriterMoves
           DEF CallWrite, Lock, Unlock, At, ClaimPlaces, PublishPlaces
      <3> QED
        BY <1>4, <1>5, <2>1, <3>1
           DEF CallWrite, Lock, Unlock, sems, EntriesAgree, MessagesAgree
    <2>2. CASE WriteWait(w)
      <3>1. claimed' = claimed + 1 /\ uncounted' = uncounted /\ claimed \in Nat
        BY <1>3, <2>2, WriterMoves DEF WriteWait, At, ClaimPlaces, PublishPlaces
      <3> QED
        BY <1>4, <1>5, <1>6, <2>2, <3>1, EntriesAssumption
           DEF WriteWait, EntriesAgree, MessagesAgree, Shapes
    <2>3. CASE WritePost(w)
      <3>1. claimed' = claimed /\ uncounted' = uncounted - 1 /\ uncounted \in Nat
        BY <1>3, <2>3, WriterMoves DEF WritePost, At, ClaimPlaces, PublishPlaces
      <3> QED
        BY <1>4, <1>5, <1>6, <2>3, <3>1, EntriesAssumption
           DEF WritePost, EntriesAgree, MessagesAgree, Shapes
    <2> QED
      BY <2>1, <2>2, <2>3
  <1> QED
    BY <1>4, <1>7

LEMMA WriterFinds ==
    ASSUME Counted, Undisturbed, Sound, NEW w \in Writers, WriteFind(w)
    PROVE  Sound'
  <1> USE DEF Sound, Counted
  <1> DEFINE place == [slot |-> FirstOr({s \in Slot : slots[s] = None}),
                       at   |-> FirstOr({k \in Slot : index[k] = Unused})]
  <1>1. w \in Thread /\ Goto(w, "fill") /\ pc[w] = "locked"
    BY ThreadsFinite DEF WriteFind, At
  <1>2. UNCHANGED <<table, sems>>
    BY DEF WriteFind
  <1>3. Used' = Used /\ index' = index /\ slots' = slots /\ used' = used
    BY <1>2 DEF table, Used, used
  <1>4. used \in 0 .. Entries
    BY UsedCounted
  <1>5. claimed' = claimed /\ uncounted' = uncounted /\ claimed \in Nat
    BY <1>1, WriterMoves DEF ClaimPlaces, PublishPlaces
  <1>6. Freeing' = Freeing /\ Taking' = Taking
    BY <1>1, ReaderStays
  <1>7. EntriesAgree' /\ MessagesAgree'
    BY <1>2, <1>3, <1>5, <1>6 DEF sems, EntriesAgree, MessagesAgree
  <1>8. used < Entries
    <2>1. Freeing \in {0, 1}
      BY ReaderCounts
    <2>2. claimed > 0
      <3>1. w \in Claimed /\ IsFiniteSet(Claimed)
        <4>1. Claimed \in SUBSET Writers
          BY DEF Claimed
        <4> QED
          BY <1>1, <4>1, ThreadsFinite, FS_Subset DEF Claimed
      <3> QED
        BY <3>1, <1>5, FS_EmptySet DEF claimed
    <2> QED
      BY <2>1, <2>2, <1>4, <1>5, EntriesAssumption DEF EntriesAgree, Shapes
  <1>9. /\ place.slot \in Slot /\ slots[place.slot] = None
        /\ place.at \in Slot /\ index[place.at] = Unused
        /\ \A k \in Slot : k < place.at => k \in Used
    <2> DEFINE freeSlots  == {s \in Slot : slots[s] = None}
               freePlaces == {k \in Slot : index[k] = Unused}
    <2>1. freeSlots # {} /\ freePlaces # {}
      BY <1>8, FreeEntry
    <2>2. freeSlots \in SUBSET Slot /\ freePlaces \in SUBSET Slot
      OBVIOUS
    <2> HIDE DEF freeSlots, freePlaces
    <2>3. /\ FirstOr(freeSlots) \in freeSlots /\ FirstOr(freePlaces) \in freePlaces
          /\ \A k \in freePlaces : FirstOr(freePlaces) <= k
      BY <2>1, <2>2, FirstFound
    <2>4. \A k \in Slot : k < FirstOr(freePlaces) => k \notin freePlaces
      <3> SUFFICES ASSUME NEW k \in freePlaces PROVE ~(k < FirstOr(freePlaces))
        OBVIOUS
      <3>1. FirstOr(freePlaces) \in Nat /\ k \in Nat
        BY <2>2, <2>3, SlotFacts
      <3>2. FirstOr(freePlaces) <= k
        BY <2>3
      <3> QED
        BY <3>1, <3>2
    <2>5. place.slot = FirstOr(freeSlots) /\ place.at = FirstOr(freePlaces)
      BY DEF freeSlots, freePlaces
    <2> QED
      BY <2>3, <2>4, <2>5 DEF freeSlots, freePlaces, Used
  <1>10. /\ found'[w] = place
         /\ \A v \in Writers : v # w => found'[v] = found[v] /\ pc'[v] = pc[v]
    BY <1>1 DEF WriteFind, Shapes, Goto
  <1> HIDE DEF place
  <1>11. FirstPlaceFound'
    BY <1>3, <1>9, <1>10 DEF FirstPlaceFound, At
  <1>12. Ordered'
    BY <1>3 DEF Ordered
  <1> QED
    BY <1>7, <1>11, <1>12

LEMMA WriterFills ==
    ASSUME Counted, Undisturbed, Sound, NEW w \in Writers, WriteFill(w)
    PROVE  /\ Sound'
           /\ used' = used + 1 /\ used \in 0 .. Entries /\ found[w].at = used
           /\ index' = [index EXCEPT ![used] = found[w].slot]
           /\ slots' = [slots EXCEPT ![found[w].slot] = message[w]]
           /\ used \in Slot /\ found[w].slot \in Slot /\ slots[found[w].slot] = None
  <1> USE DEF Sound, Counted
  <1> DEFINE slot == found[w].slot
  <1>1. w \in Thread /\ Goto(w, "unlock") /\ pc[w] = "fill"
    BY ThreadsFinite DEF WriteFill, At
  <1>2. UNCHANGED <<sems, found>>
    BY DEF WriteFill, calls
  <1>3. used \in 0 .. Entries /\ Used = 0 .. used - 1
    BY UsedCounted
  <1>4. /\ slot \in Slot /\ slots[slot] = None
        /\ found[w].at \in Slot /\ index[found[w].at] = Unused
        /\ \A k \in Slot : k < found[w].at => k \in Used
    BY <1>1 DEF FirstPlaceFound, At
  <1>5. found[w].at = used /\ used \in Slot /\ used < Entries /\ used \notin Used
    <2>1. found[w].at \notin Used
      BY <1>4 DEF Used
    <2> HIDE DEF used
    <2>2. ~(used < found[w].at)
      <3> SUFFICES ASSUME used < found[w].at PROVE FALSE
        OBVIOUS
      <3>1. used \in Slot
        BY <1>3, <1>4, EntriesAssumption DEF Slot
      <3>2. used \in 0 .. used - 1
        BY <1>3, <1>4, <3>1
      <3> QED
        BY <1>3, <3>2
    <2>3. ~(found[w].at < used)
      BY <1>3, <1>4, <2>1 DEF Slot
    <2> QED
      BY <1>3, <1>4, <2>1, <2>2, <2>3, EntriesAssumption DEF Slot
  <1>6. /\ index' = [index EXCEPT ![used] = slot]
        /\ slots' = [slots EXCEPT ![slot] = message[w]]
    BY <1>4, <1>5 DEF WriteFill
  <1>7. message[w] \in Data /\ message[w] # None
    BY <1>1 DEF Shapes, At
  <1> HIDE DEF used, slot
  <1>8. /\ index'[used] = slot /\ \A k \in Slot : k # used => index'[k] = index[k]
        /\ slots'[slot] = message[w] /\ \A s \in Slot : s # slot => slots'[s] = slots[s]
    BY <1>4, <1>5, <1>6 DEF Shapes
  <1>9. Used' = Used \cup {used}
    BY <1>4, <1>5, <1>8, SlotFacts DEF Used
  <1>10. used' = used + 1 /\ Used' = 0 .. used' - 1
    <2>1. Used' = 0 .. used
      BY <1>3, <1>9
    <2>2. used + 1 \in 0 .. Entries /\ 0 .. used = 0 .. (used + 1) - 1
      BY <1>3, <1>5, EntriesAssumption
    <2>3. Cardinality(Used') = used + 1
      BY <2>1, <2>2, UsedIs
    <2> QED
      BY <2>1, <2>2, <2>3 DEF used
  <1>11. Ordered'
    <2>1. \A k \in Used : index'[k] = index[k] /\ index[k] # slot
      BY <1>4, <1>5, <1>8 DEF Ordered, Used
    <2>2. \A k \in Used' : index'[k] \in Slot /\ slots'[index'[k]] # None
      BY <1>4, <1>7, <1>8, <1>9, <2>1 DEF Ordered
    <2>3. \A j, k \in Used' : index'[j] = index'[k] => j = k
      BY <1>8, <1>9, <2>1 DEF Ordered
    <2>4. ASSUME NEW s \in Slot, slots'[s] # None PROVE \E k \in Used' : index'[k] = s
      <3>1. CASE s = slot
        BY <1>8, <1>9, <3>1
      <3>2. CASE s # slot
        <4>1. PICK k \in Used : index[k] = s
          BY <1>8, <2>4, <3>2 DEF Ordered
        <4> QED
          BY <1>9, <2>1, <4>1
      <3> QED
        BY <3>1, <3>2
    <2>5. used' \in 0 .. Entries
      BY <1>3, <1>5, <1>10, EntriesAssumption
    <2> QED
      BY <1>10, <2>2, <2>3, <2>4, <2>5 DEF Ordered
  <1>12. FirstPlaceFound'
    <2>1. \A v \in Writers : pc'[v] # "fill"
      <3> SUFFICES ASSUME NEW v \in Writers, pc'[v] = "fill" PROVE FALSE
        OBVIOUS
      <3>1. v # w /\ pc[v] = "fill" /\ v \in Thread
        BY <1>1, ThreadsFinite DEF Goto, Shapes
      <3> QED
        BY <1>1, <3>1, Alone DEF TableWork
    <2> QED
      BY <2>1 DEF FirstPlaceFound, At
  <1>13. claimed' = claimed - 1 /\ uncounted' = uncounted + 1 /\ claimed \in Nat /\ uncounted \in Nat
    BY <1>1, WriterMoves DEF ClaimPlaces, PublishPlaces
  <1>14. Freeing' = Freeing /\ Taking' = Taking /\ Freeing \in {0, 1} /\ Taking \in {0, 1}
    BY <1>1, ReaderStays, ReaderCounts
  <1>15. EntriesAgree' /\ MessagesAgree'
    <2> HIDE DEF claimed, uncounted, Freeing, Taking
    <2> QED
      BY <1>2, <1>3, <1>10, <1>13, <1>14, EntriesAssumption
         DEF sems, EntriesAgree, MessagesAgree, Shapes
  <1> QED
    BY <1>3, <1>4, <1>5, <1>6, <1>10, <1>11, <1>12, <1>15 DEF slot

LEMMA ReaderPasses ==
    ASSUME Counted, Undisturbed, Sound,
           \/ CallRead \/ ReadWait \/ Lock(Reader) \/ Unlock(Reader) \/ ReadPost
    PROVE  Sound'
  <1> USE DEF Sound, Counted
  <1>1. PICK there \in {"wait", "lock", "locked", "post", "idle"} : Goto(Reader, there)
    BY DEF CallRead, ReadWait, Lock, Unlock, ReadPost
  <1>2. UNCHANGED <<table, found>>
    BY DEF CallRead, ReadWait, Lock, Unlock, ReadPost, calls
  <1>3. Reader \in Thread
    BY ThreadsFinite
  <1>4. Ordered' /\ FirstPlaceFound' /\ used' = used /\ used \in 0 .. Entries
    <2>1. \A v \in Writers : pc'[v] = "fill" => pc[v] = "fill" /\ found'[v] = found[v]
      BY <1>1, <1>2, <1>3 DEF Goto, Shapes
    <2> QED
      BY <1>2, <2>1, TableUntouched
  <1>5. claimed' = claimed /\ uncounted' = uncounted /\ claimed \in Nat /\ uncounted \in Nat
    BY <1>1, <1>3, WriterMoves
  <1>6. pc'[Reader] = there
    BY <1>1, <1>3 DEF Goto, Shapes
  <1>7. /\ there \in {"unlock", "post"} => Freeing' = 1
        /\ there \notin {"unlock", "post"} => Freeing' = 0
        /\ there \in {"lock", "locked"} => Taking' = 1
        /\ there \notin {"lock", "locked"} => Taking' = 0
    BY <1>6 DEF Freeing, Taking, OneIf
  <1>8. EntriesAgree' /\ MessagesAgree'
    <2> HIDE DEF claimed, uncounted, used, Freeing, Taking
    <2> USE DEF EntriesAgree, MessagesAgree, At
    <2>1. CASE CallRead
      <3>1. Freeing = 0 /\ Taking = 0 /\ Freeing' = 0 /\ Taking' = 0
        BY <1>3, <1>6, <1>7, <2>1, ReaderCounts DEF CallRead, Goto, Shapes
      <3> QED
        BY <1>4, <1>5, <2>1, <3>1 DEF CallRead, sems
    <2>2. CASE ReadWait
      <3>1. Freeing = 0 /\ Taking = 0 /\ Freeing' = 0 /\ Taking' = 1
        BY <1>3, <1>6, <1>7, <2>2, ReaderCounts DEF ReadWait, Goto, Shapes
      <3> QED
        BY <1>4, <1>5, <2>2, <3>1, EntriesAssumption DEF ReadWait, Shapes
    <2>3. CASE Lock(Reader)
      <3>1. Freeing = 0 /\ Taking = 1 /\ Freeing' = 0 /\ Taking' = 1
        BY <1>3, <1>6, <1>7, <2>3, ReaderCounts DEF Lock, Goto, Shapes
      <3> QED
        BY <1>4, <1>5, <2>3, <3>1 DEF Lock, sems
    <2>4. CASE Unlock(Reader)
      <3>1. Freeing = 1 /\ Taking = 0 /\ Freeing' = 1 /\ Taking' = 0
        BY <1>3, <1>6, <1>7, <2>4, ReaderCounts DEF Unlock, Goto, Shapes
      <3> QED
        BY <1>4, <1>5, <2>4, <3>1 DEF Unlock, sems
    <2>5. CASE ReadPost
      <3>1. Freeing = 1 /\ Taking = 0 /\ Freeing' = 0 /\ Taking' = 0
        BY <1>3, <1>6, <1>7, <2>5, ReaderCounts DEF ReadPost, Goto, Shapes
      <3> QED
        BY <1>4, <1>5, <2>5, <3>1, EntriesAssumption DEF ReadPost, Shapes
    <2> QED
      BY <2>1, <2>2, <2>3, <2>4, <2>5
  <1> QED
    BY <1>4, <1>8

LEMMA ReaderTakes ==
    ASSUME Counted, Undisturbed, Sound, ReadTake
    PROVE  /\ Sound'
           /\ used' = used - 1 /\ used \in 1 .. Entries
           /\ \A k \in 0 .. used' - 1 : /\ index'[k] = index[k + 1]
                                        /\ slots'[index'[k]] = slots[index[k + 1]]
           /\ index[0] \in Slot /\ got' = slots[index[0]]
  <1> USE DEF Sound, Counted
  <1>1. Reader \in Thread /\ Goto(Reader, "unlock") /\ pc[Reader] = "locked"
    BY ThreadsFinite DEF ReadTake, At
  <1>2. UNCHANGED <<sems, found>>
    BY DEF ReadTake
  <1>3. used \in 0 .. Entries /\ Used = 0 .. used - 1
    BY UsedCounted
  <1>4. claimed' = claimed /\ uncounted' = uncounted /\ claimed \in Nat /\ uncounted \in Nat
    BY <1>1, WriterMoves, WritersAssumption
  <1>5. Freeing = 0 /\ Taking = 1 /\ Freeing' = 1 /\ Taking' = 0
    <2>1. pc'[Reader] = "unlock"
      BY <1>1 DEF Goto, Shapes
    <2> QED
      BY <1>1, <2>1 DEF Freeing, Taking, OneIf
  <1>6. used \in 1 .. Entries
    <2> HIDE DEF claimed, uncounted, used, Freeing, Taking
    <2> QED
      BY <1>3, <1>4, <1>5 DEF MessagesAgree, Shapes
  <1> HIDE DEF used
  <1>7. 0 \in Used /\ index[0] \in Slot
    BY <1>3, <1>6 DEF Ordered
  <1>8. /\ got' = slots[index[0]]
        /\ slots' = [slots EXCEPT ![index[0]] = None]
        /\ index' = Shifted
    BY <1>7 DEF ReadTake
  <1>9. /\ \A k \in Slot : k + 1 \in Slot => index'[k] = index[k + 1]
        /\ \A k \in Slot : k + 1 \notin Slot => index'[k] = Unused
        /\ slots'[index[0]] = None
        /\ \A s \in Slot : s # index[0] => slots'[s] = slots[s]
    BY <1>7, <1>8 DEF Shifted, Shapes
  <1>10. \A k \in Slot : k \in Used' <=> k + 1 \in Used
    BY <1>9 DEF Used
  <1>11. Used' = 0 .. used - 2
    <2>1. \A k \in Slot : k \in Used' <=> k \in 0 .. used - 2
      BY <1>3, <1>6, <1>10, EntriesAssumption DEF Slot
    <2>2. Used' \subseteq Slot /\ 0 .. used - 2 \subseteq Slot
      BY <1>3, <1>6, EntriesAssumption DEF Slot, Used
    <2> QED
      BY <2>1, <2>2
  <1>12. used' = used - 1 /\ used' \in 0 .. Entries /\ Used' = 0 .. used' - 1
    <2>1. used - 1 \in 0 .. Entries /\ (used - 1) - 1 = used - 2
      BY <1>6, EntriesAssumption
    <2>2. Cardinality(Used') = used - 1
      BY <1>11, <2>1, UsedIs
    <2> QED
      BY <1>11, <2>1, <2>2 DEF used
  <1>13. \A k \in Used' : /\ k + 1 \in Used /\ index'[k] = index[k + 1]
                          /\ index[k + 1] \in Slot /\ index[k + 1] # index[0]
                          /\ slots'[index'[k]] = slots[index[k + 1]]
    <2> SUFFICES ASSUME NEW k \in Used'
                 PROVE  /\ k + 1 \in Used /\ index'[k] = index[k + 1]
                        /\ index[k + 1] \in Slot /\ index[k + 1] # index[0]
                        /\ slots'[index'[k]] = slots[index[k + 1]]
      OBVIOUS
    <2>1. k \in Slot /\ k + 1 \in Used /\ k + 1 \in Slot /\ k + 1 # 0
      BY <1>10, SlotFacts DEF Used
    <2>2. index'[k] = index[k + 1] /\ index[k + 1] \in Slot /\ index[k + 1] # index[0]
      BY <1>7, <1>9, <2>1 DEF Ordered
    <2> QED
      BY <1>9, <2>1, <2>2
  <1>14. Ordered'
    <2>1. \A k \in Used' : index'[k] \in Slot /\ slots'[index'[k]] # None
      BY <1>13 DEF Ordered
    <2>2. \A j, k \in Used' : index'[j] = index'[k] => j = k
      <3> SUFFICES ASSUME NEW j \in Used', NEW k \in Used', index'[j] = index'[k] PROVE j = k
        OBVIOUS
      <3>1. j + 1 = k + 1
        BY <1>13 DEF Ordered
      <3>2. j \in Nat /\ k \in Nat
        BY SlotFacts DEF Used
      <3> QED
        BY <3>1, <3>2
    <2>3. ASSUME NEW s \in Slot, slots'[s] # None PROVE \E k \in Used' : index'[k] = s
      <3>1. s # index[0] /\ slots[s] # None
        BY <1>9, <2>3
      <3>2. PICK j \in Used : index[j] = s
        BY <3>1 DEF Ordered
      <3>3. j # 0 /\ j \in 1 .. used - 1
        BY <1>3, <1>6, <3>1, <3>2
      <3>4. j - 1 \in Used' /\ (j - 1) + 1 = j
        BY <1>6, <1>11, <3>3
      <3> QED
        BY <1>13, <3>2, <3>4
    <2> QED
      BY <1>12, <2>1, <2>2, <2>3 DEF Ordered
  <1>15. FirstPlaceFound'
    <2>1. \A v \in Writers : pc'[v] # "fill"
      <3> SUFFICES ASSUME NEW v \in Writers, pc'[v] = "fill" PROVE FALSE
        OBVIOUS
      <3>1. v # Reader /\ pc[v] = "fill" /\ v \in Thread
        BY <1>1, ThreadsFinite, WritersAssumption DEF Goto, Shapes
      <3> QED
        BY <1>1, <3>1, Alone DEF TableWork
    <2> QED
      BY <2>1 DEF FirstPlaceFound, At
  <1>16. EntriesAgree' /\ MessagesAgree'
    <2> HIDE DEF claimed, uncounted, Freeing, Taking
    <2> QED
      BY <1>2, <1>3, <1>4, <1>5, <1>12, EntriesAssumption
         DEF sems, EntriesAgree, MessagesAgree, Shapes
  <1> QED
    BY <1>6, <1>7, <1>8, <1>12, <1>13, <1>14, <1>15, <1>16

TableInv == Undisturbed => Sound

LEMMA InitTableInv == Init => Sound
  <1> SUFFICES ASSUME Init PROVE Sound
    OBVIOUS
  <1>1. Used = {} /\ Used = 0 .. 0 - 1
    BY SlotFacts DEF Init, Used
  <1>2. used = 0
    BY <1>1, FS_EmptySet DEF used
  <1>3. \A t \in Thread : pc[t] = "idle"
    BY DEF Init
  <1>4. Claimed = {} /\ Uncounted = {}
    BY <1>3, ThreadsFinite DEF Claimed, Uncounted
  <1>5. claimed = 0 /\ uncounted = 0
    BY <1>4, FS_EmptySet DEF claimed, uncounted
  <1>6. Freeing = 0 /\ Taking = 0
    BY <1>3, ThreadsFinite, ReaderCounts
  <1>7. Ordered
    BY <1>1, EntriesAssumption DEF Init, Ordered
  <1>8. FirstPlaceFound
    BY <1>3, ThreadsFinite DEF FirstPlaceFound, At
  <1> HIDE DEF claimed, uncounted, used, Freeing, Taking
  <1>9. EntriesAgree /\ MessagesAgree
    BY <1>2, <1>5, <1>6, EntriesAssumption DEF Init, EntriesAgree, MessagesAgree
  <1> QED
    BY <1>7, <1>8, <1>9 DEF Sound

LEMMA NotInterruptedYet ==
    ASSUME Counted, [Next]_vars, Undisturbed'
    PROVE  Undisturbed /\ ~\E t \in Thread : Interrupted(t)
  <1>1. interrupts \in Nat
    BY EntriesAssumption DEF Counted, Shapes
  <1>2. ASSUME NEW t \in Thread, Interrupted(t) PROVE FALSE
    BY <1>1, <1>2 DEF Interrupted, Undisturbed
  <1>3. interrupts' = interrupts
    BY <1>2, ThreadsFinite
       DEF Next, Writing, Reading, Lock, Unlock, CallWrite, WriteWait, WriteFind, WriteFill,
           WritePost, CallRead, ReadWait, ReadTake, ReadPost, vars
  <1> QED
    BY <1>2, <1>3 DEF Undisturbed

LEMMA NextTableInv == Counted /\ TableInv /\ [Next]_vars => TableInv'
  <1> SUFFICES ASSUME Counted, TableInv, [Next]_vars, Undisturbed' PROVE Sound'
    BY DEF TableInv
  <1>1. Undisturbed /\ ~\E t \in Thread : Interrupted(t)
    BY NotInterruptedYet
  <1>2. Sound
    BY <1>1 DEF TableInv
  <1>3. CASE UNCHANGED vars
    <2>1. Used' = Used /\ Claimed' = Claimed /\ Uncounted' = Uncounted
      BY <1>3 DEF vars, table, Used, Claimed, Uncounted
    <2> QED
      BY <1>2, <1>3, <2>1
         DEF vars, table, sems, calls, Sound, Ordered, FirstPlaceFound, EntriesAgree,
             MessagesAgree, claimed, uncounted, used, Freeing, Taking, At
  <1> QED
    BY <1>1, <1>2, <1>3, WriterPasses, WriterFinds, WriterFills, ReaderPasses, ReaderTakes
       DEF Next, Writing, Reading

LEMMA AlwaysSound == Spec => [](Counted /\ TableInv)
  <1>1. Init => TableInv
    BY InitTableInv DEF TableInv
  <1>2. Counted /\ TableInv /\ [Next]_vars => TableInv'
    BY NextTableInv
  <1> QED
    BY <1>1, <1>2, AlwaysCounted, PTL DEF Spec

(* Until a sem_wait on the lock is interrupted the table is what ipc_write and   *)
(* ipc_read take it for: a writer finds a place that is still free when it fills *)
(* it, the index is dense and names each entry in use once, and both semaphores  *)
(* count what they stand for (shmem.c:203-275).                                  *)
THEOREM TableStaysSound == Spec => []TableSound
  <1>1. Counted /\ TableInv => TableSound
    <2> SUFFICES ASSUME Counted, TableInv PROVE TableSound
      OBVIOUS
    <2>1. PlaceToWrite
      BY DEF PlaceToWrite, TableInv, Sound, FirstPlaceFound
    <2>2. TableConsistent
      <3> SUFFICES ASSUME Undisturbed, Ordered
                   PROVE  /\ \A k \in Used : \A j \in Slot : j < k => j \in Used
                          /\ \A j, k \in Used : index[j] = index[k] => j = k
                          /\ {index[k] : k \in Used} = {s \in Slot : slots[s] # None}
        BY DEF TableConsistent, TableInv, Sound
      <3>1. ASSUME NEW k \in Used, NEW j \in Slot, j < k PROVE j \in Used
        BY <3>1, SlotFacts DEF Ordered
      <3>2. {index[k] : k \in Used} = {s \in Slot : slots[s] # None}
        BY DEF Ordered
      <3> QED
        BY <3>1, <3>2 DEF Ordered
    <2>3. SemaphoresAgree
      BY DEF SemaphoresAgree, TableInv, Sound, EntriesAgree, MessagesAgree, claimed,
             uncounted, used, Freeing, Taking
    <2> QED
      BY <2>1, <2>2, <2>3 DEF TableSound
  <1> QED
    BY <1>1, AlwaysSound, PTL

-----------------------------------------------------------------------------
(* The table is a bounded FIFO: what each step does to the sequence of messages, *)
(* to the calls to write and to the call to read that the channel shows.         *)

Contents  == Data \cup {None}
Unwritten == [w \in Writers |-> IF pc[w] \in {"unlock", "post"} THEN None ELSE message[w]]
Asking    == IF pc[Reader] \in {"wait", "lock", "locked"} THEN {Reader} ELSE {}
Answer    == [r \in {Reader} |-> got]

StoredShape ==
    /\ Stored \in Seq(Contents) /\ Len(Stored) = used /\ used \in 0 .. Entries
    /\ \A n \in 1 .. used : Stored[n] = slots[index[n - 1]]

LEMMA StoredIsSeq ==
    ASSUME Shapes, Ordered
    PROVE  StoredShape
  <1>1. used \in 0 .. Entries /\ Used = 0 .. used - 1
    BY UsedCounted
  <1>2. Stored = [n \in 1 .. used |-> slots[index[n - 1]]]
    BY DEF Stored, used
  <1> HIDE DEF used
  <1>3. \A n \in 1 .. used : slots[index[n - 1]] \in Contents
    <2> SUFFICES ASSUME NEW n \in 1 .. used PROVE slots[index[n - 1]] \in Contents
      OBVIOUS
    <2>1. n - 1 \in Used
      BY <1>1
    <2> QED
      BY <2>1 DEF Ordered, Shapes, Contents
  <1>4. Stored \in [1 .. used -> Contents]
    BY <1>2, <1>3
  <1>5. used \in Nat
    BY <1>1, EntriesAssumption
  <1>6. Stored \in Seq(Contents)
    BY <1>4, <1>5, SeqDef
  <1>7. Len(Stored) = used
    BY <1>4, <1>5, <1>6, LenProperties
  <1> QED
    BY <1>1, <1>2, <1>6, <1>7 DEF StoredShape

(* A step that leaves the table, the answer and the calls as they look alone.    *)
LEMMA LooksTheSame ==
    ASSUME UNCHANGED table
    PROVE  Stored' = Stored
  BY DEF table, Stored, Used

LEMMA FillPushes ==
    ASSUME Counted, Undisturbed, Sound, NEW w \in Writers, WriteFill(w), Counted'
    PROVE  Fifo!Push(w)
  <1>1. /\ Sound' /\ used' = used + 1 /\ used \in 0 .. Entries /\ used \in Slot
        /\ index' = [index EXCEPT ![used] = found[w].slot]
        /\ slots' = [slots EXCEPT ![found[w].slot] = message[w]]
        /\ found[w].slot \in Slot /\ slots[found[w].slot] = None
    BY WriterFills
  <1>2. StoredShape
    BY StoredIsSeq DEF Counted, Sound
  <1>3. StoredShape'
    <2>1. Shapes' /\ Ordered'
      BY <1>1 DEF Counted, Sound
    <2> QED
      BY <2>1, StoredIsSeq, PTL
  <1>4. Used = 0 .. used - 1
    BY UsedCounted DEF Counted, Sound
  <1>5. message[w] \in Contents /\ message[w] # None
    BY DEF WriteFill, At, Counted, Shapes, Contents
  <1> DEFINE slot == found[w].slot
             longer == Append(Stored, message[w])
  <1> HIDE DEF used, slot
  <1>6. /\ longer \in Seq(Contents) /\ Len(longer) = used + 1
        /\ \A n \in 1 .. used : longer[n] = slots[index[n - 1]]
        /\ longer[used + 1] = message[w]
    BY <1>2, <1>5, AppendProperties DEF StoredShape
  <1> HIDE DEF longer
  <1>7. /\ index'[used] = slot /\ \A k \in Slot : k # used => index'[k] = index[k]
        /\ slots'[slot] = message[w] /\ \A s \in Slot : s # slot => slots'[s] = slots[s]
    BY <1>1 DEF Counted, Shapes, slot
  <1>8. \A n \in 1 .. used + 1 : Stored'[n] = longer[n]
    <2> SUFFICES ASSUME NEW n \in 1 .. used + 1 PROVE Stored'[n] = longer[n]
      OBVIOUS
    <2>1. Stored'[n] = slots'[index'[n - 1]]
      BY <1>1, <1>3 DEF StoredShape
    <2>2. CASE n = used + 1
      <3>1. n - 1 = used
        BY <1>1, <2>2, EntriesAssumption
      <3> QED
        BY <1>6, <1>7, <2>1, <2>2, <3>1
    <2>3. CASE n # used + 1
      <3>1. n \in 1 .. used /\ n - 1 \in Used /\ n - 1 # used /\ n - 1 \in Slot
        BY <1>1, <1>4, <2>3, EntriesAssumption DEF Slot
      <3>2. index'[n - 1] = index[n - 1] /\ index[n - 1] \in Slot /\ index[n - 1] # slot
        BY <1>1, <1>7, <3>1 DEF Sound, Ordered, slot
      <3> QED
        BY <1>6, <1>7, <2>1, <3>1, <3>2
    <2> QED
      BY <2>2, <2>3
  <1>9. Stored' = longer
    BY <1>1, <1>3, <1>6, <1>8, SeqEqual DEF StoredShape
  <1>10. /\ Unwritten[w] = message[w]
         /\ Unwritten' = [Unwritten EXCEPT ![w] = None]
         /\ Asking' = Asking /\ Answer' = Answer
    <2>1. w \in Thread /\ w # Reader /\ Reader \in Thread /\ Writers \subseteq Thread
      BY ThreadsFinite, WritersAssumption
    <2>2. /\ pc[w] = "fill" /\ pc' = [pc EXCEPT ![w] = "unlock"]
          /\ message' = message /\ got' = got
      BY DEF WriteFill, At, Goto, calls
    <2>3. pc \in [Thread -> Places \cup {"fill"}]
      BY DEF Counted, Shapes
    <2> QED
      BY <2>1, <2>2, <2>3 DEF Unwritten, Asking, Answer
  <1>11. Len(Stored) < Entries
    BY <1>1, <1>2, SlotFacts, EntriesAssumption DEF StoredShape, Slot
  <1> QED
    BY <1>5, <1>9, <1>10, <1>11 DEF longer, Fifo!Push, Unwritten, Asking, Answer

LEMMA TakePops ==
    ASSUME Counted, Undisturbed, Sound, ReadTake, Counted'
    PROVE  Fifo!Pop(Reader)
  <1>1. /\ Sound' /\ used' = used - 1 /\ used \in 1 .. Entries
        /\ \A k \in 0 .. used' - 1 : /\ index'[k] = index[k + 1]
                                     /\ slots'[index'[k]] = slots[index[k + 1]]
        /\ index[0] \in Slot /\ got' = slots[index[0]]
    BY ReaderTakes
  <1>2. StoredShape
    BY StoredIsSeq DEF Counted, Sound
  <1>3. StoredShape'
    <2>1. Shapes' /\ Ordered'
      BY <1>1 DEF Counted, Sound
    <2> QED
      BY <2>1, StoredIsSeq, PTL
  <1> HIDE DEF used
  <1>4. Stored # <<>> /\ Head(Stored) = slots[index[0]]
    <2>1. Len(Stored) # 0 /\ Stored[1] = slots[index[0]]
      BY <1>1, <1>2 DEF StoredShape
    <2> QED
      BY <1>2, <2>1 DEF StoredShape
  <1> DEFINE rest == Tail(Stored)
  <1>5. /\ rest \in Seq(Contents) /\ Len(rest) = used - 1
        /\ \A n \in 1 .. used - 1 : rest[n] = Stored[n + 1]
    BY <1>2, <1>4, HeadTailProperties DEF StoredShape
  <1> HIDE DEF rest
  <1>6. \A n \in 1 .. used - 1 : Stored'[n] = rest[n]
    <2> SUFFICES ASSUME NEW n \in 1 .. used - 1 PROVE Stored'[n] = rest[n]
      OBVIOUS
    <2>1. n - 1 \in 0 .. used' - 1 /\ (n - 1) + 1 = n /\ n + 1 \in 1 .. used /\ (n + 1) - 1 = n
      BY <1>1
    <2>2. Stored'[n] = slots'[index'[n - 1]]
      BY <1>1, <1>3 DEF StoredShape
    <2>3. slots'[index'[n - 1]] = slots[index[n]]
      BY <1>1, <2>1
    <2>4. rest[n] = slots[index[n]]
      BY <1>2, <1>5, <2>1 DEF StoredShape
    <2> QED
      BY <2>2, <2>3, <2>4
  <1>7. Stored' = rest
    BY <1>1, <1>3, <1>5, <1>6, SeqEqual DEF StoredShape
  <1>8. /\ Reader \in Asking /\ Asking' = Asking \ {Reader}
        /\ Unwritten' = Unwritten
        /\ Answer' = [Answer EXCEPT ![Reader] = Head(Stored)]
    <2>1. Reader \notin Writers /\ Reader \in Thread /\ Writers \subseteq Thread
      BY ThreadsFinite, WritersAssumption
    <2>2. /\ pc[Reader] = "locked" /\ pc' = [pc EXCEPT ![Reader] = "unlock"]
          /\ message' = message
      BY DEF ReadTake, At, Goto
    <2>3. pc \in [Thread -> Places \cup {"fill"}]
      BY DEF Counted, Shapes
    <2>4. \A v \in Writers : pc'[v] = pc[v]
      BY <2>1, <2>2, <2>3
    <2>5. pc'[Reader] = "unlock"
      BY <2>1, <2>2, <2>3
    <2>6. Unwritten' = Unwritten
      BY <2>2, <2>4 DEF Unwritten
    <2>7. Reader \in Asking /\ Asking' = Asking \ {Reader}
      BY <2>2, <2>5 DEF Asking
    <2>8. Answer' = [Answer EXCEPT ![Reader] = Head(Stored)]
      BY <1>1, <1>4 DEF Answer
    <2> QED
      BY <2>6, <2>7, <2>8
  <1> QED
    BY <1>4, <1>7, <1>8 DEF rest, Fifo!Pop, Unwritten, Asking, Answer

LEMMA WriterCalls ==
    ASSUME Shapes, NEW w \in Writers, NEW d \in Data, CallWrite(w, d)
    PROVE  Fifo!CallPush(w, d)
  <1>1. Stored' = Stored
    BY LooksTheSame DEF CallWrite
  <1>2. /\ pc[w] = "idle" /\ message[w] = None
        /\ pc' = [pc EXCEPT ![w] = "wait"] /\ message' = [message EXCEPT ![w] = d]
        /\ got' = got
    BY DEF CallWrite, At, Goto, Shapes
  <1>3. Reader \notin Writers /\ Reader \in Thread /\ w \in Thread /\ Writers \subseteq Thread
    BY ThreadsFinite, WritersAssumption
  <1>4. /\ Unwritten[w] = None /\ Unwritten' = [Unwritten EXCEPT ![w] = d]
        /\ Asking' = Asking /\ Answer' = Answer
    BY <1>2, <1>3 DEF Unwritten, Asking, Answer, Shapes
  <1> QED
    BY <1>1, <1>4 DEF Fifo!CallPush, Unwritten, Asking, Answer

LEMMA ReaderCalls ==
    ASSUME Shapes, CallRead
    PROVE  Fifo!CallPop(Reader)
  <1>1. Stored' = Stored
    BY LooksTheSame DEF CallRead
  <1>2. /\ pc[Reader] = "idle" /\ pc' = [pc EXCEPT ![Reader] = "wait"]
        /\ message' = message /\ got' = got
    BY DEF CallRead, At, Goto, calls
  <1>3. Reader \notin Writers /\ Reader \in Thread /\ Writers \subseteq Thread
    BY ThreadsFinite, WritersAssumption
  <1>4. (\A w \in Writers : pc'[w] = pc[w]) /\ pc'[Reader] = "wait"
    BY <1>2, <1>3 DEF Shapes
  <1>5. Unwritten' = Unwritten /\ Answer' = Answer
    BY <1>2, <1>4 DEF Unwritten, Answer
  <1>6. Reader \notin Asking /\ Asking' = Asking \cup {Reader}
    BY <1>2, <1>4 DEF Asking
  <1> QED
    BY <1>1, <1>5, <1>6 DEF Fifo!CallPop, Unwritten, Asking, Answer

(* The rest of a call does not show.                                             *)
LEMMA NothingShows ==
    ASSUME Shapes,
           \/ \E w \in Writers : WriteWait(w) \/ WriteFind(w) \/ WritePost(w)
           \/ ReadWait \/ ReadPost
           \/ \E t \in Thread : Lock(t) \/ Unlock(t) \/ Interrupted(t)
           \/ UNCHANGED vars
    PROVE  UNCHANGED Fifo!vars
  <1>0. Reader \notin Writers /\ Reader \in Thread /\ Writers \subseteq Thread
    BY ThreadsFinite, WritersAssumption
  <1>1. Stored' = Stored /\ got' = got
    BY LooksTheSame
       DEF WriteWait, WriteFind, WritePost, ReadWait, ReadPost, Lock, Unlock, Interrupted,
           vars, calls
  <1>2. ASSUME NEW w \in Writers, WritePost(w) PROVE Unwritten' = Unwritten
    <2>1. /\ pc[w] = "post" /\ pc' = [pc EXCEPT ![w] = "idle"]
          /\ message' = [message EXCEPT ![w] = None]
      BY <1>2 DEF WritePost, At, Goto
    <2>2. /\ pc'[w] = "idle" /\ message'[w] = None
          /\ \A v \in Writers : v # w => pc'[v] = pc[v] /\ message'[v] = message[v]
      BY <1>0, <2>1 DEF Shapes
    <2>3. \A v \in Writers : Unwritten'[v] = Unwritten[v]
      BY <2>1, <2>2 DEF Unwritten
    <2> QED
      BY <2>3 DEF Unwritten
  <1>3. ASSUME NEW t \in Thread, NEW there, Goto(t, there), message' = message,
               there \in {"unlock", "post"} <=> pc[t] \in {"unlock", "post"}
        PROVE  Unwritten' = Unwritten
    <2>1. \A v \in Writers : pc'[v] \in {"unlock", "post"} <=> pc[v] \in {"unlock", "post"}
      BY <1>0, <1>3 DEF Goto, Shapes
    <2> QED
      BY <1>3, <2>1 DEF Unwritten
  <1>4. Unwritten' = Unwritten
    <2>1. ASSUME NEW w \in Writers, WriteWait(w) PROVE Unwritten' = Unwritten
      BY <1>0, <1>3, <2>1 DEF WriteWait, At, calls
    <2>2. ASSUME NEW w \in Writers, WriteFind(w) PROVE Unwritten' = Unwritten
      BY <1>0, <1>3, <2>2 DEF WriteFind, At
    <2>3. CASE ReadWait \/ ReadPost
      <3>1. \A v \in Writers : pc'[v] = pc[v]
        BY <1>0, <2>3 DEF ReadWait, ReadPost, Goto, Shapes
      <3> QED
        BY <2>3, <3>1 DEF ReadWait, ReadPost, calls, Unwritten
    <2>4. ASSUME NEW t \in Thread, Lock(t) \/ Unlock(t) \/ Interrupted(t)
          PROVE  Unwritten' = Unwritten
      BY <1>3, <2>4 DEF Lock, Unlock, Interrupted, At, calls
    <2>5. CASE UNCHANGED vars
      BY <2>5 DEF vars, calls, Unwritten
    <2> QED
      BY <1>2, <2>1, <2>2, <2>3, <2>4, <2>5
  <1>5. pc'[Reader] \in {"wait", "lock", "locked"} <=> pc[Reader] \in {"wait", "lock", "locked"}
    <2>1. ASSUME NEW w \in Writers, WriteWait(w) \/ WriteFind(w) \/ WritePost(w)
          PROVE  pc'[Reader] = pc[Reader]
      BY <1>0, <2>1 DEF WriteWait, WriteFind, WritePost, Goto, Shapes
    <2>2. CASE ReadWait \/ ReadPost
      BY <1>0, <2>2 DEF ReadWait, ReadPost, At, Goto, Shapes
    <2>3. ASSUME NEW t \in Thread, Lock(t) \/ Unlock(t) \/ Interrupted(t)
          PROVE  pc'[Reader] \in {"wait", "lock", "locked"}
                    <=> pc[Reader] \in {"wait", "lock", "locked"}
      BY <1>0, <2>3 DEF Lock, Unlock, Interrupted, At, Goto, Shapes
    <2>4. CASE UNCHANGED vars
      BY <2>4 DEF vars
    <2> QED
      BY <2>1, <2>2, <2>3, <2>4
  <1>6. Asking' = Asking /\ Answer' = Answer
    BY <1>1, <1>5 DEF Asking, Answer
  <1> QED
    BY <1>1, <1>4, <1>6 DEF Fifo!vars, Unwritten, Asking, Answer

LEMMA InitChannel == Init => Fifo!Init
  <1> SUFFICES ASSUME Init PROVE Fifo!Init
    OBVIOUS
  <1>1. Shapes /\ Ordered
    BY InitShapes, InitTableInv DEF Sound
  <1>2. Used = {}
    BY SlotFacts DEF Init, Used
  <1>3. used = 0
    BY <1>2, FS_EmptySet DEF used
  <1>4. Stored = <<>>
    BY <1>1, <1>3, StoredIsSeq, EmptySeq DEF StoredShape
  <1>5. \A t \in Thread : pc[t] = "idle"
    BY DEF Init
  <1>6. Unwritten = [w \in Writers |-> None] /\ Asking = {}
    BY <1>5, ThreadsFinite DEF Init, Unwritten, Asking
  <1> QED
    BY <1>4, <1>6 DEF Fifo!Init, Init, Unwritten, Asking

LEMMA StepOfChannel ==
    Counted /\ Counted' /\ TableInv /\ [Next]_vars => [Undisturbed' => Fifo!Next]_(Fifo!vars)
  <1> SUFFICES ASSUME Counted, Counted', TableInv, [Next]_vars, Undisturbed'
               PROVE  Fifo!Next \/ UNCHANGED Fifo!vars
    OBVIOUS
  <1>1. Shapes
    BY DEF Counted
  <1>2. Undisturbed
    BY NotInterruptedYet
  <1>3. Sound
    BY <1>2 DEF TableInv
  <1>4. ASSUME NEW w \in Writers, WriteFill(w) PROVE Fifo!Next
    BY <1>2, <1>3, <1>4, FillPushes DEF Fifo!Next
  <1>5. ASSUME ReadTake PROVE Fifo!Next
    BY <1>2, <1>3, <1>5, TakePops DEF Fifo!Next
  <1>6. ASSUME NEW w \in Writers, NEW d \in Data, CallWrite(w, d) PROVE Fifo!Next
    BY <1>1, <1>6, WriterCalls DEF Fifo!Next
  <1>7. ASSUME CallRead PROVE Fifo!Next
    BY <1>1, <1>7, ReaderCalls DEF Fifo!Next
  <1> QED
    BY <1>1, <1>4, <1>5, <1>6, <1>7, NothingShows, ThreadsFinite DEF Next, Writing, Reading

(* Until a sem_wait is interrupted the channel is a FIFO of Entries messages:    *)
(* every message arrives once, whole, in the order of the writes, however the    *)
(* writers and the reader interleave (shmem.c:203-275).                          *)
THEOREM ChannelIsFifo == Spec => ImplementsFifo
  <1>1. Init => Fifo!Init
    BY InitChannel
  <1>2. Counted /\ Counted' /\ TableInv /\ [Next]_vars
           => [Undisturbed' => Fifo!Next]_(Fifo!vars)
    BY StepOfChannel
  <1> QED
    BY <1>1, <1>2, AlwaysSound, PTL DEF Spec, ImplementsFifo
=============================================================================
