-------------------------- MODULE LifecycleProofs --------------------------
(* Theorems about Lifecycle, for any number of airlines, turns and faults.       *)
EXTENDS Lifecycle, FiniteSetTheorems, TLAPS

-----------------------------------------------------------------------------
(* The inductive invariant: what the variables hold, ...                         *)

Places == {"fork", "listen", "establish", "turn", "collect", "end", "wait", "leave", "done",
           "unborn", "missing", "forked", "inherited", "exited", "killed"}

Shapes == /\ linked \subseteq Process /\ made \in [Process -> Nat]
          /\ reading \in [Process -> Nat]
          /\ toAirline \in [Airlines -> Nat] /\ toMap \in [Airlines -> Nat]
          /\ pc \in [Process -> Places]
          /\ k \in Airlines

(* ... how far the map process has come with its connections, and that nobody    *)
(* is told to end before,                                                        *)
Called(a) == toAirline[a] # Nowhere

Calls == /\ pc[Map] \in {"fork", "listen"} => \A a \in Airlines : ~Called(a)
         /\ At(Map, "listen") => k = 1
         /\ At(Map, "establish") => \A a \in Airlines : Called(a) <=> a < k
         /\ pc[Map] \in {"turn", "collect", "end", "wait", "leave", "done"} =>
               \A a \in Airlines : Called(a)
         /\ \A m \in mail : m[1] \in Airlines => Called(m[1])
         /\ \A a \in Airlines : pc[a] \in {"leave", "exited"} => Called(a)

(* ... that the wait of the map process reaches every child,                     *)
Reaping == /\ reaped \subseteq Gone
           /\ pc[Map] \notin {"wait", "leave", "done", "killed"} => reaped = {}
           /\ At(Map, "wait") => Children \subseteq reaped \/ Cardinality(reaped) >= k - 1
           /\ pc[Map] \in {"leave", "done"} => Children \subseteq reaped

(* ... and that one object is made for each name, which is there until the       *)
(* process that reads from it has left.                                          *)
HasLeft(p) == At(p, IF p = Map THEN "done" ELSE "exited")

MadeOnce == \A p \in Process :
    /\ made[p] <= 1
    /\ IF p \in linked THEN made[p] = 1 /\ ~HasLeft(p) ELSE made[p] = 0 \/ HasLeft(p)

SameEnds == /\ \A p \in Process : reading[p] \in {Nowhere, 1}
            /\ \A a \in Airlines : toAirline[a] \in {Nowhere, 1} /\ toMap[a] \in {Nowhere, 1}

Running == Shapes /\ Calls /\ Reaping /\ MadeOnce /\ SameEnds

-----------------------------------------------------------------------------
LEMMA ProcessFacts == /\ NumAirlines \in Nat /\ NumAirlines >= 1
                      /\ Map \notin Airlines /\ Map \in Process
                      /\ \A a \in Airlines : a \in Process /\ a \in Nat /\ 1 <= a /\ a <= NumAirlines
                      /\ \A p \in Process : p = Map \/ p \in Airlines
                      /\ 1 \in Airlines
                      /\ \A a \in Airlines : a < NumAirlines => a + 1 \in Airlines
                      /\ Process = {Map} \cup Airlines
  BY LifecycleAssumption, SMT DEF Airlines, Map, Process

LEMMA LoopFacts ==
    ASSUME k \in Airlines, NEW here, NEW there, Loop(here, there)
    PROVE  \/ k < NumAirlines /\ k' = k + 1 /\ k' \in Airlines /\ pc' = [pc EXCEPT ![Map] = here]
           \/ k = NumAirlines /\ k' = 1 /\ k' \in Airlines /\ pc' = [pc EXCEPT ![Map] = there]
  BY ProcessFacts DEF Loop, Goto

(* What is left of a signal: it may be the end of a process that was alive.      *)
Struck == /\ UNCHANGED <<linked, made, reading, toAirline, toMap, mail, k, reaped>>
          /\ \/ pc' = pc
             \/ \E q \in Process : Live(q) /\ pc' = [pc EXCEPT ![q] = "killed"]

LEMMA SignalsStrike ==
    ASSUME Sigchld \/ \E p \in Process, s \in Signals : Signalled(p, s)
    PROVE  Struck
  <1>1. CASE Sigchld
    BY <1>1, ProcessFacts DEF Sigchld, Struck, Killed, Goto, channels
  <1>2. ASSUME NEW p \in Process, NEW s \in Signals, Signalled(p, s) PROVE Struck
    BY <1>2 DEF Signalled, Handle, Struck, Killed, Goto, channels
  <1> QED
    BY <1>1, <1>2

LEMMA InitRunning == Init => Running
  <1> SUFFICES ASSUME Init PROVE Running
    OBVIOUS
  <1>1. Shapes
    BY ProcessFacts DEF Init, Shapes, Nowhere, Places
  <1>2. Calls
    BY ProcessFacts DEF Init, Calls, Called, At, Nowhere
  <1>3. Reaping
    BY ProcessFacts DEF Init, Reaping, At
  <1>4. MadeOnce
    <2>1. 0 <= 1
      BY SMT
    <2> QED
      BY <2>1 DEF Init, MadeOnce
  <1>5. SameEnds
    BY DEF Init, SameEnds
  <1> QED
    BY <1>1, <1>2, <1>3, <1>4, <1>5 DEF Running

LEMMA MadeMore ==
    ASSUME Shapes, NEW p \in Process, OpenOrMake(p)
    PROVE  /\ linked' \subseteq Process /\ made' \in [Process -> Nat]
           /\ p \in linked' /\ made'[p] = (IF p \in linked THEN made[p] ELSE made[p] + 1)
           /\ \A q \in Process : q # p => (q \in linked' <=> q \in linked) /\ made'[q] = made[q]
  BY DEF Shapes, OpenOrMake

LEMMA NextShapes ==
    ASSUME Shapes, [Next]_vars
    PROVE  Shapes'
  <1> USE ProcessFacts DEF Places
  <1>1. CASE Fork
    BY <1>1 DEF Fork, Shapes, channels
  <1>2. CASE MapListen
    BY <1>2, MadeMore DEF MapListen, Listen, Shapes, Goto
  <1>3. CASE MapEstablish
    BY <1>3, MadeMore, LoopFacts DEF MapEstablish, Shapes
  <1>4. CASE MapTurn \/ MapLeaves \/ MapCollect
    BY <1>4 DEF MapTurn, MapLeaves, MapCollect, Shapes, Goto, channels
  <1>5. CASE MapEnd \/ MapWait
    BY <1>5, LoopFacts DEF MapEnd, MapWait, Shapes, channels
  <1>6. CASE MapDone
    BY <1>6 DEF MapDone, Shapes, Goto
  <1>7. ASSUME NEW a \in Airlines, AirListen(a) PROVE Shapes'
    BY <1>7, MadeMore DEF AirListen, Listen, Shapes, Goto
  <1>8. ASSUME NEW a \in Airlines, AirEstablish(a) PROVE Shapes'
    BY <1>8, MadeMore DEF AirEstablish, Shapes, Goto
  <1>9. ASSUME NEW a \in Airlines, AirRegister(a) \/ AirStep(a) \/ AirEnd(a) \/ AirExit(a)
        PROVE  Shapes'
    BY <1>9 DEF AirRegister, AirStep, AirEnd, AirExit, Shapes, Goto, channels
  <1>10. CASE Struck
    BY <1>10 DEF Struck, Shapes
  <1>11. CASE UNCHANGED vars
    BY <1>11 DEF vars, channels, Shapes
  <1> QED
    BY <1>1, <1>2, <1>3, <1>4, <1>5, <1>6, <1>7, <1>8, <1>9, <1>10, <1>11, SignalsStrike
       DEF Next, MapNext, AirNext

LEMMA NextCalls ==
    ASSUME Shapes, Calls, MadeOnce, [Next]_vars
    PROVE  Calls'
  <1> USE ProcessFacts DEF Called, At
  <1>1. CASE Fork
    BY <1>1 DEF Fork, Shapes, Calls, channels
  <1>2. CASE MapListen
    <2>1. pc' = [pc EXCEPT ![Map] = "establish"] /\ UNCHANGED <<toAirline, mail, k>> /\ At(Map, "listen")
      BY <1>2 DEF MapListen, Goto
    <2>2. k = 1
      BY <2>1 DEF Calls
    <2> QED
      BY <2>1, <2>2 DEF Shapes, Calls
  <1>3. CASE MapEstablish
    <2>1. /\ At(Map, "establish") /\ OpenOrMake(k) /\ Loop("establish", "turn")
          /\ toAirline' = [toAirline EXCEPT ![k] = made'[k]] /\ mail' = mail
      BY <1>3 DEF MapEstablish
    <2>2. made'[k] # Nowhere
      BY <2>1, MadeMore DEF Shapes, MadeOnce, Nowhere
    <2>3. \A a \in Airlines : Called(a)' <=> a < k + 1
      <3>1. \A a \in Airlines : Called(a)' <=> (a = k \/ Called(a))
        BY <2>1, <2>2 DEF Shapes
      <3>2. \A a \in Airlines : Called(a) <=> a < k
        BY <2>1 DEF Calls
      <3> HIDE DEF Called
      <3> QED
        BY <3>1, <3>2 DEF Shapes
    <2>4. \A a \in Airlines : pc'[a] = pc[a]
      BY <2>1, LoopFacts DEF Shapes
    <2>5. CASE k < NumAirlines /\ k' = k + 1 /\ pc' = [pc EXCEPT ![Map] = "establish"]
      BY <2>1, <2>3, <2>4, <2>5 DEF Shapes, Calls
    <2>6. CASE k = NumAirlines /\ k' = 1 /\ pc' = [pc EXCEPT ![Map] = "turn"]
      <3>1. \A a \in Airlines : Called(a)'
        BY <2>3, <2>6
      <3> QED
        BY <2>1, <2>4, <2>6, <3>1 DEF Shapes, Calls
    <2> QED
      BY <2>1, <2>5, <2>6, LoopFacts DEF Shapes
  <1>4. CASE MapTurn \/ MapLeaves \/ MapCollect
    BY <1>4 DEF MapTurn, MapLeaves, MapCollect, Shapes, Calls, Goto, channels
  <1>5. CASE MapEnd \/ MapWait
    BY <1>5, LoopFacts DEF MapEnd, MapWait, Shapes, Calls, channels
  <1>6. CASE MapDone
    BY <1>6 DEF MapDone, Shapes, Calls, Goto
  <1>7. ASSUME NEW a \in Airlines, AirListen(a) PROVE Calls'
    BY <1>7 DEF AirListen, Shapes, Calls, Goto
  <1>8. ASSUME NEW a \in Airlines, AirEstablish(a) PROVE Calls'
    BY <1>8 DEF AirEstablish, Shapes, Calls, Goto
  <1>9. ASSUME NEW a \in Airlines, AirRegister(a) \/ AirStep(a) \/ AirEnd(a) \/ AirExit(a)
        PROVE  Calls'
    BY <1>9 DEF AirRegister, AirStep, AirEnd, AirExit, Shapes, Calls, Goto, channels
  <1>10. CASE Struck
    BY <1>10 DEF Struck, Shapes, Calls
  <1>11. CASE UNCHANGED vars
    BY <1>11 DEF vars, channels, Calls
  <1> QED
    BY <1>1, <1>2, <1>3, <1>4, <1>5, <1>6, <1>7, <1>8, <1>9, <1>10, <1>11, SignalsStrike
       DEF Next, MapNext, AirNext

LEMMA NextMadeOnce ==
    ASSUME Shapes, Calls, Reaping, MadeOnce, [Next]_vars
    PROVE  MadeOnce'
  <1> USE ProcessFacts DEF HasLeft, At
  <1>1. CASE Fork
    <2>1. /\ linked' = linked /\ made' = made
          /\ \A p \in Process : HasLeft(p)' <=> HasLeft(p)
      BY <1>1 DEF Fork, Shapes, Calls, Called, channels
    <2> QED
      BY <2>1 DEF MadeOnce
  <1>2. CASE MapListen
    <2>1. OpenOrMake(Map) /\ \A p \in Process : ~HasLeft(Map) /\ (HasLeft(p)' <=> HasLeft(p))
      BY <1>2 DEF MapListen, Listen, Shapes, Goto
    <2> QED
      BY <2>1, MadeMore DEF MadeOnce, Shapes
  <1>3. CASE MapEstablish
    <2>1. OpenOrMake(k) /\ ~HasLeft(k) /\ \A p \in Process : HasLeft(p)' <=> HasLeft(p)
      BY <1>3, LoopFacts DEF MapEstablish, Shapes, Calls
    <2> QED
      BY <2>1, MadeMore DEF MadeOnce, Shapes
  <1>4. CASE MapTurn \/ MapLeaves \/ MapCollect
    BY <1>4 DEF MapTurn, MapLeaves, MapCollect, Shapes, MadeOnce, Goto, channels
  <1>5. CASE MapEnd \/ MapWait
    BY <1>5, LoopFacts DEF MapEnd, MapWait, Shapes, MadeOnce, channels
  <1>6. CASE MapDone
    BY <1>6 DEF MapDone, Shapes, MadeOnce, Goto
  <1>7. ASSUME NEW a \in Airlines, AirListen(a) PROVE MadeOnce'
    <2>1. OpenOrMake(a) /\ ~HasLeft(a) /\ \A p \in Process : HasLeft(p)' <=> HasLeft(p)
      BY <1>7 DEF AirListen, Listen, Shapes, Goto
    <2> QED
      BY <2>1, MadeMore DEF MadeOnce, Shapes
  <1>8. ASSUME NEW a \in Airlines, AirEstablish(a) PROVE MadeOnce'
    <2>1. OpenOrMake(Map) /\ ~HasLeft(Map) /\ \A p \in Process : HasLeft(p)' <=> HasLeft(p)
      <3>1. a \in Children /\ a \notin Gone
        BY <1>8 DEF AirEstablish, Children, Gone
      <3>2. ~HasLeft(Map)
        BY <3>1 DEF Reaping
      <3> QED
        BY <1>8, <3>2 DEF AirEstablish, Shapes, Goto
    <2> QED
      BY <2>1, MadeMore DEF MadeOnce, Shapes
  <1>9. ASSUME NEW a \in Airlines, AirRegister(a) \/ AirStep(a) \/ AirEnd(a)
        PROVE  MadeOnce'
    BY <1>9 DEF AirRegister, AirStep, AirEnd, Shapes, MadeOnce, Goto, channels
  <1>10. ASSUME NEW a \in Airlines, AirExit(a) PROVE MadeOnce'
    BY <1>10 DEF AirExit, Shapes, MadeOnce, Goto
  <1>11. CASE Struck
    <2>1. /\ linked' = linked /\ made' = made
          /\ \A p \in Process : HasLeft(p)' <=> HasLeft(p)
      BY <1>11 DEF Struck, Shapes, Live
    <2> QED
      BY <2>1 DEF MadeOnce
  <1>12. CASE UNCHANGED vars
    BY <1>12 DEF vars, channels, MadeOnce
  <1> QED
    BY <1>1, <1>2, <1>3, <1>4, <1>5, <1>6, <1>7, <1>8, <1>9, <1>10, <1>11, <1>12, SignalsStrike
       DEF Next, MapNext, AirNext

LEMMA NextSameEnds ==
    ASSUME Shapes, MadeOnce, MadeOnce', SameEnds, [Next]_vars
    PROVE  SameEnds'
  <1> USE ProcessFacts
  <1>1. ASSUME NEW p \in Process, OpenOrMake(p) PROVE made'[p] = 1
    BY <1>1, MadeMore DEF MadeOnce
  <1>2. CASE MapListen
    BY <1>1, <1>2 DEF MapListen, Listen, Shapes, SameEnds
  <1>3. CASE MapEstablish
    BY <1>1, <1>3 DEF MapEstablish, Shapes, SameEnds
  <1>4. ASSUME NEW a \in Airlines, AirListen(a) \/ AirEstablish(a) PROVE SameEnds'
    BY <1>1, <1>4 DEF AirListen, AirEstablish, Listen, Shapes, SameEnds
  <1>5. CASE UNCHANGED <<reading, toAirline, toMap>>
    BY <1>5 DEF SameEnds
  <1> QED
    BY <1>2, <1>3, <1>4, <1>5, SignalsStrike
       DEF Next, MapNext, AirNext, Fork, MapTurn, MapLeaves, MapCollect, MapEnd, MapWait, MapDone,
           AirRegister, AirStep, AirEnd, AirExit, Struck, vars, channels

(* No child is born after the forks, and none comes back.                        *)
LEMMA ChildrenStay ==
    ASSUME Shapes, [Next]_vars, ~At(Map, "fork")
    PROVE  Children' = Children /\ Gone \subseteq Gone'
  <1> USE ProcessFacts
  <1> SUFFICES \A a \in Airlines : \/ pc'[a] = pc[a]
                                   \/ /\ pc[a] \notin {"unborn", "missing", "exited", "killed"}
                                      /\ pc'[a] \notin {"unborn", "missing"}
    BY DEF Children, Gone
  <1>1. CASE \/ MapListen \/ MapTurn \/ MapLeaves \/ MapCollect \/ MapDone
    BY <1>1 DEF MapListen, MapTurn, MapLeaves, MapCollect, MapDone, Shapes, Goto
  <1>2. CASE MapEstablish \/ MapEnd \/ MapWait
    BY <1>2, LoopFacts DEF MapEstablish, MapEnd, MapWait, Shapes
  <1>3. ASSUME NEW a \in Airlines, AirNext(a)
        PROVE  \A b \in Airlines : \/ pc'[b] = pc[b]
                                   \/ /\ pc[b] \notin {"unborn", "missing", "exited", "killed"}
                                      /\ pc'[b] \notin {"unborn", "missing"}
    BY <1>3 DEF AirNext, AirListen, AirEstablish, AirRegister, AirStep, AirEnd, AirExit,
                Shapes, Goto, At
  <1>4. CASE Struck
    BY <1>4 DEF Struck, Live, Shapes
  <1>5. CASE UNCHANGED vars
    BY <1>5 DEF vars
  <1> QED
    BY <1>1, <1>2, <1>3, <1>4, <1>5, SignalsStrike DEF Next, MapNext, Fork

LEMMA NextReaping ==
    ASSUME Shapes, Shapes', Reaping, [Next]_vars
    PROVE  Reaping'
  <1> USE ProcessFacts
  <1>1. CASE At(Map, "fork")
    <2>1. reaped = {} /\ reaped' = {} /\ pc'[Map] \notin {"wait", "leave", "done"}
      <3>1. reaped = {}
        BY <1>1 DEF At, Reaping
      <3>2. CASE Fork
        BY <3>1, <3>2 DEF Fork, Shapes
      <3>3. ASSUME NEW a \in Airlines, AirNext(a)
            PROVE  reaped' = reaped /\ pc'[Map] = pc[Map]
        BY <3>3 DEF AirNext, AirListen, AirEstablish, AirRegister, AirStep, AirEnd, AirExit,
                    Shapes, Goto
      <3>4. CASE Struck
        BY <1>1, <3>1, <3>4 DEF Struck, Shapes, At
      <3>5. CASE UNCHANGED vars
        BY <1>1, <3>1, <3>5 DEF vars, At
      <3> QED
        BY <1>1, <3>1, <3>2, <3>3, <3>4, <3>5, SignalsStrike
           DEF Next, MapNext, At, MapListen, MapEstablish, MapTurn, MapLeaves, MapCollect, MapEnd,
               MapWait, MapDone
    <2> QED
      BY <2>1 DEF Reaping, At
  <1>2. CASE ~At(Map, "fork")
    <2>1. /\ Children' = Children /\ Gone \subseteq Gone'
          /\ reaped \subseteq Gone /\ reaped \subseteq Airlines
      BY <1>2, ChildrenStay DEF Reaping, Gone
    <2>2. /\ IsFiniteSet(reaped) /\ Cardinality(reaped) \in Nat
          /\ Cardinality({}) = 0 /\ k \in Nat /\ 1 <= k /\ k <= NumAirlines
      <3>1. IsFiniteSet(Airlines)
        BY FS_Interval DEF Airlines
      <3> QED
        BY <2>1, <3>1, FS_Subset, FS_CardinalityType, FS_EmptySet DEF Shapes
    <2>3. CASE MapListen \/ MapEstablish \/ MapTurn \/ MapLeaves \/ MapCollect
      <3>1. reaped' = {} /\ pc'[Map] \notin {"wait", "leave", "done"}
        BY <2>3, LoopFacts
           DEF MapListen, MapEstablish, MapTurn, MapLeaves, MapCollect, Shapes, Reaping, At, Goto
      <3> QED
        BY <3>1 DEF Reaping, At
    <2>4. CASE MapEnd
      <3>1. reaped = {} /\ reaped' = reaped
        BY <2>4 DEF MapEnd, Reaping, At
      <3>2. pc'[Map] = "end" \/ (pc'[Map] = "wait" /\ k' = 1)
        BY <2>4, LoopFacts DEF MapEnd, Shapes
      <3>3. Cardinality(reaped') >= 1 - 1
        BY <2>2, <3>1
      <3> QED
        BY <3>1, <3>2, <3>3 DEF Reaping, At
    <2>5. CASE MapWait
      <3>1. /\ At(Map, "wait") /\ reaped' \subseteq Gone /\ reaped \subseteq reaped'
            /\ Children \subseteq reaped \/ Cardinality(reaped) >= k - 1
        BY <2>5, <2>1 DEF MapWait, Reaping
      <3>2. Children \subseteq reaped' \/ Cardinality(reaped') >= k
        <4>1. CASE Children \subseteq reaped
          BY <3>1, <4>1
        <4>2. CASE ~(Children \subseteq reaped)
          <5>1. PICK a \in Gone \ reaped : reaped' = reaped \cup {a}
            BY <2>5, <4>2 DEF MapWait
          <5>2. Cardinality(reaped') = Cardinality(reaped) + 1
            BY <2>2, <5>1, FS_AddElement
          <5> QED
            BY <2>2, <3>1, <4>2, <5>2
        <4> QED
          BY <4>1, <4>2
      <3>3. \/ pc'[Map] = "wait" /\ k' = k + 1
            \/ pc'[Map] = "leave" /\ k = NumAirlines
        BY <2>5, LoopFacts DEF MapWait, Shapes
      <3>4. Cardinality(reaped') >= NumAirlines => Children \subseteq reaped'
        <4>1. reaped' \in SUBSET Airlines /\ IsFiniteSet(Airlines)
          BY <3>1, FS_Interval DEF Gone, Airlines
        <4>2. Cardinality(Airlines) = NumAirlines
          BY FS_Interval DEF Airlines
        <4>3. ASSUME Cardinality(reaped') >= NumAirlines PROVE reaped' = Airlines
          BY <4>1, <4>2, <4>3, FS_Subset, FS_CardinalityType
        <4> QED
          BY <4>3 DEF Children
      <3>5. pc'[Map] = "wait" => Children' \subseteq reaped' \/ Cardinality(reaped') >= k' - 1
        BY <2>1, <2>2, <3>2, <3>3
      <3>6. pc'[Map] = "leave" => Children' \subseteq reaped'
        BY <2>1, <3>2, <3>3, <3>4
      <3> QED
        BY <2>1, <3>1, <3>3, <3>5, <3>6 DEF Reaping, At
    <2>6. CASE MapDone
      <3>1. /\ reaped' = reaped /\ Children \subseteq reaped /\ pc'[Map] = "done"
        BY <2>6 DEF MapDone, Reaping, At, Goto, Shapes
      <3> QED
        BY <2>1, <3>1 DEF Reaping, At
    <2>7. ASSUME NEW a \in Airlines, AirNext(a) PROVE Reaping'
      <3>1. reaped' = reaped /\ pc'[Map] = pc[Map] /\ k' = k
        BY <2>7 DEF AirNext, AirListen, AirEstablish, AirRegister, AirStep, AirEnd, AirExit,
                    Shapes, Goto
      <3> QED
        BY <2>1, <3>1 DEF Reaping, At
    <2>8. CASE Struck
      <3>1. reaped' = reaped /\ (pc'[Map] = pc[Map] \/ pc'[Map] = "killed") /\ k' = k
        BY <2>8 DEF Struck, Shapes
      <3> QED
        BY <2>1, <3>1 DEF Reaping, At
    <2>9. CASE UNCHANGED vars
      <3>1. reaped' = reaped /\ pc'[Map] = pc[Map] /\ k' = k
        BY <2>9 DEF vars
      <3> QED
        BY <2>1, <3>1 DEF Reaping, At
    <2> QED
      BY <1>2, <2>3, <2>4, <2>5, <2>6, <2>7, <2>8, <2>9, SignalsStrike DEF Next, MapNext, Fork
  <1> QED
    BY <1>1, <1>2

LEMMA RunningHolds == Spec => []Running
  <1>1. Running /\ [Next]_vars => Running'
    BY NextShapes, NextCalls, NextReaping, NextMadeOnce, NextSameEnds DEF Running
  <1> QED
    BY InitRunning, <1>1, PTL DEF Spec

(* Whichever end of a name opens it first, and whenever the processes are        *)
(* scheduled, killed or leave, both ends come to the same object (fifo.c:34, 63, *)
(* socket.c:82, shmem.c:64-66).                                                  *)
THEOREM EndsMeet == Spec => []SameChannel
  <1>1. Running => SameChannel
    BY ProcessFacts DEF Running, SameEnds, SameChannel
  <1> QED
    BY RunningHolds, <1>1, PTL

(* When the map process is done every child has gone and been waited for, and no *)
(* name is left that its reader could have removed, whatever signals came        *)
(* (main.c:124-148, 198-212).                                                    *)
THEOREM EndIsClean == Spec => []CleanEnd
  <1>1. Running => CleanEnd
    <2> SUFFICES ASSUME Running, At(Map, "done")
                 PROVE  /\ Children = Gone /\ Gone = reaped
                        /\ linked \subseteq {a \in Airlines : ~At(a, "exited")}
      BY DEF CleanEnd
    <2>1. Gone \subseteq Children
      BY DEF Gone, Children
    <2>2. Children \subseteq reaped /\ reaped \subseteq Gone
      BY DEF Running, Reaping, At
    <2>3. \A p \in linked : p \in Process /\ ~HasLeft(p)
      BY DEF Running, Shapes, MadeOnce
    <2>4. linked \subseteq {a \in Airlines : ~At(a, "exited")}
      BY <2>3, ProcessFacts DEF HasLeft
    <2> QED
      BY <2>1, <2>2, <2>4
  <1> QED
    BY RunningHolds, <1>1, PTL
=============================================================================
