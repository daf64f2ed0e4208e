-------------------------- MODULE SimulationProofs --------------------------
(* Theorems about Simulation, for any number of airlines and of planes, any map, *)
(* any cargo and any capacity of the channels.                                   *)
(* First where the threads are (ControlOK) and who holds planesLeftLock          *)
(* (LockInv); then what goes on in a turn (TurnInv): which report every airline  *)
(* still owes, where every request and every answer is, what each queue holds.   *)
(* The theorems about the turns, and that they are those of TurnBarrier, follow. *)
(* Then the data: what the operators on the stocks compute (Discharged,          *)
(* UselessStays, CandidatesAre), what every message and variable holds (DataOK), *)
(* what a request and an answer are worth on their way (UseInv), and that no     *)
(* product is lost or made (Conserved).                                          *)
EXTENDS Simulation, CountingLemmas

-----------------------------------------------------------------------------
(* Where the threads are, and what their counters and flags can hold.            *)

LEMMA FleetFinite ==
    ASSUME NEW a
    PROVE  /\ IsFiniteSet(Plane) /\ Fleet(a) \in SUBSET Plane
           /\ IsFiniteSet(InGame(a)) /\ Cardinality(InGame(a)) \in Nat
  <1>1. IsFiniteSet(Plane)
    BY SizeAssumption, FS_Interval DEF Plane
  <1>2. Fleet(a) \in SUBSET Plane /\ InGame(a) \in SUBSET Plane
    BY DEF Fleet, InGame
  <1> QED
    BY <1>1, <1>2, FS_Subset, FS_CardinalityType

LEMMA InitControl == Init => ControlOK
  <1> SUFFICES ASSUME Init PROVE ControlOK
    OBVIOUS
  <1>1. 0 \in 0 .. NumAirlines - 1
    BY SizeAssumption
  <1>2. "turn" \in MapPc /\ "listen" \in AirPc /\ "step" \in PlanePc
    BY DEF MapPc, AirPc, PlanePc
  <1>3. /\ mapPc \in MapPc /\ turn \in Nat /\ i \in 0 .. NumAirlines - 1
        /\ doExit \in BOOLEAN
    BY <1>1, <1>2 DEF Init
  <1>4. /\ airPc \in [Airline -> AirPc] /\ stage \in [Airline -> {0, 1}]
        /\ planesLeft \in [Airline -> Int] /\ planePc \in [Plane -> PlanePc]
    BY <1>2 DEF Init
  <1>5. /\ visit \in [Airline -> SUBSET Plane] /\ locked \in [Airline -> BOOLEAN]
        /\ done \in [Plane -> BOOLEAN]
    BY DEF Init
  <1> QED
    BY <1>3, <1>4, <1>5 DEF ControlOK

(* A step of the map or of main. *)
LEMMA MapControl == ControlOK /\ (Map \/ Signal) => ControlOK'
  <1> SUFFICES ASSUME ControlOK, Map \/ Signal PROVE ControlOK'
    OBVIOUS
  <1>1. /\ UNCHANGED <<airPc, visit, stage, planesLeft, locked, planePc, done>>
    BY DEF Map, Signal, MapTurn, MapAnnounce, MapCount, MapUnload, MapDestinations, MapReply,
           MapWait, airVars, barrier, planes
  <1>2. mapPc' \in MapPc /\ turn' \in Nat /\ i' \in 0 .. NumAirlines - 1
    <2> USE SizeAssumption DEF ControlOK, MapPc, Announced, Counted, AfterReply
    <2>1. CASE MapTurn
      BY <2>1, SMT DEF MapTurn
    <2>2. CASE MapAnnounce
      BY <2>2, SMT DEF MapAnnounce, AfterAnnouncing
    <2>3. CASE MapCount
      BY <2>3, SMT DEF MapCount, AfterPhase
    <2>4. CASE MapUnload
      <3>1. mapPc' \in {"phase1", "reply1"} /\ turn' = turn /\ i' = i
        BY <2>4, Zenon DEF MapUnload
      <3> QED
        BY <3>1
    <2>5. CASE MapDestinations
      <3>1. mapPc' \in {"phase2", "reply2"} /\ turn' = turn /\ i' = i
        BY <2>5, Zenon DEF MapDestinations
      <3> QED
        BY <3>1
    <2>6. CASE MapReply
      BY <2>6, SMT DEF MapReply
    <2>7. CASE MapWait
      BY <2>7, SMT DEF MapWait
    <2>8. CASE Signal
      BY <2>8, SMT DEF Signal, mapVars
    <2> QED
      BY <2>1, <2>2, <2>3, <2>4, <2>5, <2>6, <2>7, <2>8 DEF Map
  <1>3. doExit' \in BOOLEAN
    BY DEF ControlOK, Map, Signal, MapTurn, MapAnnounce, MapCount, MapUnload,
           MapDestinations, MapReply, MapWait
  <1> QED
    BY <1>1, <1>2, <1>3 DEF ControlOK

(* A step of the main thread of an airline. *)
LEMMA AirlineControl ==
    ASSUME ControlOK, NEW a \in Airline, AirlineMain(a)
    PROVE  ControlOK'
  <1>1. UNCHANGED <<mapPc, turn, i, planePc, done, doExit>>
    BY DEF AirlineMain, AirReadPhase, AirReadReply, AirReadEnd, AirForward, AirStart,
           AirBroadcast, AirBroadcastDone, AirReady, AirUnlock, AirJoin, mapVars, planes
  <1>2. airPc' \in [Airline -> AirPc]
    <2> USE DEF ControlOK, AirPc
    <2>1. \E pc \in AirPc : airPc' = [airPc EXCEPT ![a] = pc]
      <3>1. CASE AirBroadcast(a)
        <4>1. airPc' = [airPc EXCEPT ![a] = airPc[a]] /\ airPc[a] \in AirPc
          BY <3>1 DEF AirBroadcast
        <4> QED
          BY <4>1
      <3> QED
        BY <3>1 DEF AirlineMain, AirReadPhase, AirReadReply, AirReadEnd, AirForward,
                    AirStart, AirBroadcastDone, AirReady, AirUnlock, AirJoin
    <2> QED
      BY <2>1
  <1>3. visit' \in [Airline -> SUBSET Plane]
    <2>1. visit' = visit \/ \E v \in SUBSET Plane : visit' = [visit EXCEPT ![a] = v]
      <3>1. CASE AirBroadcast(a)
        <4>1. visit' = [visit EXCEPT ![a] = visit[a] \ {Min(visit[a])}]
              /\ visit[a] \in SUBSET Plane
          BY <3>1 DEF AirBroadcast, ControlOK
        <4> QED
          BY <4>1
      <3> QED
        BY <3>1, FleetFinite
           DEF AirlineMain, AirReadPhase, AirReadReply, AirReadEnd, AirForward,
               AirStart, AirBroadcastDone, AirReady, AirUnlock, AirJoin
    <2> QED
      BY <2>1 DEF ControlOK
  <1>4. stage' \in [Airline -> {0, 1}]
    BY DEF ControlOK, StageOf, AirlineMain, AirReadPhase, AirReadReply, AirReadEnd,
           AirForward, AirStart, AirBroadcast, AirBroadcastDone, AirReady, AirUnlock,
           AirJoin
  <1>5. planesLeft' \in [Airline -> Int]
    <2>1. planesLeft' = planesLeft
          \/ \E n \in Int : planesLeft' = [planesLeft EXCEPT ![a] = n]
      BY FleetFinite
         DEF AirlineMain, AirReadPhase, AirReadReply, AirReadEnd, AirForward, AirStart,
             AirBroadcast, AirBroadcastDone, AirReady, AirUnlock, AirJoin, barrier
    <2> QED
      BY <2>1 DEF ControlOK
  <1>6. locked' \in [Airline -> BOOLEAN]
    <2>1. locked' = locked \/ \E b \in BOOLEAN : locked' = [locked EXCEPT ![a] = b]
      BY DEF AirlineMain, AirReadPhase, AirReadReply, AirReadEnd, AirForward, AirStart,
             AirBroadcast, AirBroadcastDone, AirReady, AirUnlock, AirJoin, barrier
    <2> QED
      BY <2>1 DEF ControlOK
  <1> QED
    BY <1>1, <1>2, <1>3, <1>4, <1>5, <1>6 DEF ControlOK

(* A step of a plane. *)
LEMMA PlaneControl ==
    ASSUME ControlOK, NEW p \in Plane, PlaneThread(p)
    PROVE  ControlOK'
  <1> DEFINE a == AirlineOf[p]
  <1>0. a \in Airline
    BY SizeAssumption
  <1>1. UNCHANGED <<mapPc, turn, i, airPc, visit, stage, doExit>>
    BY DEF PlaneThread, PlanePeek, PlaneStep, PlaneRequest, PlaneUnloaded, PlaneContinue,
           PlaneDestination, PlaneCount, PlaneReport, PlaneUnlock, mapVars, airVars
  <1>2. planePc' \in [Plane -> PlanePc]
    <2>1. \E pc \in PlanePc : Goto(p, pc)
      <3> USE DEF PlanePc, AfterPeek, RequestOf, ReportAt, AfterReport
      <3>1. CASE PlanePeek(p) \/ PlaneRequest(p) \/ PlaneReport(p)
        <4>1. CASE PlanePeek(p)
          BY <4>1 DEF PlanePeek
        <4>2. CASE PlaneRequest(p)
          BY <4>2 DEF PlaneRequest, AfterRequest
        <4>3. CASE PlaneReport(p)
          BY <4>3 DEF PlaneReport
        <4> QED
          BY <3>1, <4>1, <4>2, <4>3
      <3>2. CASE PlaneStep(p) \/ PlaneUnloaded(p) \/ PlaneContinue(p) \/ PlaneDestination(p)
        BY <3>2 DEF PlaneStep, PlaneUnloaded, PlaneContinue, PlaneDestination
      <3>3. CASE PlaneCount(p) \/ PlaneUnlock(p)
        <4>1. AfterReady(p, planePc[p]) \in {"exited", "cont", "step"}
          BY DEF AfterReady
        <4> QED
          BY <3>3, <4>1 DEF PlaneCount, PlaneUnlock
      <3> QED
        BY <3>1, <3>2, <3>3 DEF PlaneThread
    <2> QED
      BY <2>1 DEF ControlOK, Goto
  <1>3. done' \in [Plane -> BOOLEAN]
    <2>1. done' = done \/ \E b \in BOOLEAN : done' = [done EXCEPT ![p] = b]
      BY DEF PlaneThread, PlanePeek, PlaneStep, PlaneRequest, PlaneUnloaded, PlaneContinue,
             PlaneDestination, PlaneCount, PlaneReport, PlaneUnlock, planes
    <2> QED
      BY <2>1 DEF ControlOK
  <1>4. planesLeft' \in [Airline -> Int] /\ locked' \in [Airline -> BOOLEAN]
    <2>1. CASE PlaneCount(p)
      <3>1. planesLeft' = [planesLeft EXCEPT ![a] = planesLeft[a] - 1]
            /\ (locked' = [locked EXCEPT ![a] = TRUE] \/ locked' = locked)
        BY <2>1 DEF PlaneCount
      <3>2. planesLeft[a] - 1 \in Int
        BY <1>0 DEF ControlOK
      <3> QED
        BY <1>0, <3>1, <3>2 DEF ControlOK
    <2>2. CASE PlaneUnlock(p)
      BY <1>0, <2>2 DEF PlaneUnlock, ControlOK
    <2>3. CASE ~PlaneCount(p) /\ ~PlaneUnlock(p)
      <3>1. UNCHANGED <<planesLeft, locked>>
        BY <2>3 DEF PlaneThread, PlanePeek, PlaneStep, PlaneRequest, PlaneUnloaded,
                    PlaneContinue, PlaneDestination, PlaneReport, barrier
      <3> QED
        BY <3>1 DEF ControlOK
    <2> QED
      BY <2>1, <2>2, <2>3
  <1> QED
    BY <1>1, <1>2, <1>3, <1>4 DEF ControlOK

LEMMA ControlPreserved == ControlOK /\ [Next]_vars => ControlOK'
  <1> SUFFICES ASSUME ControlOK, [Next]_vars PROVE ControlOK'
    OBVIOUS
  <1>1. CASE Map \/ Signal
    BY <1>1, MapControl
  <1>2. CASE \E a \in Airline : AirlineMain(a)
    BY <1>2, AirlineControl
  <1>3. CASE \E p \in Plane : PlaneThread(p)
    BY <1>3, PlaneControl
  <1>4. CASE UNCHANGED vars
    BY <1>4 DEF vars, mapVars, airVars, barrier, planes, ControlOK
  <1> QED
    BY <1>1, <1>2, <1>3, <1>4 DEF Next, Terminated

(* Every thread is at a point of its code, and the counters and flags of the map *)
(* and of the airlines hold what their C types are meant to hold (runMap, listen *)
(* and run_plane, and the statics of airline.c).                                 *)
THEOREM ControlCorrect == Spec => []ControlOK
  BY InitControl, ControlPreserved, PTL DEF Spec

-----------------------------------------------------------------------------
(* planesLeftLock.  LockOwned is inductive together with the types and with what *)
(* listen knows of the message it works on.                                      *)

Hands == /\ airMsg = [a \in Airline |-> airMsg[a]]
         /\ \A a \in Airline : airPc[a] = "start" => airMsg[a].type \in DOMAIN StageOf

LockInv == ControlOK /\ Hands /\ LockOwned

LEMMA InitLock == Init => LockInv
  <1> SUFFICES ASSUME Init PROVE LockInv
    OBVIOUS
  <1>1. Hands
    BY DEF Init, Hands
  <1>2. \A a \in Airline : ~locked[a] /\ ~AirHolds(a)
    BY DEF Init, AirHolds
  <1>3. \A p \in Plane : ~PlaneHolds(p)
    BY DEF Init, PlaneHolds, AfterReport
  <1> QED
    BY <1>1, <1>2, <1>3, InitControl DEF LockInv, LockOwned, Fleet

LEMMA HandsPreserved == LockInv /\ [Next]_vars => Hands'
  <1> SUFFICES ASSUME LockInv, [Next]_vars PROVE Hands'
    OBVIOUS
  <1> USE DEF LockInv, Hands
  <1>1. CASE UNCHANGED <<airPc, airMsg>>
    BY <1>1
  <1>2. ASSUME NEW a \in Airline, AirlineMain(a)
        PROVE  Hands'
    <2> DEFINE read(m) == airMsg' = [airMsg EXCEPT ![a] = m]
    <2> USE DEF ControlOK
    <2>1. CASE AirReadPhase(a)
      <3>1. /\ read(InHand(a)) /\ airPc' = [airPc EXCEPT ![a] = "start"]
            /\ InHand(a).type \in DOMAIN StageOf
        BY <2>1 DEF AirReadPhase, AirRead
      <3> HIDE DEF InHand
      <3> QED
        BY <3>1
    <2>2. CASE AirReadReply(a) \/ AirReadEnd(a)
      <3>1. /\ read(InHand(a))
            /\ \E pc \in {"forward", "broadcast"} : airPc' = [airPc EXCEPT ![a] = pc]
        BY <2>2 DEF AirReadReply, AirReadEnd, AirRead
      <3> HIDE DEF InHand
      <3> QED
        BY <3>1
    <2>3. CASE \/ AirForward(a) \/ AirStart(a) \/ AirBroadcast(a) \/ AirBroadcastDone(a)
               \/ AirReady(a) \/ AirUnlock(a) \/ AirJoin(a)
      <3>1. /\ UNCHANGED airMsg
            /\ \/ UNCHANGED airPc
               \/ \E pc \in {"listen", "ready", "broadcast", "join", "unlock", "exited"} :
                     airPc' = [airPc EXCEPT ![a] = pc]
        BY <2>3 DEF AirForward, AirStart, AirBroadcast, AirBroadcastDone, AirReady,
                    AirUnlock, AirJoin
      <3> QED
        BY <3>1
    <2> QED
      BY <1>2, <2>1, <2>2, <2>3 DEF AirlineMain
  <1>3. CASE Map \/ Signal \/ UNCHANGED vars
    <2>1. UNCHANGED <<airPc, airMsg>>
      BY <1>3 DEF Map, Signal, MapTurn, MapAnnounce, MapCount, MapUnload, MapDestinations,
                  MapReply, MapWait, airVars, vars
    <2> QED
      BY <1>1, <2>1
  <1>4. ASSUME NEW p \in Plane, PlaneThread(p)
        PROVE  Hands'
    <2>1. UNCHANGED <<airPc, airMsg>>
      BY <1>4 DEF PlaneThread, PlanePeek, PlaneStep, PlaneRequest, PlaneUnloaded,
                  PlaneContinue, PlaneDestination, PlaneCount, PlaneReport, PlaneUnlock,
                  airVars
    <2> QED
      BY <1>1, <2>1
  <1> QED
    BY <1>2, <1>3, <1>4 DEF Next, Terminated

(* A step after which the lock is held by whoever held it. *)
LEMMA LockUnmoved ==
    ASSUME LockOwned, UNCHANGED locked,
           \A a \in Airline : AirHolds(a)' <=> AirHolds(a),
           \A p \in Plane : PlaneHolds(p)' <=> PlaneHolds(p)
    PROVE  LockOwned'
  BY DEF LockOwned, Fleet

(* What the main thread of one airline does concerns the lock of that airline. *)
LEMMA OtherAirlines ==
    ASSUME LockInv, NEW a \in Airline, AirlineMain(a)
    PROVE  /\ \A b \in Airline \ {a} :
                 locked'[b] = locked[b] /\ (AirHolds(b)' <=> AirHolds(b))
           /\ \A p \in Plane : PlaneHolds(p)' <=> PlaneHolds(p)
  <1>1. UNCHANGED planePc
    BY DEF AirlineMain, AirReadPhase, AirReadReply, AirReadEnd, AirForward, AirStart,
           AirBroadcast, AirBroadcastDone, AirReady, AirUnlock, AirJoin, planes
  <1>2. \A b \in Airline \ {a} : locked'[b] = locked[b] /\ airPc'[b] = airPc[b]
    BY DEF LockInv, ControlOK, AirlineMain, AirReadPhase, AirReadReply, AirReadEnd,
           AirForward, AirStart, AirBroadcast, AirBroadcastDone, AirReady, AirUnlock,
           AirJoin, barrier
  <1>3. \A b \in Airline \ {a} : airMsg'[b] = airMsg[b]
    <2>1. airMsg' = airMsg \/ \E m : airMsg' = [airMsg EXCEPT ![a] = m]
      BY DEF AirlineMain, AirReadPhase, AirReadReply, AirReadEnd, AirRead, AirForward,
             AirStart, AirBroadcast, AirBroadcastDone, AirReady, AirUnlock, AirJoin
    <2> QED
      BY <2>1 DEF LockInv, Hands
  <1> QED
    BY <1>1, <1>2, <1>3 DEF AirHolds, PlaneHolds

LEMMA AirlineLock ==
    ASSUME LockInv, NEW a \in Airline, AirlineMain(a)
    PROVE  LockOwned'
  <1> USE DEF LockInv
  <1>1. CASE AirStart(a)
    <2>1. /\ ~locked[a] /\ airPc[a] = "start"
          /\ locked' = [locked EXCEPT ![a] = TRUE]
          /\ airMsg' = airMsg
          /\ \E pc \in {"ready", "broadcast"} : airPc' = [airPc EXCEPT ![a] = pc]
      BY <1>1 DEF AirStart
    <2>2. locked'[a] /\ AirHolds(a)'
      BY <2>1 DEF ControlOK, Hands, AirHolds
    <2>3. \A p \in Fleet(a) : ~PlaneHolds(p)'
      BY <2>1, OtherAirlines DEF LockOwned, Fleet
    <2> QED
      BY <2>2, <2>3, OtherAirlines DEF LockOwned, Fleet
  <1>2. CASE AirUnlock(a) \/ (AirBroadcastDone(a) /\ airMsg[a].type \in DOMAIN StageOf)
    <2>1. /\ AirHolds(a)
          /\ locked' = [locked EXCEPT ![a] = FALSE]
          /\ airPc' = [airPc EXCEPT ![a] = "listen"]
      BY <1>2 DEF AirUnlock, AirBroadcastDone, AirHolds
    <2>2. ~locked'[a] /\ ~AirHolds(a)'
      BY <2>1 DEF ControlOK, AirHolds
    <2>3. \A p \in Fleet(a) : ~PlaneHolds(p)'
      BY <2>1, OtherAirlines DEF LockOwned, Fleet
    <2> QED
      BY <2>2, <2>3, OtherAirlines DEF LockOwned, Fleet
  <1>3. CASE ~AirStart(a) /\ ~AirUnlock(a)
             /\ ~(AirBroadcastDone(a) /\ airMsg[a].type \in DOMAIN StageOf)
    <2>1. UNCHANGED locked
      BY <1>3 DEF AirlineMain, AirReadPhase, AirReadReply, AirReadEnd, AirForward,
                  AirBroadcast, AirBroadcastDone, AirReady, AirJoin, barrier
    <2>2. AirHolds(a)' <=> AirHolds(a)
      <3> USE DEF AirHolds, ControlOK, Hands
      <3>1. CASE AirReadPhase(a) \/ AirReadReply(a)
        <4>1. /\ airPc[a] = "listen"
              /\ \E pc \in {"start", "forward"} : airPc' = [airPc EXCEPT ![a] = pc]
          BY <3>1 DEF AirReadPhase, AirReadReply, AirRead
        <4> QED
          BY <4>1
      <3>2. CASE AirReadEnd(a)
        <4>1. /\ airPc[a] = "listen" /\ airPc' = [airPc EXCEPT ![a] = "broadcast"]
              /\ airMsg' = [airMsg EXCEPT ![a] = InHand(a)]
              /\ InHand(a).type \notin DOMAIN StageOf
          BY <3>2 DEF AirReadEnd, AirRead
        <4> HIDE DEF InHand
        <4>2. airMsg'[a] = InHand(a) /\ airPc'[a] = "broadcast"
          BY <4>1
        <4> QED
          BY <4>1, <4>2
      <3>3. CASE AirForward(a) \/ AirJoin(a) \/ AirBroadcastDone(a)
        <4>1. /\ ~AirHolds(a)
              /\ \E pc \in {"listen", "exited", "join"} :
                     airPc' = [airPc EXCEPT ![a] = pc]
          BY <1>3, <3>3 DEF AirForward, AirJoin, AirBroadcastDone
        <4> QED
          BY <4>1
      <3>4. CASE AirReady(a)
        BY <3>4 DEF AirReady
      <3>5. CASE AirBroadcast(a)
        BY <3>5 DEF AirBroadcast
      <3> QED
        BY <1>3, <3>1, <3>2, <3>3, <3>4, <3>5 DEF AirlineMain
    <2> QED
      BY <2>1, <2>2, OtherAirlines, LockUnmoved
  <1> QED
    BY <1>1, <1>2, <1>3

LEMMA PlaneLock ==
    ASSUME LockInv, NEW p \in Plane, PlaneThread(p)
    PROVE  LockOwned'
  <1> DEFINE a == AirlineOf[p]
  <1> USE DEF LockInv
  <1>0. a \in Airline /\ p \in Fleet(a)
    BY SizeAssumption DEF Fleet
  <1>1. \A b \in Airline : AirHolds(b)' <=> AirHolds(b)
    BY DEF PlaneThread, PlanePeek, PlaneStep, PlaneRequest, PlaneUnloaded, PlaneContinue,
           PlaneDestination, PlaneCount, PlaneReport, PlaneUnlock, airVars, AirHolds
  <1>2. \A q \in Plane \ {p} : PlaneHolds(q)' <=> PlaneHolds(q)
    <2>1. \A q \in Plane \ {p} : planePc'[q] = planePc[q]
      BY DEF ControlOK, PlaneThread, PlanePeek, PlaneStep, PlaneRequest, PlaneUnloaded,
             PlaneContinue, PlaneDestination, PlaneCount, PlaneReport, PlaneUnlock, Goto
    <2> QED
      BY <2>1 DEF PlaneHolds
  <1>3. AfterReady(p, planePc[p]) \in {"exited", "cont", "step"}
    BY DEF AfterReady
  <1>4. \A q \in Plane, b \in Airline : q \in Fleet(a) /\ q \in Fleet(b) => b = a
    BY DEF Fleet
  <1>5. CASE PlaneCount(p) /\ planesLeft[a] = 1
    <2>1. /\ ~locked[a] /\ locked' = [locked EXCEPT ![a] = TRUE]
          /\ planePc[p] \in DOMAIN ReportAt /\ Goto(p, ReportAt[planePc[p]])
      BY <1>5 DEF PlaneCount
    <2>2. PlaneHolds(p)' /\ locked'[a]
      BY <1>0, <2>1 DEF PlaneHolds, ReportAt, AfterReport, Goto, ControlOK
    <2>3. ~AirHolds(a) /\ \A q \in Fleet(a) : ~PlaneHolds(q)
      BY <1>0, <2>1 DEF LockOwned
    <2>4. \A b \in Airline \ {a} : locked'[b] = locked[b]
      BY <2>1 DEF ControlOK
    <2> QED
      BY <1>0, <1>1, <1>2, <2>2, <2>3, <2>4 DEF LockOwned, Fleet
  <1>6. CASE PlaneUnlock(p)
    <2>1. /\ PlaneHolds(p) /\ locked' = [locked EXCEPT ![a] = FALSE]
          /\ Goto(p, AfterReady(p, planePc[p]))
      BY <1>6 DEF PlaneUnlock, PlaneHolds
    <2>2. ~PlaneHolds(p)' /\ ~locked'[a]
      BY <1>0, <1>3, <2>1 DEF PlaneHolds, AfterReport, Goto, ControlOK
    <2>3. ~AirHolds(a) /\ \A q \in Fleet(a) : PlaneHolds(q) => q = p
      BY <1>0, <2>1 DEF LockOwned
    <2>4. \A b \in Airline \ {a} : locked'[b] = locked[b]
      BY <2>1 DEF ControlOK
    <2> QED
      BY <1>0, <1>1, <1>2, <2>2, <2>3, <2>4 DEF LockOwned, Fleet
  <1>7. CASE ~PlaneUnlock(p) /\ ~(PlaneCount(p) /\ planesLeft[a] = 1)
    <2>1. UNCHANGED locked
      BY <1>7 DEF PlaneThread, PlanePeek, PlaneStep, PlaneRequest, PlaneUnloaded,
                  PlaneContinue, PlaneDestination, PlaneCount, PlaneReport, barrier
    <2>2. PlaneHolds(p)' <=> PlaneHolds(p)
      <3> USE DEF PlaneHolds, AfterReport, ControlOK, Goto
      <3>1. CASE PlanePeek(p)
        BY <3>1 DEF PlanePeek, AfterPeek
      <3>2. CASE PlaneRequest(p)
        BY <3>2 DEF PlaneRequest, RequestOf, AfterRequest
      <3>3. CASE PlaneStep(p) \/ PlaneUnloaded(p) \/ PlaneContinue(p) \/ PlaneDestination(p)
        <4>1. /\ planePc[p] \in {"step", "awaitStock", "awaitContinue", "awaitDest"}
              /\ \E pc \in {"unload", "ready1", "exited", "check", "ready2"} : Goto(p, pc)
          BY <3>3 DEF PlaneStep, PlaneUnloaded, PlaneContinue, PlaneDestination
        <4> QED
          BY <4>1
      <3>4. CASE PlaneCount(p)
        <4>1. /\ planePc[p] \in {"count1", "count2"}
              /\ Goto(p, AfterReady(p, planePc[p]))
          BY <1>7, <3>4 DEF PlaneCount, ReportAt
        <4> HIDE DEF AfterReady
        <4> QED
          BY <1>3, <4>1
      <3>5. CASE PlaneReport(p)
        BY <3>5 DEF PlaneReport
      <3> QED
        BY <1>7, <3>1, <3>2, <3>3, <3>4, <3>5 DEF PlaneThread
    <2> QED
      BY <1>1, <1>2, <2>1, <2>2, LockUnmoved
  <1> QED
    BY <1>5, <1>6, <1>7

LEMMA LockPreserved == LockInv /\ [Next]_vars => LockInv'
  <1> SUFFICES ASSUME LockInv, [Next]_vars PROVE LockInv'
    OBVIOUS
  <1>1. ControlOK' /\ Hands'
    BY ControlPreserved, HandsPreserved DEF LockInv
  <1>2. CASE Map \/ Signal \/ UNCHANGED vars
    <2>1. UNCHANGED <<airPc, airMsg, locked, planePc>>
      BY <1>2 DEF Map, Signal, MapTurn, MapAnnounce, MapCount, MapUnload, MapDestinations,
                  MapReply, MapWait, airVars, barrier, planes, vars
    <2>2. LockOwned'
      BY <2>1, LockUnmoved DEF LockInv, AirHolds, PlaneHolds
    <2> QED
      BY <1>1, <2>2 DEF LockInv
  <1>3. CASE \E a \in Airline : AirlineMain(a)
    BY <1>1, <1>3, AirlineLock DEF LockInv
  <1>4. CASE \E p \in Plane : PlaneThread(p)
    BY <1>1, <1>4, PlaneLock DEF LockInv
  <1> QED
    BY <1>2, <1>3, <1>4 DEF Next, Terminated

(* planesLeftLock is held exactly while start_phase runs or the last plane of a  *)
(* stage reports, by one of them alone (airline.c:170-186, 191-199).             *)
THEOREM LockCorrect == Spec => []LockOwned
  <1>1. LockInv => LockOwned
    BY DEF LockInv
  <1> QED
    BY <1>1, InitLock, LockPreserved, PTL DEF Spec

-----------------------------------------------------------------------------
(* The turns. What a phase is, and the messages by what they are for.            *)

InUnload == mapPc \in {"step", "phase1", "reply1"}
InMove   == mapPc \in {"continue", "phase2", "reply2"}
InTurn   == InUnload \/ InMove
IsOver   == mapPc \in {"over", "wait", "exited"}

(* What the map tells the airlines in this phase, and the stage it sets.         *)
Call      == IF InUnload THEN "Step" ELSE "Continue"
CallStage == IF InUnload THEN 0 ELSE 1
Calls     == {"Step", "Continue"}

Answers  == {"UnloadStock", "Destinations"}
Requests == {"UnloadStock", "CheckDestinations"}
Returns  == {"AirlineDone", "AirlineStatus"}

Shapes == /\ IsSeq(mapInbox)
          /\ inbox = [a \in Airline |-> inbox[a]]
          /\ queue = [p \in Plane |-> queue[p]]
          /\ \A a \in Airline : IsSeq(inbox[a]) /\ visit[a] \in SUBSET Fleet(a)

-----------------------------------------------------------------------------
(* The main thread of an airline: what it has been told.                         *)
EndSent(a) == IsOver /\ ~(mapPc = "over" /\ a > i)
Ended(a) == \/ airPc[a] \in {"join", "exited"}
            \/ airPc[a] = "broadcast" /\ airMsg[a].type = "End"

Main(a) ==
    /\ OnlyOf(inbox[a], Calls \cup Answers \cup {"End"})
    /\ Single(inbox[a], Calls) /\ ~Holds(inbox[a], Calls \ {Call})
    /\ Holds(inbox[a], {"End"}) => EndSent(a) /\ Len(inbox[a]) = 1
    /\ Ended(a) => EndSent(a) /\ inbox[a] = <<>>
    /\ airPc[a] = "start" => airMsg[a].type = Call
    /\ airPc[a] = "broadcast" /\ airMsg[a].type # "End"
          => airMsg[a].type = Call /\ planesLeft[a] # 0
    /\ airPc[a] = "exited" => \A p \in Fleet(a) : planePc[p] = "exited"
    /\ mapPc = "exited" => airPc[a] = "exited"

-----------------------------------------------------------------------------
(* The planes.                                                                   *)
DonePlaces == {"ready1", "count1", "report1", "unlock1",
               "ready2", "count2", "report2", "unlock2", "exited"}

InMail(p) == LET type == InQueue(p).type
             IN  \/ type = "Step" /\ planePc[p] = "step" /\ InUnload
                 \/ type = "Continue" /\ planePc[p] \in {"cont", "awaitContinue"} /\ InMove
                 \/ type = "End" /\ planePc[p] \in {"step", "unlock2"} /\ Ended(AirlineOf[p])
                 \/ type = "Stock" /\ planePc[p] = "awaitStock"
                 \/ type = "Destinations" /\ planePc[p] = "awaitDest"

(* Where the broadcast of its airline finds a plane. *)
Called(p) == LET type == airMsg[AirlineOf[p]].type
             IN  \/ type = "Step" /\ planePc[p] = "step"
                 \/ type = "Continue" /\ planePc[p] \in {"cont", "awaitContinue"}
                 \/ type = "End"

Mailbox(p) ==
    LET a == AirlineOf[p]
    IN  /\ queue[p] = <<>> \/ (queue[p] = <<InQueue(p)>> /\ InMail(p))
        /\ airPc[a] = "broadcast" /\ p \in visit[a] => queue[p] = <<>> /\ (Called(p) \/ done[p])
        /\ done[p] => planePc[p] \in DonePlaces /\ queue[p] = <<>>
        /\ planePc[p] = "exited" => done[p]

-----------------------------------------------------------------------------
(* Where the report an airline owes to the phase is: st tells the station of     *)
(* every airline, and no variable does, for it shows in the channel, in the      *)
(* program counters and in planesLeftInStage.                                    *)
Owing    == {"unannounced", "announced", "start", "ready", "counting", "reporting"}
Stations == Owing \cup {"reported"}
Fresh    == {"unannounced", "announced", "start"}

Placed(a, place) ==
    /\ place = "unannounced" <=> mapPc \in {"step", "continue"} /\ a > i
    /\ place = "announced" <=> Holds(inbox[a], Calls)
    /\ place = "start" <=> airPc[a] = "start"
    /\ place = "ready" <=> airPc[a] = "ready"
    /\ place = "counting" <=> planesLeft[a] # 0
    /\ place = "reporting" <=> \E p \in Fleet(a) : planePc[p] \in {"report1", "report2"}
    /\ place # "reported" => InTurn
    /\ place \in {"start", "ready", "counting", "reporting"} => stage[a] = CallStage

Stationed(st) == st \in [Airline -> Stations] /\ \A a \in Airline : Placed(a, st[a])

Reports == {Plain("AirlineDone")}
              \cup [type : {"AirlineStatus"}, airline : Airline, flying : Nat]

Heard == IF mapPc \in {"step", "continue"} THEN 0 ELSE i

Tallied(st) ==
    /\ InTurn => Cardinality(Among(st, Airline, Owing)) + HowMany(mapInbox, Reports) + Heard
                    = NumAirlines
    /\ ~InTurn => mapInbox = <<>>

Located(st, p) ==
    LET fresh == st[AirlineOf[p]] \in Fresh
        told  == Told(p) \/ ToBeTold(p)
    IN  /\ planePc[p] \in Unloading \cup {"report1"} => InUnload
        /\ planePc[p] \in Moving \cup {"report2"} => InMove
        /\ planePc[p] \in {"cont", "awaitContinue", "unlock1"} =>
              (InUnload /\ ~fresh) \/ (InMove /\ (fresh \/ told))
        /\ planePc[p] \in {"step", "unlock2"} =>
              (InUnload => fresh \/ told) /\ (InMove => ~fresh)

(* The reports that the map has still to read.                                   *)
Reported(st) == \A k \in 1 .. Len(mapInbox) : LET m == mapInbox[k] IN
    /\ m.type = "AirlineDone" => m = Plain("AirlineDone") /\ InUnload
    /\ m.type = "AirlineStatus" =>
          /\ m \in Reports /\ InMove
          /\ st[m.airline] = "reported" /\ m.flying = Cardinality(InGame(m.airline))

Settled(st) == /\ Stationed(st) /\ Tallied(st) /\ Reported(st)
               /\ \A p \in Plane : Located(st, p)

-----------------------------------------------------------------------------
(* What a plane has asked for. loc tells where its request or the answer is: on  *)
(* its way to the map, in the map's hands, on its way to the airline, in the     *)
(* airline's hands, in the plane's queue.                                        *)
Asks(p, type) == \/ type = "UnloadStock" /\ planePc[p] = "awaitStock"
                 \/ type \in {"CheckDestinations", "Destinations"} /\ planePc[p] = "awaitDest"

Hops == {"request", "reply", "answer", "hand", "mail"}
Waiting(loc, hop) == {w \in Plane \X (Requests \cup Answers) : Asks(w[1], w[2]) /\ loc[w[1]] = hop}

Underway(loc) ==
    /\ loc \in [Plane -> Hops]
    /\ OnlyOf(mapInbox, Requests \cup Returns)
    /\ Carries(mapInbox, Requests, Waiting(loc, "request"))
    /\ mapPc = "reply1" <=> reply.type = "UnloadStock"
    /\ mapPc = "reply2" <=> reply.type = "Destinations"
    /\ reply.type \in Answers => <<reply.plane, reply.type>> \in Waiting(loc, "reply")
    /\ \A a \in Airline :
          /\ Carries(inbox[a], Answers, Waiting(loc, "answer"))
          /\ \A k \in 1 .. Len(inbox[a]) :
                inbox[a][k].type \in Answers => inbox[a][k].plane \in Fleet(a)
          /\ airPc[a] = "forward" =>
                /\ airMsg[a].type \in Answers /\ airMsg[a].plane \in Fleet(a)
                /\ <<airMsg[a].plane, airMsg[a].type>> \in Waiting(loc, "hand")
    /\ \A p \in Plane : queue[p] # <<>> /\ InQueue(p).type \in {"Stock", "Destinations"} =>
          loc[p] = "mail"

TurnInv == /\ LockInv /\ CountExact /\ Shapes
           /\ \A a \in Airline : Main(a)
           /\ \A p \in Plane : Mailbox(p)
           /\ \E st : Settled(st)
           /\ \E loc : Underway(loc)

-----------------------------------------------------------------------------
(* What a step of each thread leaves alone. *)

LEMMA LeastIn ==
    ASSUME NEW S \in SUBSET Nat, S # {}
    PROVE  Min(S) \in S /\ \A y \in S : Min(S) <= y
  BY LeastExists DEF Min

LEMMA NextCalled ==
    ASSUME TurnInv, NEW a \in Airline, visit[a] # {}
    PROVE  Min(visit[a]) \in visit[a] /\ Min(visit[a]) \in Fleet(a)
  <1>1. visit[a] \in SUBSET Fleet(a) /\ Fleet(a) \in SUBSET Nat
    BY SizeAssumption DEF TurnInv, Shapes, Fleet, Plane
  <1> QED
    BY <1>1, LeastIn

LEMMA PlaceOf ==
    ASSUME NEW p \in Plane
    PROVE  /\ AirlineOf[p] \in Airline /\ p \in Fleet(AirlineOf[p])
           /\ \A a \in Airline : p \in Fleet(a) <=> a = AirlineOf[p]
  BY SizeAssumption DEF Fleet

LEMMA MapFrame ==
    ASSUME Map \/ Signal \/ UNCHANGED vars
    PROVE  UNCHANGED <<airPc, airMsg, visit, stage, planesLeft, locked, planePc, done, queue>>
  BY DEF Map, Signal, MapTurn, MapAnnounce, MapCount, MapUnload, MapDestinations, MapReply,
         MapWait, airVars, barrier, planes, channels, vars

LEMMA AirFrame ==
    ASSUME TurnInv, NEW a \in Airline, AirlineMain(a)
    PROVE  /\ UNCHANGED <<mapPc, turn, i, reply, planePc, done>>
           /\ \A b \in Airline \ {a} :
                 /\ airPc'[b] = airPc[b] /\ airMsg'[b] = airMsg[b] /\ visit'[b] = visit[b]
                 /\ stage'[b] = stage[b] /\ planesLeft'[b] = planesLeft[b]
                 /\ inbox'[b] = inbox[b]
           /\ \A q \in Plane \ Fleet(a) : queue'[q] = queue[q]
           /\ inbox' = [b \in Airline |-> inbox'[b]] /\ queue' = [q \in Plane |-> queue'[q]]
           /\ inbox'[a] = inbox[a] \/ (inbox[a] # <<>> /\ inbox'[a] = Tail(inbox[a]))
           /\ visit'[a] \in SUBSET Fleet(a)
  <1>1. UNCHANGED <<mapPc, turn, i, reply, planePc, done>>
    BY DEF AirlineMain, AirReadPhase, AirReadReply, AirReadEnd, AirForward, AirStart,
           AirBroadcast, AirBroadcastDone, AirReady, AirUnlock, AirJoin, planes, mapVars
  <1>2. \A b \in Airline \ {a} :
           airPc'[b] = airPc[b] /\ visit'[b] = visit[b] /\ stage'[b] = stage[b]
           /\ planesLeft'[b] = planesLeft[b]
    BY DEF TurnInv, LockInv, ControlOK, AirlineMain, AirReadPhase, AirReadReply, AirReadEnd,
           AirForward, AirStart, AirBroadcast, AirBroadcastDone, AirReady, AirUnlock,
           AirJoin, barrier
  <1>3. \A b \in Airline \ {a} : airMsg'[b] = airMsg[b]
    <2>1. airMsg' = airMsg \/ \E m : airMsg' = [airMsg EXCEPT ![a] = m]
      BY DEF AirlineMain, AirReadPhase, AirReadReply, AirReadEnd, AirRead, AirForward,
             AirStart, AirBroadcast, AirBroadcastDone, AirReady, AirUnlock, AirJoin
    <2> QED
      BY <2>1 DEF TurnInv, LockInv, Hands
  <1>4. inbox' = inbox \/ (inbox[a] # <<>> /\ inbox' = [inbox EXCEPT ![a] = Tail(inbox[a])])
    BY DEF AirlineMain, AirReadPhase, AirReadReply, AirReadEnd, AirRead, AirForward,
           AirStart, AirBroadcast, AirBroadcastDone, AirReady, AirUnlock, AirJoin, channels
  <1>5. inbox = [b \in Airline |-> inbox[b]] /\ queue = [q \in Plane |-> queue[q]]
    BY DEF TurnInv, Shapes
  <1>6. queue' = queue \/ \E q \in Fleet(a) : \E s : queue' = [queue EXCEPT ![q] = s]
    <2>1. CASE AirForward(a)
      <3>1. airMsg[a].plane \in Fleet(a)
        BY <2>1 DEF TurnInv, Underway, AirForward
      <3> QED
        BY <2>1, <3>1 DEF AirForward, Enqueue
    <2>2. CASE AirBroadcast(a)
      BY <2>2, NextCalled DEF AirBroadcast, Enqueue
    <2>3. CASE ~AirForward(a) /\ ~AirBroadcast(a)
      BY <2>3 DEF AirlineMain, AirReadPhase, AirReadReply, AirReadEnd, AirStart,
                  AirBroadcastDone, AirReady, AirUnlock, AirJoin, channels
    <2> QED
      BY <2>1, <2>2, <2>3
  <1>7. visit'[a] \in SUBSET Fleet(a)
    <2>1. visit[a] \in SUBSET Fleet(a) /\ InGame(a) \in SUBSET Fleet(a)
      BY DEF TurnInv, Shapes, InGame
    <2>2. visit' = visit \/ \E v \in SUBSET Fleet(a) : visit' = [visit EXCEPT ![a] = v]
      <3>1. CASE AirBroadcast(a)
        <4>1. visit' = [visit EXCEPT ![a] = visit[a] \ {Min(visit[a])}]
          BY <3>1 DEF AirBroadcast
        <4> QED
          BY <2>1, <4>1
      <3> QED
        BY <3>1 DEF AirlineMain, AirReadPhase, AirReadReply, AirReadEnd, AirForward,
                    AirStart, AirBroadcastDone, AirReady, AirUnlock, AirJoin
    <2> QED
      BY <2>1, <2>2 DEF TurnInv, LockInv, ControlOK
  <1>8. \A q \in Fleet(a) : q \in Plane
    BY DEF Fleet
  <1>9. /\ \A b \in Airline \ {a} : inbox'[b] = inbox[b]
        /\ inbox' = [b \in Airline |-> inbox'[b]]
        /\ inbox'[a] = inbox[a] \/ (inbox[a] # <<>> /\ inbox'[a] = Tail(inbox[a]))
    BY <1>4, <1>5, Zenon
  <1>10. /\ \A q \in Plane \ Fleet(a) : queue'[q] = queue[q]
         /\ queue' = [q \in Plane |-> queue'[q]]
    BY <1>5, <1>6, <1>8
  <1> QED
    BY <1>1, <1>2, <1>3, <1>7, <1>9, <1>10

LEMMA PlaneFrame ==
    ASSUME TurnInv, NEW p \in Plane, PlaneThread(p)
    PROVE  /\ UNCHANGED <<mapPc, turn, i, reply, inbox, airPc, airMsg, visit, stage>>
           /\ \A q \in Plane \ {p} :
                 planePc'[q] = planePc[q] /\ queue'[q] = queue[q] /\ done'[q] = done[q]
           /\ \A b \in Airline \ {AirlineOf[p]} : planesLeft'[b] = planesLeft[b]
           /\ queue' = [q \in Plane |-> queue'[q]]
  <1>1. UNCHANGED <<mapPc, turn, i, reply, inbox, airPc, airMsg, visit, stage>>
    BY DEF PlaneThread, PlanePeek, PlaneStep, PlaneRequest, PlaneUnloaded, PlaneContinue,
           PlaneDestination, PlaneCount, PlaneReport, PlaneUnlock, airVars, mapVars, channels
  <1>2. \A q \in Plane \ {p} : planePc'[q] = planePc[q]
    BY DEF TurnInv, LockInv, ControlOK, PlaneThread, PlanePeek, PlaneStep, PlaneRequest,
           PlaneUnloaded, PlaneContinue, PlaneDestination, PlaneCount, PlaneReport,
           PlaneUnlock, Goto
  <1>3. \A q \in Plane \ {p} : done'[q] = done[q]
    <2>1. done' = done \/ \E b : done' = [done EXCEPT ![p] = b]
      BY DEF PlaneThread, PlanePeek, PlaneStep, PlaneRequest, PlaneUnloaded, PlaneContinue,
             PlaneDestination, PlaneCount, PlaneReport, PlaneUnlock, planes
    <2> QED
      BY <2>1 DEF TurnInv, LockInv, ControlOK
  <1>4. queue' = queue \/ queue' = [queue EXCEPT ![p] = Tail(queue[p])]
    BY DEF PlaneThread, PlanePeek, PlaneStep, PlaneRequest, PlaneUnloaded, PlaneContinue,
           PlaneDestination, PlaneCount, PlaneReport, PlaneUnlock, Dequeue, channels
  <1>5. \A b \in Airline \ {AirlineOf[p]} : planesLeft'[b] = planesLeft[b]
    BY DEF TurnInv, LockInv, ControlOK, PlaneThread, PlanePeek, PlaneStep, PlaneRequest,
           PlaneUnloaded, PlaneContinue, PlaneDestination, PlaneCount, PlaneReport,
           PlaneUnlock, barrier
  <1>6. /\ \A q \in Plane \ {p} : queue'[q] = queue[q]
        /\ queue' = [q \in Plane |-> queue'[q]]
    <2>1. queue = [q \in Plane |-> queue[q]]
      BY DEF TurnInv, Shapes
    <2> QED
      BY <1>4, <2>1, Zenon
  <1> QED
    BY <1>1, <1>2, <1>3, <1>5, <1>6

LEMMA ShapesKept == TurnInv /\ [Next]_vars => Shapes'
  <1> SUFFICES ASSUME TurnInv, [Next]_vars PROVE Shapes'
    OBVIOUS
  <1>0. Shapes
    BY DEF TurnInv
  <1>1. \/ mapInbox' = mapInbox
        \/ \E m : mapInbox' = Append(mapInbox, m)
        \/ mapInbox # <<>> /\ mapInbox' = Tail(mapInbox)
    <2>1. CASE Map \/ Signal \/ UNCHANGED vars
      BY <2>1 DEF Map, Signal, MapTurn, MapAnnounce, MapCount, MapUnload, MapDestinations,
                  MapReply, MapWait, channels, vars
    <2>2. CASE \E a \in Airline : AirlineMain(a)
      BY <2>2 DEF AirlineMain, AirReadPhase, AirReadReply, AirReadEnd, AirForward, AirStart,
                  AirBroadcast, AirBroadcastDone, AirReady, WriteToMap, AirUnlock, AirJoin,
                  channels
    <2>3. CASE \E p \in Plane : PlaneThread(p)
      BY <2>3 DEF PlaneThread, PlanePeek, PlaneStep, PlaneRequest, PlaneUnloaded,
                  PlaneContinue, PlaneDestination, PlaneCount, PlaneReport, WriteToMap,
                  PlaneUnlock, channels
    <2> QED
      BY <2>1, <2>2, <2>3 DEF Next, Terminated
  <1>2. IsSeq(mapInbox)'
    <2>1. IsSeq(mapInbox)
      BY <1>0 DEF Shapes
    <2>2. \A m : IsSeq(Append(mapInbox, m))
      BY <2>1, Written
    <2>3. mapInbox # <<>> => IsSeq(Tail(mapInbox))
      BY <2>1, Read
    <2> QED
      BY <1>1, <2>1, <2>2, <2>3
  <1>3. CASE Map \/ Signal \/ UNCHANGED vars
    <2>1. visit' = visit /\ queue' = queue
      BY <1>3, MapFrame
    <2>2. inbox' = inbox \/ \E a \in Airline : \E m :
             inbox' = [inbox EXCEPT ![a] = Append(inbox[a], m)]
      <3>1. CASE MapAnnounce
        <4>1. i + 1 \in Airline
          BY SizeAssumption DEF TurnInv, LockInv, ControlOK, Airline
        <4> QED
          BY <3>1, <4>1 DEF MapAnnounce, WriteToAirline
      <3>2. CASE MapReply
        <4>1. AirlineOf[reply.plane] \in Airline
          BY <3>2, PlaceOf DEF TurnInv, Underway, MapReply, AfterReply, Answers, Waiting
        <4> QED
          BY <3>2, <4>1 DEF MapReply, WriteToAirline
      <3> QED
        BY <1>3, <3>1, <3>2 DEF Map, Signal, MapTurn, MapCount, MapUnload, MapDestinations,
                                MapWait, channels, vars
    <2>3. ASSUME NEW a \in Airline
          PROVE  IsSeq(inbox'[a])
      <3>1. IsSeq(inbox[a]) /\ inbox = [b \in Airline |-> inbox[b]]
        BY <1>0 DEF Shapes
      <3>2. inbox'[a] = inbox[a] \/ \E m : inbox'[a] = Append(inbox[a], m)
        BY <2>2, <3>1
      <3>3. \A m : IsSeq(Append(inbox[a], m))
        BY <3>1, Written
      <3> QED
        BY <3>1, <3>2, <3>3
    <2>4. inbox' = [a \in Airline |-> inbox'[a]]
      BY <1>0, <2>2 DEF Shapes
    <2> QED
      BY <1>0, <1>2, <2>1, <2>3, <2>4 DEF Shapes
  <1>4. CASE \E a \in Airline : AirlineMain(a)
    <2> PICK a \in Airline : AirlineMain(a)
      BY <1>4
    <2>1. ASSUME NEW b \in Airline
          PROVE  IsSeq(inbox'[b])
      <3>1. IsSeq(inbox[b])
        BY <1>0 DEF Shapes
      <3>2. inbox'[b] = inbox[b] \/ (inbox[b] # <<>> /\ inbox'[b] = Tail(inbox[b]))
        BY AirFrame
      <3>3. inbox[b] # <<>> => IsSeq(Tail(inbox[b]))
        BY <3>1, Read
      <3> QED
        BY <3>1, <3>2, <3>3
    <2>2. \A b \in Airline : visit'[b] \in SUBSET Fleet(b)
      BY <1>0, AirFrame DEF Shapes
    <2> QED
      BY <1>2, <2>1, <2>2, AirFrame DEF Shapes
  <1>5. CASE \E p \in Plane : PlaneThread(p)
    <2> PICK p \in Plane : PlaneThread(p)
      BY <1>5
    <2>1. inbox' = inbox /\ visit' = visit /\ queue' = [q \in Plane |-> queue'[q]]
      BY PlaneFrame
    <2> QED
      BY <1>0, <1>2, <2>1 DEF Shapes
  <1> QED
    BY <1>3, <1>4, <1>5 DEF Next, Terminated

-----------------------------------------------------------------------------
(* What the invariant says of the threads at a moment of a turn. *)

LEMMA BusyMeans ==
    ASSUME TurnInv, NEW st, Settled(st), NEW p \in Plane, Busy(p)
    PROVE  /\ planesLeft[AirlineOf[p]] # 0 /\ st[AirlineOf[p]] = "counting"
           /\ InTurn /\ stage[AirlineOf[p]] = CallStage
  <1> DEFINE a == AirlineOf[p]
             busy == {q \in Fleet(a) : Busy(q)}
  <1>1. a \in Airline /\ p \in busy
    BY PlaceOf
  <1>2. IsFiniteSet(busy)
    <2>1. busy \in SUBSET Plane /\ IsFiniteSet(Plane)
      BY FleetFinite DEF Fleet
    <2> QED
      BY <2>1, FS_Subset
  <1>3. Cardinality(busy) # 0
    BY <1>1, <1>2, FS_EmptySet
  <1>4. planesLeft[a] # 0
    BY <1>1, <1>3 DEF TurnInv, CountExact
  <1> QED
    BY <1>1, <1>4 DEF Settled, Stationed, Placed

LEMMA AskingIsBusy ==
    ASSUME NEW p \in Plane, NEW type, Asks(p, type)
    PROVE  Busy(p)
  BY DEF Asks, Busy, Unloading, Moving

LEMMA AtRest ==
    ASSUME TurnInv, ~InTurn
    PROVE  /\ mapInbox = <<>>
           /\ \A p \in Plane : ~Busy(p) /\ planePc[p] \in {"step", "unlock2", "exited"}
           /\ \A a \in Airline :
                 /\ planesLeft[a] = 0 /\ airPc[a] \notin {"start", "ready", "forward"}
                 /\ ~Holds(inbox[a], Calls) /\ ~Holds(inbox[a], Answers)
                 /\ airPc[a] = "broadcast" => airMsg[a].type = "End"
  <1> PICK st : Settled(st)
    BY DEF TurnInv
  <1>1. mapInbox = <<>>
    BY DEF Settled, Tallied
  <1>2. ASSUME NEW p \in Plane
        PROVE  ~Busy(p) /\ planePc[p] \in {"step", "unlock2", "exited"}
    <2>1. ~Busy(p)
      BY BusyMeans
    <2>2. planePc[p] \in PlanePc
      BY DEF TurnInv, LockInv, ControlOK
    <2>3. planePc[p] \notin Unloading \cup Moving \cup
             {"report1", "report2", "cont", "awaitContinue", "unlock1"}
      BY DEF Settled, Located, InTurn
    <2> QED
      BY <2>1, <2>2, <2>3 DEF PlanePc, AfterPeek, RequestOf, ReportAt, AfterReport,
                              Unloading, Moving
  <1>3. ASSUME NEW a \in Airline
        PROVE  /\ planesLeft[a] = 0 /\ airPc[a] \notin {"start", "ready", "forward"}
               /\ ~Holds(inbox[a], Calls) /\ ~Holds(inbox[a], Answers)
               /\ airPc[a] = "broadcast" => airMsg[a].type = "End"
    <2>1. st[a] = "reported"
      BY DEF Settled, Stationed, Placed
    <2>2. /\ planesLeft[a] = 0 /\ airPc[a] \notin {"start", "ready"}
          /\ ~Holds(inbox[a], Calls)
      BY <2>1 DEF Settled, Stationed, Placed
    <2>3. airPc[a] = "broadcast" => airMsg[a].type = "End"
      BY <2>2 DEF TurnInv, Main
    <2>4. \A w \in Plane \X (Requests \cup Answers) : ~Asks(w[1], w[2])
      BY <1>2, AskingIsBusy
    <2>5. \A loc, hop, w : w \notin Waiting(loc, hop)
      BY <2>4 DEF Waiting
    <2>6. airPc[a] # "forward" /\ ~Holds(inbox[a], Answers)
      BY <2>5 DEF TurnInv, Underway, Carries, Holds
    <2> QED
      BY <2>2, <2>3, <2>6
  <1> QED
    BY <1>1, <1>2, <1>3

-----------------------------------------------------------------------------
(* What a step of a plane does: by the invariant it pops what it waits for. *)

LEMMA Popped ==
    ASSUME TurnInv, NEW p \in Plane, Dequeue(p)
    PROVE  /\ queue[p] # <<>> /\ queue'[p] = <<>> /\ InMail(p) /\ ~done[p]
           /\ ~(airPc[AirlineOf[p]] = "broadcast" /\ p \in visit[AirlineOf[p]])
  <1>1. /\ queue[p] # <<>> /\ queue' = [queue EXCEPT ![p] = Tail(queue[p])]
        /\ queue = [q \in Plane |-> queue[q]] /\ Mailbox(p)
    BY DEF Dequeue, TurnInv, Shapes
  <1>2. queue[p] = <<InQueue(p)>>
    BY <1>1 DEF Mailbox
  <1>3. Tail(queue[p]) = <<>>
    <2>1. \A m : Tail(<<m>>) = <<>>
      OBVIOUS
    <2> QED
      BY <1>2, <2>1, Zenon
  <1>4. queue'[p] = <<>>
    BY <1>1, <1>3, Zenon
  <1> QED
    BY <1>1, <1>4 DEF Mailbox

LEMMA PeekGoes ==
    ASSUME TurnInv, NEW p \in Plane, PlanePeek(p)
    PROVE  /\ planePc[p] \in DOMAIN AfterPeek /\ planePc'[p] = AfterPeek[planePc[p]]
           /\ UNCHANGED <<mapInbox, queue, planesLeft, done>>
  <1>1. queue[p] # <<>> => InQueue(p).type # "End"
    BY DEF TurnInv, Mailbox, InMail, PlanePeek, AfterPeek
  <1>2. Goto(p, AfterPeek[planePc[p]])
    BY <1>1 DEF PlanePeek
  <1> QED
    BY <1>2 DEF PlanePeek, Goto, TurnInv, LockInv, ControlOK, channels, barrier

LEMMA StepGoes ==
    ASSUME TurnInv, NEW p \in Plane, PlaneStep(p)
    PROVE  /\ planePc[p] = "step" /\ queue[p] # <<>> /\ queue'[p] = <<>>
           /\ \/ /\ InQueue(p).type = "Step" /\ InUnload
                 /\ planePc'[p] \in {"unload", "ready1"} /\ done' = done
              \/ /\ InQueue(p).type = "End" /\ Ended(AirlineOf[p])
                 /\ planePc'[p] = "exited" /\ done'[p]
           /\ UNCHANGED <<mapInbox, planesLeft>>
  <1>1. planePc[p] = "step" /\ Dequeue(p)
    BY DEF PlaneStep
  <1>2. queue[p] # <<>> /\ queue'[p] = <<>> /\ InMail(p)
    BY <1>1, Popped
  <1>3. CASE InQueue(p).type = "Step"
    <2>1. InUnload
      BY <1>2, <1>3 DEF InMail
    <2>2. planePc'[p] \in {"unload", "ready1"} /\ done' = done
      BY <1>3 DEF PlaneStep, Goto, TurnInv, LockInv, ControlOK
    <2> QED
      BY <1>1, <1>2, <1>3, <2>1, <2>2 DEF PlaneStep, barrier
  <1>4. CASE InQueue(p).type # "Step"
    <2>1. InQueue(p).type = "End" /\ Ended(AirlineOf[p])
      BY <1>1, <1>2, <1>4 DEF InMail
    <2>2. planePc'[p] = "exited" /\ done'[p]
      BY <1>4 DEF PlaneStep, Goto, TurnInv, LockInv, ControlOK
    <2> QED
      BY <1>1, <1>2, <2>1, <2>2 DEF PlaneStep, barrier
  <1> QED
    BY <1>3, <1>4

LEMMA RequestGoes ==
    ASSUME TurnInv, NEW p \in Plane, PlaneRequest(p)
    PROVE  /\ planePc[p] \in DOMAIN RequestOf /\ planePc'[p] = AfterRequest[planePc[p]]
           /\ \E m : /\ m.type = RequestOf[planePc[p]] /\ m.plane = p
                     /\ mapInbox' = Append(mapInbox, m)
           /\ UNCHANGED <<queue, planesLeft, done>>
  <1>1. planePc'[p] = AfterRequest[planePc[p]]
    BY DEF PlaneRequest, Goto, TurnInv, LockInv, ControlOK
  <1>2. \E m : /\ m.type = RequestOf[planePc[p]] /\ m.plane = p
               /\ mapInbox' = Append(mapInbox, m)
    <2> DEFINE m == [type |-> RequestOf[planePc[p]], plane |-> p, city |-> cityOf[p],
                     stock |-> stock[p]]
    <2>1. m.type = RequestOf[planePc[p]] /\ m.plane = p
      OBVIOUS
    <2>2. mapInbox' = Append(mapInbox, m)
      BY DEF PlaneRequest, WriteToMap
    <2> QED
      BY <2>1, <2>2
  <1> QED
    BY <1>1, <1>2 DEF PlaneRequest, barrier

LEMMA UnloadedGoes ==
    ASSUME TurnInv, NEW p \in Plane, PlaneUnloaded(p)
    PROVE  /\ planePc[p] = "awaitStock" /\ planePc'[p] = "ready1"
           /\ queue[p] # <<>> /\ InQueue(p).type = "Stock" /\ queue'[p] = <<>>
           /\ UNCHANGED <<mapInbox, planesLeft>>
  <1>1. planePc[p] = "awaitStock" /\ Dequeue(p)
    BY DEF PlaneUnloaded
  <1>2. queue[p] # <<>> /\ queue'[p] = <<>> /\ InMail(p)
    BY <1>1, Popped
  <1>3. InQueue(p).type = "Stock"
    BY <1>1, <1>2 DEF InMail
  <1>4. planePc'[p] = "ready1"
    BY <1>3 DEF PlaneUnloaded, Goto, TurnInv, LockInv, ControlOK
  <1> QED
    BY <1>1, <1>2, <1>3, <1>4 DEF PlaneUnloaded, barrier

LEMMA ContinueGoes ==
    ASSUME TurnInv, NEW p \in Plane, PlaneContinue(p)
    PROVE  /\ planePc[p] = "awaitContinue" /\ planePc'[p] \in {"check", "ready2"}
           /\ queue[p] # <<>> /\ InQueue(p).type = "Continue" /\ queue'[p] = <<>> /\ InMove
           /\ UNCHANGED <<mapInbox, planesLeft, done>>
  <1>1. planePc[p] = "awaitContinue" /\ Dequeue(p)
    BY DEF PlaneContinue
  <1>2. queue[p] # <<>> /\ queue'[p] = <<>> /\ InMail(p)
    BY <1>1, Popped
  <1>3. InQueue(p).type = "Continue" /\ InMove
    BY <1>1, <1>2 DEF InMail
  <1>4. planePc'[p] \in {"check", "ready2"}
    BY <1>3 DEF PlaneContinue, Goto, TurnInv, LockInv, ControlOK
  <1> QED
    BY <1>1, <1>2, <1>3, <1>4 DEF PlaneContinue, barrier

LEMMA DestinationGoes ==
    ASSUME TurnInv, NEW p \in Plane, PlaneDestination(p)
    PROVE  /\ planePc[p] = "awaitDest" /\ planePc'[p] = "ready2"
           /\ queue[p] # <<>> /\ InQueue(p).type = "Destinations" /\ queue'[p] = <<>>
           /\ UNCHANGED <<mapInbox, planesLeft>>
  <1>1. planePc[p] = "awaitDest" /\ Dequeue(p)
    BY DEF PlaneDestination
  <1>2. queue[p] # <<>> /\ queue'[p] = <<>> /\ InMail(p)
    BY <1>1, Popped
  <1>3. InQueue(p).type = "Destinations"
    BY <1>1, <1>2 DEF InMail
  <1>4. planePc'[p] = "ready2"
    BY <1>3 DEF PlaneDestination, Goto, TurnInv, LockInv, ControlOK
  <1> QED
    BY <1>1, <1>2, <1>3, <1>4 DEF PlaneDestination, barrier

LEMMA CountGoes ==
    ASSUME TurnInv, NEW p \in Plane, PlaneCount(p)
    PROVE  /\ planePc[p] \in DOMAIN ReportAt /\ ~locked[AirlineOf[p]] /\ queue[p] = <<>>
           /\ planesLeft'[AirlineOf[p]] = planesLeft[AirlineOf[p]] - 1
           /\ IF planesLeft[AirlineOf[p]] = 1 THEN planePc'[p] = ReportAt[planePc[p]]
                                              ELSE planePc'[p] = AfterReady(p, planePc[p])
           /\ UNCHANGED <<mapInbox, queue, done>>
  <1>1. planePc[p] \in DOMAIN ReportAt /\ ~locked[AirlineOf[p]]
    BY DEF PlaneCount
  <1>2. queue[p] = <<>>
    BY <1>1 DEF TurnInv, Mailbox, InMail, ReportAt
  <1>3. planesLeft'[AirlineOf[p]] = planesLeft[AirlineOf[p]] - 1
    BY PlaceOf DEF PlaneCount, TurnInv, LockInv, ControlOK
  <1>4. IF planesLeft[AirlineOf[p]] = 1 THEN planePc'[p] = ReportAt[planePc[p]]
                                        ELSE planePc'[p] = AfterReady(p, planePc[p])
    <2> HIDE DEF ReportAt, AfterReady
    <2> QED
      BY DEF PlaneCount, Goto, TurnInv, LockInv, ControlOK
  <1> QED
    BY <1>1, <1>2, <1>3, <1>4 DEF PlaneCount, channels

LEMMA ReportGoes ==
    ASSUME TurnInv, NEW p \in Plane, PlaneReport(p)
    PROVE  /\ planePc[p] \in DOMAIN AfterReport /\ planePc'[p] = AfterReport[planePc[p]]
           /\ mapInbox' = Append(mapInbox, Report(AirlineOf[p]))
           /\ UNCHANGED <<queue, planesLeft, done>>
  <1>1. planePc'[p] = AfterReport[planePc[p]]
    BY DEF PlaneReport, Goto, TurnInv, LockInv, ControlOK
  <1> QED
    BY <1>1 DEF PlaneReport, WriteToMap, barrier

LEMMA UnlockGoes ==
    ASSUME TurnInv, NEW p \in Plane, PlaneUnlock(p)
    PROVE  /\ planePc[p] \in {"unlock1", "unlock2"}
           /\ planePc'[p] = AfterReady(p, planePc[p])
           /\ UNCHANGED <<mapInbox, queue, planesLeft, done>>
  <1>1. planePc'[p] = AfterReady(p, planePc[p])
    BY DEF PlaneUnlock, Goto, TurnInv, LockInv, ControlOK
  <1> QED
    BY <1>1 DEF PlaneUnlock, channels

-----------------------------------------------------------------------------
(* What a step of an airline's main thread does. *)

LEMMA AirReads ==
    ASSUME TurnInv, NEW a \in Airline, AirRead(a)
    PROVE  /\ airPc[a] = "listen" /\ inbox[a] # <<>> /\ inbox'[a] = Tail(inbox[a])
           /\ airMsg'[a] = Head(inbox[a]) /\ IsSeq(inbox[a])
           /\ Head(inbox[a]).type \in Calls \cup Answers \cup {"End"}
           /\ Head(inbox[a]).type \in Calls =>
                 Head(inbox[a]).type = Call /\ InTurn /\ Holds(inbox[a], Calls)
           /\ Head(inbox[a]).type = "End" => EndSent(a) /\ inbox'[a] = <<>>
  <1> DEFINE s == inbox[a]
  <1>1. /\ airPc[a] = "listen" /\ s # <<>>
        /\ inbox' = [inbox EXCEPT ![a] = Tail(inbox[a])]
        /\ airMsg' = [airMsg EXCEPT ![a] = Head(inbox[a])]
        /\ inbox = [b \in Airline |-> inbox[b]] /\ airMsg = [b \in Airline |-> airMsg[b]]
        /\ IsSeq(s) /\ Main(a)
    BY DEF AirRead, InHand, TurnInv, Shapes, LockInv, Hands
  <1>2. inbox'[a] = Tail(s) /\ airMsg'[a] = Head(s)
    BY <1>1, Zenon
  <1>3. /\ Head(s).type \in Calls \cup Answers \cup {"End"}
        /\ Head(s).type \in Calls \ {Call} => Holds(s, Calls \ {Call})
        /\ Head(s).type \in Calls => Holds(s, Calls)
        /\ Head(s).type \in {"End"} => Holds(s, {"End"})
    BY <1>1, ReadHolds DEF Main
  <1>4. Head(s).type \in Calls => Head(s).type = Call
    BY <1>1, <1>3 DEF Main
  <1>5. Holds(s, Calls) => InTurn
    BY AtRest
  <1>6. ASSUME Head(s).type = "End"
        PROVE  EndSent(a) /\ inbox'[a] = <<>>
    <2>1. EndSent(a) /\ Len(s) = 1
      BY <1>1, <1>3, <1>6 DEF Main
    <2>2. IsSeq(Tail(s)) /\ Len(Tail(s)) = 0
      BY <1>1, <2>1, Read
    <2>3. Tail(s) = <<>>
      BY <2>2, EmptySeq DEF IsSeq
    <2> QED
      BY <1>2, <2>1, <2>3
  <1> QED
    BY <1>1, <1>2, <1>3, <1>4, <1>5, <1>6

LEMMA CallRead ==
    ASSUME TurnInv, NEW a \in Airline, AirReadPhase(a)
    PROVE  /\ airPc[a] = "listen" /\ airPc'[a] = "start"
           /\ inbox[a] # <<>> /\ inbox'[a] = Tail(inbox[a]) /\ IsSeq(inbox[a])
           /\ Head(inbox[a]).type = Call /\ airMsg'[a].type = Call /\ InTurn
           /\ Holds(inbox[a], Calls) /\ ~Holds(inbox'[a], Calls)
           /\ stage'[a] = CallStage
           /\ UNCHANGED <<mapInbox, queue, visit, planesLeft>>
  <1>1. AirRead(a) /\ InHand(a).type \in Calls
    BY DEF AirReadPhase, StageOf, Calls
  <1>2. Head(inbox[a]).type = Call /\ InTurn /\ airMsg'[a].type = Call
        /\ inbox[a] # <<>> /\ inbox'[a] = Tail(inbox[a])
        /\ Holds(inbox[a], Calls) /\ IsSeq(inbox[a])
    BY <1>1, AirReads DEF InHand
  <1>3. ~Holds(inbox'[a], Calls)
    <2>1. Single(inbox[a], Calls)
      BY DEF TurnInv, Main
    <2> QED
      BY <1>1, <1>2, <2>1, ReadHolds DEF InHand
  <1>4. stage'[a] = CallStage
    BY <1>2 DEF AirReadPhase, InHand, StageOf, Call, CallStage, TurnInv, LockInv, ControlOK
  <1>5. airPc'[a] = "start"
    BY DEF AirReadPhase, TurnInv, LockInv, ControlOK
  <1> QED
    BY <1>1, <1>2, <1>3, <1>4, <1>5 DEF AirReadPhase, AirRead, barrier

LEMMA ReplyRead ==
    ASSUME TurnInv, NEW a \in Airline, AirReadReply(a)
    PROVE  /\ airPc[a] = "listen" /\ airPc'[a] = "forward"
           /\ inbox[a] # <<>> /\ inbox'[a] = Tail(inbox[a]) /\ IsSeq(inbox[a])
           /\ airMsg'[a] = Head(inbox[a]) /\ Head(inbox[a]).type \in Answers
           /\ UNCHANGED <<mapInbox, queue, visit, planesLeft, stage>>
  <1>1. AirRead(a) /\ InHand(a).type \in Answers
    BY DEF AirReadReply, Answers
  <1>2. airPc'[a] = "forward"
    BY DEF AirReadReply, TurnInv, LockInv, ControlOK
  <1> QED
    BY <1>1, <1>2, AirReads DEF AirReadReply, InHand, barrier

LEMMA EndRead ==
    ASSUME TurnInv, NEW a \in Airline, AirReadEnd(a)
    PROVE  /\ airPc[a] = "listen" /\ airPc'[a] = "broadcast"
           /\ airMsg'[a].type = "End" /\ EndSent(a) /\ ~InTurn
           /\ inbox[a] # <<>> /\ inbox'[a] = Tail(inbox[a]) /\ inbox'[a] = <<>>
           /\ visit'[a] = Fleet(a)
           /\ UNCHANGED <<mapInbox, queue, planesLeft, stage>>
  <1>1. AirRead(a) /\ InHand(a).type \notin Calls \cup Answers
    BY DEF AirReadEnd, StageOf, Calls, Answers
  <1>2. InHand(a).type = "End"
    BY <1>1, AirReads DEF InHand
  <1>3. EndSent(a) /\ ~InTurn
    BY <1>1, <1>2, AirReads DEF InHand, EndSent, IsOver, InTurn, InUnload, InMove
  <1>4. airPc'[a] = "broadcast" /\ visit'[a] = Fleet(a)
    BY DEF AirReadEnd, TurnInv, LockInv, ControlOK
  <1> QED
    BY <1>1, <1>2, <1>3, <1>4, AirReads DEF AirReadEnd, InHand, barrier

LEMMA Enqueued ==
    ASSUME TurnInv, NEW p \in Plane, NEW m, Enqueue(p, m), queue[p] = <<>>
    PROVE  /\ queue'[p] = <<m>> /\ InQueue(p)' = m /\ queue'[p] # <<>>
           /\ \A q \in Plane \ {p} : queue'[q] = queue[q]
  <1>1. /\ queue' = [queue EXCEPT ![p] = Append(queue[p], m)]
        /\ queue = [q \in Plane |-> queue[q]]
    BY DEF Enqueue, TurnInv, Shapes
  <1>2. Append(<<>>, m) = <<m>> /\ Head(<<m>>) = m /\ <<m>> # <<>>
    OBVIOUS
  <1>3. queue'[p] = <<m>> /\ \A q \in Plane \ {p} : queue'[q] = queue[q]
    BY <1>1, <1>2, Zenon
  <1> QED
    BY <1>2, <1>3 DEF InQueue

LEMMA ForwardGoes ==
    ASSUME TurnInv, NEW a \in Airline, AirForward(a)
    PROVE  /\ airPc[a] = "forward" /\ airPc'[a] = "listen"
           /\ \E p \in Fleet(a) :
                 /\ p \in Plane /\ p = airMsg[a].plane /\ Asks(p, airMsg[a].type)
                 /\ queue[p] = <<>> /\ queue'[p] = <<InQueue(p)'>> /\ queue'[p] # <<>>
                 /\ \/ planePc[p] = "awaitStock" /\ InQueue(p)'.type = "Stock"
                    \/ planePc[p] = "awaitDest" /\ InQueue(p)'.type = "Destinations"
                 /\ \A q \in Plane \ {p} : queue'[q] = queue[q]
           /\ UNCHANGED <<mapInbox, inbox, airMsg, visit, planesLeft, stage>>
  <1> PICK loc : Underway(loc)
    BY DEF TurnInv
  <1>1. airPc[a] = "forward" /\ airPc'[a] = "listen"
    BY DEF AirForward, TurnInv, LockInv, ControlOK
  <1>2. PICK p \in Fleet(a) : p = airMsg[a].plane
    BY <1>1 DEF Underway
  <1>3. /\ airMsg[a].type \in Answers /\ p \in Plane
        /\ Asks(p, airMsg[a].type) /\ loc[p] = "hand"
    BY <1>1, <1>2 DEF Underway, Waiting, Fleet
  <1>4. PICK m : m = Redirected(airMsg[a])
    OBVIOUS
  <1>5. \/ planePc[p] = "awaitStock" /\ m.type = "Stock"
        \/ planePc[p] = "awaitDest" /\ m.type = "Destinations"
    BY <1>3, <1>4 DEF Asks, Answers, Redirected
  <1>6. queue[p] = <<>>
    <2>1. SUFFICES ASSUME queue[p] # <<>> PROVE FALSE
      OBVIOUS
    <2>2. InMail(p) /\ loc[p] # "mail"
      BY <1>3, <2>1 DEF TurnInv, Mailbox
    <2>3. InQueue(p).type \in {"Stock", "Destinations"}
      BY <1>5, <2>2 DEF InMail
    <2> QED
      BY <1>3, <2>1, <2>2, <2>3 DEF Underway
  <1>7. Enqueue(p, m)
    BY <1>2, <1>4 DEF AirForward
  <1>8. /\ queue'[p] # <<>> /\ InQueue(p)' = m /\ queue'[p] = <<m>>
        /\ \A q \in Plane \ {p} : queue'[q] = queue[q]
    BY <1>3, <1>6, <1>7, Enqueued
  <1>9. UNCHANGED <<mapInbox, inbox, airMsg, visit, planesLeft, stage>>
    BY DEF AirForward, barrier
  <1> QED
    BY <1>1, <1>2, <1>3, <1>5, <1>6, <1>8, <1>9

LEMMA StartGoes ==
    ASSUME TurnInv, NEW a \in Airline, AirStart(a)
    PROVE  /\ airPc[a] = "start" /\ InTurn /\ stage[a] = CallStage /\ airMsg[a].type = Call
           /\ planesLeft[a] = 0 /\ planesLeft'[a] = Cardinality(InGame(a))
           /\ visit'[a] = Fleet(a)
           /\ InGame(a) = {} => planesLeft'[a] = 0 /\ airPc'[a] = "ready"
           /\ InGame(a) # {} => planesLeft'[a] # 0 /\ airPc'[a] = "broadcast"
           /\ \A p \in Fleet(a) : /\ ~Busy(p) /\ queue[p] = <<>> /\ ~PlaneHolds(p)
                                  /\ Called(p) \/ done[p]
           /\ UNCHANGED <<mapInbox, inbox, queue, airMsg, stage>>
  <1> PICK st : Settled(st)
    BY DEF TurnInv
  <1>1. airPc[a] = "start" /\ ~locked[a]
    BY DEF AirStart
  <1>2. st[a] = "start" /\ planesLeft[a] = 0 /\ InTurn /\ stage[a] = CallStage
    BY <1>1 DEF Settled, Stationed, Placed
  <1>3. airMsg[a].type = Call
    BY <1>1 DEF TurnInv, Main
  <1>4. /\ planesLeft'[a] = Cardinality(InGame(a)) /\ visit'[a] = Fleet(a)
        /\ airPc'[a] = IF InGame(a) = {} THEN "ready" ELSE "broadcast"
    <2>1. planesLeft \in [Airline -> Int] /\ visit \in [Airline -> SUBSET Plane]
          /\ airPc \in [Airline -> AirPc]
      BY DEF TurnInv, LockInv, ControlOK
    <2> QED
      BY <2>1 DEF AirStart
  <1>5. Cardinality(InGame(a)) = 0 <=> InGame(a) = {}
    BY FleetFinite, FS_EmptySet
  <1>6. ASSUME NEW p \in Fleet(a)
        PROVE  /\ ~Busy(p) /\ queue[p] = <<>> /\ ~PlaneHolds(p)
               /\ Called(p) \/ done[p]
    <2>1. p \in Plane /\ AirlineOf[p] = a
      BY DEF Fleet
    <2>2. ~Busy(p)
      BY <1>2, <2>1, BusyMeans
    <2>3. ~PlaneHolds(p)
      BY <1>1 DEF TurnInv, LockInv, LockOwned
    <2>4. queue[p] = <<>>
      <3>1. SUFFICES ASSUME InMail(p), queue[p] # <<>> PROVE FALSE
        BY <2>1 DEF TurnInv, Mailbox
      <3>2. ~Told(p) /\ planePc[p] \notin Unloading \cup Moving
        BY <2>2 DEF Busy
      <3>3. InQueue(p).type \notin {"Step", "Continue"}
        BY <3>1, <3>2 DEF Told, StageOf
      <3>4. ~Ended(a)
        BY <1>1 DEF Ended
      <3> QED
        BY <2>1, <3>1, <3>2, <3>3, <3>4 DEF InMail, Unloading, Moving
    <2>5. Called(p) \/ done[p]
      <3>1. SUFFICES ASSUME ~done[p] PROVE Called(p)
        OBVIOUS
      <3>2. planePc[p] \in PlanePc /\ planePc[p] \notin Unloading \cup Moving
        BY <2>1, <2>2 DEF TurnInv, LockInv, ControlOK, Busy
      <3>3. planePc[p] \notin {"report1", "report2", "unlock1", "unlock2"}
        BY <2>3 DEF PlaneHolds, AfterReport
      <3>4. planePc[p] # "exited"
        BY <2>1, <3>1 DEF TurnInv, Mailbox
      <3>5. planePc[p] \in {"step", "cont", "awaitContinue"}
        BY <3>2, <3>3, <3>4 DEF PlanePc, AfterPeek, RequestOf, ReportAt, AfterReport,
                                Unloading, Moving
      <3>6. st[a] \in Fresh
        BY <1>2 DEF Fresh
      <3>7. IF InUnload THEN planePc[p] = "step" ELSE planePc[p] \in {"cont", "awaitContinue"}
        <4>1. Located(st, p)
          BY <2>1 DEF Settled
        <4>2. ~(InUnload /\ InMove)
          BY DEF InUnload, InMove
        <4> QED
          BY <1>2, <2>1, <3>5, <3>6, <4>1, <4>2 DEF Located, InTurn
      <3> QED
        BY <1>3, <2>1, <3>7 DEF Called, Call
    <2> QED
      BY <2>2, <2>3, <2>4, <2>5
  <1> QED
    BY <1>1, <1>2, <1>3, <1>4, <1>5, <1>6 DEF AirStart, channels

LEMMA BroadcastGoes ==
    ASSUME TurnInv, NEW a \in Airline, AirBroadcast(a)
    PROVE  /\ airPc[a] = "broadcast"
           /\ \E p \in Fleet(a) :
                 /\ p \in Plane /\ p \in visit[a] /\ visit'[a] = visit[a] \ {p}
                 /\ queue[p] = <<>>
                 /\ \/ done[p] /\ queue'[p] = <<>>
                    \/ /\ ~done[p] /\ Called(p)
                       /\ queue'[p] # <<>> /\ queue'[p] = <<InQueue(p)'>>
                       /\ InQueue(p)'.type = airMsg[a].type
                 /\ \A q \in Plane \ {p} : queue'[q] = queue[q]
           /\ UNCHANGED <<mapInbox, inbox, airPc, airMsg, planesLeft, stage>>
  <1>1. airPc[a] = "broadcast" /\ visit[a] # {}
    BY DEF AirBroadcast
  <1>2. PICK p \in Fleet(a) : p = Min(visit[a]) /\ p \in visit[a]
    BY <1>1, NextCalled
  <1>3. p \in Plane /\ AirlineOf[p] = a
    BY DEF Fleet
  <1>4. queue[p] = <<>> /\ (Called(p) \/ done[p])
    BY <1>1, <1>2, <1>3 DEF TurnInv, Mailbox
  <1>5. visit'[a] = visit[a] \ {p}
    BY <1>2 DEF AirBroadcast, TurnInv, LockInv, ControlOK
  <1>6. CASE done[p]
    <2>1. queue' = queue
      BY <1>2, <1>6 DEF AirBroadcast
    <2> QED
      BY <1>1, <1>2, <1>3, <1>4, <1>5, <1>6, <2>1 DEF AirBroadcast, barrier
  <1>7. CASE ~done[p]
    <2>1. PICK m : m = Plain(airMsg[a].type)
      OBVIOUS
    <2>2. Enqueue(p, m) /\ m.type = airMsg[a].type
      BY <1>2, <1>7, <2>1 DEF AirBroadcast, Plain
    <2>3. /\ queue'[p] # <<>> /\ InQueue(p)' = m /\ queue'[p] = <<m>>
          /\ \A q \in Plane \ {p} : queue'[q] = queue[q]
      BY <1>3, <1>4, <2>2, Enqueued
    <2>4. UNCHANGED <<mapInbox, inbox, airPc, airMsg, planesLeft, stage>>
      BY DEF AirBroadcast, barrier
    <2> QED
      BY <1>1, <1>2, <1>3, <1>4, <1>5, <1>7, <2>2, <2>3, <2>4
  <1> QED
    BY <1>6, <1>7

LEMMA BroadcastEnds ==
    ASSUME TurnInv, NEW a \in Airline, AirBroadcastDone(a)
    PROVE  /\ airPc[a] = "broadcast" /\ visit[a] = {}
           /\ IF airMsg[a].type = "End" THEN airPc'[a] = "join" ELSE airPc'[a] = "listen"
           /\ UNCHANGED <<mapInbox, inbox, queue, airMsg, visit, planesLeft, stage>>
  <1>1. airPc[a] = "broadcast" /\ visit[a] = {}
    BY DEF AirBroadcastDone
  <1>2. airMsg[a].type = "End" <=> airMsg[a].type \notin DOMAIN StageOf
    BY <1>1 DEF TurnInv, Main, Call, StageOf
  <1>3. IF airMsg[a].type = "End" THEN airPc'[a] = "join" ELSE airPc'[a] = "listen"
    BY <1>2 DEF AirBroadcastDone, TurnInv, LockInv, ControlOK
  <1> QED
    BY <1>1, <1>3 DEF AirBroadcastDone, channels

LEMMA ReadyGoes ==
    ASSUME TurnInv, NEW a \in Airline, AirReady(a)
    PROVE  /\ airPc[a] = "ready" /\ airPc'[a] = "unlock"
           /\ mapInbox' = Append(mapInbox, Report(a))
           /\ UNCHANGED <<inbox, queue, airMsg, visit, planesLeft, stage>>
  BY DEF AirReady, WriteToMap, barrier, TurnInv, LockInv, ControlOK

LEMMA AirUnlockGoes ==
    ASSUME TurnInv, NEW a \in Airline, AirUnlock(a)
    PROVE  /\ airPc[a] = "unlock" /\ airPc'[a] = "listen"
           /\ UNCHANGED <<mapInbox, inbox, queue, airMsg, visit, planesLeft, stage>>
  BY DEF AirUnlock, channels, TurnInv, LockInv, ControlOK

LEMMA JoinGoes ==
    ASSUME TurnInv, NEW a \in Airline, AirJoin(a)
    PROVE  /\ airPc[a] = "join" /\ airPc'[a] = "exited"
           /\ \A p \in Fleet(a) : planePc[p] = "exited"
           /\ UNCHANGED <<mapInbox, inbox, queue, airMsg, visit, planesLeft, stage>>
  BY DEF AirJoin, channels, barrier, TurnInv, LockInv, ControlOK

-----------------------------------------------------------------------------
(* planesLeftInStage counts the planes that will still report.                  *)

BusyOf(a) == {p \in Fleet(a) : Busy(p)}

LEMMA BusyUnmoved ==
    ASSUME CountExact, NEW a \in Airline, planesLeft'[a] = planesLeft[a],
           \A p \in Fleet(a) : Busy(p)' <=> Busy(p)
    PROVE  planesLeft'[a] = Cardinality(BusyOf(a)')
  <1>1. BusyOf(a)' = BusyOf(a)
    BY DEF BusyOf
  <1> QED
    BY <1>1 DEF CountExact, BusyOf

LEMMA AirCounts ==
    ASSUME TurnInv, NEW a \in Airline, AirlineMain(a)
    PROVE  CountExact'
  <1> SUFFICES ASSUME NEW b \in Airline PROVE planesLeft'[b] = Cardinality(BusyOf(b)')
    BY DEF CountExact, BusyOf
  <1>0. CountExact /\ \A p \in Fleet(b) : p \in Plane /\ AirlineOf[p] = b
    BY DEF TurnInv, Fleet
  <1>1. CASE b # a
    <2>1. \A p \in Fleet(b) : Busy(p)' <=> Busy(p)
      BY <1>0, <1>1, AirFrame DEF Busy, Told, ToBeTold, InQueue, Fleet
    <2>2. planesLeft'[b] = planesLeft[b]
      BY <1>1, AirFrame
    <2> QED
      BY <1>0, <2>1, <2>2, BusyUnmoved
  <1>2. CASE b = a /\ AirStart(a)
    <2>1. ASSUME NEW p \in Fleet(a) PROVE Busy(p)' <=> ~done[p]
      <3>1. /\ queue' = queue /\ planePc' = planePc /\ done' = done /\ airMsg' = airMsg
            /\ ~Told(p) /\ planePc[p] \notin Unloading \cup Moving
            /\ p \in visit'[a] /\ AirlineOf[p] = a /\ airMsg[a].type \in DOMAIN StageOf
        BY <1>0, <1>2, StartGoes, AirFrame DEF Busy, Call, StageOf
      <3>2. Busy(p)' <=> airPc'[a] = "broadcast" /\ ~done[p]
        BY <3>1 DEF Busy, Told, ToBeTold, InQueue
      <3>3. ~done[p] => airPc'[a] = "broadcast"
        BY <1>2, StartGoes DEF InGame
      <3> QED
        BY <3>2, <3>3
    <2>2. BusyOf(a)' = InGame(a)
      BY <2>1 DEF BusyOf, InGame
    <2> QED
      BY <1>2, <2>2, StartGoes
  <1>3. CASE b = a /\ ~AirStart(a)
    <2>1. planesLeft'[a] = planesLeft[a] /\ \A p \in Fleet(a) : Busy(p)' <=> Busy(p)
      <3>0. /\ planePc' = planePc /\ done' = done
            /\ \A p \in Fleet(a) : p \in Plane /\ AirlineOf[p] = a
        BY <1>0, <1>3, AirFrame
      <3>1. CASE AirReadPhase(a) \/ AirReadReply(a)
        <4>1. /\ queue' = queue /\ airPc[a] # "broadcast" /\ airPc'[a] # "broadcast"
              /\ planesLeft'[a] = planesLeft[a]
          BY <3>1, CallRead, ReplyRead
        <4> QED
          BY <3>0, <4>1 DEF Busy, Told, ToBeTold, InQueue
      <3>2. CASE AirReadEnd(a)
        <4>1. /\ queue' = queue /\ airPc[a] # "broadcast"
              /\ airMsg'[a].type \notin DOMAIN StageOf
              /\ planesLeft'[a] = planesLeft[a]
          BY <3>2, EndRead DEF StageOf
        <4> QED
          BY <3>0, <4>1 DEF Busy, Told, ToBeTold, InQueue
      <3>3. CASE AirForward(a)
        <4>1. /\ airPc[a] # "broadcast" /\ airPc'[a] # "broadcast"
              /\ planesLeft'[a] = planesLeft[a]
          BY <3>3, ForwardGoes
        <4>2. \A p \in Fleet(a) :
                 queue'[p] = queue[p] \/ planePc[p] \in Unloading \cup Moving
          BY <3>0, <3>3, ForwardGoes DEF Unloading, Moving
        <4> QED
          BY <3>0, <4>1, <4>2 DEF Busy, Told, ToBeTold, InQueue
      <3>4. CASE AirBroadcast(a)
        <4>1. PICK q \in Fleet(a) :
                 /\ q \in Plane /\ q \in visit[a] /\ visit'[a] = visit[a] \ {q}
                 /\ queue[q] = <<>>
                 /\ \/ done[q] /\ queue'[q] = <<>>
                    \/ ~done[q] /\ queue'[q] # <<>> /\ InQueue(q)'.type = airMsg[a].type
                 /\ \A p \in Plane \ {q} : queue'[p] = queue[p]
          BY <3>4, BroadcastGoes
        <4>2. /\ airPc[a] = "broadcast" /\ airPc' = airPc /\ airMsg' = airMsg
              /\ planesLeft'[a] = planesLeft[a]
          BY <3>4, BroadcastGoes
        <4>3. Told(q)' \/ ToBeTold(q)' <=> Told(q) \/ ToBeTold(q)
          BY <3>0, <4>1, <4>2 DEF Told, ToBeTold
        <4>4. \A p \in Fleet(a) \ {q} : /\ Told(p)' <=> Told(p)
                                        /\ ToBeTold(p)' <=> ToBeTold(p)
          BY <3>0, <4>1, <4>2 DEF Told, ToBeTold, InQueue
        <4> QED
          BY <3>0, <4>2, <4>3, <4>4 DEF Busy
      <3>5. CASE AirBroadcastDone(a)
        <4>1. /\ queue' = queue /\ visit[a] = {} /\ airPc'[a] # "broadcast"
              /\ planesLeft'[a] = planesLeft[a]
          BY <3>5, BroadcastEnds
        <4> QED
          BY <3>0, <4>1 DEF Busy, Told, ToBeTold, InQueue
      <3>6. CASE AirReady(a) \/ AirUnlock(a) \/ AirJoin(a)
        <4>1. /\ queue' = queue /\ airPc[a] # "broadcast" /\ airPc'[a] # "broadcast"
              /\ planesLeft'[a] = planesLeft[a]
          BY <3>6, ReadyGoes, AirUnlockGoes, JoinGoes
        <4> QED
          BY <3>0, <4>1 DEF Busy, Told, ToBeTold, InQueue
      <3> QED
        BY <1>3, <3>1, <3>2, <3>3, <3>4, <3>5, <3>6 DEF AirlineMain
    <2> QED
      BY <1>0, <1>3, <2>1, BusyUnmoved
  <1> QED
    BY <1>1, <1>2, <1>3

LEMMA PlaneCounts ==
    ASSUME TurnInv, NEW p \in Plane, PlaneThread(p)
    PROVE  CountExact'
  <1> DEFINE a == AirlineOf[p]
  <1> SUFFICES ASSUME NEW b \in Airline PROVE planesLeft'[b] = Cardinality(BusyOf(b)')
    BY DEF CountExact, BusyOf
  <1>0. CountExact /\ \A q \in Fleet(b) : q \in Plane /\ AirlineOf[q] = b
    BY DEF TurnInv, Fleet
  <1>1. \A q \in Plane \ {p} : Busy(q)' <=> Busy(q)
    BY PlaneFrame DEF Busy, Told, ToBeTold, InQueue
  <1>2. CASE b = a /\ PlaneCount(p)
    <2>1. Busy(p)
      BY <1>2, CountGoes DEF Busy, Unloading, Moving, ReportAt
    <2>2. ~Busy(p)'
      <3>1. ~Told(p)'
        BY <1>2, CountGoes DEF Told
      <3>2. ~ToBeTold(p)'
        <4>1. ~AirHolds(a)
          BY <1>2, CountGoes, PlaceOf DEF TurnInv, LockInv, LockOwned
        <4>2. UNCHANGED <<airPc, airMsg>>
          BY PlaneFrame
        <4> QED
          BY <4>1, <4>2 DEF AirHolds, ToBeTold
      <3>3. planePc'[p] \in {"report1", "report2", "exited", "cont", "step"}
        BY <1>2, CountGoes DEF ReportAt, AfterReady
      <3> QED
        BY <3>1, <3>2, <3>3 DEF Busy, Unloading, Moving
    <2>3. BusyOf(b)' = BusyOf(b) \ {p} /\ p \in BusyOf(b)
      BY <1>1, <1>2, <2>1, <2>2, PlaceOf, <1>0 DEF BusyOf
    <2>4. IsFiniteSet(BusyOf(b))
      <3>1. BusyOf(b) \in SUBSET Plane /\ IsFiniteSet(Plane)
        BY FleetFinite, <1>0 DEF BusyOf
      <3> QED
        BY <3>1, FS_Subset
    <2>5. Cardinality(BusyOf(b)') = Cardinality(BusyOf(b)) - 1
      BY <2>3, <2>4, OneLess
    <2> QED
      BY <1>0, <1>2, <2>5, CountGoes DEF CountExact, BusyOf
  <1>3. CASE b # a
    <2>1. planesLeft'[b] = planesLeft[b]
      BY <1>3, PlaneFrame
    <2>2. \A q \in Fleet(b) : q # p
      BY <1>0, <1>3
    <2> QED
      BY <1>0, <1>1, <2>1, <2>2, BusyUnmoved
  <1>4. CASE b = a /\ ~PlaneCount(p)
    <2>1. planesLeft'[b] = planesLeft[b] /\ (Busy(p)' <=> Busy(p))
      <3> USE DEF Busy, Told, ToBeTold, InQueue, Unloading, Moving
      <3>0. UNCHANGED <<airPc, airMsg, visit>>
        BY PlaneFrame
      <3>1. CASE PlanePeek(p)
        BY <3>0, <3>1, PeekGoes DEF AfterPeek
      <3>2. CASE PlaneStep(p)
        <4>1. /\ planePc[p] = "step" /\ queue[p] # <<>> /\ queue'[p] = <<>>
              /\ planesLeft' = planesLeft
          BY <3>2, StepGoes
        <4>2. ~ToBeTold(p)
          BY <4>1 DEF TurnInv, Mailbox
        <4>3. CASE InQueue(p).type = "Step"
          <5>1. planePc'[p] \in {"unload", "ready1"}
            BY <3>2, <4>3, StepGoes
          <5> QED
            BY <4>1, <4>3, <5>1 DEF StageOf
        <4>4. CASE InQueue(p).type # "Step"
          <5>1. planePc'[p] = "exited" /\ done'[p] /\ InQueue(p).type = "End"
            BY <3>2, <4>4, StepGoes
          <5> QED
            BY <4>1, <4>2, <5>1 DEF StageOf
        <4> QED
          BY <4>3, <4>4
      <3>3. CASE PlaneRequest(p)
        BY <3>0, <3>3, RequestGoes DEF RequestOf, AfterRequest
      <3>4. CASE PlaneUnloaded(p) \/ PlaneDestination(p)
        BY <3>4, UnloadedGoes, DestinationGoes
      <3>5. CASE PlaneContinue(p)
        BY <3>5, ContinueGoes DEF StageOf
      <3>6. CASE PlaneReport(p)
        BY <3>0, <3>6, ReportGoes DEF AfterReport
      <3>7. CASE PlaneUnlock(p)
        BY <3>0, <3>7, UnlockGoes DEF AfterReady
      <3> QED
        BY <1>4, <3>1, <3>2, <3>3, <3>4, <3>5, <3>6, <3>7 DEF PlaneThread
    <2>2. \A q \in Fleet(b) : Busy(q)' <=> Busy(q)
      BY <1>0, <1>1, <2>1
    <2> QED
      BY <1>0, <2>1, <2>2, BusyUnmoved
  <1> QED
    BY <1>2, <1>3, <1>4

LEMMA CountKept == TurnInv /\ [Next]_vars => CountExact'
  <1> SUFFICES ASSUME TurnInv, [Next]_vars PROVE CountExact'
    OBVIOUS
  <1>1. CASE Map \/ Signal \/ UNCHANGED vars
    BY <1>1, MapFrame DEF TurnInv, CountExact, Busy, Told, ToBeTold, InQueue
  <1>2. CASE \E a \in Airline : AirlineMain(a)
    BY <1>2, AirCounts
  <1>3. CASE \E p \in Plane : PlaneThread(p)
    BY <1>3, PlaneCounts
  <1> QED
    BY <1>1, <1>2, <1>3 DEF Next, Terminated

-----------------------------------------------------------------------------
(* How a phase ends. *)

LEMMA OwingFinite ==
    ASSUME NEW st
    PROVE  /\ IsFiniteSet(Airline) /\ Cardinality(Airline) = NumAirlines
           /\ IsFiniteSet(Among(st, Airline, Owing))
           /\ Cardinality(Among(st, Airline, Owing)) \in Nat
           /\ Cardinality(Among(st, Airline, Owing)) = 0 => Among(st, Airline, Owing) = {}
  <1>1. IsFiniteSet(Airline) /\ Cardinality(Airline) = NumAirlines
    BY SizeAssumption, FS_Interval DEF Airline
  <1> QED
    BY <1>1, AmongFinite, FS_EmptySet

LEMMA TallyIsNat ==
    ASSUME NEW s, IsSeq(s), NEW kind
    PROVE  HowMany(s, kind) \in Nat
  BY PositionsFinite DEF IsSeq

LEMMA ReturnsAreReports ==
    ASSUME TurnInv, NEW st, Reported(st), NEW k \in 1 .. Len(mapInbox)
    PROVE  mapInbox[k].type \in Returns <=> mapInbox[k] \in Reports
  <1>1. mapInbox[k].type = "AirlineDone" => mapInbox[k] \in Reports
    BY DEF Reported, Reports
  <1>2. mapInbox[k].type = "AirlineStatus" => mapInbox[k] \in Reports
    BY DEF Reported
  <1>3. \A m \in Reports : m.type \in Returns
    BY DEF Reports, Returns, Plain
  <1> QED
    BY <1>1, <1>2, <1>3 DEF Returns

LEMMA CountTakesAReport ==
    ASSUME TurnInv, NEW st, Settled(st), MapCount
    PROVE  /\ mapPc \in {"phase1", "phase2"} /\ InTurn /\ Heard = i
           /\ mapInbox # <<>> /\ mapInbox' = Tail(mapInbox) /\ IsSeq(Tail(mapInbox))
           /\ HowMany(mapInbox, Reports) = HowMany(Tail(mapInbox), Reports) + 1
           /\ HowMany(Tail(mapInbox), Reports) \in Nat
  <1>1. /\ mapPc \in {"phase1", "phase2"} /\ mapInbox # <<>>
        /\ Head(mapInbox).type \in Returns /\ mapInbox' = Tail(mapInbox)
    BY DEF MapCount, Counted, Returns
  <1>2. IsSeq(mapInbox) /\ mapInbox \in Seq({mapInbox[k] : k \in 1 .. Len(mapInbox)})
    BY DEF TurnInv, Shapes, IsSeq
  <1>3. Head(mapInbox) \in Reports
    <2>1. 1 \in 1 .. Len(mapInbox) /\ mapInbox[1] = Head(mapInbox)
      BY <1>1, <1>2, Read
    <2>2. Reported(st)
      BY DEF Settled
    <2> QED
      BY <1>1, <2>1, <2>2, ReturnsAreReports
  <1>4. HowMany(mapInbox, Reports) = HowMany(Tail(mapInbox), Reports) + 1
    <2>1. HowMany(mapInbox, Reports)
             = HowMany(Tail(mapInbox), Reports) + (IF Head(mapInbox) \in Reports THEN 1 ELSE 0)
      BY <1>1, <1>2, OneRead
    <2> HIDE DEF Reports
    <2> QED
      BY <1>3, <2>1
  <1>5. IsSeq(Tail(mapInbox))
    BY <1>1, <1>2, Read
  <1> QED
    BY <1>1, <1>4, <1>5, TallyIsNat DEF InTurn, InUnload, InMove, Heard

LEMMA LastCount ==
    ASSUME TurnInv, NEW st, Settled(st), MapCount, i + 1 = NumAirlines
    PROVE  mapInbox' = <<>> /\ \A a \in Airline : st[a] = "reported"
  <1> DEFINE t == Tail(mapInbox)
  <1>1. /\ InTurn /\ Heard = i /\ mapInbox' = t /\ IsSeq(t)
        /\ HowMany(mapInbox, Reports) = HowMany(t, Reports) + 1
        /\ HowMany(t, Reports) \in Nat
    BY CountTakesAReport
  <1>2. Cardinality(Among(st, Airline, Owing)) + HowMany(mapInbox, Reports) + Heard
           = NumAirlines
    BY <1>1 DEF Settled, Tallied
  <1>3. /\ Cardinality(Among(st, Airline, Owing)) \in Nat
        /\ i \in Int /\ NumAirlines \in Int
    BY OwingFinite, SizeAssumption DEF TurnInv, LockInv, ControlOK
  <1>4. Cardinality(Among(st, Airline, Owing)) = 0 /\ HowMany(t, Reports) = 0
    <2> HIDE DEF t, Heard
    <2> QED
      BY <1>1, <1>2, <1>3
  <1>5. \A a \in Airline : st[a] = "reported"
    BY <1>4, OwingFinite DEF Among, Settled, Stationed, Placed, Stations
  <1>6. \A p \in Plane : \A type : ~Asks(p, type)
    BY <1>5, AskingIsBusy, BusyMeans, PlaceOf
  <1>7. \A k \in 1 .. Len(t) : FALSE
    <2> SUFFICES ASSUME NEW k \in 1 .. Len(t) PROVE FALSE
      OBVIOUS
    <2>1. /\ k + 1 \in 1 .. Len(mapInbox) /\ t[k] = mapInbox[k + 1]
      <3>1. IsSeq(mapInbox) /\ mapInbox # <<>>
        BY CountTakesAReport DEF TurnInv, Shapes
      <3>2. Len(mapInbox) \in Nat \ {0} /\ Len(t) = Len(mapInbox) - 1
            /\ \A h \in 1 .. Len(t) : t[h] = mapInbox[h + 1]
        BY <3>1, Read
      <3> QED
        BY <3>2
    <2>2. mapInbox[k + 1].type \in Requests \cup Returns
      BY <2>1 DEF TurnInv, Underway, OnlyOf
    <2>3. mapInbox[k + 1].type \notin Requests
      <3>1. \A loc, hop, w : w \notin Waiting(loc, hop)
        BY <1>6 DEF Waiting
      <3> QED
        BY <2>1, <3>1 DEF TurnInv, Underway, Carries
    <2>4. t[k] \in Reports
      BY <2>1, <2>2, <2>3, ReturnsAreReports DEF Settled
    <2>5. t \in Seq({t[h] : h \in 1 .. Len(t)})
      BY <1>1 DEF IsSeq
    <2>6. HowMany(t, Reports) > 0
      BY <2>4, <2>5, SomeWhenPresent
    <2> QED
      BY <1>4, <2>6
  <1>8. t = <<>>
    <2>1. t # <<>> => 1 \in 1 .. Len(t)
      BY <1>1, Read
    <2> QED
      BY <1>7, <2>1
  <1> QED
    BY <1>1, <1>5, <1>8

(* A phase ends only when every airline has reported. *)
LEMMA PhaseEnds ==
    ASSUME TurnInv, NEW st, Settled(st), Map \/ Signal \/ UNCHANGED vars
    PROVE  \/ (InUnload' <=> InUnload) /\ (InMove' <=> InMove)
           \/ \A a \in Airline : st[a] = "reported"
  <1> USE DEF InUnload, InMove
  <1>1. CASE MapTurn
    BY <1>1 DEF MapTurn, Settled, Stationed, Placed, InTurn
  <1>2. CASE MapAnnounce
    BY <1>2 DEF MapAnnounce, Announced, AfterAnnouncing
  <1>3. CASE MapCount
    BY <1>3, LastCount DEF MapCount
  <1>4. CASE MapUnload
    <2>1. mapPc = "phase1" /\ mapPc' \in {"phase1", "reply1"}
      BY <1>4, Zenon DEF MapUnload
    <2> QED
      BY <2>1
  <1>5. CASE MapDestinations
    <2>1. mapPc = "phase2" /\ mapPc' \in {"phase2", "reply2"}
      BY <1>5, Zenon DEF MapDestinations
    <2> QED
      BY <2>1
  <1>6. CASE MapReply
    BY <1>6 DEF MapReply, AfterReply
  <1>7. CASE MapWait
    BY <1>7 DEF MapWait
  <1>8. CASE Signal \/ UNCHANGED vars
    BY <1>8 DEF Signal, mapVars, vars
  <1> QED
    BY <1>1, <1>2, <1>3, <1>4, <1>5, <1>6, <1>7, <1>8 DEF Map

-----------------------------------------------------------------------------
(* The queues of the planes. *)

LEMMA MailAtMap ==
    ASSUME TurnInv, Map \/ Signal \/ UNCHANGED vars, NEW p \in Plane
    PROVE  Mailbox(p)'
  <1> PICK st : Settled(st)
    BY DEF TurnInv
  <1>1. /\ UNCHANGED <<airPc, airMsg, visit, planePc, done, queue>> /\ Mailbox(p)
    BY MapFrame DEF TurnInv
  <1>2. queue[p] # <<>> => InMail(p)'
    <2>1. SUFFICES ASSUME queue[p] # <<>> PROVE InMail(p)'
      OBVIOUS
    <2>2. InMail(p)
      BY <1>1, <2>1 DEF Mailbox
    <2>3. CASE (InUnload' <=> InUnload) /\ (InMove' <=> InMove)
      BY <1>1, <2>2, <2>3 DEF InMail, InQueue, Ended
    <2>4. CASE \A a \in Airline : st[a] = "reported"
      <3>1. ~Told(p)
        BY <2>4, BusyMeans, PlaceOf DEF Busy
      <3>2. InQueue(p).type \notin {"Step", "Continue"}
        BY <2>1, <3>1 DEF Told, StageOf
      <3> QED
        BY <1>1, <2>2, <3>2 DEF InMail, InQueue, Ended
    <2> QED
      BY <2>3, <2>4, PhaseEnds
  <1> QED
    BY <1>1, <1>2 DEF Mailbox, InQueue, Called

LEMMA StaysEnded ==
    ASSUME TurnInv, NEW a \in Airline, AirlineMain(a)
    PROVE  \A b \in Airline : Ended(b) => Ended(b)'
  <1>1. \A b \in Airline \ {a} : Ended(b) => Ended(b)'
    BY AirFrame DEF Ended
  <1>2. Ended(a) => Ended(a)'
    <2>1. CASE AirReadPhase(a) \/ AirReadReply(a) \/ AirReadEnd(a) \/ AirForward(a)
               \/ AirStart(a) \/ AirReady(a) \/ AirUnlock(a)
      <3>1. airPc[a] \in {"listen", "forward", "start", "ready", "unlock"}
        BY <2>1, CallRead, ReplyRead, EndRead, ForwardGoes, StartGoes, ReadyGoes,
           AirUnlockGoes
      <3> QED
        BY <3>1 DEF Ended
    <2>2. CASE AirBroadcast(a) \/ AirBroadcastDone(a) \/ AirJoin(a)
      BY <2>2, BroadcastGoes, BroadcastEnds, JoinGoes DEF Ended
    <2> QED
      BY <2>1, <2>2 DEF AirlineMain
  <1> QED
    BY <1>1, <1>2

LEMMA EndedMeans ==
    ASSUME TurnInv, NEW a \in Airline, Ended(a)
    PROVE  EndSent(a) /\ ~InTurn /\ inbox[a] = <<>>
  BY DEF TurnInv, Main, EndSent, IsOver, InTurn, InUnload, InMove

LEMMA MailAtAirline ==
    ASSUME TurnInv, NEW a \in Airline, AirlineMain(a), NEW p \in Plane
    PROVE  Mailbox(p)'
  <1> DEFINE b == AirlineOf[p]
  <1>0. /\ b \in Airline /\ (p \in Fleet(a) <=> b = a) /\ Mailbox(p)
    BY PlaceOf DEF TurnInv
  <1>1. /\ UNCHANGED <<mapPc, i, planePc, done>>
        /\ InUnload' = InUnload /\ InMove' = InMove
    BY AirFrame DEF InUnload, InMove
  <1>2. CASE queue'[p] = queue[p] /\ (airPc'[b] = "broadcast" /\ p \in visit'[b] =>
                airPc[b] = "broadcast" /\ p \in visit[b] /\ airMsg'[b] = airMsg[b])
    <2>1. Ended(b) => Ended(b)'
      BY <1>0, StaysEnded
    <2>2. InMail(p) => InMail(p)'
      BY <1>1, <1>2, <2>1 DEF InMail, InQueue
    <2>3. airPc'[b] = "broadcast" /\ p \in visit'[b] => (Called(p) => Called(p)')
      BY <1>1, <1>2 DEF Called
    <2> QED
      BY <1>0, <1>1, <1>2, <2>2, <2>3 DEF Mailbox, InQueue
  <1>3. CASE b # a
    <2>1. /\ queue'[p] = queue[p] /\ airPc'[b] = airPc[b] /\ visit'[b] = visit[b]
          /\ airMsg'[b] = airMsg[b]
      BY <1>0, <1>3, AirFrame
    <2> QED
      BY <1>2, <2>1
  <1>4. CASE b = a
    <2>1. CASE AirReadPhase(a) \/ AirReadReply(a) \/ AirReady(a) \/ AirUnlock(a) \/ AirJoin(a)
               \/ AirBroadcastDone(a)
      <3>1. queue' = queue /\ airPc'[a] # "broadcast"
        BY <2>1, CallRead, ReplyRead, ReadyGoes, AirUnlockGoes, JoinGoes, BroadcastEnds
      <3> QED
        BY <1>2, <1>4, <3>1
    <2>2. CASE AirReadEnd(a)
      <3>1. /\ airPc[a] = "listen" /\ airMsg'[a].type = "End" /\ ~InTurn /\ queue' = queue
        BY <2>2, EndRead
      <3>2. planePc[p] \in {"step", "unlock2", "exited"}
        BY <3>1, AtRest
      <3>3. ~InMail(p)
        BY <1>4, <3>1, <3>2 DEF InMail, Ended, InTurn
      <3>4. queue'[p] = <<>>
        BY <1>0, <3>1, <3>3 DEF Mailbox
      <3>5. Called(p)'
        BY <1>4, <3>1 DEF Called
      <3> QED
        BY <1>0, <1>1, <3>4, <3>5 DEF Mailbox
    <2>3. CASE AirForward(a)
      <3>1. PICK q \in Fleet(a) :
               /\ q \in Plane /\ queue'[q] = <<InQueue(q)'>>
               /\ \/ planePc[q] = "awaitStock" /\ InQueue(q)'.type = "Stock"
                  \/ planePc[q] = "awaitDest" /\ InQueue(q)'.type = "Destinations"
               /\ \A r \in Plane \ {q} : queue'[r] = queue[r]
        BY <2>3, ForwardGoes
      <3>2. airPc'[a] = "listen"
        BY <2>3, ForwardGoes
      <3>3. CASE p = q
        <4>1. InMail(p)'
          BY <1>1, <3>1, <3>3 DEF InMail
        <4>2. ~done[p]
          BY <1>0, <3>1, <3>3 DEF Mailbox, DonePlaces
        <4>3. planePc'[p] # "exited"
          BY <1>1, <3>1, <3>3
        <4> QED
          BY <1>1, <1>4, <3>1, <3>2, <3>3, <4>1, <4>2, <4>3 DEF Mailbox
      <3> QED
        BY <1>2, <1>4, <3>1, <3>2, <3>3
    <2>4. CASE AirStart(a)
      <3>1. /\ queue' = queue /\ queue[p] = <<>> /\ (Called(p) \/ done[p])
            /\ airMsg' = airMsg
        BY <1>0, <1>4, <2>4, StartGoes
      <3>2. Called(p) => Called(p)'
        BY <1>1, <3>1 DEF Called
      <3> QED
        BY <1>0, <1>1, <3>1, <3>2 DEF Mailbox
    <2>5. CASE AirBroadcast(a)
      <3>1. PICK q \in Fleet(a) :
               /\ q \in Plane /\ q \in visit[a] /\ visit'[a] = visit[a] \ {q}
               /\ queue[q] = <<>>
               /\ \/ done[q] /\ queue'[q] = <<>>
                  \/ /\ ~done[q] /\ Called(q)
                     /\ queue'[q] # <<>> /\ queue'[q] = <<InQueue(q)'>>
                     /\ InQueue(q)'.type = airMsg[a].type
               /\ \A r \in Plane \ {q} : queue'[r] = queue[r]
        BY <2>5, BroadcastGoes
      <3>2. airPc[a] = "broadcast" /\ airPc' = airPc /\ airMsg' = airMsg
        BY <2>5, BroadcastGoes
      <3>3. CASE p # q
        BY <1>2, <1>4, <3>1, <3>2, <3>3
      <3>4. CASE p = q /\ done[p]
        BY <1>0, <1>1, <1>4, <3>1, <3>2, <3>4 DEF Mailbox
      <3>5. CASE p = q /\ ~done[p]
        <4>1. InMail(p)'
          <5>1. InQueue(p)'.type = airMsg[a].type /\ Called(p)
            BY <3>1, <3>5
          <5>2. CASE airMsg[a].type = "End"
            <6>1. Ended(a) /\ Ended(a)'
              BY <3>2, <5>2 DEF Ended
            <6>2. planePc[p] \in {"step", "unlock2", "exited"}
              BY <6>1, EndedMeans, AtRest
            <6>3. planePc[p] # "exited"
              BY <1>0, <3>5 DEF Mailbox
            <6> QED
              BY <1>1, <1>4, <5>1, <5>2, <6>1, <6>2, <6>3 DEF InMail
          <5>3. CASE airMsg[a].type # "End"
            <6>1. airMsg[a].type = Call /\ planesLeft[a] # 0
              BY <3>2, <5>3 DEF TurnInv, Main
            <6>2. InTurn
              BY <6>1, AtRest
            <6> QED
              BY <1>1, <1>4, <5>1, <5>3, <6>1, <6>2 DEF InMail, Called, Call, InTurn
          <5> QED
            BY <5>2, <5>3
        <4> QED
          BY <1>0, <1>1, <1>4, <3>1, <3>5, <4>1 DEF Mailbox
      <3> QED
        BY <3>3, <3>4, <3>5
    <2> QED
      BY <2>1, <2>2, <2>3, <2>4, <2>5 DEF AirlineMain
  <1> QED
    BY <1>3, <1>4

LEMMA MailAtPlane ==
    ASSUME TurnInv, NEW q \in Plane, PlaneThread(q), NEW p \in Plane
    PROVE  Mailbox(p)'
  <1>0. Mailbox(p) /\ Mailbox(q)
    BY DEF TurnInv
  <1>1. /\ UNCHANGED <<airPc, airMsg, visit>>
        /\ InUnload' = InUnload /\ InMove' = InMove
        /\ Ended(AirlineOf[p])' = Ended(AirlineOf[p])
    BY PlaneFrame DEF InUnload, InMove, Ended
  <1>2. CASE p # q
    <2>1. planePc'[p] = planePc[p] /\ queue'[p] = queue[p] /\ done'[p] = done[p]
      BY <1>2, PlaneFrame
    <2> QED
      BY <1>0, <1>1, <2>1 DEF Mailbox, InMail, InQueue, Called
  <1>3. CASE p = q
    <2> USE <1>3
    <2>1. CASE PlanePeek(p)
      <3>1. /\ planePc[p] \in DOMAIN AfterPeek /\ planePc'[p] = AfterPeek[planePc[p]]
            /\ queue' = queue /\ done' = done
        BY <2>1, PeekGoes
      <3>2. InMail(p) => InMail(p)'
        BY <1>1, <3>1 DEF InMail, InQueue, AfterPeek
      <3>3. airMsg[AirlineOf[p]].type # "End" => (Called(p) => Called(p)')
        BY <1>1, <3>1 DEF Called, AfterPeek
      <3>4. airMsg[AirlineOf[p]].type = "End" => Called(p)'
        BY <1>1 DEF Called
      <3>5. done[p] => planePc'[p] \in DonePlaces
        BY <1>0, <3>1 DEF Mailbox, AfterPeek, DonePlaces
      <3>6. planePc'[p] # "exited"
        BY <3>1 DEF AfterPeek
      <3> QED
        BY <1>0, <1>1, <3>1, <3>2, <3>3, <3>4, <3>5, <3>6 DEF Mailbox, InQueue
    <2>2. CASE PlaneStep(p) \/ PlaneUnloaded(p) \/ PlaneContinue(p) \/ PlaneDestination(p)
      <3>1. Dequeue(p)
        BY <2>2 DEF PlaneStep, PlaneUnloaded, PlaneContinue, PlaneDestination
      <3>2. /\ queue'[p] = <<>> /\ ~done[p]
            /\ ~(airPc[AirlineOf[p]] = "broadcast" /\ p \in visit[AirlineOf[p]])
        BY <3>1, Popped
      <3>3. CASE PlaneStep(p)
        BY <1>1, <3>2, <3>3, StepGoes DEF Mailbox, DonePlaces
      <3>4. CASE PlaneUnloaded(p) \/ PlaneDestination(p)
        BY <1>1, <3>2, <3>4, UnloadedGoes, DestinationGoes DEF Mailbox, DonePlaces
      <3>5. CASE PlaneContinue(p)
        BY <1>1, <3>2, <3>5, ContinueGoes DEF Mailbox, DonePlaces
      <3> QED
        BY <2>2, <3>3, <3>4, <3>5
    <2>3. CASE PlaneRequest(p)
      <3>1. /\ planePc[p] \in {"sendUnload", "sendCheck"}
            /\ planePc'[p] \in {"awaitStock", "awaitDest"} /\ queue' = queue /\ done' = done
        BY <2>3, RequestGoes DEF RequestOf, AfterRequest
      <3>2. queue[p] = <<>> /\ ~done[p]
        BY <1>0, <3>1 DEF Mailbox, InMail, DonePlaces
      <3>3. airPc[AirlineOf[p]] = "broadcast" /\ p \in visit[AirlineOf[p]] =>
               airMsg[AirlineOf[p]].type = "End"
        BY <1>0, <3>1, <3>2 DEF Mailbox, Called
      <3> QED
        BY <1>1, <3>1, <3>2, <3>3 DEF Mailbox, Called
    <2>4. CASE PlaneCount(p) \/ PlaneReport(p) \/ PlaneUnlock(p)
      <3>1. /\ planePc[p] \in {"count1", "count2", "report1", "report2", "unlock1", "unlock2"}
            /\ \/ planePc'[p] \in {"report1", "report2", "unlock1", "unlock2"}
               \/ planePc'[p] = AfterReady(p, planePc[p])
            /\ queue' = queue /\ done' = done
        BY <2>4, CountGoes, ReportGoes, UnlockGoes DEF ReportAt, AfterReport
      <3>2. /\ queue[p] # <<>> => planePc[p] = "unlock2" /\ InQueue(p).type = "End"
                                  /\ Ended(AirlineOf[p])
            /\ done[p] => queue[p] = <<>>
        BY <1>0, <3>1 DEF Mailbox, InMail
      <3>3. /\ done[p] => planePc'[p] \in DonePlaces
            /\ planePc'[p] = "exited" => done[p]
        BY <3>1 DEF AfterReady, DonePlaces
      <3>4. queue[p] # <<>> => InMail(p)'
        <4>1. queue[p] # <<>> => planePc'[p] \in {"step", "unlock2"}
          BY <2>4, <3>2, CountGoes, ReportGoes, UnlockGoes
             DEF ReportAt, AfterReport, AfterReady
        <4> QED
          BY <1>1, <3>1, <3>2, <4>1 DEF InMail, InQueue
      <3>5. airPc[AirlineOf[p]] = "broadcast" /\ p \in visit[AirlineOf[p]] /\ ~done[p] =>
               airMsg[AirlineOf[p]].type = "End"
        BY <1>0, <3>1 DEF Mailbox, Called
      <3> QED
        BY <1>0, <1>1, <3>1, <3>2, <3>3, <3>4, <3>5 DEF Mailbox, Called, InQueue
    <2> QED
      BY <2>1, <2>2, <2>3, <2>4 DEF PlaneThread
  <1> QED
    BY <1>2, <1>3

-----------------------------------------------------------------------------
(* The channels of the airlines. *)

LEMMA AnnounceGoes ==
    ASSUME TurnInv, MapAnnounce
    PROVE  /\ mapPc \in {"step", "continue", "over"} /\ i + 1 \in Airline
           /\ \E m : /\ m.type = Announced[mapPc]
                     /\ inbox'[i + 1] = Append(inbox[i + 1], m)
           /\ \A b \in Airline \ {i + 1} : inbox'[b] = inbox[b]
           /\ IF i + 1 = NumAirlines THEN i' = 0 /\ mapPc' = AfterAnnouncing[mapPc]
                                     ELSE i' = i + 1 /\ mapPc' = mapPc
           /\ UNCHANGED <<mapInbox, reply>>
  <1>1. i + 1 \in Airline
    BY SizeAssumption DEF TurnInv, LockInv, ControlOK, Airline
  <1>2. PICK m : m = Plain(Announced[mapPc])
    OBVIOUS
  <1>3. m.type = Announced[mapPc]
    BY <1>2 DEF Plain
  <1>4. PICK a \in Airline : a = i + 1
    BY <1>1
  <1>5. /\ inbox'[a] = Append(inbox[a], m)
        /\ \A b \in Airline \ {a} : inbox'[b] = inbox[b]
    <2>1. inbox' = [inbox EXCEPT ![a] = Append(inbox[a], m)]
      BY <1>2, <1>4 DEF MapAnnounce, WriteToAirline
    <2>2. inbox = [b \in Airline |-> inbox[b]]
      BY DEF TurnInv, Shapes
    <2> QED
      BY <2>1, <2>2
  <1> QED
    BY <1>1, <1>3, <1>4, <1>5 DEF MapAnnounce, Announced

LEMMA ReplyGoes ==
    ASSUME TurnInv, NEW loc, Underway(loc), MapReply
    PROVE  /\ mapPc \in {"reply1", "reply2"} /\ mapPc' = AfterReply[mapPc] /\ i' = i
           /\ reply.type \in Answers /\ <<reply.plane, reply.type>> \in Waiting(loc, "reply")
           /\ reply.plane \in Plane /\ reply' = Plain("None") /\ mapInbox' = mapInbox
           /\ \E a \in Airline :
                 /\ a = AirlineOf[reply.plane] /\ inbox'[a] = Append(inbox[a], reply)
                 /\ \A b \in Airline \ {a} : inbox'[b] = inbox[b]
  <1>1. mapPc \in {"reply1", "reply2"}
    BY DEF MapReply, AfterReply
  <1>2. reply.type \in Answers /\ <<reply.plane, reply.type>> \in Waiting(loc, "reply")
    BY <1>1 DEF Underway, Answers
  <1>3. reply.plane \in Plane
    BY <1>2 DEF Waiting
  <1>4. PICK a \in Airline : a = AirlineOf[reply.plane]
    BY <1>3, PlaceOf
  <1>5. inbox' = [inbox EXCEPT ![a] = Append(inbox[a], reply)]
    BY <1>4 DEF MapReply, WriteToAirline
  <1>6. inbox = [b \in Airline |-> inbox[b]]
    BY DEF TurnInv, Shapes
  <1>7. inbox'[a] = Append(inbox[a], reply) /\ \A b \in Airline \ {a} : inbox'[b] = inbox[b]
    BY <1>5, <1>6
  <1> QED
    BY <1>1, <1>2, <1>3, <1>4, <1>7 DEF MapReply

LEMMA InboxAtMap ==
    ASSUME Map \/ Signal \/ UNCHANGED vars, ~MapAnnounce, ~MapReply
    PROVE  inbox' = inbox
  BY DEF Map, Signal, MapTurn, MapCount, MapUnload, MapDestinations, MapWait, channels, vars

LEMMA MapIsPast ==
    ASSUME TurnInv, Map \/ Signal \/ UNCHANGED vars, NEW a \in Airline
    PROVE  /\ EndSent(a) => EndSent(a)'
           /\ mapPc' = "exited" => airPc'[a] = "exited"
  <1> USE DEF EndSent, IsOver
  <1>1. CASE MapTurn \/ MapCount \/ MapReply \/ MapWait \/ Signal \/ UNCHANGED vars
    <2>1. airPc' = airPc /\ (mapPc = "exited" => airPc[a] = "exited")
      BY <1>1, MapFrame DEF Map, TurnInv, Main
    <2> QED
      BY <1>1, <2>1 DEF MapTurn, MapCount, Counted, AfterPhase, MapReply, AfterReply, MapWait,
                        Signal, mapVars, vars
  <1>2. CASE MapAnnounce
    <2>1. i \in Int /\ a \in Int
      BY SizeAssumption DEF TurnInv, LockInv, ControlOK, Airline
    <2> QED
      BY <1>2, <2>1, AnnounceGoes DEF AfterAnnouncing
  <1>3. CASE MapUnload \/ MapDestinations
    <2>1. mapPc \in {"phase1", "phase2"}
          /\ mapPc' \in {"phase1", "phase2", "reply1", "reply2"}
      <3>1. CASE MapUnload
        <4>1. mapPc = "phase1" /\ mapPc' \in {"phase1", "reply1"}
          BY <3>1, Zenon DEF MapUnload
        <4> QED
          BY <4>1
      <3>2. CASE MapDestinations
        <4>1. mapPc = "phase2" /\ mapPc' \in {"phase2", "reply2"}
          BY <3>2, Zenon DEF MapDestinations
        <4> QED
          BY <4>1
      <3> QED
        BY <1>3, <3>1, <3>2
    <2> QED
      BY <2>1
  <1> QED
    BY <1>1, <1>2, <1>3 DEF Map

LEMMA MainAtMap ==
    ASSUME TurnInv, Map \/ Signal \/ UNCHANGED vars, NEW a \in Airline
    PROVE  Main(a)'
  <1> PICK st : Settled(st)
    BY DEF TurnInv
  <1> PICK loc : Underway(loc)
    BY DEF TurnInv
  <1> DEFINE words == Calls \cup Answers \cup {"End"}
  <1>0. Main(a) /\ IsSeq(inbox[a])
    BY DEF TurnInv, Shapes
  <1>1. UNCHANGED <<airPc, airMsg, planesLeft, planePc>>
    BY MapFrame
  <1>2. /\ Ended(a)' <=> Ended(a)
        /\ EndSent(a) => EndSent(a)'
        /\ mapPc' = "exited" => airPc'[a] = "exited"
    BY <1>1, MapIsPast DEF Ended
  <1>3. \/ Call' = Call
        \/ /\ ~Holds(inbox[a], Calls) /\ airPc[a] # "start" /\ planesLeft[a] = 0
           /\ ~MapAnnounce /\ ~MapReply
    <2>1. CASE \A b \in Airline : st[b] = "reported"
      <3>1. ~Holds(inbox[a], Calls) /\ airPc[a] # "start" /\ planesLeft[a] = 0
        BY <2>1 DEF Settled, Stationed, Placed
      <3>2. MapAnnounce \/ MapReply => Call' = Call
        BY AnnounceGoes, ReplyGoes DEF Announced, AfterAnnouncing, AfterReply, Call, InUnload
      <3> QED
        BY <3>1, <3>2
    <2> QED
      BY <2>1, PhaseEnds DEF Call
  <1>4. /\ OnlyOf(inbox'[a], words) /\ Single(inbox'[a], Calls)
        /\ ~Holds(inbox'[a], Calls \ {Call'})
        /\ Holds(inbox'[a], {"End"}) => EndSent(a)' /\ Len(inbox'[a]) = 1
        /\ EndSent(a) => inbox'[a] = inbox[a]
    <2>1. CASE inbox'[a] = inbox[a]
      <3>1. ~Holds(inbox[a], Calls \ {Call'})
        BY <1>0, <1>3 DEF Main, Holds
      <3> QED
        BY <1>0, <1>2, <2>1, <3>1 DEF Main
    <2>2. CASE MapAnnounce /\ a = i + 1
      <3>1. PICK m : m.type = Announced[mapPc] /\ inbox'[a] = Append(inbox[a], m)
        BY <2>2, AnnounceGoes
      <3>2. i \in Int /\ ~EndSent(a)
        BY <2>2, AnnounceGoes, SizeAssumption
           DEF EndSent, IsOver, TurnInv, LockInv, ControlOK
      <3>3. ~Holds(inbox[a], {"End"})
        BY <1>0, <3>2 DEF Main
      <3>4. ~Holds(inbox[a], Calls)
        <4>1. mapPc \in {"step", "continue"} => st[a] = "unannounced"
          BY <2>2, <3>2 DEF Settled, Stationed, Placed
        <4>2. mapPc = "over" => ~InTurn
          BY DEF InTurn, InUnload, InMove
        <4> QED
          BY <2>2, <4>1, <4>2, AnnounceGoes, AtRest DEF Settled, Stationed, Placed
      <3>5. CASE mapPc = "over"
        <4>1. m.type = "End" /\ ~Holds(inbox[a], Answers)
          BY <3>1, <3>5, AtRest DEF Announced, InTurn, InUnload, InMove
        <4>2. ~Holds(inbox[a], words)
          BY <3>3, <3>4, <4>1 DEF Holds
        <4>3. inbox[a] = <<>>
          BY <1>0, <4>2, Nothing DEF Main
        <4>4. \A types : /\ Holds(inbox'[a], types) <=> m.type \in types
                         /\ m.type \in types => OnlyOf(inbox'[a], types)
                         /\ Single(inbox'[a], types)
          <5> SUFFICES ASSUME NEW types
                       PROVE  /\ Holds(inbox'[a], types) <=> m.type \in types
                              /\ m.type \in types => OnlyOf(inbox'[a], types)
                              /\ Single(inbox'[a], types)
            OBVIOUS
          <5>1. ~Holds(inbox[a], types) /\ OnlyOf(inbox[a], types) /\ Single(inbox[a], types)
            BY <4>3, NoneHeld
          <5>2. /\ Holds(inbox'[a], types) <=> Holds(inbox[a], types) \/ m.type \in types
                /\ OnlyOf(inbox'[a], types) <=> OnlyOf(inbox[a], types) /\ m.type \in types
                /\ Single(inbox[a], types) /\ ~(Holds(inbox[a], types) /\ m.type \in types)
                      => Single(inbox'[a], types)
            BY <1>0, <3>1, WriteHolds
          <5> QED
            BY <5>1, <5>2
        <4>5. Len(inbox'[a]) = 1
          BY <1>0, <3>1, <4>3, Written
        <4>6. EndSent(a)'
          BY <2>2, <3>2, <3>5, AnnounceGoes DEF EndSent, IsOver, AfterAnnouncing
        <4> QED
          BY <3>2, <4>1, <4>4, <4>5, <4>6 DEF Calls
      <3>6. CASE mapPc # "over"
        <4>1. m.type = Call /\ Call' = Call
          BY <2>2, <3>1, <3>6, AnnounceGoes
             DEF Announced, AfterAnnouncing, Call, InUnload
        <4>2. m.type \in words /\ m.type # "End"
          BY <4>1 DEF Call, Calls
        <4>3. /\ OnlyOf(inbox'[a], words) <=> OnlyOf(inbox[a], words) /\ m.type \in words
              /\ Single(inbox'[a], Calls)
              /\ Holds(inbox'[a], Calls \ {Call}) <=>
                    Holds(inbox[a], Calls \ {Call}) \/ m.type \in Calls \ {Call}
              /\ Holds(inbox'[a], {"End"}) <=> Holds(inbox[a], {"End"}) \/ m.type \in {"End"}
          <5>1. Single(inbox[a], Calls)
            BY <1>0 DEF Main
          <5> QED
            BY <1>0, <3>1, <3>4, <5>1, WriteHolds
        <4> QED
          BY <1>0, <3>2, <3>3, <4>1, <4>2, <4>3 DEF Main
      <3> QED
        BY <3>5, <3>6
    <2>3. CASE MapReply /\ inbox'[a] = Append(inbox[a], reply)
      <3>1. reply.type \in Answers /\ Call' = Call /\ ~EndSent(a)
        BY <2>3, ReplyGoes DEF AfterReply, Call, InUnload, EndSent, IsOver
      <3>2. reply.type \in words /\ reply.type \notin Calls /\ reply.type # "End"
        BY <3>1 DEF Answers, Calls
      <3>3. /\ OnlyOf(inbox'[a], words) <=> OnlyOf(inbox[a], words) /\ reply.type \in words
            /\ Single(inbox'[a], Calls)
            /\ Holds(inbox'[a], Calls \ {Call}) <=>
                  Holds(inbox[a], Calls \ {Call}) \/ reply.type \in Calls \ {Call}
            /\ Holds(inbox'[a], {"End"}) <=>
                  Holds(inbox[a], {"End"}) \/ reply.type \in {"End"}
        <4>1. Single(inbox[a], Calls)
          BY <1>0 DEF Main
        <4> QED
          BY <1>0, <2>3, <3>2, <4>1, WriteHolds
      <3> QED
        BY <1>0, <3>1, <3>2, <3>3 DEF Main
    <2> QED
      BY <2>1, <2>2, <2>3, AnnounceGoes, ReplyGoes, InboxAtMap
  <1>5. /\ airPc[a] = "start" => airMsg[a].type = Call'
        /\ airPc[a] = "broadcast" /\ airMsg[a].type # "End" =>
              airMsg[a].type = Call' /\ planesLeft[a] # 0
        /\ Ended(a) => EndSent(a)' /\ inbox'[a] = <<>>
    BY <1>0, <1>2, <1>3, <1>4 DEF Main
  <1> QED
    BY <1>0, <1>1, <1>2, <1>4, <1>5 DEF Main
LEMMA MainAtAirline ==
    ASSUME TurnInv, NEW a \in Airline, AirlineMain(a), NEW b \in Airline
    PROVE  Main(b)'
  <1> DEFINE words == Calls \cup Answers \cup {"End"}
  <1>0. Main(b) /\ IsSeq(inbox[b])
    BY DEF TurnInv, Shapes
  <1>1. /\ UNCHANGED <<mapPc, i, planePc, done>> /\ Call' = Call /\ EndSent(b)' = EndSent(b)
    BY AirFrame DEF Call, InUnload, EndSent, IsOver
  <1>2. CASE b # a
    <2>1. /\ airPc'[b] = airPc[b] /\ airMsg'[b] = airMsg[b] /\ inbox'[b] = inbox[b]
          /\ planesLeft'[b] = planesLeft[b]
      BY <1>2, AirFrame
    <2> QED
      BY <1>0, <1>1, <2>1 DEF Main, Ended
  <1>3. CASE b = a
    <2> USE <1>3
    <2>1. airPc[a] # "exited" /\ mapPc # "exited"
      <3>1. airPc[a] # "exited"
        BY CallRead, ReplyRead, EndRead, ForwardGoes, StartGoes, BroadcastGoes, BroadcastEnds,
           ReadyGoes, AirUnlockGoes, JoinGoes DEF AirlineMain
      <3> QED
        BY <1>0, <3>1 DEF Main
    <2>2. CASE AirReadPhase(a) \/ AirReadReply(a) \/ AirReadEnd(a)
      <3>1. /\ inbox[a] # <<>> /\ inbox'[a] = Tail(inbox[a]) /\ airPc'[a] # "exited"
            /\ planesLeft' = planesLeft
        BY <2>2, CallRead, ReplyRead, EndRead
      <3>2. /\ OnlyOf(inbox'[a], words) /\ Single(inbox'[a], Calls)
            /\ ~Holds(inbox'[a], Calls \ {Call})
        BY <1>0, <3>1, ReadHolds DEF Main
      <3>3. ~Holds(inbox'[a], {"End"})
        <4>1. Holds(inbox'[a], {"End"}) => Holds(inbox[a], {"End"})
          BY <1>0, <3>1, ReadHolds
        <4>2. Holds(inbox[a], {"End"}) => Len(inbox'[a]) = 0
          BY <1>0, <3>1, Read DEF Main
        <4> QED
          BY <4>1, <4>2 DEF Holds
      <3>4. CASE AirReadPhase(a) \/ AirReadReply(a)
        <4>1. /\ airPc'[a] \in {"start", "forward"}
              /\ airPc'[a] = "start" => airMsg'[a].type = Call
          BY <3>4, CallRead, ReplyRead
        <4> QED
          BY <1>1, <2>1, <3>2, <3>3, <4>1 DEF Main, Ended
      <3>5. CASE AirReadEnd(a)
        <4>1. /\ airPc'[a] = "broadcast" /\ airMsg'[a].type = "End"
              /\ EndSent(a) /\ inbox'[a] = <<>>
          BY <3>5, EndRead
        <4> QED
          BY <1>1, <2>1, <3>2, <3>3, <4>1 DEF Main, Ended
      <3> QED
        BY <2>2, <3>4, <3>5
    <2>3. CASE AirForward(a) \/ AirReady(a) \/ AirUnlock(a)
      <3>1. /\ airPc'[a] \in {"listen", "unlock"} /\ inbox' = inbox
        BY <2>3, ForwardGoes, ReadyGoes, AirUnlockGoes
      <3> QED
        BY <1>0, <1>1, <2>1, <3>1 DEF Main, Ended
    <2>4. CASE AirStart(a)
      <3>1. /\ inbox' = inbox /\ airMsg' = airMsg /\ airMsg[a].type = Call
            /\ airPc'[a] = "ready" \/ (airPc'[a] = "broadcast" /\ planesLeft'[a] # 0)
        BY <2>4, StartGoes
      <3>2. Call # "End"
        BY DEF Call
      <3> QED
        BY <1>0, <1>1, <2>1, <3>1, <3>2 DEF Main, Ended
    <2>5. CASE AirBroadcast(a)
      <3>1. UNCHANGED <<inbox, airPc, airMsg, planesLeft>>
        BY <2>5, BroadcastGoes
      <3> QED
        BY <1>0, <1>1, <3>1 DEF Main, Ended
    <2>6. CASE AirBroadcastDone(a)
      <3>1. /\ UNCHANGED <<inbox, airMsg, planesLeft>> /\ airPc[a] = "broadcast"
            /\ IF airMsg[a].type = "End" THEN airPc'[a] = "join" ELSE airPc'[a] = "listen"
        BY <2>6, BroadcastEnds
      <3> QED
        BY <1>0, <1>1, <2>1, <3>1 DEF Main, Ended
    <2>7. CASE AirJoin(a)
      <3>1. /\ UNCHANGED <<inbox, airMsg, planesLeft>> /\ airPc[a] = "join"
            /\ airPc'[a] = "exited" /\ \A p \in Fleet(a) : planePc[p] = "exited"
        BY <2>7, JoinGoes
      <3> QED
        BY <1>0, <1>1, <2>1, <3>1 DEF Main, Ended
    <2> QED
      BY <2>2, <2>3, <2>4, <2>5, <2>6, <2>7 DEF AirlineMain
  <1> QED
    BY <1>2, <1>3

LEMMA MainAtPlane ==
    ASSUME TurnInv, NEW p \in Plane, PlaneThread(p), NEW b \in Airline
    PROVE  Main(b)'
  <1>0. Main(b)
    BY DEF TurnInv
  <1>1. /\ UNCHANGED <<mapPc, i, inbox, airPc, airMsg>>
        /\ Call' = Call /\ EndSent(b)' = EndSent(b) /\ Ended(b)' = Ended(b)
    BY PlaneFrame DEF Call, InUnload, EndSent, IsOver, Ended
  <1>2. planePc[p] # "exited"
    BY PeekGoes, StepGoes, RequestGoes, UnloadedGoes, ContinueGoes, DestinationGoes,
       CountGoes, ReportGoes, UnlockGoes
       DEF PlaneThread, AfterPeek, RequestOf, ReportAt, AfterReport
  <1>3. airPc[b] = "exited" => \A q \in Fleet(b) : planePc'[q] = "exited"
    BY <1>0, <1>2, PlaneFrame DEF Main, Fleet
  <1>4. airPc[b] = "broadcast" /\ airMsg[b].type # "End" => planesLeft'[b] = planesLeft[b]
    <2>1. CASE PlaneCount(p) /\ b = AirlineOf[p]
      <3>1. ~AirHolds(b)
        BY <2>1, CountGoes DEF TurnInv, LockInv, LockOwned
      <3>2. Call \in DOMAIN StageOf
        BY DEF Call, StageOf
      <3> QED
        BY <1>0, <3>1, <3>2 DEF AirHolds, Main
    <2>2. CASE b # AirlineOf[p]
      BY <2>2, PlaneFrame
    <2>3. CASE ~PlaneCount(p)
      BY <2>3, PeekGoes, StepGoes, RequestGoes, UnloadedGoes, ContinueGoes, DestinationGoes,
         ReportGoes, UnlockGoes DEF PlaneThread
    <2> QED
      BY <2>1, <2>2, <2>3
  <1> QED
    BY <1>0, <1>1, <1>3, <1>4 DEF Main

-----------------------------------------------------------------------------
(* The requests and the answers. *)

NoRequestAdded == \/ mapInbox' = mapInbox
                  \/ mapInbox # <<>> /\ mapInbox' = Tail(mapInbox)
                  \/ \E m : m.type \in Returns /\ mapInbox' = Append(mapInbox, m)

NoAnswerAdded(a) == \/ inbox'[a] = inbox[a]
                    \/ inbox[a] # <<>> /\ inbox'[a] = Tail(inbox[a])
                    \/ \E m : m.type \notin Answers /\ inbox'[a] = Append(inbox[a], m)

SameHand(a) == airPc'[a] = "forward" => airPc[a] = "forward" /\ airMsg'[a] = airMsg[a]

NoMailAdded(p) == \/ queue'[p] = <<>> \/ queue'[p] = queue[p]
                  \/ InQueue(p)'.type \notin {"Stock", "Destinations"}

SameReply == /\ reply' = reply
             /\ mapPc' = "reply1" <=> mapPc = "reply1"
             /\ mapPc' = "reply2" <=> mapPc = "reply2"

InFleet(a, s) == \A k \in 1 .. Len(s) : s[k].type \in Answers => s[k].plane \in Fleet(a)

(* What Underway says of each channel, when the planes at one hop of it may      *)
(* change to others.                                                             *)
LEMMA RequestsKept ==
    ASSUME TurnInv, NEW loc, Underway(loc), NEW after,
           \A w \in Waiting(loc, "request") : w \in after, NoRequestAdded
    PROVE  OnlyOf(mapInbox', Requests \cup Returns) /\ Carries(mapInbox', Requests, after)
  <1>0. /\ IsSeq(mapInbox) /\ OnlyOf(mapInbox, Requests \cup Returns)
        /\ Carries(mapInbox, Requests, Waiting(loc, "request"))
    BY DEF TurnInv, Shapes, Underway
  <1>1. CASE mapInbox' = mapInbox
    BY <1>0, <1>1, StillCarries
  <1>2. CASE mapInbox # <<>> /\ mapInbox' = Tail(mapInbox)
    BY <1>0, <1>2, ReadCarries, ReadHolds
  <1>3. CASE \E m : m.type \in Returns /\ mapInbox' = Append(mapInbox, m)
    <2> PICK m : m.type \in Returns /\ mapInbox' = Append(mapInbox, m)
      BY <1>3
    <2>1. m.type \notin Requests
      BY DEF Requests, Returns
    <2> QED
      BY <1>0, <2>1, WriteCarries, WriteHolds
  <1> QED
    BY <1>1, <1>2, <1>3 DEF NoRequestAdded

LEMMA AnswersKept ==
    ASSUME TurnInv, NEW loc, Underway(loc), NEW after,
           \A w \in Waiting(loc, "answer") : w \in after,
           NEW a \in Airline, NoAnswerAdded(a)
    PROVE  Carries(inbox'[a], Answers, after) /\ InFleet(a, inbox'[a])
  <1>0. /\ IsSeq(inbox[a]) /\ Carries(inbox[a], Answers, Waiting(loc, "answer"))
        /\ InFleet(a, inbox[a])
    BY DEF TurnInv, Shapes, Underway, InFleet
  <1>1. CASE inbox'[a] = inbox[a]
    BY <1>0, <1>1, StillCarries
  <1>2. CASE inbox[a] # <<>> /\ inbox'[a] = Tail(inbox[a])
    <2>1. InFleet(a, Tail(inbox[a]))
      <3>1. /\ Len(inbox[a]) \in Nat \ {0} /\ Len(Tail(inbox[a])) = Len(inbox[a]) - 1
            /\ \A k \in 1 .. Len(Tail(inbox[a])) : Tail(inbox[a])[k] = inbox[a][k + 1]
        BY <1>0, <1>2, Read
      <3>2. \A k \in 1 .. Len(Tail(inbox[a])) : k + 1 \in 1 .. Len(inbox[a])
        BY <3>1
      <3> QED
        BY <1>0, <3>1, <3>2 DEF InFleet
    <2> QED
      <3> DEFINE before == Waiting(loc, "answer")
      <3>1. /\ Carries(inbox[a], Answers, before) /\ IsSeq(inbox[a])
            /\ \A w \in before : w \in after
        BY <1>0
      <3> HIDE DEF before
      <3>2. Carries(Tail(inbox[a]), Answers, after)
        BY <1>2, <3>1, ReadCarries
      <3> QED
        BY <1>2, <2>1, <3>2
  <1>3. CASE \E m : m.type \notin Answers /\ inbox'[a] = Append(inbox[a], m)
    <2> PICK m : m.type \notin Answers /\ inbox'[a] = Append(inbox[a], m)
      BY <1>3
    <2>1. InFleet(a, inbox'[a])
      <3>1. /\ Len(inbox[a]) \in Nat /\ Len(inbox'[a]) = Len(inbox[a]) + 1
            /\ \A k \in 1 .. Len(inbox[a]) : inbox'[a][k] = inbox[a][k]
            /\ inbox'[a][Len(inbox[a]) + 1] = m
        BY <1>0, Written
      <3>2. \A k \in 1 .. Len(inbox'[a]) : k \in 1 .. Len(inbox[a]) \/ k = Len(inbox[a]) + 1
        BY <3>1
      <3> QED
        BY <1>0, <3>1, <3>2 DEF InFleet
    <2> QED
      BY <1>0, <2>1, WriteCarries
  <1> QED
    BY <1>1, <1>2, <1>3 DEF NoAnswerAdded

LEMMA HandKept ==
    ASSUME NEW loc, Underway(loc), NEW after,
           \A w \in Waiting(loc, "hand") : w \in after,
           NEW a \in Airline, SameHand(a)
    PROVE  airPc'[a] = "forward" =>
              /\ airMsg'[a].type \in Answers /\ airMsg'[a].plane \in Fleet(a)
              /\ <<airMsg'[a].plane, airMsg'[a].type>> \in after
  BY DEF Underway, SameHand

LEMMA ReplyKept ==
    ASSUME NEW loc, Underway(loc), NEW after,
           \A w \in Waiting(loc, "reply") : w \in after, SameReply
    PROVE  /\ mapPc' = "reply1" <=> reply'.type = "UnloadStock"
           /\ mapPc' = "reply2" <=> reply'.type = "Destinations"
           /\ reply'.type \in Answers => <<reply'.plane, reply'.type>> \in after
  BY DEF Underway, SameReply

LEMMA MailKept ==
    ASSUME NEW loc, Underway(loc), NEW p \in Plane, NoMailAdded(p)
    PROVE  queue'[p] # <<>> /\ InQueue(p)'.type \in {"Stock", "Destinations"} => loc[p] = "mail"
  BY DEF Underway, NoMailAdded, InQueue

(* A step with no request and no answer. *)
LEMMA NoHop ==
    ASSUME TurnInv, NEW loc, Underway(loc),
           \A p \in Plane : \A type : Asks(p, type) /\ loc[p] # "mail" => Asks(p, type)',
           NoRequestAdded, SameReply,
           \A a \in Airline : NoAnswerAdded(a) /\ SameHand(a),
           \A p \in Plane : NoMailAdded(p)
    PROVE  Underway(loc)'
  <1>1. \A hop \in Hops \ {"mail"} : \A w \in Waiting(loc, hop) : w \in Waiting(loc, hop)'
    BY DEF Waiting
  <1>2. PICK requests : requests = Waiting(loc, "request")'
    OBVIOUS
  <1>3. PICK answers : answers = Waiting(loc, "answer")'
    OBVIOUS
  <1>4. PICK hands : hands = Waiting(loc, "hand")'
    OBVIOUS
  <1>5. PICK replies : replies = Waiting(loc, "reply")'
    OBVIOUS
  <1>6. OnlyOf(mapInbox', Requests \cup Returns) /\ Carries(mapInbox', Requests, requests)
    BY <1>1, <1>2, RequestsKept DEF Hops
  <1>7. \A a \in Airline : Carries(inbox'[a], Answers, answers) /\ InFleet(a, inbox'[a])
    BY <1>1, <1>3, AnswersKept DEF Hops
  <1>8. \A a \in Airline : airPc'[a] = "forward" =>
              /\ airMsg'[a].type \in Answers /\ airMsg'[a].plane \in Fleet(a)
              /\ <<airMsg'[a].plane, airMsg'[a].type>> \in hands
    BY <1>1, <1>4, HandKept DEF Hops
  <1>9. /\ mapPc' = "reply1" <=> reply'.type = "UnloadStock"
        /\ mapPc' = "reply2" <=> reply'.type = "Destinations"
        /\ reply'.type \in Answers => <<reply'.plane, reply'.type>> \in replies
    BY <1>1, <1>5, ReplyKept DEF Hops
  <1>10. \A p \in Plane : queue'[p] # <<>> /\ InQueue(p)'.type \in {"Stock", "Destinations"}
            => loc[p] = "mail"
    BY MailKept
  <1>11. loc \in [Plane -> Hops]
    BY DEF Underway
  <1> QED
    BY <1>2, <1>3, <1>4, <1>5, <1>6, <1>7, <1>8, <1>9, <1>10, <1>11 DEF Underway, InFleet

(* The request or the answer of a plane goes on to its next hop. *)
LEMMA Hop ==
    ASSUME NEW loc, loc \in [Plane -> Hops], NEW p \in Plane, NEW to \in Hops,
           \A q \in Plane : \A type : Asks(q, type) => Asks(q, type)'
    PROVE  \E next : /\ next \in [Plane -> Hops] /\ next[p] = to
                     /\ \A q \in Plane \ {p} : next[q] = loc[q]
                     /\ \A hop : \A w \in Waiting(loc, hop) :
                           (hop = loc[p] => w[1] # p) => w \in Waiting(next, hop)'
  <1>1. PICK next : next = [loc EXCEPT ![p] = to]
    OBVIOUS
  <1>2. /\ next \in [Plane -> Hops] /\ next[p] = to
        /\ \A q \in Plane \ {p} : next[q] = loc[q]
    BY <1>1
  <1>3. ASSUME NEW hop, NEW w \in Waiting(loc, hop), hop = loc[p] => w[1] # p
        PROVE  w \in Waiting(next, hop)'
    <2>1. w \in Plane \X (Requests \cup Answers) /\ Asks(w[1], w[2]) /\ loc[w[1]] = hop
      BY DEF Waiting
    <2>2. w[1] # p
      BY <1>3, <2>1
    <2>3. Asks(w[1], w[2])'
      BY <2>1
    <2>4. next[w[1]] = hop
      BY <1>2, <2>1, <2>2
    <2> QED
      BY <2>1, <2>3, <2>4 DEF Waiting
  <1> QED
    BY <1>2, <1>3

LEMMA HeadExpected ==
    ASSUME TurnInv, mapInbox # <<>>
    PROVE  /\ IsSeq(mapInbox)
           /\ mapPc = "phase1" => Head(mapInbox).type \in {"AirlineDone", "UnloadStock"}
           /\ mapPc = "phase2" => Head(mapInbox).type \in {"AirlineStatus", "CheckDestinations"}
           /\ \A loc : Underway(loc) /\ Head(mapInbox).type \in Requests =>
                 <<Head(mapInbox).plane, Head(mapInbox).type>> \in Waiting(loc, "request")
  <1> PICK st : Settled(st)
    BY DEF TurnInv
  <1>1. /\ IsSeq(mapInbox) /\ 1 \in 1 .. Len(mapInbox) /\ mapInbox[1] = Head(mapInbox)
    BY Read DEF TurnInv, Shapes
  <1>2. PICK m : m = Head(mapInbox)
    OBVIOUS
  <1>3. \A loc : Underway(loc) => /\ m.type \in Requests \cup Returns
                                  /\ m.type \in Requests =>
                                        <<m.plane, m.type>> \in Waiting(loc, "request")
    BY <1>1, <1>2 DEF Underway, OnlyOf, Carries
  <1>4. /\ m.type = "AirlineDone" => InUnload
        /\ m.type = "AirlineStatus" => InMove
    BY <1>1, <1>2 DEF Settled, Reported
  <1>5. m.type \in Requests => m.plane \in Plane /\ Asks(m.plane, m.type)
    BY <1>3 DEF TurnInv, Waiting
  <1>6. /\ m.type = "UnloadStock" => InUnload
        /\ m.type = "CheckDestinations" => InMove
    BY <1>5 DEF Settled, Located, Asks, Unloading, Moving, Requests
  <1>7. m.type \in Requests \cup Returns
    BY <1>3 DEF TurnInv
  <1> QED
    BY <1>1, <1>2, <1>3, <1>4, <1>6, <1>7 DEF Requests, Returns, InUnload, InMove

LEMMA UnderwayAtMap ==
    ASSUME TurnInv, Map \/ Signal \/ UNCHANGED vars
    PROVE  \E loc : Underway(loc)'
  <1> PICK loc : Underway(loc)
    BY DEF TurnInv
  <1>1. /\ UNCHANGED <<airPc, airMsg, planePc, queue>>
        /\ \A p \in Plane : \A type : Asks(p, type) => Asks(p, type)'
        /\ \A a \in Airline : SameHand(a)
        /\ \A p \in Plane : NoMailAdded(p)
        /\ loc \in [Plane -> Hops]
    BY MapFrame DEF Asks, SameHand, NoMailAdded, Underway
  <1>2. CASE MapTurn \/ MapAnnounce \/ MapCount \/ MapWait \/ Signal \/ UNCHANGED vars
    <2>1. NoRequestAdded
      BY <1>2, AnnounceGoes DEF NoRequestAdded, MapTurn, MapCount, MapWait, Signal, channels,
                                vars
    <2>2. SameReply
      BY <1>2, AnnounceGoes DEF SameReply, MapTurn, MapCount, MapWait, Signal, mapVars, vars,
                                AfterAnnouncing, Counted, AfterPhase
    <2>3. \A a \in Airline : NoAnswerAdded(a)
      <3>1. CASE MapAnnounce
        <4>1. PICK m : /\ m.type = Announced[mapPc]
                       /\ inbox'[i + 1] = Append(inbox[i + 1], m)
          BY <3>1, AnnounceGoes
        <4>2. m.type \notin Answers
          BY <3>1, <4>1, AnnounceGoes DEF Announced, Answers
        <4> QED
          BY <3>1, <4>1, <4>2, AnnounceGoes DEF NoAnswerAdded
      <3>2. CASE ~MapAnnounce
        <4>1. ~MapReply
          BY <2>2 DEF MapReply, AfterReply, SameReply
        <4> QED
          BY <1>2, <3>2, <4>1, InboxAtMap DEF NoAnswerAdded, Map
      <3> QED
        BY <3>1, <3>2
    <2> QED
      BY <1>1, <2>1, <2>2, <2>3, NoHop
  <1>3. CASE MapUnload \/ MapDestinations
    <2>1. PICK m : m = Head(mapInbox)
      OBVIOUS
    <2>2. mapInbox # <<>> /\ mapInbox' = Tail(mapInbox) /\ inbox' = inbox
      BY <1>3 DEF MapUnload, MapDestinations
    <2>3. /\ reply'.plane = m.plane
          /\ \/ m.type = "UnloadStock" /\ reply'.type = "UnloadStock" /\ mapPc' = "reply1"
             \/ /\ m.type = "CheckDestinations" /\ reply'.type = "Destinations"
                /\ mapPc' = "reply2"
      <3>1. CASE MapUnload
        <4>1. mapPc = "phase1" /\ m.type # "AirlineDone"
          BY <2>1, <3>1 DEF MapUnload, Counted
        <4>2. m.type = "UnloadStock"
          BY <2>1, <2>2, <4>1, HeadExpected
        <4>3. ~Unexpected("phase1", m)
          BY <4>2 DEF Unexpected, Counted, Requested
        <4>4. /\ mapPc' = "reply1"
              /\ \E s : reply' = [type |-> "UnloadStock", plane |-> m.plane, stock |-> s]
          BY <2>1, <3>1, <4>3, Zenon DEF MapUnload
        <4> QED
          BY <4>2, <4>4
      <3>2. CASE MapDestinations
        <4>1. mapPc = "phase2" /\ m.type # "AirlineStatus"
          BY <2>1, <3>2 DEF MapDestinations, Counted
        <4>2. m.type = "CheckDestinations"
          BY <2>1, <2>2, <4>1, HeadExpected
        <4>3. ~Unexpected("phase2", m)
          BY <4>2 DEF Unexpected, Counted, Requested
        <4>4. /\ mapPc' = "reply2"
              /\ \E s : reply' = [type |-> "Destinations", plane |-> m.plane, offer |-> s]
          BY <2>1, <3>2, <4>3, Zenon DEF MapDestinations
        <4> QED
          BY <4>2, <4>4
      <3> QED
        BY <1>3, <3>1, <3>2
    <2>4. m.type \in Requests /\ <<m.plane, m.type>> \in Waiting(loc, "request")
      BY <2>1, <2>2, <2>3, HeadExpected DEF Requests
    <2>5. PICK p \in Plane : p = m.plane /\ Asks(p, m.type) /\ loc[p] = "request"
      BY <2>4 DEF Waiting
    <2>6. PICK next : /\ next \in [Plane -> Hops] /\ next[p] = "reply"
                      /\ \A q \in Plane \ {p} : next[q] = loc[q]
                      /\ \A hop : \A w \in Waiting(loc, hop) :
                            (hop = loc[p] => w[1] # p) => w \in Waiting(next, hop)'
      BY <1>1, Hop DEF Hops
    <2>7. PICK requests : requests = Waiting(next, "request")'
      OBVIOUS
    <2>8. PICK answers : answers = Waiting(next, "answer")'
      OBVIOUS
    <2>9. PICK hands : hands = Waiting(next, "hand")'
      OBVIOUS
    <2>10. OnlyOf(mapInbox', Requests \cup Returns) /\ Carries(mapInbox', Requests, requests)
      <3>1. /\ IsSeq(mapInbox) /\ OnlyOf(mapInbox, Requests \cup Returns)
            /\ Carries(mapInbox, Requests, Waiting(loc, "request"))
        BY DEF TurnInv, Shapes, Underway
      <3>2. \A w \in Waiting(loc, "request") : w[1] # p => w \in requests
        BY <2>5, <2>6, <2>7
      <3>3. Carries(mapInbox', Requests, requests)
        BY <2>1, <2>2, <2>4, <2>5, <3>1, <3>2, ReadCarries
      <3> QED
        BY <2>2, <3>1, <3>3, ReadHolds
    <2>11. \A a \in Airline : Carries(inbox'[a], Answers, answers) /\ InFleet(a, inbox'[a])
      <3>1. \A w \in Waiting(loc, "answer") : w \in answers
        BY <2>5, <2>6, <2>8
      <3> QED
        BY <2>2, <3>1, AnswersKept DEF NoAnswerAdded
    <2>12. \A a \in Airline : airPc'[a] = "forward" =>
              /\ airMsg'[a].type \in Answers /\ airMsg'[a].plane \in Fleet(a)
              /\ <<airMsg'[a].plane, airMsg'[a].type>> \in hands
      <3>1. \A w \in Waiting(loc, "hand") : w \in hands
        BY <2>5, <2>6, <2>9
      <3> QED
        BY <1>1, <3>1, HandKept
    <2>13. /\ mapPc' = "reply1" <=> reply'.type = "UnloadStock"
           /\ mapPc' = "reply2" <=> reply'.type = "Destinations"
           /\ <<reply'.plane, reply'.type>> \in Waiting(next, "reply")'
      <3>1. PICK kind : kind = reply'.type
        OBVIOUS
      <3>2. Asks(p, kind)' /\ kind \in Requests \cup Answers
        BY <1>1, <2>3, <2>5, <3>1 DEF Asks, Requests, Answers
      <3>3. <<p, kind>> \in Waiting(next, "reply")'
        BY <2>6, <3>2 DEF Waiting
      <3> QED
        BY <2>3, <2>5, <3>1, <3>3
    <2>14. \A q \in Plane : queue'[q] # <<>> /\ InQueue(q)'.type \in {"Stock", "Destinations"}
              => next[q] = "mail"
      BY <1>1, <2>5, <2>6, MailKept
    <2>15. Underway(next)'
      BY <2>6, <2>7, <2>8, <2>9, <2>10, <2>11, <2>12, <2>13, <2>14 DEF Underway, InFleet
    <2> QED
      BY <2>15
  <1>4. CASE MapReply
    <2>1. PICK p \in Plane : p = reply.plane
      BY <1>4, ReplyGoes
    <2>2. PICK kind : kind = reply.type
      OBVIOUS
    <2>3. /\ mapPc \in {"reply1", "reply2"} /\ mapPc' = AfterReply[mapPc]
          /\ kind \in Answers /\ <<p, kind>> \in Waiting(loc, "reply")
          /\ reply' = Plain("None") /\ mapInbox' = mapInbox
      BY <1>4, <2>1, <2>2, ReplyGoes
    <2>4. PICK home \in Airline :
             /\ home = AirlineOf[p] /\ inbox'[home] = Append(inbox[home], reply)
             /\ \A b \in Airline \ {home} : inbox'[b] = inbox[b]
      BY <1>4, <2>1, ReplyGoes
    <2>5. Asks(p, kind) /\ loc[p] = "reply"
      BY <2>3 DEF Waiting
    <2>6. PICK next : /\ next \in [Plane -> Hops] /\ next[p] = "answer"
                      /\ \A q \in Plane \ {p} : next[q] = loc[q]
                      /\ \A hop : \A w \in Waiting(loc, hop) :
                            (hop = loc[p] => w[1] # p) => w \in Waiting(next, hop)'
      BY <1>1, Hop DEF Hops
    <2>7. PICK requests : requests = Waiting(next, "request")'
      OBVIOUS
    <2>8. PICK answers : answers = Waiting(next, "answer")'
      OBVIOUS
    <2>9. PICK hands : hands = Waiting(next, "hand")'
      OBVIOUS
    <2>10. OnlyOf(mapInbox', Requests \cup Returns) /\ Carries(mapInbox', Requests, requests)
      <3>1. \A w \in Waiting(loc, "request") : w \in requests
        BY <2>5, <2>6, <2>7
      <3> QED
        BY <2>3, <3>1, RequestsKept DEF NoRequestAdded
    <2>11. \A a \in Airline : Carries(inbox'[a], Answers, answers) /\ InFleet(a, inbox'[a])
      <3>0. \A w \in Waiting(loc, "answer") : w \in answers /\ w[1] # p
        BY <2>5, <2>6, <2>8 DEF Waiting
      <3>1. ASSUME NEW a \in Airline, a # home
            PROVE  Carries(inbox'[a], Answers, answers) /\ InFleet(a, inbox'[a])
        BY <2>4, <3>0, <3>1, AnswersKept DEF NoAnswerAdded
      <3>2. Carries(inbox'[home], Answers, answers)
        <4>1. /\ IsSeq(inbox[home])
              /\ Carries(inbox[home], Answers, Waiting(loc, "answer"))
          BY DEF TurnInv, Shapes, Underway
        <4>2. <<p, kind>> \in answers
          BY <1>1, <2>3, <2>5, <2>6, <2>8 DEF Waiting
        <4>3. \A type : <<p, type>> \notin Waiting(loc, "answer")
          BY <2>5 DEF Waiting
        <4> QED
          BY <2>1, <2>2, <2>4, <3>0, <4>1, <4>2, <4>3, WriteCarries
      <3>3. InFleet(home, inbox'[home])
        <4>1. /\ IsSeq(inbox[home]) /\ InFleet(home, inbox[home])
          BY DEF TurnInv, Shapes, Underway, InFleet
        <4>2. /\ Len(inbox[home]) \in Nat /\ Len(inbox'[home]) = Len(inbox[home]) + 1
              /\ \A k \in 1 .. Len(inbox[home]) : inbox'[home][k] = inbox[home][k]
              /\ inbox'[home][Len(inbox[home]) + 1] = reply
          BY <2>4, <4>1, Written
        <4>3. \A k \in 1 .. Len(inbox'[home]) :
                 k \in 1 .. Len(inbox[home]) \/ k = Len(inbox[home]) + 1
          BY <4>2
        <4>4. p \in Fleet(home)
          BY <2>4, PlaceOf
        <4> QED
          BY <2>1, <4>1, <4>2, <4>3, <4>4 DEF InFleet
      <3> QED
        BY <3>1, <3>2, <3>3
    <2>12. \A a \in Airline : airPc'[a] = "forward" =>
              /\ airMsg'[a].type \in Answers /\ airMsg'[a].plane \in Fleet(a)
              /\ <<airMsg'[a].plane, airMsg'[a].type>> \in hands
      <3>1. \A w \in Waiting(loc, "hand") : w \in hands
        BY <2>5, <2>6, <2>9
      <3> QED
        BY <1>1, <3>1, HandKept
    <2>13. reply'.type = "None" /\ mapPc' \in {"phase1", "phase2"}
      BY <2>3 DEF Plain, AfterReply
    <2>14. \A q \in Plane : queue'[q] # <<>> /\ InQueue(q)'.type \in {"Stock", "Destinations"}
              => next[q] = "mail"
      BY <1>1, <2>5, <2>6, MailKept
    <2>15. Underway(next)'
      BY <2>6, <2>7, <2>8, <2>9, <2>10, <2>11, <2>12, <2>13, <2>14
         DEF Underway, InFleet, Answers
    <2> QED
      BY <2>15
  <1> QED
    BY <1>2, <1>3, <1>4 DEF Map

LEMMA UnderwayAtAirline ==
    ASSUME TurnInv, NEW a \in Airline, AirlineMain(a)
    PROVE  \E loc : Underway(loc)'
  <1> PICK loc : Underway(loc)
    BY DEF TurnInv
  <1>1. /\ UNCHANGED <<mapPc, reply, planePc>>
        /\ \A p \in Plane : \A type : Asks(p, type) => Asks(p, type)'
        /\ \A b \in Airline : NoAnswerAdded(b)
        /\ SameReply
        /\ loc \in [Plane -> Hops]
    BY AirFrame DEF Asks, NoAnswerAdded, SameReply, Underway
  <1>2. \A b \in Airline \ {a} : SameHand(b)
    BY AirFrame DEF SameHand
  <1>3. CASE ~AirReadReply(a) /\ ~AirForward(a)
    <2>1. NoRequestAdded
      <3>1. CASE AirReady(a)
        <4>1. Report(a).type \in Returns
          BY DEF Report, Plain, Returns
        <4> QED
          BY <3>1, <4>1, ReadyGoes DEF NoRequestAdded
      <3>2. CASE ~AirReady(a)
        BY <1>3, <3>2 DEF NoRequestAdded, AirlineMain, AirReadPhase, AirReadEnd, AirStart,
                          AirBroadcast, AirBroadcastDone, AirUnlock, AirJoin, channels
      <3> QED
        BY <3>1, <3>2
    <2>2. SameHand(a)
      BY <1>3, CallRead, EndRead, StartGoes, BroadcastGoes, BroadcastEnds, ReadyGoes,
         AirUnlockGoes, JoinGoes DEF SameHand, AirlineMain
    <2>3. \A p \in Plane : NoMailAdded(p)
      <3>1. CASE AirBroadcast(a)
        <4>1. airMsg[a].type \in Calls \cup {"End"}
          BY <3>1, BroadcastGoes DEF TurnInv, Main, Call, Calls
        <4> QED
          BY <3>1, <4>1, BroadcastGoes DEF NoMailAdded, Calls
      <3>2. CASE ~AirBroadcast(a)
        <4>1. queue' = queue
          BY <1>3, <3>2, CallRead, EndRead, StartGoes, BroadcastEnds, ReadyGoes,
             AirUnlockGoes, JoinGoes DEF AirlineMain
        <4> QED
          BY <4>1 DEF NoMailAdded
      <3> QED
        BY <3>1, <3>2
    <2> QED
      BY <1>1, <1>2, <2>1, <2>2, <2>3, NoHop
  <1>4. CASE AirReadReply(a)
    <2>1. PICK m : m = Head(inbox[a])
      OBVIOUS
    <2>2. /\ inbox[a] # <<>> /\ inbox'[a] = Tail(inbox[a]) /\ IsSeq(inbox[a])
          /\ m.type \in Answers /\ airPc[a] = "listen" /\ airMsg'[a] = m
          /\ UNCHANGED <<mapInbox, queue>>
      BY <1>4, <2>1, ReplyRead
    <2>3. /\ <<m.plane, m.type>> \in Waiting(loc, "answer")
          /\ m.plane \in Fleet(a)
      <3>1. /\ Carries(inbox[a], Answers, Waiting(loc, "answer")) /\ InFleet(a, inbox[a])
        BY DEF Underway, InFleet
      <3>2. inbox[a][1] = m /\ 1 \in 1 .. Len(inbox[a])
        BY <2>1, <2>2, Read
      <3> QED
        BY <2>2, <3>1, <3>2 DEF Carries, InFleet
    <2>4. PICK p \in Plane : p = m.plane /\ Asks(p, m.type) /\ loc[p] = "answer"
      BY <2>3 DEF Waiting
    <2>5. PICK next : /\ next \in [Plane -> Hops] /\ next[p] = "hand"
                      /\ \A q \in Plane \ {p} : next[q] = loc[q]
                      /\ \A hop : \A w \in Waiting(loc, hop) :
                            (hop = loc[p] => w[1] # p) => w \in Waiting(next, hop)'
      BY <1>1, Hop DEF Hops
    <2>6. PICK requests : requests = Waiting(next, "request")'
      OBVIOUS
    <2>7. PICK answers : answers = Waiting(next, "answer")'
      OBVIOUS
    <2>8. PICK hands : hands = Waiting(next, "hand")'
      OBVIOUS
    <2>9. PICK replies : replies = Waiting(next, "reply")'
      OBVIOUS
    <2>10. OnlyOf(mapInbox', Requests \cup Returns) /\ Carries(mapInbox', Requests, requests)
      <3>1. \A w \in Waiting(loc, "request") : w \in requests
        BY <2>4, <2>5, <2>6
      <3> QED
        BY <2>2, <3>1, RequestsKept DEF NoRequestAdded
    <2>11. \A b \in Airline : Carries(inbox'[b], Answers, answers) /\ InFleet(b, inbox'[b])
      <3>1. \A w \in Waiting(loc, "answer") : w[1] # p => w \in answers
        BY <2>4, <2>5, <2>7
      <3>2. ASSUME NEW b \in Airline, b # a
            PROVE  Carries(inbox'[b], Answers, answers) /\ InFleet(b, inbox'[b])
        <4>1. /\ inbox'[b] = inbox[b] /\ IsSeq(inbox[b]) /\ InFleet(b, inbox[b])
              /\ Carries(inbox[b], Answers, Waiting(loc, "answer"))
          <5>1. b \in Airline \ {a}
            BY <3>2
          <5>2. inbox'[b] = inbox[b]
            BY <5>1, AirFrame
          <5>3. IsSeq(inbox[b])
            BY DEF TurnInv, Shapes
          <5> QED
            BY <5>2, <5>3 DEF Underway, InFleet
        <4>2. \A k \in 1 .. Len(inbox[b]) : inbox[b][k].type \in Answers
                 => inbox[b][k].plane # p
          BY <2>3, <2>4, <3>2, <4>1, PlaceOf DEF InFleet
        <4>3. \A k \in 1 .. Len(inbox[b]) :
                 inbox[b][k].type \in Answers
                 /\ <<inbox[b][k].plane, inbox[b][k].type>> \in Waiting(loc, "answer")
                    => <<inbox[b][k].plane, inbox[b][k].type>> \in answers
          BY <3>1, <4>2
        <4> QED
          BY <4>1, <4>3, StillCarries
      <3>3. Carries(inbox'[a], Answers, answers)
        <4> DEFINE before == Waiting(loc, "answer")
        <4>1. /\ Carries(inbox[a], Answers, before) /\ IsSeq(inbox[a]) /\ inbox[a] # <<>>
              /\ \A w \in before : (Head(inbox[a]).type \in Answers => w[1] # Head(inbox[a]).plane)
                                       => w \in answers
          BY <2>1, <2>2, <2>4, <3>1 DEF Underway
        <4> HIDE DEF before
        <4>2. Carries(Tail(inbox[a]), Answers, answers)
          BY <4>1, ReadCarries
        <4> QED
          BY <2>2, <4>2
      <3>4. InFleet(a, inbox'[a])
        BY <1>1, AnswersKept
      <3> QED
        BY <3>2, <3>3, <3>4
    <2>12. \A b \in Airline : airPc'[b] = "forward" =>
              /\ airMsg'[b].type \in Answers /\ airMsg'[b].plane \in Fleet(b)
              /\ <<airMsg'[b].plane, airMsg'[b].type>> \in hands
      <3>1. \A w \in Waiting(loc, "hand") : w \in hands
        BY <2>4, <2>5, <2>8
      <3>2. <<p, m.type>> \in hands
        BY <1>1, <2>2, <2>4, <2>5, <2>8 DEF Waiting
      <3>3. ASSUME NEW b \in Airline, b # a
            PROVE  airPc'[b] = "forward" =>
                      /\ airMsg'[b].type \in Answers /\ airMsg'[b].plane \in Fleet(b)
                      /\ <<airMsg'[b].plane, airMsg'[b].type>> \in hands
        BY <1>2, <3>1, <3>3, HandKept
      <3> QED
        BY <2>2, <2>3, <2>4, <3>2, <3>3
    <2>13. /\ mapPc' = "reply1" <=> reply'.type = "UnloadStock"
           /\ mapPc' = "reply2" <=> reply'.type = "Destinations"
           /\ reply'.type \in Answers => <<reply'.plane, reply'.type>> \in replies
      <3>1. \A w \in Waiting(loc, "reply") : w \in replies
        BY <2>4, <2>5, <2>9
      <3> QED
        BY <1>1, <3>1, ReplyKept
    <2>14. \A q \in Plane : queue'[q] # <<>> /\ InQueue(q)'.type \in {"Stock", "Destinations"}
              => next[q] = "mail"
      <3>1. \A q \in Plane : NoMailAdded(q)
        BY <2>2 DEF NoMailAdded
      <3>2. \A q \in Plane :
               queue'[q] # <<>> /\ InQueue(q)'.type \in {"Stock", "Destinations"} => loc[q] = "mail"
        BY <3>1, MailKept
      <3> QED
        BY <2>4, <2>5, <3>2
    <2>15. Underway(next)'
      BY <2>5, <2>6, <2>7, <2>8, <2>9, <2>10, <2>11, <2>12, <2>13, <2>14
         DEF Underway, InFleet
    <2> QED
      BY <2>15
  <1>5. CASE AirForward(a)
    <2>1. PICK p \in Plane : /\ p = airMsg[a].plane
                             /\ \A q \in Plane \ {p} : queue'[q] = queue[q]
      BY <1>5, ForwardGoes
    <2>2. /\ airPc[a] = "forward" /\ airPc'[a] = "listen"
          /\ UNCHANGED <<mapInbox, inbox, airMsg>>
      BY <1>5, ForwardGoes
    <2>3. PICK kind : kind = airMsg[a].type
      OBVIOUS
    <2>4. kind \in Answers /\ p \in Fleet(a) /\ <<p, kind>> \in Waiting(loc, "hand")
      BY <2>1, <2>2, <2>3 DEF Underway
    <2>5. Asks(p, kind) /\ loc[p] = "hand"
      BY <2>4 DEF Waiting
    <2>6. PICK next : /\ next \in [Plane -> Hops] /\ next[p] = "mail"
                      /\ \A q \in Plane \ {p} : next[q] = loc[q]
                      /\ \A hop : \A w \in Waiting(loc, hop) :
                            (hop = loc[p] => w[1] # p) => w \in Waiting(next, hop)'
      BY <1>1, Hop DEF Hops
    <2>7. PICK requests : requests = Waiting(next, "request")'
      OBVIOUS
    <2>8. PICK answers : answers = Waiting(next, "answer")'
      OBVIOUS
    <2>9. PICK hands : hands = Waiting(next, "hand")'
      OBVIOUS
    <2>10. PICK replies : replies = Waiting(next, "reply")'
      OBVIOUS
    <2>11. OnlyOf(mapInbox', Requests \cup Returns) /\ Carries(mapInbox', Requests, requests)
      <3>1. \A w \in Waiting(loc, "request") : w \in requests
        BY <2>5, <2>6, <2>7
      <3> QED
        BY <2>2, <3>1, RequestsKept DEF NoRequestAdded
    <2>12. \A b \in Airline : Carries(inbox'[b], Answers, answers) /\ InFleet(b, inbox'[b])
      <3>1. \A w \in Waiting(loc, "answer") : w \in answers
        BY <2>5, <2>6, <2>8
      <3> QED
        BY <1>1, <3>1, AnswersKept
    <2>13. \A b \in Airline : airPc'[b] = "forward" =>
              /\ airMsg'[b].type \in Answers /\ airMsg'[b].plane \in Fleet(b)
              /\ <<airMsg'[b].plane, airMsg'[b].type>> \in hands
      <3>1. SUFFICES ASSUME NEW b \in Airline, airPc'[b] = "forward"
                     PROVE  /\ airMsg'[b].type \in Answers /\ airMsg'[b].plane \in Fleet(b)
                            /\ <<airMsg'[b].plane, airMsg'[b].type>> \in hands
        OBVIOUS
      <3>2. b # a /\ airPc[b] = "forward"
        BY <2>2, <3>1, AirFrame
      <3>3. PICK m : m = airMsg[b]
        OBVIOUS
      <3>4. /\ m.type \in Answers /\ m.plane \in Fleet(b)
            /\ <<m.plane, m.type>> \in Waiting(loc, "hand")
        BY <3>2, <3>3 DEF Underway
      <3>5. m.plane # p
        BY <2>4, <3>2, <3>4, PlaceOf
      <3>6. <<m.plane, m.type>> \in hands
        BY <2>5, <2>6, <2>9, <3>4, <3>5
      <3> QED
        BY <2>2, <3>3, <3>4, <3>6
    <2>14. /\ mapPc' = "reply1" <=> reply'.type = "UnloadStock"
           /\ mapPc' = "reply2" <=> reply'.type = "Destinations"
           /\ reply'.type \in Answers => <<reply'.plane, reply'.type>> \in replies
      <3>1. \A w \in Waiting(loc, "reply") : w \in replies
        BY <2>5, <2>6, <2>10
      <3> QED
        BY <1>1, <3>1, ReplyKept
    <2>15. \A q \in Plane : queue'[q] # <<>> /\ InQueue(q)'.type \in {"Stock", "Destinations"}
              => next[q] = "mail"
      <3>1. ASSUME NEW q \in Plane, q # p
            PROVE  queue'[q] # <<>> /\ InQueue(q)'.type \in {"Stock", "Destinations"}
                      => next[q] = "mail"
        <4>1. NoMailAdded(q)
          BY <2>1, <3>1 DEF NoMailAdded
        <4> QED
          BY <2>6, <3>1, <4>1, MailKept
      <3> QED
        BY <2>6, <3>1
    <2>16. Underway(next)'
      BY <2>6, <2>7, <2>8, <2>9, <2>10, <2>11, <2>12, <2>13, <2>14, <2>15
         DEF Underway, InFleet
    <2> QED
      BY <2>16
  <1> QED
    BY <1>3, <1>4, <1>5

LEMMA UnderwayAtPlane ==
    ASSUME TurnInv, NEW p \in Plane, PlaneThread(p)
    PROVE  \E loc : Underway(loc)'
  <1> PICK loc : Underway(loc)
    BY DEF TurnInv
  <1>1. /\ UNCHANGED <<mapPc, reply, inbox, airPc, airMsg>>
        /\ SameReply /\ loc \in [Plane -> Hops]
        /\ \A a \in Airline : NoAnswerAdded(a) /\ SameHand(a)
    BY PlaneFrame DEF NoAnswerAdded, SameHand, SameReply, Underway
  <1>2. \A q \in Plane \ {p} : \A type : Asks(q, type) => Asks(q, type)'
    BY PlaneFrame DEF Asks
  <1>3. \A q \in Plane : NoMailAdded(q)
    <2>1. \A q \in Plane \ {p} : NoMailAdded(q)
      BY PlaneFrame DEF NoMailAdded
    <2>2. queue'[p] = queue[p] \/ queue'[p] = <<>>
      BY PeekGoes, StepGoes, RequestGoes, UnloadedGoes, ContinueGoes, DestinationGoes,
         CountGoes, ReportGoes, UnlockGoes DEF PlaneThread
    <2> QED
      BY <2>1, <2>2 DEF NoMailAdded
  <1>4. CASE ~PlaneRequest(p)
    <2>1. \A type : Asks(p, type) /\ loc[p] # "mail" => Asks(p, type)'
      <3>1. planePc[p] \in {"awaitStock", "awaitDest"} => loc[p] = "mail"
        BY <1>4, PeekGoes, StepGoes, UnloadedGoes, ContinueGoes, DestinationGoes, CountGoes,
           ReportGoes, UnlockGoes
           DEF PlaneThread, AfterPeek, ReportAt, AfterReport, Underway
      <3> QED
        BY <3>1 DEF Asks
    <2>2. NoRequestAdded
      <3>1. CASE PlaneReport(p)
        <4>1. Report(AirlineOf[p]).type \in Returns
          BY DEF Report, Plain, Returns
        <4> QED
          BY <3>1, <4>1, ReportGoes DEF NoRequestAdded
      <3>2. CASE ~PlaneReport(p)
        BY <1>4, <3>2, PeekGoes, StepGoes, UnloadedGoes, ContinueGoes, DestinationGoes,
           CountGoes, UnlockGoes DEF PlaneThread, NoRequestAdded
      <3> QED
        BY <3>1, <3>2
    <2>3. \A q \in Plane : \A type : Asks(q, type) /\ loc[q] # "mail" => Asks(q, type)'
      BY <1>2, <2>1
    <2> QED
      BY <1>1, <1>3, <2>2, <2>3, NoHop
  <1>5. CASE PlaneRequest(p)
    <2>1. PICK m : /\ m.type = RequestOf[planePc[p]] /\ m.plane = p
                   /\ mapInbox' = Append(mapInbox, m)
      BY <1>5, RequestGoes
    <2>2. /\ planePc[p] \in {"sendUnload", "sendCheck"} /\ queue' = queue
          /\ \A type : ~Asks(p, type)
      BY <1>5, RequestGoes DEF RequestOf, Asks
    <2>3. m.type \in Requests /\ Asks(p, m.type)'
      BY <1>5, <2>1, <2>2, RequestGoes DEF RequestOf, AfterRequest, Asks, Requests
    <2>4. \A q \in Plane : \A type : Asks(q, type) => Asks(q, type)'
      BY <1>2, <2>2
    <2>5. PICK next : /\ next \in [Plane -> Hops] /\ next[p] = "request"
                      /\ \A q \in Plane \ {p} : next[q] = loc[q]
                      /\ \A hop : \A w \in Waiting(loc, hop) :
                            (hop = loc[p] => w[1] # p) => w \in Waiting(next, hop)'
      BY <1>1, <2>4, Hop DEF Hops
    <2>6. \A hop : \A w \in Waiting(loc, hop) : w[1] # p /\ w \in Waiting(next, hop)'
      BY <2>2, <2>5 DEF Waiting
    <2>7. PICK requests : requests = Waiting(next, "request")'
      OBVIOUS
    <2>8. PICK answers : answers = Waiting(next, "answer")'
      OBVIOUS
    <2>9. PICK hands : hands = Waiting(next, "hand")'
      OBVIOUS
    <2>10. PICK replies : replies = Waiting(next, "reply")'
      OBVIOUS
    <2>11. OnlyOf(mapInbox', Requests \cup Returns) /\ Carries(mapInbox', Requests, requests)
      <3> DEFINE before == Waiting(loc, "request")
      <3>1. /\ IsSeq(mapInbox) /\ OnlyOf(mapInbox, Requests \cup Returns)
            /\ Carries(mapInbox, Requests, before)
        BY DEF TurnInv, Shapes, Underway
      <3>2. /\ \A w \in before : w \in requests
            /\ \A type : <<p, type>> \notin before
        BY <2>6, <2>7
      <3>3. <<p, m.type>> \in requests
        <4>1. PICK kind : kind = m.type
          OBVIOUS
        <4>2. Asks(p, kind)' /\ kind \in Requests
          BY <2>3, <4>1
        <4>3. <<p, kind>> \in Waiting(next, "request")'
          BY <2>5, <4>2 DEF Waiting
        <4> QED
          BY <2>7, <4>1, <4>3
      <3> HIDE DEF before
      <3>4. Carries(Append(mapInbox, m), Requests, requests)
        BY <2>1, <3>1, <3>2, <3>3, WriteCarries
      <3> QED
        BY <2>1, <2>3, <3>1, <3>4, WriteHolds
    <2>12. \A b \in Airline : Carries(inbox'[b], Answers, answers) /\ InFleet(b, inbox'[b])
      <3>1. \A w \in Waiting(loc, "answer") : w \in answers
        BY <2>6, <2>8
      <3> QED
        BY <1>1, <3>1, AnswersKept
    <2>13. \A b \in Airline : airPc'[b] = "forward" =>
              /\ airMsg'[b].type \in Answers /\ airMsg'[b].plane \in Fleet(b)
              /\ <<airMsg'[b].plane, airMsg'[b].type>> \in hands
      <3>1. \A w \in Waiting(loc, "hand") : w \in hands
        BY <2>6, <2>9
      <3> QED
        BY <1>1, <3>1, HandKept
    <2>14. /\ mapPc' = "reply1" <=> reply'.type = "UnloadStock"
           /\ mapPc' = "reply2" <=> reply'.type = "Destinations"
           /\ reply'.type \in Answers => <<reply'.plane, reply'.type>> \in replies
      <3>1. \A w \in Waiting(loc, "reply") : w \in replies
        BY <2>6, <2>10
      <3> QED
        BY <1>1, <3>1, ReplyKept
    <2>15. \A q \in Plane : queue'[q] # <<>> /\ InQueue(q)'.type \in {"Stock", "Destinations"}
              => next[q] = "mail"
      <3>1. queue[p] # <<>> => InQueue(p).type \notin {"Stock", "Destinations"}
        BY <2>2 DEF TurnInv, Mailbox, InMail
      <3>2. queue'[p] # <<>> => InQueue(p)'.type \notin {"Stock", "Destinations"}
        BY <2>2, <3>1 DEF InQueue
      <3> QED
        BY <1>3, <2>5, <3>2, MailKept
    <2>16. Underway(next)'
      BY <2>5, <2>7, <2>8, <2>9, <2>10, <2>11, <2>12, <2>13, <2>14, <2>15
         DEF Underway, InFleet
    <2> QED
      BY <2>16
  <1> QED
    BY <1>4, <1>5

-----------------------------------------------------------------------------
(* Where the airlines are with their reports. *)

SameTurn == /\ mapPc' \in {"step", "continue"} <=> mapPc \in {"step", "continue"}
            /\ InUnload' <=> InUnload
            /\ InMove' <=> InMove
            /\ i' = i

LEMMA PlacedKept ==
    ASSUME NEW a \in Airline, NEW place, Placed(a, place), SameTurn,
           Holds(inbox'[a], Calls) <=> Holds(inbox[a], Calls),
           airPc'[a] = "start" <=> airPc[a] = "start",
           airPc'[a] = "ready" <=> airPc[a] = "ready",
           planesLeft'[a] # 0 <=> planesLeft[a] # 0,
           (\E p \in Fleet(a) : planePc'[p] \in {"report1", "report2"})
              <=> (\E p \in Fleet(a) : planePc[p] \in {"report1", "report2"}),
           stage'[a] = stage[a]
    PROVE  Placed(a, place)'
  <1>1. InTurn' <=> InTurn
    BY DEF SameTurn, InTurn
  <1>2. CallStage' = CallStage
    BY DEF SameTurn, CallStage
  <1>3. mapPc' \in {"step", "continue"} /\ a > i' <=> mapPc \in {"step", "continue"} /\ a > i
    BY DEF SameTurn
  <1> QED
    BY <1>1, <1>2, <1>3 DEF Placed

LEMMA LocatedKept ==
    ASSUME NEW st, NEW next, NEW p \in Plane, Located(st, p), SameTurn,
           planePc'[p] = planePc[p], queue'[p] = queue[p], done'[p] = done[p],
           airPc'[AirlineOf[p]] = "broadcast" /\ p \in visit'[AirlineOf[p]]
              <=> airPc[AirlineOf[p]] = "broadcast" /\ p \in visit[AirlineOf[p]],
           airPc[AirlineOf[p]] = "broadcast" => airMsg'[AirlineOf[p]] = airMsg[AirlineOf[p]],
           next[AirlineOf[p]] \in Fresh <=> st[AirlineOf[p]] \in Fresh
    PROVE  Located(next, p)'
  <1>1. Told(p)' <=> Told(p)
    BY DEF Told, InQueue
  <1>2. ToBeTold(p)' <=> ToBeTold(p)
    BY DEF ToBeTold
  <1> QED
    BY <1>1, <1>2 DEF Located, SameTurn

LEMMA ReportIsAReport ==
    ASSUME NEW a \in Airline
    PROVE  Report(a) \in Reports
  <1>1. Cardinality(InGame(a)) \in Nat
    <2>1. InGame(a) \in SUBSET Fleet(a)
      BY DEF InGame
    <2> QED
      BY <2>1, FleetFinite, NoFewer
  <1> QED
    BY <1>1 DEF Report, Reports

NoReportAdded == \/ mapInbox' = mapInbox
                 \/ \E m : m.type \notin Returns /\ mapInbox' = Append(mapInbox, m)
                 \/ /\ mapInbox # <<>> /\ Head(mapInbox).type \notin Returns
                    /\ mapInbox' = Tail(mapInbox)

(* What Reported says of one message, for a given phase and given flags. *)
TrueReport(m, st, unload, move, flags) ==
    /\ m.type = "AirlineDone" => m = Plain("AirlineDone") /\ unload
    /\ m.type = "AirlineStatus" =>
          /\ m \in Reports /\ move /\ st[m.airline] = "reported"
          /\ m.flying = Cardinality({p \in Fleet(m.airline) : ~flags[p]})

LEMMA ReportedMeans ==
    ASSUME NEW st
    PROVE  /\ Reported(st) <=>
                 \A k \in 1 .. Len(mapInbox) :
                    TrueReport(mapInbox[k], st, InUnload, InMove, done)
           /\ Reported(st)' <=>
                 \A k \in 1 .. Len(mapInbox') :
                    TrueReport(mapInbox'[k], st, InUnload', InMove', done')
  BY DEF Reported, TrueReport, InGame

LEMMA ReportsHeld ==
    ASSUME TurnInv, NEW st, NEW next, Reported(st), SameTurn,
           \/ NoReportAdded
           \/ mapInbox # <<>> /\ mapInbox' = Tail(mapInbox),
           \A b : st[b] = "reported" => next[b] = "reported",
           \A b : st[b] = "reported" => InGame(b)' = InGame(b) \/ mapInbox = <<>>
    PROVE  Reported(next)'
  <1>0. IsSeq(mapInbox)
    BY DEF TurnInv, Shapes
  <1> DEFINE Good(m) == TrueReport(m, next, InUnload', InMove', done')
  <1>1. \A k \in 1 .. Len(mapInbox) : Good(mapInbox[k])
    <2> SUFFICES ASSUME NEW k \in 1 .. Len(mapInbox)
                 PROVE  Good(mapInbox[k])
      OBVIOUS
    <2>1. mapInbox # <<>>
      OBVIOUS
    <2>2. PICK m : m = mapInbox[k]
      OBVIOUS
    <2>3. TrueReport(m, st, InUnload, InMove, done)
      BY <2>2, ReportedMeans
    <2>4. \A b : st[b] = "reported" =>
             {p \in Fleet(b) : ~done'[p]} = {p \in Fleet(b) : ~done[p]}
      BY <2>1 DEF InGame
    <2> QED
      BY <2>2, <2>3, <2>4 DEF SameTurn, TrueReport
  <1> HIDE DEF Good
  <1>2. \A k \in 1 .. Len(mapInbox') : Good(mapInbox'[k])
    <2>1. CASE mapInbox' = mapInbox
      BY <1>1, <2>1
    <2>2. CASE \E m : m.type \notin Returns /\ mapInbox' = Append(mapInbox, m)
      <3> PICK m : m.type \notin Returns /\ mapInbox' = Append(mapInbox, m)
        BY <2>2
      <3>1. Good(m)
        BY DEF Good, TrueReport, Returns
      <3>2. /\ Len(mapInbox) \in Nat /\ Len(mapInbox') = Len(mapInbox) + 1
            /\ \A k \in 1 .. Len(mapInbox) : mapInbox'[k] = mapInbox[k]
            /\ mapInbox'[Len(mapInbox) + 1] = m
        BY <1>0, Written
      <3>3. \A k \in 1 .. Len(mapInbox') : k \in 1 .. Len(mapInbox) \/ k = Len(mapInbox) + 1
        BY <3>2
      <3> QED
        BY <1>1, <3>1, <3>2, <3>3
    <2>3. CASE mapInbox # <<>> /\ mapInbox' = Tail(mapInbox)
      <3>1. /\ Len(mapInbox) \in Nat \ {0} /\ Len(mapInbox') = Len(mapInbox) - 1
            /\ \A k \in 1 .. Len(mapInbox') : mapInbox'[k] = mapInbox[k + 1]
        BY <1>0, <2>3, Read
      <3>2. \A k \in 1 .. Len(mapInbox') : k + 1 \in 1 .. Len(mapInbox)
        BY <3>1
      <3> QED
        BY <1>1, <3>1, <3>2
    <2> QED
      BY <2>1, <2>2, <2>3 DEF NoReportAdded
  <1> QED
    BY <1>2, ReportedMeans DEF Good

LEMMA TallyHeld ==
    ASSUME TurnInv, NEW st, NEW next, Tallied(st), Reported(st), SameTurn, NoReportAdded,
           InTurn \/ mapInbox' = mapInbox,
           \A a \in Airline : next[a] \in Owing <=> st[a] \in Owing
    PROVE  Tallied(next)'
  <1>1. Among(next, Airline, Owing) = Among(st, Airline, Owing)
    BY DEF Among
  <1>2. HowMany(mapInbox', Reports) = HowMany(mapInbox, Reports)
    <2>1. IsSeq(mapInbox)
      BY DEF TurnInv, Shapes
    <2>2. \A m \in Reports : m.type \in Returns
      BY DEF Reports, Returns, Plain
    <2>3. CASE mapInbox' = mapInbox
      BY <2>3
    <2>4. CASE \E m : m.type \notin Returns /\ mapInbox' = Append(mapInbox, m)
      <3> PICK m : m.type \notin Returns /\ mapInbox' = Append(mapInbox, m)
        BY <2>4
      <3>1. m \notin Reports
        BY <2>2
      <3>2. PICK M : mapInbox \in Seq(M) /\ m \in M
        <4>1. mapInbox \in Seq({mapInbox[k] : k \in 1 .. Len(mapInbox)})
          BY <2>1 DEF IsSeq
        <4>2. PICK S : S = {mapInbox[k] : k \in 1 .. Len(mapInbox)}
          OBVIOUS
        <4>3. mapInbox \in Seq(S \cup {m}) /\ m \in S \cup {m}
          BY <4>1, <4>2
        <4> QED
          BY <4>3
      <3>3. HowMany(mapInbox', Reports)
               = HowMany(mapInbox, Reports) + (IF m \in Reports THEN 1 ELSE 0)
        BY <3>2, OneWritten
      <3>4. HowMany(mapInbox, Reports) \in Nat
        BY <2>1, TallyIsNat
      <3> HIDE DEF Reports
      <3> QED
        BY <3>1, <3>3, <3>4
    <2>5. CASE mapInbox # <<>> /\ Head(mapInbox).type \notin Returns
               /\ mapInbox' = Tail(mapInbox)
      <3>1. Head(mapInbox) \notin Reports
        BY <2>2, <2>5
      <3>2. HowMany(mapInbox, Reports)
               = HowMany(Tail(mapInbox), Reports) + (IF Head(mapInbox) \in Reports THEN 1 ELSE 0)
        BY <2>1, <2>5, OneRead DEF IsSeq
      <3>3. HowMany(Tail(mapInbox), Reports) \in Nat
        BY <2>1, <2>5, Read, TallyIsNat
      <3> HIDE DEF Reports
      <3> QED
        BY <2>5, <3>1, <3>2, <3>3
    <2> QED
      BY <2>3, <2>4, <2>5 DEF NoReportAdded
  <1>3. InTurn' <=> InTurn
    BY DEF SameTurn, InTurn
  <1>4. Heard' = Heard
    BY DEF SameTurn, Heard
  <1> QED
    BY <1>1, <1>2, <1>3, <1>4 DEF Tallied

(* An airline that was about to report has written its report. *)
LEMMA ReportWritten ==
    ASSUME TurnInv, NEW st, Settled(st), SameTurn, NEW a \in Airline,
           st[a] \in {"ready", "reporting"}, done' = done,
           mapInbox' = Append(mapInbox, Report(a))
    PROVE  LET next == [st EXCEPT ![a] = "reported"]
           IN  Tallied(next)' /\ Reported(next)'
  <1>1. PICK next : next = [st EXCEPT ![a] = "reported"]
    OBVIOUS
  <1>2. /\ st \in [Airline -> Stations] /\ Placed(a, st[a]) /\ Tallied(st) /\ Reported(st)
    BY DEF Settled, Stationed
  <1>3. InTurn /\ stage[a] = CallStage
    BY <1>2 DEF Placed
  <1>4. PICK m : m = Report(a)
    OBVIOUS
  <1>5. m \in Reports
    BY <1>4, ReportIsAReport
  <1>6. IsSeq(mapInbox)
    BY DEF TurnInv, Shapes
  <1>7. Tallied(next)'
    <2>1. Cardinality(Among(next, Airline, Owing)) = Cardinality(Among(st, Airline, Owing)) - 1
      <3>1. OneMoves(st, next, Airline, a, "reported")
        BY <1>1, <1>2 DEF OneMoves
      <3>2. st[a] \in Owing /\ "reported" \notin Owing
        BY DEF Owing
      <3> QED
        BY <3>1, <3>2, OneStep, OwingFinite
    <2>2. HowMany(mapInbox', Reports) = HowMany(mapInbox, Reports) + 1
      <3>1. PICK M : mapInbox \in Seq(M) /\ m \in M
        <4>1. PICK S : S = {mapInbox[k] : k \in 1 .. Len(mapInbox)}
          OBVIOUS
        <4>2. mapInbox \in Seq(S \cup {m}) /\ m \in S \cup {m}
          BY <1>6, <4>1 DEF IsSeq
        <4> QED
          BY <4>2
      <3>2. HowMany(mapInbox', Reports)
               = HowMany(mapInbox, Reports) + (IF m \in Reports THEN 1 ELSE 0)
        BY <1>4, <3>1, OneWritten
      <3> HIDE DEF Reports
      <3> QED
        BY <1>5, <3>2
    <2>3. /\ Cardinality(Among(st, Airline, Owing)) \in Nat /\ HowMany(mapInbox, Reports) \in Nat
          /\ Heard \in Int /\ NumAirlines \in Int
      BY <1>6, OwingFinite, TallyIsNat, SizeAssumption DEF TurnInv, LockInv, ControlOK, Heard
    <2>4. Heard' = Heard /\ InTurn'
      BY <1>3 DEF SameTurn, Heard, InTurn
    <2>5. Cardinality(Among(st, Airline, Owing)) + HowMany(mapInbox, Reports) + Heard
             = NumAirlines
      BY <1>2, <1>3 DEF Tallied
    <2>6. Cardinality(Among(next, Airline, Owing)) + HowMany(mapInbox', Reports) + Heard
             = NumAirlines
      <3> HIDE DEF Heard
      <3> QED
        BY <2>1, <2>2, <2>3, <2>5
    <2> QED
      BY <2>4, <2>6 DEF Tallied
  <1>8. Reported(next)'
    <2>1. \A b : st[b] = "reported" => next[b] = "reported"
      BY <1>1, <1>2
    <2>2. TrueReport(m, next, InUnload, InMove, done)
      <3>1. next[a] = "reported"
        BY <1>1, <1>2
      <3>2. CASE stage[a] = 1
        <4>1. InMove /\ m = [type |-> "AirlineStatus", airline |-> a,
                             flying |-> Cardinality({p \in Fleet(a) : ~done[p]})]
          BY <1>3, <1>4, <3>2 DEF CallStage, InTurn, Report, InGame
        <4> QED
          BY <1>5, <3>1, <4>1 DEF TrueReport
      <3>3. CASE stage[a] # 1
        <4>1. InUnload /\ m = Plain("AirlineDone")
          BY <1>3, <1>4, <3>3 DEF CallStage, Report
        <4> QED
          BY <4>1 DEF TrueReport, Plain
      <3> QED
        BY <3>2, <3>3
    <2>3. /\ Len(mapInbox) \in Nat /\ Len(mapInbox') = Len(mapInbox) + 1
          /\ \A k \in 1 .. Len(mapInbox) : mapInbox'[k] = mapInbox[k]
          /\ mapInbox'[Len(mapInbox) + 1] = m
      BY <1>4, <1>6, Written
    <2>4. \A k \in 1 .. Len(mapInbox') : k \in 1 .. Len(mapInbox) \/ k = Len(mapInbox) + 1
      BY <2>3
    <2>5. \A k \in 1 .. Len(mapInbox) : TrueReport(mapInbox'[k], next, InUnload, InMove, done)
      <3>1. \A k \in 1 .. Len(mapInbox) : TrueReport(mapInbox[k], st, InUnload, InMove, done)
        BY <1>2, ReportedMeans
      <3> QED
        BY <2>1, <2>3, <3>1 DEF TrueReport
    <2>6. \A k \in 1 .. Len(mapInbox') : TrueReport(mapInbox'[k], next, InUnload, InMove, done)
      BY <2>2, <2>3, <2>4, <2>5
    <2>7. \A k \in 1 .. Len(mapInbox') :
             TrueReport(mapInbox'[k], next, InUnload', InMove', done')
      BY <2>6 DEF SameTurn, TrueReport
    <2> QED
      BY <2>7, ReportedMeans
  <1> QED
    BY <1>1, <1>7, <1>8

LEMMA PlaneElsewhere ==
    ASSUME TurnInv, NEW st, Settled(st), NEW p \in Plane, PlaneThread(p)
    PROVE  /\ SameTurn
           /\ \A b \in Airline : b # AirlineOf[p] => Placed(b, st[b])'
           /\ \A next : \A q \in Plane :
                 q # p /\ (next[AirlineOf[q]] \in Fresh <=> st[AirlineOf[q]] \in Fresh)
                    => Located(next, q)'
  <1>1. SameTurn
    BY PlaneFrame DEF SameTurn, InUnload, InMove
  <1>2. ASSUME NEW b \in Airline, b # AirlineOf[p]
        PROVE  Placed(b, st[b])'
    <2>0. PICK place : place = st[b]
      OBVIOUS
    <2>1. p \notin Fleet(b) /\ \A q \in Fleet(b) : planePc'[q] = planePc[q]
      BY <1>2, PlaceOf, PlaneFrame DEF Fleet
    <2>2. planesLeft'[b] = planesLeft[b]
      BY <1>2, PlaneFrame
    <2>3. /\ inbox' = inbox /\ airPc' = airPc /\ stage' = stage
      BY PlaneFrame
    <2>4. Placed(b, place)
      BY <2>0 DEF Settled, Stationed
    <2>5. Placed(b, place)'
      BY <1>1, <2>1, <2>2, <2>3, <2>4, PlacedKept
    <2> QED
      BY <2>0, <2>5
  <1>3. ASSUME NEW next, NEW q \in Plane, q # p,
               next[AirlineOf[q]] \in Fresh <=> st[AirlineOf[q]] \in Fresh
        PROVE  Located(next, q)'
    <2>1. planePc'[q] = planePc[q] /\ queue'[q] = queue[q] /\ done'[q] = done[q]
      BY <1>3, PlaneFrame
    <2>2. UNCHANGED <<airPc, airMsg, visit>>
      BY PlaneFrame
    <2>3. Located(st, q)
      BY DEF Settled
    <2> QED
      BY <1>1, <1>3, <2>1, <2>2, <2>3, LocatedKept
  <1> QED
    BY <1>1, <1>2, <1>3

LEMMA CountingIsBusy ==
    ASSUME TurnInv, NEW st, Settled(st), NEW p \in Plane,
           planePc[p] \in Unloading \cup Moving
    PROVE  planesLeft[AirlineOf[p]] # 0 /\ st[AirlineOf[p]] = "counting" /\ InTurn
  BY BusyMeans DEF Busy

LEMMA TurnSides == ~(InUnload /\ InMove)
  BY DEF InUnload, InMove

(* A step of a plane that neither counts as the last nor reports. *)
LEMMA SettledAtQuietPlane ==
    ASSUME TurnInv, NEW st, Settled(st), NEW p \in Plane, PlaneThread(p), ~PlaneReport(p),
           ~(PlaneCount(p) /\ planesLeft[AirlineOf[p]] = 1)
    PROVE  Settled(st)'
  <1>0. PICK a \in Airline : a = AirlineOf[p] /\ p \in Fleet(a)
    BY PlaceOf
  <1>1. SameTurn
    BY PlaneElsewhere
  <1>2. /\ planePc[p] \notin {"report1", "report2"}
        /\ planePc'[p] \notin {"report1", "report2"}
        /\ planesLeft'[a] # 0 <=> planesLeft[a] # 0
    <2>1. CASE PlaneCount(p)
      <3>1. planesLeft[a] \in Int
        BY DEF TurnInv, LockInv, ControlOK
      <3>2. /\ planePc[p] \in {"count1", "count2"} /\ planesLeft'[a] = planesLeft[a] - 1
            /\ planesLeft[a] # 1 /\ planePc'[p] = AfterReady(p, planePc[p])
        BY <1>0, <2>1, CountGoes DEF ReportAt
      <3>3. planesLeft[a] # 0
        BY <1>0, <3>2, CountingIsBusy DEF Unloading, Moving
      <3>4. planePc'[p] \notin {"report1", "report2"}
        BY <3>2 DEF AfterReady
      <3> QED
        BY <3>1, <3>2, <3>3, <3>4
    <2>2. CASE ~PlaneCount(p)
      <3>1. planesLeft' = planesLeft
        BY <2>2, PeekGoes, StepGoes, RequestGoes, UnloadedGoes, ContinueGoes, DestinationGoes,
           UnlockGoes DEF PlaneThread
      <3>2. /\ planePc[p] \notin {"report1", "report2"}
            /\ planePc'[p] \notin {"report1", "report2"}
        BY <2>2, PeekGoes, StepGoes, RequestGoes, UnloadedGoes, ContinueGoes, DestinationGoes,
           UnlockGoes
           DEF PlaneThread, AfterPeek, RequestOf, AfterRequest, AfterReady
      <3> QED
        BY <3>1, <3>2
    <2> QED
      BY <2>1, <2>2
  <1>3. Stationed(st)'
    <2>1. PICK place : place = st[a]
      OBVIOUS
    <2>2. Placed(a, place)
      BY <2>1 DEF Settled, Stationed
    <2>3. (\E q \in Fleet(a) : planePc'[q] \in {"report1", "report2"})
             <=> (\E q \in Fleet(a) : planePc[q] \in {"report1", "report2"})
      BY <1>2, PlaneFrame DEF Fleet
    <2>4. Placed(a, place)'
      BY <1>1, <1>2, <2>2, <2>3, PlaneFrame, PlacedKept
    <2>5. \A b \in Airline : Placed(b, st[b])'
      BY <1>0, <2>1, <2>4, PlaneElsewhere
    <2> QED
      BY <2>5 DEF Settled, Stationed
  <1>4. NoReportAdded
    <2>1. CASE PlaneRequest(p)
      <3>1. PICK m : m.type = RequestOf[planePc[p]] /\ mapInbox' = Append(mapInbox, m)
        BY <2>1, RequestGoes
      <3>2. m.type \notin Returns
        BY <2>1, <3>1, RequestGoes DEF RequestOf, Returns
      <3> QED
        BY <3>1, <3>2 DEF NoReportAdded
    <2>2. CASE ~PlaneRequest(p)
      BY <2>2, PeekGoes, StepGoes, UnloadedGoes, ContinueGoes, DestinationGoes,
         CountGoes, UnlockGoes DEF PlaneThread, NoReportAdded
    <2> QED
      BY <2>1, <2>2
  <1>5. Tallied(st)'
    <2>1. InTurn \/ mapInbox' = mapInbox
      <3>1. CASE PlaneRequest(p)
        BY <3>1, CountingIsBusy, RequestGoes DEF RequestOf, Unloading, Moving
      <3>2. CASE ~PlaneRequest(p)
        BY <3>2, PeekGoes, StepGoes, UnloadedGoes, ContinueGoes, DestinationGoes,
           CountGoes, UnlockGoes DEF PlaneThread
      <3> QED
        BY <3>1, <3>2
    <2> QED
      BY <1>1, <1>4, <2>1, TallyHeld DEF Settled
  <1>6. Reported(st)'
    <2>1. \A b : st[b] = "reported" => InGame(b)' = InGame(b) \/ mapInbox = <<>>
      <3>1. CASE done' = done
        BY <3>1 DEF InGame
      <3>2. CASE PlaneStep(p) /\ done' # done
        <4>1. ~InTurn
          BY <3>2, StepGoes, EndedMeans, PlaceOf
        <4> QED
          BY <4>1 DEF Settled, Tallied
      <3>3. CASE PlaneUnloaded(p) \/ PlaneDestination(p)
        <4>1. st[a] # "reported"
          BY <1>0, <3>3, UnloadedGoes, DestinationGoes, CountingIsBusy DEF Unloading, Moving
        <4>2. \A b : b # a => InGame(b)' = InGame(b)
          BY <1>0, PlaneFrame DEF InGame, Fleet
        <4> QED
          BY <4>1, <4>2
      <3> QED
        BY <3>1, <3>2, <3>3, PeekGoes, RequestGoes, ContinueGoes, CountGoes, UnlockGoes
           DEF PlaneThread
    <2> QED
      BY <1>1, <1>4, <2>1, ReportsHeld DEF Settled
  <1>7. Located(st, p)'
    <2>0. Located(st, p)
      BY DEF Settled
    <2>1. /\ InUnload' <=> InUnload
          /\ InMove' <=> InMove
      BY <1>1 DEF SameTurn
    <2>3. CASE PlanePeek(p) \/ PlaneUnlock(p)
      <3>1. (Told(p) \/ ToBeTold(p))' <=> Told(p) \/ ToBeTold(p)
        BY <2>3, PeekGoes, UnlockGoes, PlaneFrame DEF Told, ToBeTold, InQueue
      <3>2. CASE PlanePeek(p)
        BY <2>0, <2>1, <3>1, <3>2, PeekGoes DEF AfterPeek, Located, Unloading, Moving
      <3>3. CASE PlaneUnlock(p)
        BY <2>0, <2>1, <3>1, <3>3, UnlockGoes DEF AfterReady, Located, Unloading, Moving
      <3> QED
        BY <2>3, <3>2, <3>3
    <2>4. CASE PlaneStep(p) \/ PlaneRequest(p) \/ PlaneUnloaded(p) \/ PlaneContinue(p)
               \/ PlaneDestination(p)
      <3>1. \/ planePc'[p] \in Unloading /\ InUnload
            \/ planePc'[p] \in Moving /\ InMove
            \/ planePc'[p] = "exited"
        BY <2>0, <2>4, StepGoes, RequestGoes, UnloadedGoes, ContinueGoes, DestinationGoes
           DEF RequestOf, AfterRequest, Located, Unloading, Moving
      <3> QED
        BY <2>1, <3>1 DEF Located, Unloading, Moving
    <2>5. CASE PlaneCount(p)
      <3>1. /\ planePc[p] \in {"count1", "count2"} /\ planePc'[p] = AfterReady(p, planePc[p])
        BY <1>0, <2>5, CountGoes DEF ReportAt
      <3>2. st[AirlineOf[p]] \notin Fresh
        BY <3>1, CountingIsBusy DEF Unloading, Moving, Fresh
      <3>3. /\ planePc[p] = "count1" => InUnload /\ planePc'[p] \in {"exited", "cont"}
            /\ planePc[p] = "count2" => InMove /\ planePc'[p] \in {"exited", "step"}
        BY <2>0, <3>1 DEF Located, AfterReady, Unloading, Moving
      <3> QED
        BY <2>1, <3>1, <3>2, <3>3, TurnSides DEF Located, Unloading, Moving
    <2> QED
      BY <2>3, <2>4, <2>5 DEF PlaneThread
  <1>8. \A q \in Plane : Located(st, q)'
    BY <1>7, PlaneElsewhere
  <1> QED
    BY <1>3, <1>5, <1>6, <1>8 DEF Settled

(* The last plane of a stage counts itself, and reports. *)
LEMMA SettledAtLastPlane ==
    ASSUME TurnInv, NEW st, Settled(st), NEW p \in Plane, PlaneCount(p),
           planesLeft[AirlineOf[p]] = 1
    PROVE  \E next : Settled(next)'
  <1>0. PICK a \in Airline : a = AirlineOf[p] /\ p \in Fleet(a)
    BY PlaceOf
  <1>1. SameTurn /\ PlaneThread(p)
    BY PlaneElsewhere DEF PlaneThread
  <1>2. /\ planePc[p] \in {"count1", "count2"} /\ planePc'[p] = ReportAt[planePc[p]]
        /\ planesLeft[a] = 1 /\ planesLeft'[a] = 0 /\ UNCHANGED <<mapInbox, done>>
    BY <1>0, CountGoes DEF ReportAt
  <1>3. st[a] = "counting" /\ InTurn
    BY <1>0, <1>2, CountingIsBusy DEF Unloading, Moving
  <1>4. st \in [Airline -> Stations] /\ Placed(a, st[a])
    BY DEF Settled, Stationed
  <1>5. PICK next : next = [st EXCEPT ![a] = "reporting"]
    OBVIOUS
  <1>6. next[a] = "reporting" /\ \A b \in Airline \ {a} : next[b] = st[b]
    BY <1>4, <1>5
  <1>7. Stationed(next)'
    <2>1. Placed(a, "reporting")'
      <3>1. \E q \in Fleet(a) : planePc'[q] \in {"report1", "report2"}
        BY <1>0, <1>2 DEF ReportAt
      <3>2. UNCHANGED <<mapPc, i, inbox, airPc, stage>>
        BY <1>1, PlaneFrame
      <3>3. InTurn' /\ CallStage' = CallStage
        BY <1>1, <1>3 DEF SameTurn, InTurn, CallStage
      <3> QED
        BY <1>2, <1>3, <1>4, <3>1, <3>2, <3>3 DEF Placed
    <2>2. \A b \in Airline : Placed(b, next[b])'
      BY <1>0, <1>1, <1>6, <2>1, PlaneElsewhere
    <2> QED
      BY <1>4, <1>5, <2>2 DEF Stationed, Stations, Owing
  <1>8. \A b \in Airline : next[b] \in Owing <=> st[b] \in Owing
    BY <1>3, <1>6 DEF Owing
  <1>9. NoReportAdded
    BY <1>2 DEF NoReportAdded
  <1>10. Tallied(next)'
    BY <1>1, <1>2, <1>8, <1>9, TallyHeld DEF Settled
  <1>11. Reported(next)'
    <2>1. \A b : st[b] = "reported" => next[b] = "reported"
      BY <1>3, <1>4, <1>5
    <2>2. \A b : InGame(b)' = InGame(b)
      BY <1>2 DEF InGame
    <2> QED
      BY <1>1, <1>9, <2>1, <2>2, ReportsHeld DEF Settled
  <1>12. \A q \in Plane : Located(next, q)'
    <2>1. \A b \in Airline : next[b] \in Fresh <=> st[b] \in Fresh
      BY <1>3, <1>6 DEF Fresh
    <2>2. Located(next, p)'
      <3>1. Located(st, p)
        BY DEF Settled
      <3>2. \/ planePc'[p] = "report1" /\ InUnload'
            \/ planePc'[p] = "report2" /\ InMove'
        BY <1>1, <1>2, <3>1 DEF SameTurn, Located, ReportAt, Unloading, Moving
      <3> QED
        BY <3>2 DEF Located, Unloading, Moving
    <2> QED
      BY <1>1, <2>1, <2>2, PlaneElsewhere, PlaceOf
  <1> QED
    BY <1>7, <1>10, <1>11, <1>12 DEF Settled

LEMMA SettledAtReport ==
    ASSUME TurnInv, NEW st, Settled(st), NEW p \in Plane, PlaneReport(p)
    PROVE  \E next : Settled(next)'
  <1>0. PICK a \in Airline : a = AirlineOf[p] /\ p \in Fleet(a)
    BY PlaceOf
  <1>1. SameTurn /\ PlaneThread(p)
    BY PlaneElsewhere DEF PlaneThread
  <1>2. /\ planePc[p] \in {"report1", "report2"} /\ planePc'[p] = AfterReport[planePc[p]]
        /\ mapInbox' = Append(mapInbox, Report(a))
        /\ UNCHANGED <<planesLeft, done, queue>>
    BY <1>0, ReportGoes DEF AfterReport
  <1>4. st \in [Airline -> Stations] /\ Placed(a, st[a])
    BY DEF Settled, Stationed
  <1>3. st[a] = "reporting" /\ InTurn
    BY <1>0, <1>2, <1>4 DEF Placed
  <1>5. PICK next : next = [st EXCEPT ![a] = "reported"]
    OBVIOUS
  <1>6. next[a] = "reported" /\ \A b \in Airline \ {a} : next[b] = st[b]
    BY <1>4, <1>5
  <1>7. Stationed(next)'
    <2>1. Placed(a, "reported")'
      <3>1. ~\E q \in Fleet(a) : planePc'[q] \in {"report1", "report2"}
        <4>1. \A q \in Fleet(a) : PlaneHolds(q) => q = p
          BY <1>0, <1>2 DEF TurnInv, LockInv, LockOwned, PlaneHolds, AfterReport
        <4>2. \A q \in Fleet(a) \ {p} : planePc'[q] = planePc[q]
          BY <1>1, PlaneFrame DEF Fleet
        <4> QED
          BY <1>2, <4>1, <4>2 DEF PlaneHolds, AfterReport
      <3>2. UNCHANGED <<mapPc, i, inbox, airPc, stage>>
        BY <1>1, PlaneFrame
      <3> QED
        BY <1>2, <1>3, <1>4, <3>1, <3>2 DEF Placed
    <2>2. \A b \in Airline : Placed(b, next[b])'
      BY <1>0, <1>1, <1>6, <2>1, PlaneElsewhere
    <2> QED
      BY <1>4, <1>5, <2>2 DEF Stationed, Stations, Owing
  <1>8. Tallied(next)' /\ Reported(next)'
    BY <1>1, <1>2, <1>3, <1>5, ReportWritten
  <1>9. \A q \in Plane : Located(next, q)'
    <2>1. \A b \in Airline : next[b] \in Fresh <=> st[b] \in Fresh
      BY <1>3, <1>6 DEF Fresh
    <2>2. Located(next, p)'
      <3>1. Located(st, p)
        BY DEF Settled
      <3>2. \/ planePc'[p] = "unlock1" /\ InUnload'
            \/ planePc'[p] = "unlock2" /\ InMove'
        BY <1>1, <1>2, <3>1 DEF SameTurn, Located, AfterReport, Unloading, Moving
      <3>3. next[AirlineOf[p]] \notin Fresh
        BY <1>0, <1>6 DEF Fresh
      <3>4. ~(InUnload' /\ InMove')
        BY DEF InUnload, InMove
      <3> QED
        BY <3>2, <3>3, <3>4 DEF Located, Unloading, Moving
    <2> QED
      BY <1>1, <2>1, <2>2, PlaneElsewhere, PlaceOf
  <1> QED
    BY <1>7, <1>8, <1>9 DEF Settled

LEMMA SettledAtPlane ==
    ASSUME TurnInv, NEW p \in Plane, PlaneThread(p)
    PROVE  \E st : Settled(st)'
  <1> PICK st : Settled(st)
    BY DEF TurnInv
  <1> QED
    BY SettledAtQuietPlane, SettledAtLastPlane, SettledAtReport

LEMMA CallsAre == DOMAIN StageOf = Calls
  BY DEF StageOf, Calls

(* What a step of an airline's main thread leaves as it is. *)
LEMMA AirElsewhere ==
    ASSUME TurnInv, NEW st, Settled(st), NEW a \in Airline, AirlineMain(a)
    PROVE  /\ SameTurn
           /\ \A b \in Airline : b # a => Placed(b, st[b])'
           /\ \A next : \A q \in Plane :
                 AirlineOf[q] # a /\ (next[AirlineOf[q]] \in Fresh <=> st[AirlineOf[q]] \in Fresh)
                    => Located(next, q)'
           /\ \A q \in Fleet(a) : planePc'[q] = planePc[q]
           /\ \A b : InGame(b)' = InGame(b)
  <1>1. SameTurn
    BY AirFrame DEF SameTurn, InUnload, InMove
  <1>2. ASSUME NEW b \in Airline, b # a
        PROVE  Placed(b, st[b])'
    <2>0. PICK place : place = st[b]
      OBVIOUS
    <2>1. /\ planePc' = planePc /\ planesLeft'[b] = planesLeft[b] /\ inbox'[b] = inbox[b]
          /\ airPc'[b] = airPc[b] /\ stage'[b] = stage[b]
      BY <1>2, AirFrame
    <2>2. Placed(b, place)
      BY <2>0 DEF Settled, Stationed
    <2>3. Placed(b, place)'
      BY <1>1, <2>1, <2>2, PlacedKept
    <2> QED
      BY <2>0, <2>3
  <1>3. ASSUME NEW next, NEW q \in Plane, AirlineOf[q] # a,
               next[AirlineOf[q]] \in Fresh <=> st[AirlineOf[q]] \in Fresh
        PROVE  Located(next, q)'
    <2>1. PICK b \in Airline : b = AirlineOf[q] /\ b # a
      BY <1>3, PlaceOf
    <2>2. q \notin Fleet(a)
      BY <1>3, PlaceOf
    <2>3. /\ airPc'[b] = airPc[b] /\ airMsg'[b] = airMsg[b] /\ visit'[b] = visit[b]
          /\ queue'[q] = queue[q] /\ UNCHANGED <<planePc, done>>
      BY <2>1, <2>2, AirFrame
    <2>4. Located(st, q)
      BY DEF Settled
    <2> QED
      BY <1>1, <1>3, <2>1, <2>3, <2>4, LocatedKept
  <1> QED
    BY <1>1, <1>2, <1>3, AirFrame DEF InGame

(* A step of a main thread after which the airline has got no further with its   *)
(* report.                                                                       *)
LEMMA SettledAtQuietAirline ==
    ASSUME TurnInv, NEW st, Settled(st), NEW a \in Airline, AirlineMain(a),
           ~AirReadPhase(a), ~AirStart(a), ~AirReady(a)
    PROVE  Settled(st)'
  <1>1. /\ SameTurn
        /\ airPc[a] \notin {"start", "ready"} /\ airPc'[a] \notin {"start", "ready"}
        /\ UNCHANGED <<mapInbox, planesLeft, planePc, done, stage>>
    BY ReplyRead, EndRead, ForwardGoes, BroadcastGoes, BroadcastEnds, AirUnlockGoes, JoinGoes,
       AirElsewhere, AirFrame
       DEF AirlineMain, AirReadReply, AirReadEnd, AirForward, AirBroadcast,
           AirBroadcastDone, AirUnlock, AirJoin
  <1>2. Holds(inbox'[a], Calls) <=> Holds(inbox[a], Calls)
    <2>1. CASE AirReadReply(a) \/ AirReadEnd(a)
      <3>1. /\ inbox[a] # <<>> /\ inbox'[a] = Tail(inbox[a]) /\ IsSeq(inbox[a])
            /\ Head(inbox[a]).type \notin Calls
        BY <2>1, CallsAre, ReplyRead, EndRead
           DEF AirReadEnd, InHand, TurnInv, Shapes, Answers, Calls
      <3> QED
        BY <3>1, ReadHolds
    <2>2. CASE ~AirReadReply(a) /\ ~AirReadEnd(a)
      BY <2>2, ForwardGoes, BroadcastGoes, BroadcastEnds, AirUnlockGoes, JoinGoes
         DEF AirlineMain
    <2> QED
      BY <2>1, <2>2
  <1>3. Stationed(st)'
    <2>1. PICK place : place = st[a]
      OBVIOUS
    <2>2. Placed(a, place)
      BY <2>1 DEF Settled, Stationed
    <2>3. Placed(a, place)'
      BY <1>1, <1>2, <2>2, PlacedKept
    <2>4. \A b \in Airline : Placed(b, st[b])'
      BY <2>1, <2>3, AirElsewhere
    <2> QED
      BY <2>4 DEF Settled, Stationed
  <1>4. NoReportAdded
    BY <1>1 DEF NoReportAdded
  <1>5. Tallied(st)'
    BY <1>1, <1>4, TallyHeld DEF Settled
  <1>6. Reported(st)'
    BY <1>1, <1>4, AirElsewhere, ReportsHeld DEF Settled
  <1>7. ASSUME NEW q \in Fleet(a)
        PROVE  (Told(q) \/ ToBeTold(q))' <=> Told(q) \/ ToBeTold(q)
    <2>0. q \in Plane /\ AirlineOf[q] = a
      BY DEF Fleet
    <2>1. CASE AirBroadcast(a)
      <3>1. PICK p \in Fleet(a) :
               /\ p \in Plane /\ p \in visit[a] /\ visit'[a] = visit[a] \ {p}
               /\ queue[p] = <<>>
               /\ \/ done[p] /\ queue'[p] = <<>>
                  \/ /\ ~done[p] /\ queue'[p] # <<>> /\ InQueue(p)'.type = airMsg[a].type
               /\ \A r \in Plane \ {p} : queue'[r] = queue[r]
        BY <2>1, BroadcastGoes
      <3>2. airPc[a] = "broadcast" /\ UNCHANGED <<airPc, airMsg>>
        BY <2>1, BroadcastGoes
      <3>3. CASE q = p
        BY <1>1, <2>0, <3>1, <3>2, <3>3 DEF Told, ToBeTold, InQueue
      <3>4. CASE q # p
        BY <1>1, <2>0, <3>1, <3>2, <3>4 DEF Told, ToBeTold, InQueue
      <3> QED
        BY <3>3, <3>4
    <2>2. CASE AirForward(a)
      <3>1. ~ToBeTold(q) /\ ~ToBeTold(q)'
        BY <2>0, <2>2, ForwardGoes DEF ToBeTold
      <3>2. PICK p \in Fleet(a) :
               /\ p \in Plane /\ queue[p] = <<>>
               /\ InQueue(p)'.type \in {"Stock", "Destinations"}
               /\ \A r \in Plane \ {p} : queue'[r] = queue[r]
        BY <2>2, ForwardGoes
      <3>3. Told(q)' <=> Told(q)
        <4>1. CASE q = p
          BY <3>2, <4>1, CallsAre DEF Told, InQueue, Calls
        <4>2. CASE q # p
          BY <2>0, <3>2, <4>2 DEF Told, InQueue
        <4> QED
          BY <4>1, <4>2
      <3> QED
        BY <3>1, <3>3
    <2>3. CASE ~AirBroadcast(a) /\ ~AirForward(a)
      <3>1. queue' = queue
        BY <2>3, ReplyRead, EndRead, BroadcastEnds, AirUnlockGoes, JoinGoes DEF AirlineMain
      <3>2. ~ToBeTold(q)
        BY <2>0, <2>3, ReplyRead, EndRead, BroadcastEnds, AirUnlockGoes, JoinGoes
           DEF AirlineMain, ToBeTold
      <3>3. ~ToBeTold(q)'
        <4>1. CASE AirReadEnd(a)
          <5>1. airMsg'[a].type \notin DOMAIN StageOf
            BY <4>1, EndRead, CallsAre DEF Calls
          <5> QED
            BY <2>0, <5>1 DEF ToBeTold
        <4>2. CASE ~AirReadEnd(a)
          <5>1. airPc'[a] # "broadcast"
            BY <2>3, <4>2, ReplyRead, BroadcastEnds, AirUnlockGoes, JoinGoes
               DEF AirlineMain
          <5> QED
            BY <2>0, <5>1 DEF ToBeTold
        <4> QED
          BY <4>1, <4>2
      <3> QED
        BY <3>1, <3>2, <3>3 DEF Told, InQueue
    <2> QED
      BY <2>1, <2>2, <2>3
  <1>8. \A q \in Plane : Located(st, q)'
    <2>1. \A q \in Fleet(a) : Located(st, q)'
      <3>1. \A q \in Fleet(a) : Located(st, q)
        BY DEF Settled, Fleet
      <3> QED
        BY <1>1, <1>7, <3>1 DEF Located, SameTurn
    <2> QED
      BY <2>1, AirElsewhere, PlaceOf
  <1> QED
    BY <1>3, <1>5, <1>6, <1>8 DEF Settled

LEMMA SettledAtCall ==
    ASSUME TurnInv, NEW st, Settled(st), NEW a \in Airline, AirReadPhase(a)
    PROVE  \E next : Settled(next)'
  <1>0. AirlineMain(a)
    BY DEF AirlineMain
  <1>1. /\ SameTurn
        /\ airPc[a] = "listen" /\ airPc'[a] = "start" /\ InTurn
        /\ Holds(inbox[a], Calls) /\ ~Holds(inbox'[a], Calls) /\ stage'[a] = CallStage
        /\ UNCHANGED <<mapPc, i, mapInbox, queue, planesLeft, planePc, done>>
    BY <1>0, CallRead, AirElsewhere, AirFrame
  <1>2. st \in [Airline -> Stations] /\ Placed(a, st[a])
    BY DEF Settled, Stationed
  <1>3. st[a] = "announced"
    BY <1>1, <1>2 DEF Placed
  <1>4. PICK next : next = [st EXCEPT ![a] = "start"]
    OBVIOUS
  <1>5. next[a] = "start" /\ \A b \in Airline \ {a} : next[b] = st[b]
    BY <1>2, <1>4
  <1>6. Stationed(next)'
    <2>1. Placed(a, "start")'
      <3>1. InTurn' /\ CallStage' = CallStage
        BY <1>1 DEF InTurn, InUnload, InMove, CallStage
      <3> QED
        BY <1>1, <1>2, <1>3, <3>1 DEF Placed
    <2>2. \A b \in Airline : Placed(b, next[b])'
      BY <1>0, <1>5, <2>1, AirElsewhere
    <2> QED
      BY <1>2, <1>4, <2>2 DEF Stationed, Stations, Owing
  <1>7. NoReportAdded
    BY <1>1 DEF NoReportAdded
  <1>8. Tallied(next)'
    <2>1. \A b \in Airline : next[b] \in Owing <=> st[b] \in Owing
      BY <1>3, <1>5 DEF Owing
    <2> QED
      BY <1>1, <1>7, <2>1, TallyHeld DEF Settled
  <1>9. Reported(next)'
    <2>1. \A b : st[b] = "reported" => next[b] = "reported"
      BY <1>2, <1>3, <1>4
    <2> QED
      BY <1>0, <1>1, <1>7, <2>1, AirElsewhere, ReportsHeld DEF Settled
  <1>10. \A q \in Plane : Located(next, q)'
    <2>1. \A b \in Airline : next[b] \in Fresh <=> st[b] \in Fresh
      BY <1>3, <1>5 DEF Fresh
    <2>2. ASSUME NEW q \in Fleet(a)
          PROVE  Located(next, q)'
      <3>1. q \in Plane /\ AirlineOf[q] = a /\ Located(st, q)
        BY DEF Fleet, Settled
      <3> QED
        BY <1>1, <2>1, <3>1, LocatedKept
    <2> QED
      BY <1>0, <2>1, <2>2, AirElsewhere, PlaceOf
  <1> QED
    BY <1>6, <1>8, <1>9, <1>10 DEF Settled

LEMMA SettledAtStart ==
    ASSUME TurnInv, NEW st, Settled(st), NEW a \in Airline, AirStart(a)
    PROVE  \E next : Settled(next)'
  <1>0. AirlineMain(a)
    BY DEF AirlineMain
  <1>1. /\ SameTurn
        /\ airPc[a] = "start" /\ InTurn /\ stage[a] = CallStage /\ airMsg[a].type = Call
        /\ planesLeft[a] = 0 /\ visit'[a] = Fleet(a)
        /\ InGame(a) = {} => planesLeft'[a] = 0 /\ airPc'[a] = "ready"
        /\ InGame(a) # {} => planesLeft'[a] # 0 /\ airPc'[a] = "broadcast"
        /\ UNCHANGED <<mapPc, i, mapInbox, inbox, airMsg, queue, planePc, done, stage>>
    BY <1>0, StartGoes, AirElsewhere, AirFrame
  <1>2. st \in [Airline -> Stations] /\ Placed(a, st[a])
    BY DEF Settled, Stationed
  <1>3. st[a] = "start"
    BY <1>1, <1>2 DEF Placed
  <1>4. PICK place : place = IF InGame(a) = {} THEN "ready" ELSE "counting"
    OBVIOUS
  <1>5. PICK next : next = [st EXCEPT ![a] = place]
    OBVIOUS
  <1>6. next[a] = place /\ \A b \in Airline \ {a} : next[b] = st[b]
    BY <1>2, <1>5
  <1>7. Stationed(next)'
    <2>1. Placed(a, place)'
      <3>1. InTurn' /\ CallStage' = CallStage
        BY <1>1 DEF InTurn, InUnload, InMove, CallStage
      <3>2. CASE InGame(a) = {}
        BY <1>1, <1>2, <1>3, <1>4, <3>1, <3>2 DEF Placed
      <3>3. CASE InGame(a) # {}
        BY <1>1, <1>2, <1>3, <1>4, <3>1, <3>3 DEF Placed
      <3> QED
        BY <3>2, <3>3
    <2>2. \A b \in Airline : Placed(b, next[b])'
      BY <1>0, <1>6, <2>1, AirElsewhere
    <2> QED
      BY <1>2, <1>4, <1>5, <2>2 DEF Stationed, Stations, Owing
  <1>8. NoReportAdded
    BY <1>1 DEF NoReportAdded
  <1>9. Tallied(next)'
    <2>1. \A b \in Airline : next[b] \in Owing <=> st[b] \in Owing
      BY <1>3, <1>4, <1>6 DEF Owing
    <2> QED
      BY <1>1, <1>8, <2>1, TallyHeld DEF Settled
  <1>10. Reported(next)'
    <2>1. \A b : st[b] = "reported" => next[b] = "reported"
      BY <1>2, <1>3, <1>5
    <2> QED
      BY <1>0, <1>1, <1>8, <2>1, AirElsewhere, ReportsHeld DEF Settled
  <1>11. ASSUME NEW q \in Fleet(a)
         PROVE  Located(next, q)'
    <2>1. q \in Plane /\ AirlineOf[q] = a /\ Located(st, q)
      BY DEF Fleet, Settled
    <2>2. next[a] \notin Fresh /\ st[a] \in Fresh
      BY <1>3, <1>4, <1>6 DEF Fresh
    <2>3. ~PlaneHolds(q) /\ ~Busy(q)
      BY StartGoes
    <2>4. planePc[q] \in {"step", "cont", "awaitContinue"} => ToBeTold(q)'
      <3>1. SUFFICES ASSUME planePc[q] \in {"step", "cont", "awaitContinue"}
                     PROVE  ToBeTold(q)'
        OBVIOUS
      <3>2. ~done[q]
        BY <2>1, <3>1 DEF TurnInv, Mailbox, DonePlaces
      <3>3. airPc'[a] = "broadcast"
        BY <1>1, <3>2 DEF InGame
      <3>4. airMsg'[a].type \in DOMAIN StageOf
        BY <1>1, CallsAre DEF Call, Calls
      <3> QED
        BY <1>1, <2>1, <3>2, <3>3, <3>4 DEF ToBeTold
    <2>5. /\ InUnload' <=> InUnload
          /\ InMove' <=> InMove
          /\ ~(InUnload /\ InMove)
      BY <1>1, TurnSides DEF SameTurn
    <2>6. ~Told(q) /\ ~ToBeTold(q) /\ planePc[q] \notin Unloading \cup Moving
          /\ planePc[q] \notin {"report1", "report2", "unlock1", "unlock2"}
      BY <2>3 DEF Busy, PlaneHolds, AfterReport
    <2>7. planePc[q] \in {"cont", "awaitContinue"} => InMove
      BY <2>1, <2>2 DEF Located
    <2>8. planePc[q] = "step" => InUnload
      BY <1>1, <2>1, <2>2 DEF Located, InTurn
    <2> QED
      BY <1>1, <2>1, <2>2, <2>4, <2>5, <2>6, <2>7, <2>8 DEF Located
  <1>12. \A q \in Plane : Located(next, q)'
    BY <1>0, <1>6, <1>11, AirElsewhere, PlaceOf
  <1> QED
    BY <1>7, <1>9, <1>10, <1>12 DEF Settled

LEMMA SettledAtReady ==
    ASSUME TurnInv, NEW st, Settled(st), NEW a \in Airline, AirReady(a)
    PROVE  \E next : Settled(next)'
  <1>0. AirlineMain(a)
    BY DEF AirlineMain
  <1>1. /\ SameTurn
        /\ airPc[a] = "ready" /\ airPc'[a] = "unlock"
        /\ mapInbox' = Append(mapInbox, Report(a))
        /\ UNCHANGED <<mapPc, i, inbox, airMsg, queue, planesLeft, planePc, done, stage>>
    BY <1>0, ReadyGoes, AirElsewhere, AirFrame
  <1>2. st \in [Airline -> Stations] /\ Placed(a, st[a])
    BY DEF Settled, Stationed
  <1>3. st[a] = "ready"
    BY <1>1, <1>2 DEF Placed
  <1>4. PICK next : next = [st EXCEPT ![a] = "reported"]
    OBVIOUS
  <1>5. next[a] = "reported" /\ \A b \in Airline \ {a} : next[b] = st[b]
    BY <1>2, <1>4
  <1>6. Stationed(next)'
    <2>1. Placed(a, "reported")'
      BY <1>1, <1>2, <1>3 DEF Placed
    <2>2. \A b \in Airline : Placed(b, next[b])'
      BY <1>0, <1>5, <2>1, AirElsewhere
    <2> QED
      BY <1>2, <1>4, <2>2 DEF Stationed, Stations, Owing
  <1>7. Tallied(next)' /\ Reported(next)'
    BY <1>1, <1>3, <1>4, ReportWritten
  <1>8. \A q \in Plane : Located(next, q)'
    <2>1. \A b \in Airline : next[b] \in Fresh <=> st[b] \in Fresh
      BY <1>3, <1>5 DEF Fresh
    <2>2. ASSUME NEW q \in Fleet(a)
          PROVE  Located(next, q)'
      <3>1. q \in Plane /\ AirlineOf[q] = a /\ Located(st, q)
        BY DEF Fleet, Settled
      <3> QED
        BY <1>1, <2>1, <3>1, LocatedKept
    <2> QED
      BY <1>0, <2>1, <2>2, AirElsewhere, PlaceOf
  <1> QED
    BY <1>6, <1>7, <1>8 DEF Settled

LEMMA SettledAtAirline ==
    ASSUME TurnInv, NEW a \in Airline, AirlineMain(a)
    PROVE  \E st : Settled(st)'
  <1> PICK st : Settled(st)
    BY DEF TurnInv
  <1> QED
    BY SettledAtQuietAirline, SettledAtCall, SettledAtStart, SettledAtReady

(* A step of the map within a phase: nothing changes but what it reads, and what *)
(* it answers.                                                                   *)
LEMMA SettledAtQuietMap ==
    ASSUME TurnInv, NEW st, Settled(st),
           MapUnload \/ MapDestinations \/ MapReply \/ MapWait \/ Signal \/ UNCHANGED vars
    PROVE  Settled(st)'
  <1>1. Map \/ Signal \/ UNCHANGED vars
    BY DEF Map
  <1>2. UNCHANGED <<airPc, airMsg, visit, stage, planesLeft, planePc, done, queue>>
    BY <1>1, MapFrame
  <1>3. SameTurn
    <2>1. CASE MapUnload
      BY <2>1 DEF MapUnload, SameTurn, InUnload, InMove
    <2>2. CASE MapDestinations
      BY <2>2 DEF MapDestinations, SameTurn, InUnload, InMove
    <2>3. CASE MapReply
      BY <2>3 DEF MapReply, AfterReply, SameTurn, InUnload, InMove
    <2>4. CASE MapWait \/ Signal \/ UNCHANGED vars
      BY <2>4 DEF MapWait, Signal, mapVars, vars, SameTurn, InUnload, InMove
    <2> QED
      BY <2>1, <2>2, <2>3, <2>4
  <1>4. \A a \in Airline : Holds(inbox'[a], Calls) <=> Holds(inbox[a], Calls)
    <2>1. CASE MapReply
      <3> PICK loc : Underway(loc)
        BY DEF TurnInv
      <3>1. PICK m : m = reply
        OBVIOUS
      <3>2. m.type \notin Calls
        BY <2>1, <3>1, ReplyGoes DEF Answers, Calls
      <3>3. PICK a \in Airline : /\ inbox'[a] = Append(inbox[a], m)
                                 /\ \A b \in Airline \ {a} : inbox'[b] = inbox[b]
        BY <2>1, <3>1, ReplyGoes
      <3>4. Holds(inbox'[a], Calls) <=> Holds(inbox[a], Calls)
        BY <3>2, <3>3, WriteHolds DEF TurnInv, Shapes
      <3> QED
        BY <3>3, <3>4
    <2>2. CASE ~MapReply
      <3>1. ~MapAnnounce \/ inbox' = inbox
        BY <2>2 DEF MapUnload, MapDestinations, MapWait, Signal, vars, channels
      <3> QED
        BY <1>1, <2>2, <3>1, InboxAtMap
    <2> QED
      BY <2>1, <2>2
  <1>5. Stationed(st)'
    <2>1. ASSUME NEW a \in Airline PROVE Placed(a, st[a])'
      <3>1. PICK place : place = st[a]
        OBVIOUS
      <3>2. Placed(a, place)
        BY <3>1 DEF Settled, Stationed
      <3>3. Placed(a, place)'
        BY <1>2, <1>3, <1>4, <3>2, PlacedKept
      <3> QED
        BY <3>1, <3>3
    <2> QED
      BY <2>1 DEF Settled, Stationed
  <1>6. NoReportAdded /\ (InTurn \/ mapInbox' = mapInbox)
    <2>1. CASE MapUnload \/ MapDestinations
      <3>1. mapInbox # <<>> /\ mapInbox' = Tail(mapInbox)
        BY <2>1 DEF MapUnload, MapDestinations
      <3>2. Head(mapInbox).type \notin Returns /\ InTurn
        <4>1. CASE MapUnload
          BY <4>1, HeadExpected DEF MapUnload, Counted, Returns, InTurn, InUnload
        <4>2. CASE MapDestinations
          BY <4>2, HeadExpected DEF MapDestinations, Counted, Returns, InTurn, InMove
        <4> QED
          BY <2>1, <4>1, <4>2
      <3> QED
        BY <3>1, <3>2 DEF NoReportAdded
    <2>2. CASE ~MapUnload /\ ~MapDestinations
      BY <2>2 DEF MapReply, MapWait, Signal, vars, channels, NoReportAdded
    <2> QED
      BY <2>1, <2>2
  <1>7. Tallied(st)'
    BY <1>3, <1>6, TallyHeld DEF Settled
  <1>8. Reported(st)'
    BY <1>2, <1>3, <1>6, ReportsHeld DEF Settled, InGame
  <1>9. \A q \in Plane : Located(st, q)'
    BY <1>2, <1>3, LocatedKept DEF Settled
  <1> QED
    BY <1>5, <1>7, <1>8, <1>9 DEF Settled

(* At the start of a phase every airline has its report still to send. *)
LEMMA SettledAtNewPhase ==
    ASSUME TurnInv, NEW st, Settled(st), \A a \in Airline : st[a] = "reported",
           UNCHANGED <<airPc, airMsg, visit, stage, planesLeft, planePc, done, queue, inbox>>,
           mapInbox' = <<>>, i' = 0,
           \/ mapPc' = "step" /\ ~InTurn
           \/ mapPc' = "continue" /\ InUnload
    PROVE  \E next : Settled(next)'
  <1>1. PICK next : next = [a \in Airline |-> "unannounced"]
    OBVIOUS
  <1>2. Stationed(next)'
    <2>1. ASSUME NEW a \in Airline PROVE Placed(a, "unannounced")'
      <3>1. Placed(a, "reported")
        BY DEF Settled, Stationed
      <3>2. a > i' /\ mapPc' \in {"step", "continue"} /\ InTurn'
        BY DEF Airline, InTurn, InUnload, InMove
      <3> QED
        BY <3>1, <3>2 DEF Placed
    <2> QED
      BY <1>1, <2>1 DEF Stationed, Stations, Owing
  <1>3. Tallied(next)'
    <2>1. Among(next, Airline, Owing) = Airline
      BY <1>1 DEF Among, Owing
    <2>2. HowMany(mapInbox', Reports) = 0
      BY NoneInEmpty
    <2>3. Heard' = 0 /\ InTurn'
      BY DEF Heard, InTurn, InUnload, InMove
    <2>4. Cardinality(Among(next, Airline, Owing)) = NumAirlines
      BY <2>1, OwingFinite
    <2> QED
      BY <2>2, <2>3, <2>4, SizeAssumption DEF Tallied
  <1>4. Reported(next)'
    <2>1. Len(mapInbox') = 0
      OBVIOUS
    <2>2. \A k \in 1 .. Len(mapInbox') : FALSE
      BY <2>1
    <2> QED
      BY <2>2, ReportedMeans
  <1>5. ASSUME NEW q \in Plane
        PROVE  Located(next, q)'
    <2>1. next[AirlineOf[q]] \in Fresh
      BY <1>1, PlaceOf DEF Fresh
    <2>2. st[AirlineOf[q]] = "reported"
      BY PlaceOf
    <2>3. ~Busy(q)
      BY <2>2, BusyMeans
    <2>4. planePc[q] \notin {"report1", "report2"}
      BY <2>2, PlaceOf DEF Settled, Stationed, Placed
    <2>5. Located(st, q)
      BY DEF Settled
    <2>6. CASE mapPc' = "step" /\ ~InTurn
      <3>1. planePc[q] \in {"step", "unlock2", "exited"}
        BY <2>6, AtRest
      <3>2. ~InMove'
        BY <2>6 DEF InMove
      <3> QED
        BY <2>1, <3>1, <3>2 DEF Located, Unloading, Moving
    <2>7. CASE mapPc' = "continue" /\ InUnload
      <3>1. InMove' /\ ~InUnload'
        BY <2>7 DEF InMove, InUnload
      <3>2. planePc[q] \notin {"step", "unlock2"}
        BY <2>2, <2>3, <2>5, <2>7 DEF Located, Busy, Fresh
      <3>3. planePc[q] \notin Unloading \cup Moving
        BY <2>3 DEF Busy
      <3> QED
        BY <2>1, <2>4, <3>1, <3>2, <3>3 DEF Located, Unloading, Moving
    <2> QED
      BY <2>6, <2>7
  <1> QED
    BY <1>2, <1>3, <1>4, <1>5 DEF Settled

LEMMA SettledAtAnnounce ==
    ASSUME TurnInv, NEW st, Settled(st), MapAnnounce
    PROVE  \E next : Settled(next)'
  <1>1. /\ mapPc \in {"step", "continue", "over"} /\ i + 1 \in Airline
        /\ \A b \in Airline \ {i + 1} : inbox'[b] = inbox[b]
        /\ IF i + 1 = NumAirlines THEN i' = 0 /\ mapPc' = AfterAnnouncing[mapPc]
                                  ELSE i' = i + 1 /\ mapPc' = mapPc
        /\ mapInbox' = mapInbox
    BY AnnounceGoes
  <1>2. PICK a \in Airline : a = i + 1
    BY <1>1
  <1>3. PICK m : m.type = Announced[mapPc] /\ inbox'[a] = Append(inbox[a], m)
    BY <1>2, AnnounceGoes
  <1>4. Holds(inbox'[a], Calls) <=> Holds(inbox[a], Calls) \/ m.type \in Calls
    BY <1>3, WriteHolds DEF TurnInv, Shapes
  <1>5. UNCHANGED <<airPc, airMsg, visit, stage, planesLeft, planePc, done, queue>>
    BY MapFrame DEF Map
  <1>6. /\ InUnload' <=> InUnload
        /\ InMove' <=> InMove
        /\ InTurn' <=> InTurn
        /\ CallStage' = CallStage
        /\ Heard' = Heard \/ ~InTurn
    BY <1>1 DEF AfterAnnouncing, InUnload, InMove, InTurn, CallStage, Heard
  <1>7. st \in [Airline -> Stations] /\ \A b \in Airline : Placed(b, st[b])
    BY DEF Settled, Stationed
  <1>8. i \in 0 .. NumAirlines - 1 /\ NumAirlines \in Nat \ {0}
    BY SizeAssumption DEF TurnInv, LockInv, ControlOK
  <1>9. PICK next : next = [b \in Airline |-> IF b = a /\ InTurn THEN "announced" ELSE st[b]]
    OBVIOUS
  <1>10. InTurn => st[a] = "unannounced"
    BY <1>1, <1>2, <1>7, <1>8 DEF Placed, InTurn, InUnload, InMove
  <1>11. /\ next \in [Airline -> Stations]
         /\ \A b \in Airline : /\ next[b] \in Owing <=> st[b] \in Owing
                               /\ next[b] \in Fresh <=> st[b] \in Fresh
                               /\ st[b] = "reported" => next[b] = "reported"
    BY <1>7, <1>9, <1>10 DEF Stations, Owing, Fresh
  <1>12. Stationed(next)'
    <2>1. ASSUME NEW b \in Airline PROVE Placed(b, next[b])'
      <3>1. PICK place : place = next[b]
        OBVIOUS
      <3>2. CASE InTurn
        <4>1. mapPc \in {"step", "continue"} /\ m.type \in Calls
          BY <1>1, <1>3, <3>2 DEF Announced, Calls, InTurn, InUnload, InMove
        <4>2. mapPc' \in {"step", "continue"} /\ b > i'
                 <=> mapPc \in {"step", "continue"} /\ b > i /\ b # a
          <5>1. CASE i + 1 = NumAirlines
            <6>1. mapPc' \notin {"step", "continue"}
              BY <1>1, <4>1, <5>1 DEF AfterAnnouncing
            <6>2. b > i => b = a
              BY <1>2, <1>8, <5>1 DEF Airline
            <6> QED
              BY <6>1, <6>2
          <5>2. CASE i + 1 # NumAirlines
            <6>1. i' = i + 1 /\ mapPc' = mapPc
              BY <1>1, <5>2
            <6>2. b > i + 1 <=> b > i /\ b # a
              BY <1>2, <1>8 DEF Airline
            <6> QED
              BY <4>1, <6>1, <6>2
          <5> QED
            BY <5>1, <5>2
        <4>3. CASE b = a
          <5>1. Holds(inbox'[b], Calls) /\ place = "announced"
            BY <1>4, <1>9, <3>1, <3>2, <4>1, <4>3
          <5>2. Placed(b, "unannounced")
            BY <1>7, <1>10, <3>2, <4>3
          <5>3. Placed(b, place)'
            BY <1>5, <1>6, <3>2, <4>2, <4>3, <5>1, <5>2 DEF Placed
          <5> QED
            BY <3>1, <5>3
        <4>4. CASE b # a
          <5>1. Placed(b, place) /\ inbox'[b] = inbox[b]
            BY <1>1, <1>2, <1>7, <1>9, <3>1, <4>4
          <5>2. Placed(b, place)'
            BY <1>5, <1>6, <4>2, <4>4, <5>1 DEF Placed
          <5> QED
            BY <3>1, <5>2
        <4> QED
          BY <4>3, <4>4
      <3>3. CASE ~InTurn
        <4>1. Placed(b, place)
          BY <1>7, <1>9, <3>1, <3>3
        <4>2. mapPc = "over" /\ mapPc' \in {"over", "wait"} /\ m.type \notin Calls
          BY <1>1, <1>3, <3>3 DEF AfterAnnouncing, Announced, Calls, InTurn, InUnload, InMove
        <4>3. Holds(inbox'[b], Calls) <=> Holds(inbox[b], Calls)
          BY <1>1, <1>2, <1>4, <4>2
        <4>4. Placed(b, place)'
          BY <1>5, <1>6, <4>1, <4>2, <4>3 DEF Placed
        <4> QED
          BY <3>1, <4>4
      <3> QED
        BY <3>2, <3>3
    <2> QED
      BY <1>11, <2>1 DEF Stationed
  <1>13. Tallied(next)'
    <2>1. Among(next, Airline, Owing) = Among(st, Airline, Owing)
      BY <1>11 DEF Among
    <2> QED
      BY <1>1, <1>6, <2>1 DEF Settled, Tallied
  <1>14. Reported(next)'
    <2>1. \A k \in 1 .. Len(mapInbox) : TrueReport(mapInbox[k], st, InUnload, InMove, done)
      BY ReportedMeans DEF Settled
    <2>2. \A m1 \in Reports : m1.type = "AirlineStatus" => m1.airline \in Airline
      BY DEF Reports, Plain
    <2>3. ASSUME NEW k \in 1 .. Len(mapInbox')
          PROVE  TrueReport(mapInbox'[k], next, InUnload', InMove', done')
      <3>1. PICK r : r = mapInbox[k]
        OBVIOUS
      <3>2. mapInbox'[k] = r /\ TrueReport(r, st, InUnload, InMove, done)
        BY <1>1, <2>1, <3>1
      <3>3. r.type = "AirlineStatus" => next[r.airline] = "reported"
        <4>1. r.type = "AirlineStatus" => r.airline \in Airline /\ st[r.airline] = "reported"
          BY <2>2, <3>2 DEF TrueReport
        <4> QED
          BY <1>11, <4>1, Zenon
      <3>4. TrueReport(r, next, InUnload', InMove', done)
        BY <1>6, <3>2, <3>3 DEF TrueReport
      <3> QED
        BY <1>5, <3>2, <3>4
    <2> QED
      BY <2>3, ReportedMeans
  <1>15. \A q \in Plane : Located(next, q)'
    <2>1. ASSUME NEW q \in Plane
          PROVE  Located(next, q)'
      <3>1. Located(st, q)
        BY DEF Settled
      <3>2. Told(q)' <=> Told(q)
        BY <1>5 DEF Told, InQueue
      <3>3. ToBeTold(q)' <=> ToBeTold(q)
        BY <1>5 DEF ToBeTold
      <3> QED
        BY <1>5, <1>6, <1>11, <3>1, <3>2, <3>3, PlaceOf DEF Located
    <2> QED
      BY <2>1
  <1> QED
    BY <1>12, <1>13, <1>14, <1>15 DEF Settled

LEMMA SettledAtCount ==
    ASSUME TurnInv, NEW st, Settled(st), MapCount
    PROVE  \E next : Settled(next)'
  <1>0. UNCHANGED <<airPc, airMsg, visit, stage, planesLeft, planePc, done, queue, inbox>>
    BY MapFrame DEF Map, MapCount
  <1>1. /\ mapPc \in {"phase1", "phase2"} /\ InTurn /\ Heard = i
        /\ mapInbox # <<>> /\ mapInbox' = Tail(mapInbox) /\ IsSeq(Tail(mapInbox))
        /\ HowMany(mapInbox, Reports) = HowMany(Tail(mapInbox), Reports) + 1
        /\ HowMany(Tail(mapInbox), Reports) \in Nat
    BY CountTakesAReport
  <1>2. CASE i + 1 = NumAirlines
    <2>1. mapInbox' = <<>> /\ \A a \in Airline : st[a] = "reported"
      BY <1>2, LastCount
    <2>2. i' = 0 /\ mapPc' = AfterPhase[mapPc]
      BY <1>2 DEF MapCount
    <2>3. CASE mapPc = "phase1"
      <3>1. mapPc' = "continue" /\ InUnload
        BY <2>2, <2>3 DEF AfterPhase, InUnload
      <3> QED
        BY <1>0, <2>1, <2>2, <3>1, SettledAtNewPhase
    <2>4. CASE mapPc = "phase2"
      <3>1. mapPc' = "turn" /\ InMove /\ ~InUnload
        BY <2>2, <2>4 DEF AfterPhase, InMove, InUnload
      <3>2. ~InTurn' /\ ~InUnload' /\ ~InMove'
        BY <3>1 DEF InTurn, InUnload, InMove
      <3>3. Stationed(st)'
        <4>1. ASSUME NEW a \in Airline PROVE Placed(a, "reported")'
          <5>1. Placed(a, "reported")
            BY <2>1 DEF Settled, Stationed
          <5> QED
            BY <1>0, <3>1, <5>1 DEF Placed
        <4> QED
          BY <2>1, <4>1 DEF Settled, Stationed
      <3>4. Tallied(st)'
        BY <2>1, <3>2 DEF Tallied
      <3>5. Reported(st)'
        <4>1. \A k \in 1 .. Len(mapInbox') : FALSE
          BY <2>1
        <4> QED
          BY <4>1, ReportedMeans
      <3>6. ASSUME NEW q \in Plane
            PROVE  Located(st, q)'
        <4>1. st[AirlineOf[q]] = "reported"
          BY <2>1, PlaceOf
        <4>2. ~Busy(q)
          BY <4>1, BusyMeans
        <4>3. planePc[q] \notin {"report1", "report2"}
          BY <4>1, PlaceOf DEF Settled, Stationed, Placed
        <4>4. Located(st, q)
          BY DEF Settled
        <4>5. planePc[q] \notin {"cont", "awaitContinue", "unlock1"}
          BY <3>1, <4>1, <4>2, <4>4 DEF Located, Busy, Fresh
        <4>6. planePc[q] \notin Unloading \cup Moving
          BY <4>2 DEF Busy
        <4> QED
          BY <1>0, <3>2, <4>3, <4>5, <4>6 DEF Located
      <3> QED
        BY <3>3, <3>4, <3>5, <3>6 DEF Settled
    <2> QED
      BY <1>1, <2>3, <2>4
  <1>3. CASE i + 1 # NumAirlines
    <2>1. i' = i + 1 /\ mapPc' = mapPc
      BY <1>3 DEF MapCount
    <2>2. /\ InUnload' <=> InUnload
          /\ InMove' <=> InMove
          /\ InTurn' <=> InTurn
          /\ CallStage' = CallStage /\ Heard' = i + 1
      BY <1>1, <2>1 DEF InUnload, InMove, InTurn, CallStage, Heard
    <2>3. Stationed(st)'
      <3>1. ASSUME NEW a \in Airline PROVE Placed(a, st[a])'
        <4>1. PICK place : place = st[a]
          OBVIOUS
        <4>2. Placed(a, place)
          BY <4>1 DEF Settled, Stationed
        <4>3. Placed(a, place)'
          BY <1>0, <1>1, <2>1, <2>2, <4>2 DEF Placed
        <4> QED
          BY <4>1, <4>3
      <3> QED
        BY <3>1 DEF Settled, Stationed
    <2>4. Tallied(st)'
      <3>1. Cardinality(Among(st, Airline, Owing)) + HowMany(mapInbox, Reports) + i = NumAirlines
        BY <1>1 DEF Settled, Tallied
      <3>2. /\ Cardinality(Among(st, Airline, Owing)) \in Nat
            /\ i \in Int /\ NumAirlines \in Int
        BY OwingFinite, SizeAssumption DEF TurnInv, LockInv, ControlOK
      <3>3. Cardinality(Among(st, Airline, Owing)) + HowMany(mapInbox', Reports) + (i + 1)
               = NumAirlines
        BY <1>1, <3>1, <3>2
      <3> QED
        BY <1>1, <2>2, <3>3 DEF Tallied
    <2>5. Reported(st)'
      <3>1. \A k \in 1 .. Len(mapInbox) : TrueReport(mapInbox[k], st, InUnload, InMove, done)
        BY ReportedMeans DEF Settled
      <3>2. /\ Len(mapInbox) \in Nat \ {0} /\ Len(mapInbox') = Len(mapInbox) - 1
            /\ \A k \in 1 .. Len(mapInbox') : mapInbox'[k] = mapInbox[k + 1]
        BY <1>1, Read DEF TurnInv, Shapes
      <3>3. \A k \in 1 .. Len(mapInbox') : k + 1 \in 1 .. Len(mapInbox)
        BY <3>2
      <3>4. \A k \in 1 .. Len(mapInbox') :
               TrueReport(mapInbox'[k], st, InUnload, InMove, done)
        BY <3>1, <3>2, <3>3
      <3>5. \A k \in 1 .. Len(mapInbox') :
               TrueReport(mapInbox'[k], st, InUnload', InMove', done')
        BY <1>0, <2>2, <3>4 DEF TrueReport
      <3> QED
        BY <3>5, ReportedMeans
    <2>6. \A q \in Plane : Located(st, q)'
      <3>1. ASSUME NEW q \in Plane
            PROVE  Located(st, q)'
        <4>1. Located(st, q)
          BY DEF Settled
        <4>2. Told(q)' <=> Told(q)
          BY <1>0 DEF Told, InQueue
        <4>3. ToBeTold(q)' <=> ToBeTold(q)
          BY <1>0 DEF ToBeTold
        <4> QED
          BY <1>0, <2>2, <4>1, <4>2, <4>3 DEF Located
      <3> QED
        BY <3>1
    <2> QED
      BY <2>3, <2>4, <2>5, <2>6 DEF Settled
  <1> QED
    BY <1>2, <1>3

LEMMA SettledAtTurn ==
    ASSUME TurnInv, NEW st, Settled(st), MapTurn
    PROVE  \E next : Settled(next)'
  <1>0. UNCHANGED <<airPc, airMsg, visit, stage, planesLeft, planePc, done, queue, inbox,
                    mapInbox>>
    BY MapFrame DEF Map, MapTurn, channels
  <1>1. mapPc = "turn" /\ i' = 0 /\ mapPc' \in {"step", "over"} /\ ~InTurn
    BY DEF MapTurn, InTurn, InUnload, InMove
  <1>2. mapInbox = <<>>
    BY <1>1, AtRest
  <1>3. \A a \in Airline : st[a] = "reported"
    BY <1>1 DEF Settled, Stationed, Placed
  <1>4. CASE mapPc' = "step"
    BY <1>0, <1>1, <1>2, <1>3, <1>4, SettledAtNewPhase
  <1>5. CASE mapPc' = "over"
    <2>1. ~InTurn' /\ ~InUnload' /\ ~InMove'
      BY <1>5 DEF InTurn, InUnload, InMove
    <2>2. Stationed(st)'
      <3>1. ASSUME NEW a \in Airline PROVE Placed(a, "reported")'
        <4>1. Placed(a, "reported")
          BY <1>3 DEF Settled, Stationed
        <4> QED
          BY <1>0, <1>5, <4>1 DEF Placed
      <3> QED
        BY <1>3, <3>1 DEF Settled, Stationed
    <2>3. Tallied(st)'
      BY <1>0, <1>2, <2>1 DEF Tallied
    <2>4. Reported(st)'
      <3>1. \A k \in 1 .. Len(mapInbox') : FALSE
        BY <1>0, <1>2
      <3> QED
        BY <3>1, ReportedMeans
    <2>5. \A q \in Plane : Located(st, q)'
      BY <1>0, <1>1, <2>1, AtRest DEF Located, Unloading, Moving
    <2> QED
      BY <2>2, <2>3, <2>4, <2>5 DEF Settled
  <1> QED
    BY <1>1, <1>4, <1>5

LEMMA SettledAtMap ==
    ASSUME TurnInv, Map \/ Signal \/ UNCHANGED vars
    PROVE  \E st : Settled(st)'
  <1> PICK st : Settled(st)
    BY DEF TurnInv
  <1>1. CASE MapUnload \/ MapDestinations \/ MapReply \/ MapWait \/ Signal \/ UNCHANGED vars
    BY <1>1, SettledAtQuietMap
  <1> QED
    BY <1>1, SettledAtTurn, SettledAtAnnounce, SettledAtCount DEF Map

-----------------------------------------------------------------------------
(* TurnInv is inductive. *)

LEMMA InitTurn == Init => TurnInv
  <1> SUFFICES ASSUME Init PROVE TurnInv
    OBVIOUS
  <1>1. LockInv
    BY InitLock
  <1>2. /\ mapPc = "turn" /\ mapInbox = <<>> /\ i = 0 /\ reply = [type |-> "None"]
        /\ ~InTurn /\ ~InUnload /\ ~InMove /\ ~IsOver
    BY DEF Init, Plain, InTurn, InUnload, InMove, IsOver
  <1>3. \A a \in Airline :
           /\ inbox[a] = <<>> /\ airPc[a] = "listen" /\ visit[a] = {} /\ planesLeft[a] = 0
           /\ airMsg[a] = [type |-> "None"]
    BY DEF Init, Plain
  <1>4. \A p \in Plane : planePc[p] = "step" /\ queue[p] = <<>> /\ ~done[p]
    BY DEF Init
  <1>5. \A types, waiting : /\ ~Holds(<<>>, types) /\ OnlyOf(<<>>, types)
                            /\ Single(<<>>, types) /\ Carries(<<>>, types, waiting)
    BY NoneHeld
  <1>6. \A p \in Plane : ~Busy(p)
    BY <1>3, <1>4, PlaceOf DEF Busy, Told, ToBeTold, Unloading, Moving
  <1>7. CountExact
    <2>1. \A a \in Airline : {p \in Fleet(a) : Busy(p)} = {}
      BY <1>6 DEF Fleet
    <2> QED
      BY <1>3, <2>1, FS_EmptySet DEF CountExact
  <1>8. Shapes
    <2>1. IsSeq(<<>>)
      BY DEF IsSeq
    <2> QED
      BY <1>2, <1>3, <2>1 DEF Init, Shapes
  <1>9. \A a \in Airline : Main(a)
    BY <1>2, <1>3, <1>5 DEF Main, Ended
  <1>10. \A p \in Plane : Mailbox(p)
    BY <1>3, <1>4, PlaceOf DEF Mailbox
  <1>11. \E st : Settled(st)
    <2>1. PICK st : st = [a \in Airline |-> "reported"]
      OBVIOUS
    <2>2. Stationed(st)
      <3>1. ASSUME NEW a \in Airline PROVE Placed(a, "reported")
        <4>1. \A p \in Fleet(a) : planePc[p] = "step"
          BY <1>4 DEF Fleet
        <4> QED
          BY <1>2, <1>3, <1>5, <4>1 DEF Placed
      <3> QED
        BY <2>1, <3>1 DEF Stationed, Stations
    <2>3. Tallied(st)
      BY <1>2 DEF Tallied
    <2>4. Reported(st)
      BY <1>2 DEF Reported
    <2>5. \A p \in Plane : Located(st, p)
      BY <1>2, <1>4 DEF Located, Unloading, Moving
    <2> QED
      BY <2>2, <2>3, <2>4, <2>5 DEF Settled
  <1>12. \E loc : Underway(loc)
    <2>1. PICK loc : loc = [p \in Plane |-> "mail"]
      OBVIOUS
    <2>2. loc \in [Plane -> Hops]
      BY <2>1 DEF Hops
    <2>3. Underway(loc)
      BY <1>2, <1>3, <1>4, <1>5, <2>2 DEF Underway, Answers
    <2> QED
      BY <2>3
  <1> QED
    BY <1>1, <1>7, <1>8, <1>9, <1>10, <1>11, <1>12 DEF TurnInv

LEMMA TurnPreserved == TurnInv /\ [Next]_vars => TurnInv'
  <1> SUFFICES ASSUME TurnInv, [Next]_vars PROVE TurnInv'
    OBVIOUS
  <1>1. LockInv' /\ CountExact' /\ Shapes'
    BY LockPreserved, CountKept, ShapesKept DEF TurnInv
  <1>2. CASE Map \/ Signal \/ UNCHANGED vars
    <2>1. \A a \in Airline : Main(a)'
      BY <1>2, MainAtMap
    <2>2. \A p \in Plane : Mailbox(p)'
      BY <1>2, MailAtMap
    <2>3. (\E st : Settled(st)') /\ (\E loc : Underway(loc)')
      BY <1>2, SettledAtMap, UnderwayAtMap
    <2> QED
      BY <1>1, <2>1, <2>2, <2>3 DEF TurnInv
  <1>3. ASSUME NEW a \in Airline, AirlineMain(a)
        PROVE  TurnInv'
    <2>1. \A b \in Airline : Main(b)'
      BY <1>3, MainAtAirline
    <2>2. \A p \in Plane : Mailbox(p)'
      BY <1>3, MailAtAirline
    <2>3. (\E st : Settled(st)') /\ (\E loc : Underway(loc)')
      BY <1>3, SettledAtAirline, UnderwayAtAirline
    <2> QED
      BY <1>1, <2>1, <2>2, <2>3 DEF TurnInv
  <1>4. ASSUME NEW p \in Plane, PlaneThread(p)
        PROVE  TurnInv'
    <2>1. \A b \in Airline : Main(b)'
      BY <1>4, MainAtPlane
    <2>2. \A q \in Plane : Mailbox(q)'
      BY <1>4, MailAtPlane
    <2>3. (\E st : Settled(st)') /\ (\E loc : Underway(loc)')
      BY <1>4, SettledAtPlane, UnderwayAtPlane
    <2> QED
      BY <1>1, <2>1, <2>2, <2>3 DEF TurnInv
  <1> QED
    BY <1>2, <1>3, <1>4 DEF Next, Terminated

(* At every moment of a turn, what the map, the airlines, the planes and their   *)
(* channels hold fits together as TurnInv says: an airline either owes its       *)
(* report of the phase, has it on its way or was counted, and a plane that asked *)
(* for something has its request or the answer at one place (map.c:55-120,       *)
(* airline.c:97-214, plane.c:24-61).                                             *)
THEOREM TurnsKept == Spec => []TurnInv
  BY InitTurn, TurnPreserved, PTL DEF Spec

(* planesLeftInStage is exactly the number of planes that will still report in   *)
(* the stage, for any fleets and any schedule: start_phase sets it and           *)
(* app_airline_plane_ready counts it down, each under the lock                   *)
(* (airline.c:172-177, 193).                                                     *)
THEOREM CounterIsExact == Spec => []CountExact
  <1>1. TurnInv => CountExact
    BY DEF TurnInv
  <1> QED
    BY <1>1, TurnsKept, PTL

(* While the map is between two turns every plane waits for the next, has left,  *)
(* or has only the lock to give back, and no message is on its way to the map    *)
(* (map.c:55-120, airline.c:168-200).                                            *)
THEOREM TurnsAreApart == Spec => []QuietBetweenTurns
  <1>1. TurnInv => QuietBetweenTurns
    BY AtRest DEF QuietBetweenTurns, InTurn, InUnload, InMove
  <1> QED
    BY <1>1, TurnsKept, PTL

(* A plane's queue never holds two messages, so that the pushes of               *)
(* start_phase, made under planesLeftLock, never block (airline.c:184).          *)
THEOREM OneMessageAtMost == Spec => []MailboxNeverFull
  <1>1. TurnInv => MailboxNeverFull
    <2> SUFFICES ASSUME TurnInv, NEW p \in Plane PROVE Len(queue[p]) <= 1
      BY DEF MailboxNeverFull
    <2>1. PICK m : queue[p] = <<>> \/ queue[p] = <<m>>
      BY DEF TurnInv, Mailbox
    <2>2. Len(<<>>) = 0 /\ Len(<<m>>) = 1
      OBVIOUS
    <2>3. Len(queue[p]) = 0 \/ Len(queue[p]) = 1
      BY <2>1, <2>2, Zenon
    <2>4. 0 <= 1 /\ 1 <= 1
      OBVIOUS
    <2> QED
      BY <2>3, <2>4, Zenon
  <1> QED
    BY <1>1, TurnsKept, PTL

(* The map's two loops and every plane read only messages that they wait for:    *)
(* none of the {ERR} lines of map.c:86-87, map.c:111-112 and plane.c:7 is ever   *)
(* reached.                                                                      *)
THEOREM NothingUnexpected == Spec => []NoErrorLine
  <1>1. TurnInv => NoErrorLine
    <2> SUFFICES ASSUME TurnInv PROVE NoErrorLine
      OBVIOUS
    <2>1. ASSUME mapPc \in DOMAIN Counted, mapInbox # <<>>
          PROVE  ~Unexpected(mapPc, Head(mapInbox))
      BY <2>1, HeadExpected DEF Unexpected, Counted, Requested
    <2>2. ASSUME NEW p \in Plane, planePc[p] \in DOMAIN AwaitedBy, queue[p] # <<>>
          PROVE  InQueue(p).type \in AwaitedBy[planePc[p]]
      BY <2>2 DEF TurnInv, Mailbox, InMail, AwaitedBy
    <2> QED
      BY <2>1, <2>2 DEF NoErrorLine
  <1> QED
    BY <1>1, TurnsKept, PTL

(* The number of flying planes in an airline's report is the number there is     *)
(* when the map reads it (airline.c:206-214, map.c:99-104).                      *)
THEOREM StatusIsTrue == Spec => []StatusStillTrue
  <1>1. TurnInv => StatusStillTrue
    <2> SUFFICES ASSUME TurnInv, mapInbox # <<>>, Head(mapInbox).type = "AirlineStatus"
                 PROVE  Head(mapInbox).flying = Cardinality(InGame(Head(mapInbox).airline))
      BY DEF StatusStillTrue
    <2> PICK st : Settled(st)
      BY DEF TurnInv
    <2>1. 1 \in 1 .. Len(mapInbox) /\ mapInbox[1] = Head(mapInbox)
      BY Read DEF TurnInv, Shapes
    <2> QED
      BY <2>1 DEF Settled, Reported
  <1> QED
    BY <1>1, TurnsKept, PTL

(* When main has waited for its children every message has been read, every      *)
(* thread has ended and every lock is free (main.c:124-147).                     *)
THEOREM ExitIsClean == Spec => []CleanExit
  <1>1. TurnInv => CleanExit
    <2> SUFFICES ASSUME TurnInv, mapPc = "exited" PROVE CleanExit
      BY DEF CleanExit
    <2>1. mapInbox = <<>>
      BY AtRest DEF InTurn, InUnload, InMove
    <2>2. \A a \in Airline : /\ airPc[a] = "exited" /\ inbox[a] = <<>>
                             /\ \A p \in Fleet(a) : planePc[p] = "exited"
      BY DEF TurnInv, Main, Ended
    <2>3. \A p \in Plane : planePc[p] = "exited" /\ queue[p] = <<>>
      BY <2>2, PlaceOf DEF TurnInv, Mailbox
    <2>4. \A a \in Airline : ~locked[a]
      BY <2>2 DEF TurnInv, LockInv, ControlOK, LockOwned, AirHolds, PlaneHolds, AfterReport
    <2> QED
      BY <2>1, <2>2, <2>3, <2>4 DEF CleanExit
  <1> QED
    BY <1>1, TurnsKept, PTL

-----------------------------------------------------------------------------
(* The turns are those of TurnBarrier. Its steps are those of the map that     *)
(* begin and end a phase, and those of the planes that finish their part of    *)
(* one or leave; all others leave phase, flying and working as they are.       *)

Works(p) == \/ InUnload /\ planePc[p] \in Unloading \cup {"unlock2", "step"}
            \/ InMove /\ planePc[p] \in Moving \cup {"unlock1", "cont", "awaitContinue"}

Flies(p) == planePc[p] # "exited" /\ (done[p] => planePc[p] \notin Reporting)

LEMMA PhaseMeans ==
    /\ Phase = "rest" <=> mapPc = "turn"
    /\ Phase = "unload" <=> InUnload
    /\ Phase = "move" <=> InMove
    /\ Phase = "over" <=> mapPc # "turn" /\ ~InTurn
    /\ Phase \in {"rest", "unload", "move", "over"}
  <1>1. CASE mapPc = "turn"
    BY <1>1 DEF Phase, InTurn, InUnload, InMove
  <1>2. CASE InUnload
    BY <1>2 DEF Phase, InTurn, InUnload, InMove
  <1>3. CASE InMove
    BY <1>3 DEF Phase, InTurn, InUnload, InMove
  <1>4. CASE mapPc # "turn" /\ ~InTurn
    BY <1>4 DEF Phase, InTurn, InUnload, InMove
  <1> QED
    BY <1>1, <1>2, <1>3, <1>4 DEF InTurn

LEMMA SetsMean ==
    /\ Flying \in SUBSET Plane /\ Working \in SUBSET Flying
    /\ \A q \in Plane : q \in Flying <=> Flies(q)
    /\ \A q \in Plane : q \in Working <=> Flies(q) /\ Works(q)
  BY PhaseMeans DEF Flying, Working, Flies, Works

(* A step of the map or of an airline's main thread within a phase. *)
LEMMA NobodyMoves ==
    ASSUME UNCHANGED <<planePc, done>>, Phase' = Phase
    PROVE  UNCHANGED <<Phase, Flying, Working>>
  BY DEF Flying, Working

LEMMA MapTakesATurn ==
    ASSUME TurnInv, Map \/ Signal \/ UNCHANGED vars
    PROVE  Turns!Next \/ UNCHANGED <<Phase, Flying, Working>>
  <1> PICK st : Settled(st)
    BY DEF TurnInv
  <1>1. UNCHANGED <<planePc, done>>
    BY MapFrame
  <1>2. Flying' = Flying
    BY <1>1 DEF Flying
  <1>3. CASE MapTurn
    <2>1. mapPc = "turn" /\ mapPc' \in {"step", "over"} /\ ~InTurn /\ ~InUnload /\ ~InMove
      BY <1>3 DEF MapTurn, InTurn, InUnload, InMove
    <2>2. Phase = "rest"
      BY <2>1 DEF Phase
    <2>3. CASE mapPc' = "step"
      <3>1. Phase' = "unload"
        BY <2>3 DEF Phase
      <3>2. \A p \in Plane : planePc[p] \in {"step", "unlock2", "exited"}
        BY <2>1, AtRest
      <3>3. Working' = Flying
        BY <1>1, <3>1, <3>2 DEF Working, Flying
      <3> QED
        BY <1>2, <2>2, <3>1, <3>3 DEF Turns!Next, Turns!BeginTurn
    <2>4. CASE mapPc' = "over"
      <3>1. Phase' = "over"
        BY <2>4 DEF Phase
      <3>2. Working = {} /\ Working' = {}
        BY <2>2, <3>1 DEF Working
      <3> QED
        BY <1>2, <2>2, <3>1, <3>2 DEF Turns!Next, Turns!Stop
    <2> QED
      BY <2>1, <2>3, <2>4
  <1>4. CASE MapCount /\ i + 1 = NumAirlines
    <2>1. \A a \in Airline : st[a] = "reported"
      BY <1>4, LastCount
    <2>2. \A p \in Plane : /\ ~Busy(p) /\ planePc[p] \notin {"report1", "report2"}
                           /\ st[AirlineOf[p]] \notin Fresh
      BY <2>1, BusyMeans, PlaceOf DEF Settled, Stationed, Placed, Fresh
    <2>3. \A p \in Plane : planePc[p] \notin Unloading \cup Moving
      BY <2>2 DEF Busy
    <2>4. \A p \in Plane : planePc[p] \in PlanePc
      BY DEF TurnInv, LockInv, ControlOK
    <2>5. \A p \in Plane :
             /\ InUnload => planePc[p] \in {"exited", "cont", "awaitContinue", "unlock1"}
             /\ InMove => planePc[p] \in {"exited", "step", "unlock2"}
      <3>1. ASSUME NEW p \in Plane
            PROVE  planePc[p] \in {"exited", "cont", "awaitContinue", "unlock1", "step", "unlock2"}
        BY <2>2, <2>3, <2>4
           DEF PlanePc, AfterPeek, RequestOf, ReportAt, AfterReport, Unloading, Moving
      <3>2. ASSUME NEW p \in Plane
            PROVE  /\ InUnload => planePc[p] \notin {"step", "unlock2"}
                   /\ InMove => planePc[p] \notin {"cont", "awaitContinue", "unlock1"}
        BY <2>2, TurnSides DEF Settled, Located, Busy
      <3> QED
        BY <3>1, <3>2
    <2>6. mapPc' = AfterPhase[mapPc] /\ mapPc \in {"phase1", "phase2"}
      BY <1>4 DEF MapCount, Counted
    <2>7. CASE mapPc = "phase1"
      <3>1. Phase = "unload" /\ Phase' = "move" /\ InUnload
        BY <2>6, <2>7 DEF Phase, AfterPhase, InUnload
      <3>2. Working = {}
        BY <2>5, <3>1 DEF Working, Flying, Unloading
      <3>3. Working' = Flying
        BY <1>1, <2>5, <3>1 DEF Working, Flying
      <3> QED
        BY <1>2, <3>1, <3>2, <3>3 DEF Turns!Next, Turns!BeginMove
    <2>8. CASE mapPc = "phase2"
      <3>1. Phase = "move" /\ Phase' = "rest" /\ InMove
        BY <2>6, <2>8 DEF Phase, AfterPhase, InMove
      <3>2. Working = {}
        BY <2>5, <3>1 DEF Working, Flying, Moving
      <3>3. Working' = {}
        BY <3>1 DEF Working
      <3> QED
        BY <1>2, <3>1, <3>2, <3>3 DEF Turns!Next, Turns!EndTurn
    <2> QED
      BY <2>6, <2>7, <2>8
  <1>5. CASE ~MapTurn /\ ~(MapCount /\ i + 1 = NumAirlines)
    <2>1. Phase' = Phase
      <3>1. CASE MapAnnounce
        BY <3>1, AnnounceGoes DEF Phase, AfterAnnouncing
      <3>2. CASE MapCount
        BY <1>5, <3>2 DEF MapCount, Phase
      <3>3. CASE MapUnload \/ MapDestinations
        BY <3>3 DEF MapUnload, MapDestinations, Phase
      <3>4. CASE MapReply
        BY <3>4 DEF MapReply, AfterReply, Phase
      <3>5. CASE MapWait \/ Signal \/ UNCHANGED vars
        BY <3>5 DEF MapWait, Signal, mapVars, vars, Phase
      <3> QED
        BY <1>5, <3>1, <3>2, <3>3, <3>4, <3>5 DEF Map
    <2> QED
      BY <1>1, <2>1, NobodyMoves
  <1> QED
    BY <1>3, <1>4, <1>5

LEMMA PlaneTakesATurn ==
    ASSUME TurnInv, NEW p \in Plane, PlaneThread(p)
    PROVE  Turns!Next \/ UNCHANGED <<Phase, Flying, Working>>
  <1>0. PICK st : Settled(st)
    BY DEF TurnInv
  <1>1. mapPc' = mapPc /\ \A q \in Plane \ {p} : planePc'[q] = planePc[q] /\ done'[q] = done[q]
    BY PlaneFrame
  <1>2. /\ Phase' = Phase
        /\ InUnload' <=> InUnload
        /\ InMove' <=> InMove
    BY <1>1 DEF Phase, InUnload, InMove
  <1>3. \A q \in Plane \ {p} : (Flies(q)' <=> Flies(q)) /\ (Works(q)' <=> Works(q))
    BY <1>1, <1>2 DEF Flies, Works
  <1>4. (/\ Flying \in SUBSET Plane /\ Working \in SUBSET Flying
         /\ \A q \in Plane : q \in Flying <=> Flies(q)
         /\ \A q \in Plane : q \in Working <=> Flies(q) /\ Works(q))'
    BY SetsMean, PTL
  <1>5. ASSUME Flies(p)' <=> Flies(p), Works(p)' <=> Works(p)
        PROVE  UNCHANGED <<Phase, Flying, Working>>
    <2>1. \A q \in Plane : (Flies(q)' <=> Flies(q)) /\ (Works(q)' <=> Works(q))
      BY <1>3, <1>5
    <2>2. Flying' = Flying /\ Working' = Working
      BY <1>4, <2>1, SetsMean
    <2> QED
      BY <1>2, <2>2
  <1>6. CASE PlanePeek(p) \/ PlaneRequest(p) \/ PlaneUnloaded(p) \/ PlaneContinue(p)
             \/ PlaneDestination(p) \/ (PlaneStep(p) /\ planePc'[p] # "exited")
    <2>1. Located(st, p) /\ planePc[p] \notin Reporting \cup {"exited"}
          /\ planePc'[p] \notin Reporting \cup {"exited"}
      BY <1>0, <1>6, PeekGoes, StepGoes, RequestGoes, UnloadedGoes, ContinueGoes, DestinationGoes
         DEF Settled, Reporting, AfterPeek, AfterReport, RequestOf, AfterRequest
    <2>2. Works(p)' <=> Works(p)
      <3>1. CASE PlanePeek(p)
        BY <1>2, <3>1, PeekGoes DEF AfterPeek, Works, Unloading, Moving
      <3>2. CASE PlaneRequest(p)
        BY <1>2, <3>2, RequestGoes DEF RequestOf, AfterRequest, Works, Unloading, Moving
      <3>3. CASE PlaneStep(p) /\ planePc'[p] # "exited"
        BY <1>2, <3>3, StepGoes DEF Works, Unloading
      <3>4. CASE PlaneUnloaded(p)
        BY <1>2, <3>4, UnloadedGoes DEF Works, Unloading, Moving
      <3>5. CASE PlaneContinue(p)
        BY <1>2, <3>5, ContinueGoes DEF Works, Unloading, Moving
      <3>6. CASE PlaneDestination(p)
        BY <1>2, <3>6, DestinationGoes DEF Works, Unloading, Moving
      <3> QED
        BY <1>6, <3>1, <3>2, <3>3, <3>4, <3>5, <3>6
    <2> QED
      BY <1>5, <2>1, <2>2 DEF Flies
  <1>7. CASE PlaneStep(p) /\ planePc'[p] = "exited"
    <2>1. planePc[p] = "step" /\ ~InTurn /\ mapPc # "turn"
      BY <1>7, StepGoes, EndedMeans, PlaceOf DEF EndSent, IsOver
    <2>2. Phase = "over"
      BY <2>1, PhaseMeans
    <2>3. Flies(p) /\ ~Flies(p)'
      BY <1>7, <2>1 DEF Flies, Reporting, AfterReport
    <2>4. Flying' = Flying \ {p} /\ p \in Flying
      BY <1>3, <1>4, <2>3, SetsMean
    <2>5. Working = {} /\ Working' = {}
      BY <1>2, <2>2 DEF Working
    <2> QED
      BY <1>2, <2>2, <2>4, <2>5 DEF Turns!Next, Turns!Leave
  <1>8. CASE PlaneCount(p)
    <2>1. /\ planePc[p] \in {"count1", "count2"} /\ done' = done
          /\ planePc'[p] \in {ReportAt[planePc[p]], AfterReady(p, planePc[p])}
      BY <1>8, CountGoes DEF ReportAt
    <2>2. Located(st, p)
      BY <1>0 DEF Settled
    <2>3. /\ planePc[p] = "count1" => InUnload /\ ~InMove
          /\ planePc[p] = "count2" => InMove /\ ~InUnload
      BY <2>2, TurnSides DEF Located, Unloading, Moving
    <2>4. Flies(p) /\ Works(p)
      BY <2>1, <2>3 DEF Flies, Works, Reporting, AfterReport, Unloading, Moving
    <2>5. ~Works(p)'
      <3>1. /\ planePc[p] = "count1" => planePc'[p] \in {"report1", "exited", "cont"}
            /\ planePc[p] = "count2" => planePc'[p] \in {"report2", "exited", "step"}
        BY <2>1 DEF ReportAt, AfterReady
      <3> QED
        BY <1>2, <2>1, <2>3, <3>1 DEF Works, Unloading, Moving
    <2>6. p \in Working /\ Working' = Working \ {p}
      BY <1>3, <1>4, <2>4, <2>5, SetsMean
    <2>7. Flying' \in {Flying, Flying \ {p}}
      <3>1. CASE Flies(p)'
        <4>1. \A q \in Plane : Flies(q)' <=> Flies(q)
          BY <1>3, <2>4, <3>1
        <4> QED
          BY <1>4, <4>1, SetsMean
      <3>2. CASE ~Flies(p)'
        BY <1>3, <1>4, <3>2, SetsMean
      <3> QED
        BY <3>1, <3>2
    <2> QED
      BY <1>2, <2>6, <2>7 DEF Turns!Next, Turns!Finish
  <1>9. CASE PlaneReport(p) \/ PlaneUnlock(p)
    <2>1. /\ \/ planePc[p] = "report1" /\ planePc'[p] = "unlock1"
             \/ planePc[p] = "report2" /\ planePc'[p] = "unlock2"
             \/ planePc[p] = "unlock1" /\ planePc'[p] = IF done[p] THEN "exited" ELSE "cont"
             \/ planePc[p] = "unlock2" /\ planePc'[p] = IF done[p] THEN "exited" ELSE "step"
          /\ done' = done
      BY <1>9, ReportGoes, UnlockGoes DEF AfterReport, AfterReady
    <2>2. Located(st, p)
      BY <1>0 DEF Settled
    <2>3. /\ planePc[p] = "report1" => InUnload /\ ~InMove
          /\ planePc[p] = "report2" => InMove /\ ~InUnload
      BY <2>2, TurnSides DEF Located, Unloading, Moving
    <2>4. Flies(p)' <=> Flies(p)
      BY <2>1 DEF Flies, Reporting, AfterReport
    <2>5. Flies(p) => (Works(p)' <=> Works(p))
      BY <1>2, <2>1, <2>3 DEF Flies, Works, Reporting, AfterReport, Unloading, Moving
    <2>6. \A q \in Plane : (Flies(q)' <=> Flies(q)) /\ (Flies(q) => (Works(q)' <=> Works(q)))
      BY <1>3, <2>4, <2>5
    <2>7. Flying' = Flying /\ Working' = Working
      BY <1>4, <2>6, SetsMean
    <2> QED
      BY <1>2, <2>7
  <1> QED
    BY <1>6, <1>7, <1>8, <1>9 DEF PlaneThread

LEMMA TurnStep == TurnInv /\ [Next]_vars => [Turns!Next]_(Turns!vars)
  <1> SUFFICES ASSUME TurnInv, [Next]_vars
               PROVE  Turns!Next \/ UNCHANGED <<Phase, Flying, Working>>
    BY DEF Turns!vars
  <1>1. CASE Map \/ Signal \/ UNCHANGED vars
    BY <1>1, MapTakesATurn
  <1>2. ASSUME NEW a \in Airline, AirlineMain(a)
        PROVE  UNCHANGED <<Phase, Flying, Working>>
    BY <1>2, AirFrame, NobodyMoves DEF Phase
  <1>3. ASSUME NEW p \in Plane, PlaneThread(p)
        PROVE  Turns!Next \/ UNCHANGED <<Phase, Flying, Working>>
    BY <1>3, PlaneTakesATurn
  <1> QED
    BY <1>1, <1>2, <1>3 DEF Next, Terminated

LEMMA TurnStart == Init => Turns!Init
  <1> SUFFICES ASSUME Init PROVE Turns!Init
    OBVIOUS
  <1>1. mapPc = "turn" /\ \A p \in Plane : planePc[p] = "step" /\ ~done[p]
    BY DEF Init
  <1>2. Phase = "rest"
    BY <1>1 DEF Phase
  <1>3. Flying = Plane /\ Working = {}
    BY <1>1, <1>2 DEF Flying, Working
  <1> QED
    BY <1>2, <1>3 DEF Turns!Init

(* The locks, the counters and the messages of map.c:55-120, airline.c:168-200   *)
(* and plane.c:32-63 make up the barrier of TurnBarrier: a phase begins for all  *)
(* the planes in the game at once, and the next only when each of them has       *)
(* finished it.                                                                  *)
THEOREM TurnsAreABarrier == Spec => ImplementsTurnBarrier
  BY TurnStart, TurnStep, TurnsKept, PTL DEF Spec, ImplementsTurnBarrier, Turns!Spec

-----------------------------------------------------------------------------
(* The folds of the operators on the data, as running sums.                     *)

LEMMA GreatestIn ==
    ASSUME NEW n \in Nat, NEW s \in SUBSET (1 .. n), s # {}
    PROVE  Max(s) \in s /\ \A y \in s : y <= Max(s)
  <1> DEFINE above == {u \in Nat : \A y \in s : y <= u}
  <1>1. above \in SUBSET Nat /\ n \in above
    OBVIOUS
  <1>2. PICK m \in above : \A u \in above : m <= u
    BY <1>1, LeastIn
  <1>3. m \in s
    <2>1. SUFFICES ASSUME m \notin s PROVE FALSE
      OBVIOUS
    <2>2. \A y \in s : y \in Nat \ {0} /\ y <= m /\ y # m
      BY <2>1
    <2>3. PICK y \in s : TRUE
      OBVIOUS
    <2>4. m - 1 \in Nat
      BY <2>2, <2>3
    <2>5. m - 1 \in above
      BY <2>2, <2>4
    <2> QED
      BY <1>2, <2>4, <2>5
  <1> QED
    BY <1>3 DEF Max

LEMMA GreatestOfPrefix ==
    ASSUME NEW n \in Nat, NEW k \in 1 .. n
    PROVE  /\ 1 .. k \in SUBSET (1 .. n) /\ 1 .. k # {} /\ Max(1 .. k) = k
           /\ (1 .. k) \ {k} = 1 .. (k - 1)
  <1>1. 1 .. k \in SUBSET (1 .. n) /\ k \in 1 .. k /\ (1 .. k) \ {k} = 1 .. (k - 1)
    OBVIOUS
  <1>2. Max(1 .. k) \in 1 .. k /\ \A y \in 1 .. k : y <= Max(1 .. k)
    BY <1>1, GreatestIn
  <1> QED
    BY <1>1, <1>2

(* The equation behind FoldLeft with an operator that adds f[k] at position k.   *)
AddsUp(g, f, n) ==
    g = [s \in SUBSET (1 .. n) |-> IF s = {} THEN 0 ELSE g[s \ {Max(s)}] + f[Max(s)]]

LEMMA AddsUpExists ==
    ASSUME NEW n \in Nat, NEW f \in [1 .. n -> Int]
    PROVE  \E g : AddsUp(g, f, n)
  <1> DEFINE S    == 1 .. n
             ch   == [s \in SUBSET S |-> Max(s)]
             step == [w \in Int \X S |-> w[1] + f[w[2]]]
  <1>1. IsFiniteSet(S)
    BY FS_Interval
  <1>2. \A s \in SUBSET S : s # {} => ch[s] \in s
    BY GreatestIn
  <1>3. step \in [Int \X S -> Int] /\ 0 \in Int
    OBVIOUS
  <1> HIDE DEF step, ch, S
  <1>4. PICK g \in [SUBSET S -> Int] : Folds(g, 0, step, ch, S)
    BY <1>1, <1>2, <1>3, FoldExists, Zenon
  <1>5. ASSUME NEW s \in SUBSET S
        PROVE  g[s] = IF s = {} THEN 0 ELSE g[s \ {Max(s)}] + f[Max(s)]
    <2>1. g[s] = IF s = {} THEN 0 ELSE step[<<g[s \ {ch[s]}], ch[s]>>]
      BY <1>4 DEF Folds
    <2>2. ASSUME s # {}
          PROVE  step[<<g[s \ {ch[s]}], ch[s]>>] = g[s \ {Max(s)}] + f[Max(s)]
      <3>1. ch[s] = Max(s) /\ ch[s] \in S /\ g[s \ {ch[s]}] \in Int
        BY <1>2, <1>4, <2>2 DEF ch
      <3>2. \A v \in Int, x \in S : step[<<v, x>>] = v + f[x]
        BY DEF step
      <3> QED
        BY <3>1, <3>2
    <2> QED
      BY <2>1, <2>2
  <1>6. g = [s \in SUBSET S |-> g[s]]
    BY <1>4
  <1>7. g = [s \in SUBSET S |-> IF s = {} THEN 0 ELSE g[s \ {Max(s)}] + f[Max(s)]]
    BY <1>5, <1>6
  <1> QED
    BY <1>7 DEF AddsUp, S

LEMMA AddsUpAdds ==
    ASSUME NEW n \in Nat, NEW f \in [1 .. n -> Int], NEW g, AddsUp(g, f, n)
    PROVE  \E a : Adds(a, f, n) /\ a[n] = g[1 .. n]
  <1>1. PICK a : a = [k \in 0 .. n |-> g[1 .. k]]
    OBVIOUS
  <1>2. 0 \in 0 .. n /\ a[0] = 0
    <2>1. {} \in SUBSET (1 .. n) /\ 1 .. 0 = {}
      OBVIOUS
    <2>2. g[{}] = 0
      BY <2>1 DEF AddsUp
    <2> QED
      BY <1>1, <2>1, <2>2
  <1>3. ASSUME NEW k \in 1 .. n
        PROVE  a[k] = a[k - 1] + f[k]
    <2>1. /\ 1 .. k \in SUBSET (1 .. n) /\ 1 .. k # {} /\ Max(1 .. k) = k
          /\ (1 .. k) \ {k} = 1 .. (k - 1)
      BY GreatestOfPrefix
    <2>2. g[1 .. k] = g[(1 .. k) \ {Max(1 .. k)}] + f[Max(1 .. k)]
      BY <2>1, Zenon DEF AddsUp
    <2>3. g[1 .. k] = g[1 .. (k - 1)] + f[k]
      BY <2>1, <2>2
    <2>4. k \in 0 .. n /\ k - 1 \in 0 .. n
      OBVIOUS
    <2> QED
      BY <1>1, <2>3, <2>4
  <1>4. \A k \in 0 .. n : k \in {j \in 0 .. n : a[j] \in Int}
    <2> DEFINE T == {j \in 0 .. n : a[j] \in Int}
    <2>1. 0 \in T
      BY <1>2
    <2>2. ASSUME NEW k \in 0 .. n - 1, k \in T PROVE k + 1 \in T
      <3>1. k + 1 \in 1 .. n /\ (k + 1) - 1 = k
        OBVIOUS
      <3>2. a[k + 1] = a[k] + f[k + 1]
        BY <1>3, <3>1
      <3> QED
        BY <2>2, <3>1, <3>2
    <2> HIDE DEF T
    <2>3. \A k \in 0 .. n : k \in T
      BY <2>1, <2>2, EachReached
    <2> QED
      BY <2>3 DEF T
  <1>5. a \in [0 .. n -> Int]
    BY <1>1, <1>4
  <1>6. n \in 0 .. n /\ a[n] = g[1 .. n]
    BY <1>1
  <1> QED
    BY <1>2, <1>3, <1>5, <1>6 DEF Adds

(* The lists of stocks, and the sum of their amounts.                            *)
Stock == [product : Nat, amount : Nat]

Amounts(stocks) == [k \in 1 .. Len(stocks) |-> stocks[k].amount]

LEMMA StocksAre ==
    ASSUME NEW stocks \in StockList
    PROVE  /\ stocks \in Seq(Stock) /\ Len(stocks) \in Nat /\ DOMAIN stocks = 1 .. Len(stocks)
           /\ stocks \in [1 .. Len(stocks) -> Stock]
           /\ \A k \in 1 .. Len(stocks) : stocks[k] \in Stock
           /\ Amounts(stocks) \in [1 .. Len(stocks) -> Nat]
           /\ Amounts(stocks) \in [1 .. Len(stocks) -> Int]
  <1>1. stocks \in Seq(Stock)
    BY DEF StockList, Stock
  <1>2. /\ Len(stocks) \in Nat /\ DOMAIN stocks = 1 .. Len(stocks)
        /\ stocks \in [1 .. Len(stocks) -> Stock]
    BY <1>1, LenProperties
  <1>3. \A k \in 1 .. Len(stocks) : stocks[k] \in Stock
    BY <1>2
  <1>4. \A k \in 1 .. Len(stocks) : stocks[k].amount \in Nat
    BY <1>3 DEF Stock
  <1> QED
    BY <1>1, <1>2, <1>3, <1>4 DEF Amounts

LEMMA TotalRuns ==
    ASSUME NEW stocks \in StockList
    PROVE  \E a : /\ Adds(a, Amounts(stocks), Len(stocks))
                  /\ TotalAmount(stocks) = a[Len(stocks)]
  <1> DEFINE n    == Len(stocks)
             Eq(g) == g = [s \in SUBSET (DOMAIN stocks) |->
                              IF s = {} THEN 0 ELSE g[s \ {Max(s)}] + stocks[Max(s)].amount]
  <1>1. TotalAmount(stocks) = (CHOOSE g : Eq(g))[DOMAIN stocks]
    BY Zenon DEF TotalAmount, FoldLeft, MapThenFoldSet
  <1>2. n \in Nat /\ DOMAIN stocks = 1 .. n /\ Amounts(stocks) \in [1 .. n -> Int]
    BY StocksAre
  <1>3. \A s \in SUBSET (1 .. n) : s # {} => Amounts(stocks)[Max(s)] = stocks[Max(s)].amount
    BY <1>2, GreatestIn DEF Amounts
  <1>4. ASSUME NEW g
        PROVE  Eq(g) <=> AddsUp(g, Amounts(stocks), n)
    <2>1. ASSUME NEW s \in SUBSET (1 .. n)
          PROVE  (IF s = {} THEN 0 ELSE g[s \ {Max(s)}] + stocks[Max(s)].amount)
                    = (IF s = {} THEN 0 ELSE g[s \ {Max(s)}] + Amounts(stocks)[Max(s)])
      BY <1>3
    <2>2. [s \in SUBSET (1 .. n) |->
              IF s = {} THEN 0 ELSE g[s \ {Max(s)}] + stocks[Max(s)].amount]
          = [s \in SUBSET (1 .. n) |->
              IF s = {} THEN 0 ELSE g[s \ {Max(s)}] + Amounts(stocks)[Max(s)]]
      BY <2>1, Zenon
    <2> QED
      BY <1>2, <2>2 DEF AddsUp
  <1>5. \E g : Eq(g)
    BY <1>2, <1>4, AddsUpExists
  <1> HIDE DEF Eq
  <1>6. PICK h : h = CHOOSE g : Eq(g)
    OBVIOUS
  <1>7. Eq(h)
    BY <1>5, <1>6, Zenon
  <1>8. AddsUp(h, Amounts(stocks), n)
    BY <1>4, <1>7
  <1>9. PICK a : Adds(a, Amounts(stocks), n) /\ a[n] = h[1 .. n]
    BY <1>2, <1>8, AddsUpAdds
  <1> QED
    BY <1>1, <1>2, <1>6, <1>9, Zenon DEF n

LEMMA TotalIsNat ==
    ASSUME NEW stocks \in StockList
    PROVE  /\ TotalAmount(stocks) \in Nat
           /\ TotalAmount(stocks) = 0 <=> Satisfied(stocks)
  <1>1. PICK a : /\ Adds(a, Amounts(stocks), Len(stocks))
                 /\ TotalAmount(stocks) = a[Len(stocks)]
    BY TotalRuns
  <1>2. /\ Len(stocks) \in Nat /\ Amounts(stocks) \in [1 .. Len(stocks) -> Nat]
        /\ DOMAIN stocks = 1 .. Len(stocks)
    BY StocksAre
  <1>3. /\ a[Len(stocks)] \in Nat
        /\ a[Len(stocks)] = 0 <=> \A k \in 1 .. Len(stocks) : Amounts(stocks)[k] = 0
    BY <1>1, <1>2, AddsNothing
  <1>4. \A k \in 1 .. Len(stocks) : Amounts(stocks)[k] = stocks[k].amount
    BY DEF Amounts
  <1> QED
    BY <1>1, <1>2, <1>3, <1>4 DEF Satisfied

LEMMA TotalOfNone == TotalAmount(<<>>) = 0
  <1>1. <<>> \in StockList /\ Len(<<>>) = 0
    BY DEF StockList
  <1> QED
    BY <1>1, TotalRuns DEF Adds

LEMMA TotalOfOneMore ==
    ASSUME NEW stocks \in StockList, NEW s \in Stock
    PROVE  /\ Append(stocks, s) \in StockList
           /\ TotalAmount(Append(stocks, s)) = TotalAmount(stocks) + s.amount
  <1> DEFINE n    == Len(stocks)
             more == Append(stocks, s)
  <1>1. /\ n \in Nat /\ stocks \in Seq(Stock)
    BY StocksAre
  <1>2. /\ more \in Seq(Stock) /\ Len(more) = n + 1
        /\ \A k \in 1 .. n : more[k] = stocks[k]
        /\ more[n + 1] = s
    BY <1>1, AppendProperties
  <1>3. more \in StockList
    BY <1>2 DEF StockList, Stock
  <1> HIDE DEF more
  <1>4. PICK a : Adds(a, Amounts(stocks), n) /\ TotalAmount(stocks) = a[n]
    BY TotalRuns
  <1>5. PICK b : Adds(b, Amounts(more), n + 1) /\ TotalAmount(more) = b[n + 1]
    BY <1>2, <1>3, TotalRuns
  <1>6. /\ \A k \in 1 .. n : Amounts(more)[k] = Amounts(stocks)[k]
        /\ Amounts(more)[n + 1] = s.amount
    BY <1>1, <1>2 DEF Amounts
  <1>7. b[n + 1] = a[n] + Amounts(more)[n + 1]
    BY <1>1, <1>4, <1>5, <1>6, AddsOneMore
  <1> QED
    BY <1>3, <1>4, <1>5, <1>6, <1>7 DEF more

LEMMA TotalOfOneOther ==
    ASSUME NEW stocks \in StockList, NEW after \in StockList, Len(after) = Len(stocks),
           NEW p \in 1 .. Len(stocks),
           \A k \in 1 .. Len(stocks) : k # p => after[k] = stocks[k]
    PROVE  TotalAmount(after) - after[p].amount = TotalAmount(stocks) - stocks[p].amount
  <1>1. PICK n \in Nat : n = Len(stocks)
    BY StocksAre
  <1>2. PICK f, h : f = Amounts(stocks) /\ h = Amounts(after)
    OBVIOUS
  <1>3. PICK a : Adds(a, f, n) /\ TotalAmount(stocks) = a[n]
    BY <1>1, <1>2, TotalRuns, Zenon
  <1>4. PICK b : Adds(b, h, n) /\ TotalAmount(after) = b[n]
    BY <1>1, <1>2, TotalRuns, Zenon
  <1>5. f[p] = stocks[p].amount /\ h[p] = after[p].amount
    BY <1>2 DEF Amounts
  <1>6. DifferAt(f, h, p, n)
    BY <1>1, <1>2, StocksAre DEF DifferAt, Amounts
  <1>7. b[n] - h[p] = a[n] - f[p]
    <2>1. Adds(a, f, n) /\ Adds(b, h, n)
      BY <1>3, <1>4
    <2>2. n \in Nat
      BY <1>1
    <2> QED
      BY <1>6, <2>1, <2>2, AddsOneOther, SMT
  <1> QED
    BY <1>3, <1>4, <1>5, <1>7, Zenon

(* A stock list with the entries of another, none of which has grown.            *)
Lowered(after, before) ==
    /\ after \in StockList /\ Len(after) = Len(before)
    /\ \A k \in 1 .. Len(before) : /\ after[k].product = before[k].product
                                   /\ after[k].amount <= before[k].amount

LEMMA EntryIsInList ==
    ASSUME NEW city \in StockList, city # <<>>, NEW product
    PROVE  EntryFor(city, product) \in 1 .. Len(city)
  <1> DEFINE found == {k \in DOMAIN city : city[k].product = product}
  <1>1. Len(city) \in Nat \ {0} /\ DOMAIN city = 1 .. Len(city)
    <2>1. city \in Seq(Stock) /\ Len(city) \in Nat /\ DOMAIN city = 1 .. Len(city)
      BY StocksAre
    <2>2. Len(city) # 0
      BY <2>1, EmptySeq
    <2> QED
      BY <2>1, <2>2
  <1>2. found # {} => Min(found) \in found
    <2>1. found \in SUBSET Nat
      BY <1>1
    <2> QED
      BY <2>1, LeastIn
  <1>3. EntryFor(city, product) = IF found = {} THEN Len(city) ELSE Min(found)
    BY DEF EntryFor
  <1> QED
    BY <1>1, <1>2, <1>3

LEMMA LeastOf ==
    ASSUME NEW a \in Nat, NEW b \in Nat
    PROVE  /\ Least(a, b) \in Nat /\ a - Least(a, b) \in Nat /\ b - Least(a, b) \in Nat
           /\ a - Least(a, b) <= a /\ b - Least(a, b) <= b
           /\ a - Least(a, b) = 0 \/ b - Least(a, b) = 0
           /\ Least(a, b) = 0 <=> a = 0 \/ b = 0
  BY DEF Least

(* One iteration of updateMap. *)
LEMMA EntryDischarged ==
    ASSUME NEW v, v.city \in StockList, v.city # <<>>, v.plane \in StockList, NEW s \in Stock,
           NEW next, next = DischargeEntry(v, s)
    PROVE  /\ next = [city |-> next.city, plane |-> next.plane]
           /\ Lowered(next.city, v.city)
           /\ \E kept \in Stock : /\ next.plane = Append(v.plane, kept)
                                  /\ kept.product = s.product /\ kept.amount <= s.amount
           /\ next.plane \in StockList
           /\ TotalAmount(next.city) - TotalAmount(next.plane)
                 = (TotalAmount(v.city) - TotalAmount(v.plane)) - s.amount
  <1> DEFINE e == EntryFor(v.city, s.product)
  <1>1. PICK city, n, entry, had, gave, moved :
           /\ city = v.city /\ n = Len(city) /\ entry = e /\ had = city[entry].amount
           /\ gave = s.amount /\ moved = Least(had, gave)
    OBVIOUS
  <1>2. /\ n \in Nat /\ entry \in 1 .. n
        /\ city \in [1 .. n -> Stock] /\ DOMAIN city = 1 .. n
        /\ \A k \in 1 .. n : city[k] \in Stock
    BY <1>1, EntryIsInList, StocksAre
  <1>3. had \in Nat /\ gave \in Nat
    BY <1>1, <1>2 DEF Stock
  <1>4. moved \in Nat /\ had - moved \in Nat /\ gave - moved \in Nat
    BY <1>1, <1>3, LeastOf
  <1>5. PICK left, kept : /\ left = [city EXCEPT ![entry].amount = had - moved]
                          /\ kept = [s EXCEPT !.amount = gave - moved]
    OBVIOUS
  <1>6. next.city = left /\ next.plane = Append(v.plane, kept)
        /\ next = [city |-> next.city, plane |-> next.plane]
    BY <1>1, <1>5 DEF DischargeEntry
  <1>7. kept \in Stock /\ kept.product = s.product /\ kept.amount = gave - moved
    BY <1>1, <1>4, <1>5 DEF Stock
  <1>8. /\ left \in [1 .. n -> Stock]
        /\ left[entry].amount = had - moved /\ left[entry].product = city[entry].product
        /\ \A k \in 1 .. n : k # entry => left[k] = city[k]
    <2>1. left = [city EXCEPT ![entry] = [city[entry] EXCEPT !.amount = had - moved]]
      BY <1>5
    <2>2. PICK lower : lower = [city[entry] EXCEPT !.amount = had - moved]
      OBVIOUS
    <2>3. city[entry] \in Stock
      BY <1>2
    <2>4. /\ lower \in Stock /\ lower.amount = had - moved
          /\ lower.product = city[entry].product
      BY <1>4, <2>2, <2>3 DEF Stock
    <2> QED
      BY <1>2, <2>1, <2>2, <2>4
  <1>9. left \in StockList /\ Len(left) = n
    <2>1. left \in Seq(Stock) /\ Len(left) = n
      BY <1>2, <1>8
    <2> QED
      BY <2>1 DEF StockList, Stock
  <1>10. Lowered(left, city)
    <2>1. had - moved <= had
      BY <1>3, <1>4
    <2>2. ASSUME NEW k \in 1 .. n
          PROVE  left[k].product = city[k].product /\ left[k].amount <= city[k].amount
      <3>1. CASE k = entry
        BY <1>1, <1>8, <2>1, <3>1
      <3>2. CASE k # entry
        <4>1. left[k] = city[k] /\ city[k].amount \in Nat
          BY <1>2, <1>8, <3>2 DEF Stock
        <4> QED
          BY <4>1
      <3> QED
        BY <3>1, <3>2
    <2> QED
      BY <1>1, <1>9, <2>2 DEF Lowered
  <1>11. next.plane \in StockList
         /\ TotalAmount(next.plane) = TotalAmount(v.plane) + (gave - moved)
    BY <1>6, <1>7, TotalOfOneMore
  <1>12. TotalAmount(left) - (had - moved) = TotalAmount(city) - had
    BY <1>1, <1>2, <1>8, <1>9, TotalOfOneOther
  <1>13. TotalAmount(left) \in Nat /\ TotalAmount(city) \in Nat /\ TotalAmount(v.plane) \in Nat
    BY <1>1, <1>9, TotalIsNat
  <1>14. kept.amount <= s.amount
    BY <1>1, <1>3, <1>4, <1>7
  <1>15. TotalAmount(next.city) - TotalAmount(next.plane)
            = (TotalAmount(v.city) - TotalAmount(v.plane)) - s.amount
    <2>1. PICK after, before, on : /\ after = TotalAmount(left) /\ before = TotalAmount(city)
                                   /\ on = TotalAmount(v.plane)
      OBVIOUS
    <2>2. /\ after \in Nat /\ before \in Nat /\ on \in Nat
          /\ after - (had - moved) = before - had
      BY <1>12, <1>13, <2>1
    <2>3. after - (on + (gave - moved)) = (before - on) - gave
      BY <1>3, <1>4, <2>2
    <2> QED
      BY <1>1, <1>6, <1>11, <2>1, <2>3
  <1>16. \E k \in Stock : /\ next.plane = Append(v.plane, k)
                          /\ k.product = s.product /\ k.amount <= s.amount
    BY <1>6, <1>7, <1>14
  <1> QED
    BY <1>1, <1>6, <1>10, <1>11, <1>15, <1>16

(* The equation behind FoldLeft.                                                 *)
FoldsLeft(g, base, step, n) ==
    \A s \in SUBSET (1 .. n) :
        g[s] = IF s = {} THEN base ELSE step[<<g[s \ {Max(s)}], Max(s)>>]

LEMMA FoldLeftExists ==
    ASSUME NEW n \in Nat, NEW V, NEW base \in V, NEW step \in [V \X (1 .. n) -> V]
    PROVE  \E g \in [SUBSET (1 .. n) -> V] : FoldsLeft(g, base, step, n)
  <1> DEFINE S  == 1 .. n
             ch == [s \in SUBSET S |-> Max(s)]
  <1>1. IsFiniteSet(S)
    BY FS_Interval
  <1>2. \A s \in SUBSET S : s # {} => ch[s] \in s
    BY GreatestIn
  <1>3. \A s \in SUBSET S : ch[s] = Max(s)
    OBVIOUS
  <1> HIDE DEF ch, S
  <1>4. PICK g \in [SUBSET S -> V] : Folds(g, base, step, ch, S)
    <2>1. base \in V /\ step \in [V \X S -> V]
      BY DEF S
    <2> QED
      BY <1>1, <1>2, <2>1, FoldExists, Zenon
  <1>5. \A s \in SUBSET S : g[s] = IF s = {} THEN base ELSE step[<<g[s \ {Max(s)}], Max(s)>>]
    BY <1>3, <1>4, Zenon DEF Folds
  <1> QED
    BY <1>5 DEF S, FoldsLeft

(* The states of the loop of updateMap, one after each entry of the plane.       *)
LEMMA DischargeRuns ==
    ASSUME NEW city \in StockList, city # <<>>, NEW plane \in StockList
    PROVE  \E acc : /\ acc[0] = [city |-> city, plane |-> <<>>]
                    /\ \A k \in 1 .. Len(plane) : acc[k] = DischargeEntry(acc[k - 1], plane[k])
                    /\ Discharge(city, plane) = acc[Len(plane)]
  <1> DEFINE base  == [city |-> city, plane |-> <<>>]
             V     == {v \in [city : StockList, plane : StockList] : v.city # <<>>}
             Eq(g) == g = [s \in SUBSET (DOMAIN plane) |->
                              IF s = {} THEN base
                              ELSE DischargeEntry(g[s \ {Max(s)}], plane[Max(s)])]
  <1>1. Discharge(city, plane) = (CHOOSE g : Eq(g))[DOMAIN plane]
    BY Zenon DEF Discharge, FoldLeft, MapThenFoldSet
  <1>2. PICK n \in Nat : /\ n = Len(plane) /\ DOMAIN plane = 1 .. n
                         /\ \A k \in 1 .. n : plane[k] \in Stock
    BY StocksAre
  <1>3. base \in V
    BY DEF StockList
  <1>4. ASSUME NEW v \in V, NEW k \in 1 .. n
        PROVE  DischargeEntry(v, plane[k]) \in V
    <2>1. PICK next : next = DischargeEntry(v, plane[k])
      OBVIOUS
    <2>2. v.city \in StockList /\ v.city # <<>> /\ v.plane \in StockList /\ plane[k] \in Stock
      BY <1>2
    <2>3. /\ next = [city |-> next.city, plane |-> next.plane]
          /\ Lowered(next.city, v.city) /\ next.plane \in StockList
      BY <2>1, <2>2, EntryDischarged
    <2>4. next.city \in StockList /\ Len(next.city) = Len(v.city)
      BY <2>3 DEF Lowered
    <2>5. next.city # <<>>
      <3>1. Len(v.city) # 0
        BY <2>2, StocksAre, EmptySeq
      <3> QED
        BY <2>4, <3>1
    <2> QED
      BY <2>1, <2>3, <2>4, <2>5
  <1> HIDE DEF V, base
  <1>5. PICK step : step = [w \in V \X (1 .. n) |-> DischargeEntry(w[1], plane[w[2]])]
    OBVIOUS
  <1>6. /\ step \in [V \X (1 .. n) -> V]
        /\ \A v \in V, k \in 1 .. n : step[<<v, k>>] = DischargeEntry(v, plane[k])
    BY <1>4, <1>5
  <1>7. PICK g \in [SUBSET (1 .. n) -> V] : FoldsLeft(g, base, step, n)
    <2>1. step \in [V \X (1 .. n) -> V]
      BY <1>6
    <2> QED
      BY <1>2, <1>3, <2>1, FoldLeftExists, Zenon
  <1>8. ASSUME NEW s \in SUBSET (1 .. n)
        PROVE  g[s] = IF s = {} THEN base ELSE DischargeEntry(g[s \ {Max(s)}], plane[Max(s)])
    <2>1. s # {} => Max(s) \in 1 .. n /\ g[s \ {Max(s)}] \in V
      BY <1>7, GreatestIn
    <2>2. s # {} => step[<<g[s \ {Max(s)}], Max(s)>>]
                       = DischargeEntry(g[s \ {Max(s)}], plane[Max(s)])
      BY <1>6, <2>1
    <2> QED
      BY <1>7, <2>2 DEF FoldsLeft
  <1>9. Eq(g)
    <2>1. g = [s \in SUBSET (1 .. n) |-> g[s]]
      BY <1>7
    <2>2. [s \in SUBSET (1 .. n) |-> g[s]]
             = [s \in SUBSET (1 .. n) |->
                   IF s = {} THEN base ELSE DischargeEntry(g[s \ {Max(s)}], plane[Max(s)])]
      BY <1>8, Zenon
    <2> QED
      BY <1>2, <2>1, <2>2
  <1>10. PICK h : h = CHOOSE f : Eq(f)
    OBVIOUS
  <1>11. Eq(h)
    <2> HIDE DEF Eq
    <2> QED
      BY <1>9, <1>10, Zenon
  <1>12. PICK acc : acc = [k \in 0 .. n |-> h[1 .. k]]
    OBVIOUS
  <1>13. 0 \in 0 .. n /\ acc[0] = base
    <2>1. {} \in SUBSET (1 .. n) /\ 1 .. 0 = {}
      OBVIOUS
    <2>2. h[{}] = base
      BY <1>2, <1>11, <2>1
    <2> QED
      BY <1>12, <2>1, <2>2
  <1>14. ASSUME NEW k \in 1 .. n
         PROVE  acc[k] = DischargeEntry(acc[k - 1], plane[k])
    <2>1. /\ 1 .. k \in SUBSET (1 .. n) /\ 1 .. k # {} /\ Max(1 .. k) = k
          /\ (1 .. k) \ {k} = 1 .. (k - 1)
      BY GreatestOfPrefix
    <2>2. h[1 .. k] = DischargeEntry(h[(1 .. k) \ {Max(1 .. k)}], plane[Max(1 .. k)])
      BY <1>2, <1>11, <2>1, Zenon
    <2>3. h[1 .. k] = DischargeEntry(h[1 .. (k - 1)], plane[k])
      BY <2>1, <2>2, Zenon
    <2>4. k \in 0 .. n /\ k - 1 \in 0 .. n
      OBVIOUS
    <2>5. acc[k] = h[1 .. k] /\ acc[k - 1] = h[1 .. (k - 1)]
      BY <1>12, <2>4
    <2> QED
      BY <2>3, <2>5, Zenon
  <1>15. Discharge(city, plane) = acc[n]
    <2>1. n \in 0 .. n
      OBVIOUS
    <2> QED
      BY <1>1, <1>2, <1>10, <1>12, <2>1
  <1> QED
    BY <1>2, <1>13, <1>14, <1>15, Zenon DEF base

(* updateMap loses and makes nothing. *)
LEMMA Discharged ==
    ASSUME NEW city \in StockList, city # <<>>, NEW plane \in StockList,
           NEW after, after = Discharge(city, plane)
    PROVE  /\ Lowered(after.city, city) /\ Lowered(after.plane, plane)
           /\ TotalAmount(after.city) - TotalAmount(after.plane)
                 = TotalAmount(city) - TotalAmount(plane)
  <1>1. PICK acc : /\ acc[0] = [city |-> city, plane |-> <<>>]
                   /\ \A k \in 1 .. Len(plane) : acc[k] = DischargeEntry(acc[k - 1], plane[k])
                   /\ Discharge(city, plane) = acc[Len(plane)]
    BY DischargeRuns
  <1>2. PICK a : Adds(a, Amounts(plane), Len(plane)) /\ TotalAmount(plane) = a[Len(plane)]
    BY TotalRuns
  <1>3. PICK n \in Nat : n = Len(plane) /\ \A k \in 1 .. n : plane[k] \in Stock
    BY StocksAre
  <1> DEFINE Sound(v, k) ==
                /\ Lowered(v.city, city) /\ v.city # <<>>
                /\ v.plane \in StockList /\ Len(v.plane) = k
                /\ \A j \in 1 .. k : /\ v.plane[j].product = plane[j].product
                                     /\ v.plane[j].amount <= plane[j].amount
                /\ TotalAmount(v.city) - TotalAmount(v.plane) = TotalAmount(city) - a[k]
             T == {k \in 0 .. n : Sound(acc[k], k)}
  <1>4. 0 \in T
    <2>1. PICK v : v = acc[0]
      OBVIOUS
    <2>2. v.city = city /\ v.plane = <<>>
      BY <1>1, <2>1
    <2>3. Lowered(city, city)
      <3>1. \A k \in 1 .. Len(city) : city[k].amount \in Nat
        BY StocksAre DEF Stock
      <3> QED
        BY <3>1 DEF Lowered
    <2>4. v.plane \in StockList /\ Len(v.plane) = 0
      BY <2>2 DEF StockList
    <2>5. a[0] = 0 /\ TotalAmount(v.plane) = 0
      BY <1>2, <2>2, TotalOfNone DEF Adds
    <2> QED
      BY <2>1, <2>2, <2>3, <2>4, <2>5
  <1>5. ASSUME NEW k \in 0 .. n - 1, k \in T
        PROVE  k + 1 \in T
    <2>1. PICK v, next, s : v = acc[k] /\ next = acc[k + 1] /\ s = plane[k + 1]
      OBVIOUS
    <2>2. k + 1 \in 1 .. n /\ (k + 1) - 1 = k
      OBVIOUS
    <2>3. next = DischargeEntry(v, s) /\ s \in Stock
      BY <1>1, <1>3, <2>1, <2>2
    <2>4. Sound(v, k)
      BY <1>5, <2>1
    <2>5. v.city \in StockList /\ Len(v.city) = Len(city) /\ v.city # <<>> /\ v.plane \in StockList
      BY <2>4 DEF Lowered
    <2>6. /\ Lowered(next.city, v.city) /\ next.plane \in StockList
          /\ TotalAmount(next.city) - TotalAmount(next.plane)
                = (TotalAmount(v.city) - TotalAmount(v.plane)) - s.amount
      BY <2>3, <2>5, EntryDischarged
    <2>7. PICK kept \in Stock : /\ next.plane = Append(v.plane, kept)
                                /\ kept.product = s.product /\ kept.amount <= s.amount
      BY <2>3, <2>5, EntryDischarged
    <2>8. Lowered(next.city, city) /\ next.city # <<>>
      <3>1. next.city \in StockList /\ Len(next.city) = Len(city)
        BY <2>5, <2>6 DEF Lowered
      <3>2. ASSUME NEW j \in 1 .. Len(city)
            PROVE  /\ next.city[j].product = city[j].product
                   /\ next.city[j].amount <= city[j].amount
        <4>1. PICK x, y, z : x = next.city[j] /\ y = v.city[j] /\ z = city[j]
          OBVIOUS
        <4>2. x \in Stock /\ y \in Stock /\ z \in Stock
          BY <2>5, <3>1, <4>1, StocksAre
        <4>3. x.product = y.product /\ x.amount <= y.amount
          BY <2>5, <2>6, <4>1 DEF Lowered
        <4>4. y.product = z.product /\ y.amount <= z.amount
          BY <2>4, <4>1 DEF Lowered
        <4> QED
          BY <4>1, <4>2, <4>3, <4>4 DEF Stock
      <3>3. Len(next.city) # 0
        BY <2>5, <3>1, StocksAre, EmptySeq
      <3>4. next.city # <<>>
        BY <3>3
      <3> QED
        BY <3>1, <3>2, <3>4 DEF Lowered
    <2>9. /\ Len(next.plane) = k + 1
          /\ \A j \in 1 .. k + 1 : /\ next.plane[j].product = plane[j].product
                                   /\ next.plane[j].amount <= plane[j].amount
      <3>1. v.plane \in Seq(Stock) /\ Len(v.plane) = k
        BY <2>4, <2>5, StocksAre
      <3>2. /\ Len(next.plane) = k + 1 /\ next.plane[k + 1] = kept
            /\ \A j \in 1 .. k : next.plane[j] = v.plane[j]
        BY <2>7, <3>1, AppendProperties
      <3>3. \A j \in 1 .. k + 1 : j \in 1 .. k \/ j = k + 1
        OBVIOUS
      <3> QED
        BY <2>1, <2>4, <2>7, <3>2, <3>3
    <2>10. TotalAmount(next.city) - TotalAmount(next.plane) = TotalAmount(city) - a[k + 1]
      <3>1. Amounts(plane)[k + 1] = s.amount
        BY <1>3, <2>1, <2>2 DEF Amounts
      <3>2. a[k + 1] = a[k] + s.amount /\ a[k] \in Int
        <4>1. a[k + 1] = a[(k + 1) - 1] + Amounts(plane)[k + 1]
          BY <1>2, <1>3, <2>2, Zenon DEF Adds
        <4>2. k \in 0 .. n /\ a \in [0 .. n -> Int]
          BY <1>2, <1>3 DEF Adds
        <4> QED
          BY <2>2, <3>1, <4>1, <4>2
      <3>3. PICK x, y, z, w, u : /\ x = TotalAmount(v.city) /\ y = TotalAmount(v.plane)
                                 /\ z = TotalAmount(city) /\ w = s.amount /\ u = a[k]
        OBVIOUS
      <3>4. /\ x \in Nat /\ y \in Nat /\ z \in Nat /\ w \in Nat /\ u \in Int /\ x - y = z - u
        BY <2>3, <2>4, <2>5, <3>2, <3>3, TotalIsNat DEF Stock
      <3>5. (x - y) - w = z - (u + w)
        BY <3>4
      <3> QED
        BY <2>6, <3>2, <3>3, <3>5
    <2>11. Sound(next, k + 1)
      BY <2>6, <2>8, <2>9, <2>10
    <2> QED
      BY <2>1, <2>2, <2>11
  <1>6. n \in T
    <2> HIDE DEF T
    <2>1. \A k \in 0 .. n : k \in T
      BY <1>4, <1>5, EachReached
    <2> QED
      BY <2>1
  <1>7. Sound(after, n)
    BY <1>1, <1>3, <1>6
  <1>8. Lowered(after.plane, plane)
    BY <1>3, <1>7 DEF Lowered
  <1> QED
    BY <1>2, <1>3, <1>7, <1>8

(* The value of a fold that adds f[k] at position k is the last running sum.      *)
LEMMA SumRuns ==
    ASSUME NEW n \in Nat, NEW f \in [1 .. n -> Int], NEW g, AddsUp(g, f, n)
    PROVE  \E a : Adds(a, f, n) /\ g[1 .. n] = a[n]
  BY AddsUpAdds, Zenon

Scores(city, plane) == [k \in 1 .. Len(city) |-> EntryScore(city[k], plane)]

LEMMA EntryScoreIs ==
    ASSUME NEW s \in Stock, NEW plane \in StockList
    PROVE  /\ EntryScore(s, plane) \in Nat
           /\ EntryScore(s, plane) = 0 <=>
                 LET found == {j \in DOMAIN plane : plane[j].product = s.product}
                 IN  found = {} \/ s.amount = 0 \/ plane[Min(found)].amount = 0
           /\ Satisfied(plane) => EntryScore(s, plane) = 0
  <1>1. PICK found : found = {j \in DOMAIN plane : plane[j].product = s.product}
    OBVIOUS
  <1>2. EntryScore(s, plane) = IF found = {} THEN 0 ELSE Least(s.amount, plane[Min(found)].amount)
    BY <1>1, Zenon DEF EntryScore
  <1>3. found \in SUBSET Nat
    <2>1. DOMAIN plane = 1 .. Len(plane) /\ Len(plane) \in Nat
      BY StocksAre
    <2> QED
      BY <1>1, <2>1
  <1>4. CASE found = {}
    BY <1>1, <1>2, <1>4
  <1>5. CASE found # {}
    <2>1. Min(found) \in DOMAIN plane
      BY <1>1, <1>3, <1>5, LeastIn
    <2>2. PICK x, y : x = s.amount /\ y = plane[Min(found)].amount
      OBVIOUS
    <2>3. x \in Nat /\ y \in Nat
      <3>1. plane[Min(found)] \in Stock
        BY <2>1, StocksAre
      <3> QED
        BY <2>2, <3>1 DEF Stock
    <2>4. EntryScore(s, plane) = Least(x, y)
      BY <1>2, <1>5, <2>2, Zenon
    <2>5. Least(x, y) \in Nat /\ (Least(x, y) = 0 <=> x = 0 \/ y = 0)
      BY <2>3, LeastOf
    <2>6. Satisfied(plane) => y = 0
      BY <2>1, <2>2 DEF Satisfied
    <2> QED
      BY <1>1, <1>5, <2>2, <2>4, <2>5, <2>6, Zenon
  <1> QED
    BY <1>4, <1>5

LEMMA ScoreRuns ==
    ASSUME NEW city \in StockList, NEW plane \in StockList
    PROVE  /\ Scores(city, plane) \in [1 .. Len(city) -> Nat]
           /\ \E a : /\ Adds(a, Scores(city, plane), Len(city))
                     /\ Score(city, plane) = a[Len(city)]
  <1> DEFINE f     == Scores(city, plane)
             Eq(g) == g = [s \in SUBSET (DOMAIN city) |->
                              IF s = {} THEN 0
                              ELSE g[s \ {Max(s)}] + EntryScore(city[Max(s)], plane)]
  <1>1. Score(city, plane) = (CHOOSE g : Eq(g))[DOMAIN city]
    BY Zenon DEF Score, FoldLeft, MapThenFoldSet
  <1>2. PICK n \in Nat : /\ n = Len(city) /\ DOMAIN city = 1 .. n
                         /\ \A k \in 1 .. n : city[k] \in Stock
    BY StocksAre
  <1>3. f \in [1 .. n -> Nat] /\ f \in [1 .. n -> Int]
    <2>1. \A k \in 1 .. n : EntryScore(city[k], plane) \in Nat
      BY <1>2, EntryScoreIs
    <2> QED
      BY <1>2, <2>1 DEF Scores
  <1>4. \A s \in SUBSET (1 .. n) : s # {} => f[Max(s)] = EntryScore(city[Max(s)], plane)
    BY <1>2, GreatestIn DEF Scores
  <1> HIDE DEF f
  <1>5. ASSUME NEW g
        PROVE  Eq(g) <=> AddsUp(g, f, n)
    <2>1. ASSUME NEW s \in SUBSET (1 .. n)
          PROVE  (IF s = {} THEN 0 ELSE g[s \ {Max(s)}] + EntryScore(city[Max(s)], plane))
                    = (IF s = {} THEN 0 ELSE g[s \ {Max(s)}] + f[Max(s)])
      BY <1>4, Zenon
    <2>2. [s \in SUBSET (1 .. n) |->
              IF s = {} THEN 0 ELSE g[s \ {Max(s)}] + EntryScore(city[Max(s)], plane)]
          = [s \in SUBSET (1 .. n) |-> IF s = {} THEN 0 ELSE g[s \ {Max(s)}] + f[Max(s)]]
      BY <2>1, Zenon
    <2> QED
      BY <1>2, <2>2, Zenon DEF AddsUp
  <1>6. \E g : Eq(g)
    BY <1>3, <1>5, AddsUpExists, Zenon
  <1> HIDE DEF Eq
  <1>7. PICK h : h = CHOOSE g : Eq(g)
    OBVIOUS
  <1>8. Eq(h)
    BY <1>6, <1>7, Zenon
  <1>9. PICK a : Adds(a, f, n) /\ h[1 .. n] = a[n]
    BY <1>3, <1>5, <1>8, SumRuns, Zenon
  <1>10. Score(city, plane) = a[n]
    BY <1>1, <1>2, <1>7, <1>9, Zenon
  <1> QED
    BY <1>2, <1>3, <1>9, <1>10 DEF f

LEMMA ScoreIs ==
    ASSUME NEW city \in StockList, NEW plane \in StockList
    PROVE  /\ Score(city, plane) \in Nat
           /\ Score(city, plane) = 0 <=>
                 \A k \in 1 .. Len(city) : EntryScore(city[k], plane) = 0
  <1>1. PICK n, f : n \in Nat /\ n = Len(city) /\ f = Scores(city, plane)
    BY StocksAre
  <1>2. n \in Nat /\ f \in [1 .. n -> Nat]
    BY <1>1, ScoreRuns
  <1>3. PICK a : Adds(a, f, n) /\ Score(city, plane) = a[n]
    BY <1>1, ScoreRuns
  <1>4. a[n] \in Nat /\ (a[n] = 0 <=> \A k \in 1 .. n : f[k] = 0)
    BY <1>2, <1>3, AddsNothing
  <1>5. \A k \in 1 .. n : f[k] = EntryScore(city[k], plane)
    BY <1>1 DEF Scores
  <1> QED
    BY <1>1, <1>3, <1>4, <1>5, Zenon

(* A city that has no use for a plane has none later, when it needs less.        *)
LEMMA UselessStays ==
    ASSUME NEW city \in StockList, NEW plane \in StockList, NEW after, Lowered(after, city),
           Score(city, plane) = 0
    PROVE  Score(after, plane) = 0
  <1>1. after \in StockList /\ Len(after) = Len(city)
    BY DEF Lowered
  <1>2. ASSUME NEW k \in 1 .. Len(city)
        PROVE  EntryScore(after[k], plane) = 0
    <2>1. PICK s, t : s = city[k] /\ t = after[k]
      OBVIOUS
    <2>2. s \in Stock /\ t \in Stock
      BY <1>1, <2>1, StocksAre
    <2>3. t.product = s.product /\ t.amount <= s.amount
      BY <2>1 DEF Lowered
    <2>4. EntryScore(s, plane) = 0
      BY <2>1, ScoreIs
    <2>5. s.amount = 0 => t.amount = 0
      BY <2>2, <2>3 DEF Stock
    <2>6. EntryScore(t, plane) = 0
      BY <2>2, <2>3, <2>4, <2>5, EntryScoreIs, Zenon
    <2> QED
      BY <2>1, <2>6
  <1> QED
    BY <1>1, <1>2, ScoreIs

(* A plane with nothing left is of no use to any city. *)
LEMMA EmptyIsUseless ==
    ASSUME NEW city \in StockList, NEW plane \in StockList, Satisfied(plane)
    PROVE  Score(city, plane) = 0
  <1>1. \A k \in 1 .. Len(city) : EntryScore(city[k], plane) = 0
    BY StocksAre, EntryScoreIs
  <1> QED
    BY <1>1, ScoreIs

(* A row of the table of destinations. *)
Row(n) == [city : 1 .. n, distance : Nat, score : Nat]

(* insertScore keeps the rows of its table, or puts the new one among them.      *)
LEMMA RowInserted ==
    ASSUME NEW n \in Nat, NEW kept \in Seq(Row(n)), NEW row \in Row(n), NEW size \in Nat \ {0}
    PROVE  InsertScore(kept, size, row) \in Seq(Row(n)) \ {<<>>}
  <1>1. PICK C : C = Row(n)
    OBVIOUS
  <1>2. /\ Len(kept) \in Nat /\ kept \in [1 .. Len(kept) -> C] /\ DOMAIN kept = 1 .. Len(kept)
        /\ kept \in Seq(C) /\ row \in C
    BY <1>1, LenProperties
  <1>3. CASE Len(kept) < size
    <2>1. /\ Append(kept, row) \in Seq(C) /\ Len(Append(kept, row)) = Len(kept) + 1
      BY <1>2, AppendProperties
    <2>2. Append(kept, row) # <<>>
      BY <1>2, <2>1
    <2> QED
      BY <1>1, <1>3, <2>1, <2>2, Zenon DEF InsertScore
  <1>4. CASE ~(Len(kept) < size)
    <2>1. Len(kept) # 0 /\ kept # <<>>
      BY <1>2, <1>4
    <2>2. PICK scores, worst, bad, first :
             /\ scores = {kept[j].score : j \in DOMAIN kept} /\ worst = Min(scores)
             /\ bad = {j \in DOMAIN kept : kept[j].score = worst} /\ first = Min(bad)
      OBVIOUS
    <2>3. worst \in scores
      <3>1. \A j \in DOMAIN kept : kept[j].score \in Nat
        BY <1>1, <1>2 DEF Row
      <3>2. scores \in SUBSET Nat
        BY <2>2, <3>1
      <3>3. scores # {}
        <4>1. 1 \in DOMAIN kept
          BY <1>2, <2>1
        <4> QED
          BY <2>2, <4>1
      <3> QED
        BY <2>2, <3>2, <3>3, LeastIn
    <2>4. first \in 1 .. Len(kept)
      <3>1. bad \in SUBSET (1 .. Len(kept)) /\ bad # {}
        BY <1>2, <2>2, <2>3
      <3>2. bad \in SUBSET Nat
        BY <3>1
      <3> QED
        BY <2>2, <3>1, <3>2, LeastIn
    <2>5. PICK t : t = [kept EXCEPT ![first] = row]
      OBVIOUS
    <2>6. t \in Seq(C) /\ t # <<>>
      <3>1. t \in [1 .. Len(kept) -> C]
        BY <1>2, <2>4, <2>5
      <3>2. t \in Seq(C) /\ Len(t) = Len(kept)
        BY <1>2, <3>1
      <3> QED
        BY <2>1, <3>2
    <2>7. InsertScore(kept, size, row) \in {t, kept}
      BY <1>4, <2>2, <2>5, Zenon DEF InsertScore
    <2> QED
      BY <1>1, <1>2, <2>1, <2>6, <2>7
  <1> QED
    BY <1>3, <1>4

(* One iteration of the loop of app_give_destinations. *)
Offered(kept, map, distances, plane, size, c) ==
    IF Score(map[c], plane) = 0 THEN kept
    ELSE InsertScore(kept, size, Candidate(map, distances, plane, c))

LEMMA RowOffered ==
    ASSUME NEW map \in Seq(StockList), NEW distances \in [1 .. Len(map) -> Nat],
           NEW plane \in StockList, NEW size \in Nat \ {0},
           NEW kept \in Seq(Row(Len(map))), NEW c \in 1 .. Len(map)
    PROVE  LET next == Offered(kept, map, distances, plane, size, c)
           IN  /\ next \in Seq(Row(Len(map)))
               /\ next = <<>> => kept = <<>> /\ Score(map[c], plane) = 0
  <1>1. Len(map) \in Nat /\ map[c] \in StockList
    BY LenProperties, ElementOfSeq
  <1>2. Candidate(map, distances, plane, c) \in Row(Len(map))
    <2>1. Score(map[c], plane) \in Nat
      BY <1>1, ScoreIs
    <2> QED
      BY <2>1 DEF Candidate, Row
  <1>3. InsertScore(kept, size, Candidate(map, distances, plane, c))
           \in Seq(Row(Len(map))) \ {<<>>}
    BY <1>1, <1>2, RowInserted
  <1> QED
    BY <1>3 DEF Offered

(* The table after each city. *)
LEMMA TableRuns ==
    ASSUME NEW map \in Seq(StockList), NEW distances \in [1 .. Len(map) -> Nat],
           NEW plane \in StockList, NEW size \in Nat \ {0}
    PROVE  \E acc : /\ acc[0] = <<>>
                    /\ \A c \in 1 .. Len(map) :
                          acc[c] = Offered(acc[c - 1], map, distances, plane, size, c)
                    /\ Candidates(map, distances, plane, size) = acc[Len(map)]
  <1> DEFINE Op(kept, c) == Offered(kept, map, distances, plane, size, c)
             all   == [c \in DOMAIN map |-> c]
             Eq(g) == g = [s \in SUBSET (DOMAIN all) |->
                              IF s = {} THEN <<>>
                              ELSE Op(g[s \ {Max(s)}], all[Max(s)])]
  <1>1. Candidates(map, distances, plane, size) = (CHOOSE g : Eq(g))[DOMAIN all]
    BY Zenon DEF Candidates, FoldLeftDomain, FoldLeft, MapThenFoldSet, Offered
  <1>2. PICK n : n \in Nat /\ n = Len(map) /\ DOMAIN map = 1 .. n
    BY LenProperties
  <1>3. DOMAIN all = 1 .. n /\ \A c \in 1 .. n : all[c] = c
    BY <1>2
  <1>4. PICK V : V = Seq(Row(n))
    OBVIOUS
  <1>5. <<>> \in V /\ \A v \in V, c \in 1 .. n : Op(v, c) \in V
    BY <1>2, <1>4, RowOffered
  <1> HIDE DEF Op, all
  <1>6. PICK step : step = [w \in V \X (1 .. n) |-> Op(w[1], w[2])]
    OBVIOUS
  <1>7. /\ step \in [V \X (1 .. n) -> V]
        /\ \A v \in V, c \in 1 .. n : step[<<v, c>>] = Op(v, c)
    BY <1>5, <1>6
  <1>8. PICK g \in [SUBSET (1 .. n) -> V] : FoldsLeft(g, <<>>, step, n)
    BY <1>2, <1>5, <1>7, FoldLeftExists, Zenon
  <1>9. ASSUME NEW s \in SUBSET (1 .. n)
        PROVE  g[s] = IF s = {} THEN <<>> ELSE Op(g[s \ {Max(s)}], all[Max(s)])
    <2>1. s # {} => Max(s) \in 1 .. n /\ g[s \ {Max(s)}] \in V /\ all[Max(s)] = Max(s)
      BY <1>2, <1>3, <1>8, GreatestIn
    <2>2. s # {} => step[<<g[s \ {Max(s)}], Max(s)>>] = Op(g[s \ {Max(s)}], all[Max(s)])
      BY <1>7, <2>1, Zenon
    <2> QED
      BY <1>8, <2>2, Zenon DEF FoldsLeft
  <1>10. Eq(g)
    <2>1. g = [s \in SUBSET (1 .. n) |-> g[s]]
      BY <1>8
    <2>2. [s \in SUBSET (1 .. n) |-> g[s]]
             = [s \in SUBSET (1 .. n) |->
                   IF s = {} THEN <<>> ELSE Op(g[s \ {Max(s)}], all[Max(s)])]
      BY <1>9, Zenon
    <2> QED
      BY <1>3, <2>1, <2>2, Zenon
  <1>11. PICK h : h = CHOOSE f : Eq(f)
    OBVIOUS
  <1>12. Eq(h)
    <2> HIDE DEF Eq
    <2> QED
      BY <1>10, <1>11, Zenon
  <1>13. PICK acc : acc = [c \in 0 .. n |-> h[1 .. c]]
    OBVIOUS
  <1>14. acc[0] = <<>>
    <2>1. {} \in SUBSET (1 .. n) /\ 1 .. 0 = {} /\ 0 \in 0 .. n
      BY <1>2
    <2>2. h[{}] = <<>>
      BY <1>3, <1>12, <2>1
    <2> QED
      BY <1>13, <2>1, <2>2
  <1>15. ASSUME NEW c \in 1 .. n
         PROVE  acc[c] = Op(acc[c - 1], c)
    <2>1. /\ 1 .. c \in SUBSET (1 .. n) /\ 1 .. c # {} /\ Max(1 .. c) = c
          /\ (1 .. c) \ {c} = 1 .. (c - 1) /\ all[c] = c
      BY <1>2, <1>3, GreatestOfPrefix
    <2>2. h[1 .. c] = Op(h[(1 .. c) \ {Max(1 .. c)}], all[Max(1 .. c)])
      BY <1>3, <1>12, <2>1, Zenon
    <2>3. h[1 .. c] = Op(h[1 .. (c - 1)], c)
      BY <2>1, <2>2, Zenon
    <2>4. c \in 0 .. n /\ c - 1 \in 0 .. n
      BY <1>2
    <2>5. acc[c] = h[1 .. c] /\ acc[c - 1] = h[1 .. (c - 1)]
      BY <1>13, <2>4
    <2> QED
      BY <2>3, <2>5, Zenon
  <1>16. Candidates(map, distances, plane, size) = acc[n]
    <2>1. n \in 0 .. n
      BY <1>2
    <2>2. acc[n] = h[1 .. n]
      BY <1>13, <2>1
    <2> QED
      BY <1>1, <1>3, <1>11, <2>2, Zenon
  <1> QED
    BY <1>2, <1>14, <1>15, <1>16, Zenon DEF Op

(* What app_give_destinations offers: rows of its cities, and none only when no  *)
(* city has a use for the plane.                                                 *)
LEMMA CandidatesAre ==
    ASSUME NEW map \in Seq(StockList), NEW distances \in [1 .. Len(map) -> Nat],
           NEW plane \in StockList, NEW size \in Nat \ {0},
           NEW table, table = Candidates(map, distances, plane, size)
    PROVE  /\ table \in Seq(Row(Len(map)))
           /\ table = <<>> => \A c \in 1 .. Len(map) : Score(map[c], plane) = 0
  <1>1. PICK acc : /\ acc[0] = <<>>
                   /\ \A c \in 1 .. Len(map) :
                         acc[c] = Offered(acc[c - 1], map, distances, plane, size, c)
                   /\ Candidates(map, distances, plane, size) = acc[Len(map)]
    BY TableRuns
  <1>2. PICK n : n \in Nat /\ n = Len(map)
    BY LenProperties
  <1> DEFINE Sound(v, k) == /\ v \in Seq(Row(n))
                            /\ v = <<>> => \A c \in 1 .. k : Score(map[c], plane) = 0
             T == {k \in 0 .. n : Sound(acc[k], k)}
  <1>3. 0 \in T
    <2>1. 0 \in 0 .. n /\ 1 .. 0 = {} /\ <<>> \in Seq(Row(n))
      BY <1>2
    <2> QED
      BY <1>1, <2>1
  <1>4. ASSUME NEW k \in 0 .. n - 1, k \in T PROVE k + 1 \in T
    <2>1. PICK v, next : v = acc[k] /\ next = acc[k + 1]
      OBVIOUS
    <2>2. k + 1 \in 1 .. n /\ (k + 1) - 1 = k /\ k + 1 \in 0 .. n
      BY <1>2
    <2>3. next = Offered(v, map, distances, plane, size, k + 1)
      BY <1>1, <1>2, <2>1, <2>2
    <2>4. v \in Seq(Row(n)) /\ (v = <<>> => \A c \in 1 .. k : Score(map[c], plane) = 0)
      BY <1>4, <2>1
    <2>5. /\ next \in Seq(Row(n))
          /\ next = <<>> => v = <<>> /\ Score(map[k + 1], plane) = 0
      <3> PICK c : c = k + 1
        OBVIOUS
      <3>1. v \in Seq(Row(Len(map))) /\ c \in 1 .. Len(map)
        BY <1>2, <2>2, <2>4
      <3>2. next = Offered(v, map, distances, plane, size, c)
        BY <2>3
      <3> HIDE DEF T, Sound
      <3>3. /\ next \in Seq(Row(Len(map)))
            /\ next = <<>> => v = <<>> /\ Score(map[c], plane) = 0
        <4>1. \A x \in Seq(Row(Len(map))), e \in 1 .. Len(map) :
                 LET y == Offered(x, map, distances, plane, size, e)
                 IN  /\ y \in Seq(Row(Len(map)))
                     /\ y = <<>> => x = <<>> /\ Score(map[e], plane) = 0
          BY RowOffered
        <4> QED
          BY <3>1, <3>2, <4>1, Zenon
      <3> QED
        BY <1>2, <3>3
    <2>6. \A c \in 1 .. k + 1 : c \in 1 .. k \/ c = k + 1
      BY <1>2
    <2>7. Sound(next, k + 1)
      BY <2>4, <2>5, <2>6
    <2> QED
      BY <2>1, <2>2, <2>7
  <1>5. n \in T
    <2> HIDE DEF T
    <2>1. \A k \in 0 .. n : k \in T
      BY <1>2, <1>3, <1>4, EachReached
    <2>2. n \in 0 .. n
      BY <1>2
    <2> QED
      BY <2>1, <2>2
  <1> QED
    BY <1>1, <1>2, <1>5

LEMMA NearestAre ==
    ASSUME NEW n \in Nat, NEW table \in Seq(Row(n)), NEW d \in Nearest(table)
    PROVE  d \in Row(n)
  BY RangeOfSeq DEF Nearest

(* What the cities need in all.                                                  *)
CityTotals(map) == [c \in 1 .. Len(map) |-> TotalAmount(map[c])]

LEMMA MapTotalRuns ==
    ASSUME NEW map \in Seq(StockList)
    PROVE  /\ CityTotals(map) \in [1 .. Len(map) -> Int]
           /\ \E a : Adds(a, CityTotals(map), Len(map)) /\ MapTotal(map) = a[Len(map)]
  <1> DEFINE f     == CityTotals(map)
             Eq(g) == g = [s \in SUBSET (DOMAIN map) |->
                              IF s = {} THEN 0 ELSE g[s \ {Max(s)}] + TotalAmount(map[Max(s)])]
  <1>1. MapTotal(map) = (CHOOSE g : Eq(g))[DOMAIN map]
    BY Zenon DEF MapTotal, FoldLeft, MapThenFoldSet
  <1>2. PICK n : /\ n \in Nat /\ n = Len(map) /\ DOMAIN map = 1 .. n
                 /\ \A c \in 1 .. n : map[c] \in StockList
    BY LenProperties, ElementOfSeq
  <1>3. f \in [1 .. n -> Int]
    <2>1. \A c \in 1 .. n : TotalAmount(map[c]) \in Int
      BY <1>2, TotalIsNat
    <2> QED
      BY <1>2, <2>1 DEF CityTotals
  <1>4. \A s \in SUBSET (1 .. n) : s # {} => f[Max(s)] = TotalAmount(map[Max(s)])
    BY <1>2, GreatestIn DEF CityTotals
  <1> HIDE DEF f
  <1>5. ASSUME NEW g
        PROVE  Eq(g) <=> AddsUp(g, f, n)
    <2>1. ASSUME NEW s \in SUBSET (1 .. n)
          PROVE  (IF s = {} THEN 0 ELSE g[s \ {Max(s)}] + TotalAmount(map[Max(s)]))
                    = (IF s = {} THEN 0 ELSE g[s \ {Max(s)}] + f[Max(s)])
      BY <1>4, Zenon
    <2>2. [s \in SUBSET (1 .. n) |->
              IF s = {} THEN 0 ELSE g[s \ {Max(s)}] + TotalAmount(map[Max(s)])]
          = [s \in SUBSET (1 .. n) |-> IF s = {} THEN 0 ELSE g[s \ {Max(s)}] + f[Max(s)]]
      BY <2>1, Zenon
    <2> QED
      BY <1>2, <2>2, Zenon DEF AddsUp
  <1>6. \E g : Eq(g)
    BY <1>2, <1>3, <1>5, AddsUpExists, Zenon
  <1> HIDE DEF Eq
  <1>7. PICK h : h = CHOOSE g : Eq(g)
    OBVIOUS
  <1>8. Eq(h)
    BY <1>6, <1>7, Zenon
  <1>9. PICK a : Adds(a, f, n) /\ h[1 .. n] = a[n]
    <2>1. n \in Nat /\ AddsUp(h, f, n)
      BY <1>2, <1>5, <1>8, Zenon
    <2> QED
      BY <1>3, <2>1, SumRuns, Zenon
  <1>10. MapTotal(map) = a[n]
    BY <1>1, <1>2, <1>7, <1>9, Zenon
  <1> QED
    BY <1>2, <1>3, <1>9, <1>10 DEF f

LEMMA MapTotalOfOneOther ==
    ASSUME NEW map \in Seq(StockList), NEW after \in Seq(StockList), Len(after) = Len(map),
           NEW c \in 1 .. Len(map), \A k \in 1 .. Len(map) : k # c => after[k] = map[k]
    PROVE  /\ MapTotal(after) - TotalAmount(after[c]) = MapTotal(map) - TotalAmount(map[c])
           /\ MapTotal(after) \in Int /\ MapTotal(map) \in Int
  <1>1. PICK n, f, h : /\ n \in Nat /\ n = Len(map)
                       /\ f = CityTotals(map) /\ h = CityTotals(after)
    BY LenProperties
  <1>2. PICK a : Adds(a, f, n) /\ MapTotal(map) = a[n]
    BY <1>1, MapTotalRuns, Zenon
  <1>3. PICK b : Adds(b, h, n) /\ MapTotal(after) = b[n]
    BY <1>1, MapTotalRuns, Zenon
  <1>4. f[c] = TotalAmount(map[c]) /\ h[c] = TotalAmount(after[c])
    BY <1>1 DEF CityTotals
  <1>5. DifferAt(f, h, c, n)
    <2>1. f \in [1 .. n -> Int] /\ h \in [1 .. n -> Int]
      BY <1>1, MapTotalRuns
    <2>2. \A k \in 1 .. n : k # c => h[k] = f[k]
      BY <1>1 DEF CityTotals
    <2> QED
      BY <1>1, <2>1, <2>2 DEF DifferAt
  <1>6. b[n] - h[c] = a[n] - f[c] /\ a[n] \in Int /\ b[n] \in Int
    <2>1. Adds(a, f, n) /\ Adds(b, h, n)
      BY <1>2, <1>3
    <2>2. n \in Nat
      BY <1>1
    <2> QED
      BY <1>5, <2>1, <2>2, AddsOneOther, SMT
  <1> QED
    BY <1>2, <1>3, <1>4, <1>6, Zenon

(* What each plane carries, now and at the start.                                *)
Cargos == [p \in Plane |-> TotalAmount(Cargo(p))]
FirstCargos == [p \in Plane |-> TotalAmount(PlaneStock[p])]

LEMMA CargoSum == CargoTotal(Cargo) = SumOver(Cargos, Plane)
  <1> DEFINE Eq(g) == g = [s \in SUBSET Plane |->
                              IF s = {} THEN 0
                              ELSE TotalAmount(Cargo(CHOOSE x \in s : TRUE))
                                      + g[s \ {CHOOSE x \in s : TRUE}]]
  <1>1. CargoTotal(Cargo) = (CHOOSE g : Eq(g))[Plane]
    BY Zenon DEF CargoTotal, MapThenSumSet, MapThenFoldSet
  <1>2. ASSUME NEW s \in SUBSET Plane, s # {}
        PROVE  TotalAmount(Cargo(CHOOSE x \in s : TRUE)) = Cargos[CHOOSE x \in s : TRUE]
    <2>1. PICK p : p = CHOOSE x \in s : TRUE
      OBVIOUS
    <2>2. p \in Plane
      BY <1>2, <2>1
    <2>3. Cargos[p] = TotalAmount(Cargo(p))
      BY <2>2 DEF Cargos
    <2> QED
      BY <2>1, <2>3, Zenon
  <1>3. ASSUME NEW g
        PROVE  Eq(g) <=> SumsOver(g, Cargos, Plane)
    <2>1. ASSUME NEW s \in SUBSET Plane
          PROVE  (IF s = {} THEN 0
                  ELSE TotalAmount(Cargo(CHOOSE x \in s : TRUE))
                          + g[s \ {CHOOSE x \in s : TRUE}])
                 = (IF s = {} THEN 0 ELSE Cargos[CHOOSE x \in s : TRUE]
                                             + g[s \ {CHOOSE x \in s : TRUE}])
      <3>1. CASE s = {}
        BY <3>1, Zenon
      <3>2. CASE s # {}
        <4>1. TotalAmount(Cargo(CHOOSE x \in s : TRUE)) = Cargos[CHOOSE x \in s : TRUE]
          BY <1>2, <3>2
        <4> QED
          BY <3>2, <4>1, Zenon
      <3> QED
        BY <3>1, <3>2
    <2>2. [s \in SUBSET Plane |-> IF s = {} THEN 0
                                  ELSE TotalAmount(Cargo(CHOOSE x \in s : TRUE))
                                          + g[s \ {CHOOSE x \in s : TRUE}]]
          = [s \in SUBSET Plane |-> IF s = {} THEN 0
                                    ELSE Cargos[CHOOSE x \in s : TRUE]
                                            + g[s \ {CHOOSE x \in s : TRUE}]]
      BY <2>1, Zenon
    <2> QED
      BY <2>2, Zenon DEF SumsOver
  <1> HIDE DEF Eq
  <1>4. (CHOOSE g : Eq(g)) = CHOOSE g : SumsOver(g, Cargos, Plane)
    BY <1>3, Zenon
  <1> QED
    BY <1>1, <1>4, Zenon DEF SumOver

LEMMA FirstCargoSum == CargoTotal(LAMBDA p : PlaneStock[p]) = SumOver(FirstCargos, Plane)
  <1> DEFINE Eq(g) == g = [s \in SUBSET Plane |->
                              IF s = {} THEN 0
                              ELSE TotalAmount(PlaneStock[CHOOSE x \in s : TRUE])
                                      + g[s \ {CHOOSE x \in s : TRUE}]]
  <1>1. CargoTotal(LAMBDA p : PlaneStock[p]) = (CHOOSE g : Eq(g))[Plane]
    BY Zenon DEF CargoTotal, MapThenSumSet, MapThenFoldSet
  <1>2. ASSUME NEW s \in SUBSET Plane, s # {}
        PROVE  TotalAmount(PlaneStock[CHOOSE x \in s : TRUE]) = FirstCargos[CHOOSE x \in s : TRUE]
    <2>1. PICK p : p = CHOOSE x \in s : TRUE
      OBVIOUS
    <2>2. p \in Plane
      BY <1>2, <2>1
    <2>3. FirstCargos[p] = TotalAmount(PlaneStock[p])
      BY <2>2 DEF FirstCargos
    <2> QED
      BY <2>1, <2>3, Zenon
  <1>3. ASSUME NEW g
        PROVE  Eq(g) <=> SumsOver(g, FirstCargos, Plane)
    <2>1. ASSUME NEW s \in SUBSET Plane
          PROVE  (IF s = {} THEN 0
                  ELSE TotalAmount(PlaneStock[CHOOSE x \in s : TRUE])
                          + g[s \ {CHOOSE x \in s : TRUE}])
                 = (IF s = {} THEN 0 ELSE FirstCargos[CHOOSE x \in s : TRUE]
                                             + g[s \ {CHOOSE x \in s : TRUE}])
      <3>1. CASE s = {}
        BY <3>1, Zenon
      <3>2. CASE s # {}
        <4>1. TotalAmount(PlaneStock[CHOOSE x \in s : TRUE]) = FirstCargos[CHOOSE x \in s : TRUE]
          BY <1>2, <3>2
        <4> QED
          BY <3>2, <4>1, Zenon
      <3> QED
        BY <3>1, <3>2
    <2>2. [s \in SUBSET Plane |-> IF s = {} THEN 0
                                  ELSE TotalAmount(PlaneStock[CHOOSE x \in s : TRUE])
                                          + g[s \ {CHOOSE x \in s : TRUE}]]
          = [s \in SUBSET Plane |-> IF s = {} THEN 0
                                    ELSE FirstCargos[CHOOSE x \in s : TRUE]
                                            + g[s \ {CHOOSE x \in s : TRUE}]]
      BY <2>1, Zenon
    <2> QED
      BY <2>2, Zenon DEF SumsOver
  <1> HIDE DEF Eq
  <1>4. (CHOOSE g : Eq(g)) = CHOOSE g : SumsOver(g, FirstCargos, Plane)
    BY <1>3, Zenon
  <1> QED
    BY <1>1, <1>4, Zenon DEF SumOver

-----------------------------------------------------------------------------
(* What the messages and the variables of the data hold.                         *)

(* The lists of a city are the configured ones, with lower amounts.              *)
NeedsLowered == \A c \in City : Lowered(need[c], CityStock[c])

DataOK == GoodsOK /\ ChannelsOK /\ NeedsLowered

Offers == Seq([city : City, distance : Nat, score : Nat])

LEMMA CitiesAre ==
    /\ City = 1 .. Len(CityStock) /\ Len(CityStock) \in Nat
    /\ \A c \in City : CityStock[c] \in StockList /\ CityStock[c] # <<>>
    /\ MaxDestinations \in Nat \ {0}
    /\ \A c \in City : Distance[c] \in [City -> Nat]
  BY ConfigurationAssumption, LenProperties, ElementOfSeq DEF City

LEMMA LoweredIsNonempty ==
    ASSUME NEW after, NEW before, Lowered(after, before), before \in StockList, before # <<>>
    PROVE  after \in StockList /\ after # <<>>
  <1>1. Len(before) # 0
    BY StocksAre, EmptySeq
  <1>2. Len(after) # 0
    BY <1>1 DEF Lowered
  <1> QED
    BY <1>2 DEF Lowered

LEMMA LoweredTwice ==
    ASSUME NEW x \in StockList, NEW y, NEW z, Lowered(y, x), Lowered(z, y)
    PROVE  Lowered(z, x)
  <1>1. z \in StockList /\ y \in StockList /\ Len(z) = Len(x) /\ Len(y) = Len(x)
    BY DEF Lowered
  <1>2. ASSUME NEW k \in 1 .. Len(x)
        PROVE  z[k].product = x[k].product /\ z[k].amount <= x[k].amount
    <2>1. PICK a, b, c : a = x[k] /\ b = y[k] /\ c = z[k]
      OBVIOUS
    <2>2. a \in Stock /\ b \in Stock /\ c \in Stock
      BY <1>1, <2>1, StocksAre
    <2>3. b.product = a.product /\ b.amount <= a.amount
      BY <2>1 DEF Lowered
    <2>4. c.product = b.product /\ c.amount <= b.amount
      BY <1>1, <2>1 DEF Lowered
    <2> QED
      BY <2>1, <2>2, <2>3, <2>4 DEF Stock
  <1> QED
    BY <1>1, <1>2 DEF Lowered

LEMMA LoweredSelf ==
    ASSUME NEW x \in StockList
    PROVE  Lowered(x, x)
  <1>1. \A k \in 1 .. Len(x) : x[k].amount \in Nat
    BY StocksAre DEF Stock
  <1> QED
    BY <1>1 DEF Lowered

LEMMA NeedIs ==
    ASSUME GoodsOK, NeedsLowered
    PROVE  /\ Len(need) = Len(CityStock)
           /\ \A c \in City : need[c] \in StockList /\ need[c] # <<>>
  <1>1. DOMAIN need = 1 .. Len(need) /\ Len(need) \in Nat /\ DOMAIN need = City
    BY LenProperties DEF GoodsOK
  <1>2. Len(need) = Len(CityStock)
    BY <1>1, CitiesAre
  <1>3. \A c \in City : need[c] \in StockList /\ need[c] # <<>>
    BY CitiesAre, LoweredIsNonempty DEF NeedsLowered
  <1> QED
    BY <1>2, <1>3

-----------------------------------------------------------------------------
(* Channel by channel. *)

LEMMA ToMapTyped ==
    ASSUME ChannelsOK, NEW m \in MapMessage, WriteToMap(m)
    PROVE  mapInbox' \in Seq(MapMessage) /\ Len(mapInbox') <= IpcCapacity
  <1>1. mapInbox \in Seq(MapMessage) /\ Len(mapInbox) < IpcCapacity
        /\ mapInbox' = Append(mapInbox, m)
    BY DEF ChannelsOK, WriteToMap
  <1>2. mapInbox' \in Seq(MapMessage) /\ Len(mapInbox') = Len(mapInbox) + 1
    BY <1>1, AppendProperties
  <1>3. Len(mapInbox) \in Nat /\ IpcCapacity \in Nat
    BY <1>1, SizeAssumption, LenProperties
  <1> QED
    BY <1>1, <1>2, <1>3

LEMMA FromMapTyped ==
    ASSUME ChannelsOK, mapInbox # <<>>
    PROVE  /\ Head(mapInbox) \in MapMessage
           /\ Tail(mapInbox) \in Seq(MapMessage) /\ Len(Tail(mapInbox)) <= IpcCapacity
  <1>1. mapInbox \in Seq(MapMessage) /\ Len(mapInbox) <= IpcCapacity
    BY DEF ChannelsOK
  <1>2. /\ Head(mapInbox) \in MapMessage
        /\ Tail(mapInbox) \in Seq(MapMessage) /\ Len(Tail(mapInbox)) = Len(mapInbox) - 1
    BY <1>1, HeadTailProperties
  <1>3. Len(mapInbox) \in Nat /\ IpcCapacity \in Nat
    BY <1>1, SizeAssumption, LenProperties
  <1> QED
    BY <1>1, <1>2, <1>3

LEMMA ToAirlineTyped ==
    ASSUME ChannelsOK, NEW a \in Airline, NEW m \in AirlineMessage, WriteToAirline(a, m)
    PROVE  inbox' \in [Airline -> Seq(AirlineMessage)]
  <1>1. PICK M : M = AirlineMessage
    OBVIOUS
  <1>2. inbox \in [Airline -> Seq(M)] /\ m \in M
        /\ inbox' = [inbox EXCEPT ![a] = Append(inbox[a], m)]
    BY <1>1 DEF ChannelsOK, WriteToAirline
  <1>3. Append(inbox[a], m) \in Seq(M)
    BY <1>2, AppendProperties
  <1> QED
    BY <1>1, <1>2, <1>3

LEMMA AirReadTyped ==
    ASSUME ChannelsOK, NEW a \in Airline, AirRead(a)
    PROVE  /\ inbox' \in [Airline -> Seq(AirlineMessage)]
           /\ airMsg' \in [Airline -> AirlineMessage \cup [type : {"None"}]]
  <1>1. PICK M, N : M = AirlineMessage /\ N = M \cup [type : {"None"}]
    OBVIOUS
  <1>2. /\ inbox \in [Airline -> Seq(M)] /\ inbox[a] # <<>> /\ airMsg \in [Airline -> N]
        /\ inbox' = [inbox EXCEPT ![a] = Tail(inbox[a])]
        /\ airMsg' = [airMsg EXCEPT ![a] = Head(inbox[a])]
    BY <1>1 DEF ChannelsOK, AirRead, InHand
  <1>3. Head(inbox[a]) \in M /\ Tail(inbox[a]) \in Seq(M)
    BY <1>2, HeadTailProperties
  <1>4. Head(inbox[a]) \in N
    BY <1>1, <1>3
  <1>5. inbox' \in [Airline -> Seq(M)] /\ airMsg' \in [Airline -> N]
    BY <1>2, <1>3, <1>4
  <1> QED
    BY <1>1, <1>5

LEMMA EnqueueTyped ==
    ASSUME ChannelsOK, NEW p \in Plane, NEW m \in QueueMessage, Enqueue(p, m)
    PROVE  queue' \in [Plane -> Seq(QueueMessage)]
  <1>1. PICK M : M = QueueMessage
    OBVIOUS
  <1>2. queue \in [Plane -> Seq(M)] /\ m \in M
        /\ queue' = [queue EXCEPT ![p] = Append(queue[p], m)]
    BY <1>1 DEF ChannelsOK, Enqueue
  <1>3. Append(queue[p], m) \in Seq(M)
    BY <1>2, AppendProperties
  <1> QED
    BY <1>1, <1>2, <1>3

LEMMA DequeueTyped ==
    ASSUME ChannelsOK, NEW p \in Plane, Dequeue(p)
    PROVE  queue' \in [Plane -> Seq(QueueMessage)] /\ InQueue(p) \in QueueMessage
  <1>1. PICK M : M = QueueMessage
    OBVIOUS
  <1>2. queue \in [Plane -> Seq(M)] /\ queue[p] # <<>>
        /\ queue' = [queue EXCEPT ![p] = Tail(queue[p])]
    BY <1>1 DEF ChannelsOK, Dequeue
  <1>3. Head(queue[p]) \in M /\ Tail(queue[p]) \in Seq(M)
    BY <1>2, HeadTailProperties
  <1> QED
    BY <1>1, <1>2, <1>3 DEF InQueue

-----------------------------------------------------------------------------
(* What a message of each kind carries, and what the map makes of it.            *)

LEMMA RequestIs ==
    ASSUME NEW m \in MapMessage, m.type \in Requests
    PROVE  m.plane \in Plane /\ m.city \in City /\ m.stock \in StockList
  BY DEF MapMessage, Requests

LEMMA MapMessageType ==
    ASSUME NEW m \in MapMessage
    PROVE  m.type \in Requests \cup Returns
  BY DEF MapMessage, Requests, Returns

LEMMA AnswerIs ==
    ASSUME NEW m \in AirlineMessage \cup [type : {"None"}], m.type \in Answers
    PROVE  /\ m \in Answer /\ m.plane \in Plane
           /\ m.type = "UnloadStock" => m.stock \in StockList
           /\ m.type = "Destinations" => m.offer \in Offers
  BY DEF AirlineMessage, Answer, Answers, Offers

LEMMA InQueueIs ==
    ASSUME NEW m \in QueueMessage
    PROVE  /\ m.type = "Stock" => m.stock \in StockList
           /\ m.type = "Destinations" => m.offer \in Offers
  BY DEF QueueMessage, Offers

(* What updateMap leaves of the needs and of the cargo it is given. *)
Unloads(c, plane, after, next) == /\ after = Discharge(need[c], plane)
                                  /\ next = [need EXCEPT ![c] = after.city]

LEMMA NeedAfter ==
    ASSUME GoodsOK, NeedsLowered, NEW c \in City, NEW plane \in StockList,
           NEW after, NEW next, Unloads(c, plane, after, next)
    PROVE  /\ next \in Seq(StockList) /\ DOMAIN next = City /\ Len(next) = Len(need)
           /\ next[c] = after.city /\ \A k \in City : k # c => next[k] = need[k]
           /\ \A k \in City : Lowered(next[k], need[k]) /\ Lowered(next[k], CityStock[k])
           /\ Lowered(after.plane, plane)
  <1>1. need[c] \in StockList /\ need[c] # <<>>
    BY NeedIs
  <1>2. Lowered(after.city, need[c]) /\ Lowered(after.plane, plane)
    BY <1>1, Discharged DEF Unloads
  <1>3. after.city \in StockList
    BY <1>2 DEF Lowered
  <1>4. need \in Seq(StockList) /\ DOMAIN need = City
    BY DEF GoodsOK
  <1>5. PICK n : n \in Nat /\ n = Len(need) /\ City = 1 .. n /\ need \in [1 .. n -> StockList]
    BY <1>4, LenProperties
  <1>6. PICK list : list = after.city
    OBVIOUS
  <1>7. /\ next \in [1 .. n -> StockList]
        /\ next[c] = list /\ \A k \in City : k # c => next[k] = need[k]
    BY <1>3, <1>5, <1>6 DEF Unloads
  <1>8. next \in Seq(StockList) /\ DOMAIN next = City /\ Len(next) = Len(need)
    BY <1>5, <1>7
  <1>9. ASSUME NEW k \in City
        PROVE  Lowered(next[k], need[k]) /\ Lowered(next[k], CityStock[k])
    <2>1. need[k] \in StockList /\ CityStock[k] \in StockList /\ Lowered(need[k], CityStock[k])
      BY NeedIs, CitiesAre DEF NeedsLowered
    <2>2. Lowered(next[k], need[k])
      <3>1. CASE k = c
        BY <1>2, <1>6, <1>7, <3>1
      <3>2. CASE k # c
        BY <1>7, <2>1, <3>2, LoweredSelf
      <3> QED
        BY <3>1, <3>2
    <2>3. Lowered(next[k], CityStock[k])
      BY <2>1, <2>2, LoweredTwice
    <2> QED
      BY <2>2, <2>3
  <1> QED
    BY <1>2, <1>6, <1>7, <1>8, <1>9

(* What the table for a plane holds. *)
LEMMA OfferIs ==
    ASSUME GoodsOK, NeedsLowered, NEW c \in City, NEW plane \in StockList,
           NEW table, table = Candidates(need, Distance[c], plane, MaxDestinations)
    PROVE  /\ \A d \in Nearest(table) : <<d>> \in Offers
           /\ <<>> \in Offers
           /\ table = <<>> => \A k \in City : Score(need[k], plane) = 0
  <1>1. /\ need \in Seq(StockList) /\ Distance[c] \in [1 .. Len(need) -> Nat]
        /\ MaxDestinations \in Nat \ {0} /\ City = 1 .. Len(need) /\ Len(need) \in Nat
    BY NeedIs, CitiesAre DEF GoodsOK
  <1>2. PICK distances, size : distances = Distance[c] /\ size = MaxDestinations
    OBVIOUS
  <1>3. distances \in [1 .. Len(need) -> Nat] /\ size \in Nat \ {0}
    BY <1>1, <1>2
  <1>4. table = Candidates(need, distances, plane, size)
    BY <1>2
  <1>5. /\ table \in Seq(Row(Len(need)))
        /\ table = <<>> => \A k \in 1 .. Len(need) : Score(need[k], plane) = 0
    BY <1>1, <1>3, <1>4, CandidatesAre
  <1>6. ASSUME NEW d \in Nearest(table) PROVE <<d>> \in Offers
    <2>1. d \in Row(Len(need))
      BY <1>1, <1>5, NearestAre
    <2>2. d \in [city : City, distance : Nat, score : Nat]
      BY <1>1, <2>1 DEF Row
    <2> QED
      BY <2>2 DEF Offers
  <1> QED
    BY <1>1, <1>5, <1>6 DEF Offers

-----------------------------------------------------------------------------
LEMMA InitData == Init => DataOK
  <1> SUFFICES ASSUME Init PROVE DataOK
    OBVIOUS
  <1>1. GoodsOK
    BY ConfigurationAssumption DEF Init, GoodsOK, City
  <1>2. mapInbox \in Seq(MapMessage) /\ Len(mapInbox) <= IpcCapacity
    BY SizeAssumption DEF Init
  <1>3. /\ inbox \in [Airline -> Seq(AirlineMessage)] /\ queue \in [Plane -> Seq(QueueMessage)]
    <2>1. <<>> \in Seq(AirlineMessage) /\ <<>> \in Seq(QueueMessage)
      OBVIOUS
    <2> QED
      BY <2>1 DEF Init
  <1>4. Plain("None") \in [type : {"None"}]
    BY DEF Plain
  <1>5. reply \in Answer \cup [type : {"None"}]
    BY <1>4 DEF Init
  <1>6. airMsg \in [Airline -> AirlineMessage \cup [type : {"None"}]]
    BY <1>4 DEF Init
  <1>7. NeedsLowered
    BY CitiesAre, LoweredSelf DEF Init, NeedsLowered
  <1> QED
    BY <1>1, <1>2, <1>3, <1>5, <1>6, <1>7 DEF DataOK, ChannelsOK

LEMMA PlainTyped ==
    ASSUME NEW type \in {"Step", "Continue", "End"}
    PROVE  Plain(type) \in AirlineMessage /\ Plain(type) \in QueueMessage
  BY DEF Plain, AirlineMessage, QueueMessage

LEMMA DataKept ==
    ASSUME DataOK,
           UNCHANGED need \/ /\ need' \in Seq(StockList) /\ DOMAIN need' = City
                             /\ \A c \in City : Lowered(need'[c], CityStock[c]),
           UNCHANGED stock \/ stock' \in [Plane -> StockList],
           UNCHANGED cityOf \/ cityOf' \in [Plane -> City],
           UNCHANGED distance \/ distance' \in [Plane -> Nat],
           \/ UNCHANGED mapInbox
           \/ mapInbox' \in Seq(MapMessage) /\ Len(mapInbox') <= IpcCapacity,
           UNCHANGED inbox \/ inbox' \in [Airline -> Seq(AirlineMessage)],
           UNCHANGED queue \/ queue' \in [Plane -> Seq(QueueMessage)],
           UNCHANGED reply \/ reply' \in Answer \cup [type : {"None"}],
           UNCHANGED airMsg \/ airMsg' \in [Airline -> AirlineMessage \cup [type : {"None"}]]
    PROVE  DataOK'
  <1>1. GoodsOK'
    BY DEF DataOK, GoodsOK
  <1>2. NeedsLowered'
    BY DEF DataOK, NeedsLowered
  <1>3. ChannelsOK'
    BY DEF DataOK, ChannelsOK
  <1> QED
    BY <1>1, <1>2, <1>3 DEF DataOK

LEMMA RequestRead ==
    ASSUME DataOK, mapInbox # <<>>, NEW pc \in {"phase1", "phase2"},
           ~Unexpected(pc, Head(mapInbox)), Head(mapInbox).type # Counted[pc]
    PROVE  /\ Head(mapInbox).type = Requested[pc]
           /\ Head(mapInbox).plane \in Plane /\ Head(mapInbox).city \in City
           /\ Head(mapInbox).stock \in StockList
  <1>1. Head(mapInbox) \in MapMessage
    BY FromMapTyped DEF DataOK
  <1>2. Head(mapInbox).type = Requested[pc]
    BY DEF Unexpected
  <1>3. Head(mapInbox).type \in Requests
    BY <1>2 DEF Requested, Requests
  <1> QED
    BY <1>1, <1>2, <1>3, RequestIs

LEMMA UnloadTyped ==
    ASSUME DataOK, MapUnload
    PROVE  /\ \/ UNCHANGED need
              \/ /\ need' \in Seq(StockList) /\ DOMAIN need' = City
                 /\ \A c \in City : Lowered(need'[c], CityStock[c])
           /\ UNCHANGED reply \/ reply' \in Answer
           /\ UNCHANGED <<stock, cityOf, distance, inbox, queue, airMsg>>
           /\ mapInbox' \in Seq(MapMessage) /\ Len(mapInbox') <= IpcCapacity
  <1> PICK m : m = Head(mapInbox)
    OBVIOUS
  <1>1. /\ mapInbox # <<>> /\ m.type # Counted["phase1"] /\ mapInbox' = Tail(mapInbox)
        /\ UNCHANGED <<stock, cityOf, distance, inbox, queue, airVars>>
    BY Zenon DEF MapUnload
  <1>2. mapInbox' \in Seq(MapMessage) /\ Len(mapInbox') <= IpcCapacity
    BY <1>1, FromMapTyped DEF DataOK
  <1>3. CASE Unexpected("phase1", m)
    <2>1. UNCHANGED <<reply, need>>
      BY <1>3, Zenon DEF MapUnload
    <2> QED
      BY <1>1, <1>2, <2>1 DEF airVars
  <1>4. CASE ~Unexpected("phase1", m)
    <2> PICK after : after = Discharge(need[m.city], m.stock)
      OBVIOUS
    <2>1. /\ need' = [need EXCEPT ![m.city] = after.city]
          /\ reply' = [type |-> "UnloadStock", plane |-> m.plane, stock |-> after.plane]
      BY <1>4, Zenon DEF MapUnload
    <2>2. m.plane \in Plane /\ m.city \in City /\ m.stock \in StockList
      BY <1>1, <1>4, RequestRead
    <2>3. /\ need' \in Seq(StockList) /\ DOMAIN need' = City
          /\ \A c \in City : Lowered(need'[c], CityStock[c])
          /\ Lowered(after.plane, m.stock)
      <3>1. PICK c, plane, next : c = m.city /\ plane = m.stock /\ next = need'
        OBVIOUS
      <3>2. Unloads(c, plane, after, next) /\ c \in City /\ plane \in StockList
        BY <2>1, <2>2, <3>1 DEF Unloads
      <3>3. GoodsOK /\ NeedsLowered
        BY DEF DataOK
      <3>4. /\ next \in Seq(StockList) /\ DOMAIN next = City
            /\ \A k \in City : Lowered(next[k], CityStock[k])
            /\ Lowered(after.plane, plane)
        BY <3>2, <3>3, NeedAfter
      <3> QED
        BY <3>1, <3>4, Zenon
    <2>4. after.plane \in StockList
      BY <2>3 DEF Lowered
    <2>5. reply' \in Answer
      BY <2>1, <2>2, <2>4 DEF Answer
    <2> QED
      BY <1>1, <1>2, <2>3, <2>5 DEF airVars
  <1> QED
    BY <1>3, <1>4

LEMMA DestinationsTyped ==
    ASSUME DataOK, MapDestinations
    PROVE  /\ UNCHANGED reply \/ reply' \in Answer
           /\ UNCHANGED <<goods, inbox, queue, airMsg>>
           /\ mapInbox' \in Seq(MapMessage) /\ Len(mapInbox') <= IpcCapacity
           /\ \/ UNCHANGED reply
              \/ /\ reply'.type = "Destinations" /\ reply'.plane = Head(mapInbox).plane
                 /\ Head(mapInbox).type \in Requests
                 /\ reply'.offer = <<>> =>
                       \A c \in City : Score(need[c], Head(mapInbox).stock) = 0
  <1> PICK m : m = Head(mapInbox)
    OBVIOUS
  <1>1. /\ mapInbox # <<>> /\ m.type # Counted["phase2"] /\ mapInbox' = Tail(mapInbox)
        /\ UNCHANGED <<goods, inbox, queue, airVars>>
    BY Zenon DEF MapDestinations
  <1>2. mapInbox' \in Seq(MapMessage) /\ Len(mapInbox') <= IpcCapacity
    BY <1>1, FromMapTyped DEF DataOK
  <1>3. CASE Unexpected("phase2", m)
    <2>1. UNCHANGED reply
      BY <1>3, Zenon DEF MapDestinations
    <2> QED
      BY <1>1, <1>2, <2>1 DEF airVars
  <1>4. CASE ~Unexpected("phase2", m)
    <2> PICK table : table = Candidates(need, Distance[m.city], m.stock, MaxDestinations)
      OBVIOUS
    <2>1. PICK offer \in IF table = <<>> THEN {<<>>} ELSE {<<d>> : d \in Nearest(table)} :
             reply' = [type |-> "Destinations", plane |-> m.plane, offer |-> offer]
      BY <1>4, Zenon DEF MapDestinations
    <2>2. /\ m.type = Requested["phase2"]
          /\ m.plane \in Plane /\ m.city \in City /\ m.stock \in StockList
      BY <1>1, <1>4, RequestRead
    <2>3. /\ \A d \in Nearest(table) : <<d>> \in Offers
          /\ <<>> \in Offers
          /\ table = <<>> => \A k \in City : Score(need[k], m.stock) = 0
      BY <2>2, OfferIs DEF DataOK
    <2>4. offer \in Offers /\ (offer = <<>> => table = <<>>)
      <3>1. CASE table = <<>>
        BY <2>1, <2>3, <3>1, Zenon
      <3>2. CASE table # <<>>
        <4>1. PICK d \in Nearest(table) : offer = <<d>>
          BY <2>1, <3>2, Zenon
        <4>2. <<d>> # <<>>
          OBVIOUS
        <4> QED
          BY <2>3, <4>1, <4>2, Zenon
      <3> QED
        BY <3>1, <3>2
    <2>5. reply' \in Answer
      BY <2>1, <2>2, <2>4 DEF Answer, Offers
    <2>6. reply'.type = "Destinations" /\ reply'.plane = m.plane /\ reply'.offer = offer
      BY <2>1
    <2>7. m.type \in Requests
      BY <2>2 DEF Requested, Requests
    <2> QED
      BY <1>1, <1>2, <2>3, <2>4, <2>5, <2>6, <2>7 DEF airVars
  <1> QED
    BY <1>3, <1>4

LEMMA MapData ==
    ASSUME TurnInv, DataOK, Map \/ Signal \/ UNCHANGED vars
    PROVE  DataOK'
  <1>1. CASE MapTurn \/ MapWait \/ Signal \/ UNCHANGED vars
    <2>1. UNCHANGED <<goods, channels, reply, airMsg>>
      BY <1>1 DEF MapTurn, MapWait, Signal, vars, airVars, mapVars
    <2> QED
      BY <2>1, DataKept DEF goods, channels
  <1>2. CASE MapAnnounce
    <2>1. PICK type : /\ type \in {"Step", "Continue", "End"}
                      /\ WriteToAirline(i + 1, Plain(type))
      BY <1>2 DEF MapAnnounce, Announced
    <2>2. i + 1 \in Airline
      BY SizeAssumption DEF TurnInv, LockInv, ControlOK, Airline
    <2>3. inbox' \in [Airline -> Seq(AirlineMessage)]
      BY <2>1, <2>2, PlainTyped, ToAirlineTyped DEF DataOK
    <2>4. UNCHANGED <<goods, reply, mapInbox, queue, airMsg>>
      BY <1>2 DEF MapAnnounce, airVars
    <2> QED
      BY <2>3, <2>4, DataKept DEF goods
  <1>3. CASE MapCount
    <2>1. /\ mapInbox # <<>> /\ mapInbox' = Tail(mapInbox)
          /\ UNCHANGED <<goods, reply, inbox, queue, airMsg>>
      BY <1>3 DEF MapCount, airVars
    <2>2. mapInbox' \in Seq(MapMessage) /\ Len(mapInbox') <= IpcCapacity
      BY <2>1, FromMapTyped DEF DataOK
    <2> QED
      BY <2>1, <2>2, DataKept DEF goods
  <1>4. CASE MapUnload
    BY <1>4, UnloadTyped, DataKept
  <1>5. CASE MapDestinations
    BY <1>5, DestinationsTyped, DataKept DEF goods
  <1>6. CASE MapReply
    <2>1. /\ mapPc \in {"reply1", "reply2"} /\ WriteToAirline(AirlineOf[reply.plane], reply)
          /\ reply' = Plain("None")
          /\ UNCHANGED <<goods, mapInbox, queue, airMsg>>
      BY <1>6 DEF MapReply, AfterReply, airVars
    <2>2. reply.type \in Answers
      BY <2>1 DEF TurnInv, Underway, Answers
    <2>3. reply \in AirlineMessage \cup [type : {"None"}]
      BY DEF DataOK, ChannelsOK, AirlineMessage
    <2>4. reply \in Answer /\ reply.plane \in Plane
      BY <2>2, <2>3, AnswerIs
    <2>5. reply \in AirlineMessage /\ AirlineOf[reply.plane] \in Airline
      BY <2>4, PlaceOf DEF AirlineMessage
    <2>6. inbox' \in [Airline -> Seq(AirlineMessage)]
      BY <2>1, <2>5, ToAirlineTyped DEF DataOK
    <2>7. reply' \in [type : {"None"}]
      BY <2>1 DEF Plain
    <2> QED
      BY <2>1, <2>6, <2>7, DataKept DEF goods
  <1> QED
    BY <1>1, <1>2, <1>3, <1>4, <1>5, <1>6 DEF Map

LEMMA RedirectedTyped ==
    ASSUME NEW m \in AirlineMessage \cup [type : {"None"}], m.type \in Answers
    PROVE  /\ Redirected(m) \in QueueMessage
           /\ m.type = "UnloadStock" =>
                 Redirected(m).type = "Stock" /\ Redirected(m).stock = m.stock
           /\ m.type = "Destinations" =>
                 Redirected(m).type = "Destinations" /\ Redirected(m).offer = m.offer
  <1>1. CASE m.type = "UnloadStock"
    <2>1. m.stock \in StockList
      BY <1>1, AnswerIs
    <2>2. Redirected(m) = [type |-> "Stock", stock |-> m.stock]
      BY <1>1 DEF Redirected
    <2> QED
      BY <1>1, <2>1, <2>2 DEF QueueMessage
  <1>2. CASE m.type = "Destinations"
    <2>1. m.offer \in Offers
      BY <1>2, AnswerIs
    <2>2. Redirected(m) = [type |-> "Destinations", offer |-> m.offer]
      BY <1>2 DEF Redirected
    <2> QED
      BY <1>2, <2>1, <2>2 DEF QueueMessage, Offers
  <1> QED
    BY <1>1, <1>2 DEF Answers

LEMMA ReportTyped ==
    ASSUME NEW a \in Airline
    PROVE  Report(a) \in MapMessage /\ Report(a).type \in Returns
  <1>1. Cardinality(InGame(a)) \in Nat
    BY FleetFinite
  <1> QED
    BY <1>1 DEF Report, Plain, MapMessage, Returns

LEMMA AirData ==
    ASSUME TurnInv, DataOK, NEW a \in Airline, AirlineMain(a)
    PROVE  DataOK' /\ UNCHANGED <<need, stock>>
  <1>0. UNCHANGED <<goods, reply>>
    BY DEF AirlineMain, AirReadPhase, AirReadReply, AirReadEnd, AirForward, AirStart,
           AirBroadcast, AirBroadcastDone, AirReady, AirUnlock, AirJoin, mapVars
  <1>1. CASE AirReadPhase(a) \/ AirReadReply(a) \/ AirReadEnd(a)
    <2>1. AirRead(a) /\ UNCHANGED <<mapInbox, queue>>
      BY <1>1 DEF AirReadPhase, AirReadReply, AirReadEnd
    <2>2. /\ inbox' \in [Airline -> Seq(AirlineMessage)]
          /\ airMsg' \in [Airline -> AirlineMessage \cup [type : {"None"}]]
      BY <2>1, AirReadTyped DEF DataOK
    <2> QED
      BY <1>0, <2>1, <2>2, DataKept DEF goods
  <1>2. CASE AirForward(a)
    <2>1. PICK m, p : m = airMsg[a] /\ p = m.plane
      OBVIOUS
    <2>2. Enqueue(p, Redirected(m)) /\ UNCHANGED <<mapInbox, inbox, airMsg>>
      BY <1>2, <2>1 DEF AirForward
    <2>3. m.type \in Answers /\ p \in Plane
      BY <1>2, <2>1 DEF TurnInv, Underway, AirForward, Fleet
    <2>4. m \in AirlineMessage \cup [type : {"None"}]
      BY <2>1 DEF DataOK, ChannelsOK
    <2>5. PICK n \in QueueMessage : n = Redirected(m)
      BY <2>3, <2>4, RedirectedTyped
    <2>6. Enqueue(p, n)
      BY <2>2, <2>5
    <2>7. queue' \in [Plane -> Seq(QueueMessage)]
      BY <2>3, <2>6, EnqueueTyped DEF DataOK
    <2> QED
      BY <1>0, <2>2, <2>7, DataKept DEF goods
  <1>3. CASE AirBroadcast(a)
    <2>1. UNCHANGED <<mapInbox, inbox, airMsg>>
      BY <1>3 DEF AirBroadcast
    <2>2. PICK p : p = Min(visit[a])
      OBVIOUS
    <2>3. visit[a] # {} /\ airPc[a] = "broadcast"
      BY <1>3 DEF AirBroadcast
    <2>4. p \in Plane
      BY <2>2, <2>3, NextCalled DEF Fleet
    <2>5. airMsg[a].type \in {"Step", "Continue", "End"}
      BY <2>3 DEF TurnInv, Main, Call
    <2>6. PICK n \in QueueMessage : n = Plain(airMsg[a].type)
      BY <2>5, PlainTyped
    <2>7. UNCHANGED queue \/ Enqueue(p, n)
      BY <1>3, <2>2, <2>6 DEF AirBroadcast
    <2>8. UNCHANGED queue \/ queue' \in [Plane -> Seq(QueueMessage)]
      BY <2>4, <2>7, EnqueueTyped DEF DataOK
    <2> QED
      BY <1>0, <2>1, <2>8, DataKept DEF goods
  <1>4. CASE AirReady(a)
    <2>1. UNCHANGED <<inbox, queue, airMsg>> /\ WriteToMap(Report(a))
      BY <1>4 DEF AirReady
    <2>2. mapInbox' \in Seq(MapMessage) /\ Len(mapInbox') <= IpcCapacity
      BY <2>1, ReportTyped, ToMapTyped DEF DataOK
    <2> QED
      BY <1>0, <2>1, <2>2, DataKept DEF goods
  <1>5. CASE AirStart(a) \/ AirBroadcastDone(a) \/ AirUnlock(a) \/ AirJoin(a)
    <2>1. UNCHANGED <<channels, airMsg>>
      BY <1>5 DEF AirStart, AirBroadcastDone, AirUnlock, AirJoin
    <2> QED
      BY <1>0, <2>1, DataKept DEF goods, channels
  <1> QED
    BY <1>0, <1>1, <1>2, <1>3, <1>4, <1>5 DEF AirlineMain, goods

(* What a plane makes of an answer. *)
LEMMA StockTaken ==
    ASSUME TurnInv, DataOK, NEW p \in Plane, PlaneUnloaded(p)
    PROVE  /\ InQueue(p).stock \in StockList
           /\ stock' = [stock EXCEPT ![p] = InQueue(p).stock]
           /\ done' = [done EXCEPT ![p] = @ \/ Satisfied(InQueue(p).stock)]
           /\ stock' \in [Plane -> StockList]
           /\ queue' \in [Plane -> Seq(QueueMessage)]
           /\ UNCHANGED <<need, cityOf, distance, reply, mapInbox, inbox, airMsg>>
  <1>1. InQueue(p).type = "Stock"
    BY UnloadedGoes
  <1>2. /\ Dequeue(p) /\ stock' = [stock EXCEPT ![p] = InQueue(p).stock]
        /\ done' = [done EXCEPT ![p] = @ \/ Satisfied(InQueue(p).stock)]
        /\ UNCHANGED <<need, cityOf, distance, reply, mapInbox, inbox, airMsg>>
    BY <1>1 DEF PlaneUnloaded, mapVars, airVars
  <1>3. InQueue(p) \in QueueMessage /\ queue' \in [Plane -> Seq(QueueMessage)]
    BY <1>2, DequeueTyped DEF DataOK
  <1>4. PICK s : s = InQueue(p).stock
    OBVIOUS
  <1>5. s \in StockList
    BY <1>1, <1>3, <1>4, InQueueIs
  <1>6. stock' = [stock EXCEPT ![p] = s] /\ stock \in [Plane -> StockList]
    BY <1>2, <1>4 DEF DataOK, GoodsOK
  <1>7. stock' \in [Plane -> StockList]
    BY <1>5, <1>6
  <1> QED
    BY <1>2, <1>3, <1>4, <1>5, <1>7

LEMMA DestinationTaken ==
    ASSUME TurnInv, DataOK, NEW p \in Plane, PlaneDestination(p)
    PROVE  /\ cityOf' \in [Plane -> City] /\ distance' \in [Plane -> Nat]
           /\ queue' \in [Plane -> Seq(QueueMessage)]
           /\ \/ done' = done
              \/ done' = [done EXCEPT ![p] = TRUE] /\ InQueue(p).offer = <<>>
           /\ UNCHANGED <<need, stock, reply, mapInbox, inbox, airMsg>>
  <1>1. InQueue(p).type = "Destinations"
    BY DestinationGoes
  <1>2. PICK offer : offer = InQueue(p).offer
    OBVIOUS
  <1>3. /\ Dequeue(p) /\ UNCHANGED <<need, stock, reply, mapInbox, inbox, airMsg>>
        /\ offer = <<>> => /\ done' = [done EXCEPT ![p] = TRUE]
                           /\ UNCHANGED <<cityOf, distance>>
        /\ offer # <<>> => /\ cityOf' = [cityOf EXCEPT ![p] = offer[1].city]
                           /\ distance' = [distance EXCEPT ![p] = offer[1].distance]
                           /\ UNCHANGED done
    BY <1>1, <1>2 DEF PlaneDestination, mapVars, airVars
  <1>4. InQueue(p) \in QueueMessage /\ queue' \in [Plane -> Seq(QueueMessage)]
    BY <1>3, DequeueTyped DEF DataOK
  <1>5. offer \in Offers
    BY <1>1, <1>2, <1>4, InQueueIs
  <1>6. cityOf \in [Plane -> City] /\ distance \in [Plane -> Nat]
    BY DEF DataOK, GoodsOK
  <1>7. CASE offer = <<>>
    BY <1>2, <1>3, <1>4, <1>6, <1>7
  <1>8. CASE offer # <<>>
    <2>1. offer[1] \in [city : City, distance : Nat, score : Nat]
      <3>1. PICK D : D = [city : City, distance : Nat, score : Nat]
        OBVIOUS
      <3>2. offer \in Seq(D) /\ offer # <<>>
        BY <1>5, <1>8, <3>1 DEF Offers
      <3>3. Len(offer) \in Nat \ {0}
        BY <3>2, EmptySeq, LenProperties
      <3>4. 1 \in 1 .. Len(offer)
        BY <3>3
      <3>5. offer[1] \in D
        BY <3>2, <3>4, ElementOfSeq
      <3> QED
        BY <3>1, <3>5
    <2>2. PICK c \in City, n \in Nat : c = offer[1].city /\ n = offer[1].distance
      BY <2>1
    <2>3. cityOf' = [cityOf EXCEPT ![p] = c] /\ distance' = [distance EXCEPT ![p] = n]
      BY <1>3, <1>8, <2>2
    <2>4. cityOf' \in [Plane -> City] /\ distance' \in [Plane -> Nat]
      BY <1>6, <2>2, <2>3
    <2> QED
      BY <1>3, <1>4, <1>8, <2>4
  <1> QED
    BY <1>7, <1>8

(* What a plane asks the map. *)
LEMMA RequestTyped ==
    ASSUME DataOK, NEW p \in Plane, PlaneRequest(p)
    PROVE  /\ mapInbox' \in Seq(MapMessage) /\ Len(mapInbox') <= IpcCapacity
           /\ \E m \in MapMessage : /\ mapInbox' = Append(mapInbox, m)
                                    /\ m.type \in Requests
                                    /\ m.plane = p /\ m.stock = stock[p]
           /\ UNCHANGED <<goods, reply, inbox, queue, airMsg>>
  <1>1. PICK type, city, cargo : type = RequestOf[planePc[p]] /\ city = cityOf[p]
                                 /\ cargo = stock[p]
    OBVIOUS
  <1>2. PICK m : m = [type |-> type, plane |-> p, city |-> city, stock |-> cargo]
    OBVIOUS
  <1>3. WriteToMap(m) /\ UNCHANGED <<goods, reply, inbox, queue, airMsg>>
    BY <1>1, <1>2 DEF PlaneRequest, mapVars, airVars
  <1>4. type \in Requests /\ city \in City /\ cargo \in StockList
    BY <1>1 DEF PlaneRequest, RequestOf, Requests, DataOK, GoodsOK
  <1>5. m \in MapMessage /\ m.type \in Requests /\ m.plane = p /\ m.stock = cargo
    BY <1>2, <1>4 DEF MapMessage, Requests
  <1>6. mapInbox' \in Seq(MapMessage) /\ Len(mapInbox') <= IpcCapacity
    BY <1>3, <1>5, ToMapTyped DEF DataOK
  <1> QED
    BY <1>1, <1>3, <1>5, <1>6 DEF WriteToMap

LEMMA PlaneData ==
    ASSUME TurnInv, DataOK, NEW p \in Plane, PlaneThread(p)
    PROVE  DataOK' /\ UNCHANGED need
  <1>1. CASE PlanePeek(p) \/ PlaneCount(p) \/ PlaneUnlock(p)
    <2>1. UNCHANGED <<goods, channels, reply, airMsg>>
      BY <1>1 DEF PlanePeek, PlaneCount, PlaneUnlock, mapVars, airVars
    <2> QED
      BY <2>1, DataKept DEF goods, channels
  <1>2. CASE PlaneStep(p)
    <2>1. Dequeue(p) /\ UNCHANGED <<goods, mapInbox, inbox, reply, airMsg>>
      BY <1>2 DEF PlaneStep, mapVars, airVars
    <2>2. queue' \in [Plane -> Seq(QueueMessage)]
      BY <2>1, DequeueTyped DEF DataOK
    <2> QED
      BY <2>1, <2>2, DataKept DEF goods
  <1>3. CASE PlaneRequest(p)
    BY <1>3, RequestTyped, DataKept DEF goods
  <1>4. CASE PlaneUnloaded(p)
    BY <1>4, StockTaken, DataKept
  <1>5. CASE PlaneContinue(p)
    <2>1. /\ Dequeue(p) /\ UNCHANGED <<need, stock, cityOf, mapInbox, inbox, reply, airMsg>>
          /\ \/ UNCHANGED distance
             \/ distance[p] # 0 /\ distance' = [distance EXCEPT ![p] = @ - 1]
      BY <1>5 DEF PlaneContinue, mapVars, airVars
    <2>2. queue' \in [Plane -> Seq(QueueMessage)]
      BY <2>1, DequeueTyped DEF DataOK
    <2>3. UNCHANGED distance \/ distance' \in [Plane -> Nat]
      BY <2>1 DEF DataOK, GoodsOK
    <2> QED
      BY <2>1, <2>2, <2>3, DataKept
  <1>6. CASE PlaneDestination(p)
    BY <1>6, DestinationTaken, DataKept
  <1>7. CASE PlaneReport(p)
    <2>1. UNCHANGED <<goods, inbox, queue, reply, airMsg>> /\ WriteToMap(Report(AirlineOf[p]))
      BY <1>7 DEF PlaneReport, mapVars, airVars
    <2>2. mapInbox' \in Seq(MapMessage) /\ Len(mapInbox') <= IpcCapacity
      BY <2>1, ReportTyped, PlaceOf, ToMapTyped DEF DataOK
    <2> QED
      BY <2>1, <2>2, DataKept DEF goods
  <1> QED
    BY <1>1, <1>2, <1>3, <1>4, <1>5, <1>6, <1>7 DEF PlaneThread

LEMMA DataPreserved == TurnInv /\ DataOK /\ [Next]_vars => DataOK'
  BY MapData, AirData, PlaneData DEF Next, Terminated

(* Every message has the form its reader takes it to have, every list of stocks  *)
(* stays a list of amounts of at least 0, a plane is always at a city of the     *)
(* map, and no channel holds more than it can (airline.c:124-149, map.c:189-223, *)
(* plane.c:44-60, 89-99).                                                        *)
THEOREM TypesCorrect == Spec => []TypeOK
  <1>1. TurnInv /\ DataOK => TypeOK
    BY DEF TurnInv, LockInv, DataOK, TypeOK
  <1> QED
    BY <1>1, TurnsKept, InitData, DataPreserved, PTL DEF Spec

-----------------------------------------------------------------------------
(* The answers on their way to the planes.                                       *)

(* What an answer says to its plane: the amounts it keeps, or the destinations.  *)
Says(m, p, kind, x) == /\ m.type = kind /\ m.plane = p
                       /\ x = IF kind = "UnloadStock" THEN m.stock ELSE m.offer

SaidIn(s, p, kind, x) == \E k \in 1 .. Len(s) : Says(s[k], p, kind, x)

Delivers(m, kind, x) == \/ kind = "UnloadStock" /\ m.type = "Stock" /\ x = m.stock
                        \/ kind = "Destinations" /\ m.type = "Destinations" /\ x = m.offer

(* The answer x is somewhere between the map and the plane.                      *)
Due(p, kind, x) == \/ Says(reply, p, kind, x)
                   \/ SaidIn(inbox[AirlineOf[p]], p, kind, x)
                   \/ /\ airPc[AirlineOf[p]] = "forward"
                      /\ Says(airMsg[AirlineOf[p]], p, kind, x)
                   \/ queue[p] # <<>> /\ Delivers(InQueue(p), kind, x)

LEMMA SaidWritten ==
    ASSUME NEW s, IsSeq(s), NEW m, NEW p, NEW kind, NEW x
    PROVE  SaidIn(Append(s, m), p, kind, x) <=> SaidIn(s, p, kind, x) \/ Says(m, p, kind, x)
  <1>1. PICK t, n : t = Append(s, m) /\ n = Len(s)
    OBVIOUS
  <1>2. /\ n \in Nat /\ Len(t) = n + 1 /\ t[n + 1] = m /\ n + 1 \in 1 .. n + 1
        /\ \A k \in 1 .. n : t[k] = s[k] /\ k \in 1 .. n + 1
    BY <1>1, Written
  <1>3. \A k \in 1 .. n + 1 : k \in 1 .. n \/ k = n + 1
    BY <1>2
  <1> QED
    BY <1>1, <1>2, <1>3, Zenon DEF SaidIn

LEMMA SaidRead ==
    ASSUME NEW s, IsSeq(s), s # <<>>, NEW p, NEW kind, NEW x
    PROVE  SaidIn(s, p, kind, x) <=> SaidIn(Tail(s), p, kind, x) \/ Says(Head(s), p, kind, x)
  <1>1. PICK t, n : t = Tail(s) /\ n = Len(t)
    OBVIOUS
  <1>2. /\ n \in Nat /\ Len(s) = n + 1 /\ s[1] = Head(s) /\ 1 \in 1 .. n + 1
        /\ \A k \in 1 .. n : t[k] = s[k + 1] /\ k + 1 \in 1 .. n + 1
    BY <1>1, Read
  <1>3. \A k \in 1 .. n + 1 : k = 1 \/ \E j \in 1 .. n : k = j + 1
    <2> SUFFICES ASSUME NEW k \in 1 .. n + 1, k # 1 PROVE k - 1 \in 1 .. n /\ k = (k - 1) + 1
      OBVIOUS
    <2> QED
      BY <1>2
  <1>4. ASSUME SaidIn(s, p, kind, x)
        PROVE  SaidIn(t, p, kind, x) \/ Says(Head(s), p, kind, x)
    <2>1. PICK k \in 1 .. n + 1 : Says(s[k], p, kind, x)
      BY <1>2, <1>4 DEF SaidIn
    <2>2. CASE k = 1
      BY <1>2, <2>1, <2>2
    <2>3. CASE k # 1
      <3>1. PICK j \in 1 .. n : k = j + 1
        BY <1>3, <2>3
      <3>2. Says(t[j], p, kind, x)
        BY <1>2, <2>1, <3>1
      <3> QED
        BY <1>1, <3>2 DEF SaidIn
    <2> QED
      BY <2>2, <2>3
  <1>5. Says(Head(s), p, kind, x) => SaidIn(s, p, kind, x)
    BY <1>2 DEF SaidIn
  <1>6. ASSUME SaidIn(t, p, kind, x)
        PROVE  SaidIn(s, p, kind, x)
    <2>1. PICK j \in 1 .. n : Says(t[j], p, kind, x)
      BY <1>1, <1>6 DEF SaidIn
    <2>2. Says(s[j + 1], p, kind, x) /\ j + 1 \in 1 .. Len(s)
      BY <1>2, <2>1
    <2> QED
      BY <2>2 DEF SaidIn
  <1> QED
    BY <1>1, <1>4, <1>5, <1>6

(* A plane to which an answer is due waits for it, and for no other.             *)
LEMMA DueMeans ==
    ASSUME TurnInv, NEW loc, Underway(loc), NEW p \in Plane, NEW kind \in Answers, NEW x,
           Due(p, kind, x)
    PROVE  /\ Asks(p, kind) /\ loc[p] # "request"
           /\ loc[p] = "mail" => queue[p] # <<>> /\ Delivers(InQueue(p), kind, x)
  <1>1. AirlineOf[p] \in Airline
    BY PlaceOf
  <1>2. CASE Says(reply, p, kind, x)
    <2>1. <<p, kind>> \in Waiting(loc, "reply")
      BY <1>2 DEF Says, Underway
    <2> QED
      BY <2>1 DEF Waiting
  <1>3. CASE SaidIn(inbox[AirlineOf[p]], p, kind, x)
    <2>1. PICK s, w : s = inbox[AirlineOf[p]] /\ w = Waiting(loc, "answer")
      OBVIOUS
    <2>2. PICK k \in 1 .. Len(s) : Says(s[k], p, kind, x)
      BY <1>3, <2>1 DEF SaidIn
    <2>3. s[k].type = kind /\ s[k].plane = p /\ Carries(s, Answers, w)
      BY <1>1, <2>1, <2>2 DEF Says, Underway
    <2>4. <<p, kind>> \in Waiting(loc, "answer")
      BY <2>1, <2>3 DEF Carries
    <2> QED
      BY <2>4 DEF Waiting
  <1>4. CASE airPc[AirlineOf[p]] = "forward" /\ Says(airMsg[AirlineOf[p]], p, kind, x)
    <2>1. <<p, kind>> \in Waiting(loc, "hand")
      BY <1>1, <1>4 DEF Says, Underway
    <2> QED
      BY <2>1 DEF Waiting
  <1>5. CASE queue[p] # <<>> /\ Delivers(InQueue(p), kind, x)
    <2>1. /\ InQueue(p).type \in {"Stock", "Destinations"} /\ InMail(p)
          /\ kind = "UnloadStock" => InQueue(p).type = "Stock"
          /\ kind = "Destinations" => InQueue(p).type = "Destinations"
      BY <1>5 DEF Delivers, TurnInv, Mailbox
    <2>2. loc[p] = "mail"
      BY <1>5, <2>1 DEF Underway
    <2>3. Asks(p, kind)
      BY <2>1 DEF InMail, Asks, Answers
    <2> QED
      BY <1>5, <2>2, <2>3
  <1> QED
    BY <1>2, <1>3, <1>4, <1>5 DEF Due

LEMMA DueUnmoved ==
    ASSUME NEW p \in Plane, NEW kind \in Answers, NEW x,
           UNCHANGED <<reply, airPc>>,
           LET a == AirlineOf[p] IN inbox'[a] = inbox[a] /\ airMsg'[a] = airMsg[a],
           queue'[p] = queue[p]
    PROVE  Due(p, kind, x)' <=> Due(p, kind, x)
  BY DEF Due, InQueue

(* The steps of the map that are not the making of an answer. *)
LEMMA DueAtMap ==
    ASSUME TurnInv, Map \/ Signal \/ UNCHANGED vars, ~MapUnload, ~MapDestinations,
           NEW p \in Plane, NEW kind \in Answers, NEW x
    PROVE  Due(p, kind, x)' <=> Due(p, kind, x)
  <1>1. UNCHANGED <<airPc, airMsg, queue>>
    BY MapFrame
  <1>2. AirlineOf[p] \in Airline /\ IsSeq(inbox[AirlineOf[p]])
    BY PlaceOf DEF TurnInv, Shapes
  <1>3. CASE MapAnnounce
    <2>1. PICK m, b : /\ m.type = Announced[mapPc] /\ b = i + 1
                      /\ mapPc \in {"step", "continue", "over"}
                      /\ inbox'[b] = Append(inbox[b], m)
                      /\ \A c \in Airline \ {b} : inbox'[c] = inbox[c]
                      /\ reply' = reply
      BY <1>3, AnnounceGoes
    <2>2. ~Says(m, p, kind, x)
      BY <2>1 DEF Says, Announced, Answers
    <2>3. SaidIn(inbox'[AirlineOf[p]], p, kind, x) <=> SaidIn(inbox[AirlineOf[p]], p, kind, x)
      <3>1. CASE AirlineOf[p] = b
        <4>1. PICK s, t : s = inbox[AirlineOf[p]] /\ t = inbox'[AirlineOf[p]]
          OBVIOUS
        <4>2. IsSeq(s) /\ t = Append(s, m)
          BY <1>2, <2>1, <3>1, <4>1
        <4> QED
          BY <2>2, <4>1, <4>2, SaidWritten
      <3>2. CASE AirlineOf[p] # b
        BY <1>2, <2>1, <3>2
      <3> QED
        BY <3>1, <3>2
    <2> QED
      BY <1>1, <2>1, <2>3 DEF Due, InQueue
  <1>4. CASE MapReply
    <2> PICK loc : Underway(loc)
      BY DEF TurnInv
    <2>1. PICK m, b : /\ m = reply /\ b = AirlineOf[m.plane] /\ reply' = Plain("None")
                      /\ inbox'[b] = Append(inbox[b], m)
                      /\ \A c \in Airline \ {b} : inbox'[c] = inbox[c]
      BY <1>4, ReplyGoes
    <2>2. Plain("None").type = "None" /\ kind # "None"
      BY DEF Plain, Answers
    <2>3. ~Says(reply', p, kind, x)
      BY <2>1, <2>2 DEF Says
    <2>4. SaidIn(inbox'[AirlineOf[p]], p, kind, x)
             <=> SaidIn(inbox[AirlineOf[p]], p, kind, x) \/ Says(m, p, kind, x)
      <3>1. CASE AirlineOf[p] = b
        <4>1. PICK s, t : s = inbox[AirlineOf[p]] /\ t = inbox'[AirlineOf[p]]
          OBVIOUS
        <4>2. IsSeq(s) /\ t = Append(s, m)
          BY <1>2, <2>1, <3>1, <4>1
        <4> QED
          BY <4>1, <4>2, SaidWritten
      <3>2. CASE AirlineOf[p] # b
        BY <1>2, <2>1, <3>2 DEF Says
      <3> QED
        BY <3>1, <3>2
    <2> QED
      BY <1>1, <2>1, <2>3, <2>4 DEF Due, InQueue
  <1>5. CASE ~MapAnnounce /\ ~MapReply
    <2>1. inbox' = inbox
      BY <1>5, InboxAtMap
    <2>2. reply' = reply
      BY <1>5 DEF Map, MapTurn, MapCount, MapWait, Signal, mapVars, vars
    <2> QED
      BY <1>1, <2>1, <2>2, DueUnmoved
  <1> QED
    BY <1>3, <1>4, <1>5

(* The map makes an answer. *)
LEMMA DueAtAnswer ==
    ASSUME TurnInv, MapUnload \/ MapDestinations,
           NEW p \in Plane, NEW kind \in Answers, NEW x
    PROVE  Due(p, kind, x)' <=> Due(p, kind, x) \/ Says(reply', p, kind, x)
  <1>1. UNCHANGED <<airPc, airMsg, queue>>
    BY MapFrame DEF Map
  <1>2. inbox' = inbox
    BY InboxAtMap, Zenon DEF Map, MapUnload, MapDestinations
  <1>3. mapPc \in {"phase1", "phase2"}
    <2>1. MapUnload => mapPc = "phase1"
      BY Zenon DEF MapUnload
    <2>2. MapDestinations => mapPc = "phase2"
      BY Zenon DEF MapDestinations
    <2> QED
      BY <2>1, <2>2
  <1>4. reply.type \notin Answers
    BY <1>3 DEF TurnInv, Underway, Answers
  <1>5. ~Says(reply, p, kind, x)
    BY <1>4 DEF Says
  <1> QED
    BY <1>1, <1>2, <1>5 DEF Due, InQueue

LEMMA DueAtRead ==
    ASSUME TurnInv, NEW a \in Airline, AirReadPhase(a) \/ AirReadReply(a) \/ AirReadEnd(a),
           NEW p \in Fleet(a), NEW kind \in Answers, NEW x
    PROVE  Due(p, kind, x)' <=> Due(p, kind, x)
  <1>1. PICK s, m : s = inbox[a] /\ m = Head(s)
    OBVIOUS
  <1>2. /\ p \in Plane /\ AirlineOf[p] = a
        /\ UNCHANGED <<reply, queue>>
    BY DEF Fleet, AirReadPhase, AirReadReply, AirReadEnd, mapVars
  <1>3. AirRead(a)
    BY DEF AirReadPhase, AirReadReply, AirReadEnd
  <1>4. /\ airPc[a] = "listen" /\ s # <<>> /\ inbox'[a] = Tail(s) /\ airMsg'[a] = m /\ IsSeq(s)
    BY <1>1, <1>3, AirReads
  <1>5. SaidIn(s, p, kind, x) <=> SaidIn(Tail(s), p, kind, x) \/ Says(m, p, kind, x)
    BY <1>1, <1>4, SaidRead
  <1>6. CASE AirReadReply(a)
    <2>1. airPc'[a] = "forward"
      BY <1>6, ReplyRead
    <2> QED
      BY <1>1, <1>2, <1>4, <1>5, <2>1 DEF Due, InQueue
  <1>7. CASE AirReadPhase(a) \/ AirReadEnd(a)
    <2>1. airPc'[a] # "forward" /\ m.type \notin Answers
      <3>1. CASE AirReadPhase(a)
        BY <1>1, <3>1, CallRead DEF Answers, Call
      <3>2. CASE AirReadEnd(a)
        <4>1. airPc'[a] # "forward" /\ airMsg'[a].type = "End"
          BY <3>2, EndRead
        <4> QED
          BY <1>4, <4>1 DEF Answers
      <3> QED
        BY <1>7, <3>1, <3>2
    <2>2. ~Says(m, p, kind, x)
      BY <2>1 DEF Says
    <2> QED
      BY <1>1, <1>2, <1>4, <1>5, <2>1, <2>2 DEF Due, InQueue
  <1> QED
    BY <1>6, <1>7

LEMMA DueAtForward ==
    ASSUME TurnInv, DataOK, NEW a \in Airline, AirForward(a),
           NEW p \in Fleet(a), NEW kind \in Answers, NEW x
    PROVE  Due(p, kind, x)' <=> Due(p, kind, x)
  <1>1. p \in Plane /\ AirlineOf[p] = a /\ UNCHANGED <<reply, inbox>>
    BY DEF Fleet, AirForward, mapVars
  <1>2. PICK m, q, n : m = airMsg[a] /\ q = m.plane /\ n = Redirected(m)
    OBVIOUS
  <1>3. airPc[a] = "forward" /\ airPc'[a] = "listen" /\ q \in Plane /\ queue[q] = <<>>
    BY <1>2, ForwardGoes
  <1>4. m.type \in Answers
    BY <1>2, <1>3 DEF TurnInv, Underway
  <1>5. Enqueue(q, n)
    BY <1>2 DEF AirForward
  <1>6. /\ queue'[q] # <<>> /\ InQueue(q)' = n
        /\ \A r \in Plane \ {q} : queue'[r] = queue[r]
    BY <1>3, <1>5, Enqueued
  <1>7. m \in AirlineMessage \cup [type : {"None"}]
    BY <1>2 DEF DataOK, ChannelsOK
  <1>8. /\ m.type = "UnloadStock" => n.type = "Stock" /\ n.stock = m.stock
        /\ m.type = "Destinations" => n.type = "Destinations" /\ n.offer = m.offer
    BY <1>2, <1>4, <1>7, RedirectedTyped
  <1>9. Delivers(n, kind, x) <=> Says(m, q, kind, x)
    BY <1>2, <1>4, <1>8 DEF Delivers, Says, Answers
  <1>10. CASE p = q
    BY <1>1, <1>2, <1>3, <1>6, <1>9, <1>10 DEF Due
  <1>11. CASE p # q
    <2>1. ~Says(m, p, kind, x) /\ queue'[p] = queue[p]
      BY <1>1, <1>2, <1>6, <1>11 DEF Says
    <2> QED
      BY <1>1, <1>2, <1>3, <2>1 DEF Due, InQueue
  <1> QED
    BY <1>10, <1>11

LEMMA DueAtBroadcast ==
    ASSUME TurnInv, NEW a \in Airline, AirBroadcast(a),
           NEW p \in Fleet(a), NEW kind \in Answers, NEW x
    PROVE  Due(p, kind, x)' <=> Due(p, kind, x)
  <1>1. p \in Plane /\ AirlineOf[p] = a /\ UNCHANGED <<reply, inbox, airPc, airMsg>>
    BY DEF Fleet, AirBroadcast, mapVars
  <1>2. PICK q \in Fleet(a) :
           /\ q \in Plane /\ queue[q] = <<>>
           /\ queue'[q] = <<>> \/ InQueue(q)'.type = airMsg[a].type
           /\ \A r \in Plane \ {q} : queue'[r] = queue[r]
    BY BroadcastGoes
  <1>3. airMsg[a].type \in {"Step", "Continue", "End"}
    BY BroadcastGoes DEF TurnInv, Main, Call
  <1>4. CASE p = q
    <2>1. queue'[p] # <<>> => ~Delivers(InQueue(p)', kind, x)
      BY <1>2, <1>3, <1>4 DEF Delivers
    <2>2. queue[p] = <<>>
      BY <1>2, <1>4
    <2> QED
      BY <1>1, <2>1, <2>2 DEF Due
  <1>5. CASE p # q
    BY <1>1, <1>2, <1>5, DueUnmoved
  <1> QED
    BY <1>4, <1>5

(* The airlines pass every answer on. *)
LEMMA DueAtAirline ==
    ASSUME TurnInv, DataOK, NEW a \in Airline, AirlineMain(a),
           NEW p \in Plane, NEW kind \in Answers, NEW x
    PROVE  Due(p, kind, x)' <=> Due(p, kind, x)
  <1>1. CASE p \notin Fleet(a)
    <2>1. AirlineOf[p] \in Airline \ {a} /\ p \in Plane \ Fleet(a)
      BY <1>1, PlaceOf
    <2>2. PICK b : b = AirlineOf[p]
      OBVIOUS
    <2>3. /\ reply' = reply /\ queue'[p] = queue[p] /\ inbox'[b] = inbox[b]
          /\ airPc'[b] = airPc[b] /\ airMsg'[b] = airMsg[b]
      BY <2>1, <2>2, AirFrame
    <2> QED
      BY <2>2, <2>3 DEF Due, InQueue
  <1>2. CASE p \in Fleet(a)
    <2>0. AirlineOf[p] = a
      BY <1>2 DEF Fleet
    <2>1. CASE AirReadPhase(a) \/ AirReadReply(a) \/ AirReadEnd(a)
      BY <1>2, <2>1, DueAtRead
    <2>2. CASE AirForward(a)
      BY <1>2, <2>2, DueAtForward
    <2>3. CASE AirBroadcast(a)
      BY <1>2, <2>3, DueAtBroadcast
    <2>4. CASE AirStart(a) \/ AirBroadcastDone(a) \/ AirReady(a) \/ AirUnlock(a) \/ AirJoin(a)
      <3>1. /\ airPc[a] # "forward" /\ airPc'[a] # "forward"
            /\ UNCHANGED <<inbox, queue>>
        <4>1. CASE AirStart(a)
          BY <4>1, StartGoes
        <4>2. CASE AirBroadcastDone(a)
          BY <4>2, BroadcastEnds
        <4>3. CASE AirReady(a) \/ AirUnlock(a) \/ AirJoin(a)
          BY <4>3, ReadyGoes, AirUnlockGoes, JoinGoes
        <4> QED
          BY <2>4, <4>1, <4>2, <4>3
      <3>2. reply' = reply
        BY AirFrame
      <3> QED
        BY <2>0, <3>1, <3>2 DEF Due, InQueue
    <2> QED
      BY <2>1, <2>2, <2>3, <2>4 DEF AirlineMain
  <1> QED
    BY <1>1, <1>2

LEMMA NotInMail ==
    ASSUME NEW loc, Underway(loc), NEW p \in Plane, loc[p] = "mail", NEW kind \in Answers, NEW x
    PROVE  /\ ~Says(reply, p, kind, x)
           /\ ~SaidIn(inbox[AirlineOf[p]], p, kind, x)
           /\ airPc[AirlineOf[p]] = "forward" => ~Says(airMsg[AirlineOf[p]], p, kind, x)
  <1>1. AirlineOf[p] \in Airline
    BY PlaceOf
  <1>2. ~Says(reply, p, kind, x)
    BY DEF Says, Underway, Waiting
  <1>3. ASSUME SaidIn(inbox[AirlineOf[p]], p, kind, x)
        PROVE  FALSE
    <2>1. PICK s, w : s = inbox[AirlineOf[p]] /\ w = Waiting(loc, "answer")
      OBVIOUS
    <2>2. PICK k \in 1 .. Len(s) : Says(s[k], p, kind, x)
      BY <1>3, <2>1 DEF SaidIn
    <2>3. s[k].type = kind /\ s[k].plane = p /\ Carries(s, Answers, w)
      BY <1>1, <2>1, <2>2 DEF Says, Underway
    <2>4. <<p, kind>> \in Waiting(loc, "answer")
      BY <2>1, <2>3 DEF Carries
    <2> QED
      BY <2>4 DEF Waiting
  <1>4. airPc[AirlineOf[p]] = "forward" => ~Says(airMsg[AirlineOf[p]], p, kind, x)
    BY <1>1 DEF Says, Underway, Waiting
  <1> QED
    BY <1>2, <1>3, <1>4

(* A plane takes the answer that is due to it, and no other step of it does.     *)
LEMMA DueAtPlane ==
    ASSUME TurnInv, NEW q \in Plane, PlaneThread(q),
           NEW p \in Plane, NEW kind \in Answers, NEW x
    PROVE  /\ Due(p, kind, x)' => Due(p, kind, x)
           /\ p # q \/ ~(PlaneUnloaded(q) \/ PlaneDestination(q)) =>
                 (Due(p, kind, x)' <=> Due(p, kind, x))
           /\ p = q /\ PlaneUnloaded(q) => /\ ~Due(p, "UnloadStock", x)'
                                           /\ Due(p, "UnloadStock", x) <=> x = InQueue(p).stock
           /\ p = q /\ PlaneDestination(q) => ~Due(p, "UnloadStock", x)
  <1> PICK loc : Underway(loc)
    BY DEF TurnInv
  <1>0. UNCHANGED <<reply, inbox, airPc, airMsg>>
    BY PlaneFrame
  <1>1. CASE p # q
    <2>1. queue'[p] = queue[p]
      BY <1>1, PlaneFrame
    <2> QED
      BY <1>0, <1>1, <2>1, DueUnmoved
  <1>2. CASE p = q /\ PlaneUnloaded(q)
    <2>1. queue'[p] = <<>> /\ queue[p] # <<>> /\ InQueue(p).type = "Stock"
      BY <1>2, UnloadedGoes
    <2>2. loc[p] = "mail"
      BY <2>1 DEF Underway
    <2>3. \A k \in Answers : Due(p, k, x) => k = "UnloadStock" /\ x = InQueue(p).stock
      BY <2>1, <2>2, DueMeans DEF Delivers
    <2>4. Due(p, "UnloadStock", x) <=> x = InQueue(p).stock
      BY <2>1, <2>3 DEF Due, Delivers, Answers
    <2>5. \A k \in Answers : Due(p, k, x)' => Due(p, k, x)
      BY <1>0, <2>1 DEF Due
    <2>6. ~Due(p, "UnloadStock", x)'
      <3>1. SUFFICES ASSUME Due(p, "UnloadStock", x)' PROVE FALSE
        OBVIOUS
      <3>2. \/ Says(reply, p, "UnloadStock", x)
            \/ SaidIn(inbox[AirlineOf[p]], p, "UnloadStock", x)
            \/ /\ airPc[AirlineOf[p]] = "forward"
               /\ Says(airMsg[AirlineOf[p]], p, "UnloadStock", x)
        BY <1>0, <2>1, <3>1 DEF Due
      <3> QED
        BY <2>2, <3>2, NotInMail DEF Answers
    <2> QED
      BY <1>2, <2>4, <2>5, <2>6 DEF PlaneUnloaded, PlaneDestination
  <1>3. CASE p = q /\ PlaneDestination(q)
    <2>1. queue'[p] = <<>> /\ planePc[p] = "awaitDest"
      BY <1>3, DestinationGoes
    <2>2. Due(p, kind, x)' => Due(p, kind, x)
      BY <1>0, <2>1 DEF Due
    <2>3. ~Due(p, "UnloadStock", x)
      BY <2>1, DueMeans DEF Asks, Answers
    <2> QED
      BY <1>3, <2>1, <2>2, <2>3, UnloadedGoes
  <1>4. CASE p = q /\ ~PlaneUnloaded(q) /\ ~PlaneDestination(q)
    <2>1. \/ queue'[p] = queue[p]
          \/ /\ queue'[p] = <<>> /\ queue[p] # <<>>
             /\ InQueue(p).type \in {"Step", "Continue", "End"}
      BY <1>4, PeekGoes, StepGoes, RequestGoes, ContinueGoes, CountGoes, ReportGoes, UnlockGoes
         DEF PlaneThread
    <2>2. CASE queue'[p] = queue[p]
      BY <1>0, <1>4, <2>2, DueUnmoved
    <2>3. CASE queue'[p] = <<>> /\ InQueue(p).type \in {"Step", "Continue", "End"}
      BY <1>0, <1>4, <2>3 DEF Due, Delivers
    <2> QED
      BY <2>1, <2>2, <2>3
  <1> QED
    BY <1>1, <1>2, <1>3, <1>4

-----------------------------------------------------------------------------
(* A plane that is done is of no use.                                            *)

(* No city needs anything of what a plane has left.                              *)
NoUse(p) == \A c \in City : Score(need[c], stock[p]) = 0

(* A request tells what its plane still carries.                                 *)
Asked == \A k \in 1 .. Len(mapInbox) : mapInbox[k].type \in Requests =>
            mapInbox[k].stock = stock[mapInbox[k].plane]

(* An answer without a destination is true for as long as it is on its way.      *)
Refused == \A p \in Plane : Due(p, "Destinations", <<>>) => NoUse(p)

(* A plane that is done is of no use any more, while the game lasts.             *)
LeftOut == \A p \in Plane : done[p] => IsOver \/ NoUse(p)

UseInv == Asked /\ Refused /\ LeftOut

(* UnloadStock is what the map reads in phase 1, when it does not count.         *)
LEMMA UnloadGoes ==
    ASSUME TurnInv, DataOK, MapUnload
    PROVE  \E p \in Plane, c \in City, plane \in StockList : \E after, next :
              /\ Unloads(c, plane, after, next) /\ need' = next
              /\ reply' = [type |-> "UnloadStock", plane |-> p, stock |-> after.plane]
              /\ mapInbox # <<>> /\ mapInbox' = Tail(mapInbox)
              /\ Head(mapInbox).type \in Requests
              /\ Head(mapInbox).plane = p /\ Head(mapInbox).stock = plane
  <1> PICK m : m = Head(mapInbox)
    OBVIOUS
  <1>1. /\ mapPc = "phase1" /\ mapInbox # <<>> /\ m.type # Counted["phase1"]
        /\ mapInbox' = Tail(mapInbox)
    BY Zenon DEF MapUnload
  <1>2. m.type = "UnloadStock"
    BY <1>1, HeadExpected DEF Counted
  <1>3. ~Unexpected("phase1", m)
    BY <1>2 DEF Unexpected, Counted, Requested
  <1> PICK after : after = Discharge(need[m.city], m.stock)
    OBVIOUS
  <1>4. /\ need' = [need EXCEPT ![m.city] = after.city]
        /\ reply' = [type |-> "UnloadStock", plane |-> m.plane, stock |-> after.plane]
    BY <1>3, Zenon DEF MapUnload
  <1>5. m.plane \in Plane /\ m.city \in City /\ m.stock \in StockList
    BY <1>1, <1>3, RequestRead
  <1>6. PICK p \in Plane, c \in City, plane \in StockList :
           p = m.plane /\ c = m.city /\ plane = m.stock
    BY <1>5
  <1>7. PICK next : next = need'
    OBVIOUS
  <1>8. Unloads(c, plane, after, next)
    BY <1>4, <1>6, <1>7 DEF Unloads
  <1>9. reply' = [type |-> "UnloadStock", plane |-> p, stock |-> after.plane]
    BY <1>4, <1>6
  <1>10. m.type \in Requests
    BY <1>2 DEF Requests
  <1> QED
    BY <1>1, <1>6, <1>7, <1>8, <1>9, <1>10

(* The cities need less and less, and only unload_stock changes a cargo.         *)
LEMMA GoodsMove ==
    ASSUME TurnInv, DataOK, [Next]_vars
    PROVE  /\ UNCHANGED need \/ \A c \in City : Lowered(need'[c], need[c])
           /\ \A p \in Plane : stock'[p] = stock[p] \/ PlaneUnloaded(p)
  <1>1. CASE MapUnload
    <2>1. PICK p \in Plane, c \in City, plane \in StockList : \E after, next :
             Unloads(c, plane, after, next) /\ need' = next
      BY <1>1, UnloadGoes
    <2>2. PICK after, next : Unloads(c, plane, after, next) /\ need' = next
      BY <2>1
    <2>3. \A k \in City : Lowered(next[k], need[k])
      BY <2>2, NeedAfter DEF DataOK
    <2>4. stock' = stock
      BY <1>1, UnloadTyped
    <2> QED
      BY <2>2, <2>3, <2>4
  <1>2. CASE (Map /\ ~MapUnload) \/ Signal \/ UNCHANGED vars
    <2>1. UNCHANGED goods
      BY <1>2, DestinationsTyped DEF Map, MapTurn, MapAnnounce, MapCount, MapReply, MapWait,
                                     Signal, vars
    <2> QED
      BY <2>1 DEF goods
  <1>3. ASSUME NEW a \in Airline, AirlineMain(a)
        PROVE  UNCHANGED <<need, stock>>
    BY <1>3, AirData
  <1>4. ASSUME NEW q \in Plane, PlaneThread(q)
        PROVE  /\ UNCHANGED need
               /\ \A p \in Plane : stock'[p] = stock[p] \/ PlaneUnloaded(p)
    <2>1. UNCHANGED need
      BY <1>4, PlaneData
    <2>2. CASE PlaneUnloaded(q)
      <3>1. PICK s : s = InQueue(q).stock
        OBVIOUS
      <3>2. stock' = [stock EXCEPT ![q] = s] /\ stock \in [Plane -> StockList]
        BY <2>2, <3>1, StockTaken DEF DataOK, GoodsOK
      <3>3. \A p \in Plane : p # q => stock'[p] = stock[p]
        BY <3>2
      <3> QED
        BY <2>1, <2>2, <3>3
    <2>3. CASE ~PlaneUnloaded(q)
      <3>1. stock' = stock
        BY <1>4, <2>3 DEF PlaneThread, PlanePeek, PlaneStep, PlaneRequest, PlaneContinue,
                          PlaneDestination, PlaneCount, PlaneReport, PlaneUnlock, goods
      <3> QED
        BY <2>1, <3>1
    <2> QED
      BY <2>2, <2>3
  <1> QED
    BY <1>1, <1>2, <1>3, <1>4 DEF Next, Terminated

LEMMA NoUseStays ==
    ASSUME TurnInv, DataOK, [Next]_vars, NEW p \in Plane, ~PlaneUnloaded(p), NoUse(p)
    PROVE  NoUse(p)'
  <1>1. /\ UNCHANGED need \/ \A c \in City : Lowered(need'[c], need[c])
        /\ stock'[p] = stock[p]
    BY GoodsMove
  <1> SUFFICES ASSUME NEW c \in City PROVE Score(need'[c], stock'[p]) = 0
    BY DEF NoUse
  <1>2. PICK x, y, s : x = need[c] /\ y = need'[c] /\ s = stock[p]
    OBVIOUS
  <1>3. x \in StockList /\ s \in StockList
    BY <1>2, NeedIs DEF DataOK, GoodsOK
  <1>4. Score(x, s) = 0
    BY <1>2 DEF NoUse
  <1>5. y = x \/ Lowered(y, x)
    BY <1>1, <1>2
  <1>6. Score(y, s) = 0
    BY <1>3, <1>4, <1>5, UselessStays
  <1> QED
    BY <1>1, <1>2, <1>6

(* Which planes have a request on its way. *)
LEMMA AskedBy ==
    ASSUME TurnInv, NEW k \in 1 .. Len(mapInbox), mapInbox[k].type \in Requests
    PROVE  mapInbox[k].plane \in Plane /\ ~PlaneUnloaded(mapInbox[k].plane)
  <1> PICK loc : Underway(loc)
    BY DEF TurnInv
  <1>1. PICK p, type : p = mapInbox[k].plane /\ type = mapInbox[k].type
    OBVIOUS
  <1>2. <<p, type>> \in Waiting(loc, "request")
    BY <1>1 DEF Underway, Carries
  <1>3. p \in Plane /\ loc[p] = "request"
    BY <1>2 DEF Waiting
  <1>4. ASSUME PlaneUnloaded(p) PROVE FALSE
    BY <1>3, <1>4, UnloadedGoes DEF Underway
  <1> QED
    BY <1>1, <1>3, <1>4

LEMMA AskedKept ==
    ASSUME TurnInv, DataOK, [Next]_vars, Asked,
           \/ mapInbox' = mapInbox
           \/ mapInbox # <<>> /\ mapInbox' = Tail(mapInbox)
           \/ \E m : /\ mapInbox' = Append(mapInbox, m)
                     /\ m.type \in Requests => m.stock = stock'[m.plane]
    PROVE  Asked'
  <1>1. \A k \in 1 .. Len(mapInbox) : mapInbox[k].type \in Requests =>
            mapInbox[k].stock = stock'[mapInbox[k].plane]
    <2> SUFFICES ASSUME NEW k \in 1 .. Len(mapInbox), mapInbox[k].type \in Requests
                 PROVE  mapInbox[k].stock = stock'[mapInbox[k].plane]
      OBVIOUS
    <2>1. PICK p : p = mapInbox[k].plane
      OBVIOUS
    <2>2. stock'[p] = stock[p]
      BY <2>1, AskedBy, GoodsMove
    <2> QED
      BY <2>1, <2>2 DEF Asked
  <1>2. IsSeq(mapInbox)
    BY DEF TurnInv, Shapes
  <1>3. PICK s, t : s = mapInbox /\ t = mapInbox'
    OBVIOUS
  <1>4. SUFFICES ASSUME NEW k \in 1 .. Len(t), t[k].type \in Requests
                 PROVE  t[k].stock = stock'[t[k].plane]
    BY <1>3 DEF Asked
  <1>5. CASE t = s
    BY <1>1, <1>3, <1>4, <1>5
  <1>6. CASE s # <<>> /\ t = Tail(s)
    <2>1. /\ Len(s) \in Nat /\ Len(t) = Len(s) - 1
          /\ \A j \in 1 .. Len(t) : t[j] = s[j + 1]
      BY <1>2, <1>3, <1>6, Read
    <2>2. k + 1 \in 1 .. Len(s) /\ t[k] = s[k + 1]
      BY <2>1
    <2> QED
      BY <1>1, <1>3, <1>4, <2>2
  <1>7. CASE \E m : /\ t = Append(s, m)
                    /\ m.type \in Requests => m.stock = stock'[m.plane]
    <2> PICK m : t = Append(s, m) /\ (m.type \in Requests => m.stock = stock'[m.plane])
      BY <1>7
    <2>1. /\ Len(s) \in Nat /\ Len(t) = Len(s) + 1 /\ t[Len(s) + 1] = m
          /\ \A j \in 1 .. Len(s) : t[j] = s[j]
      BY <1>2, <1>3, Written
    <2>2. k \in 1 .. Len(s) \/ k = Len(s) + 1
      BY <2>1
    <2> QED
      BY <1>1, <1>3, <1>4, <2>1, <2>2
  <1> QED
    BY <1>3, <1>5, <1>6, <1>7

(* The requests: written with the cargo, and read before the cargo changes.      *)
LEMMA AskedPreserved ==
    ASSUME TurnInv, DataOK, Asked, [Next]_vars
    PROVE  Asked'
  <1> PICK loc : Underway(loc)
    BY DEF TurnInv
  <1>1. CASE Map \/ Signal \/ UNCHANGED vars
    <2>1. mapInbox' = mapInbox \/ (mapInbox # <<>> /\ mapInbox' = Tail(mapInbox))
      <3>1. CASE MapUnload
        BY <3>1, UnloadGoes
      <3>2. CASE MapDestinations
        BY <3>2, Zenon DEF MapDestinations
      <3>3. CASE MapAnnounce
        BY <3>3, AnnounceGoes
      <3>4. CASE MapReply
        BY <3>4, ReplyGoes
      <3>5. CASE MapTurn \/ MapCount \/ MapWait \/ Signal \/ UNCHANGED vars
        BY <3>5 DEF MapTurn, MapCount, MapWait, Signal, channels, vars
      <3> QED
        BY <1>1, <3>1, <3>2, <3>3, <3>4, <3>5 DEF Map
    <2> QED
      BY <2>1, AskedKept
  <1>2. ASSUME NEW a \in Airline, AirlineMain(a)
        PROVE  Asked'
    <2>1. CASE AirReady(a)
      <3>1. PICK m : m = Report(a)
        OBVIOUS
      <3>2. mapInbox' = Append(mapInbox, m) /\ m.type \notin Requests
        BY <2>1, <3>1, ReadyGoes, ReportTyped DEF Returns, Requests
      <3> QED
        BY <3>2, AskedKept
    <2>2. CASE ~AirReady(a)
      <3>1. mapInbox' = mapInbox
        BY <1>2, <2>2 DEF AirlineMain, AirReadPhase, AirReadReply, AirReadEnd, AirForward,
                          AirStart, AirBroadcast, AirBroadcastDone, AirUnlock, AirJoin,
                          channels
      <3> QED
        BY <3>1, AskedKept
    <2> QED
      BY <2>1, <2>2
  <1>3. ASSUME NEW p \in Plane, PlaneThread(p)
        PROVE  Asked'
    <2>1. CASE PlaneReport(p)
      <3>1. PICK m : m = Report(AirlineOf[p])
        OBVIOUS
      <3>2. mapInbox' = Append(mapInbox, m) /\ m.type \notin Requests
        BY <2>1, <3>1, ReportGoes, ReportTyped, PlaceOf DEF Returns, Requests
      <3> QED
        BY <3>2, AskedKept
    <2>2. CASE PlaneRequest(p)
      <3>1. PICK m : mapInbox' = Append(mapInbox, m) /\ m.plane = p /\ m.stock = stock[p]
        BY <2>2, RequestTyped
      <3>2. stock' = stock
        BY <2>2 DEF PlaneRequest, goods
      <3>3. m.stock = stock'[m.plane]
        BY <3>1, <3>2
      <3> QED
        BY <3>1, <3>3, AskedKept
    <2>3. CASE ~PlaneReport(p) /\ ~PlaneRequest(p)
      <3>1. mapInbox' = mapInbox
        BY <1>3, <2>3 DEF PlaneThread, PlanePeek, PlaneStep, PlaneUnloaded, PlaneContinue,
                          PlaneDestination, PlaneCount, PlaneUnlock, channels
      <3> QED
        BY <3>1, AskedKept
    <2> QED
      BY <2>1, <2>2, <2>3
  <1> QED
    BY <1>1, <1>2, <1>3 DEF Next, Terminated

LEMMA RefusedPreserved ==
    ASSUME TurnInv, DataOK, Asked, Refused, [Next]_vars
    PROVE  Refused'
  <1> PICK loc : Underway(loc)
    BY DEF TurnInv
  <1> SUFFICES ASSUME NEW p \in Plane, Due(p, "Destinations", <<>>)'
               PROVE  NoUse(p)'
    BY DEF Refused
  <1>0. "Destinations" \in Answers
    BY DEF Answers
  <1>1. SUFFICES ASSUME ~Due(p, "Destinations", <<>>)
                 PROVE  NoUse(p)'
    <2>1. ASSUME Due(p, "Destinations", <<>>) PROVE NoUse(p) /\ ~PlaneUnloaded(p)
      <3>1. Asks(p, "Destinations")
        BY <1>0, <2>1, DueMeans
      <3>2. planePc[p] = "awaitDest"
        BY <3>1 DEF Asks
      <3> QED
        BY <2>1, <3>2 DEF Refused, PlaneUnloaded
    <2> QED
      BY <2>1, NoUseStays
  <1>2. MapDestinations
    <2>1. SUFFICES ASSUME ~MapDestinations PROVE FALSE
      OBVIOUS
    <2>2. CASE MapUnload
      <3>1. PICK q, s : reply' = [type |-> "UnloadStock", plane |-> q, stock |-> s]
        BY <2>2, UnloadGoes
      <3>2. ~Says(reply', p, "Destinations", <<>>)
        BY <3>1 DEF Says
      <3> QED
        BY <1>0, <1>1, <2>2, <3>2, DueAtAnswer
    <2>3. CASE (Map \/ Signal \/ UNCHANGED vars) /\ ~MapUnload
      BY <1>0, <1>1, <2>1, <2>3, DueAtMap
    <2>4. ASSUME NEW a \in Airline, AirlineMain(a) PROVE FALSE
      BY <1>0, <1>1, <2>4, DueAtAirline
    <2>5. ASSUME NEW q \in Plane, PlaneThread(q) PROVE FALSE
      BY <1>0, <1>1, <2>5, DueAtPlane
    <2> QED
      BY <2>2, <2>3, <2>4, <2>5 DEF Next, Terminated
  <1>3. Says(reply', p, "Destinations", <<>>)
    BY <1>0, <1>1, <1>2, DueAtAnswer
  <1>4. UNCHANGED <<need, stock>>
    BY <1>2, DestinationsTyped DEF goods
  <1>5. PICK m : m = Head(mapInbox)
    OBVIOUS
  <1>6. mapInbox # <<>>
    BY <1>2, Zenon DEF MapDestinations
  <1>7. reply' # reply
    <2>1. ~Says(reply, p, "Destinations", <<>>)
      BY <1>1 DEF Due
    <2> QED
      BY <1>3, <2>1
  <1>8. /\ m.plane = p /\ m.type \in Requests
        /\ \A c \in City : Score(need[c], m.stock) = 0
    BY <1>2, <1>3, <1>5, <1>7, DestinationsTyped DEF Says
  <1>9. m.stock = stock[p]
    <2>1. IsSeq(mapInbox)
      BY DEF TurnInv, Shapes
    <2>2. mapInbox[1] = m /\ 1 \in 1 .. Len(mapInbox)
      BY <1>5, <1>6, <2>1, Read
    <2> QED
      BY <1>8, <2>2 DEF Asked
  <1> QED
    BY <1>4, <1>8, <1>9 DEF NoUse

LEMMA OverStays ==
    ASSUME TurnInv, IsOver, [Next]_vars
    PROVE  IsOver'
  <1>1. CASE Map \/ Signal \/ UNCHANGED vars
    <2>1. CASE MapAnnounce
      BY <2>1, AnnounceGoes DEF IsOver, AfterAnnouncing
    <2>2. CASE MapUnload
      <3>1. mapPc = "phase1"
        BY <2>2, Zenon DEF MapUnload
      <3> QED
        BY <3>1 DEF IsOver
    <2>3. CASE MapDestinations
      <3>1. mapPc = "phase2"
        BY <2>3, Zenon DEF MapDestinations
      <3> QED
        BY <3>1 DEF IsOver
    <2>4. CASE MapTurn \/ MapCount \/ MapReply \/ MapWait \/ Signal \/ UNCHANGED vars
      BY <2>4 DEF MapTurn, MapCount, Counted, MapReply, AfterReply, MapWait, Signal, mapVars,
                  vars, IsOver
    <2> QED
      BY <1>1, <2>1, <2>2, <2>3, <2>4 DEF Map
  <1>2. ASSUME NEW a \in Airline, AirlineMain(a) PROVE IsOver'
    BY <1>2, AirFrame DEF IsOver
  <1>3. ASSUME NEW p \in Plane, PlaneThread(p) PROVE IsOver'
    BY <1>3, PlaneFrame DEF IsOver
  <1> QED
    BY <1>1, <1>2, <1>3 DEF Next, Terminated

LEMMA LeftOutPreserved ==
    ASSUME TurnInv, DataOK, Refused, LeftOut, [Next]_vars
    PROVE  LeftOut'
  <1> SUFFICES ASSUME NEW p \in Plane, done'[p], ~IsOver'
               PROVE  NoUse(p)'
    BY DEF LeftOut
  <1>0. ~IsOver
    BY OverStays
  <1>1. CASE done[p]
    <2>1. NoUse(p)
      BY <1>0, <1>1 DEF LeftOut
    <2>2. ~PlaneUnloaded(p)
      BY <1>1, Popped DEF PlaneUnloaded
    <2> QED
      BY <2>1, <2>2, NoUseStays
  <1>2. CASE ~done[p]
    <2>1. PlaneThread(p)
      <3>1. CASE Map \/ Signal \/ UNCHANGED vars
        BY <1>2, <3>1, MapFrame
      <3>2. ASSUME NEW a \in Airline, AirlineMain(a) PROVE FALSE
        BY <1>2, <3>2, AirFrame
      <3>3. ASSUME NEW q \in Plane, PlaneThread(q), q # p PROVE FALSE
        BY <1>2, <3>3, PlaneFrame
      <3> QED
        BY <1>2, <3>1, <3>2, <3>3 DEF Next, Terminated
    <2>2. CASE PlaneUnloaded(p)
      <3>1. PICK s \in StockList : s = InQueue(p).stock
        BY <2>2, StockTaken
      <3>2. /\ stock' = [stock EXCEPT ![p] = s] /\ stock \in [Plane -> StockList]
            /\ done' = [done EXCEPT ![p] = @ \/ Satisfied(s)] /\ done \in [Plane -> BOOLEAN]
        BY <2>2, <3>1, StockTaken DEF DataOK, GoodsOK, TurnInv, LockInv, ControlOK
      <3>3. stock'[p] = s /\ Satisfied(s)
        BY <1>2, <3>2, Zenon
      <3>4. DataOK'
        BY DataPreserved
      <3>5. \A c \in City : need'[c] \in StockList
        <4>1. \A c \in City : need[c] \in StockList
          BY NeedIs DEF DataOK
        <4> QED
          BY <2>1, <4>1, PlaneData
      <3> QED
        BY <3>1, <3>3, <3>5, EmptyIsUseless DEF NoUse
    <2>3. CASE PlaneDestination(p)
      <3>1. done' = [done EXCEPT ![p] = TRUE] /\ InQueue(p).offer = <<>>
        BY <1>2, <2>3, DestinationTaken
      <3>2. queue[p] # <<>> /\ InQueue(p).type = "Destinations"
        BY <2>3, DestinationGoes
      <3>3. Due(p, "Destinations", <<>>)
        BY <3>1, <3>2 DEF Due, Delivers
      <3>4. ~PlaneUnloaded(p)
        BY <2>3, DestinationGoes, UnloadedGoes
      <3> QED
        BY <3>3, <3>4, NoUseStays DEF Refused
    <2>4. CASE PlaneStep(p)
      <3>1. Ended(AirlineOf[p])
        BY <1>2, <2>4, StepGoes
      <3> QED
        BY <1>0, <3>1, EndedMeans, PlaceOf DEF EndSent
    <2>5. CASE ~PlaneUnloaded(p) /\ ~PlaneDestination(p) /\ ~PlaneStep(p)
      <3>1. done' = done
        BY <2>1, <2>5 DEF PlaneThread, PlanePeek, PlaneRequest, PlaneContinue, PlaneCount,
                          PlaneReport, PlaneUnlock
      <3> QED
        BY <1>2, <3>1
    <2> QED
      BY <2>2, <2>3, <2>4, <2>5
  <1> QED
    BY <1>1, <1>2

LEMMA InitUse == Init => UseInv
  <1> SUFFICES ASSUME Init PROVE UseInv
    OBVIOUS
  <1>1. Asked
    BY DEF Asked, Init
  <1>2. Refused
    <2> SUFFICES ASSUME NEW p \in Plane, Due(p, "Destinations", <<>>) PROVE FALSE
      BY DEF Refused
    <2>1. /\ reply.type = "None" /\ queue[p] = <<>>
          /\ inbox[AirlineOf[p]] = <<>> /\ airPc[AirlineOf[p]] = "listen"
      BY PlaceOf DEF Init, Plain
    <2>2. ~SaidIn(<<>>, p, "Destinations", <<>>)
      BY DEF SaidIn
    <2> QED
      BY <2>1, <2>2 DEF Due, Says
  <1>3. LeftOut
    BY DEF LeftOut, Init
  <1> QED
    BY <1>1, <1>2, <1>3 DEF UseInv

LEMMA UsePreserved == TurnInv /\ DataOK /\ UseInv /\ [Next]_vars => UseInv'
  BY AskedPreserved, RefusedPreserved, LeftOutPreserved DEF UseInv

(* A plane that is done is of no use to any city, then and for the rest of the   *)
(* game: an answer without a destination is as true when the plane reads it as   *)
(* when app_give_destinations made it, whatever others unload in between, and a  *)
(* plane that has nothing left has nothing to give (map.c:225-255,               *)
(* plane.c:50-52, 89-104).                                                       *)
THEOREM LeftOutForGood == Spec => []DoneIsUseless
  <1>1. UseInv => DoneIsUseless
    BY DEF UseInv, LeftOut, DoneIsUseless, IsOver, NoUse
  <1> QED
    BY <1>1, InitTurn, TurnPreserved, InitData, DataPreserved, InitUse, UsePreserved, PTL
       DEF Spec

-----------------------------------------------------------------------------
(* The sum of what is needed and of what is carried.                             *)

LEMMA AnswersAre ==
    TurnInv => \A p \in Plane : \A s : s \in UnloadAnswers(p) <=> Due(p, "UnloadStock", s)
  <1> SUFFICES ASSUME TurnInv, NEW p \in Plane, NEW s
               PROVE  s \in UnloadAnswers(p) <=> Due(p, "UnloadStock", s)
    OBVIOUS
  <1> PICK a : a = AirlineOf[p]
    OBVIOUS
  <1>1. IsSeq(inbox[a]) /\ (queue[p] = <<>> \/ queue[p] = <<InQueue(p)>>)
    BY PlaceOf DEF TurnInv, Shapes, Mailbox
  <1>2. \A m : m \in Range(inbox[a]) <=> \E k \in 1 .. Len(inbox[a]) : m = inbox[a][k]
    <2>1. DOMAIN inbox[a] = 1 .. Len(inbox[a])
      BY <1>1 DEF IsSeq
    <2> QED
      BY <2>1 DEF Range
  <1>3. \A m : m \in Range(queue[p]) <=> queue[p] # <<>> /\ m = InQueue(p)
    <2>1. CASE queue[p] = <<>>
      BY <2>1 DEF Range
    <2>2. CASE queue[p] = <<InQueue(p)>>
      <3>1. PICK m : m = InQueue(p)
        OBVIOUS
      <3>2. Range(<<m>>) = {m} /\ <<m>> # <<>>
        BY DEF Range
      <3> QED
        BY <2>2, <3>1, <3>2
    <2> QED
      BY <1>1, <2>1, <2>2
  <1>4. PICK hands : hands = IF airPc[a] = "forward" THEN {airMsg[a]} ELSE {}
    OBVIOUS
  <1>5. s \in UnloadAnswers(p) <=>
           \/ \E m \in {reply} \cup Range(inbox[a]) \cup hands :
                 m.type = "UnloadStock" /\ m.plane = p /\ s = m.stock
           \/ \E m \in Range(queue[p]) : m.type = "Stock" /\ s = m.stock
    BY <1>4 DEF UnloadAnswers
  <1>6. \A m : Says(m, p, "UnloadStock", s) <=>
                  m.type = "UnloadStock" /\ m.plane = p /\ s = m.stock
    BY DEF Says
  <1>7. \A m : Delivers(m, "UnloadStock", s) <=> m.type = "Stock" /\ s = m.stock
    BY DEF Delivers
  <1>8. SaidIn(inbox[a], p, "UnloadStock", s) <=>
           \E m \in Range(inbox[a]) : Says(m, p, "UnloadStock", s)
    BY <1>2 DEF SaidIn
  <1>9. (\E m \in hands : Says(m, p, "UnloadStock", s))
           <=> airPc[a] = "forward" /\ Says(airMsg[a], p, "UnloadStock", s)
    BY <1>4
  <1>10. (\E m \in Range(queue[p]) : Delivers(m, "UnloadStock", s))
            <=> queue[p] # <<>> /\ Delivers(InQueue(p), "UnloadStock", s)
    BY <1>3
  <1>11. s \in UnloadAnswers(p) <=>
            \/ Says(reply, p, "UnloadStock", s)
            \/ \E m \in Range(inbox[a]) : Says(m, p, "UnloadStock", s)
            \/ \E m \in hands : Says(m, p, "UnloadStock", s)
            \/ \E m \in Range(queue[p]) : Delivers(m, "UnloadStock", s)
    BY <1>5, <1>6, <1>7, Zenon
  <1> QED
    BY <1>8, <1>9, <1>10, <1>11 DEF Due

LEMMA AnswersAreNext ==
    (TurnInv => \A p \in Plane : \A s : s \in UnloadAnswers(p) <=> Due(p, "UnloadStock", s))'
  BY AnswersAre, PTL

(* The cargo of a plane, by the answer that is due to it.                        *)
LEMMA CargoIs ==
    ASSUME TurnInv, NEW p \in Plane
    PROVE  /\ (\A s : ~Due(p, "UnloadStock", s)) => Cargo(p) = stock[p]
           /\ \A x : (\A s : Due(p, "UnloadStock", s) <=> s = x) => Cargo(p) = x
           /\ Cargo(p) = stock[p] \/ Due(p, "UnloadStock", Cargo(p))
  <1>1. PICK all, cargo : /\ all = UnloadAnswers(p) /\ cargo = stock[p]
    OBVIOUS
  <1>2. \A s : s \in all <=> Due(p, "UnloadStock", s)
    BY <1>1, AnswersAre
  <1>3. Cargo(p) = IF all = {} THEN cargo ELSE CHOOSE s \in all : TRUE
    BY <1>1 DEF Cargo
  <1>4. (\A s : ~Due(p, "UnloadStock", s)) => all = {}
    BY <1>2
  <1>5. \A x : (\A s : Due(p, "UnloadStock", s) <=> s = x) => all = {x}
    BY <1>2
  <1>6. \A x : all = {x} => Cargo(p) = x
    BY <1>3
  <1>7. all # {} => Cargo(p) \in all
    BY <1>3
  <1> QED
    BY <1>1, <1>2, <1>3, <1>4, <1>5, <1>6, <1>7

LEMMA CargoIsNext ==
    ASSUME TurnInv', NEW p \in Plane
    PROVE  /\ (\A s : ~Due(p, "UnloadStock", s)') => Cargo(p)' = stock'[p]
           /\ \A x : (\A s : Due(p, "UnloadStock", s)' <=> s = x) => Cargo(p)' = x
  <1>1. PICK all, cargo : /\ all = UnloadAnswers(p)' /\ cargo = stock'[p]
    OBVIOUS
  <1>2. \A s : s \in all <=> Due(p, "UnloadStock", s)'
    BY <1>1, AnswersAreNext
  <1>3. Cargo(p)' = IF all = {} THEN cargo ELSE CHOOSE s \in all : TRUE
    BY <1>1 DEF Cargo
  <1>4. (\A s : ~Due(p, "UnloadStock", s)') => all = {}
    BY <1>2
  <1>5. \A x : (\A s : Due(p, "UnloadStock", s)' <=> s = x) => all = {x}
    BY <1>2
  <1>6. \A x : all = {x} => Cargo(p)' = x
    BY <1>3
  <1> QED
    BY <1>1, <1>3, <1>4, <1>5, <1>6

LEMMA CargoKept ==
    ASSUME TurnInv, TurnInv', NEW p \in Plane, stock'[p] = stock[p],
           \A s : Due(p, "UnloadStock", s)' <=> Due(p, "UnloadStock", s)
    PROVE  Cargo(p)' = Cargo(p)
  <1>1. PICK all, next : all = UnloadAnswers(p) /\ next = UnloadAnswers(p)'
    OBVIOUS
  <1>2. \A s : s \in next <=> s \in all
    <2>1. \A s : s \in all <=> Due(p, "UnloadStock", s)
      BY <1>1, AnswersAre
    <2>2. \A s : s \in next <=> Due(p, "UnloadStock", s)'
      BY <1>1, AnswersAreNext
    <2> QED
      BY <2>1, <2>2
  <1>3. next = all
    BY <1>2
  <1>4. PICK cargo : cargo = stock[p]
    OBVIOUS
  <1>5. Cargo(p) = IF all = {} THEN cargo ELSE CHOOSE s \in all : TRUE
    BY <1>1, <1>4 DEF Cargo
  <1>6. Cargo(p)' = IF all = {} THEN cargo ELSE CHOOSE s \in all : TRUE
    BY <1>1, <1>3, <1>4 DEF Cargo
  <1> QED
    BY <1>5, <1>6

LEMMA CargoTyped ==
    ASSUME TurnInv, DataOK, NEW p \in Plane
    PROVE  Cargo(p) \in StockList /\ TotalAmount(Cargo(p)) \in Int
  <1>1. ASSUME NEW s, Due(p, "UnloadStock", s)
        PROVE  s \in StockList
    <2>0. AirlineOf[p] \in Airline
      BY PlaceOf
    <2>1. ASSUME NEW m \in AirlineMessage \cup [type : {"None"}], Says(m, p, "UnloadStock", s)
          PROVE  s \in StockList
      BY <2>1, AnswerIs DEF Says, Answers
    <2>2. CASE Says(reply, p, "UnloadStock", s)
      BY <2>1, <2>2 DEF DataOK, ChannelsOK, AirlineMessage
    <2>3. CASE SaidIn(inbox[AirlineOf[p]], p, "UnloadStock", s)
      <3>1. PICK M, b : M = AirlineMessage /\ b = inbox[AirlineOf[p]]
        OBVIOUS
      <3>2. b \in Seq(M)
        BY <2>0, <3>1 DEF DataOK, ChannelsOK
      <3>3. PICK k \in 1 .. Len(b) : Says(b[k], p, "UnloadStock", s)
        BY <2>3, <3>1 DEF SaidIn
      <3>4. b[k] \in M
        BY <3>2, ElementOfSeq
      <3> QED
        BY <2>1, <3>1, <3>3, <3>4
    <2>4. CASE Says(airMsg[AirlineOf[p]], p, "UnloadStock", s)
      BY <2>0, <2>1, <2>4 DEF DataOK, ChannelsOK
    <2>5. CASE queue[p] # <<>> /\ Delivers(InQueue(p), "UnloadStock", s)
      <3>1. PICK M : M = QueueMessage
        OBVIOUS
      <3>2. queue[p] \in Seq(M) /\ queue[p] # <<>>
        BY <2>5, <3>1 DEF DataOK, ChannelsOK
      <3>3. InQueue(p) \in M
        BY <3>2, HeadTailProperties DEF InQueue
      <3> QED
        BY <2>5, <3>1, <3>3, InQueueIs DEF Delivers
    <2> QED
      BY <1>1, <2>2, <2>3, <2>4, <2>5 DEF Due
  <1>2. stock[p] \in StockList
    BY DEF DataOK, GoodsOK
  <1>3. Cargo(p) \in StockList
    BY <1>1, <1>2, CargoIs
  <1> QED
    BY <1>3, TotalIsNat

(* StockConserved, with the sum over the planes as a recursive function.         *)
Conserved == MapTotal(need) - SumOver(Cargos, Plane)
                = MapTotal(CityStock) - SumOver(FirstCargos, Plane)

(* updateMap: what the city gets, the cargo loses.                               *)
LEMMA ConservedAtUnload ==
    ASSUME TurnInv, TurnInv', DataOK, DataOK', Asked, Conserved, MapUnload
    PROVE  Conserved'
  <1> PICK loc : Underway(loc)
    BY DEF TurnInv
  <1>1. PICK p \in Plane, c \in City, plane \in StockList : \E after, next :
           /\ Unloads(c, plane, after, next) /\ need' = next
           /\ reply' = [type |-> "UnloadStock", plane |-> p, stock |-> after.plane]
           /\ mapInbox # <<>> /\ Head(mapInbox).type \in Requests
           /\ Head(mapInbox).plane = p /\ Head(mapInbox).stock = plane
    BY UnloadGoes
  <1>2. PICK after, next :
           /\ Unloads(c, plane, after, next) /\ need' = next
           /\ reply' = [type |-> "UnloadStock", plane |-> p, stock |-> after.plane]
    BY <1>1
  <1>3. PICK m : m = Head(mapInbox)
    OBVIOUS
  <1>4. mapInbox[1] = m /\ 1 \in 1 .. Len(mapInbox)
    BY <1>1, <1>3, Read DEF TurnInv, Shapes
  <1>5. stock' = stock /\ stock[p] = plane
    <2>1. stock[p] = plane
      BY <1>1, <1>3, <1>4 DEF Asked
    <2> QED
      BY <2>1, UnloadTyped
  <1>6. \A s : ~Due(p, "UnloadStock", s)
    <2>1. <<p, m.type>> \in Waiting(loc, "request")
      BY <1>1, <1>3, HeadExpected
    <2>2. loc[p] = "request" /\ "UnloadStock" \in Answers
      BY <2>1 DEF Waiting, Answers
    <2> QED
      BY <2>2, DueMeans
  <1>7. PICK left : left = after.plane
    OBVIOUS
  <1>8. \A q \in Plane : \A s : Due(q, "UnloadStock", s)'
                                   <=> Due(q, "UnloadStock", s) \/ (q = p /\ s = left)
    <2> SUFFICES ASSUME NEW q \in Plane, NEW s
                 PROVE  Due(q, "UnloadStock", s)'
                           <=> Due(q, "UnloadStock", s) \/ (q = p /\ s = left)
      OBVIOUS
    <2>1. Says(reply', q, "UnloadStock", s) <=> q = p /\ s = left
      BY <1>2, <1>7 DEF Says
    <2> QED
      BY <2>1, DueAtAnswer DEF Answers
  <1>9. Cargo(p) = plane
    BY <1>5, <1>6, CargoIs
  <1>10. Cargo(p)' = left
    BY <1>6, <1>8, CargoIsNext
  <1>11. \A q \in Plane : q # p => Cargo(q)' = Cargo(q)
    <2> SUFFICES ASSUME NEW q \in Plane, q # p PROVE Cargo(q)' = Cargo(q)
      OBVIOUS
    <2>1. stock'[q] = stock[q] /\ \A s : Due(q, "UnloadStock", s)' <=> Due(q, "UnloadStock", s)
      BY <1>5, <1>8
    <2> QED
      BY <2>1, CargoKept
  <1>12. PICK f, h : f = Cargos /\ h = Cargos'
    OBVIOUS
  <1>13. f \in [Plane -> Int] /\ f[p] = TotalAmount(plane)
    BY <1>9, <1>12, CargoTyped DEF Cargos
  <1>14. /\ h = [q \in Plane |-> TotalAmount(Cargo(q)')]
         /\ h[p] = TotalAmount(left) /\ \A q \in Plane : q # p => h[q] = f[q]
    BY <1>10, <1>11, <1>12 DEF Cargos
  <1>15. Lowered(left, plane)
    BY <1>2, <1>7, NeedAfter DEF DataOK
  <1>16. TotalAmount(left) \in Int
    BY <1>15, TotalIsNat DEF Lowered
  <1>17. h \in [Plane -> Int]
    BY <1>13, <1>14, <1>16
  <1>18. /\ SumOver(h, Plane) - TotalAmount(left) = SumOver(f, Plane) - TotalAmount(plane)
         /\ SumOver(h, Plane) \in Int /\ SumOver(f, Plane) \in Int
    <2>1. IsFiniteSet(Plane)
      BY FleetFinite
    <2>2. /\ SumOver(h, Plane) - h[p] = SumOver(f, Plane) - f[p]
          /\ SumOver(h, Plane) \in Int /\ SumOver(f, Plane) \in Int
      BY <1>13, <1>14, <1>17, <2>1, SumOverOneOther
    <2> QED
      BY <1>13, <1>14, <2>2
  <1>19. /\ MapTotal(next) - TotalAmount(next[c]) = MapTotal(need) - TotalAmount(need[c])
         /\ MapTotal(next) \in Int /\ MapTotal(need) \in Int
    <2>1. /\ next \in Seq(StockList) /\ Len(next) = Len(need) /\ DOMAIN next = City
          /\ \A k \in City : k # c => next[k] = need[k]
      BY <1>2, NeedAfter DEF DataOK
    <2>2. need \in Seq(StockList) /\ DOMAIN need = City
      BY DEF DataOK, GoodsOK
    <2>3. City = 1 .. Len(need)
      BY <2>2
    <2> QED
      BY <2>1, <2>2, <2>3, MapTotalOfOneOther
  <1>20. /\ TotalAmount(next[c]) - TotalAmount(left) = TotalAmount(need[c]) - TotalAmount(plane)
         /\ TotalAmount(next[c]) \in Int /\ TotalAmount(need[c]) \in Int
         /\ TotalAmount(left) \in Int /\ TotalAmount(plane) \in Int
    <2>1. PICK x, y : x = need[c] /\ y = after.city
      OBVIOUS
    <2>2. x \in StockList /\ x # <<>> /\ after = Discharge(x, plane)
      BY <1>2, <2>1, NeedIs DEF DataOK, Unloads
    <2>3. next[c] = y
      BY <1>2, <2>1, NeedAfter DEF DataOK
    <2>4. TotalAmount(y) - TotalAmount(left) = TotalAmount(x) - TotalAmount(plane)
      BY <1>7, <2>1, <2>2, Discharged
    <2>5. y \in StockList
      BY <2>1, <2>2, Discharged DEF Lowered
    <2> QED
      BY <1>16, <2>1, <2>2, <2>3, <2>4, <2>5, TotalIsNat
  <1>21. PICK now, then, first : now = MapTotal(need) /\ then = MapTotal(next)
                                 /\ first = MapTotal(CityStock) - SumOver(FirstCargos, Plane)
    OBVIOUS
  <1>22. now - SumOver(f, Plane) = first
    BY <1>12, <1>21 DEF Conserved
  <1>23. then - SumOver(h, Plane) = now - SumOver(f, Plane)
    <2>1. PICK a, b, x, y, u, v :
             /\ a = SumOver(h, Plane) /\ b = SumOver(f, Plane)
             /\ x = TotalAmount(next[c]) /\ y = TotalAmount(need[c])
             /\ u = TotalAmount(left) /\ v = TotalAmount(plane)
      OBVIOUS
    <2>2. /\ a \in Int /\ b \in Int /\ x \in Int /\ y \in Int /\ u \in Int /\ v \in Int
          /\ now \in Int /\ then \in Int
          /\ a - u = b - v /\ then - x = now - y /\ x - u = y - v
      BY <1>18, <1>19, <1>20, <1>21, <2>1
    <2>3. then - a = now - b
      BY <2>2
    <2> QED
      BY <2>1, <2>3
  <1>24. then - SumOver(h, Plane) = first
    BY <1>22, <1>23
  <1>25. MapTotal(need') = then /\ SumOver(Cargos, Plane)' = SumOver(h, Plane)
    BY <1>2, <1>12, <1>21 DEF SumOver
  <1> QED
    BY <1>21, <1>24, <1>25 DEF Conserved

(* Every other step takes an answer one hop further, or none.                    *)
LEMMA ConservedElsewhere ==
    ASSUME TurnInv, TurnInv', DataOK, Conserved, UNCHANGED need,
           \A p \in Plane : Cargo(p)' = Cargo(p)
    PROVE  Conserved'
  <1>1. Cargos' = Cargos
    BY DEF Cargos
  <1>2. SumOver(Cargos, Plane)' = SumOver(Cargos, Plane)
    BY <1>1 DEF SumOver
  <1> QED
    BY <1>2 DEF Conserved

LEMMA ConservedPreserved ==
    ASSUME TurnInv, DataOK, Asked, Conserved, [Next]_vars
    PROVE  Conserved'
  <1>0. TurnInv' /\ DataOK' /\ "UnloadStock" \in Answers
    BY TurnPreserved, DataPreserved DEF Answers
  <1>1. CASE MapUnload
    BY <1>0, <1>1, ConservedAtUnload
  <1>2. CASE MapDestinations
    <2>1. UNCHANGED <<need, stock>>
      BY <1>2, DestinationsTyped DEF goods
    <2>2. ASSUME NEW p \in Plane, NEW s
          PROVE  Due(p, "UnloadStock", s)' <=> Due(p, "UnloadStock", s)
      <3>1. Says(reply', p, "UnloadStock", s) => reply' = reply
        BY <1>2, DestinationsTyped DEF Says
      <3>2. Says(reply', p, "UnloadStock", s) => Due(p, "UnloadStock", s)
        BY <3>1 DEF Due
      <3> QED
        BY <1>0, <1>2, <3>2, DueAtAnswer
    <2>3. \A p \in Plane : Cargo(p)' = Cargo(p)
      BY <1>0, <2>1, <2>2, CargoKept
    <2> QED
      BY <1>0, <2>1, <2>3, ConservedElsewhere
  <1>3. CASE (Map \/ Signal \/ UNCHANGED vars) /\ ~MapUnload /\ ~MapDestinations
    <2>1. UNCHANGED <<need, stock>>
      BY <1>3 DEF Map, MapTurn, MapAnnounce, MapCount, MapReply, MapWait, Signal, vars, goods
    <2>2. \A p \in Plane : \A s : Due(p, "UnloadStock", s)' <=> Due(p, "UnloadStock", s)
      BY <1>0, <1>3, DueAtMap
    <2>3. \A p \in Plane : Cargo(p)' = Cargo(p)
      BY <1>0, <2>1, <2>2, CargoKept
    <2> QED
      BY <1>0, <2>1, <2>3, ConservedElsewhere
  <1>4. ASSUME NEW a \in Airline, AirlineMain(a)
        PROVE  Conserved'
    <2>1. UNCHANGED <<need, stock>>
      BY <1>4, AirData
    <2>2. \A p \in Plane : \A s : Due(p, "UnloadStock", s)' <=> Due(p, "UnloadStock", s)
      BY <1>0, <1>4, DueAtAirline
    <2>3. \A p \in Plane : Cargo(p)' = Cargo(p)
      BY <1>0, <2>1, <2>2, CargoKept
    <2> QED
      BY <1>0, <2>1, <2>3, ConservedElsewhere
  <1>5. ASSUME NEW q \in Plane, PlaneThread(q)
        PROVE  Conserved'
    <2>1. UNCHANGED need
      BY <1>5, PlaneData
    <2>2. ASSUME NEW p \in Plane
          PROVE  Cargo(p)' = Cargo(p)
      <3>1. CASE p = q /\ PlaneUnloaded(q)
        <4>1. PICK s : s = InQueue(p).stock
          OBVIOUS
        <4>2. stock' = [stock EXCEPT ![p] = s] /\ stock \in [Plane -> StockList]
          BY <3>1, <4>1, StockTaken DEF DataOK, GoodsOK
        <4>3. stock'[p] = s
          BY <4>2
        <4>4. \A x : ~Due(p, "UnloadStock", x)' /\ (Due(p, "UnloadStock", x) <=> x = s)
          BY <1>0, <1>5, <3>1, <4>1, DueAtPlane
        <4>5. Cargo(p) = s
          BY <4>4, CargoIs
        <4>6. Cargo(p)' = s
          BY <1>0, <4>3, <4>4, CargoIsNext
        <4> QED
          BY <4>5, <4>6
      <3>2. CASE p # q \/ ~PlaneUnloaded(q)
        <4>1. ~PlaneUnloaded(p) \/ p # q
          BY <3>2
        <4>2. \A s : Due(p, "UnloadStock", s)' <=> Due(p, "UnloadStock", s)
          <5> SUFFICES ASSUME NEW s
                       PROVE  Due(p, "UnloadStock", s)' <=> Due(p, "UnloadStock", s)
            OBVIOUS
          <5> QED
            BY <1>0, <1>5, <3>2, DueAtPlane
        <4>3. stock'[p] = stock[p]
          <5>1. CASE p = q
            BY <3>2, <5>1, GoodsMove
          <5>2. CASE p # q
            <6>1. stock' = stock \/ \E s : stock' = [stock EXCEPT ![q] = s]
              BY <1>5 DEF PlaneThread, PlanePeek, PlaneStep, PlaneRequest, PlaneUnloaded,
                          PlaneContinue, PlaneDestination, PlaneCount, PlaneReport,
                          PlaneUnlock, goods
            <6>2. stock \in [Plane -> StockList]
              BY DEF DataOK, GoodsOK
            <6> QED
              BY <5>2, <6>1, <6>2
          <5> QED
            BY <5>1, <5>2
        <4> QED
          BY <1>0, <4>2, <4>3, CargoKept
      <3> QED
        BY <3>1, <3>2
    <2> QED
      BY <1>0, <2>1, <2>2, ConservedElsewhere
  <1> QED
    BY <1>1, <1>2, <1>3, <1>4, <1>5 DEF Next, Terminated

LEMMA InitConserved == Init => Conserved
  <1> SUFFICES ASSUME Init PROVE Conserved
    OBVIOUS
  <1>1. TurnInv
    BY InitTurn
  <1>2. ASSUME NEW p \in Plane
        PROVE  Cargo(p) = PlaneStock[p]
    <2>1. ASSUME NEW s PROVE ~Due(p, "UnloadStock", s)
      <3>1. /\ reply.type = "None" /\ queue[p] = <<>>
            /\ inbox[AirlineOf[p]] = <<>> /\ airPc[AirlineOf[p]] = "listen"
        BY PlaceOf DEF Init, Plain
      <3>2. ~SaidIn(<<>>, p, "UnloadStock", s)
        BY DEF SaidIn
      <3> QED
        BY <3>1, <3>2 DEF Due, Says
    <2>2. stock[p] = PlaneStock[p]
      BY DEF Init
    <2> QED
      BY <1>1, <2>1, <2>2, CargoIs
  <1>3. Cargos = FirstCargos
    BY <1>2 DEF Cargos, FirstCargos
  <1> QED
    BY <1>3 DEF Conserved, Init

(* What the cities have got is what the planes have given, for any cargo, any    *)
(* needs and any schedule: updateMap moves amounts from one to the other, and    *)
(* the answer that tells the plane reaches it once and unchanged (map.c:189-223, *)
(* airline.c:131-142, plane.c:89-99).                                            *)
THEOREM NothingIsLost == Spec => []StockConserved
  <1>1. Conserved => StockConserved
    BY CargoSum, FirstCargoSum DEF Conserved, StockConserved
  <1>2. UseInv => Asked
    BY DEF UseInv
  <1> QED
    BY <1>1, <1>2, InitTurn, TurnPreserved, InitData, DataPreserved, InitUse, UsePreserved,
       InitConserved, ConservedPreserved, PTL DEF Spec
=============================================================================
