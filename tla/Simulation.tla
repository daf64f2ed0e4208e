----------------------------- MODULE Simulation -----------------------------
(* The simulation at work: the map thread of the parent process (app/map.c), the *)
(* main thread of every airline process (app/airline.c) and one thread per plane *)
(* in it (app/plane.c), with the messages of communication/ between them.        *)
(*                                                                               *)
(*   map -> airline   inbox[a], a one-way IPC channel                            *)
(*   airline, plane -> map   mapInbox, one IPC channel all of them write to      *)
(*   airline main thread -> plane   queue[p], a MessageQueue                     *)
(*                                                                               *)
(* The grain is one step per channel operation and per stretch of code under     *)
(* planesLeftLock.  A write to a full channel and a read from an empty one       *)
(* block.  Channels neither lose nor reorder (MsgQueue says so of the queues).   *)
EXTENDS Delivery

CONSTANTS NumAirlines, NumPlanes,
          AirlineOf,        \* the airline of each plane
          CityStock,        \* city->stock of each city, as configured
          PlaneStock,       \* plane->stocks of each plane, as configured
          StartCity,        \* plane->cityId of each plane, as configured
          Distance,         \* map->matrix
          MaxDestinations,  \* MAX_DESTINATIONS
          MaxTurns,         \* the 70000 of endSimulation
          IpcCapacity,      \* the messages an IPC channel holds
          QueueCapacity     \* the messages a MessageQueue holds, QUEUE_SIZE - 1

Airline  == 1 .. NumAirlines
Plane    == 1 .. NumPlanes
Fleet(a) == {p \in Plane : AirlineOf[p] = a}

ASSUME SizeAssumption == /\ NumAirlines \in Nat \ {0} /\ NumPlanes \in Nat
                         /\ AirlineOf \in [Plane -> Airline]
                         /\ IpcCapacity \in Nat \ {0} /\ QueueCapacity \in Nat \ {0}

StockList == Seq([product : Nat, amount : Nat])
City      == DOMAIN CityStock

(* The world the configuration files describe: every city lists a product        *)
(* (Delivery says what happens otherwise), every plane starts at a city, and     *)
(* the table of destinations has room (MAX_DESTINATIONS is 10, global.h:4).      *)
ASSUME ConfigurationAssumption ==
    /\ CityStock \in Seq(StockList) /\ \A c \in City : CityStock[c] # <<>>
    /\ PlaneStock \in [Plane -> StockList] /\ StartCity \in [Plane -> City]
    /\ Distance \in [City -> [City -> Nat]]
    /\ MaxDestinations \in Nat \ {0} /\ MaxTurns \in Nat

VARIABLES
    need, stock, cityOf, distance,  \* amounts at the cities; cargo, city, distance of planes
    mapPc, turn, i, reply,          \* runMap: where it is, its counters, the answer it sends
    mapInbox, inbox, queue,         \* the channels
    airPc, airMsg, visit,           \* an airline's main thread: where it is, the message in
                                    \* hand, the planes its broadcast has still to look at
    stage, planesLeft, locked,      \* statics of airline.c: stage, planesLeftInStage and
                                    \* whether planesLeftLock is held
    planePc, done,                  \* a plane's thread, and its done flag
    doExit                          \* main.c

goods    == <<need, stock, cityOf, distance>>
mapVars  == <<mapPc, turn, i, reply>>
channels == <<mapInbox, inbox, queue>>
airVars  == <<airPc, airMsg, visit, stage>>
barrier  == <<planesLeft, locked>>
planes   == <<planePc, done>>
vars     == <<goods, mapVars, channels, airVars, barrier, planes, doExit>>

Plain(type) == [type |-> type]

Init == /\ need = CityStock
        /\ stock = PlaneStock
        /\ cityOf = StartCity
        /\ distance = [p \in Plane |-> 0]
        /\ mapPc = "turn" /\ turn = 0 /\ i = 0 /\ reply = Plain("None")
        /\ mapInbox = <<>>
        /\ inbox = [a \in Airline |-> <<>>]
        /\ queue = [p \in Plane |-> <<>>]
        /\ airPc = [a \in Airline |-> "listen"]
        /\ airMsg = [a \in Airline |-> Plain("None")]
        /\ visit = [a \in Airline |-> {}]
        /\ stage = [a \in Airline |-> 0]
        /\ planesLeft = [a \in Airline |-> 0]
        /\ locked = [a \in Airline |-> FALSE]
        /\ planePc = [p \in Plane |-> "step"]
        /\ done = [p \in Plane |-> FALSE]
        /\ doExit = FALSE

-----------------------------------------------------------------------------
(* Channel operations. *)

(* transmit, ipc_write to the map's channel *)
WriteToMap(m) == /\ Len(mapInbox) < IpcCapacity
                 /\ mapInbox' = Append(mapInbox, m)

WriteToAirline(a, m) == /\ Len(inbox[a]) < IpcCapacity
                        /\ inbox' = [inbox EXCEPT ![a] = Append(@, m)]

(* message_queue_push *)
Enqueue(p, m) == /\ Len(queue[p]) < QueueCapacity
                 /\ queue' = [queue EXCEPT ![p] = Append(@, m)]

(* message_queue_pop *)
Dequeue(p) == /\ queue[p] # <<>>
              /\ queue' = [queue EXCEPT ![p] = Tail(@)]

-----------------------------------------------------------------------------
(* The map thread (runMap) and the main thread of its process after it. *)

(* Mutant of MapTurn: the turns are not counted.                                 *)
MapTurnUncounted ==
    /\ mapPc = "turn"
    /\ i' = 0
    /\ mapPc' = IF ~doExit /\ ~EndSimulation(need, turn, MaxTurns) THEN "step" ELSE "over"
    /\ UNCHANGED <<goods, turn, reply, channels, airVars, barrier, planes, doExit>>

(* The head of the turn loop. *)
MapTurn == /\ mapPc = "turn"
           /\ i' = 0
           /\ IF ~doExit /\ ~EndSimulation(need, turn, MaxTurns)
              THEN mapPc' = "step" /\ turn' = turn + 1
              ELSE mapPc' = "over" /\ UNCHANGED turn
           /\ UNCHANGED <<goods, reply, channels, airVars, barrier, planes, doExit>>

(* comm_turn_step, comm_turn_continue and comm_end: one write per airline. *)
Announced == [step |-> "Step", continue |-> "Continue", over |-> "End"]
AfterAnnouncing == [step |-> "phase1", continue |-> "phase2", over |-> "wait"]

MapAnnounce == /\ mapPc \in DOMAIN Announced
               /\ WriteToAirline(i + 1, Plain(Announced[mapPc]))
               /\ IF i + 1 = NumAirlines
                  THEN i' = 0 /\ mapPc' = AfterAnnouncing[mapPc]
                  ELSE i' = i + 1 /\ UNCHANGED mapPc
               /\ UNCHANGED <<goods, turn, reply, mapInbox, queue, airVars, barrier,
                              planes, doExit>>

(* The message one phase loop counts, and where the loop leads to. *)
Counted == [phase1 |-> "AirlineDone", phase2 |-> "AirlineStatus"]
AfterPhase == [phase1 |-> "continue", phase2 |-> "turn"]

(* Mutant of MapCount: the loop ends one airline early.                          *)
MapCountEarly ==
    /\ mapPc \in DOMAIN Counted
    /\ mapInbox # <<>> /\ Head(mapInbox).type = Counted[mapPc]
    /\ mapInbox' = Tail(mapInbox)
    /\ IF i + 2 >= NumAirlines
       THEN i' = 0 /\ mapPc' = AfterPhase[mapPc]
       ELSE i' = i + 1 /\ UNCHANGED mapPc
    /\ UNCHANGED <<goods, turn, reply, inbox, queue, airVars, barrier, planes, doExit>>

MapCount == /\ mapPc \in DOMAIN Counted
            /\ mapInbox # <<>> /\ Head(mapInbox).type = Counted[mapPc]
            /\ mapInbox' = Tail(mapInbox)
            /\ IF i + 1 = NumAirlines
               THEN i' = 0 /\ mapPc' = AfterPhase[mapPc]
               ELSE i' = i + 1 /\ UNCHANGED mapPc
            /\ UNCHANGED <<goods, turn, reply, inbox, queue, airVars, barrier, planes,
                           doExit>>

(* A message the phase loop does not expect: an {ERR} line in the log, and the   *)
(* message is dropped.                                                           *)
Requested == [phase1 |-> "UnloadStock", phase2 |-> "CheckDestinations"]
Unexpected(pc, m) == m.type \notin {Counted[pc], Requested[pc]}

(* UnloadStock in phase 1: initPlane, updateMap, and the answer to send.  In     *)
(* phase 1 every other message but AirlineDone is dropped.                       *)
MapUnload == /\ mapPc = "phase1"
             /\ mapInbox # <<>> /\ Head(mapInbox).type # Counted.phase1
             /\ mapInbox' = Tail(mapInbox)
             /\ LET m == Head(mapInbox)
                IN  IF Unexpected("phase1", m) THEN UNCHANGED <<mapPc, reply, need>>
                    ELSE LET after == Discharge(need[m.city], m.stock)
                         IN  /\ need' = [need EXCEPT ![m.city] = after.city]
                             /\ reply' = [type |-> "UnloadStock", plane |-> m.plane,
                                          stock |-> after.plane]
                             /\ mapPc' = "reply1"
             /\ UNCHANGED <<stock, cityOf, distance, turn, i, inbox, queue, airVars,
                            barrier, planes, doExit>>

(* CheckDestinations in phase 2: app_give_destinations.  The answer carries the  *)
(* destination that comes first, the only one a plane looks at (plane.c:56), or  *)
(* none.                                                                         *)
MapDestinations ==
    /\ mapPc = "phase2"
    /\ mapInbox # <<>> /\ Head(mapInbox).type # Counted.phase2
    /\ mapInbox' = Tail(mapInbox)
    /\ LET m == Head(mapInbox)
       IN  IF Unexpected("phase2", m) THEN UNCHANGED <<mapPc, reply>>
           ELSE LET table == Candidates(need, Distance[m.city], m.stock, MaxDestinations)
                IN  /\ mapPc' = "reply2"
                    /\ \E offer \in IF table = <<>> THEN {<<>>}
                                    ELSE {<<d>> : d \in Nearest(table)} :
                          reply' = [type |-> "Destinations", plane |-> m.plane,
                                    offer |-> offer]
    /\ UNCHANGED <<goods, turn, i, inbox, queue, airVars, barrier, planes, doExit>>

(* comm_unloaded_stock, comm_give_destinations *)
AfterReply == [reply1 |-> "phase1", reply2 |-> "phase2"]

MapReply == /\ mapPc \in DOMAIN AfterReply
            /\ WriteToAirline(AirlineOf[reply.plane], reply)
            /\ mapPc' = AfterReply[mapPc]
            /\ reply' = Plain("None")
            /\ UNCHANGED <<goods, turn, i, mapInbox, queue, airVars, barrier, planes,
                           doExit>>

(* main waits for its children. *)
MapWait == /\ mapPc = "wait"
           /\ \A a \in Airline : airPc[a] = "exited"
           /\ mapPc' = "exited"
           /\ UNCHANGED <<goods, turn, i, reply, channels, airVars, barrier, planes, doExit>>

(* handle_signal *)
Signal == /\ ~doExit /\ mapPc # "exited"
          /\ doExit' = TRUE
          /\ UNCHANGED <<goods, mapVars, channels, airVars, barrier, planes>>

Map == \/ MapTurn \/ MapAnnounce \/ MapCount \/ MapUnload
       \/ MapDestinations \/ MapReply \/ MapWait

-----------------------------------------------------------------------------
(* The main thread of an airline (listen). *)

InHand(a) == Head(inbox[a])

AirRead(a) == /\ airPc[a] = "listen"
              /\ inbox[a] # <<>>
              /\ inbox' = [inbox EXCEPT ![a] = Tail(@)]
              /\ airMsg' = [airMsg EXCEPT ![a] = InHand(a)]

(* Mutant of StageOf: Continue does not change the stage.                        *)
StageStuck == [Step |-> 0, Continue |-> 0]

(* Step and Continue set `stage', before start_phase takes the lock. *)
StageOf == [Step |-> 0, Continue |-> 1]

AirReadPhase(a) == /\ AirRead(a)
                   /\ InHand(a).type \in DOMAIN StageOf
                   /\ stage' = [stage EXCEPT ![a] = StageOf[InHand(a).type]]
                   /\ airPc' = [airPc EXCEPT ![a] = "start"]
                   /\ UNCHANGED <<goods, mapVars, mapInbox, queue, visit, barrier, planes,
                                  doExit>>

AirReadReply(a) == /\ AirRead(a)
                   /\ InHand(a).type \in {"UnloadStock", "Destinations"}
                   /\ airPc' = [airPc EXCEPT ![a] = "forward"]
                   /\ UNCHANGED <<goods, mapVars, mapInbox, queue, visit, stage, barrier,
                                  planes, doExit>>

(* Any other message leaves listen, and run_airline broadcasts an End of its own. *)
AirReadEnd(a) == /\ AirRead(a)
                 /\ InHand(a).type \notin DOMAIN StageOf \cup {"UnloadStock", "Destinations"}
                 /\ visit' = [visit EXCEPT ![a] = Fleet(a)]
                 /\ airPc' = [airPc EXCEPT ![a] = "broadcast"]
                 /\ UNCHANGED <<goods, mapVars, mapInbox, queue, stage, barrier, planes,
                                doExit>>

(* redirect_stock_message, redirect_destinations_message *)
Redirected(m) == IF m.type = "UnloadStock" THEN [type |-> "Stock", stock |-> m.stock]
                                           ELSE [type |-> "Destinations", offer |-> m.offer]

AirForward(a) == /\ airPc[a] = "forward"
                 /\ Enqueue(airMsg[a].plane, Redirected(airMsg[a]))
                 /\ airPc' = [airPc EXCEPT ![a] = "listen"]
                 /\ UNCHANGED <<goods, mapVars, mapInbox, inbox, airMsg, visit, stage,
                                barrier, planes, doExit>>

(* start_phase: under the lock, count the planes still in the game and tell each *)
(* of them, or, when there is none left, report at once.                         *)
InGame(a) == {p \in Fleet(a) : ~done[p]}

(* Mutant of AirStart: the planes that are done are counted too.                 *)
AirStartCountsAll(a) ==
    /\ airPc[a] = "start" /\ ~locked[a]
    /\ locked' = [locked EXCEPT ![a] = TRUE]
    /\ planesLeft' = [planesLeft EXCEPT ![a] = Cardinality(Fleet(a))]
    /\ visit' = [visit EXCEPT ![a] = Fleet(a)]
    /\ airPc' = [airPc EXCEPT ![a] = IF Fleet(a) = {} THEN "ready" ELSE "broadcast"]
    /\ UNCHANGED <<goods, mapVars, channels, airMsg, stage, planes, doExit>>

(* Mutant of AirStart: the loop that counts starts at the second plane.          *)
AirStartSkipsFirst(a) ==
    /\ airPc[a] = "start" /\ ~locked[a]
    /\ locked' = [locked EXCEPT ![a] = TRUE]
    /\ LET counted == {p \in InGame(a) : p # Min(Fleet(a))}
       IN  /\ planesLeft' = [planesLeft EXCEPT ![a] = Cardinality(counted)]
           /\ airPc' = [airPc EXCEPT ![a] = IF counted = {} THEN "ready" ELSE "broadcast"]
    /\ visit' = [visit EXCEPT ![a] = Fleet(a)]
    /\ UNCHANGED <<goods, mapVars, channels, airMsg, stage, planes, doExit>>

AirStart(a) == /\ airPc[a] = "start"
               /\ ~locked[a]
               /\ locked' = [locked EXCEPT ![a] = TRUE]
               /\ planesLeft' = [planesLeft EXCEPT ![a] = Cardinality(InGame(a))]
               /\ visit' = [visit EXCEPT ![a] = Fleet(a)]
               /\ airPc' = [airPc EXCEPT ![a] = IF InGame(a) = {} THEN "ready"
                                                                  ELSE "broadcast"]
               /\ UNCHANGED <<goods, mapVars, channels, airMsg, stage, planes, doExit>>

(* Mutant of AirBroadcast: planes that are done are told too.                    *)
AirBroadcastAll(a) ==
    /\ airPc[a] = "broadcast"
    /\ visit[a] # {}
    /\ visit' = [visit EXCEPT ![a] = @ \ {Min(visit[a])}]
    /\ Enqueue(Min(visit[a]), Plain(airMsg[a].type))
    /\ UNCHANGED <<goods, mapVars, mapInbox, inbox, airPc, airMsg, stage, barrier,
                   planes, doExit>>

(* broadcast: one plane after the other, in the order of their ids; the flag of  *)
(* a plane is read when its turn comes.                                          *)
AirBroadcast(a) ==
    /\ airPc[a] = "broadcast"
    /\ visit[a] # {}
    /\ LET p == Min(visit[a])
       IN  /\ visit' = [visit EXCEPT ![a] = @ \ {p}]
           /\ IF done[p] THEN UNCHANGED queue ELSE Enqueue(p, Plain(airMsg[a].type))
    /\ UNCHANGED <<goods, mapVars, mapInbox, inbox, airPc, airMsg, stage, barrier,
                   planes, doExit>>

(* The end of a broadcast: start_phase unlocks, run_airline goes on to join. *)
AirBroadcastDone(a) ==
    /\ airPc[a] = "broadcast"
    /\ visit[a] = {}
    /\ IF airMsg[a].type \in DOMAIN StageOf
       THEN /\ airPc' = [airPc EXCEPT ![a] = "listen"]
            /\ locked' = [locked EXCEPT ![a] = FALSE]
       ELSE /\ airPc' = [airPc EXCEPT ![a] = "join"]
            /\ UNCHANGED locked
    /\ UNCHANGED <<goods, mapVars, channels, airMsg, visit, stage, planesLeft, planes,
                   doExit>>

(* Mutant of Report: every plane counts as flying.                               *)
ReportTotal(a) == IF stage[a] = 1
                  THEN [type |-> "AirlineStatus", airline |-> a,
                        flying |-> Cardinality(Fleet(a))]
                  ELSE Plain("AirlineDone")

(* send_ready_message: the report of the fleet for the stage it is in. *)
Report(a) == IF stage[a] = 1
             THEN [type |-> "AirlineStatus", airline |-> a, flying |-> Cardinality(InGame(a))]
             ELSE Plain("AirlineDone")

(* The rest of start_phase for a fleet that has no plane left in the game: it    *)
(* reports, and unlocks only after that.                                         *)
AirReady(a) == /\ airPc[a] = "ready"
               /\ WriteToMap(Report(a))
               /\ airPc' = [airPc EXCEPT ![a] = "unlock"]
               /\ UNCHANGED <<goods, mapVars, inbox, queue, airMsg, visit, stage, barrier,
                              planes, doExit>>

AirUnlock(a) == /\ airPc[a] = "unlock"
                /\ locked' = [locked EXCEPT ![a] = FALSE]
                /\ airPc' = [airPc EXCEPT ![a] = "listen"]
                /\ UNCHANGED <<goods, mapVars, channels, airMsg, visit, stage, planesLeft,
                               planes, doExit>>

(* Mutant of AirJoin: the threads are not joined.                                *)
AirJoinNobody(a) == /\ airPc[a] = "join"
                    /\ airPc' = [airPc EXCEPT ![a] = "exited"]
                    /\ UNCHANGED <<goods, mapVars, channels, airMsg, visit, stage, barrier,
                                   planes, doExit>>

AirJoin(a) == /\ airPc[a] = "join"
              /\ \A p \in Fleet(a) : planePc[p] = "exited"
              /\ airPc' = [airPc EXCEPT ![a] = "exited"]
              /\ UNCHANGED <<goods, mapVars, channels, airMsg, visit, stage, barrier,
                             planes, doExit>>

AirlineMain(a) == \/ AirReadPhase(a) \/ AirReadReply(a) \/ AirReadEnd(a) \/ AirForward(a)
                  \/ AirStart(a) \/ AirBroadcast(a) \/ AirBroadcastDone(a)
                  \/ AirReady(a) \/ AirUnlock(a) \/ AirJoin(a)

-----------------------------------------------------------------------------
(* A plane's thread (run_plane).                                                 *)
(*   step -> [unload -> sendUnload -> awaitStock ->]                             *)
(*   ready1 -> count1 -> [report1 -> unlock1 ->]                                 *)
(*   cont -> awaitContinue -> [check -> sendCheck -> awaitDest ->]               *)
(*   ready2 -> count2 -> [report2 -> unlock2 ->] step                            *)

Goto(p, pc) == planePc' = [planePc EXCEPT ![p] = pc]
InQueue(p) == Head(queue[p])

(* SafeAction: an End at the head of the queue ends the thread there and then.   *)
(* unload_stock peeks twice with nothing in between, here once.                  *)
AfterPeek == [unload |-> "sendUnload", ready1 |-> "count1", cont |-> "awaitContinue",
              check |-> "sendCheck", ready2 |-> "count2"]

PlanePeek(p) ==
    /\ planePc[p] \in DOMAIN AfterPeek
    /\ Goto(p, IF queue[p] # <<>> /\ InQueue(p).type = "End" THEN "exited"
               ELSE AfterPeek[planePc[p]])
    /\ UNCHANGED <<goods, mapVars, channels, airVars, barrier, done, doExit>>

(* comm_step, in the condition of the loop of run_plane. *)
PlaneStep(p) ==
    /\ planePc[p] = "step"
    /\ Dequeue(p)
    /\ IF InQueue(p).type = "Step"
       THEN /\ Goto(p, IF distance[p] = 0 THEN "unload" ELSE "ready1")
            /\ UNCHANGED done
       ELSE /\ Goto(p, "exited")
            /\ done' = [done EXCEPT ![p] = TRUE]
    /\ UNCHANGED <<goods, mapVars, mapInbox, inbox, airVars, barrier, doExit>>

(* The requests of a plane: comm_unload_stock and comm_check_destinations. *)
RequestOf == [sendUnload |-> "UnloadStock", sendCheck |-> "CheckDestinations"]
AfterRequest == [sendUnload |-> "awaitStock", sendCheck |-> "awaitDest"]

PlaneRequest(p) ==
    /\ planePc[p] \in DOMAIN RequestOf
    /\ WriteToMap([type |-> RequestOf[planePc[p]], plane |-> p, city |-> cityOf[p],
                   stock |-> stock[p]])
    /\ Goto(p, AfterRequest[planePc[p]])
    /\ UNCHANGED <<goods, mapVars, inbox, queue, airVars, barrier, done, doExit>>

(* A thread that pops something else than it waits for logs an {ERR} line and    *)
(* ends without reporting (CHECK_EXIT).                                          *)

(* The rest of unload_stock: the amounts come back; none left, the plane is done.*)
PlaneUnloaded(p) ==
    /\ planePc[p] = "awaitStock"
    /\ Dequeue(p)
    /\ IF InQueue(p).type = "Stock"
       THEN /\ stock' = [stock EXCEPT ![p] = InQueue(p).stock]
            /\ done' = [done EXCEPT ![p] = @ \/ Satisfied(InQueue(p).stock)]
            /\ Goto(p, "ready1")
       ELSE /\ Goto(p, "exited")
            /\ UNCHANGED <<stock, done>>
    /\ UNCHANGED <<need, cityOf, distance, mapVars, mapInbox, inbox, airVars, barrier,
                   doExit>>

(* comm_continue; a plane in the air gets one unit closer. *)
PlaneContinue(p) ==
    /\ planePc[p] = "awaitContinue"
    /\ Dequeue(p)
    /\ IF InQueue(p).type # "Continue" THEN Goto(p, "exited") /\ UNCHANGED distance
       ELSE IF distance[p] = 0 THEN Goto(p, "check") /\ UNCHANGED distance
       ELSE Goto(p, "ready2") /\ distance' = [distance EXCEPT ![p] = @ - 1]
    /\ UNCHANGED <<need, stock, cityOf, mapVars, mapInbox, inbox, airVars, barrier,
                   done, doExit>>

(* The rest of comm_check_destinations and what run_plane makes of the answer. *)
PlaneDestination(p) ==
    /\ planePc[p] = "awaitDest"
    /\ Dequeue(p)
    /\ LET m == InQueue(p)
       IN  IF m.type # "Destinations"
           THEN Goto(p, "exited") /\ UNCHANGED <<done, cityOf, distance>>
           ELSE /\ Goto(p, "ready2")
                /\ IF m.offer = <<>>
                   THEN /\ done' = [done EXCEPT ![p] = TRUE]
                        /\ UNCHANGED <<cityOf, distance>>
                   ELSE /\ cityOf' = [cityOf EXCEPT ![p] = m.offer[1].city]
                        /\ distance' = [distance EXCEPT ![p] = m.offer[1].distance]
                        /\ UNCHANGED done
    /\ UNCHANGED <<need, stock, mapVars, mapInbox, inbox, airVars, barrier, doExit>>

(* app_airline_plane_ready: the last plane of the fleet reports while it holds   *)
(* the lock, which it gives back after the write.                                *)
ReportAt == [count1 |-> "report1", count2 |-> "report2"]
AfterReport == [report1 |-> "unlock1", report2 |-> "unlock2"]

(* Where run_plane goes on after the call that was made at pc. *)
AfterReady(p, pc) == IF done[p] THEN "exited"
                     ELSE IF pc \in {"count1", "unlock1"} THEN "cont" ELSE "step"

(* Mutant of PlaneCount: the counter is changed without the lock.                *)
PlaneCountUnlocked(p) ==
    LET a == AirlineOf[p] IN
    /\ planePc[p] \in DOMAIN ReportAt
    /\ planesLeft' = [planesLeft EXCEPT ![a] = @ - 1]
    /\ IF planesLeft[a] = 1
       THEN /\ locked' = [locked EXCEPT ![a] = TRUE]
            /\ Goto(p, ReportAt[planePc[p]])
       ELSE /\ UNCHANGED locked
            /\ Goto(p, AfterReady(p, planePc[p]))
    /\ UNCHANGED <<goods, mapVars, channels, airVars, done, doExit>>

PlaneCount(p) ==
    LET a == AirlineOf[p] IN
    /\ planePc[p] \in DOMAIN ReportAt
    /\ ~locked[a]
    /\ planesLeft' = [planesLeft EXCEPT ![a] = @ - 1]
    /\ IF planesLeft[a] = 1
       THEN /\ locked' = [locked EXCEPT ![a] = TRUE]
            /\ Goto(p, ReportAt[planePc[p]])
       ELSE /\ UNCHANGED locked
            /\ Goto(p, AfterReady(p, planePc[p]))
    /\ UNCHANGED <<goods, mapVars, channels, airVars, done, doExit>>

PlaneReport(p) ==
    /\ planePc[p] \in DOMAIN AfterReport
    /\ WriteToMap(Report(AirlineOf[p]))
    /\ Goto(p, AfterReport[planePc[p]])
    /\ UNCHANGED <<goods, mapVars, inbox, queue, airVars, barrier, done, doExit>>

PlaneUnlock(p) ==
    /\ planePc[p] \in {"unlock1", "unlock2"}
    /\ locked' = [locked EXCEPT ![AirlineOf[p]] = FALSE]
    /\ Goto(p, AfterReady(p, planePc[p]))
    /\ UNCHANGED <<goods, mapVars, channels, airVars, planesLeft, done, doExit>>

PlaneThread(p) == \/ PlanePeek(p) \/ PlaneStep(p) \/ PlaneRequest(p) \/ PlaneUnloaded(p)
                  \/ PlaneContinue(p) \/ PlaneDestination(p) \/ PlaneCount(p)
                  \/ PlaneReport(p) \/ PlaneUnlock(p)

-----------------------------------------------------------------------------
(* The program has ended; keeps a finished run from being taken for a deadlock. *)
Terminated == mapPc = "exited" /\ UNCHANGED vars

Next == \/ Map
        \/ \E a \in Airline : AirlineMain(a)
        \/ \E p \in Plane : PlaneThread(p)
        \/ Signal
        \/ Terminated

Spec == Init /\ [][Next]_vars

(* Every thread that can run does (the scheduler of the operating system).  No   *)
(* signal need ever come.                                                        *)
FairSpec == /\ Spec
            /\ WF_vars(Map)
            /\ \A a \in Airline : WF_vars(AirlineMain(a))
            /\ \A p \in Plane : WF_vars(PlaneThread(p))

-----------------------------------------------------------------------------
(* Types. *)

MapMessage == [type : {"AirlineDone"}]
         \cup [type : {"AirlineStatus"}, airline : Airline, flying : Nat]
         \cup [type : {"UnloadStock", "CheckDestinations"}, plane : Plane, city : City,
               stock : StockList]

Answer == [type : {"UnloadStock"}, plane : Plane, stock : StockList]
     \cup [type : {"Destinations"}, plane : Plane,
           offer : Seq([city : City, distance : Nat, score : Nat])]

AirlineMessage == [type : {"Step", "Continue", "End"}] \cup Answer

QueueMessage == [type : {"Step", "Continue", "End"}]
           \cup [type : {"Stock"}, stock : StockList]
           \cup [type : {"Destinations"},
                 offer : Seq([city : City, distance : Nat, score : Nat])]

MapPc == DOMAIN Announced \cup DOMAIN Counted \cup DOMAIN AfterReply
            \cup {"turn", "wait", "exited"}
AirPc == {"listen", "start", "broadcast", "ready", "unlock", "forward", "join", "exited"}
PlanePc == DOMAIN AfterPeek \cup DOMAIN RequestOf \cup DOMAIN ReportAt
              \cup DOMAIN AfterReport
              \cup {"step", "awaitStock", "awaitContinue", "awaitDest",
                    "unlock1", "unlock2", "exited"}

GoodsOK == /\ need \in Seq(StockList) /\ DOMAIN need = City
           /\ stock \in [Plane -> StockList]
           /\ cityOf \in [Plane -> City]
           /\ distance \in [Plane -> Nat]

ControlOK == /\ mapPc \in MapPc /\ turn \in Nat /\ i \in 0 .. NumAirlines - 1
             /\ airPc \in [Airline -> AirPc]
             /\ visit \in [Airline -> SUBSET Plane]
             /\ stage \in [Airline -> {0, 1}]
             /\ planesLeft \in [Airline -> Int]
             /\ locked \in [Airline -> BOOLEAN]
             /\ planePc \in [Plane -> PlanePc]
             /\ done \in [Plane -> BOOLEAN]
             /\ doExit \in BOOLEAN

ChannelsOK == /\ mapInbox \in Seq(MapMessage) /\ Len(mapInbox) <= IpcCapacity
              /\ inbox \in [Airline -> Seq(AirlineMessage)]
              /\ queue \in [Plane -> Seq(QueueMessage)]
              /\ reply \in Answer \cup [type : {"None"}]
              /\ airMsg \in [Airline -> AirlineMessage \cup [type : {"None"}]]

TypeOK == GoodsOK /\ ControlOK /\ ChannelsOK

-----------------------------------------------------------------------------
(* Safety. *)

Unloading == {"unload", "sendUnload", "awaitStock", "ready1", "count1"}
Moving    == {"check", "sendCheck", "awaitDest", "ready2", "count2"}

(* Nobody ever receives a message it has no use for: the map in either phase     *)
(* loop (map.c:86-87, 111-112), a plane that waits for one (plane.c:7).  Those   *)
(* are the {ERR} lines test.sh:26-30 looks for.                                  *)
AwaitedBy == [step |-> {"Step", "End"}, awaitStock |-> {"Stock"},
              awaitContinue |-> {"Continue"}, awaitDest |-> {"Destinations"}]

NoErrorLine ==
    /\ mapPc \in DOMAIN Counted /\ mapInbox # <<>> => ~Unexpected(mapPc, Head(mapInbox))
    /\ \A p \in Plane : planePc[p] \in DOMAIN AwaitedBy /\ queue[p] # <<>>
                            => InQueue(p).type \in AwaitedBy[planePc[p]]

(* While the map is between two turns every plane waits for the next one, has    *)
(* left, or has only a lock to give back, and nothing is on its way to the map:  *)
(* no report or request of a turn outlives it (map.c:55-120, airline.c:168-200). *)
QuietBetweenTurns ==
    mapPc \in {"turn", "over", "wait", "exited"} =>
        /\ mapInbox = <<>>
        /\ \A p \in Plane : planePc[p] \in {"step", "unlock2", "exited"}
        /\ \A a \in Airline : planesLeft[a] = 0

(* The planes that have still to report in the current stage: told, or about to  *)
(* be told by the broadcast under way, and not yet through                       *)
(* app_airline_plane_ready.                                                      *)
Told(p) == queue[p] # <<>> /\ InQueue(p).type \in DOMAIN StageOf
ToBeTold(p) == LET a == AirlineOf[p]
               IN  /\ airPc[a] = "broadcast" /\ airMsg[a].type \in DOMAIN StageOf
                   /\ p \in visit[a] /\ ~done[p]
Busy(p) == planePc[p] \in Unloading \cup Moving \/ Told(p) \/ ToBeTold(p)

(* planesLeftLock is held exactly while start_phase runs in the main thread or   *)
(* the last plane of a stage reports, and never by two of them: the flags and    *)
(* the stage a report is made of do not move under it (airline.c:170-186,        *)
(* 191-199).                                                                     *)
AirHolds(a)   == \/ airPc[a] \in {"ready", "unlock"}
                 \/ airPc[a] = "broadcast" /\ airMsg[a].type \in DOMAIN StageOf
PlaneHolds(p) == planePc[p] \in DOMAIN AfterReport \cup {"unlock1", "unlock2"}

LockOwned ==
    \A a \in Airline :
        /\ locked[a] <=> AirHolds(a) \/ \E p \in Fleet(a) : PlaneHolds(p)
        /\ \A p \in Fleet(a) : PlaneHolds(p) =>
               ~AirHolds(a) /\ \A q \in Fleet(a) : PlaneHolds(q) => q = p

(* planesLeftInStage is exactly the number of planes that will still report      *)
(* (airline.c:172-177, 193): never one too few, which would let the map go on    *)
(* with a plane at work, never one too many, which would hang the turn.          *)
CountExact == \A a \in Airline :
                 planesLeft[a] = Cardinality({p \in Fleet(a) : Busy(p)})

(* A plane's queue never holds more than one message, so the pushes of           *)
(* start_phase, which run under planesLeftLock (airline.c:184), never block.     *)
MailboxNeverFull == \A p \in Plane : Len(queue[p]) <= 1

(* The number of flying planes an airline reports is still true when the map     *)
(* reads it (airline.c:206-214): no plane changes its done flag in between.      *)
StatusStillTrue ==
    mapInbox # <<>> /\ Head(mapInbox).type = "AirlineStatus" =>
        Head(mapInbox).flying = Cardinality(InGame(Head(mapInbox).airline))

(* The cargo of a plane, wherever the map's answer to its UnloadStock is: in the *)
(* map's hands, in the channel, in the airline's hands, in the queue, or taken.  *)
UnloadAnswers(p) ==
    LET a == AirlineOf[p]
        answers == {reply} \cup Range(inbox[a])
                      \cup (IF airPc[a] = "forward" THEN {airMsg[a]} ELSE {})
    IN  {m.stock : m \in {n \in answers : n.type = "UnloadStock" /\ n.plane = p}}
        \cup {m.stock : m \in {n \in Range(queue[p]) : n.type = "Stock"}}

Cargo(p) == IF UnloadAnswers(p) = {} THEN stock[p]
            ELSE CHOOSE s \in UnloadAnswers(p) : TRUE

CargoTotal(cargoOf(_)) == MapThenSumSet(LAMBDA p : TotalAmount(cargoOf(p)), Plane)

(* Nothing is made or lost on the way: what the cities have got is what the      *)
(* planes have given, at every moment, with the answers still under way counted  *)
(* (map.c:189-223, airline.c:131-142, plane.c:89-99).                            *)
StockConserved ==
    MapTotal(need) - CargoTotal(Cargo)
        = MapTotal(CityStock) - CargoTotal(LAMBDA p : PlaneStock[p])

(* A plane leaves the game only when no city needs what it has left              *)
(* (plane.c:50-52, 102-104), and that stays so, whatever the others unload.      *)
DoneIsUseless ==
    mapPc \notin {"over", "wait", "exited"} =>
        \A p \in Plane : done[p] => \A c \in City : Score(need[c], stock[p]) = 0

(* When main has waited for its children, everything is put away: every message  *)
(* has been read, every thread has ended, every lock is free (main.c:124-147).   *)
CleanExit ==
    mapPc = "exited" =>
        /\ mapInbox = <<>>
        /\ \A a \in Airline : inbox[a] = <<>> /\ airPc[a] = "exited" /\ ~locked[a]
        /\ \A p \in Plane : queue[p] = <<>> /\ planePc[p] = "exited"

(* The turns of the program are those of TurnBarrier: a two-level barrier of     *)
(* locks, counters and messages, with planes that leave, is one barrier          *)
(* (map.c:55-120, airline.c:168-200, plane.c:32-63).                             *)
Phase == CASE mapPc = "turn" -> "rest"
           [] mapPc \in {"step", "phase1", "reply1"} -> "unload"
           [] mapPc \in {"continue", "phase2", "reply2"} -> "move"
           [] OTHER -> "over"

Reporting == DOMAIN AfterReport \cup {"unlock1", "unlock2"}
Flying    == {p \in Plane : planePc[p] \notin
                 {"exited"} \cup (IF done[p] THEN Reporting ELSE {})}

Working == {p \in Flying :
               \/ /\ Phase = "unload"
                  /\ planePc[p] \in Unloading \cup {"unlock2", "step"}
               \/ /\ Phase = "move"
                  /\ planePc[p] \in Moving \cup {"unlock1", "cont", "awaitContinue"}}

Turns == INSTANCE TurnBarrier WITH phase <- Phase, flying <- Flying, working <- Working
ImplementsTurnBarrier == Turns!Spec

-----------------------------------------------------------------------------
(* Liveness. *)

(* The simulation ends, with every process gone, whatever the cities still need  *)
(* and whenever a signal comes: no thread waits for ever on a lock, a channel or *)
(* the barrier (main.c:124-134).                                                 *)
Termination == <>(mapPc = "exited")

-----------------------------------------------------------------------------
(* What doc/informe.tex:302-303 says of a simulation whose planes carry enough   *)
(* of every product: when the planes have all left the game every city has got   *)
(* what it needs.                                                                *)
Supplies(p) == MapThenSumSet(LAMBDA pl : AmountOf(PlaneStock[pl], p), Plane)
Needs(p)    == MapThenSumSet(LAMBDA c : AmountOf(CityStock[c], p), City)
Products    == UNION {{s.product : s \in Range(CityStock[c])} : c \in City}
EnoughOfEach == \A p \in Products : Supplies(p) >= Needs(p)

AllServed == EnoughOfEach /\ mapPc = "turn" /\ (\A p \in Plane : done[p])
                => \A c \in City : Satisfied(need[c])
=============================================================================
