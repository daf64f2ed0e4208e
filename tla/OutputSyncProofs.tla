-------------------------- MODULE OutputSyncProofs --------------------------
(* Theorems about OutputSync, for any number of airlines and of turns, any queue *)
(* and both builds.                                                              *)
EXTENDS OutputSync, CountingLemmas

-----------------------------------------------------------------------------
(* The semaphore.  A leave for a turn is in it, in the map's hands between       *)
(* ipc_sem_wait and the turn, or spent on a turn; the first one comes with the   *)
(* semaphore and every other one from an acknowledgement.                        *)

Counters == turn \in Nat /\ sem \in Nat /\ shown \in Nat

InHand == IF mapPc = "check" THEN 1 ELSE 0
Leaves == Counters /\ turn + sem + InHand <= shown + 1

LEMMA InitLeaves == Init => Leaves
  BY SMT DEF Init, Counters, Leaves, InHand

LEMMA NextLeaves == Leaves /\ [Next]_vars => Leaves'
  <1> SUFFICES ASSUME Leaves, [Next]_vars PROVE Leaves'
    OBVIOUS
  <1> USE DEF Counters, Leaves, InHand
  <1>1. CASE MapSemWait
    BY <1>1, SMT DEF MapSemWait, elsewhere, screen
  <1>2. CASE MapTurn
    BY <1>2, SMT DEF MapTurn, elsewhere, screen
  <1>3. CASE OutPost
    BY <1>3, SMT DEF OutPost, mapVars
  <1>4. CASE MapAirlineStatus \/ MapStatus \/ MapLoop
    <2>1. UNCHANGED <<turn, sem, shown>> /\ ~(mapPc' = "check")
      BY <1>4, SMT DEF MapAirlineStatus, MapStatus, MapLoop, elsewhere, screen
    <2> QED
      BY <2>1, SMT
  <1>5. CASE \/ OutPop \/ OutInterrupted \/ OutKey \/ Main \/ SignalKill \/ SignalFlag
             \/ Terminated \/ UNCHANGED vars
    <2>1. UNCHANGED <<turn, sem, shown, mapPc>>
      BY <1>5 DEF OutPop, OutInterrupted, OutKey, Main, MainEndOutput, MainJoinOutput,
                  SignalKill, SignalFlag, Terminated, vars, mapVars, elsewhere, screen
    <2> QED
      BY <2>1
  <1> QED
    BY <1>1, <1>2, <1>3, <1>4, <1>5 DEF Next, Map, Output

(* The map is never more than one turn further than one per map status the       *)
(* output thread has acknowledged (main.c:228, map.c:50, 59, output.c:61).       *)
THEOREM MapWaitsForScreen == Spec => []TurnsAhead
  <1>1. Leaves => TurnsAhead
    BY SMT DEF Counters, Leaves, InHand, TurnsAhead
  <1> QED
    BY <1>1, InitLeaves, NextLeaves, PTL DEF Spec

-----------------------------------------------------------------------------
(* The queue.  Every map status that was sent is in it, in the hands of the      *)
(* output thread, or acknowledged; and EndOutput is the last message of all.     *)

Message == {"AirlineStatus", "MapStatus", "EndOutput"}

Types == /\ turn \in Nat /\ shown \in Nat
         /\ queue \in Seq(Message)
         /\ mapPc \in {"statuses", "loop", "sem", "check", "ended"}
         /\ outPc \in {"pop", "key", "post", "lastKey", "gone"}
         /\ mainPc \in {"join", "joinOutput", "returned"}

Sent  == IF mapPc = "statuses" THEN turn ELSE turn + 1
OnScreen == IF outPc \in {"key", "post"} THEN 1 ELSE 0
Ledger == Sent = shown + OnScreen + HowMany(queue, {"MapStatus"})

EndIsLast ==
    /\ mainPc = "join" => /\ outPc \notin {"lastKey", "gone"}
                          /\ \A k \in 1 .. Len(queue) : queue[k] # "EndOutput"
    /\ mainPc # "join" => mapPc = "ended"
    /\ mainPc = "returned" => outPc = "gone"
    /\ outPc \in {"lastKey", "gone"} => queue = <<>>
    /\ \A k \in 1 .. Len(queue) : queue[k] = "EndOutput" => k = Len(queue)

Accounted == Types /\ Ledger /\ EndIsLast

LEMMA InitAccounted == Init => Accounted
  <1> SUFFICES ASSUME Init PROVE Accounted
    OBVIOUS
  <1>1. HowMany(queue, {"MapStatus"}) = 0
    BY NoneInEmpty DEF Init
  <1> QED
    BY <1>1, SMT DEF Init, Accounted, Types, Ledger, Sent, OnScreen, EndIsLast

(* What a push does to the number of map statuses in the queue. *)
LEMMA Pushed ==
    ASSUME queue \in Seq(Message), NEW m \in Message, Push(m)
    PROVE  /\ queue' \in Seq(Message)
           /\ HowMany(queue', {"MapStatus"})
                 = HowMany(queue, {"MapStatus"}) + (IF m = "MapStatus" THEN 1 ELSE 0)
           /\ HowMany(queue, {"MapStatus"}) \in Nat
           /\ Len(queue') = Len(queue) + 1 /\ Len(queue) \in Nat
           /\ \A k \in 1 .. Len(queue) : queue'[k] = queue[k]
           /\ queue'[Len(queue) + 1] = m
  <1>1. queue' = Append(queue, m)
    BY DEF Push
  <1>2. m \in {"MapStatus"} <=> m = "MapStatus"
    OBVIOUS
  <1> QED
    BY <1>1, <1>2, OneWritten, PositionsFinite, AppendProperties

LEMMA Popped ==
    ASSUME queue \in Seq(Message), queue # <<>>, queue' = Tail(queue)
    PROVE  /\ queue' \in Seq(Message) /\ Head(queue) \in Message
           /\ HowMany(queue, {"MapStatus"})
                 = HowMany(queue', {"MapStatus"})
                      + (IF Head(queue) = "MapStatus" THEN 1 ELSE 0)
           /\ HowMany(queue', {"MapStatus"}) \in Nat
           /\ Len(queue') = Len(queue) - 1 /\ Len(queue) \in Nat \ {0}
           /\ \A k \in 1 .. Len(queue') : queue'[k] = queue[k + 1]
           /\ Head(queue) = queue[1]
  <1>1. Head(queue) \in {"MapStatus"} <=> Head(queue) = "MapStatus"
    OBVIOUS
  <1>2. /\ Tail(queue) \in Seq(Message) /\ Head(queue) \in Message
        /\ Len(Tail(queue)) = Len(queue) - 1
        /\ \A k \in 1 .. Len(Tail(queue)) : Tail(queue)[k] = queue[k + 1]
    BY HeadTailProperties
  <1>3. Len(queue) \in Nat \ {0} /\ Head(queue) = queue[1]
    OBVIOUS
  <1>4. HowMany(queue, {"MapStatus"})
           = HowMany(Tail(queue), {"MapStatus"})
                + (IF Head(queue) \in {"MapStatus"} THEN 1 ELSE 0)
    BY OneRead
  <1>5. HowMany(Tail(queue), {"MapStatus"}) \in Nat
    BY <1>2, PositionsFinite
  <1> QED
    BY <1>1, <1>2, <1>3, <1>4, <1>5

LEMMA NextAccounted == Accounted /\ [Next]_vars => Accounted'
  <1> SUFFICES ASSUME Accounted, [Next]_vars PROVE Accounted'
    OBVIOUS
  <1> USE DEF Accounted, Types, Ledger, Sent, OnScreen, EndIsLast
  <1> DEFINE statuses == HowMany(queue, {"MapStatus"})
  <1>0. statuses \in Nat
    BY PositionsFinite
  <1>1. CASE MapAirlineStatus \/ MapStatus
    <2>1. PICK m \in {"AirlineStatus", "MapStatus"} :
             /\ Push(m)
             /\ mapPc = "statuses" /\ mapPc' = IF m = "MapStatus" THEN "loop" ELSE mapPc
             /\ UNCHANGED <<turn, shown, outPc, mainPc>>
      BY <1>1 DEF MapAirlineStatus, MapStatus, elsewhere, screen
    <2>2. m \in Message
      BY DEF Message
    <2>3. mainPc = "join" /\ outPc \notin {"lastKey", "gone"}
      BY <2>1
    <2> HIDE DEF Push
    <2>4. /\ queue' \in Seq(Message)
          /\ statuses' = statuses + (IF m = "MapStatus" THEN 1 ELSE 0)
          /\ Len(queue') = Len(queue) + 1 /\ Len(queue) \in Nat
          /\ \A k \in 1 .. Len(queue) : queue'[k] = queue[k]
          /\ queue'[Len(queue) + 1] = m
      BY <2>1, <2>2, Pushed
    <2>5. Types' /\ Ledger'
      <3> HIDE DEF statuses
      <3>1. Sent = shown + OnScreen + statuses /\ Sent' = shown' + OnScreen' + statuses'
        BY <1>0, <2>1, <2>4, SMT DEF statuses
      <3> QED
        BY <2>1, <2>4, <3>1, SMT DEF statuses
    <2>6. EndIsLast'
      BY <2>1, <2>3, <2>4, SMT
    <2> QED
      BY <2>5, <2>6
  <1>2. CASE MapLoop \/ MapSemWait \/ MapTurn
    <2>1. /\ UNCHANGED <<queue, shown, outPc, mainPc>>
          /\ mapPc \in {"loop", "sem", "check"}
          /\ \/ mapPc' \in {"sem", "check", "ended"} /\ turn' = turn
             \/ mapPc' = "statuses" /\ turn' = turn + 1
      BY <1>2 DEF MapLoop, MapSemWait, MapTurn, elsewhere, screen
    <2> QED
      BY <1>0, <2>1, SMT
  <1>3. CASE OutPop
    <2>1. /\ outPc = "pop" /\ queue # <<>> /\ queue' = Tail(queue)
          /\ UNCHANGED <<mapPc, turn, shown, mainPc>>
          /\ \/ Head(queue) = "AirlineStatus" /\ outPc' = "pop"
             \/ Head(queue) = "MapStatus" /\ outPc' \in {"key", "post"}
             \/ Head(queue) = "EndOutput" /\ outPc' \in {"lastKey", "gone"}
      BY <1>3 DEF OutPop, mapVars
    <2>2. /\ queue' \in Seq(Message)
          /\ statuses = statuses' + (IF Head(queue) = "MapStatus" THEN 1 ELSE 0)
          /\ statuses' \in Nat
          /\ Len(queue') = Len(queue) - 1 /\ Len(queue) \in Nat \ {0}
          /\ \A k \in 1 .. Len(queue') : queue'[k] = queue[k + 1]
          /\ Head(queue) = queue[1]
      BY <2>1, Popped
    <2>3. Types' /\ Ledger'
      <3>1. /\ Sent' = Sent /\ Sent \in Int
            /\ OnScreen = 0 /\ OnScreen' = IF Head(queue) = "MapStatus" THEN 1 ELSE 0
        BY <2>1, SMT
      <3>2. statuses = statuses' + OnScreen'
        BY <2>2, <3>1
      <3>3. Sent = shown + statuses /\ shown \in Nat /\ shown' = shown
        BY <1>0, <2>1, <3>1
      <3>4. Ledger'
        <4> HIDE DEF Sent, OnScreen, Accounted, Types, EndIsLast, statuses
        <4>1. OnScreen' \in Int
          BY <3>1
        <4>2. Sent' = shown' + OnScreen' + statuses'
          BY <1>0, <2>2, <3>1, <3>2, <3>3, <4>1
        <4> QED
          BY <4>2 DEF statuses
      <3> QED
        BY <2>1, <2>2, <3>4
    <2>4. Head(queue) = "EndOutput" => queue' = <<>> /\ mainPc # "join"
      <3> SUFFICES ASSUME Head(queue) = "EndOutput" PROVE queue' = <<>> /\ mainPc # "join"
        OBVIOUS
      <3>1. Len(queue) = 1 /\ mainPc # "join"
        BY <2>2
      <3>2. Len(queue') = 0
        BY <2>2, <3>1
      <3> QED
        BY <2>2, <3>1, <3>2, EmptySeq
    <2>5. EndIsLast'
      <3>1. \A k \in 1 .. Len(queue') : queue'[k] = "EndOutput" =>
                 k = Len(queue') /\ mainPc # "join"
        BY <2>2, SMT
      <3> QED
        BY <2>1, <2>4, <3>1
    <2> QED
      BY <2>3, <2>5
  <1>4. CASE OutKey \/ OutInterrupted
    <2>1. /\ UNCHANGED <<queue, turn, shown, mapPc, mainPc>>
          /\ \/ outPc = "key" /\ outPc' = "post"
             \/ outPc = "lastKey" /\ outPc' = "gone"
      BY <1>4 DEF OutKey, OutInterrupted, AfterKey, mapVars, screen
    <2> QED
      BY <1>0, <2>1, SMT
  <1>5. CASE OutPost
    <2>1. /\ outPc = "post" /\ outPc' = "pop" /\ shown' = shown + 1
          /\ UNCHANGED <<queue, turn, mapPc, mainPc>>
      BY <1>5 DEF OutPost, mapVars
    <2> QED
      BY <1>0, <2>1, SMT
  <1>6. CASE MainEndOutput
    <2>1. /\ Push("EndOutput") /\ mainPc = "join" /\ mapPc = "ended"
          /\ mainPc' = "joinOutput"
          /\ UNCHANGED <<mapPc, turn, shown, outPc>>
      BY <1>6 DEF MainEndOutput, mapVars, screen
    <2>2. /\ queue' \in Seq(Message)
          /\ statuses' = statuses
          /\ Len(queue') = Len(queue) + 1 /\ Len(queue) \in Nat
          /\ \A k \in 1 .. Len(queue) : queue'[k] = queue[k]
      <3>1. "EndOutput" \in Message
        BY DEF Message
      <3> QED
        BY <1>0, <2>1, <3>1, Pushed, SMT
    <2>3. Types' /\ Ledger'
      BY <1>0, <2>1, <2>2, SMT
    <2>4. EndIsLast'
      BY <2>1, <2>2, SMT
    <2> QED
      BY <2>3, <2>4
  <1>7. CASE MainJoinOutput
    <2>1. /\ outPc = "gone" /\ mainPc = "joinOutput" /\ mainPc' = "returned"
          /\ UNCHANGED <<queue, turn, shown, mapPc, outPc>>
      BY <1>7 DEF MainJoinOutput, mapVars, screen
    <2> QED
      BY <1>0, <2>1, SMT
  <1>8. CASE SignalKill \/ SignalFlag \/ Terminated \/ UNCHANGED vars
    <2>1. UNCHANGED <<queue, turn, shown, mapPc, outPc, mainPc>>
      BY <1>8 DEF SignalKill, SignalFlag, Terminated, vars, mapVars, elsewhere, screen
    <2> QED
      BY <2>1
  <1> QED
    BY <1>1, <1>2, <1>3, <1>4, <1>5, <1>6, <1>7, <1>8 DEF Next, Map, Output, Main

(* When start_simulation returns, the status of every turn that was played has   *)
(* been shown and the queue it destroys is empty (main.c:245-253).               *)
THEOREM EverythingShown == Spec => []NothingUnshown
  <1>1. Accounted => NothingUnshown
    <2> SUFFICES ASSUME Accounted, mainPc = "returned"
                 PROVE  queue = <<>> /\ shown = turn + 1
      BY DEF NothingUnshown
    <2>1. queue = <<>> /\ mapPc = "ended" /\ outPc = "gone"
      BY DEF Accounted, EndIsLast
    <2>2. HowMany(queue, {"MapStatus"}) = 0
      BY <2>1, NoneInEmpty
    <2> QED
      BY <2>1, <2>2, SMT DEF Accounted, Types, Ledger, Sent, OnScreen
  <1> QED
    BY <1>1, InitAccounted, NextAccounted, PTL DEF Spec
-----------------------------------------------------------------------------
(* The screen.  Between two map statuses come the statuses of all the airlines.  *)
(* A progress function says how far into its turn the screen is now (f[0]) and   *)
(* will be after each message of the queue; at the end of the queue that is how  *)
(* far the map has got.                                                          *)

Drawn == IF firstOfTurn THEN 0 ELSE seen

Announced == IF mapPc = "statuses" THEN NumAirlines - left ELSE 0

Follows(f, k) ==
    \/ queue[k] = "AirlineStatus" /\ f[k] = f[k - 1] + 1
    \/ queue[k] = "MapStatus" /\ f[k - 1] = NumAirlines /\ f[k] = 0
    \/ queue[k] = "EndOutput" /\ f[k] = f[k - 1]

Progress(f) == /\ f \in [0 .. Len(queue) -> 0 .. NumAirlines]
               /\ f[0] = Drawn
               /\ \A k \in 1 .. Len(queue) : Follows(f, k)
               /\ f[Len(queue)] = Announced

Places == /\ queue \in Seq(Message)
          /\ mapPc \in {"statuses", "loop", "sem", "check", "ended"}
          /\ outPc \in {"pop", "key", "post", "lastKey", "gone"}
          /\ left \in 0 .. NumAirlines /\ seen \in 0 .. NumAirlines
          /\ firstOfTurn \in BOOLEAN

Drawing == Places /\ FullScreen /\ \E f : Progress(f)

LEMMA InitDrawing == Init => Drawing
  <1> SUFFICES ASSUME Init PROVE Drawing
    OBVIOUS
  <1>1. Places /\ FullScreen
    BY ParametersAssumption, SMT DEF Init, Places, FullScreen
  <1>2. Progress([k \in 0 .. 0 |-> 0])
    BY ParametersAssumption, SMT DEF Init, Progress, Drawn, Announced
  <1> QED
    BY <1>1, <1>2 DEF Drawing

(* A push takes the progress one message further. *)
LEMMA PushProgress ==
    ASSUME Places, NEW f, Progress(f), NEW m \in Message, Push(m),
           UNCHANGED <<firstOfTurn, seen>>,
           NEW n \in 0 .. NumAirlines, n = Announced',
           \/ m = "AirlineStatus" /\ n = Announced + 1
           \/ m = "MapStatus" /\ Announced = NumAirlines /\ n = 0
           \/ m = "EndOutput" /\ n = Announced
    PROVE  queue' \in Seq(Message) /\ \E g : Progress(g)'
  <1> DEFINE last == Len(queue) + 1
  <1>1. /\ queue' \in Seq(Message) /\ Len(queue') = last /\ Len(queue) \in Nat
        /\ \A k \in 1 .. Len(queue) : queue'[k] = queue[k]
        /\ queue'[last] = m
    BY Pushed DEF Places
  <1>2. PICK g \in [0 .. last -> 0 .. NumAirlines] :
           /\ \A k \in 0 .. Len(queue) : g[k] = f[k]
           /\ g[last] = n
    <2> DEFINE longer == [k \in 0 .. last |-> IF k = last THEN n ELSE f[k]]
    <2>1. /\ longer \in [0 .. last -> 0 .. NumAirlines]
          /\ \A k \in 0 .. Len(queue) : longer[k] = f[k]
          /\ longer[last] = n
      BY <1>1, SMT DEF Progress
    <2> QED
      BY <2>1
  <1>3. g[0] = Drawn'
    BY <1>1, <1>2 DEF Progress, Drawn
  <1>4. ASSUME NEW k \in 1 .. last PROVE Follows(g, k)'
    <2>1. CASE k = last
      BY <1>1, <1>2, <2>1, SMT DEF Follows, Progress
    <2>2. CASE k # last
      <3>1. k \in 1 .. Len(queue) /\ k - 1 \in 0 .. Len(queue) /\ k \in 0 .. Len(queue)
        BY <1>1, <2>2
      <3>2. Follows(f, k) /\ g[k] = f[k] /\ g[k - 1] = f[k - 1] /\ queue'[k] = queue[k]
        BY <1>1, <1>2, <3>1 DEF Progress
      <3> QED
        BY <3>2 DEF Follows
    <2> QED
      BY <2>1, <2>2
  <1>5. Progress(g)'
    BY <1>1, <1>2, <1>3, <1>4 DEF Progress
  <1> QED
    BY <1>1, <1>5

LEMMA NextDrawing == Drawing /\ [Next]_vars => Drawing'
  <1> SUFFICES ASSUME Drawing, [Next]_vars PROVE Drawing'
    OBVIOUS
  <1> USE DEF Drawing, Places
  <1>0. PICK f : Progress(f)
    OBVIOUS
  <1>1. CASE MapAirlineStatus
    <2>1. /\ Push("AirlineStatus") /\ mapPc = "statuses" /\ mapPc' = mapPc
          /\ left > 0 /\ left' = left - 1
          /\ UNCHANGED <<outPc, firstOfTurn, seen>>
      BY <1>1 DEF MapAirlineStatus, elsewhere, screen
    <2>2. Announced' = Announced + 1 /\ Announced' \in 0 .. NumAirlines
      BY <2>1, ParametersAssumption, SMT DEF Announced
    <2>3. "AirlineStatus" \in Message
      BY DEF Message
    <2>4. queue' \in Seq(Message) /\ \E g : Progress(g)'
      BY <1>0, <2>1, <2>2, <2>3, PushProgress
    <2>5. left' \in 0 .. NumAirlines
      BY <2>1, ParametersAssumption, SMT
    <2> QED
      BY <2>1, <2>4, <2>5 DEF FullScreen
  <1>2. CASE MapStatus
    <2>1. /\ Push("MapStatus") /\ mapPc = "statuses" /\ mapPc' = "loop" /\ left = 0
          /\ UNCHANGED <<left, outPc, firstOfTurn, seen>>
      BY <1>2 DEF MapStatus, elsewhere, screen
    <2>2. Announced' = 0 /\ Announced = NumAirlines /\ 0 \in 0 .. NumAirlines
      BY <2>1, ParametersAssumption, SMT DEF Announced
    <2>3. "MapStatus" \in Message
      BY DEF Message
    <2>4. queue' \in Seq(Message) /\ \E g : Progress(g)'
      BY <1>0, <2>1, <2>2, <2>3, PushProgress
    <2> QED
      BY <2>1, <2>4 DEF FullScreen
  <1>3. CASE MapLoop \/ MapSemWait \/ MapTurn
    <2>1. /\ UNCHANGED <<queue, outPc, firstOfTurn, seen>>
          /\ mapPc \in {"loop", "sem", "check"}
          /\ \/ mapPc' \in {"sem", "check", "ended"} /\ left' = left
             \/ mapPc' = "statuses" /\ left' = NumAirlines
      BY <1>3 DEF MapLoop, MapSemWait, MapTurn, elsewhere, screen
    <2>2. Announced' = Announced
      BY <2>1, ParametersAssumption, SMT DEF Announced
    <2>3. Progress(f)'
      BY <1>0, <2>1, <2>2 DEF Progress, Drawn, Follows
    <2>4. left' \in 0 .. NumAirlines
      BY <2>1, ParametersAssumption
    <2> QED
      BY <2>1, <2>3, <2>4 DEF FullScreen
  <1>4. CASE OutPop
    <2>1. /\ outPc = "pop" /\ queue # <<>> /\ queue' = Tail(queue)
          /\ UNCHANGED <<mapPc, left>>
          /\ \/ /\ Head(queue) = "AirlineStatus" /\ outPc' = "pop"
                /\ seen' = (IF firstOfTurn THEN 1 ELSE seen + 1) /\ firstOfTurn' = FALSE
             \/ /\ Head(queue) = "MapStatus" /\ outPc' \in {"key", "post"}
                /\ seen' = seen /\ firstOfTurn' = TRUE
             \/ /\ Head(queue) = "EndOutput" /\ outPc' \in {"lastKey", "gone"}
                /\ seen' = seen /\ firstOfTurn' = firstOfTurn
      BY <1>4 DEF OutPop, mapVars
    <2>2. /\ queue' \in Seq(Message)
          /\ Len(queue') = Len(queue) - 1 /\ Len(queue) \in Nat \ {0}
          /\ \A k \in 1 .. Len(queue') : queue'[k] = queue[k + 1]
          /\ Head(queue) = queue[1]
      BY <2>1, Popped
    <2>3. /\ f \in [0 .. Len(queue) -> 0 .. NumAirlines]
          /\ f[0] = Drawn /\ Follows(f, 1) /\ f[1] \in 0 .. NumAirlines
      <3>1. 1 \in 1 .. Len(queue) /\ 1 \in 0 .. Len(queue)
        BY <2>2
      <3>2. /\ f \in [0 .. Len(queue) -> 0 .. NumAirlines] /\ f[0] = Drawn
            /\ \A k \in 1 .. Len(queue) : Follows(f, k)
        BY <1>0 DEF Progress
      <3>3. Follows(f, 1)
        BY <3>1, <3>2, Zenon
      <3>4. f[1] \in 0 .. NumAirlines
        BY <3>1, <3>2, Zenon
      <3> QED
        BY <3>2, <3>3, <3>4, Zenon
    <2>4. f[1] = Drawn' /\ seen' \in 0 .. NumAirlines
      BY <2>1, <2>2, <2>3, SMT DEF Follows, Drawn
    <2>5. Head(queue) = "MapStatus" => seen = NumAirlines
      BY <2>2, <2>3, ParametersAssumption, SMT DEF Follows, Drawn
    <2>6. PICK g \in [0 .. Len(queue') -> 0 .. NumAirlines] :
             \A k \in 0 .. Len(queue') : g[k] = f[k + 1]
      <3> DEFINE shorter == [k \in 0 .. Len(queue') |-> f[k + 1]]
      <3>1. /\ shorter \in [0 .. Len(queue') -> 0 .. NumAirlines]
            /\ \A k \in 0 .. Len(queue') : shorter[k] = f[k + 1]
        BY <2>2, <2>3, SMT
      <3> QED
        BY <3>1
    <2>7. ASSUME NEW k \in 1 .. Len(queue') PROVE Follows(g, k)'
      <3>1. /\ k + 1 \in 1 .. Len(queue) /\ k \in 0 .. Len(queue') /\ k - 1 \in 0 .. Len(queue')
            /\ (k + 1) - 1 = k /\ (k - 1) + 1 = k
        BY <2>2
      <3>2. Follows(f, k + 1)
        BY <1>0, <3>1 DEF Progress
      <3>3. g[k] = f[k + 1] /\ g[k - 1] = f[k] /\ queue'[k] = queue[k + 1]
        BY <2>2, <2>6, <3>1
      <3> QED
        BY <3>1, <3>2, <3>3 DEF Follows
    <2>8. Announced' = Announced /\ g[Len(queue')] = Announced'
      <3>1. Len(queue') \in 0 .. Len(queue') /\ Len(queue') + 1 = Len(queue)
        BY <2>2
      <3> QED
        BY <1>0, <2>1, <2>6, <3>1 DEF Progress, Announced
    <2>9. g[0] = Drawn'
      BY <2>2, <2>4, <2>6
    <2>10. Progress(g)'
      BY <2>6, <2>7, <2>8, <2>9 DEF Progress
    <2>11. FullScreen'
      BY <2>1, <2>5 DEF FullScreen
    <2>12. Places'
      BY <2>1, <2>2, <2>4 DEF Message
    <2> QED
      BY <2>10, <2>11, <2>12
  <1>5. CASE MainEndOutput
    <2>1. /\ Push("EndOutput")
          /\ UNCHANGED <<mapPc, left, outPc, firstOfTurn, seen>>
      BY <1>5 DEF MainEndOutput, mapVars, screen
    <2>2. Announced' = Announced /\ Announced' \in 0 .. NumAirlines
      BY <2>1, ParametersAssumption, SMT DEF Announced
    <2>3. "EndOutput" \in Message
      BY DEF Message
    <2>4. queue' \in Seq(Message) /\ \E g : Progress(g)'
      BY <1>0, <2>1, <2>2, <2>3, PushProgress
    <2> QED
      BY <2>1, <2>4 DEF FullScreen
  <1>6. CASE \/ OutKey \/ OutInterrupted \/ OutPost \/ MainJoinOutput
             \/ SignalKill \/ SignalFlag \/ Terminated \/ UNCHANGED vars
    <2>1. /\ UNCHANGED <<queue, mapPc, left, firstOfTurn, seen>>
          /\ outPc' \in {"pop", "key", "post", "lastKey", "gone"}
          /\ outPc' \in {"key", "post"} => outPc \in {"key", "post"}
      BY <1>6 DEF OutKey, OutInterrupted, OutPost, MainJoinOutput, SignalKill, SignalFlag,
                  Terminated, AfterKey, vars, mapVars, elsewhere, screen
    <2>2. Progress(f)'
      BY <1>0, <2>1 DEF Progress, Drawn, Announced, Follows
    <2> QED
      BY <2>1, <2>2 DEF FullScreen
  <1> QED
    BY <1>1, <1>2, <1>3, <1>4, <1>5, <1>6 DEF Next, Map, Output, Main

(* A map status is on the screen together with the status of every airline for   *)
(* the same turn (map.c:49, 99-104, output.c:62-67), however far the map has run *)
(* ahead and however long the queue is.                                          *)
THEOREM ScreenIsFull == Spec => []FullScreen
  <1>1. Drawing => FullScreen
    BY DEF Drawing
  <1> QED
    BY <1>1, InitDrawing, NextDrawing, PTL DEF Spec
-----------------------------------------------------------------------------
(* Typing.  The bound on the turns needs the condition of the loop remembered,   *)
(* the one on the screen the progress.                                           *)

TurnIsDue == mapPc \in {"sem", "check"} => turn < TurnsNeeded

LEMMA InitTyped == Init => TypeOK /\ TurnIsDue
  <1> SUFFICES ASSUME Init PROVE TypeOK /\ TurnIsDue
    OBVIOUS
  <1>1. /\ left \in 0 .. NumAirlines /\ turn \in 0 .. TurnsNeeded /\ sem \in Nat
        /\ seen \in 0 .. NumAirlines /\ shown \in Nat
    BY ParametersAssumption, SMT DEF Init
  <1>2. Len(queue) <= QueueCapacity /\ queue \in Seq(Message)
    BY ParametersAssumption DEF Init
  <1> QED
    BY <1>1, <1>2 DEF Init, TypeOK, TurnIsDue, AfterKey, Message

LEMMA MapTyped ==
    ASSUME TypeOK, TurnIsDue, Drawing', Map
    PROVE  TypeOK' /\ TurnIsDue'
  <1>1. /\ UNCHANGED elsewhere
        /\ sem' \in Nat
        /\ turn' \in 0 .. TurnsNeeded /\ TurnIsDue'
    BY ParametersAssumption, SMT
       DEF Map, MapAirlineStatus, MapStatus, MapLoop, MapSemWait, MapTurn, TypeOK, TurnIsDue
  <1>2. Len(queue') <= QueueCapacity
    <2>1. CASE \E m \in Message : Push(m)
      BY <2>1, Pushed, ParametersAssumption DEF Push, TypeOK, Message
    <2>2. CASE queue' = queue
      BY <2>2 DEF TypeOK
    <2> QED
      BY <2>1, <2>2
         DEF Map, MapAirlineStatus, MapStatus, MapLoop, MapSemWait, MapTurn, Message
  <1> QED
    BY <1>1, <1>2 DEF TypeOK, elsewhere, screen, signals, Drawing, Places, Message

LEMMA OthersTyped ==
    ASSUME TypeOK, TurnIsDue, Drawing',
           \/ Output \/ OutKey \/ Main \/ SignalKill \/ SignalFlag \/ Terminated
           \/ UNCHANGED vars
    PROVE  TypeOK' /\ TurnIsDue'
  <1> USE DEF TypeOK
  <1>1. UNCHANGED <<wait, mapVars>>
    BY DEF Output, OutPop, OutPost, OutInterrupted, OutKey, Main, MainEndOutput,
           MainJoinOutput, SignalKill, SignalFlag, Terminated, vars, elsewhere
  <1>2. sem' \in Nat /\ shown' \in Nat
    BY SMT DEF Output, OutPop, OutPost, OutInterrupted, OutKey, Main, MainEndOutput,
           MainJoinOutput, SignalKill, SignalFlag, Terminated, vars, elsewhere, screen
  <1>3. Len(queue') <= QueueCapacity
    <2>1. CASE OutPop
      BY <2>1, HeadTailProperties, ParametersAssumption DEF OutPop, Message
    <2>2. CASE MainEndOutput
      BY <2>2, Pushed, ParametersAssumption DEF MainEndOutput, Push, Message
    <2>3. CASE queue' = queue
      BY <2>3
    <2> QED
      BY <2>1, <2>2, <2>3
         DEF Output, OutPost, OutInterrupted, OutKey, Main, MainJoinOutput, SignalKill,
             SignalFlag, Terminated, vars
  <1>4. /\ mainPc' \in {"join", "joinOutput", "returned"}
        /\ handler' \in {"none", "entered", "left"}
        /\ doExit' \in BOOLEAN /\ interrupted' \in BOOLEAN
    <2>1. CASE SignalKill
      BY <2>1 DEF SignalKill
    <2>2. CASE SignalFlag
      BY <2>2 DEF SignalFlag
    <2>3. CASE Output \/ OutKey
      BY <2>3 DEF Output, OutPop, OutPost, OutInterrupted, OutKey, signals
    <2>4. CASE Main \/ Terminated \/ UNCHANGED vars
      BY <2>4 DEF Main, MainEndOutput, MainJoinOutput, Terminated, vars, elsewhere, signals
    <2> QED
      BY <2>1, <2>2, <2>3, <2>4
  <1>5. outPc' \in DOMAIN AfterKey \cup {"pop", "post", "gone"}
    BY DEF Drawing, Places, AfterKey
  <1> QED
    BY <1>1, <1>2, <1>3, <1>4, <1>5 DEF mapVars, Drawing, Places, Message, TurnIsDue

(* Every variable of the parent keeps its type: no more turns than the           *)
(* simulation lasts, no more messages in the output's queue than it holds, never *)
(* more airlines on the screen than there are (map.c:49-65, output.c:36-70).     *)
THEOREM ParentTypeCorrect == Spec => []TypeOK
  <1>1. Init => TypeOK /\ TurnIsDue /\ Drawing
    BY InitTyped, InitDrawing
  <1>2. TypeOK /\ TurnIsDue /\ Drawing /\ [Next]_vars => TypeOK' /\ TurnIsDue' /\ Drawing'
    BY NextDrawing, MapTyped, OthersTyped DEF Next
  <1> QED
    BY <1>1, <1>2, PTL DEF Spec
=============================================================================
