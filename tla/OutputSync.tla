----------------------------- MODULE OutputSync -----------------------------
(* The parent process: how the map thread (runMap), the output thread            *)
(* (run_output), the main thread that joins them (start_simulation) and the      *)
(* signal handler (handle_signal) go together.  The map and the main thread push *)
(* to the output through one MessageQueue; the output gives the map leave for a  *)
(* turn through the semaphore outputSem, created with the value 1.  What happens *)
(* inside a turn is Simulation; here a turn is the messages it sends to the      *)
(* output.                                                                       *)
EXTENDS Naturals, Sequences

CONSTANTS NumAirlines,
          TurnsNeeded,    \* the turns after which endSimulation says END_SIM
          QueueCapacity   \* QUEUE_SIZE - 1

ASSUME ParametersAssumption == /\ NumAirlines \in Nat /\ TurnsNeeded \in Nat
                               /\ QueueCapacity \in Nat \ {0}

VARIABLES wait,      \* whether the program is built with -DWAIT
          mapPc,
          left,      \* the airline statuses the map has still to send
          turn,      \* the turns started
          sem,       \* outputSem
          queue,     \* outputMsgQueue
          outPc,
          firstOfTurn,
          seen,      \* the airline statuses on the screen since it was last erased
          shown,     \* history: the map statuses acknowledged so far
          mainPc,
          handler, doExit,         \* the signal handler, and the flag it sets
          interrupted              \* the signal has reached getchar

mapVars == <<mapPc, left, turn>>
screen  == <<firstOfTurn, seen, shown>>
signals == <<handler, doExit>>

(* What the map thread leaves alone. *)
elsewhere == <<wait, outPc, screen, mainPc, signals, interrupted>>
vars == <<mapVars, sem, queue, elsewhere>>

Init == /\ wait \in BOOLEAN
        /\ mapPc = "statuses" /\ left = NumAirlines /\ turn = 0
        /\ sem = 1
        /\ queue = <<>>
        /\ outPc = "pop" /\ firstOfTurn = TRUE /\ seen = 0 /\ shown = 0
        /\ mainPc = "join"
        /\ handler = "none" /\ doExit = FALSE
        /\ interrupted = FALSE

(* comm_send_map_status, comm_send_airline_status, comm_end_output: each is one *)
(* message_queue_push.                                                          *)
Push(m) == /\ Len(queue) < QueueCapacity
           /\ queue' = Append(queue, m)

-----------------------------------------------------------------------------
(* The map thread. *)

(* comm_send_airline_status: before the first turn from send_airlines_status,    *)
(* then once for every airline in phase 2.                                       *)
MapAirlineStatus == /\ mapPc = "statuses" /\ left > 0
                    /\ Push("AirlineStatus")
                    /\ left' = left - 1
                    /\ UNCHANGED <<mapPc, turn, sem, elsewhere>>

(* Mutant of MapStatus: the status of the turn goes out while an airline has     *)
(* still to report.                                                              *)
MapStatusEarly == /\ mapPc = "statuses" /\ left <= 1
                  /\ Push("MapStatus")
                  /\ mapPc' = "loop"
                  /\ UNCHANGED <<left, turn, sem, elsewhere>>

(* send_map_status: before the first turn and at the end of every turn. *)
MapStatus == /\ mapPc = "statuses" /\ left = 0
             /\ Push("MapStatus")
             /\ mapPc' = "loop"
             /\ UNCHANGED <<left, turn, sem, elsewhere>>

(* Mutant of MapLoop: only a signal ends the loop; when the simulation is over   *)
(* there is just no turn to play.                                                *)
MapLoopUntilSignal ==
    /\ mapPc = "loop"
    /\ mapPc' = IF doExit THEN "ended" ELSE IF turn < TurnsNeeded THEN "sem" ELSE "loop"
    /\ UNCHANGED <<left, turn, sem, queue, elsewhere>>

(* The condition of the turn loop. *)
MapLoop == /\ mapPc = "loop"
           /\ mapPc' = IF ~doExit /\ turn < TurnsNeeded THEN "sem" ELSE "ended"
           /\ UNCHANGED <<left, turn, sem, queue, elsewhere>>

(* Mutant of MapSemWait: the map does not wait for the output.                   *)
MapDoesNotWait == /\ mapPc = "sem"
                  /\ mapPc' = "check"
                  /\ UNCHANGED <<left, turn, sem, queue, elsewhere>>

(* ipc_sem_wait, which a signal does not interrupt. *)
MapSemWait == /\ mapPc = "sem" /\ sem > 0
              /\ sem' = sem - 1
              /\ mapPc' = "check"
              /\ UNCHANGED <<left, turn, queue, elsewhere>>

(* The exit flag is looked at again after the wait; otherwise a turn is played.  *)
MapTurn == /\ mapPc = "check"
           /\ IF doExit THEN mapPc' = "ended" /\ UNCHANGED <<left, turn>>
              ELSE mapPc' = "statuses" /\ left' = NumAirlines /\ turn' = turn + 1
           /\ UNCHANGED <<sem, queue, elsewhere>>

Map == MapAirlineStatus \/ MapStatus \/ MapLoop \/ MapSemWait \/ MapTurn

-----------------------------------------------------------------------------
(* The output thread. *)

(* A message is popped: an airline status goes to the screen, which is erased    *)
(* before the first of a turn; a map status too, and is then acknowledged, after *)
(* a key in a build with WAIT; EndOutput ends the thread, after a key likewise.  *)
OutPop == /\ outPc = "pop" /\ queue # <<>>
          /\ queue' = Tail(queue)
          /\ \/ /\ Head(queue) = "AirlineStatus"
                /\ seen' = IF firstOfTurn THEN 1 ELSE seen + 1
                /\ firstOfTurn' = FALSE
                /\ UNCHANGED outPc
             \/ /\ Head(queue) = "MapStatus"
                /\ firstOfTurn' = TRUE
                /\ outPc' = IF wait THEN "key" ELSE "post"
                /\ UNCHANGED seen
             \/ /\ Head(queue) = "EndOutput"
                /\ outPc' = IF wait THEN "lastKey" ELSE "gone"
                /\ UNCHANGED <<firstOfTurn, seen>>
          /\ UNCHANGED <<wait, mapVars, sem, shown, mainPc, signals, interrupted>>

(* wait(): getchar returns with a key, or without one when a signal interrupts it. *)
AfterKey == [key |-> "post", lastKey |-> "gone"]

OutKey == /\ outPc \in DOMAIN AfterKey
          /\ outPc' = AfterKey[outPc]
          /\ interrupted' = FALSE
          /\ UNCHANGED <<wait, mapVars, sem, queue, screen, mainPc, signals>>

OutInterrupted == /\ outPc \in DOMAIN AfterKey /\ interrupted
                  /\ outPc' = AfterKey[outPc]
                  /\ interrupted' = FALSE
                  /\ UNCHANGED <<wait, mapVars, sem, queue, screen, mainPc, signals>>

(* ipc_sem_post *)
OutPost == /\ outPc = "post"
           /\ sem' = sem + 1
           /\ shown' = shown + 1
           /\ outPc' = "pop"
           /\ UNCHANGED <<wait, mapVars, queue, firstOfTurn, seen, mainPc, signals, interrupted>>

Output == OutPop \/ OutPost \/ OutInterrupted

-----------------------------------------------------------------------------
(* The main thread: it joins the map, ends the output, joins the output.         *)

(* Mutant of MainEndOutput: the map is not joined first.                         *)
MainEndsAtOnce == /\ mainPc = "join"
                  /\ Push("EndOutput")
                  /\ mainPc' = "joinOutput"
                  /\ UNCHANGED <<wait, mapVars, sem, outPc, screen, signals, interrupted>>

MainEndOutput == /\ mainPc = "join" /\ mapPc = "ended"
                 /\ Push("EndOutput")
                 /\ mainPc' = "joinOutput"
                 /\ UNCHANGED <<wait, mapVars, sem, outPc, screen, signals, interrupted>>

MainJoinOutput == /\ mainPc = "joinOutput" /\ outPc = "gone"
                  /\ mainPc' = "returned"
                  /\ UNCHANGED <<wait, mapVars, sem, queue, outPc, screen, signals, interrupted>>

Main == MainEndOutput \/ MainJoinOutput

(* handle_signal: first, in a build with WAIT, the output thread gets a SIGUSR2, *)
(* which ends a getchar it is in and is otherwise without effect.                *)
SignalKill == /\ handler = "none" /\ mainPc # "returned"
              /\ handler' = "entered"
              /\ interrupted' = (outPc \in DOMAIN AfterKey)
              /\ UNCHANGED <<wait, mapVars, sem, queue, outPc, screen, mainPc, doExit>>

SignalFlag == /\ handler = "entered"
              /\ handler' = "left"
              /\ doExit' = TRUE
              /\ UNCHANGED <<wait, mapVars, sem, queue, outPc, screen, mainPc, interrupted>>

Terminated == mainPc = "returned" /\ UNCHANGED vars

Next == Map \/ Output \/ OutKey \/ Main \/ SignalKill \/ SignalFlag \/ Terminated

Spec == Init /\ [][Next]_vars

(* Every thread that can run does, and a user at the getchar of a build with     *)
(* WAIT sooner or later presses a key.                                           *)
FairSpec == /\ Spec
            /\ WF_vars(Map) /\ WF_vars(Output) /\ WF_vars(Main) /\ WF_vars(SignalFlag)
            /\ WF_vars(OutKey)

-----------------------------------------------------------------------------
TypeOK == /\ wait \in BOOLEAN
          /\ mapPc \in {"statuses", "loop", "sem", "check", "ended"}
          /\ left \in 0 .. NumAirlines /\ turn \in 0 .. TurnsNeeded
          /\ sem \in Nat
          /\ queue \in Seq({"AirlineStatus", "MapStatus", "EndOutput"})
          /\ Len(queue) <= QueueCapacity
          /\ outPc \in DOMAIN AfterKey \cup {"pop", "post", "gone"}
          /\ firstOfTurn \in BOOLEAN /\ seen \in 0 .. NumAirlines /\ shown \in Nat
          /\ mainPc \in {"join", "joinOutput", "returned"}
          /\ handler \in {"none", "entered", "left"} /\ doExit \in BOOLEAN
          /\ interrupted \in BOOLEAN

(* The screen does not fall behind: when a turn begins, all the map statuses but *)
(* the one of the turn before have been acknowledged.  The semaphore starts at   *)
(* 1 and the status before the first turn is acknowledged too, so the map may be *)
(* one turn further than one per acknowledgement (main.c:228, map.c:50, 59): a   *)
(* turn may begin before the status of the turn before it has been shown.        *)
TurnsAhead == turn <= shown + 1

(* Whenever a map status is on the screen the status of every airline for the    *)
(* same turn is there too (map.c:49, 99-104, output.c:62-67).                    *)
FullScreen == outPc \in {"key", "post"} => seen = NumAirlines

(* When start_simulation returns, the status of every turn that was played has   *)
(* been shown, and the queue it destroys is empty (main.c:245-253).              *)
NothingUnshown == mainPc = "returned" => queue = <<>> /\ shown = turn + 1

(* The parent gets to the end of start_simulation, whether or not a signal       *)
(* comes, and whatever it interrupts (map.c:55-65, main.c:247-250).              *)
Returns == <>(mainPc = "returned")
=============================================================================
