------------------------------ MODULE Lifecycle ------------------------------
(* main.c: the map process forks the airlines, everybody listens on a name and   *)
(* connects to the names of the others, the turns are run, and everybody leaves. *)
(* A turn is one Step to every airline and one report from each (Simulation has  *)
(* the rest of it); a name stands for a fifo, a message queue, a socket or a     *)
(* table in shared memory (KernelIpc and ShmemIpc have what goes through them).  *)
(* The handlers are set (main.c:110) and nothing of an earlier run is left.      *)
(*                                                                               *)
(* The faults: signals to single processes, whose handlers are good for one      *)
(* signal of a kind (signal() of -std=c99), and a fork that fails.  A signal     *)
(* that spoils a blocked read is KernelIpc's subject, so signals come only to    *)
(* the builds that repeat the read, socket and shmem.                            *)
EXTENDS Naturals, FiniteSets

CONSTANTS NumAirlines,  \* without one there is no other process
          Signals,      \* the signals with a handler, SIGCHLD aside
          WaitBuilds,   \* the builds: WAIT defined, not defined
          MaxTurns,     \* the turns after which endSimulation stops
          MaxFaults

ASSUME LifecycleAssumption == /\ NumAirlines \in Nat \ {0}
                              /\ MaxTurns \in Nat /\ MaxFaults \in Nat
                              /\ WaitBuilds \subseteq BOOLEAN /\ "SIGCHLD" \notin Signals

Airlines == 1 .. NumAirlines
Map      == 0
Process  == {Map} \cup Airlines
Nowhere  == 0

VARIABLES ipc, wait,   \* the build
          linked,      \* the names that exist
          made,        \* for each name how many objects have been behind it
          reading,     \* for each process the object it listens on, or Nowhere
          toAirline,   \* the objects the map writes to: conns
          toMap,       \* for each airline the object it writes to: conn
          mail,        \* the messages: <<to, object, from, what>>
          pc,
          k,           \* the map's loop variable
          turn, reported,
          doExit,
          armed,       \* for each process the signals it still has a handler for
          sigchld,     \* a SIGCHLD for the map is under way
          logFree,     \* printLock is not in the hands of a dead process
          reaped, faults

build    == <<ipc, wait>>
channels == <<linked, made, reading, toAirline, toMap>>
turns    == <<turn, reported>>
signals  == <<doExit, armed, sigchld, logFree, faults>>
vars     == <<build, channels, mail, pc, k, turns, signals, reaped>>

At(p, here)    == pc[p] = here
Goto(p, there) == pc' = [pc EXCEPT ![p] = there]

Init == /\ ipc \in {"fifo", "mqueue", "socket", "shmem"} /\ wait \in WaitBuilds
        /\ linked = {} /\ made = [p \in Process |-> 0]
        /\ reading = [p \in Process |-> Nowhere]
        /\ toAirline = [a \in Airlines |-> Nowhere]
        /\ toMap = [a \in Airlines |-> Nowhere]
        /\ mail = {}
        /\ pc = [p \in Process |-> IF p = Map THEN "fork" ELSE "unborn"]
        /\ k = 1
        /\ turn = 0 /\ reported = {}
        /\ doExit = FALSE /\ armed = [p \in Process |-> Signals \cup {"SIGCHLD"}]
        /\ sigchld = FALSE /\ logFree = TRUE /\ faults = 0
        /\ reaped = {}

-----------------------------------------------------------------------------
(* The names. *)

(* An end opens what is behind a name and makes it when there is nothing. *)
OpenOrMake(p) ==
    /\ linked' = linked \cup {p}
    /\ made' = [made EXCEPT ![p] = IF p \in linked THEN @ ELSE @ + 1]

(* Mutant of Listen: what an earlier run has left is removed first.              *)
ListenAnew(p) == /\ linked' = linked \cup {p}
                 /\ made' = [made EXCEPT ![p] = @ + 1]
                 /\ reading' = [reading EXCEPT ![p] = made'[p]]

(* ipc_listen; for a socket there is never anything there to open *)
Listen(p) == /\ OpenOrMake(p)
             /\ reading' = [reading EXCEPT ![p] = made'[p]]

(* ipc_establish: a socket is only made by the process that reads from it, the   *)
(* other end polls for its name.                                                 *)
Establish(p) == ipc = "socket" => p \in linked

(* The loop variable after a step of a loop over the airlines that leads from    *)
(* one place in the map process to another.                                      *)
Loop(here, there) == IF k < NumAirlines THEN k' = k + 1 /\ Goto(Map, here)
                                        ELSE k' = 1 /\ Goto(Map, there)

-----------------------------------------------------------------------------
(* The map process. *)

(* run_airlines: fork, whose failure nobody looks at; the child has the handlers *)
(* its parent has left.                                                          *)
Fork == /\ At(Map, "fork")
        /\ LET next == IF k < NumAirlines THEN "fork" ELSE "listen"
           IN  \/ /\ pc' = [pc EXCEPT ![k] = "forked", ![Map] = next]
                  /\ armed' = [armed EXCEPT ![k] = armed[Map]]
                  /\ UNCHANGED <<doExit, sigchld, logFree, faults>>
               \/ /\ faults < MaxFaults /\ faults' = faults + 1
                  /\ pc' = [pc EXCEPT ![k] = "missing", ![Map] = next]
                  /\ UNCHANGED <<doExit, armed, sigchld, logFree>>
        /\ k' = IF k < NumAirlines THEN k + 1 ELSE 1
        /\ UNCHANGED <<build, channels, mail, turns, reaped>>

MapListen == /\ At(Map, "listen") /\ Listen(Map)
             /\ Goto(Map, "establish")
             /\ UNCHANGED <<build, toAirline, toMap, mail, k, turns, signals, reaped>>

MapEstablish == /\ At(Map, "establish") /\ Establish(k)
                /\ OpenOrMake(k)
                /\ toAirline' = [toAirline EXCEPT ![k] = made'[k]]
                /\ Loop("establish", "turn")
                /\ UNCHANGED <<build, reading, toMap, mail, turns, signals, reaped>>

(* runMap: the head of its loop. *)
MapTurn == /\ At(Map, "turn") /\ logFree /\ ~doExit /\ turn < MaxTurns
           /\ turn' = turn + 1 /\ reported' = {}
           /\ mail' = mail \cup {<<a, toAirline[a], Map, "Step">> : a \in Airlines}
           /\ Goto(Map, "collect")
           /\ UNCHANGED <<build, channels, k, signals, reaped>>

MapLeaves == /\ At(Map, "turn") /\ logFree
             /\ Goto(Map, "end")
             /\ UNCHANGED <<build, channels, mail, k, turns, signals, reaped>>

MapCollect == /\ At(Map, "collect") /\ logFree
              /\ \E a \in Airlines :
                    LET report == <<Map, reading[Map], a, "Done">>
                    IN  /\ report \in mail
                        /\ mail' = mail \ {report}
                        /\ reported' = reported \cup {a}
              /\ IF reported' = Airlines THEN Goto(Map, "turn") ELSE UNCHANGED pc
              /\ UNCHANGED <<build, channels, k, turn, signals, reaped>>

(* Mutant of MapEnd: the loop starts one too far.                                *)
MapEndSkipsFirst == /\ At(Map, "end") /\ (k = 1 => logFree)
                    /\ mail' = IF k = 1 THEN mail
                                        ELSE mail \cup {<<k, toAirline[k], Map, "End">>}
                    /\ Loop("end", "wait")
                    /\ UNCHANGED <<build, channels, turns, signals, reaped>>

(* comm_end *)
MapEnd == /\ At(Map, "end") /\ (k = 1 => logFree)
          /\ mail' = mail \cup {<<k, toAirline[k], Map, "End">>}
          /\ Loop("end", "wait")
          /\ UNCHANGED <<build, channels, turns, signals, reaped>>

Children == {a \in Airlines : pc[a] \notin {"unborn", "missing"}}
Gone     == {a \in Airlines : pc[a] \in {"exited", "killed"}}

(* Mutant of MapWait: a wait that SIGCHLD interrupts is not repeated.            *)
MapWaitOnce == /\ At(Map, "wait")
               /\ \/ \E a \in Gone \ reaped : reaped' = reaped \cup {a}
                  \/ (Children \subseteq reaped \/ sigchld) /\ UNCHANGED reaped
               /\ Loop("wait", "leave")
               /\ UNCHANGED <<build, channels, mail, turns, signals>>

(* wait, repeated when it is interrupted; whatever child has gone will do, and   *)
(* without a child left (ECHILD) it returns.                                     *)
MapWait == /\ At(Map, "wait")
           /\ \/ \E a \in Gone \ reaped : reaped' = reaped \cup {a}
              \/ Children \subseteq reaped /\ UNCHANGED reaped
           /\ Loop("wait", "leave")
           /\ UNCHANGED <<build, channels, mail, turns, signals>>

(* ipc_end of the map process, and the end of main. *)
MapDone == /\ At(Map, "leave") /\ logFree
           /\ linked' = linked \ {Map}
           /\ Goto(Map, "done")
           /\ UNCHANGED <<build, made, reading, toAirline, toMap, mail, k, turns, signals,
                          reaped>>

-----------------------------------------------------------------------------
(* An airline: the child in run_airlines. *)

AirListen(a) == /\ At(a, "forked") /\ Listen(a)
                /\ Goto(a, "establish")
                /\ UNCHANGED <<build, toAirline, toMap, mail, k, turns, signals, reaped>>

AirEstablish(a) == /\ At(a, "establish") /\ Establish(Map)
                   /\ OpenOrMake(Map)
                   /\ toMap' = [toMap EXCEPT ![a] = made'[Map]]
                   /\ Goto(a, "inherited")
                   /\ UNCHANGED <<build, reading, toAirline, mail, k, turns, signals, reaped>>

(* register_exit_function(NULL) in run_airline: until here it has the handler of *)
(* its parent.                                                                   *)
AirRegister(a) == /\ At(a, "inherited") /\ logFree
                  /\ Goto(a, "listen")
                  /\ UNCHANGED <<build, channels, mail, k, turns, signals, reaped>>

(* listen, and the planes it runs *)
AirStep(a) == LET step == <<a, reading[a], Map, "Step">>
              IN  /\ At(a, "listen") /\ logFree /\ step \in mail
                  /\ mail' = (mail \ {step}) \cup {<<Map, toMap[a], a, "Done">>}
                  /\ UNCHANGED <<build, channels, pc, k, turns, signals, reaped>>

AirEnd(a) == LET end == <<a, reading[a], Map, "End">>
             IN  /\ At(a, "listen") /\ logFree /\ end \in mail
                 /\ mail' = mail \ {end}
                 /\ Goto(a, "leave")
                 /\ UNCHANGED <<build, channels, k, turns, signals, reaped>>

(* ipc_end and exit *)
AirExit(a) == /\ At(a, "leave") /\ logFree
              /\ linked' = linked \ {a}
              /\ Goto(a, "exited")
              /\ sigchld' = TRUE
              /\ UNCHANGED <<build, made, reading, toAirline, toMap, mail, k, turns, doExit,
                             armed, logFree, faults, reaped>>

-----------------------------------------------------------------------------
(* The signals. *)

Live(p) == pc[p] \notin {"unborn", "missing", "done", "exited", "killed"}

(* Nearly every step logs a line first, all processes under one lock; who is     *)
(* killed in the middle of a line keeps the others from writing theirs.          *)
Logs(p) == pc[p] \in {"turn", "collect", "end", "inherited", "listen", "leave"}

Killed(p) == /\ Goto(p, "killed")
             /\ sigchld' = IF p = Map THEN FALSE ELSE TRUE
             /\ logFree' \in IF Logs(p) THEN {logFree, FALSE} ELSE {logFree}

(* handle_signal with WAIT wakes the output thread, which runs during the turns: *)
(* before it is created and after it is joined, and in an airline that still has *)
(* this handler, pthread_kill may as well be the end of the process.             *)
NoOutputThread(p) == ~(p = Map /\ pc[Map] \in {"turn", "collect"})
HasHandler(p)     == p = Map \/ pc[p] \in {"forked", "establish", "inherited"}

Handle(p) == \/ /\ doExit' = IF p = Map THEN TRUE ELSE doExit
                /\ UNCHANGED <<pc, sigchld, logFree>>
             \/ /\ wait /\ HasHandler(p) /\ NoOutputThread(p)
                /\ Killed(p) /\ UNCHANGED doExit

(* A signal whose handler is spent takes its default action. *)
Signalled(p, s) ==
    /\ Live(p) /\ faults < MaxFaults /\ ipc \in {"socket", "shmem"}
    /\ faults' = faults + 1
    /\ IF s \in armed[p] THEN Handle(p) ELSE Killed(p) /\ UNCHANGED doExit
    /\ armed' = [armed EXCEPT ![p] = @ \ {s}]
    /\ UNCHANGED <<build, channels, mail, k, turns, reaped>>

(* ... which for SIGCHLD is to be ignored. *)
Sigchld == /\ sigchld /\ Live(Map)
           /\ IF "SIGCHLD" \in armed[Map]
              THEN \/ doExit' = TRUE /\ sigchld' = FALSE /\ UNCHANGED <<pc, logFree>>
                   \/ wait /\ NoOutputThread(Map) /\ Killed(Map) /\ UNCHANGED doExit
              ELSE sigchld' = FALSE /\ UNCHANGED <<doExit, pc, logFree>>
           /\ armed' = [armed EXCEPT ![Map] = @ \ {"SIGCHLD"}]
           /\ UNCHANGED <<build, channels, mail, k, turns, faults, reaped>>

-----------------------------------------------------------------------------
MapNext == Fork \/ MapListen \/ MapEstablish \/ MapTurn \/ MapLeaves \/ MapCollect
              \/ MapEnd \/ MapWait \/ MapDone
AirNext(a) == AirListen(a) \/ AirEstablish(a) \/ AirRegister(a) \/ AirStep(a) \/ AirEnd(a)
                 \/ AirExit(a)

Next == \/ MapNext \/ Sigchld
        \/ \E a \in Airlines : AirNext(a)
        \/ \E p \in Process, s \in Signals : Signalled(p, s)

Spec == Init /\ [][Next]_vars

(* Every process runs, and the kernel delivers SIGCHLD. *)
FairSpec == /\ Spec
            /\ WF_vars(MapNext) /\ WF_vars(Sigchld)
            /\ \A a \in Airlines : WF_vars(AirNext(a))

-----------------------------------------------------------------------------
Objects == 0 .. 2

TypeOK == /\ linked \subseteq Process /\ made \in [Process -> Objects]
          /\ reading \in [Process -> Objects]
          /\ toAirline \in [Airlines -> Objects] /\ toMap \in [Airlines -> Objects]
          /\ mail \subseteq Process \X Objects \X Process \X {"Step", "End", "Done"}
          /\ pc[Map] \in {"fork", "listen", "establish", "turn", "collect", "end", "wait",
                          "leave", "done", "killed"}
          /\ \A a \in Airlines : pc[a] \in {"unborn", "missing", "forked", "establish",
                                            "inherited", "listen", "leave", "exited",
                                            "killed"}
          /\ k \in Airlines /\ turn \in 0 .. MaxTurns /\ reported \subseteq Airlines
          /\ doExit \in BOOLEAN /\ sigchld \in BOOLEAN /\ logFree \in BOOLEAN
          /\ armed \in [Process -> SUBSET (Signals \cup {"SIGCHLD"})]
          /\ reaped \subseteq Gone /\ faults \in 0 .. MaxFaults

(* Whichever end of a name is first, both come to the same object: "para crear   *)
(* las Message Queues que no hayan sido creadas con anterioridad"                *)
(* (doc/informe.tex:183), fifo.c:34, 63, socket.c:82, shmem.c:64-66.             *)
SameChannel == \A a \in Airlines :
    /\ reading[a] # Nowhere /\ toAirline[a] # Nowhere => toAirline[a] = reading[a]
    /\ reading[Map] # Nowhere /\ toMap[a] # Nowhere => toMap[a] = reading[Map]

(* When the map process is done no airline runs any more, none is left a zombie, *)
(* and no name is left but those of airlines that were killed or never forked,   *)
(* whatever signals came when (main.c:124-148, 198-212).                         *)
CleanEnd == At(Map, "done") => /\ Children = Gone /\ Gone = reaped
                               /\ linked \subseteq {a \in Airlines : ~At(a, "exited")}

(* The map process ends, after a signal in the way it does without one, and      *)
(* everybody with it, unless it is killed, or some process is in the middle of a *)
(* log line (util.c:63), or it waits for a message or the name of an airline     *)
(* that is no more (map.c:71, 95, socket.c:82).  When an airline dies between    *)
(* two turns its SIGCHLD ends the simulation.                                    *)
Lost(a)     == pc[a] \in {"killed", "missing"}
WaitsFor(a) == \/ At(Map, "collect") /\ a \notin reported
               \/ At(Map, "establish") /\ k = a /\ a \notin linked

Ends == <>(\/ At(Map, "done") /\ \A p \in Process : ~Live(p)
           \/ At(Map, "killed") \/ ~logFree
           \/ \E a \in Airlines : Lost(a) /\ [](WaitsFor(a)))

(* "optamos por que al recibir una senal, la terminacion no fuera inmediata.     *)
(* Por el contrario, la senal activa un flag" (doc/informe.tex:339-340): no      *)
(* signal kills a process.                                                       *)
NotAtOnce == \A p \in Process : ~At(p, "killed")
=============================================================================
