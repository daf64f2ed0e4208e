------------------------------ MODULE KernelIpc ------------------------------
(* ipc/fifo.c, ipc/mqueue.c and ipc/socket.c: the channel of one process in the  *)
(* builds that leave it to the kernel.  Many threads of several processes write, *)
(* those of a process through one connection and its mutex; one thread reads: in *)
(* an airline listen, in the map process runMap.  The handlers are set with the  *)
(* signal() of -std=c99, so a signal makes a blocked call fail with EINTR        *)
(* (signal.c:14); what the three files and the reader make of that is the        *)
(* subject here.  The mutexes around the reads are left out: one thread reads.   *)
EXTENDS Naturals, Sequences

CONSTANTS Writers,
          Owner,       \* for each writer the process whose connection it uses
          Data, End,   \* the messages, and MessageTypeEnd among them
          None,        \* "no message"
          Garbage,     \* what an uninitialised buffer holds
          Capacity,    \* how many messages the kernel keeps for the reader
          MaxSignals   \* how many blocked calls a signal interrupts

Reader  == "reader"
Process == {Owner[w] : w \in Writers}

ASSUME ChannelAssumption == /\ Writers \subseteq DOMAIN Owner /\ Reader \notin Writers
                            /\ End \in Data /\ None \notin Data \cup Writers
                            /\ Capacity \in Nat \ {0} /\ MaxSignals \in Nat

VARIABLES ipc,      \* the IPC of the build
          caller,   \* the function that reads
          stream,   \* what is in the kernel, oldest first
          holder,   \* for each process the writer that holds its connection's mutex
          message,  \* for each writer the message of its call, or None
          failed,   \* the writers whose last write went wrong
          count,    \* in ipc_read of fifo.c: what was sent, or any number
          buffer,   \* the message buffer of the reader
          returned, \* what its last ipc_read returned
          torn,     \* history: ipc_read of fifo.c has used a count nobody sent
          fresh,    \* history: the buffer was filled by the last ipc_read
          pc, signals

build   == <<ipc, caller>>
writing == <<holder, message, failed>>
reading == <<count, buffer, returned, torn, fresh>>
vars    == <<build, stream, writing, reading, pc, signals>>

At(t, here)    == pc[t] = here
Goto(t, there) == pc' = [pc EXCEPT ![t] = there]
Signal         == signals < MaxSignals /\ signals' = signals + 1

Init == /\ ipc \in {"fifo", "mqueue", "socket"}
        /\ caller \in {"listen", "runMap"}
        /\ stream = <<>>
        /\ holder = [p \in Process |-> None]
        /\ message = [w \in Writers |-> None]
        /\ failed = {}
        /\ count = "sent" /\ buffer = None /\ returned = "length"
        /\ torn = FALSE /\ fresh = FALSE
        /\ pc = [t \in Writers \cup {Reader} |-> "idle"]
        /\ signals = 0

-----------------------------------------------------------------------------
(* ipc_write *)

(* A message takes two parts of a fifo, written at once: its length and itself. *)
Body(m)  == [part |-> "body", of |-> m]
Size(m)  == [part |-> "size", of |-> m]
Parts(m) == IF ipc = "fifo" THEN <<Size(m), Body(m)>> ELSE <<Body(m)>>

IsBody(part) == part.part = "body"
Fits(m)      == Len(stream) + Len(Parts(m)) <= Capacity * Len(Parts(m))

(* Every airline writes to the map, and only the map process to an airline.  An  *)
(* airline gets MessageTypeEnd last, from the main thread, which has joined the  *)
(* map thread by then (main.c:122-125).                                          *)
TheMap == CHOOSE p \in Process : TRUE

CallWrite(w, m) == /\ At(w, "idle")
                   /\ caller = "listen" => Owner[w] = TheMap
                   /\ \A v \in Writers : ~At(v, "done")
                   /\ m = End => caller = "listen" /\ \A v \in Writers : At(v, "idle")
                   /\ message' = [message EXCEPT ![w] = m]
                   /\ Goto(w, "lock")
                   /\ UNCHANGED <<build, stream, holder, failed, reading, signals>>

Lock(w) == /\ At(w, "lock") /\ holder[Owner[w]] = None
           /\ holder' = [holder EXCEPT ![Owner[w]] = w]
           /\ Goto(w, "send")
           /\ UNCHANGED <<build, stream, message, failed, reading, signals>>

(* Mutant of Send: the length and the message are written one after the other.   *)
SendInTwo(w) ==
    /\ \/ /\ At(w, "send") /\ Fits(message[w])
          /\ stream' = Append(stream, Parts(message[w])[1])
          /\ Goto(w, IF ipc = "fifo" THEN "send2" ELSE "unlock")
       \/ /\ At(w, "send2")
          /\ stream' = Append(stream, Body(message[w]))
          /\ Goto(w, "unlock")
    /\ failed' = failed \ {w}
    /\ UNCHANGED <<build, holder, message, reading, signals>>

(* write, mq_send, sendto: the call blocks until there is room. *)
Send(w) == /\ At(w, "send") /\ Fits(message[w])
           /\ stream' = stream \o Parts(message[w])
           /\ failed' = failed \ {w}
           /\ Goto(w, "unlock")
           /\ UNCHANGED <<build, holder, message, reading, signals>>

Return(w) == /\ message' = [message EXCEPT ![w] = None]
             /\ Goto(w, IF message[w] = End THEN "done" ELSE "idle")

(* Mutant of SendInterrupted: the sockets return without unlocking as well.      *)
SendInterruptedKeeps(w) ==
    /\ At(w, "send") /\ ~Fits(message[w]) /\ Signal
    /\ failed' = failed \cup {w}
    /\ IF ipc = "fifo" THEN Goto(w, "unlock") /\ UNCHANGED message ELSE Return(w)
    /\ UNCHANGED <<build, stream, holder, reading>>

(* A blocked call is not repeated, only reported; mqueue.c:103-106 returns with  *)
(* the mutex locked.                                                             *)
SendInterrupted(w) ==
    /\ At(w, "send") /\ ~Fits(message[w]) /\ Signal
    /\ failed' = failed \cup {w}
    /\ IF ipc = "mqueue" THEN Return(w) ELSE Goto(w, "unlock") /\ UNCHANGED message
    /\ UNCHANGED <<build, stream, holder, reading>>

Unlock(w) == /\ At(w, "unlock")
             /\ holder' = [holder EXCEPT ![Owner[w]] = None]
             /\ Return(w)
             /\ UNCHANGED <<build, stream, failed, reading, signals>>

-----------------------------------------------------------------------------
(* ipc_read *)

CallRead == /\ At(Reader, "idle")
            /\ Goto(Reader, IF ipc = "fifo" THEN "size" ELSE "body")
            /\ fresh' = FALSE /\ returned' = "length"
            /\ UNCHANGED <<build, stream, writing, count, buffer, torn, signals>>

(* The first read of fifo.c: eight bytes, taken to be a length. *)
ReadSize == /\ At(Reader, "size") /\ stream # <<>>
            /\ stream' = Tail(stream)
            /\ count' = IF IsBody(Head(stream)) THEN "any" ELSE "sent"
            /\ torn' = (torn \/ IsBody(Head(stream)))
            /\ Goto(Reader, "body")
            /\ UNCHANGED <<build, writing, buffer, returned, fresh, signals>>

(* ... whose result is not looked at: interrupted, it leaves count uninitialised.*)
SizeInterrupted == /\ At(Reader, "size") /\ stream = <<>> /\ Signal
                   /\ count' = "any" /\ torn' = TRUE
                   /\ Goto(Reader, "body")
                   /\ UNCHANGED <<build, stream, writing, buffer, returned, fresh>>

(* Mutant of ReadBody: the newest message is read.                               *)
ReadNewest == /\ At(Reader, "body") /\ count = "sent" /\ stream # <<>>
              /\ buffer' = stream[Len(stream)].of
              /\ stream' = SubSeq(stream, 1, Len(stream) - 1)
              /\ fresh' = TRUE
              /\ Goto(Reader, "handle")
              /\ UNCHANGED <<build, writing, count, returned, torn, signals>>

(* The second read of fifo.c, mq_receive, read from the socket. *)
ReadBody == /\ At(Reader, "body") /\ count = "sent" /\ stream # <<>>
            /\ buffer' = Head(stream).of
            /\ stream' = Tail(stream)
            /\ fresh' = TRUE
            /\ Goto(Reader, "handle")
            /\ UNCHANGED <<build, writing, count, returned, torn, signals>>

(* With a wrong count fifo.c takes any number of parts, or none (count 0, or the *)
(* call is interrupted), copies what its own buffer held and returns a length.   *)
ReadAnything == /\ At(Reader, "body") /\ count = "any"
                /\ \E n \in 0 .. Len(stream) : stream' = SubSeq(stream, n + 1, Len(stream))
                /\ buffer' = Garbage
                /\ Goto(Reader, "handle")
                /\ UNCHANGED <<build, writing, count, returned, torn, fresh, signals>>

(* Mutant of Repeats: nobody looks at errno.                                     *)
NeverRepeats == FALSE

(* while ((res = read(...)) == -1 && errno == EINTR), socket.c:108 *)
Repeats == ipc = "socket"

ReadInterrupted == /\ At(Reader, "body") /\ count = "sent" /\ stream = <<>> /\ Signal
                   /\ IF Repeats THEN UNCHANGED <<pc, returned>>
                      ELSE returned' = "error" /\ Goto(Reader, "handle")
                   /\ UNCHANGED <<build, stream, writing, count, buffer, torn, fresh>>

(* listen leaves its loop when comm_airline_recieve fails and on any message but *)
(* the four it knows; runMap handles what is in its buffer in any case.          *)
Handle == /\ At(Reader, "handle")
          /\ \/ /\ caller = "listen" => returned # "error" /\ buffer # End
                /\ Goto(Reader, "idle")
             \/ /\ caller = "listen"
                /\ returned = "error" \/ buffer \in {End, Garbage}
                /\ Goto(Reader, "left")
          /\ UNCHANGED <<build, stream, writing, reading, signals>>

-----------------------------------------------------------------------------
Read == ReadSize \/ ReadBody \/ ReadAnything \/ Handle
Interruption == SizeInterrupted \/ ReadInterrupted \/ \E w \in Writers : SendInterrupted(w)

Next == \/ \E w \in Writers : \/ Lock(w) \/ Send(w) \/ Unlock(w)
                              \/ \E m \in Data : CallWrite(w, m)
        \/ CallRead \/ Read
        \/ Interruption

Spec == Init /\ [][Next]_vars

-----------------------------------------------------------------------------
TypeOK == /\ \A i \in DOMAIN stream : stream[i] \in [part : {"size", "body"}, of : Data]
          /\ holder \in [Process -> Writers \cup {None}]
          /\ message \in [Writers -> Data \cup {None}]
          /\ \A w \in Writers : (message[w] = None) <=> (pc[w] \in {"idle", "done"})
          /\ failed \subseteq Writers
          /\ count \in {"sent", "any"} /\ returned \in {"length", "error"}
          /\ buffer \in Data \cup {None, Garbage}
          /\ \A w \in Writers : pc[w] \in {"idle", "lock", "send", "unlock", "done"}
          /\ pc[Reader] \in {"idle", "size", "body", "handle", "left"}
          /\ torn \in BOOLEAN /\ fresh \in BOOLEAN
          /\ signals \in 0 .. MaxSignals

(* doc/informe.tex:222-225, the length and the message of a fifo go out in one   *)
(* write to make the transmission atomic: whatever processes write at the same   *)
(* time, what is in the fifo is a sequence of messages behind their lengths, and *)
(* the reader is between two of them or behind the length of one (fifo.c:105).   *)
WellFramed == ipc = "fifo" /\ ~torn =>
    LET ahead == IF At(Reader, "body") THEN <<Size(Head(stream).of)>> \o stream ELSE stream
        Odd   == {i \in DOMAIN ahead : i % 2 = 1}
    IN  /\ Len(ahead) % 2 = 0
        /\ \A i \in Odd : ahead[i] = Size(ahead[i + 1].of) /\ IsBody(ahead[i + 1])

(* A write that is not under way holds no mutex, so that the other threads of    *)
(* its process can write; except with message queues, where a failed mq_send     *)
(* keeps it for good (mqueue.c:103-107).                                         *)
MutexGivenBack == \A p \in Process : holder[p] # None =>
    \/ pc[holder[p]] \in {"send", "unlock"}
    \/ ipc = "mqueue" /\ holder[p] \in failed

(* The reader acts on a message it has just read.  Only after a signal, and      *)
(* never with sockets, does it act on none or on an old one (map.c:73, 96;       *)
(* fifo.c:120-122, mqueue.c:93, socket.c:108).                                   *)
ReadsAnew == At(Reader, "handle") => fresh \/ (ipc # "socket" /\ signals > 0)

(* The comment at airline.c:56: "If we got here, it means we recieved an end     *)
(* message" (listen, airline.c:102-128).                                         *)
EndReceived == At(Reader, "left") => buffer = End

(* The bodies in the channel: in a fifo every second part, from the first one    *)
(* when the reader has taken its length.                                         *)
Behind == IF At(Reader, "body") THEN 1 ELSE 0
Bodies == IF ipc = "fifo"
          THEN [n \in 1 .. (Len(stream) + Behind) \div 2 |-> stream[2 * n - Behind]]
          ELSE stream

(* In all three builds a channel is a FIFO that repeats and reorders nothing,    *)
(* and loses a message only by telling its writer so; a fifo, until the first    *)
(* read of a length is interrupted (fifo.c:90-130, mqueue.c:89-109,              *)
(* socket.c:89-115).                                                             *)
Fifo == INSTANCE BoundedFifo WITH
            q <- [i \in DOMAIN Bodies |-> Bodies[i].of],
            Producers <- Writers, Consumers <- {Reader},
            pending <- [w \in Writers |->
                           IF pc[w] \in {"lock", "send"} THEN message[w] ELSE None],
            popping <- IF pc[Reader] \in {"size", "body"} THEN {Reader} ELSE {},
            got <- [r \in {Reader} |-> buffer]

ReportedFailure == /\ UNCHANGED <<Bodies, buffer>>
                   /\ \/ returned' = "error" /\ UNCHANGED message
                      \/ \E w \in Writers : w \in failed' /\ At(w, "send") /\ ~At(w, "send")'

LosesNothingSilently ==
    Fifo!Init /\ [][~torn' => Fifo!Next \/ ReportedFailure]_(Fifo!vars)
=============================================================================
