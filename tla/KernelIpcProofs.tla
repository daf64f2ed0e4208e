-------------------------- MODULE KernelIpcProofs --------------------------
(* Theorems about KernelIpc, for any number of writers, any messages and any     *)
(* capacity of the kernel.                                                       *)
EXTENDS KernelIpc, SequenceTheorems, TLAPS

-----------------------------------------------------------------------------
(* What the variables hold, and where each build's calls can be.                 *)

Part         == [part : {"size", "body"}, of : Data]
WriterPlaces == {"idle", "lock", "send", "unlock", "done"}
ReaderPlaces == {"idle", "size", "body", "handle", "left"}

Shapes == /\ ipc \in {"fifo", "mqueue", "socket"}
          /\ stream \in Seq(Part)
          /\ holder \in [Process -> Writers \cup {None}]
          /\ message \in [Writers -> Data \cup {None}]
          /\ failed \subseteq Writers
          /\ count \in {"sent", "any"} /\ returned \in {"length", "error"}
          /\ buffer \in Data \cup {None, Garbage}
          /\ torn \in BOOLEAN /\ fresh \in BOOLEAN
          /\ pc \in [Writers \cup {Reader} -> WriterPlaces \cup ReaderPlaces]
          /\ pc[Reader] \in ReaderPlaces
          /\ signals \in 0 .. MaxSignals

Calls == \A w \in Writers : /\ pc[w] \in WriterPlaces
                            /\ message[w] = None <=> pc[w] \in {"idle", "done"}

(* A mutex is held by a thread of the process it belongs to.                     *)
OwnMutex == \A p \in Process : holder[p] # None => Owner[holder[p]] = p

Inv == Shapes /\ Calls /\ OwnMutex /\ MutexGivenBack

(* A fifo holds each message behind its length, shifted by one when the reader   *)
(* has taken a length; and it loses this order only by a signal.                 *)
FramedBy(s, behind, n) ==
    /\ Len(s) + behind = 2 * n
    /\ \A j \in 1 .. n : /\ IsBody(s[2 * j - behind])
                         /\ 2 * j - behind > 1 =>
                               s[2 * j - behind - 1] = Size(s[2 * j - behind].of)

Framed == \E n \in Nat : FramedBy(stream, Behind, n)

Framing == /\ count = "any" => torn
           /\ torn => ipc = "fifo" /\ signals > 0
           /\ At(Reader, "size") => ipc = "fifo"
           /\ ipc = "fifo" /\ ~torn => Framed

LEMMA InitInv == Init => Inv
  <1> SUFFICES ASSUME Init PROVE Inv
    OBVIOUS
  <1>1. stream \in Seq(Part) /\ signals \in 0 .. MaxSignals
    BY ChannelAssumption DEF Init
  <1>2. Shapes
    BY <1>1 DEF Init, Shapes, WriterPlaces, ReaderPlaces
  <1>3. Calls
    BY DEF Init, Calls, WriterPlaces
  <1>4. OwnMutex /\ MutexGivenBack
    BY DEF Init, OwnMutex, MutexGivenBack
  <1> QED
    BY <1>2, <1>3, <1>4 DEF Inv

LEMMA PartFacts ==
    ASSUME NEW m \in Data
    PROVE  /\ Size(m) \in Part /\ Body(m) \in Part /\ ~IsBody(Size(m)) /\ IsBody(Body(m))
           /\ Size(m).of = m /\ Body(m).of = m
           /\ Parts(m) \in Seq(Part)
           /\ ipc = "fifo" => Len(Parts(m)) = 2 /\ Parts(m)[1] = Size(m) /\ Parts(m)[2] = Body(m)
           /\ ipc # "fifo" => Len(Parts(m)) = 1 /\ Parts(m)[1] = Body(m)
  <1>1. /\ Size(m) \in Part /\ Body(m) \in Part /\ ~IsBody(Size(m)) /\ IsBody(Body(m))
        /\ Size(m).of = m /\ Body(m).of = m
    BY DEF Size, Body, Part, IsBody
  <1>2. CASE ipc = "fifo"
    <2>1. Parts(m) = <<Size(m), Body(m)>>
      BY <1>2 DEF Parts
    <2> QED
      BY <1>1, <1>2, <2>1
  <1>3. CASE ipc # "fifo"
    <2>1. Parts(m) = <<Body(m)>>
      BY <1>3 DEF Parts
    <2> QED
      BY <1>1, <1>3, <2>1
  <1> QED
    BY <1>2, <1>3

LEMMA NextShapes ==
    ASSUME Shapes, Calls, [Next]_vars
    PROVE  Shapes'
  <1> USE ChannelAssumption DEF WriterPlaces, ReaderPlaces, At, Goto
  <1>1. ASSUME NEW w \in Writers, NEW m \in Data, CallWrite(w, m) PROVE Shapes'
    BY <1>1 DEF CallWrite, Shapes, build, reading
  <1>2. ASSUME NEW w \in Writers, Lock(w) PROVE Shapes'
    BY <1>2 DEF Lock, Shapes, build, reading
  <1>3. ASSUME NEW w \in Writers, Send(w) PROVE Shapes'
    <2>1. message[w] \in Data
      BY <1>3 DEF Send, Shapes, Calls
    <2>2. stream' \in Seq(Part)
      BY <1>3, <2>1, PartFacts, ConcatProperties DEF Send, Shapes
    <2> QED
      BY <1>3, <2>2 DEF Send, Shapes, build, reading
  <1>4. ASSUME NEW w \in Writers, SendInterrupted(w) PROVE Shapes'
    <2>1. signals' \in 0 .. MaxSignals
      BY <1>4 DEF SendInterrupted, Signal, Shapes
    <2> QED
      BY <1>4, <2>1 DEF SendInterrupted, Return, Shapes, build, reading
  <1>5. ASSUME NEW w \in Writers, Unlock(w) PROVE Shapes'
    BY <1>5 DEF Unlock, Return, Shapes, build, reading, Process
  <1>6. CASE CallRead
    BY <1>6 DEF CallRead, Shapes, build, writing
  <1>7. CASE ReadSize
    <2>1. stream' \in Seq(Part)
      BY <1>7, HeadTailProperties DEF ReadSize, Shapes
    <2> QED
      BY <1>7, <2>1 DEF ReadSize, Shapes, build, writing
  <1>8. CASE SizeInterrupted
    <2>1. signals' \in 0 .. MaxSignals
      BY <1>8 DEF SizeInterrupted, Signal, Shapes
    <2> QED
      BY <1>8, <2>1 DEF SizeInterrupted, Shapes, build, writing
  <1>9. CASE ReadBody
    <2>1. stream' \in Seq(Part) /\ Head(stream) \in Part
      BY <1>9, HeadTailProperties DEF ReadBody, Shapes
    <2>2. Head(stream).of \in Data
      BY <2>1 DEF Part
    <2> QED
      BY <1>9, <2>1, <2>2 DEF ReadBody, Shapes, build, writing
  <1>10. CASE ReadAnything
    <2>1. stream' \in Seq(Part)
      BY <1>10, SubSeqProperties DEF ReadAnything, Shapes
    <2> QED
      BY <1>10, <2>1 DEF ReadAnything, Shapes, build, writing
  <1>11. CASE ReadInterrupted
    <2>1. signals' \in 0 .. MaxSignals
      BY <1>11 DEF ReadInterrupted, Signal, Shapes
    <2> QED
      BY <1>11, <2>1 DEF ReadInterrupted, Shapes, build, writing
  <1>12. CASE Handle
    BY <1>12 DEF Handle, Shapes, build, writing, reading
  <1>13. CASE UNCHANGED vars
    BY <1>13 DEF vars, build, writing, reading, Shapes
  <1> QED
    BY <1>1, <1>2, <1>3, <1>4, <1>5, <1>6, <1>7, <1>8, <1>9, <1>10, <1>11, <1>12, <1>13
       DEF Next, Read, Interruption

LEMMA NextCalls ==
    ASSUME Shapes, Calls, [Next]_vars
    PROVE  Calls'
  <1> USE ChannelAssumption DEF WriterPlaces, At, Goto, Calls
  <1>1. ASSUME NEW w \in Writers, NEW m \in Data, CallWrite(w, m) PROVE Calls'
    BY <1>1 DEF CallWrite, Shapes
  <1>2. ASSUME NEW w \in Writers, Lock(w) \/ Send(w) PROVE Calls'
    BY <1>2 DEF Lock, Send, Shapes
  <1>3. ASSUME NEW w \in Writers, SendInterrupted(w) \/ Unlock(w) PROVE Calls'
    BY <1>3 DEF SendInterrupted, Unlock, Return, Shapes
  <1>4. CASE CallRead \/ Read \/ SizeInterrupted \/ ReadInterrupted
    BY <1>4 DEF CallRead, Read, ReadSize, SizeInterrupted, ReadBody, ReadAnything, ReadInterrupted,
                Handle, Shapes, writing
  <1>5. CASE UNCHANGED vars
    BY <1>5 DEF vars, writing
  <1> QED
    BY <1>1, <1>2, <1>3, <1>4, <1>5 DEF Next, Interruption

LEMMA NextMutex ==
    ASSUME Inv, [Next]_vars
    PROVE  OwnMutex' /\ MutexGivenBack'
  <1> USE ChannelAssumption DEF Inv, At, Goto, OwnMutex, MutexGivenBack
  <1>1. ASSUME NEW w \in Writers, NEW m \in Data, CallWrite(w, m)
        PROVE  OwnMutex' /\ MutexGivenBack'
    BY <1>1 DEF CallWrite, Shapes, build
  <1>2. ASSUME NEW w \in Writers, Lock(w) PROVE OwnMutex' /\ MutexGivenBack'
    BY <1>2 DEF Lock, Shapes, build
  <1>3. ASSUME NEW w \in Writers, Send(w) PROVE OwnMutex' /\ MutexGivenBack'
    BY <1>3 DEF Send, Shapes, build
  <1>4. ASSUME NEW w \in Writers, SendInterrupted(w) PROVE OwnMutex' /\ MutexGivenBack'
    BY <1>4 DEF SendInterrupted, Return, Shapes, build
  <1>5. ASSUME NEW w \in Writers, Unlock(w) PROVE OwnMutex' /\ MutexGivenBack'
    BY <1>5 DEF Unlock, Return, Shapes, build
  <1>6. CASE CallRead \/ Read \/ SizeInterrupted \/ ReadInterrupted
    <2>1. /\ holder' = holder /\ failed' = failed /\ ipc' = ipc
          /\ \A w \in Writers : pc'[w] = pc[w]
      BY <1>6 DEF CallRead, Read, ReadSize, SizeInterrupted, ReadBody, ReadAnything,
                  ReadInterrupted, Handle, Shapes, writing, build
    <2> QED
      BY <2>1 DEF Shapes
  <1>7. CASE UNCHANGED vars
    BY <1>7 DEF vars, writing, build
  <1> QED
    BY <1>1, <1>2, <1>3, <1>4, <1>5, <1>6, <1>7 DEF Next, Interruption

LEMMA InvHolds == Spec => []Inv
  <1>1. Inv /\ [Next]_vars => Inv'
    BY NextShapes, NextCalls, NextMutex DEF Inv
  <1> QED
    BY InitInv, <1>1, PTL DEF Spec

(* The bookkeeping of the calls is well typed in every build.                    *)
THEOREM ChannelTypeCorrect == Spec => []TypeOK
  <1>1. Inv => TypeOK
    <2> SUFFICES ASSUME Inv PROVE TypeOK
      OBVIOUS
    <2>1. \A i \in DOMAIN stream : stream[i] \in Part
      BY DEF Inv, Shapes
    <2> QED
      BY <2>1 DEF Inv, Shapes, Calls, TypeOK, Part, WriterPlaces, ReaderPlaces
  <1> QED
    BY InvHolds, <1>1, PTL

(* Whoever writes through a connection, and whatever call a signal interrupts,   *)
(* its mutex is given back, except that a failed mq_send keeps it                *)
(* (fifo.c:90-108, mqueue.c:97-109, socket.c:89-101).                            *)
THEOREM MutexReturns == Spec => []MutexGivenBack
  <1>1. Inv => MutexGivenBack
    BY DEF Inv
  <1> QED
    BY InvHolds, <1>1, PTL

-----------------------------------------------------------------------------
(* The framing of a fifo.                                                        *)

LEMMA FrameAppended ==
    ASSUME NEW s \in Seq(Part), NEW behind \in {0, 1}, NEW n \in Nat, FramedBy(s, behind, n),
           NEW m \in Data
    PROVE  FramedBy(s \o <<Size(m), Body(m)>>, behind, n + 1)
  <1> DEFINE more == s \o <<Size(m), Body(m)>>
  <1>1. /\ Size(m) \in Part /\ Body(m) \in Part /\ IsBody(Body(m)) /\ Body(m).of = m
    BY PartFacts
  <1>2. /\ Len(more) = Len(s) + 2 /\ Len(s) \in Nat
        /\ \A i \in 1 .. Len(s) : more[i] = s[i]
        /\ more[Len(s) + 1] = Size(m) /\ more[Len(s) + 2] = Body(m)
    BY <1>1, ConcatProperties
  <1> HIDE DEF more
  <1>3. ASSUME NEW j \in 1 .. n
        PROVE  /\ IsBody(more[2 * j - behind])
               /\ 2 * j - behind > 1 => more[2 * j - behind - 1] = Size(more[2 * j - behind].of)
    <2>1. 2 * j - behind \in 1 .. Len(s)
      BY SMT DEF FramedBy
    <2>2. 2 * j - behind > 1 => 2 * j - behind - 1 \in 1 .. Len(s)
      BY <2>1, <1>2
    <2> QED
      BY <1>2, <2>1, <2>2 DEF FramedBy
  <1>4. 2 * (n + 1) - behind = Len(s) + 2 /\ 2 * (n + 1) - behind - 1 = Len(s) + 1
    BY <1>2 DEF FramedBy
  <1>5. /\ IsBody(more[2 * (n + 1) - behind])
        /\ more[2 * (n + 1) - behind - 1] = Size(more[2 * (n + 1) - behind].of)
    BY <1>1, <1>2, <1>4
  <1>6. \A j \in 1 .. n + 1 : j \in 1 .. n \/ j = n + 1
    BY SMT
  <1>7. Len(more) + behind = 2 * (n + 1)
    <2>1. Len(s) + behind = 2 * n
      BY DEF FramedBy
    <2>2. Len(more) = Len(s) + 2 /\ Len(s) \in Nat
      BY <1>2
    <2>3. \A a, b, c, k \in Int :
             a + b = 2 * k /\ c = a + 2 => c + b = 2 * (k + 1)
      OBVIOUS
    <2>4. Len(s) \in Int /\ behind \in Int /\ Len(more) \in Int /\ n \in Int
      BY <2>2
    <2> QED
      BY <2>1, <2>2, <2>3, <2>4
  <1> QED
    BY <1>3, <1>5, <1>6, <1>7 DEF FramedBy, more

LEMMA FrameLengthRead ==
    ASSUME NEW s \in Seq(Part), s # <<>>, NEW n \in Nat, FramedBy(s, 0, n)
    PROVE  ~IsBody(Head(s)) /\ FramedBy(Tail(s), 1, n)
  <1>1. /\ Len(Tail(s)) = Len(s) - 1 /\ Len(s) \in Nat /\ Len(s) > 0
        /\ \A i \in 1 .. Len(Tail(s)) : Tail(s)[i] = s[i + 1]
        /\ Head(s) = s[1]
    BY HeadTailProperties
  <1>2. n >= 1 /\ 1 \in 1 .. n /\ 2 * 1 - 0 - 1 = 1 /\ 2 * 1 - 0 > 1 /\ 2 * 1 - 0 = 2
    BY <1>1 DEF FramedBy
  <1>3. s[1] = Size(s[2].of)
    BY <1>2 DEF FramedBy
  <1>4. ~IsBody(Head(s))
    BY <1>1, <1>3 DEF IsBody, Size
  <1>5. ASSUME NEW j \in 1 .. n
        PROVE  /\ IsBody(Tail(s)[2 * j - 1])
               /\ 2 * j - 1 > 1 => Tail(s)[2 * j - 1 - 1] = Size(Tail(s)[2 * j - 1].of)
    <2>1. 2 * j - 1 \in 1 .. Len(Tail(s)) /\ (2 * j - 1) + 1 = 2 * j - 0
      BY <1>1, SMT DEF FramedBy
    <2>2. Tail(s)[2 * j - 1] = s[2 * j - 0]
      BY <1>1, <2>1
    <2>3. 2 * j - 1 > 1 => /\ 2 * j - 1 - 1 \in 1 .. Len(Tail(s))
                           /\ (2 * j - 1 - 1) + 1 = 2 * j - 0 - 1
                           /\ 2 * j - 0 > 1
      BY <2>1, <1>1
    <2>4. 2 * j - 1 > 1 => Tail(s)[2 * j - 1 - 1] = s[2 * j - 0 - 1]
      BY <1>1, <2>3
    <2>5. IsBody(s[2 * j - 0]) /\ (2 * j - 0 > 1 => s[2 * j - 0 - 1] = Size(s[2 * j - 0].of))
      BY DEF FramedBy
    <2> QED
      BY <2>2, <2>3, <2>4, <2>5
  <1> QED
    BY <1>1, <1>4, <1>5 DEF FramedBy

LEMMA FrameMessageRead ==
    ASSUME NEW s \in Seq(Part), s # <<>>, NEW n \in Nat, FramedBy(s, 1, n)
    PROVE  n >= 1 /\ n - 1 \in Nat /\ FramedBy(Tail(s), 0, n - 1)
  <1>1. /\ Len(Tail(s)) = Len(s) - 1 /\ Len(s) \in Nat /\ Len(s) > 0
        /\ \A i \in 1 .. Len(Tail(s)) : Tail(s)[i] = s[i + 1]
    BY HeadTailProperties
  <1>2. n >= 1 /\ n - 1 \in Nat /\ Len(Tail(s)) + 0 = 2 * (n - 1)
    <2>1. Len(s) + 1 = 2 * n
      BY DEF FramedBy
    <2>2. \A a, b, c \in Nat : a + 1 = 2 * c /\ a > 0 /\ b = a - 1
                                  => c >= 1 /\ c - 1 \in Nat /\ b + 0 = 2 * (c - 1)
      BY SMT
    <2>3. Len(Tail(s)) \in Nat
      BY <1>1, SMT
    <2> QED
      BY <1>1, <2>1, <2>2, <2>3
  <1>3. ASSUME NEW j \in 1 .. n - 1
        PROVE  /\ IsBody(Tail(s)[2 * j - 0])
               /\ 2 * j - 0 > 1 => Tail(s)[2 * j - 0 - 1] = Size(Tail(s)[2 * j - 0].of)
    <2>1. /\ 2 * j - 0 \in 1 .. Len(Tail(s)) /\ 2 * j - 0 - 1 \in 1 .. Len(Tail(s))
          /\ (2 * j - 0) + 1 = 2 * (j + 1) - 1 /\ (2 * j - 0 - 1) + 1 = 2 * (j + 1) - 1 - 1
          /\ j + 1 \in 1 .. n /\ 2 * (j + 1) - 1 > 1
      BY <1>2, SMT
    <2>2. /\ Tail(s)[2 * j - 0] = s[2 * (j + 1) - 1]
          /\ Tail(s)[2 * j - 0 - 1] = s[2 * (j + 1) - 1 - 1]
      BY <1>1, <2>1
    <2>3. /\ IsBody(s[2 * (j + 1) - 1])
          /\ s[2 * (j + 1) - 1 - 1] = Size(s[2 * (j + 1) - 1].of)
      BY <2>1 DEF FramedBy
    <2> QED
      BY <2>2, <2>3
  <1> QED
    BY <1>2, <1>3 DEF FramedBy


LEMMA InitFraming == Init => Framing
  <1> SUFFICES ASSUME Init PROVE Framing
    OBVIOUS
  <1>1. FramedBy(stream, Behind, 0)
    BY DEF Init, FramedBy, Behind, At
  <1>2. Framed
    BY <1>1 DEF Framed
  <1> QED
    BY <1>2 DEF Init, Framing, At

(* A step that leaves the stream and the reader's place in it.                   *)
LEMMA FramingKept ==
    ASSUME Shapes, Framing, stream' = stream, At(Reader, "body")' <=> At(Reader, "body"),
           At(Reader, "size")' => At(Reader, "size") \/ ipc = "fifo",
           ipc' = ipc, count' = count, torn' = torn, signals' >= signals, signals' \in Nat
    PROVE  Framing'
  <1>1. Framed => Framed'
    BY DEF Framed, Behind
  <1>2. signals > 0 => signals' > 0
    BY DEF Shapes
  <1> QED
    BY <1>1, <1>2 DEF Framing

LEMMA NextFraming ==
    ASSUME Inv, Inv', Framing, [Next]_vars
    PROVE  Framing'
  <1> USE ChannelAssumption
  <1>0. signals \in Nat /\ signals' \in Nat /\ signals >= signals /\ (Signal => signals' > 0)
    BY DEF Inv, Shapes, Signal
  <1>1. ASSUME NEW w \in Writers, NEW m \in Data, CallWrite(w, m) PROVE Framing'
    BY <1>0, <1>1, FramingKept DEF CallWrite, Goto, At, Inv, Shapes, build, reading
  <1>2. ASSUME NEW w \in Writers, Lock(w) \/ Unlock(w) PROVE Framing'
    BY <1>0, <1>2, FramingKept DEF Lock, Unlock, Return, Goto, At, Inv, Shapes, build, reading
  <1>3. ASSUME NEW w \in Writers, Send(w) PROVE Framing'
    <2>1. /\ message[w] \in Data /\ stream \in Seq(Part) /\ Behind \in {0, 1} /\ Behind' = Behind
          /\ UNCHANGED <<ipc, count, torn, signals>> /\ pc'[Reader] = pc[Reader]
          /\ stream' = stream \o Parts(message[w])
      BY <1>3 DEF Send, Inv, Shapes, Calls, Behind, At, Goto, build, reading
    <2>2. ASSUME ipc = "fifo", Framed PROVE Framed'
      <3>1. PICK n \in Nat : FramedBy(stream, Behind, n)
        BY <2>2 DEF Framed
      <3>2. stream' = stream \o <<Size(message[w]), Body(message[w])>>
        BY <2>1, <2>2 DEF Parts
      <3>3. FramedBy(stream', Behind', n + 1) /\ n + 1 \in Nat
        BY <2>1, <3>1, <3>2, FrameAppended
      <3> QED
        BY <3>3 DEF Framed
    <2> QED
      BY <2>1, <2>2 DEF Framing, At
  <1>4. ASSUME NEW w \in Writers, SendInterrupted(w) PROVE Framing'
    <2>1. signals' >= signals
      BY <1>4, <1>0 DEF SendInterrupted, Signal
    <2> QED
      BY <1>0, <1>4, <2>1, FramingKept
         DEF SendInterrupted, Return, Goto, At, Inv, Shapes, build, reading
  <1>5. CASE CallRead
    <2>1. /\ ~At(Reader, "body") /\ UNCHANGED <<ipc, stream, count, torn, signals>>
          /\ pc'[Reader] = IF ipc = "fifo" THEN "size" ELSE "body"
      BY <1>5 DEF CallRead, Goto, At, Inv, Shapes, build
    <2>2. CASE ipc = "fifo"
      BY <1>0, <2>1, <2>2, FramingKept DEF At, Inv
    <2>3. CASE ipc # "fifo"
      BY <2>1, <2>3 DEF Framing, At
    <2> QED
      BY <2>2, <2>3
  <1>6. CASE ReadSize
    <2>1. /\ At(Reader, "size") /\ ipc = "fifo" /\ ipc' = ipc /\ signals' = signals
          /\ stream # <<>> /\ stream' = Tail(stream) /\ stream \in Seq(Part)
          /\ torn' = (torn \/ IsBody(Head(stream))) /\ Behind = 0 /\ Behind' = 1
          /\ ~At(Reader, "size")'
          /\ count' = IF IsBody(Head(stream)) THEN "any" ELSE "sent"
      BY <1>6 DEF ReadSize, Goto, At, Behind, Framing, Inv, Shapes, build
    <2>2. ASSUME ~torn PROVE ~torn' /\ Framed'
      <3>1. PICK n \in Nat : FramedBy(stream, 0, n)
        BY <2>1, <2>2 DEF Framing, Framed
      <3>2. ~IsBody(Head(stream)) /\ FramedBy(Tail(stream), 1, n)
        BY <2>1, <3>1, FrameLengthRead
      <3>3. FramedBy(stream', Behind', n)
        BY <2>1, <3>2
      <3> QED
        BY <2>1, <2>2, <3>2, <3>3 DEF Framed
    <2> QED
      BY <2>1, <2>2 DEF Framing
  <1>7. CASE SizeInterrupted
    <2>1. /\ ipc = "fifo" /\ ipc' = ipc /\ torn' /\ signals' > 0
      BY <1>0, <1>7 DEF SizeInterrupted, Framing, build
    <2> QED
      BY <2>1 DEF Framing
  <1>8. CASE ReadBody
    <2>1. /\ At(Reader, "body") /\ count' = count /\ ipc' = ipc /\ signals' = signals
          /\ stream # <<>> /\ stream' = Tail(stream) /\ stream \in Seq(Part)
          /\ torn' = torn /\ Behind = 1 /\ Behind' = 0 /\ ~At(Reader, "size")'
      BY <1>8 DEF ReadBody, Goto, At, Behind, Inv, Shapes, build
    <2>2. ASSUME Framed PROVE Framed'
      <3>1. PICK n \in Nat : FramedBy(stream, 1, n)
        BY <2>1, <2>2 DEF Framed
      <3>2. n - 1 \in Nat /\ FramedBy(Tail(stream), 0, n - 1)
        BY <2>1, <3>1, FrameMessageRead
      <3>3. FramedBy(stream', Behind', n - 1)
        BY <2>1, <3>2
      <3> QED
        BY <3>2, <3>3 DEF Framed
    <2> QED
      BY <2>1, <2>2 DEF Framing
  <1>9. CASE ReadAnything
    <2>1. torn /\ torn' = torn /\ ipc' = ipc /\ signals' = signals
      BY <1>9 DEF ReadAnything, Framing, build
    <2> QED
      BY <2>1 DEF Framing
  <1>10. CASE ReadInterrupted
    <2>1. /\ At(Reader, "body") /\ stream = <<>> /\ signals' > 0 /\ stream' = stream
          /\ UNCHANGED <<ipc, count, torn>> /\ count = "sent" /\ ~At(Reader, "size")'
      BY <1>0, <1>10 DEF ReadInterrupted, Goto, At, Inv, Shapes, build
    <2>2. ~Framed
      <3>1. Behind = 1 /\ Len(stream) = 0 /\ \A n \in Nat : 0 + 1 # 2 * n
        BY <2>1, SMT DEF Behind
      <3> QED
        BY <3>1 DEF Framed, FramedBy
    <2> QED
      BY <2>1, <2>2 DEF Framing
  <1>11. CASE Handle
    BY <1>0, <1>11, FramingKept DEF Handle, Goto, At, Inv, Shapes, build, reading
  <1>12. CASE UNCHANGED vars
    BY <1>0, <1>12, FramingKept DEF vars, build, reading, At, Inv
  <1> QED
    BY <1>1, <1>2, <1>3, <1>4, <1>5, <1>6, <1>7, <1>8, <1>9, <1>10, <1>11, <1>12
       DEF Next, Read, Interruption

(* Behind the length that the reader has taken, the messages are whole again.    *)
LEMMA FrameAhead ==
    ASSUME NEW s \in Seq(Part), NEW n \in Nat, FramedBy(s, 1, n)
    PROVE  /\ s # <<>> /\ <<Size(Head(s).of)>> \o s \in Seq(Part)
           /\ FramedBy(<<Size(Head(s).of)>> \o s, 0, n)
  <1> DEFINE first == Size(Head(s).of)
             ahead == <<first>> \o s
  <1>1. Len(s) + 1 = 2 * n /\ Len(s) \in Nat
    BY DEF FramedBy
  <1>2. s # <<>> /\ Len(s) > 0
    <2>1. Len(s) # 0
      BY <1>1, SMT
    <2> QED
      BY <1>1, <2>1
  <1>3. first \in Part
    <2>1. Head(s) \in Part
      BY <1>2, HeadTailProperties
    <2> QED
      BY <2>1, PartFacts DEF Part
  <1>4. /\ ahead \in Seq(Part) /\ Len(ahead) = Len(s) + 1 /\ ahead[1] = first
        /\ \A i \in 1 .. Len(s) : ahead[i + 1] = s[i]
    BY <1>1, <1>3, ConcatProperties
  <1>5. first = Size(s[1].of)
    BY <1>2
  <1> HIDE DEF first, ahead
  <1>6. Len(ahead) + 0 = 2 * n
    <2>1. \A a \in Nat : a + 0 = a
      BY SMT
    <2>2. Len(s) + 1 \in Nat
      BY <1>1
    <2> QED
      BY <1>1, <1>4, <2>1, <2>2
  <1>7. ASSUME NEW j \in 1 .. n
        PROVE  /\ IsBody(ahead[2 * j - 0])
               /\ 2 * j - 0 > 1 => ahead[2 * j - 0 - 1] = Size(ahead[2 * j - 0].of)
    <2>1. 2 * j - 1 \in 1 .. Len(s) /\ 2 * j - 0 = (2 * j - 1) + 1
      BY <1>1, SMT
    <2>2. ahead[2 * j - 0] = s[2 * j - 1] /\ IsBody(s[2 * j - 1])
      BY <1>4, <2>1 DEF FramedBy
    <2>3. CASE j = 1
      <3>1. 2 * j - 1 = 1 /\ 2 * j - 0 - 1 = 1
        BY <2>3, SMT
      <3> QED
        BY <1>4, <1>5, <2>2, <3>1
    <2>4. CASE j # 1
      <3>1. 2 * j - 1 > 1 /\ 2 * j - 1 - 1 \in 1 .. Len(s) /\ 2 * j - 0 - 1 = (2 * j - 1 - 1) + 1
        BY <2>1, <2>4, <1>1, SMT
      <3>2. s[2 * j - 1 - 1] = Size(s[2 * j - 1].of)
        BY <3>1 DEF FramedBy
      <3>3. ahead[2 * j - 0 - 1] = s[2 * j - 1 - 1]
        BY <1>4, <3>1
      <3> QED
        BY <2>2, <3>2, <3>3
    <2> QED
      BY <2>3, <2>4
  <1>8. FramedBy(ahead, 0, n)
    BY <1>6, <1>7 DEF FramedBy
  <1> QED
    BY <1>2, <1>4, <1>8 DEF ahead, first

LEMMA Parity == /\ \A n \in Nat : (2 * n) % 2 = 0
                /\ \A i \in Nat : i % 2 = 1 => \E j \in Nat : i = 2 * j - 1
  BY SMT

LEMMA FramingHolds == Spec => [](Inv /\ Framing)
  <1>1. Init => Inv /\ Framing
    BY InitInv, InitFraming
  <1>2. Inv /\ Framing /\ [Next]_vars => (Inv /\ Framing)'
    <2>1. Inv /\ [Next]_vars => Inv'
      BY NextShapes, NextCalls, NextMutex DEF Inv
    <2> QED
      BY <2>1, NextFraming
  <1> QED
    BY <1>1, <1>2, PTL DEF Spec

(* However many processes and threads write to a fifo at the same time, it holds *)
(* whole messages behind their lengths, until the read of a length is            *)
(* interrupted (fifo.c:96-105, 111-130).                                         *)
THEOREM FifoIsFramed == Spec => []WellFramed
  <1>1. Inv /\ Framing => WellFramed
    <2> SUFFICES ASSUME Inv, Framing, ipc = "fifo", ~torn PROVE WellFramed
      BY DEF WellFramed
    <2> DEFINE ahead == IF At(Reader, "body") THEN <<Size(Head(stream).of)>> \o stream ELSE stream
    <2>1. PICK n \in Nat : FramedBy(stream, Behind, n)
      BY DEF Framing, Framed
    <2>2. ahead \in Seq(Part) /\ FramedBy(ahead, 0, n)
      <3>1. CASE At(Reader, "body")
        BY <2>1, <3>1, FrameAhead DEF Behind, Inv, Shapes
      <3>2. CASE ~At(Reader, "body")
        BY <2>1, <3>2 DEF Behind, Inv, Shapes
      <3> QED
        BY <3>1, <3>2
    <2> HIDE DEF ahead
    <2>3. Len(ahead) = 2 * n /\ Len(ahead) \in Nat
      <3>1. Len(ahead) + 0 = 2 * n /\ Len(ahead) \in Nat
        BY <2>2 DEF FramedBy
      <3> QED
        BY <3>1, SMT
    <2>4. ASSUME NEW i \in DOMAIN ahead, i % 2 = 1
          PROVE  ahead[i] = Size(ahead[i + 1].of) /\ IsBody(ahead[i + 1])
      <3>1. i \in Nat /\ 1 <= i /\ i <= Len(ahead)
        BY <2>2
      <3>2. PICK j \in Nat : i = 2 * j - 1
        BY <2>4, <3>1, Parity
      <3>3. /\ j \in 1 .. n /\ 2 * j - 0 > 1 /\ 2 * j - 0 = i + 1 /\ 2 * j - 0 - 1 = i
        BY <2>3, <3>1, <3>2, SMT
      <3>4. IsBody(ahead[2 * j - 0]) /\ ahead[2 * j - 0 - 1] = Size(ahead[2 * j - 0].of)
        BY <2>2, <3>3 DEF FramedBy
      <3> QED
        BY <3>3, <3>4
    <2>5. Len(ahead) % 2 = 0
      BY <2>3, Parity
    <2> QED
      BY <2>4, <2>5 DEF WellFramed, ahead
  <1> QED
    BY FramingHolds, <1>1, PTL

-----------------------------------------------------------------------------
(* What the reader acts on.                                                      *)

LEMMA InitReadsAnew == Init => ReadsAnew
  BY DEF Init, ReadsAnew, At

LEMMA NextReadsAnew ==
    ASSUME Inv, Inv', Framing, ReadsAnew, [Next]_vars
    PROVE  ReadsAnew'
  <1>0. signals \in Nat /\ signals' \in Nat /\ (Signal => signals' > 0)
    BY ChannelAssumption DEF Inv, Shapes, Signal
  <1>1. ASSUME NEW w \in Writers,
               Lock(w) \/ Send(w) \/ Unlock(w) \/ \E m \in Data : CallWrite(w, m)
        PROVE  ReadsAnew'
    <2>1. UNCHANGED <<fresh, ipc, signals>> /\ pc'[Reader] = pc[Reader]
      BY <1>1, ChannelAssumption
         DEF Lock, Send, Unlock, CallWrite, Return, Goto, build, reading, Inv, Shapes
    <2> QED
      BY <2>1 DEF ReadsAnew, At
  <1>2. ASSUME NEW w \in Writers, SendInterrupted(w) PROVE ReadsAnew'
    <2>1. UNCHANGED <<fresh, ipc>> /\ pc'[Reader] = pc[Reader] /\ signals' > 0
      BY <1>0, <1>2, ChannelAssumption
         DEF SendInterrupted, Return, Goto, build, reading, Inv, Shapes
    <2> QED
      BY <2>1 DEF ReadsAnew, At
  <1>3. CASE CallRead \/ ReadSize \/ SizeInterrupted \/ Handle
    <2>1. ~At(Reader, "handle")'
      BY <1>3 DEF CallRead, ReadSize, SizeInterrupted, Handle, Goto, At, Inv, Shapes
    <2> QED
      BY <2>1 DEF ReadsAnew
  <1>4. CASE ReadBody
    BY <1>4 DEF ReadBody, ReadsAnew
  <1>5. CASE ReadAnything
    <2>1. ipc = "fifo" /\ ipc' = ipc /\ signals > 0 /\ signals' = signals
      BY <1>5 DEF ReadAnything, Framing, build
    <2> QED
      BY <2>1 DEF ReadsAnew
  <1>6. CASE ReadInterrupted
    BY <1>0, <1>6 DEF ReadInterrupted, Repeats, ReadsAnew, At, build
  <1>7. CASE UNCHANGED vars
    BY <1>7 DEF vars, build, reading, ReadsAnew, At
  <1> QED
    BY <1>1, <1>2, <1>3, <1>4, <1>5, <1>6, <1>7 DEF Next, Read, Interruption

(* The reader acts on a message that its last read has brought; only with fifos  *)
(* and message queues, and only after a signal, it may act on none or an old one *)
(* (map.c:73, 96; fifo.c:120-122, mqueue.c:93, socket.c:108).                    *)
THEOREM ReaderReadsAnew == Spec => []ReadsAnew
  <1>1. Inv /\ [Next]_vars => Inv'
    BY NextShapes, NextCalls, NextMutex DEF Inv
  <1> QED
    BY InitReadsAnew, NextReadsAnew, FramingHolds, <1>1, PTL DEF Spec

-----------------------------------------------------------------------------
(* A channel is a FIFO, for its writers and its reader, but for what is reported *)
(* to them.  Its messages are the bodies in it.                                  *)

Contents(bodies)   == [n \in DOMAIN bodies |-> bodies[n].of]
InFifo(s, behind) ==
    Contents([n \in 1 .. (Len(s) + behind) \div 2 |-> s[2 * n - behind]])

InChannel == Contents(Bodies)
Writing   == [w \in Writers |-> IF pc[w] \in {"lock", "send"} THEN message[w] ELSE None]
Waiting   == IF pc[Reader] \in {"size", "body"} THEN {Reader} ELSE {}
Got       == [r \in {Reader} |-> buffer]

LEMMA FifoContents ==
    ASSUME NEW s \in Seq(Part), NEW behind \in {0, 1}, NEW n \in Nat, FramedBy(s, behind, n)
    PROVE  /\ InFifo(s, behind) = [k \in 1 .. n |-> s[2 * k - behind].of]
           /\ InFifo(s, behind) \in Seq(Data) /\ Len(InFifo(s, behind)) = n
  <1>1. (Len(s) + behind) \div 2 = n
    <2>1. Len(s) + behind = 2 * n
      BY DEF FramedBy
    <2>2. \A k \in Nat : (2 * k) \div 2 = k
      OBVIOUS
    <2> QED
      BY <2>1, <2>2
  <1>2. ASSUME NEW k \in 1 .. n PROVE s[2 * k - behind].of \in Data
    <2>1. 2 * k - behind \in 1 .. Len(s)
      BY SMT DEF FramedBy
    <2>2. s[2 * k - behind] \in Part
      BY <2>1, ElementOfSeq
    <2> QED
      BY <2>2 DEF Part
  <1>3. [k \in 1 .. n |-> s[2 * k - behind].of] \in [1 .. n -> Data]
    BY <1>2
  <1> QED
    BY <1>1, <1>3 DEF InFifo, Contents

LEMMA OtherContents ==
    ASSUME NEW s \in Seq(Part)
    PROVE  /\ Contents(s) = [k \in 1 .. Len(s) |-> s[k].of]
           /\ Contents(s) \in Seq(Data) /\ Len(Contents(s)) = Len(s)
  <1>1. ASSUME NEW k \in 1 .. Len(s) PROVE s[k].of \in Data
    <2>1. s[k] \in Part
      BY ElementOfSeq
    <2> QED
      BY <2>1 DEF Part
  <1>2. [k \in 1 .. Len(s) |-> s[k].of] \in [1 .. Len(s) -> Data] /\ Len(s) \in Nat
    BY <1>1
  <1> QED
    BY <1>2 DEF Contents

LEMMA ChannelIs ==
    /\ InChannel = IF ipc = "fifo" THEN InFifo(stream, Behind) ELSE Contents(stream)
    /\ InChannel' = IF ipc' = "fifo" THEN InFifo(stream', Behind') ELSE Contents(stream')
  BY DEF InChannel, Bodies, InFifo

LEMMA FrontOf ==
    ASSUME NEW q \in Seq(Data), NEW t \in Seq(Data), Len(q) = Len(t) + 1,
           \A k \in 1 .. Len(t) : t[k] = q[k + 1]
    PROVE  q # <<>> /\ Head(q) = q[1] /\ t = Tail(q)
  <1>1. q # <<>> /\ Head(q) = q[1]
    BY HeadTailProperties
  <1>2. /\ Tail(q) \in Seq(Data) /\ Len(Tail(q)) = Len(t)
        /\ \A k \in 1 .. Len(t) : Tail(q)[k] = t[k]
    BY <1>1, HeadTailProperties
  <1> QED
    BY <1>1, <1>2, SeqEqual

LEMMA BackOf ==
    ASSUME NEW q \in Seq(Data), NEW t \in Seq(Data), NEW m \in Data, Len(t) = Len(q) + 1,
           \A k \in 1 .. Len(q) : t[k] = q[k], t[Len(q) + 1] = m
    PROVE  t = Append(q, m)
  <1>1. /\ Append(q, m) \in Seq(Data) /\ Len(Append(q, m)) = Len(t)
        /\ \A k \in 1 .. Len(t) : Append(q, m)[k] = t[k]
    BY AppendProperties
  <1> QED
    BY <1>1, SeqEqual

(* A write takes place in a channel with room for it, behind all that is in it.  *)
LEMMA ChannelAtSend ==
    ASSUME Inv, Inv', Framing, Framing', NEW w \in Writers, Send(w), ~torn'
    PROVE  InChannel' = Append(InChannel, message[w]) /\ Len(InChannel) < Capacity
  <1> DEFINE m == message[w]
  <1>1. /\ m \in Data /\ stream \in Seq(Part) /\ stream' \in Seq(Part)
        /\ Behind \in {0, 1} /\ Behind' = Behind /\ ipc' = ipc /\ ~torn
        /\ stream' = stream \o Parts(m) /\ Len(stream) + Len(Parts(m)) <= Capacity * Len(Parts(m))
        /\ Len(stream) \in Nat
    BY ChannelAssumption DEF Send, Fits, Inv, Shapes, Calls, Behind, At, Goto, build, reading
  <1> HIDE DEF m
  <1>2. CASE ipc = "fifo"
    <2>1. PICK n \in Nat : FramedBy(stream, Behind, n)
      BY <1>1, <1>2 DEF Framing, Framed
    <2>2. stream' = stream \o <<Size(m), Body(m)>> /\ Len(Parts(m)) = 2
      BY <1>1, <1>2 DEF Parts
    <2>3. FramedBy(stream', Behind, n + 1)
      BY <1>1, <2>1, <2>2, FrameAppended
    <2>4. /\ InChannel = [k \in 1 .. n |-> stream[2 * k - Behind].of]
          /\ InChannel \in Seq(Data) /\ Len(InChannel) = n
      BY <1>1, <1>2, <2>1, FifoContents, ChannelIs
    <2>5. /\ InChannel' = [k \in 1 .. n + 1 |-> stream'[2 * k - Behind].of]
          /\ InChannel' \in Seq(Data) /\ Len(InChannel') = n + 1
      <3>1. n + 1 \in Nat
        OBVIOUS
      <3> QED
        BY <1>1, <1>2, <2>3, <3>1, FifoContents, ChannelIs
    <2>6. /\ \A k \in 1 .. Len(stream) : stream'[k] = stream[k]
          /\ stream'[Len(stream) + 2] = Body(m)
      <3>1. Size(m) \in Part /\ Body(m) \in Part
        BY <1>1, PartFacts
      <3> QED
        BY <1>1, <2>2, <3>1, ConcatProperties
    <2>7. \A k \in 1 .. n : 2 * k - Behind \in 1 .. Len(stream)
      BY <1>1, <2>1, SMT DEF FramedBy
    <2>8. 2 * (n + 1) - Behind = Len(stream) + 2
      BY <1>1, <2>1, SMT DEF FramedBy
    <2>9. \A k \in 1 .. n : InChannel'[k] = InChannel[k]
      <3>1. \A k \in 1 .. n : k \in 1 .. n + 1
        OBVIOUS
      <3> QED
        BY <2>4, <2>5, <2>6, <2>7, <3>1
    <2>10. InChannel'[n + 1] = m
      <3>1. n + 1 \in 1 .. n + 1 /\ Body(m).of = m
        BY <1>1, PartFacts
      <3> QED
        BY <2>5, <2>6, <2>8, <3>1
    <2>11. n < Capacity
      <3>1. Len(stream) + 2 <= Capacity * 2 /\ Len(stream) + Behind = 2 * n
        BY <1>1, <2>1, <2>2 DEF FramedBy
      <3> QED
        BY <1>1, <3>1, ChannelAssumption, SMT
    <2> QED
      <3>1. InChannel' = Append(InChannel, m)
        <4>1. /\ Len(InChannel') = Len(InChannel) + 1
              /\ \A k \in 1 .. Len(InChannel) : InChannel'[k] = InChannel[k]
              /\ InChannel'[Len(InChannel) + 1] = m
          BY <2>4, <2>5, <2>9, <2>10
        <4> QED
          BY <1>1, <2>4, <2>5, <4>1, BackOf
      <3> QED
        BY <2>4, <2>11, <3>1 DEF m
  <1>3. CASE ipc # "fifo"
    <2>1. stream' = stream \o <<Body(m)>> /\ Len(Parts(m)) = 1
      BY <1>1, <1>3 DEF Parts
    <2>2. /\ InChannel = [k \in 1 .. Len(stream) |-> stream[k].of]
          /\ InChannel \in Seq(Data) /\ Len(InChannel) = Len(stream)
      BY <1>1, <1>3, OtherContents, ChannelIs
    <2>3. /\ InChannel' = [k \in 1 .. Len(stream') |-> stream'[k].of]
          /\ InChannel' \in Seq(Data) /\ Len(InChannel') = Len(stream')
      BY <1>1, <1>3, OtherContents, ChannelIs
    <2>4. /\ Len(stream') = Len(stream) + 1
          /\ \A k \in 1 .. Len(stream) : stream'[k] = stream[k]
          /\ stream'[Len(stream) + 1] = Body(m)
      <3>1. Body(m) \in Part
        BY <1>1, PartFacts
      <3> QED
        BY <1>1, <2>1, <3>1, ConcatProperties
    <2>5. /\ \A k \in 1 .. Len(stream) : InChannel'[k] = InChannel[k]
          /\ InChannel'[Len(stream) + 1] = m
      BY <1>1, <2>2, <2>3, <2>4, PartFacts
    <2>6. Len(stream) < Capacity
      BY <1>1, <2>1, ChannelAssumption
    <2> QED
      BY <1>1, <2>2, <2>3, <2>4, <2>5, <2>6, BackOf DEF m
  <1> QED
    BY <1>2, <1>3

(* The length of a message goes, and the message is still to come.               *)
LEMMA ChannelAtSize ==
    ASSUME Inv, Inv', Framing, ReadSize, ~torn'
    PROVE  InChannel' = InChannel
  <1>1. /\ stream \in Seq(Part) /\ stream # <<>> /\ stream' = Tail(stream)
        /\ stream' \in Seq(Part) /\ Behind = 0 /\ Behind' = 1 /\ ~torn
        /\ ipc = "fifo" /\ ipc' = ipc
    BY DEF ReadSize, Goto, At, Behind, Framing, Inv, Shapes, build
  <1>2. PICK n \in Nat : FramedBy(stream, 0, n)
    BY <1>1 DEF Framing, Framed
  <1>3. FramedBy(stream', 1, n)
    BY <1>1, <1>2, FrameLengthRead
  <1>4. /\ InChannel = [k \in 1 .. n |-> stream[2 * k - 0].of]
        /\ InChannel' = [k \in 1 .. n |-> stream'[2 * k - 1].of]
    BY <1>1, <1>2, <1>3, FifoContents, ChannelIs
  <1>5. ASSUME NEW k \in 1 .. n PROVE stream'[2 * k - 1] = stream[2 * k - 0]
    <2>1. 2 * k - 1 \in 1 .. Len(Tail(stream)) /\ (2 * k - 1) + 1 = 2 * k - 0
      BY <1>1, <1>3, SMT DEF FramedBy
    <2> QED
      BY <1>1, <2>1, HeadTailProperties
  <1> QED
    BY <1>4, <1>5

(* What is read is the oldest message. *)
LEMMA ChannelAtRead ==
    ASSUME Inv, Inv', Framing, ReadBody, ~torn'
    PROVE  InChannel # <<>> /\ buffer' = Head(InChannel) /\ InChannel' = Tail(InChannel)
  <1>1. /\ stream \in Seq(Part) /\ stream # <<>> /\ stream' = Tail(stream)
        /\ stream' \in Seq(Part) /\ Behind = 1 /\ Behind' = 0 /\ ~torn
        /\ ipc' = ipc /\ buffer' = Head(stream).of
    BY DEF ReadBody, Goto, At, Behind, Inv, Shapes, build
  <1>2. /\ Len(stream) \in Nat /\ Len(stream) > 0 /\ Len(stream') = Len(stream) - 1
        /\ \A k \in 1 .. Len(stream') : stream'[k] = stream[k + 1]
        /\ Head(stream) = stream[1]
    BY <1>1, HeadTailProperties
  <1>3. CASE ipc = "fifo"
    <2>1. PICK n \in Nat : FramedBy(stream, 1, n)
      BY <1>1, <1>3 DEF Framing, Framed
    <2>2. n >= 1 /\ n - 1 \in Nat /\ FramedBy(stream', 0, n - 1)
      BY <1>1, <2>1, FrameMessageRead
    <2>3. /\ InChannel = [k \in 1 .. n |-> stream[2 * k - 1].of]
          /\ InChannel \in Seq(Data) /\ Len(InChannel) = n
      BY <1>1, <1>3, <2>1, FifoContents, ChannelIs
    <2>4. /\ InChannel' = [k \in 1 .. n - 1 |-> stream'[2 * k - 0].of]
          /\ InChannel' \in Seq(Data) /\ Len(InChannel') = n - 1
      BY <1>1, <1>3, <2>2, FifoContents, ChannelIs
    <2>5. ASSUME NEW k \in 1 .. n - 1 PROVE InChannel'[k] = InChannel[k + 1]
      <3>1. /\ 2 * k - 0 \in 1 .. Len(stream') /\ (2 * k - 0) + 1 = 2 * (k + 1) - 1
            /\ k + 1 \in 1 .. n
        BY <1>2, <2>1, <2>2, SMT DEF FramedBy
      <3> QED
        BY <1>2, <2>3, <2>4, <3>1
    <2>6. InChannel[1] = stream[1].of
      <3>1. 1 \in 1 .. n /\ 2 * 1 - 1 = 1
        BY <2>2
      <3> QED
        BY <2>3, <3>1
    <2>7. /\ Len(InChannel) = Len(InChannel') + 1
          /\ \A k \in 1 .. Len(InChannel') : InChannel'[k] = InChannel[k + 1]
      <3>1. n \in Nat /\ Len(InChannel) = n /\ Len(InChannel') = n - 1
        BY <2>3, <2>4
      <3>2. n = (n - 1) + 1
        BY SMT
      <3> QED
        BY <2>5, <3>1, <3>2
    <2>8. InChannel # <<>> /\ Head(InChannel) = InChannel[1] /\ InChannel' = Tail(InChannel)
      BY <2>3, <2>4, <2>7, FrontOf
    <2> QED
      BY <1>1, <1>2, <2>6, <2>8
  <1>4. CASE ipc # "fifo"
    <2>1. /\ InChannel = [k \in 1 .. Len(stream) |-> stream[k].of]
          /\ InChannel \in Seq(Data) /\ Len(InChannel) = Len(stream)
      BY <1>1, <1>4, OtherContents, ChannelIs
    <2>2. /\ InChannel' = [k \in 1 .. Len(stream') |-> stream'[k].of]
          /\ InChannel' \in Seq(Data) /\ Len(InChannel') = Len(stream')
      BY <1>1, <1>4, OtherContents, ChannelIs
    <2>3. \A k \in 1 .. Len(InChannel') : InChannel'[k] = InChannel[k + 1]
      BY <1>2, <2>1, <2>2
    <2> QED
      BY <1>1, <1>2, <2>1, <2>2, <2>3, FrontOf
  <1> QED
    BY <1>3, <1>4

LEMMA BodiesStay ==
    ASSUME stream' = stream, ipc' = ipc, ipc = "fifo" => Behind' = Behind
    PROVE  Bodies' = Bodies /\ InChannel' = InChannel
  BY DEF Bodies, InChannel

LEMMA InitChannel == Init => Fifo!Init
  <1> SUFFICES ASSUME Init PROVE Fifo!Init
    OBVIOUS
  <1>1. Bodies = <<>>
    <2>1. stream = <<>> /\ Behind = 0
      BY DEF Init, Behind, At
    <2>2. (Len(<<>>) + 0) \div 2 = 0
      BY SMT
    <2> QED
      BY <2>1, <2>2 DEF Bodies
  <1>2. InChannel = <<>>
    BY <1>1 DEF InChannel, Contents
  <1> QED
    BY <1>2 DEF Init, Fifo!Init, InChannel, Contents, At

(* What a step does to the channel as its callers see it.                        *)
FifoUnchanged == UNCHANGED <<InChannel, Writing, Waiting, Got>>

LEMMA NextChannel ==
    ASSUME Inv, Inv', Framing, Framing', [Next]_vars, ~torn'
    PROVE  Fifo!Next \/ ReportedFailure \/ FifoUnchanged
  <1> USE ChannelAssumption
  <1>1. ASSUME NEW w \in Writers, NEW m \in Data, CallWrite(w, m) PROVE Fifo!Next
    <2>1. InChannel' = InChannel
      BY <1>1, BodiesStay DEF CallWrite, Behind, At, Goto, Inv, Shapes, build
    <2>2. Writing[w] = None /\ Writing' = [Writing EXCEPT ![w] = m]
      BY <1>1 DEF CallWrite, Writing, At, Goto, Inv, Shapes
    <2>3. UNCHANGED <<Waiting, Got>>
      BY <1>1 DEF CallWrite, Waiting, Got, At, Goto, Inv, Shapes, reading
    <2>4. Fifo!CallPush(w, m)
      BY <2>1, <2>2, <2>3 DEF Fifo!CallPush, InChannel, Contents, Writing, Waiting, Got
    <2> QED
      BY <2>4 DEF Fifo!Next
  <1>2. ASSUME NEW w \in Writers, Lock(w) \/ Unlock(w) PROVE FifoUnchanged
    <2>1. InChannel' = InChannel
      BY <1>2, BodiesStay DEF Lock, Unlock, Return, Behind, At, Goto, Inv, Shapes, build
    <2>2. Writing' = Writing
      BY <1>2 DEF Lock, Unlock, Return, Writing, At, Goto, Inv, Shapes
    <2>3. UNCHANGED <<Waiting, Got>>
      BY <1>2 DEF Lock, Unlock, Return, Waiting, Got, At, Goto, Inv, Shapes, reading
    <2> QED
      BY <2>1, <2>2, <2>3 DEF FifoUnchanged
  <1>3. ASSUME NEW w \in Writers, Send(w) PROVE Fifo!Next
    <2>1. InChannel' = Append(InChannel, message[w]) /\ Len(InChannel) < Capacity
      BY <1>3, ChannelAtSend
    <2>2. /\ Writing[w] = message[w] /\ message[w] # None
          /\ Writing' = [Writing EXCEPT ![w] = None]
      BY <1>3 DEF Send, Writing, At, Goto, Inv, Shapes, Calls
    <2>3. UNCHANGED <<Waiting, Got>>
      BY <1>3 DEF Send, Waiting, Got, At, Goto, Inv, Shapes, reading
    <2>4. Fifo!Push(w)
      BY <2>1, <2>2, <2>3 DEF Fifo!Push, InChannel, Contents, Writing, Waiting, Got
    <2> QED
      BY <2>4 DEF Fifo!Next
  <1>4. ASSUME NEW w \in Writers, SendInterrupted(w) PROVE ReportedFailure
    <2>1. Bodies' = Bodies /\ buffer' = buffer
      BY <1>4, BodiesStay
         DEF SendInterrupted, Return, Behind, At, Goto, Inv, Shapes, build, reading
    <2>2. w \in failed' /\ At(w, "send") /\ ~At(w, "send")'
      BY <1>4 DEF SendInterrupted, Return, At, Goto, Inv, Shapes
    <2> QED
      BY <2>1, <2>2 DEF ReportedFailure
  <1>5. CASE CallRead
    <2>1. At(Reader, "idle") /\ pc'[Reader] = IF ipc = "fifo" THEN "size" ELSE "body"
      BY <1>5 DEF CallRead, At, Goto, Inv, Shapes
    <2>2. InChannel' = InChannel
      BY <1>5, <2>1, BodiesStay DEF CallRead, Behind, At, build
    <2>3. UNCHANGED <<Writing, Got>>
      BY <1>5 DEF CallRead, Writing, Got, At, Goto, Inv, Shapes, writing
    <2>4. Waiting = {} /\ Waiting' = {Reader}
      BY <2>1 DEF Waiting, At
    <2>5. Fifo!CallPop(Reader)
      BY <2>2, <2>3, <2>4 DEF Fifo!CallPop, InChannel, Contents, Writing, Waiting, Got
    <2> QED
      BY <2>5 DEF Fifo!Next
  <1>6. CASE ReadSize
    <2>1. InChannel' = InChannel
      BY <1>6, ChannelAtSize
    <2>2. UNCHANGED <<Writing, Waiting, Got>>
      BY <1>6 DEF ReadSize, Writing, Waiting, Got, At, Goto, Inv, Shapes, writing
    <2> QED
      BY <2>1, <2>2 DEF FifoUnchanged
  <1>7. CASE SizeInterrupted
    BY <1>7 DEF SizeInterrupted
  <1>8. CASE ReadBody
    <2>1. InChannel # <<>> /\ buffer' = Head(InChannel) /\ InChannel' = Tail(InChannel)
      BY <1>8, ChannelAtRead
    <2>2. Waiting = {Reader} /\ Waiting' = {} /\ Writing' = Writing
      BY <1>8 DEF ReadBody, Writing, Waiting, At, Goto, Inv, Shapes, writing
    <2>3. Got' = [Got EXCEPT ![Reader] = Head(InChannel)]
      BY <2>1 DEF Got
    <2>4. Fifo!Pop(Reader)
      BY <2>1, <2>2, <2>3 DEF Fifo!Pop, InChannel, Contents, Writing, Waiting, Got
    <2> QED
      BY <2>4 DEF Fifo!Next
  <1>9. CASE ReadAnything
    BY <1>9 DEF ReadAnything, Framing
  <1>10. CASE ReadInterrupted
    <2>1. CASE ipc = "socket"
      <3>1. UNCHANGED <<ipc, stream, message, buffer, pc>>
        BY <1>10, <2>1 DEF ReadInterrupted, Repeats, build, writing
      <3>2. InChannel' = InChannel
        BY <3>1, BodiesStay DEF Behind, At
      <3> QED
        BY <3>1, <3>2 DEF FifoUnchanged, Writing, Waiting, Got
    <2>2. CASE ipc = "fifo"
      <3>1. /\ Behind = 1 /\ Len(stream) = 0 /\ ~torn
            /\ \A n \in Nat : 0 + 1 # 2 * n
        BY <1>10, SMT DEF ReadInterrupted, Behind
      <3>2. ~Framed
        BY <3>1 DEF Framed, FramedBy
      <3> QED
        BY <2>2, <3>1, <3>2 DEF Framing
    <2>3. CASE ipc = "mqueue"
      <3>1. Bodies' = Bodies
        BY <1>10, <2>3, BodiesStay DEF ReadInterrupted, build
      <3> QED
        BY <1>10, <2>3, <3>1 DEF ReadInterrupted, Repeats, ReportedFailure, writing
    <2> QED
      BY <2>1, <2>2, <2>3 DEF Inv, Shapes
  <1>11. CASE Handle
    <2>1. At(Reader, "handle") /\ pc'[Reader] \in {"idle", "left"}
      BY <1>11 DEF Handle, At, Goto, Inv, Shapes
    <2>2. InChannel' = InChannel
      BY <1>11, <2>1, BodiesStay DEF Handle, Behind, At, build
    <2>3. UNCHANGED <<Writing, Waiting, Got>>
      BY <1>11, <2>1 DEF Handle, Writing, Waiting, Got, At, Goto, Inv, Shapes, writing, reading
    <2> QED
      BY <2>2, <2>3 DEF FifoUnchanged
  <1>12. CASE UNCHANGED vars
    <2>1. UNCHANGED <<ipc, stream, message, buffer, pc>>
      BY <1>12 DEF vars, build, writing, reading
    <2>2. InChannel' = InChannel
      BY <2>1, BodiesStay DEF Behind, At
    <2> QED
      BY <2>1, <2>2 DEF FifoUnchanged, Writing, Waiting, Got
  <1> QED
    BY <1>1, <1>2, <1>3, <1>4, <1>5, <1>6, <1>7, <1>8, <1>9, <1>10, <1>11, <1>12
       DEF Next, Read, Interruption

(* Every message arrives once and in order, in all three builds and for any      *)
(* number of writers and signals, unless its writer was told that the write has  *)
(* failed; with a fifo, until the read of a length is interrupted                *)
(* (fifo.c:90-130, mqueue.c:89-109, socket.c:89-115).                            *)
THEOREM NothingLostSilently == Spec => LosesNothingSilently
  <1>1. Inv /\ Inv' /\ Framing /\ Framing' /\ [Next]_vars
           => [~torn' => Fifo!Next \/ ReportedFailure]_(Fifo!vars)
    <2> SUFFICES ASSUME Inv, Inv', Framing, Framing', [Next]_vars, ~torn',
                        ~Fifo!Next, ~ReportedFailure
                 PROVE  UNCHANGED Fifo!vars
      OBVIOUS
    <2>1. FifoUnchanged
      BY NextChannel
    <2> QED
      BY <2>1 DEF FifoUnchanged, Fifo!vars, InChannel, Contents, Writing, Waiting, Got
  <1> QED
    BY <1>1, InitChannel, FramingHolds, PTL DEF Spec, LosesNothingSilently
=============================================================================
