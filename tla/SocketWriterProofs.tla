--------------------------- MODULE SocketWriterProofs ---------------------------
(***************************************************************************)
(* For every set of packets of every size and every size of the buffers:   *)
(* the bytes of a connection leave in the order in which they were         *)
(* encrypted, and one completion at most is outstanding.                   *)
(***************************************************************************)
EXTENDS SocketWriter, SequenceTheorems, TLAPS

QueueLocks == {"update queue", "handler queue"}

\* The strengthening: whoever holds the lock has seen no asynchronous write
\* under way or has ended it, and HandleQueue begins with an empty buffer.
WriterInv ==
    /\ TypeOK
    /\ OneCompletion
    /\ StreamInOrder
    /\ lock # "free" => ~isWritingAsync
    /\ lock \in QueueLocks => writeBuffer = <<>>

\* Cutting a sequence in two loses nothing.
LEMMA Cut ==
  ASSUME NEW S, NEW s \in Seq(S), NEW n \in Nat, n <= Len(s)
  PROVE  /\ SubSeq(s, 1, n) \in Seq(S)
         /\ SubSeq(s, n + 1, Len(s)) \in Seq(S)
         /\ Len(SubSeq(s, n + 1, Len(s))) = Len(s) - n
         /\ SubSeq(s, 1, n) \o SubSeq(s, n + 1, Len(s)) = s
  <1>1. Len(s) \in Nat /\ \A i \in 1..Len(s) : s[i] \in S
    BY LenProperties
  <1>2. SubSeq(s, 1, n) \in Seq(S)
    <2>1. \A i \in 1..n : s[i] \in S
      BY <1>1
    <2> QED BY <2>1, SubSeqProperties
  <1>3. /\ SubSeq(s, n + 1, Len(s)) \in Seq(S)
        /\ Len(SubSeq(s, n + 1, Len(s))) = Len(s) - n
    <2>1. \A i \in (n + 1)..Len(s) : s[i] \in S
      BY <1>1
    <2>2. n + 1 \in Int /\ Len(s) \in Int
      BY <1>1
    <2>3. /\ SubSeq(s, n + 1, Len(s)) \in Seq(S)
          /\ Len(SubSeq(s, n + 1, Len(s))) =
                IF n + 1 <= Len(s) THEN Len(s) - (n + 1) + 1 ELSE 0
      BY <2>1, <2>2, SubSeqProperties
    <2> QED BY <2>3, <1>1
  <1>4. SubSeq(s, 1, n) \o SubSeq(s, n + 1, Len(s)) = SubSeq(s, 1, Len(s))
    <2>1. 1 \in 1..(Len(s) + 1) /\ n \in (1 - 1)..Len(s) /\ Len(s) \in n..Len(s)
      BY <1>1
    <2> QED BY <2>1, ConcatAdjacentSubSeq
  <1>5. SubSeq(s, 1, Len(s)) = s
    BY SubSeqFull
  <1> QED BY <1>2, <1>3, <1>4, <1>5

LEMMA BytesType == ASSUME NEW p \in Packets
                   PROVE  Bytes(p) \in Seq(AllBytes) /\ Len(Bytes(p)) = Size[p]
  <1>1. Size[p] \in Nat
    BY SizeType
  <1>2. \A i \in 1..Size[p] : <<p, i>> \in AllBytes
    BY <1>1 DEF AllBytes
  <1>3. Bytes(p) \in [1..Size[p] -> AllBytes]
    BY <1>2 DEF Bytes
  <1>4. Bytes(p) \in Seq(AllBytes)
    BY <1>1, <1>3, SeqDef
  <1> QED
    BY <1>1, <1>3, <1>4, LenProperties

LEMMA FrontType ==
  ASSUME writeQueue \in Seq(AllBytes), writeQueue # <<>>
  PROVE  FrontSize \in Nat /\ FrontSize >= 1
  <1>1. Head(writeQueue) \in AllBytes
    BY HeadTailProperties
  <1>2. Size[Head(writeQueue)[1]] \in Nat /\ Head(writeQueue)[2] \in Nat
    BY <1>1, SizeType DEF AllBytes
  <1> QED
    BY <1>1, <1>2 DEF FrontSize, AllBytes

LEMMA InitWriter == Init => WriterInv
  <1> SUFFICES ASSUME Init PROVE WriterInv
    OBVIOUS
  <1>1. << >> \in Seq(AllBytes) /\ Len(<< >>) = 0 /\ << >> \o << >> \o << >> = << >>
    BY EmptySeq, ConcatEmptySeq
  <1>2. TypeOK
    <2>1. Len(writeBuffer) <= BufferSize /\ room \in 0..Room
      BY <1>1, BoundsType DEF Init
    <2>2. /\ sent \in Seq(AllBytes) /\ wire \in Seq(AllBytes)
          /\ writeBuffer \in Seq(AllBytes) /\ writeQueue \in Seq(AllBytes)
      BY <1>1 DEF Init
    <2> QED
      BY <2>1, <2>2 DEF Init, TypeOK, Locks
  <1> QED
    BY <1>1, <1>2 DEF Init, WriterInv, OneCompletion, StreamInOrder, QueueLocks

\* Concatenation of three pieces of the stream.
LEMMA Pieces ==
  ASSUME NEW x \in Seq(AllBytes), NEW y \in Seq(AllBytes), NEW z \in Seq(AllBytes)
  PROVE  x \o y \in Seq(AllBytes) /\ (x \o y) \o z = x \o (y \o z)
  BY ConcatProperties, ConcatAssociative

\* Moving the first n bytes of t to the end of w.
LEMMA Move ==
  ASSUME NEW w \in Seq(AllBytes), NEW t \in Seq(AllBytes), NEW n \in Nat, n <= Len(t)
  PROVE  /\ w \o SubSeq(t, 1, n) \in Seq(AllBytes)
         /\ SubSeq(t, n + 1, Len(t)) \in Seq(AllBytes)
         /\ Len(SubSeq(t, n + 1, Len(t))) = Len(t) - n
         /\ (w \o SubSeq(t, 1, n)) \o SubSeq(t, n + 1, Len(t)) = w \o t
  <1>1. PICK front, back \in Seq(AllBytes) :
           /\ front = SubSeq(t, 1, n)
           /\ back = SubSeq(t, n + 1, Len(t))
           /\ Len(back) = Len(t) - n
           /\ front \o back = t
    <2>1. /\ SubSeq(t, 1, n) \in Seq(AllBytes)
          /\ SubSeq(t, n + 1, Len(t)) \in Seq(AllBytes)
          /\ Len(SubSeq(t, n + 1, Len(t))) = Len(t) - n
          /\ SubSeq(t, 1, n) \o SubSeq(t, n + 1, Len(t)) = t
      BY Cut
    <2> QED BY <2>1, Zenon
  <1>2. w \o front \in Seq(AllBytes) /\ (w \o front) \o back = w \o (front \o back)
    BY Pieces
  <1>3. front \o back = t
    BY <1>1
  <1>4. (w \o front) \o back = w \o t
    BY <1>2, <1>3
  <1> QED
    BY <1>1, <1>2, <1>4

\* ... of the buffer to the wire.
LEMMA BufferToWire ==
  ASSUME TypeOK, NEW n \in Nat, n <= Len(writeBuffer),
         wire' = wire \o SubSeq(writeBuffer, 1, n),
         writeBuffer' = SubSeq(writeBuffer, n + 1, Len(writeBuffer))
  PROVE  /\ wire' \in Seq(AllBytes)
         /\ writeBuffer' \in Seq(AllBytes)
         /\ Len(writeBuffer') = Len(writeBuffer) - n
         /\ wire' \o writeBuffer' = wire \o writeBuffer
  <1>1. wire \in Seq(AllBytes) /\ writeBuffer \in Seq(AllBytes)
    BY DEF TypeOK
  <1> QED
    BY <1>1, Move

\* ... of the queue to the wire, past an empty buffer.
LEMMA QueueToWire ==
  ASSUME TypeOK, writeBuffer = <<>>, NEW n \in Nat, n <= Len(writeQueue),
         wire' = wire \o SubSeq(writeQueue, 1, n),
         writeQueue' = SubSeq(writeQueue, n + 1, Len(writeQueue)),
         writeBuffer' = writeBuffer
  PROVE  /\ wire' \in Seq(AllBytes)
         /\ writeQueue' \in Seq(AllBytes)
         /\ (wire' \o writeBuffer') \o writeQueue' = (wire \o writeBuffer) \o writeQueue
  <1>1. wire \in Seq(AllBytes) /\ writeQueue \in Seq(AllBytes)
    BY DEF TypeOK
  <1>2. /\ wire' \in Seq(AllBytes) /\ writeQueue' \in Seq(AllBytes)
        /\ wire' \o writeQueue' = wire \o writeQueue
    BY <1>1, Move
  <1>3. wire' \o writeBuffer' = wire' /\ wire \o writeBuffer = wire
    BY <1>1, <1>2, ConcatEmptySeq
  <1> QED
    BY <1>2, <1>3

LEMMA SendStep ==
  ASSUME WriterInv, NEW p \in Packets, SendPacket(p) PROVE WriterInv'
  <1> DEFINE b == Bytes(p)
  <1>1. b \in Seq(AllBytes) /\ Len(b) = Size[p] /\ Size[p] \in Nat
    BY BytesType, SizeType
  <1> DEFINE stream == wire \o writeBuffer
  <1>2. /\ sent \in Seq(AllBytes) /\ writeBuffer \in Seq(AllBytes)
        /\ writeQueue \in Seq(AllBytes) /\ wire \in Seq(AllBytes)
    BY DEF WriterInv, TypeOK
  <1>3. sent' = sent \o b /\ sent' \in Seq(AllBytes) /\ wire' = wire
    BY <1>1, <1>2, ConcatProperties DEF SendPacket
  <1>4. wire \o writeBuffer \in Seq(AllBytes)
    BY <1>2, ConcatProperties
  <1>5. CASE writeQueue = <<>> /\ Len(writeBuffer) + Size[p] <= BufferSize
    <2>1. writeBuffer' = writeBuffer \o b /\ writeQueue' = <<>>
      BY <1>5 DEF SendPacket
    <2>2. writeBuffer' \in Seq(AllBytes) /\ Len(writeBuffer') <= BufferSize
      BY <2>1, <1>1, <1>2, <1>5, ConcatProperties
    <2>3. (wire \o (writeBuffer \o b)) \o << >> = (wire \o writeBuffer) \o b
      <3>1. wire \o (writeBuffer \o b) = (wire \o writeBuffer) \o b
        <4> HIDE DEF b
        <4> QED BY SMTT(30), <1>1, <1>2, Pieces
      <3>2. (wire \o writeBuffer) \o b \in Seq(AllBytes)
        BY <1>1, <1>4, ConcatProperties
      <3> QED BY <3>1, <3>2, ConcatEmptySeq
    <2>4. (wire \o writeBuffer) \o << >> = wire \o writeBuffer
      BY <1>4, ConcatEmptySeq
    <2>5. StreamInOrder'
      <3>1. closed' = closed /\ broken' = broken
        BY DEF SendPacket, closeVars
      <3>2. CASE ~broken /\ ~closed
        <4>1. wire \o writeBuffer = sent
          BY <3>2, <2>4, <1>5 DEF WriterInv, StreamInOrder
        <4> QED
          BY <4>1, <2>1, <2>3, <1>3 DEF StreamInOrder
      <3> QED BY <3>1, <3>2 DEF StreamInOrder
    <2>6. TypeOK'
      BY <1>2, <1>3, <2>1, <2>2 DEF WriterInv, TypeOK, SendPacket, asyncVars, closeVars
    <2> QED
      BY <2>5, <2>6 DEF WriterInv, OneCompletion, SendPacket, asyncVars, QueueLocks
  <1>6. CASE ~(writeQueue = <<>> /\ Len(writeBuffer) + Size[p] <= BufferSize)
    <2>1. writeQueue' = writeQueue \o b /\ writeBuffer' = writeBuffer
      BY <1>6 DEF SendPacket
    <2>2. writeQueue' \in Seq(AllBytes)
      BY <2>1, <1>1, <1>2, ConcatProperties
    <2>3. (wire \o writeBuffer) \o (writeQueue \o b) = ((wire \o writeBuffer) \o writeQueue) \o b
      <3> HIDE DEF b, stream
      <3>1. stream \in Seq(AllBytes)
        BY <1>4 DEF stream
      <3>2. (stream \o writeQueue) \o b = stream \o (writeQueue \o b)
        BY SMTT(30), <3>1, <1>1, <1>2, Pieces
      <3> QED BY <3>2 DEF stream
    <2>4. StreamInOrder'
      BY <2>1, <2>3, <1>3 DEF WriterInv, StreamInOrder, SendPacket, closeVars
    <2>5. TypeOK'
      BY <1>2, <1>3, <2>1, <2>2 DEF WriterInv, TypeOK, SendPacket, asyncVars, closeVars
    <2> QED
      BY <2>1, <2>4, <2>5 DEF WriterInv, OneCompletion, SendPacket, asyncVars, QueueLocks
  <1> QED BY <1>5, <1>6

LEMMA WriteBufferStep ==
  ASSUME WriterInv, NEW n \in 0..Room, WriteBuffer(n) PROVE WriterInv'
  <1>1. /\ room \in 0..Room /\ Room \in Nat /\ Len(writeBuffer) \in Nat
        /\ BufferSize \in Nat /\ Len(writeBuffer) <= BufferSize
    BY BoundsType, LenProperties DEF WriterInv, TypeOK
  <1>2. n \in Nat /\ n <= Len(writeBuffer) /\ n <= room
    BY <1>1 DEF WriteBuffer, Smaller
  <1>3. /\ wire' \in Seq(AllBytes)
        /\ writeBuffer' \in Seq(AllBytes)
        /\ Len(writeBuffer') = Len(writeBuffer) - n
        /\ wire' \o writeBuffer' = wire \o writeBuffer
    BY <1>2, BufferToWire DEF WriterInv, WriteBuffer
  <1>4. Len(writeBuffer') \in Nat /\ Len(writeBuffer') <= BufferSize
    BY <1>1, <1>2, <1>3
  <1>5. room' \in 0..Room
    BY <1>1, <1>2 DEF WriteBuffer
  <1>6. StreamInOrder'
    BY <1>3 DEF WriterInv, StreamInOrder, WriteBuffer, closeVars
  <1>7. lock \in {"update", "handler"} /\ ~isWritingAsync /\ handlers = 0
    BY DEF WriterInv, OneCompletion, WriteBuffer
  <1>8. CASE n = Len(writeBuffer)
    <2>1. lock' \in QueueLocks /\ handlers' = handlers /\ isWritingAsync' = isWritingAsync
      BY <1>8, <1>7 DEF WriteBuffer, QueueStep, QueueLocks, asyncVars
    <2>2. writeBuffer' = <<>>
      BY <1>8, <1>1, SubSeqEmpty DEF WriteBuffer
    <2>3. TypeOK'
      BY <2>1, <1>3, <1>4, <1>5 DEF WriterInv, TypeOK, WriteBuffer, QueueLocks, Locks, closeVars
    <2> QED
      BY <2>1, <2>2, <2>3, <1>6, <1>7 DEF WriterInv, OneCompletion
  <1>9. CASE n # Len(writeBuffer)
    <2>1. lock' = "free" /\ isWritingAsync' = TRUE /\ handlers' = 1
      BY <1>9, <1>7 DEF WriteBuffer, AsyncProcessQueue
    <2>2. TypeOK'
      BY <2>1, <1>3, <1>4, <1>5 DEF WriterInv, TypeOK, WriteBuffer, Locks, closeVars
    <2> QED
      BY <2>1, <2>2, <1>6 DEF WriterInv, OneCompletion, QueueLocks
  <1> QED BY <1>8, <1>9

LEMMA WriteQueueStep ==
  ASSUME WriterInv, NEW n \in 0..Room, WriteQueue(n) PROVE WriterInv'
  <1>1. room \in 0..Room /\ Room \in Nat
    BY BoundsType DEF WriterInv, TypeOK
  <1>2. FrontSize \in Nat
    BY FrontType DEF WriterInv, TypeOK, WriteQueue
  <1>3. n \in Nat /\ n <= Len(writeQueue) /\ n <= room
    <2>1. n <= Smaller(room, FrontSize) /\ n <= Len(writeQueue)
      BY DEF WriteQueue
    <2> QED BY <2>1, <1>1, <1>2 DEF Smaller
  <1>4. /\ writeBuffer = <<>> /\ writeBuffer' = writeBuffer
        /\ lock \in QueueLocks /\ ~isWritingAsync /\ handlers = 0
        /\ isWritingAsync \in BOOLEAN
    BY DEF WriterInv, TypeOK, OneCompletion, WriteQueue, QueueLocks
  <1>5. /\ wire' \in Seq(AllBytes)
        /\ writeQueue' \in Seq(AllBytes)
        /\ (wire' \o writeBuffer') \o writeQueue' = (wire \o writeBuffer) \o writeQueue
    BY <1>3, <1>4, QueueToWire DEF WriterInv, WriteQueue
  <1>6. room' \in 0..Room
    <2>1. room' = room - n
      BY DEF WriteQueue
    <2> QED BY <2>1, <1>1, <1>3
  <1>7. StreamInOrder'
    BY <1>5 DEF WriterInv, StreamInOrder, WriteQueue, closeVars
  <1>8. CASE n = FrontSize
    <2>1. /\ lock' = "update" \/ lock' = "free"
          /\ isWritingAsync' = isWritingAsync /\ handlers' = 0
      BY <1>8, <1>4 DEF WriteQueue, asyncVars
    <2>2. lock' \in Locks /\ lock' \notin QueueLocks
      BY <2>1 DEF Locks, QueueLocks
    <2>3. TypeOK'
      BY <1>4, <1>5, <1>6, <2>1, <2>2 DEF WriterInv, TypeOK, WriteQueue, closeVars
    <2>4. OneCompletion' /\ ~isWritingAsync'
      BY <1>4, <2>1 DEF OneCompletion
    <2> QED
      BY <1>7, <2>2, <2>3, <2>4 DEF WriterInv
  <1>9. CASE n # FrontSize
    <2>0. lock' = "free" /\ isWritingAsync' = TRUE /\ handlers' = 1
      <3>1. lock' = "free" /\ isWritingAsync' = TRUE
        BY <1>9 DEF WriteQueue, AsyncProcessQueue
      <3>2. handlers' = IF isWritingAsync THEN handlers ELSE handlers + 1
        BY <1>9 DEF WriteQueue, AsyncProcessQueue
      <3> QED BY <3>1, <3>2, <1>4
    <2>1. lock' = "free" /\ isWritingAsync' /\ isWritingAsync' \in BOOLEAN /\ handlers' = 1
      BY <2>0
    <2>2. TypeOK'
      BY <1>4, <1>5, <1>6, <2>1 DEF WriterInv, TypeOK, WriteQueue, Locks, closeVars
    <2> QED
      BY <1>7, <2>1, <2>2 DEF WriterInv, OneCompletion, QueueLocks
  <1> QED BY <1>8, <1>9

LEMMA FailQueueStep == ASSUME WriterInv, FailQueue PROVE WriterInv'
  <1>1. writeQueue \in Seq(AllBytes) /\ FrontSize \in Nat /\ Len(writeQueue) \in Nat
    BY FrontType, LenProperties DEF WriterInv, TypeOK, FailQueue
  <1>2. writeQueue' \in Seq(AllBytes)
    <2>1. \A i \in (FrontSize + 1)..Len(writeQueue) : writeQueue[i] \in AllBytes
      BY <1>1, LenProperties
    <2>2. FrontSize + 1 \in Int /\ Len(writeQueue) \in Int
      BY <1>1
    <2> QED
      BY <2>1, <2>2, SubSeqProperties DEF FailQueue
  <1> QED
    BY <1>2 DEF WriterInv, TypeOK, OneCompletion, StreamInOrder, FailQueue, QueueLocks,
                Locks, asyncVars, closeVars

\* Steps that move no byte and leave the asynchronous write alone.
LEMMA QuietStep ==
  ASSUME WriterInv, UNCHANGED <<sent, writeBuffer, writeQueue, wire, isWritingAsync, handlers>>,
         closed => closed', broken => broken',
         closed' \in BOOLEAN, closing' \in BOOLEAN, broken' \in BOOLEAN,
         dropped' \in BOOLEAN, room' \in 0..Room, lock' \in Locks,
         lock' # "free" => ~isWritingAsync,
         lock' \in QueueLocks => writeBuffer = <<>>
  PROVE  WriterInv'
  <1>1. TypeOK'
    BY DEF WriterInv, TypeOK
  <1>2. OneCompletion'
    BY DEF WriterInv, OneCompletion
  <1>3. StreamInOrder'
    BY DEF WriterInv, StreamInOrder
  <1> QED
    BY <1>1, <1>2, <1>3 DEF WriterInv

LEMMA WrapperStep == ASSUME WriterInv, WriteHandlerWrapper PROVE WriterInv'
  <1>1. /\ UNCHANGED <<sent, writeBuffer, writeQueue, wire, room, closed, closing, broken, dropped>>
        /\ lock' = "handler" /\ handlers' = handlers - 1
        /\ isWritingAsync' = FALSE
        /\ handlers \in Nat /\ handlers > 0 /\ OneCompletion /\ TypeOK /\ StreamInOrder
    BY DEF WriteHandlerWrapper, queueVars, closeVars, WriterInv, TypeOK
  <1>2. handlers' = 0
    BY <1>1 DEF OneCompletion
  <1>3. TypeOK'
    <2>1. lock' \in Locks
      BY <1>1 DEF Locks
    <2>2. handlers' \in Nat
      BY <1>2
    <2>3. isWritingAsync' \in BOOLEAN
      BY <1>1
    <2> QED
      BY <1>1, <2>1, <2>2, <2>3 DEF TypeOK
  <1>4. StreamInOrder'
    BY <1>1 DEF StreamInOrder
  <1> QED
    BY <1>1, <1>2, <1>3, <1>4 DEF WriterInv, OneCompletion, QueueLocks

LEMMA WriterStep == WriterInv /\ [Next]_vars => WriterInv'
  <1> SUFFICES ASSUME WriterInv, [Next]_vars PROVE WriterInv'
    OBVIOUS
  <1>0. /\ room \in 0..Room /\ Room \in Nat /\ lock \in Locks
        /\ closed \in BOOLEAN /\ closing \in BOOLEAN /\ broken \in BOOLEAN /\ dropped \in BOOLEAN
        /\ lock # "free" => ~isWritingAsync
        /\ lock \in QueueLocks => writeBuffer = <<>>
    BY BoundsType DEF WriterInv, TypeOK
  <1> USE DEF QueueLocks, Locks
  <1>1. CASE \E p \in Packets : SendPacket(p)
    BY <1>1, SendStep
  <1>2. CASE DelayedCloseSocket
    BY <1>2, <1>0, QuietStep DEF DelayedCloseSocket, queueVars, asyncVars
  <1>3. CASE CloseSocket
    BY <1>3, <1>0, QuietStep DEF CloseSocket, queueVars, asyncVars
  <1>4. CASE ClientReads
    <2>1. /\ UNCHANGED <<sent, writeBuffer, writeQueue, wire, isWritingAsync, handlers,
                         closed, closing, broken, dropped, lock>>
          /\ room' = Room
      BY <1>4 DEF ClientReads, queueVars, asyncVars, closeVars
    <2>2. room' \in 0..Room
      <3>1. Room \in 0..Room
        BY BoundsType
      <3>2. room' = Room
        BY <2>1
      <3> QED BY <3>1, <3>2, Zenon
    <2> QED
      BY <2>1, <2>2, <1>0, QuietStep
  <1>5. CASE Break
    BY <1>5, <1>0, QuietStep DEF Break, queueVars, asyncVars
  <1>6. CASE Update
    BY <1>6, <1>0, QuietStep DEF Update, NothingToWrite, queueVars, asyncVars, closeVars
  <1>7. CASE Drop
    BY <1>7, <1>0, QuietStep DEF Drop, queueVars, asyncVars, closeVars
  <1>8. CASE WriteHandlerWrapper
    BY <1>8, WrapperStep
  <1>9. CASE Writing
    <2>1. CASE WriteClosed
      BY <2>1, <1>0, QuietStep DEF WriteClosed, queueVars, asyncVars, closeVars
    <2>2. CASE BufferEmpty
      BY <2>2, <1>0, QuietStep DEF BufferEmpty, QueueStep, queueVars, asyncVars, closeVars
    <2>3. CASE QueueEmpty
      BY <2>3, <1>0, QuietStep DEF QueueEmpty, queueVars, asyncVars, closeVars
    <2>4. CASE FailBuffer
      BY <2>4, <1>0, QuietStep DEF FailBuffer, queueVars, asyncVars, closeVars
    <2>5. CASE FailQueue
      BY <2>5, FailQueueStep
    <2>6. CASE \E n \in 0..Room : WriteBuffer(n)
      BY <2>6, WriteBufferStep
    <2>7. CASE \E n \in 0..Room : WriteQueue(n)
      BY <2>7, WriteQueueStep
    <2> QED
      BY <1>9, <2>1, <2>2, <2>3, <2>4, <2>5, <2>6, <2>7 DEF Writing
  <1>10. CASE Stopped \/ UNCHANGED vars
    BY <1>10, <1>0, QuietStep DEF Stopped, vars, queueVars, asyncVars, closeVars
  <1> QED
    BY <1>1, <1>2, <1>3, <1>4, <1>5, <1>6, <1>7, <1>8, <1>9, <1>10 DEF Next

LEMMA WriterInvariant == Spec => []WriterInv
  BY InitWriter, WriterStep, PTL DEF Spec

\* Every variable keeps its type and _writeBuffer is never overrun.
THEOREM WriterTypeCorrect == Spec => []TypeOK
  <1>1. WriterInv => TypeOK
    BY DEF WriterInv
  <1> QED BY <1>1, WriterInvariant, PTL

\* What SendPacket encrypts leaves in that order, whichever threads send,
\* update and complete, whatever the kernel takes at a time.
THEOREM PacketsStayInOrder == Spec => []StreamInOrder
  <1>1. WriterInv => StreamInOrder
    BY DEF WriterInv
  <1> QED BY <1>1, WriterInvariant, PTL

\* Update and WriteHandlerWrapper never start a second asynchronous write.
THEOREM CompletionsDoNotOverlap == Spec => []OneCompletion
  <1>1. WriterInv => OneCompletion
    BY DEF WriterInv
  <1> QED BY <1>1, WriterInvariant, PTL
=============================================================================
