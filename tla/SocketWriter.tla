------------------------------- MODULE SocketWriter -------------------------------
(***************************************************************************)
(* The sending half of a client connection: WorldSocket::SendPacket, called *)
(* from the world thread, map threads and network threads; Socket::Update, *)
(* called by the network thread of the socket; and the completion of       *)
(* async_write_some on a thread of the pool.  All three work under         *)
(* _writeLock.  (Builds without I/O completion ports.)                     *)
(*                                                                         *)
(* A packet is Size[p] bytes; byte i of packet p is <<p, i>>.  SendPacket   *)
(* encrypts the header with a stream cipher as it enqueues the packet, so  *)
(* the client can read the stream only if bytes leave in that order.       *)
(***************************************************************************)
EXTENDS Naturals, Sequences

CONSTANTS
    Packets,            \* bound: each is sent at most once
    Size,               \* bytes of each packet
    BufferSize,         \* size of _writeBuffer
    Room,               \* bound: bytes the kernel takes before it would block
    Error               \* the packet of SendAuthResponseError

ASSUME SizeType == Size \in [Packets -> Nat \ {0}]
ASSUME BoundsType == BufferSize \in Nat /\ Room \in Nat \ {0}

VARIABLES
    sent,               \* history: all bytes of the packets, as encrypted
    writeBuffer,        \* _writeBuffer, the bytes not written yet
    writeQueue,         \* _writeQueue, the bytes of all its messages
    wire,               \* history: the bytes given to the kernel
    room,               \* free space in the send buffer of the kernel
    isWritingAsync,     \* _isWritingAsync
    handlers,           \* history: async_write_some calls not completed
    closed, closing,    \* _closed, _closing
    broken,             \* has the connection failed?
    dropped,            \* NetworkThread::Run has removed the socket
    lock                \* who holds _writeLock, and where

queueVars == <<writeBuffer, writeQueue>>
asyncVars == <<isWritingAsync, handlers>>
closeVars == <<closed, closing, broken>>
vars == <<sent, queueVars, wire, room, asyncVars, closeVars, dropped, lock>>

IsOpen == ~closed /\ ~closing
Bytes(p) == [i \in 1..Size[p] |-> <<p, i>>]
IsSent(p) == \E i \in DOMAIN sent : sent[i] = <<p, 1>>

\* Bytes left of the message at the front of the queue.
FrontSize == LET byte == Head(writeQueue) IN Size[byte[1]] - byte[2] + 1

Locks == {"free", "update", "update queue", "handler", "handler queue"}
Smaller(m, n) == IF m < n THEN m ELSE n

Init ==
    /\ sent = <<>>
    /\ writeBuffer = <<>>
    /\ writeQueue = <<>>
    /\ wire = <<>>
    /\ room = Room
    /\ isWritingAsync = FALSE
    /\ handlers = 0
    /\ closed = FALSE
    /\ closing = FALSE
    /\ broken = FALSE
    /\ dropped = FALSE
    /\ lock = "free"

-----------------------------------------------------------------------------
(* Senders.                                                                *)

\* Mutants of SendPacket: the size of the buffer is not looked at; what is
\* queued is not looked at.
SendPacketOverrun(p) ==
    /\ IsOpen /\ lock = "free" /\ ~IsSent(p)
    /\ sent' = sent \o Bytes(p)
    /\ writeBuffer' = writeBuffer \o Bytes(p)
    /\ UNCHANGED <<writeQueue, wire, room, asyncVars, closeVars, dropped, lock>>
SendPacketAhead(p) ==
    /\ IsOpen /\ lock = "free" /\ ~IsSent(p)
    /\ sent' = sent \o Bytes(p)
    /\ IF Len(writeBuffer) + Size[p] <= BufferSize
       THEN writeBuffer' = writeBuffer \o Bytes(p) /\ UNCHANGED writeQueue
       ELSE writeQueue' = writeQueue \o Bytes(p) /\ UNCHANGED writeBuffer
    /\ UNCHANGED <<wire, room, asyncVars, closeVars, dropped, lock>>

\* SendPacket: into the buffer if nothing is queued and it fits, else queued.
SendPacket(p) ==
    /\ IsOpen
    /\ lock = "free"
    /\ ~IsSent(p)
    /\ sent' = sent \o Bytes(p)
    /\ IF writeQueue = <<>> /\ Len(writeBuffer) + Size[p] <= BufferSize
       THEN writeBuffer' = writeBuffer \o Bytes(p) /\ UNCHANGED writeQueue
       ELSE writeQueue' = writeQueue \o Bytes(p) /\ UNCHANGED writeBuffer
    /\ UNCHANGED <<wire, room, asyncVars, closeVars, dropped, lock>>

\* Authentication has failed: the error was sent, now the socket is to close.
DelayedCloseSocket ==
    /\ IsOpen
    /\ IsSent(Error)
    /\ closing' = TRUE
    /\ UNCHANGED <<sent, queueVars, wire, room, asyncVars, closed, broken,
                   dropped, lock>>

\* CloseSocket, by any thread and without the lock.
CloseSocket ==
    /\ ~closed
    /\ closed' = TRUE
    /\ UNCHANGED <<sent, queueVars, wire, room, asyncVars, closing, broken,
                   dropped, lock>>

-----------------------------------------------------------------------------
(* The client and the network.                                             *)

ClientReads ==
    /\ room < Room
    /\ room' = Room
    /\ UNCHANGED <<sent, queueVars, wire, asyncVars, closeVars, dropped, lock>>

Break ==
    /\ ~broken
    /\ broken' = TRUE
    /\ UNCHANGED <<sent, queueVars, wire, room, asyncVars, closed, closing,
                   dropped, lock>>

-----------------------------------------------------------------------------
(* The network thread and the completion handler.                          *)

\* Update: nothing to write, or an asynchronous write is under way.
NothingToWrite == isWritingAsync \/ (writeBuffer = <<>> /\ writeQueue = <<>>)

Update ==
    /\ ~dropped
    /\ IsOpen
    /\ lock = "free"
    /\ ~NothingToWrite
    /\ lock' = "update"
    /\ UNCHANGED <<sent, queueVars, wire, room, asyncVars, closeVars, dropped>>

\* Update returns false: NetworkThread::Run forgets the socket.
Drop ==
    /\ ~dropped
    /\ ~IsOpen
    /\ dropped' = TRUE
    /\ UNCHANGED <<sent, queueVars, wire, room, asyncVars, closeVars, lock>>

\* Mutant of WriteHandlerWrapper: _isWritingAsync stays set.
WriteHandlerWrapperSet ==
    /\ handlers > 0
    /\ room > 0 \/ broken \/ closed
    /\ lock = "free"
    /\ lock' = "handler"
    /\ handlers' = handlers - 1
    /\ UNCHANGED <<sent, queueVars, wire, room, isWritingAsync, closeVars, dropped>>

\* The socket is writable, or it has failed or was shut down.
WriteHandlerWrapper ==
    /\ handlers > 0
    /\ room > 0 \/ broken \/ closed
    /\ lock = "free"
    /\ lock' = "handler"
    /\ handlers' = handlers - 1
    /\ isWritingAsync' = FALSE
    /\ UNCHANGED <<sent, queueVars, wire, room, closeVars, dropped>>

AsyncProcessQueue ==
    /\ isWritingAsync' = TRUE
    /\ handlers' = IF isWritingAsync THEN handlers ELSE handlers + 1

\* WriteHandler: closed; the end of its caller, too.
WriteClosed ==
    /\ lock \in {"update", "handler"}
    /\ ~IsOpen
    /\ lock' = "free"
    /\ UNCHANGED <<sent, queueVars, wire, room, asyncVars, closeVars, dropped>>

QueueStep == IF lock = "update" THEN "update queue" ELSE "handler queue"

\* WriteHandler, the buffer is empty: HandleQueue.
BufferEmpty ==
    /\ lock \in {"update", "handler"}
    /\ IsOpen
    /\ writeBuffer = <<>>
    /\ lock' = QueueStep
    /\ UNCHANGED <<sent, queueVars, wire, room, asyncVars, closeVars, dropped>>

\* WriteHandler, the kernel takes n bytes of the buffer: all of it, and
\* HandleQueue is next, or the rest has to wait for the completion.
WriteBuffer(n) ==
    /\ lock \in {"update", "handler"}
    /\ IsOpen
    /\ writeBuffer # <<>>
    /\ ~broken
    /\ n <= Smaller(room, Len(writeBuffer))
    /\ n = 0 => room = 0
    /\ wire' = wire \o SubSeq(writeBuffer, 1, n)
    /\ writeBuffer' = SubSeq(writeBuffer, n + 1, Len(writeBuffer))
    /\ room' = room - n
    /\ IF n = Len(writeBuffer)
       THEN lock' = QueueStep /\ UNCHANGED asyncVars
       ELSE lock' = "free" /\ AsyncProcessQueue
    /\ UNCHANGED <<sent, writeQueue, closeVars, dropped>>

\* HandleQueue, the kernel takes n bytes of the message at the front: all of
\* it, and Update goes on if there are more, or the rest has to wait.  After
\* _closed is set the write may still succeed until the socket is shut down.
WriteQueue(n) ==
    /\ lock \in {"update queue", "handler queue"}
    /\ writeQueue # <<>>
    /\ ~broken
    /\ n <= Smaller(room, FrontSize) /\ n <= Len(writeQueue)
    /\ n = 0 => room = 0
    /\ wire' = wire \o SubSeq(writeQueue, 1, n)
    /\ writeQueue' = SubSeq(writeQueue, n + 1, Len(writeQueue))
    /\ room' = room - n
    /\ IF n = FrontSize
       THEN /\ UNCHANGED asyncVars
            /\ lock' = IF lock = "update queue" /\ n < Len(writeQueue)
                       THEN "update" ELSE "free"
       ELSE lock' = "free" /\ AsyncProcessQueue
    /\ UNCHANGED <<sent, writeBuffer, closeVars, dropped>>

QueueEmpty ==
    /\ lock \in {"update queue", "handler queue"}
    /\ writeQueue = <<>>
    /\ lock' = "free"
    /\ UNCHANGED <<sent, queueVars, wire, room, asyncVars, closeVars, dropped>>

\* The write fails: the buffer is kept, a message of the queue is dropped.
FailBuffer ==
    /\ lock \in {"update", "handler"}
    /\ IsOpen
    /\ writeBuffer # <<>>
    /\ broken
    /\ lock' = "free"
    /\ UNCHANGED <<sent, queueVars, wire, room, asyncVars, closeVars, dropped>>

FailQueue ==
    /\ lock \in {"update queue", "handler queue"}
    /\ writeQueue # <<>>
    /\ broken \/ closed
    /\ writeQueue' = SubSeq(writeQueue, FrontSize + 1, Len(writeQueue))
    /\ lock' = "free"
    /\ UNCHANGED <<sent, writeBuffer, wire, room, asyncVars, closeVars, dropped>>

-----------------------------------------------------------------------------

Writing ==
    \/ WriteClosed \/ BufferEmpty \/ QueueEmpty \/ FailBuffer \/ FailQueue
    \/ \E n \in 0..Room : WriteBuffer(n) \/ WriteQueue(n)

Stopped == dropped /\ UNCHANGED vars

Next ==
    \/ \E p \in Packets : SendPacket(p)
    \/ DelayedCloseSocket \/ CloseSocket \/ ClientReads \/ Break
    \/ Update \/ Drop \/ WriteHandlerWrapper \/ Writing \/ Stopped

Spec == Init /\ [][Next]_vars

\* The client goes on reading, the network thread updates its sockets every
\* 10 ms, a completed write is handled, and who holds the lock goes on.
Fairness ==
    /\ WF_vars(ClientReads)
    /\ WF_vars(Update) /\ WF_vars(Drop)
    /\ WF_vars(WriteHandlerWrapper)
    /\ WF_vars(Writing)

FairSpec == Spec /\ Fairness

-----------------------------------------------------------------------------
(* Properties.                                                             *)

AllBytes == {byte \in Packets \X Nat : byte[2] >= 1 /\ byte[2] <= Size[byte[1]]}

\* Every variable has its type; the buffer is never overrun.
TypeOK ==
    /\ sent \in Seq(AllBytes)
    /\ writeBuffer \in Seq(AllBytes)
    /\ Len(writeBuffer) <= BufferSize
    /\ writeQueue \in Seq(AllBytes)
    /\ wire \in Seq(AllBytes)
    /\ room \in 0..Room
    /\ isWritingAsync \in BOOLEAN
    /\ handlers \in Nat
    /\ closed \in BOOLEAN /\ closing \in BOOLEAN
    /\ broken \in BOOLEAN /\ dropped \in BOOLEAN
    /\ lock \in Locks

\* While the connection works, what the kernel has, what is in the buffer and
\* what is in the queue is, in this order, what was encrypted: no packet is
\* lost, torn apart by another, or overtaken, whichever thread sends.
StreamInOrder ==
    ~broken /\ ~closed => wire \o writeBuffer \o writeQueue = sent

\* No two completions run for one socket: a second one would write the same
\* bytes twice.  The flag says exactly whether one is outstanding.
OneCompletion == handlers = IF isWritingAsync THEN 1 ELSE 0

\* What was sent leaves unless the connection ends: neither a full kernel
\* buffer nor a packet sent while the lock is held is forgotten.
PacketsAreWritten ==
    \A p \in Packets :
        IsSent(p) ~> \/ ~IsOpen \/ broken
                     \/ \E i \in DOMAIN wire : wire[i] = <<p, Size[p]>>
=============================================================================
