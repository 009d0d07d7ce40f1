----------------------------- MODULE RecvStream -----------------------------
(***************************************************************************)
(* The receive path of one session: the kernel puts the client's bytes     *)
(* behind the tail of recvBuffer_, OnRecv cuts the complete packets out of *)
(* it and pushes them on the shard queue, PostRecv offers the kernel the   *)
(* linear room that is left. One receive at a time (SessionLifecycle), so  *)
(* nobody else touches the buffer; the send side may close the session.    *)
(***************************************************************************)
EXTENDS RingBuffer

CONSTANTS
  Header,      \* HEADER_SIZE
  IdBytes,     \* the bytes of the header that are its id
  MaxPacket,   \* sizeof(Packet)
  Sizes,       \* the values the size field of a client's header may have
  MaxPackets   \* bound: packets a client sends on one connection

ASSUME RecvAssumption ==
  /\ Header \in Nat \ {0} /\ MaxPacket \in Nat /\ MaxPackets \in Nat
  /\ Header <= MaxPacket /\ MaxPacket < Size
  /\ Sizes \subseteq Nat /\ IdBytes \subseteq 1..Header

VARIABLES
  script,    \* the sizes of the packets the client sends
  onWire,    \* the bytes the client sent and the kernel has not delivered
  recvBuffer,       \* recvBuffer_
  room,      \* the room offered to the WSARecv under way, 0 if none is
  pc,        \* "wait" for a completion, "parse" in OnRecv's loop, "post" before PostRecv
  recvClosing,   \* closing_
  queued     \* the packets pushed on the shard queue

recvVars == <<script, onWire, recvBuffer, room, pc, recvClosing, queued>>

\* Byte k of packet p of the client; the bytes of packet 0 are the server's.
Byte(p, k) == [packet |-> p, at |-> k]
NoByte     == Byte(0, 0)

\* A client with an impossible size in its header still sends the header.
Length(size) == IF size < Header THEN Header ELSE size
BytesOf(p, size) == [k \in 1..Length(size) |-> Byte(p, k)]

\* OnRecv overwrites the id in the header by that of the session.
Stamped(bytes) == [k \in DOMAIN bytes |-> IF k \in IdBytes THEN Byte(0, k) ELSE bytes[k]]

Valid(size) == size >= Header /\ size <= MaxPacket

\* OnAcceptComplete is about to post the first receive.
RecvInit == /\ script = <<>> /\ onWire = <<>>
            /\ recvBuffer = [head |-> 0, tail |-> 0, cell |-> [c \in Cells |-> NoByte]]
            /\ room = 0 /\ pc = "post" /\ recvClosing = FALSE
            /\ queued = <<>>

ClientSends ==
  /\ Len(script) < MaxPackets
  /\ \E size \in Sizes :
       /\ script' = Append(script, size)
       /\ onWire' = onWire \o BytesOf(Len(script) + 1, size)
  /\ UNCHANGED <<recvBuffer, room, pc, recvClosing, queued>>

\* The WSARecv completes with some of the bytes: any number that fits.
Receive ==
  /\ pc = "wait" /\ room > 0 /\ onWire # <<>>
  /\ \E n \in 1..room :
       /\ n <= Len(onWire)
       /\ recvBuffer' = MoveTail(PutAt(recvBuffer, recvBuffer.tail, SubSeq(onWire, 1, n)), n)
       /\ onWire' = SubSeq(onWire, n + 1, Len(onWire))
  /\ room' = 0
  /\ pc' = "parse"
  /\ UNCHANGED <<script, recvClosing, queued>>

\* The WSARecv fails, or the client has disconnected: the worker closes the session.
ReceiveFails ==
  /\ pc = "wait" /\ room > 0
  /\ room' = 0 /\ recvClosing' = TRUE
  /\ UNCHANGED <<script, onWire, recvBuffer, pc, queued>>

\* A WSASend of the session fails.
SendSideCloses ==
  /\ ~recvClosing /\ recvClosing' = TRUE
  /\ UNCHANGED <<script, onWire, recvBuffer, room, pc, queued>>

\* The header at the head of the buffer.
HeaderSize == script[recvBuffer.cell[recvBuffer.head].packet]

FrameByHeaderOnly ==
  /\ pc = "parse"
  /\ UsedSize(recvBuffer) >= Header
  /\ Valid(HeaderSize)
  /\ queued' = Append(queued, Stamped(Peek(recvBuffer, HeaderSize)))
  /\ recvBuffer' = MoveHead(recvBuffer, HeaderSize)
  /\ UNCHANGED <<script, onWire, room, pc, recvClosing>>

\* One turn of OnRecv's loop that finds a whole packet; the loop does not look at closing_.
Frame ==
  /\ pc = "parse"
  /\ UsedSize(recvBuffer) >= Header
  /\ Valid(HeaderSize) /\ UsedSize(recvBuffer) >= HeaderSize
  /\ queued' = Append(queued, Stamped(Peek(recvBuffer, HeaderSize)))
  /\ recvBuffer' = MoveHead(recvBuffer, HeaderSize)
  /\ UNCHANGED <<script, onWire, room, pc, recvClosing>>

\* The turn that meets a header of an impossible size: Close, break.
BadHeader ==
  /\ pc = "parse"
  /\ UsedSize(recvBuffer) >= Header /\ ~Valid(HeaderSize)
  /\ recvClosing' = TRUE /\ pc' = "post"
  /\ UNCHANGED <<script, onWire, recvBuffer, room, queued>>

NoFrame == UsedSize(recvBuffer) >= Header => Valid(HeaderSize) /\ UsedSize(recvBuffer) < HeaderSize

\* The room of the next WSARecv. It ends before the last cell, so the tail never
\* comes round: a connection is offered Size - 1 bytes in all. With no room
\* left, PostRecv returns without posting a receive.
PostLinear == room' = LinearEmptySize(recvBuffer)

LoopDone == pc = "post" \/ (pc = "parse" /\ NoFrame)

PostRecvClears ==
  /\ LoopDone /\ pc' = "wait"
  /\ IF recvClosing THEN UNCHANGED <<recvBuffer, room>>
     ELSE IF LinearEmptySize(recvBuffer) = 0
       THEN recvBuffer' = Clear(recvBuffer) /\ room' = Size - 1
       ELSE UNCHANGED recvBuffer /\ PostLinear
  /\ UNCHANGED <<script, onWire, recvClosing, queued>>

\* PostRecv, at the end of OnRecv. It does nothing on a closing session; a WSARecv that
\* fails at once closes it.
PostRecv ==
  /\ LoopDone /\ pc' = "wait"
  /\ \/ recvClosing /\ UNCHANGED <<room, recvClosing>>
     \/ ~recvClosing /\ PostLinear /\ UNCHANGED recvClosing
     \/ ~recvClosing /\ LinearEmptySize(recvBuffer) > 0 /\ recvClosing' = TRUE /\ UNCHANGED room
  /\ UNCHANGED <<script, onWire, recvBuffer, queued>>

RecvNext == \/ ClientSends \/ Receive \/ Frame \/ BadHeader \/ PostRecv
            \/ ReceiveFails \/ SendSideCloses

RecvSpec == RecvInit /\ [][RecvNext]_recvVars

FairRecvSpec == RecvSpec /\ WF_recvVars(Receive \/ Frame \/ BadHeader \/ PostRecv)

-----------------------------------------------------------------------------
AllBytes == [packet : 0..MaxPackets, at : Nat]

RecvTypeOK ==
  /\ script \in Seq(Sizes) /\ Len(script) <= MaxPackets
  /\ onWire \in Seq(AllBytes)
  /\ recvBuffer \in Buffers(AllBytes)
  /\ room \in 0..Size /\ pc \in {"wait", "parse", "post"} /\ recvClosing \in BOOLEAN
  /\ queued \in Seq(Seq(AllBytes))

\* The consumers get the client's packets in order and each as it was sent but for
\* the id in its header, however the stream was cut into completions and whatever the buffer
\* still holds of the next one; nothing is queued after a packet with an impossible size.
PacketsIntact ==
  /\ Len(queued) <= Len(script)
  /\ \A p \in 1..Len(queued) : Valid(script[p]) /\ queued[p] = Stamped(BytesOf(p, script[p]))

\* The bytes not queued yet, the oldest first, and the byte the client sends after b.
Unqueued == Contents(recvBuffer) \o onWire
Follows(b) == IF b.at < Length(script[b.packet]) THEN Byte(b.packet, b.at + 1)
                                                 ELSE Byte(b.packet + 1, 1)

\* The bytes not queued yet are in the buffer and on the wire, in order: from the
\* first of the packet that is due to the last that was sent, without a gap.
NothingLost ==
  /\ Unqueued = <<>> <=> Len(queued) = Len(script)
  /\ \A k \in 1..Len(Unqueued) : LET b == Unqueued[k] IN
       /\ b.packet \in 1..Len(script) /\ b.at \in 1..Length(script[b.packet])
       /\ b = IF k = 1 THEN Byte(Len(queued) + 1, 1) ELSE Follows(Unqueued[k - 1])
       /\ k = Len(Unqueued) => b = Byte(Len(script), Length(script[Len(script)]))

\* Every line of input is taken: what the client sent is queued in the end, or
\* the connection is closed.
AllInputTaken == \A p \in 1..MaxPackets : Len(script) >= p ~> (Len(queued) >= p \/ recvClosing)
=============================================================================
