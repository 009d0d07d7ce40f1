----------------------------- MODULE SendStream -----------------------------
(***************************************************************************)
(* The send path of one session: Send copies a packet into sendBuffer_ and *)
(* starts a WSASend if none is under way; OnSend, when the kernel is done, *)
(* drops what was sent and starts the next one. Both run under sendLock_   *)
(* and are one step each. The kernel reads the buffer in place, at any     *)
(* time until it completes.                                                *)
(***************************************************************************)
EXTENDS RingBuffer

CONSTANTS Lengths,    \* the sizes of packets, header included
          MaxBytes    \* bound: bytes accepted in the whole run

ASSUME StreamAssumption == Lengths \subseteq Nat \ {0} /\ MaxBytes \in Nat

VARIABLES
  sendBuffer,       \* sendBuffer_
  sending,   \* sending_
  closing,   \* closing_, set by either direction
  op,        \* the WSASend: "none", "kernel", or "done" when completed, not yet handled
  from, len, \* the linear region it was given (sendWsaBuf_), of it what was sent when done
  accepted,  \* how many bytes Send accepted: byte k is the number k
  received   \* what the peer received

sendVars == <<sendBuffer, sending, closing, op, from, len, accepted, received>>

SendInit == /\ sendBuffer = [head |-> 0, tail |-> 0, cell |-> [c \in Cells |-> 0]]
            /\ sending = FALSE /\ closing = FALSE
            /\ op = "none" /\ from = 0 /\ len = 0
            /\ accepted = 0 /\ received = <<>>

Numbers(n) == [k \in 1..n |-> accepted + k]

\* What the kernel finds in memory; past the end of the buffer it is not ours.
KernelRead == [k \in 1..len |-> IF from + k <= Size THEN sendBuffer.cell[from + k - 1] ELSE 0]

NoOperation == op' = "none" /\ from' = 0 /\ len' = 0

PostUsedSize(b) ==
  /\ op' = "kernel" /\ from' = b.head /\ len' = UsedSize(b)
  /\ UNCHANGED closing

\* PostSend: nothing on a closing session; else a WSASend of the linear part of
\* the buffer, which is taken or fails at once and closes the session.
PostSend(b) ==
  \/ closing /\ NoOperation /\ UNCHANGED closing
  \/ /\ ~closing
     /\ op' = "kernel" /\ from' = b.head /\ len' = LinearUsedSize(b)
     /\ UNCHANGED closing
  \/ ~closing /\ NoOperation /\ closing' = TRUE

FitsWithoutReserve(n) == n <= Size - UsedSize(sendBuffer)

Fits(n) == n <= EmptySize(sendBuffer)

\* Session::Send while a WSASend is under way.
SendQueued(n) ==
  /\ sending /\ Fits(n)
  /\ sendBuffer' = MoveTail(Write(sendBuffer, Numbers(n)), n)
  /\ accepted' = accepted + n
  /\ UNCHANGED <<sending, closing, op, from, len, received>>

\* Session::Send that starts one.
SendStarts(n) ==
  /\ ~sending /\ Fits(n)
  /\ sendBuffer' = MoveTail(Write(sendBuffer, Numbers(n)), n)
  /\ accepted' = accepted + n
  /\ sending' = TRUE
  /\ PostSend(sendBuffer')
  /\ UNCHANGED received

\* Session::Send of a packet for which there is no room: dropped without a word.
SendDropped(n) == ~Fits(n) /\ UNCHANGED sendVars

\* The kernel has sent the region or the first part of it, and tells how much; it reads
\* the cells only now.
KernelSends ==
  /\ op = "kernel" /\ op' = "done"
  /\ len' \in 1..len
  /\ received' = received \o SubSeq(KernelRead, 1, len')
  /\ UNCHANGED <<sendBuffer, sending, closing, from, accepted>>

\* The operation fails: the worker closes the session and does not call OnSend.
KernelFails ==
  /\ op = "kernel"
  /\ NoOperation
  /\ closing' = TRUE
  /\ UNCHANGED <<sendBuffer, sending, accepted, received>>

OnSendClears ==
  /\ op = "done"
  /\ sendBuffer' = MoveHead(sendBuffer, len)
  /\ sending' = FALSE
  /\ NoOperation
  /\ UNCHANGED <<closing, accepted, received>>

\* OnSend: what is left in the buffer is posted, else sending_ = false.
OnSend ==
  /\ op = "done"
  /\ sendBuffer' = MoveHead(sendBuffer, len)
  /\ IF UsedSize(sendBuffer') # 0
       THEN PostSend(sendBuffer') /\ UNCHANGED sending
       ELSE NoOperation /\ sending' = FALSE /\ UNCHANGED closing
  /\ UNCHANGED <<accepted, received>>

\* The receive side closes the session.
CloseSession ==
  /\ ~closing /\ closing' = TRUE
  /\ UNCHANGED <<sendBuffer, sending, op, from, len, accepted, received>>

SendNext == \/ \E n \in Lengths : accepted + n <= MaxBytes /\
                 (SendQueued(n) \/ SendStarts(n) \/ SendDropped(n))
            \/ KernelSends \/ KernelFails \/ OnSend \/ CloseSession

SendSpec == SendInit /\ [][SendNext]_sendVars

\* The kernel completes what it was given, and a worker handles the completion.
FairSendSpec == SendSpec /\ WF_sendVars(KernelSends \/ KernelFails) /\ WF_sendVars(OnSend)

-----------------------------------------------------------------------------
SendTypeOK ==
  /\ sendBuffer \in Buffers(0..MaxBytes)
  /\ sending \in BOOLEAN /\ closing \in BOOLEAN
  /\ op \in {"none", "kernel", "done"} /\ from \in Cells /\ len \in Cells
  /\ accepted \in 0..MaxBytes
  /\ received \in Seq(1..MaxBytes)

\* sending_ is set exactly while an operation is under way or its completion is
\* not handled, and bytes in the buffer are never left without one: no Send that
\* saw sending_ set is forgotten by the OnSend that clears it.
NoLostWakeup ==
  ~closing => /\ sending <=> op # "none"
              /\ UsedSize(sendBuffer) # 0 => sending

\* The region the kernel reads is at the head of the buffer and what it was given
\* is still in it, however much Send wrote meanwhile, also across the wrap.
InFlightIntact ==
  op # "none" => /\ from = sendBuffer.head /\ len <= UsedSize(sendBuffer) /\ from + len <= Size
                 /\ op = "kernel" => KernelRead = [k \in 1..len |-> Len(received) + k]

\* The peer receives the accepted packets, whole and in order.
Stream == INSTANCE ByteStream
ImplementsStream == Stream!Spec

\* Every accepted byte reaches the peer, or the connection breaks.
AllReceived == \A n \in 1..MaxBytes : accepted >= n ~> Len(received) >= n \/ closing
=============================================================================
