---------------------------- MODULE StreamProofs ----------------------------
(***************************************************************************)
(* Proofs about the two directions of a session, for every size of the     *)
(* ring, every set of packet sizes and any number of bytes or packets:     *)
(* first what the operations of the ring do to what it holds, stated on    *)
(* Contents, so that the streams are argued about without a word on        *)
(* indexes; then SendStream and RecvStream.                                *)
(***************************************************************************)
EXTENDS SendStream, RecvStream, SequenceLemmas

-----------------------------------------------------------------------------
\* RingBuffer: the indexes and the contents of a ring, for every size and position.

\* The only quotients that % meets here are 0 and 1.
LEMMA Wrap ==
  ASSUME NEW a \in Nat, a < 2 * Size
  PROVE  a % Size = IF a < Size THEN a ELSE a - Size
<1>. USE SizeAssumption
<1>1. CASE a < Size
  BY <1>1
<1>2. CASE a >= Size
  BY <1>2, Z3
<1>. QED  BY <1>1, <1>2

\* The parts of a buffer are what they should be.
LEMMA BufferParts ==
  ASSUME NEW Bytes, NEW b \in Buffers(Bytes)
  PROVE  /\ b.head \in Nat /\ b.head < Size /\ b.tail \in Nat /\ b.tail < Size
         /\ b.cell \in [Cells -> Bytes] /\ Size \in Nat /\ Size > 0
BY SizeAssumption DEF Buffers, Cells

\* The number of bytes in the buffer: never more than Size - 1, and the tail is that far
\* behind the head.
LEMMA Used ==
  ASSUME NEW Bytes, NEW b \in Buffers(Bytes)
  PROVE  /\ UsedSize(b) = IF b.head <= b.tail THEN b.tail - b.head ELSE b.tail - b.head + Size
         /\ UsedSize(b) \in Nat /\ UsedSize(b) < Size
         /\ EmptySize(b) \in Nat /\ EmptySize(b) = Size - UsedSize(b) - 1
         /\ b.tail = IF b.head + UsedSize(b) < Size THEN b.head + UsedSize(b)
                                                    ELSE b.head + UsedSize(b) - Size
<1>. USE BufferParts
<1>1. b.tail - b.head + Size \in Nat /\ b.tail - b.head + Size < 2 * Size
  OBVIOUS
<1>2. UsedSize(b) = IF b.head <= b.tail THEN b.tail - b.head ELSE b.tail - b.head + Size
  BY <1>1, Wrap DEF UsedSize
<1>. QED  BY <1>2 DEF EmptySize

\* The linear part that is offered to the kernel for sending: at the head, in one piece,
\* not empty unless the buffer is.
LEMMA LinearUsed ==
  ASSUME NEW Bytes, NEW b \in Buffers(Bytes)
  PROVE  /\ LinearUsedSize(b) \in Nat /\ LinearUsedSize(b) <= UsedSize(b)
         /\ b.head + LinearUsedSize(b) <= Size
         /\ UsedSize(b) # 0 => LinearUsedSize(b) # 0
BY BufferParts, Used DEF LinearUsedSize

\* The room that is offered to the kernel for receiving: in one piece, not more than is
\* free, and never the last cell.
LEMMA LinearEmpty ==
  ASSUME NEW Bytes, NEW b \in Buffers(Bytes)
  PROVE  /\ LinearEmptySize(b) \in Nat /\ LinearEmptySize(b) <= EmptySize(b)
         /\ b.tail + LinearEmptySize(b) < Size
BY BufferParts, Used DEF LinearEmptySize

\* The ring position k places after position i.
LEMMA Place ==
  ASSUME NEW i \in Nat, i < Size, NEW k \in Nat, k < Size
  PROVE  /\ (i + k) % Size = IF i + k < Size THEN i + k ELSE i + k - Size
         /\ (i + k) % Size \in Cells
<1>1. /\ Size \in Nat /\ Size > 0
      /\ i + k \in Nat /\ i + k < 2 * Size
  BY SizeAssumption
<1>2. (i + k) % Size = IF i + k < Size THEN i + k ELSE i + k - Size
  BY <1>1, Wrap
<1>3. (i + k) % Size \in 0..(Size - 1)
  BY <1>1, <1>2
<1>. QED  BY <1>2, <1>3 DEF Cells

\* Contents is a sequence of as many bytes as are used.
LEMMA ContentsType ==
  ASSUME NEW Bytes, NEW b \in Buffers(Bytes)
  PROVE  /\ Contents(b) \in Seq(Bytes) /\ Len(Contents(b)) = UsedSize(b)
         /\ \A k \in 1..UsedSize(b) :
              /\ Contents(b)[k] = b.cell[(b.head + (k - 1)) % Size]
              /\ (b.head + (k - 1)) % Size \in Cells
<1>. USE BufferParts, Used
<1>1. \A k \in 1..UsedSize(b) :
        /\ k - 1 \in Nat /\ k - 1 < Size /\ b.head + k - 1 = b.head + (k - 1)
  OBVIOUS
<1>2. \A k \in 1..UsedSize(b) : (b.head + (k - 1)) % Size \in Cells
  BY <1>1, Place
<1>3. Contents(b) = [k \in 1..UsedSize(b) |-> b.cell[(b.head + k - 1) % Size]]
  BY DEF Contents, BytesAt
<1>4. \A k \in 1..UsedSize(b) : b.cell[(b.head + k - 1) % Size] \in Bytes
  BY <1>1, <1>2
<1>5. Contents(b) \in [1..UsedSize(b) -> Bytes]
  BY <1>3, <1>4
<1>6. Contents(b) \in Seq(Bytes) /\ Len(Contents(b)) = UsedSize(b)
  BY <1>5
<1>. QED  BY <1>1, <1>2, <1>3, <1>6

\* The distance from the tail to a cell, in ring order.
LEMMA Distance ==
  ASSUME NEW t \in Nat, t < Size, NEW c \in Nat, c < Size
  PROVE  /\ (c - t + Size) % Size = IF c < t THEN c - t + Size ELSE c - t
         /\ (c - t + Size) % Size \in Nat
<1>. USE SizeAssumption
<1>1. c - t + Size \in Nat /\ c - t + Size < 2 * Size
  OBVIOUS
<1>2. (c - t + Size) % Size = IF c - t + Size < Size THEN c - t + Size ELSE c - t + Size - Size
  BY <1>1, Wrap
<1>. QED  BY <1>1, <1>2

\* The position k of the ring from the head on is that far from the tail.
LEMMA Offset ==
  ASSUME NEW Bytes, NEW b \in Buffers(Bytes), NEW k \in Nat, k < Size
  PROVE  (((b.head + k) % Size) - b.tail + Size) % Size =
           IF k < UsedSize(b) THEN k - UsedSize(b) + Size ELSE k - UsedSize(b)
<1>. DEFINE c == (b.head + k) % Size
            h == b.head
            t == b.tail
            u == UsedSize(b)
<1>1. /\ h \in Nat /\ h < Size /\ t \in Nat /\ t < Size /\ Size \in Nat /\ u \in Nat /\ u < Size
      /\ t = IF h + u < Size THEN h + u ELSE h + u - Size
  BY BufferParts, Used
<1>2. c = IF h + k < Size THEN h + k ELSE h + k - Size
  BY <1>1, Place
<1>. HIDE DEF c, h, t, u
<1>3. c \in Nat /\ c < Size
  BY <1>1, <1>2
<1>4. (c - t + Size) % Size = IF c < t THEN c - t + Size ELSE c - t
  BY <1>1, <1>3, Distance
<1>5. (c - t + Size) % Size = IF k < u THEN k - u + Size ELSE k - u
  BY <1>1, <1>2, <1>4
<1>. QED  BY <1>5 DEF c, h, t, u

\* How far apart the indexes are says how much is used.
LEMMA UsedBetween ==
  ASSUME NEW Bytes, NEW b \in Buffers(Bytes), NEW n \in Nat, n < Size,
         b.tail = IF b.head + n < Size THEN b.head + n ELSE b.head + n - Size
  PROVE  UsedSize(b) = n
<1>. DEFINE h == b.head
            t == b.tail
            u == UsedSize(b)
<1>1. /\ h \in Nat /\ h < Size /\ t \in Nat /\ t < Size /\ Size \in Nat
      /\ t = IF h + n < Size THEN h + n ELSE h + n - Size
      /\ u = IF h <= t THEN t - h ELSE t - h + Size
  BY BufferParts, Used
<1>. HIDE DEF h, t, u
<1>2. u = n
  BY <1>1
<1>. QED  BY <1>2 DEF u

\* Write and MoveTail append the data, whatever was in the cells and wherever it wraps.
LEMMA WriteAppends ==
  ASSUME NEW Bytes, NEW b \in Buffers(Bytes), NEW data \in Seq(Bytes),
         Len(data) <= EmptySize(b)
  PROVE  LET w == MoveTail(Write(b, data), Len(data)) IN
         /\ w \in Buffers(Bytes) /\ w.head = b.head
         /\ UsedSize(w) = UsedSize(b) + Len(data)
         /\ Contents(w) = Contents(b) \o data
<1>. DEFINE n == Len(data)
            u == UsedSize(b)
            w == MoveTail(Write(b, data), n)
            off(c) == (c - b.tail + Size) % Size
<1>1. /\ b.head \in Nat /\ b.head < Size /\ b.tail \in Nat /\ b.tail < Size
      /\ b.cell \in [Cells -> Bytes] /\ Size \in Nat /\ Size > 0
      /\ u \in Nat /\ u < Size
      /\ b.tail = IF b.head + u < Size THEN b.head + u ELSE b.head + u - Size
      /\ n \in Nat /\ u + n < Size /\ n < Size
  <2>1. EmptySize(b) = Size - u - 1 /\ n <= EmptySize(b)
    BY Used
  <2>2. n \in Nat
    OBVIOUS
  <2>3. /\ b.head \in Nat /\ b.head < Size /\ b.tail \in Nat /\ b.tail < Size
        /\ b.cell \in [Cells -> Bytes] /\ Size \in Nat /\ Size > 0
    BY BufferParts
  <2>4. /\ u \in Nat /\ u < Size
        /\ b.tail = IF b.head + u < Size THEN b.head + u ELSE b.head + u - Size
    BY Used
  <2>. HIDE DEF u, n
  <2>5. u + n < Size /\ n < Size
    BY <2>1, <2>2, <2>3, <2>4
  <2>. QED  BY <2>2, <2>3, <2>4, <2>5
<1>2. ASSUME NEW c \in Cells
      PROVE  off(c) \in Nat
  <2>1. c \in Nat /\ c < Size /\ b.tail \in Nat /\ b.tail < Size /\ Size \in Nat
    BY <1>1 DEF Cells
  <2>. HIDE DEF w, u, n
  <2>. QED  BY <2>1, Distance
<1>3. /\ w.head = b.head /\ w.tail = (b.tail + n) % Size
      /\ w.cell = [c \in Cells |-> IF off(c) < n THEN data[off(c) + 1] ELSE b.cell[c]]
      /\ w = [head |-> w.head, tail |-> w.tail, cell |-> w.cell]
  <2>. DEFINE x == Write(b, data)
  <2>1. b = [head |-> b.head, tail |-> b.tail, cell |-> b.cell]
    BY DEF Buffers
  <2>2. x = [head |-> b.head, tail |-> b.tail,
             cell |-> [c \in Cells |-> IF off(c) < n THEN data[off(c) + 1] ELSE b.cell[c]]]
    BY <2>1 DEF Write, PutAt
  <2>. HIDE DEF x, off
  <2>3. w = [x EXCEPT !.tail = (@ + n) % Size]
    BY DEF MoveTail, x
  <2>. QED  BY <2>2, <2>3
<1>. HIDE DEF w, u, n
<1>4. /\ w.tail = IF b.tail + n < Size THEN b.tail + n ELSE b.tail + n - Size
      /\ w.tail \in Cells
  BY <1>1, <1>3, Place
<1>5. w \in Buffers(Bytes)
  <2>. HIDE DEF off
  <2>1. \A c \in Cells : (IF off(c) < n THEN data[off(c) + 1] ELSE b.cell[c]) \in Bytes
    <3>. SUFFICES ASSUME NEW c \in Cells, off(c) < n PROVE data[off(c) + 1] \in Bytes
      BY <1>1
    <3>. QED  BY <1>1, <1>2 DEF n
  <2>2. w.cell \in [Cells -> Bytes]
    BY <1>3, <2>1
  <2>3. w.head \in Cells
    BY <1>1, <1>3 DEF Cells
  <2>. QED  BY <1>3, <1>4, <2>2, <2>3 DEF Buffers
<1>6. UsedSize(w) = u + n
  <2>1. w.tail = IF b.head + (u + n) < Size THEN b.head + (u + n) ELSE b.head + (u + n) - Size
    BY SMTT(30), <1>1, <1>4
  <2>2. w.head = b.head
    BY <1>3
  <2>3. u + n \in Nat /\ u + n < Size
    BY <1>1
  <2>4. w.tail = IF w.head + (u + n) < Size THEN w.head + (u + n) ELSE w.head + (u + n) - Size
    BY <2>1, <2>2
  <2>. QED  BY <1>5, <2>3, <2>4, UsedBetween
<1>7. /\ Contents(b) \in Seq(Bytes) /\ Len(Contents(b)) = u
      /\ Contents(w) \in Seq(Bytes) /\ Len(Contents(w)) = u + n
  <2>1. Contents(b) \in Seq(Bytes) /\ Len(Contents(b)) = u
    BY ContentsType DEF u
  <2>2. Contents(w) \in Seq(Bytes) /\ Len(Contents(w)) = UsedSize(w)
    BY <1>5, ContentsType
  <2>. QED  BY <1>6, <2>1, <2>2
<1>8. /\ Contents(b) \o data \in Seq(Bytes) /\ Len(Contents(b) \o data) = u + n
      /\ \A k \in 1..(u + n) :
           (Contents(b) \o data)[k] = IF k <= u THEN Contents(b)[k] ELSE data[k - u]
  <2>1. data \in Seq(Bytes) /\ n = Len(data)
    BY DEF n
  <2>. QED  BY <1>7, <2>1, Concatenation
<1>9. ASSUME NEW k \in 1..(u + n)
      PROVE  Contents(w)[k] = (Contents(b) \o data)[k]
  <2>. DEFINE c == (b.head + (k - 1)) % Size
  <2>1. k - 1 \in Nat /\ k - 1 < Size /\ k \in Nat
    BY <1>1
  <2>2. c \in Cells /\ c = IF b.head + (k - 1) < Size THEN b.head + (k - 1) ELSE b.head + (k - 1) - Size
    BY <1>1, <2>1, Place
  <2>3. Contents(w)[k] = w.cell[c]
    <3>1. k \in 1..UsedSize(w)
      BY <1>6
    <3>2. Contents(w)[k] = w.cell[(w.head + (k - 1)) % Size]
      BY <1>5, <3>1, ContentsType
    <3>. QED  BY <1>3, <3>2
  <2>. HIDE DEF c
  <2>4. off(c) = IF k - 1 < u THEN k - 1 - u + Size ELSE k - 1 - u
    BY <2>1, Offset DEF c, u
  <2>. HIDE DEF off
  <2>5. Contents(w)[k] = IF off(c) < n THEN data[off(c) + 1] ELSE b.cell[c]
    BY <1>3, <2>2, <2>3
  <2>6. CASE k <= u
    <3>1. ~(off(c) < n)
      BY <1>1, <2>1, <2>4, <2>6
    <3>2. Contents(b)[k] = b.cell[c]
      <4>1. k \in 1..u
        BY <2>6
      <4>. QED  BY <4>1, ContentsType DEF c, u
    <3>. QED  BY <1>8, <2>5, <2>6, <3>1, <3>2
  <2>7. CASE ~(k <= u)
    <3>1. off(c) < n /\ off(c) + 1 = k - u
      BY <1>1, <2>1, <2>4, <2>7
    <3>. QED  BY <1>8, <2>5, <2>7, <3>1
  <2>. QED  BY <2>6, <2>7
<1>10. Contents(w) = Contents(b) \o data
  <2>1. u + n \in Nat
    BY <1>1
  <2>. QED  BY <1>7, <1>8, <1>9, <2>1, SameElements
<1>. QED  BY <1>3, <1>5, <1>6, <1>10 DEF w, u, n

\* MoveHead drops the oldest bytes, those that Peek returns.
LEMMA MoveHeadDrops ==
  ASSUME NEW Bytes, NEW b \in Buffers(Bytes), NEW n \in 0..UsedSize(b)
  PROVE  /\ MoveHead(b, n) \in Buffers(Bytes)
         /\ MoveHead(b, n).tail = b.tail /\ MoveHead(b, n).cell = b.cell
         /\ UsedSize(MoveHead(b, n)) = UsedSize(b) - n
         /\ Contents(MoveHead(b, n)) = SubSeq(Contents(b), n + 1, UsedSize(b))
         /\ Peek(b, n) = SubSeq(Contents(b), 1, n)
<1>. DEFINE w == MoveHead(b, n)
            u == UsedSize(b)
<1>1. /\ b.head \in Nat /\ b.head < Size /\ b.tail \in Nat /\ b.tail < Size
      /\ Size \in Nat /\ Size > 0
      /\ u \in Nat /\ u < Size
      /\ b.tail = IF b.head + u < Size THEN b.head + u ELSE b.head + u - Size
      /\ n \in Nat /\ n < Size /\ n <= u
  <2>1. UsedSize(b) \in Nat /\ UsedSize(b) < Size
    BY Used
  <2>2. n \in Nat /\ n < Size /\ n <= u
    BY <2>1, SizeAssumption
  <2>. QED  BY <2>1, <2>2, BufferParts, Used
<1>2. /\ w.head = (b.head + n) % Size /\ w.tail = b.tail /\ w.cell = b.cell
      /\ w = [head |-> w.head, tail |-> w.tail, cell |-> w.cell]
  <2>1. b = [head |-> b.head, tail |-> b.tail, cell |-> b.cell]
    BY DEF Buffers
  <2>. QED  BY <2>1 DEF MoveHead
<1>. HIDE DEF w, u
<1>3. /\ w.head = IF b.head + n < Size THEN b.head + n ELSE b.head + n - Size
      /\ w.head \in Cells
  BY <1>1, <1>2, Place
<1>4. w \in Buffers(Bytes)
  BY <1>2, <1>3 DEF Buffers
<1>5. UsedSize(w) = u - n
  <2>1. /\ u - n \in Nat /\ u - n < Size
        /\ b.tail = IF w.head + (u - n) < Size THEN w.head + (u - n) ELSE w.head + (u - n) - Size
    BY <1>1, <1>3
  <2>. QED  BY <1>2, <1>4, <2>1, UsedBetween
<1>6. /\ Contents(b) \in Seq(Bytes) /\ Len(Contents(b)) = u
      /\ \A k \in 1..u : Contents(b)[k] = b.cell[(b.head + (k - 1)) % Size]
  BY ContentsType DEF u
<1>7. Contents(w) = SubSeq(Contents(b), n + 1, u)
  <2>1. Contents(w) \in Seq(Bytes) /\ Len(Contents(w)) = u - n
    BY <1>4, <1>5, ContentsType
  <2>2. ASSUME NEW k \in 1..(u - n) PROVE Contents(w)[k] = Contents(b)[n + k]
    <3>1. /\ k - 1 \in Nat /\ k - 1 < Size /\ (n + k) - 1 \in Nat /\ (n + k) - 1 < Size
          /\ n + k \in 1..u /\ k \in 1..UsedSize(w)
      BY <1>1, <1>5
    <3>2. w.head \in Nat /\ w.head < Size
      BY <1>1, <1>3
    <3>3. (w.head + (k - 1)) % Size = (b.head + ((n + k) - 1)) % Size
      <4>1. (w.head + (k - 1)) % Size =
              IF w.head + (k - 1) < Size THEN w.head + (k - 1) ELSE w.head + (k - 1) - Size
        BY <3>1, <3>2, Place
      <4>2. (b.head + ((n + k) - 1)) % Size =
              IF b.head + ((n + k) - 1) < Size THEN b.head + ((n + k) - 1)
                                               ELSE b.head + ((n + k) - 1) - Size
        BY <1>1, <3>1, Place
      <4>. QED  BY <1>1, <1>3, <3>1, <4>1, <4>2
    <3>4. Contents(w)[k] = w.cell[(w.head + (k - 1)) % Size]
      BY <1>4, <3>1, ContentsType
    <3>. QED  BY <1>2, <1>6, <3>1, <3>3, <3>4
  <2>3. /\ SubSeq(Contents(b), n + 1, u) \in Seq(Bytes)
        /\ Len(SubSeq(Contents(b), n + 1, u)) = u - n
        /\ \A k \in 1..(u - n) : SubSeq(Contents(b), n + 1, u)[k] = Contents(b)[n + k]
    BY <1>1, <1>6
  <2>4. u - n \in Nat
    BY <1>1
  <2>. QED  BY <2>1, <2>2, <2>3, <2>4, SameElements
<1>8. Peek(b, n) = SubSeq(Contents(b), 1, n)
  <2>1. Peek(b, n) = [k \in 1..n |-> b.cell[(b.head + k - 1) % Size]]
    BY DEF Peek, BytesAt
  <2>2. \A k \in 1..n : b.head + k - 1 = b.head + (k - 1) /\ k \in 1..u
    BY <1>1
  <2>3. Peek(b, n) = [k \in 1..n |-> Contents(b)[k]]
    BY <1>6, <2>1, <2>2
  <2>. QED  BY <1>1, <1>6, <2>3
<1>. QED  BY <1>2, <1>4, <1>5, <1>7, <1>8 DEF w, u

\* What the kernel finds in the linear part at the head is the oldest bytes.
LEMMA LinearRead ==
  ASSUME NEW Bytes, NEW b \in Buffers(Bytes), NEW n \in 0..UsedSize(b), b.head + n <= Size,
         NEW k \in 1..n
  PROVE  b.cell[b.head + k - 1] = Contents(b)[k]
<1>. DEFINE u == UsedSize(b)
<1>1. /\ b.head \in Nat /\ b.head < Size /\ Size \in Nat /\ u \in Nat /\ u < Size
  BY BufferParts, Used
<1>2. Contents(b)[k] = b.cell[(b.head + (k - 1)) % Size]
  <2>1. k \in 1..UsedSize(b)
    BY <1>1
  <2>. QED  BY <2>1, ContentsType
<1>. HIDE DEF u
<1>3. n <= u
  BY DEF u
<1>4. /\ k - 1 \in Nat /\ k - 1 < Size /\ b.head + (k - 1) < Size
      /\ b.head + k - 1 = b.head + (k - 1)
  BY <1>1, <1>3
<1>5. (b.head + (k - 1)) % Size = b.head + (k - 1)
  BY <1>1, <1>4, Place
<1>. QED  BY <1>2, <1>4, <1>5

-----------------------------------------------------------------------------
(***************************************************************************)
(* SendStream. What makes the invariants of the runs inductive is the      *)
(* account of the bytes: those in the buffer are the last UsedSize that    *)
(* were accepted, and the peer has all before them, and the region under   *)
(* way as well once the kernel is done with it.                            *)
(***************************************************************************)

\* The region under way is at the head of the buffer, in it and in one piece, and there
\* is one only while sending_ is set, also on a session that is closing.
OperationOK ==
  /\ op # "none" => sending /\ from = sendBuffer.head /\ len <= UsedSize(sendBuffer) /\ from + len <= Size
  /\ op = "none" => from = 0 /\ len = 0

\* Where each accepted byte is.
BytesOK ==
  /\ UsedSize(sendBuffer) <= accepted
  /\ \A k \in 1..UsedSize(sendBuffer) : Contents(sendBuffer)[k] = accepted - UsedSize(sendBuffer) + k
  /\ Len(received) = accepted - UsedSize(sendBuffer) + (IF op = "done" THEN len ELSE 0)
  /\ \A k \in 1..Len(received) : received[k] = k

SendInv == SendTypeOK /\ NoLostWakeup /\ OperationOK /\ BytesOK

SentBytes == 0..MaxBytes

\* The parts of the types that the arithmetic needs.
LEMMA SendFacts ==
  ASSUME SendTypeOK
  PROVE  /\ sendBuffer \in Buffers(SentBytes) /\ UsedSize(sendBuffer) \in Nat
         /\ UsedSize(sendBuffer) < Size
         /\ EmptySize(sendBuffer) = Size - UsedSize(sendBuffer) - 1
         /\ accepted \in Nat /\ accepted <= MaxBytes /\ MaxBytes \in Nat /\ Size \in Nat /\ Size > 0
         /\ received \in Seq(1..MaxBytes) /\ Len(received) \in Nat
         /\ from \in Nat /\ len \in Nat /\ len < Size
         /\ 0 \in Cells
<1>1. sendBuffer \in Buffers(SentBytes) /\ accepted \in 0..MaxBytes /\ received \in Seq(1..MaxBytes)
  BY DEF SendTypeOK, SentBytes
<1>2. MaxBytes \in Nat /\ Size \in Nat /\ Size > 0 /\ 0 \in Cells
  BY StreamAssumption, SizeAssumption DEF Cells
<1>3. from \in Nat /\ len \in Nat /\ len < Size
  BY <1>2 DEF SendTypeOK, Cells
<1>. QED  BY <1>1, <1>2, <1>3, Used

\* PostSend: what is posted is the linear part of the buffer it is given.
LEMMA Posted ==
  ASSUME NEW b \in Buffers(SentBytes), PostSend(b)
  PROVE  /\ op' \in {"none", "kernel"} /\ from' \in Cells /\ len' \in Cells
         /\ op' = "none" => from' = 0 /\ len' = 0 /\ closing'
         /\ op' = "kernel" => /\ from' = b.head /\ len' <= UsedSize(b) /\ from' + len' <= Size
                              /\ closing' = closing
         /\ closing' = closing \/ closing' = TRUE
<1>1. /\ b.head \in Cells /\ 0 \in Cells /\ LinearUsedSize(b) \in Cells
      /\ LinearUsedSize(b) <= UsedSize(b) /\ b.head + LinearUsedSize(b) <= Size
  BY SizeAssumption, BufferParts, Used, LinearUsed DEF Cells
<1>2. CASE closing /\ NoOperation /\ UNCHANGED closing
  BY <1>1, <1>2 DEF NoOperation
<1>3. CASE ~closing /\ NoOperation /\ closing' = TRUE
  BY <1>1, <1>3 DEF NoOperation
<1>4. CASE /\ ~closing /\ op' = "kernel" /\ from' = b.head /\ len' = LinearUsedSize(b)
           /\ UNCHANGED closing
  BY <1>1, <1>4
<1>. QED  BY <1>2, <1>3, <1>4 DEF PostSend

\* Send appends the numbers of the bytes it accepts to the contents.
LEMMA Accepted ==
  ASSUME SendInv, NEW n \in Lengths, accepted + n <= MaxBytes, Fits(n),
         sendBuffer' = MoveTail(Write(sendBuffer, Numbers(n)), n), accepted' = accepted + n,
         received' = received, (op = "done") <=> (op' = "done"), op = "done" => len' = len
  PROVE  /\ sendBuffer' \in Buffers(SentBytes) /\ sendBuffer'.head = sendBuffer.head
         /\ UsedSize(sendBuffer') = UsedSize(sendBuffer) + n /\ n \in Nat /\ n > 0
         /\ accepted' \in 0..MaxBytes /\ BytesOK'
<1>1. n \in Nat /\ n > 0
  BY StreamAssumption
<1>2. /\ Numbers(n) \in Seq(SentBytes) /\ Len(Numbers(n)) = n
      /\ \A k \in 1..n : Numbers(n)[k] = accepted + k
  <2>1. \A k \in 1..n : accepted + k \in SentBytes
    <3>1. accepted \in Nat /\ MaxBytes \in Nat
      BY SendFacts DEF SendInv
    <3>. QED  BY <1>1, <3>1 DEF SentBytes
  <2>. QED  BY <1>1, <2>1 DEF Numbers
<1>3. /\ sendBuffer' \in Buffers(SentBytes) /\ sendBuffer'.head = sendBuffer.head
      /\ UsedSize(sendBuffer') = UsedSize(sendBuffer) + n
      /\ Contents(sendBuffer') = Contents(sendBuffer) \o Numbers(n)
  BY ZenonT(40), <1>2, SendFacts, WriteAppends DEF Fits, SendInv
<1>4. Contents(sendBuffer) \in Seq(SentBytes) /\ Len(Contents(sendBuffer)) = UsedSize(sendBuffer)
  BY SendFacts, ContentsType DEF SendInv
<1>5. \A k \in 1..(UsedSize(sendBuffer) + n) :
        Contents(sendBuffer')[k] = IF k <= UsedSize(sendBuffer) THEN Contents(sendBuffer)[k]
                                                  ELSE Numbers(n)[k - UsedSize(sendBuffer)]
  BY <1>2, <1>3, <1>4, Concatenation
<1>6. accepted' - UsedSize(sendBuffer') = accepted - UsedSize(sendBuffer)
  BY <1>1, <1>3, SendFacts DEF SendInv
<1>7. ASSUME NEW k \in 1..(UsedSize(sendBuffer) + n)
      PROVE  Contents(sendBuffer')[k] = accepted - UsedSize(sendBuffer) + k
  <2>1. CASE k <= UsedSize(sendBuffer)
    BY <1>5, <2>1 DEF SendInv, BytesOK
  <2>2. CASE ~(k <= UsedSize(sendBuffer))
    <3>1. k - UsedSize(sendBuffer) \in 1..n
      BY <1>1, <2>2, SendFacts DEF SendInv
    <3>2. Contents(sendBuffer')[k] = accepted + (k - UsedSize(sendBuffer))
      BY <1>2, <1>5, <2>2, <3>1
    <3>. QED  BY <3>2, SendFacts DEF SendInv
  <2>. QED  BY <2>1, <2>2
<1>8. accepted' \in 0..MaxBytes /\ UsedSize(sendBuffer') <= accepted'
  <2>1. /\ accepted \in Nat /\ MaxBytes \in Nat /\ UsedSize(sendBuffer) \in Nat
        /\ UsedSize(sendBuffer) <= accepted
    BY SendFacts DEF SendInv, BytesOK
  <2>. QED  BY <1>1, <1>3, <2>1
<1>9. BytesOK'
  <2>1. Len(received) = accepted - UsedSize(sendBuffer) + (IF op = "done" THEN len ELSE 0)
    BY DEF SendInv, BytesOK
  <2>2. Len(received') = accepted' - UsedSize(sendBuffer') + (IF op' = "done" THEN len' ELSE 0)
    BY <1>6, <2>1
  <2>3. \A k \in 1..Len(received') : received'[k] = k
    BY DEF SendInv, BytesOK
  <2>4. \A k \in 1..UsedSize(sendBuffer') : Contents(sendBuffer')[k] = accepted' - UsedSize(sendBuffer') + k
    BY <1>3, <1>6, <1>7
  <2>. QED  BY <1>8, <2>2, <2>3, <2>4 DEF BytesOK
<1>. QED  BY <1>1, <1>3, <1>8, <1>9

\* A step that leaves the bytes and the operation where they are.
LEMMA BytesUntouched ==
  ASSUME SendInv, UNCHANGED <<sendBuffer, accepted, received, len>>, (op = "done") <=> (op' = "done")
  PROVE  BytesOK'
BY DEF SendInv, BytesOK

\* Send while a WSASend is under way.
LEMMA SendQueuedStep ==
  ASSUME SendInv, NEW n \in Lengths, accepted + n <= MaxBytes, SendQueued(n)
  PROVE  SendInv'
<1>1. /\ sendBuffer' \in Buffers(SentBytes) /\ sendBuffer'.head = sendBuffer.head
      /\ UsedSize(sendBuffer') = UsedSize(sendBuffer) + n /\ n \in Nat /\ n > 0
      /\ accepted' \in 0..MaxBytes /\ BytesOK'
  BY Accepted DEF SendQueued
<1>2. SendTypeOK'
  BY <1>1 DEF SendInv, SendTypeOK, SendQueued, SentBytes
<1>3. UsedSize(sendBuffer) <= UsedSize(sendBuffer') /\ UsedSize(sendBuffer') \in Nat
  BY <1>1, SendFacts DEF SendInv
<1>4. NoLostWakeup'
  BY DEF SendInv, NoLostWakeup, SendQueued
<1>5. OperationOK'
  <2>1. len <= UsedSize(sendBuffer) => len <= UsedSize(sendBuffer')
    BY <1>3, SendFacts DEF SendInv
  <2>. QED  BY <1>1, <2>1 DEF SendInv, OperationOK, SendQueued
<1>. QED  BY <1>1, <1>2, <1>4, <1>5 DEF SendInv

\* Send that starts a WSASend, or fails to.
LEMMA SendStartsStep ==
  ASSUME SendInv, NEW n \in Lengths, accepted + n <= MaxBytes, SendStarts(n)
  PROVE  SendInv'
<1>1. op = "none"
  BY DEF SendInv, OperationOK, SendStarts
<1>2. PostSend(sendBuffer')
  BY DEF SendStarts
<1>3. op' # "done"
  BY <1>2 DEF PostSend, NoOperation
<1>4. /\ sendBuffer' \in Buffers(SentBytes) /\ accepted' \in 0..MaxBytes /\ BytesOK'
  BY <1>1, <1>3, Accepted DEF SendStarts
<1>5. /\ op' \in {"none", "kernel"} /\ from' \in Cells /\ len' \in Cells
      /\ op' = "none" => from' = 0 /\ len' = 0 /\ closing'
      /\ op' = "kernel" => /\ from' = sendBuffer'.head /\ len' <= UsedSize(sendBuffer') /\ from' + len' <= Size
                           /\ closing' = closing
      /\ closing' = closing \/ closing' = TRUE
  BY <1>2, <1>4, Posted
<1>6. SendTypeOK'
  BY <1>4, <1>5 DEF SendInv, SendTypeOK, SendStarts, SentBytes
<1>7. NoLostWakeup' /\ OperationOK'
  BY <1>5 DEF NoLostWakeup, OperationOK, SendStarts
<1>. QED  BY <1>4, <1>6, <1>7 DEF SendInv

\* What the kernel reads is what the peer waits for, however often Send wrote since the
\* region was posted.
LEMMA ReadInOrder ==
  ASSUME SendInv, op = "kernel"
  PROVE  /\ KernelRead = [k \in 1..len |-> Len(received) + k]
         /\ KernelRead \in Seq(1..MaxBytes) /\ Len(KernelRead) = len
         /\ Len(received) + len <= accepted
<1>1. /\ len \in 0..UsedSize(sendBuffer) /\ from = sendBuffer.head /\ sendBuffer.head + len <= Size
      /\ Len(received) = accepted - UsedSize(sendBuffer) /\ UsedSize(sendBuffer) <= accepted
  BY SendFacts DEF SendInv, OperationOK, BytesOK
<1>2. ASSUME NEW k \in 1..len
      PROVE  /\ (IF from + k <= Size THEN sendBuffer.cell[from + k - 1] ELSE 0) = Len(received) + k
             /\ Len(received) + k \in 1..MaxBytes
  <2>1. k \in 1..UsedSize(sendBuffer) /\ from + k <= Size
    BY SMTT(30), <1>1, SendFacts, BufferParts DEF SendInv
  <2>2. sendBuffer.cell[from + k - 1] = Contents(sendBuffer)[k]
    BY <1>1, SendFacts, LinearRead DEF SendInv
  <2>3. Contents(sendBuffer)[k] = Len(received) + k
    BY <1>1, <2>1 DEF SendInv, BytesOK
  <2>4. Len(received) + k \in 1..MaxBytes
    BY SMTT(30), <1>1, <2>1, SendFacts DEF SendInv
  <2>. QED  BY <2>1, <2>2, <2>3, <2>4
<1>3. KernelRead = [k \in 1..len |-> Len(received) + k]
  BY <1>2 DEF KernelRead
<1>4. len \in Nat /\ Len(received) + len <= accepted
  BY <1>1, SendFacts DEF SendInv
<1>5. KernelRead \in [1..len -> 1..MaxBytes]
  BY <1>2, <1>3
<1>6. KernelRead \in Seq(1..MaxBytes) /\ Len(KernelRead) = len
  BY <1>4, <1>5, FunctionAsSeq
<1>. QED  BY <1>3, <1>4, <1>6

\* The kernel sends some of the region: it is with the peer now, and still in the buffer.
LEMMA KernelSendsStep ==
  ASSUME SendInv, KernelSends
  PROVE  SendInv' /\ received' = [k \in 1..Len(received') |-> k]
                  /\ Len(received) <= Len(received') /\ Len(received') <= accepted
<1>. DEFINE data == SubSeq(KernelRead, 1, len')
<1>1. /\ KernelRead = [k \in 1..len |-> Len(received) + k]
      /\ KernelRead \in Seq(1..MaxBytes) /\ Len(KernelRead) = len
      /\ Len(received) + len <= accepted
  BY ReadInOrder DEF KernelSends
<1>2. /\ received \in Seq(1..MaxBytes) /\ Len(received) \in Nat /\ len \in Nat
      /\ received' = received \o data /\ len' \in 1..len /\ len' \in Nat /\ len' <= len
  BY SendFacts DEF SendInv, KernelSends
<1>3. /\ data \in Seq(1..MaxBytes) /\ Len(data) = len'
      /\ \A k \in 1..len' : data[k] = Len(received) + k
  <2>1. /\ data \in Seq(1..MaxBytes) /\ Len(data) = len'
        /\ \A k \in 1..len' : data[k] = KernelRead[k]
    <3>1. len' \in 0..Len(KernelRead)
      BY <1>1, <1>2
    <3>. QED  BY <1>1, <3>1, Prefix
  <2>2. \A k \in 1..len' : k \in 1..len
    BY <1>2
  <2>. HIDE DEF data
  <2>. QED  BY <1>1, <2>1, <2>2
<1>. HIDE DEF data
<1>4. /\ received' \in Seq(1..MaxBytes) /\ Len(received') = Len(received) + len'
      /\ \A k \in 1..(Len(received) + len') :
           received'[k] = IF k <= Len(received) THEN received[k] ELSE data[k - Len(received)]
  BY <1>2, <1>3, Concatenation
<1>5. ASSUME NEW k \in 1..Len(received') PROVE received'[k] = k
  <2>1. CASE k <= Len(received)
    BY <1>2, <1>4, <2>1 DEF SendInv, BytesOK
  <2>2. CASE ~(k <= Len(received))
    <3>1. k - Len(received) \in 1..len'
      BY <1>2, <1>4, <2>2
    <3>. QED  BY <1>2, <1>3, <1>4, <2>2, <3>1
  <2>. QED  BY <2>1, <2>2
<1>6. SendTypeOK'
  <2>1. len' \in Cells
    BY <1>2, SendFacts DEF SendInv, SendTypeOK, Cells
  <2>. QED  BY <1>4, <2>1 DEF SendInv, SendTypeOK, KernelSends
<1>7. NoLostWakeup'
  BY DEF SendInv, NoLostWakeup, KernelSends
<1>8. OperationOK'
  <2>1. UNCHANGED <<sendBuffer, from, sending>> /\ op = "kernel" /\ op' = "done"
    BY DEF KernelSends
  <2>2. len <= UsedSize(sendBuffer) /\ from + len <= Size /\ from = sendBuffer.head /\ sending
    BY <2>1 DEF SendInv, OperationOK
  <2>3. len' <= UsedSize(sendBuffer) /\ from + len' <= Size
    BY <1>2, <2>2, SendFacts DEF SendInv
  <2>. QED  BY <2>1, <2>2, <2>3 DEF OperationOK
<1>9. BytesOK'
  <2>1. Len(received') = accepted - UsedSize(sendBuffer) + len'
    <3>1. accepted \in Nat /\ UsedSize(sendBuffer) \in Nat
      BY SendFacts DEF SendInv
    <3>2. Len(received) = accepted - UsedSize(sendBuffer)
      BY <3>1 DEF SendInv, BytesOK, KernelSends
    <3>. HIDE DEF data
    <3>. QED  BY <1>2, <1>4, <3>1, <3>2
  <2>. QED  BY <1>5, <2>1 DEF SendInv, BytesOK, KernelSends
<1>10. received' = [k \in 1..Len(received') |-> k]
  BY <1>4, <1>5
<1>11. Len(received) <= Len(received') /\ Len(received') <= accepted
  <2>1. Len(received') = Len(received) + len' /\ Len(received) + len <= accepted
    BY <1>1, <1>4
  <2>2. accepted \in Nat
    BY SendFacts DEF SendInv
  <2>. HIDE DEF data
  <2>. QED  BY <1>2, <2>1, <2>2
<1>. QED  BY <1>6, <1>7, <1>8, <1>9, <1>10, <1>11 DEF SendInv

\* The operation fails.
LEMMA KernelFailsStep ==
  ASSUME SendInv, KernelFails
  PROVE  SendInv'
<1>1. SendTypeOK'
  BY SendFacts DEF SendInv, SendTypeOK, KernelFails, NoOperation
<1>2. NoLostWakeup' /\ OperationOK'
  BY DEF NoLostWakeup, OperationOK, KernelFails, NoOperation
<1>3. BytesOK'
  BY DEF SendInv, BytesOK, KernelFails, NoOperation
<1>. QED  BY <1>1, <1>2, <1>3 DEF SendInv

\* OnSend drops what was sent; what is left is posted, unless the session is closing.
LEMMA OnSendStep ==
  ASSUME SendInv, OnSend
  PROVE  SendInv'
<1>1. /\ sendBuffer \in Buffers(SentBytes) /\ len \in 0..UsedSize(sendBuffer)
      /\ sendBuffer' = MoveHead(sendBuffer, len)
      /\ op = "done" /\ sending /\ accepted' = accepted /\ received' = received
  BY SendFacts DEF SendInv, OperationOK, OnSend
<1>2. /\ sendBuffer' \in Buffers(SentBytes) /\ UsedSize(sendBuffer') = UsedSize(sendBuffer) - len
      /\ Contents(sendBuffer') = SubSeq(Contents(sendBuffer), len + 1, UsedSize(sendBuffer))
  BY <1>1, MoveHeadDrops
<1>3. Contents(sendBuffer) \in Seq(SentBytes) /\ Len(Contents(sendBuffer)) = UsedSize(sendBuffer)
  BY <1>1, ContentsType
<1>4. /\ op' \in {"none", "kernel"} /\ from' \in Cells /\ len' \in Cells
      /\ op' = "none" => from' = 0 /\ len' = 0
      /\ op' = "kernel" => /\ from' = sendBuffer'.head /\ len' <= UsedSize(sendBuffer') /\ from' + len' <= Size
                           /\ sending'
      /\ closing' = closing \/ closing' = TRUE
      /\ ~closing' => (sending' <=> op' # "none") /\ (UsedSize(sendBuffer') # 0 => sending')
      /\ sending' \in BOOLEAN
  <2>1. CASE UsedSize(sendBuffer') # 0
    <3>1. PostSend(sendBuffer') /\ sending' = sending /\ sending \in BOOLEAN
      BY <2>1 DEF OnSend, SendInv, SendTypeOK
    <3>. QED  BY <1>1, <1>2, <3>1, Posted
  <2>2. CASE ~(UsedSize(sendBuffer') # 0)
    <3>1. NoOperation /\ sending' = FALSE /\ closing' = closing
      BY <2>2 DEF OnSend
    <3>. QED  BY <2>2, <3>1, SendFacts DEF NoOperation, SendInv
  <2>. QED  BY <2>1, <2>2
<1>5. SendTypeOK'
  BY <1>1, <1>2, <1>4 DEF SendInv, SendTypeOK, SentBytes
<1>6. NoLostWakeup' /\ OperationOK'
  BY <1>4 DEF NoLostWakeup, OperationOK
<1>7. BytesOK'
  <2>1. /\ UsedSize(sendBuffer) \in Nat /\ accepted \in Nat
        /\ UsedSize(sendBuffer) <= accepted /\ len \in Nat
        /\ len <= UsedSize(sendBuffer)
        /\ Len(received) = accepted - UsedSize(sendBuffer) + len
    BY <1>1, SendFacts DEF SendInv, BytesOK
  <2>2. UsedSize(sendBuffer') <= accepted' /\ Len(received') = accepted' - UsedSize(sendBuffer')
    BY <1>1, <1>2, <2>1
  <2>3. ASSUME NEW k \in 1..UsedSize(sendBuffer')
        PROVE  Contents(sendBuffer')[k] = accepted' - UsedSize(sendBuffer') + k
    <3>1. len + k \in 1..UsedSize(sendBuffer)
      BY <1>2, <2>1
    <3>2. Contents(sendBuffer')[k] = Contents(sendBuffer)[len + k]
      BY <1>2, <1>3, <2>1
    <3>3. Contents(sendBuffer)[len + k] = accepted - UsedSize(sendBuffer) + (len + k)
      BY <3>1 DEF SendInv, BytesOK
    <3>. QED  BY <1>1, <1>2, <2>1, <3>2, <3>3
  <2>4. \A k \in 1..Len(received') : received'[k] = k
    BY <1>1 DEF SendInv, BytesOK
  <2>5. op' # "done"
    BY <1>4
  <2>6. Len(received') = accepted' - UsedSize(sendBuffer') + (IF op' = "done" THEN len' ELSE 0)
    BY <1>1, <1>2, <2>1, <2>2, <2>5
  <2>. QED  BY <2>2, <2>3, <2>4, <2>6 DEF BytesOK
<1>. QED  BY <1>5, <1>6, <1>7 DEF SendInv

\* The receive side closes the session.
LEMMA CloseSessionStep ==
  ASSUME SendInv, CloseSession
  PROVE  SendInv'
<1>1. SendTypeOK' /\ NoLostWakeup' /\ OperationOK'
  BY DEF SendInv, SendTypeOK, NoLostWakeup, OperationOK, CloseSession
<1>2. BytesOK'
  BY BytesUntouched DEF CloseSession
<1>. QED  BY <1>1, <1>2 DEF SendInv

-----------------------------------------------------------------------------
\* The buffer is empty at the start.
LEMMA SendInitInvariant == SendInit => SendInv
<1>. SUFFICES ASSUME SendInit PROVE SendInv
  OBVIOUS
<1>1. /\ Size \in Nat /\ Size > 0 /\ 0 \in Cells /\ MaxBytes \in Nat /\ 0 \in SentBytes
  BY StreamAssumption, SizeAssumption DEF Cells, SentBytes
<1>2. /\ sendBuffer \in Buffers(SentBytes) /\ sendBuffer.head = 0 /\ sendBuffer.tail = 0
  BY <1>1 DEF SendInit, Buffers
<1>3. UsedSize(sendBuffer) = 0
  BY <1>2, Used
<1>4. SendTypeOK
  BY <1>1, <1>2 DEF SendInit, SendTypeOK, SentBytes
<1>5. NoLostWakeup /\ OperationOK
  BY <1>3 DEF SendInit, NoLostWakeup, OperationOK
<1>6. BytesOK
  BY <1>3 DEF SendInit, BytesOK
<1>. QED  BY <1>4, <1>5, <1>6 DEF SendInv

\* Every step keeps the invariant.
LEMMA SendNextInvariant == SendInv /\ [SendNext]_sendVars => SendInv'
<1>. SUFFICES ASSUME SendInv, [SendNext]_sendVars PROVE SendInv'
  OBVIOUS
<1>1. ASSUME NEW n \in Lengths, accepted + n <= MaxBytes,
             SendQueued(n) \/ SendStarts(n) \/ SendDropped(n)
      PROVE  SendInv'
  <2>1. CASE SendQueued(n)
    BY <1>1, <2>1, SendQueuedStep
  <2>2. CASE SendStarts(n)
    BY <1>1, <2>2, SendStartsStep
  <2>3. CASE SendDropped(n)
    <3>1. BytesOK'
      BY <2>3, BytesUntouched DEF SendDropped, sendVars
    <3>. QED  BY <2>3, <3>1 DEF SendDropped, sendVars, SendInv, SendTypeOK, NoLostWakeup, OperationOK
  <2>. QED  BY <1>1, <2>1, <2>2, <2>3
<1>2. CASE KernelSends \/ KernelFails \/ OnSend \/ CloseSession
  BY <1>2, KernelSendsStep, KernelFailsStep, OnSendStep, CloseSessionStep
<1>3. CASE UNCHANGED sendVars
  <2>1. BytesOK'
    BY <1>3, BytesUntouched DEF sendVars
  <2>. QED  BY <1>3, <2>1 DEF sendVars, SendInv, SendTypeOK, NoLostWakeup, OperationOK
<1>. QED  BY <1>1, <1>2, <1>3 DEF SendNext

\* The inductive invariant holds in every reachable state.
LEMMA SendInvariant == SendSpec => []SendInv
BY SendInitInvariant, SendNextInvariant, PTL DEF SendSpec

\* Types, the indexes of the ring and the region given to the kernel among them: they
\* stay inside the buffer for every sequence of sizes.
THEOREM SendTypes == SendSpec => []SendTypeOK
<1>1. SendInv => SendTypeOK
  BY DEF SendInv
<1>. QED  BY <1>1, SendInvariant, PTL

\* sending_ is set exactly while a WSASend is under way or unhandled, and never bytes are
\* left in the buffer without one: the flag loses no wake-up.
THEOREM SendLosesNoWakeup == SendSpec => []NoLostWakeup
<1>1. SendInv => NoLostWakeup
  BY DEF SendInv
<1>. QED  BY <1>1, SendInvariant, PTL

\* The kernel reads sendBuffer_ in place while Send writes to it, and finds the bytes it
\* was given, also when the writes wrap around.
THEOREM RegionIntact == SendSpec => []InFlightIntact
<1>1. SendInv => InFlightIntact
  <2>. SUFFICES ASSUME SendInv, op # "none" PROVE
         /\ from = sendBuffer.head /\ len <= UsedSize(sendBuffer) /\ from + len <= Size
         /\ op = "kernel" => KernelRead = [k \in 1..len |-> Len(received) + k]
    BY DEF InFlightIntact
  <2>1. from = sendBuffer.head /\ len <= UsedSize(sendBuffer) /\ from + len <= Size
    BY DEF SendInv, OperationOK
  <2>. QED  BY <2>1, ReadInOrder
<1>. QED  BY <1>1, SendInvariant, PTL

\* Every step of the send path is one of the byte stream, or none that it sees.
LEMMA NextRefines == SendInv /\ [SendNext]_sendVars => [Stream!Next]_<<accepted, received>>
<1>. SUFFICES ASSUME SendInv, [SendNext]_sendVars
              PROVE  \/ accepted' \in {n \in Nat : n > accepted} /\ received' = received
                     \/ /\ \E n \in Len(received)..accepted : received' = [k \in 1..n |-> k]
                        /\ accepted' = accepted
                     \/ accepted' = accepted /\ received' = received
  BY DEF Stream!Next, Stream!AcceptPacket, Stream!Arrive
<1>1. ASSUME NEW n \in Lengths, SendQueued(n) \/ SendStarts(n)
      PROVE  accepted' \in {m \in Nat : m > accepted} /\ received' = received
  <2>1. n \in Nat /\ n > 0 /\ accepted \in Nat
    BY StreamAssumption, SendFacts DEF SendInv
  <2>. QED  BY <1>1, <2>1 DEF SendQueued, SendStarts
<1>2. CASE KernelSends
  <2>1. /\ received' = [k \in 1..Len(received') |-> k] /\ accepted' = accepted
        /\ Len(received') \in Len(received)..accepted
    <3>1. /\ received' = [k \in 1..Len(received') |-> k] /\ SendInv' /\ accepted' = accepted
          /\ Len(received) <= Len(received') /\ Len(received') <= accepted
      BY <1>2, KernelSendsStep DEF KernelSends
    <3>2. Len(received') \in Nat
      BY <3>1 DEF SendInv, SendTypeOK
    <3>. QED  BY <3>1, <3>2, SendFacts DEF SendInv
  <2>. QED  BY <2>1
<1>3. ASSUME NEW n \in Lengths, SendDropped(n)
      PROVE  accepted' = accepted /\ received' = received
  BY <1>3 DEF SendDropped, sendVars
<1>4. CASE KernelFails \/ OnSend \/ CloseSession \/ UNCHANGED sendVars
  BY <1>4 DEF KernelFails, OnSend, CloseSession, sendVars
<1>. QED  BY <1>1, <1>2, <1>3, <1>4 DEF SendNext

\* The send path implements the byte stream: the peer receives the bytes of the accepted
\* packets, each once, in order and without a gap, however they are cut into operations.
THEOREM SendImplementsStream == SendSpec => ImplementsStream
<1>1. SendInit => Stream!Init
  BY DEF SendInit, Stream!Init
<1>. QED  BY <1>1, NextRefines, SendInvariant, PTL DEF SendSpec, ImplementsStream, Stream!Spec, Stream!vars

-----------------------------------------------------------------------------
(***************************************************************************)
(* RecvStream, for every list of packet sizes, valid or not, and every cut *)
(* into completions. Everything is argued on Unqueued, the bytes in the    *)
(* buffer followed by those on the wire: a receive leaves it as it is, the *)
(* client appends a packet to it, Frame drops the first packet of it.      *)
(***************************************************************************)

\* The bytes bs are those of the packets q + 1, ..., Len(sizes), of the given sizes: each
\* follows the one before it (Chained), and, which is what makes this inductive, around
\* every byte lies its whole packet, and the packet that is due comes first (Whole).
After(sizes, b) == IF b.at < Length(sizes[b.packet]) THEN Byte(b.packet, b.at + 1)
                                                     ELSE Byte(b.packet + 1, 1)

Chained(bs, sizes, q) ==
  \A k \in 1..Len(bs) :
    /\ bs[k].packet \in 1..Len(sizes) /\ bs[k].at \in 1..Length(sizes[bs[k].packet])
    /\ bs[k] = IF k = 1 THEN Byte(q + 1, 1) ELSE After(sizes, bs[k - 1])
    /\ k = Len(bs) => bs[k] = Byte(Len(sizes), Length(sizes[Len(sizes)]))

Whole(bs, sizes, q) ==
  \A k \in 1..Len(bs) :
    /\ bs[k].packet > q /\ bs[k].at <= k /\ (bs[k].packet = q + 1 => bs[k].at = k)
    /\ k - bs[k].at + Length(sizes[bs[k].packet]) <= Len(bs)
    /\ \A j \in 1..Length(sizes[bs[k].packet]) : bs[k - bs[k].at + j] = Byte(bs[k].packet, j)

InOrder(bs, sizes, q) ==
  /\ q <= Len(sizes) /\ (Len(bs) = 0 <=> q = Len(sizes))
  /\ Chained(bs, sizes, q) /\ Whole(bs, sizes, q)

\* The room offered to the kernel is free.
RoomFree == room <= EmptySize(recvBuffer)

RecvInv == RecvTypeOK /\ PacketsIntact /\ InOrder(Unqueued, script, Len(queued)) /\ RoomFree

-----------------------------------------------------------------------------
\* A byte has its packet and its place in it.
LEMMA Fields == \A p, k : Byte(p, k).packet = p /\ Byte(p, k).at = k
BY DEF Byte

\* The id of the session in the header leaves a packet one.
LEMMA StampedOK ==
  ASSUME NEW bytes \in Seq(AllBytes)
  PROVE  Stamped(bytes) \in Seq(AllBytes)
<1>1. \A k \in 1..Len(bytes) : Byte(0, k) \in AllBytes
  BY RecvAssumption DEF Byte, AllBytes
<1>2. Stamped(bytes) \in [1..Len(bytes) -> AllBytes] /\ Len(bytes) \in Nat
  BY <1>1 DEF Stamped
<1>. QED  BY <1>2, FunctionAsSeq

\* Every packet has at least the bytes of a header.
LEMMA PacketLengths ==
  ASSUME NEW size \in Sizes
  PROVE  /\ Length(size) \in Nat /\ Length(size) >= Header /\ Length(size) > 0 /\ size \in Nat
         /\ Valid(size) => Length(size) = size
BY RecvAssumption DEF Length, Valid

\* The bytes of a packet are numbered from 1 on.
LEMMA PacketBytes ==
  ASSUME NEW size \in Sizes, NEW p \in 1..MaxPackets
  PROVE  /\ BytesOf(p, size) \in Seq(AllBytes) /\ Len(BytesOf(p, size)) = Length(size)
         /\ \A k \in 1..Length(size) : BytesOf(p, size)[k] = Byte(p, k)
<1>1. \A k \in 1..Length(size) : Byte(p, k) \in AllBytes
  BY PacketLengths, RecvAssumption DEF Byte, AllBytes
<1>2. BytesOf(p, size) \in [1..Length(size) -> AllBytes]
  BY <1>1 DEF BytesOf
<1>3. BytesOf(p, size) \in Seq(AllBytes) /\ Len(BytesOf(p, size)) = Length(size)
  BY <1>2, PacketLengths, FunctionAsSeq
<1>. QED  BY <1>3 DEF BytesOf

\* Another packet at the end.
LEMMA PacketAppended ==
  ASSUME NEW bs \in Seq(AllBytes), NEW sizes \in Seq(Sizes), NEW q \in Nat,
         InOrder(bs, sizes, q), NEW size \in Sizes, Len(sizes) < MaxPackets
  PROVE  InOrder(bs \o BytesOf(Len(sizes) + 1, size), Append(sizes, size), q)
<1>. DEFINE n == Len(bs)
            z == Len(sizes)
            m == Length(size)
            P == BytesOf(z + 1, size)
            cs == bs \o P
            sz == Append(sizes, size)
<1>1. n \in Nat /\ z \in Nat /\ m \in Nat /\ m > 0 /\ z + 1 \in 1..MaxPackets
  BY PacketLengths, RecvAssumption
<1>2. P \in Seq(AllBytes) /\ Len(P) = m /\ \A k \in 1..m : P[k] = Byte(z + 1, k)
  BY <1>1, PacketBytes
<1>3. /\ cs \in Seq(AllBytes) /\ Len(cs) = n + m
      /\ \A k \in 1..(n + m) : cs[k] = IF k <= n THEN bs[k] ELSE P[k - n]
  <2>. HIDE DEF P
  <2>. QED  BY ZenonT(40), <1>2, Concatenation
<1>4. /\ sz \in Seq(Sizes) /\ Len(sz) = z + 1 /\ sz[z + 1] = size
      /\ \A p \in 1..z : p \in 1..(z + 1) /\ sz[p] = sizes[p] /\ Length(sizes[p]) \in Nat
  BY PacketLengths
<1>5. /\ q <= z /\ (n = 0 <=> q = z) /\ Chained(bs, sizes, q) /\ Whole(bs, sizes, q)
  BY DEF InOrder
<1>. HIDE DEF P, cs, sz, n, z, m
<1>6. ASSUME NEW k \in 1..n
      PROVE  /\ cs[k] = bs[k] /\ bs[k].packet \in 1..z /\ bs[k].at \in Nat
             /\ sz[bs[k].packet] = sizes[bs[k].packet] /\ k \in Nat /\ k < n + m
  <2>1. k \in 1..(n + m) /\ k <= n /\ k < n + m
    BY <1>1
  <2>2. bs[k].packet \in 1..z /\ bs[k].at \in 1..Length(sizes[bs[k].packet])
    BY <1>5 DEF Chained, n, z
  <2>. QED  BY <1>3, <1>4, <2>1, <2>2
<1>7. ASSUME NEW k \in 1..(n + m), k \notin 1..n
      PROVE  \E a \in 1..m : k = n + a /\ cs[k] = Byte(z + 1, a)
  <2>1. k - n \in 1..m /\ k = n + (k - n) /\ ~(k <= n)
    BY <1>1, <1>7
  <2>2. cs[k] = Byte(z + 1, k - n)
    BY <1>2, <1>3, <2>1
  <2>. QED  BY <2>1, <2>2
<1>8. ASSUME NEW a \in 1..m PROVE cs[n + a] = Byte(z + 1, a)
  <2>1. n + a \in 1..(n + m) /\ n + a \notin 1..n
    BY <1>1
  <2>2. PICK d \in 1..m : n + a = n + d /\ cs[n + a] = Byte(z + 1, d)
    BY <1>7, <2>1
  <2>. QED  BY <1>1, <2>2
<1>9. Chained(cs, sz, q)
  <2>1. ASSUME NEW k \in 1..(n + m)
        PROVE  /\ cs[k].packet \in 1..(z + 1) /\ cs[k].at \in 1..Length(sz[cs[k].packet])
               /\ cs[k] = IF k = 1 THEN Byte(q + 1, 1) ELSE After(sz, cs[k - 1])
               /\ k = n + m => cs[k] = Byte(z + 1, Length(sz[z + 1]))
    <3>1. CASE k \in 1..n
      <4>1. /\ bs[k].packet \in 1..z /\ bs[k].at \in 1..Length(sizes[bs[k].packet])
            /\ bs[k] = IF k = 1 THEN Byte(q + 1, 1) ELSE After(sizes, bs[k - 1])
        BY <1>5, <3>1 DEF Chained, n, z
      <4>2. k # 1 => After(sizes, bs[k - 1]) = After(sz, cs[k - 1])
        <5>1. k # 1 => k - 1 \in 1..n
          BY <1>1, <3>1
        <5>. QED  BY <1>6, <5>1 DEF After
      <4>3. cs[k] = bs[k] /\ sz[bs[k].packet] = sizes[bs[k].packet] /\ k # n + m
        BY <1>1, <1>6, <3>1
      <4>4. bs[k].packet \in 1..(z + 1)
        BY <1>4, <4>1
      <4>. QED  BY <4>1, <4>2, <4>3, <4>4
    <3>2. CASE k \notin 1..n
      <4>1. PICK a \in 1..m : k = n + a /\ cs[k] = Byte(z + 1, a)
        BY <1>7, <3>2
      <4>2. cs[k].packet = z + 1 /\ cs[k].at = a /\ Length(sz[z + 1]) = m
        BY <1>4, <4>1, Fields DEF m
      <4>3. z + 1 \in 1..(z + 1) /\ (k = n + m => a = m)
        BY <1>1, <4>1
      <4>4. cs[k] = IF k = 1 THEN Byte(q + 1, 1) ELSE After(sz, cs[k - 1])
        <5>1. CASE a # 1
          <6>1. a - 1 \in 1..m /\ k - 1 = n + (a - 1) /\ k # 1 /\ a - 1 < m /\ (a - 1) + 1 = a
            BY <1>1, <4>1, <5>1
          <6>2. cs[k - 1] = Byte(z + 1, a - 1)
            BY <1>8, <6>1
          <6>3. cs[k - 1].packet = z + 1 /\ cs[k - 1].at = a - 1
            BY <6>2, Fields
          <6>4. After(sz, cs[k - 1]) = Byte(z + 1, a)
            BY <4>2, <6>1, <6>3 DEF After
          <6>. QED  BY <4>1, <6>1, <6>4
        <5>2. CASE a = 1 /\ n = 0
          BY <1>5, <4>1, <5>2
        <5>3. CASE a = 1 /\ n # 0
          <6>1. n \in 1..n /\ k - 1 = n /\ k # 1
            BY <1>1, <4>1, <5>3
          <6>2. bs[n] = Byte(z, Length(sizes[z])) /\ bs[n].packet \in 1..z
            BY <1>5, <6>1 DEF Chained, n, z
          <6>3. z \in 1..z /\ cs[n] = bs[n]
            BY <1>1, <1>6, <6>1, <6>2
          <6>4. sz[z] = sizes[z] /\ Length(sizes[z]) \in Nat
            BY <1>4, <6>3
          <6>5. After(sz, cs[n]) = Byte(z + 1, 1)
            BY <6>2, <6>3, <6>4, Fields DEF After
          <6>. QED  BY <4>1, <5>3, <6>1, <6>5
        <5>. QED  BY <5>1, <5>2, <5>3
      <4>. QED  BY <4>1, <4>2, <4>3, <4>4
    <3>. QED  BY <3>1, <3>2
  <2>. QED  BY <1>3, <1>4, <2>1 DEF Chained
<1>10. Whole(cs, sz, q)
  <2>1. ASSUME NEW k \in 1..(n + m)
        PROVE  /\ cs[k].packet > q /\ cs[k].at <= k /\ (cs[k].packet = q + 1 => cs[k].at = k)
               /\ k - cs[k].at + Length(sz[cs[k].packet]) <= n + m
               /\ \A j \in 1..Length(sz[cs[k].packet]) :
                    cs[k - cs[k].at + j] = Byte(cs[k].packet, j)
    <3>1. CASE k \in 1..n
      <4>. DEFINE p == bs[k].packet
                  a == bs[k].at
                  l == Length(sizes[p])
      <4>1. /\ p > q /\ a <= k /\ (p = q + 1 => a = k) /\ k - a + l <= n
            /\ \A j \in 1..l : bs[k - a + j] = Byte(p, j)
        BY <1>5, <3>1 DEF Whole, n
      <4>2. cs[k] = bs[k] /\ sz[p] = sizes[p] /\ a \in Nat /\ l \in Nat /\ k \in Nat
        BY <1>4, <1>6, <3>1
      <4>. HIDE DEF p, a, l
      <4>3. ASSUME NEW j \in 1..l PROVE cs[k - a + j] = Byte(p, j)
        <5>1. k - a + j \in 1..n
          BY SMTT(30), <1>1, <4>1, <4>2
        <5>. QED  BY <1>6, <4>1, <5>1
      <4>4. k - a + l <= n + m
        BY <1>1, <4>1, <4>2
      <4>. QED  BY <4>1, <4>2, <4>3, <4>4 DEF p, a, l
    <3>2. CASE k \notin 1..n
      <4>1. PICK a \in 1..m : k = n + a /\ cs[k] = Byte(z + 1, a)
        BY <1>7, <3>2
      <4>2. cs[k].packet = z + 1 /\ cs[k].at = a /\ Length(sz[z + 1]) = m
        BY <1>4, <4>1, Fields DEF m
      <4>3. /\ k - a = n /\ a <= k /\ z + 1 > q /\ (z + 1 = q + 1 => a = k)
            /\ k - a + m <= n + m
        BY <1>1, <1>5, <4>1
      <4>. QED  BY <1>8, <4>2, <4>3
    <3>. QED  BY <3>1, <3>2
  <2>. QED  BY <1>3, <2>1 DEF Whole
<1>11. q <= Len(sz) /\ (Len(cs) = 0 <=> q = Len(sz))
  BY <1>1, <1>3, <1>4, <1>5
<1>. QED  BY <1>9, <1>10, <1>11 DEF InOrder, cs, sz, P, z

\* The first packet is taken away.
LEMMA PacketDropped ==
  ASSUME NEW bs \in Seq(AllBytes), NEW sizes \in Seq(Sizes), NEW q \in Nat,
         InOrder(bs, sizes, q), Len(bs) # 0
  PROVE  LET m == Length(sizes[q + 1]) IN
         /\ q + 1 \in 1..Len(sizes) /\ bs[1] = Byte(q + 1, 1) /\ m \in 1..Len(bs)
         /\ \A k \in 1..m : bs[k] = Byte(q + 1, k)
         /\ InOrder(SubSeq(bs, m + 1, Len(bs)), sizes, q + 1)
<1>. DEFINE n == Len(bs)
            z == Len(sizes)
            m == Length(sizes[q + 1])
            cs == SubSeq(bs, m + 1, n)
<1>1. n \in Nat /\ z \in Nat /\ 1 \in 1..n
  BY DEF InOrder
<1>2. /\ q <= z /\ q # z /\ Chained(bs, sizes, q) /\ Whole(bs, sizes, q)
  BY DEF InOrder
<1>3. q + 1 \in 1..z /\ m \in Nat /\ m > 0
  <2>1. q + 1 \in 1..z
    BY <1>1, <1>2
  <2>. QED  BY <2>1, PacketLengths
<1>4. bs[1] = Byte(q + 1, 1)
  BY <1>1, <1>2 DEF Chained
<1>. HIDE DEF n, z, m
<1>5. m <= n /\ \A k \in 1..m : bs[k] = Byte(q + 1, k)
  <2>1. bs[1].packet = q + 1 /\ bs[1].at = 1
    BY <1>4, Fields
  <2>2. 1 - 1 + m <= n /\ \A j \in 1..m : bs[1 - 1 + j] = Byte(q + 1, j)
    BY <1>1, <1>2, <2>1 DEF Whole, n, m
  <2>. QED  BY <1>1, <1>3, <2>2
<1>6. cs \in Seq(AllBytes) /\ Len(cs) = n - m /\ \A k \in 1..(n - m) : cs[k] = bs[m + k]
  BY <1>1, <1>3, <1>5 DEF n
<1>. HIDE DEF cs
<1>7. ASSUME NEW k \in 1..(n - m)
      PROVE  /\ m + k \in 1..n /\ m + k # 1 /\ (m + k) - 1 = m + (k - 1) /\ (k # 1 => k - 1 \in 1..(n - m))
             /\ bs[m + k].packet \in 1..z /\ bs[m + k].at \in 1..Length(sizes[bs[m + k].packet])
             /\ bs[m + k] = After(sizes, bs[m + (k - 1)])
             /\ m + k = n => bs[m + k] = Byte(z, Length(sizes[z]))
             /\ bs[m + k].packet > q /\ bs[m + k].at <= m + k
             /\ (bs[m + k].packet = q + 1 => bs[m + k].at = m + k)
             /\ (m + k) - bs[m + k].at + Length(sizes[bs[m + k].packet]) <= n
             /\ \A j \in 1..Length(sizes[bs[m + k].packet]) :
                  bs[(m + k) - bs[m + k].at + j] = Byte(bs[m + k].packet, j)
  <2>1. /\ m + k \in 1..n /\ m + k # 1 /\ (m + k) - 1 = m + (k - 1) /\ (k # 1 => k - 1 \in 1..(n - m))
    BY <1>1, <1>3
  <2>2. /\ bs[m + k].packet \in 1..z /\ bs[m + k].at \in 1..Length(sizes[bs[m + k].packet])
        /\ bs[m + k] = After(sizes, bs[(m + k) - 1])
        /\ m + k = n => bs[m + k] = Byte(z, Length(sizes[z]))
    BY <1>2, <2>1 DEF Chained, n, z
  <2>3. /\ bs[m + k].packet > q /\ bs[m + k].at <= m + k
        /\ (bs[m + k].packet = q + 1 => bs[m + k].at = m + k)
        /\ (m + k) - bs[m + k].at + Length(sizes[bs[m + k].packet]) <= n
        /\ \A j \in 1..Length(sizes[bs[m + k].packet]) :
             bs[(m + k) - bs[m + k].at + j] = Byte(bs[m + k].packet, j)
    BY <1>2, <2>1 DEF Whole, n
  <2>. QED  BY <2>1, <2>2, <2>3
\* No byte of packet q + 1 is left, so those of packet q + 2 begin right after it.
<1>8. ASSUME NEW k \in 1..(n - m)
      PROVE  LET p == bs[m + k].packet
                 a == bs[m + k].at
             IN  /\ p > q + 1 /\ a <= k /\ a \in Nat /\ p \in Nat
                 /\ p = q + 2 => a = k
  <2>. DEFINE p == bs[m + k].packet
              a == bs[m + k].at
  <2>1. /\ p \in 1..z /\ a \in 1..Length(sizes[p]) /\ p > q /\ a <= m + k
        /\ (p = q + 1 => a = m + k)
        /\ \A j \in 1..Length(sizes[p]) : bs[(m + k) - a + j] = Byte(p, j)
        /\ (m + k) - a + Length(sizes[p]) <= n /\ Length(sizes[p]) \in Nat
    <3>1. p \in 1..z
      BY <1>7
    <3>2. sizes[p] \in Sizes
      BY <3>1 DEF z
    <3>. QED  BY <1>7, <3>1, <3>2, PacketLengths
  <2>. HIDE DEF p, a
  <2>2. p # q + 1
    <3>. SUFFICES ASSUME p = q + 1 PROVE FALSE
      OBVIOUS
    <3>1. Length(sizes[p]) = m /\ a = m + k
      BY <2>1 DEF m
    <3>. QED  BY <1>1, <1>3, <2>1, <3>1
  <2>3. 1 \in 1..Length(sizes[p]) /\ bs[(m + k) - a + 1] = Byte(p, 1)
    BY <2>1
  <2>4. ~((m + k) - a + 1 <= m)
    <3>. SUFFICES ASSUME (m + k) - a + 1 <= m PROVE FALSE
      OBVIOUS
    <3>1. (m + k) - a + 1 \in 1..m
      BY <1>3, <2>1
    <3>. QED  BY <1>5, <2>2, <2>3, <3>1, Fields
  <2>5. a <= k /\ p > q + 1
    BY <1>3, <2>1, <2>2, <2>4
  <2>6. ASSUME p = q + 2, a # k PROVE FALSE
    <3>. DEFINE d == k - a
    <3>1. d \in 1..(n - m) /\ (m + k) - a + 1 = m + (d + 1) /\ d + 1 \in 1..(n - m)
          /\ (d + 1) - 1 = d
      BY <1>1, <1>3, <2>1, <2>5, <2>6
    <3>. HIDE DEF d
    <3>2. bs[m + (d + 1)] = After(sizes, bs[m + d])
      BY <1>7, <3>1
    <3>3. /\ bs[m + d].packet \in 1..z /\ bs[m + d].at \in 1..Length(sizes[bs[m + d].packet])
          /\ bs[m + d].packet > q /\ (bs[m + d].packet = q + 1 => bs[m + d].at = m + d)
      BY <1>7, <3>1
    <3>4. bs[m + (d + 1)].packet = q + 2 /\ bs[m + (d + 1)].at = 1
      BY <2>3, <2>6, <3>1, Fields
    <3>5. bs[m + d].at + 1 # 1
      BY <3>3
    <3>6. bs[m + d].packet + 1 = q + 2
      BY <3>2, <3>4, <3>5, Fields DEF After
    <3>7. bs[m + d].packet = q + 1 /\ bs[m + d].at = m + d
      BY <3>3, <3>6
    <3>8. bs[m + d].at <= m
      BY <1>3, <3>3, <3>7 DEF m
    <3>. QED  BY <1>3, <3>1, <3>7, <3>8
  <2>7. p \in Nat /\ a \in Nat
    BY <1>1, <2>1
  <2>. QED  BY <2>5, <2>6, <2>7 DEF p, a
<1>9. Chained(cs, sizes, q + 1)
  <2>1. ASSUME NEW k \in 1..(n - m)
        PROVE  /\ cs[k].packet \in 1..z /\ cs[k].at \in 1..Length(sizes[cs[k].packet])
               /\ cs[k] = IF k = 1 THEN Byte((q + 1) + 1, 1) ELSE After(sizes, cs[k - 1])
               /\ k = n - m => cs[k] = Byte(z, Length(sizes[z]))
    <3>1. cs[k] = bs[m + k] /\ (k = n - m => m + k = n) /\ (k # 1 => cs[k - 1] = bs[m + (k - 1)])
      <4>1. k # 1 => k - 1 \in 1..(n - m)
        BY <1>7
      <4>2. k = n - m => m + k = n
        BY <1>1, <1>3
      <4>. QED  BY <1>6, <4>1, <4>2
    <3>2. CASE k = 1
      <4>1. bs[m + k] = After(sizes, bs[m])
        <5>1. m + (k - 1) = m
          BY <1>3, <3>2
        <5>. QED  BY <1>7, <5>1
      <4>2. bs[m] = Byte(q + 1, m)
        BY <1>3, <1>5
      <4>3. After(sizes, bs[m]) = Byte((q + 1) + 1, 1)
        BY <1>3, <4>2, Fields DEF After, m
      <4>. QED  BY <1>7, <3>1, <3>2, <4>1, <4>3
    <3>3. CASE k # 1
      BY <1>7, <3>1, <3>3
    <3>. QED  BY <3>2, <3>3
  <2>. QED  BY <1>6, <2>1 DEF Chained, z
<1>10. Whole(cs, sizes, q + 1)
  <2>1. ASSUME NEW k \in 1..(n - m)
        PROVE  /\ cs[k].packet > q + 1 /\ cs[k].at <= k /\ (cs[k].packet = (q + 1) + 1 => cs[k].at = k)
               /\ k - cs[k].at + Length(sizes[cs[k].packet]) <= n - m
               /\ \A j \in 1..Length(sizes[cs[k].packet]) :
                    cs[k - cs[k].at + j] = Byte(cs[k].packet, j)
    <3>. DEFINE p == bs[m + k].packet
                a == bs[m + k].at
                l == Length(sizes[p])
    <3>1. /\ cs[k] = bs[m + k] /\ p > q + 1 /\ a <= k /\ a \in Nat /\ (p = q + 2 => a = k)
          /\ (m + k) - a + l <= n /\ l \in Nat
          /\ \A j \in 1..l : bs[(m + k) - a + j] = Byte(p, j)
      <4>1. p \in 1..z /\ l \in Nat
        <5>1. p \in 1..z
          BY <1>7
        <5>2. sizes[p] \in Sizes
          BY <5>1 DEF z
        <5>. QED  BY <5>1, <5>2, PacketLengths
      <4>2. /\ p > q + 1 /\ a <= k /\ a \in Nat /\ (p = q + 2 => a = k)
        BY <1>8
      <4>3. /\ (m + k) - a + l <= n /\ \A j \in 1..l : bs[(m + k) - a + j] = Byte(p, j)
        BY <1>7
      <4>. QED  BY <1>6, <4>1, <4>2, <4>3
    <3>. HIDE DEF p, a, l
    <3>2. k - a + l <= n - m /\ (q + 1) + 1 = q + 2
      BY <1>1, <1>3, <3>1
    <3>3. ASSUME NEW j \in 1..l PROVE cs[k - a + j] = Byte(p, j)
      <4>1. k - a + j \in 1..(n - m) /\ m + (k - a + j) = (m + k) - a + j
        BY <1>1, <1>3, <3>1, <3>2
      <4>. QED  BY <1>6, <3>1, <4>1
    <3>. QED  BY <3>1, <3>2, <3>3 DEF p, a, l
  <2>. QED  BY <1>6, <2>1 DEF Whole
<1>11. q + 1 <= z /\ (Len(cs) = 0 <=> q + 1 = z)
  <2>1. q + 1 <= z
    BY <1>1, <1>3
  <2>2. ASSUME Len(cs) = 0 PROVE q + 1 = z
    <3>1. n = m /\ n \in 1..n /\ m \in 1..m
      BY <1>1, <1>3, <1>6, <2>2
    <3>2. bs[n] = Byte(z, Length(sizes[z]))
      BY <1>2, <3>1 DEF Chained, n, z
    <3>3. bs[m] = Byte(q + 1, m)
      BY <1>5, <3>1
    <3>. QED  BY <3>1, <3>2, <3>3, Fields
  <2>3. ASSUME Len(cs) # 0 PROVE q + 1 # z
    <3>1. 1 \in 1..(n - m)
      BY <1>1, <1>3, <1>5, <1>6, <2>3
    <3>2. bs[m + 1].packet \in 1..z /\ bs[m + 1].packet > q + 1
      BY <1>7, <1>8, <3>1
    <3>. QED  BY <1>1, <3>2
  <2>. QED  BY <2>1, <2>2, <2>3
<1>12. InOrder(cs, sizes, q + 1)
  BY <1>9, <1>10, <1>11 DEF InOrder, z
<1>. QED  BY <1>1, <1>3, <1>4, <1>5, <1>12 DEF n, z, m, cs

-----------------------------------------------------------------------------
\* The parts of the types that the arithmetic needs.
LEMMA RecvFacts ==
  ASSUME RecvTypeOK
  PROVE  /\ recvBuffer \in Buffers(AllBytes) /\ onWire \in Seq(AllBytes) /\ Len(onWire) \in Nat
         /\ Contents(recvBuffer) \in Seq(AllBytes)
         /\ Len(Contents(recvBuffer)) = UsedSize(recvBuffer)
         /\ UsedSize(recvBuffer) \in Nat /\ UsedSize(recvBuffer) < Size
         /\ EmptySize(recvBuffer) = Size - UsedSize(recvBuffer) - 1
         /\ script \in Seq(Sizes) /\ Len(script) \in Nat /\ Len(script) <= MaxPackets
         /\ queued \in Seq(Seq(AllBytes)) /\ Len(queued) \in Nat
         /\ Size \in Nat /\ Size > 0 /\ MaxPackets \in Nat /\ Header \in Nat /\ Header > 0
<1>1. /\ recvBuffer \in Buffers(AllBytes) /\ onWire \in Seq(AllBytes) /\ script \in Seq(Sizes)
      /\ Len(script) <= MaxPackets /\ queued \in Seq(Seq(AllBytes))
  BY DEF RecvTypeOK
<1>2. Len(onWire) \in Nat /\ Len(script) \in Nat /\ Len(queued) \in Nat
  BY <1>1
<1>. QED  BY <1>1, <1>2, ContentsType, Used, SizeAssumption, RecvAssumption

\* The bytes that are not queued yet, by position.
LEMMA UnqueuedBytes ==
  ASSUME RecvTypeOK
  PROVE  /\ Unqueued \in Seq(AllBytes) /\ Len(Unqueued) = UsedSize(recvBuffer) + Len(onWire)
         /\ \A k \in 1..UsedSize(recvBuffer) : k \in 1..Len(Unqueued) /\ Unqueued[k] = Contents(recvBuffer)[k]
<1>. DEFINE c == Contents(recvBuffer)
            u == UsedSize(recvBuffer)
<1>1. c \in Seq(AllBytes) /\ Len(c) = u /\ onWire \in Seq(AllBytes) /\ u \in Nat /\ Len(onWire) \in Nat
  BY RecvFacts
<1>2. Unqueued = c \o onWire
  BY DEF Unqueued
<1>. HIDE DEF c, u
<1>3. /\ Unqueued \in Seq(AllBytes) /\ Len(Unqueued) = u + Len(onWire)
      /\ \A k \in 1..(u + Len(onWire)) : Unqueued[k] = IF k <= u THEN c[k] ELSE onWire[k - u]
  BY <1>1, <1>2, Concatenation
<1>4. \A k \in 1..u : k \in 1..Len(Unqueued) /\ Unqueued[k] = c[k]
  BY <1>1, <1>3
<1>. QED  BY <1>3, <1>4 DEF c, u

\* The client sends a packet: it comes after all that is not queued yet.
LEMMA ClientSendsStep ==
  ASSUME RecvInv, ClientSends
  PROVE  RecvInv'
<1>1. PICK size \in Sizes : /\ script' = Append(script, size)
                            /\ onWire' = onWire \o BytesOf(Len(script) + 1, size)
  BY DEF ClientSends
<1>2. Len(script) < MaxPackets /\ UNCHANGED <<recvBuffer, room, pc, recvClosing, queued>>
  BY DEF ClientSends
<1>. DEFINE P == BytesOf(Len(script) + 1, size)
<1>3. P \in Seq(AllBytes)
  <2>1. Len(script) + 1 \in 1..MaxPackets
    BY <1>2, RecvFacts DEF RecvInv
  <2>. QED  BY <2>1, PacketBytes
<1>4. /\ script \in Seq(Sizes) /\ onWire \in Seq(AllBytes) /\ Contents(recvBuffer) \in Seq(AllBytes)
      /\ Len(queued) \in Nat /\ Unqueued \in Seq(AllBytes)
  BY RecvFacts, UnqueuedBytes DEF RecvInv
<1>. HIDE DEF P
<1>5. Unqueued' = Unqueued \o P
  <2>1. Unqueued' = Contents(recvBuffer) \o (onWire \o P) /\ Unqueued = Contents(recvBuffer) \o onWire
    BY <1>1, <1>2 DEF Unqueued, P
  <2>2. Contents(recvBuffer) \o (onWire \o P) = (Contents(recvBuffer) \o onWire) \o P
    BY SMTT(30), <1>3, <1>4
  <2>. QED  BY <2>1, <2>2
<1>6. /\ script' \in Seq(Sizes) /\ Len(script') = Len(script) + 1
      /\ \A p \in 1..Len(script) : script'[p] = script[p]
  BY <1>1, <1>4
<1>7. RecvTypeOK'
  <2>1. onWire' \in Seq(AllBytes)
    BY <1>1, <1>3, <1>4 DEF P
  <2>2. Len(script') <= MaxPackets
    BY <1>2, <1>6, RecvFacts DEF RecvInv
  <2>. QED  BY <1>2, <1>6, <2>1, <2>2 DEF RecvInv, RecvTypeOK
<1>8. PacketsIntact'
  <2>1. Len(script) \in Nat
    BY RecvFacts DEF RecvInv
  <2>. QED  BY <1>2, <1>4, <1>6, <2>1 DEF RecvInv, PacketsIntact
<1>9. InOrder(Unqueued', script', Len(queued'))
  BY <1>1, <1>2, <1>4, <1>5, PacketAppended DEF RecvInv, P
<1>10. RoomFree'
  BY <1>2 DEF RecvInv, RoomFree
<1>. QED  BY <1>7, <1>8, <1>9, <1>10 DEF RecvInv

\* A receive completes: the bytes go from the wire into the buffer.
LEMMA ReceiveStep ==
  ASSUME RecvInv, Receive
  PROVE  RecvInv'
<1>1. PICK n \in 1..room :
        /\ n <= Len(onWire)
        /\ recvBuffer' = MoveTail(PutAt(recvBuffer, recvBuffer.tail, SubSeq(onWire, 1, n)), n)
        /\ onWire' = SubSeq(onWire, n + 1, Len(onWire))
  BY DEF Receive
<1>2. room \in Nat /\ room' = 0 /\ pc' = "parse" /\ UNCHANGED <<script, recvClosing, queued>>
  BY SizeAssumption DEF Receive, RecvInv, RecvTypeOK
<1>. DEFINE data == SubSeq(onWire, 1, n)
            rest == SubSeq(onWire, n + 1, Len(onWire))
<1>3. /\ data \in Seq(AllBytes) /\ Len(data) = n /\ rest \in Seq(AllBytes)
      /\ data \o rest = onWire /\ n \in Nat
  <2>1. onWire \in Seq(AllBytes) /\ Len(onWire) \in Nat /\ n \in Nat
    BY <1>2, RecvFacts DEF RecvInv
  <2>. QED  BY <1>1, <2>1
<1>. HIDE DEF data, rest
<1>4. n <= EmptySize(recvBuffer)
  BY <1>2, <1>3, RecvFacts DEF RecvInv, RoomFree
<1>5. recvBuffer' \in Buffers(AllBytes) /\ Contents(recvBuffer') = Contents(recvBuffer) \o data
  <2>1. recvBuffer' = MoveTail(Write(recvBuffer, data), Len(data))
    BY <1>1, <1>3 DEF Write, data
  <2>. QED  BY <1>3, <1>4, <2>1, RecvFacts, WriteAppends DEF RecvInv
<1>6. Unqueued' = Unqueued
  <2>1. Unqueued' = (Contents(recvBuffer) \o data) \o rest
    BY <1>1, <1>5 DEF Unqueued, rest
  <2>2. (Contents(recvBuffer) \o data) \o rest = Contents(recvBuffer) \o (data \o rest)
    <3>1. Contents(recvBuffer) \in Seq(AllBytes)
      BY RecvFacts DEF RecvInv
    <3>2. data \in Seq(AllBytes) /\ rest \in Seq(AllBytes)
      BY <1>3
    <3>. QED  BY <3>1, <3>2
  <2>. QED  BY <1>3, <2>1, <2>2 DEF Unqueued
<1>7. RecvTypeOK'
  <2>1. 0 \in 0..Size
    BY SizeAssumption
  <2>. QED  BY <1>1, <1>2, <1>3, <1>5, <2>1 DEF RecvInv, RecvTypeOK, rest
<1>8. RoomFree'
  BY <1>2, <1>5, Used DEF RoomFree
<1>. QED  BY <1>2, <1>6, <1>7, <1>8 DEF RecvInv, PacketsIntact

\* The length in a header that is buffered whole is a number.
LEMMA FrameSize ==
  ASSUME RecvInv, Frame
  PROVE  HeaderSize \in Nat
<1>. DEFINE R == Unqueued
            q == Len(queued)
            u == UsedSize(recvBuffer)
<1>1. /\ u >= Header /\ Valid(HeaderSize)
      /\ R \in Seq(AllBytes) /\ u \in Nat /\ q \in Nat /\ script \in Seq(Sizes)
      /\ \A k \in 1..u : k \in 1..Len(R) /\ R[k] = Contents(recvBuffer)[k]
      /\ recvBuffer \in Buffers(AllBytes) /\ Header \in Nat /\ Header > 0
  BY RecvFacts, UnqueuedBytes DEF RecvInv, Frame
<1>2. 1 \in 1..u /\ Len(R) # 0
  BY <1>1
<1>3. q + 1 \in 1..Len(script) /\ R[1] = Byte(q + 1, 1)
  BY <1>1, <1>2, PacketDropped DEF RecvInv
<1>4. recvBuffer.cell[recvBuffer.head] = Contents(recvBuffer)[1]
  <2>1. 1 \in 0..u /\ 1 \in 1..1 /\ recvBuffer.head + 1 <= Size /\ recvBuffer.head + 1 - 1 = recvBuffer.head
    BY <1>1, <1>2, BufferParts
  <2>. QED  BY <1>1, <2>1, LinearRead
<1>5. recvBuffer.cell[recvBuffer.head].packet = q + 1
  BY <1>1, <1>2, <1>3, <1>4, Fields
<1>6. HeaderSize = script[q + 1] /\ script[q + 1] \in Sizes
  BY <1>1, <1>3, <1>5 DEF HeaderSize
<1>. QED  BY <1>1, <1>6, PacketLengths

\* A whole packet is at the head: it is the one that is due, and exactly as it was sent.
LEMMA FrameStep ==
  ASSUME RecvInv, Frame
  PROVE  RecvInv'
<1>. DEFINE R == Unqueued
            q == Len(queued)
            size == HeaderSize
            u == UsedSize(recvBuffer)
<1>1. /\ u >= Header /\ Valid(size) /\ u >= size /\ queued' = Append(queued, Stamped(Peek(recvBuffer, size)))
      /\ recvBuffer' = MoveHead(recvBuffer, size)
      /\ UNCHANGED <<script, onWire, room, pc, recvClosing>>
  BY DEF Frame
<1>2. /\ R \in Seq(AllBytes) /\ Len(R) = u + Len(onWire) /\ u \in Nat /\ Len(onWire) \in Nat
      /\ \A k \in 1..u : k \in 1..Len(R) /\ R[k] = Contents(recvBuffer)[k]
      /\ q \in Nat /\ queued \in Seq(Seq(AllBytes)) /\ script \in Seq(Sizes)
      /\ recvBuffer \in Buffers(AllBytes) /\ Header \in Nat /\ Header > 0
  BY RecvFacts, UnqueuedBytes DEF RecvInv
<1>3. 1 \in 1..u /\ Len(R) # 0
  BY <1>1, <1>2
<1>4. /\ q + 1 \in 1..Len(script) /\ R[1] = Byte(q + 1, 1)
      /\ \A k \in 1..Length(script[q + 1]) : R[k] = Byte(q + 1, k)
      /\ InOrder(SubSeq(R, Length(script[q + 1]) + 1, Len(R)), script, q + 1)
  BY <1>2, <1>3, PacketDropped DEF RecvInv
<1>5. size = script[q + 1] /\ Length(script[q + 1]) = size /\ size \in 0..u /\ size \in Nat
  <2>1. recvBuffer.cell[recvBuffer.head] = Contents(recvBuffer)[1]
    <3>1. 1 \in 0..u /\ 1 \in 1..1 /\ recvBuffer.head + 1 <= Size /\ recvBuffer.head + 1 - 1 = recvBuffer.head
      BY <1>2, <1>3, BufferParts
    <3>. QED  BY <1>2, <3>1, LinearRead
  <2>2. recvBuffer.cell[recvBuffer.head].packet = q + 1
    BY <1>2, <1>3, <1>4, <2>1, Fields
  <2>3. size = script[q + 1]
    BY <2>2 DEF HeaderSize
  <2>4. script[q + 1] \in Sizes
    BY <1>2, <1>4
  <2>5. size \in Nat /\ Length(script[q + 1]) = size
    BY <1>1, <2>3, <2>4, PacketLengths
  <2>. QED  BY <1>1, <1>2, <2>3, <2>5
<1>6. /\ recvBuffer' \in Buffers(AllBytes) /\ UsedSize(recvBuffer') = u - size
      /\ Contents(recvBuffer') = SubSeq(Contents(recvBuffer), size + 1, u)
      /\ Peek(recvBuffer, size) = SubSeq(Contents(recvBuffer), 1, size)
  BY <1>1, <1>2, <1>5, MoveHeadDrops
<1>7. Contents(recvBuffer) \in Seq(AllBytes) /\ Len(Contents(recvBuffer)) = u /\ onWire \in Seq(AllBytes)
  BY RecvFacts DEF RecvInv
<1>. HIDE DEF R, q, size, u
<1>8. Peek(recvBuffer, size) \in Seq(AllBytes) /\ Peek(recvBuffer, size) = BytesOf(q + 1, size)
  <2>1. /\ Peek(recvBuffer, size) \in Seq(AllBytes) /\ Len(Peek(recvBuffer, size)) = size
        /\ \A k \in 1..size : Peek(recvBuffer, size)[k] = Contents(recvBuffer)[k]
    BY <1>5, <1>6, <1>7, Prefix
  <2>2. \A k \in 1..size : Contents(recvBuffer)[k] = Byte(q + 1, k)
    <3>1. \A k \in 1..size : k \in 1..u /\ R[k] = Byte(q + 1, k)
      BY <1>2, <1>4, <1>5
    <3>. QED  BY <1>2, <3>1
  <2>3. /\ BytesOf(q + 1, size) \in Seq(AllBytes) /\ Len(BytesOf(q + 1, size)) = size
        /\ \A k \in 1..size : BytesOf(q + 1, size)[k] = Byte(q + 1, k)
    <3>1. size \in Sizes /\ Length(size) = size
      BY <1>2, <1>4, <1>5
    <3>2. Len(script) <= MaxPackets /\ Len(script) \in Nat /\ MaxPackets \in Nat
      BY RecvFacts DEF RecvInv
    <3>3. q + 1 \in 1..MaxPackets
      BY <1>2, <1>4, <3>2
    <3>. QED  BY <3>1, <3>3, PacketBytes
  <2>4. \A k \in 1..size : Peek(recvBuffer, size)[k] = BytesOf(q + 1, size)[k]
    BY <2>1, <2>2, <2>3
  <2>. QED  BY <1>5, <2>1, <2>3, <2>4, SameElements
<1>9. Unqueued' = SubSeq(R, size + 1, Len(R))
  <2>1. Unqueued' = SubSeq(Contents(recvBuffer), size + 1, u) \o onWire
    BY <1>1, <1>6 DEF Unqueued
  <2>2. R = Contents(recvBuffer) \o onWire
    BY DEF Unqueued, R
  <2>3. SubSeq(Contents(recvBuffer) \o onWire, size + 1, Len(Contents(recvBuffer) \o onWire)) =
          SubSeq(Contents(recvBuffer), size + 1, u) \o onWire
    BY <1>2, <1>5, <1>7, SuffixOfConcatenation
  <2>. QED  BY <2>1, <2>2, <2>3
<1>10. /\ queued' \in Seq(Seq(AllBytes)) /\ Len(queued') = q + 1
       /\ queued'[q + 1] = Stamped(BytesOf(q + 1, size))
       /\ \A p \in 1..q : queued'[p] = queued[p]
  <2>1. Stamped(BytesOf(q + 1, size)) \in Seq(AllBytes)
    BY <1>8, StampedOK
  <2>2. queued' = Append(queued, Stamped(BytesOf(q + 1, size)))
    BY <1>1, <1>8
  <2>. HIDE DEF Stamped
  <2>. QED  BY <1>2, <2>1, <2>2 DEF q
<1>11. RecvTypeOK'
  BY <1>1, <1>6, <1>10 DEF RecvInv, RecvTypeOK
<1>12. PacketsIntact'
  <2>1. \A p \in 1..(q + 1) : p \in 1..q \/ p = q + 1
    BY <1>2
  <2>2. \A p \in 1..q : Valid(script[p]) /\ queued[p] = Stamped(BytesOf(p, script[p]))
    BY DEF RecvInv, PacketsIntact, q
  <2>3. \A p \in 1..(q + 1) : Valid(script[p]) /\ queued'[p] = Stamped(BytesOf(p, script[p]))
    BY <1>1, <1>5, <1>10, <2>1, <2>2
  <2>4. q + 1 <= Len(script)
    BY <1>4
  <2>. QED  BY <1>1, <1>10, <2>3, <2>4 DEF PacketsIntact
<1>13. InOrder(Unqueued', script', Len(queued'))
  BY <1>1, <1>4, <1>5, <1>9, <1>10
<1>14. RoomFree'
  <2>1. EmptySize(recvBuffer') = Size - UsedSize(recvBuffer') - 1 /\ EmptySize(recvBuffer) = Size - u - 1
    BY <1>2, <1>6, Used DEF u
  <2>2. room \in Nat /\ Size \in Nat
    <3>1. room \in 0..Size
      BY DEF RecvInv, RecvTypeOK
    <3>. QED  BY <3>1, SizeAssumption
  <2>3. EmptySize(recvBuffer) <= EmptySize(recvBuffer')
    <3>1. u \in Nat /\ size \in Nat /\ UsedSize(recvBuffer') = u - size
      BY <1>2, <1>5, <1>6
    <3>. QED  BY <2>1, <2>2, <3>1
  <2>4. room <= EmptySize(recvBuffer) /\ EmptySize(recvBuffer) \in Nat /\ EmptySize(recvBuffer') \in Nat
    BY <1>2, <1>6, Used DEF RecvInv, RoomFree
  <2>5. room <= EmptySize(recvBuffer')
    BY <2>2, <2>3, <2>4
  <2>. QED  BY <1>1, <2>5 DEF RoomFree
<1>. QED  BY <1>11, <1>12, <1>13, <1>14 DEF RecvInv

\* The other steps leave all bytes where they are; PostRecv offers free room.
LEMMA OtherSteps ==
  ASSUME RecvInv, BadHeader \/ PostRecv \/ ReceiveFails \/ SendSideCloses \/ UNCHANGED recvVars
  PROVE  RecvInv'
<1>1. /\ UNCHANGED <<script, onWire, recvBuffer, queued>> /\ pc' \in {pc, "wait", "post"}
      /\ recvClosing' = recvClosing \/ recvClosing' = TRUE
      /\ room' = room \/ room' = LinearEmptySize(recvBuffer) \/ room' = 0
  BY DEF BadHeader, PostRecv, PostLinear, ReceiveFails, SendSideCloses, recvVars
<1>2. /\ LinearEmptySize(recvBuffer) \in 0..Size /\ 0 \in 0..Size
      /\ LinearEmptySize(recvBuffer) <= EmptySize(recvBuffer)
  <2>1. /\ LinearEmptySize(recvBuffer) \in Nat
        /\ LinearEmptySize(recvBuffer) <= EmptySize(recvBuffer)
    BY LinearEmpty, RecvFacts DEF RecvInv
  <2>. QED  BY <2>1, RecvFacts DEF RecvInv
<1>3. RecvTypeOK'
  BY <1>1, <1>2 DEF RecvInv, RecvTypeOK
<1>4. Unqueued' = Unqueued
  BY <1>1 DEF Unqueued
<1>5. 0 <= EmptySize(recvBuffer)
  BY RecvFacts DEF RecvInv
<1>. QED  BY <1>1, <1>2, <1>3, <1>4, <1>5 DEF RecvInv, PacketsIntact, RoomFree

-----------------------------------------------------------------------------
\* Nothing is sent at the start.
LEMMA RecvInitInvariant == RecvInit => RecvInv
<1>. SUFFICES ASSUME RecvInit PROVE RecvInv
  OBVIOUS
<1>1. NoByte \in AllBytes /\ 0 \in Cells /\ MaxPackets \in Nat
  BY RecvAssumption, SizeAssumption DEF NoByte, Byte, AllBytes, Cells
<1>2. recvBuffer \in Buffers(AllBytes) /\ recvBuffer.head = 0 /\ recvBuffer.tail = 0
  BY <1>1 DEF RecvInit, Buffers
<1>3. UsedSize(recvBuffer) = 0
  BY <1>2, Used
<1>4. room \in 0..Size /\ room <= EmptySize(recvBuffer)
  <2>1. room = 0
    BY DEF RecvInit
  <2>2. EmptySize(recvBuffer) = Size - UsedSize(recvBuffer) - 1
    BY <1>2, Used
  <2>. QED  BY <1>3, <2>1, <2>2, SizeAssumption
<1>5. RecvTypeOK
  BY <1>1, <1>2, <1>4 DEF RecvInit, RecvTypeOK
<1>6. Len(Unqueued) = 0
  BY <1>3, <1>5, UnqueuedBytes DEF RecvInit
<1>7. InOrder(Unqueued, script, Len(queued))
  BY <1>6 DEF RecvInit, InOrder, Chained, Whole
<1>8. PacketsIntact
  BY DEF RecvInit, PacketsIntact
<1>. QED  BY <1>4, <1>5, <1>7, <1>8 DEF RecvInv, RoomFree

\* Every step keeps the invariant.
LEMMA RecvNextInvariant == RecvInv /\ [RecvNext]_recvVars => RecvInv'
BY ClientSendsStep, ReceiveStep, FrameStep, OtherSteps DEF RecvNext

\* The inductive invariant holds in every reachable state.
LEMMA RecvInvariant == RecvSpec => []RecvInv
BY RecvInitInvariant, RecvNextInvariant, PTL DEF RecvSpec

\* Types: the indexes of the ring, and the room offered to the kernel, stay in range.
THEOREM RecvTypes == RecvSpec => []RecvTypeOK
<1>1. RecvInv => RecvTypeOK
  BY DEF RecvInv
<1>. QED  BY <1>1, RecvInvariant, PTL

\* The consumers get the client's packets in order and each as it was sent, whatever the
\* sizes in the headers, the cuts between completions and the place in the ring.
THEOREM PacketsArriveIntact == RecvSpec => []PacketsIntact
<1>1. RecvInv => PacketsIntact
  BY DEF RecvInv
<1>. QED  BY <1>1, RecvInvariant, PTL

\* What is not queued yet is in the buffer and on the wire without a gap, from the packet
\* that is due on: a receive never writes over bytes, and framing never skips any.
THEOREM NoByteIsLost == RecvSpec => []NothingLost
<1>1. RecvInv => NothingLost
  <2>. SUFFICES ASSUME RecvInv PROVE NothingLost
    OBVIOUS
  <2>1. Unqueued \in Seq(AllBytes) /\ (Len(Unqueued) = 0 <=> Len(queued) = Len(script))
    BY UnqueuedBytes DEF RecvInv, InOrder
  <2>2. Unqueued = <<>> <=> Len(queued) = Len(script)
    BY <2>1
  <2>. QED  BY <2>2 DEF RecvInv, InOrder, Chained, NothingLost, After, Follows
<1>. QED  BY <1>1, RecvInvariant, PTL

-----------------------------------------------------------------------------
\* The bytes the client has sent in its whole connection.
ClientLengths == [p \in 1..Len(script) |-> Length(script[p])]
ClientBytes == Total(ClientLengths)

\* The buffer is filled once from the left to the right: the tail is the number of bytes
\* received in the life of the connection.
OneBuffer == /\ recvBuffer.head <= recvBuffer.tail /\ recvBuffer.tail + room < Size
             /\ recvBuffer.tail = ClientBytes - Len(onWire)

\* What the client has sent is a number, and a packet adds its length.
LEMMA ClientBytesGrow ==
  ASSUME RecvTypeOK
  PROVE  /\ ClientBytes \in Int
         /\ \A size \in Sizes : script' = Append(script, size) =>
              ClientBytes' = ClientBytes + Length(size)
<1>1. \A size \in Sizes : Length(size) \in Int
  BY PacketLengths
<1>2. script \in Seq(Sizes) /\ Len(script) \in Nat
  BY DEF RecvTypeOK
<1>3. ClientLengths \in Seq(Int) /\ Len(ClientLengths) = Len(script)
  <2>1. \A p \in 1..Len(script) : Length(script[p]) \in Int
    BY <1>1, <1>2
  <2>2. ClientLengths \in [1..Len(script) -> Int]
    BY <2>1 DEF ClientLengths
  <2>. QED  BY <1>2, <2>2, FunctionAsSeq
<1>4. ASSUME NEW size \in Sizes, script' = Append(script, size)
      PROVE  ClientBytes' = ClientBytes + Length(size)
  <2>. DEFINE n == Len(script)
              e == Length(size)
              new == Append(ClientLengths, e)
  <2>1. /\ Len(script') = n + 1 /\ script'[n + 1] = size
        /\ \A p \in 1..n : script'[p] = script[p]
    BY <1>2, <1>4
  <2>2. ClientLengths' = [p \in 1..(n + 1) |-> Length(script'[p])]
    BY <2>1 DEF ClientLengths
  <2>3. \A p \in 1..(n + 1) : ClientLengths'[p] = IF p = n + 1 THEN e ELSE ClientLengths[p]
    <3>1. \A p \in 1..n : ClientLengths[p] = Length(script[p])
      BY DEF ClientLengths
    <3>2. ASSUME NEW p \in 1..(n + 1)
          PROVE  ClientLengths'[p] = IF p = n + 1 THEN e ELSE ClientLengths[p]
      <4>1. ClientLengths'[p] = Length(script'[p])
        BY <2>2
      <4>2. p = n + 1 \/ p \in 1..n
        BY <1>2
      <4>. QED  BY <2>1, <3>1, <4>1, <4>2
    <3>. QED  BY <3>2
  <2>4. e \in Int
    BY <1>1
  <2>. HIDE DEF e
  <2>5. /\ new \in Seq(Int) /\ Len(new) = n + 1
        /\ \A p \in 1..(n + 1) : new[p] = IF p = n + 1 THEN e ELSE ClientLengths[p]
    BY <1>2, <1>3, <2>4
  <2>6. ClientLengths' \in Seq(Int) /\ Len(ClientLengths') = n + 1
    <3>1. \A p \in 1..(n + 1) : ClientLengths'[p] \in Int
      BY <1>2, <1>3, <2>3, <2>4
    <3>2. ClientLengths' \in [1..(n + 1) -> Int]
      BY <2>2, <3>1
    <3>3. n + 1 \in Nat
      BY <1>2
    <3>. QED  BY <3>2, <3>3, FunctionAsSeq
  <2>. HIDE DEF new
  <2>7. ClientLengths' = new
    <3>1. n + 1 \in Nat
      BY <1>2
    <3>2. \A p \in 1..(n + 1) : ClientLengths'[p] = new[p]
      BY <2>3, <2>5
    <3>. QED  BY <2>5, <2>6, <3>1, <3>2, SameElements
  <2>. QED  BY <1>3, <2>4, <2>7, TotalAppend DEF ClientBytes, new, e
<1>. QED  BY <1>3, <1>4, TotalAppend DEF ClientBytes

\* At the start nothing is sent and nothing offered.
LEMMA OneBufferInit == RecvInit => OneBuffer
<1>. SUFFICES ASSUME RecvInit PROVE OneBuffer
  OBVIOUS
<1>1. /\ script = <<>> /\ Len(onWire) = 0 /\ recvBuffer.head = 0 /\ recvBuffer.tail = 0
      /\ room = 0
  BY DEF RecvInit
<1>2. ClientBytes = 0
  <2>1. ClientLengths = <<>>
    BY <1>1 DEF ClientLengths
  <2>. QED  BY <2>1, TotalEmpty DEF ClientBytes
<1>. QED  BY <1>1, <1>2, SizeAssumption DEF OneBuffer

\* Every step keeps it: no receive goes past the room, and no room reaches past the end.
LEMMA OneBufferNext == RecvInv /\ OneBuffer /\ [RecvNext]_recvVars => OneBuffer'
<1>. SUFFICES ASSUME RecvInv, OneBuffer, [RecvNext]_recvVars PROVE OneBuffer'
  OBVIOUS
<1>. DEFINE head == recvBuffer.head
            tail == recvBuffer.tail
<1>1. /\ recvBuffer \in Buffers(AllBytes) /\ onWire \in Seq(AllBytes) /\ Len(onWire) \in Nat
      /\ Size \in Nat /\ Size > 0 /\ room \in Nat /\ ClientBytes \in Int
      /\ head \in Nat /\ tail \in Nat /\ tail < Size
  <2>1. room \in 0..Size
    BY DEF RecvInv, RecvTypeOK
  <2>. QED  BY <2>1, RecvFacts, BufferParts, ClientBytesGrow DEF RecvInv
<1>2. head <= tail /\ tail + room < Size /\ tail = ClientBytes - Len(onWire)
  BY DEF OneBuffer
<1>3. CASE ClientSends
  <2>1. PICK size \in Sizes : script' = Append(script, size)
                           /\ onWire' = onWire \o BytesOf(Len(script) + 1, size)
    BY <1>3 DEF ClientSends
  <2>2. ClientBytes' = ClientBytes + Length(size)
    BY <2>1, ClientBytesGrow DEF RecvInv
  <2>3. Len(onWire') = Len(onWire) + Length(size) /\ Length(size) \in Nat
    <3>1. Len(script) + 1 \in 1..MaxPackets /\ Len(script) \in Nat
      BY <1>3, RecvFacts DEF ClientSends, RecvInv
    <3>2. /\ BytesOf(Len(script) + 1, size) \in Seq(AllBytes)
          /\ Len(BytesOf(Len(script) + 1, size)) = Length(size)
      BY <3>1, PacketBytes
    <3>. QED  BY <1>1, <2>1, <3>2, Concatenation, PacketLengths
  <2>4. UNCHANGED <<recvBuffer, room>>
    BY <1>3 DEF ClientSends
  <2>. QED  BY <1>1, <1>2, <2>2, <2>3, <2>4 DEF OneBuffer
<1>4. CASE Receive
  <2>1. PICK n \in 1..room :
          /\ n <= Len(onWire)
          /\ recvBuffer' = MoveTail(PutAt(recvBuffer, tail, SubSeq(onWire, 1, n)), n)
          /\ onWire' = SubSeq(onWire, n + 1, Len(onWire))
    BY <1>4 DEF Receive
  <2>2. room' = 0 /\ script' = script
    BY <1>4 DEF Receive
  <2>3. recvBuffer'.head = head /\ recvBuffer'.tail = (tail + n) % Size
    BY <1>1, <2>1 DEF MoveTail, PutAt, Buffers
  <2>4. (tail + n) % Size = tail + n
    BY <1>1, <1>2, Wrap
  <2>5. Len(onWire') = Len(onWire) - n
    BY <1>1, <2>1
  <2>6. ClientBytes' = ClientBytes
    BY <2>2 DEF ClientBytes, ClientLengths
  <2>. QED  BY <1>1, <1>2, <2>2, <2>3, <2>4, <2>5, <2>6 DEF OneBuffer
<1>5. CASE Frame
  <2>1. PICK size \in 0..UsedSize(recvBuffer) : recvBuffer' = MoveHead(recvBuffer, size)
    <3>1. UsedSize(recvBuffer) \in Nat /\ HeaderSize <= UsedSize(recvBuffer)
      BY <1>1, <1>5, Used DEF Frame
    <3>2. HeaderSize \in Nat
      BY <1>5, FrameSize
    <3>. QED  BY <1>5, <3>1, <3>2 DEF Frame
  <2>2. UsedSize(recvBuffer) = tail - head
    BY <1>1, <1>2, Used
  <2>3. recvBuffer'.tail = tail /\ recvBuffer'.head = (head + size) % Size
    BY <1>1, <2>1 DEF MoveHead, Buffers
  <2>4. (head + size) % Size = head + size /\ head + size <= tail
    <3>1. head + size \in Nat /\ head + size <= tail
      BY <1>1, <1>2, <2>1, <2>2
    <3>2. head + size < Size /\ head + size < 2 * Size
      BY <1>1, <3>1
    <3>. QED  BY <3>1, <3>2, Wrap
  <2>5. UNCHANGED <<script, onWire, room>>
    BY <1>5 DEF Frame
  <2>6. ClientBytes' = ClientBytes
    BY <2>5 DEF ClientBytes, ClientLengths
  <2>. QED  BY <1>1, <1>2, <2>3, <2>4, <2>5, <2>6 DEF OneBuffer
<1>6. CASE BadHeader \/ PostRecv \/ ReceiveFails \/ SendSideCloses \/ UNCHANGED recvVars
  <2>1. /\ UNCHANGED <<script, onWire, recvBuffer>>
        /\ room' = room \/ room' = LinearEmptySize(recvBuffer) \/ room' = 0
    BY <1>6 DEF BadHeader, PostRecv, PostLinear, ReceiveFails, SendSideCloses, recvVars
  <2>2. LinearEmptySize(recvBuffer) = Size - tail - 1
    BY <1>2 DEF LinearEmptySize
  <2>3. ClientBytes' = ClientBytes
    BY <2>1 DEF ClientBytes, ClientLengths
  <2>. QED  BY <1>1, <1>2, <2>1, <2>2, <2>3 DEF OneBuffer
<1>. QED  BY <1>3, <1>4, <1>5, <1>6 DEF RecvNext

\* What the connection has received in its life fits in the buffer.
ReceivedInAll == ClientBytes - Len(onWire) <= Size - 1

\* OneBufferInAll: whatever the consumers take out of the buffer, a connection receives
\* Size - 1 bytes in its life and never one more, because PostRecv never offers the last
\* cell and the tail does not come round.
THEOREM OneBufferInAll == RecvSpec => []ReceivedInAll
<1>1. RecvInv /\ OneBuffer => ReceivedInAll
  <2>. SUFFICES ASSUME RecvInv, OneBuffer PROVE ReceivedInAll
    OBVIOUS
  <2>1. recvBuffer.tail \in Nat /\ recvBuffer.tail < Size /\ Size \in Nat
    BY RecvFacts, BufferParts DEF RecvInv
  <2>. QED  BY <2>1 DEF OneBuffer, ReceivedInAll
<1>. QED  BY <1>1, OneBufferInit, OneBufferNext, RecvInvariant, PTL DEF RecvSpec

\* The tail is on the last cell and PostRecv is done: nothing is posted.
Deaf == recvBuffer.tail = Size - 1 /\ pc = "wait"

\* A deaf session stays deaf, and hands nothing on any more.
StaysDeaf == [][Deaf => Deaf' /\ queued' = queued]_recvVars

\* DeafForEver: once PostRecv has run with the tail on the last cell, no later step of the
\* client or of a worker posts a receive or queues a packet on this connection.
THEOREM DeafForEver == RecvSpec => StaysDeaf
<1>. DEFINE Stays == Deaf => Deaf' /\ queued' = queued
<1>1. RecvInv /\ OneBuffer /\ [RecvNext]_recvVars => [Stays]_recvVars
  <2>. SUFFICES ASSUME RecvInv, OneBuffer, RecvNext, Deaf PROVE Deaf' /\ queued' = queued
    BY DEF recvVars
  <2>1. room \in 0..Size /\ Size \in Nat
    BY SizeAssumption DEF RecvInv, RecvTypeOK
  <2>2. ~ (room > 0)
    BY <2>1 DEF OneBuffer, Deaf
  <2>3. ClientSends \/ SendSideCloses
    BY <2>2 DEF RecvNext, Receive, ReceiveFails, Frame, BadHeader, PostRecv, LoopDone, Deaf
  <2>. QED  BY <2>3 DEF ClientSends, SendSideCloses, Deaf
<1>. HIDE DEF Stays
<1>2. RecvSpec => [][Stays]_recvVars
  BY <1>1, OneBufferInit, OneBufferNext, RecvInvariant, PTL DEF RecvSpec
<1>. QED  BY <1>2 DEF Stays, StaysDeaf
=============================================================================
