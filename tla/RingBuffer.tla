----------------------------- MODULE RingBuffer -----------------------------
(***************************************************************************)
(* RingBuffer.cpp: a byte ring with one cell always left empty. A buffer   *)
(* is a record of the two indexes and the cells. Bytes that are in the     *)
(* buffer are read and written at head and tail; GetHead and GetTail hand  *)
(* the kernel the linear parts.                                            *)
(***************************************************************************)
EXTENDS Integers, Sequences

CONSTANT Size    \* BUFFER_SIZE

ASSUME SizeAssumption == Size \in Nat \ {0}

Cells == 0..(Size - 1)

Buffers(Bytes) == [head : Cells, tail : Cells, cell : [Cells -> Bytes]]

UsedSize(b)  == (b.tail - b.head + Size) % Size
EmptySize(b) == Size - UsedSize(b) - 1

LinearUsedSize(b) == IF b.tail = b.head THEN 0
                     ELSE IF b.head < b.tail THEN b.tail - b.head
                     ELSE Size - b.head

LinearEmptySizeStrict(b) == IF b.tail > b.head THEN Size - b.tail - 1
                                               ELSE b.head - b.tail - 1

\* One cell is reserved before the wrap also when the head is not at 0.
LinearEmptySize(b) == IF b.tail >= b.head THEN Size - b.tail - 1
                                          ELSE b.head - b.tail - 1

MoveHeadUnwrapped(b, n) == [b EXCEPT !.head = @ + n]

MoveHead(b, n) == [b EXCEPT !.head = (@ + n) % Size]
MoveTail(b, n) == [b EXCEPT !.tail = (@ + n) % Size]

\* The n bytes from cell i on, in ring order.
BytesAt(b, i, n) == [k \in 1..n |-> b.cell[(i + k - 1) % Size]]

\* Peek: the first n bytes, which must be there.
Peek(b, n) == BytesAt(b, b.head, n)

\* Put the bytes of data into the cells from i on (memcpy in two parts).
PutAt(b, i, data) ==
  [b EXCEPT !.cell = [c \in Cells |-> LET k == (c - i + Size) % Size IN
                                      IF k < Len(data) THEN data[k + 1] ELSE b.cell[c]]]

\* Write: does not move the tail. The caller has checked that data fits.
Write(b, data) == PutAt(b, b.tail, data)

Clear(b) == [b EXCEPT !.head = 0, !.tail = 0]

\* What the buffer holds, oldest byte first.
Contents(b) == BytesAt(b, b.head, UsedSize(b))
=============================================================================
