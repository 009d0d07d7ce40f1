----------------------------- MODULE ByteStream -----------------------------
(***************************************************************************)
(* What the send path of a session promises the peer: the packets that     *)
(* were accepted, whole and in order. The bytes accepted are numbered, so  *)
(* the peer must receive the numbers 1, 2, 3, ... up to some byte.         *)
(***************************************************************************)
EXTENDS Naturals, Sequences

VARIABLES accepted,   \* how many bytes were accepted for sending
          received    \* the bytes the peer received

vars == <<accepted, received>>

Init == accepted = 0 /\ received = <<>>

AcceptPacket == /\ accepted' \in {n \in Nat : n > accepted}
                /\ UNCHANGED received

Arrive == /\ \E n \in Len(received)..accepted : received' = [k \in 1..n |-> k]
          /\ UNCHANGED accepted

Next == AcceptPacket \/ Arrive

Spec == Init /\ [][Next]_vars
=============================================================================
