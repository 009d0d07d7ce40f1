----------------------------- MODULE MCStreams -----------------------------
(***************************************************************************)
(* The two directions of a session for model checking. They share nothing  *)
(* but closing_, which each model lets the other direction set at any      *)
(* time; so no interleaving of the two tells more than either alone, and a *)
(* behaviour is one of one direction or of the other.                      *)
(***************************************************************************)
EXTENDS SendStream, RecvStream

VARIABLE direction

vars == <<sendVars, recvVars, direction>>

Init == SendInit /\ RecvInit /\ direction \in {"send", "receive"}

Next == \/ direction = "send" /\ SendNext /\ UNCHANGED <<recvVars, direction>>
        \/ direction = "receive" /\ RecvNext /\ UNCHANGED <<sendVars, direction>>

Spec == /\ Init /\ [][Next]_vars
        /\ WF_sendVars(KernelSends \/ KernelFails) /\ WF_sendVars(OnSend)
=============================================================================
