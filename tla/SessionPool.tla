---------------------------- MODULE SessionPool ----------------------------
(***************************************************************************)
(* What the session layer promises: a connection gets a slot of the pool   *)
(* to itself under an id nobody had before, and gives the slot back once.  *)
(* SessionRegistry implements this.                                        *)
(***************************************************************************)
EXTENDS Naturals

CONSTANTS Slots,   \* the entries of ObjectPool<Session, N>
          MaxId    \* bound: ids are drawn from 1..MaxId

VARIABLES owner,   \* owner[i]: the session living in slot i, 0 if it is free
          nextId   \* the id the next session gets

vars == <<owner, nextId>>

Init == /\ owner = [i \in Slots |-> 0]
        /\ nextId = 1

Open(i) == /\ owner[i] = 0
           /\ nextId <= MaxId
           /\ owner' = [owner EXCEPT ![i] = nextId]
           /\ nextId' = nextId + 1

Release(i) == /\ owner[i] # 0
              /\ owner' = [owner EXCEPT ![i] = 0]
              /\ UNCHANGED nextId

Next == \E i \in Slots : Open(i) \/ Release(i)

Spec == Init /\ [][Next]_vars
=============================================================================
