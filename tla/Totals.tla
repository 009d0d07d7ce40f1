------------------------------- MODULE Totals -------------------------------
(***************************************************************************)
(* The sum of a sequence of numbers, as a recursive function of the        *)
(* position, which SequenceLemmas can reason about: the bytes of a reply   *)
(* (Leaderboard) and what the levels of the items cost (Economy).          *)
(***************************************************************************)
EXTENDS Integers, Sequences

Total(s) == LET upto[k \in 0..Len(s)] == IF k = 0 THEN 0 ELSE upto[k - 1] + s[k]
            IN  upto[Len(s)]
=============================================================================
