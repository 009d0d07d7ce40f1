---------------------------- MODULE MCLifecycle ----------------------------
(* SessionLifecycle for model checking: workers are alike, and so are consumers. *)
EXTENDS SessionLifecycle, TLC

Alike == Permutations(Workers) \cup Permutations(Senders)
=============================================================================
