----------------------------- MODULE MCRegistry -----------------------------
\* Instances of SessionRegistry for TLC: slots and names are interchangeable.
EXTENDS SessionRegistry, TLC

Symmetry == Permutations(Slots) \cup Permutations(Names)
=============================================================================
