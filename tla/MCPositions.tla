----------------------------- MODULE MCPositions -----------------------------
(* Positions for TLC: names are interchangeable.                             *)
EXTENDS Positions, TLC

Symmetry ==
  Permutations(Rows) \cup Permutations(Identities) \cup Permutations(Days)
    \cup Permutations(Slots) \cup Permutations(Requests)
=============================================================================
