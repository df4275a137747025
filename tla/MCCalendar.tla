----------------------------- MODULE MCCalendar -----------------------------
(* ExternalCalendar, instantiated for TLC. *)
EXTENDS ExternalCalendar, TLC

Symmetry == Permutations(Runs) \cup Permutations(Times)
=============================================================================
