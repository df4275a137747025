------------------------------ MODULE MCPeople ------------------------------
(* People for TLC: all rows are interchangeable.                             *)
EXTENDS People, TLC

Symmetry == Permutations(People) \cup Permutations(Emails) \cup Permutations(Invites)

=============================================================================
