------------------------------ MODULE Accounts ------------------------------
(* The accounts of the users table: module People follows the email that    *)
(* ties one to a Person, module Authority what it may do and for how long.  *)

CONSTANT Users \* accounts that may be created
=============================================================================
