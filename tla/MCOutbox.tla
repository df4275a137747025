------------------------------ MODULE MCOutbox ------------------------------
(* NotificationOutbox, instantiated for TLC.                               *)
EXTENDS NotificationOutbox, TLC
=============================================================================
