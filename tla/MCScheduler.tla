---------------------------- MODULE MCScheduler ----------------------------
(* Scheduler, instantiated for TLC. *)
EXTENDS Scheduler

CONSTANT LR
VisitOrder == <<LR>>
=============================================================================
