----------------------------- MODULE MCAuthority -----------------------------
(* Authority for TLC: an administrator and an account with a crew identity.  *)
(* Two scopes are about Contractor access over time, one with the extension  *)
(* form and one with the crew page beside the scheduler, the third about the *)
(* administration of roles.                                                  *)
EXTENDS Authority

CONSTANTS admin, crew

MCUsers == {admin, crew}
MCLinked == {crew}
MCScopes ==
  {[grants |-> {<<admin, "ADMIN">>, <<crew, "EMPLOYEE">>, <<crew, "CONTRACTOR">>},
    days |-> 2, readers |-> Sources],
   [grants |-> {<<admin, "ADMIN">>, <<crew, "CONTRACTOR">>},
    days |-> 2, readers |-> {"SCHEDULER", CrewPage}],
   [grants |-> {<<admin, "ADMIN">>} \cup ({crew} \X {"SUB_MANAGER", "EMPLOYEE", "ADMIN"}),
    days |-> 1, readers |-> Readers]}

=============================================================================
