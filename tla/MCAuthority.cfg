SPECIFICATION AuthoritySpec
CONSTANTS
  admin = admin
  crew = crew
  Users <- MCUsers
  Linked <- MCLinked
  Scopes <- MCScopes
  Roles = {"EMPLOYEE", "CONTRACTOR", "SUB_MANAGER", "ADMIN"}
  Inactivity = 1
  MaxDay = 2
  Horizon = 0
INVARIANTS ContractorExclusive AdminGrantRemains DisabledStays
PROPERTIES WorkReopensAccess
CHECK_DEADLOCK FALSE
