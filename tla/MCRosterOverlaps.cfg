\* Two Workdays, one of which may replace the other, or one with two contents of its
\* fields; status changes and programme facts overlap whatever they can.
SPECIFICATION Spec
CONSTANTS
  Workdays = {w1, w2}
  Slots = {s1}
  People = {p1}
  Managers = {m1}
  Requests = {q1}
  Facts = {f1, f2}
  NoOne = NoOne
  NoDay = NoDay
  Vacancies = {"MANAGER_ACTION_REQUIRED"}
  Policies = {"MANAGER_REVIEW"}
  Overlaps = {"STATUS", "PROGRAMME"}
  MaxRevision = 3
  MaxVersion = 4
CONSTRAINT OneChain
SYMMETRY Symmetry
INVARIANTS
  PointersSound
  DraftOnCurrent
  EditableUnlessReplaced
PROPERTIES
  NoPublicationLost
  ImplementsAuthority
  VersionAdvances
CHECK_DEADLOCK FALSE
