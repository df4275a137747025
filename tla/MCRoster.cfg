\* One Workday: two Manager pages on one slot, or two slots with applications; no
\* unlocked read is overlapped.
SPECIFICATION Spec
CONSTANTS
  Workdays = {w1}
  Slots = {s1, s2}
  People = {p1, p2}
  Managers = {m1, m2}
  Requests = {q1}
  Facts = {f1, f2}
  NoOne = NoOne
  NoDay = NoDay
  Vacancies = {"OPEN"}
  Policies = {"OPEN_IMMEDIATELY", "MANAGER_REVIEW"}
  Overlaps = {}
  MaxRevision = 3
  MaxVersion = 7
CONSTRAINT PagesOrSlots
SYMMETRY Symmetry
INVARIANTS
  TypeOK
  PageFresh
  PendingOnCurrent
  AcceptedHoldsSlot
PROPERTIES
  PublishedImmutable
CHECK_DEADLOCK FALSE
