\* A reschedule overlaps a status form between its reads and its commit.
SPECIFICATION Spec
CONSTANTS
  Workdays = {w1, w2}
  Slots = {s1}
  People = {p1}
  Managers = {m1}
  Requests = {q1}
  Facts = {f1}
  NoOne = NoOne
  NoDay = NoDay
  Vacancies = {}
  Policies = {"OPEN_IMMEDIATELY"}
  Overlaps = {"STATUS"}
  MaxRevision = 2
  MaxVersion = 5
SYMMETRY Symmetry
INVARIANTS
  ReplacedNotScheduled
CHECK_DEADLOCK FALSE
