\* A decline overlaps other transactions between its read and its commit.
SPECIFICATION Spec
CONSTANTS
  Workdays = {w1}
  Slots = {s1}
  People = {p1, p2}
  Managers = {m1}
  Requests = {q1}
  Facts = {f1}
  NoOne = NoOne
  NoDay = NoDay
  Vacancies = {"OPEN", "ASSIGNED"}
  Policies = {"OPEN_IMMEDIATELY"}
  Overlaps = {"DECLINE"}
  MaxRevision = 4
  MaxVersion = 8
SYMMETRY Symmetry
PROPERTIES
  NoPublicationLost
CHECK_DEADLOCK FALSE
