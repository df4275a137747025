SPECIFICATION Spec
CONSTANTS
  People = {p1}
  Rows = {r1, r2}
  Identities = {i1, i2}
  Days = {d1, d2}
  Slots = {s1, s2}
  Requests = {q1, q2}
  NoRow = NoRow
  NoName = NoName
  NoPerson = NoPerson
  MaxForms = 3
SYMMETRY Symmetry
INVARIANTS
  BlockStands
  TwoDaysQualify
PROPERTIES
  ConvergenceNeutral
CHECK_DEADLOCK FALSE
