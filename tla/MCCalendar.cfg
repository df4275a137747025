SPECIFICATION Spec
CONSTANTS
  Providers = {LR, API}
  LoveRacing = LR
  Dates = {d1, d2}
  Times = {t1, t2}
  NoFact = NoFact
  Runs = {r1, r2}
  None = None
  MaxSteps = 4
SYMMETRY Symmetry
INVARIANTS
  SourceAgrees
  DraftFollows
  NothingStranded
CHECK_DEADLOCK FALSE
