SPECIFICATION Spec
CONSTANTS
  People = {p1, p2}
  NoOne = NoOne
  NoRev = NoRev
  NoTime = NoTime
  Sheets <- MCSheets
  TimedSheets <- MCTimedSheets
  RowKinds <- MCRowKinds
  OtherSpan <- MCOtherSpan
  OtherDate <- MCOtherDate
  MaxSteps = 4
SYMMETRY Symmetry
INVARIANTS
  PagesAgree
  TravellersListed
  ClashesConfirmed
  TimesAgree
  TimesShown
  ChangesTold
CHECK_DEADLOCK FALSE
