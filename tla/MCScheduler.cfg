SPECIFICATION SchedulerSpec
CONSTANTS
  LR = LR
  Order <- VisitOrder
  Sizes = {1, 2}
  Uploads = {1}
  Schedulers = {s1}
  Requests = {a1}
  Workers = {s1, a1}
  Nothing = Nothing
  MaxRequests = 2
  MaxFaults = 1
INVARIANTS
  MapsWhole
PROPERTIES
  AllServed
CHECK_DEADLOCK FALSE
