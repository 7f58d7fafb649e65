SPECIFICATION QueuesSpec
CHECK_DEADLOCK FALSE
CONSTANTS
  Requests = {1, 2}
  Workers = {w1, w2}
  MaxTurns = 2
  Bounds <- BuilderBounds
  Operators = {o1, o2}
  MaxPrepares = 1
  MaxMishaps = 2
  Pages = {p1, p2}
  Emails = {e1, e2}
  StaffIds = {s1, s2}
  SyncRuns = {a, b}
  Missing = none
  MaxEdits = 1
  MaxOutages = 1
INVARIANTS
  LiveIsMerged
  ResponsesRunOnce
  ActiveIsProven
PROPERTIES
  
  PassingReachesApproval
  SyncConverges
