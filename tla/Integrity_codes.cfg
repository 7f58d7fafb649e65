SPECIFICATION IntegritySpec
CHECK_DEADLOCK FALSE
CONSTANTS
  Newcomers = {ned}
  NewApps = {app2}
  FirstUser = fay
  FirstApp = app1
  FeedLimit = 2
  MaxEvents = 3
  MaxReads = 2
INVARIANTS
  CodesAreGiven
