SPECIFICATION FairSpec
CONSTANTS
  r1 = r1
  c1 = c1
  x1 = x1
  x2 = x2
  k1 = k1
  k2 = k2
  s1 = s1
  NoSession = NoSession
  Requests = {r1}
  Claims = {c1}
  Ids = {r1, c1}
  Sessions = {s1}
  Keys = {k1, k2}
  Ops = {}
  Closings = {x1, x2}
  Capacities = {2}
  AnswersLost = TRUE
  Starts = {1}
  Durations = {1}
  Closing = 4
  Buffer = 0
  MinNotice = 0
  BookingWindow = 4
  CalendarConfigured = FALSE
  MaxTime = 1
  MaxMeetings = 0
CHECK_DEADLOCK FALSE
PROPERTIES
  ClosingCompletes
