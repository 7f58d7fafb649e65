SPECIFICATION Spec
CONSTANTS
  c1 = c1
  c2 = c2
  c3 = c3
  x1 = x1
  k1 = k1
  k2 = k2
  s1 = s1
  NoSession = NoSession
  Requests = {}
  Claims = {c1, c2, c3}
  Ids = {c1, c2, c3}
  Sessions = {s1}
  Keys = {k1, k2}
  Ops = {}
  Closings = {x1}
  Capacities = {2}
  AnswersLost = FALSE
  Starts = {1}
  Durations = {1}
  Closing = 4
  Buffer = 0
  MinNotice = 0
  BookingWindow = 4
  CalendarConfigured = TRUE
  MaxTime = 0
  MaxMeetings = 0
SYMMETRY Symmetry
CHECK_DEADLOCK FALSE
INVARIANTS
  SessionCalendarFollows
  SeatsAgree
PROPERTIES
  CalledOffIsFinal
