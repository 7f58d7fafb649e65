SPECIFICATION Spec
CONSTANTS
  c1 = c1
  c2 = c2
  m1 = m1
  x1 = x1
  k1 = k1
  k2 = k2
  s1 = s1
  NoSession = NoSession
  Requests = {}
  Claims = {c1, c2}
  Ids = {c1, c2}
  Sessions = {s1}
  Keys = {k1, k2}
  Ops = {m1}
  Closings = {x1}
  Capacities = {2}
  AnswersLost = FALSE
  Starts = {1, 2}
  Durations = {1}
  Closing = 3
  Buffer = 0
  MinNotice = 0
  BookingWindow = 3
  CalendarConfigured = TRUE
  MaxTime = 0
  MaxMeetings = 0
SYMMETRY Symmetry
CHECK_DEADLOCK FALSE
INVARIANTS
  GuestCalendarCurrent
