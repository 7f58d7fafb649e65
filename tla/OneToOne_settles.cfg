SPECIFICATION FairSpec
CONSTANTS
  r1 = r1
  r2 = r2
  k1 = k1
  m1 = m1
  NoSession = NoSession
  Requests = {r1, r2}
  Ids = {r1, r2}
  Sessions = {}
  Keys = {k1}
  Ops = {m1}
  Starts = {1, 2, 3}
  Durations = {1}
  Closing = 4
  Buffer = 1
  MinNotice = 1
  BookingWindow = 4
  CalendarConfigured = TRUE
  MaxTime = 1
  MaxMeetings = 1
CHECK_DEADLOCK FALSE
INVARIANTS
  OwnAnswerStands
PROPERTIES
  BookingSettles
