SPECIFICATION Spec
CONSTANTS
  r1 = r1
  r2 = r2
  k1 = k1
  k2 = k2
  m1 = m1
  m2 = m2
  NoSession = NoSession
  Requests = {r1, r2}
  Ids = {r1, r2}
  Sessions = {}
  Keys = {k1, k2}
  Ops = {m1, m2}
  Starts = {1, 2}
  Durations = {1, 2}
  Closing = 3
  Buffer = 0
  MinNotice = 0
  BookingWindow = 4
  CalendarConfigured = TRUE
  MaxTime = 0
  MaxMeetings = 0
SYMMETRY Symmetry
CHECK_DEADLOCK FALSE
INVARIANTS
  NoDoubleBooking
  OneBookingPerKey
  GuestCalendarCurrent
  CalendarAgrees
PROPERTIES
  CancelledIsFinal
  KeepsTheDiary
