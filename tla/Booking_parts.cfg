SPECIFICATION PartsSpec
CHECK_DEADLOCK FALSE
SYMMETRY Symmetry
CONSTANTS
  Day = 6
  Gap = 2
  Clocks = {"plain", "spring", "autumn"}
  CallLengths = {1, 2}
  Buffers = {0, 1}
  Window = 10
  Horizon = 8
  Nows = {0, 1}
  Tabs = {x, y, z}
  Candidates = {c1, c2}
  NoBooking = nobooking
  Hosts = {h1, h2}
  Staff = {e1, e2}
  None = empty
  LastDay = 4
  Leads = {lea, leo}
  Brands = {brand1}
  CallTypes = {kind1}
  Every = every
  MaxSaves = 2
  Guests = {g1, g2}
  Limit = 1
  WindowTime = 2
  HoldTime = 2
  TokenLife = 4
  Margin = 2
  MaxStay = 1
  Retries = 1
  MaxRequests = 3
  LastTime = 5
  Savers = {ann, lea}
  PodLeads = {lea}
  Weekdays = {mon}
  MaxSettingSaves = 3
  NoSession = NoSession
  Ids = {b1, b2}
  Sessions = {}
  Keys = {k1, k2}
  Ops = {m1}
  Runs = {j1, j2}
  Soonest = 1
  Latest = 2
  Starts = {2, 3}
  Durations = {1}
  Closing = 5
  Buffer = 0
  MinNotice = 0
  BookingWindow = 5
  CalendarConfigured = TRUE
  MaxTime = 1
  MaxMeetings = 0
  LinkTabs = {tab1, tab2}
  CallTimes = {1, 2}
  MaxTries = 1
  LastNow = 1
INVARIANTS
  OffersAgree
  CoverIsShown
  SavesLand
  TimesAreKept
  LeadValuesAreTheLeads
  OneReminderPerClaim
  TabsTellTheTruth
PROPERTIES
  FirstAnswerStands
