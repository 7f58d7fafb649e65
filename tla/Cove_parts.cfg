SPECIFICATION PartsSpec
CHECK_DEADLOCK FALSE
CONSTANTS
  People = {boss, ann}
  Boss = boss
  Changes = {"invite", "status", "role", "access", "policy", "register"}
  MaxAtOnce = 2
  MaxChanges = 3
  MaxLapses = 1
  Organisations = {north, south}
  Home = north
  Trips = {t1, t2}
  Managers = {meg, bob}
  Kinds = {call, chat}
  Times = {am}
  NoOne = noone
  MaxForms = 2
  MaxPicks = 3
  MaxTaken = 1
  Reviewers = {v1, v2}
  Submissions = {s1}
  Unit = 2
  MaxTime = 3
  Recruiters = {r1, r2}
  Applicants = {a1}
  Stages = {s1, s2}
  Texts = {note}
  Unset = unset
  Yes = yes
  MaxSent = 2
  MaxLoads = 1
  Launches = {l1}
  Apps = {p1, p2}
  Secrets = {"k1", "k2"}
  Life = 1
  Ahead = 2
  Skew = 1
  LastHour = 4
  MaxCalls = 2
  MaxTurns = 2
  SessionLife = 2
  PageSize = 2
  MaxTokens = 2
  MaxSaid = 3
  LastMoment = 3
  Admins = {ada, bea}
  Members = {cat}
  Root = ada
  Nobody = nobody
  Ranks = {"none", "user"}
  MaxActs = 2
  Newcomers = {ned}
  NewApps = {app2}
  FirstUser = fay
  FirstApp = app1
  FeedLimit = 1
  MaxEvents = 2
  MaxReads = 2
  Injured = {ivy, ian}
  ReportIds = {rep1}
  MaxSteps = 3
  Hours = 3
  PageDays = 2
  Days = 6
  MaxSlots = 2
  MaxPages = 3
  Preparers = {op1}
  Edits = {edit1}
INVARIANTS
  DecisionsHold
  ReadingsAgree
  PostsWhatWasOffered
  SavesAreShared
  AccessIsCurrent
  ReadyMeansGuarded
  PollsMissNothing
  TablesAreBelieved
  EveryTimeHasAPage
  OnlyStaleReadsUndo
PROPERTIES
  DecisionsAreSeen
  ClicksDoWhatTheySay
  SavesStayWithin
