SPECIFICATION MCSpec
CONSTANTS
  p1 = p1
  h1 = h1
  Pages = {p1}
  Workers = {w1, w2}
  Hosts = {h1}
  HostOf <- MCHost
  Priority <- MCZero
  IdOrder <- MCZero
  LinkDiscovered = {p1}
  NoWorker = NoWorker
  LeaseDuration = 2
  Delays = {1}
  ActiveCap = 1
  DueCap = 1
  BatchLimit = 2
  NotFoundAfter = 2
  ScheduleAhead = 0
  LiveSearch = FALSE
  MaxNow = 3
  MaxAttempts = 2
  MaxVersion = 1
  Admins = {a1, a2}
  NoRun = NoRun
  Periodic = Periodic
  Interval = 2
  MaxClock = 1
  ua = ua
  ub = ub
  un = un
  um = um
  uf = uf
  ha = ha
  hb = hb
  hc = hc
  Writers = {v1, v2}
  Urls = {ua, ub, un, um, uf}
  UrlHosts = {ha, hb, hc}
  HostOfUrl <- MCUrlHost
  HostOrder <- MCHosts
  Fetchable = {ua, ub}
  LinksOf <- MCLinks
  Documents = {uf}
  Seeds = {um}
  NoWriter = NoWriter
  MaxPendingTotal = 1
  PerHostPendingCap = 1
  s1 = s1
  s2 = s2
  pa = pa
  pb = pb
  Seekers = {s1, s2}
  Processes = {pa, pb}
  ProcessOf <- MCProcessOf
  NoSeeker = NoSeeker
  Absent = Absent
  Ttl = 2
  Timeout = 1
  MaxMoment = 2
  MaxFailures = 1
INVARIANTS
  NoSleepOverDue
PROPERTIES
  ClaimsEnd
  DueIsClaimed
  ScheduleIsRun
  WritersEnd
  AllLeave
CHECK_DEADLOCK FALSE
