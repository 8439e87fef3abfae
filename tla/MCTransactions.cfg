SPECIFICATION MCSpec
CONSTANTS
  p1 = p1
  p2 = p2
  p3 = p3
  h1 = h1
  h2 = h2
  ua = ua
  ub = ub
  uc = uc
  un = un
  uo = uo
  um = um
  uq = uq
  uf = uf
  ha = ha
  hb = hb
  hc = hc
  hd = hd
  Pages <- MCPages
  Workers = {w1, w2}
  Hosts = {h1, h2}
  HostOf <- MCHostOf
  Rank <- MCRank
  NoWorker = NoWorker
  ActiveCap = 1
  DueCap = 1
  LeaseDuration = 2
  MaxNow = 2
  MaxClaims = 2
  Writers = {v1, v2}
  Urls = {ua, ub, uc, un, uo, um, uq, uf}
  UrlHosts = {ha, hb, hc, hd}
  HostOfUrl <- MCUrlHost
  HostOrder <- MCOrder
  Fetchable = {ua, ub, uc}
  LinksOf <- MCLinks
  Documents = {uf}
  Seeds = {um}
  NoWriter = NoWriter
  MaxPendingTotal = 2
  PerHostPendingCap = 1
  r1 = r1
  r2 = r2
  r3 = r3
  pa = pa
  pb = pb
  Seekers = {r1, r2, r3}
  Processes = {pa, pb}
  ProcessOf <- MCProcessOf
  NoSeeker = NoSeeker
  Absent = Absent
  Ttl = 2
  Timeout = 1
  MaxMoment = 2
  MaxFailures = 1
  Requests = {q1, q2}
  Conversations = {c1, c2}
  NoConversation = NoConversation
  NoRequest = NoRequest
  Items = {e1}
  MaxToolRounds = 1
  ConversationTtl = 1
  MaxTime = 1
INVARIANTS
  FrontierWithinCaps
  OneSearch
  CachedIsYoung
  LostOnlyIfDeleted
PROPERTIES
  LiveLeaseNotStolen
  OnlyDueIsClaimed
  SearchedOnce
  DeletedStaysDeleted
SYMMETRY MCSymmetry
CHECK_DEADLOCK FALSE
