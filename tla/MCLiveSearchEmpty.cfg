SPECIFICATION MCKeywordSpec
CONSTANTS
  u1 = u1
  u2 = u2
  u3 = u3
  u4 = u4
  u5 = u5
  u6 = u6
  ha = ha
  hb = hb
  i1 = i1
  i2 = i2
  i3 = i3
  i4 = i4
  StrongScore = 3
  MinMargin = 1
  MinStrong = 1
  MinCoverage = 60
  MinRemaining = 1
  LiveEnabled = TRUE
  MaxTargets = 4
  Url = {"u1", "u2"}
  Sources = {"unit", "overview"}
  ListingOf <- MCListingOf
  HasSiteSearch = TRUE
  DatabaseResults = 1
  DatabaseScore = 2
  MaxLive = 1
  MaxChanges = 1
  WebPages = {u1, u2, u3, u4, u5, u6}
  Hosts = {ha, hb}
  HostOf <- MCHostOf
  Crawlable = {u1, u2, u3, u4, u5, u6}
  NotQueued = NotQueued
  MapItems <- MCMapItems
  Seeds <- MCSeeds
  Found <- MCFound
  Links <- MCLinks
  PageScore <- MCPageScore
  Blank = {u2}
  MaxPages = 4
  MaxCandidates = 5
  MaxDepth = 2
  MaxPerHost = 2
  Threshold = 2
  High = 3
  EnoughResults = 2
  WarningMargin = 1
  Items <- MCItems
  Undated = {i3}
  Queries = 2
  ItemLimit = 2
  HasSiteSearcher = TRUE
  ByDate <- MCByDate
  Listing <- MCListing
  DatedPages = {i2, i3, i4}
  DatedItems = {i1, i2}
  NoBody = {i3}
  UnitLimit = 2
INVARIANTS
  EmptyIsAnswered
