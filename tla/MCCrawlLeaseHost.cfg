SPECIFICATION MCHostSpec
CONSTANTS
  p1 = p1
  p2 = p2
  h1 = h1
  h2 = h2
  Pages <- MCPages
  Workers = {w1, w2}
  Hosts = {h1, h2}
  HostOf <- MCOneHost
  Priority <- MCPriority
  IdOrder <- MCIdOrder
  LinkDiscovered = {p1}
  NoWorker = NoWorker
  LeaseDuration = 1
  Delays = {1}
  ActiveCap = 1
  DueCap = 1
  BatchLimit = 2
  NotFoundAfter = 1
  ScheduleAhead = 0
  LiveSearch = TRUE
  MaxNow = 2
  MaxAttempts = 1
  MaxVersion = 1
PROPERTIES
  OnlyHolderPostpones
INVARIANTS
  HostCapHeld
SYMMETRY WorkerSymmetry
CHECK_DEADLOCK FALSE
