SPECIFICATION Spec
CONSTANTS
  p1 = p1
  p2 = p2
  h1 = h1
  h2 = h2
  Pages <- MCSinglePage
  Workers = {w1, w2}
  Hosts = {h1}
  HostOf <- MCHostOfOne
  Priority <- MCZeroOfOne
  IdOrder <- MCZeroOfOne
  LinkDiscovered = {p1}
  NoWorker = NoWorker
  LeaseDuration = 2
  Delays = {1}
  ActiveCap = 1
  DueCap = 1
  BatchLimit = 2
  NotFoundAfter = 2
  ScheduleAhead = 1
  LiveSearch = FALSE
  MaxNow = 4
  MaxAttempts = 3
  MaxVersion = 2
INVARIANTS
  TypeOK
  LiveLeaseIsRunning
PROPERTIES
  GoneIsConfirmed
  StoredNeverRegresses
  AttemptClosedOnce
  KeepsThePromise
SYMMETRY WorkerSymmetry
CHECK_DEADLOCK FALSE
