\* Every interleaving of the owner, the network context, the worker and the
\* writer of /rate, with numbered readings.
SPECIFICATION Spec
CONSTANTS
  m1 = m1
  m2 = m2
  Monitors = {m1, m2}
  NoMonitor = NoMonitor
  Hollow = Hollow
  Torn = Torn
  MaxRate = 2
  PausedInterval = 3
  RateInputs <- MCRateInputs
  MaxReadings = 4
SYMMETRY MonitorSymmetry
INVARIANTS
  TypeOK
  WorkerIsOwned
  WholeReadings
  QuietWhilePaused
  PolledWhileOn
  NothingAfterRelease
  TreeOutlivesPushes
  TimerFollowsRate
  MonitorUsedByOne
  WaitsCanEnd
  Inv
PROPERTIES
  LatestReadingSpec
  JoinWaitsForOneReading
