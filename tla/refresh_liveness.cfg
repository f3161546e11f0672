\* What must happen in the end when every thread keeps running, with readings
\* that may stall for ever and readings that do not.
SPECIFICATION FairSpec
CONSTANTS
  m1 = m1
  m2 = m2
  Monitors = {m1, m2}
  NoMonitor = NoMonitor
  Hollow = Hollow
  Torn = Torn
  MaxRate = 2
  PausedInterval = 3
  RateInputs <- MCRateInputs
  MaxReadings = 0
PROPERTIES
  RateTakesEffect
  ReadingIsTaken
  DisconnectCompletes
  ClockSurvivesStall
