\* The owner and the network context stop the same worker.
SPECIFICATION Spec
CONSTANTS
  m1 = m1
  m2 = m2
  Monitors = {m1, m2}
  NoMonitor = NoMonitor
  Hollow = Hollow
  Torn = Torn
  MaxRate = 2
  PausedInterval = 3
  RateInputs <- MCTwoRates
  MaxReadings = 0
INVARIANT OneThreadJoins
