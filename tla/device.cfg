\* Settings around a connection; integers of 2 and 3 bits, clocks from 10 up.
SPECIFICATION Spec
CONSTANTS
  IntMax = 3
  Word = 8
  MinClock = 10
  Kilo = 3
  MaxRate = 2
  DefaultRate = 1
  Rates <- MCRates
  Clocks = {10, 11, 15, 29}
  Characters <- MCCharacters
  MaxLength = 5
INVARIANTS
  TypeOK
  CountsDoNotWrap
  RatiosAreShares
  CoreClocksAreInHz
  PathsSurviveEscaping
PROPERTIES
  ConfirmChangesNothing
  LoadReturnsTheSaved
