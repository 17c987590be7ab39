SPECIFICATION Spec
CONSTANTS
  MinInterval = 2
  Interval = 4
  Timeout = 6
  PerRound = 2
  MaxRound = 3
INVARIANTS
  TypeOK
  RateIsBounded
  NoDrift
