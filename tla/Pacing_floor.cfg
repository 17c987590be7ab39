SPECIFICATION Spec
CONSTANTS
  MinInterval = 2
  Interval = 4
  Timeout = 6
  PerRound = 1
  MaxRound = 4
INVARIANT FloorBetweenRounds
