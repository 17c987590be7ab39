SPECIFICATION Spec
CONSTANTS
  Times = {1, 2, 4}
  MaxWarmup = 1
  MaxRound = 3
  MinP95Samples = 2
INVARIANTS
  TypeOK
  RunningMedianIsMedian
  MedianIsCentral
  PercentileIsNearestRank
  GainKeepsItsSign
  EachSampleIsCountedOnce
