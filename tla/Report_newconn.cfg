SPECIFICATION Spec
CONSTANTS
  Kinds = {"min"}
  RunModes = {"both", "warm"}
  Results = {"timed", "dialled"}
  Warmup = 1
  MaxRound = 2
INVARIANTS
  NewConnIsSurfaced
