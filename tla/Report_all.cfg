SPECIFICATION Spec
CONSTANTS
  Kinds = {"wide", "mid", "min", "json", "csv"}
  RunModes = {"both", "cold", "warm"}
  Results = {"timed", "dialled", "failed"}
  Warmup = 1
  MaxRound = 2
INVARIANTS
  TypeOK
  PrintedOnce
  NoHole
  SuccessIsDelivered
PROPERTIES
  ImplementsRenderer
