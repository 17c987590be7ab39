SPECIFICATION Spec
CONSTANTS
  Configs <- Passed
  Worlds <- AllWorlds
  Addrs = {"first", "second", "third"}
  Family <- FamilyOf
  MaxProbes = 3
  MaxLosses = 1
  MinInterval = 2
INVARIANTS
  TypeOK
  SameServerOrWarned
  ReuseIsClean
  ConnectionCount
  NothingInTheBackground
  FirstColdIsFull
