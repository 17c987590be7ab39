SPECIFICATION Spec
CONSTANTS
  Configs <- AllConfigs
  Outcomes <- OutcomesOf
  ChanCap = 2
  MaxRound = 3
  MinInterval = 2
INVARIANTS
  TypeOK
  NothingLost
  PolitenessStop
  FailureGuard
  InterruptIsPrompt
  ScheduleIsFixed
  EarlyStopIsExplained
  ReportIsComplete
  ExitZeroIsEarned
PROPERTIES
  ImplementsProbeLog
  Terminates
  InterruptEnds
