SPECIFICATION Spec
CONSTANT PoolSize = 2
INVARIANTS
  TypeOK
  TcpIsOneConnect
  PhasesNest
  PhasesOfLastAttempt
