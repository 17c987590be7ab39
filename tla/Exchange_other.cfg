SPECIFICATION Spec
CONSTANTS
  MaxStep = 1
  MaxRetries = 0
INVARIANTS
  RemainderIsReported
