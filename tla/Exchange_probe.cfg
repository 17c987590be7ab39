SPECIFICATION Spec
CONSTANTS
  MaxStep = 2
  MaxRetries = 2
INVARIANTS
  TypeOK
  TimeIsCountedOnce
  AnsweringAttemptDecides
  HandshakeIsKnown
