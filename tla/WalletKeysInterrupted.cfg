CONSTANTS
  LookAhead = 2
  MinWindow = 2
  MaxLives = 1
  MaxPayments = 1
  MaxKey = 3
  MaxLedger = 2
SPECIFICATION InterruptedSpec
INVARIANTS KeyNamedOnce
CHECK_DEADLOCK FALSE
