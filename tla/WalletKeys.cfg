CONSTANTS
  LookAhead = 2
  MinWindow = 2
  MaxLives = 1
  MaxPayments = 1
  MaxKey = 3
  MaxLedger = 3
SPECIFICATION Spec
INVARIANTS KeyNamedOnce CreditedOnce FundsFound
CHECK_DEADLOCK FALSE
