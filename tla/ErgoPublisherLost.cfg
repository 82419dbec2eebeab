SPECIFICATION Spec
CONSTANTS
  Nothing = Nothing
  Large = r2
  Records = {r1, r2}
  Funding = {f1, f2}
  Needs <- MCNeeds
  Depth = 1
  MaxHeight = 4
  MaxAttempts = 3
  PendingLimit = 2
  MaxQueue = 1
INVARIANTS
  NoSecondTransaction
