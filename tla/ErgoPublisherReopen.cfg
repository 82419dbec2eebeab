SPECIFICATION Spec
CONSTANTS
  Nothing = Nothing
  Large = r2
  Records = {r1, r3, r4}
  Funding = {f1}
  Needs <- MCNeeds
  Depth = 1
  MaxHeight = 2
  MaxAttempts = 3
  PendingLimit = 3
  MaxQueue = 1
INVARIANTS
  Restorable
