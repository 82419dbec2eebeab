CONSTANTS
  None = None
  Nothing = Nothing
  Large = r2
  Records = {r1, r2}
  Funding = {x1, x2}
  Needs <- MCNeeds
  Depth = 1
  MaxHeight = 3
  MaxAttempts = 2
  PendingLimit = 2
  MaxQueue = 1
  Files = {f1, f2}
  Original = f1
  Statements = {s1, s2}
  First = s1
  Spacings <- MCSpacings
  Skip = 4
  LostInFlight = 2
  Lag = 1
  Duration = 1
  MaxIndex = 3
  MaxOwner = 1
  MaxSigned = 3
  MaxTrail = 1
SPECIFICATION MCSpec
INVARIANTS
  RowsKept
  PublishedWasTaken
  SignsOnce
  OneTransactionLands
  OutboxSound
PROPERTIES
  SignsOverOwnRecord
CHECK_DEADLOCK FALSE
