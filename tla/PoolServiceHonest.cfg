CONSTANTS
  Notes = {n1, n2}
  None = None
  Value <- MCValue
  ValueBound = 3
  Lag = 2
  Duration = 3
  Instants = {1, 4}
  Deadlines = {4, 8}
  MaxIndex = 7
  MaxRecords = 3
  MaxForced = 1
  MaxSigned = 4
SYMMETRY Interchangeable
SPECIFICATION Spec
INVARIANTS
  HonestHistoryReplayable
CHECK_DEADLOCK FALSE
