CONSTANTS
  a = a
  b = b
  c = c
  None = None
  Notes = {a, b, c}
  Value <- MCValue
  ValueBound = 5
  Lag = 1
  Indices = {1, 3}
  LastIndex = 3
  MaxApplied = 5
  Duration = 2
  Instants = {1, 3}
  Deadlines = {4, 9}
  MaxIndex = 8
  MaxRecords = 2
  MaxForced = 2
  MaxSigned = 5
SYMMETRY Interchangeable
SPECIFICATION MCSpec
INVARIANTS
  LocksSound
  OnTimeNeverLapsed
  ViewsSound
  AdoptionNeverRefused
  ForcedStands
  FinalIsHeld
  ExcludedOnlyByLock
PROPERTIES
  DemandsSettleOnce
CHECK_DEADLOCK FALSE
