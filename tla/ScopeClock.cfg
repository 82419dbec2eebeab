CONSTANTS
  None = None
  Backings = {k1, k2}
  Lag = 2
  MaxIndex = 7
  MaxEnd = 10
  Operators = {O1, O2}
  Original = O1
  Forces = {4, 5, 7}
  LastIndex = 5
  VenueLag = 1
  MaxSigned = 3
  MaxEntries = 3
  Absent = Absent
  MaxClock = 2
  Sequences = {1, 2, 3}
  Roots = {1, 2}
  Identities = {one}
  MaxRecords = 3
SYMMETRY Interchangeable
SPECIFICATION MCSpec
INVARIANTS
  WitnessedInTerm
  TailCommitted
  MatchesCalendar
  InForceStands
  KeptIsDerived
PROPERTIES
  EndsAsScheduled
CHECK_DEADLOCK FALSE
