CONSTANTS
  None = None
  h1 = h1
  r1 = r1
  f1 = f1
  p1 = p1
  z1 = z1
  z2 = z2
  a1 = a1
  a2 = a2
  Notes = {h1, r1, f1, p1, z1, z2}
  Value <- MCValue
  ValueBound = 5
  Lag = 1
  Aliases = {a1, a2}
  Held = {h1}
  Requests = {r1}
  Fresh <- MCFresh
  Renewals = {f1}
  Payouts = {p1}
  Deadlines = {3}
  Duration = 1
  MaxIndex = 2
  MaxSegment = 2
  MaxCalls = 2
SYMMETRY Interchangeable
SPECIFICATION Spec
INVARIANTS
  ReservedOnce
  OutcomesTrue
  ReceiptsSignTheirRecord
  NeverAccusesItself
  NeverLinks
CHECK_DEADLOCK FALSE
