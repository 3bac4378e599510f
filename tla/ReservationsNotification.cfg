SPECIFICATION Spec
CONSTANTS
  Days = {0, 1}
  Units = {u1}
  Rows = {r1, r2}
  Tx = {t1, t2}
  NoRow = NoRow
  Idle = Idle
  Operations = {"createHold", "create", "block"}
  Targets = {"PAYMENT_FAILED"}
  StartLevel <- MCStartLevel
  HoldTicks = 1
  TicksPerDay = 1
  MaxClock = 1
  MaxAttempts = 1
SYMMETRY Symmetry
CHECK_DEADLOCK FALSE
INVARIANT NoConflictingClaims
