SPECIFICATION Spec
CONSTANTS
  Days = {0, 1, 2}
  Units = {u1, u2}
  Rows = {r1, r2, r3}
  Tx = {t1, t2}
  NoRow = NoRow
  Idle = Idle
  Operations = {"createHold", "createBooking"}
  Targets = {}
  StartLevel <- MCStartLevel
  HoldTicks = 1
  TicksPerDay = 1
  MaxClock = 1
  MaxAttempts = 0
SYMMETRY Symmetry
CHECK_DEADLOCK FALSE
INVARIANTS NoConflictingClaims CalendarAgrees
PROPERTY LiveHoldsStand
