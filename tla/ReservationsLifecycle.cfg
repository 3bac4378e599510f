SPECIFICATION Spec
CONSTANTS
  Days = {0, 1}
  Units = {u1}
  Rows = {r1, r2}
  Tx = {t1, t2}
  NoRow = NoRow
  Idle = Idle
  Operations = {"createHold", "create", "block", "transition"}
  Targets = {"CONFIRMED", "CHECKED_IN", "CHECKED_OUT", "PAYMENT_FAILED", "PENDING_PAYMENT",
             "CANCELLED_BY_STAFF"}
  StartLevel <- MCStartLevel
  HoldTicks = 1
  TicksPerDay = 1
  MaxClock = 1
  MaxAttempts = 1
SYMMETRY Symmetry
CHECK_DEADLOCK FALSE
INVARIANTS TypeOK NoOverbooking GuestNightsAreClear Discipline
PROPERTIES ImplementsInventory TerminalIsFinal MeetsContract
