SPECIFICATION Spec
CONSTANTS
  MaxVnd = 3
  HoldTtl = 1
  BookingPaymentTtl = 2
  FullNotice = 2
  HalfNotice = 1
  Attempts = {p1, p2}
  Captures = {c1, c2}
  Totals = {3}
  Taken = {1, 3}
  CheckIns = {2}
  MaxTime = 2
  MaxRefunds = 2
  None = None
CONSTRAINTS Alike FewRefunds
ACTION_CONSTRAINTS RefundsLast ClockMatters
SYMMETRY Symmetry
CHECK_DEADLOCK FALSE
INVARIANTS TypeOK SchemaAccepts RoomIsFunded RefundsAreCovered
PROPERTIES TerminalIsFinal
