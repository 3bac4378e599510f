SPECIFICATION Spec
CONSTANTS
  Bookings = {b1}
  Links = {l1}
  Requests = {}
  Handlers = {h1, h2}
  Payers = {c1}
  Deposit = 2
  Total = 3
  Targets = {}
  NoPayment = NoPayment
  Idle = Idle
CHECK_DEADLOCK FALSE
SYMMETRY Symmetry
PROPERTY PaidRowsAreImmutable
