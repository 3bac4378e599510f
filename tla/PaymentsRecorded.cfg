SPECIFICATION FairSpec
CONSTANTS
  Bookings = {b1}
  Links = {l1, l2}
  Requests = {}
  Handlers = {h1}
  Payers = {c1}
  Deposit = 2
  Total = 3
  Targets = {"PAYMENT_FAILED", "CANCELLED_BY_STAFF"}
  NoPayment = NoPayment
  Idle = Idle
CHECK_DEADLOCK FALSE
PROPERTY CapturesAreRecorded
