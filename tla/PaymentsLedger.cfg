SPECIFICATION Spec
CONSTANTS
  Bookings = {b1}
  Links = {l1, l2}
  Requests = {q1}
  Handlers = {h1, h2}
  Payers = {c1}
  Deposit = 2
  Total = 3
  Targets = {"CONFIRMED", "CHECKED_IN", "CHECKED_OUT", "CANCELLED_BY_STAFF"}
  NoPayment = NoPayment
  Idle = Idle
CHECK_DEADLOCK FALSE
SYMMETRY Symmetry
INVARIANTS TypeOK CaptureCovers DepositBeforeRoom ClearedBeforeLeaving LedgerDriftsOnlyByRaces AnswersAreTrue
PROPERTIES OffTableOnlyByCapture MeetsContract
