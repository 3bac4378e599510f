---------------------------- MODULE VnpayPayments ----------------------------
(***************************************************************************)
(* Money on a booking: the payment links of VnpayService.createPaymentUrl, *)
(* the notifications VNPAY sends for them (handleIpn), the receipts staff  *)
(* enter (AdminService.payment) and the transitions that depend on what    *)
(* has been paid (AdminService.transition).                                *)
(*                                                                         *)
(* Receipts and transitions run SERIALIZABLE and write the booking row, so *)
(* each is one step: a concurrent commit on that row aborts it. handleIpn  *)
(* and the link batch run READ COMMITTED, so their statements are steps of *)
(* their own: they see what has been committed, hold the rows they wrote,  *)
(* and show their writes when they commit. Availability is external: a     *)
(* booking that let its nights go may find them taken.                     *)
(***************************************************************************)
EXTENDS BookingLifecycle, Integers, FiniteSets, Functions

CONSTANTS
  Bookings,
  Links,       \* references of VNPAY payments (txnRef)
  Requests,    \* references of staff receipts (requestId)
  Handlers,    \* notifications being handled at one time
  Payers,      \* createPaymentUrl requests being handled at one time
  Deposit,     \* depositRequired of every booking
  Total,       \* its total
  Targets,     \* bound: the statuses staff ask for
  NoPayment,   \* a reference not used yet
  Idle         \* a handler with nothing to do

ASSUME PaymentsAssumption ==
  /\ Total \in Nat /\ Deposit \in 0..Total
  /\ IsFiniteSet(Links) /\ IsFiniteSet(Requests) /\ Links \cap Requests = {}
  /\ IsFiniteSet(Payers)
  /\ Targets \subseteq Status

VARIABLES
  booking,     \* status, paidAmount and remainingAmount of each booking
  payment,     \* the Payment rows, by reference
  events,      \* the notifications recorded in PaymentWebhookEvent
  sent,        \* external: the notifications VNPAY sends, and sends again
  taken,       \* external: the nights of the booking are someone else's
  ipn,         \* the notifications being handled
  payer,       \* the createPaymentUrl requests being handled
  raced        \* history: bookings whose ledger two writers crossed

vars == <<booking, payment, events, sent, taken, ipn, payer, raced>>

Booking == [status: Status, paid: Nat, remaining: 0..Total]

Payment == [booking: Bookings, amount: 1..Total,
            status: {"PENDING", "PAID", "FAILED", "CANCELLED"}]

Notification == [pay: Links, ok: BOOLEAN]

(* A handler has read the payment and its booking (and keeps the status it *)
(* read), then has its transaction open on the payment row, then has       *)
(* summed the paid rows.                                                   *)
Handling == [phase: {"read", "open", "summed"}, pay: Links, ok: BOOLEAN,
             status: Status, sum: Nat]

(* A link request has read the amount, then has cancelled older links.     *)
Linking == [phase: {"read", "cancelling"}, booking: Bookings, amount: 1..Total,
            cancels: SUBSET Links]

(* A row, or a call, is no absent one.                                     *)
ASSUME AbsentAssumption ==
  NoPayment \notin Payment /\ Idle \notin Handling /\ Idle \notin Linking

-----------------------------------------------------------------------------
Used(p) == payment[p] # NoPayment

Of(b) == {p \in Links \cup Requests : Used(p) /\ payment[p].booking = b}

Paid(b) == {p \in Of(b) : payment[p].status = "PAID"}

SumOf(S) == SumFunctionOnSet([p \in S |-> payment[p].amount], S)

AtMost(a, b) == IF a <= b THEN a ELSE b

Outstanding(paid) == IF paid >= Total THEN 0 ELSE Total - paid

(* A handler that holds the row of payment p.                              *)
Holds(h, p) ==
  ipn[h] # Idle /\ ipn[h].phase \in {"open", "summed"} /\ ipn[h].pay = p

(* A payment of b commits while a handler, not of H, has summed the others.*)
Crossed(b, H) ==
  \E g \in Handlers \ H : /\ ipn[g] # Idle /\ ipn[g].phase = "summed"
                          /\ payment[ipn[g].pay].booking = b

-----------------------------------------------------------------------------
Init ==
  /\ booking = [b \in Bookings |->
                  [status |-> "PENDING_PAYMENT", paid |-> 0, remaining |-> Total]]
  /\ payment = [p \in Links \cup Requests |-> NoPayment]
  /\ events = {} /\ sent = {}
  /\ taken = [b \in Bookings |-> FALSE]
  /\ ipn = [h \in Handlers |-> Idle]
  /\ payer = [c \in Payers |-> Idle]
  /\ raced = {}

(* createPaymentUrl reads the booking and computes the amount (bound: some *)
(* reference is still unused).                                             *)
RequestLink(c, b) ==
  LET amount == AtMost(Deposit, booking[b].remaining) IN
  /\ payer[c] = Idle /\ \E p \in Links : ~ Used(p)
  /\ booking[b].status \in {"PENDING_PAYMENT", "PAYMENT_FAILED"}
  /\ amount > 0
  /\ payer' = [payer EXCEPT ![c] = [phase |-> "read", booking |-> b,
                                    amount |-> amount, cancels |-> {}]]
  /\ UNCHANGED <<booking, payment, events, sent, taken, ipn, raced>>

(* Mutant: the batch does not wait for those who hold its rows.            *)
CancelLinks_Unlocked(c) ==
  LET live == {p \in Links \cap Of(payer[c].booking) : payment[p].status = "PENDING"} IN
  /\ payer[c] # Idle /\ payer[c].phase = "read"
  /\ payer' = [payer EXCEPT ![c].phase = "cancelling", ![c].cancels = live]
  /\ UNCHANGED <<booking, payment, events, sent, taken, ipn, raced>>

(* The first statement of its batch finds the links to cancel, once no one *)
(* holds any of them.                                                      *)
CancelLinks(c) ==
  LET live == {p \in Links \cap Of(payer[c].booking) : payment[p].status = "PENDING"} IN
  /\ payer[c] # Idle /\ payer[c].phase = "read"
  /\ \A p \in live : /\ \A h \in Handlers : ~ Holds(h, p)
                     /\ \A d \in Payers : payer[d] # Idle => p \notin payer[d].cancels
  /\ payer' = [payer EXCEPT ![c].phase = "cancelling", ![c].cancels = live]
  /\ UNCHANGED <<booking, payment, events, sent, taken, ipn, raced>>

(* The second inserts the new link, and the batch commits.                 *)
CreateLink(c, p) ==
  LET x == payer[c]
      cancelled == [q \in DOMAIN payment |->
                      IF q \in x.cancels
                      THEN [payment[q] EXCEPT !.status = "CANCELLED"] ELSE payment[q]] IN
  /\ x # Idle /\ x.phase = "cancelling" /\ ~ Used(p)
  /\ payment' = [cancelled EXCEPT ![p] =
                   [booking |-> x.booking, amount |-> x.amount, status |-> "PENDING"]]
  /\ payer' = [payer EXCEPT ![c] = Idle]
  /\ UNCHANGED <<booking, events, sent, taken, ipn, raced>>

(* The request fails, or the server stops.                                 *)
DropLink(c) ==
  /\ payer[c] # Idle
  /\ payer' = [payer EXCEPT ![c] = Idle]
  /\ UNCHANGED <<booking, payment, events, sent, taken, ipn, raced>>

(* The guest pays on a link, or fails to, on any link ever made: VNPAY is  *)
(* not told of cancelled ones. A guest who failed may try again.           *)
Capture(p) ==
  /\ Used(p)
  /\ sent' = sent \cup {[pay |-> p, ok |-> TRUE]}
  /\ UNCHANGED <<booking, payment, events, taken, ipn, payer, raced>>

Decline(p) ==
  /\ Used(p) /\ [pay |-> p, ok |-> TRUE] \notin sent
  /\ sent' = sent \cup {[pay |-> p, ok |-> FALSE]}
  /\ UNCHANGED <<booking, payment, events, taken, ipn, payer, raced>>

(* Mutant: only a live link is taken to be waiting for an answer.          *)
Receive_LiveOnly(h, m) ==
  /\ ipn[h] = Idle /\ m \in sent
  /\ payment[m.pay].status = "PENDING"
  /\ ipn' = [ipn EXCEPT ![h] =
               [phase |-> "read", pay |-> m.pay, ok |-> m.ok,
                status |-> booking[payment[m.pay].booking].status, sum |-> 0]]
  /\ UNCHANGED <<booking, payment, events, sent, taken, payer, raced>>

(* handleIpn reads the payment with its booking, outside any transaction;  *)
(* VNPAY repeats notifications and they may arrive in any order. A payment *)
(* already PAID is answered at once.                                       *)
Receive(h, m) ==
  /\ ipn[h] = Idle /\ m \in sent
  /\ payment[m.pay].status # "PAID"
  /\ ipn' = [ipn EXCEPT ![h] =
               [phase |-> "read", pay |-> m.pay, ok |-> m.ok,
                status |-> booking[payment[m.pay].booking].status, sum |-> 0]]
  /\ UNCHANGED <<booking, payment, events, sent, taken, payer, raced>>

Recorded(x) == [pay |-> x.pay, ok |-> x.ok] \in events

(* Mutant: the event is not recorded before the payment is.                *)
Open_Unrecorded(h) ==
  LET x == ipn[h] IN
  /\ x # Idle /\ x.phase = "read"
  /\ \A g \in Handlers \ {h} : ~ Holds(g, x.pay)
  /\ \A c \in Payers : payer[c] # Idle => x.pay \notin payer[c].cancels
  /\ ipn' = [ipn EXCEPT ![h].phase = "open"]
  /\ UNCHANGED <<booking, payment, events, sent, taken, payer, raced>>

(* The transaction inserts the event, which no one may have inserted, and  *)
(* updates the payment row, once no one else holds it.                     *)
Open(h) ==
  LET x == ipn[h] IN
  /\ x # Idle /\ x.phase = "read" /\ ~ Recorded(x)
  /\ \A g \in Handlers \ {h} : ~ Holds(g, x.pay)
  /\ \A c \in Payers : payer[c] # Idle => x.pay \notin payer[c].cancels
  /\ ipn' = [ipn EXCEPT ![h].phase = "open"]
  /\ UNCHANGED <<booking, payment, events, sent, taken, payer, raced>>

(* The event is there already: P2002, answered "already confirmed".        *)
Duplicate(h) ==
  /\ ipn[h] # Idle /\ ipn[h].phase = "read" /\ Recorded(ipn[h])
  /\ ipn' = [ipn EXCEPT ![h] = Idle]
  /\ UNCHANGED <<booking, payment, events, sent, taken, payer, raced>>

(* Mutant: the sum is over the payments made through VNPAY.                *)
Sum_VnpayOnly(h) ==
  LET x == ipn[h] IN
  /\ x # Idle /\ x.phase = "open" /\ x.ok
  /\ ipn' = [ipn EXCEPT ![h].phase = "summed",
               ![h].sum = SumOf((Paid(payment[x.pay].booking) \cap Links) \cup {x.pay})]
  /\ UNCHANGED <<booking, payment, events, sent, taken, payer, raced>>

(* It sums the paid rows of the booking, its own among them.               *)
Sum(h) ==
  LET x == ipn[h] IN
  /\ x # Idle /\ x.phase = "open" /\ x.ok
  /\ ipn' = [ipn EXCEPT ![h].phase = "summed",
               ![h].sum = SumOf(Paid(payment[x.pay].booking) \cup {x.pay})]
  /\ UNCHANGED <<booking, payment, events, sent, taken, payer, raced>>

(* The status it writes: CONFIRMED if the deposit is covered, else the one *)
(* it read before the transaction.                                         *)
NewStatus(x) == IF x.sum >= Deposit THEN "CONFIRMED" ELSE x.status

(* What the trigger and the exclusion constraint let through.              *)
Admitted(b, to) ==
  /\ TerminalGuard(booking[b].status, to)
  /\ to \in OCCUPYING => ~ taken[b]

(* It updates the booking, and commits.                                    *)
CommitCapture(h) ==
  LET x == ipn[h]
      b == payment[x.pay].booking IN
  /\ x # Idle /\ x.phase = "summed" /\ Admitted(b, NewStatus(x))
  /\ booking' = [booking EXCEPT ![b] =
                   [status |-> NewStatus(x), paid |-> x.sum,
                    remaining |-> Outstanding(x.sum)]]
  /\ payment' = [payment EXCEPT ![x.pay].status = "PAID"]
  /\ events' = events \cup {[pay |-> x.pay, ok |-> TRUE]}
  /\ ipn' = [ipn EXCEPT ![h] = Idle]
  /\ raced' = IF Crossed(b, {h}) THEN raced \cup {b} ELSE raced
  /\ UNCHANGED <<sent, taken, payer>>

(* A failed payment: the row is marked and the booking left alone. The row *)
(* may have become PAID since it was read.                                 *)
CommitDecline(h) ==
  LET x == ipn[h]
      b == payment[x.pay].booking IN
  /\ x # Idle /\ x.phase = "open" /\ ~ x.ok
  /\ payment' = [payment EXCEPT ![x.pay].status = "FAILED"]
  /\ events' = events \cup {[pay |-> x.pay, ok |-> FALSE]}
  /\ ipn' = [ipn EXCEPT ![h] = Idle]
  /\ raced' = IF payment[x.pay].status = "PAID" THEN raced \cup {b} ELSE raced
  /\ UNCHANGED <<booking, sent, taken, payer>>

(* Refused by the database, a timeout, a crash: nothing is written, VNPAY  *)
(* is answered 99 or not at all.                                           *)
Rollback(h) ==
  /\ ipn[h] # Idle
  /\ ipn' = [ipn EXCEPT ![h] = Idle]
  /\ UNCHANGED <<booking, payment, events, sent, taken, payer, raced>>

(* Mutant: a receipt may exceed what is outstanding.                       *)
Receipt_Unbounded(b, q, amount) ==
  /\ ~ Used(q)
  /\ booking[b].status \in {"PENDING_PAYMENT", "CONFIRMED", "CHECKED_IN"}
  /\ payment' = [payment EXCEPT ![q] =
                   [booking |-> b, amount |-> amount, status |-> "PAID"]]
  /\ booking' = [booking EXCEPT ![b].paid = @ + amount, ![b].remaining = @ - amount]
  /\ raced' = IF Crossed(b, {}) THEN raced \cup {b} ELSE raced
  /\ UNCHANGED <<events, sent, taken, ipn, payer>>

(* Mutant: a request that was already booked is booked again.              *)
Receipt_Repeated(b, q, amount) ==
  /\ booking[b].status \in {"PENDING_PAYMENT", "CONFIRMED", "CHECKED_IN"}
  /\ amount <= booking[b].remaining
  /\ payment' = [payment EXCEPT ![q] =
                   [booking |-> b, amount |-> amount, status |-> "PAID"]]
  /\ booking' = [booking EXCEPT ![b].paid = @ + amount, ![b].remaining = @ - amount]
  /\ raced' = IF Crossed(b, {}) THEN raced \cup {b} ELSE raced
  /\ UNCHANGED <<events, sent, taken, ipn, payer>>

(* AdminService.payment, for a request not seen before: the others change  *)
(* nothing.                                                                *)
Receipt(b, q, amount) ==
  /\ ~ Used(q)
  /\ booking[b].status \in {"PENDING_PAYMENT", "CONFIRMED", "CHECKED_IN"}
  /\ amount <= booking[b].remaining
  /\ payment' = [payment EXCEPT ![q] =
                   [booking |-> b, amount |-> amount, status |-> "PAID"]]
  /\ booking' = [booking EXCEPT ![b].paid = @ + amount, ![b].remaining = @ - amount]
  /\ raced' = IF Crossed(b, {}) THEN raced \cup {b} ELSE raced
  /\ UNCHANGED <<events, sent, taken, ipn, payer>>

(* Mutant: staff may confirm and check in before the deposit is paid.      *)
Transition_Unfunded(b, to) ==
  /\ MayMove(booking[b].status, to)
  /\ to = "CHECKED_OUT" => booking[b].remaining = 0
  /\ Admitted(b, to)
  /\ booking' = [booking EXCEPT ![b].status = to]
  /\ UNCHANGED <<payment, events, sent, taken, ipn, payer, raced>>

(* Mutant: staff may check out a guest who owes money.                     *)
Transition_Uncleared(b, to) ==
  /\ MayMove(booking[b].status, to)
  /\ to \in {"CONFIRMED", "CHECKED_IN"} => booking[b].paid >= Deposit
  /\ Admitted(b, to)
  /\ booking' = [booking EXCEPT ![b].status = to]
  /\ UNCHANGED <<payment, events, sent, taken, ipn, payer, raced>>

(* AdminService.transition, but for what Reservations says of its date and *)
(* of its lock.                                                            *)
Transition(b, to) ==
  /\ MayMove(booking[b].status, to)
  /\ to \in {"CONFIRMED", "CHECKED_IN"} => booking[b].paid >= Deposit
  /\ to = "CHECKED_OUT" => booking[b].remaining = 0
  /\ Admitted(b, to)
  /\ booking' = [booking EXCEPT ![b].status = to]
  /\ UNCHANGED <<payment, events, sent, taken, ipn, payer, raced>>

(* Another booking takes nights this one does not occupy, or leaves them.  *)
NightsChange(b) ==
  /\ booking[b].status \notin OCCUPYING
  /\ taken' = [taken EXCEPT ![b] = ~ @]
  /\ UNCHANGED <<booking, payment, events, sent, ipn, payer, raced>>

Next ==
  \/ \E c \in Payers, b \in Bookings : RequestLink(c, b)
  \/ \E c \in Payers : CancelLinks(c) \/ DropLink(c)
  \/ \E c \in Payers, p \in Links : CreateLink(c, p)
  \/ \E p \in Links : Capture(p) \/ Decline(p)
  \/ \E h \in Handlers, m \in Notification : Receive(h, m)
  \/ \E h \in Handlers : Open(h) \/ Duplicate(h) \/ Sum(h)
  \/ \E h \in Handlers : CommitCapture(h) \/ CommitDecline(h) \/ Rollback(h)
  \/ \E b \in Bookings, q \in Requests, amount \in 1..Total : Receipt(b, q, amount)
  \/ \E b \in Bookings, to \in Targets : Transition(b, to)
  \/ \E b \in Bookings : NightsChange(b)

Spec == Init /\ [][Next]_vars

(* A handler that can answer does, for row locks are queued for.           *)
Refused(h) ==
  /\ ipn[h] # Idle /\ ipn[h].phase = "summed"
  /\ ~ Admitted(payment[ipn[h].pay].booking, NewStatus(ipn[h]))

Answer(h) ==
  Open(h) \/ Duplicate(h) \/ CommitDecline(h) \/ (Refused(h) /\ Rollback(h))

(* VNPAY repeats the notification of a success until it is answered, so it *)
(* is taken up again and again, and not every attempt at it fails half-way;*)
(* nor does every request for a link.                                      *)
Attempt(h, p, A) == ipn[h] # Idle /\ ipn[h].pay = p /\ ipn[h].ok /\ A

Fairness ==
  /\ \A c \in Payers : /\ SF_vars(\E p \in Links : CreateLink(c, p))
                       /\ WF_vars(DropLink(c))
  /\ \A h \in Handlers : SF_vars(Answer(h))
  /\ \A h \in Handlers, p \in Links :
       /\ SF_vars(Receive(h, [pay |-> p, ok |-> TRUE]))
       /\ SF_vars(Attempt(h, p, Open(h)))
       /\ SF_vars(Attempt(h, p, Sum(h)))
       /\ SF_vars(Attempt(h, p, CommitCapture(h)))

FairSpec == Spec /\ Fairness

-----------------------------------------------------------------------------
TypeOK ==
  /\ booking \in [Bookings -> Booking]
  /\ payment \in [Links \cup Requests -> Payment \cup {NoPayment}]
  /\ events \subseteq sent /\ sent \subseteq Notification
  /\ taken \in [Bookings -> BOOLEAN]
  /\ ipn \in [Handlers -> Handling \cup {Idle}]
  /\ payer \in [Payers -> Linking \cup {Idle}]
  /\ raced \subseteq Bookings

(* A capture always covers the deposit, whatever receipts, other links and *)
(* notifications came between the moment its amount was computed and the   *)
(* moment it is applied: the stale status handleIpn read is never written  *)
(* back.                                                                   *)
CaptureCovers ==
  \A h \in Handlers :
    ipn[h] # Idle /\ ipn[h].phase = "summed" => ipn[h].sum >= Deposit

(* No booking is confirmed, or has its guest in the room, with less than   *)
(* the deposit on its ledger.                                              *)
DepositBeforeRoom ==
  \A b \in Bookings :
    booking[b].status \in {"CONFIRMED", "CHECKED_IN", "CHECKED_OUT", "COMPLETED"}
    => booking[b].paid >= Deposit

(* A guest who has left owes nothing, though a notification that comes     *)
(* later writes the balance again from its own sum.                        *)
ClearedBeforeLeaving ==
  \A b \in Bookings :
    booking[b].status \in {"CHECKED_OUT", "COMPLETED"} => booking[b].remaining = 0

(* The ledger on the booking is the sum of its paid rows, unless a payment *)
(* was committed between the sum and the commit of a notification, or a    *)
(* failure was written over a payment that had just succeeded: the code    *)
(* has no other way to lose money.                                         *)
LedgerDriftsOnlyByRaces ==
  \A b \in Bookings \ raced :
    /\ booking[b].paid = SumOf(Paid(b))
    /\ booking[b].remaining = Outstanding(booking[b].paid)

(* A success is answered "already confirmed", whether for the payment that *)
(* is PAID or for the event that is there already, only when it is known:  *)
(* a link is PAID by its own recorded success and by nothing else, and a   *)
(* recorded success is still on its payment, though links are replaced and *)
(* refusals handled beside it, unless its ledger was raced.                *)
AnswersAreTrue ==
  \A p \in Links :
    LET recorded == [pay |-> p, ok |-> TRUE] \in events IN
    /\ Used(p) /\ payment[p].status = "PAID" => recorded
    /\ recorded => /\ Used(p)
                   /\ payment[p].status = "PAID" \/ payment[p].booking \in raced

(* A success that VNPAY reports is recorded on the payment in the end,     *)
(* though the guest paid on a link that had been replaced; unless the      *)
(* booking is closed for good or its nights went to someone else.          *)
CapturesAreRecorded ==
  \A p \in Links :
    [pay |-> p, ok |-> TRUE] \in sent ~>
      /\ Used(p)
      /\ \/ payment[p].status = "PAID"
         \/ booking[payment[p].booking].status \in Frozen
         \/ taken[payment[p].booking]

(* The status of a booking moves along the table of BookingStateService, or*)
(* a capture moves it back to CONFIRMED from a status that is not terminal,*)
(* with the deposit on its ledger: a notification that comes late, after   *)
(* staff moved the guest on or closed the booking, does nothing else.      *)
OffTableOnlyByCapture ==
  [][\A b \in Bookings :
       LET old == booking[b].status
           new == booking'[b].status IN
       new # old =>
         \/ MayMove(old, new)
         \/ new = "CONFIRMED" /\ old \notin Frozen /\ booking'[b].paid >= Deposit]_booking

(* A payment that was recorded as paid stays so, with its amount.          *)
PaidRowsAreImmutable ==
  [][\A p \in Links \cup Requests :
       Used(p) /\ payment[p].status = "PAID" => payment'[p] = payment[p]]_payment

(* The accounts of BookingContract. A capture may still come on a link     *)
(* without a recorded success, and on one that is being made.              *)
Level(b) ==
  IF booking[b].remaining = 0 THEN 2 ELSE IF booking[b].paid >= Deposit THEN 1 ELSE 0

Unsettled(b) == {p \in Links \cap Of(b) : [pay |-> p, ok |-> TRUE] \notin events}

Asking(b) == {c \in Payers : payer[c] # Idle /\ payer[c].booking = b}

Accounts ==
  [b \in Bookings |->
     [status |-> booking[b].status, deposit |-> Deposit > 0, level |-> Level(b),
      attempts |-> Cardinality(Unsettled(b)) + Cardinality(Asking(b))]]

Contract == INSTANCE BookingContract WITH None <- Idle, account <- Accounts

ASSUME NoAccountAssumption == Idle \notin Contract!Account

(* What Reservations relies on: one capture for each link at most, however *)
(* often it is notified and whatever ran beside it, never less than the    *)
(* deposit, never on a closed booking or one whose nights have gone; no    *)
(* late write takes back a status that staff have set.                     *)
MeetsContract == Contract!Spec
=============================================================================
