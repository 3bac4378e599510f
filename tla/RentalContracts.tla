--------------------------- MODULE RentalContracts ---------------------------
(***************************************************************************)
(* The contracts of the new rental lifecycle (src/domain/rental): who may  *)
(* move a hold, a booking, a payment attempt or a refund, what has to be   *)
(* paid, when things are due, and what a cancellation returns; and the     *)
(* CHECK constraints the migration puts on the rows, which state part of   *)
(* the same rules a second time, in SQL.                                   *)
(*                                                                         *)
(* Money is whole dong (vnd throws on anything else) and instants are      *)
(* whole numbers: both sides keep milliseconds. A function that throws is  *)
(* a guard that is false.                                                  *)
(***************************************************************************)
EXTENDS BookingLifecycle, Integers

CONSTANTS
  MaxVnd,             \* MAX_VND
  HoldTtl,            \* HOLD_TTL_MS, 15 minutes
  BookingPaymentTtl,  \* BOOKING_PAYMENT_TTL_MS, 30 minutes
  FullNotice,         \* 48 hours
  HalfNotice          \* 24 hours

ASSUME RentalAssumption ==
  /\ MaxVnd \in Nat
  /\ HoldTtl \in Nat \ {0} /\ BookingPaymentTtl \in Nat \ {0}
  /\ HalfNotice \in Nat /\ FullNotice \in Nat /\ HalfNotice <= FullNotice

-----------------------------------------------------------------------------
(* states.ts: what may become what, and by whose hand.                     *)
HoldState == {"ACTIVE", "CONVERTED", "CANCELLED", "EXPIRED"}

BookingState == Status \ {"DRAFT", "PAYMENT_FAILED"}

PaymentAttemptState ==
  {"PENDING", "PROCESSING", "PAID", "FAILED", "SUPERSEDED", "EXPIRED", "CANCELLED"}

RefundState ==
  {"REQUESTED", "PROCESSING", "PENDING_PROVIDER", "SUCCEEDED", "RETRYABLE_FAILED",
   "MANUAL_REVIEW"}

RefundCause ==
  {"CUSTOMER_CANCELLATION", "OPERATOR_CANCELLATION", "BOOKING_EXPIRY", "LATE_CAPTURE",
   "SUPERSEDED_CAPTURE"}

CancellationCause == RefundCause \ {"LATE_CAPTURE", "SUPERSEDED_CAPTURE"}

DomainActor ==
  {"CUSTOMER", "STAFF", "ADMIN", "SYSTEM", "PAYMENT_PROCESSOR", "REFUND_WORKER"}

CancellationActor == DomainActor \ {"PAYMENT_PROCESSOR", "REFUND_WORKER"}

holdTransitions(from, to, actor) ==
  /\ from = "ACTIVE"
  /\ \/ to \in {"CONVERTED", "CANCELLED"} /\ actor \in {"CUSTOMER", "STAFF", "ADMIN"}
     \/ to = "EXPIRED" /\ actor = "SYSTEM"

cancellations(to, actor) ==
  \/ to = "CANCELLED_BY_CUSTOMER" /\ actor = "CUSTOMER"
  \/ to = "CANCELLED_BY_STAFF" /\ actor = "STAFF"
  \/ to = "CANCELLED_BY_ADMIN" /\ actor = "ADMIN"

bookingTransitions(from, to, actor) ==
  \/ from = "PENDING_PAYMENT" /\ to = "CONFIRMED" /\ actor = "PAYMENT_PROCESSOR"
  \/ from = "PENDING_PAYMENT" /\ to = "EXPIRED" /\ actor = "SYSTEM"
  \/ from \in {"PENDING_PAYMENT", "CONFIRMED"} /\ cancellations(to, actor)
  \/ from = "CONFIRMED" /\ to \in {"CHECKED_IN", "NO_SHOW"} /\ actor \in {"STAFF", "ADMIN"}
  \/ from = "CHECKED_IN" /\ to = "CHECKED_OUT" /\ actor \in {"STAFF", "ADMIN"}
  \/ from = "CHECKED_OUT" /\ to = "COMPLETED" /\ actor \in {"STAFF", "ADMIN", "SYSTEM"}

paymentTransitions(from, to, actor) ==
  /\ from \in {"PENDING", "PROCESSING"}
  /\ \/ from = "PENDING" /\ to = "PROCESSING" /\ actor = "PAYMENT_PROCESSOR"
     \/ to \in {"PAID", "FAILED"} /\ actor = "PAYMENT_PROCESSOR"
     \/ to = "SUPERSEDED" /\ actor \in {"CUSTOMER", "STAFF", "ADMIN"}
     \/ to \in {"EXPIRED", "CANCELLED"} /\ actor = "SYSTEM"

refundTransitions(from, to, actor) ==
  /\ actor = "REFUND_WORKER"
  /\ \/ from \in {"REQUESTED", "RETRYABLE_FAILED"} /\ to \in {"PROCESSING", "MANUAL_REVIEW"}
     \/ from \in {"PROCESSING", "MANUAL_REVIEW"} /\ to = "PENDING_PROVIDER"
     \/ /\ from \in {"PROCESSING", "PENDING_PROVIDER", "MANUAL_REVIEW"}
        /\ to \in {"SUCCEEDED", "RETRYABLE_FAILED"}
     \/ from \in {"PROCESSING", "PENDING_PROVIDER"} /\ to = "MANUAL_REVIEW"

(* Mutant: a guest who was given up on may still arrive.                   *)
assertBookingTransition_LateArrival(from, to, actor) ==
  \/ bookingTransitions(from, to, actor)
  \/ from = "NO_SHOW" /\ to = "CHECKED_IN" /\ actor = "STAFF"

assertBookingTransition(from, to, actor) == bookingTransitions(from, to, actor)

isTerminalBooking(state) == state \in Cancelled \cup {"COMPLETED", "EXPIRED", "NO_SHOW"}

-----------------------------------------------------------------------------
(* money.ts                                                                *)
Vnd == 0..MaxVnd

halfVnd(amount) == amount \div 2

AtLeast(a, b) == IF a >= b THEN a ELSE b

(* paymentAmounts throws on more than the total.                           *)
MayBePaid(total, paid) == total \in Vnd /\ paid \in Vnd /\ paid <= total

paymentAmounts(total, paid, option) ==
  LET required == IF option = "DEPOSIT_50" THEN halfVnd(total) ELSE total IN
  [deposit |-> halfVnd(total), required |-> required, remaining |-> total - paid,
   requiredOutstanding |-> AtLeast(required - paid, 0)]

(* refundableRemainder throws on refunds beyond what was captured.         *)
MayBeRefunded(captured, refunded, reserved) == refunded + reserved <= captured

-----------------------------------------------------------------------------
(* policies.ts                                                             *)
isDue(expiresAt, now) == now >= expiresAt

isUsableHold(state, expiresAt, now) == state = "ACTIVE" /\ ~isDue(expiresAt, now)

isBookingPaymentExpired(state, paymentDueAt, now) ==
  state = "PENDING_PAYMENT" /\ isDue(paymentDueAt, now)

(* Mutant: the deposit is enough, whatever the guest chose.                *)
mayConfirmBooking_OnDeposit(state, paymentDueAt, now, total, paid, option) ==
  /\ MayBePaid(total, paid)
  /\ state = "PENDING_PAYMENT" /\ ~isDue(paymentDueAt, now)
  /\ paid >= paymentAmounts(total, paid, option).deposit

mayConfirmBooking(state, paymentDueAt, now, total, paid, option) ==
  /\ MayBePaid(total, paid)
  /\ state = "PENDING_PAYMENT" /\ ~isDue(paymentDueAt, now)
  /\ paid >= paymentAmounts(total, paid, option).required

(* Mutant: 48 hours to the minute are not enough.                          *)
refundPercent_Strict(cause, notice) ==
  IF cause # "CUSTOMER_CANCELLATION" \/ notice > FullNotice THEN 100
  ELSE IF notice >= HalfNotice THEN 50 ELSE 0

(* refundEntitlement: the percentage, by cause and notice ...              *)
refundPercent(cause, notice) ==
  IF cause # "CUSTOMER_CANCELLATION" \/ notice >= FullNotice THEN 100
  ELSE IF notice >= HalfNotice THEN 50 ELSE 0

(* ... what it comes to ...                                                *)
refundEntitlement(cause, notice, paid) ==
  LET percent == refundPercent(cause, notice) IN
  IF percent = 100 THEN paid ELSE IF percent = 50 THEN halfVnd(paid) ELSE 0

(* Mutant: what is still under way is not counted.                         *)
outstanding_Completed(entitlement, refunded, reserved) ==
  AtLeast(entitlement - refunded, 0)

(* ... and what of it is not yet paid back or promised.                    *)
outstanding(entitlement, refunded, reserved) ==
  AtLeast((entitlement - refunded) - reserved, 0)

-----------------------------------------------------------------------------
(* The CHECK constraints of the migration.                                 *)
HoldTokenContract(h) == h.expiresAt = h.createdAt + HoldTtl

BookingPaymentContract(b) ==
  /\ b.total \in Vnd
  /\ b.deposit = b.total \div 2
  /\ b.required = IF b.option = "DEPOSIT_50" THEN b.deposit ELSE b.total
  /\ b.paid \in 0..b.total /\ b.remaining = b.total - b.paid
  /\ b.paymentDueAt = b.createdAt + BookingPaymentTtl

PaymentCaptureVnd(c) ==
  /\ c.amount \in Vnd \ {0} /\ c.applied \in 0..c.amount
  /\ c.disposition = "APPLIED" \/ c.applied = 0

CauseFits(cause, actorType) ==
  /\ cause = "OPERATOR_CANCELLATION" => actorType \in {"STAFF", "ADMIN"}
  /\ cause = "BOOKING_EXPIRY" => actorType = "SYSTEM"

BookingCancellationPolicy(d) ==
  /\ d.paidBasis \in Vnd
  /\ d.percent = IF d.cause # "CUSTOMER_CANCELLATION" THEN 100
                 ELSE IF d.checkInAt - d.cancelledAt >= FullNotice THEN 100
                 ELSE IF d.checkInAt - d.cancelledAt >= HalfNotice THEN 50 ELSE 0
  /\ d.entitlement = (d.paidBasis * d.percent) \div 100
  /\ CauseFits(d.cause, d.actorType)

RefundVnd(r) == r.amount \in Vnd \ {0}
=============================================================================
