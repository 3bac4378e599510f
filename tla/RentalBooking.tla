---------------------------- MODULE RentalBooking ----------------------------
(***************************************************************************)
(* One stay under the contracts of RentalContracts, from its hold to the   *)
(* last refund. No service calls the contracts yet, so this is a caller    *)
(* that does whatever they let it do: each action is one transaction, its  *)
(* guard is what the contract functions it calls do not throw on and the   *)
(* unique indexes of the migration do not reject, its rows are what the    *)
(* functions return, and the rest, amounts, actors, causes and order, is   *)
(* open. Attempts live side by side but for those of VNPAY, money may be   *)
(* applied, in part, to a booking that is closed, and the decision on the  *)
(* money is written at any time, whatever becomes of the booking.          *)
(*                                                                         *)
(* What is asked of the caller is that it passes the functions the facts   *)
(* they name: the rows as they are when it writes, the present time, the   *)
(* amount paid and the refunds that stand. And it calls them: a deadline,  *)
(* a confirmation, an application of money or a refund goes through its    *)
(* function, and money is applied by the step that makes its attempt PAID. *)
(***************************************************************************)
EXTENDS RentalContracts, FiniteSets, Functions

CONSTANTS
  Attempts,   \* keys of Payment rows
  Captures,   \* economic transactions of the provider
  Totals,     \* bound: what a stay costs
  CheckIns,   \* bound: instants of check-in
  MaxTime,    \* bound: the last instant
  Taken,      \* bound: what the provider captures at once
  None        \* no row

ASSUME BookingAssumption ==
  /\ IsFiniteSet(Captures) /\ MaxTime \in Nat /\ Taken \subseteq Vnd \ {0}
  /\ Totals \subseteq Vnd /\ CheckIns \subseteq Nat

VARIABLES
  now,        \* the clock of the database
  hold,
  booking,
  attempt,
  capture,    \* PaymentCapture rows
  decision,   \* the BookingCancellation row
  refund      \* Refund rows, by capture and reason

vars == <<now, hold, booking, attempt, capture, decision, refund>>

Stored == {x \in Captures \X RefundCause : refund[x] # None}

SumOf(S) == SumFunctionOnSet([x \in S |-> refund[x].amount], S)

(* The amount is outstanding of an entitlement, after what these           *)
(* obligations paid back and what they have under way.                     *)
Fits(amount, entitlement, paid, S) ==
  LET refunded == SumOf({x \in S : refund[x].state = "SUCCEEDED"})
      reserved == SumOf({x \in S : refund[x].state # "SUCCEEDED"}) IN
  /\ MayBeRefunded(paid, refunded, reserved)
  /\ amount <= outstanding(entitlement, refunded, reserved)

Provider == {"VNPAY", "OTHER"}

(* Payment_one_live_vnpay_attempt_key counts this attempt. All attempts of *)
(* the new lifecycle have a purpose.                                       *)
IsLive(p) ==
  /\ attempt[p] # None /\ attempt[p].provider = "VNPAY"
  /\ attempt[p].state \in {"PENDING", "PROCESSING"}

OfCapture(c) == {x \in Stored : x[1] = c}
OfDecision == {x \in Stored : decision # None /\ x[2] = decision.cause}

Init ==
  /\ now = 0
  /\ hold = [state |-> "ACTIVE", createdAt |-> 0, expiresAt |-> HoldTtl]
  /\ booking = None
  /\ attempt = [p \in Attempts |-> None]
  /\ capture = [c \in Captures |-> None]
  /\ decision = None
  /\ refund = [x \in Captures \X RefundCause |-> None]

Tick ==
  /\ now < MaxTime /\ now' = now + 1
  /\ UNCHANGED <<hold, booking, attempt, capture, decision, refund>>

-----------------------------------------------------------------------------
(* Mutant: the hold stays active beside the booking made of it.            *)
Convert_HoldStays(actor, total, option, checkInAt) ==
  LET amounts == paymentAmounts(total, 0, option) IN
  /\ isUsableHold(hold.state, hold.expiresAt, now)
  /\ holdTransitions(hold.state, "CONVERTED", actor) /\ MayBePaid(total, 0)
  /\ booking' = [state |-> "PENDING_PAYMENT", option |-> option, total |-> total,
                 deposit |-> amounts.deposit, required |-> amounts.required,
                 paid |-> 0, remaining |-> amounts.remaining, createdAt |-> now,
                 paymentDueAt |-> now + BookingPaymentTtl, checkInAt |-> checkInAt]
  /\ UNCHANGED <<now, hold, attempt, capture, decision, refund>>

(* A hold that is active and not due becomes a booking.                    *)
Convert(actor, total, option, checkInAt) ==
  LET amounts == paymentAmounts(total, 0, option) IN
  /\ isUsableHold(hold.state, hold.expiresAt, now)
  /\ holdTransitions(hold.state, "CONVERTED", actor) /\ MayBePaid(total, 0)
  /\ hold' = [hold EXCEPT !.state = "CONVERTED"]
  /\ booking' = [state |-> "PENDING_PAYMENT", option |-> option, total |-> total,
                 deposit |-> amounts.deposit, required |-> amounts.required,
                 paid |-> 0, remaining |-> amounts.remaining, createdAt |-> now,
                 paymentDueAt |-> now + BookingPaymentTtl, checkInAt |-> checkInAt]
  /\ UNCHANGED <<now, attempt, capture, decision, refund>>

CloseHold(to, actor) ==
  /\ to # "CONVERTED" /\ holdTransitions(hold.state, to, actor)
  /\ to = "EXPIRED" => isDue(hold.expiresAt, now)
  /\ hold' = [hold EXCEPT !.state = to]
  /\ UNCHANGED <<now, booking, attempt, capture, decision, refund>>

-----------------------------------------------------------------------------
(* An attempt at any time, of any amount, which no function reads again.   *)
OpenAttempt(p, provider) ==
  /\ booking # None /\ attempt[p] = None
  /\ provider = "VNPAY" => \A q \in Attempts : ~IsLive(q)
  /\ attempt' = [attempt EXCEPT ![p] = [state |-> "PENDING", provider |-> provider]]
  /\ UNCHANGED <<now, hold, booking, capture, decision, refund>>

MoveAttempt(p, to, actor) ==
  /\ attempt[p] # None /\ to # "PAID" /\ paymentTransitions(attempt[p].state, to, actor)
  /\ attempt' = [attempt EXCEPT ![p].state = to]
  /\ UNCHANGED <<now, hold, booking, capture, decision, refund>>

(* The provider took money for an attempt that is still live, and all of   *)
(* it, a part or nothing counts for the booking.                           *)
Apply(c, p, amount, applied) ==
  LET paid == booking.paid + applied
      amounts == paymentAmounts(booking.total, paid, booking.option) IN
  /\ capture[c] = None /\ attempt[p] # None /\ applied <= amount
  /\ paymentTransitions(attempt[p].state, "PAID", "PAYMENT_PROCESSOR")
  /\ MayBePaid(booking.total, paid)
  /\ capture' = [capture EXCEPT ![c] = [payment |-> p, amount |-> amount,
       applied |-> applied, disposition |-> "APPLIED"]]
  /\ attempt' = [attempt EXCEPT ![p].state = "PAID"]
  /\ booking' = [booking EXCEPT !.paid = paid, !.remaining = amounts.remaining]
  /\ UNCHANGED <<now, hold, decision, refund>>

(* Or it is recorded to be returned, whatever has become of the attempt.   *)
Decline(c, p, amount) ==
  /\ capture[c] = None /\ attempt[p] # None
  /\ capture' = [capture EXCEPT ![c] = [payment |-> p, amount |-> amount,
       applied |-> 0, disposition |-> "REFUND_REQUIRED"]]
  /\ UNCHANGED <<now, hold, booking, attempt, decision, refund>>

-----------------------------------------------------------------------------
Confirm ==
  /\ booking # None
  /\ mayConfirmBooking(booking.state, booking.paymentDueAt, now, booking.total,
                       booking.paid, booking.option)
  /\ assertBookingTransition(booking.state, "CONFIRMED", "PAYMENT_PROCESSOR")
  /\ booking' = [booking EXCEPT !.state = "CONFIRMED"]
  /\ UNCHANGED <<now, hold, attempt, capture, decision, refund>>

Expire ==
  /\ booking # None /\ isBookingPaymentExpired(booking.state, booking.paymentDueAt, now)
  /\ assertBookingTransition(booking.state, "EXPIRED", "SYSTEM")
  /\ booking' = [booking EXCEPT !.state = "EXPIRED"]
  /\ UNCHANGED <<now, hold, attempt, capture, decision, refund>>

Move(to, actor) ==
  /\ booking # None /\ to \notin {"CONFIRMED", "EXPIRED"}
  /\ assertBookingTransition(booking.state, to, actor)
  /\ booking' = [booking EXCEPT !.state = to]
  /\ UNCHANGED <<now, hold, attempt, capture, decision, refund>>

(* The decision on the money, taken once, on what is paid at this instant. *)
(* Staff may cancel for the guest or for the house; a guest only for       *)
(* themselves.                                                             *)
Decide(cause, actor) ==
  LET notice == booking.checkInAt - now IN
  /\ booking # None /\ decision = None
  /\ actor \in CancellationActor /\ CauseFits(cause, actor)
  /\ decision' = [cause |-> cause, actorType |-> actor, cancelledAt |-> now,
                  checkInAt |-> booking.checkInAt, paidBasis |-> booking.paid,
                  percent |-> refundPercent(cause, notice),
                  entitlement |-> refundEntitlement(cause, notice, booking.paid)]
  /\ UNCHANGED <<now, hold, booking, attempt, capture, refund>>

-----------------------------------------------------------------------------
(* An obligation to return part of a capture. One for a cancellation needs *)
(* the decision, and money outstanding of what was decided.                *)
Oblige(c, reason, amount) ==
  /\ capture[c] # None /\ refund[<<c, reason>>] = None
  /\ reason \in CancellationCause =>
       /\ decision # None /\ reason = decision.cause
       /\ Fits(amount, decision.entitlement, decision.paidBasis, OfDecision)
  /\ Fits(amount, capture[c].amount, capture[c].amount, OfCapture(c))
  /\ refund' = [refund EXCEPT ![<<c, reason>>] = [state |-> "REQUESTED", amount |-> amount]]
  /\ UNCHANGED <<now, hold, booking, attempt, capture, decision>>

MoveRefund(x, to) ==
  /\ refund[x] # None /\ refundTransitions(refund[x].state, to, "REFUND_WORKER")
  /\ refund' = [refund EXCEPT ![x].state = to]
  /\ UNCHANGED <<now, hold, booking, attempt, capture, decision>>

Next ==
  \/ Tick \/ Confirm \/ Expire
  \/ \E actor \in DomainActor :
       \/ \E total \in Totals, option \in {"DEPOSIT_50", "FULL_100"}, checkInAt \in CheckIns :
            Convert(actor, total, option, checkInAt)
       \/ \E to \in HoldState : CloseHold(to, actor)
       \/ \E p \in Attempts, to \in PaymentAttemptState : MoveAttempt(p, to, actor)
       \/ \E to \in BookingState : Move(to, actor)
       \/ \E cause \in CancellationCause : Decide(cause, actor)
  \/ \E p \in Attempts, provider \in Provider : OpenAttempt(p, provider)
  \/ \E c \in Captures, p \in Attempts, amount \in Taken :
       Decline(c, p, amount) \/ \E applied \in Vnd : Apply(c, p, amount, applied)
  \/ \E c \in Captures, reason \in RefundCause, amount \in Vnd \ {0} :
       Oblige(c, reason, amount)
  \/ \E x \in Captures \X RefundCause, to \in RefundState : MoveRefund(x, to)

Spec == Init /\ [][Next]_vars

-----------------------------------------------------------------------------
HoldRow == [state: HoldState, createdAt: Nat, expiresAt: Nat]

BookingRow ==
  [state: BookingState, option: {"DEPOSIT_50", "FULL_100"}, total: Vnd, deposit: Vnd,
   required: Vnd, paid: Vnd, remaining: Vnd, createdAt: Nat, paymentDueAt: Nat,
   checkInAt: Nat]

AttemptRow == [state: PaymentAttemptState, provider: Provider]

CaptureRow == [payment: Attempts, amount: Vnd, applied: Vnd,
               disposition: {"APPLIED", "REFUND_REQUIRED"}]

DecisionRow == [cause: CancellationCause, actorType: CancellationActor, cancelledAt: Nat,
                checkInAt: Nat, paidBasis: Vnd, percent: {0, 50, 100}, entitlement: Vnd]

RefundRow == [state: RefundState, amount: Vnd]

ASSUME NoneAssumption ==
  None \notin BookingRow \cup AttemptRow \cup CaptureRow \cup DecisionRow \cup RefundRow

(* Types; there is a booking once the hold is converted.                   *)
TypeOK ==
  /\ now \in Nat
  /\ hold \in HoldRow
  /\ booking \in BookingRow \cup {None}
  /\ attempt \in [Attempts -> AttemptRow \cup {None}]
  /\ capture \in [Captures -> CaptureRow \cup {None}]
  /\ decision \in DecisionRow \cup {None}
  /\ refund \in [Captures \X RefundCause -> RefundRow \cup {None}]
  /\ booking = None <=> hold.state # "CONVERTED"

(* The database accepts every row the contracts compute: the two           *)
(* statements of the rules, TypeScript and SQL, agree on deposits and      *)
(* remainders, on the boundaries of the refund tiers and on rounding, and  *)
(* no attempt is applied twice.                                            *)
SchemaAccepts ==
  /\ HoldTokenContract(hold)
  /\ booking # None => BookingPaymentContract(booking)
  /\ \A c \in Captures : capture[c] # None => PaymentCaptureVnd(capture[c])
  /\ decision # None => BookingCancellationPolicy(decision)
  /\ \A x \in Stored : RefundVnd(refund[x])
  /\ \A c, d \in Captures : capture[c] # None /\ capture[d] # None
       /\ capture[c].payment = capture[d].payment
       /\ capture[c].applied > 0 /\ capture[d].applied > 0 => c = d

(* The room is the guest's only against the money the guest chose to pay,  *)
(* however attempts fail, are replaced or are paid late.                   *)
RoomIsFunded ==
  booking # None /\ booking.state \in {"CONFIRMED", "CHECKED_IN", "CHECKED_OUT", "COMPLETED", "NO_SHOW"}
    => booking.paid >= booking.required

(* Refunds, promised or paid, never exceed the capture they come from, nor *)
(* all together the entitlement that was decided, whatever is retried.     *)
RefundsAreCovered ==
  /\ \A c \in Captures : capture[c] # None => SumOf(OfCapture(c)) <= capture[c].amount
  /\ decision # None => SumOf(OfDecision) <= decision.entitlement

(* What isTerminalBooking calls terminal is what the trigger freezes, and  *)
(* no one's edge leads out of it.                                          *)
TerminalIsFinal ==
  [][booking # None /\ (isTerminalBooking(booking.state) \/ booking.state \in Frozen)
     => booking'.state = booking.state]_booking
=============================================================================
