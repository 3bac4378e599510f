------------------------- MODULE RentalBookingProofs -------------------------
(***************************************************************************)
(* Proofs about RentalBooking, for every number of attempts, captures and  *)
(* instants, every price and every deadline. The invariant adds to the     *)
(* properties which rows stand behind which: money that was applied came   *)
(* from an attempt that is PAID, and a refund belongs to a capture and, if *)
(* a cancellation is its reason, to the decision.                          *)
(***************************************************************************)
EXTENDS RentalBooking, FiniteSums

AttemptsOfBooking == \A p \in Attempts : attempt[p] # None => booking # None

CapturesOfAttempts ==
  \A c \in Captures : capture[c] # None =>
    /\ attempt[capture[c].payment] # None
    /\ capture[c].applied > 0 => attempt[capture[c].payment].state = "PAID"

RefundsOfCaptures ==
  \A x \in Captures \X RefundCause : refund[x] # None =>
    /\ capture[x[1]] # None
    /\ x[2] \in CancellationCause => decision # None /\ x[2] = decision.cause

IInv ==
  /\ TypeOK /\ SchemaAccepts
  /\ AttemptsOfBooking /\ CapturesOfAttempts /\ RefundsOfCaptures /\ RoomIsFunded

USE DEF vars

-----------------------------------------------------------------------------
(* The contracts.                                                          *)

LEMMA HalfFits ==
  ASSUME NEW n \in Vnd
  PROVE  halfVnd(n) \in Vnd /\ halfVnd(n) = n \div 2
BY RentalAssumption DEF Vnd, halfVnd

(* What is recorded of a price and what was paid of it.                    *)
LEMMA AmountsOfBooking ==
  ASSUME NEW total \in Vnd, NEW paid \in Vnd, paid <= total,
         NEW option \in {"DEPOSIT_50", "FULL_100"}
  PROVE  LET a == paymentAmounts(total, paid, option) IN
         /\ a.deposit = total \div 2 /\ a.deposit \in Vnd
         /\ a.required = (IF option = "DEPOSIT_50" THEN a.deposit ELSE total)
         /\ a.required \in Vnd
         /\ a.remaining = total - paid /\ a.remaining \in Vnd
<1>1. halfVnd(total) \in Vnd /\ halfVnd(total) = total \div 2
  BY HalfFits
<1>2. total - paid \in Vnd
  BY RentalAssumption DEF Vnd
<1>3. QED
  BY <1>1, <1>2 DEF paymentAmounts

(* TypeScript computes what SQL checks.                                    *)
LEMMA DecisionFits ==
  ASSUME NEW cause \in CancellationCause, NEW notice \in Int, NEW paid \in Vnd
  PROVE  LET percent == refundPercent(cause, notice)
             entitlement == refundEntitlement(cause, notice, paid) IN
         /\ percent \in {0, 50, 100}
         /\ percent = IF cause # "CUSTOMER_CANCELLATION" THEN 100
                      ELSE IF notice >= FullNotice THEN 100
                      ELSE IF notice >= HalfNotice THEN 50 ELSE 0
         /\ entitlement \in 0..paid
         /\ entitlement = (paid * percent) \div 100
<1> DEFINE percent == refundPercent(cause, notice)
<1>1. percent \in {0, 50, 100}
  BY DEF refundPercent
<1>2. percent = IF cause # "CUSTOMER_CANCELLATION" THEN 100
                ELSE IF notice >= FullNotice THEN 100
                ELSE IF notice >= HalfNotice THEN 50 ELSE 0
  BY DEF refundPercent
<1>3. paid \in Nat /\ (paid * 100) \div 100 = paid /\ (paid * 50) \div 100 = paid \div 2
      /\ (paid * 0) \div 100 = 0 /\ paid \div 2 \in 0..paid
  BY RentalAssumption DEF Vnd
<1>4. refundEntitlement(cause, notice, paid) =
        IF percent = 100 THEN paid ELSE IF percent = 50 THEN paid \div 2 ELSE 0
  BY DEF refundEntitlement, halfVnd
<1> HIDE DEF percent
<1>5. refundEntitlement(cause, notice, paid) \in 0..paid
  BY <1>1, <1>3, <1>4
<1>6. refundEntitlement(cause, notice, paid) = (paid * percent) \div 100
  BY <1>1, <1>3, <1>4
<1>7. QED
  BY <1>1, <1>2, <1>5, <1>6 DEF percent

(* No edge leads out of a terminal state, and every edge stays in the      *)
(* states of a booking.                                                    *)
LEMMA EdgesLeaveOpenStates ==
  ASSUME NEW from, NEW to \in BookingState, NEW actor,
         assertBookingTransition(from, to, actor)
  PROVE  /\ ~ isTerminalBooking(from) /\ from \notin Frozen
         /\ from \in {"PENDING_PAYMENT", "CONFIRMED", "CHECKED_IN", "CHECKED_OUT"}
         /\ to \in Cancelled \cup {"EXPIRED"} => from \in {"PENDING_PAYMENT", "CONFIRMED"}
BY DEF assertBookingTransition, bookingTransitions, cancellations, isTerminalBooking, Frozen,
       Cancelled
-----------------------------------------------------------------------------
(* What the invariant says of the rows that are there.                     *)

LEMMA BookingIsSound ==
  ASSUME IInv, booking # None
  PROVE  /\ booking \in BookingRow /\ BookingPaymentContract(booking)
         /\ booking.paid \in Nat /\ booking.total \in Nat /\ booking.paid <= booking.total
         /\ hold.state = "CONVERTED"
BY RentalAssumption DEF IInv, TypeOK, SchemaAccepts, BookingPaymentContract, BookingRow, Vnd

-----------------------------------------------------------------------------
(* One lemma for each action.                                              *)

LEMMA TickStep == ASSUME IInv, Tick PROVE IInv'
<1>1. UNCHANGED <<hold, booking, attempt, capture, decision, refund>> /\ now' \in Nat
  BY DEF Tick, IInv, TypeOK
<1>2. TypeOK' /\ SchemaAccepts'
  BY <1>1 DEF IInv, TypeOK, SchemaAccepts, Stored
<1>3. QED
  BY <1>1, <1>2 DEF IInv, AttemptsOfBooking, CapturesOfAttempts, RefundsOfCaptures, RoomIsFunded

LEMMA ConvertStep ==
  ASSUME IInv, NEW actor \in DomainActor, NEW total \in Totals,
         NEW option \in {"DEPOSIT_50", "FULL_100"}, NEW checkInAt \in CheckIns,
         Convert(actor, total, option, checkInAt)
  PROVE  IInv'
<1> DEFINE amounts == paymentAmounts(total, 0, option)
<1>1. total \in Vnd /\ checkInAt \in Nat /\ 0 \in Vnd /\ 0 <= total
  BY BookingAssumption, RentalAssumption DEF Vnd
<1>2. /\ amounts.deposit = total \div 2 /\ amounts.deposit \in Vnd
      /\ amounts.required = (IF option = "DEPOSIT_50" THEN amounts.deposit ELSE total)
      /\ amounts.required \in Vnd /\ amounts.remaining = total /\ amounts.remaining \in Vnd
  BY <1>1, AmountsOfBooking DEF Vnd
<1> DEFINE row == [state |-> "PENDING_PAYMENT", option |-> option, total |-> total,
                   deposit |-> amounts.deposit, required |-> amounts.required,
                   paid |-> 0, remaining |-> amounts.remaining, createdAt |-> now,
                   paymentDueAt |-> now + BookingPaymentTtl, checkInAt |-> checkInAt]
<1>3. /\ booking' = row /\ hold' = [hold EXCEPT !.state = "CONVERTED"]
      /\ hold.state = "ACTIVE"
      /\ UNCHANGED <<now, attempt, capture, decision, refund>>
  BY DEF Convert, isUsableHold
<1>4. "PENDING_PAYMENT" \in BookingState
  BY DEF BookingState, Status
<1> HIDE DEF amounts
<1>5. row \in BookingRow /\ BookingPaymentContract(row)
  <2>1. now \in Nat /\ now + BookingPaymentTtl \in Nat
    BY RentalAssumption DEF IInv, TypeOK
  <2>2. row \in BookingRow
    BY <1>1, <1>2, <1>4, <2>1 DEF BookingRow
  <2>3. BookingPaymentContract(row)
    BY <1>1, <1>2, <2>1 DEF BookingPaymentContract, Vnd
  <2>4. QED
    BY <2>2, <2>3
<1>6. booking = None
  BY <1>3 DEF IInv, TypeOK
<1>7. \A p \in Attempts : attempt[p] = None
  BY <1>6 DEF IInv, AttemptsOfBooking
<1>8. row # None
  BY <1>5, NoneAssumption
<1>9. hold' \in HoldRow /\ hold'.state = "CONVERTED" /\ HoldTokenContract(hold')
  BY <1>3 DEF IInv, TypeOK, SchemaAccepts, HoldTokenContract, HoldRow, HoldState
<1>10. booking' \in BookingRow /\ booking' # None /\ BookingPaymentContract(booking')
       /\ booking'.state = "PENDING_PAYMENT"
  BY <1>3, <1>5, <1>8
<1> HIDE DEF row
<1>11. TypeOK'
  BY <1>3, <1>9, <1>10 DEF IInv, TypeOK
<1>12. SchemaAccepts'
  BY <1>3, <1>9, <1>10 DEF IInv, SchemaAccepts, Stored
<1>13. AttemptsOfBooking' /\ CapturesOfAttempts' /\ RefundsOfCaptures'
  BY <1>3, <1>7 DEF IInv, AttemptsOfBooking, CapturesOfAttempts, RefundsOfCaptures
<1>14. RoomIsFunded'
  BY <1>10 DEF RoomIsFunded
<1>15. QED
  BY <1>11, <1>12, <1>13, <1>14 DEF IInv

LEMMA CloseHoldStep ==
  ASSUME IInv, NEW to \in HoldState, NEW actor \in DomainActor, CloseHold(to, actor)
  PROVE  IInv'
<1>1. /\ hold' = [hold EXCEPT !.state = to] /\ to # "CONVERTED" /\ hold.state = "ACTIVE"
      /\ UNCHANGED <<now, booking, attempt, capture, decision, refund>>
  BY DEF CloseHold, holdTransitions
<1>2. hold' \in HoldRow /\ hold'.state # "CONVERTED" /\ HoldTokenContract(hold')
  BY <1>1 DEF IInv, TypeOK, SchemaAccepts, HoldTokenContract, HoldRow
<1>3. TypeOK'
  BY <1>1, <1>2 DEF IInv, TypeOK
<1>4. SchemaAccepts'
  BY <1>1, <1>2 DEF IInv, SchemaAccepts, Stored
<1>5. QED
  BY <1>1, <1>3, <1>4 DEF IInv, AttemptsOfBooking, CapturesOfAttempts, RefundsOfCaptures,
                          RoomIsFunded

LEMMA OpenAttemptStep ==
  ASSUME IInv, NEW p \in Attempts, NEW provider \in Provider, OpenAttempt(p, provider)
  PROVE  IInv'
<1> DEFINE row == [state |-> "PENDING", provider |-> provider]
<1>1. /\ booking # None /\ attempt[p] = None
      /\ attempt' = [attempt EXCEPT ![p] = row]
      /\ UNCHANGED <<now, hold, booking, capture, decision, refund>>
  BY DEF OpenAttempt
<1>2. row \in AttemptRow /\ row # None
  BY NoneAssumption DEF AttemptRow, PaymentAttemptState
<1>3. attempt' \in [Attempts -> AttemptRow \cup {None}] /\ attempt'[p] = row
      /\ \A q \in Attempts \ {p} : attempt'[q] = attempt[q]
  BY <1>1, <1>2 DEF IInv, TypeOK
<1>4. TypeOK'
  BY <1>1, <1>3 DEF IInv, TypeOK
<1>5. SchemaAccepts'
  BY <1>1 DEF IInv, SchemaAccepts, Stored
<1>6. AttemptsOfBooking' /\ RefundsOfCaptures'
  BY <1>1, <1>3 DEF IInv, AttemptsOfBooking, RefundsOfCaptures
<1>7. CapturesOfAttempts'
  BY <1>1, <1>2, <1>3 DEF IInv, TypeOK, CapturesOfAttempts, CaptureRow
<1>8. QED
  BY <1>1, <1>4, <1>5, <1>6, <1>7 DEF IInv, RoomIsFunded

LEMMA MoveAttemptStep ==
  ASSUME IInv, NEW p \in Attempts, NEW to \in PaymentAttemptState, NEW actor \in DomainActor,
         MoveAttempt(p, to, actor)
  PROVE  IInv'
<1>1. /\ attempt[p] # None /\ attempt[p].state # "PAID"
      /\ attempt' = [attempt EXCEPT ![p].state = to]
      /\ UNCHANGED <<now, hold, booking, capture, decision, refund>>
  BY DEF MoveAttempt, paymentTransitions
<1>2. attempt[p] \in AttemptRow
  BY <1>1 DEF IInv, TypeOK
<1>3. /\ attempt'[p] # None
      /\ \A q \in Attempts \ {p} : attempt'[q] = attempt[q]
      /\ attempt' \in [Attempts -> AttemptRow \cup {None}]
  <2>1. [attempt[p] EXCEPT !.state = to] \in AttemptRow
    BY <1>2 DEF AttemptRow
  <2>2. /\ attempt'[p] = [attempt[p] EXCEPT !.state = to]
        /\ \A q \in Attempts \ {p} : attempt'[q] = attempt[q]
        /\ attempt' \in [Attempts -> AttemptRow \cup {None}]
    BY <1>1, <2>1 DEF IInv, TypeOK
  <2>3. QED
    BY <2>1, <2>2, NoneAssumption
<1>4. TypeOK'
  BY <1>1, <1>3 DEF IInv, TypeOK
<1>5. SchemaAccepts'
  BY <1>1 DEF IInv, SchemaAccepts, Stored
<1>6. AttemptsOfBooking' /\ RefundsOfCaptures'
  BY <1>1, <1>3 DEF IInv, AttemptsOfBooking, RefundsOfCaptures
<1>7. CapturesOfAttempts'
  BY <1>1, <1>3 DEF IInv, TypeOK, CapturesOfAttempts, CaptureRow
<1>8. QED
  BY <1>1, <1>4, <1>5, <1>6, <1>7 DEF IInv, RoomIsFunded

LEMMA DeclineStep ==
  ASSUME IInv, NEW c \in Captures, NEW p \in Attempts, NEW amount \in Taken,
         Decline(c, p, amount)
  PROVE  IInv' /\ capture'[c] # None
<1> DEFINE row == [payment |-> p, amount |-> amount, applied |-> 0,
                   disposition |-> "REFUND_REQUIRED"]
<1>1. /\ capture[c] = None /\ attempt[p] # None
      /\ capture' = [capture EXCEPT ![c] = row]
      /\ UNCHANGED <<now, hold, booking, attempt, decision, refund>>
  BY DEF Decline
<1>2. amount \in Vnd \ {0} /\ 0 \in Vnd
  BY BookingAssumption, RentalAssumption DEF Vnd
<1>3. row \in CaptureRow /\ row # None
  BY <1>2, NoneAssumption DEF CaptureRow
<1>4. PaymentCaptureVnd(row)
  BY <1>2 DEF PaymentCaptureVnd, Vnd
<1>5. /\ capture'[c] = row /\ \A d \in Captures \ {c} : capture'[d] = capture[d]
      /\ capture' \in [Captures -> CaptureRow \cup {None}]
  BY <1>1, <1>3 DEF IInv, TypeOK
<1>6. TypeOK'
  BY <1>1, <1>5 DEF IInv, TypeOK
<1>7. row.applied = 0 /\ row.payment = p
  OBVIOUS
<1>8. ~ (row.applied > 0)
  OBVIOUS
<1> HIDE DEF row
<1>9. SchemaAccepts'
  <2>1. \A d \in Captures : capture'[d] # None => PaymentCaptureVnd(capture'[d])
    BY <1>4, <1>5 DEF IInv, SchemaAccepts
  <2>2. \A d, e \in Captures : capture'[d] # None /\ capture'[e] # None
          /\ capture'[d].payment = capture'[e].payment
          /\ capture'[d].applied > 0 /\ capture'[e].applied > 0 => d = e
    BY <1>5, <1>8 DEF IInv, SchemaAccepts
  <2>3. QED
    BY <1>1, <2>1, <2>2 DEF IInv, SchemaAccepts, Stored
<1>10. CapturesOfAttempts'
  BY <1>1, <1>5, <1>7, <1>8 DEF IInv, CapturesOfAttempts
<1>11. RefundsOfCaptures'
  BY <1>1, <1>3, <1>5 DEF IInv, RefundsOfCaptures
<1>12. QED
  BY <1>1, <1>3, <1>5, <1>6, <1>9, <1>10, <1>11 DEF IInv, RoomIsFunded, AttemptsOfBooking

LEMMA ApplyStep ==
  ASSUME IInv, NEW c \in Captures, NEW p \in Attempts, NEW amount \in Taken,
         NEW applied \in Vnd, Apply(c, p, amount, applied)
  PROVE  IInv' /\ capture'[c] # None
<1> DEFINE paid == booking.paid + applied
           row == [payment |-> p, amount |-> amount, applied |-> applied,
                   disposition |-> "APPLIED"]
<1>1. /\ capture[c] = None /\ attempt[p] # None
      /\ MayBePaid(booking.total, paid) /\ applied <= amount
      /\ attempt[p].state # "PAID"
      /\ capture' = [capture EXCEPT ![c] = row]
      /\ attempt' = [attempt EXCEPT ![p].state = "PAID"]
      /\ booking' = [booking EXCEPT !.paid = paid,
            !.remaining = paymentAmounts(booking.total, paid, booking.option).remaining]
      /\ UNCHANGED <<now, hold, decision, refund>>
  BY DEF Apply, paymentTransitions
<1>2. booking # None /\ attempt[p] \in AttemptRow
  BY <1>1 DEF IInv, TypeOK, AttemptsOfBooking
<1>3. booking \in BookingRow /\ BookingPaymentContract(booking)
  BY <1>2, BookingIsSound
<1>4. amount \in Vnd \ {0} /\ applied \in 0..amount
  BY <1>1, BookingAssumption, RentalAssumption DEF Vnd
<1>5. /\ paid \in Vnd /\ paid <= booking.total /\ booking.total \in Vnd
      /\ booking.total \in Nat /\ paid \in Nat /\ booking.paid <= paid
  BY <1>1, <1>3, <1>4, RentalAssumption DEF MayBePaid, BookingRow, Vnd
<1>6. /\ paymentAmounts(booking.total, paid, booking.option).remaining = booking.total - paid
      /\ booking.total - paid \in Vnd
  BY <1>3, <1>5, AmountsOfBooking DEF BookingRow
<1> HIDE DEF paid
<1>7. booking' = [booking EXCEPT !.paid = paid, !.remaining = booking.total - paid]
  BY <1>1, <1>6
<1>8. /\ booking' \in BookingRow /\ booking' # None /\ booking'.paid = paid
      /\ booking'.total = booking.total /\ booking'.required = booking.required
      /\ booking'.state = booking.state
  BY <1>3, <1>5, <1>6, <1>7, NoneAssumption DEF BookingRow
<1>9. BookingPaymentContract(booking')
  BY <1>3, <1>5, <1>6, <1>7 DEF BookingPaymentContract, BookingRow
<1>10. row \in CaptureRow /\ row # None /\ PaymentCaptureVnd(row) /\ row.payment = p
  <2>1. row \in CaptureRow
    BY <1>4 DEF CaptureRow
  <2>2. QED
    BY <1>4, <2>1, NoneAssumption DEF PaymentCaptureVnd
<1> HIDE DEF row
<1>11. /\ capture'[c] = row /\ \A d \in Captures \ {c} : capture'[d] = capture[d]
       /\ capture' \in [Captures -> CaptureRow \cup {None}]
  BY <1>1, <1>10 DEF IInv, TypeOK
<1>12. /\ attempt'[p] # None /\ attempt'[p].state = "PAID"
       /\ \A q \in Attempts \ {p} : attempt'[q] = attempt[q]
       /\ attempt' \in [Attempts -> AttemptRow \cup {None}]
  <2>1. [attempt[p] EXCEPT !.state = "PAID"] \in AttemptRow
    BY <1>2 DEF AttemptRow, PaymentAttemptState
  <2>2. /\ attempt'[p] = [attempt[p] EXCEPT !.state = "PAID"]
        /\ \A q \in Attempts \ {p} : attempt'[q] = attempt[q]
        /\ attempt' \in [Attempts -> AttemptRow \cup {None}]
    BY <1>1, <2>1 DEF IInv, TypeOK
  <2>3. QED
    BY <1>2, <2>1, <2>2, NoneAssumption DEF AttemptRow
<1>13. TypeOK'
  BY <1>1, <1>2, <1>8, <1>11, <1>12 DEF IInv, TypeOK
<1>14. \A d \in Captures : capture[d] # None /\ capture[d].applied > 0 => capture[d].payment # p
  BY <1>1 DEF IInv, CapturesOfAttempts
<1>15. SchemaAccepts'
  <2>1. \A d \in Captures : capture'[d] # None => PaymentCaptureVnd(capture'[d])
    BY <1>10, <1>11 DEF IInv, SchemaAccepts
  <2>2. \A d, e \in Captures : capture'[d] # None /\ capture'[e] # None
          /\ capture'[d].payment = capture'[e].payment
          /\ capture'[d].applied > 0 /\ capture'[e].applied > 0 => d = e
    BY <1>10, <1>11, <1>14 DEF IInv, SchemaAccepts
  <2>3. QED
    BY <1>1, <1>8, <1>9, <2>1, <2>2 DEF IInv, SchemaAccepts, Stored
<1>16. CapturesOfAttempts'
  BY <1>1, <1>10, <1>11, <1>12 DEF IInv, TypeOK, CapturesOfAttempts, CaptureRow
<1>17. AttemptsOfBooking' /\ RefundsOfCaptures'
  BY <1>1, <1>8, <1>10, <1>11 DEF IInv, AttemptsOfBooking, RefundsOfCaptures
<1>18. RoomIsFunded'
  <2>1. booking.paid >= booking.required => paid >= booking.required
    BY <1>3, <1>5 DEF BookingRow, Vnd
  <2>2. QED
    BY <1>2, <1>8, <2>1 DEF IInv, RoomIsFunded
<1>19. QED
  BY <1>10, <1>11, <1>13, <1>15, <1>16, <1>17, <1>18 DEF IInv

(* A booking that only changes its state keeps its terms and its money,    *)
(* and the rooms that must be funded are.                                  *)
LEMMA StateStep ==
  ASSUME IInv, booking # None, NEW to \in BookingState, NEW actor,
         assertBookingTransition(booking.state, to, actor),
         booking' = [booking EXCEPT !.state = to],
         to = "CONFIRMED" => booking.paid >= booking.required,
         UNCHANGED <<now, hold, attempt, capture, decision, refund>>
  PROVE  IInv'
<1>1. booking \in BookingRow /\ BookingPaymentContract(booking) /\ hold.state = "CONVERTED"
  BY BookingIsSound
<1>2. /\ booking' \in BookingRow /\ booking' # None /\ booking'.state = to
      /\ booking'.paid = booking.paid /\ booking'.required = booking.required
  BY <1>1, NoneAssumption DEF BookingRow
<1>3. BookingPaymentContract(booking')
  BY <1>1 DEF BookingPaymentContract, BookingRow
<1>4. booking.state \in {"PENDING_PAYMENT", "CONFIRMED", "CHECKED_IN", "CHECKED_OUT"}
  BY EdgesLeaveOpenStates
<1>5. RoomIsFunded'
  <2>1. CASE booking.state = "PENDING_PAYMENT"
    <3>1. to \in {"CONFIRMED", "EXPIRED"} \cup Cancelled
      BY <2>1 DEF assertBookingTransition, bookingTransitions, cancellations, Cancelled
    <3>2. to = "CONFIRMED"
          \/ to \notin {"CONFIRMED", "CHECKED_IN", "CHECKED_OUT", "COMPLETED", "NO_SHOW"}
      BY <3>1 DEF Cancelled
    <3>3. QED
      BY <1>2, <3>2 DEF RoomIsFunded
  <2>2. CASE booking.state # "PENDING_PAYMENT"
    BY <1>2, <1>4, <2>2 DEF IInv, RoomIsFunded
  <2>3. QED
    BY <2>1, <2>2
<1>6. TypeOK'
  BY <1>1, <1>2 DEF IInv, TypeOK
<1>7. SchemaAccepts'
  BY <1>2, <1>3 DEF IInv, SchemaAccepts, Stored
<1>8. AttemptsOfBooking' /\ CapturesOfAttempts' /\ RefundsOfCaptures'
  BY <1>2 DEF IInv, AttemptsOfBooking, CapturesOfAttempts, RefundsOfCaptures
<1>9. QED
  BY <1>5, <1>6, <1>7, <1>8 DEF IInv

LEMMA ConfirmStep == ASSUME IInv, Confirm PROVE IInv'
<1>1. booking # None /\ booking \in BookingRow /\ BookingPaymentContract(booking)
      /\ booking.paid <= booking.total
  BY BookingIsSound DEF Confirm
<1>2. paymentAmounts(booking.total, booking.paid, booking.option).required = booking.required
  BY <1>1, AmountsOfBooking DEF BookingRow, BookingPaymentContract
<1>3. booking.paid >= booking.required
  BY <1>2 DEF Confirm, mayConfirmBooking
<1>4. "CONFIRMED" \in BookingState
  BY DEF BookingState, Status
<1>5. QED
  BY <1>1, <1>3, <1>4, StateStep DEF Confirm

LEMMA MoveStep ==
  ASSUME IInv, NEW to \in BookingState, NEW actor \in DomainActor, Move(to, actor)
  PROVE  IInv'
BY StateStep DEF Move

LEMMA ExpireStep == ASSUME IInv, Expire PROVE IInv'
<1>1. "EXPIRED" \in BookingState
  BY DEF BookingState, Status
<1>2. QED
  BY <1>1, StateStep DEF Expire

LEMMA DecideStep ==
  ASSUME IInv, NEW cause \in CancellationCause, NEW actor \in DomainActor,
         Decide(cause, actor)
  PROVE  IInv'
<1> DEFINE notice == booking.checkInAt - now
           percent == refundPercent(cause, notice)
           entitlement == refundEntitlement(cause, notice, booking.paid)
           row == [cause |-> cause, actorType |-> actor, cancelledAt |-> now,
                   checkInAt |-> booking.checkInAt, paidBasis |-> booking.paid,
                   percent |-> percent, entitlement |-> entitlement]
<1>1. /\ booking # None /\ decision = None
      /\ actor \in CancellationActor /\ CauseFits(cause, actor)
      /\ UNCHANGED <<now, hold, booking, attempt, capture, refund>>
  BY DEF Decide
<1>2. booking \in BookingRow /\ now \in Nat /\ notice \in Int /\ booking.paid \in Vnd
      /\ booking.checkInAt \in Nat
  BY <1>1, BookingIsSound DEF IInv, TypeOK, BookingRow
<1> HIDE DEF notice
<1>3. /\ percent \in {0, 50, 100}
      /\ percent = IF cause # "CUSTOMER_CANCELLATION" THEN 100
                   ELSE IF notice >= FullNotice THEN 100
                   ELSE IF notice >= HalfNotice THEN 50 ELSE 0
      /\ entitlement \in 0..booking.paid
      /\ entitlement = (booking.paid * percent) \div 100
  BY <1>2, DecisionFits
<1>4. decision' = row
  BY DEF Decide, notice
<1> HIDE DEF percent, entitlement
<1>5. entitlement \in Vnd
  BY <1>2, <1>3, RentalAssumption DEF Vnd
<1>6. row \in DecisionRow
  BY <1>1, <1>2, <1>3, <1>5 DEF DecisionRow
<1>7. BookingCancellationPolicy(row)
  BY <1>1, <1>2, <1>3 DEF BookingCancellationPolicy, notice
<1> HIDE DEF row
<1>8. TypeOK'
  BY <1>1, <1>4, <1>6 DEF IInv, TypeOK
<1>9. SchemaAccepts'
  BY <1>1, <1>4, <1>7 DEF IInv, SchemaAccepts, Stored
<1>10. AttemptsOfBooking' /\ CapturesOfAttempts' /\ RefundsOfCaptures' /\ RoomIsFunded'
  BY <1>1 DEF IInv, AttemptsOfBooking, CapturesOfAttempts, RefundsOfCaptures, RoomIsFunded
<1>11. QED
  BY <1>8, <1>9, <1>10 DEF IInv

LEMMA ObligeStep ==
  ASSUME IInv, NEW c \in Captures, NEW reason \in RefundCause, NEW amount \in Vnd \ {0},
         Oblige(c, reason, amount)
  PROVE  IInv'
<1> DEFINE row == [state |-> "REQUESTED", amount |-> amount]
           x == <<c, reason>>
<1>1. /\ capture[c] # None /\ refund[x] = None /\ x \in Captures \X RefundCause
      /\ refund' = [refund EXCEPT ![x] = row]
      /\ reason \in CancellationCause => decision # None /\ reason = decision.cause
      /\ UNCHANGED <<now, hold, booking, attempt, capture, decision>>
  BY DEF Oblige
<1>2. row \in RefundRow /\ RefundVnd(row)
  BY DEF RefundRow, RefundState, RefundVnd
<1>3. /\ refund'[x] = row /\ refund' \in [Captures \X RefundCause -> RefundRow \cup {None}]
      /\ \A y \in (Captures \X RefundCause) \ {x} : refund'[y] = refund[y]
  BY <1>1, <1>2 DEF IInv, TypeOK
<1>4. x[1] = c /\ x[2] = reason
  OBVIOUS
<1> HIDE DEF x, row
<1>5. TypeOK'
  BY <1>1, <1>3 DEF IInv, TypeOK
<1>6. SchemaAccepts'
  BY <1>1, <1>2, <1>3 DEF IInv, SchemaAccepts, Stored
<1>7. RefundsOfCaptures'
  BY <1>1, <1>3, <1>4 DEF IInv, RefundsOfCaptures
<1>8. QED
  BY <1>1, <1>5, <1>6, <1>7 DEF IInv, AttemptsOfBooking, CapturesOfAttempts, RoomIsFunded

LEMMA MoveRefundStep ==
  ASSUME IInv, NEW x \in Captures \X RefundCause, NEW to \in RefundState, MoveRefund(x, to)
  PROVE  IInv'
<1>1. /\ refund[x] # None /\ refund[x] \in RefundRow
      /\ refund' = [refund EXCEPT ![x].state = to]
      /\ UNCHANGED <<now, hold, booking, attempt, capture, decision>>
  BY DEF MoveRefund, IInv, TypeOK
<1>2. [refund[x] EXCEPT !.state = to] \in RefundRow
  BY <1>1 DEF RefundRow
<1>3. /\ refund'[x] = [refund[x] EXCEPT !.state = to]
      /\ refund' \in [Captures \X RefundCause -> RefundRow \cup {None}]
      /\ \A y \in (Captures \X RefundCause) \ {x} : refund'[y] = refund[y]
  BY <1>1, <1>2 DEF IInv, TypeOK
<1>4. refund'[x].amount = refund[x].amount
  BY <1>1, <1>3 DEF RefundRow
<1>5. TypeOK'
  BY <1>1, <1>3 DEF IInv, TypeOK
<1>6. SchemaAccepts'
  BY <1>1, <1>3, <1>4 DEF IInv, SchemaAccepts, Stored, RefundVnd
<1>7. RefundsOfCaptures'
  BY <1>1, <1>3 DEF IInv, RefundsOfCaptures
<1>8. QED
  BY <1>1, <1>5, <1>6, <1>7 DEF IInv, AttemptsOfBooking, CapturesOfAttempts, RoomIsFunded

-----------------------------------------------------------------------------
LEMMA InvariantInit == Init => IInv
<1> SUFFICES ASSUME Init PROVE IInv
  OBVIOUS
<1>1. TypeOK
  BY RentalAssumption DEF Init, TypeOK, HoldRow, HoldState
<1>2. SchemaAccepts
  BY RentalAssumption DEF Init, SchemaAccepts, HoldTokenContract, Stored
<1>3. QED
  BY <1>1, <1>2 DEF Init, IInv, AttemptsOfBooking, CapturesOfAttempts, RefundsOfCaptures,
                    RoomIsFunded

LEMMA InvariantStep == IInv /\ [Next]_vars => IInv'
<1> SUFFICES ASSUME IInv, [Next]_vars PROVE IInv'
  OBVIOUS
<1>1. CASE Next
  BY <1>1, TickStep, ConvertStep, CloseHoldStep, OpenAttemptStep, MoveAttemptStep, ApplyStep,
     DeclineStep, ConfirmStep, MoveStep, ExpireStep, DecideStep, ObligeStep, MoveRefundStep
     DEF Next
<1>2. CASE UNCHANGED vars
  BY <1>2 DEF IInv, TypeOK, SchemaAccepts, Stored, AttemptsOfBooking, CapturesOfAttempts,
              RefundsOfCaptures, RoomIsFunded
<1>3. QED
  BY <1>1, <1>2

(* The invariant that carries the other theorems.                          *)
THEOREM Invariance == Spec => []IInv
BY InvariantInit, InvariantStep, PTL DEF Spec

(* TypeOK: the rows have their types, and there is a booking once the hold *)
(* is converted.                                                           *)
THEOREM RentalTypeCorrect == Spec => []TypeOK
<1>1. IInv => TypeOK
  BY DEF IInv
<1>2. QED
  BY <1>1, Invariance, PTL

(* SchemaAccepts: what the contracts compute in TypeScript satisfies the   *)
(* CHECK constraints and the unique indexes, for every price, deadline and *)
(* notice.                                                                 *)
THEOREM RowsAreAccepted == Spec => []SchemaAccepts
<1>1. IInv => SchemaAccepts
  BY DEF IInv
<1>2. QED
  BY <1>1, Invariance, PTL

(* RoomIsFunded: a room is given, kept and completed against the money the *)
(* guest chose to pay first.                                               *)
THEOREM RoomsAreFunded == Spec => []RoomIsFunded
<1>1. IInv => RoomIsFunded
  BY DEF IInv
<1>2. QED
  BY <1>1, Invariance, PTL

(* TerminalIsFinal: no action moves a booking out of a terminal state.     *)
THEOREM TerminalStatesStay == Spec => TerminalIsFinal
<1> DEFINE Final == booking # None
      /\ (isTerminalBooking(booking.state) \/ booking.state \in Frozen)
        => booking'.state = booking.state
<1>1. IInv /\ [Next]_vars => [Final]_booking
  <2> SUFFICES ASSUME IInv, Next, booking # None,
                      isTerminalBooking(booking.state) \/ booking.state \in Frozen,
                      booking' # booking
               PROVE  booking'.state = booking.state
    OBVIOUS
  <2>1. booking.state \notin {"PENDING_PAYMENT", "CONFIRMED", "CHECKED_IN", "CHECKED_OUT"}
    BY DEF isTerminalBooking, Frozen, Cancelled
  <2>2. \A to \in BookingState : \A actor : ~ assertBookingTransition(booking.state, to, actor)
    BY <2>1, EdgesLeaveOpenStates
  <2>3. {"CONFIRMED", "EXPIRED"} \subseteq BookingState
    BY DEF BookingState, Status
  <2>4. ~ Confirm /\ ~ Expire
    BY <2>2, <2>3 DEF Confirm, Expire
  <2>5. \A to \in BookingState, actor \in DomainActor : ~ Move(to, actor)
    BY <2>2 DEF Move
  <2>6. hold.state = "CONVERTED"
    BY BookingIsSound
  <2>7. \A actor \in DomainActor, total \in Totals, option \in {"DEPOSIT_50", "FULL_100"},
           checkInAt \in CheckIns : ~ Convert(actor, total, option, checkInAt)
    BY <2>6 DEF Convert, isUsableHold
  <2>8. PICK c \in Captures, p \in Attempts, amount \in Taken, applied \in Vnd :
          Apply(c, p, amount, applied)
    BY <2>4, <2>5, <2>7 DEF Next, Tick, CloseHold, MoveAttempt, OpenAttempt, Decline, Decide,
         Oblige, MoveRefund
  <2>9. booking \in BookingRow
    BY DEF IInv, TypeOK
  <2>10. QED
    BY <2>8, <2>9 DEF Apply, BookingRow
<1>2. QED
  BY <1>1, Invariance, PTL DEF Spec, TerminalIsFinal

-----------------------------------------------------------------------------
(* The refunds. Sums are taken over a table of refunds that is a value, so *)
(* that the same facts serve the table before and after a step.            *)
Table == [Captures \X RefundCause -> RefundRow \cup {None}]

Amounts(rf, S) == SumFunctionOnSet([x \in S |-> rf[x].amount], S)

Obligations(rf) == {x \in Captures \X RefundCause : rf[x] # None}
From(rf, c) == {x \in Obligations(rf) : x[1] = c}
For(rf, cause) == {x \in Obligations(rf) : x[2] = cause}

Covered(rf, cp, d) ==
  /\ \A c \in Captures : cp[c] # None => Amounts(rf, From(rf, c)) <= cp[c].amount
  /\ d # None => Amounts(rf, For(rf, d.cause)) <= d.entitlement

LEMMA ObligationsAreFinite ==
  ASSUME NEW rf \in Table, NEW S \in SUBSET Obligations(rf)
  PROVE  /\ IsFiniteSet(S)
         /\ \A x \in S : rf[x] \in RefundRow /\ rf[x].amount \in Nat
         /\ Amounts(rf, S) \in Nat
<1>1. IsFiniteSet(RefundCause)
  <2>1. IsFiniteSet({"CUSTOMER_CANCELLATION"} \cup {"OPERATOR_CANCELLATION"})
    BY FS_Singleton, FS_AddElement
  <2>2. IsFiniteSet({"CUSTOMER_CANCELLATION", "OPERATOR_CANCELLATION"} \cup {"BOOKING_EXPIRY"})
    BY <2>1, FS_AddElement
  <2>3. IsFiniteSet({"CUSTOMER_CANCELLATION", "OPERATOR_CANCELLATION", "BOOKING_EXPIRY"}
                      \cup {"LATE_CAPTURE"})
    BY <2>2, FS_AddElement
  <2>4. IsFiniteSet({"CUSTOMER_CANCELLATION", "OPERATOR_CANCELLATION", "BOOKING_EXPIRY",
                     "LATE_CAPTURE"} \cup {"SUPERSEDED_CAPTURE"})
    BY <2>3, FS_AddElement
  <2>5. QED
    BY <2>4 DEF RefundCause
<1>2. IsFiniteSet(Captures \X RefundCause)
  BY <1>1, BookingAssumption, FS_Product
<1>3. IsFiniteSet(S)
  BY <1>2, FS_Subset DEF Obligations
<1>4. \A x \in S : rf[x] \in RefundRow /\ rf[x].amount \in Nat
  BY RentalAssumption DEF Table, Obligations, RefundRow, Vnd
<1> DEFINE f == [x \in S |-> rf[x].amount]
<1>5. \A x \in S : f[x] \in Nat
  BY <1>4
<1> HIDE DEF f
<1>6. SumFunctionOnSet(f, S) \in Nat
  BY <1>3, <1>5, SumInNat
<1>7. QED
  BY <1>3, <1>4, <1>6 DEF Amounts, f

(* Rows with the same amounts add up to the same.                          *)
LEMMA AmountsSame ==
  ASSUME NEW rf \in Table, NEW rg, NEW S \in SUBSET Obligations(rf),
         \A x \in S : rg[x].amount = rf[x].amount
  PROVE  Amounts(rg, S) = Amounts(rf, S)
<1> DEFINE f == [x \in S |-> rf[x].amount]
           g == [x \in S |-> rg[x].amount]
<1>1. IsFiniteSet(S)
  BY ObligationsAreFinite
<1>2. \A x \in S : g[x] = f[x]
  OBVIOUS
<1> HIDE DEF f, g
<1>3. SumFunctionOnSet(g, S) = SumFunctionOnSet(f, S)
  BY <1>1, <1>2, SumSame
<1>4. QED
  BY <1>3 DEF Amounts, f, g

(* A new obligation adds its amount.                                       *)
LEMMA AmountsAdd ==
  ASSUME NEW rf \in Table, NEW rg \in Table, NEW S \in SUBSET Obligations(rf),
         NEW x \in Obligations(rg), x \notin S, S \in SUBSET Obligations(rg),
         \A y \in S : rg[y] = rf[y]
  PROVE  Amounts(rg, S \cup {x}) = Amounts(rf, S) + rg[x].amount
<1> DEFINE T == S \cup {x}
           f == [y \in T |-> rg[y].amount]
           g == [y \in S |-> rf[y].amount]
<1>1. T \in SUBSET Obligations(rg) /\ x \in T /\ T \ {x} = S
  OBVIOUS
<1>2. IsFiniteSet(T) /\ IsFiniteSet(S) /\ \A y \in T : rg[y].amount \in Nat
  BY <1>1, ObligationsAreFinite
<1>3. (\A y \in T : f[y] \in Nat) /\ (\A y \in S : f[y] = g[y]) /\ f[x] = rg[x].amount
  BY <1>2
<1> HIDE DEF f, g
<1>4. SumFunctionOnSet(f, T) = f[x] + SumFunctionOnSet(f, S)
  <2> HIDE DEF T
  <2>1. SumFunctionOnSet(f, T) = f[x] + SumFunctionOnSet(f, T \ {x})
    BY <1>1, <1>2, <1>3, SumRemove
  <2>2. QED
    BY <1>1, <2>1
<1>5. SumFunctionOnSet(f, S) = SumFunctionOnSet(g, S)
  BY <1>2, <1>3, SumSame
<1>6. SumFunctionOnSet(g, S) \in Nat
  BY ObligationsAreFinite DEF Amounts, g
<1>7. f[x] \in Nat
  BY <1>1, <1>3
<1>8. QED
  BY <1>3, <1>4, <1>5, <1>6, <1>7 DEF Amounts, f, g

(* What is paid back and what is under way are all there is, so that an    *)
(* amount that fits leaves the whole within the entitlement.               *)
LEMMA WhatFitsIsCovered ==
  ASSUME refund \in Table, NEW S \in SUBSET Obligations(refund),
         NEW amount \in Nat \ {0}, NEW entitlement \in Nat, NEW paid,
         Fits(amount, entitlement, paid, S)
  PROVE  Amounts(refund, S) + amount <= entitlement
<1> DEFINE f == [x \in S |-> refund[x].amount]
           T == {x \in S : refund[x].state = "SUCCEEDED"}
           U == {x \in S : refund[x].state # "SUCCEEDED"}
<1>1. IsFiniteSet(S) /\ \A x \in S : f[x] \in Nat
  BY ObligationsAreFinite
<1>2. T \in SUBSET S /\ U \in SUBSET S /\ S \ T = U
  OBVIOUS
<1>3. amount <= AtLeast((entitlement - SumOf(T)) - SumOf(U), 0)
  BY DEF Fits, outstanding
<1> HIDE DEF T, U
<1>4. SumFunctionOnSet(f, S) = SumFunctionOnSet(f, T) + SumFunctionOnSet(f, U)
  <2> HIDE DEF f
  <2>1. QED
    BY <1>1, <1>2, SumSplit
<1>5. ASSUME NEW V \in SUBSET S
      PROVE  SumOf(V) = SumFunctionOnSet(f, V) /\ SumOf(V) \in Nat
  <2> DEFINE g == [x \in V |-> refund[x].amount]
  <2>1. IsFiniteSet(V) /\ \A x \in V : g[x] = f[x] /\ g[x] \in Nat
    BY <1>1, FS_Subset
  <2> HIDE DEF f, g
  <2>2. SumFunctionOnSet(g, V) = SumFunctionOnSet(f, V) /\ SumFunctionOnSet(g, V) \in Nat
    BY <2>1, SumSame, SumInNat
  <2>3. QED
    BY <2>2 DEF SumOf, g
<1>6. SumOf(T) \in Nat /\ SumOf(U) \in Nat /\ SumFunctionOnSet(f, S) = SumOf(T) + SumOf(U)
  BY <1>2, <1>4, <1>5
<1>7. Amounts(refund, S) = SumFunctionOnSet(f, S)
  BY DEF Amounts
<1> HIDE DEF f
<1>8. QED
  BY <1>3, <1>6, <1>7 DEF AtLeast

(* RefundsAreCovered, before and after a step.                             *)
LEMMA CoveredNow == RefundsAreCovered <=> Covered(refund, capture, decision)
BY DEF RefundsAreCovered, Covered, Amounts, SumOf, OfCapture, OfDecision, Stored, From, For,
       Obligations

LEMMA CoveredNext == RefundsAreCovered' <=> Covered(refund', capture', decision')
BY DEF RefundsAreCovered, Covered, Amounts, SumOf, OfCapture, OfDecision, Stored, From, For,
       Obligations

LEMMA NothingIsCovered ==
  ASSUME NEW rf, NEW n \in Nat
  PROVE  Amounts(rf, {}) <= n
<1>1. Amounts(rf, {}) = 0
  BY SumEmpty DEF Amounts
<1>2. QED
  BY <1>1

(* A capture is new: there is no refund of it yet.                         *)
LEMMA CaptureKeepsCovered ==
  ASSUME IInv, RefundsAreCovered, NEW c \in Captures, capture[c] = None,
         capture'[c].amount \in Nat,
         \A d \in Captures \ {c} : capture'[d] = capture[d],
         UNCHANGED <<decision, refund>>
  PROVE  RefundsAreCovered'
<1>1. Covered(refund, capture, decision)
  BY CoveredNow
<1>2. From(refund, c) = {}
  BY DEF IInv, RefundsOfCaptures, From, Obligations
<1>3. Amounts(refund, From(refund, c)) <= capture'[c].amount
  BY <1>2, NothingIsCovered
<1>4. Covered(refund, capture', decision)
  BY <1>1, <1>3 DEF Covered
<1>5. QED
  BY <1>4, CoveredNext

(* A decision is new: there is no refund for it yet.                       *)
LEMMA DecideKeepsCovered ==
  ASSUME IInv, RefundsAreCovered, NEW cause \in CancellationCause, NEW actor,
         Decide(cause, actor)
  PROVE  RefundsAreCovered'
<1>1. Covered(refund, capture, decision)
  BY CoveredNow
<1>2. /\ booking # None /\ decision = None /\ decision'.cause = cause
      /\ UNCHANGED <<capture, refund>>
      /\ decision'.entitlement =
           refundEntitlement(cause, booking.checkInAt - now, booking.paid)
  BY DEF Decide
<1>3. decision'.entitlement \in Nat
  <2>1. booking.checkInAt - now \in Int /\ booking.paid \in Vnd
    BY <1>2, BookingIsSound DEF IInv, TypeOK, BookingRow
  <2>2. decision'.entitlement \in 0..booking.paid
    BY <1>2, <2>1, DecisionFits
  <2>3. QED
    BY <2>2
<1>4. For(refund, cause) = {}
  BY <1>2 DEF IInv, RefundsOfCaptures, For, Obligations
<1>5. Amounts(refund, For(refund, decision'.cause)) <= decision'.entitlement
  BY <1>2, <1>3, <1>4, NothingIsCovered
<1>6. Covered(refund, capture, decision')
  BY <1>1, <1>5 DEF Covered
<1>7. QED
  BY <1>2, <1>6, CoveredNext

LEMMA ObligeKeepsCovered ==
  ASSUME IInv, RefundsAreCovered, NEW c \in Captures, NEW reason \in RefundCause,
         NEW amount \in Vnd \ {0}, Oblige(c, reason, amount)
  PROVE  RefundsAreCovered'
<1> DEFINE x == <<c, reason>>
<1>1. Covered(refund, capture, decision)
  BY CoveredNow
<1>2. /\ capture[c] # None /\ refund[x] = None /\ x \in Captures \X RefundCause
      /\ refund' = [refund EXCEPT ![x] = [state |-> "REQUESTED", amount |-> amount]]
      /\ UNCHANGED <<capture, decision>> /\ amount \in Nat \ {0}
  BY RentalAssumption DEF Oblige, Vnd
<1>3. IInv'
  BY ObligeStep
<1>4. refund \in Table /\ refund' \in Table
  BY <1>3 DEF IInv, TypeOK, Table
<1>5. refund'[x].amount = amount /\ refund'[x] # None
  <2>1. [state |-> "REQUESTED", amount |-> amount] \in RefundRow
    BY DEF RefundRow, RefundState
  <2>2. refund'[x] = [state |-> "REQUESTED", amount |-> amount]
    BY <1>2, <1>4 DEF Table
  <2>3. QED
    BY <2>1, <2>2, NoneAssumption
<1>6. \A y \in (Captures \X RefundCause) \ {x} : refund'[y] = refund[y]
  BY <1>2, <1>4 DEF Table
<1>7. x[1] = c /\ x[2] = reason
  OBVIOUS
<1> HIDE DEF x
<1>8. /\ Obligations(refund') = Obligations(refund) \cup {x} /\ x \notin Obligations(refund)
      /\ \A y \in Obligations(refund) : refund'[y] = refund[y]
  BY <1>2, <1>5, <1>6 DEF Obligations
<1>9. ASSUME NEW S \in SUBSET Obligations(refund)
      PROVE  /\ Amounts(refund', S \cup {x}) = Amounts(refund, S) + amount
             /\ Amounts(refund', S) = Amounts(refund, S)
  <2>1. x \notin S /\ x \in Obligations(refund') /\ S \in SUBSET Obligations(refund')
        /\ \A y \in S : refund'[y] = refund[y]
    BY <1>8
  <2>2. QED
    BY <1>4, <1>5, <2>1, AmountsAdd, AmountsSame
<1>10. ASSUME NEW d \in Captures, capture[d] # None
       PROVE  Amounts(refund', From(refund', d)) <= capture[d].amount
  <2>1. From(refund, d) \in SUBSET Obligations(refund)
    BY DEF From
  <2>2. CASE d # c
    <3>1. From(refund', d) = From(refund, d)
      BY <1>7, <1>8, <2>2 DEF From
    <3>2. QED
      BY <1>1, <1>9, <1>10, <2>1, <3>1 DEF Covered
  <2>3. CASE d = c
    <3>1. From(refund', c) = From(refund, c) \cup {x}
      BY <1>7, <1>8 DEF From
    <3>2. Fits(amount, capture[c].amount, capture[c].amount, From(refund, c))
      BY DEF Oblige, OfCapture, Stored, From, Obligations
    <3>3. capture[c].amount \in Nat
      BY <1>2, RentalAssumption DEF IInv, TypeOK, CaptureRow, Vnd
    <3>4. Amounts(refund, From(refund, c)) + amount <= capture[c].amount
      BY <1>2, <1>4, <2>1, <2>3, <3>2, <3>3, WhatFitsIsCovered
    <3>5. QED
      BY <1>9, <2>1, <2>3, <3>1, <3>4
  <2>4. QED
    BY <2>2, <2>3
<1>11. ASSUME decision # None
       PROVE  Amounts(refund', For(refund', decision.cause)) <= decision.entitlement
  <2>1. For(refund, decision.cause) \in SUBSET Obligations(refund)
    BY DEF For
  <2>2. CASE reason # decision.cause
    <3>1. For(refund', decision.cause) = For(refund, decision.cause)
      BY <1>7, <1>8, <2>2 DEF For
    <3>2. QED
      BY <1>1, <1>9, <1>11, <2>1, <3>1 DEF Covered
  <2>3. CASE reason = decision.cause
    <3>1. For(refund', decision.cause) = For(refund, decision.cause) \cup {x}
      BY <1>7, <1>8, <2>3 DEF For
    <3>2. decision \in DecisionRow
      BY <1>11 DEF IInv, TypeOK
    <3>3. Fits(amount, decision.entitlement, decision.paidBasis, OfDecision)
      BY <2>3, <3>2 DEF Oblige, DecisionRow
    <3>4. OfDecision = For(refund, decision.cause)
      BY <1>11 DEF OfDecision, Stored, For, Obligations
    <3>5. decision.entitlement \in Nat
      BY <3>2, RentalAssumption DEF DecisionRow, Vnd
    <3>6. Amounts(refund, For(refund, decision.cause)) + amount <= decision.entitlement
      BY <1>2, <1>4, <2>1, <3>3, <3>4, <3>5, WhatFitsIsCovered
    <3>7. QED
      BY <1>9, <2>1, <3>1, <3>6
  <2>4. QED
    BY <2>2, <2>3
<1>12. Covered(refund', capture', decision')
  BY <1>2, <1>10, <1>11 DEF Covered
<1>13. QED
  BY <1>12, CoveredNext

LEMMA MoveRefundKeepsCovered ==
  ASSUME IInv, RefundsAreCovered, NEW x \in Captures \X RefundCause, NEW to \in RefundState,
         MoveRefund(x, to)
  PROVE  RefundsAreCovered'
<1>1. Covered(refund, capture, decision)
  BY CoveredNow
<1>2. refund \in Table /\ refund[x] \in RefundRow
      /\ refund' = [refund EXCEPT ![x].state = to] /\ UNCHANGED <<capture, decision>>
  BY DEF MoveRefund, IInv, TypeOK, Table
<1>3. refund'[x] # None /\ refund'[x].amount = refund[x].amount
      /\ \A y \in (Captures \X RefundCause) \ {x} : refund'[y] = refund[y]
  <2>1. /\ refund'[x] = [refund[x] EXCEPT !.state = to]
        /\ \A y \in (Captures \X RefundCause) \ {x} : refund'[y] = refund[y]
    BY <1>2 DEF Table
  <2>2. [refund[x] EXCEPT !.state = to] \in RefundRow
    BY <1>2 DEF RefundRow
  <2>3. QED
    BY <1>2, <2>1, <2>2, NoneAssumption DEF RefundRow
<1>4. Obligations(refund') = Obligations(refund)
      /\ \A y \in Obligations(refund) : refund'[y].amount = refund[y].amount
  BY <1>2, <1>3 DEF Obligations, MoveRefund
<1>5. \A S \in SUBSET Obligations(refund) : Amounts(refund', S) = Amounts(refund, S)
  BY <1>2, <1>4, AmountsSame
<1>6. /\ \A c \in Captures : From(refund', c) = From(refund, c)
                           /\ From(refund, c) \in SUBSET Obligations(refund)
      /\ \A k : For(refund', k) = For(refund, k) /\ For(refund, k) \in SUBSET Obligations(refund)
  BY <1>4 DEF From, For
<1>7. Covered(refund', capture', decision')
  BY <1>1, <1>2, <1>5, <1>6 DEF Covered
<1>8. QED
  BY <1>7, CoveredNext

LEMMA CoveredStep ==
  ASSUME IInv, RefundsAreCovered, [Next]_vars
  PROVE  RefundsAreCovered'
<1>1. CASE UNCHANGED <<capture, decision, refund>>
  BY <1>1, CoveredNow, CoveredNext
<1>2. ASSUME NEW c \in Captures, NEW p \in Attempts, NEW amount \in Taken,
             Decline(c, p, amount) \/ \E applied \in Vnd : Apply(c, p, amount, applied)
      PROVE  RefundsAreCovered'
  <2>1. IInv' /\ capture'[c] # None
    BY <1>2, ApplyStep, DeclineStep
  <2>2. /\ capture[c] = None /\ UNCHANGED <<decision, refund>>
        /\ \A d \in Captures \ {c} : capture'[d] = capture[d]
    BY <1>2 DEF Apply, Decline, IInv, TypeOK
  <2>3. capture'[c].amount \in Nat
    BY <2>1, RentalAssumption DEF IInv, TypeOK, CaptureRow, Vnd
  <2>4. QED
    BY <2>2, <2>3, CaptureKeepsCovered
<1>3. CASE UNCHANGED vars
  BY <1>1, <1>3
<1>4. QED
  BY <1>1, <1>2, <1>3, DecideKeepsCovered, ObligeKeepsCovered, MoveRefundKeepsCovered
     DEF Next, Tick, Confirm, Expire, Convert, CloseHold, MoveAttempt, Move, OpenAttempt

(* RefundsAreCovered: refunds, promised or paid, stay within the capture   *)
(* they come from and within the entitlement, for any number of captures   *)
(* and any amounts.                                                        *)
THEOREM RefundsStayCovered == Spec => []RefundsAreCovered
<1>1. Init => RefundsAreCovered
  BY DEF Init, RefundsAreCovered
<1>2. IInv /\ RefundsAreCovered /\ [Next]_vars => RefundsAreCovered'
  BY CoveredStep
<1>3. QED
  BY <1>1, <1>2, Invariance, PTL DEF Spec

(* What the provider took for a stay, over all captures.                   *)
TakenInAll ==
  SumFunctionOnSet([c \in Captures |-> IF capture[c] = None THEN 0 ELSE capture[c].amount],
                   Captures)

LEMMA RefundsAreOfMoneyTaken ==
  ASSUME IInv, RefundsAreCovered
  PROVE  SumOf(Stored) <= TakenInAll
<1> DEFINE f == [x \in Stored |-> refund[x].amount]
           g == [c \in Captures |-> IF capture[c] = None THEN 0 ELSE capture[c].amount]
<1>1. /\ refund \in Table /\ Stored = Obligations(refund)
      /\ \A c \in Captures : OfCapture(c) \in SUBSET Stored
  BY DEF IInv, TypeOK, Table, Stored, Obligations, OfCapture
<1>2. /\ IsFiniteSet(Stored) /\ \A x \in Stored : f[x] \in Nat
      /\ IsFiniteSet(Captures) /\ \A x \in Stored : x[1] \in Captures
  BY <1>1, ObligationsAreFinite, BookingAssumption DEF Stored
<1>3. \A c \in Captures : capture[c] # None => capture[c].amount \in Nat
  BY RentalAssumption DEF IInv, TypeOK, CaptureRow, Vnd
<1>4. \A c \in Captures : g[c] \in Nat
  BY <1>3
<1>5. ASSUME NEW c \in Captures
      PROVE  SumFunctionOnSet(f, {x \in Stored : x[1] = c}) <= g[c]
  <2> DEFINE T == OfCapture(c)
             h == [x \in T |-> refund[x].amount]
  <2>1. T = {x \in Stored : x[1] = c} /\ IsFiniteSet(T) /\ \A x \in T : h[x] = f[x]
    BY <1>1, <1>2, FS_Subset DEF OfCapture
  <2>2. SumOf(T) = SumFunctionOnSet(f, T)
    <3> HIDE DEF f, h, T
    <3>1. SumFunctionOnSet(h, T) = SumFunctionOnSet(f, T)
      BY <2>1, SumSame
    <3>2. QED
      BY <3>1 DEF SumOf, h
  <2>3. CASE capture[c] # None
    BY <2>1, <2>2, <2>3 DEF RefundsAreCovered
  <2>4. CASE capture[c] = None
    <3>1. T = {}
      BY <2>4 DEF IInv, RefundsOfCaptures, OfCapture, Stored
    <3>2. {x \in Stored : x[1] = c} = {} /\ g[c] = 0
      BY <2>1, <2>4, <3>1
    <3>3. SumFunctionOnSet(f, {}) = 0
      <4> HIDE DEF f, g, T, h
      <4>1. QED
        BY SumEmpty
    <3>4. 0 <= 0
      OBVIOUS
    <3>5. QED
      <4> HIDE DEF f, g, T, h
      <4>1. QED
        BY <3>2, <3>3, <3>4
  <2>5. QED
    BY <2>3, <2>4
<1>6. SumFunctionOnSet(f, Stored) <= SumFunctionOnSet(g, Captures)
  <2> HIDE DEF f, g
  <2>1. QED
    BY <1>2, <1>4, <1>5, SumByKeys
<1>7. QED
  BY <1>6 DEF SumOf, TakenInAll

(* However often money is taken, declined, captured too late or cancelled  *)
(* over, all the refunds of a stay together, promised or paid, come to no  *)
(* more than what was taken for it.                                        *)
THEOREM NoMoreBackThanTaken == Spec => [](SumOf(Stored) <= TakenInAll)
<1>1. IInv /\ RefundsAreCovered => SumOf(Stored) <= TakenInAll
  BY RefundsAreOfMoneyTaken
<1>2. QED
  BY <1>1, Invariance, RefundsStayCovered, PTL

-----------------------------------------------------------------------------
(* The contracts among themselves.                                         *)

(* Who gives notice earlier gets no less back, and no one gets more than   *)
(* was paid: the tiers of refundEntitlement, and the rounding of its half, *)
(* are in order at every boundary.                                         *)
THEOREM EarlierNoticeReturnsMore ==
  ASSUME NEW cause \in CancellationCause, NEW paid \in Vnd,
         NEW late \in Int, NEW early \in Int, late <= early
  PROVE  /\ refundEntitlement(cause, late, paid) <= refundEntitlement(cause, early, paid)
         /\ refundEntitlement(cause, early, paid) <= paid
<1>1. halfVnd(paid) \in 0..paid /\ paid \in Nat
  BY RentalAssumption DEF halfVnd, Vnd
<1>2. FullNotice \in Int /\ HalfNotice \in Int
  BY RentalAssumption
<1>3. ASSUME NEW notice \in Int
      PROVE  refundEntitlement(cause, notice, paid) =
               IF cause # "CUSTOMER_CANCELLATION" \/ notice >= FullNotice THEN paid
               ELSE IF notice >= HalfNotice THEN halfVnd(paid) ELSE 0
  BY DEF refundEntitlement, refundPercent
<1>4. QED
  BY <1>1, <1>2, <1>3, RentalAssumption

(* The table of the planned lifecycle, by actor, and that of               *)
(* BookingStateService, which the running code obeys, name the same moves  *)
(* between the statuses both know, but for one: only the planned one lets  *)
(* a booking expire.                                                       *)
THEOREM TablesAgree ==
  ASSUME NEW from \in BookingState, NEW to \in BookingState
  PROVE  (\E actor \in DomainActor : bookingTransitions(from, to, actor))
           <=> MayMove(from, to) \/ (from = "PENDING_PAYMENT" /\ to = "EXPIRED")
<1>1. ASSUME NEW actor \in DomainActor, bookingTransitions(from, to, actor)
      PROVE  MayMove(from, to) \/ (from = "PENDING_PAYMENT" /\ to = "EXPIRED")
  BY <1>1 DEF bookingTransitions, cancellations, MayMove, TRANSITIONS, Status, Cancelled
<1>2. ASSUME MayMove(from, to) \/ (from = "PENDING_PAYMENT" /\ to = "EXPIRED")
      PROVE  \E actor \in DomainActor : bookingTransitions(from, to, actor)
  <2>1. from \in Status /\ to \notin {"DRAFT", "PAYMENT_FAILED"}
    BY DEF BookingState
  <2>2. \/ from = "PENDING_PAYMENT" /\ to \in {"CONFIRMED", "EXPIRED"} \cup Cancelled
        \/ from = "CONFIRMED" /\ to \in {"CHECKED_IN", "NO_SHOW"} \cup Cancelled
        \/ from = "CHECKED_IN" /\ to = "CHECKED_OUT"
        \/ from = "CHECKED_OUT" /\ to = "COMPLETED"
    BY <1>2, <2>1 DEF MayMove, TRANSITIONS, BookingState, Status, Cancelled
  <2>3. \E actor \in {"CUSTOMER", "STAFF", "ADMIN", "SYSTEM", "PAYMENT_PROCESSOR"} :
          bookingTransitions(from, to, actor)
    BY <2>2 DEF bookingTransitions, cancellations, Cancelled
  <2>4. QED
    BY <2>3 DEF DomainActor
<1>3. QED
  BY <1>1, <1>2
=============================================================================
