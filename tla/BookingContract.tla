--------------------------- MODULE BookingContract ---------------------------
(***************************************************************************)
(* What the reservation code and the payment code rely on each other for,  *)
(* booking by booking. Reservations models the nights and takes every      *)
(* payment as one step; VnpayPayments models the payments and takes the    *)
(* nights as a flag. Each of them implements this contract, and what each  *)
(* assumes of the other is the other's half of it.                         *)
(***************************************************************************)
EXTENDS BookingLifecycle, Naturals

CONSTANTS
  Bookings,   \* identities of bookings
  None        \* there is no such booking yet

(* "deposit": a deposit is asked. "level" is what has been paid: 0 less    *)
(* than the deposit, 1 the deposit and not the total, 2 the total.         *)
(* "attempts": the captures that may still come.                           *)
Account == [status: Status, deposit: BOOLEAN, level: 0..2, attempts: Nat]

(* What a booking starts as: a deposit or a total of nothing is paid.      *)
Fresh ==
  {a \in [status: {"PENDING_PAYMENT"}, deposit: BOOLEAN, level: 0..2, attempts: {0}] :
     a.deposit <=> a.level = 0}

VARIABLES
  account,    \* what is known of each booking
  taken       \* its nights are occupied by another booking

In(b, S) == account[b] # None /\ account[b].status \in S

(* No one takes the nights of a booking that occupies its unit.            *)
Clear == \A b \in Bookings : In(b, OCCUPYING) => ~ taken[b]

Init ==
  /\ account \in [Bookings -> Fresh \cup {None}]
  /\ taken \in [Bookings -> BOOLEAN] /\ Clear

-----------------------------------------------------------------------------
(* The half of the reservations: a booking is made, and staff move it along*)
(* the table, when what the status asks for has been paid and, if it       *)
(* occupies, its nights are its own.                                       *)
Make(b, a) ==
  /\ account[b] = None
  /\ account' = [account EXCEPT ![b] = a]

Move(b, to) ==
  /\ In(b, Status) /\ MayMove(account[b].status, to)
  /\ to \in {"CONFIRMED", "CHECKED_IN"} => account[b].level >= 1
  /\ to = "CHECKED_OUT" => account[b].level = 2
  /\ to \in OCCUPYING => ~ taken[b]
  /\ account' = [account EXCEPT ![b].status = to]

Reserve(b) ==
  \/ \E a \in Fresh : Make(b, a)
  \/ \E to \in Status : Move(b, to)

(* The half of the payments: a receipt raises what has been paid; a capture*)
(* that was asked for while the booking awaited it comes at any later time,*)
(* covers the deposit whatever else was paid, and confirms the booking,    *)
(* unless it is closed or its nights have gone.                            *)
Receive(b, level) ==
  /\ In(b, OCCUPYING) /\ level > account[b].level
  /\ account' = [account EXCEPT ![b].level = level]

Ask(b) ==
  /\ In(b, {"PENDING_PAYMENT", "PAYMENT_FAILED"})
  /\ account[b].deposit /\ account[b].level < 2
  /\ account' = [account EXCEPT ![b].attempts = @ + 1]

GiveUp(b) ==
  /\ In(b, Status) /\ account[b].attempts > 0
  /\ account' = [account EXCEPT ![b].attempts = @ - 1]

Capture(b, level) ==
  /\ In(b, Status \ Frozen) /\ account[b].attempts > 0 /\ ~ taken[b]
  /\ account' = [account EXCEPT ![b].status = "CONFIRMED", ![b].level = level,
                                ![b].attempts = @ - 1]

Settle(b) ==
  \/ \E level \in 1..2 : Receive(b, level) \/ Capture(b, level)
  \/ Ask(b) \/ GiveUp(b)

-----------------------------------------------------------------------------
(* One booking at a time; nights may come and go with any step, but not    *)
(* those of a booking that occupies them.                                  *)
Next ==
  /\ UNCHANGED account \/ \E b \in Bookings : Reserve(b) \/ Settle(b)
  /\ taken' \in [Bookings -> BOOLEAN] /\ Clear'

Spec == Init /\ [][Next]_<<account, taken>>

-----------------------------------------------------------------------------
TypeOK ==
  /\ account \in [Bookings -> Account \cup {None}]
  /\ taken \in [Bookings -> BOOLEAN]

(* Whoever moves it, a booking is confirmed and its guest in the room only *)
(* with the deposit paid, and has left only with the total paid.           *)
PaidAsFar ==
  \A b \in Bookings :
    /\ In(b, {"CONFIRMED", "CHECKED_IN", "CHECKED_OUT", "COMPLETED"})
         => account[b].level >= 1
    /\ In(b, {"CHECKED_OUT", "COMPLETED"}) => account[b].level = 2

(* Where no deposit is asked, no capture is ever waited for.               *)
OnlyDepositsAreCaptured ==
  \A b \in Bookings :
    In(b, Status) /\ ~ account[b].deposit => account[b].attempts = 0

(* A booking that exists stays, is closed for good once it is closed, and  *)
(* never falls back below its deposit.                                     *)
NeverUndone ==
  [][\A b \in Bookings : In(b, Status) =>
       /\ In(b, Status)' /\ (account'[b].deposit <=> account[b].deposit)
       /\ In(b, Frozen) => account'[b].status = account[b].status
       /\ account[b].level >= 1 => account'[b].level >= 1]_account
=============================================================================
