-------------------------- MODULE BookingLifecycle --------------------------
(***************************************************************************)
(* The statuses of a booking, the transition table staff operations are    *)
(* checked against (BookingStateService), the statuses that occupy a unit  *)
(* (AvailabilityService, and the WHERE of the exclusion constraint) and    *)
(* the trigger that freezes terminal statuses in the database.             *)
(***************************************************************************)

Cancelled ==
  {"CANCELLED_BY_CUSTOMER", "CANCELLED_BY_STAFF", "CANCELLED_BY_ADMIN"}

Status ==
  {"DRAFT", "PENDING_PAYMENT", "CONFIRMED", "CHECKED_IN", "CHECKED_OUT",
   "COMPLETED", "PAYMENT_FAILED", "NO_SHOW", "EXPIRED"} \cup Cancelled

(* TRANSITIONS: where each status may go next.                             *)
TRANSITIONS ==
  [s \in Status |->
     CASE s = "DRAFT"           -> {"PENDING_PAYMENT", "CANCELLED_BY_CUSTOMER",
                                    "CANCELLED_BY_STAFF"}
       [] s = "PENDING_PAYMENT" -> {"CONFIRMED", "PAYMENT_FAILED"} \cup Cancelled
       [] s = "CONFIRMED"       -> {"CHECKED_IN", "NO_SHOW"} \cup Cancelled
       [] s = "CHECKED_IN"      -> {"CHECKED_OUT"}
       [] s = "CHECKED_OUT"     -> {"COMPLETED"}
       [] s = "PAYMENT_FAILED"  -> {"PENDING_PAYMENT", "CANCELLED_BY_STAFF"}
       [] OTHER                 -> {}]

(* BookingStateService.assert: the move is in the table.                   *)
MayMove(current, next) == next \in TRANSITIONS[current]

(* Statuses whose nights no one else may take.                             *)
OCCUPYING == {"PENDING_PAYMENT", "CONFIRMED", "CHECKED_IN"}

(* Mutant: the trigger is missing.                                         *)
TerminalGuard_Missing(old, new) == TRUE

(* rental_booking_terminal_guard: an UPDATE that changes one of these      *)
(* statuses raises an exception, whatever code path issues it.             *)
Frozen == Cancelled \cup {"EXPIRED", "COMPLETED", "NO_SHOW"}

TerminalGuard(old, new) == old \in Frozen => new = old
=============================================================================
