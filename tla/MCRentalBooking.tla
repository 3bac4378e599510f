--------------------------- MODULE MCRentalBooking ---------------------------
(* Attempts and captures are interchangeable. One way of ending an attempt   *)
(* without money stands for all, one provider of an attempt that is closed,  *)
(* and one actor for those who may take the same decision: nothing reads     *)
(* which it was. The others are checked when they are written, and not       *)
(* followed.                                                                 *)
EXTENDS RentalBooking, TLC

CONSTANT MaxRefunds   \* bound: obligations at once

Alike ==
  /\ \A p \in Attempts : attempt[p] # None =>
       /\ attempt[p].state \notin {"FAILED", "EXPIRED", "CANCELLED"}
       /\ attempt[p].state \in {"PAID", "SUPERSEDED"} => attempt[p].provider = "OTHER"
  /\ decision # None =>
       CASE decision.cause = "CUSTOMER_CANCELLATION" -> decision.actorType = "CUSTOMER"
         [] decision.cause = "OPERATOR_CANCELLATION" -> decision.actorType = "STAFF"
         [] decision.cause = "BOOKING_EXPIRY" -> decision.actorType = "SYSTEM"

(* The steps of refunds read captures and the decision only, and no other    *)
(* step reads a refund: all they may meet they meet after the rest. They are *)
(* followed from one kind of booking, which the same captures and decisions  *)
(* are reached with: cancelled, at the instant of the decision if there is   *)
(* one, and with no attempt open. Of two, a refund that has failed or waits  *)
(* for the provider is like one that is being processed.                     *)
FewRefunds ==
  Stored # {} =>
    /\ Cardinality(Stored) <= MaxRefunds
    /\ Cardinality(Stored) > 1 =>
         \A x \in Stored : refund[x].state \in {"REQUESTED", "PROCESSING", "SUCCEEDED"}
    /\ booking.state = "CANCELLED_BY_CUSTOMER" /\ booking.option = "FULL_100"
    /\ now = IF decision = None THEN 0 ELSE decision.cancelledAt
    /\ \A p \in Attempts : attempt[p] = None \/ attempt[p].state \in {"PAID", "SUPERSEDED"}

RefundsLast ==
  Stored # {} => UNCHANGED <<now, hold, booking, attempt, capture, decision>>

(* Nothing reads the clock once the booking is closed for good and decided.  *)
ClockMatters ==
  now' # now => booking = None \/ decision = None \/ ~isTerminalBooking(booking.state)

Symmetry == Permutations(Attempts) \cup Permutations(Captures)
==============================================================================
