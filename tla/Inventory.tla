------------------------------ MODULE Inventory ------------------------------
(***************************************************************************)
(* What the reservation code promises about the nights of the units, with  *)
(* no transactions, locks, clocks or statuses: claims (a booking, a hold   *)
(* or a block on a stay of a unit) are granted and released.               *)
(*                                                                         *)
(* The promise has two tiers, because the code has two kinds of writer.    *)
(* The operations that lock the unit and check it grant a claim only over  *)
(* nights that are free. The payment notification does neither: it may     *)
(* put back a booking that had let its nights go, and only the exclusion   *)
(* constraint of the database, which covers bookings alone, limits it.     *)
(* Such a claim is "reinstated", and is the one excuse for a conflict.     *)
(***************************************************************************)
EXTENDS StayIntervals

CONSTANTS
  Holders,   \* identities of bookings, holds and blocks
  Units,     \* the rental units
  Free       \* "this identity claims nothing now", which is no Claim

Kinds == {"booking", "hold", "block"}

Claim == [kind: Kinds, unit: Units, stay: Stay, reinstated: BOOLEAN]

VARIABLE granted    \* what each identity claims now

Held(c) == granted[c] # Free

Conflict(a, b) == a.unit = b.unit /\ Overlaps(a.stay, b.stay)

(* The exclusion constraint: no booking is over another.                   *)
ClearOfBookings(c, r) ==
  \A d \in Holders \ {c} :
    Held(d) /\ granted[d].kind = "booking" => ~ Conflict(r, granted[d])

(* The check under the unit lock: no claim it could see is over the stay.  *)
ClearOfClaims(c, r) ==
  \A d \in Holders \ {c} :
    Held(d) /\ ~ granted[d].reinstated => ~ Conflict(r, granted[d])

Init == granted = [c \in Holders |-> Free]

Grant(c, r) ==
  /\ ~ Held(c)
  /\ ~ r.reinstated
  /\ ClearOfClaims(c, r)
  /\ r.kind = "booking" => ClearOfBookings(c, r)
  /\ granted' = [granted EXCEPT ![c] = r]

Reinstate(c, r) ==
  /\ ~ Held(c)
  /\ r.reinstated /\ r.kind = "booking"
  /\ ClearOfBookings(c, r)
  /\ granted' = [granted EXCEPT ![c] = r]

(* Cancellation, check-out, unblocking; or the clock, for several holds.   *)
Release(S) ==
  granted' = [c \in Holders |-> IF c \in S THEN Free ELSE granted[c]]

Next ==
  \/ \E S \in SUBSET Holders : Release(S)
  \/ \E c \in Holders, r \in Claim : Grant(c, r) \/ Reinstate(c, r)

Spec == Init /\ [][Next]_granted

-----------------------------------------------------------------------------
TypeOK == granted \in [Holders -> Claim \cup {Free}]

(* No two bookings ever hold a common night of one unit.                   *)
BookingsDisjoint ==
  \A c, d \in Holders :
    /\ c # d /\ Held(c) /\ Held(d)
    /\ granted[c].kind = "booking" /\ granted[d].kind = "booking"
    => ~ Conflict(granted[c], granted[d])

(* Where any two claims share a night, a payment notification put one of   *)
(* them back: the locked operations alone never make a conflict.           *)
ConflictsAreReinstated ==
  \A c, d \in Holders :
    c # d /\ Held(c) /\ Held(d) /\ Conflict(granted[c], granted[d])
    => granted[c].reinstated \/ granted[d].reinstated
=============================================================================
