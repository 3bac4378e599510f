------------------------------ MODULE MCCheckout ------------------------------
(* One unit that may cost two prices, whose cents do not divide evenly, a  *)
(* daily rate with a minimum stay, and two promotions.                     *)
EXTENDS Checkout, TLC

CONSTANTS u1, p1

MCPropertyOf == u1 :> p1

MCTerms == {
  [basePrice |-> 3, cleaningFee |-> 1, serviceFeeRate |-> 1250, depositRate |-> 3333, maxGuests |-> 2],
  [basePrice |-> 3, cleaningFee |-> 1, serviceFeeRate |-> 1250, depositRate |-> 10000, maxGuests |-> 2],
  [basePrice |-> 4, cleaningFee |-> 0, serviceFeeRate |-> 0, depositRate |-> 3000, maxGuests |-> 1]}

MCSpecial == u1 :> (0 :> None @@ 1 :> [amount |-> 2, minStay |-> 2])

MCPromotions == {
  [percentOff |-> 1234, amountOff |-> None, endsAt |-> 0],
  [percentOff |-> None, amountOff |-> 9, endsAt |-> 1]}
===============================================================================
