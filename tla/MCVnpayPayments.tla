--------------------------- MODULE MCVnpayPayments ---------------------------
(* Small instances of VnpayPayments for TLC. References, handlers and      *)
(* requests are interchangeable; so are bookings.                          *)
EXTENDS VnpayPayments, TLC

Symmetry ==
  Permutations(Links) \cup Permutations(Requests) \cup Permutations(Handlers)
    \cup Permutations(Payers) \cup Permutations(Bookings)
=============================================================================
