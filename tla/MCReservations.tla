---------------------------- MODULE MCReservations ----------------------------
(* Small instances of Reservations for TLC. Units, keys and sessions are   *)
(* interchangeable.                                                        *)
EXTENDS Reservations, TLC

(* Every unit asks a deposit.                                              *)
MCStartLevel == [u \in Units |-> 0]

Symmetry == Permutations(Units) \cup Permutations(Rows) \cup Permutations(Tx)
=============================================================================
