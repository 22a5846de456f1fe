---------------------------- MODULE MCReservations ----------------------------
(* Small inventories: every diamond starts in stock.                       *)
EXTENDS Reservations, TLC

InStock == [d \in Diamond |-> "In Stock"]

Symmetry == Permutations(Customer) \cup Permutations(Diamond)
=============================================================================
