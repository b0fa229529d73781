--------------------------- MODULE MCRentPayments ---------------------------
(* RentPayments for TLC: payment identifiers are interchangeable. *)
EXTENDS RentPayments, TLC

PaymentSymmetry == Permutations(Payments)
=============================================================================
