----------------------------- MODULE MCCheckout -----------------------------
(* Constants for model checking Checkout. *)
EXTENDS Checkout, TLC

CONSTANTS c1, c2, c3, c4

AnyOrder == Permutations(Attempts)
=============================================================================
