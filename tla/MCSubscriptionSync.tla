------------------------ MODULE MCSubscriptionSync --------------------------
(* Constants for model checking SubscriptionSync. *)
EXTENDS SubscriptionSync, TLC

CONSTANTS s1, s2, call, none, nightly

AnyOrder == Permutations(Subs)
=============================================================================
