----------------------------- MODULE MCCheckout -----------------------------
(* Model-checking instances of Checkout. *)
EXTENDS Checkout, TLC

Symmetric ==
    Permutations(Slots) \cup Permutations(Methods) \cup Permutations(Addresses)
=============================================================================
