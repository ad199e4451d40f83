------------------------------ MODULE MCCart ------------------------------
(* Model-checking instances of Cart. *)
EXTENDS Cart, TLC

Symmetric == Permutations(Slots) \cup Permutations(Products)
============================================================================
