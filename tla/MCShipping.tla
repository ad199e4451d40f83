----------------------------- MODULE MCShipping -----------------------------
(* Model-checking instances of Shipping: the lists of methods the server may *)
(* return, given in the configurations.                                      *)
EXTENDS Shipping, TLC

CONSTANTS m1, m2, m3

\* A region with two methods and one with one.
TwoOrOne == {<<m1, m2>>, <<m3>>}

Symmetric == Permutations(Slots)
=============================================================================
