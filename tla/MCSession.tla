----------------------------- MODULE MCSession -----------------------------
(* Instances of Session for TLC: the values are in the .cfg files. *)
EXTENDS Session, TLC

\* Sign-ins are interchangeable.
FlowSymmetry == Permutations(Flows)
=============================================================================
