---- MODULE MCSpendLimit ----
(* Small instances of SpendLimit. *)
EXTENDS SpendLimit, TLC

Symmetry == Permutations(Jobs)
====
