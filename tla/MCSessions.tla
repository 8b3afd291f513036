---- MODULE MCSessions ----
(* Small instances of Sessions. *)
EXTENDS Sessions, TLC

Symmetric == Permutations(Users) \cup Permutations(Browsers) \cup Permutations(Tokens)
====
