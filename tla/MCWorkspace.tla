----------------------------- MODULE MCWorkspace -----------------------------
(* Workspace on small instances.                                           *)
EXTENDS Workspace, TLC

\* Requests are interchangeable, and so are branch names.
Symmetry == Permutations(Requests) \cup Permutations(Names)

=============================================================================
