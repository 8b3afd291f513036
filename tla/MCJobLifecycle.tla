--------------------------- MODULE MCJobLifecycle ---------------------------
(* JobLifecycle on small instances.                                        *)
EXTENDS JobLifecycle, TLC

\* Coroutines are interchangeable, and so are jobs.
ProcSymmetry == Permutations(Procs)
Symmetry == ProcSymmetry \cup Permutations(Jobs)

=============================================================================
