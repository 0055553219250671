---------------------------- MODULE MCLifecycle ----------------------------
(* Instances of Lifecycle for TLC. *)
EXTENDS Lifecycle, TLC

\* Session ids and processes are interchangeable (safety runs only).
Symmetry == Permutations(Session) \cup Permutations(Proc)
=============================================================================
