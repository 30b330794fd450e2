----------------------------- MODULE MCNodeSync -----------------------------
(* NodeSync on small instances. *)
EXTENDS NodeSync, TLC

\* Clients are only compared for equality.
Symmetry == Permutations(Clients)
=============================================================================
