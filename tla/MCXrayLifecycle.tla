-------------------------- MODULE MCXrayLifecycle --------------------------
(* XrayLifecycle on small instances. *)
EXTENDS XrayLifecycle, TLC

\* Clients, credentials and static sections are only compared for equality.
Symmetry == Permutations(Users) \cup Permutations(Creds) \cup Permutations(Statics)
=============================================================================
