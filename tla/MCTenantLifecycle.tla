------------------------- MODULE MCTenantLifecycle -------------------------
(***************************************************************************)
(* Symmetry for model checking TenantLifecycle.                            *)
(***************************************************************************)
EXTENDS TenantLifecycle, TLC

Symmetries == Permutations(Threads) \cup Permutations(Versions)
=============================================================================
