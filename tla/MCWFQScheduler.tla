--------------------------- MODULE MCWFQScheduler ---------------------------
(***************************************************************************)
(* Constants for model checking WFQScheduler: a light and a heavy policy,  *)
(* and the request of which the heavy tenant's share is rounded down: in   *)
(* double precision 22 * (15 / 22) is less than 15.                        *)
(***************************************************************************)
EXTENDS WFQScheduler, TLC

Light == [weight |-> 7, maxInflight |-> 1, burst |-> 7]
Heavy == [weight |-> 15, maxInflight |-> 2, burst |-> 15]
TwoTiers == {Light, Heavy}

HeavyShare == {<<22, 15, 22>>}

CallerSymmetry == Permutations(Callers)
=============================================================================
