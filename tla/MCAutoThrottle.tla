--------------------------- MODULE MCAutoThrottle ---------------------------
(***************************************************************************)
(* Constants for model checking AutoThrottle: the tiers of policy.rs and a *)
(* policy an operator may set.                                             *)
(***************************************************************************)
EXTENDS AutoThrottle, TLC

Tier(rate, burst, maxInflight) ==
  [rate |-> rate, burst |-> burst, maxInflight |-> maxInflight]

Standard == {Tier(100, 100, 500)}
NoUpdates == {}
=============================================================================
