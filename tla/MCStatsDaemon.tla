--------------------------- MODULE MCStatsDaemon ---------------------------
(***************************************************************************)
(* Constants for model checking StatsDaemon: a tier of policy.rs and a     *)
(* policy an operator may set.                                             *)
(***************************************************************************)
EXTENDS StatsDaemon, TLC

Tier(rate, burst, maxInflight) ==
  [rate |-> rate, burst |-> burst, maxInflight |-> maxInflight]

Premium == {Tier(1000, 1000, 5000)}
Narrower == {Tier(50, 60, 10)}
=============================================================================
