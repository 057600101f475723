--------------------------- MODULE MCFairWorkers ---------------------------
(***************************************************************************)
(* Constants for model checking FairWorkers: which tenant and queue a task *)
(* is of.                                                                  *)
(***************************************************************************)
EXTENDS FairWorkers, TLC

CONSTANTS a, b

OneEach == 1 :> a @@ 2 :> b

OneWatched == 1 :> 2 @@ 2 :> 0
=============================================================================
