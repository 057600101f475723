--------------------------------- MODULE Sums ---------------------------------
(***************************************************************************)
(* The sum of a function over a set, as the scheduling modules need it.    *)
(***************************************************************************)
EXTENDS Integers, FiniteSetsExt

\* The sum of f[t] for t in S.
Sum(f, S) == MapThenSumSet(LAMBDA t : f[t], S)
=============================================================================
