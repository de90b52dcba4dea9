--------------------------------- MODULE Sums ---------------------------------
(* The sum of a function over a finite set: of what is in a wallet's rows, say. *)
EXTENDS Integers, FiniteSetsExt

Sum(f, S) == MapThenSumSet(LAMBDA x : f[x], S)
=============================================================================
