------------------------------- MODULE MCAccess -------------------------------
(* Instances of Access for TLC. *)
EXTENDS Access, TLC
CONSTANTS u1, a1, a2, w1, w2
Sym == Permutations(Admins) \union Permutations(Threads)
=============================================================================
