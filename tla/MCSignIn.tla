------------------------------- MODULE MCSignIn -------------------------------
(* Instances of SignIn for TLC. *)
EXTENDS SignIn
CONSTANTS n1, o1, i1
=============================================================================
