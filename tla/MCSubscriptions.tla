---------------------------- MODULE MCSubscriptions ----------------------------
(* Instances of Subscriptions for TLC. *)
EXTENDS Subscriptions
CONSTANTS p1, p2
OneAndTwo == [p \in Plans |-> IF p = p1 THEN 1 ELSE 2]
OneAndZero == [p \in Plans |-> IF p = p1 THEN 1 ELSE 0]
=============================================================================
