------------------------------- MODULE MCOrders -------------------------------
(* Instances of Orders for TLC. *)
EXTENDS Orders
CONSTANT o1
One == [o \in Orders |-> 1]
Two == [o \in Orders |-> 2]
Zero == [o \in Orders |-> 0]
=============================================================================
