---------------------------- MODULE MCPlainBilling ----------------------------
(* Instances of PlainBilling for TLC. *)
EXTENDS PlainBillingRefines

CONSTANTS r1, r2, r3, r4, k1

\* Two /v1/chat/completions requests that carry the same key, both priced.
ChatEndpoint == [r \in Requests |-> "chat"]
SameKey == [r \in Requests |-> k1]
Priced == [r \in Requests |-> IF r = r1 THEN 3 ELSE 5]

\* The four others; the model of /v1/chat has no price.
OtherEndpoint ==
  [r \in Requests |->
     CASE r = r1 -> "proxy" [] r = r2 -> "simple" [] r = r3 -> "web" [] r = r4 -> "legacy"]
OneUnpriced == [r \in Requests |-> IF r = r2 THEN 0 ELSE 3]
=============================================================================
