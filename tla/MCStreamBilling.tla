--------------------------- MODULE MCStreamBilling ---------------------------
(* Instances of StreamBilling for TLC. *)
EXTENDS StreamBillingRefines

CONSTANTS r1, r2, r3, k1

\* Two /v1/chat/completions streams that carry the same key, both priced.
ChatEndpoint == [r \in Requests |-> "chat"]
SameKey == [r \in Requests |-> k1]
Priced == [r \in Requests |-> IF r = r1 THEN 3 ELSE 5]

\* The three others: the proxy's worst case is above what an answer costs, the legacy
\* one's below, and the web stream's model has no price.
OtherEndpoint ==
  [r \in Requests |-> CASE r = r1 -> "proxy" [] r = r2 -> "web" [] r = r3 -> "legacy"]
NoKeys == [r \in Requests |-> NoKey]
OneUnpriced == [r \in Requests |-> CASE r = r1 -> 5 [] r = r2 -> 0 [] r = r3 -> 1]
=============================================================================
