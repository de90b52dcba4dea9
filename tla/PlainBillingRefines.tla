------------------------- MODULE PlainBillingRefines -------------------------
(***************************************************************************)
(* The plain handlers that bill in one piece implement PrepaidWallet: chat *)
(* reserves and settles, legacy and web hold and settle the cost itself.   *)
(* proxy and simple are among the others who use the wallet: they refund   *)
(* an answer without cost twice and charge on top of the reserve when a    *)
(* statement fails.                                                        *)
(***************************************************************************)
EXTENDS PlainBilling

Billed == {r \in Requests : Endpoint[r] \in {"chat", "legacy", "web"}}

\* What r paid is final: the cost of its answer up to the tolerance, or nothing for an
\* answer that is free.  A reserve that is not given back is never final.  Without a
\* reserve the response is what makes a charge final.
Settled(r) ==
  IF reserve[r] > 0
    THEN \/ /\ outcome[r] = "served" \/ "settlement" \in lost[r]
            /\ net[r] - cost[r] \in -Tolerance .. Tolerance
         \/ outcome[r] \in {"failed", "replayed", "blank"} /\ net[r] = 0
    ELSE pc[r] = "done" /\ net[r] > 0

Stage == [r \in Billed |->
            IF Settled(r) THEN "settled" ELSE IF net[r] > 0 THEN "held" ELSE "idle"]

NetOfBilled == [r \in Billed |-> net[r]]

\* An answer the wallet does not cover is declined: nothing is written off.
Abstract == INSTANCE PrepaidWallet WITH
  Requests <- Billed, Costs <- Costs \union {0},
  stage <- Stage, net <- NetOfBilled, short <- [r \in Billed |-> 0]

\* Every step of a chat, legacy or web request, interleaved with every other writer of the
\* wallet, with crashes and database errors, is a hold, one settlement at the cost of the
\* answer (at nothing when there is none), or a step that moves no money of the request:
\* nothing is refunded twice, and nothing is taken after the settlement.
ImplementsPrepaidWallet == Abstract!Spec
=============================================================================
