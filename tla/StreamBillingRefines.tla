------------------------ MODULE StreamBillingRefines ------------------------
(* The streaming handlers implement PrepaidWallet. *)
EXTENDS StreamBilling

\* The abstract stage of a request: settled once the reconciliation committed; until
\* then, and for ever when its write was lost, it holds what its pre-reserve took.
Reconciled(r) ==
  /\ pc[r] \in {"releasing", "done", "cut"} /\ reserve[r] > 0
  /\ ~Unsettled(r)

Stage == [r \in Requests |->
            IF Reconciled(r) THEN "settled" ELSE IF net[r] > 0 THEN "held" ELSE "idle"]

\* What r's answer cost beyond what the wallet covered, audited or not.
WrittenOff == [r \in Requests |-> IF "audit" \in lost[r] THEN cost[r] - net[r] ELSE short[r]]

Abstract == INSTANCE PrepaidWallet WITH stage <- Stage, short <- WrittenOff

\* Every step of every handler, interleaved with every other writer of the wallet, is a
\* hold, one settlement at the quoted cost, or a step that moves no money of a request:
\* the two transactions of _settle_over_reserve look like one.
ImplementsPrepaidWallet == Abstract!Spec
=============================================================================
