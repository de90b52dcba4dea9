---------------------------- MODULE PrepaidWallet ----------------------------
(***************************************************************************)
(* What billing a request in advance promises, without how it is done: a   *)
(* request may hold part of the wallet; the hold is settled once, in one   *)
(* step, at the cost of the answer; what the wallet cannot cover is written*)
(* off, and then the wallet is empty.  A hold may also stay for ever: no   *)
(* code gives back what an aborted request holds.                          *)
(***************************************************************************)
EXTENDS Integers

CONSTANTS Requests, Costs, Tolerance

VARIABLES balance, stage, net, short

vars == <<balance, stage, net, short>>

Init ==
  /\ balance \in Nat
  /\ stage = [r \in Requests |-> "idle"]
  /\ net = [r \in Requests |-> 0]
  /\ short = [r \in Requests |-> 0]

\* Part of the wallet is set aside for r.
Hold(r) ==
  /\ stage[r] = "idle"
  /\ \E a \in 1 .. balance :
       /\ balance' = balance - a
       /\ net' = [net EXCEPT ![r] = a]
  /\ stage' = [stage EXCEPT ![r] = "held"]
  /\ UNCHANGED short

\* r pays c, up to the tolerance, out of what it holds and the wallet.
PayInFull(r, c) ==
  /\ \E paid \in 0 .. balance + net[r] :
       /\ paid - c \in -Tolerance .. Tolerance
       /\ balance' = balance + net[r] - paid
       /\ net' = [net EXCEPT ![r] = paid]
  /\ UNCHANGED short

\* The wallet does not cover c: r takes all there is, and the rest is a shortfall.
PayWhatThereIs(r, c) ==
  /\ balance + net[r] < c
  /\ balance' = 0
  /\ net' = [net EXCEPT ![r] = balance + net[r]]
  /\ short' = [short EXCEPT ![r] = c - (balance + net[r])]

Settle(r) ==
  /\ stage[r] = "held"
  /\ stage' = [stage EXCEPT ![r] = "settled"]
  /\ \E c \in Costs : PayInFull(r, c) \/ PayWhatThereIs(r, c)

\* Recharges, plan charges and the like.
Elsewhere ==
  /\ balance' \in Nat
  /\ UNCHANGED <<stage, net, short>>

Next == Elsewhere \/ \E r \in Requests : Hold(r) \/ Settle(r)

Spec == Init /\ [][Next]_vars
=============================================================================
