-------------------------------- MODULE Ledger --------------------------------
(***************************************************************************)
(* The credit side of one user's wallet (backend/database.py): the balance *)
(* in `wallets` and the rows of `wallet_transactions` that carry an        *)
(* expiry.  An order that is approved adds a recharge row and, if it has a *)
(* bonus, a bonus row; a row that has expired is debited by the daily      *)
(* sweep; a refund marks rows as reversed.  The sweep lists its rows       *)
(* first and debits them one transaction at a time.                        *)
(*                                                                         *)
(* A request of StreamBilling or PlainBilling takes its reserve out of the *)
(* wallet and may put part of it back much later.  While it is in flight,  *)
(* no sweep and no refund sees it; and what is put back has no row, or a   *)
(* row of its own, whatever became of the row it came from.                *)
(*                                                                         *)
(* Amounts are whole credits.                                              *)
(***************************************************************************)
EXTENDS Sums

CONSTANTS
  Orders,
  MaxCredits,    \* bound: how often one order may be credited
  Spendings,     \* amounts of debits and reserves for usage
  MaxHeld,       \* bound: credits in flight at a time
  MaxRenewed     \* bound: credits in refund rows at a time

ASSUME LedgerAssumption ==
  /\ IsFiniteSet(Orders)
  /\ MaxCredits \in Nat
  /\ Spendings \subseteq Nat
  /\ MaxHeld \in Nat /\ MaxRenewed \in Nat

VARIABLES
  balance,   \* wallets.balance
  row,       \* row[r]: expires_at and expiry_debited of the row
  worth,     \* worth[r]: its amount
  listed,    \* the rows a running sweep has still to visit
  held,      \* the reserves of requests in flight
  renewed    \* what the rows of returned reserves hold that can still expire

flight == <<held, renewed>>
ledgerVars == <<balance, row, worth, listed, flight>>

\* The n-th recharge or bonus row that was written for an order.
Rows == Orders \X {"recharge", "bonus"} \X (1..MaxCredits)

\* live: not expired.  lapsed: expires_at <= now.  gone: expiry_debited = 1.
LedgerTypeOK ==
  /\ balance \in Nat
  /\ row \in [Rows -> {"none", "live", "lapsed", "gone"}]
  /\ worth \in [Rows -> Nat]
  /\ listed \subseteq Rows
  /\ held \in Nat /\ renewed \in Nat

LedgerInit ==
  /\ balance = 0
  /\ row = [r \in Rows |-> "none"]
  /\ worth = [r \in Rows |-> 0]
  /\ listed = {}
  /\ held = 0 /\ renewed = 0

Lesser(a, b) == IF a < b THEN a ELSE b

\* grant_credits for the two parts of an order; a part of zero writes no row.
Grant(o, n, base, bonus) ==
  LET part == [r \in Rows |-> CASE r = <<o, "recharge", n>> -> base
                                [] r = <<o, "bonus", n>> -> bonus
                                [] OTHER -> 0]
  IN /\ row' = [r \in Rows |-> IF part[r] > 0 THEN "live" ELSE row[r]]
     /\ worth' = [r \in Rows |-> IF part[r] > 0 THEN part[r] ELSE worth[r]]
     /\ balance' = balance + base + bonus
     /\ UNCHANGED <<listed, flight>>

\* The rows of order o that a refund may still reverse, and those it comes to before r:
\* bonus rows first, each kind from the oldest.
Reversible(o) == {r \in Rows : r[1] = o /\ row[r] \in {"live", "lapsed"}}
Earlier(r) == {q \in Reversible(r[1]) : \/ q[2] = "bonus" /\ r[2] = "recharge"
                                        \/ q[2] = r[2] /\ q[3] < r[3]}

\* Of these it marks rows until their amounts cover the debit.
Covering(o, debit) ==
  {r \in Reversible(o) : Sum(worth, Earlier(r)) < debit}

\* A refund debits what the wallet has of the target.
TakeBack(o, target) ==
  LET debit == Lesser(target, balance)
  IN /\ balance' = balance - debit
     /\ row' = [r \in Rows |-> IF r \in Covering(o, debit) THEN "gone" ELSE row[r]]
     /\ UNCHANGED <<worth, listed, flight>>

----------------------------------------------------------------------------

\* The clock passes a row's expires_at.
Lapse(r) ==
  /\ row[r] = "live"
  /\ row' = [row EXCEPT ![r] = "lapsed"]
  /\ UNCHANGED <<balance, worth, listed, flight>>

\* sweep_expired_credits reads its candidates, outside any transaction.
ListExpired ==
  /\ listed = {}
  /\ \E r \in Rows : row[r] = "lapsed"
  /\ listed' = {r \in Rows : row[r] = "lapsed"}
  /\ UNCHANGED <<balance, row, worth, flight>>

\* Faulty variant: the flag is left alone when the wallet does not cover the row.
SweepRowUnlessShort(r) ==
  /\ r \in listed
  /\ balance' = balance - Lesser(worth[r], balance)
  /\ row' = [row EXCEPT ![r] = IF balance < worth[r] THEN @ ELSE "gone"]
  /\ listed' = listed \ {r}
  /\ UNCHANGED <<worth, flight>>

\* Faulty variant: a row that the wallet does not cover is marked and not debited.
SweepRowUnlessCovered(r) ==
  /\ r \in listed
  /\ balance' = IF balance < worth[r] THEN balance ELSE balance - worth[r]
  /\ row' = [row EXCEPT ![r] = "gone"]
  /\ listed' = listed \ {r}
  /\ UNCHANGED <<worth, flight>>

\* One row of the list: debit what the wallet has of it, and mark it.  The row itself is
\* not looked at again.
SweepRow(r) ==
  /\ r \in listed
  /\ balance' = balance - Lesser(worth[r], balance)
  /\ row' = [row EXCEPT ![r] = "gone"]
  /\ listed' = listed \ {r}
  /\ UNCHANGED <<worth, flight>>

\* The worker process ends in the middle of a sweep.
SweepDies ==
  /\ listed # {}
  /\ listed' = {}
  /\ UNCHANGED <<balance, row, worth, flight>>

\* The row of a returned reserve expires and is swept.  No refund of an order reverses
\* such a row, so that it does not matter when the sweep has read it.
SweepRenewed(c) ==
  /\ 0 < c /\ c <= renewed
  /\ balance' = balance - Lesser(c, balance)
  /\ renewed' = renewed - c
  /\ UNCHANGED <<row, worth, listed, held>>

\* charge_for_usage_atomic: usage is debited when the answer is there, never below zero.
Spend(c) ==
  /\ balance >= c
  /\ balance' = balance - c
  /\ UNCHANGED <<row, worth, listed, flight>>

\* update_wallet(-c, "reserve").
Reserve(c) ==
  /\ balance >= c /\ held + c <= MaxHeld
  /\ balance' = balance - c
  /\ held' = held + c
  /\ UNCHANGED <<row, worth, listed, renewed>>

\* update_wallet(part, "refund") of a reserve c; the rest is consumed, and nothing goes
\* back when the process dies or the refund fails.  The stream passes expires_at=None, so
\* that its row never expires; the other refunds get a fresh expiry.
ReturnReserve(c, part) ==
  /\ c <= held /\ part <= c
  /\ held' = held - c
  /\ balance' = balance + part
  /\ \/ UNCHANGED renewed
     \/ part > 0 /\ renewed + part <= MaxRenewed /\ renewed' = renewed + part
  /\ UNCHANGED <<row, worth, listed>>

----------------------------------------------------------------------------

\* The credits that can still expire.
Open == {r \in Rows : row[r] \in {"live", "lapsed"}}
Backing == Sum(worth, Open) + renewed

\* The credits in the wallet and in flight that no row stands for any more.
Unbacked == balance + held - Backing

\* sweep_expired_credits: "Debit each expired credit entry exactly once".  A row that a
\* refund has reversed is not debited again by a sweep that listed it before.
SweptOnce == [][\A r \in listed \ listed' : balance' < balance => row[r] = "lapsed"]_ledgerVars
=============================================================================
