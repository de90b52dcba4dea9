----------------------------- MODULE PlainBilling -----------------------------
(***************************************************************************)
(* The billing life of a request whose answer comes in one piece.          *)
(*   "chat"    POST /v1/chat/completions           routes/openai_compat.py *)
(*   "legacy"  POST /v1/completions                routes/openai_compat.py *)
(*   "proxy"   POST /v1/text/chatcompletion_v2     routes/proxy.py         *)
(*   "simple"  POST /v1/chat                       routes/proxy.py         *)
(*   "web"     POST /chat/send                     routes/chat.py          *)
(* chat, proxy and simple reserve the worst case first and settle it at    *)
(* the end; legacy and web debit the cost when the answer is there.        *)
(*                                                                         *)
(* As in StreamBilling: one event loop, one user, one database transaction *)
(* per action, other threads write the wallet between any two of them, and *)
(* amounts are whole millionths of a credit.  lost[r] names the writes of  *)
(* r that the database refused.                                            *)
(***************************************************************************)
EXTENDS Sums

CONSTANTS
  Requests, NoRequest,
  Keys, NoKey,
  Endpoint, KeyOf,  \* route and Idempotency-Key header of each request
  MaxCost,          \* MaxCost[r]: worst-case quote; 0 for an unpriced model
  Costs,            \* quotes an answer of a priced model can have
  Tolerance,        \* differences the chat reconciliation ignores
  InitBalance,
  Amounts,          \* amounts of top-ups and of other debits
  MaxBalance,       \* bound: top-ups stop here
  MaxMishaps        \* bound: deaths of the process and writes lost by the database

Endpoints == {"chat", "legacy", "proxy", "simple", "web"}

ASSUME RequestsAssumption == NoRequest \notin Requests
ASSUME FiniteAssumption == IsFiniteSet(Requests)
ASSUME KeysAssumption == NoKey \notin Keys
ASSUME RouteAssumption ==
  /\ Endpoint \in [Requests -> Endpoints]
  /\ KeyOf \in [Requests -> Keys \union {NoKey}]
  /\ MaxCost \in [Requests -> Nat]
ASSUME AmountAssumption ==
  /\ Costs \subseteq Nat /\ Tolerance \in Nat
  /\ InitBalance \in Nat /\ Amounts \subseteq Nat
  /\ MaxBalance \in Nat /\ MaxMishaps \in Nat

VARIABLES
  balance,   \* wallets.balance
  resv,      \* requests with a token_reservations row
  keyState,  \* keyState[k]: the idempotency_keys row of k
  keyOwner,  \* keyOwner[k]: the request that inserted it
  loop,      \* the coroutine between two awaits
  pc,        \* pc[r]: where request r is
  outcome,   \* outcome[r]: what the client is answered
  reserve,   \* reserve[r]: cost_reserve
  cost,      \* cost[r]: the quote of the answer's tokens
  net,       \* net[r]: debits minus refunds of r on the wallet
  logged,    \* logged[r]: cost_credits of r's usage_logs row, or NoRow
  funds,     \* credits that entered the wallet from elsewhere, minus those that left
  crashes,
  lost       \* lost[r]: the writes of r that the database refused

wallet == <<balance, funds>>
keyRows == <<keyState, keyOwner>>
books == <<reserve, cost, net>>
mishaps == <<crashes, lost>>
vars == <<balance, resv, keyState, keyOwner, loop, pc, outcome, reserve, cost,
          net, logged, funds, crashes, lost>>

NoRow == -1

\* Places between two awaits.  The only await is the call of the upstream ("asking").
Held == {"passed", "admitted", "quoted", "reserved", "refunding", "answered",
         "written", "topping", "charging", "backfill", "finalize", "leaving",
         "breaking", "unkeying"}
Busy == Held \union {"asking"}
Ended == {"refused", "unfunded", "forbidden", "crashed", "done"}
\* The writes a request can lose.  Without "admission", "log" and, on two endpoints,
\* "settlement" it is answered 500; without "cost" it is charged in another way; the others
\* are swallowed where they fail.
Writes == {"admission", "reservation", "log", "refund", "settlement", "row", "cost",
           "charge", "key", "release"}
\* served: 200; failed: an upstream error; declined: 402 after the answer;
\* replayed: a stored response; blank: a stored row without a response; broken: 500.
Outcomes == {"none", "served", "failed", "declined", "replayed", "blank", "broken"}

TypeOK ==
  /\ balance \in Nat
  /\ resv \subseteq Requests
  /\ keyState \in [Keys -> {"free", "pending", "completed"}]
  /\ keyOwner \in [Keys -> Requests \union {NoRequest}]
  /\ loop \in Requests \union {NoRequest}
  /\ pc \in [Requests -> Busy \union Ended \union {"new"}]
  /\ outcome \in [Requests -> Outcomes]
  /\ reserve \in [Requests -> Nat]
  /\ cost \in [Requests -> Nat]
  /\ net \in [Requests -> Int]
  /\ logged \in [Requests -> Nat \union {NoRow}]
  /\ funds \in Int
  /\ crashes \in Nat
  /\ lost \in [Requests -> SUBSET Writes]

Init ==
  /\ balance = InitBalance
  /\ resv = {}
  /\ keyState = [k \in Keys |-> "free"]
  /\ keyOwner = [k \in Keys |-> NoRequest]
  /\ loop = NoRequest
  /\ pc = [r \in Requests |-> "new"]
  /\ outcome = [r \in Requests |-> "none"]
  /\ reserve = [r \in Requests |-> 0]
  /\ cost = [r \in Requests |-> 0]
  /\ net = [r \in Requests |-> 0]
  /\ logged = [r \in Requests |-> NoRow]
  /\ funds = InitBalance
  /\ crashes = 0
  /\ lost = [r \in Requests |-> {}]

Lesser(a, b) == IF a < b THEN a ELSE b

\* r's coroutine moves on: it keeps the loop, or gives it up.
Continue(r, s) == pc' = [pc EXCEPT ![r] = s] /\ loop' = r
Suspend(r, s) == pc' = [pc EXCEPT ![r] = s] /\ loop' = NoRequest

\* r runs from pc s: either it holds the loop, or it can be resumed.
Runs(r, s) == pc[r] = s /\ loop = (IF s \in Held THEN r ELSE NoRequest)

Mishaps == crashes + Cardinality({w \in Requests \X Writes : w[2] \in lost[w[1]]})

\* The writes ws of r fail (none of them, when ws is empty).
Loses(r, ws) ==
  /\ Mishaps + Cardinality(ws) <= MaxMishaps
  /\ lost' = [lost EXCEPT ![r] = @ \union ws]

\* r moves c credits out of the wallet (into it when c is negative).
Debit(r, c) ==
  /\ balance' = balance - c
  /\ net' = [net EXCEPT ![r] = @ + c]
  /\ UNCHANGED funds

ReservesFirst(r) == Endpoint[r] \in {"chat", "proxy", "simple"}
UsesKey(r) == Endpoint[r] = "chat" /\ KeyOf[r] # NoKey
CostsOf(r) == IF MaxCost[r] = 0 THEN {0} ELSE Costs

----------------------------------------------------------------------------
(* Admission *)

\* A zero balance blocks priced models; the OpenAI routes refuse it for every model.
GateAllows(r) == balance > 0 \/ (MaxCost[r] = 0 /\ Endpoint[r] \notin {"chat", "legacy"})

PassGate(r) ==
  /\ pc[r] = "new" /\ loop = NoRequest
  /\ GateAllows(r)
  /\ Continue(r, "passed")
  /\ UNCHANGED <<wallet, resv, keyRows, outcome, books, logged, mishaps>>

\* Any dimension of the gate may refuse: the quota windows are StreamBilling's subject.
Refuse(r) ==
  /\ pc[r] = "new" /\ loop = NoRequest
  /\ Suspend(r, "refused")
  /\ UNCHANGED <<wallet, resv, keyRows, outcome, books, logged, mishaps>>

\* reserve_quota_reservation, whose failed insert is passed over; legacy and web then
\* call the upstream.
Admit(r) ==
  /\ Runs(r, "passed")
  /\ \/ resv' = resv \union {r} /\ UNCHANGED lost
     \/ Loses(r, {"reservation"}) /\ UNCHANGED resv
  /\ IF ReservesFirst(r) THEN Continue(r, "admitted") ELSE Suspend(r, "asking")
  /\ UNCHANGED <<wallet, keyRows, outcome, books, logged, crashes>>

\* A database error before the upstream is called: 500, and nothing is given back, neither
\* the token_reservations row nor what update_wallet has taken.
Break(r) ==
  /\ \/ \E s \in {"passed", "admitted", "quoted"} : Runs(r, s)
     \/ Endpoint[r] \in {"chat", "proxy"} /\ Runs(r, "reserved")
  /\ Loses(r, {"admission"})
  /\ reserve' = [reserve EXCEPT ![r] = IF pc[r] = "reserved" THEN @ ELSE 0]
  /\ outcome' = [outcome EXCEPT ![r] = "broken"]
  /\ Suspend(r, "done")
  /\ UNCHANGED <<wallet, resv, keyRows, cost, net, logged, crashes>>

\* 403 of the token policy: chatcompletion_v2 asks it after the wallet was debited,
\* /v1/chat before.  Neither gives anything back.
Forbid(r) ==
  /\ \/ Endpoint[r] = "proxy" /\ Runs(r, "reserved")
     \/ Endpoint[r] = "simple" /\ Runs(r, "admitted")
  /\ Suspend(r, "forbidden")
  /\ UNCHANGED <<wallet, resv, keyRows, outcome, books, logged, mishaps>>

\* cost_reserve = min(max_cost, wallet_balance).
QuoteReserve(r) ==
  /\ Runs(r, "admitted")
  /\ balance > 0 \/ (MaxCost[r] = 0 /\ Endpoint[r] # "chat")
  /\ reserve' = [reserve EXCEPT ![r] = Lesser(MaxCost[r], balance)]
  /\ Continue(r, "quoted")
  /\ UNCHANGED <<wallet, resv, keyRows, outcome, cost, net, logged, mishaps>>

\* 402: nothing to reserve.  The token_reservations row stays.
EmptyWallet(r) ==
  /\ Runs(r, "admitted")
  /\ balance = 0 /\ (MaxCost[r] > 0 \/ Endpoint[r] = "chat")
  /\ Suspend(r, "unfunded")
  /\ UNCHANGED <<wallet, resv, keyRows, outcome, books, logged, mishaps>>

\* update_wallet(-cost_reserve, "reserve").
PreReserve(r) ==
  /\ Runs(r, "quoted")
  /\ balance >= reserve[r]
  /\ Debit(r, reserve[r])
  /\ Continue(r, "reserved")
  /\ UNCHANGED <<resv, keyRows, outcome, reserve, cost, logged, mishaps>>

\* update_wallet raises ValueError: 402.
PreReserveFails(r) ==
  /\ Runs(r, "quoted")
  /\ balance < reserve[r]
  /\ reserve' = [reserve EXCEPT ![r] = 0]
  /\ Suspend(r, "unfunded")
  /\ UNCHANGED <<wallet, resv, keyRows, outcome, cost, net, logged, mishaps>>

\* check_or_reserve finds no row, or the request has no key.
Proceed(r) ==
  /\ Runs(r, "reserved")
  /\ IF UsesKey(r)
       THEN /\ keyState[KeyOf[r]] = "free"
            /\ keyState' = [keyState EXCEPT ![KeyOf[r]] = "pending"]
            /\ keyOwner' = [keyOwner EXCEPT ![KeyOf[r]] = r]
       ELSE UNCHANGED keyRows
  /\ Suspend(r, "asking")
  /\ UNCHANGED <<wallet, resv, outcome, books, logged, mishaps>>

\* check_or_reserve -> hit.  A row whose request is still under way is a hit as well:
\* its status_code 0 is answered as 200, its NULL body as null.
KeyHit(r) ==
  /\ UsesKey(r) /\ Runs(r, "reserved")
  /\ keyState[KeyOf[r]] # "free"
  /\ outcome' = [outcome EXCEPT ![r] =
       IF keyState[KeyOf[r]] = "completed" THEN "replayed" ELSE "blank"]
  /\ Continue(r, "refunding")
  /\ UNCHANGED <<wallet, resv, keyRows, books, logged, mishaps>>

----------------------------------------------------------------------------
(* The upstream *)

\* forward_request returns 200: it has inserted the usage row with the reported tokens.
Answer(r) ==
  /\ Runs(r, "asking")
  /\ \E c \in CostsOf(r) : cost' = [cost EXCEPT ![r] = c]
  /\ logged' = [logged EXCEPT ![r] = 0]
  /\ outcome' = [outcome EXCEPT ![r] = "served"]
  /\ Continue(r, IF Endpoint[r] = "web" THEN "charging" ELSE "answered")
  /\ UNCHANGED <<wallet, resv, keyRows, reserve, net, mishaps>>

\* forward_request returns an error, with a usage row without cost or, when the circuit
\* is open, without one.  /chat/send returns at once and keeps its reservation row.
UpstreamError(r) ==
  /\ Runs(r, "asking")
  /\ \E l \in {0, NoRow} : logged' = [logged EXCEPT ![r] = l]
  /\ outcome' = [outcome EXCEPT ![r] = "failed"]
  /\ CASE Endpoint[r] = "web" -> Suspend(r, "done")
       [] Endpoint[r] = "legacy" -> Continue(r, "leaving")
       [] OTHER -> Continue(r, "refunding")
  /\ UNCHANGED <<wallet, resv, keyRows, books, mishaps>>

\* forward_request raises: add_usage_log could not write.  Only chat catches it.
BlowUp(r) ==
  /\ Runs(r, "asking")
  /\ Loses(r, {"log"})
  /\ outcome' = [outcome EXCEPT ![r] = "broken"]
  /\ IF Endpoint[r] = "chat" THEN Continue(r, "breaking") ELSE Suspend(r, "done")
  /\ UNCHANGED <<wallet, resv, keyRows, books, logged, crashes>>

\* release_quota_reservation keeps an OperationalError to itself.
DropRow(r) ==
  \/ resv' = resv \ {r} /\ UNCHANGED lost
  \/ Loses(r, {"release"}) /\ UNCHANGED resv

\* The except clause of chat: release the row, then the key; the wallet is not refunded.
ReleaseBroken(r) ==
  /\ Runs(r, "breaking")
  /\ DropRow(r)
  /\ Continue(r, "unkeying")
  /\ UNCHANGED <<wallet, keyRows, outcome, books, logged, crashes>>

\* idempotency.release logs its errors.
ReleaseKey(r) ==
  /\ Runs(r, "unkeying")
  /\ \/ /\ UsesKey(r) /\ keyState[KeyOf[r]] = "pending"
        /\ keyState' = [keyState EXCEPT ![KeyOf[r]] = "free"]
        /\ keyOwner' = [keyOwner EXCEPT ![KeyOf[r]] = NoRequest]
        /\ UNCHANGED lost
     \/ ~(UsesKey(r) /\ keyState[KeyOf[r]] = "pending") /\ UNCHANGED <<keyRows, lost>>
     \/ UsesKey(r) /\ Loses(r, {"key"}) /\ UNCHANGED keyRows
  /\ Suspend(r, "done")
  /\ UNCHANGED <<wallet, resv, outcome, books, logged, crashes>>

\* Faulty variant: only what exceeds the quote of the empty answer is given back.
GiveBackPart(r) ==
  /\ Runs(r, "refunding")
  /\ Debit(r, -Lesser(reserve[r], 1))
  /\ Continue(r, IF UsesKey(r) /\ outcome[r] = "failed" THEN "finalize" ELSE "leaving")
  /\ UNCHANGED <<resv, keyRows, outcome, reserve, cost, logged, mishaps>>

\* The whole reserve goes back: an upstream error or an idempotent hit.  A refund that
\* fails is only logged, and the request keeps what it reserved.
GiveBack(r) ==
  /\ Runs(r, "refunding")
  /\ \/ Debit(r, -reserve[r]) /\ UNCHANGED lost
     \/ reserve[r] > 0 /\ Loses(r, {"refund"}) /\ UNCHANGED <<wallet, net>>
  /\ Continue(r, IF UsesKey(r) /\ outcome[r] = "failed" THEN "finalize" ELSE "leaving")
  /\ UNCHANGED <<resv, keyRows, outcome, reserve, cost, logged, crashes>>

----------------------------------------------------------------------------
(* Settlement of chat and legacy: the delta, then the usage row *)

\* What is still to be debited; negative for a refund.
Due(r) == cost[r] - reserve[r]

\* A reserve within the tolerance is the price; without a reserve the cost is debited.
NothingDue(r) == IF reserve[r] > 0 THEN Due(r) \in -Tolerance .. Tolerance ELSE cost[r] = 0

SettleExact(r) ==
  /\ Endpoint[r] \in {"chat", "legacy"} /\ Runs(r, "answered")
  /\ NothingDue(r)
  /\ Continue(r, "backfill")
  /\ UNCHANGED <<wallet, resv, keyRows, outcome, books, logged, mishaps>>

\* Faulty variant: the cost is debited on top of the reserve.
SettleDeltaWhole(r) ==
  /\ Endpoint[r] \in {"chat", "legacy"} /\ Runs(r, "answered")
  /\ ~NothingDue(r) /\ balance >= cost[r]
  /\ Debit(r, cost[r])
  /\ Continue(r, "backfill")
  /\ UNCHANGED <<resv, keyRows, outcome, reserve, cost, logged, mishaps>>

\* update_wallet refunds or debits the difference.
SettleDelta(r) ==
  /\ Endpoint[r] \in {"chat", "legacy"} /\ Runs(r, "answered")
  /\ ~NothingDue(r) /\ balance >= Due(r)
  /\ Debit(r, Due(r))
  /\ Continue(r, "backfill")
  /\ UNCHANGED <<resv, keyRows, outcome, reserve, cost, logged, mishaps>>

\* The refund of the unused part fails and is only logged: the answer cost its reserve.
SettleRefundLost(r) ==
  /\ Endpoint[r] = "chat" /\ Runs(r, "answered")
  /\ ~NothingDue(r) /\ Due(r) < 0
  /\ Loses(r, {"refund"})
  /\ Continue(r, "backfill")
  /\ UNCHANGED <<wallet, resv, keyRows, outcome, books, logged, crashes>>

\* The quote or the debit raises something else than the empty wallet: 500, for an answer
\* the upstream has produced.  legacy does not even release its token_reservations row.
SettleBreaks(r) ==
  /\ Endpoint[r] \in {"chat", "legacy"} /\ Runs(r, "answered")
  /\ Loses(r, {"settlement"})
  /\ outcome' = [outcome EXCEPT ![r] = "broken"]
  /\ IF Endpoint[r] = "chat" THEN Continue(r, "breaking") ELSE Suspend(r, "done")
  /\ UNCHANGED <<wallet, resv, keyRows, books, logged, crashes>>

\* update_wallet raises ValueError: 402 for an answer the upstream has produced.  The
\* reserve is kept and the usage row is left without cost.
Decline(r) ==
  /\ Endpoint[r] \in {"chat", "legacy"} /\ Runs(r, "answered")
  /\ ~NothingDue(r) /\ balance < Due(r)
  /\ outcome' = [outcome EXCEPT ![r] = "declined"]
  /\ Continue(r, IF UsesKey(r) THEN "finalize" ELSE "leaving")
  /\ UNCHANGED <<wallet, resv, keyRows, books, logged, mishaps>>

\* update_usage_log_cost, whose error is only logged.
Backfill(r) ==
  /\ Runs(r, "backfill")
  /\ \/ logged' = [logged EXCEPT ![r] = cost[r]] /\ UNCHANGED lost
     \/ cost[r] > 0 /\ Loses(r, {"row"}) /\ UNCHANGED logged
  /\ Continue(r, IF UsesKey(r) THEN "finalize" ELSE "leaving")
  /\ UNCHANGED <<wallet, resv, keyRows, outcome, books, crashes>>

\* idempotency.finalize stores whatever the response was, errors included; when it fails,
\* the response is sent all the same and the row stays pending.
Finalize(r) ==
  /\ Runs(r, "finalize")
  /\ \/ /\ keyState' = IF keyState[KeyOf[r]] # "free"
                          THEN [keyState EXCEPT ![KeyOf[r]] = "completed"] ELSE keyState
        /\ UNCHANGED lost
     \/ Loses(r, {"key"}) /\ UNCHANGED keyState
  /\ Continue(r, "leaving")
  /\ UNCHANGED <<wallet, resv, keyOwner, outcome, books, logged, crashes>>

----------------------------------------------------------------------------
(* Settlement of proxy and simple: the usage row, then the delta *)

\* UPDATE usage_logs SET cost_credits = actual_cost.
WriteCost(r) ==
  /\ Endpoint[r] \in {"proxy", "simple"} /\ Runs(r, "answered")
  /\ logged' = [logged EXCEPT ![r] = cost[r]]
  /\ Continue(r, "written")
  /\ UNCHANGED <<wallet, resv, keyRows, outcome, books, mishaps>>

\* The quote or the UPDATE raises: the fallback charges the row as if nothing were reserved.
WriteCostFails(r) ==
  /\ Endpoint[r] \in {"proxy", "simple"} /\ Runs(r, "answered")
  /\ Loses(r, {"cost"})
  /\ Continue(r, "charging")
  /\ UNCHANGED <<wallet, resv, keyRows, outcome, books, logged, crashes>>

\* Faulty variant: an underestimated request pays its cost on top of the reserve.
AdjustWhole(r) ==
  /\ Runs(r, "written")
  /\ IF reserve[r] > 0 /\ balance >= cost[r] /\ Due(r) > 0
       THEN Debit(r, cost[r])
       ELSE UNCHANGED <<wallet, net>>
  /\ Continue(r, "topping")
  /\ UNCHANGED <<resv, keyRows, outcome, reserve, cost, logged, mishaps>>

\* The difference to the reserve is refunded, or debited where the wallet covers it; a
\* refund or a debit that fails is only logged.
Adjust(r) ==
  /\ Runs(r, "written")
  /\ \/ reserve[r] > 0 /\ balance >= Due(r) /\ Debit(r, Due(r)) /\ UNCHANGED lost
     \/ ~(reserve[r] > 0 /\ balance >= Due(r)) /\ UNCHANGED <<wallet, net, lost>>
     \/ reserve[r] > 0 /\ Due(r) # 0 /\ Loses(r, {"settlement"}) /\ UNCHANGED <<wallet, net>>
  /\ Continue(r, "topping")
  /\ UNCHANGED <<resv, keyRows, outcome, reserve, cost, logged, crashes>>

\* actual_cost > 0: charge_for_usage finds the cost on the row and returns.
\* actual_cost = 0: the reserve is refunded, although Adjust has already done it.
TopOff(r) ==
  /\ Runs(r, "topping")
  /\ LET again == cost[r] = 0 /\ reserve[r] > 0
     IN \/ again /\ Debit(r, -reserve[r]) /\ UNCHANGED lost
        \/ ~again /\ UNCHANGED <<wallet, net, lost>>
        \/ again /\ Loses(r, {"refund"}) /\ UNCHANGED <<wallet, net>>
  /\ Continue(r, "leaving")
  /\ UNCHANGED <<resv, keyRows, outcome, reserve, cost, logged, crashes>>

----------------------------------------------------------------------------
(* charge_for_usage: web, and the fallback of proxy and simple *)

\* Faulty variant: the debit is committed and the row is left to a later transaction.
ChargeWithoutRow(r) ==
  /\ Runs(r, "charging")
  /\ IF balance >= cost[r] THEN Debit(r, cost[r]) ELSE UNCHANGED <<wallet, net>>
  /\ Continue(r, "leaving")
  /\ UNCHANGED <<resv, keyRows, outcome, reserve, cost, logged, mishaps>>

\* Faulty variant: the balance is clamped at zero and the row shows the whole cost.
ChargeClamped(r) ==
  /\ Runs(r, "charging")
  /\ balance' = balance - Lesser(balance, cost[r])
  /\ net' = [net EXCEPT ![r] = @ + cost[r]]
  /\ logged' = [logged EXCEPT ![r] = cost[r]]
  /\ Continue(r, "leaving")
  /\ UNCHANGED <<resv, keyRows, outcome, reserve, cost, funds, mishaps>>

\* charge_for_usage_atomic: debit and cost_credits in one transaction, or, when the
\* balance does not cover the cost, a row marked insufficient_balance.  The callers
\* swallow its errors: then the answer is free.
Charge(r) ==
  /\ Runs(r, "charging")
  /\ \/ /\ balance >= cost[r] /\ Debit(r, cost[r])
        /\ logged' = [logged EXCEPT ![r] = cost[r]]
        /\ UNCHANGED lost
     \/ /\ balance < cost[r] /\ UNCHANGED <<wallet, net>>
        /\ logged' = [logged EXCEPT ![r] = 0]
        /\ UNCHANGED lost
     \/ Loses(r, {"charge"}) /\ UNCHANGED <<wallet, net, logged>>
  /\ Continue(r, "leaving")
  /\ UNCHANGED <<resv, keyRows, outcome, reserve, cost, crashes>>

\* release_quota_reservation, and the response.
Leave(r) ==
  /\ Runs(r, "leaving")
  /\ DropRow(r)
  /\ Suspend(r, "done")
  /\ UNCHANGED <<wallet, keyRows, outcome, books, logged, crashes>>

----------------------------------------------------------------------------
(* Everyone else *)

TopUp(a) ==
  /\ balance + a <= MaxBalance
  /\ balance' = balance + a
  /\ funds' = funds + a
  /\ UNCHANGED <<resv, keyRows, loop, pc, outcome, books, logged, mishaps>>

OtherDebit(a) ==
  /\ balance >= a
  /\ balance' = balance - a
  /\ funds' = funds - a
  /\ UNCHANGED <<resv, keyRows, loop, pc, outcome, books, logged, mishaps>>

\* Freeze, password change, TTL and purge: r's token_reservations row is deleted.
DropReservation(r) ==
  /\ r \in resv
  /\ resv' = resv \ {r}
  /\ UNCHANGED <<wallet, keyRows, loop, pc, outcome, books, logged, mishaps>>

\* Faulty variant: the sweep takes only rows with a response.
DropCompletedKey(k) ==
  /\ keyState[k] = "completed"
  /\ keyState' = [keyState EXCEPT ![k] = "free"]
  /\ keyOwner' = [keyOwner EXCEPT ![k] = NoRequest]
  /\ UNCHANGED <<wallet, resv, loop, pc, outcome, books, logged, mishaps>>

\* Faulty variant: the sweep takes rows of requests that are under way.
DropAnyKey(k) ==
  /\ keyState[k] # "free"
  /\ keyState' = [keyState EXCEPT ![k] = "free"]
  /\ keyOwner' = [keyOwner EXCEPT ![k] = NoRequest]
  /\ UNCHANGED <<wallet, resv, loop, pc, outcome, books, logged, mishaps>>

\* A key row older than 24 hours is swept; no request lasts that long.
DropOldKey(k) ==
  /\ keyState[k] # "free"
  /\ \A r \in Requests : KeyOf[r] = k /\ UsesKey(r) => pc[r] \notin Busy
  /\ keyState' = [keyState EXCEPT ![k] = "free"]
  /\ keyOwner' = [keyOwner EXCEPT ![k] = NoRequest]
  /\ UNCHANGED <<wallet, resv, loop, pc, outcome, books, logged, mishaps>>

Crash ==
  /\ Mishaps < MaxMishaps
  /\ \E r \in Requests : pc[r] \in Busy
  /\ crashes' = crashes + 1
  /\ pc' = [r \in Requests |-> IF pc[r] \in Busy THEN "crashed" ELSE pc[r]]
  /\ loop' = NoRequest
  /\ UNCHANGED <<wallet, resv, keyRows, outcome, books, logged, lost>>

----------------------------------------------------------------------------

Prepare(r) ==
  \/ Admit(r) \/ QuoteReserve(r) \/ EmptyWallet(r)
  \/ PreReserve(r) \/ PreReserveFails(r) \/ Proceed(r) \/ KeyHit(r)

Upstream(r) == Answer(r) \/ UpstreamError(r)

SettleDirectly(r) ==
  \/ SettleExact(r) \/ SettleDelta(r) \/ SettleRefundLost(r) \/ Decline(r)
  \/ Backfill(r) \/ Finalize(r)

SettleByRow(r) == WriteCost(r) \/ Adjust(r) \/ TopOff(r) \/ Charge(r)

GiveUp(r) == ReleaseBroken(r) \/ ReleaseKey(r) \/ GiveBack(r)

Coroutine(r) ==
  \/ Prepare(r) \/ Upstream(r) \/ SettleDirectly(r) \/ SettleByRow(r) \/ GiveUp(r) \/ Leave(r)

Next ==
  \/ \E r \in Requests :
       PassGate(r) \/ Refuse(r) \/ Forbid(r) \/ Break(r) \/ BlowUp(r) \/ SettleBreaks(r)
         \/ WriteCostFails(r) \/ Coroutine(r) \/ DropReservation(r)
  \/ \E a \in Amounts : TopUp(a) \/ OtherDebit(a)
  \/ \E k \in Keys : DropOldKey(k)
  \/ Crash

Spec == Init /\ [][Next]_vars

\* The event loop runs its coroutines, upstream calls time out, and key rows grow old.
Fairness ==
  /\ \A r \in Requests : WF_vars(Coroutine(r))
  /\ \A k \in Keys : WF_vars(DropOldKey(k))

FairSpec == Spec /\ Fairness

----------------------------------------------------------------------------
(* What the component promises *)

\* chat and legacy: an answer that is delivered cost its quote, up to the tolerance, and
\* the usage row says so.  Only a lost write makes it otherwise: without the refund the
\* answer cost the larger reserve, without the backfill the row shows no cost.
ServedAtCost ==
  \A r \in Requests :
    pc[r] = "done" /\ outcome[r] = "served" /\ Endpoint[r] \in {"chat", "legacy"} =>
      /\ IF "refund" \in lost[r]
           THEN net[r] = reserve[r] /\ reserve[r] > cost[r] + Tolerance
           ELSE net[r] - cost[r] \in -Tolerance .. Tolerance
      /\ logged[r] = IF "row" \in lost[r] THEN 0 ELSE cost[r]

\* The ends that keep a reserve without an answer: the 402 for an answer that cost too
\* much, a 500, the 403 that chatcompletion_v2 raises after its debit, a refund that failed.
KeepsReserve(r) ==
  outcome[r] \in {"declined", "broken"} \/ pc[r] = "forbidden" \/ "refund" \in lost[r]

\* Whoever gets no answer has paid nothing in the end, whatever was reserved, unless it is
\* one of the ends that keep the reserve; and those keep no more than that.
FreeUnlessServed ==
  \A r \in Requests :
    pc[r] \in {"refused", "unfunded", "forbidden", "done"} /\ outcome[r] # "served" =>
      net[r] = IF KeepsReserve(r) THEN reserve[r] ELSE 0

\* A request never takes more than the larger of its reserve and its cost, whichever of
\* its writes fail, if it is not the write of the cost to the usage row (the fallback then
\* charges the cost on top): also when it is declined, or the process dies.
PaysAtMost ==
  \A r \in Requests :
    "cost" \notin lost[r] => net[r] <= reserve[r] \/ net[r] <= cost[r]

\* charge_for_usage: the wallet and the usage row agree at every moment, crashes included.
ChargedIffLogged ==
  \A r \in Requests :
    Endpoint[r] = "web" => net[r] = IF logged[r] = NoRow THEN 0 ELSE logged[r]

\* The wallet is what came in elsewhere minus what the requests hold or paid, whatever
\* transaction raised or was repeated.
Conservation == balance + Sum(net, Requests) = funds

\* r has claimed its key and has not yet finalized or released it.
HoldsKey(r) ==
  /\ UsesKey(r)
  /\ \/ pc[r] \in {"asking", "answered", "backfill", "finalize", "breaking", "unkeying"}
     \/ pc[r] = "refunding" /\ outcome[r] = "failed"

\* Two requests with the same Idempotency-Key are never at the upstream at once, and the
\* row of the one that is there is pending and its own.
OneCallPerKey ==
  /\ \A q, r \in Requests :
       HoldsKey(q) /\ HoldsKey(r) /\ KeyOf[q] = KeyOf[r] => q = r
  /\ \A r \in Requests :
       HoldsKey(r) => keyState[KeyOf[r]] = "pending" /\ keyOwner[KeyOf[r]] = r

\* At most one coroutine is between two awaits, and it is the one that holds the loop.
OneCoroutineAtATime ==
  \A r \in Requests : pc[r] \in Held <=> loop = r

\* Every request that passed the gate is answered, or dies with the process.
RequestsEnd ==
  \A r \in Requests : pc[r] = "passed" ~> pc[r] \in Ended

\* A pending key does not block its retries for ever.
KeysComeFree ==
  \A k \in Keys : keyState[k] = "pending" ~> keyState[k] # "pending"
=============================================================================
