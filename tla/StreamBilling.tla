---------------------------- MODULE StreamBilling ----------------------------
(***************************************************************************)
(* The billing life of a streaming request: quota gate, token reservation, *)
(* Idempotency-Key, wallet pre-reserve, upstream stream, reconciliation.   *)
(*                                                                         *)
(* Four endpoints share it, and differ where the code does:                *)
(*   "chat"    POST /v1/chat/completions           routes/openai_compat.py *)
(*   "legacy"  POST /v1/completions                routes/openai_compat.py *)
(*   "proxy"   POST /v1/text/chatcompletion_v2     routes/proxy.py         *)
(*   "web"     POST /chat/send/stream              routes/chat.py          *)
(*                                                                         *)
(* All requests are one user's.  The handlers are coroutines of a single   *)
(* event loop: code between two awaits runs with no other coroutine in     *)
(* between, but the threadpool (payments, admin routes) and the worker     *)
(* process write the same database at any time.  loop names the coroutine  *)
(* that holds the event loop in the middle of such a stretch.  Each action *)
(* is one database transaction, or one resumption of the generator.        *)
(* Credits are whole millionths (quote_cost rounds to 6 places).           *)
(* Any write may fail (SQLite: database is locked): lost[r] names those    *)
(* that did, and the request goes on where the code does.                  *)
(***************************************************************************)
EXTENDS Sums

CONSTANTS
  Requests,     \* the user's streaming requests
  NoRequest,    \* "no coroutine holds the loop", "no row owner"
  Keys, NoKey,  \* Idempotency-Key header values, and its absence
  Endpoint,     \* Endpoint[r]: the route of request r
  KeyOf,        \* KeyOf[r]: the header request r carries
  MaxCost,      \* MaxCost[r]: worst-case quote; 0 for an unpriced model
  Costs,        \* quotes an answer's token usage (or its estimate) can have
  Tolerance,    \* differences the reconciliation ignores (0.0001 credits)
  Estimate,     \* tokens a reservation row holds (max_tokens)
  TokenUse,     \* token totals an answer can report
  Quota,        \* the user's token quota in the window
  InitBalance,  \* credits in the wallet at the start
  Amounts,      \* amounts of top-ups and of other debits
  MaxBalance,   \* bound: top-ups stop here
  MaxMishaps    \* bound: deaths of the process and writes lost by the database

Endpoints == {"chat", "legacy", "proxy", "web"}

ASSUME RequestsAssumption == NoRequest \notin Requests
ASSUME FiniteAssumption == IsFiniteSet(Requests)
ASSUME KeysAssumption == NoKey \notin Keys
ASSUME RouteAssumption ==
  /\ Endpoint \in [Requests -> Endpoints]
  /\ KeyOf \in [Requests -> Keys \union {NoKey}]
  /\ MaxCost \in [Requests -> Nat]
ASSUME AmountAssumption ==
  /\ Costs \subseteq Nat /\ Tolerance \in Nat
  /\ Estimate \in Nat /\ TokenUse \subseteq Nat /\ Quota \in Nat
  /\ InitBalance \in Nat /\ Amounts \subseteq Nat
  /\ MaxBalance \in Nat /\ MaxMishaps \in Nat

VARIABLES
  active,    \* users.is_active
  balance,   \* wallets.balance
  used,      \* tokens counted in usage_rollups
  resv,      \* resv[r]: r's token_reservations row: none, live, or past its TTL
  keyState,  \* keyState[k]: the idempotency_keys row of k
  keyOwner,  \* keyOwner[k]: the request that inserted that row
  loop,      \* the coroutine in the middle of a stretch without await
  pc,        \* pc[r]: where request r is
  outcome,   \* outcome[r]: has_charged / stream_completed / errored of the generator
  reserve,   \* reserve[r]: cost_reserve
  cost,      \* cost[r]: actual_cost of the reconciliation
  net,       \* net[r]: debits minus refunds of r on the wallet
  short,     \* short[r]: shortfall in the stream_pending_debit audit row
  logged,    \* logged[r]: cost_credits of r's usage_logs row, or NoRow
  funds,     \* credits that entered the wallet from elsewhere, minus those that left
  crashes,
  lost       \* lost[r]: the writes of r that the database refused ("database is locked")

wallet == <<balance, funds>>
keyRows == <<keyState, keyOwner>>
books == <<reserve, cost, net, short>>
usage == <<used, logged>>
mishaps == <<crashes, lost>>
vars == <<active, balance, used, resv, keyState, keyOwner, loop, pc, outcome,
          reserve, cost, net, short, logged, funds, crashes, lost>>

NoRow == -1

\* Stretches without await, during which r holds the event loop.
Held == {"passed", "admitted", "keyed", "quoted", "settling", "partial", "releasing"}
\* Suspended at a yield or waiting for the upstream.
Streaming == {"streaming", "finishing", "erroring", "draining"}
Busy == Held \union Streaming
\* refused: 429/402 at the gate; replayed: 409/422/cached completion;
\* forbidden: 403 token policy; unfunded: 402 after the gate;
\* broken: 500, a database error before the stream; aborted: generator closed before its tail;
\* crashed: the process died before the request was settled; cut: it died between the
\* settlement and the release.
Ended == {"refused", "replayed", "forbidden", "unfunded", "broken", "aborted", "crashed", "cut", "done"}

\* The writes a request outlives: "admission" is answered 500, the others are swallowed
\* where they fail, and the request goes on without them.
Writes == {"admission", "reservation", "key", "log", "refund", "settlement", "audit",
           "row", "release"}

TypeOK ==
  /\ active \in BOOLEAN
  /\ balance \in Nat
  /\ used \in Nat
  /\ resv \in [Requests -> {"none", "live", "expired"}]
  /\ keyState \in [Keys -> {"free", "pending", "completed"}]
  /\ keyOwner \in [Keys -> Requests \union {NoRequest}]
  /\ loop \in Requests \union {NoRequest}
  /\ pc \in [Requests -> Busy \union Ended \union {"new"}]
  /\ outcome \in [Requests -> {"none", "completed", "errored"}]
  /\ reserve \in [Requests -> Nat]
  /\ cost \in [Requests -> Nat]
  /\ net \in [Requests -> Int]
  /\ short \in [Requests -> Nat]
  /\ logged \in [Requests -> Nat \union {NoRow}]
  /\ funds \in Int
  /\ crashes \in Nat
  /\ lost \in [Requests -> SUBSET Writes]

Init ==
  /\ active = TRUE
  /\ balance = InitBalance
  /\ used = 0
  /\ resv = [r \in Requests |-> "none"]
  /\ keyState = [k \in Keys |-> "free"]
  /\ keyOwner = [k \in Keys |-> NoRequest]
  /\ loop = NoRequest
  /\ pc = [r \in Requests |-> "new"]
  /\ outcome = [r \in Requests |-> "none"]
  /\ reserve = [r \in Requests |-> 0]
  /\ cost = [r \in Requests |-> 0]
  /\ net = [r \in Requests |-> 0]
  /\ short = [r \in Requests |-> 0]
  /\ logged = [r \in Requests |-> NoRow]
  /\ funds = InitBalance
  /\ crashes = 0
  /\ lost = [r \in Requests |-> {}]

Lesser(a, b) == IF a < b THEN a ELSE b

\* r's coroutine moves on: it keeps the loop, or gives it up at an await.
Continue(r, s) == pc' = [pc EXCEPT ![r] = s] /\ loop' = r
Suspend(r, s) == pc' = [pc EXCEPT ![r] = s] /\ loop' = NoRequest

\* r runs from pc s: either it holds the loop, or it can be resumed.
Runs(r, s) == pc[r] = s /\ loop = (IF s \in Held THEN r ELSE NoRequest)

Mishaps == crashes + Cardinality({w \in Requests \X Writes : w[2] \in lost[w[1]]})

\* The writes ws of r fail (none of them, when ws is empty).
Loses(r, ws) ==
  /\ Mishaps + Cardinality(ws) <= MaxMishaps
  /\ lost' = [lost EXCEPT ![r] = @ \union ws]

----------------------------------------------------------------------------
(* Admission *)

\* assert_request_allowed: used plus all unexpired reservations, not the request's own estimate.
HasQuota == used + Estimate * Cardinality({q \in Requests : resv[q] = "live"}) < Quota

\* A zero balance blocks priced models; the OpenAI routes refuse it for every model.
GateAllows(r) ==
  /\ active
  /\ HasQuota
  /\ balance > 0 \/ (MaxCost[r] = 0 /\ Endpoint[r] \in {"proxy", "web"})

\* assert_request_allowed and the balance check let the request pass.
PassGate(r) ==
  /\ pc[r] = "new" /\ loop = NoRequest
  /\ GateAllows(r)
  /\ Continue(r, "passed")
  /\ UNCHANGED <<active, wallet, resv, keyRows, outcome, books, usage, mishaps>>

\* reserve_quota_reservation inserts the token_reservations row, in a transaction of its
\* own: a user frozen since the gate gets one all the same, and without the row (the
\* insert returned False) the request goes on.
Admit(r) ==
  /\ Runs(r, "passed")
  /\ \E ws \in SUBSET {"reservation"} :
       /\ Loses(r, ws)
       /\ resv' = IF ws = {} THEN [resv EXCEPT ![r] = "live"] ELSE resv
  /\ Continue(r, "admitted")
  /\ UNCHANGED <<active, wallet, keyRows, outcome, books, usage, crashes>>

\* A database error that no handler catches: the client is answered 500, and neither the
\* reservation row nor the key is released.
Break(r) ==
  /\ \E s \in {"passed", "admitted", "keyed", "quoted"} : Runs(r, s)
  /\ Loses(r, {"admission"})
  /\ reserve' = [reserve EXCEPT ![r] = 0]
  /\ Suspend(r, "broken")
  /\ UNCHANGED <<active, wallet, resv, keyRows, outcome, cost, net, short, usage, crashes>>

Refuse(r) ==
  /\ pc[r] = "new" /\ loop = NoRequest
  /\ ~GateAllows(r)
  /\ Suspend(r, "refused")
  /\ UNCHANGED <<active, wallet, resv, keyRows, outcome, books, usage, mishaps>>

\* _enforce_token_policy raises 403 after the reservation row was inserted, and leaves it.
Forbid(r) ==
  /\ Endpoint[r] = "proxy" /\ Runs(r, "admitted")
  /\ Suspend(r, "forbidden")
  /\ UNCHANGED <<active, wallet, resv, keyRows, outcome, books, usage, mishaps>>

UsesKey(r) == Endpoint[r] = "chat" /\ KeyOf[r] # NoKey

\* check_or_reserve_stream -> "proceed".
ClaimKey(r) ==
  /\ UsesKey(r) /\ Runs(r, "admitted")
  /\ keyState[KeyOf[r]] = "free"
  /\ keyState' = [keyState EXCEPT ![KeyOf[r]] = "pending"]
  /\ keyOwner' = [keyOwner EXCEPT ![KeyOf[r]] = r]
  /\ Continue(r, "keyed")
  /\ UNCHANGED <<active, wallet, resv, outcome, books, usage, mishaps>>

\* release_quota_reservation(user_id, request_id), after r has lost ws: it keeps an
\* OperationalError to itself, and then the row stays until its TTL.
DropRow(r, ws) ==
  \/ Loses(r, ws) /\ resv' = [resv EXCEPT ![r] = "none"]
  \/ Loses(r, ws \union {"release"}) /\ UNCHANGED resv

\* check_or_reserve_stream -> body_mismatch, in_progress or completed.
KeyTaken(r) ==
  /\ UsesKey(r) /\ Runs(r, "admitted")
  /\ keyState[KeyOf[r]] # "free"
  /\ DropRow(r, {})
  /\ Suspend(r, "replayed")
  /\ UNCHANGED <<active, wallet, keyRows, outcome, books, usage, crashes>>

ReadyToQuote(r) == IF UsesKey(r) THEN Runs(r, "keyed") ELSE Runs(r, "admitted")

\* cost_reserve = min(max_cost, wallet_balance): the balance is read on its own connection.
QuoteReserve(r) ==
  /\ ReadyToQuote(r)
  /\ balance > 0
  /\ reserve' = [reserve EXCEPT ![r] = Lesser(MaxCost[r], balance)]
  /\ Continue(r, "quoted")
  /\ UNCHANGED <<active, wallet, resv, keyRows, outcome, cost, net, short, usage, mishaps>>

\* 402: wallet_balance <= 0.  Neither the reservation row nor the key is released.
EmptyWallet(r) ==
  /\ ReadyToQuote(r)
  /\ balance = 0
  /\ Suspend(r, "unfunded")
  /\ UNCHANGED <<active, wallet, resv, keyRows, outcome, books, usage, mishaps>>

\* Faulty variant: a balance below the reserve is clamped at zero.
PreReserveClamped(r) ==
  /\ Runs(r, "quoted")
  /\ balance' = balance - Lesser(reserve[r], balance)
  /\ net' = [net EXCEPT ![r] = reserve[r]]
  /\ Suspend(r, "streaming")
  /\ UNCHANGED <<active, funds, resv, keyRows, outcome, reserve, cost, short, usage, mishaps>>

\* update_wallet(-cost_reserve, "reserve"), then the StreamingResponse is returned.
PreReserve(r) ==
  /\ Runs(r, "quoted")
  /\ balance >= reserve[r]
  /\ balance' = balance - reserve[r]
  /\ net' = [net EXCEPT ![r] = reserve[r]]
  /\ Suspend(r, "streaming")
  /\ UNCHANGED <<active, funds, resv, keyRows, outcome, reserve, cost, short, usage, mishaps>>

\* update_wallet raises ValueError: the balance fell after it was read.  402, nothing released.
PreReserveFails(r) ==
  /\ Runs(r, "quoted")
  /\ balance < reserve[r]
  /\ reserve' = [reserve EXCEPT ![r] = 0]
  /\ Suspend(r, "unfunded")
  /\ UNCHANGED <<active, wallet, resv, keyRows, outcome, cost, net, short, usage, mishaps>>

----------------------------------------------------------------------------
(* The stream *)

\* Count the answer's tokens in usage_rollups and insert r's usage_logs row: or neither,
\* when add_usage_log is among the lost writes.
LogAnswer(r, ws) ==
  IF "log" \in ws
    THEN UNCHANGED usage
    ELSE /\ \E t \in TokenUse : used' = used + t
         /\ logged' = [logged EXCEPT ![r] = 0]

\* The upstream's "done" event.  legacy marks the stream before it yields; the
\* others yield first and mark when the generator is resumed.
DoneChunk(r) ==
  /\ Runs(r, "streaming")
  /\ IF Endpoint[r] = "legacy"
       THEN /\ outcome' = [outcome EXCEPT ![r] = "completed"]
            /\ \E ws \in SUBSET {"log"} : Loses(r, ws) /\ LogAnswer(r, ws)
            /\ Suspend(r, "draining")
       ELSE /\ Suspend(r, "finishing")
            /\ UNCHANGED <<outcome, usage, lost>>
  /\ UNCHANGED <<active, wallet, resv, keyRows, books, crashes>>

\* Resumed after the "done" chunk: chat stores the completion marker and the usage row,
\* and goes on without either.
MarkDone(r) ==
  /\ Runs(r, "finishing")
  /\ outcome' = [outcome EXCEPT ![r] = "completed"]
  /\ \E ws \in SUBSET {"key", "log"} :
       /\ "key" \in ws => UsesKey(r)
       /\ "log" \in ws => Endpoint[r] = "chat"
       /\ Loses(r, ws)
       /\ IF Endpoint[r] = "chat" THEN LogAnswer(r, ws) ELSE UNCHANGED usage
       /\ IF UsesKey(r) /\ keyState[KeyOf[r]] # "free" /\ "key" \notin ws
            THEN keyState' = [keyState EXCEPT ![KeyOf[r]] = "completed"]
            ELSE UNCHANGED keyState
  /\ Suspend(r, "draining")
  /\ UNCHANGED <<active, wallet, resv, keyOwner, books, crashes>>

\* The upstream's "error" event, or an exception in it: yielded before it is acted on.
ErrorChunk(r) ==
  /\ Runs(r, "streaming")
  /\ Suspend(r, "erroring")
  /\ UNCHANGED <<active, wallet, resv, keyRows, outcome, books, usage, mishaps>>

\* Resumed after the error chunk: chat releases the key so that a retry may proceed.
\* legacy keeps no error flag.
MarkError(r) ==
  /\ Runs(r, "erroring")
  /\ outcome' = [outcome EXCEPT ![r] = IF Endpoint[r] = "legacy" THEN "none" ELSE "errored"]
  /\ \/ /\ UsesKey(r) /\ keyState[KeyOf[r]] = "pending"
        /\ keyState' = [keyState EXCEPT ![KeyOf[r]] = "free"]
        /\ keyOwner' = [keyOwner EXCEPT ![KeyOf[r]] = NoRequest]
        /\ UNCHANGED lost
     \/ ~(UsesKey(r) /\ keyState[KeyOf[r]] = "pending") /\ UNCHANGED <<keyRows, lost>>
     \/ UsesKey(r) /\ Loses(r, {"key"}) /\ UNCHANGED keyRows
  /\ Suspend(r, "draining")
  /\ UNCHANGED <<active, wallet, resv, books, usage, crashes>>

\* Every 50th delta: the user was frozen.  An error chunk is sent and the rest is drained.
NoticeFreeze(r) ==
  /\ Endpoint[r] # "web" /\ ~active /\ Runs(r, "streaming")
  /\ outcome' = [outcome EXCEPT ![r] = IF Endpoint[r] = "proxy" THEN "errored" ELSE "none"]
  /\ Suspend(r, "draining")
  /\ UNCHANGED <<active, wallet, resv, keyRows, books, usage, mishaps>>

\* stream_chat polls request.is_disconnected and returns; chat does not hand it the request.
ClientGone(r) ==
  /\ Endpoint[r] # "chat" /\ Runs(r, "streaming")
  /\ Suspend(r, "draining")
  /\ UNCHANGED <<active, wallet, resv, keyRows, outcome, books, usage, mishaps>>

\* The client's connection drops at a yield and the generator is closed there.  The
\* generators of openai_compat.py have no finally: nothing after the yield runs.
AbortWithoutCleanup(r) ==
  /\ Endpoint[r] \in {"chat", "legacy"}
  /\ pc[r] \in Streaming /\ loop = NoRequest
  /\ Suspend(r, "aborted")
  /\ UNCHANGED <<active, wallet, resv, keyRows, outcome, books, usage, mishaps>>

----------------------------------------------------------------------------
(* Reconciliation *)

\* The usage row the tail writes: proxy always, web unless errored (both with the
\* quote of the reported tokens), chat and legacy only if no answer was logged.
LogsAtEnd(r) ==
  CASE Endpoint[r] = "proxy" -> TRUE
    [] Endpoint[r] = "web"   -> outcome[r] # "errored"
    [] OTHER                 -> outcome[r] = "none"

LogAtEnd(r) ==
  IF Endpoint[r] \in {"proxy", "web"} /\ outcome[r] = "completed"
    THEN /\ \E t \in TokenUse : used' = used + t
         /\ logged' = [logged EXCEPT ![r] = cost'[r]]
    ELSE /\ used' = used
         /\ logged' = [logged EXCEPT ![r] = 0]

\* The tail starts: after the last event, or, where the cleanup is in a finally
\* (proxy, web), also when the generator is closed at a yield.  actual_cost is the
\* quote of the reported tokens, or of an estimate when the stream did not complete.
BeginSettle(r) ==
  /\ loop = NoRequest
  /\ \/ pc[r] = "draining"
     \/ Endpoint[r] \in {"proxy", "web"} /\ pc[r] \in Streaming
  /\ \E c \in Costs : cost' = [cost EXCEPT ![r] = c]
  /\ \/ LogsAtEnd(r) /\ LogAtEnd(r) /\ UNCHANGED lost
     \/ LogsAtEnd(r) /\ Loses(r, {"log"}) /\ UNCHANGED usage
     \/ ~LogsAtEnd(r) /\ UNCHANGED <<usage, lost>>
  /\ Continue(r, IF reserve[r] > 0 THEN "settling" ELSE "releasing")
  /\ UNCHANGED <<active, wallet, resv, keyRows, outcome, reserve, net, short, crashes>>

\* reconcile_stream_reserve, delta within the tolerance: the reserve is the price.
SettleExact(r) ==
  /\ Runs(r, "settling")
  /\ reserve[r] - cost[r] \in -Tolerance .. Tolerance
  /\ Continue(r, "releasing")
  /\ UNCHANGED <<active, wallet, resv, keyRows, outcome, books, usage, mishaps>>

\* Faulty variant: the whole reserve is refunded instead of the unused part.
SettleRefundWhole(r) ==
  /\ Runs(r, "settling")
  /\ reserve[r] - cost[r] > Tolerance
  /\ balance' = balance + reserve[r]
  /\ net' = [net EXCEPT ![r] = 0]
  /\ Continue(r, "releasing")
  /\ UNCHANGED <<active, funds, resv, keyRows, outcome, reserve, cost, short, usage, mishaps>>

\* delta > 0.0001: the unused part of the reserve is refunded.
SettleRefund(r) ==
  /\ Runs(r, "settling")
  /\ reserve[r] - cost[r] > Tolerance
  /\ balance' = balance + (reserve[r] - cost[r])
  /\ net' = [net EXCEPT ![r] = @ - (reserve[r] - cost[r])]
  /\ Continue(r, "releasing")
  /\ UNCHANGED <<active, funds, resv, keyRows, outcome, reserve, cost, short, usage, mishaps>>

\* The refund fails and is only logged: the request keeps its reserve, and its usage row
\* is given the actual cost all the same.
SettleRefundLost(r) ==
  /\ Runs(r, "settling")
  /\ reserve[r] - cost[r] > Tolerance
  /\ Loses(r, {"refund"})
  /\ Continue(r, "releasing")
  /\ UNCHANGED <<active, wallet, resv, keyRows, outcome, books, usage, crashes>>

\* The quote, or a transaction of _settle_over_reserve, raises something else than the
\* empty wallet: it is rolled back, the callers log it and go on to the release, and
\* neither wallet nor usage row learn the actual cost.
SettleAborts(r) ==
  /\ Runs(r, "settling") \/ Runs(r, "partial")
  /\ Loses(r, {"settlement"})
  /\ Continue(r, "releasing")
  /\ UNCHANGED <<active, wallet, resv, keyRows, outcome, books, usage, crashes>>

\* delta < -0.0001: update_wallet debits the difference, if the wallet covers it.
SettleExtra(r) ==
  /\ Runs(r, "settling")
  /\ cost[r] - reserve[r] > Tolerance
  /\ balance >= cost[r] - reserve[r]
  /\ balance' = balance - (cost[r] - reserve[r])
  /\ net' = [net EXCEPT ![r] = @ + (cost[r] - reserve[r])]
  /\ Continue(r, "releasing")
  /\ UNCHANGED <<active, funds, resv, keyRows, outcome, reserve, cost, short, usage, mishaps>>

\* Faulty variant: the failed debit is not followed by the partial one.
SettleExtraGivesUp(r) ==
  /\ Runs(r, "settling")
  /\ cost[r] - reserve[r] > Tolerance
  /\ balance < cost[r] - reserve[r]
  /\ Continue(r, "releasing")
  /\ UNCHANGED <<active, wallet, resv, keyRows, outcome, books, usage, mishaps>>

\* update_wallet raised ValueError: _settle_over_reserve goes on to a second transaction.
SettleExtraFails(r) ==
  /\ Runs(r, "settling")
  /\ cost[r] - reserve[r] > Tolerance
  /\ balance < cost[r] - reserve[r]
  /\ Continue(r, "partial")
  /\ UNCHANGED <<active, wallet, resv, keyRows, outcome, books, usage, mishaps>>

\* The second transaction reads the balance again, debits what it covers and
\* records the rest as the shortfall (the balance may have grown meanwhile).  The audit
\* row of the shortfall is a best effort.
SettlePartial(r) ==
  /\ Runs(r, "partial")
  /\ LET needed == cost[r] - reserve[r]
         debit == Lesser(needed, balance)
     IN /\ balance' = balance - debit
        /\ net' = [net EXCEPT ![r] = @ + debit]
        /\ \/ short' = [short EXCEPT ![r] = needed - debit] /\ UNCHANGED lost
           \/ needed > debit /\ Loses(r, {"audit"}) /\ UNCHANGED short
  /\ Continue(r, "releasing")
  /\ UNCHANGED <<active, funds, resv, keyRows, outcome, reserve, cost, usage, crashes>>

\* Faulty variant: cost_credits is not written back to the usage row.
ReleaseKeepsZero(r) ==
  /\ Runs(r, "releasing")
  /\ resv' = [resv EXCEPT ![r] = "none"]
  /\ Suspend(r, "done")
  /\ UNCHANGED <<active, wallet, keyRows, outcome, books, usage, mishaps>>

\* The reconciliation came to its end and there is a row to write the cost to.
Backfills(r) ==
  /\ reserve[r] > 0 /\ cost[r] > 0 /\ logged[r] # NoRow
  /\ "settlement" \notin lost[r]

\* update_usage_log_cost, whose error is passed over, then the release of the reservation.
Release(r) ==
  /\ Runs(r, "releasing")
  /\ \/ /\ logged' = IF Backfills(r) THEN [logged EXCEPT ![r] = cost[r]] ELSE logged
        /\ DropRow(r, {})
     \/ /\ Backfills(r) /\ UNCHANGED logged
        /\ DropRow(r, {"row"})
  /\ Suspend(r, "done")
  /\ UNCHANGED <<active, wallet, keyRows, outcome, books, used, crashes>>

----------------------------------------------------------------------------
(* Everyone else on the same database *)

\* A recharge, a bonus or an admin grant.
TopUp(a) ==
  /\ balance + a <= MaxBalance
  /\ balance' = balance + a
  /\ funds' = funds + a
  /\ UNCHANGED <<active, used, resv, keyRows, loop, pc, outcome, books, logged, mishaps>>

\* A plan charge, an expiry sweep or an order refund.
OtherDebit(a) ==
  /\ balance >= a
  /\ balance' = balance - a
  /\ funds' = funds - a
  /\ UNCHANGED <<active, used, resv, keyRows, loop, pc, outcome, books, logged, mishaps>>

\* freeze_user: is_active = 0, and every reservation row of the user is deleted.
FreezeUser ==
  /\ active
  /\ active' = FALSE
  /\ resv' = [r \in Requests |-> "none"]
  /\ UNCHANGED <<wallet, used, keyRows, loop, pc, outcome, books, logged, mishaps>>

UnfreezeUser ==
  /\ ~active
  /\ active' = TRUE
  /\ UNCHANGED <<wallet, used, resv, keyRows, loop, pc, outcome, books, logged, mishaps>>

\* invalidate_all_credentials (a password change) also deletes every reservation row.
RevokeCredentials ==
  /\ \E r \in Requests : resv[r] # "none"
  /\ resv' = [r \in Requests |-> "none"]
  /\ UNCHANGED <<active, wallet, used, keyRows, loop, pc, outcome, books, logged, mishaps>>

\* reserved_until passes: 300 seconds after Admit, however long the stream is (the
\* stretch before it takes no such time).
Lapse(r) ==
  /\ resv[r] = "live" /\ pc[r] \notin {"admitted", "keyed", "quoted"}
  /\ resv' = [resv EXCEPT ![r] = "expired"]
  /\ UNCHANGED <<active, wallet, used, keyRows, loop, pc, outcome, books, logged, mishaps>>

\* Faulty variant: the comparison with now is the wrong way round.
PurgeLive ==
  /\ \E r \in Requests : resv[r] = "live"
  /\ resv' = [r \in Requests |-> IF resv[r] = "live" THEN "none" ELSE resv[r]]
  /\ UNCHANGED <<active, wallet, used, keyRows, loop, pc, outcome, books, logged, mishaps>>

\* purge_expired_reservations, in the hourly job of the worker process.
PurgeReservations ==
  /\ \E r \in Requests : resv[r] = "expired"
  /\ resv' = [r \in Requests |-> IF resv[r] = "expired" THEN "none" ELSE resv[r]]
  /\ UNCHANGED <<active, wallet, used, keyRows, loop, pc, outcome, books, logged, mishaps>>

\* Faulty variant: the sweep takes rows of streams that still run.
DropAnyKey(k) ==
  /\ keyState[k] # "free"
  /\ keyState' = [keyState EXCEPT ![k] = "free"]
  /\ keyOwner' = [keyOwner EXCEPT ![k] = NoRequest]
  /\ UNCHANGED <<active, wallet, used, resv, loop, pc, outcome, books, logged, mishaps>>

\* Faulty variant: the sweep takes only finished rows.
DropCompletedKey(k) ==
  /\ keyState[k] = "completed"
  /\ keyState' = [keyState EXCEPT ![k] = "free"]
  /\ keyOwner' = [keyOwner EXCEPT ![k] = NoRequest]
  /\ UNCHANGED <<active, wallet, used, resv, loop, pc, outcome, books, logged, mishaps>>

\* A key row older than 24 hours is swept.  No stream lasts that long: the
\* request that inserted it is over.
DropOldKey(k) ==
  /\ keyState[k] # "free"
  /\ \A r \in Requests : KeyOf[r] = k /\ UsesKey(r) => pc[r] \notin Busy
  /\ keyState' = [keyState EXCEPT ![k] = "free"]
  /\ keyOwner' = [keyOwner EXCEPT ![k] = NoRequest]
  /\ UNCHANGED <<active, wallet, used, resv, loop, pc, outcome, books, logged, mishaps>>

\* The uvicorn process dies; systemd restarts it.  Requests in progress are gone,
\* what they committed stays.
Crash ==
  /\ Mishaps < MaxMishaps
  /\ \E r \in Requests : pc[r] \in Busy
  /\ pc' = [r \in Requests |-> IF pc[r] = "releasing" THEN "cut"
                               ELSE IF pc[r] \in Busy THEN "crashed" ELSE pc[r]]
  /\ loop' = NoRequest
  /\ crashes' = crashes + 1
  /\ UNCHANGED <<active, wallet, resv, keyRows, outcome, books, usage, lost>>

----------------------------------------------------------------------------

Arrive(r) == PassGate(r) \/ Refuse(r)

\* What the event loop runs on its own once r was admitted.
Prepare(r) ==
  \/ Admit(r) \/ ClaimKey(r) \/ KeyTaken(r)
  \/ QuoteReserve(r) \/ EmptyWallet(r)
  \/ PreReserve(r) \/ PreReserveFails(r)

\* The stream comes to an end, one way or the other.
Upstream(r) == DoneChunk(r) \/ ErrorChunk(r) \/ NoticeFreeze(r) \/ ClientGone(r)

Mark(r) == MarkDone(r) \/ MarkError(r)

Settle(r) ==
  \/ SettleExact(r) \/ SettleRefund(r) \/ SettleRefundLost(r) \/ SettleAborts(r)
  \/ SettleExtra(r) \/ SettleExtraFails(r) \/ SettlePartial(r)
  \/ Release(r)

Coroutine(r) == Prepare(r) \/ Upstream(r) \/ Mark(r) \/ BeginSettle(r) \/ Settle(r)

Next ==
  \/ \E r \in Requests :
       Arrive(r) \/ Forbid(r) \/ Break(r) \/ Coroutine(r) \/ AbortWithoutCleanup(r) \/ Lapse(r)
  \/ \E a \in Amounts : TopUp(a) \/ OtherDebit(a)
  \/ \E k \in Keys : DropOldKey(k)
  \/ FreezeUser \/ UnfreezeUser \/ RevokeCredentials \/ PurgeReservations \/ Crash

Spec == Init /\ [][Next]_vars

\* The event loop keeps running its coroutines; every upstream call has a timeout;
\* time passes; the hourly and daily jobs run.  Clients, admins and payments owe nothing.
Fairness ==
  /\ \A r \in Requests : WF_vars(Coroutine(r)) /\ WF_vars(Lapse(r))
  /\ \A k \in Keys : WF_vars(DropOldKey(k))
  /\ WF_vars(PurgeReservations)

FairSpec == Spec /\ Fairness

----------------------------------------------------------------------------
(* What the component promises *)

\* The reconciliation of r was lost: its refund, or all of it.
Unsettled(r) == lost[r] \intersect {"refund", "settlement"} # {}

\* A finished stream cost the user what it was quoted at the end: the net debit plus
\* the audited shortfall is the actual cost, up to the tolerance, whatever the wallet
\* did in the meantime.  A stream without a pre-reserve costs nothing.  Only a lost write
\* leaves something else: without its refund or its settlement the stream cost its
\* reserve, and without the audit row nobody knows what the emptied wallet did not cover.
SettledExactly ==
  \A r \in Requests : pc[r] \in {"releasing", "done"} =>
    /\ reserve[r] = 0 => net[r] = 0 /\ short[r] = 0
    /\ reserve[r] > 0 /\ Unsettled(r) => net[r] = reserve[r] /\ short[r] = 0
    /\ reserve[r] > 0 /\ ~Unsettled(r) =>
         IF "audit" \in lost[r]
           THEN net[r] \in reserve[r] .. (cost[r] - 1) /\ short[r] = 0
           ELSE net[r] + short[r] - cost[r] \in -Tolerance .. Tolerance

\* No request that never reached the upstream holds credits of the wallet.
NoChargeWithoutService ==
  \A r \in Requests :
    pc[r] \in {"new", "passed", "admitted", "keyed", "quoted",
              "refused", "replayed", "forbidden", "unfunded", "broken"} => net[r] = 0

\* A request never takes more than the larger of its pre-reserve and its cost, and
\* never gives the user credits: also when it is aborted or the process dies.
PaysAtMost ==
  \A r \in Requests :
    /\ net[r] >= 0
    /\ net[r] <= reserve[r] \/ net[r] <= cost[r]

\* The wallet is what came in elsewhere minus what the requests hold or paid: no step
\* of any handler makes or loses credits.
Conservation == balance + Sum(net, Requests) = funds

\* r has claimed its key and has not yet finalized or released it.
HoldsKey(r) == UsesKey(r) /\ pc[r] \in {"keyed", "quoted", "streaming", "finishing", "erroring"}

\* Two requests with the same Idempotency-Key never run the same stream at once, and
\* the row of a running stream is its own and still pending.
OneStreamPerKey ==
  /\ \A q, r \in Requests :
       HoldsKey(q) /\ HoldsKey(r) /\ KeyOf[q] = KeyOf[r] => q = r
  /\ \A r \in Requests :
       HoldsKey(r) => keyState[KeyOf[r]] = "pending" /\ keyOwner[KeyOf[r]] = r

\* A reservation row belongs to a request that was admitted and has not come to its
\* regular end, unless its release was lost: no exit that releases the row is followed by
\* a step that restores it.
ReservationHasOwner ==
  \A r \in Requests :
    resv[r] # "none" =>
      \/ pc[r] \notin {"new", "passed", "refused", "replayed", "done"}
      \/ pc[r] \in {"replayed", "done"} /\ "release" \in lost[r]

\* A stream with a pre-reserve that has a usage_logs row shows there what its answer cost,
\* or, when the settlement or the write of that cost was lost, that cost or nothing.
LoggedCostIsActual ==
  \A r \in Requests :
    pc[r] = "done" /\ reserve[r] > 0 /\ logged[r] # NoRow =>
      \/ logged[r] = cost[r]
      \/ logged[r] = 0 /\ lost[r] \intersect {"settlement", "row"} # {}

\* At most one coroutine is between two awaits, and it is the one that holds the loop.
OneCoroutineAtATime ==
  \A r \in Requests : pc[r] \in Held <=> loop = r

\* A shortfall is only recorded by a step that leaves the wallet empty: the platform
\* does not write off credits that the user has.
ShortfallMeansEmpty ==
  [][\A r \in Requests : short'[r] # short[r] /\ short'[r] > 0 => balance' = 0]_vars

\* Once a stream is settled, nothing moves its money again.
SettlementIsFinal ==
  [][\A r \in Requests : pc[r] \in {"releasing", "done", "cut"}
       => net'[r] = net[r] /\ short'[r] = short[r]]_vars

\* Every reservation row stops counting and is deleted, whatever became of its
\* request: released by the tail, or purged once its TTL has passed.
ReservationsDrain ==
  \A r \in Requests : resv[r] # "none" ~> resv[r] = "none"

\* Every request that passed the gate comes to an end.
StreamsEnd ==
  \A r \in Requests : pc[r] = "passed" ~> pc[r] \in Ended

\* A pending key does not block its retries for ever.
KeysComeFree ==
  \A k \in Keys : keyState[k] = "pending" ~> keyState[k] # "pending"
=============================================================================
