# SyntropyBridge in TLA+

SyntropyBridge is an AI API gateway that sells credits: a FastAPI process forwards
requests to model providers, charges a prepaid wallet for them, and keeps everything in
one SQLite file. This directory specifies the parts of it where the order of events
matters: modules that TLC checks on small instances, and theorems about them that TLAPS
proves for every instance. Paths are relative to `src/`; `openai_compat.py`, `proxy.py`
and `chat.py` are in `backend/routes/`.

## 1. Inventory

One uvicorn process serves all requests. Handlers are coroutines of one event loop, but
their database calls are synchronous: between two `await`s no other coroutine runs. Sync
endpoints, webhook background tasks and admin routes run in a threadpool, and the daily
and hourly jobs run in a worker process of their own (`deploy/api-worker-*.service`).
They all write the same database, one `BEGIN IMMEDIATE` transaction at a time. So two
coroutines interleave at awaits only, and a coroutine and everyone else at transactions.
Redis, when it is configured, keeps codes and pending registrations outside the database.

| Component | State | Operations | Talks to | What is hard | What makes it correct |
|---|---|---|---|---|---|
| Streaming billing (`openai_compat.py`, `proxy.py`, `chat.py`, `billing_service.py`, `quota_service.py`, `idempotency.py`) | `wallets.balance`, `token_reservations`, `idempotency_keys`, `usage_logs`, flags of the generator | gate, reserve tokens, claim key, pre-reserve credits, stream, reconcile, write cost back, release | wallet, channel routing | generators closed at a yield, wallet writers between read and debit, key retries, TTLs, crashes | a finished stream costs its quote; one key, one stream; reservations drain |
| Plain billing (same files) | same rows | reserve, call, settle by delta / by usage row / after the fact, store the response | same | five endpoints that settle in three ways, refusals after the debit, errors between transactions | delivered answers cost their quote, refused ones nothing |
| Channel routing (`proxy_service.py`, `channel_service.py`, `circuit_breaker.py`, `http_client.py`) | `channels.is_active`, `cooldown_until`, breaker failures and `opened_at` | select, call, mark failed, fall back, toggle, reset, test | billing, providers | results of concurrent calls in any order, timers running out between attempts | no channel twice per request, all attempts used, the breaker recovers |
| Wallet ledger, credit expiry (`database.py`) | `wallets`, `wallet_transactions` with `expires_at`, `expiry_debited` | grant, debit, list expired rows, debit them one by one | orders, jobs | the sweep reads its rows outside the transactions that debit them, and may die between two | what is in the wallet can still expire; what has expired is taken |
| Orders (`order_service.py`, `routes/billing.py`, `admin_billing.py`) | `orders`, `promo_code_usage`, `promo_codes.used_count` | create, check out, approve, approve a mismatch, reject, cancel, expire, refund | ledger, subscriptions, providers | user, admins, webhooks, queries and jobs act on one order, on a status they read earlier | credited once; the status tells the credit; promo uses are counted |
| Payment webhooks, reconciliation (`routes/billing.py`, `stripe_reconciliation.py`, `usdt_reconciliation.py`) | `orders`, what the providers know | completed, partial, refunded, disputed, query, daily comparison | orders | duplicated, late, reordered and lost events | a payment is not credited twice; no order stays open |
| Subscriptions and jobs (`subscription_service.py`) | `subscriptions`, `users.plan_id` | subscribe, upgrade, downgrade, cancel, renew, expire, hourly and daily job | ledger, orders | two jobs overlap, and each commits between expiry and renewal | a row is renewed once; a retired row stays retired; overdue rows end |
| Quota windows, rollups (`quota_service.py`, `usage_service.py`) | `usage_logs`, `usage_rollups`, `token_reservations` | gate, reserve, count, clean up, read windows | billing | requests under way are only counted by their reservations; buckets are kept for nine days | a bounded overshoot; a window counts what was used in it |
| Sessions, login, API keys (`session.py`, `routes/auth.py`, `user_service.py`) | `sessions`, passwords, keys, reset tokens | log in, check, refresh, log out, change and reset passwords, issue and revoke keys | all handlers | a session that is checked in one thread is deleted in another; two transactions with a crash between | the cap; the frozen have no session; a new password ends what was there before |
| User administration (`routes/admin.py`, `user_service.py`) | `users.is_active`, `admin_users`, `global_freeze` | freeze, delete, purge, promote, demote, kill switch | sessions | requests granted before the change they should obey | a super admin remains |
| Lockout, captcha (`lockout.py`) | `auth_failures` | fail, succeed, prune | login | scopes with different windows in one table | a lock holds for its window and ends by itself |
| Verification codes (`redis_service.py`) | codes and pending registrations in Redis or in memory | store, read, delete | login | the fallback keeps what Redis has let go; every call may fail | the right password; codes do not outlive their time |
| Rate limits (`database.py`) | per-minute request and token rows | check and insert, in one transaction | billing | nothing between check and insert | not modelled |
| Key pool (`key_pool.py`) | per-key weight and cooldown, in memory | get, mark failed, mark healthy | routing | the key that is marked is not the one that was used | not modelled |
| Notifications, alerts, e-mail, audit | rows and messages that nothing reads back | emit | all | nothing | not modelled |
| Catalogue, health, adapters, database pool, pages | one row per call, or none | CRUD, queries, format conversion | all | little | not modelled |

`PROJECT.json` lists the components with the files of each, and what is left out of it.

## 2. Modules

| Module | What it is |
|---|---|
| `StreamBilling` | a request that streams, on the four endpoints that do, and everyone who writes the same rows |
| `PrepaidWallet` | the abstract specification: hold part of the wallet, settle once at the quoted cost |
| `StreamBillingRefines` | the refinement mapping from the first to the second |
| `PlainBilling` | a request answered in one piece, on the five endpoints that do |
| `PlainBillingRefines` | the mapping from its chat, legacy and web requests to `PrepaidWallet` |
| `ChannelRouting` | the fallback loops, the channel rotation and the circuit breaker |
| `Ledger` | the wallet's rows that expire, and the sweep |
| `Orders` | extends `Ledger`: orders from creation to credit and refund, webhooks, queries, jobs, admins |
| `Subscriptions` | the rows of one user's subscriptions and the jobs that renew and expire them |
| `Access` | sessions, passwords, API keys, reset tokens, freezing and deletion, admins |
| `SignIn` | registration with a code by e-mail, the cache behind it, the lockout |
| `UsageWindows` | what one user has used, by age, twice counted, and the three token windows over it |
| `Quotas` | extends `UsageWindows`: the gate, the reservations, and the end of a request |
| `Sums` | the sum of a function over a finite set |
| `SumTheorems` | facts about sums, which four of the proof modules use |
| `GatewayProofs` | the theorems about `ChannelRouting` and `Quotas`, which is an instance there |
| `*Proofs` | else the theorems about the module of that name |
| `MC*` | instances for TLC |

The machines meet at narrow interfaces. To billing, routing is one answer or one error, and
the quota gate a free choice to refuse; to routing, a request is something that asks for an
upstream. To subscriptions, a wallet is an amount that others change. They are checked side
by side: only `Orders` and `Ledger`, and `Quotas` and
`UsageWindows`, share variables, and there one extends the other.

### StreamBilling

`pc[r]` is the place of request `r` in its handler, `loop` the coroutine between two
awaits. The remaining variables are columns: `balance` (wallets), `resv`
(`token_reservations`: none, live, past its TTL), `keyState` and `keyOwner`
(`idempotency_keys`), `logged` (`usage_logs.cost_credits`), `used` (`usage_rollups`),
`active` (`users.is_active`); and locals of the handler: `reserve` (`cost_reserve`),
`cost` (`actual_cost`), `outcome` (`has_charged` and its like), `short` (the audit row of
a shortfall). `net[r]` sums what the wallet was debited for `r`, and `funds` what others
put in or took out: these two are bookkeeping of the model.

| Actions | Code |
|---|---|
| `PassGate`, `Refuse`, `Admit`, `Forbid`, `Break` | `assert_request_allowed`, `reserve_quota_reservation`, the 403 of `_enforce_token_policy`, a 500 |
| `ClaimKey`, `KeyTaken` | `check_or_reserve_stream` |
| `QuoteReserve`, `EmptyWallet`, `PreReserve`, `PreReserveFails` | balance read, `min(max_cost, balance)`, `update_wallet`, the two 402s |
| `DoneChunk`, `MarkDone`, `ErrorChunk`, `MarkError`, `NoticeFreeze`, `ClientGone`, `AbortWithoutCleanup` | the `event_iter` generators, cut at each `yield` |
| `BeginSettle`, `SettleExact`, `SettleRefund`, `SettleExtra`, `SettleExtraFails`, `SettlePartial`, `Release` | the tail: quote, `reconcile_stream_reserve`, `_settle_over_reserve`, `update_usage_log_cost`, `release_quota_reservation` |
| `SettleRefundLost`, `SettleAborts` | the same, where the refund (`billing_service.py:729`) or the settlement (`openai_compat.py:1516`) raises and is swallowed |
| `TopUp`, `OtherDebit`, `FreezeUser`, `UnfreezeUser`, `RevokeCredentials` | the other writers of the rows |
| `Lapse`, `PurgeReservations`, `DropOldKey`, `Crash` | the clock, the jobs, the machine |

Any write of a request may be refused by the database. `lost[r]` names the ones that were
(`Writes`): the insert of the reservation, the writes on the key row, `add_usage_log`, the
refund, the settlement, the audit row of a shortfall, the cost on the usage row, the release.
The code swallows each of them somewhere and goes on, and so does the model; an error before
the stream begins is answered 500 (`Break`).

The endpoints differ, and the model with them: only chat takes a key; legacy marks the
end before it yields, the others after; proxy and web clean up in a `finally`, the two of
`openai_compat.py` do not; web does not look for frozen users; chat does not hand the
request to `stream_chat`, which therefore cannot notice its client leaving.

### PlainBilling

The same rows, with `pc[r]` following the settlement. chat and legacy debit or refund
the difference and then write the usage row (`SettleExact`, `SettleDelta`, `Decline`,
`Backfill`, `Finalize`). proxy and simple write the row first (`WriteCost`, `Adjust`,
`TopOff`), and fall back to charging the whole row when that raises (`WriteCostFails`,
`Charge`). web reserves nothing and charges afterwards in one transaction with the row
(`Charge`). `KeyHit` is a stored response, or the row of a call that has none yet;
`BlowUp` is an exception out of `forward_request`, which only chat catches. `lost[r]` is as
in `StreamBilling`: a refund (`GiveBack`, `SettleRefundLost`, `TopOff`), the cost on the row
(`Backfill`) or a charge (`Charge`) that fails is swallowed, other errors are a 500 (`Break`,
`SettleBreaks`). chat, legacy and web
implement `PrepaidWallet`; proxy and simple do not, as they refund an answer without cost twice
and may charge on top of a reserve (section 5), and count among the others who use the wallet.

### ChannelRouting

`failures` and `left` are the breaker (`left` counts the ticks of its cooldown, `Never`
when `opened_at` is 0.0), `active` and `cool` the `channels` rows; `at`, `tried` and
`attempts` are locals of the loop; `calls` counts attempts on a channel; `post_with_retry`
may post three times in one of them.
Choosing (`KeyMissing`, `Blocked`, `Dispatch`) and responding (`Succeed`,
`RefusePlain`, `RefuseStream`, `NetError`, `OtherError`, `StreamFails`, `StreamEnds`,
`StreamBreaks`) are the stretches between awaits; `ToggleActive`, `ResetCooldown` and
`TestFails` are the admin routes. The two loops differ: `forward_request` hands
`post_with_retry` to the breaker, which takes a returned error status for a success,
and has `CHANNEL_FALLBACK_MAX + 1` attempts; `stream_chat` counts statuses from 400 on,
excludes a channel only after it has failed, and has three attempts.

### Ledger and Orders

`balance` is the wallet, `row` and `worth` the `wallet_transactions` rows of credits with an
expiry (one for the recharge and one for the bonus of each crediting), `listed` what a running
sweep has read. `Grant` is `grant_credits`, `TakeBack` the debit of `refund_order` with the
rows it marks (`Covering`), `ListExpired`, `SweepRow` and `SweepDies` are
`sweep_expired_credits`. `held` are the reserves of billing requests in flight (`Reserve`), which no
sweep sees; `ReturnReserve` puts part of one back, without a row that expires or with a row of its
own, whose worth is in `renewed` and which `SweepRenewed` takes.

`status`, `credits`, `session` and `ref` are columns of `orders`; `promo` and `used` the promo
tables. `pay` and `back` are what a provider knows of the payment: the program hears of it by
an event that may come late, repeatedly or never. `at[w]`, `on[w]`, `due[w]` are what thread or
coroutine `w` has read and is about to write. `flagged` and `credited` are bookkeeping.

| Actions | Code |
|---|---|
| `CreateOrder`, `Cancel`, `BeginCheckout`, `FinishCheckout` | the user's operations; `pay_order` around its call of the provider |
| `PaymentMoves`, `ChargeReturned` | the customer and the providers |
| `CompletedEvent`, `PartialEvent`, `RefundedEvent`, `DisputedEvent` | the two webhooks, up to their first write |
| `BeginQuery`, `BeginUsdtRecon`, `StripeReconRef`, `ProviderAnswers` | status query and daily comparisons |
| `ApprovePayment`, `RouteToReview`, `HandlePartial`, `MarkFailed`, `StoreReference`, `RefundPayment`, `AlreadyDecided` | what each of them writes then |
| `AdminApproves`, `AdminApprovesMismatch`, `AdminRejects`, `AdminRefunds` | the admin routes |
| `ExpireOrders`, `Crash` | the hourly job; a process that ends |

### Subscriptions

`sub[s]` are the user's rows in the order of their ids, `past` those whose period or grace is
over, `plan` is `users.plan_id`. `process_expiry` runs in the hourly and in the daily job, two
processes that may overlap: `ExpireSubs` is its transaction, `todo[w]` what it has listed, and
`JobRenews`, `JobFails`, `JobClears` what follows in others. `RenewLater` and `RenewNow` are
`renew` without and with the money; it takes the user's latest row that can be renewed, which
need not be the one the job expired. `UpgradeLater`, `UpgradeNow`, `Downgrade`,
`CancelRenewal`, `UserRenews`, `SubscribeOnline`, `RedeemDays`, `RedeemUpgrade` and `PayOrder`
are the user's operations, `GraceOver` is `process_pending_payment_subscriptions`,
`AdminSetPlan` is `admin_set_user_plan`.

### Access

`session[s]` is a row of `sessions` with its two timeouts and, as bookkeeping, the `epoch` of
the password it was made under. `loop` is the handler on the event loop that has a second
transaction to come: `Settle` applies the cap after a login, `Revoke` follows a new password;
each has a variant that fails, and `Crash` may come before it. `pc[w]`, `cookie[w]` and `who[w]`
are a dependency call in a thread: `Arrive`, `ReadRow`, and then `Grant`, `Refuse` or `Reject`,
each a transaction with others in between. A key is a
row of `tokens`, or the account's own (`AccountKey`, `users.api_key_hash`), which no
revocation touches. `Handle` is what a granted request does later:
logout, password changes, deletion, keys, freezing, promotion, the kill switch. `Sweep`,
`ListDeleted` and `Purge` are the daily jobs.

### SignIn

`fails` is the `auth_failures` table, `redis` and `memory` the two levels of the cache.
`Refused`, `Fails` and `Succeeds` are the logins of users and admins; `Register`, `Resend`,
`VerifyRefused`, `VerifyFails`, `VerifyStale` and `Verify` the registration, with a Boolean for
each call of Redis or the mail server that may fail. `meant[c]` remembers for which
registration code `c` was mailed, `torn` the registrations whose data did not reach Redis.

### Quotas

`log[a]` and `rollup[a]` are the tokens of age `a` in `usage_logs` and in the buckets of
`usage_rollups`, `reserved` the rows of `token_reservations`. `Admit` is the gate with the
reservation, `AdmitPenniless` and `AskTitle` are the two ways past it, `Count` is `add_usage_log` with its cleanup, `Release`, `Leave` and `Forgotten` are
the ways out that release the row, forget it, and wait for its TTL. `beyond` is bookkeeping: what
was used without a reservation or past the gate.

## 3. What the runs show

| Run | Instance | Checks |
|---|---|---|
| `stream_chat` | two chat streams with one key, quotes 3 and 5, cost 6, one mishap (a crash, or a write that is refused); 83,370 states | `OneStreamPerKey`, `ReservationsDrain`, `KeysComeFree` |
| `stream_others` | a proxy, an unpriced web and a legacy stream on one wallet, cost 3 against reserves of up to 5 and of 1, one mishap; 947,355 | `SettledExactly`, `LoggedCostIsActual`, `Conservation`, `ImplementsPrepaidWallet` |
| `plain_chat` | two chat requests with one key, one mishap; 225,511 | `ServedAtCost`, `FreeUnlessServed`, `OneCallPerKey`, `KeysComeFree`, `ImplementsPrepaidWallet` |
| `plain_others` | proxy, unpriced simple, web and legacy on one wallet, cost 2 or 5 (or nothing) where the proxy reserved 3, one mishap; 1,815,798 | `PaysAtMost`, `ChargedIffLogged`, `Conservation` |
| `routing` | a plain request and a stream, two channels, either of which may be found without a usable key, threshold 2; 221,168 | `OpenIffThreshold`, `OncePerChannel`, `RequestsEnd`, `BreakerRecovers` |
| `orders` | one order with a promo code, credited at most twice, two providers, one worker, one credit at a time reserved and put back; 553,805 | `CreditedOnce`, `CreditedMeansPaid`, `PromoUses`, `BackedByRows`, `PendingEnds`, `LapsedIsSwept` |
| `subscriptions` | two plans, three rows, two jobs, one open order per plan; 928,092 | `RenewedOnce`, `RetiredStays`, `KeepsRunning` |
| `subscriptions_live` | the same with two rows; 81,648 | `OverdueEnds`, `GraceEnds` |
| `subscriptions_downgrade` | one job | refutes `PlanHasRow` (section 5) |
| `access` | a user, two admins, three sessions, two threads; 679,172 (with symmetry) | `SessionCap`, `InactiveHasNone`, `OldSessionsAndKeysEnd`, `SomeSuperAdmin` |
| `signin` | one name, one key, one address, two codes, locks after two failures; 839,731 | `RightPassword`, `ServedInTime`, `LockRunsOut`, `LockHolds` |
| `quotas` | three requests, quotas 2, 3 and 4 over windows of 2, 3 and 5 ages, buckets kept for 4, an admin, two tokens past the gate; 778,501 (with symmetry) | `QuotaKept`, `WindowsAgree` |

The comment above each property in its module says what it means. The ones that need
several actors to go wrong:

- *Money.* `SettledExactly`: net debit plus audited shortfall is the quoted cost, up to the
  tolerance, though the wallet changes between the failed debit and the partial one; a lost write leaves
  one of three named results (the reserve, the reserve and part of the rest, no audit row).
  `Conservation`: the wallet is what came in minus what requests hold or paid, whatever raised,
  crashed or was aborted. `ImplementsPrepaidWallet`: every streaming handler, and the plain ones of
  chat, legacy and web, interleaved with every other writer, are a behaviour of `PrepaidWallet`; the
  two transactions of `_settle_over_reserve` are its single `Settle`. `BackedByRows`: a refund marks no more rows than it has debited, a sweep no
  more than its row, so that credits which can never expire come about in one way only: the wallet is
  emptied while a reserve is in flight, and the reserve comes back.
- *Exclusion.* `OneStreamPerKey`, `OneCallPerKey`: retries and the sweep never let one key run
  two calls. `CreditedOnce`: duplicated webhooks, query, comparison and admins credit an order
  once. `RenewedOnce`: two overlapping jobs and the user renew a row once.
- *Stale reads.* `CreditedMeansPaid`: no answer that comes late hides a credit or promises one.
  `OldSessionsAndKeysEnd`, `InactiveHasNone`: a refresh of a session that was read before a
  revocation does not bring it back. `QuotaKept`: the overshoot of requests that pass the gate at
  the same time is bounded by one estimate and what was used without a reservation or past the gate.
  `ServedInTime`: no code is served later than its life and a stay in the fallback.
- *Progress.* Reservations, keys, requests, breaker, pending orders, expired credits and overdue
  subscriptions all come to their end.

**Bounds.** `MaxBalance`, `MaxSubs`, `MaxOpen`, `MaxSessions`, `MaxBusy`, `MaxChanges`, `MaxCodes`,
`MaxCredits`, `MaxHeld`, `MaxRenewed` and `MaxBeyond` stop counters that the program lets grow,
`MaxMishaps` limits crashes and refused writes together (one is enough for each loss to
meet every interleaving; the theorems do not bound them); all are guards, there is no state constraint. Two requests (or two jobs) give every pair of
conflicting accesses to a row. Two threads let a freeze or a demotion be granted while another session is
being looked at; the third session, which the cap is about, comes when no call is under way
(`MaxBusy = 2`). The quotes
are below, within and above reserve and tolerance, and the initial balance covers the cheap
reserve and clips the dear one, so that all four ways to settle and both 402s happen. In
`stream_others` the quota of 1 makes the second stream wait until the row of the first has lapsed or is
deleted; in `stream_chat` a quota of 2 lets one request in and makes the other depend on its row. A
breaker threshold of 2 needs two failures from either request; two channels and the platform key
exceed the two attempts of a plain request and equal the three of a stream. An order is paid at
either provider or both, exactly or by another amount; `MaxCredits = 2` lets the second
credit happen that `CreditedOnce` is about. Its bonus is zero, to keep the run small; that a refund
takes bonus rows first is covered by the theorem. The session limits (`Idle = 1`, `Life = 2`)
are the least that make a session slide and still end; the windows of `signin` and `quotas` are the
least in which the shorter ends before the longer. The theorems of section 4 carry the safety
properties from these instances to all others. Between them the runs fire every action, and each
property fails on a plausible mistake in one definition.

**Fairness.** Weak fairness of each request's own steps: the event loop runs ready coroutines, and
every upstream call has an httpx timeout. Weak fairness of `Lapse`, `DropOldKey` and `Tick`: time
passes. Weak fairness of `PurgeReservations`, `ExpireOrders`, `ListExpired`, `ExpireSubs`, `GraceOver`
and of the end of a job: systemd timers start the jobs again, and each step of the daily job fails for
itself. Strong fairness of `SweepRow`, because a sweep may die any number of times but not every
time. Nothing is assumed of clients, payments, providers or admins, nor of `PassGate`, `Forbid` or
`AbortWithoutCleanup`. `StreamsEnd` of `StreamBilling` and `RequestsEnd` of `PlainBilling` are stated
there for the reader, and no run checks them.

`CHECK_DEADLOCK FALSE` stands where the system may rightly stop: when every request has ended, or
the bounds above are reached.

## 4. What is proved

For every value of the constants that satisfies the named assumptions, so for any number of
requests, keys, channels, orders, workers, jobs, users, threads and windows. The assumptions are
types of the constants, positive budgets, thresholds and timeouts, the finiteness of `Requests` and
`Orders` (rows of a database), and the orders `Idle <= Life`, `Window <= VerifyWindow` and
`Warm <= CodeLife` that the source's constants have. TLC evaluates them in the runs.

| Module | Theorems |
|---|---|
| `StreamBillingProofs` | type correctness, `SettledExactly`, `NoChargeWithoutService`, `PaysAtMost`, `OneStreamPerKey`, `ReservationHasOwner`, `LoggedCostIsActual`, `Conservation`, `SettlementIsFinal`, `ShortfallMeansEmpty`, and that `Spec` implements `PrepaidWallet` |
| `PlainBillingProofs` | type correctness, `ServedAtCost`, `FreeUnlessServed`, `PaysAtMost`, `ChargedIffLogged`, `OneCallPerKey`, `Conservation`, and that `Spec` implements `PrepaidWallet` for chat, legacy and web |
| `GatewayProofs` | type correctness, `OpenIffThreshold`, `OncePerChannel`, `GivesUpLate`, `CallsWithinBudget` of `ChannelRouting`; `QuotaKept`, `WindowsAgree` |
| `OrdersProofs` | type correctness, `CreditedOnce`, `CreditedMeansPaid`, `PromoUses`, `BackedByRows`, and of every step `CreditsLast` |
| `SubscriptionsProofs` | type correctness, `RetiredStays`, `KeepsRunning`, `RenewedOnce`, `JobsDisjoint` |
| `AccessProofs` | type correctness, `SomeSuperAdmin`, `InactiveHasNone`, `OldSessionsAndKeysEnd`, `SessionCap` |
| `SignInProofs` | type correctness, `ServedInTime`, `RightPassword`, and of every step `LockHolds`, `LockRunsOut` |
| `SumTheorems` | the lemmas about sums that the first three and `OrdersProofs` rest on |

Type correctness and the properties `NoChargeWithoutService`, `ReservationHasOwner`,
`ShortfallMeansEmpty`, `SettlementIsFinal`, `PaysAtMost` of `StreamBilling`, `GivesUpLate`,
`CallsWithinBudget`, `CreditsLast` and `JobsDisjoint` have no run: a theorem says more. The argument in each module:

- *StreamBilling.* What a request has paid depends on its place: nothing before the pre-reserve,
  the reserve while it streams, and the settled amount afterwards (`Money`); or the reserve again, when
  the write that would have settled it was lost. That is true between
  two transactions only because the coroutine in the middle of its tail is the only one
  (`OneCoroutineAtATime`). `Settled` and `LogSoFar` carry the result of the reconciliation to the
  release. Key exclusivity needs that a pending row belongs to the request that inserted it: it
  does because the sweep never takes the row of a running stream, the assumption on 24 hours in
  `DropOldKey`.
- *PlainBilling.* `Routes` says which endpoint can be where, `Told` what the client will be
  answered, `Money`, `AtCost` and `Rows` what has been paid and logged at each place, and `NotYetLost` which writes cannot be lost yet. The charge on top of a reserve needs
  that the write of the cost was lost: this is why `PaysAtMost` is conditional on that one write.
- *Conservation* of both. Each step changes the net debit of one request at most and the balance by
  the opposite amount. The sum over all requests moves by as much (`SumPlus`).
- *Sums.* The library's induction theorems cannot be used, as they have an operator for a parameter.
  `SumTheorems` derives from the well-foundedness of `Nat` that a set of subsets of a finite set that has
  each one whose smaller ones it has is all of them (`EverySubset`). From there, with the
  definition of the fold: adding an element, changing one or two terms, comparing two sums, splitting
  a set, and shifting a row of terms by one, as ages do when time passes.
- *ChannelRouting.* `OncePerChannel` is not inductive by itself: a channel that was called is in
  `tried`, or is the one the request is busy with (`Remembered`); and a request that still runs has an
  attempt left (`AttemptLeft`), which gives `GivesUpLate`. Each channel that was called has taken an
  attempt (`Spent`), so that cooldowns that run out and channels that come back add no calls:
  `CallsWithinBudget`, for any number of channels.
- *Quotas.* `QuotaKept` says nothing of requests under way, which is why it is not inductive. What is:
  the tokens of a window that were used out of reservations, together with the reservations that may
  still be used (`Load`), stay below the quota and one estimate (`Bounded`). An admission adds one
  estimate to a load that the gate has found below the quota, as it reads at least what the rows hold
  (`UsedCounts`) and every reservation; a count moves tokens from what is reserved to what is used; and
  time takes away no more of what is `beyond` than of what was used (`Mirrored`).
- *Orders.* Three layers. `Typed`: a busy worker has an order, a promo use is counted, a
  payment that a worker has seen was made. `Sound`: what a status says of the credits
  (`CreditKnown`), and that what a worker is about to do fits the order it read (`Fits`). Every step
  either moves one order (`Move`) or works on it (`Work`), and each keeps both. `Rowed`: every crediting
  wrote its rows with the amounts of the order (`Written`), they match what the order still has
  (`Matched`), and while nobody has refunded half of a charge or credited an order twice, a refund asks for
  everything (`Asked`), so that the rows it marks are worth no more than it debits (`Covered`).
  That gives `BackedByRows`, of every step: credits of wallet and reserves that no row stands for (`Loose`)
  grow only by a row that ends over an empty wallet, while its credits are in a reserve (`Backs`). `Written`
  also says that what a sweep has listed has expired or is gone, and that the next credit goes to rows
  that are not there. Hence `CreditsLast`, of every step: a row keeps its amount, ends early by a
  refund of its own order only, and does not come back.
- *Subscriptions.* The row a job has listed is expired or retired, and is in the list of one job only
  (`ListedExpired`); a row that was renewed has the status that says so (`RenewedSays`), which no
  operation takes back.
- *Access.* `CallsKnow` and `HandlerKnows` say whom a call or a handler is for, whatever became of
  the account meanwhile. The refresh is an UPDATE of whatever row there is, so that a session that was
  deleted after it was read stays deleted: `Fresh` and `InactiveHasNone` are inductive because of it.
  `SessionCap` counts: of the sessions beyond the cap the newest is left out, and the sets that remain
  have at most `MaxConcurrent + 1` members (`AtMostTop`).
- *SignIn.* What both levels of the cache hold was stored under its number and not too long ago (`Made`,
  `InTime`). A code and the pending data beside it were written by the same registration, unless the
  data is torn or another call has failed since (`Fits`, `Owned`).
- *Refinement.* The initial states map, and each action is a `Hold`, a `Settle`, an `Elsewhere` or a
  stutter under `Stage`, given the invariant. In `StreamBilling` the stage is read from the place in the
  handler and from what was lost: a reconciliation whose write was lost holds its reserve for ever. A plain handler keeps none, and its stage is what has been
  paid: chat holds at the pre-reserve, legacy and web at the debit of the cost, and each settles when the
  net debit has come to the cost (an answer that equals its reserve, `SettleDelta`), to nothing
  (`GiveBack`; when that fails it holds for ever), or, without a reserve, when the request leaves. What a request has paid so determines
  where it stands. This needs an invariant of its own: what an answer costs is a price of its model, or
  nothing (`Quoted`); a chat request that asks its upstream without a reserve has a model without a price
  (`Unpriced`), so that its stage cannot be taken for legacy's; and what is debited without a reserve is the
  whole cost (`PaidWhole`).

Only model-checked: the liveness properties, which are outside the prover, as is ENABLED.

## 5. Where the code does not do what it says

**`subscriptions_downgrade`.** A downgrade that is scheduled and meets a subscription without
auto-renewal is written by an INSERT whose first two values are swapped
(`subscription_service.py:1019`): the row belongs to another user, and the user is served under a
plan that no row of theirs has.

Seen while modelling and present in the models; no run is spent on them.

*Billing.*
- `openai_compat.py:801` promises a release in the generator's `finally`. There is none: a client
  that disconnects while a chat or legacy chunk is being sent closes the generator at that `yield`. The
  reservation row counts against the quota until its TTL, and the pre-reserve is neither reconciled
  nor refunded (`AbortWithoutCleanup`).
- `_settle_nonstream_billing` refunds the difference between reserve and cost, which for a cost of
  zero is the whole reserve, and then refunds the whole reserve again in its branch for free answers
  (`proxy.py:207`).
- `check_or_reserve` returns the row of a call that is still at the upstream as a hit: a retry gets
  status 200 and the body `null` (`idempotency.py:70`, `KeyHit`).
- A pending key row is reported as "another stream is actively running" (`idempotency.py:90`) also after
  a 402, an abort or a freeze ended that stream.
- A stream longer than 300 seconds, or one whose user reset a password, no longer counts against the
  quota it runs in (`Lapse`, `RevokeCredentials`; `quota_service.py:332`).
- A settlement that the database refuses is swallowed after the answer (`billing_service.py:729` and
  `:760`; `openai_compat.py:1041`, `:1162`, `:1206` and `:1516`; `proxy.py:541`; `chat.py:838`): a stream
  keeps its whole reserve, and where only the refund was refused its usage row says the actual cost all
  the same (`SettleRefundLost`); a chat answer keeps the reserve or has a row without cost; a shortfall
  goes without its audit row (`SettlePartial`). Nothing looks for such requests later. The properties name
  these results and exclude every other.
- The token policy of `chatcompletion_v2` refuses after the reserve was debited, and the 403 keeps it
  (`Forbid` of `PlainBilling`; `proxy.py:406`): `FreeUnlessServed` lists it among the ends that keep
  their reserve (`KeepsReserve`).
- An error of the database before the upstream is called (`Break`), or in `quote_cost` after the answer
  (`SettleBreaks`), is a 500 that keeps the reserve and, on most endpoints, the reservation row.
- An errored stream of `chat.py` or `openai_compat.py` is charged by estimate without a usage row
  (`LogAtEnd`; `README.md:133`).
- A failed extra debit of proxy leaves the whole cost on the usage row (`Adjust`; `proxy.py:172`); the
  fallback after a database error debits the cost on top of the reserve (`Charge`; `proxy.py:121`); the
  403 of the token policy keeps the reservation row (`Forbid`); the error return of `/chat/send` keeps
  its own (`UpstreamError`; `chat.py:552`); and concurrent `/chat/send` requests are delivered though the
  balance covers one (`README.md:129`).

*Routing.*
- `opened_at` is set once and is not moved by a failed probe: after the first cooldown the breaker
  stays half-open, whatever fails, until a call succeeds (`circuit_breaker.py:143`, against the comment
  in line 181). A half-open breaker lets every call through, not one (`Dispatch`; line 107); a call that
  was sent before it opened closes it when it succeeds.
- The breaker belongs to the provider and the cooldown to the channel: an open breaker cools channels
  that were not called (`Blocked`). An error status of a plain request counts as a success
  (`RefusePlain`; compare `proxy_service.py:121`); a stream that breaks after its first delta does not cool
  its channel (`StreamBreaks`; `README.md:364`). `README.md:71` states a cooldown of 30 seconds,
  `proxy_service.py:38` uses 60.

*Orders.*
- The verdict that an amount differs writes `pending_review` without looking at the status again
  (`routes/billing.py:1466`), also over an order that was approved meanwhile; an admin may then credit it
  a second time. `CreditedOnce` therefore leaves out the orders that some worker found mismatched
  (`flagged`). A card payment that arrives after the user has begun a checkout on chain is taken for a
  mismatch.
- `_mark_order_failed` asks for no status (`MarkFailed`).
- A reserve is taken out of the wallet whole, and a sweep or a refund that comes while it is in flight
  debits what is left. What the stream gives back then has no expiry (`database.py:3527`), so that
  credits which should have expired last for ever; the other refunds leave `expires_at` at its default
  and get a fresh horizon (`proxy.py:157`, `openai_compat.py:1154`), although the comment at
  `database.py:3515` says that returned reserves must not refresh it. `BackedByRows` leaves this step out
  by name: the wallet is emptied while `held` is not zero.
- A row that the sweep has listed may be reversed by a refund before its turn, and is debited once more:
  `SweptOnce` in `Ledger` states the contrary, and the model violates it.
- A refund of half a charge marks the last row whole, so that the rest of its credits never expires.
- A payment whose webhook is lost and that is settled after the order has expired (30 minutes) is only
  an alert. Refunds and disputes are found by `payment_reference` alone. A refund never cancels a
  subscription, whatever the docstring says (`order_service.py:71`): the note it looks for was overwritten
  before. The notifications of `approve_order` stand behind a `return` inside the `with`.

*Subscriptions.*
- The job renews "the latest row that can be renewed" of the user whose row it expired, which may be
  another row; a crash between expiry and renewal leaves `plan_id` as it was; `JobClears` clears it
  though another renewal may have set it again. A redeem code for days does not set `users.plan_id`.
  A bill's order expires after 30 minutes, while the grace for it is three days.

*Access.*
- The cap is one more than the plan says: it is applied to the sessions beside the new one
  (`session.py:219`), and that is how `SessionCap` is stated.
- The key of the account (`users.api_key_hash`) outlives every password change and revocation
  (`auth.py:145`, `user_service.py:58`, `user.py:833`), although `auth.py:133` speaks of every way in: it
  still opens sessions at `/auth/login-api-key` (`auth.py:632`), and those count as made under the new
  password; `X-API-Key` takes it too (`proxy.py:302`). Only freezing and deletion stop it.
  `OldSessionsAndKeysEnd` is about sessions and issued keys.
- While the kill switch is on nobody can release it, except with a request that was granted before
  (`admin.py:1892`).
- A session that has expired is revived by a refresh that read it before. A request that was
  granted before a password change may issue a key after it, and `rotate_key` brings a revoked key
  back. A user who is unfrozen between the purge's list and its deletion is deleted all the
  same. A reset token stays good when another is sent.
- A crash or an error between the new password and the revocation leaves sessions and keys: `cut`.

*SignIn.*
- Any login prunes the table with its own 15 minutes, and thereby ends the 30-minute lock of a
  verification (`lockout.py:127`, `auth.py:293`). A success from an address forgives the failures of
  everyone at that address. A user name and the e-mail of the same account count separately.
- When the pending data does not reach Redis (`auth.py:222`), the code that was mailed opens an earlier
  registration's data: `torn`.
- A value read from Redis stays in the fallback for 300 seconds, whatever it had left, and one that was
  deleted during an outage comes back.

*Quotas.*
- The monthly window reads thirty days of buckets that are deleted after nine (`database.py:2210`): it
  counts no more than nine days and a fraction. `WindowsAgree` is about the windows within what is kept.
- An admin with an empty wallet passes the windows as well (`AdmitPenniless`): the refusal for the balance
  comes first, and that is the one `openai_compat.py:768` forgives, though the comment above it says that
  the quotas still apply.
- `/chat/generate-title` (`chat.py:348`) asks no gate, reserves nothing and is not charged; its tokens are
  counted (`AskTitle`). `QuotaKept` adds what comes this way to its bound.
- `check_api_key_quota` has no caller.

## 6. What is left out

- *Billing.* Admins, who neither reserve nor pay in chat completions, and chat titles, which cost nothing
  (both are in `Quotas`). The text of requests and answers, and with it the body hash of an Idempotency-Key (a
  mismatch is refused like any taken key); the token counters, except as a sum in `used`; the three
  windows (one stands for them in `StreamBilling`, a free choice in `PlainBilling`); rounding
  (amounts are whole millionths, as `quote_cost` rounds to six places); plain and streaming requests that
  share one key row.
- *Routing.* The retries inside `post_with_retry` (up to three posts on one channel, `proxy_service.py:219`, are one attempt
  with one result, so that `calls` and `CallsWithinBudget` say nothing of the number of posts); channel weights (any eligible channel may be chosen, which includes every weighting).
- *Orders.* Auto-recharge and its deduplication, the limit per user of a promo code, the enterprise plan,
  redeem codes; credits from sign-up and admins, which write the same kind of row; the currency and
  the signatures of events. Orders that renew a subscription are in `Subscriptions`.
- *Subscriptions.* The other steps of the daily job, each of which fails for itself; days within a period
  are chosen by the step that reads them.
- *Access.* TOTP and OAuth; the login reads `is_active` (`auth.py:511`) and inserts the session
  (`session.py:146`) in one step; `X-API-Key`, which makes no session; one issued key and one reset token per user; a User-Agent that differs is a free
  choice of `Reject`.
- *SignIn.* The store of captcha answers, the resend lock and the hourly limits.
- *Quotas.* Requests and tokens per minute, budgets and warnings, changes of a quota. A reservation may
  lapse at any time, which includes its 300 seconds. A rollup that fails inside its `try` is not modelled.

SQLite transactions are atomic. In billing every write of a request may be refused once, and then the
handler does what it does: swallow, answer 500, or charge in another way. An error that leaves a
generator other than at one of these writes, as of the user's row in `NoticeFreeze`, ends like
`AbortWithoutCleanup`, or like the `finally` where there is one (`BeginSettle`). Elsewhere a database
error is a transaction that did not happen, and it is modelled where something else has been committed
before it: a login and its cap, a new password and the revocation, a job between two rows. The components without a module are listed in section 1; `PROJECT.json` gives the reason for each.

## 7. How it is built, and what is left

Each component is written so that it can be proved about: parameters are constants with named assumptions,
there is one action per operation, no recursive operator, and invariants are conjunctions of named parts.
TLC comes first: an inductive invariant is checked as an invariant of the run before it is proved.
The order was: the money of streams and plain calls and their refinement, routing, then orders over the
ledger, subscriptions, access, sign-in and quotas; then the proofs in the same order.

Every safety and action property of a run is proved, but `PlanHasRow`, which is false. What is left is
outside the prover (the liveness properties, and that the fairness of section 3 suffices for them), or is
in section 5: three behaviours that contradict a comment or document and have a property, or an action,
but no run of their own (`SweptOnce`, the breaker that is not opened again, and the channel that is not
cooled after a broken stream). The next components to model would be the key pool, whose mark may hit
another key than the one used, and the redeem codes beside the orders.
