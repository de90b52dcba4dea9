-------------------------------- MODULE Orders --------------------------------
(***************************************************************************)
(* One user's orders, from creation to credit and refund.                  *)
(*   services/order_service.py          what an order can go through       *)
(*   routes/billing.py                  checkout, webhooks, status query   *)
(*   routes/admin_billing.py            the admin's decisions              *)
(*   services/stripe_reconciliation.py, services/usdt_reconciliation.py    *)
(*                                      the daily comparison               *)
(*                                                                         *)
(* Each action is one database transaction, or the stretch of a coroutine  *)
(* between two awaits.  Webhook bodies run in a threadpool, the query is a *)
(* coroutine that waits for the provider, the jobs are a process of their  *)
(* own: each reads the order first and writes it later, and what it has    *)
(* read is at[w].  An order may be paid at both providers, since a second  *)
(* checkout only replaces the session of the first.  A provider remembers  *)
(* what was paid; it may tell us of it any number of times, or never.      *)
(***************************************************************************)
EXTENDS Ledger

CONSTANTS
  NoOrder,
  Workers,       \* threads and coroutines that handle payments
  Price, Base, Bonus,  \* amount, credits, bonus_credits of each order
  PaidAmounts,   \* amounts an admin may enter for a mismatched order
  MaxUses        \* promo_codes.max_uses

ASSUME OrdersAssumption ==
  /\ NoOrder \notin Orders
  /\ Price \in [Orders -> Nat \ {0}]
  /\ Base \in [Orders -> Nat \ {0}]
  /\ Bonus \in [Orders -> Nat]
  /\ PaidAmounts \subseteq Nat
  /\ MaxUses \in Nat

VARIABLES
  status,    \* orders.status
  credits,   \* credits[o]: orders.credits and bonus_credits, as a pair
  session,   \* orders.payment_provider: where the latest checkout was begun
  ref,       \* whose payment_reference the order has
  promo,     \* orders with a promo_code_usage row
  used,      \* promo_codes.used_count
  pay,       \* pay[<<o, p>>]: the payment at provider p, as p sees it
  back,      \* back[o]: what became of the card charge
  at, on,    \* at[w], on[w]: what worker w is about to do, and to which order
  due,       \* due[w]: the credits a refund event asks for
  flagged,   \* orders some worker took for paid with another amount
  credited   \* credited[o]: how often the order was credited

Providers == {"stripe", "usdt"}

orderRows == <<status, credits, session, ref>>
promoRows == <<promo, used>>
provider == <<pay, back>>
tasks == <<at, on, due>>
orderVars == <<orderRows, promoRows, provider, tasks, flagged, credited>>
vars == <<ledgerVars, orderVars>>

Statuses == {"none", "pending", "pending_review", "paid", "failed", "cancelled",
             "expired", "refunded", "disputed"}
Payments == {"none", "open", "partial", "failed", "paid", "mispaid"}
Returns == {"none", "refunded", "halved", "disputed"}
Steps == {"idle", "checkout", "querying", "reconciling", "review", "approve",
          "reference", "partial", "fail", "refund"}

TypeOK ==
  /\ LedgerTypeOK
  /\ status \in [Orders -> Statuses]
  /\ credits \in [Orders -> Nat \X Nat]
  /\ session \in [Orders -> Providers \union {"none"}]
  /\ ref \in [Orders -> Providers \union {"none"}]
  /\ promo \subseteq Orders
  /\ used \in Nat
  /\ pay \in [Orders \X Providers -> Payments]
  /\ back \in [Orders -> Returns]
  /\ flagged \subseteq Orders
  /\ at \in [Workers -> Steps]
  /\ on \in [Workers -> (Orders \X Providers) \union {NoOrder}]
  /\ due \in [Workers -> Nat]
  /\ credited \in [Orders -> Nat]

Init ==
  /\ LedgerInit
  /\ status = [o \in Orders |-> "none"]
  /\ credits = [o \in Orders |-> <<Base[o], Bonus[o]>>]
  /\ session = [o \in Orders |-> "none"]
  /\ ref = [o \in Orders |-> "none"]
  /\ promo = {}
  /\ used = 0
  /\ pay = [x \in Orders \X Providers |-> "none"]
  /\ back = [o \in Orders |-> "none"]
  /\ flagged = {}
  /\ at = [w \in Workers |-> "idle"]
  /\ on = [w \in Workers |-> NoOrder]
  /\ due = [w \in Workers |-> 0]
  /\ credited = [o \in Orders |-> 0]

Total(o) == credits[o][1] + credits[o][2]
SetStatus(o, s) == status' = [status EXCEPT ![o] = s]

----------------------------------------------------------------------------
(* What can happen to the row of an order: the transactions of order_service *)

\* create_order, with a promo code that is still good, or without one.  The discount or
\* bonus of the code is in Base and Bonus.
Create(o) ==
  /\ status[o] = "none"
  /\ SetStatus(o, "pending")
  /\ UNCHANGED promoRows

CreateWithPromo(o) ==
  /\ status[o] = "none"
  /\ used < MaxUses
  /\ SetStatus(o, "pending")
  /\ used' = used + 1
  /\ promo' = promo \union {o}

\* Faulty variant: the count is left alone.
FreePromoUncounted(S) ==
  /\ used' = used
  /\ promo' = promo \ S

\* The promo uses of the orders in S are given back.
FreePromo(S) ==
  /\ used' = used - Cardinality(S \intersect promo)
  /\ promo' = promo \ S

\* Faulty variant: an order that is paid is approved again.
ApprovableAgain(o) == status[o] \in {"pending", "pending_review", "paid"} /\ credited[o] < MaxCredits

\* approve_order's guard and effect; with another amount, approve_mismatched_order's.
Approvable(o) == status[o] \in {"pending", "pending_review"} /\ credited[o] < MaxCredits
Approve(o, base, bonus) ==
  /\ Approvable(o)
  /\ SetStatus(o, "paid")
  /\ credits' = [credits EXCEPT ![o] = <<base, bonus>>]
  /\ Grant(o, credited[o] + 1, base, bonus)
  /\ credited' = [credited EXCEPT ![o] = @ + 1]

ApproveInFull(o) == Approve(o, credits[o][1], credits[o][2])
Scaled(c, paid, o) == (c * paid) \div Price[o]

\* refund_order: only a paid order; the order is closed though the wallet may be short.
Refund(o, target) ==
  /\ status[o] = "paid"
  /\ TakeBack(o, Lesser(target, Total(o)))
  /\ SetStatus(o, "refunded")
  /\ UNCHANGED <<credits, credited>>

----------------------------------------------------------------------------
(* The user *)

CreateOrder(o) ==
  /\ Create(o) \/ CreateWithPromo(o)
  /\ UNCHANGED <<ledgerVars, credits, session, ref, provider, tasks, flagged, credited>>

Cancel(o) ==
  /\ status[o] = "pending"
  /\ SetStatus(o, "cancelled")
  /\ FreePromo({o})
  /\ UNCHANGED <<ledgerVars, credits, session, ref, provider, tasks, flagged, credited>>

Take(w, s, x) ==
  /\ at[w] = "idle"
  /\ at' = [at EXCEPT ![w] = s]
  /\ on' = [on EXCEPT ![w] = x]
  /\ UNCHANGED due
Drop(w) ==
  /\ at' = [at EXCEPT ![w] = "idle"]
  /\ on' = [on EXCEPT ![w] = NoOrder]
  /\ due' = [due EXCEPT ![w] = 0]
OrderOf(w) == on[w][1]

\* pay_order reads the status, waits for create_checkout, and stores the session.
BeginCheckout(w, o) ==
  /\ status[o] = "pending"
  /\ \E p \in Providers : Take(w, "checkout", <<o, p>>)
  /\ UNCHANGED <<ledgerVars, orderRows, promoRows, provider, flagged, credited>>

FinishCheckout(w) ==
  /\ at[w] = "checkout"
  /\ pay' = [pay EXCEPT ![on[w]] = IF @ = "none" THEN "open" ELSE @]
  /\ session' = [session EXCEPT ![OrderOf(w)] = on[w][2]]
  /\ Drop(w)
  /\ UNCHANGED <<ledgerVars, status, credits, ref, promoRows, back, flagged, credited>>

----------------------------------------------------------------------------
(* The customer and the providers *)

PaySteps == {<<"open", "paid">>, <<"open", "mispaid">>} \X Providers
            \union {<<"open", "partial">>, <<"partial", "paid">>, <<"partial", "mispaid">>,
                    <<"open", "failed">>, <<"partial", "failed">>} \X {"usdt"}

\* A checkout is paid: the amount of the order, or another one.  On chain it may be less
\* than the invoice first, and a payment fails, expires or is returned.
PaymentMoves(o, p) ==
  /\ \E s \in Payments : /\ <<<<pay[<<o, p>>], s>>, p>> \in PaySteps
                         /\ pay' = [pay EXCEPT ![<<o, p>>] = s]
  /\ UNCHANGED <<ledgerVars, orderRows, promoRows, back, tasks, flagged, credited>>

Charged == {"paid", "mispaid"}

\* The operator refunds the charge at Stripe, all or half, or the card holder disputes it.
ChargeReturned(o) ==
  /\ pay[<<o, "stripe">>] \in Charged /\ back[o] = "none"
  /\ \E s \in Returns \ {"none"} : back' = [back EXCEPT ![o] = s]
  /\ UNCHANGED <<ledgerVars, orderRows, promoRows, pay, tasks, flagged, credited>>

----------------------------------------------------------------------------
(* Payments arrive: webhooks, the query, the daily comparison *)

\* The amount is compared in the currency of the latest checkout: a card payment of an
\* order that was taken to the other provider later does not match.
Matches(o, p) == pay[<<o, p>>] = "paid" /\ (p = "stripe" => session[o] # "usdt")
Decide(w, o, p) ==
  IF Matches(o, p) THEN Take(w, "approve", <<o, p>>) /\ UNCHANGED flagged
  ELSE Take(w, "review", <<o, p>>) /\ flagged' = flagged \union {o}

\* checkout.session.completed, or an IPN with status finished, however late, and the
\* Stripe comparison: a body that finds the order pending decides by the amount.
CompletedEvent(w, o) ==
  /\ status[o] = "pending"
  /\ \E p \in Providers : pay[<<o, p>>] \in Charged /\ Decide(w, o, p)
  /\ UNCHANGED <<ledgerVars, orderRows, promoRows, provider, credited>>

PartialEvent(w, o) ==
  /\ pay[<<o, "usdt">>] = "partial"
  /\ status[o] = "pending"
  /\ Take(w, "partial", <<o, "usdt">>)
  /\ UNCHANGED <<ledgerVars, orderRows, promoRows, provider, flagged, credited>>

\* A charge says nothing of the order: it is found by payment_reference.
Found(o) == ref[o] = "stripe"

\* charge.refunded of a paid order; any other status drops the event.
RefundedEvent(w, o) ==
  /\ back[o] \in {"refunded", "halved"} /\ Found(o)
  /\ status[o] = "paid"
  /\ at[w] = "idle"
  /\ at' = [at EXCEPT ![w] = "refund"]
  /\ on' = [on EXCEPT ![w] = <<o, "stripe">>]
  /\ due' = [due EXCEPT ![w] = IF back[o] = "halved" THEN Total(o) \div 2 ELSE Total(o)]
  /\ UNCHANGED <<ledgerVars, orderRows, promoRows, provider, flagged, credited>>

\* charge.dispute.created asks for no status.
DisputedEvent(o) ==
  /\ back[o] = "disputed" /\ Found(o)
  /\ SetStatus(o, "disputed")
  /\ UNCHANGED <<ledgerVars, credits, session, ref, promoRows, provider, tasks, flagged, credited>>

\* query_order_payment and the USDT comparison read the order and its session, and then
\* ask the provider.
BeginQuery(w, o) ==
  /\ session[o] # "none"
  /\ status[o] = "pending"
  /\ Take(w, "querying", <<o, session[o]>>)
  /\ UNCHANGED <<ledgerVars, orderRows, promoRows, provider, flagged, credited>>

BeginUsdtRecon(w, o) ==
  /\ session[o] = "usdt"
  /\ status[o] = "pending"
  /\ Take(w, "reconciling", <<o, "usdt">>)
  /\ UNCHANGED <<ledgerVars, orderRows, promoRows, provider, flagged, credited>>

\* For a closed order the Stripe comparison only adds a missing payment_reference.
StripeReconRef(o) ==
  /\ pay[<<o, "stripe">>] \in Charged
  /\ status[o] \in {"paid", "refunded"} /\ ref[o] = "none"
  /\ ref' = [ref EXCEPT ![o] = "stripe"]
  /\ UNCHANGED <<ledgerVars, status, credits, session, promoRows, provider, tasks, flagged,
                 credited>>

\* What the answer makes of an order that was pending when it was read.
Verdict(s, p) ==
  CASE p = "paid" -> "approve"
    [] p = "mispaid" -> "review"
    [] p = "partial" /\ s = "reconciling" -> "review"
    [] p = "failed" /\ s = "reconciling" -> "fail"
    [] OTHER -> "idle"

ProviderAnswers(w) ==
  /\ at[w] \in {"querying", "reconciling"}
  /\ LET v == Verdict(at[w], pay[on[w]])
     IN /\ IF v = "idle" THEN Drop(w) ELSE at' = [at EXCEPT ![w] = v] /\ UNCHANGED <<on, due>>
        /\ flagged' = IF v = "review" THEN flagged \union {OrderOf(w)} ELSE flagged
  /\ UNCHANGED <<ledgerVars, orderRows, promoRows, provider, credited>>

\* The amounts differ: the order goes to review, whatever it is by now.
RouteToReview(w) ==
  /\ at[w] = "review"
  /\ SetStatus(OrderOf(w), "pending_review")
  /\ Drop(w)
  /\ UNCHANGED <<ledgerVars, credits, session, ref, promoRows, provider, flagged, credited>>

\* Faulty variant of HandlePartial: the order is not read again.
HandlePartialBlind(w) ==
  /\ at[w] = "partial"
  /\ SetStatus(OrderOf(w), "pending_review")
  /\ Drop(w)
  /\ UNCHANGED <<ledgerVars, credits, session, ref, promoRows, provider, flagged, credited>>

\* handle_partial_payment looks at the order again.
HandlePartial(w) ==
  /\ at[w] = "partial"
  /\ status' = [status EXCEPT ![OrderOf(w)] = IF @ = "pending" THEN "pending_review" ELSE @]
  /\ Drop(w)
  /\ UNCHANGED <<ledgerVars, credits, session, ref, promoRows, provider, flagged, credited>>

\* USDTReconciliation._mark_order_failed.
MarkFailed(w) ==
  /\ at[w] = "fail"
  /\ SetStatus(OrderOf(w), "failed")
  /\ ref' = [ref EXCEPT ![OrderOf(w)] = "usdt"]
  /\ Drop(w)
  /\ UNCHANGED <<ledgerVars, credits, session, promoRows, provider, flagged, credited>>

\* approve_order looks at the order again; the payment_reference is another transaction.
ApprovePayment(w) ==
  /\ at[w] = "approve"
  /\ ApproveInFull(OrderOf(w))
  /\ at' = [at EXCEPT ![w] = "reference"]
  /\ UNCHANGED <<session, ref, promoRows, provider, on, due, flagged>>

AlreadyDecided(w) ==
  /\ \/ at[w] = "approve" /\ status[OrderOf(w)] \notin {"pending", "pending_review"}
     \/ at[w] = "refund" /\ status[OrderOf(w)] # "paid"
  /\ Drop(w)
  /\ UNCHANGED <<ledgerVars, orderRows, promoRows, provider, flagged, credited>>

\* The USDT webhook also notes its provider.
StoreReference(w) ==
  /\ at[w] = "reference"
  /\ ref' = [ref EXCEPT ![OrderOf(w)] = on[w][2]]
  /\ session' = [session EXCEPT ![OrderOf(w)] = IF on[w][2] = "usdt" THEN "usdt" ELSE @]
  /\ Drop(w)
  /\ UNCHANGED <<ledgerVars, status, credits, promoRows, provider, flagged, credited>>

RefundPayment(w) ==
  /\ at[w] = "refund"
  /\ Refund(OrderOf(w), due[w])
  /\ Drop(w)
  /\ UNCHANGED <<session, ref, promoRows, provider, flagged>>

\* The process ends, or the write fails (the database stays locked): what the worker was
\* about to do is lost.
Crash(w) ==
  /\ at[w] # "idle"
  /\ Drop(w)
  /\ UNCHANGED <<ledgerVars, orderRows, promoRows, provider, flagged, credited>>

----------------------------------------------------------------------------
(* Admins and the hourly job *)

AdminApproves(o) ==
  /\ ApproveInFull(o)
  /\ UNCHANGED <<session, ref, promoRows, provider, tasks, flagged>>

AdminApprovesMismatch(o) ==
  /\ \E paid \in PaidAmounts :
       Approve(o, Scaled(credits[o][1], paid, o), Scaled(credits[o][2], paid, o))
  /\ UNCHANGED <<session, ref, promoRows, provider, tasks, flagged>>

\* Only a pending order, and its promo use is kept.
AdminRejects(o) ==
  /\ status[o] = "pending"
  /\ SetStatus(o, "failed")
  /\ UNCHANGED <<ledgerVars, credits, session, ref, promoRows, provider, tasks, flagged, credited>>

\* refund_order, and bulk_refund for each order of its list.
AdminRefunds(o) ==
  /\ Refund(o, Total(o))
  /\ UNCHANGED <<session, ref, promoRows, provider, tasks, flagged>>

\* Faulty variant: an order with a checkout is left to its webhook.
ExpireUnstarted ==
  \E overdue \in SUBSET {o \in Orders : status[o] = "pending" /\ session[o] = "none"} \ {{}} :
    /\ status' = [o \in Orders |-> IF o \in overdue THEN "expired" ELSE status[o]]
    /\ FreePromo(overdue)
    /\ UNCHANGED <<ledgerVars, credits, session, ref, provider, tasks, flagged, credited>>

\* process_expired_orders: the pending orders that are older than 30 minutes, in one
\* transaction.  The clock is left out: any of them may be.
ExpireOrders ==
  \E overdue \in SUBSET {o \in Orders : status[o] = "pending"} \ {{}} :
    /\ status' = [o \in Orders |-> IF o \in overdue THEN "expired" ELSE status[o]]
    /\ FreePromo(overdue)
    /\ UNCHANGED <<ledgerVars, credits, session, ref, provider, tasks, flagged, credited>>

LedgerStep ==
  /\ \/ \E r \in Rows : Lapse(r) \/ SweepRow(r)
     \/ ListExpired
     \/ SweepDies
     \/ \E c \in Spendings : Spend(c) \/ Reserve(c) \/ SweepRenewed(c)
     \/ \E c \in Spendings : \E part \in 0..c : ReturnReserve(c, part)
  /\ UNCHANGED orderVars

----------------------------------------------------------------------------

OrderStep(o) ==
  \/ CreateOrder(o) \/ Cancel(o)
  \/ \E p \in Providers : PaymentMoves(o, p)
  \/ ChargeReturned(o) \/ DisputedEvent(o) \/ StripeReconRef(o)
  \/ AdminApproves(o) \/ AdminApprovesMismatch(o) \/ AdminRejects(o) \/ AdminRefunds(o)
Begin(w, o) ==
  \/ BeginCheckout(w, o) \/ CompletedEvent(w, o) \/ PartialEvent(w, o)
  \/ RefundedEvent(w, o) \/ BeginQuery(w, o) \/ BeginUsdtRecon(w, o)
Proceed(w) ==
  \/ FinishCheckout(w) \/ ProviderAnswers(w) \/ RouteToReview(w) \/ HandlePartial(w)
  \/ MarkFailed(w) \/ ApprovePayment(w) \/ AlreadyDecided(w) \/ StoreReference(w)
  \/ RefundPayment(w)

Next ==
  \/ \E o \in Orders : OrderStep(o) \/ \E w \in Workers : Begin(w, o)
  \/ \E w \in Workers : Proceed(w) \/ Crash(w)
  \/ ExpireOrders
  \/ LedgerStep

Spec == Init /\ [][Next]_vars

\* The jobs run again every hour and every day, and do not die each time they sweep.
FairSpec ==
  /\ Spec
  /\ \A o \in Orders : WF_vars(ExpireOrders /\ status[o] = "pending" /\ status'[o] = "expired")
  /\ WF_vars(ListExpired /\ UNCHANGED orderVars)
  /\ SF_vars(\E r \in Rows : SweepRow(r) /\ UNCHANGED orderVars)

----------------------------------------------------------------------------
(* Properties *)

\* Duplicated webhooks, the query, the daily comparison and the admins: however they
\* overlap, approve_order credits an order once -- unless somebody found another amount.
CreditedOnce == \A o \in Orders \ flagged : credited[o] <= 1

\* An order has been credited exactly when it is closed as paid, refunded or disputed:
\* nothing that comes later hides the credit, and no status promises one that was not
\* given.  An order that failed on chain is left out: MarkFailed asks for no status.
CreditedMeansPaid ==
  \A o \in Orders \ flagged :
    pay[<<o, "usdt">>] # "failed" =>
      (credited[o] > 0 <=> status[o] \in {"paid", "refunded", "disputed"})

\* promo_codes.used_count is the number of orders that hold a use, within max_uses, and
\* an order that was cancelled or has expired holds none: each way out of pending gives
\* the use back once.
PromoUses ==
  /\ used = Cardinality(promo) /\ used <= MaxUses
  /\ \A o \in promo : status[o] \notin {"none", "cancelled", "expired"}

\* Where half of a charge was refunded, or an order credited again with another amount,
\* refund_order marks the last row whole.
Calm == \A o \in Orders : back[o] # "halved" /\ credited[o] <= 1

\* Credits that can never expire do not come about: a refund marks no more rows than it has
\* debited, a sweep no more than the row.  Only a row that is ended when the wallet is empty
\* and its credits are in a reserve leaves them without a row, and they come back as such.
BackedByRows ==
  [][Calm' /\ Unbacked' > 0 => Unbacked' <= Unbacked \/ (balance' = 0 /\ held' > 0)]_vars

\* What was paid for stays: a row of credits keeps its amount, ends before its time by a
\* refund of its own order only, and does not come back, whatever a sweep has listed of it.
CreditsLast ==
  [][\A r \in Rows :
       /\ row[r] # "none" => row'[r] # "none" /\ worth'[r] = worth[r]
       /\ row[r] = "lapsed" => row'[r] # "live"
       /\ row[r] = "gone" => row'[r] = "gone"
       /\ row[r] = "live" /\ row'[r] = "gone" =>
            status[r[1]] = "paid" /\ status'[r[1]] = "refunded"]_vars

\* Whatever becomes of its payment, a pending order is closed by the hourly job.
PendingEnds == \A o \in Orders : status[o] = "pending" ~> status[o] # "pending"

\* A row that has expired is taken, though workers die in the middle of a sweep.
LapsedIsSwept == []<>(\A r \in Rows : row[r] # "lapsed")
=============================================================================
