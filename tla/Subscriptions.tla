----------------------------- MODULE Subscriptions -----------------------------
(***************************************************************************)
(* One user's subscriptions (backend/services/subscription_service.py, the *)
(* activation and the redeem codes of order_service.py, admin_set_user_plan *)
(* of routes/admin_billing.py).                                            *)
(*                                                                         *)
(* A subscription is a row of its own for every billing period.  The plan  *)
(* the user is served under is users.plan_id, which every operation writes *)
(* beside the rows.  process_expiry runs in the hourly and in the daily    *)
(* job, two processes that may overlap: it expires rows in one transaction *)
(* and renews in another, and what it has listed in between is todo[w].    *)
(*                                                                         *)
(* Time is what has passed: the rows whose period, or whose three days of  *)
(* grace, are over.  Days that are left of a period are chosen at the step *)
(* that reads them.                                                        *)
(***************************************************************************)
EXTENDS Integers, FiniteSetsExt

CONSTANTS
  Plans,
  NoPlan,
  Price, Monthly,  \* monthly_price and monthly_credits of a plan
  Period,        \* the days of a period, _PERIOD_DAYS
  Jobs,          \* the processes that run process_expiry
  Toggled,       \* plans an admin takes off and puts back
  Incomes,       \* amounts that other code adds to the wallet
  MaxSubs, MaxOpen, MaxBalance  \* bounds: rows, open orders, credits

ASSUME SubscriptionsAssumption ==
  /\ NoPlan \notin Plans
  /\ Price \in [Plans -> Nat] /\ Monthly \in [Plans -> Nat]
  /\ Period \in Nat \ {0}
  /\ Toggled \subseteq Plans
  /\ Incomes \subseteq Nat
  /\ MaxSubs \in Nat /\ MaxOpen \in Nat /\ MaxBalance \in Nat

VARIABLES
  sub,       \* sub[s]: the rows of the user, in the order of their ids
  past,      \* open rows whose expires_at, or whose grace, is over
  plan,      \* users.plan_id
  balance,   \* wallets.balance
  open,      \* open[p]: pending orders for plan p, bills or bought online
  offered,   \* plans with is_active = 1
  todo,      \* todo[w]: the row job w has expired and is about to renew
  clearing,  \* jobs whose renewal failed, before they clear users.plan_id
  renewals   \* renewals[s]: how often row s was renewed

vars == <<sub, past, plan, balance, open, offered, todo, clearing, renewals>>

Ids == 1..MaxSubs
Statuses == {"none", "active", "pending_payment", "expired", "renewed", "upgraded"}
Rows == [plan : Plans \union {NoPlan}, status : Statuses, auto : BOOLEAN,
         next : Plans \union {NoPlan}]
Row(p, st, ar) == [plan |-> p, status |-> st, auto |-> ar, next |-> NoPlan]

TypeOK ==
  /\ sub \in [Ids -> Rows]
  /\ past \subseteq Ids
  /\ plan \in Plans \union {NoPlan}
  /\ balance \in Nat
  /\ open \in [Plans -> Nat]
  /\ offered \subseteq Plans
  /\ todo \in [Jobs -> Ids \union {0}]
  /\ clearing \subseteq Jobs
  /\ renewals \in [Ids -> Nat]

Init ==
  /\ sub = [s \in Ids |-> Row(NoPlan, "none", FALSE)]
  /\ past = {}
  /\ plan = NoPlan
  /\ balance = 0
  /\ open = [p \in Plans |-> 0]
  /\ offered = Plans
  /\ todo = [w \in Jobs |-> 0]
  /\ clearing = {}
  /\ renewals = [s \in Ids |-> 0]

With(st) == {s \in Ids : sub[s].status = st}
Active == With("active")
\* The row an INSERT writes next.
Free(s) == sub[s].status = "none" /\ \A t \in 1..(s - 1) : sub[t].status # "none"
\* ORDER BY id DESC LIMIT 1
Latest(s, S) == s \in S /\ \A t \in S : t <= s
Newest(s) == \A t \in Active : t <= s

\* A row that is left behind for good; what it was to renew to is not read again.
Retire(s, st) == [sub[s] EXCEPT !.status = st, !.auto = FALSE, !.next = NoPlan]

Lesser(a, b) == IF a < b THEN a ELSE b
\* MaxBalance and MaxOpen bound the instance, not the program.
Gain(c) == balance + c <= MaxBalance /\ balance' = balance + c
Bill(p) ==
  /\ MapThenSumSet(LAMBDA q : open[q], Plans) < MaxOpen
  /\ open' = [open EXCEPT ![p] = @ + 1]

----------------------------------------------------------------------------
(* SubscriptionService.upgrade, also for a first subscription *)

\* An inactive plan is read as one without a price.
Value(p, f) == IF p \in offered THEN f[p] ELSE 0
Share(p, f, days) == (Value(p, f) * days) \div Period

\* The days that are left of row s.
DaysLeft(s) == IF s \in past THEN {0} ELSE 0..Period

\* What an upgrade starts from: no row, or the latest active row, with the money its
\* remaining days are worth and the credits that are clawed back for them.
UpgradeFrom(p) ==
  {[row |-> 0, refund |-> 0, claw |-> 0, auto |-> TRUE] : x \in {y \in {0} : Active = {}}}
  \union
  UNION {{[row |-> s, refund |-> Share(sub[s].plan, Price, d),
           claw |-> Share(sub[s].plan, Monthly, d), auto |-> sub[s].auto] : d \in DaysLeft(s)}
         : s \in {t \in Ids : Latest(t, Active) /\ Price[p] > Value(sub[t].plan, Price)}}

\* Faulty variant: the old row is closed before the new one is paid.
UpgradeLaterClosing(p) ==
  /\ p \in offered
  /\ \E from \in UpgradeFrom(p), new \in Ids :
       /\ balance + from.refund < Price[p]
       /\ Free(new)
       /\ sub' = [s \in Ids |-> CASE s = new -> Row(p, "pending_payment", from.auto)
                                  [] s = from.row -> Retire(s, "upgraded")
                                  [] OTHER -> sub[s]]
  /\ Bill(p)
  /\ UNCHANGED <<past, plan, balance, offered, todo, clearing, renewals>>

\* It cannot be paid: the old row stays as it is, and a bill is written.
UpgradeLater(p) ==
  /\ p \in offered
  /\ \E from \in UpgradeFrom(p), new \in Ids :
       /\ balance + from.refund < Price[p]
       /\ Free(new)
       /\ sub' = [sub EXCEPT ![new] = Row(p, "pending_payment", from.auto)]
  /\ Bill(p)
  /\ UNCHANGED <<past, plan, balance, offered, todo, clearing, renewals>>

\* Refund, charge, clawback as far as the wallet goes, and the new month's credits.
UpgradeNow(p) ==
  /\ p \in offered
  /\ \E from \in UpgradeFrom(p), new \in Ids :
       LET rest == balance + from.refund - Price[p]
       IN /\ rest >= 0
          /\ Free(new)
          /\ sub' = [s \in Ids |->
                       CASE s = new -> Row(p, "active", from.auto)
                         [] s = from.row -> Retire(s, "upgraded")
                         [] OTHER -> sub[s]]
          /\ balance' = rest - Lesser(from.claw, rest) + Monthly[p]
          /\ past' = past \ {from.row}
  /\ plan' = p
  /\ UNCHANGED <<open, offered, todo, clearing, renewals>>

----------------------------------------------------------------------------
(* The user's other operations *)

Downgrade(p) ==
  /\ p \in offered
  /\ \E s \in Ids : /\ Latest(s, Active)
                    /\ sub[s].plan # NoPlan /\ Price[p] < Price[sub[s].plan]
                    /\ sub' = [sub EXCEPT ![s].next = p]
  /\ UNCHANGED <<past, plan, balance, open, offered, todo, clearing, renewals>>

CancelRenewal ==
  /\ \E s \in Ids : /\ Latest(s, Active)
                    /\ sub[s].auto
                    /\ sub' = [sub EXCEPT ![s].auto = FALSE, ![s].next = NoPlan]
  /\ UNCHANGED <<past, plan, balance, open, offered, todo, clearing, renewals>>

\* subscribe with an online payment writes an order that names the plan.
SubscribeOnline(p) ==
  /\ p \in offered /\ Price[p] > 0
  /\ Bill(p)
  /\ UNCHANGED <<sub, past, plan, balance, offered, todo, clearing, renewals>>

\* Faulty variant: any row of the plan is activated.
PayableAny(p) == {s \in Ids : sub[s].plan = p /\ sub[s].status # "expired"}

\* The order is paid: approve_order, and _handle_subscription_activation.  An order bought
\* online carries credits for its amount as well.
Payable(p) == {s \in Ids : sub[s].plan = p /\ sub[s].status \in {"active", "pending_payment"}}

PayOrder(p) ==
  /\ open[p] > 0 /\ p \in offered
  /\ open' = [open EXCEPT ![p] = @ - 1]
  /\ \E s \in Ids, ar \in BOOLEAN :
       /\ IF Payable(p) = {} THEN Free(s) ELSE Latest(s, Payable(p))
       /\ sub' = [sub EXCEPT ![s] = [@ EXCEPT !.plan = p, !.status = "active", !.auto = ar]]
       /\ past' = past \ {s}
  /\ plan' = p
  /\ \E bought \in {0, Price[p]} : Gain(bought + Monthly[p])
  /\ UNCHANGED <<offered, todo, clearing, renewals>>

\* The plan is not sold any more: what was paid for it is lost, but for the credits.
PayWithdrawn(p) ==
  /\ open[p] > 0 /\ p \notin offered
  /\ open' = [open EXCEPT ![p] = @ - 1]
  /\ \E bought \in {0, Price[p]} : Gain(bought)
  /\ UNCHANGED <<sub, past, plan, offered, todo, clearing, renewals>>

\* It is cancelled, rejected, or expires after 30 minutes.
OrderCloses(p) ==
  /\ open[p] > 0
  /\ open' = [open EXCEPT ![p] = @ - 1]
  /\ UNCHANGED <<sub, past, plan, balance, offered, todo, clearing, renewals>>

\* redeem_code, with one code more: days extend an active row of the plan, or start one ...
RedeemDays(p) ==
  /\ LET running == {s \in Active : sub[s].plan = p}
     IN \E s \in Ids :
          IF running = {}
          THEN Free(s) /\ sub' = [sub EXCEPT ![s] = Row(p, "active", TRUE)] /\ UNCHANGED past
          ELSE Latest(s, running) /\ past' = past \ {s} /\ UNCHANGED sub
  /\ UNCHANGED <<plan, balance, open, offered, todo, clearing, renewals>>

\* ... and an upgrade starts a row beside those that are active.
RedeemUpgrade(p) ==
  /\ p \in offered
  /\ \E s \in Ids : Free(s) /\ sub' = [sub EXCEPT ![s] = Row(p, "active", FALSE)]
  /\ plan' = p
  /\ Gain(Monthly[p])
  /\ UNCHANGED <<past, open, offered, todo, clearing, renewals>>

----------------------------------------------------------------------------
(* SubscriptionService.renew, called by the user and by the jobs *)

Renewable == With("expired") \union With("pending_payment")
NextPlan(s) == IF sub[s].next \in offered THEN sub[s].next ELSE sub[s].plan

RenewLater ==
  /\ \E s \in Ids, new \in Ids :
       /\ Latest(s, Renewable) /\ sub[s].plan \in offered
       /\ balance < Price[NextPlan(s)]
       /\ Free(new)
       /\ sub' = [sub EXCEPT ![new] = Row(NextPlan(s), "pending_payment", sub[s].auto)]
       /\ Bill(NextPlan(s))
  /\ UNCHANGED <<past, plan, balance, renewals>>

\* Faulty variant: the old row stays expired.
RenewNowTwice ==
  /\ \E s \in Ids, new \in Ids :
       /\ Latest(s, Renewable) /\ sub[s].plan \in offered
       /\ balance >= Price[NextPlan(s)]
       /\ Free(new)
       /\ sub' = [sub EXCEPT ![new] = Row(NextPlan(s), "active", sub[s].auto)]
       /\ plan' = NextPlan(s)
       /\ balance' = balance - Price[NextPlan(s)] + Monthly[NextPlan(s)]
       /\ renewals' = [renewals EXCEPT ![s] = @ + 1]
       /\ past' = past \ {s}
  /\ UNCHANGED open

RenewNow ==
  /\ \E s \in Ids, new \in Ids :
       /\ Latest(s, Renewable) /\ sub[s].plan \in offered
       /\ balance >= Price[NextPlan(s)]
       /\ Free(new)
       /\ sub' = [sub EXCEPT ![s] = Retire(s, "renewed"),
                             ![new] = Row(NextPlan(s), "active", sub[s].auto)]
       /\ plan' = NextPlan(s)
       /\ balance' = balance - Price[NextPlan(s)] + Monthly[NextPlan(s)]
       /\ renewals' = [renewals EXCEPT ![s] = @ + 1]
       /\ past' = past \ {s}
  /\ UNCHANGED open

UserRenews ==
  /\ RenewLater \/ RenewNow
  /\ UNCHANGED <<offered, todo, clearing>>

----------------------------------------------------------------------------
(* The jobs *)

\* Faulty variant: a row with a newer one beside it is passed over.
OverdueNewest == {s \in Active \intersect past : Newest(s)}

Overdue == Active \intersect past

\* Rows that are not to be renewed; those that hand over to the plan the user was to be
\* downgraded to (the INSERT for it is given to another user).
Ended == {s \in Overdue : ~sub[s].auto}
HandOver == {s \in Ended : sub[s].next \in offered}

\* users.plan_id as process_expiry leaves it, taking the rows in the order of their ids: the
\* last hand-over counts, unless a row after it takes the plan away.
PlanAfter(last) ==
  LET before == IF last = 0 THEN plan ELSE sub[last].next
  IN IF \E s \in Ended : /\ s > last /\ sub[s].plan = before
                         /\ sub[s].next # NoPlan \/ Newest(s)
     THEN NoPlan ELSE before

\* process_expiry, its transaction.
ExpireSubs(w) ==
  /\ todo[w] = 0 /\ w \notin clearing
  /\ Overdue # {}
  /\ sub' = [s \in Ids |-> IF s \notin Overdue THEN sub[s]
                           ELSE [sub[s] EXCEPT !.status = "expired",
                                               !.next = IF sub[s].auto THEN @ ELSE NoPlan]]
  /\ \E last \in Ids \union {0} :
       /\ IF HandOver = {} THEN last = 0 ELSE Latest(last, HandOver)
       /\ plan' = PlanAfter(last)
  /\ \E s \in Ids \union {0} :
       /\ IF \E t \in Overdue : sub[t].auto /\ Newest(t)
          THEN s \in Overdue /\ sub[s].auto /\ Newest(s) ELSE s = 0
       /\ todo' = [todo EXCEPT ![w] = s]
  /\ past' = past \ Overdue
  /\ UNCHANGED <<balance, open, offered, clearing, renewals>>

Done(w) == todo' = [todo EXCEPT ![w] = 0]

\* Then the user whose row it was is renewed, by whichever row is the latest.
JobRenews(w) ==
  /\ todo[w] # 0
  /\ \/ RenewLater
     \/ RenewNow
     \/ Renewable = {} /\ UNCHANGED <<sub, past, plan, balance, open, renewals>>
  /\ Done(w)
  /\ UNCHANGED <<offered, clearing>>

\* The plan is not offered any more: renew raises, and the plan is cleared.
JobFails(w) ==
  /\ todo[w] # 0
  /\ \E s \in Ids : Latest(s, Renewable) /\ sub[s].plan \notin offered
  /\ Done(w)
  /\ clearing' = clearing \union {w}
  /\ UNCHANGED <<sub, past, plan, balance, open, offered, renewals>>

JobClears(w) ==
  /\ w \in clearing
  /\ plan' = NoPlan
  /\ clearing' = clearing \ {w}
  /\ UNCHANGED <<sub, past, balance, open, offered, todo, renewals>>

\* The process ends.
Crash(w) ==
  /\ todo[w] # 0 \/ w \in clearing
  /\ Done(w)
  /\ clearing' = clearing \ {w}
  /\ UNCHANGED <<sub, past, plan, balance, open, offered, renewals>>

\* Faulty variant: only a row of the plan the user is served under.
GraceOverServed ==
  LET unpaid == {s \in With("pending_payment") \intersect past : sub[s].plan = plan}
  IN /\ unpaid # {}
     /\ sub' = [s \in Ids |-> IF s \in unpaid THEN [sub[s] EXCEPT !.status = "expired"] ELSE sub[s]]
     /\ plan' = IF \E s \in unpaid : sub[s].plan = plan /\ Newest(s) THEN NoPlan ELSE plan
     /\ past' = past \ unpaid
     /\ UNCHANGED <<balance, open, offered, todo, clearing, renewals>>

\* process_pending_payment_subscriptions.
GraceOver ==
  LET unpaid == With("pending_payment") \intersect past
  IN /\ unpaid # {}
     /\ sub' = [s \in Ids |-> IF s \in unpaid THEN [sub[s] EXCEPT !.status = "expired"] ELSE sub[s]]
     /\ plan' = IF \E s \in unpaid : sub[s].plan = plan /\ Newest(s) THEN NoPlan ELSE plan
     /\ past' = past \ unpaid
     /\ UNCHANGED <<balance, open, offered, todo, clearing, renewals>>

----------------------------------------------------------------------------
(* Admins, the wallet's other users, and time *)

\* admin_set_user_plan; the credits are another transaction, whose failure is only logged.
AdminSetPlan(p) ==
  /\ p \in offered
  /\ \E new \in Ids :
       /\ Free(new)
       /\ sub' = [s \in Ids |-> CASE s = new -> Row(p, "active", TRUE)
                                  [] s \in Active -> Retire(s, "upgraded")
                                  [] OTHER -> sub[s]]
  /\ plan' = p
  /\ past' = past \ Active
  /\ \E granted \in {0, Monthly[p]} : Gain(granted)
  /\ UNCHANGED <<open, offered, todo, clearing, renewals>>

AdminTogglesPlan(p) ==
  /\ p \in Toggled
  /\ offered' = IF p \in offered THEN offered \ {p} ELSE offered \union {p}
  /\ UNCHANGED <<sub, past, plan, balance, open, todo, clearing, renewals>>

Lapse(s) ==
  /\ sub[s].status \in {"active", "pending_payment"} /\ s \notin past
  /\ past' = past \union {s}
  /\ UNCHANGED <<sub, plan, balance, open, offered, todo, clearing, renewals>>

WalletMoves ==
  /\ \/ \E c \in Incomes : Gain(c)
     \/ balance > 0 /\ balance' = balance - 1
  /\ UNCHANGED <<sub, past, plan, open, offered, todo, clearing, renewals>>

----------------------------------------------------------------------------

PlanStep(p) ==
  \/ UpgradeLater(p) \/ UpgradeNow(p) \/ Downgrade(p) \/ SubscribeOnline(p)
  \/ RedeemDays(p) \/ RedeemUpgrade(p) \/ AdminSetPlan(p) \/ AdminTogglesPlan(p)
  \/ PayOrder(p) \/ PayWithdrawn(p) \/ OrderCloses(p)
JobEnds(w) == JobRenews(w) \/ JobFails(w) \/ JobClears(w) \/ Crash(w)

Next ==
  \/ \E p \in Plans : PlanStep(p)
  \/ CancelRenewal \/ UserRenews
  \/ \E w \in Jobs : ExpireSubs(w) \/ JobEnds(w)
  \/ GraceOver
  \/ \E s \in Ids : Lapse(s)
  \/ WalletMoves

Spec == Init /\ [][Next]_vars

\* The jobs start again every hour and every day, and end, one way or another.
FairSpec ==
  /\ Spec
  /\ WF_vars(\E w \in Jobs : JobEnds(w))
  /\ WF_vars(\E w \in Jobs : ExpireSubs(w))
  /\ WF_vars(GraceOver)

----------------------------------------------------------------------------
(* Properties *)

\* The user, the hourly and the daily job may all renew; no row is renewed, and charged
\* for, twice.
RenewedOnce == \A s \in Ids : renewals[s] <= 1

\* process_expiry of two overlapping jobs never lists the same row for renewal.
JobsDisjoint ==
  \A v, w \in Jobs : v # w /\ todo[v] # 0 => todo[v] # todo[w]

\* A row that was renewed or upgraded away is never used again, whatever is paid late.
RetiredStays ==
  [][\A s \in Ids : sub[s].status \in {"renewed", "upgraded"} => sub'[s].status = sub[s].status]_vars

\* Only its own expiry takes a user's last running subscription: an upgrade, a renewal, a
\* payment or an admin replaces it, and one that cannot be paid leaves it.
KeepsRunning == [][Active \ past # {} => Active' # {}]_vars

\* process_expiry: "Materialise any scheduled downgrade", so that a user is not "kicked to
\* no-plan": a plan the user is served under is the plan of a row of the user's.
PlanHasRow == plan # NoPlan => \E s \in Ids : sub[s].plan = plan

\* An active row whose period is over, and an unpaid row whose grace is over, are closed
\* or paid, also when jobs die between the expiry and the renewal.
OverdueEnds == []<>(Active \intersect past = {})
GraceEnds == []<>(With("pending_payment") \intersect past = {})
=============================================================================
