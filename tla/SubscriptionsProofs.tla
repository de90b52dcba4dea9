-------------------------- MODULE SubscriptionsProofs --------------------------
(***************************************************************************)
(* Theorems about Subscriptions, for any plans, prices, jobs and rows.     *)
(***************************************************************************)
EXTENDS Subscriptions, TLAPS

USE SubscriptionsAssumption
USE DEF Ids

----------------------------------------------------------------------------
(* Rows *)

\* A new row is one.
LEMMA NewRow ==
  ASSUME NEW p \in Plans \union {NoPlan}, NEW st \in Statuses, NEW ar \in BOOLEAN
  PROVE Row(p, st, ar) \in Rows /\ Row(p, st, ar).status = st
BY DEF Row, Rows

\* A row that is left behind is one.
LEMMA RetiredRow ==
  ASSUME TypeOK, NEW s \in Ids, NEW st \in Statuses
  PROVE Retire(s, st) \in Rows /\ Retire(s, st).status = st
<1>1. sub[s] \in Rows
  BY DEF TypeOK
<1> QED
  BY <1>1 DEF Retire, Rows

\* So is one of which only the status changes.
LEMMA RestatedRow ==
  ASSUME TypeOK, NEW s \in Ids, NEW st \in Statuses
  PROVE /\ [sub[s] EXCEPT !.status = st] \in Rows
        /\ [sub[s] EXCEPT !.status = st].status = st
<1>1. sub[s] \in Rows
  BY DEF TypeOK
<1> QED
  BY <1>1 DEF Rows

\* The credits that are clawed back and the money that is paid back are numbers.
LEMMA Shares ==
  ASSUME NEW p, NEW f \in [Plans -> Nat], NEW d \in 0..Period, p \in offered => p \in Plans
  PROVE Share(p, f, d) \in Nat
<1>1. Value(p, f) \in Nat
  BY DEF Value
<1>2. \A v \in Nat : v * d \in Nat
  OBVIOUS
<1>3. \A v \in Nat : v \div Period \in Nat
  OBVIOUS
<1> QED
  BY <1>1, <1>2, <1>3 DEF Share

\* What an upgrade starts from.
LEMMA Starts ==
  ASSUME TypeOK, NEW p \in Plans, NEW from \in UpgradeFrom(p)
  PROVE /\ from.row \in Active \union {0}
        /\ from.refund \in Nat /\ from.claw \in Nat /\ from.auto \in BOOLEAN
        /\ Active # {} => from.row \in Active
<1>1. CASE from = [row |-> 0, refund |-> 0, claw |-> 0, auto |-> TRUE] /\ Active = {}
  BY <1>1
<1>2. ASSUME NEW s \in Ids, Latest(s, Active), NEW d \in DaysLeft(s),
             from = [row |-> s, refund |-> Share(sub[s].plan, Price, d),
                     claw |-> Share(sub[s].plan, Monthly, d), auto |-> sub[s].auto]
      PROVE /\ from.row \in Active \union {0}
            /\ from.refund \in Nat /\ from.claw \in Nat /\ from.auto \in BOOLEAN
            /\ Active # {} => from.row \in Active
  <2>1. d \in 0..Period
    BY <1>2 DEF DaysLeft
  <2>2. sub[s].plan \in offered => sub[s].plan \in Plans
    BY DEF TypeOK
  <2>3. Share(sub[s].plan, Price, d) \in Nat /\ Share(sub[s].plan, Monthly, d) \in Nat
    BY <2>1, <2>2, Shares
  <2>4. s \in Active /\ sub[s].auto \in BOOLEAN
    BY <1>2 DEF Latest, TypeOK, Rows
  <2> QED
    BY <1>2, <2>3, <2>4
<1> QED
  BY <1>1, <1>2 DEF UpgradeFrom

----------------------------------------------------------------------------
(* What a step does to the rows *)

\* It leaves rows, of which those that were left behind stay so, those that expired are renewed
\* at most, and one runs if one was running within its period.
Orderly ==
  /\ sub' \in [Ids -> Rows]
  /\ \A s \in Ids : sub[s].status \in {"renewed", "upgraded"} => sub'[s].status = sub[s].status
  /\ \A s \in Ids : sub[s].status = "expired" => sub'[s].status \in {"expired", "renewed"}
  /\ Active \ past # {} => Active' # {}

\* Rows that are active stay active, or another becomes active.
LEMMA StillActive ==
  ASSUME \/ UNCHANGED sub
         \/ \E s \in Ids : sub'[s].status = "active"
         \/ \A s \in Active \ past : sub'[s].status = "active"
  PROVE Active \ past # {} => Active' # {}
BY DEF Active, With

\* One row changes, to a row and to a status that is allowed.
LEMMA OneRow ==
  ASSUME TypeOK, NEW s \in Ids, NEW r \in Rows, sub' = [sub EXCEPT ![s] = r],
         sub[s].status \notin {"renewed", "upgraded", "expired"},
         sub[s].status = "active" => r.status = "active"
  PROVE Orderly
<1>1. sub' \in [Ids -> Rows] /\ \A t \in Ids : sub'[t] = IF t = s THEN r ELSE sub[t]
  BY DEF TypeOK
<1>2. \A t \in Active \ past : sub'[t].status = "active"
  BY <1>1 DEF Active, With
<1> QED
  BY <1>1, <1>2, StillActive DEF Orderly

\* A step that leaves the rows alone.
LEMMA NoRow ==
  ASSUME TypeOK, UNCHANGED sub
  PROVE Orderly
BY DEF TypeOK, Orderly, Active, With

\* An upgrade, paid or not.
LEMMA UpgradeOrderly ==
  ASSUME TypeOK, NEW p \in Plans, UpgradeLater(p) \/ UpgradeNow(p)
  PROVE Orderly
<1>1. CASE UpgradeLater(p)
  <2>1. PICK from \in UpgradeFrom(p), new \in Ids :
          Free(new) /\ sub' = [sub EXCEPT ![new] = Row(p, "pending_payment", from.auto)]
    BY <1>1 DEF UpgradeLater
  <2>2. Row(p, "pending_payment", from.auto) \in Rows
    BY Starts, NewRow DEF Statuses
  <2> QED
    BY <2>1, <2>2, OneRow DEF Free
<1>2. CASE UpgradeNow(p)
  <2>1. PICK from \in UpgradeFrom(p), new \in Ids :
          /\ Free(new)
          /\ sub' = [s \in Ids |-> CASE s = new -> Row(p, "active", from.auto)
                                     [] s = from.row -> Retire(s, "upgraded")
                                     [] OTHER -> sub[s]]
    BY <1>2 DEF UpgradeNow
  <2>2. Row(p, "active", from.auto) \in Rows /\ Row(p, "active", from.auto).status = "active"
    BY Starts, NewRow DEF Statuses
  <2>3. \A s \in Ids : Retire(s, "upgraded") \in Rows
    BY RetiredRow DEF Statuses
  <2>4. ASSUME NEW s \in Ids
        PROVE /\ s = new => sub'[s] = Row(p, "active", from.auto)
              /\ s # new /\ s = from.row => sub'[s] = Retire(s, "upgraded")
              /\ s # new /\ s # from.row => sub'[s] = sub[s]
    <3>1. from.row # new
      BY <2>1, Starts DEF Free, Active, With
    <3>2. sub'[s] = CASE s = new -> Row(p, "active", from.auto)
                      [] s = from.row -> Retire(s, "upgraded")
                      [] OTHER -> sub[s]
      BY <2>1
    <3> QED
      BY <3>1, <3>2
  <2>5. sub' \in [Ids -> Rows]
    BY <2>1, <2>2, <2>3 DEF TypeOK
  <2>6. from.row \in Ids => sub[from.row].status = "active"
    BY Starts DEF Active, With
  <2>7. sub[new].status = "none" /\ sub'[new].status = "active"
    BY <2>1, <2>2, <2>4 DEF Free
  <2>8. \A s \in Ids : sub[s].status \in {"renewed", "upgraded", "expired"} => sub'[s] = sub[s]
    BY <2>4, <2>6, <2>7
  <2> QED
    BY <2>5, <2>7, <2>8, StillActive DEF Orderly
<1> QED
  BY <1>1, <1>2

\* The other operations on one row.
LEMMA UserOrderly ==
  ASSUME TypeOK, NEW p \in Plans,
         Downgrade(p) \/ RedeemDays(p) \/ RedeemUpgrade(p)
  PROVE Orderly
<1>1. CASE Downgrade(p)
  <2>1. PICK s \in Ids : s \in Active /\ sub' = [sub EXCEPT ![s].next = p]
    BY <1>1 DEF Downgrade, Latest
  <2>2. sub[s] \in Rows /\ sub[s].status = "active"
    BY <2>1 DEF Active, With, TypeOK
  <2>3. [sub[s] EXCEPT !.next = p] \in Rows /\ [sub[s] EXCEPT !.next = p].status = "active"
    BY <2>2 DEF Rows
  <2>4. sub' = [sub EXCEPT ![s] = [sub[s] EXCEPT !.next = p]]
    BY <2>1
  <2> QED
    BY <2>2, <2>3, <2>4, OneRow
<1>2. CASE RedeemDays(p)
  <2>1. UNCHANGED sub \/ \E s \in Ids : Free(s) /\ sub' = [sub EXCEPT ![s] = Row(p, "active", TRUE)]
    BY <1>2 DEF RedeemDays
  <2>2. Row(p, "active", TRUE) \in Rows
    BY NewRow DEF Statuses
  <2> QED
    BY <2>1, <2>2, OneRow, NoRow DEF Free
<1>3. CASE RedeemUpgrade(p)
  <2>1. PICK s \in Ids : Free(s) /\ sub' = [sub EXCEPT ![s] = Row(p, "active", FALSE)]
    BY <1>3 DEF RedeemUpgrade
  <2>2. Row(p, "active", FALSE) \in Rows
    BY NewRow DEF Statuses
  <2> QED
    BY <2>1, <2>2, OneRow DEF Free
<1> QED
  BY <1>1, <1>2, <1>3

\* The user cancels the renewal.
LEMMA CancelOrderly ==
  ASSUME TypeOK, CancelRenewal
  PROVE Orderly
<1>1. PICK s \in Ids : s \in Active /\ sub' = [sub EXCEPT ![s].auto = FALSE, ![s].next = NoPlan]
  BY DEF CancelRenewal, Latest
<1>2. sub[s] \in Rows /\ sub[s].status = "active"
  BY <1>1 DEF Active, With, TypeOK
<1> DEFINE r == [sub[s] EXCEPT !.auto = FALSE, !.next = NoPlan]
<1>3. r \in Rows /\ r.status = "active"
  BY <1>2 DEF Rows
<1>4. sub' = [sub EXCEPT ![s] = r]
  BY <1>1 DEF TypeOK
<1> HIDE DEF r
<1> QED
  BY <1>2, <1>3, <1>4, OneRow

\* A paid order brings a row that was open or is new.
LEMMA PayOrderly ==
  ASSUME TypeOK, NEW p \in Plans, PayOrder(p)
  PROVE Orderly
<1>1. PICK s \in Ids, ar \in BOOLEAN :
        /\ IF Payable(p) = {} THEN Free(s) ELSE Latest(s, Payable(p))
        /\ sub' = [sub EXCEPT ![s] = [@ EXCEPT !.plan = p, !.status = "active", !.auto = ar]]
  BY DEF PayOrder
<1> DEFINE r == [sub[s] EXCEPT !.plan = p, !.status = "active", !.auto = ar]
<1>2. sub[s] \in Rows /\ sub[s].status \in {"none", "active", "pending_payment"}
  BY <1>1 DEF Free, Latest, Payable, TypeOK
<1>3. r \in Rows /\ r.status = "active"
  BY <1>2 DEF Rows, Statuses
<1>4. sub' = [sub EXCEPT ![s] = r]
  BY <1>1
<1> HIDE DEF r
<1> QED
  BY <1>2, <1>3, <1>4, OneRow

\* A renewal that cannot be paid brings a row that waits.
LEMMA RenewLaterOrderly ==
  ASSUME TypeOK, RenewLater
  PROVE Orderly
<1>1. PICK s \in Ids, new \in Ids :
        /\ sub[s].plan \in offered /\ Free(new)
        /\ sub' = [sub EXCEPT ![new] = Row(NextPlan(s), "pending_payment", sub[s].auto)]
  BY DEF RenewLater
<1>2. NextPlan(s) \in Plans /\ sub[s].auto \in BOOLEAN
  BY <1>1 DEF NextPlan, TypeOK, Rows
<1>3. Row(NextPlan(s), "pending_payment", sub[s].auto) \in Rows
  BY <1>2, NewRow DEF Statuses
<1> QED
  BY <1>1, <1>3, OneRow DEF Free

\* One that is paid retires a row that had expired, or waited, and no other.
LEMMA RenewNowRows ==
  ASSUME TypeOK, RenewNow
  PROVE \E s \in Ids, new \in Ids :
          /\ NextPlan(s) \in Plans
          /\ sub[s].status \in {"expired", "pending_payment"} /\ sub[new].status = "none"
          /\ sub' \in [Ids -> Rows]
          /\ sub'[s].status = "renewed" /\ sub'[new].status = "active"
          /\ \A t \in Ids \ {s, new} : sub'[t] = sub[t]
          /\ plan' = NextPlan(s)
          /\ balance >= Price[NextPlan(s)]
          /\ balance' = balance - Price[NextPlan(s)] + Monthly[NextPlan(s)]
          /\ renewals' = [renewals EXCEPT ![s] = @ + 1]
          /\ past' = past \ {s}
          /\ UNCHANGED open
<1>1. PICK s \in Ids, new \in Ids :
        /\ Latest(s, Renewable) /\ sub[s].plan \in offered
        /\ balance >= Price[NextPlan(s)]
        /\ Free(new)
        /\ sub' = [sub EXCEPT ![s] = Retire(s, "renewed"),
                              ![new] = Row(NextPlan(s), "active", sub[s].auto)]
        /\ plan' = NextPlan(s)
        /\ balance' = balance - Price[NextPlan(s)] + Monthly[NextPlan(s)]
        /\ renewals' = [renewals EXCEPT ![s] = @ + 1]
        /\ past' = past \ {s}
        /\ UNCHANGED open
  BY DEF RenewNow
<1>2. NextPlan(s) \in Plans /\ sub[s].auto \in BOOLEAN
  BY <1>1 DEF NextPlan, TypeOK, Rows
<1>3. /\ Row(NextPlan(s), "active", sub[s].auto) \in Rows
      /\ Row(NextPlan(s), "active", sub[s].auto).status = "active"
  BY <1>2, NewRow DEF Statuses
<1>4. Retire(s, "renewed") \in Rows /\ Retire(s, "renewed").status = "renewed"
  BY RetiredRow DEF Statuses
<1>5. sub[s].status \in {"expired", "pending_payment"} /\ sub[new].status = "none" /\ s # new
  BY <1>1 DEF Latest, Renewable, With, Free
<1>6. /\ sub' \in [Ids -> Rows]
      /\ sub'[s] = Retire(s, "renewed")
      /\ sub'[new] = Row(NextPlan(s), "active", sub[s].auto)
      /\ \A t \in Ids \ {s, new} : sub'[t] = sub[t]
  BY <1>1, <1>3, <1>4, <1>5 DEF TypeOK
<1> QED
  BY <1>1, <1>2, <1>3, <1>4, <1>5, <1>6

\* And so leaves the others in order.
LEMMA RenewNowOrderly ==
  ASSUME TypeOK, RenewNow
  PROVE Orderly
<1>1. PICK s \in Ids, new \in Ids :
        /\ sub[s].status \in {"expired", "pending_payment"} /\ sub[new].status = "none"
        /\ sub' \in [Ids -> Rows]
        /\ sub'[s].status = "renewed" /\ sub'[new].status = "active"
        /\ \A t \in Ids \ {s, new} : sub'[t] = sub[t]
  BY RenewNowRows
<1> QED
  BY <1>1, StillActive DEF Orderly

\* The jobs expire rows that were open.
LEMMA ExpireOrderly ==
  ASSUME TypeOK, GraceOver \/ \E w \in Jobs : ExpireSubs(w)
  PROVE Orderly
<1>1. CASE \E w \in Jobs : ExpireSubs(w)
  <2> DEFINE r(s) == [sub[s] EXCEPT !.status = "expired",
                                    !.next = IF sub[s].auto THEN @ ELSE NoPlan]
  <2>1. sub' = [s \in Ids |-> IF s \notin Overdue THEN sub[s] ELSE r(s)]
    BY <1>1 DEF ExpireSubs
  <2>2. ASSUME NEW s \in Ids
        PROVE r(s) \in Rows /\ sub[s] \in Rows
    <3>1. sub[s] \in Rows
      BY DEF TypeOK
    <3>2. (IF sub[s].auto THEN sub[s].next ELSE NoPlan) \in Plans \union {NoPlan}
      BY <3>1 DEF Rows
    <3> QED
      BY <3>1, <3>2 DEF Rows, Statuses
  <2> HIDE DEF r
  <2>3. sub' \in [Ids -> Rows]
    BY <2>1, <2>2
  <2>4. \A s \in Ids : sub[s].status # "active" => sub'[s] = sub[s]
    BY <2>1 DEF Overdue, Active, With
  <2>5. \A s \in Active \ past : sub'[s].status = "active"
    BY <2>1 DEF Overdue, Active, With
  <2> QED
    BY <2>3, <2>4, <2>5, StillActive DEF Orderly
<1>2. CASE GraceOver
  <2> DEFINE unpaid == With("pending_payment") \intersect past
             r(s) == [sub[s] EXCEPT !.status = "expired"]
  <2>1. sub' = [s \in Ids |-> IF s \in unpaid THEN r(s) ELSE sub[s]]
    BY <1>2 DEF GraceOver
  <2>2. \A s \in Ids : r(s) \in Rows /\ sub[s] \in Rows
    BY RestatedRow DEF Statuses, TypeOK
  <2> HIDE DEF r
  <2>3. sub' \in [Ids -> Rows]
    BY <2>1, <2>2
  <2>4. \A s \in Ids : sub[s].status # "pending_payment" => sub'[s] = sub[s]
    BY <2>1 DEF With
  <2>5. \A s \in Active \ past : sub'[s].status = "active"
    BY <2>4 DEF Active, With
  <2> QED
    BY <2>3, <2>4, <2>5, StillActive DEF Orderly
<1> QED
  BY <1>1, <1>2

\* An admin replaces what is active.
LEMMA AdminOrderly ==
  ASSUME TypeOK, NEW p \in Plans, AdminSetPlan(p)
  PROVE Orderly
<1>1. PICK new \in Ids :
        /\ Free(new)
        /\ sub' = [s \in Ids |-> CASE s = new -> Row(p, "active", TRUE)
                                   [] s \in Active -> Retire(s, "upgraded")
                                   [] OTHER -> sub[s]]
  BY DEF AdminSetPlan
<1>2. Row(p, "active", TRUE) \in Rows /\ Row(p, "active", TRUE).status = "active"
  BY NewRow DEF Statuses
<1>3. \A s \in Ids : Retire(s, "upgraded") \in Rows
  BY RetiredRow DEF Statuses
<1>4. ASSUME NEW s \in Ids
      PROVE /\ s = new => sub'[s] = Row(p, "active", TRUE)
            /\ s # new /\ s \in Active => sub'[s] = Retire(s, "upgraded")
            /\ s # new /\ s \notin Active => sub'[s] = sub[s]
  <2>1. new \notin Active
    BY <1>1 DEF Free, Active, With
  <2>2. sub'[s] = CASE s = new -> Row(p, "active", TRUE)
                    [] s \in Active -> Retire(s, "upgraded")
                    [] OTHER -> sub[s]
    BY <1>1
  <2> QED
    BY <2>1, <2>2
<1>5. sub' \in [Ids -> Rows]
  BY <1>1, <1>2, <1>3 DEF TypeOK
<1>6. sub'[new].status = "active"
  BY <1>2, <1>4
<1>7. \A s \in Ids : sub[s].status \in {"renewed", "upgraded", "expired"} => sub'[s] = sub[s]
  BY <1>1, <1>4 DEF Free, Active, With
<1> QED
  BY <1>5, <1>6, <1>7, StillActive DEF Orderly

\* Every step.
LEMMA OrderlyStep ==
  ASSUME TypeOK, [Next]_vars
  PROVE Orderly
<1>1. ASSUME NEW p \in Plans, PlanStep(p)
      PROVE Orderly
  <2>1. CASE UNCHANGED sub
    BY <2>1, NoRow
  <2> QED
    BY <1>1, <2>1, UpgradeOrderly, UserOrderly, PayOrderly, AdminOrderly
    DEF PlanStep, SubscribeOnline, AdminTogglesPlan, PayWithdrawn, OrderCloses
<1>2. CASE CancelRenewal
  BY <1>2, CancelOrderly
<1>3. CASE UserRenews
  BY <1>3, RenewLaterOrderly, RenewNowOrderly DEF UserRenews
<1>4. ASSUME NEW w \in Jobs, JobEnds(w)
      PROVE Orderly
  BY <1>4, NoRow, RenewLaterOrderly, RenewNowOrderly DEF JobEnds, JobRenews, JobFails, JobClears, Crash
<1>5. CASE UNCHANGED sub
  BY <1>5, NoRow
<1> QED
  BY <1>1, <1>2, <1>3, <1>4, <1>5, ExpireOrderly DEF Next, Lapse, WalletMoves, vars

----------------------------------------------------------------------------
(* Types *)

\* The rest of the type invariant: what belongs to the user, and what belongs to the jobs.
UserTyped ==
  /\ past \subseteq Ids
  /\ plan \in Plans \union {NoPlan}
  /\ balance \in Nat
  /\ open \in [Plans -> Nat]
  /\ renewals \in [Ids -> Nat]
JobsTyped ==
  /\ offered \subseteq Plans
  /\ todo \in [Jobs -> Ids \union {0}]
  /\ clearing \subseteq Jobs

\* The type invariant in three parts.
LEMMA TypeParts == TypeOK <=> sub \in [Ids -> Rows] /\ UserTyped /\ JobsTyped
BY DEF TypeOK, UserTyped, JobsTyped

\* A bill is an order more.
LEMMA Billed ==
  ASSUME TypeOK, NEW p \in Plans, Bill(p)
  PROVE open' \in [Plans -> Nat]
<1>1. open' = [open EXCEPT ![p] = @ + 1]
  BY DEF Bill
<1> QED
  BY <1>1 DEF TypeOK

\* Renewals keep the types.
LEMMA RenewTyped ==
  ASSUME TypeOK, RenewLater \/ RenewNow
  PROVE UserTyped'
<1>1. CASE RenewLater
  <2>1. PICK s \in Ids : sub[s].plan \in offered /\ Bill(NextPlan(s))
    BY <1>1 DEF RenewLater
  <2>2. NextPlan(s) \in Plans
    BY <2>1 DEF NextPlan, TypeOK, Rows
  <2>3. open' \in [Plans -> Nat]
    BY <2>1, <2>2, Billed
  <2> QED
    BY <1>1, <2>3 DEF RenewLater, UserTyped, TypeOK
<1>2. CASE RenewNow
  <2>1. PICK s \in Ids :
          /\ NextPlan(s) \in Plans /\ plan' = NextPlan(s)
          /\ balance >= Price[NextPlan(s)]
          /\ balance' = balance - Price[NextPlan(s)] + Monthly[NextPlan(s)]
          /\ renewals' = [renewals EXCEPT ![s] = @ + 1]
          /\ past' = past \ {s} /\ UNCHANGED open
    BY <1>2, RenewNowRows
  <2>2. Price[NextPlan(s)] \in Nat /\ Monthly[NextPlan(s)] \in Nat
    BY <2>1
  <2>3. balance \in Nat /\ past \subseteq Ids /\ renewals \in [Ids -> Nat]
    BY DEF TypeOK
  <2>4. balance' \in Nat
    BY ONLY <2>1, <2>2, <2>3
  <2>5. past' \subseteq Ids /\ renewals' \in [Ids -> Nat]
    BY ONLY <2>1, <2>3
  <2> QED
    BY <2>1, <2>4, <2>5 DEF UserTyped, TypeOK
<1> QED
  BY <1>1, <1>2

\* What is left when a part of it is taken is not negative.
LEMMA TakesWhatThereIs ==
  ASSUME NEW a \in Nat, NEW b \in Nat
  PROVE b - Lesser(a, b) \in Nat
BY DEF Lesser

\* So do upgrades, whatever is paid back and clawed back.
LEMMA UpgradeTyped ==
  ASSUME TypeOK, NEW p \in Plans, UpgradeLater(p) \/ UpgradeNow(p)
  PROVE UserTyped'
<1>1. CASE UpgradeLater(p)
  BY <1>1, Billed DEF UpgradeLater, UserTyped, TypeOK
<1>2. CASE UpgradeNow(p)
  <2>1. PICK from \in UpgradeFrom(p) :
          /\ balance + from.refund - Price[p] >= 0
          /\ balance' = (balance + from.refund - Price[p])
                          - Lesser(from.claw, balance + from.refund - Price[p]) + Monthly[p]
          /\ past' = past \ {from.row}
    BY <1>2 DEF UpgradeNow
  <2>2. from.refund \in Nat /\ from.claw \in Nat /\ Price[p] \in Nat /\ Monthly[p] \in Nat
    BY Starts
  <2>3. balance' \in Nat
    <3> DEFINE rest == balance + from.refund - Price[p]
    <3>1. rest \in Nat
      <4>1. balance \in Nat /\ rest >= 0
        BY <2>1 DEF TypeOK
      <4> QED
        BY <2>2, <4>1
    <3>2. balance' = rest - Lesser(from.claw, rest) + Monthly[p]
      BY <2>1
    <3> HIDE DEF rest
    <3>3. rest - Lesser(from.claw, rest) \in Nat
      BY <2>2, <3>1, TakesWhatThereIs
    <3> QED
      BY <2>2, <3>2, <3>3
  <2> QED
    BY <1>2, <2>1, <2>3 DEF UpgradeNow, UserTyped, TypeOK
<1> QED
  BY <1>1, <1>2

\* The steps that are about a plan.
LEMMA PlanStepTyped ==
  ASSUME TypeOK, NEW p \in Plans, PlanStep(p)
  PROVE UserTyped' /\ JobsTyped'
<1> USE DEF UserTyped, JobsTyped, TypeOK
<1>1. Price[p] \in Nat /\ Monthly[p] \in Nat
  OBVIOUS
<1>2. ASSUME NEW c \in Nat, Gain(c)
      PROVE balance' \in Nat
  BY <1>2 DEF Gain
<1>3. CASE UpgradeLater(p) \/ UpgradeNow(p)
  <2>1. JobsTyped'
    BY <1>3 DEF UpgradeLater, UpgradeNow
  <2>2. UserTyped'
    BY <1>3, UpgradeTyped
  <2> QED
    BY <2>1, <2>2
<1>4. CASE Downgrade(p)
  BY <1>4 DEF Downgrade
<1>5. CASE SubscribeOnline(p)
  BY <1>5, Billed DEF SubscribeOnline
<1>6. CASE RedeemDays(p)
  BY <1>6 DEF RedeemDays
<1>7. CASE RedeemUpgrade(p)
  BY <1>1, <1>2, <1>7 DEF RedeemUpgrade
<1>8. CASE AdminSetPlan(p)
  BY <1>1, <1>2, <1>8 DEF AdminSetPlan
<1>9. CASE AdminTogglesPlan(p)
  BY <1>9 DEF AdminTogglesPlan
<1>10. CASE PayOrder(p)
  <2>1. open' \in [Plans -> Nat]
    BY <1>10 DEF PayOrder
  <2>2. balance' \in Nat
    <3>1. PICK bought \in {0, Price[p]} : Gain(bought + Monthly[p])
      BY <1>10 DEF PayOrder
    <3>2. bought + Monthly[p] \in Nat
      BY <1>1
    <3> QED
      BY <1>2, <3>1, <3>2
  <2>3. past' \subseteq past /\ plan' = p /\ UNCHANGED <<offered, todo, clearing, renewals>>
    BY <1>10 DEF PayOrder
  <2> QED
    BY <2>1, <2>2, <2>3
<1>11. CASE PayWithdrawn(p)
  <2>1. balance' \in Nat
    BY <1>1, <1>2, <1>11 DEF PayWithdrawn
  <2> QED
    BY <1>11, <2>1, SMTT(40) DEF PayWithdrawn
<1>12. CASE OrderCloses(p)
  BY <1>12 DEF OrderCloses
<1> QED
  BY <1>3, <1>4, <1>5, <1>6, <1>7, <1>8, <1>9, <1>10, <1>11, <1>12 DEF PlanStep

\* And all the others.
LEMMA TypeStep ==
  ASSUME TypeOK, [Next]_vars
  PROVE TypeOK'
<1> USE DEF UserTyped, JobsTyped
<1>1. sub' \in [Ids -> Rows]
  BY OrderlyStep DEF Orderly
<1>2. ASSUME NEW p \in Plans, PlanStep(p)
      PROVE UserTyped' /\ JobsTyped'
  BY <1>2, PlanStepTyped
<1>3. ASSUME CancelRenewal
      PROVE UserTyped' /\ JobsTyped'
  BY <1>3 DEF CancelRenewal, TypeOK
<1>4. ASSUME UserRenews
      PROVE UserTyped' /\ JobsTyped'
  BY <1>4, RenewTyped DEF UserRenews, TypeOK
<1>5. ASSUME NEW w \in Jobs, ExpireSubs(w)
      PROVE UserTyped' /\ JobsTyped'
  <2>1. PICK last \in Ids \union {0} :
          /\ IF HandOver = {} THEN last = 0 ELSE Latest(last, HandOver)
          /\ plan' = PlanAfter(last)
    BY <1>5 DEF ExpireSubs
  <2>2. last # 0 => sub[last].next \in Plans \union {NoPlan}
    BY DEF TypeOK, Rows
  <2>3. plan' \in Plans \union {NoPlan}
    BY <2>1, <2>2 DEF PlanAfter, TypeOK
  <2>4. todo' \in [Jobs -> Ids \union {0}]
    BY <1>5 DEF ExpireSubs, TypeOK
  <2> QED
    BY <1>5, <2>3, <2>4 DEF ExpireSubs, TypeOK
<1>6. ASSUME NEW w \in Jobs, JobRenews(w)
      PROVE UserTyped' /\ JobsTyped'
  BY <1>6, RenewTyped DEF JobRenews, Done, TypeOK
<1>7. ASSUME NEW w \in Jobs, JobFails(w) \/ JobClears(w) \/ Crash(w)
      PROVE UserTyped' /\ JobsTyped'
  BY <1>7 DEF JobFails, JobClears, Crash, Done, TypeOK
<1>8. ASSUME GraceOver
      PROVE UserTyped' /\ JobsTyped'
  BY <1>8 DEF GraceOver, TypeOK
<1>9. ASSUME NEW s \in Ids, Lapse(s)
      PROVE UserTyped' /\ JobsTyped'
  BY <1>9 DEF Lapse, TypeOK
<1>10. ASSUME WalletMoves
       PROVE UserTyped' /\ JobsTyped'
  <2>1. balance' \in Nat
    BY <1>10 DEF WalletMoves, Gain, TypeOK
  <2> QED
    BY <1>10, <2>1 DEF WalletMoves, TypeOK
<1>11. ASSUME UNCHANGED vars
       PROVE UserTyped' /\ JobsTyped'
  BY <1>11 DEF vars, TypeOK
<1> QED
  BY <1>1, <1>2, <1>3, <1>4, <1>5, <1>6, <1>7, <1>8, <1>9, <1>10, <1>11, TypeParts
  DEF Next, JobEnds, TypeOK

\* The first state.
LEMMA TypeStart == Init => TypeOK
<1> SUFFICES ASSUME Init PROVE TypeOK
  OBVIOUS
<1>1. Row(NoPlan, "none", FALSE) \in Rows
  BY NewRow DEF Statuses
<1> QED
  BY <1>1 DEF Init, TypeOK

\* Type correctness: the wallet is never overdrawn, whatever is refunded and clawed back.
THEOREM TypeCorrect == Spec => []TypeOK
BY TypeStart, TypeStep, PTL DEF Spec

----------------------------------------------------------------------------
(* What the component promises *)

\* A row that was renewed or upgraded away stays so, whatever is paid late.
THEOREM RetiredForGood == Spec => RetiredStays
<1>1. TypeOK /\ [Next]_vars =>
        [\A s \in Ids : sub[s].status \in {"renewed", "upgraded"} =>
           sub'[s].status = sub[s].status]_vars
  BY OrderlyStep DEF Orderly
<1> QED
  BY <1>1, TypeCorrect, PTL DEF Spec, RetiredStays

\* As long as a period is running, no operation leaves the user without an active row.
THEOREM RunningIsKept == Spec => KeepsRunning
<1>1. TypeOK /\ [Next]_vars => [Active \ past # {} => Active' # {}]_vars
  BY OrderlyStep DEF Orderly
<1> QED
  BY <1>1, TypeCorrect, PTL DEF Spec, KeepsRunning

\* A row that was renewed says so.
RenewedSays == \A s \in Ids : renewals[s] = 0 \/ (renewals[s] = 1 /\ sub[s].status = "renewed")

\* Only a renewal counts one, of a row that had not been renewed.
LEMMA RenewalStep ==
  ASSUME TypeOK, [Next]_vars
  PROVE UNCHANGED renewals \/ RenewNow
BY DEF Next, PlanStep, UpgradeLater, UpgradeNow, Downgrade, SubscribeOnline, RedeemDays,
  RedeemUpgrade, AdminSetPlan, AdminTogglesPlan, PayOrder, PayWithdrawn, OrderCloses,
  CancelRenewal, UserRenews, RenewLater, ExpireSubs, JobEnds, JobRenews, JobFails, JobClears,
  Crash, GraceOver, Lapse, WalletMoves, vars

\* No period is renewed, and charged for, twice: by the user, by the jobs, or by both.
THEOREM OnceRenewed == Spec => []RenewedOnce
<1>1. Init => RenewedSays
  BY DEF Init, RenewedSays
<1>2. ASSUME TypeOK, RenewedSays, [Next]_vars
      PROVE RenewedSays'
  <2>1. CASE UNCHANGED renewals
    BY <1>2, <2>1, OrderlyStep DEF RenewedSays, Orderly
  <2>2. CASE RenewNow
    <3>1. PICK s \in Ids, new \in Ids :
            /\ sub[s].status \in {"expired", "pending_payment"} /\ sub[new].status = "none"
            /\ sub'[s].status = "renewed"
            /\ \A t \in Ids \ {s, new} : sub'[t] = sub[t]
            /\ renewals' = [renewals EXCEPT ![s] = @ + 1]
      BY <1>2, <2>2, RenewNowRows
    <3>2. renewals[s] = 0 /\ renewals[new] = 0
      BY <1>2, <3>1 DEF RenewedSays
    <3>3. ASSUME NEW t \in Ids
          PROVE renewals'[t] = 0 \/ (renewals'[t] = 1 /\ sub'[t].status = "renewed")
      <4>1. renewals'[t] = IF t = s THEN renewals[s] + 1 ELSE renewals[t]
        BY <1>2, <3>1 DEF TypeOK
      <4>2. CASE t \in {s, new}
        BY <3>1, <3>2, <4>1, <4>2
      <4>3. CASE t \notin {s, new}
        BY <1>2, <3>1, <4>1, <4>3 DEF RenewedSays
      <4> QED
        BY <4>2, <4>3
    <3> QED
      BY <3>3 DEF RenewedSays
  <2> QED
    BY <1>2, <2>1, <2>2, RenewalStep
<1>3. RenewedSays => RenewedOnce
  BY DEF RenewedSays, RenewedOnce
<1> QED
  BY <1>1, <1>2, <1>3, TypeCorrect, PTL DEF Spec

\* What a job has listed is expired, or was renewed since.
ListedExpired == \A w \in Jobs : todo[w] # 0 => sub[todo[w]].status \in {"expired", "renewed"}

\* A job lists an active row; what others have listed is not active any more.
THEOREM ListsAreDisjoint == Spec => []JobsDisjoint
<1>1. Init => ListedExpired /\ JobsDisjoint
  BY DEF Init, ListedExpired, JobsDisjoint
<1>2. ASSUME TypeOK, ListedExpired, JobsDisjoint, [Next]_vars
      PROVE ListedExpired' /\ JobsDisjoint'
  <2>0. todo \in [Jobs -> Ids \union {0}]
    BY <1>2, Zenon DEF TypeOK
  <2>1. ASSUME \A w \in Jobs : todo'[w] \in {0, todo[w]}
        PROVE ListedExpired' /\ JobsDisjoint'
    BY <1>2, <2>1, OrderlyStep DEF ListedExpired, JobsDisjoint, Orderly, TypeOK
  <2>2. ASSUME NEW w \in Jobs, ExpireSubs(w)
        PROVE ListedExpired' /\ JobsDisjoint'
    <3>1. PICK s \in Ids \union {0} :
            /\ s # 0 => s \in Overdue
            /\ todo' = [todo EXCEPT ![w] = s]
      BY <2>2 DEF ExpireSubs, Overdue, Active, With
    <3>2. \A t \in Overdue : sub'[t].status = "expired"
      <4> SUFFICES ASSUME NEW t \in Overdue PROVE sub'[t].status = "expired"
        OBVIOUS
      <4>1. t \in Ids /\ sub[t] \in Rows
        BY <1>2 DEF Overdue, Active, With, TypeOK
      <4>2. sub'[t] = [sub[t] EXCEPT !.status = "expired",
                                     !.next = IF sub[t].auto THEN @ ELSE NoPlan]
        BY <2>2, <4>1 DEF ExpireSubs
      <4> QED
        BY <4>1, <4>2 DEF Rows
    <3>3. \A t \in Overdue : sub[t].status = "active"
      BY DEF Overdue, Active, With
    <3>4. ListedExpired'
      <4>1. ASSUME NEW v \in Jobs
            PROVE todo'[v] = IF v = w THEN s ELSE todo[v]
        BY ONLY <2>0, <3>1, <4>1, Zenon
      <4>2. ASSUME NEW t \in Ids, sub[t].status \in {"expired", "renewed"}
            PROVE sub'[t].status \in {"expired", "renewed"}
        BY <1>2, <4>2, OrderlyStep DEF Orderly
      <4>3. \A v \in Jobs : todo[v] # 0 =>
              todo[v] \in Ids /\ sub[todo[v]].status \in {"expired", "renewed"}
        BY ONLY <1>2, <2>0 DEF ListedExpired
      <4> QED
        BY ONLY <3>1, <3>2, <4>1, <4>2, <4>3 DEF ListedExpired
    <3>5. JobsDisjoint'
      BY <1>2, <2>0, <3>1, <3>3 DEF ListedExpired, JobsDisjoint
    <3> QED
      BY <3>4, <3>5
  <2>3. ASSUME NEW w \in Jobs, JobEnds(w)
        PROVE \A v \in Jobs : todo'[v] \in {0, todo[v]}
    <3>1. UNCHANGED todo \/ todo' = [todo EXCEPT ![w] = 0]
      BY <2>3 DEF JobEnds, JobRenews, JobFails, JobClears, Crash, Done
    <3>2. CASE UNCHANGED todo
      BY ONLY <3>2
    <3>3. CASE todo' = [todo EXCEPT ![w] = 0]
      <4>1. \A v \in Jobs : todo'[v] = IF v = w THEN 0 ELSE todo[v]
        BY ONLY <2>0, <3>3, Zenon
      <4> QED
        BY ONLY <4>1
    <3> QED
      BY ONLY <3>1, <3>2, <3>3
  <2>4. UNCHANGED todo \/ \E w \in Jobs : ExpireSubs(w) \/ JobEnds(w)
    BY <1>2 DEF Next, PlanStep, UpgradeLater, UpgradeNow, Downgrade, SubscribeOnline, RedeemDays,
      RedeemUpgrade, AdminSetPlan, AdminTogglesPlan, PayOrder, PayWithdrawn, OrderCloses,
      CancelRenewal, UserRenews, GraceOver, Lapse, WalletMoves, vars
  <2>5. CASE UNCHANGED todo
    BY <2>1, <2>5
  <2> QED
    BY <2>1, <2>2, <2>3, <2>4, <2>5
<1> QED
  BY <1>1, <1>2, TypeCorrect, PTL DEF Spec
=============================================================================
