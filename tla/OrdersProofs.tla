----------------------------- MODULE OrdersProofs -----------------------------
(***************************************************************************)
(* Theorems about Orders, for any orders, amounts, uses and number of      *)
(* workers.                                                                *)
(***************************************************************************)
EXTENDS Orders, SumTheorems, FiniteSetTheorems, TLAPS

USE LedgerAssumption, OrdersAssumption

----------------------------------------------------------------------------
(* The wallet *)

\* A debit is no more than there is.
LEMMA Lessers ==
  ASSUME NEW a \in Nat, NEW b \in Nat
  PROVE Lesser(a, b) \in Nat /\ Lesser(a, b) <= a /\ Lesser(a, b) <= b
BY DEF Lesser

\* A credit leaves a wallet.
LEMMA GrantTyped ==
  ASSUME LedgerTypeOK, NEW o, NEW n, NEW base \in Nat, NEW bonus \in Nat, Grant(o, n, base, bonus)
  PROVE LedgerTypeOK'
<1> DEFINE part == [r \in Rows |-> CASE r = <<o, "recharge", n>> -> base
                                     [] r = <<o, "bonus", n>> -> bonus
                                     [] OTHER -> 0]
<1>1. part \in [Rows -> Nat]
  <2>1. ASSUME NEW r \in Rows
        PROVE (CASE r = <<o, "recharge", n>> -> base
                 [] r = <<o, "bonus", n>> -> bonus
                 [] OTHER -> 0) \in Nat
    <3>1. CASE r = <<o, "recharge", n>>
      BY <3>1
    <3>2. CASE r = <<o, "bonus", n>>
      BY <3>2
    <3>3. CASE r # <<o, "recharge", n>> /\ r # <<o, "bonus", n>>
      BY <3>3
    <3> QED
      BY <3>1, <3>2, <3>3
  <2> QED
    BY <2>1
<1>2. /\ row' = [r \in Rows |-> IF part[r] > 0 THEN "live" ELSE row[r]]
      /\ worth' = [r \in Rows |-> IF part[r] > 0 THEN part[r] ELSE worth[r]]
      /\ balance' = balance + base + bonus
      /\ UNCHANGED <<listed, held, renewed>>
  BY DEF Grant, flight
<1> HIDE DEF part
<1>3. \A r \in Rows : part[r] \in Nat
  BY <1>1
<1> QED
  BY <1>2, <1>3 DEF LedgerTypeOK

\* So does a refund, whatever rows it marks.
LEMMA TakeBackTyped ==
  ASSUME LedgerTypeOK, NEW o, NEW target \in Nat, TakeBack(o, target)
  PROVE LedgerTypeOK'
<1>1. /\ balance' = balance - Lesser(target, balance)
      /\ row' = [r \in Rows |-> IF r \in Covering(o, Lesser(target, balance))
                                THEN "gone" ELSE row[r]]
      /\ UNCHANGED <<worth, listed, held, renewed>>
  BY DEF TakeBack, flight
<1>0. balance \in Nat
  BY DEF LedgerTypeOK
<1> DEFINE debit == Lesser(target, balance)
<1>4. debit \in Nat /\ debit <= balance
  BY <1>0, Lessers
<1>2. balance' \in Nat
  <2>1. balance' = balance - debit
    BY <1>1
  <2> HIDE DEF debit
  <2> QED
    BY <1>0, <1>4, <2>1
<1>3. row' \in [Rows -> {"none", "live", "lapsed", "gone"}]
  BY <1>1 DEF LedgerTypeOK
<1> QED
  BY <1>1, <1>2, <1>3 DEF LedgerTypeOK

\* And a step of the wallet's own.
LEMMA LedgerTyped ==
  ASSUME LedgerTypeOK, LedgerStep
  PROVE LedgerTypeOK'
<1>0. \A b, d \in Nat : d <= b => b - d \in Nat
  OBVIOUS
<1>1. ASSUME NEW r \in Rows, Lapse(r)
      PROVE LedgerTypeOK'
  BY <1>1 DEF LedgerTypeOK, Lapse, flight
<1>2. ASSUME NEW r \in Rows, SweepRow(r)
      PROVE LedgerTypeOK'
  <2>1. balance \in Nat /\ worth[r] \in Nat /\ balance' = balance - Lesser(worth[r], balance)
    BY <1>2 DEF LedgerTypeOK, SweepRow
  <2>2. Lesser(worth[r], balance) \in Nat /\ Lesser(worth[r], balance) <= balance
    BY <2>1, Lessers
  <2>4. balance' \in Nat
    BY <1>0, <2>1, <2>2
  <2> QED
    BY <1>2, <2>4 DEF LedgerTypeOK, SweepRow, flight
<1>3. CASE ListExpired
  BY <1>3 DEF LedgerTypeOK, ListExpired, flight
<1>4. CASE SweepDies
  BY <1>4 DEF LedgerTypeOK, SweepDies, flight
<1>5. ASSUME NEW c \in Spendings, Spend(c)
      PROVE LedgerTypeOK'
  BY <1>5 DEF LedgerTypeOK, Spend, flight
<1>6. ASSUME NEW c \in Spendings, Reserve(c)
      PROVE LedgerTypeOK'
  BY <1>6 DEF LedgerTypeOK, Reserve
<1>7. ASSUME NEW c \in Spendings, SweepRenewed(c)
      PROVE LedgerTypeOK'
  <2>1. /\ balance \in Nat /\ renewed \in Nat /\ c \in Nat /\ c <= renewed
        /\ balance' = balance - Lesser(c, balance) /\ renewed' = renewed - c
    BY <1>7 DEF LedgerTypeOK, SweepRenewed
  <2>2. Lesser(c, balance) \in Nat /\ Lesser(c, balance) <= balance
    BY <2>1, Lessers
  <2>3. balance' \in Nat /\ renewed' \in Nat
    BY <1>0, <2>1, <2>2
  <2> QED
    BY <1>7, <2>3 DEF LedgerTypeOK, SweepRenewed
<1>8. ASSUME NEW c \in Spendings, NEW part \in 0..c, ReturnReserve(c, part)
      PROVE LedgerTypeOK'
  <2>1. c \in Nat /\ part \in Nat /\ c <= held
    BY <1>8 DEF ReturnReserve
  <2>2. balance' \in Nat /\ held' \in Nat /\ renewed' \in Nat
    BY <1>8, <2>1 DEF ReturnReserve, LedgerTypeOK
  <2> QED
    BY <1>8, <2>2 DEF ReturnReserve, LedgerTypeOK
<1> QED
  BY <1>1, <1>2, <1>3, <1>4, <1>5, <1>6, <1>7, <1>8 DEF LedgerStep

\* What is left alone is still a wallet.
LEMMA LedgerKept ==
  ASSUME LedgerTypeOK, UNCHANGED ledgerVars
  PROVE LedgerTypeOK'
BY DEF LedgerTypeOK, ledgerVars, flight

----------------------------------------------------------------------------
(* Types *)

\* A worker that is busy has an order and a provider.
TasksOK ==
  /\ at \in [Workers -> Steps]
  /\ on \in [Workers -> (Orders \X Providers) \union {NoOrder}]
  /\ due \in [Workers -> Nat]
  /\ \A w \in Workers : at[w] # "idle" => on[w] \in Orders \X Providers

\* The promo uses that were counted are those that are held.
PromoOK == promo \subseteq Orders /\ used = Cardinality(promo)

RowsOK ==
  /\ status \in [Orders -> Statuses]
  /\ credits \in [Orders -> Nat \X Nat]
  /\ session \in [Orders -> Providers \union {"none"}]
  /\ ref \in [Orders -> Providers \union {"none"}]
  /\ credited \in [Orders -> Nat]

PaysOK ==
  /\ pay \in [Orders \X Providers -> Payments]
  /\ back \in [Orders -> Returns]
  /\ flagged \subseteq Orders

\* They are within the limit, and held by orders that may still be paid or were.
Held ==
  /\ used <= MaxUses
  /\ \A o \in promo : status[o] \notin {"none", "cancelled", "expired"}

Typed == LedgerTypeOK /\ RowsOK /\ PromoOK /\ Held /\ PaysOK /\ TasksOK

\* These are the types of the module, and a count is a number.
LEMMA Types ==
  ASSUME Typed
  PROVE TypeOK
<1>1. IsFiniteSet(promo)
  BY FS_Subset DEF Typed, PromoOK, LedgerAssumption
<1>2. used \in Nat
  BY <1>1, FS_CardinalityType DEF Typed, PromoOK
<1> QED
  BY <1>2 DEF Typed, TypeOK, RowsOK, PromoOK, PaysOK, TasksOK

\* An idle worker takes an order up.
LEMMA TakeTyped ==
  ASSUME TasksOK, NEW w \in Workers, NEW s \in Steps, NEW x \in Orders \X Providers, Take(w, s, x)
  PROVE TasksOK'
BY DEF TasksOK, Take

\* A worker is done.
LEMMA DropTyped ==
  ASSUME TasksOK, NEW w \in Workers, Drop(w)
  PROVE TasksOK'
BY DEF TasksOK, Drop, Steps

\* The order of a worker that is busy.
LEMMA BusyOrder ==
  ASSUME TasksOK, NEW w \in Workers, at[w] # "idle"
  PROVE OrderOf(w) \in Orders /\ on[w] \in Orders \X Providers /\ on[w][2] \in Providers
BY DEF TasksOK, OrderOf

\* A use is given back with each order that held one.
LEMMA Freed ==
  ASSUME PromoOK, NEW S, FreePromo(S)
  PROVE PromoOK' /\ promo' = promo \ S /\ used \in Nat /\ used' \in Nat /\ used' <= used
<1> DEFINE freed == S \intersect promo
           kept == promo \ S
<1>1. IsFiniteSet(promo)
  BY FS_Subset DEF PromoOK, LedgerAssumption
<1>2. IsFiniteSet(freed) /\ IsFiniteSet(kept)
  BY <1>1, FS_Subset
<1>3. Cardinality(freed \union kept) =
        Cardinality(freed) + Cardinality(kept) - Cardinality(freed \intersect kept)
  BY <1>2, FS_Union
<1>4. freed \union kept = promo /\ freed \intersect kept = {}
  OBVIOUS
<1>5. Cardinality(freed \intersect kept) = 0
  BY <1>4, FS_EmptySet
<1>6. Cardinality(freed) \in Nat /\ Cardinality(kept) \in Nat
  BY <1>2, FS_CardinalityType
<1>7. used = Cardinality(promo) /\ used' = used - Cardinality(freed) /\ promo' = kept
  BY DEF PromoOK, FreePromo
<1> HIDE DEF freed, kept
<1>8. Cardinality(promo) = Cardinality(freed) + Cardinality(kept)
  <2>1. Cardinality(promo) = Cardinality(freed) + Cardinality(kept) - 0
    BY <1>3, <1>4, <1>5
  <2> QED
    BY <1>6, <2>1
<1>9. used' = Cardinality(promo')
  BY <1>6, <1>7, <1>8
<1>10. promo' \subseteq Orders
  BY <1>7 DEF PromoOK, kept
<1>11. used \in Nat /\ used' \in Nat /\ used' <= used
  BY <1>6, <1>7, <1>8
<1> QED
  BY <1>7, <1>9, <1>10, <1>11 DEF PromoOK, kept

\* A use is taken by an order that held none.
LEMMA UseTaken ==
  ASSUME PromoOK, NEW o \in Orders \ promo, used' = used + 1, promo' = promo \union {o}
  PROVE PromoOK'
<1>1. IsFiniteSet(promo)
  BY FS_Subset DEF PromoOK, LedgerAssumption
<1>2. Cardinality(promo \union {o}) = Cardinality(promo) + 1
  BY <1>1, FS_AddElement
<1> QED
  BY <1>2 DEF PromoOK

\* One order changes its status.
LEMMA Restated ==
  ASSUME RowsOK, NEW o \in Orders, NEW s \in Statuses, SetStatus(o, s)
  PROVE /\ status' \in [Orders -> Statuses]
        /\ status'[o] = s /\ \A q \in Orders \ {o} : status'[q] = status[q]
BY DEF RowsOK, SetStatus

\* A status that is not the end without payment leaves the use with the order.
LEMMA HeldKept ==
  ASSUME RowsOK, PromoOK, Held, NEW o \in Orders, NEW s \in Statuses, SetStatus(o, s),
         s \notin {"none", "cancelled", "expired"}, UNCHANGED promoRows
  PROVE Held' /\ PromoOK'
<1>1. \A q \in Orders : status'[q] = IF q = o THEN s ELSE status[q]
  BY Restated
<1> QED
  BY <1>1 DEF PromoOK, Held, promoRows

\* What a user does to an order.
LEMMA UserTyped ==
  ASSUME Typed, NEW o \in Orders, CreateOrder(o) \/ Cancel(o)
  PROVE Typed'
<1>1. CASE CreateOrder(o)
  <2>1. status[o] = "none" /\ SetStatus(o, "pending")
    BY <1>1 DEF CreateOrder, Create, CreateWithPromo
  <2>2. RowsOK' /\ \A q \in Orders : status'[q] = IF q = o THEN "pending" ELSE status[q]
    BY <1>1, <2>1, Restated DEF Typed, RowsOK, Statuses, CreateOrder
  <2>3. PromoOK' /\ Held'
    <3>1. CASE Create(o)
      BY <3>1, <2>1, HeldKept DEF Typed, Create, Statuses
    <3>2. CASE CreateWithPromo(o)
      <4>1. o \notin promo /\ used' = used + 1 /\ promo' = promo \union {o}
        BY <3>2 DEF CreateWithPromo, Typed, Held
      <4>2. PromoOK'
        BY <4>1, UseTaken DEF Typed
      <4>3. used \in Nat /\ used < MaxUses
        BY <3>2, Types DEF CreateWithPromo, TypeOK
      <4>4. used' <= MaxUses
        BY <4>1, <4>3 DEF OrdersAssumption
      <4>5. \A q \in promo' : status'[q] \notin {"none", "cancelled", "expired"}
        BY <4>1, <2>2 DEF Typed, Held, PromoOK
      <4> QED
        BY <4>2, <4>4, <4>5 DEF Held
    <3> QED
      BY <1>1, <3>1, <3>2 DEF CreateOrder
  <2> QED
    BY <1>1, <2>2, <2>3, LedgerKept DEF Typed, CreateOrder, PaysOK, TasksOK, provider, tasks
<1>2. CASE Cancel(o)
  <2>1. SetStatus(o, "cancelled") /\ FreePromo({o})
    BY <1>2 DEF Cancel
  <2>2. RowsOK' /\ \A q \in Orders : status'[q] = IF q = o THEN "cancelled" ELSE status[q]
    BY <1>2, <2>1, Restated DEF Typed, RowsOK, Statuses, Cancel
  <2>3. PromoOK' /\ promo' = promo \ {o} /\ used \in Nat /\ used' \in Nat /\ used' <= used
    BY <2>1, Freed DEF Typed
  <2>4. used' <= MaxUses
    BY <2>3 DEF Typed, Held, OrdersAssumption
  <2>5. \A q \in promo' : status'[q] \notin {"none", "cancelled", "expired"}
    BY <2>2, <2>3 DEF Typed, Held, PromoOK
  <2>6. Held'
    BY <2>4, <2>5 DEF Held
  <2> QED
    BY <1>2, <2>2, <2>3, <2>6, LedgerKept DEF Typed, Cancel, PaysOK, TasksOK, provider, tasks
<1> QED
  BY <1>1, <1>2

\* The hourly job closes orders, each with its use.
LEMMA ExpireTyped ==
  ASSUME Typed, ExpireOrders
  PROVE Typed'
<1>1. PICK S \in SUBSET {o \in Orders : status[o] = "pending"} :
        /\ status' = [o \in Orders |-> IF o \in S THEN "expired" ELSE status[o]]
        /\ FreePromo(S)
        /\ UNCHANGED <<ledgerVars, credits, session, ref, provider, tasks, flagged, credited>>
  BY DEF ExpireOrders
<1>2. RowsOK'
  BY <1>1 DEF Typed, RowsOK, Statuses
<1>3. PromoOK' /\ promo' = promo \ S /\ used \in Nat /\ used' \in Nat /\ used' <= used
  BY <1>1, Freed DEF Typed
<1>4. used' <= MaxUses
  BY <1>3 DEF Typed, Held, OrdersAssumption
<1>5. \A q \in promo' : status'[q] \notin {"none", "cancelled", "expired"}
  BY <1>1, <1>3 DEF Typed, Held, PromoOK
<1>6. Held'
  BY <1>4, <1>5 DEF Held
<1> QED
  BY <1>1, <1>2, <1>3, <1>6, LedgerKept DEF Typed, PaysOK, TasksOK, provider, tasks

\* An approval, with the credits of the order or with others.
LEMMA ApproveTyped ==
  ASSUME Typed, NEW o \in Orders, NEW base \in Nat, NEW bonus \in Nat, Approve(o, base, bonus),
         UNCHANGED promoRows, (UNCHANGED <<session, ref>>)
  PROVE LedgerTypeOK' /\ RowsOK' /\ PromoOK' /\ Held'
<1>1. LedgerTypeOK'
  BY GrantTyped DEF Approve, Typed
<1>2. SetStatus(o, "paid") /\ "paid" \in Statuses
  BY DEF Approve, Statuses
<1>3. RowsOK'
  BY <1>2, Restated DEF Typed, RowsOK, Approve
<1>4. PromoOK' /\ Held'
  BY <1>2, HeldKept DEF Typed
<1> QED
  BY <1>1, <1>3, <1>4

\* A refund.
LEMMA RefundTyped ==
  ASSUME Typed, NEW o \in Orders, NEW target \in Nat, Refund(o, target),
         UNCHANGED promoRows, (UNCHANGED <<session, ref>>)
  PROVE LedgerTypeOK' /\ RowsOK' /\ PromoOK' /\ Held'
<1>1. Total(o) \in Nat
  BY DEF Typed, RowsOK, Total
<1>2. LedgerTypeOK'
  <2>1. Lesser(target, Total(o)) \in Nat
    BY <1>1, Lessers
  <2> QED
    BY <2>1, TakeBackTyped DEF Refund, Typed
<1>3. SetStatus(o, "refunded") /\ "refunded" \in Statuses
  BY DEF Refund, Statuses
<1>4. RowsOK'
  BY <1>3, Restated DEF Typed, RowsOK, Refund
<1>5. PromoOK' /\ Held'
  BY <1>3, HeldKept DEF Typed
<1> QED
  BY <1>2, <1>4, <1>5

\* The credits of an order for another amount are a number.
LEMMA ScaledNat ==
  ASSUME NEW c \in Nat, NEW paid \in Nat, NEW o \in Orders
  PROVE Scaled(c, paid, o) \in Nat
<1>1. c * paid \in Nat
  OBVIOUS
<1>2. \A n \in Nat, d \in Nat \ {0} : n \div d \in Nat
  OBVIOUS
<1>3. Price[o] \in Nat \ {0}
  BY DEF OrdersAssumption
<1> QED
  BY <1>1, <1>2, <1>3 DEF Scaled

\* A step that leaves the rows of the orders and the promo alone.
LEMMA RowsKept ==
  ASSUME Typed, UNCHANGED <<orderRows, promoRows, credited>>
  PROVE RowsOK' /\ PromoOK' /\ Held'
BY DEF Typed, RowsOK, PromoOK, Held, orderRows, promoRows

\* What the customer and the providers do.
LEMMA PaymentTyped ==
  ASSUME Typed, NEW o \in Orders,
         (\E p \in Providers : PaymentMoves(o, p)) \/ ChargeReturned(o)
  PROVE Typed'
<1>1. ASSUME NEW p \in Providers, PaymentMoves(o, p)
      PROVE Typed'
  BY <1>1, RowsKept, LedgerKept
     DEF PaymentMoves, Typed, PaysOK, TasksOK, tasks
<1>2. CASE ChargeReturned(o)
  BY <1>2, RowsKept, LedgerKept
     DEF ChargeReturned, Typed, PaysOK, TasksOK, tasks
<1> QED
  BY <1>1, <1>2

\* What a dispute and the daily comparison write.
LEMMA NoticeTyped ==
  ASSUME Typed, NEW o \in Orders, DisputedEvent(o) \/ StripeReconRef(o) \/ AdminRejects(o)
  PROVE Typed'
<1>1. CASE DisputedEvent(o)
  <2>1. SetStatus(o, "disputed") /\ "disputed" \in Statuses
    BY <1>1 DEF DisputedEvent, Statuses
  <2>2. RowsOK'
    BY <1>1, <2>1, Restated DEF DisputedEvent, Typed, RowsOK
  <2>3. PromoOK' /\ Held'
    BY <1>1, <2>1, HeldKept DEF DisputedEvent, Typed
  <2> QED
    BY <1>1, <2>2, <2>3, LedgerKept DEF DisputedEvent, Typed, PaysOK, TasksOK, provider, tasks
<1>2. CASE StripeReconRef(o)
  <2>1. RowsOK'
    BY <1>2 DEF StripeReconRef, Typed, RowsOK, Providers
  <2>2. PromoOK' /\ Held'
    BY <1>2 DEF StripeReconRef, Typed, PromoOK, Held, promoRows
  <2> QED
    BY <1>2, <2>1, <2>2, LedgerKept DEF StripeReconRef, Typed, PaysOK, TasksOK, provider, tasks
<1>3. CASE AdminRejects(o)
  <2>1. SetStatus(o, "failed") /\ "failed" \in Statuses
    BY <1>3 DEF AdminRejects, Statuses
  <2>2. RowsOK'
    BY <1>3, <2>1, Restated DEF AdminRejects, Typed, RowsOK
  <2>3. PromoOK' /\ Held'
    BY <1>3, <2>1, HeldKept DEF AdminRejects, Typed
  <2> QED
    BY <1>3, <2>2, <2>3, LedgerKept DEF AdminRejects, Typed, PaysOK, TasksOK, provider, tasks
<1> QED
  BY <1>1, <1>2, <1>3

\* What an admin decides that moves credits.
LEMMA AdminTyped ==
  ASSUME Typed, NEW o \in Orders,
         AdminApproves(o) \/ AdminApprovesMismatch(o) \/ AdminRefunds(o)
  PROVE Typed'
<1>1. credits[o][1] \in Nat /\ credits[o][2] \in Nat /\ Total(o) \in Nat
  BY DEF Typed, RowsOK, Total
<1>2. CASE AdminApproves(o)
  <2>1. LedgerTypeOK' /\ RowsOK' /\ PromoOK' /\ Held'
    BY <1>1, <1>2, ApproveTyped DEF AdminApproves, ApproveInFull
  <2> QED
    BY <1>2, <2>1 DEF AdminApproves, Typed, PaysOK, TasksOK, provider, tasks
<1>3. CASE AdminApprovesMismatch(o)
  <2>1. PICK paid \in PaidAmounts :
          Approve(o, Scaled(credits[o][1], paid, o), Scaled(credits[o][2], paid, o))
    BY <1>3 DEF AdminApprovesMismatch
  <2>2. paid \in Nat
    BY DEF OrdersAssumption
  <2>3. Scaled(credits[o][1], paid, o) \in Nat /\ Scaled(credits[o][2], paid, o) \in Nat
    BY <1>1, <2>2, ScaledNat
  <2>4. LedgerTypeOK' /\ RowsOK' /\ PromoOK' /\ Held'
    BY <1>3, <2>1, <2>3, ApproveTyped DEF AdminApprovesMismatch
  <2> QED
    BY <1>3, <2>4 DEF AdminApprovesMismatch, Typed, PaysOK, TasksOK, provider, tasks
<1>4. CASE AdminRefunds(o)
  <2>1. LedgerTypeOK' /\ RowsOK' /\ PromoOK' /\ Held'
    BY <1>1, <1>4, RefundTyped DEF AdminRefunds
  <2> QED
    BY <1>4, <2>1 DEF AdminRefunds, Typed, PaysOK, TasksOK, provider, tasks
<1> QED
  BY <1>2, <1>3, <1>4

\* Work that begins.
LEMMA BeginTyped ==
  ASSUME Typed, NEW w \in Workers, NEW o \in Orders, Begin(w, o)
  PROVE Typed'
<1>1. {"checkout", "querying", "reconciling", "review", "approve", "partial", "refund"}
        \subseteq Steps /\ Providers = {"stripe", "usdt"}
  BY DEF Steps, Providers
<1>2. CASE BeginCheckout(w, o)
  <2>1. TasksOK'
    BY <1>1, <1>2, TakeTyped DEF BeginCheckout, Typed
  <2> QED
    BY <1>2, <2>1, RowsKept, LedgerKept DEF BeginCheckout, Typed, PaysOK, provider
<1>3. CASE CompletedEvent(w, o)
  <2>1. PICK p \in Providers : Decide(w, o, p)
    BY <1>3 DEF CompletedEvent
  <2>2. /\ Take(w, "approve", <<o, p>>) \/ Take(w, "review", <<o, p>>)
        /\ flagged' = flagged \/ flagged' = flagged \union {o}
    BY <2>1 DEF Decide
  <2>3. TasksOK'
    BY <1>1, <2>2, TakeTyped DEF Typed
  <2> QED
    BY <1>3, <2>2, <2>3, RowsKept, LedgerKept DEF CompletedEvent, Typed, PaysOK, provider
<1>4. CASE PartialEvent(w, o)
  <2>1. TasksOK'
    BY <1>1, <1>4, TakeTyped DEF PartialEvent, Typed
  <2> QED
    BY <1>4, <2>1, RowsKept, LedgerKept DEF PartialEvent, Typed, PaysOK, provider
<1>5. CASE RefundedEvent(w, o)
  <2>1. Total(o) \in Nat
    BY DEF Typed, RowsOK, Total
  <2>2. Total(o) \div 2 \in Nat
    BY <2>1
  <2>3. /\ at' = [at EXCEPT ![w] = "refund"]
        /\ on' = [on EXCEPT ![w] = <<o, "stripe">>]
        /\ due' = [due EXCEPT ![w] = IF back[o] = "halved" THEN Total(o) \div 2 ELSE Total(o)]
    BY <1>5 DEF RefundedEvent
  <2>4. TasksOK'
    BY <1>1, <2>1, <2>2, <2>3 DEF Typed, TasksOK
  <2> QED
    BY <1>5, <2>4, RowsKept, LedgerKept DEF RefundedEvent, Typed, PaysOK, provider
<1>6. CASE BeginQuery(w, o)
  <2>1. session[o] \in Providers
    BY <1>6 DEF BeginQuery, Typed, RowsOK
  <2>2. TasksOK'
    BY <1>1, <1>6, <2>1, TakeTyped DEF BeginQuery, Typed
  <2> QED
    BY <1>6, <2>2, RowsKept, LedgerKept DEF BeginQuery, Typed, PaysOK, provider
<1>7. CASE BeginUsdtRecon(w, o)
  <2>1. TasksOK'
    BY <1>1, <1>7, TakeTyped DEF BeginUsdtRecon, Typed
  <2> QED
    BY <1>7, <2>1, RowsKept, LedgerKept DEF BeginUsdtRecon, Typed, PaysOK, provider
<1> QED
  BY <1>2, <1>3, <1>4, <1>5, <1>6, <1>7 DEF Begin

\* Work that goes on and asks or writes no more than who pays and where.
LEMMA AnswerTyped ==
  ASSUME Typed, NEW w \in Workers,
         \/ FinishCheckout(w) \/ ProviderAnswers(w) \/ AlreadyDecided(w) \/ StoreReference(w)
         \/ Crash(w)
  PROVE Typed'
<1>1. at[w] # "idle"
  BY DEF FinishCheckout, ProviderAnswers, AlreadyDecided, StoreReference, Crash
<1>2. OrderOf(w) \in Orders /\ on[w] \in Orders \X Providers /\ on[w][2] \in Providers
  BY <1>1, BusyOrder DEF Typed
<1>3. CASE FinishCheckout(w)
  <2>1. TasksOK'
    BY <1>3, DropTyped DEF FinishCheckout, Typed
  <2>2. RowsOK'
    BY <1>2, <1>3 DEF FinishCheckout, Typed, RowsOK
  <2>3. PaysOK'
    BY <1>2, <1>3 DEF FinishCheckout, Typed, PaysOK, Payments
  <2>4. PromoOK' /\ Held'
    BY <1>3 DEF FinishCheckout, Typed, PromoOK, Held, promoRows
  <2> QED
    BY <1>3, <2>1, <2>2, <2>3, <2>4, LedgerKept DEF FinishCheckout, Typed
<1>4. CASE ProviderAnswers(w)
  <2>1. PICK v : /\ v \in {"approve", "review", "fail", "idle"}
                 /\ \/ Drop(w)
                    \/ at' = [at EXCEPT ![w] = v] /\ UNCHANGED <<on, due>>
                 /\ flagged' = flagged \/ flagged' = flagged \union {OrderOf(w)}
    <3>1. Verdict(at[w], pay[on[w]]) \in {"approve", "review", "fail", "idle"}
      BY DEF Verdict
    <3> QED
      BY <1>4, <3>1 DEF ProviderAnswers
  <2>2. TasksOK'
    <3>1. CASE Drop(w)
      BY <3>1, DropTyped DEF Typed
    <3>2. CASE at' = [at EXCEPT ![w] = v] /\ UNCHANGED <<on, due>>
      <4>1. v \in Steps
        BY <2>1 DEF Steps
      <4> QED
        BY <1>2, <3>2, <4>1 DEF Typed, TasksOK
    <3> QED
      BY <2>1, <3>1, <3>2
  <2> QED
    BY <1>2, <1>4, <2>1, <2>2, RowsKept, LedgerKept DEF ProviderAnswers, Typed, PaysOK, provider
<1>5. CASE AlreadyDecided(w)
  <2>1. TasksOK'
    BY <1>5, DropTyped DEF AlreadyDecided, Typed
  <2> QED
    BY <1>5, <2>1, RowsKept, LedgerKept DEF AlreadyDecided, Typed, PaysOK, provider
<1>6. CASE StoreReference(w)
  <2>1. TasksOK'
    BY <1>6, DropTyped DEF StoreReference, Typed
  <2>2. RowsOK'
    BY <1>2, <1>6 DEF StoreReference, Typed, RowsOK, Providers
  <2>3. PromoOK' /\ Held'
    BY <1>6 DEF StoreReference, Typed, PromoOK, Held, promoRows
  <2> QED
    BY <1>6, <2>1, <2>2, <2>3, LedgerKept DEF StoreReference, Typed, PaysOK, provider
<1>7. CASE Crash(w)
  <2>1. TasksOK'
    BY <1>7, DropTyped DEF Crash, Typed
  <2> QED
    BY <1>7, <2>1, RowsKept, LedgerKept DEF Crash, Typed, PaysOK, provider
<1> QED
  BY <1>3, <1>4, <1>5, <1>6, <1>7

\* Work that ends in a decision on the order.
LEMMA DecisionTyped ==
  ASSUME Typed, NEW w \in Workers,
         \/ RouteToReview(w) \/ HandlePartial(w) \/ MarkFailed(w)
         \/ ApprovePayment(w) \/ RefundPayment(w)
  PROVE Typed'
<1>1. at[w] # "idle"
  BY DEF RouteToReview, HandlePartial, MarkFailed, ApprovePayment, RefundPayment
<1>2. OrderOf(w) \in Orders /\ on[w] \in Orders \X Providers
  BY <1>1, BusyOrder DEF Typed
<1> DEFINE o == OrderOf(w)
<1> HIDE DEF o
<1>3. o \in Orders /\ o = OrderOf(w)
  BY <1>2 DEF o
<1>4. CASE RouteToReview(w)
  <2>1. SetStatus(o, "pending_review") /\ "pending_review" \in Statuses
    BY <1>3, <1>4 DEF RouteToReview, Statuses
  <2>2. TasksOK'
    BY <1>4, DropTyped DEF RouteToReview, Typed
  <2>3. RowsOK'
    BY <1>3, <1>4, <2>1, Restated DEF RouteToReview, Typed, RowsOK
  <2>4. PromoOK' /\ Held'
    BY <1>3, <1>4, <2>1, HeldKept DEF RouteToReview, Typed
  <2> QED
    BY <1>4, <2>2, <2>3, <2>4, LedgerKept DEF RouteToReview, Typed, PaysOK, provider
<1>5. CASE HandlePartial(w)
  <2>1. status' = [status EXCEPT ![o] = IF @ = "pending" THEN "pending_review" ELSE @]
    BY <1>3, <1>5 DEF HandlePartial
  <2>2. TasksOK'
    BY <1>5, DropTyped DEF HandlePartial, Typed
  <2>3. RowsOK'
    BY <1>3, <1>5, <2>1 DEF HandlePartial, Typed, RowsOK, Statuses
  <2>4. PromoOK' /\ Held'
    BY <1>3, <1>5, <2>1 DEF HandlePartial, Typed, RowsOK, PromoOK, Held, promoRows
  <2> QED
    BY <1>5, <2>2, <2>3, <2>4, LedgerKept DEF HandlePartial, Typed, PaysOK, provider
<1>6. CASE MarkFailed(w)
  <2>1. SetStatus(o, "failed") /\ "failed" \in Statuses
    BY <1>3, <1>6 DEF MarkFailed, Statuses
  <2>2. TasksOK'
    BY <1>6, DropTyped DEF MarkFailed, Typed
  <2>3. RowsOK'
    BY <1>3, <1>6, <2>1, Restated DEF MarkFailed, Typed, RowsOK, Providers
  <2>4. PromoOK' /\ Held'
    BY <1>3, <1>6, <2>1, HeldKept DEF MarkFailed, Typed
  <2> QED
    BY <1>6, <2>2, <2>3, <2>4, LedgerKept DEF MarkFailed, Typed, PaysOK, provider
<1>7. CASE ApprovePayment(w)
  <2>1. credits[o][1] \in Nat /\ credits[o][2] \in Nat
    BY <1>3 DEF Typed, RowsOK
  <2>2. Approve(o, credits[o][1], credits[o][2])
    BY <1>3, <1>7 DEF ApprovePayment, ApproveInFull
  <2>3. LedgerTypeOK' /\ RowsOK' /\ PromoOK' /\ Held'
    BY <1>3, <1>7, <2>1, <2>2, ApproveTyped DEF ApprovePayment
  <2>4. TasksOK'
    BY <1>2, <1>7 DEF ApprovePayment, Typed, TasksOK, Steps
  <2> QED
    BY <1>7, <2>3, <2>4 DEF ApprovePayment, Typed, PaysOK, provider
<1>8. CASE RefundPayment(w)
  <2>1. Refund(o, due[w]) /\ due[w] \in Nat
    BY <1>3, <1>8 DEF RefundPayment, Typed, TasksOK
  <2>2. LedgerTypeOK' /\ RowsOK' /\ PromoOK' /\ Held'
    BY <1>3, <1>8, <2>1, RefundTyped DEF RefundPayment
  <2>3. TasksOK'
    BY <1>8, DropTyped DEF RefundPayment, Typed
  <2> QED
    BY <1>8, <2>2, <2>3 DEF RefundPayment, Typed, PaysOK, provider
<1> QED
  BY <1>4, <1>5, <1>6, <1>7, <1>8

\* Every step keeps the types.
LEMMA TypedNext ==
  ASSUME Typed, [Next]_vars
  PROVE Typed'
<1>1. ASSUME NEW o \in Orders, OrderStep(o)
      PROVE Typed'
  BY <1>1, UserTyped, PaymentTyped, NoticeTyped, AdminTyped DEF OrderStep
<1>2. ASSUME NEW w \in Workers, NEW o \in Orders, Begin(w, o)
      PROVE Typed'
  BY <1>2, BeginTyped
<1>3. ASSUME NEW w \in Workers, Proceed(w) \/ Crash(w)
      PROVE Typed'
  BY <1>3, AnswerTyped, DecisionTyped DEF Proceed
<1>4. CASE ExpireOrders
  BY <1>4, ExpireTyped
<1>5. CASE LedgerStep
  <2>1. LedgerTypeOK' /\ UNCHANGED orderVars
    BY <1>5, LedgerTyped DEF Typed, LedgerStep
  <2> QED
    BY <2>1, RowsKept DEF Typed, PaysOK, TasksOK, orderVars, provider, tasks
<1>6. CASE UNCHANGED vars
  BY <1>6, RowsKept, LedgerKept DEF Typed, PaysOK, TasksOK, vars, orderVars, provider, tasks
<1> QED
  BY <1>1, <1>2, <1>3, <1>4, <1>5, <1>6 DEF Next

\* And so do the first states.
LEMMA TypedInit ==
  ASSUME Init
  PROVE Typed
<1>1. LedgerTypeOK
  BY DEF Init, LedgerInit, LedgerTypeOK
<1>2. RowsOK
  BY DEF Init, RowsOK, Statuses, OrdersAssumption
<1>3. PromoOK /\ Held
  BY FS_EmptySet DEF Init, PromoOK, Held, OrdersAssumption
<1>4. PaysOK /\ TasksOK
  BY DEF Init, PaysOK, TasksOK, Payments, Returns, Steps
<1> QED
  BY <1>1, <1>2, <1>3, <1>4 DEF Typed

\* The inductive types hold in every state of every behaviour.
THEOREM TypedAlways == Spec => []Typed
BY TypedInit, TypedNext, PTL DEF Spec

\* The types of the module hold: a wallet is never below zero, and a payment is
\* never in hand without its order.
THEOREM TypeCorrect == Spec => []TypeOK
BY TypedAlways, Types, PTL

\* The promo code's count is that of the orders that hold a use, within its limit.
THEOREM UsesCounted == Spec => []PromoUses
<1>1. ASSUME Typed
      PROVE PromoUses
  BY <1>1 DEF Typed, PromoOK, Held, PromoUses
<1> QED
  BY <1>1, TypedAlways, PTL

----------------------------------------------------------------------------
(* Credits *)

Unpaid == {"none", "pending", "pending_review"}
Closed == {"paid", "refunded", "disputed"}
FailedOnChain(o) == pay[<<o, "usdt">>] = "failed"

\* An order that may still be approved has not been credited, no order has twice; and its
\* status, and a reference to its charge, tell.
CreditKnown(o) ==
  o \notin flagged =>
    /\ credited[o] <= 1
    /\ status[o] \in Unpaid => credited[o] = 0
    /\ ~FailedOnChain(o) => /\ credited[o] > 0 <=> status[o] \in Closed
                            /\ ref[o] = "stripe" => credited[o] > 0

\* What a worker remembers is so: why it will write.
Fits(w) ==
  /\ at[w] = "review" => OrderOf(w) \in flagged
  /\ at[w] = "reconciling" => on[w][2] = "usdt"
  /\ at[w] = "fail" => FailedOnChain(OrderOf(w))
  /\ at[w] = "reference" => credited[OrderOf(w)] > 0

Sound ==
  /\ Typed
  /\ \A o \in Orders : CreditKnown(o)
  /\ \A w \in Workers : Fits(w)

\* What a step may do to an order, and on what grounds.
Move(o) ==
  /\ \/ status'[o] = status[o] /\ credited'[o] = credited[o]
     \/ /\ status[o] \in Unpaid /\ status'[o] \in Statuses \ Closed
        /\ credited'[o] = credited[o]
     \/ /\ status[o] \in Unpaid /\ status'[o] = "paid" /\ credited'[o] = credited[o] + 1
     \/ status[o] = "paid" /\ status'[o] = "refunded" /\ credited'[o] = credited[o]
     \/ o \in flagged /\ credited'[o] = credited[o]
     \/ FailedOnChain(o) /\ status'[o] = "failed" /\ credited'[o] = credited[o]
     \/ ref[o] = "stripe" /\ status'[o] = "disputed" /\ credited'[o] = credited[o]
  /\ ref'[o] = "stripe" => \/ ref[o] = "stripe"
                           \/ credited[o] > 0
                           \/ status[o] \in {"paid", "refunded"}
  /\ o \in flagged => o \in flagged'
  /\ FailedOnChain(o) => FailedOnChain(o)'

\* Such moves keep what is known of an order.
LEMMA MoveKeeps ==
  ASSUME Typed, NEW o \in Orders, CreditKnown(o), Move(o)
  PROVE CreditKnown(o)' /\ credited'[o] >= credited[o]
<1>1. credited[o] \in Nat
  BY DEF Typed, RowsOK
<1>2. CASE status'[o] = status[o] /\ credited'[o] = credited[o]
  BY <1>1, <1>2 DEF CreditKnown, Move, Closed
<1>3. CASE /\ status[o] \in Unpaid /\ status'[o] \in Statuses \ Closed
           /\ credited'[o] = credited[o]
  BY <1>1, <1>3 DEF CreditKnown, Move, Closed, Unpaid
<1>4. CASE status[o] \in Unpaid /\ status'[o] = "paid" /\ credited'[o] = credited[o] + 1
  BY <1>1, <1>4 DEF CreditKnown, Move, Closed, Unpaid
<1>5. CASE status[o] = "paid" /\ status'[o] = "refunded" /\ credited'[o] = credited[o]
  BY <1>1, <1>5 DEF CreditKnown, Move, Closed, Unpaid
<1>6. CASE o \in flagged /\ credited'[o] = credited[o]
  BY <1>1, <1>6 DEF CreditKnown, Move
<1>7. CASE FailedOnChain(o) /\ status'[o] = "failed" /\ credited'[o] = credited[o]
  BY <1>1, <1>7 DEF CreditKnown, Move, Closed, Unpaid
<1>8. CASE ref[o] = "stripe" /\ status'[o] = "disputed" /\ credited'[o] = credited[o]
  BY <1>1, <1>8 DEF CreditKnown, Move, Closed, Unpaid
<1> QED
  BY <1>2, <1>3, <1>4, <1>5, <1>6, <1>7, <1>8 DEF Move

\* A worker keeps what it remembers, or remembers something that is so.
Work(w) ==
  \/ at'[w] = at[w] /\ on'[w] = on[w]
  \/ Fits(w)'

\* What a worker is about to do still fits its order after a step of that worker.
LEMMA WorkKeeps ==
  ASSUME Typed, NEW w \in Workers, Fits(w), Work(w),
         \A o \in Orders : CreditKnown(o) /\ Move(o)
  PROVE Fits(w)'
<1>1. CASE at'[w] = at[w] /\ on'[w] = on[w] /\ at[w] # "idle"
  <2>1. PICK o \in Orders : o = on[w][1] /\ o = on'[w][1]
    BY <1>1, BusyOrder DEF Typed, OrderOf
  <2>2. credited'[o] >= credited[o] /\ credited[o] \in Nat /\ credited'[o] \in Nat
    <3>1. credited[o] \in Nat
      BY DEF Typed, RowsOK
    <3> QED
      BY <3>1, MoveKeeps DEF Move
  <2>3. /\ o \in flagged => o \in flagged'
        /\ pay[<<o, "usdt">>] = "failed" => pay'[<<o, "usdt">>] = "failed"
    BY DEF Move, FailedOnChain
  <2> QED
    BY <1>1, <2>1, <2>2, <2>3 DEF Fits, FailedOnChain, OrderOf
<1>2. CASE at'[w] = "idle"
  BY <1>2 DEF Fits
<1> QED
  BY <1>1, <1>2 DEF Work

Moves == \A o \in Orders : Move(o)
Works == \A w \in Workers : Work(w)

\* A step that leaves the orders as they are: payments go on, and more may be flagged.
LEMMA QuietMoves ==
  ASSUME UNCHANGED <<status, ref, credited>>, flagged \subseteq flagged',
         \A o \in Orders : FailedOnChain(o) => FailedOnChain(o)'
  PROVE Moves
BY DEF Moves, Move

\* A step on one order.
LEMMA OneMove ==
  ASSUME Typed, NEW o \in Orders, Move(o), UNCHANGED <<pay, flagged>>,
         \A q \in Orders \ {o} : /\ status'[q] = status[q] /\ ref'[q] = ref[q]
                                 /\ credited'[q] = credited[q]
  PROVE Moves
BY DEF Moves, Move, FailedOnChain

\* A worker that has dropped its task remembers nothing, and one that takes up another
\* remembers only that.
LEMMA DropWorks ==
  ASSUME Typed, NEW w \in Workers, Drop(w)
  PROVE Works
<1>1. at'[w] = "idle" /\ \A v \in Workers \ {w} : at'[v] = at[v] /\ on'[v] = on[v]
  BY DEF Typed, TasksOK, Drop
<1> QED
  BY <1>1 DEF Works, Work, Fits

\* A worker that takes up a task which asks nothing of the order has one that fits.
LEMMA TakeWorks ==
  ASSUME Typed, NEW w \in Workers, NEW s, NEW x, Take(w, s, x),
         s \notin {"review", "reconciling", "fail", "reference"}
  PROVE Works
<1>1. at'[w] = s /\ \A v \in Workers \ {w} : at'[v] = at[v] /\ on'[v] = on[v]
  BY DEF Typed, TasksOK, Take
<1> QED
  BY <1>1 DEF Works, Work, Fits

\* The user, the customer, the jobs: no worker is involved.
LEMMA UserSound ==
  ASSUME Sound, NEW o \in Orders,
         \/ CreateOrder(o) \/ Cancel(o) \/ ChargeReturned(o) \/ AdminRejects(o)
         \/ \E p \in Providers : PaymentMoves(o, p)
  PROVE Moves /\ Works
<1>1. ASSUME NEW s \in Statuses \ Closed, status[o] \in Unpaid, SetStatus(o, s),
             UNCHANGED <<ref, credited, pay, flagged>>
      PROVE Moves
  <2>1. Typed /\ RowsOK /\ s \in Statuses
    BY <1>1 DEF Sound, Typed
  <2>2. /\ status'[o] = s
        /\ \A q \in Orders \ {o} : status'[q] = status[q]
    BY <1>1, <2>1, Restated
  <2>3. Move(o)
    BY <1>1, <2>2 DEF Move, FailedOnChain
  <2> QED
    BY <1>1, <2>1, <2>2, <2>3, OneMove
<1>2. {"pending", "cancelled", "failed"} \subseteq Statuses \ Closed
  BY DEF Statuses, Closed
<1>3. CASE CreateOrder(o)
  <2>1. status[o] = "none" /\ SetStatus(o, "pending")
    BY <1>3 DEF CreateOrder, Create, CreateWithPromo
  <2> QED
    BY <1>1, <1>2, <1>3, <2>1 DEF CreateOrder, Unpaid, Works, Work, provider, tasks
<1>4. CASE Cancel(o)
  BY <1>1, <1>2, <1>4 DEF Cancel, Unpaid, Works, Work, provider, tasks
<1>5. CASE AdminRejects(o)
  BY <1>1, <1>2, <1>5 DEF AdminRejects, Unpaid, Works, Work, provider, tasks
<1>6. CASE ChargeReturned(o)
  BY <1>6, QuietMoves DEF ChargeReturned, FailedOnChain, orderRows, tasks, Works, Work
<1>7. ASSUME NEW p \in Providers, PaymentMoves(o, p)
      PROVE Moves /\ Works
  <2>1. PICK s \in Payments : /\ pay[<<o, p>>] # "failed"
                              /\ pay' = [pay EXCEPT ![<<o, p>>] = s]
    BY <1>7 DEF PaymentMoves, PaySteps
  <2>2. \A q \in Orders : FailedOnChain(q) => FailedOnChain(q)'
    BY <2>1 DEF FailedOnChain, Sound, Typed, PaysOK, Providers
  <2> QED
    BY <1>7, <2>2, QuietMoves DEF PaymentMoves, orderRows, tasks, Works, Work
<1> QED
  BY <1>3, <1>4, <1>5, <1>6, <1>7

\* process_expired_orders moves orders as allowed, and leaves the workers alone.
LEMMA ExpireSound ==
  ASSUME Sound, ExpireOrders
  PROVE Moves /\ Works
<1>1. PICK S \in SUBSET {o \in Orders : status[o] = "pending"} :
        /\ status' = [o \in Orders |-> IF o \in S THEN "expired" ELSE status[o]]
        /\ UNCHANGED <<ledgerVars, credits, session, ref, provider, tasks, flagged, credited>>
  BY DEF ExpireOrders
<1> QED
  BY <1>1 DEF Moves, Move, Works, Work, FailedOnChain, Unpaid, Closed, Statuses, provider, tasks

\* An approval credits an order that had no credit.
LEMMA ApproveMoves ==
  ASSUME Sound, NEW o \in Orders, NEW base, NEW bonus, Approve(o, base, bonus),
         UNCHANGED <<ref, provider, flagged>>
  PROVE Moves
<1>1. /\ status[o] \in {"pending", "pending_review"} /\ SetStatus(o, "paid")
      /\ credited' = [credited EXCEPT ![o] = @ + 1]
  BY DEF Approve, Approvable
<1>2. "paid" \in Statuses
  BY DEF Statuses
<1>3. status'[o] = "paid" /\ \A q \in Orders \ {o} : status'[q] = status[q]
  BY <1>1, <1>2, Restated DEF Sound, Typed
<1>4. credited'[o] = credited[o] + 1 /\ \A q \in Orders \ {o} : credited'[q] = credited[q]
  BY <1>1 DEF Sound, Typed, RowsOK
<1>5. Move(o)
  BY <1>1, <1>3, <1>4 DEF Move, Unpaid, FailedOnChain, provider
<1> QED
  BY <1>3, <1>4, <1>5, OneMove DEF Sound, provider

\* A refund closes one that was paid.
LEMMA RefundMoves ==
  ASSUME Sound, NEW o \in Orders, NEW target, Refund(o, target),
         UNCHANGED <<ref, provider, flagged>>
  PROVE Moves
<1>1. status[o] = "paid" /\ SetStatus(o, "refunded") /\ UNCHANGED credited
  BY DEF Refund
<1>2. "refunded" \in Statuses
  BY DEF Statuses
<1>3. status'[o] = "refunded" /\ \A q \in Orders \ {o} : status'[q] = status[q]
  BY <1>1, <1>2, Restated DEF Sound, Typed
<1>4. Move(o)
  BY <1>1, <1>3 DEF Move, FailedOnChain, provider
<1> QED
  BY <1>1, <1>3, <1>4, OneMove DEF Sound, provider

\* A dispute, the daily comparison and the admins.
LEMMA NoticeSound ==
  ASSUME Sound, NEW o \in Orders,
         \/ DisputedEvent(o) \/ StripeReconRef(o)
         \/ AdminApproves(o) \/ AdminApprovesMismatch(o) \/ AdminRefunds(o)
  PROVE Moves /\ Works
<1>1. Works
  BY DEF DisputedEvent, StripeReconRef, AdminApproves, AdminApprovesMismatch, AdminRefunds,
         Works, Work, tasks
<1>2. CASE DisputedEvent(o)
  <2>1. SetStatus(o, "disputed") /\ "disputed" \in Statuses
    BY <1>2 DEF DisputedEvent, Statuses
  <2>2. status'[o] = "disputed" /\ \A q \in Orders \ {o} : status'[q] = status[q]
    BY <2>1, Restated DEF Sound, Typed
  <2>3. ref[o] = "stripe" /\ UNCHANGED <<ref, credited, pay, flagged>>
    BY <1>2 DEF DisputedEvent, Found, provider
  <2>4. Move(o)
    BY <2>2, <2>3 DEF Move, FailedOnChain
  <2> QED
    BY <1>1, <2>2, <2>3, <2>4, OneMove DEF Sound
<1>3. CASE StripeReconRef(o)
  <2>1. /\ status[o] \in {"paid", "refunded"} /\ ref' = [ref EXCEPT ![o] = "stripe"]
        /\ UNCHANGED <<status, credited, pay, flagged>>
    BY <1>3 DEF StripeReconRef, provider
  <2>2. \A q \in Orders \ {o} : ref'[q] = ref[q]
    BY <2>1 DEF Sound, Typed, RowsOK
  <2>3. Move(o)
    BY <2>1 DEF Move, FailedOnChain
  <2> QED
    BY <1>1, <2>1, <2>2, <2>3, OneMove DEF Sound
<1>4. ASSUME NEW base, NEW bonus, Approve(o, base, bonus), UNCHANGED <<ref, provider, flagged>>
      PROVE Moves
  BY <1>4, ApproveMoves
<1>5. CASE AdminApproves(o) \/ AdminApprovesMismatch(o)
  BY <1>1, <1>4, <1>5 DEF AdminApproves, AdminApprovesMismatch, ApproveInFull
<1>6. CASE AdminRefunds(o)
  BY <1>1, <1>6, RefundMoves DEF AdminRefunds
<1> QED
  BY <1>1, <1>2, <1>3, <1>5, <1>6

\* Work that begins remembers what was read.
LEMMA BeginSound ==
  ASSUME Sound, NEW w \in Workers, NEW o \in Orders, Begin(w, o)
  PROVE Moves /\ Works
<1>1. CASE BeginCheckout(w, o)
  BY <1>1, QuietMoves, TakeWorks DEF BeginCheckout, Sound, orderRows, provider, FailedOnChain
<1>2. CASE CompletedEvent(w, o)
  <2>1. PICK p \in Providers : Decide(w, o, p)
    BY <1>2 DEF CompletedEvent
  <2>2. Moves
    BY <1>2, <2>1, QuietMoves DEF CompletedEvent, Decide, orderRows, provider, FailedOnChain
  <2>3. CASE Take(w, "approve", <<o, p>>)
    BY <2>2, <2>3, TakeWorks DEF Sound
  <2>4. CASE Take(w, "review", <<o, p>>) /\ flagged' = flagged \union {o}
    <3>1. /\ at'[w] = "review" /\ on'[w] = <<o, p>>
          /\ \A v \in Workers \ {w} : at'[v] = at[v] /\ on'[v] = on[v]
      BY <2>4 DEF Sound, Typed, TasksOK, Take
    <3> QED
      BY <2>2, <2>4, <3>1 DEF Works, Work, Fits, OrderOf
  <2> QED
    BY <2>1, <2>3, <2>4 DEF Decide
<1>3. CASE PartialEvent(w, o)
  BY <1>3, QuietMoves, TakeWorks DEF PartialEvent, Sound, orderRows, provider, FailedOnChain
<1>4. CASE RefundedEvent(w, o)
  <2>1. at'[w] = "refund" /\ \A v \in Workers \ {w} : at'[v] = at[v] /\ on'[v] = on[v]
    BY <1>4 DEF RefundedEvent, Sound, Typed, TasksOK
  <2>2. Works
    BY <2>1 DEF Works, Work, Fits
  <2> QED
    BY <1>4, <2>2, QuietMoves DEF RefundedEvent, orderRows, provider, FailedOnChain
<1>5. CASE BeginQuery(w, o)
  BY <1>5, QuietMoves, TakeWorks DEF BeginQuery, Sound, orderRows, provider, FailedOnChain
<1>6. CASE BeginUsdtRecon(w, o)
  <2>1. /\ at'[w] = "reconciling" /\ on'[w] = <<o, "usdt">>
        /\ \A v \in Workers \ {w} : at'[v] = at[v] /\ on'[v] = on[v]
    BY <1>6 DEF BeginUsdtRecon, Sound, Typed, TasksOK, Take
  <2>2. Works
    BY <2>1 DEF Works, Work, Fits
  <2> QED
    BY <1>6, <2>2, QuietMoves DEF BeginUsdtRecon, orderRows, provider, FailedOnChain
<1> QED
  BY <1>1, <1>2, <1>3, <1>4, <1>5, <1>6 DEF Begin

\* Work that goes on, up to the decision.
LEMMA AnswerSound ==
  ASSUME Sound, NEW w \in Workers,
         \/ FinishCheckout(w) \/ ProviderAnswers(w) \/ AlreadyDecided(w) \/ StoreReference(w)
         \/ Crash(w)
  PROVE Moves /\ Works
<1>1. at[w] # "idle" /\ Typed /\ Fits(w)
  BY DEF FinishCheckout, ProviderAnswers, AlreadyDecided, StoreReference, Crash, Sound
<1>2. PICK o \in Orders, p \in Providers : on[w] = <<o, p>>
  BY <1>1, BusyOrder DEF Typed
<1>3. CASE FinishCheckout(w)
  <2>1. pay' = [pay EXCEPT ![<<o, p>>] = IF @ = "none" THEN "open" ELSE @]
    BY <1>2, <1>3 DEF FinishCheckout
  <2>2. \A q \in Orders : FailedOnChain(q) => FailedOnChain(q)'
    BY <1>1, <2>1 DEF FailedOnChain, Typed, PaysOK, Providers
  <2> QED
    BY <1>1, <1>3, <2>2, QuietMoves, DropWorks DEF FinishCheckout
<1>4. CASE ProviderAnswers(w)
  <2>1. UNCHANGED <<status, ref, credited, pay>> /\ flagged \subseteq flagged'
    BY <1>4 DEF ProviderAnswers, orderRows, provider
  <2>2. Moves
    BY <2>1, QuietMoves DEF FailedOnChain
  <2>3. CASE Drop(w)
    BY <1>1, <2>2, <2>3, DropWorks
  <2> DEFINE v == Verdict(at[w], pay[on[w]])
  <2>4. CASE /\ at' = [at EXCEPT ![w] = v] /\ UNCHANGED <<on, due>>
    <3>1. at'[w] = v /\ on'[w] = <<o, p>> /\ \A u \in Workers \ {w} : at'[u] = at[u] /\ on'[u] = on[u]
      BY <1>1, <1>2, <2>4 DEF Typed, TasksOK
    <3>2. v = "review" => o \in flagged'
      BY <1>2, <1>4 DEF ProviderAnswers, OrderOf
    <3>3. v = "fail" => pay'[<<o, "usdt">>] = "failed"
      BY <1>1, <1>2, <2>1 DEF Verdict, Fits
    <3>4. v \in {"approve", "review", "fail", "idle"}
      BY DEF Verdict
    <3> HIDE DEF v
    <3>5. Fits(w)'
      BY <3>1, <3>2, <3>3, <3>4 DEF Fits, OrderOf, FailedOnChain
    <3> QED
      BY <2>2, <3>1, <3>5 DEF Works, Work
  <2> QED
    BY <1>4, <2>3, <2>4 DEF ProviderAnswers
<1>5. CASE AlreadyDecided(w)
  BY <1>1, <1>5, QuietMoves, DropWorks DEF AlreadyDecided, orderRows, provider, FailedOnChain
<1>6. CASE StoreReference(w)
  <2>1. /\ ref' = [ref EXCEPT ![o] = p] /\ UNCHANGED <<status, credited, pay, flagged>>
        /\ credited[o] > 0
    BY <1>1, <1>2, <1>6 DEF StoreReference, OrderOf, Fits, provider
  <2>2. Move(o)
    BY <2>1 DEF Move, FailedOnChain
  <2>3. \A q \in Orders \ {o} : ref'[q] = ref[q]
    BY <1>1, <2>1 DEF Typed, RowsOK
  <2> QED
    BY <1>1, <1>6, <2>1, <2>2, <2>3, OneMove, DropWorks DEF StoreReference
<1>7. CASE Crash(w)
  BY <1>1, <1>7, QuietMoves, DropWorks DEF Crash, orderRows, provider, FailedOnChain
<1> QED
  BY <1>3, <1>4, <1>5, <1>6, <1>7

\* And the decision itself.
LEMMA DecisionSound ==
  ASSUME Sound, NEW w \in Workers,
         \/ RouteToReview(w) \/ HandlePartial(w) \/ MarkFailed(w)
         \/ ApprovePayment(w) \/ RefundPayment(w)
  PROVE Moves /\ Works
<1>1. at[w] # "idle" /\ Typed /\ Fits(w)
  BY DEF RouteToReview, HandlePartial, MarkFailed, ApprovePayment, RefundPayment, Sound
<1>2. PICK o \in Orders, p \in Providers : on[w] = <<o, p>>
  BY <1>1, BusyOrder DEF Typed
<1>3. OrderOf(w) = o
  BY <1>2 DEF OrderOf
<1>4. CASE RouteToReview(w)
  <2>1. SetStatus(o, "pending_review") /\ "pending_review" \in Statuses
    BY <1>3, <1>4 DEF RouteToReview, Statuses
  <2>2. \A q \in Orders \ {o} : status'[q] = status[q]
    BY <1>1, <2>1, Restated DEF Typed
  <2>3. o \in flagged /\ UNCHANGED <<ref, credited, pay, flagged>>
    BY <1>1, <1>3, <1>4 DEF RouteToReview, Fits, provider
  <2>4. Move(o)
    BY <2>3 DEF Move, FailedOnChain
  <2> QED
    BY <1>1, <1>4, <2>2, <2>3, <2>4, OneMove, DropWorks DEF RouteToReview
<1>5. CASE HandlePartial(w)
  <2>1. /\ status' = [status EXCEPT ![o] = IF @ = "pending" THEN "pending_review" ELSE @]
        /\ UNCHANGED <<ref, credited, pay, flagged>>
    BY <1>3, <1>5 DEF HandlePartial, provider
  <2>2. \A q \in Orders \ {o} : status'[q] = status[q]
    BY <1>1, <2>1 DEF Typed, RowsOK
  <2>3. Move(o)
    BY <1>1, <2>1 DEF Move, FailedOnChain, Typed, RowsOK, Unpaid, Closed, Statuses
  <2> QED
    BY <1>1, <1>5, <2>1, <2>2, <2>3, OneMove, DropWorks DEF HandlePartial
<1>6. CASE MarkFailed(w)
  <2>1. SetStatus(o, "failed") /\ "failed" \in Statuses
    BY <1>3, <1>6 DEF MarkFailed, Statuses
  <2>2. status'[o] = "failed" /\ \A q \in Orders \ {o} : status'[q] = status[q]
    BY <1>1, <2>1, Restated DEF Typed
  <2>3. /\ ref' = [ref EXCEPT ![o] = "usdt"] /\ UNCHANGED <<credited, pay, flagged>>
        /\ FailedOnChain(o)
    BY <1>1, <1>3, <1>6 DEF MarkFailed, Fits, provider
  <2>4. ref'[o] = "usdt" /\ \A q \in Orders \ {o} : ref'[q] = ref[q]
    BY <1>1, <2>3 DEF Typed, RowsOK
  <2>5. Move(o)
    BY <2>2, <2>3, <2>4 DEF Move, FailedOnChain
  <2> QED
    BY <1>1, <1>6, <2>2, <2>3, <2>4, <2>5, OneMove, DropWorks DEF MarkFailed
<1>7. CASE ApprovePayment(w)
  <2>1. Moves
    BY <1>3, <1>7, ApproveMoves DEF ApprovePayment, ApproveInFull
  <2>2. credited' = [credited EXCEPT ![o] = @ + 1] /\ at' = [at EXCEPT ![w] = "reference"]
        /\ UNCHANGED on
    BY <1>3, <1>7 DEF ApprovePayment, ApproveInFull, Approve
  <2>3. credited[o] \in Nat /\ credited'[o] = credited[o] + 1
    BY <1>1, <2>2 DEF Typed, RowsOK
  <2>4. at'[w] = "reference" /\ \A u \in Workers \ {w} : at'[u] = at[u] /\ on'[u] = on[u]
    BY <1>1, <2>2 DEF Typed, TasksOK
  <2>5. Fits(w)'
    BY <1>2, <2>2, <2>3, <2>4 DEF Fits, OrderOf
  <2> QED
    BY <2>1, <2>2, <2>4, <2>5 DEF Works, Work
<1>8. CASE RefundPayment(w)
  BY <1>1, <1>3, <1>8, RefundMoves, DropWorks DEF RefundPayment
<1> QED
  BY <1>4, <1>5, <1>6, <1>7, <1>8

\* The wallet's own steps touch no order.
LEMMA LedgerSound ==
  ASSUME Sound, LedgerStep \/ UNCHANGED vars
  PROVE Moves /\ Works
<1>1. UNCHANGED orderVars
  BY DEF LedgerStep, vars
<1> QED
  BY <1>1, QuietMoves
     DEF orderVars, orderRows, provider, tasks, FailedOnChain, Works, Work

\* Every step moves orders, and workers, in the allowed ways.
LEMMA Steady ==
  ASSUME Sound, [Next]_vars
  PROVE Moves /\ Works
<1>1. ASSUME NEW o \in Orders, OrderStep(o)
      PROVE Moves /\ Works
  BY <1>1, UserSound, NoticeSound DEF OrderStep
<1>2. ASSUME NEW w \in Workers, NEW o \in Orders, Begin(w, o)
      PROVE Moves /\ Works
  BY <1>2, BeginSound
<1>3. ASSUME NEW w \in Workers, Proceed(w) \/ Crash(w)
      PROVE Moves /\ Works
  BY <1>3, AnswerSound, DecisionSound DEF Proceed
<1> QED
  BY <1>1, <1>2, <1>3, ExpireSound, LedgerSound DEF Next

\* So what is known of orders and workers stays known.
LEMMA SoundNext ==
  ASSUME Sound, [Next]_vars
  PROVE Sound'
<1>1. Typed' /\ Moves /\ Works
  BY TypedNext, Steady DEF Sound
<1>2. ASSUME NEW o \in Orders
      PROVE CreditKnown(o)'
  BY <1>1, MoveKeeps DEF Sound, Moves
<1>3. ASSUME NEW w \in Workers
      PROVE Fits(w)'
  BY <1>1, WorkKeeps DEF Sound, Moves, Works
<1> QED
  BY <1>1, <1>2, <1>3 DEF Sound

\* It is so at first.
LEMMA SoundInit ==
  ASSUME Init
  PROVE Sound
<1>1. \A o \in Orders : CreditKnown(o)
  BY DEF Init, CreditKnown, Closed
<1>2. \A w \in Workers : Fits(w)
  BY DEF Init, Fits
<1> QED
  BY <1>1, <1>2, TypedInit DEF Sound

\* The inductive invariant: types, what statuses say of credits, what workers remember.
THEOREM SoundAlways == Spec => []Sound
BY SoundInit, SoundNext, PTL DEF Spec

\* However many workers handle its payments, an order that none of them took for paid
\* with another amount is credited once at most.
THEOREM CreditIsOnce == Spec => []CreditedOnce
<1>1. Sound => CreditedOnce
  BY DEF Sound, CreditKnown, CreditedOnce
<1> QED
  BY <1>1, SoundAlways, PTL

\* Such an order has been credited exactly when its status says so, unless its payment
\* failed on chain.
THEOREM StatusTellsCredit == Spec => []CreditedMeansPaid
<1>1. Sound => CreditedMeansPaid
  BY DEF Sound, CreditKnown, CreditedMeansPaid, FailedOnChain, Closed
<1> QED
  BY <1>1, SoundAlways, PTL

----------------------------------------------------------------------------
(* The rows behind the wallet: what is known of them *)

\* What a row still holds of the credits in the wallet; that is what can expire.
Left == [r \in Rows |-> IF r \in Open THEN worth[r] ELSE 0]

\* A row beyond the credits an order was given has not been written, and what a sweep has
\* listed has expired.
Written ==
  /\ \A r \in Rows : r[3] > credited[r[1]] => row[r] = "none" /\ worth[r] = 0
  /\ \A r \in listed : r[3] <= credited[r[1]] /\ row[r] \in {"lapsed", "gone"}

\* The rows of an order that was credited once hold no more than the order says.
Part(r) == IF r[2] = "recharge" THEN credits[r[1]][1] ELSE credits[r[1]][2]
Matched == \A r \in Rows : credited[r[1]] <= 1 => worth[r] <= Part(r)

\* A paid order was credited.
Counted == \A o \in Orders : credited[o] <= MaxCredits /\ (status[o] = "paid" => credited[o] > 0)

\* A refund event asks for the whole of an order that was credited once and not halved.
Whole(o) == credited[o] <= 1 /\ back[o] # "halved"
Asked(w) ==
  at[w] = "refund" =>
    credited[on[w][1]] > 0 /\ (Whole(on[w][1]) => due[w] = Total(on[w][1]))

Rowed == Written /\ Matched /\ Counted /\ \A w \in Workers : Asked(w)

\* The credits that no row stands for, in terms of what is left; and what a step may do to
\* them.
Loose == balance + held - renewed - Sum(Left, Rows)
Backs == Calm' => Loose' <= Loose \/ Loose' <= 0 \/ (balance' = 0 /\ held' > 0)

\* There are finitely many rows.
LEMMA RowsFinite == IsFiniteSet(Rows)
<1> DEFINE D == (Orders \X {"recharge", "bonus"}) \X (1..MaxCredits)
           f == [p \in D |-> <<p[1][1], p[1][2], p[2]>>]
<1>1. IsFiniteSet(Orders) /\ IsFiniteSet({"recharge", "bonus"}) /\ IsFiniteSet(1..MaxCredits)
  <2>1. IsFiniteSet({"recharge"} \union {"bonus"})
    BY FS_Singleton, FS_Union
  <2>2. {"recharge", "bonus"} = {"recharge"} \union {"bonus"}
    OBVIOUS
  <2>3. IsFiniteSet(1..MaxCredits)
    BY FS_Interval DEF LedgerAssumption
  <2> QED
    BY <2>1, <2>2, <2>3 DEF LedgerAssumption
<1>2. IsFiniteSet(Orders \X {"recharge", "bonus"})
  BY <1>1, FS_Product
<1>3. IsFiniteSet(D)
  BY <1>1, <1>2, FS_Product
<1>4. f \in Surjection(D, Rows)
  <2>1. f \in [D -> Rows]
    BY DEF Rows
  <2>2. ASSUME NEW r \in Rows
        PROVE \E p \in D : f[p] = r
    <3>1. PICK o \in Orders, k \in {"recharge", "bonus"}, n \in 1..MaxCredits : r = <<o, k, n>>
      BY DEF Rows
    <3>2. <<<<o, k>>, n>> \in D /\ f[<<<<o, k>>, n>>] = r
      BY <3>1
    <3> QED
      BY <3>2
  <2> QED
    BY <2>1, <2>2 DEF Surjection
<1> QED
  BY <1>3, <1>4, FS_Surjection

\* A row has an order, a kind and a number.
LEMMA RowParts ==
  ASSUME NEW r \in Rows
  PROVE r[1] \in Orders /\ r[2] \in {"recharge", "bonus"} /\ r[3] \in 1..MaxCredits /\ r[3] \in Nat
BY DEF Rows

\* What is left in rows is a number of credits.
LEMMA LeftTyped ==
  ASSUME LedgerTypeOK
  PROVE /\ Left \in [Rows -> Nat] /\ Left \in [Rows -> Int]
        /\ Sum(Left, Rows) \in Nat /\ balance \in Nat /\ held \in Nat /\ renewed \in Nat
<1>1. \A r \in Rows : Left[r] \in Nat
  BY DEF LedgerTypeOK, Left
<1>2. Left \in [Rows -> Nat] /\ Left \in [Rows -> Int]
  BY <1>1 DEF Left
<1>3. Sum(Left, Rows) \in Nat
  BY <1>1, RowsFinite, SumNat
<1> QED
  BY <1>2, <1>3 DEF LedgerTypeOK

\* Also after a step.
LEMMA LeftTypedNext ==
  ASSUME LedgerTypeOK'
  PROVE /\ Left' \in [Rows -> Nat] /\ Sum(Left', Rows) \in Nat
        /\ balance' \in Nat /\ held' \in Nat /\ renewed' \in Nat
<1>1. \A r \in Rows : Left'[r] \in Nat
  BY DEF LedgerTypeOK, Left
<1>2. Left' \in [Rows -> Nat]
  BY <1>1 DEF Left
<1>3. Sum(Left', Rows) \in Nat
  BY <1>1, RowsFinite, SumNat
<1> QED
  BY <1>2, <1>3 DEF LedgerTypeOK

\* A sum over the rows that can expire is a sum over all, of what is left in them.
LEMMA LeftSums ==
  ASSUME NEW f, NEW S \in SUBSET Rows, NEW g, \A r \in Rows : g[r] \in Nat,
         \A r \in S : g[r] = f[r], \A r \in Rows \ S : g[r] = 0
  PROVE Sum(f, S) = Sum(g, Rows)
<1>1. IsFiniteSet(S) /\ IsFiniteSet(Rows \ S)
  BY RowsFinite, FS_Subset
<1>2. \A r \in Rows : g[r] \in Int
  OBVIOUS
<1>3. Sum(g, Rows) = Sum(g, S) + Sum(g, Rows \ S)
  BY <1>2, RowsFinite, SumSplit
<1>4. Sum(g, Rows \ S) = 0
  BY <1>1, SumZero
<1>5. Sum(g, S) = Sum(f, S)
  BY <1>1, SumSame
<1>6. Sum(g, S) \in Int
  BY <1>1, <1>2, SumInt
<1> QED
  BY <1>3, <1>4, <1>5, <1>6

\* So it is what backs the wallet, with the rows of returned reserves.
LEMMA LeftBacks ==
  ASSUME LedgerTypeOK
  PROVE Unbacked = Loose
<1>1. Open \in SUBSET Rows
  BY DEF Open
<1>2. /\ \A r \in Open : Left[r] = worth[r]
      /\ \A r \in Rows \ Open : Left[r] = 0
  BY <1>1 DEF Left
<1>3. Sum(worth, Open) = Sum(Left, Rows)
  BY <1>1, <1>2, LeftTyped, LeftSums
<1> QED
  BY <1>3, LeftTyped DEF Backing, Unbacked, Loose

\* Also after a step.
LEMMA LeftBacksNext ==
  ASSUME LedgerTypeOK'
  PROVE Unbacked' = Loose'
<1>1. Open' \in SUBSET Rows
  BY DEF Open
<1>2. /\ \A r \in Open' : Left'[r] = worth'[r]
      /\ \A r \in Rows \ Open' : Left'[r] = 0
  BY <1>1 DEF Left
<1>3. Sum(worth', Open') = Sum(Left', Rows)
  BY <1>1, <1>2, LeftTypedNext, LeftSums
<1> QED
  BY <1>3, LeftTypedNext DEF Backing, Unbacked, Loose

\* What leaves the rows, the wallet and the reserves alone.
LEMMA SameLoose ==
  ASSUME Typed, UNCHANGED <<balance, held, renewed>>, Left' = Left
  PROVE Backs
<1>1. Loose' = Loose /\ Loose \in Int
  BY LeftTyped DEF Typed, Loose
<1> QED
  BY <1>1 DEF Backs

\* A sweep and its clock.
LEMMA SweepRowed ==
  ASSUME Typed, Typed', Rowed, UNCHANGED <<credited, worth, held, renewed>>,
         \/ \E r \in Rows : Lapse(r) \/ SweepRow(r)
         \/ ListExpired \/ SweepDies
  PROVE Written' /\ Backs
<1>3. /\ Left \in [Rows -> Nat] /\ Left \in [Rows -> Int]
      /\ Sum(Left, Rows) \in Nat /\ balance \in Nat /\ held \in Nat /\ renewed \in Nat
  BY LeftTyped DEF Typed
<1>4. Sum(Left', Rows) \in Nat /\ balance' \in Nat
  BY LeftTypedNext DEF Typed
<1>7. ASSUME NEW r \in Rows, Lapse(r)
      PROVE Written' /\ Backs
  <2>1. row[r] = "live" /\ row' = [row EXCEPT ![r] = "lapsed"] /\ UNCHANGED <<balance, listed>>
    BY <1>7 DEF Lapse
  <2>2. Written'
    BY <2>1 DEF Rowed, Written, Typed, LedgerTypeOK
  <2>3. \A q \in Rows : q \in Open <=> q \in Open'
    BY <2>1 DEF Open, Typed, LedgerTypeOK
  <2>4. Left' = Left
    BY <2>3 DEF Left
  <2> QED
    BY <2>1, <2>2, <2>4, SameLoose
<1>8. ASSUME NEW r \in Rows, SweepRow(r)
      PROVE Written' /\ Backs
  <2>1. /\ r \in listed /\ balance' = balance - Lesser(worth[r], balance)
        /\ row' = [row EXCEPT ![r] = "gone"] /\ listed' = listed \ {r}
    BY <1>8 DEF SweepRow
  <2>2. Written'
    <3>1. r[3] <= credited[r[1]] /\ r[3] \in Nat /\ credited[r[1]] \in Nat
      BY <2>1, RowParts DEF Rowed, Written, Typed, RowsOK
    <3>2. ~(r[3] > credited[r[1]])
      BY <3>1
    <3>3. \A q \in Rows \ {r} : row'[q] = row[q]
      BY <2>1 DEF Typed, LedgerTypeOK
    <3> QED
      BY <2>1, <3>2, <3>3 DEF Rowed, Written, Typed, LedgerTypeOK
  <2>3. worth[r] \in Nat /\ Left[r] \in Nat /\ Left[r] <= worth[r]
    BY DEF Left, Typed, LedgerTypeOK
  <2>4. Left' = [Left EXCEPT ![r] = 0]
    <3>1. \A q \in Rows : q \in Open' <=> q \in Open /\ q # r
      BY <2>1 DEF Open, Typed, LedgerTypeOK
    <3> QED
      BY <3>1 DEF Left
  <2> DEFINE c == -Left[r]
  <2>5. c \in Int /\ Left[r] + c = 0
    BY <2>3
  <2>6. Sum(Left', Rows) = Sum(Left, Rows) + c
    <3>1. Left' = [Left EXCEPT ![r] = Left[r] + c]
      BY <2>4, <2>5, Zenon
    <3> HIDE DEF c
    <3> QED
      BY ONLY <1>3, <2>5, <3>1, r \in Rows, RowsFinite, SumPlus, ZenonT(60)
  <2>7. balance' = balance - worth[r] \/ balance' = 0
    BY <1>3, <2>1, <2>3 DEF Lesser
  <2>8. Sum(Left', Rows) = Sum(Left, Rows) - Left[r]
    BY <1>3, <2>3, <2>6
  <2>9. Loose' <= Loose \/ Loose' <= 0 \/ (balance' = 0 /\ held' > 0)
    <3>1. CASE balance' = balance - worth[r]
      BY <1>3, <1>4, <2>3, <2>8, <3>1 DEF Loose
    <3>2. CASE balance' = 0 /\ held = 0
      BY <1>3, <1>4, <3>2 DEF Loose
    <3>3. CASE balance' = 0 /\ held # 0
      BY <1>3, <3>3
    <3> QED
      BY <2>7, <3>1, <3>2, <3>3
  <2> QED
    BY <2>2, <2>9 DEF Backs
<1>9. ASSUME ListExpired
      PROVE Written' /\ Backs
  <2>1. /\ listed' = {r \in Rows : row[r] = "lapsed"} /\ UNCHANGED <<balance, row>>
    BY <1>9 DEF ListExpired
  <2>2. \A r \in Rows : row[r] = "lapsed" => r[3] <= credited[r[1]]
    <3>1. ASSUME NEW r \in Rows, row[r] = "lapsed"
          PROVE r[3] <= credited[r[1]]
      <4>1. ~(r[3] > credited[r[1]])
        BY <3>1 DEF Rowed, Written
      <4>2. r[3] \in Nat /\ credited[r[1]] \in Nat
        BY RowParts DEF Typed, RowsOK
      <4> QED
        BY <4>1, <4>2
    <3> QED
      BY <3>1
  <2>3. Written'
    BY <2>1, <2>2 DEF Rowed, Written
  <2>4. Left' = Left
    BY <2>1 DEF Left, Open
  <2> QED
    BY <2>1, <2>3, <2>4, SameLoose
<1>10. ASSUME SweepDies
       PROVE Written' /\ Backs
  <2>1. listed' = {} /\ UNCHANGED <<balance, row>>
    BY <1>10 DEF SweepDies
  <2>2. Left' = Left
    BY <2>1 DEF Left, Open
  <2>3. Written'
    BY <2>1 DEF Rowed, Written
  <2> QED
    BY <2>1, <2>2, <2>3, SameLoose
<1> QED
  BY <1>7, <1>8, <1>9, <1>10

\* Usage: what leaves the wallet is in flight, or spent; and what comes back was in flight.
LEMMA UsageRowed ==
  ASSUME Typed, Typed', Rowed, UNCHANGED <<credited, worth>>,
         \/ \E c \in Spendings : Spend(c) \/ Reserve(c) \/ SweepRenewed(c)
         \/ \E c \in Spendings : \E part \in 0..c : ReturnReserve(c, part)
  PROVE Written' /\ Backs
<1>1. UNCHANGED <<row, listed>>
  BY DEF Spend, Reserve, SweepRenewed, ReturnReserve
<1>2. Written'
  BY <1>1 DEF Rowed, Written
<1>3. Left' = Left
  BY <1>1 DEF Left, Open
<1>4. Sum(Left, Rows) \in Nat /\ balance \in Nat /\ held \in Nat /\ renewed \in Nat
  BY LeftTyped DEF Typed
<1>5. balance' \in Nat /\ held' \in Nat /\ renewed' \in Nat
  BY LeftTypedNext DEF Typed
<1>6. ASSUME NEW c \in Spendings, Spend(c) \/ Reserve(c)
      PROVE Loose' <= Loose
  <2>1. c \in Nat /\ balance' = balance - c /\ renewed' = renewed
        /\ (held' = held \/ held' = held + c)
    BY <1>6 DEF Spend, Reserve, flight
  <2> QED
    BY <1>3, <1>4, <2>1 DEF Loose
<1>7. ASSUME NEW c \in Spendings, SweepRenewed(c)
      PROVE Loose' <= Loose \/ Loose' <= 0 \/ (balance' = 0 /\ held' > 0)
  <2>1. /\ c \in Nat /\ renewed' = renewed - c /\ held' = held
        /\ balance' = balance - c \/ balance' = 0
    BY <1>4, <1>7 DEF SweepRenewed, Lesser
  <2>2. CASE balance' = balance - c
    BY <1>3, <1>4, <2>1, <2>2 DEF Loose
  <2>3. CASE balance' = 0 /\ held = 0
    BY <1>3, <1>4, <1>5, <2>1, <2>3 DEF Loose
  <2>4. CASE balance' = 0 /\ held # 0
    BY <1>4, <2>1, <2>4
  <2> QED
    BY <2>1, <2>2, <2>3, <2>4
<1>8. ASSUME NEW c \in Spendings, NEW part \in 0..c, ReturnReserve(c, part)
      PROVE Loose' <= Loose
  <2>1. /\ c \in Nat /\ part \in Nat /\ part <= c /\ held' = held - c /\ balance' = balance + part
        /\ renewed' = renewed \/ renewed' = renewed + part
    BY <1>8 DEF ReturnReserve
  <2> QED
    BY <1>3, <1>4, <2>1 DEF Loose
<1> QED
  BY <1>2, <1>6, <1>7, <1>8 DEF Backs

\* The wallet's own steps.
LEMMA LedgerRowed ==
  ASSUME Typed, Typed', Rowed, LedgerStep
  PROVE Rowed' /\ Backs
<1>1. UNCHANGED <<credits, credited, status, back, at, on, due>>
  BY DEF LedgerStep, orderVars, orderRows, provider, tasks
<1>2. Counted' /\ \A w \in Workers : Asked(w)'
  BY <1>1 DEF Rowed, Counted, Whole, Asked, Total
<1>3. UNCHANGED worth
  BY DEF LedgerStep, Lapse, SweepRow, ListExpired, SweepDies, Spend, Reserve, SweepRenewed,
         ReturnReserve
<1>4. Matched'
  BY <1>1, <1>3 DEF Rowed, Matched, Part
<1>5. ASSUME \/ \E r \in Rows : Lapse(r) \/ SweepRow(r)
             \/ ListExpired \/ SweepDies
      PROVE Written' /\ Backs
  <2>1. UNCHANGED <<held, renewed>>
    BY <1>5 DEF Lapse, SweepRow, ListExpired, SweepDies, flight
  <2> QED
    BY <1>1, <1>3, <1>5, <2>1, SweepRowed
<1>6. Written' /\ Backs
  BY <1>1, <1>3, <1>5, UsageRowed DEF LedgerStep
<1> QED
  BY <1>2, <1>4, <1>6 DEF Rowed

\* No worker takes up a refund.
AsksNoMore(w) == at'[w] = "refund" => UNCHANGED <<at[w], on[w], due[w]>>

\* Rows that an order was not given yet hold nothing.
LEMMA Unwritten ==
  ASSUME Typed, Written, NEW r \in Rows, r[3] > credited[r[1]]
  PROVE row[r] = "none" /\ worth[r] = 0 /\ Left[r] = 0
BY DEF Written, Left, Open

\* The next row of an order.
NextRow(o, kind) == <<o, kind, credited[o] + 1>>

\* What a credit writes.
LEMMA GrantWrites ==
  ASSUME Typed, Written, NEW o \in Orders, NEW base \in Nat, NEW bonus \in Nat,
         credited[o] < MaxCredits, Grant(o, credited[o] + 1, base, bonus),
         NEW r1, r1 = NextRow(o, "recharge"), NEW r2, r2 = NextRow(o, "bonus")
  PROVE /\ r1 \in Rows /\ r2 \in Rows /\ r1 # r2
        /\ worth'[r1] = base /\ Left[r1] = 0 /\ Left'[r1] = base
        /\ worth'[r2] = bonus /\ Left[r2] = 0 /\ Left'[r2] = bonus
        /\ \A r \in Rows \ {r1, r2} :
             row'[r] = row[r] /\ worth'[r] = worth[r] /\ Left'[r] = Left[r]
        /\ balance' = balance + base + bonus /\ UNCHANGED <<listed, held, renewed>>
<1> DEFINE n == credited[o] + 1
           part == [r \in Rows |-> CASE r = <<o, "recharge", n>> -> base
                                     [] r = <<o, "bonus", n>> -> bonus
                                     [] OTHER -> 0]
<1>1. n \in 1..MaxCredits /\ n > credited[o] /\ credited[o] \in Nat /\ MaxCredits \in Nat
  BY DEF Typed, RowsOK, LedgerAssumption
<1>2. r1 \in Rows /\ r2 \in Rows /\ r1 # r2
  BY <1>1 DEF Rows, NextRow
<1>3. part[r1] = base /\ part[r2] = bonus /\ \A r \in Rows \ {r1, r2} : part[r] = 0
  BY <1>2 DEF NextRow
<1>4. /\ row' = [r \in Rows |-> IF part[r] > 0 THEN "live" ELSE row[r]]
      /\ worth' = [r \in Rows |-> IF part[r] > 0 THEN part[r] ELSE worth[r]]
      /\ balance' = balance + base + bonus /\ UNCHANGED <<listed, held, renewed>>
  BY DEF Grant, flight
<1>5. /\ row[r1] = "none" /\ worth[r1] = 0 /\ Left[r1] = 0
      /\ row[r2] = "none" /\ worth[r2] = 0 /\ Left[r2] = 0
  BY <1>1, <1>2, Unwritten DEF NextRow
<1> HIDE DEF part, n
<1>6. /\ row'[r1] = IF base > 0 THEN "live" ELSE "none"
      /\ row'[r2] = IF bonus > 0 THEN "live" ELSE "none"
      /\ worth'[r1] = base /\ worth'[r2] = bonus
  BY <1>2, <1>3, <1>4, <1>5
<1>7. \A r \in Rows \ {r1, r2} : row'[r] = row[r] /\ worth'[r] = worth[r]
  BY <1>3, <1>4
<1>8. Left'[r1] = base /\ Left'[r2] = bonus
  BY <1>2, <1>6 DEF Left, Open
<1>9. \A r \in Rows \ {r1, r2} : Left'[r] = Left[r]
  BY <1>7 DEF Left, Open
<1> QED
  BY <1>2, <1>4, <1>5, <1>6, <1>7, <1>8, <1>9

\* A credit adds to the rows what it adds to the wallet.
LEMMA GrantAdds ==
  ASSUME Typed, Typed', Written, NEW o \in Orders, NEW base \in Nat, NEW bonus \in Nat,
         credited[o] < MaxCredits, Grant(o, credited[o] + 1, base, bonus)
  PROVE Sum(Left', Rows) = Sum(Left, Rows) + base + bonus
<1>0. PICK r1, r2 : r1 = NextRow(o, "recharge") /\ r2 = NextRow(o, "bonus")
  OBVIOUS
<1>1. /\ r1 \in Rows /\ r2 \in Rows /\ r1 # r2
      /\ Left[r1] = 0 /\ Left'[r1] = base /\ Left[r2] = 0 /\ Left'[r2] = bonus
      /\ \A r \in Rows \ {r1, r2} : Left'[r] = Left[r]
  BY <1>0, GrantWrites
<1>2. Left \in [Rows -> Int] /\ Sum(Left, Rows) \in Nat
  BY LeftTyped DEF Typed
<1>3. Left' \in [Rows -> Int]
  BY LeftTypedNext DEF Typed
<1>4. Sum(Left', Rows) = Sum(Left, Rows) + (Left'[r1] - Left[r1]) + (Left'[r2] - Left[r2])
  BY ONLY <1>1, <1>2, <1>3, RowsFinite, SumTwo
<1> QED
  BY <1>1, <1>2, <1>4

\* An approval, in full or with another amount.
LEMMA ApproveRowed ==
  ASSUME Typed, Typed', Rowed, NEW o \in Orders, NEW base \in Nat, NEW bonus \in Nat,
         Approve(o, base, bonus), UNCHANGED back, \A w \in Workers : AsksNoMore(w)
  PROVE Rowed' /\ Backs
<1>0. PICK r1, r2 : r1 = NextRow(o, "recharge") /\ r2 = NextRow(o, "bonus")
  OBVIOUS
<1>1. /\ credited[o] \in Nat /\ credited[o] < MaxCredits /\ MaxCredits \in Nat
      /\ Grant(o, credited[o] + 1, base, bonus)
  BY DEF Approve, Approvable, Typed, RowsOK, LedgerAssumption
<1>2. /\ credited'[o] = credited[o] + 1 /\ credits'[o] = <<base, bonus>>
      /\ \A q \in Orders \ {o} : /\ credited'[q] = credited[q] /\ credits'[q] = credits[q]
                                 /\ status'[q] = status[q]
  BY DEF Approve, SetStatus, Typed, RowsOK
<1>3. Counted'
  <2>1. credited'[o] <= MaxCredits /\ credited'[o] > 0
    BY <1>1, <1>2
  <2> QED
    BY <1>2, <2>1 DEF Rowed, Counted
<1>4. /\ r1 \in Rows /\ r2 \in Rows /\ worth'[r1] = base /\ worth'[r2] = bonus
      /\ \A r \in Rows \ {r1, r2} : row'[r] = row[r] /\ worth'[r] = worth[r]
      /\ balance' = balance + base + bonus /\ UNCHANGED <<listed, held, renewed>>
  BY <1>0, <1>1, GrantWrites DEF Rowed
<1>5. \A q \in Orders : credited[q] \in Nat /\ credited'[q] \in Nat /\ credited[q] <= credited'[q]
  BY <1>1, <1>2 DEF Typed, RowsOK
<1>6. Written'
  <2>1. ASSUME NEW r \in Rows, r[3] > credited'[r[1]]
        PROVE row'[r] = "none" /\ worth'[r] = 0
    <3>1. r[1] \in Orders /\ r[3] \in Nat /\ r[3] > credited[r[1]]
      BY <1>5, <2>1, RowParts
    <3>2. r # r1 /\ r # r2
      BY <1>0, <1>1, <1>2, <2>1 DEF NextRow
    <3> QED
      BY <1>4, <3>1, <3>2, Unwritten DEF Rowed
  <2>2. ASSUME NEW r \in listed
        PROVE r[3] <= credited'[r[1]] /\ row'[r] \in {"lapsed", "gone"}
    <3>1. r \in Rows /\ r[3] <= credited[r[1]] /\ row[r] \in {"lapsed", "gone"}
      BY DEF Rowed, Written, Typed, LedgerTypeOK
    <3>2. r # r1 /\ r # r2
      BY <1>0, <1>1, <3>1 DEF NextRow
    <3> QED
      BY <1>4, <1>5, <3>1, <3>2, RowParts
  <2> QED
    BY <1>4, <2>1, <2>2 DEF Written
<1>7. Matched'
  <2>1. ASSUME NEW r \in Rows, credited'[r[1]] <= 1
        PROVE worth'[r] <= Part(r)'
    <3>1. CASE r[1] # o
      <4>1. r # r1 /\ r # r2 /\ r[1] \in Orders \ {o}
        BY <1>0, <3>1, RowParts DEF NextRow
      <4> QED
        BY <1>2, <1>4, <2>1, <4>1 DEF Rowed, Matched, Part
    <3>2. CASE r = r1
      BY <1>0, <1>2, <1>4, <3>2 DEF Part, NextRow
    <3>3. CASE r = r2
      BY <1>0, <1>2, <1>4, <3>3 DEF Part, NextRow
    <3>4. CASE r[1] = o /\ r # r1 /\ r # r2
      <4>1. credited[o] = 0
        BY <1>1, <1>2, <2>1, <3>4
      <4>2. r[3] > credited[r[1]]
        BY <1>0, <3>4, <4>1, RowParts DEF NextRow
      <4>3. worth'[r] = 0
        BY <1>4, <3>4, <4>2, Unwritten DEF Rowed
      <4>4. Part(r)' \in Nat
        BY <1>2, <3>4 DEF Part
      <4> QED
        BY <4>3, <4>4
    <3> QED
      BY <3>1, <3>2, <3>3, <3>4
  <2> QED
    BY <2>1 DEF Matched
<1>8. ASSUME NEW w \in Workers
      PROVE Asked(w)'
  <2>1. ASSUME at'[w] = "refund"
        PROVE credited'[on'[w][1]] > 0 /\ (Whole(on[w][1])' => due'[w] = Total(on[w][1])')
    <3>1. at[w] = "refund" /\ on'[w] = on[w] /\ due'[w] = due[w]
      BY <2>1 DEF AsksNoMore
    <3>2. PICK q \in Orders : q = on[w][1]
      BY <3>1 DEF Typed, TasksOK
    <3>3. credited[q] > 0 /\ (Whole(q) => due[w] = Total(q))
      BY <3>1, <3>2 DEF Rowed, Asked
    <3>4. credited'[q] > 0
      BY <1>5, <3>3
    <3>5. Whole(q)' => q # o
      BY <1>1, <1>2, <3>3 DEF Whole
    <3>6. q # o => (Whole(q)' => Whole(q)) /\ Total(q)' = Total(q)
      BY <1>2 DEF Whole, Total
    <3> QED
      BY <3>1, <3>2, <3>3, <3>4, <3>5, <3>6
  <2> QED
    BY <2>1 DEF Asked
<1>9. Backs
  <2>1. Sum(Left', Rows) = Sum(Left, Rows) + base + bonus
    BY <1>1, GrantAdds DEF Rowed
  <2>2. Sum(Left, Rows) \in Nat /\ balance \in Nat /\ held \in Nat /\ renewed \in Nat
    BY LeftTyped DEF Typed
  <2>3. Loose' <= Loose
    BY <1>4, <2>1, <2>2 DEF Loose
  <2> QED
    BY <2>3 DEF Backs
<1> QED
  BY <1>3, <1>6, <1>7, <1>8, <1>9 DEF Rowed

\* A refund event still asks for the whole.
LEMMA AskKept ==
  ASSUME Typed, NEW w \in Workers, Asked(w), AsksNoMore(w), UNCHANGED <<credits, credited>>,
         \A o \in Orders : Whole(o)' => Whole(o)
  PROVE Asked(w)'
<1>1. SUFFICES ASSUME at'[w] = "refund"
               PROVE /\ credited[on'[w][1]] > 0
                     /\ Whole(on[w][1])' => due'[w] = Total(on[w][1])'
  BY DEF Asked
<1>2. at[w] = "refund" /\ on'[w] = on[w] /\ due'[w] = due[w]
  BY <1>1 DEF AsksNoMore
<1>3. PICK q \in Orders : q = on[w][1]
  BY <1>2 DEF Typed, TasksOK
<1>4. credited[q] > 0 /\ (Whole(q) => due[w] = Total(q)) /\ Total(q)' = Total(q)
  BY <1>2, <1>3 DEF Asked, Total
<1> QED
  BY <1>2, <1>3, <1>4

\* A refund marks rows, and leaves alone those that hold nothing.
LEMMA TakeBackMarks ==
  ASSUME Typed, NEW o, NEW target, TakeBack(o, target)
  PROVE /\ balance' = balance - Lesser(target, balance)
        /\ UNCHANGED <<worth, listed, held, renewed>>
        /\ \A r \in Rows : /\ row[r] = "none" => row'[r] = "none"
                           /\ r[1] # o => row'[r] = row[r]
                           /\ row'[r] = row[r] \/ row'[r] = "gone"
<1>1. Covering(o, Lesser(target, balance)) \subseteq Reversible(o)
  BY DEF Covering
<1>2. /\ balance' = balance - Lesser(target, balance)
      /\ UNCHANGED <<worth, listed, held, renewed>>
      /\ row' = [r \in Rows |-> IF r \in Covering(o, Lesser(target, balance))
                                THEN "gone" ELSE row[r]]
  BY DEF TakeBack, flight
<1>3. \A r \in Reversible(o) : r[1] = o /\ row[r] # "none"
  BY DEF Reversible
<1> QED
  BY <1>1, <1>2, <1>3

\* The rows of an order that was credited once lose no more than the order says.
LEMMA TakeBackLoses ==
  ASSUME Typed, Typed', Rowed, NEW o \in Orders, NEW target, TakeBack(o, target),
         credited[o] = 1
  PROVE Sum(Left', Rows) >= Sum(Left, Rows) - Total(o)
<1>0. PICK r1, r2 : r1 = <<o, "recharge", 1>> /\ r2 = <<o, "bonus", 1>>
  OBVIOUS
<1>1. r1 \in Rows /\ r2 \in Rows /\ r1 # r2
  BY <1>0 DEF Rowed, Counted, Rows, LedgerAssumption
<1>2. /\ \A r \in Rows : /\ row[r] = "none" => row'[r] = "none"
                         /\ r[1] # o => row'[r] = row[r]
      /\ UNCHANGED worth
  BY TakeBackMarks
<1>3. \A r \in Rows \ {r1, r2} : Left'[r] = Left[r]
  <2>1. ASSUME NEW r \in Rows \ {r1, r2}
        PROVE Left'[r] = Left[r]
    <3>1. CASE r[1] # o
      BY <1>2, <3>1 DEF Left, Open
    <3>2. CASE r[1] = o
      <4>1. r[3] > credited[r[1]]
        BY <1>0, <3>2, RowParts DEF Rows
      <4>2. row[r] = "none" /\ row'[r] = "none"
        BY <1>2, <4>1, Unwritten DEF Rowed
      <4> QED
        BY <4>2 DEF Left, Open
    <3> QED
      BY <3>1, <3>2
  <2> QED
    BY <2>1
<1>4. Left \in [Rows -> Int] /\ Left \in [Rows -> Nat] /\ Sum(Left, Rows) \in Nat
  BY LeftTyped DEF Typed
<1>5. Left' \in [Rows -> Int] /\ Left' \in [Rows -> Nat]
  BY LeftTypedNext DEF Typed
<1>6. Sum(Left', Rows) = Sum(Left, Rows) + (Left'[r1] - Left[r1]) + (Left'[r2] - Left[r2])
  BY ONLY <1>1, <1>3, <1>4, <1>5, RowsFinite, SumTwo
<1>7. credits[o][1] \in Nat /\ credits[o][2] \in Nat /\ Total(o) = credits[o][1] + credits[o][2]
  BY DEF Typed, RowsOK, Total
<1>8. Left[r1] <= credits[o][1] /\ Left[r2] <= credits[o][2]
  <2>1. worth[r1] <= credits[o][1] /\ worth[r2] <= credits[o][2]
    BY <1>0, <1>1 DEF Rowed, Matched, Part
  <2> QED
    BY <1>1, <1>7, <2>1 DEF Left
<1>9. Left[r1] \in Nat /\ Left[r2] \in Nat /\ Left'[r1] \in Nat /\ Left'[r2] \in Nat
  BY <1>1, <1>4, <1>5
<1> QED
  BY ONLY <1>4, <1>6, <1>7, <1>8, <1>9

\* A refund.
LEMMA RefundRowed ==
  ASSUME Typed, Typed', Rowed, NEW o \in Orders, NEW target \in Nat, Refund(o, target),
         Whole(o) => target = Total(o),
         UNCHANGED back, \A w \in Workers : AsksNoMore(w)
  PROVE Rowed' /\ Backs
<1>1. /\ TakeBack(o, Lesser(target, Total(o))) /\ UNCHANGED <<credits, credited, back>>
      /\ status[o] = "paid" /\ credited[o] > 0 /\ credited[o] \in Nat
      /\ \A q \in Orders : status'[q] = "paid" => status[q] = "paid"
  BY DEF Refund, SetStatus, Rowed, Counted, Typed, RowsOK
<1>2. \A q \in Orders : Whole(q)' = Whole(q)
  BY <1>1 DEF Whole
<1>3. \A w \in Workers : Asked(w)'
  BY <1>1, <1>2, AskKept DEF Rowed
<1>4. /\ UNCHANGED <<worth, listed, held, renewed>>
      /\ \A r \in Rows : /\ row[r] = "none" => row'[r] = "none"
                         /\ row'[r] = row[r] \/ row'[r] = "gone"
      /\ balance' = balance - Lesser(Lesser(target, Total(o)), balance)
  BY <1>1, TakeBackMarks
<1>5. Written' /\ Matched' /\ Counted'
  BY <1>1, <1>4 DEF Rowed, Written, Matched, Part, Counted, Typed, LedgerTypeOK
<1>6. ASSUME Calm'
      PROVE Loose' <= Loose \/ Loose' <= 0 \/ (balance' = 0 /\ held' > 0)
  <2>1. Whole(o) /\ credited[o] = 1
    BY <1>1, <1>2, <1>6 DEF Calm, Whole
  <2>2. Total(o) \in Nat
    BY DEF Typed, RowsOK, Total
  <2>3. Lesser(target, Total(o)) = Total(o)
    BY <2>1, <2>2 DEF Lesser
  <2>4. /\ balance \in Nat /\ Sum(Left, Rows) \in Nat /\ Sum(Left', Rows) \in Nat
        /\ held \in Nat /\ renewed \in Nat
    BY LeftTyped, LeftTypedNext DEF Typed
  <2>5. balance' = balance - Total(o) \/ balance' = 0
    BY <1>4, <2>2, <2>3, <2>4 DEF Lesser
  <2>6. Sum(Left', Rows) >= Sum(Left, Rows) - Total(o)
    BY <1>1, <2>1, TakeBackLoses
  <2>7. CASE balance' = balance - Total(o)
    BY <1>4, <2>2, <2>4, <2>6, <2>7 DEF Loose
  <2>8. CASE balance' = 0 /\ held = 0
    BY <1>4, <2>4, <2>8 DEF Loose
  <2>9. CASE balance' = 0 /\ held # 0
    BY <1>4, <2>4, <2>9
  <2> QED
    BY <2>5, <2>7, <2>8, <2>9
<1> QED
  BY <1>3, <1>5, <1>6 DEF Rowed, Backs

\* What leaves wallets and credits alone.
LEMMA QuietRowed ==
  ASSUME Typed, Rowed, UNCHANGED <<ledgerVars, credits, credited>>,
         \A o \in Orders : /\ back[o] = "halved" => back'[o] = "halved"
                           /\ status'[o] = "paid" => status[o] = "paid",
         \A w \in Workers : AsksNoMore(w) \/ Asked(w)'
  PROVE Rowed' /\ Backs
<1>1. \A o \in Orders : Whole(o)' => Whole(o)
  BY DEF Whole
<1>2. \A w \in Workers : Asked(w)'
  BY <1>1, AskKept DEF Rowed
<1>3. UNCHANGED <<balance, row, worth, listed, held, renewed>>
  BY DEF ledgerVars, flight
<1>4. Written' /\ Matched' /\ Counted'
  BY <1>3 DEF Rowed, Written, Matched, Part, Counted
<1>5. Left' = Left
  BY <1>3 DEF Left, Open
<1>6. Backs
  BY <1>3, <1>5, SameLoose
<1> QED
  BY <1>2, <1>4, <1>6 DEF Rowed

\* A status other than paid makes no order paid.
LEMMA NotPaid ==
  ASSUME Typed, NEW o, NEW s, s # "paid", SetStatus(o, s)
  PROVE \A q \in Orders : status'[q] = "paid" => status[q] = "paid"
BY DEF SetStatus, Typed, RowsOK

\* A worker that drops its task, or takes up another, asks for no refund.
LEMMA DropAsks ==
  ASSUME Typed, NEW w \in Workers, Drop(w)
  PROVE \A v \in Workers : AsksNoMore(v)
BY DEF Typed, TasksOK, Drop, AsksNoMore

\* Nor does a worker that takes up anything but a refund.
LEMMA TakeAsks ==
  ASSUME Typed, NEW w \in Workers, NEW s, s # "refund", NEW x, Take(w, s, x)
  PROVE \A v \in Workers : AsksNoMore(v)
BY DEF Typed, TasksOK, Take, AsksNoMore

\* Nor does a step that leaves the tasks alone.
LEMMA TasksAsk ==
  ASSUME UNCHANGED tasks
  PROVE \A v \in Workers : AsksNoMore(v)
BY DEF tasks, AsksNoMore

\* The user, the customer, the providers and the admins.
LEMMA OrderRowed ==
  ASSUME Typed, Typed', Rowed, NEW o \in Orders, OrderStep(o)
  PROVE Rowed' /\ Backs
<1>1. ASSUME NEW s, s # "paid", SetStatus(o, s), UNCHANGED <<ledgerVars, credits, credited, back>>
      PROVE UNCHANGED tasks => Rowed' /\ Backs
  BY <1>1, NotPaid, TasksAsk, QuietRowed
<1>2. CASE CreateOrder(o)
  BY <1>1, <1>2 DEF CreateOrder, Create, CreateWithPromo, provider
<1>3. CASE Cancel(o)
  BY <1>1, <1>3 DEF Cancel, provider
<1>4. CASE DisputedEvent(o)
  BY <1>1, <1>4 DEF DisputedEvent, provider
<1>5. CASE AdminRejects(o)
  BY <1>1, <1>5 DEF AdminRejects, provider
<1>6. ASSUME NEW p \in Providers, PaymentMoves(o, p)
      PROVE Rowed' /\ Backs
  BY <1>6, TasksAsk, QuietRowed DEF PaymentMoves, orderRows
<1>7. CASE ChargeReturned(o)
  <2>1. \A q \in Orders : back[q] = "halved" => back'[q] = "halved"
    BY <1>7 DEF ChargeReturned, Typed, PaysOK
  <2> QED
    BY <1>7, <2>1, TasksAsk, QuietRowed DEF ChargeReturned, orderRows
<1>8. CASE StripeReconRef(o)
  BY <1>8, TasksAsk, QuietRowed DEF StripeReconRef, provider
<1>9. credits[o][1] \in Nat /\ credits[o][2] \in Nat
  BY DEF Typed, RowsOK
<1>10. CASE AdminApproves(o)
  BY <1>9, <1>10, TasksAsk, ApproveRowed DEF AdminApproves, ApproveInFull, provider
<1>11. CASE AdminApprovesMismatch(o)
  <2>1. PICK paid \in PaidAmounts :
          Approve(o, Scaled(credits[o][1], paid, o), Scaled(credits[o][2], paid, o))
    BY <1>11 DEF AdminApprovesMismatch
  <2>2. Scaled(credits[o][1], paid, o) \in Nat /\ Scaled(credits[o][2], paid, o) \in Nat
    BY <1>9, ScaledNat
  <2> QED
    BY <1>11, <2>1, <2>2, TasksAsk, ApproveRowed DEF AdminApprovesMismatch, provider
<1>12. CASE AdminRefunds(o)
  <2>1. Total(o) \in Nat
    BY <1>9 DEF Total
  <2> QED
    BY <1>12, <2>1, TasksAsk, RefundRowed DEF AdminRefunds, provider
<1> QED
  BY <1>2, <1>3, <1>4, <1>5, <1>6, <1>7, <1>8, <1>10, <1>11, <1>12 DEF OrderStep

\* Work that begins: a refund event asks for what the order says.
LEMMA BeginRowed ==
  ASSUME Typed, Rowed, NEW w \in Workers, NEW o \in Orders, Begin(w, o)
  PROVE Rowed' /\ Backs
<1>1. CASE BeginCheckout(w, o)
  BY <1>1, TakeAsks, QuietRowed DEF BeginCheckout, orderRows, provider
<1>2. CASE CompletedEvent(w, o)
  BY <1>2, TakeAsks, QuietRowed DEF CompletedEvent, Decide, orderRows, provider
<1>3. CASE PartialEvent(w, o)
  BY <1>3, TakeAsks, QuietRowed DEF PartialEvent, orderRows, provider
<1>4. CASE BeginQuery(w, o)
  BY <1>4, TakeAsks, QuietRowed DEF BeginQuery, orderRows, provider
<1>5. CASE BeginUsdtRecon(w, o)
  BY <1>5, TakeAsks, QuietRowed DEF BeginUsdtRecon, orderRows, provider
<1>6. CASE RefundedEvent(w, o)
  <2>1. /\ on'[w] = <<o, "stripe">>
        /\ due'[w] = IF back[o] = "halved" THEN Total(o) \div 2 ELSE Total(o)
        /\ \A v \in Workers \ {w} : UNCHANGED <<at[v], on[v], due[v]>>
    BY <1>6 DEF RefundedEvent, Typed, TasksOK
  <2>2. status[o] = "paid" /\ UNCHANGED <<ledgerVars, credits, credited, status, back>>
    BY <1>6 DEF RefundedEvent, orderRows, provider
  <2>3. credited[o] > 0
    BY <2>2 DEF Rowed, Counted
  <2>4. Asked(w)'
    BY <2>1, <2>2, <2>3 DEF Asked, Whole, Total
  <2>5. \A v \in Workers \ {w} : AsksNoMore(v)
    BY <2>1 DEF AsksNoMore
  <2> QED
    BY <2>2, <2>4, <2>5, QuietRowed
<1> QED
  BY <1>1, <1>2, <1>3, <1>4, <1>5, <1>6 DEF Begin

\* Work that goes on.
LEMMA WorkRowed ==
  ASSUME Typed, Typed', Rowed, NEW w \in Workers, Proceed(w) \/ Crash(w)
  PROVE Rowed' /\ Backs
<1>1. PICK o : o = OrderOf(w)
  OBVIOUS
<1>2. at[w] # "idle" => o \in Orders /\ o = on[w][1]
  BY <1>1, BusyOrder DEF Typed, OrderOf
<1>3. CASE FinishCheckout(w)
  BY <1>3, DropAsks, QuietRowed DEF FinishCheckout
<1>4. CASE ProviderAnswers(w)
  <2>1. ASSUME NEW v, v # "refund", at' = [at EXCEPT ![w] = v]
        PROVE \A u \in Workers : UNCHANGED <<on, due>> => AsksNoMore(u)
    BY <2>1 DEF Typed, TasksOK, AsksNoMore
  <2>2. Verdict(at[w], pay[on[w]]) # "refund"
    BY DEF Verdict
  <2>3. \A u \in Workers : AsksNoMore(u)
    BY <1>4, <2>1, <2>2, DropAsks DEF ProviderAnswers
  <2> QED
    BY <1>4, <2>3, QuietRowed DEF ProviderAnswers, orderRows, provider
<1>5. ASSUME NEW s, s # "paid", SetStatus(o, s), Drop(w),
             UNCHANGED <<ledgerVars, credits, credited, back>>
      PROVE Rowed' /\ Backs
  BY <1>5, NotPaid, DropAsks, QuietRowed
<1>6. CASE RouteToReview(w)
  BY <1>1, <1>5, <1>6 DEF RouteToReview, provider
<1>7. CASE MarkFailed(w)
  BY <1>1, <1>5, <1>7 DEF MarkFailed, provider
<1>8. CASE HandlePartial(w)
  <2>1. \A q \in Orders : status'[q] = "paid" => status[q] = "paid"
    BY <1>1, <1>8 DEF HandlePartial, Typed, RowsOK
  <2> QED
    BY <1>8, <2>1, DropAsks, QuietRowed DEF HandlePartial, provider
<1>9. CASE ApprovePayment(w)
  <2>1. o \in Orders /\ credits[o][1] \in Nat /\ credits[o][2] \in Nat
    BY <1>2, <1>9 DEF ApprovePayment, Typed, RowsOK
  <2>2. Approve(o, credits[o][1], credits[o][2]) /\ UNCHANGED back
    BY <1>1, <1>9 DEF ApprovePayment, ApproveInFull, provider
  <2>3. \A v \in Workers : AsksNoMore(v)
    BY <1>9 DEF ApprovePayment, Typed, TasksOK, AsksNoMore
  <2> QED
    BY <2>1, <2>2, <2>3, ApproveRowed
<1>10. CASE AlreadyDecided(w)
  BY <1>10, DropAsks, QuietRowed DEF AlreadyDecided, orderRows, provider
<1>11. CASE StoreReference(w)
  BY <1>11, DropAsks, QuietRowed DEF StoreReference, provider
<1>12. CASE RefundPayment(w)
  <2>1. at[w] = "refund" /\ o \in Orders /\ due[w] \in Nat
    BY <1>2, <1>12 DEF RefundPayment, Typed, TasksOK
  <2>2. Whole(o) => due[w] = Total(o)
    BY <1>2, <2>1 DEF Rowed, Asked
  <2>3. Refund(o, due[w]) /\ UNCHANGED back
    BY <1>1, <1>12 DEF RefundPayment, provider
  <2>4. \A v \in Workers : AsksNoMore(v)
    BY <1>12, DropAsks DEF RefundPayment
  <2> QED
    BY <2>1, <2>2, <2>3, <2>4, RefundRowed
<1>13. CASE Crash(w)
  BY <1>13, DropAsks, QuietRowed DEF Crash, orderRows, provider
<1> QED
  BY <1>3, <1>4, <1>6, <1>7, <1>8, <1>9, <1>10, <1>11, <1>12, <1>13 DEF Proceed

\* Every step keeps what is known of rows, and puts no credits aside without one.
LEMMA RowedNext ==
  ASSUME Typed, Typed', Rowed, [Next]_vars
  PROVE Rowed' /\ Backs
<1>1. ASSUME NEW o \in Orders, OrderStep(o)
      PROVE Rowed' /\ Backs
  BY <1>1, OrderRowed
<1>2. ASSUME NEW w \in Workers, NEW o \in Orders, Begin(w, o)
      PROVE Rowed' /\ Backs
  BY <1>2, BeginRowed
<1>3. ASSUME NEW w \in Workers, Proceed(w) \/ Crash(w)
      PROVE Rowed' /\ Backs
  BY <1>3, WorkRowed
<1>4. CASE ExpireOrders
  <2>1. PICK S : /\ status' = [o \in Orders |-> IF o \in S THEN "expired" ELSE status[o]]
                 /\ UNCHANGED <<ledgerVars, credits, provider, tasks, credited>>
    BY <1>4 DEF ExpireOrders
  <2>2. \A q \in Orders : status'[q] = "paid" => status[q] = "paid"
    BY <2>1
  <2> QED
    BY <2>1, <2>2, TasksAsk, QuietRowed DEF provider
<1>5. CASE LedgerStep
  BY <1>5, LedgerRowed
<1>6. CASE UNCHANGED vars
  BY <1>6, TasksAsk, QuietRowed DEF vars, orderVars, orderRows, provider
<1> QED
  BY <1>1, <1>2, <1>3, <1>4, <1>5, <1>6 DEF Next

\* It is so at first: there is no row, and nothing in the wallet.
LEMMA RowedInit ==
  ASSUME Init
  PROVE Rowed
<1>1. Typed
  BY TypedInit
<1>2. /\ row = [r \in Rows |-> "none"] /\ worth = [r \in Rows |-> 0] /\ listed = {}
      /\ balance = 0
  BY DEF Init, LedgerInit
<1>3. Written
  BY <1>2 DEF Written
<1>4. Matched
  <2>1. ASSUME NEW r \in Rows
        PROVE worth[r] <= Part(r)
    <3>1. Part(r) \in Nat
      BY <1>1, RowParts DEF Typed, RowsOK, Part
    <3> QED
      BY <1>2, <3>1
  <2> QED
    BY <2>1 DEF Matched
<1>5. Counted /\ \A w \in Workers : Asked(w)
  BY DEF Init, Counted, Asked, LedgerAssumption
<1> QED
  BY <1>3, <1>4, <1>5 DEF Rowed

\* The inductive invariant of the rows: which of them are written, what those of an order
\* hold, and what a refund event asks for.
THEOREM RowedAlways == Spec => [](Typed /\ Rowed)
<1>1. Init => Typed /\ Rowed
  BY TypedInit, RowedInit
<1>2. Typed /\ Rowed /\ [Next]_vars => Typed' /\ Rowed'
  BY TypedNext, RowedNext
<1> QED
  BY <1>1, <1>2, PTL DEF Spec

\* Whatever is credited, reserved, returned, spent, swept and refunded: credits that can
\* never expire come about only where the wallet was emptied under a reserve in flight, as
\* long as no charge was returned by half and no order credited twice.
THEOREM WalletIsBacked == Spec => BackedByRows
<1>1. ASSUME Typed, Rowed, [Next]_vars
      PROVE Calm' /\ Unbacked' > 0 => Unbacked' <= Unbacked \/ (balance' = 0 /\ held' > 0)
  <2>1. Typed' /\ Backs
    BY <1>1, TypedNext, RowedNext
  <2>2. Unbacked = Loose
    BY <1>1, LeftBacks DEF Typed
  <2>3. Unbacked' = Loose'
    BY <2>1, LeftBacksNext DEF Typed
  <2>4. Loose' \in Int
    BY <2>1, LeftTypedNext DEF Typed, Loose
  <2> QED
    BY <2>1, <2>2, <2>3, <2>4 DEF Backs
<1>2. Typed /\ Rowed /\ [Next]_vars =>
        [Calm' /\ Unbacked' > 0 => Unbacked' <= Unbacked \/ (balance' = 0 /\ held' > 0)]_vars
  BY <1>1
<1> QED
  BY <1>2, RowedAlways, PTL DEF Spec, BackedByRows

----------------------------------------------------------------------------
(* The life of a row *)

\* A row that was written keeps its amount and goes on to its end.
Lasts(r) ==
  /\ row[r] # "none" => row'[r] # "none" /\ worth'[r] = worth[r]
  /\ row[r] = "lapsed" => row'[r] # "live"
  /\ row[r] = "gone" => row'[r] = "gone"
  /\ row[r] = "live" /\ row'[r] = "gone" =>
       status[r[1]] = "paid" /\ status'[r[1]] = "refunded"

\* A credit leaves other rows alone.
LEMMA GrantKeeps ==
  ASSUME NEW o, NEW n, NEW base \in Nat, NEW bonus \in Nat, Grant(o, n, base, bonus),
         NEW r \in Rows, r # <<o, "recharge", n>>, r # <<o, "bonus", n>>
  PROVE row'[r] = row[r] /\ worth'[r] = worth[r]
<1> DEFINE part == [q \in Rows |-> CASE q = <<o, "recharge", n>> -> base
                                     [] q = <<o, "bonus", n>> -> bonus
                                     [] OTHER -> 0]
<1>1. part[r] = 0
  OBVIOUS
<1>2. /\ row' = [q \in Rows |-> IF part[q] > 0 THEN "live" ELSE row[q]]
      /\ worth' = [q \in Rows |-> IF part[q] > 0 THEN part[q] ELSE worth[q]]
  BY DEF Grant
<1> HIDE DEF part
<1> QED
  BY <1>1, <1>2

\* An approval writes rows that were not there.
LEMMA ApproveLasts ==
  ASSUME Typed, Written, NEW r \in Rows, NEW o \in Orders, NEW base \in Nat, NEW bonus \in Nat,
         Approve(o, base, bonus)
  PROVE Lasts(r)
<1>1. credited[o] \in Nat /\ Grant(o, credited[o] + 1, base, bonus)
  BY DEF Approve, Typed, RowsOK
<1>2. CASE row[r] = "none"
  BY <1>2 DEF Lasts
<1>3. CASE row[r] # "none"
  <2>1. ~(r[3] > credited[r[1]])
    BY <1>3 DEF Written
  <2>2. r # <<o, "recharge", credited[o] + 1>> /\ r # <<o, "bonus", credited[o] + 1>>
    BY <1>1, <2>1
  <2>3. row'[r] = row[r] /\ worth'[r] = worth[r]
    BY <1>1, <2>2, GrantKeeps
  <2> QED
    BY <2>3 DEF Lasts
<1> QED
  BY <1>2, <1>3

\* A refund ends rows of its own order, whose status it changes.
LEMMA RefundLasts ==
  ASSUME Typed, NEW r \in Rows, NEW o \in Orders, NEW target, Refund(o, target)
  PROVE Lasts(r)
<1>1. /\ UNCHANGED worth
      /\ row[r] = "none" => row'[r] = "none"
      /\ r[1] # o => row'[r] = row[r]
      /\ row'[r] = row[r] \/ row'[r] = "gone"
  BY TakeBackMarks DEF Refund
<1>2. status[o] = "paid" /\ status'[o] = "refunded"
  BY DEF Refund, SetStatus, Typed, RowsOK
<1> QED
  BY <1>1, <1>2 DEF Lasts

\* A sweep ends rows that have expired or are gone: it has listed no other.
LEMMA LedgerLasts ==
  ASSUME Typed, Written, NEW r \in Rows, LedgerStep
  PROVE Lasts(r)
<1>1. UNCHANGED worth
  BY DEF LedgerStep, Lapse, SweepRow, ListExpired, SweepDies, Spend, Reserve, SweepRenewed,
         ReturnReserve
<1>2. ASSUME NEW q \in Rows, Lapse(q)
      PROVE Lasts(r)
  BY <1>1, <1>2 DEF Lapse, Lasts, Typed, LedgerTypeOK
<1>3. ASSUME NEW q \in Rows, SweepRow(q)
      PROVE Lasts(r)
  BY <1>1, <1>3 DEF SweepRow, Lasts, Written, Typed, LedgerTypeOK
<1>4. ASSUME \/ ListExpired \/ SweepDies
             \/ \E c \in Spendings : Spend(c) \/ Reserve(c) \/ SweepRenewed(c)
             \/ \E c \in Spendings : \E part \in 0..c : ReturnReserve(c, part)
      PROVE UNCHANGED row
  BY <1>4 DEF ListExpired, SweepDies, Spend, Reserve, SweepRenewed, ReturnReserve
<1> QED
  BY <1>1, <1>2, <1>3, <1>4 DEF LedgerStep, Lasts

\* What leaves the rows alone.
LEMMA QuietLasts ==
  ASSUME NEW r \in Rows, UNCHANGED ledgerVars
  PROVE Lasts(r)
BY DEF ledgerVars, Lasts

\* An order's own steps: approvals and refunds alone touch the rows.
LEMMA OrderLasts ==
  ASSUME Typed, Written, NEW r \in Rows, NEW o \in Orders, OrderStep(o)
  PROVE Lasts(r)
<1>1. credits[o][1] \in Nat /\ credits[o][2] \in Nat
  BY DEF Typed, RowsOK
<1>2. CASE AdminApproves(o)
  BY <1>1, <1>2, ApproveLasts DEF AdminApproves, ApproveInFull
<1>3. CASE AdminApprovesMismatch(o)
  <2>1. PICK paid \in PaidAmounts :
          Approve(o, Scaled(credits[o][1], paid, o), Scaled(credits[o][2], paid, o))
    BY <1>3 DEF AdminApprovesMismatch
  <2>2. Scaled(credits[o][1], paid, o) \in Nat /\ Scaled(credits[o][2], paid, o) \in Nat
    BY <1>1, ScaledNat
  <2> QED
    BY <2>1, <2>2, ApproveLasts
<1>4. CASE AdminRefunds(o)
  BY <1>4, RefundLasts DEF AdminRefunds
<1>5. CASE \/ CreateOrder(o) \/ Cancel(o) \/ (\E p \in Providers : PaymentMoves(o, p))
           \/ ChargeReturned(o) \/ DisputedEvent(o) \/ StripeReconRef(o) \/ AdminRejects(o)
  <2>1. UNCHANGED ledgerVars
    BY <1>5 DEF CreateOrder, Cancel, PaymentMoves, ChargeReturned, DisputedEvent,
                StripeReconRef, AdminRejects
  <2> QED
    BY <2>1, QuietLasts
<1> QED
  BY <1>2, <1>3, <1>4, <1>5 DEF OrderStep

\* A worker's steps: so do the approval and the refund of a payment.
LEMMA WorkLasts ==
  ASSUME Typed, Written, NEW r \in Rows, NEW w \in Workers, Proceed(w) \/ Crash(w)
  PROVE Lasts(r)
<1>1. PICK o : o = OrderOf(w)
  OBVIOUS
<1>2. at[w] # "idle" => o \in Orders
  BY <1>1, BusyOrder DEF Typed, OrderOf
<1>3. CASE ApprovePayment(w)
  <2>1. o \in Orders /\ credits[o][1] \in Nat /\ credits[o][2] \in Nat
    BY <1>2, <1>3 DEF ApprovePayment, Typed, RowsOK
  <2>2. Approve(o, credits[o][1], credits[o][2])
    BY <1>1, <1>3 DEF ApprovePayment, ApproveInFull
  <2> QED
    BY <2>1, <2>2, ApproveLasts
<1>4. CASE RefundPayment(w)
  <2>1. o \in Orders /\ Refund(o, due[w])
    BY <1>1, <1>2, <1>4 DEF RefundPayment
  <2> QED
    BY <2>1, RefundLasts
<1>5. CASE \/ FinishCheckout(w) \/ ProviderAnswers(w) \/ RouteToReview(w) \/ HandlePartial(w)
           \/ MarkFailed(w) \/ AlreadyDecided(w) \/ StoreReference(w) \/ Crash(w)
  <2>1. UNCHANGED ledgerVars
    BY <1>5 DEF FinishCheckout, ProviderAnswers, RouteToReview, HandlePartial, MarkFailed,
                AlreadyDecided, StoreReference, Crash
  <2> QED
    BY <2>1, QuietLasts
<1> QED
  BY <1>3, <1>4, <1>5 DEF Proceed

\* A row of credits keeps its amount, ends before its time by a refund of its own order
\* only, and does not come back.
THEOREM RowsLast == Spec => CreditsLast
<1>1. ASSUME Typed, Rowed, [Next]_vars, NEW r \in Rows
      PROVE Lasts(r)
  <2>1. Written
    BY <1>1 DEF Rowed
  <2>2. ASSUME NEW o \in Orders, OrderStep(o)
        PROVE Lasts(r)
    BY <1>1, <2>1, <2>2, OrderLasts
  <2>3. ASSUME NEW w \in Workers, NEW o \in Orders, Begin(w, o)
        PROVE Lasts(r)
    <3>1. UNCHANGED ledgerVars
      BY <2>3 DEF Begin, BeginCheckout, CompletedEvent, PartialEvent, RefundedEvent, BeginQuery,
                  BeginUsdtRecon
    <3> QED
      BY <3>1, QuietLasts
  <2>4. ASSUME NEW w \in Workers, Proceed(w) \/ Crash(w)
        PROVE Lasts(r)
    BY <1>1, <2>1, <2>4, WorkLasts
  <2>5. CASE ExpireOrders \/ UNCHANGED vars
    <3>1. UNCHANGED ledgerVars
      BY <2>5 DEF ExpireOrders, vars
    <3> QED
      BY <3>1, QuietLasts
  <2>6. CASE LedgerStep
    BY <1>1, <2>1, <2>6, LedgerLasts
  <2> QED
    BY <1>1, <2>2, <2>3, <2>4, <2>5, <2>6 DEF Next
<1>2. Typed /\ Rowed /\ [Next]_vars => \A r \in Rows : Lasts(r)
  BY <1>1
<1>3. (\A r \in Rows : Lasts(r)) =>
        [\A r \in Rows :
           /\ row[r] # "none" => row'[r] # "none" /\ worth'[r] = worth[r]
           /\ row[r] = "lapsed" => row'[r] # "live"
           /\ row[r] = "gone" => row'[r] = "gone"
           /\ row[r] = "live" /\ row'[r] = "gone" =>
                status[r[1]] = "paid" /\ status'[r[1]] = "refunded"]_vars
  BY DEF Lasts
<1> QED
  BY <1>2, <1>3, RowedAlways, PTL DEF Spec, CreditsLast
=============================================================================
