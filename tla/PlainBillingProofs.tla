--------------------------- MODULE PlainBillingProofs ---------------------------
(***************************************************************************)
(* Theorems about PlainBilling, for any number of requests and keys, any   *)
(* routes, prices and amounts, and any number of crashes and lost writes.  *)
(***************************************************************************)
EXTENDS PlainBillingRefines, SumTheorems, TLAPS

USE DEF Continue, Suspend, Runs, wallet, keyRows, books, mishaps
USE RequestsAssumption, KeysAssumption, RouteAssumption, AmountAssumption

----------------------------------------------------------------------------
\* What is lost is one of the writes, and one of the writes of r.
LEMMA LosesType ==
  ASSUME lost \in [Requests -> SUBSET Writes], NEW r \in Requests,
         NEW ws \in SUBSET Writes, Loses(r, ws)
  PROVE  /\ lost' \in [Requests -> SUBSET Writes]
         /\ \A q \in Requests \ {r} : lost'[q] = lost[q]
BY DEF Loses

\* No step of a handler, a payment or a job leaves a variable outside its type; in
\* particular the wallet never goes below zero.
LEMMA TypeStep ==
  ASSUME TypeOK, [Next]_vars
  PROVE TypeOK'
<1> USE DEF TypeOK, Held, Busy, Ended, Outcomes, NoRow, Writes
<1>1. ASSUME NEW r \in Requests,
       PassGate(r) \/ Refuse(r) \/ Forbid(r) \/ Break(r) \/ Admit(r) \/ EmptyWallet(r)
     PROVE TypeOK'
  BY <1>1 DEF PassGate, GateAllows, Refuse, Forbid, Break, Admit, ReservesFirst, EmptyWallet, Loses
<1>2. ASSUME NEW r \in Requests,
       QuoteReserve(r) \/ PreReserve(r) \/ PreReserveFails(r)
     PROVE TypeOK'
  BY <1>2 DEF QuoteReserve, Lesser, PreReserve, Debit, PreReserveFails
<1>3. ASSUME NEW r \in Requests,
       Proceed(r) \/ KeyHit(r)
     PROVE TypeOK'
  BY <1>3 DEF Proceed, UsesKey, KeyHit
<1>4. ASSUME NEW r \in Requests,
       Answer(r) \/ UpstreamError(r) \/ BlowUp(r)
     PROVE TypeOK'
  BY <1>4 DEF Answer, CostsOf, UpstreamError, BlowUp, Loses
<1>5. ASSUME NEW r \in Requests,
       SettleExact(r) \/ SettleDelta(r) \/ SettleRefundLost(r) \/ SettleBreaks(r) \/ Decline(r) \/
       Backfill(r) \/ Finalize(r)
     PROVE TypeOK'
  BY <1>5 DEF SettleExact, NothingDue, Due, SettleDelta, SettleRefundLost, SettleBreaks, Debit,
    Decline, UsesKey, Backfill, Finalize, Loses
<1>6. ASSUME NEW r \in Requests,
       WriteCost(r) \/ WriteCostFails(r) \/ Adjust(r) \/ TopOff(r) \/ Charge(r)
     PROVE TypeOK'
  BY <1>6, SMTT(40) DEF WriteCost, WriteCostFails, Adjust, Due, Debit, TopOff, Charge, Loses
<1>7. ASSUME NEW r \in Requests,
       ReleaseBroken(r) \/ ReleaseKey(r) \/ GiveBack(r) \/ Leave(r) \/
       DropReservation(r)
     PROVE TypeOK'
  BY <1>7 DEF ReleaseBroken, ReleaseKey, UsesKey, GiveBack, Debit, Leave,
    DropRow, DropReservation, Loses
<1>8. ASSUME NEW a \in Amounts, TopUp(a) \/ OtherDebit(a) PROVE TypeOK'
  BY <1>8 DEF TopUp, OtherDebit
<1>9. ASSUME NEW k \in Keys, DropOldKey(k) PROVE TypeOK'
  BY <1>9 DEF DropOldKey, UsesKey
<1>10. CASE Crash \/ UNCHANGED vars
  BY <1>10 DEF Crash, vars
<1> QED
  BY <1>1, <1>2, <1>3, <1>4, <1>5, <1>6, <1>7, <1>8, <1>9, <1>10
  DEF Next, Coroutine, Prepare, Upstream, SettleDirectly, SettleByRow, GiveUp

----------------------------------------------------------------------------
(* The inductive invariant behind the safety properties *)

\* Places before the wallet is touched, and those a refused request ends in.
Untouched == {"new", "passed", "admitted", "quoted", "refused", "unfunded"}

\* Places at which a request has paid its reserve and nothing else.
AtReserve == {"reserved", "asking", "refunding", "answered", "written", "charging",
              "breaking", "unkeying", "forbidden"}

\* legacy and web reserve nothing, and web answers in one of few places.
Routes ==
  \A r \in Requests :
    /\ ~ReservesFirst(r) => reserve[r] = 0 /\ pc[r] \notin {"admitted", "quoted", "reserved",
         "unfunded", "refunding", "forbidden", "written", "topping"}
    /\ Endpoint[r] = "web" => pc[r] \notin {"answered", "backfill", "finalize", "breaking", "unkeying"}
    /\ pc[r] \in {"written", "topping"} => Endpoint[r] \in {"proxy", "simple"}
    /\ pc[r] = "charging" => Endpoint[r] \in {"proxy", "simple", "web"}
    /\ pc[r] = "backfill" => Endpoint[r] \in {"chat", "legacy"}
    /\ pc[r] = "finalize" => UsesKey(r)

\* What the client will be told at each place.
Told ==
  \A r \in Requests :
    /\ pc[r] \in Untouched \union {"reserved", "asking", "forbidden"} => outcome[r] = "none"
    /\ pc[r] \in {"answered", "written", "topping", "charging", "backfill"} => outcome[r] = "served"
    /\ pc[r] = "refunding" => outcome[r] \in {"failed", "replayed", "blank"}
    /\ pc[r] \in {"breaking", "unkeying"} => outcome[r] = "broken"
    /\ pc[r] \in {"finalize", "leaving", "done"} => outcome[r] # "none"

\* The writes that a request cannot have lost yet.
NotYetLost ==
  \A r \in Requests :
    /\ pc[r] \in Untouched \union AtReserve => "refund" \notin lost[r]
    /\ pc[r] \in Untouched \union AtReserve \union {"backfill"} => "row" \notin lost[r]
    /\ pc[r] \in Untouched \union {"reserved", "asking", "refunding", "answered"} =>
         "settlement" \notin lost[r]
    /\ pc[r] = "charging" /\ Endpoint[r] # "web" => "cost" \in lost[r]

\* What a request has taken from the wallet at each place of its life.
Money ==
  \A r \in Requests :
    /\ pc[r] \in Untouched => net[r] = 0
    /\ pc[r] \in {"new", "passed", "admitted", "refused", "unfunded"} => reserve[r] = 0
    /\ pc[r] \in AtReserve => net[r] = reserve[r]
    /\ pc[r] \in {"finalize", "leaving", "done"} /\ outcome[r] \in {"failed", "replayed", "blank"}
         => net[r] = IF "refund" \in lost[r] THEN reserve[r] ELSE 0
    /\ pc[r] \in {"finalize", "leaving", "done"} /\ outcome[r] \in {"declined", "broken"}
         => net[r] = reserve[r]

\* A served chat or legacy request on its way out has paid its quote, or the reserve whose
\* rest was not given back; its row follows.
AtCost ==
  \A r \in Requests :
    Endpoint[r] \in {"chat", "legacy"} /\ outcome[r] = "served" =>
      /\ pc[r] \in {"backfill", "finalize", "leaving", "done"} =>
           IF "refund" \in lost[r]
             THEN net[r] = reserve[r] /\ reserve[r] > cost[r] + Tolerance
             ELSE net[r] - cost[r] \in -Tolerance .. Tolerance
      /\ pc[r] \in {"answered", "backfill"} => logged[r] = 0
      /\ pc[r] \in {"finalize", "leaving", "done"} =>
           logged[r] = IF "row" \in lost[r] THEN 0 ELSE cost[r]

\* A web request that has not been charged shows no cost.
Rows ==
  \A r \in Requests :
    Endpoint[r] = "web" =>
      /\ net[r] = IF logged[r] = NoRow THEN 0 ELSE logged[r]
      /\ pc[r] \in {"new", "passed", "asking"} => logged[r] = NoRow

IInv ==
  /\ TypeOK
  /\ OneCoroutineAtATime
  /\ Routes
  /\ Told
  /\ NotYetLost
  /\ Money
  /\ AtCost
  /\ Rows
  /\ PaysAtMost
  /\ OneCallPerKey

\* A coroutine takes the loop only when it is free and keeps it until its next await.
LEMMA OneCoroutineStep ==
  ASSUME TypeOK, OneCoroutineAtATime, [Next]_vars
  PROVE OneCoroutineAtATime'
<1> USE DEF TypeOK, OneCoroutineAtATime, Held, Busy, Ended
<1>1. ASSUME NEW r \in Requests,
       PassGate(r) \/ Refuse(r) \/ Forbid(r) \/ Break(r) \/ Admit(r) \/ EmptyWallet(r)
     PROVE OneCoroutineAtATime'
  BY <1>1 DEF PassGate, GateAllows, Refuse, Forbid, Break, Admit, ReservesFirst, EmptyWallet, Loses
<1>2. ASSUME NEW r \in Requests,
       QuoteReserve(r) \/ PreReserve(r) \/ PreReserveFails(r)
     PROVE OneCoroutineAtATime'
  BY <1>2 DEF QuoteReserve, Lesser, PreReserve, Debit, PreReserveFails
<1>3. ASSUME NEW r \in Requests,
       Proceed(r) \/ KeyHit(r)
     PROVE OneCoroutineAtATime'
  BY <1>3 DEF Proceed, UsesKey, KeyHit
<1>4. ASSUME NEW r \in Requests,
       Answer(r) \/ UpstreamError(r) \/ BlowUp(r)
     PROVE OneCoroutineAtATime'
  BY <1>4 DEF Answer, CostsOf, UpstreamError, BlowUp, Loses
<1>5. ASSUME NEW r \in Requests,
       SettleExact(r) \/ SettleDelta(r) \/ SettleRefundLost(r) \/ SettleBreaks(r) \/ Decline(r) \/
       Backfill(r) \/ Finalize(r)
     PROVE OneCoroutineAtATime'
  BY <1>5 DEF SettleExact, NothingDue, Due, SettleDelta, SettleRefundLost, SettleBreaks, Debit,
    Decline, UsesKey, Backfill, Finalize, Loses
<1>6. ASSUME NEW r \in Requests,
       WriteCost(r) \/ WriteCostFails(r) \/ Adjust(r) \/ TopOff(r) \/ Charge(r)
     PROVE OneCoroutineAtATime'
  BY <1>6 DEF WriteCost, WriteCostFails, Adjust, Due, Debit, TopOff, Charge, Loses
<1>7. ASSUME NEW r \in Requests,
       ReleaseBroken(r) \/ ReleaseKey(r) \/ GiveBack(r) \/ Leave(r) \/
       DropReservation(r)
     PROVE OneCoroutineAtATime'
  BY <1>7 DEF ReleaseBroken, ReleaseKey, UsesKey, GiveBack, Debit, Leave,
    DropRow, DropReservation, Loses
<1>8. ASSUME NEW a \in Amounts, TopUp(a) \/ OtherDebit(a) PROVE OneCoroutineAtATime'
  BY <1>8 DEF TopUp, OtherDebit
<1>9. ASSUME NEW k \in Keys, DropOldKey(k) PROVE OneCoroutineAtATime'
  BY <1>9 DEF DropOldKey, UsesKey
<1>10. CASE Crash \/ UNCHANGED vars
  BY <1>10 DEF Crash, vars
<1> QED
  BY <1>1, <1>2, <1>3, <1>4, <1>5, <1>6, <1>7, <1>8, <1>9, <1>10
  DEF Next, Coroutine, Prepare, Upstream, SettleDirectly, SettleByRow, GiveUp

\* Each route visits its own places only.
LEMMA RoutesStep ==
  ASSUME TypeOK, Routes, [Next]_vars
  PROVE Routes'
<1> USE DEF TypeOK, Routes, ReservesFirst, UsesKey, Endpoints, Held, Busy, Ended
<1>1. ASSUME NEW r \in Requests,
       PassGate(r) \/ Refuse(r) \/ Forbid(r) \/ Break(r) \/ Admit(r) \/ EmptyWallet(r)
     PROVE Routes'
  BY <1>1 DEF PassGate, GateAllows, Refuse, Forbid, Break, Admit, EmptyWallet, Loses
<1>2. ASSUME NEW r \in Requests,
       QuoteReserve(r) \/ PreReserve(r) \/ PreReserveFails(r)
     PROVE Routes'
  BY <1>2 DEF QuoteReserve, Lesser, PreReserve, Debit, PreReserveFails
<1>3. ASSUME NEW r \in Requests,
       Proceed(r) \/ KeyHit(r)
     PROVE Routes'
  BY <1>3 DEF Proceed, KeyHit
<1>4. ASSUME NEW r \in Requests,
       Answer(r) \/ UpstreamError(r) \/ BlowUp(r)
     PROVE Routes'
  BY <1>4 DEF Answer, CostsOf, UpstreamError, BlowUp, Loses
<1>5. ASSUME NEW r \in Requests,
       SettleExact(r) \/ SettleDelta(r) \/ SettleRefundLost(r) \/ SettleBreaks(r) \/ Decline(r) \/
       Backfill(r) \/ Finalize(r)
     PROVE Routes'
  BY <1>5 DEF SettleExact, NothingDue, Due, SettleDelta, SettleRefundLost, SettleBreaks, Debit,
    Decline, Backfill, Finalize, Loses
<1>6. ASSUME NEW r \in Requests,
       WriteCost(r) \/ WriteCostFails(r) \/ Adjust(r) \/ TopOff(r) \/ Charge(r)
     PROVE Routes'
  BY <1>6 DEF WriteCost, WriteCostFails, Adjust, Due, Debit, TopOff, Charge, Loses
<1>7. ASSUME NEW r \in Requests,
       ReleaseBroken(r) \/ ReleaseKey(r) \/ GiveBack(r) \/ Leave(r) \/
       DropReservation(r)
     PROVE Routes'
  BY <1>7 DEF ReleaseBroken, ReleaseKey, GiveBack, Debit, Leave, DropRow, DropReservation,
    Loses
<1>8. ASSUME NEW a \in Amounts, TopUp(a) \/ OtherDebit(a) PROVE Routes'
  BY <1>8 DEF TopUp, OtherDebit
<1>9. ASSUME NEW k \in Keys, DropOldKey(k) PROVE Routes'
  BY <1>9 DEF DropOldKey
<1>10. CASE Crash \/ UNCHANGED vars
  BY <1>10 DEF Crash, vars
<1> QED
  BY <1>1, <1>2, <1>3, <1>4, <1>5, <1>6, <1>7, <1>8, <1>9, <1>10
  DEF Next, Coroutine, Prepare, Upstream, SettleDirectly, SettleByRow, GiveUp

\* What is told follows the place.
LEMMA ToldStep ==
  ASSUME TypeOK, Routes, Told, [Next]_vars
  PROVE Told'
<1> USE DEF TypeOK, Routes, Told, ReservesFirst, UsesKey, Untouched, Held, Busy, Ended, Outcomes
<1>1. ASSUME NEW r \in Requests,
       PassGate(r) \/ Refuse(r) \/ Forbid(r) \/ Break(r) \/ Admit(r) \/ EmptyWallet(r)
     PROVE Told'
  BY <1>1 DEF PassGate, GateAllows, Refuse, Forbid, Break, Admit, EmptyWallet, Loses
<1>2. ASSUME NEW r \in Requests,
       QuoteReserve(r) \/ PreReserve(r) \/ PreReserveFails(r)
     PROVE Told'
  BY <1>2 DEF QuoteReserve, Lesser, PreReserve, Debit, PreReserveFails
<1>3. ASSUME NEW r \in Requests,
       Proceed(r) \/ KeyHit(r)
     PROVE Told'
  BY <1>3 DEF Proceed, KeyHit
<1>4. ASSUME NEW r \in Requests,
       Answer(r) \/ UpstreamError(r) \/ BlowUp(r)
     PROVE Told'
  BY <1>4 DEF Answer, CostsOf, UpstreamError, BlowUp, Loses
<1>5. ASSUME NEW r \in Requests,
       SettleExact(r) \/ SettleDelta(r) \/ SettleRefundLost(r) \/ SettleBreaks(r) \/ Decline(r) \/
       Backfill(r) \/ Finalize(r)
     PROVE Told'
  BY <1>5 DEF SettleExact, NothingDue, Due, SettleDelta, SettleRefundLost, SettleBreaks, Debit,
    Decline, Backfill, Finalize, Loses
<1>6. ASSUME NEW r \in Requests,
       WriteCost(r) \/ WriteCostFails(r) \/ Adjust(r) \/ TopOff(r) \/ Charge(r)
     PROVE Told'
  BY <1>6 DEF WriteCost, WriteCostFails, Adjust, Due, Debit, TopOff, Charge, Loses
<1>7. ASSUME NEW r \in Requests,
       ReleaseBroken(r) \/ ReleaseKey(r) \/ GiveBack(r) \/ Leave(r) \/
       DropReservation(r)
     PROVE Told'
  BY <1>7 DEF ReleaseBroken, ReleaseKey, GiveBack, Debit, Leave, DropRow, DropReservation,
    Loses
<1>8. ASSUME NEW a \in Amounts, TopUp(a) \/ OtherDebit(a) PROVE Told'
  BY <1>8 DEF TopUp, OtherDebit
<1>9. ASSUME NEW k \in Keys, DropOldKey(k) PROVE Told'
  BY <1>9 DEF DropOldKey
<1>10. CASE Crash \/ UNCHANGED vars
  BY <1>10 DEF Crash, vars
<1> QED
  BY <1>1, <1>2, <1>3, <1>4, <1>5, <1>6, <1>7, <1>8, <1>9, <1>10
  DEF Next, Coroutine, Prepare, Upstream, SettleDirectly, SettleByRow, GiveUp

\* Reserves are taken once and given back whole.
LEMMA MoneyStep ==
  ASSUME TypeOK, Routes, Told, NotYetLost, Money, [Next]_vars
  PROVE Money'
<1> USE DEF TypeOK, Routes, Told, NotYetLost, Money, ReservesFirst, UsesKey, Untouched, AtReserve, Held, Busy, Ended, Outcomes
<1>1. ASSUME NEW r \in Requests,
       PassGate(r) \/ Refuse(r) \/ Forbid(r) \/ Break(r) \/ Admit(r) \/ EmptyWallet(r)
     PROVE Money'
  BY <1>1 DEF PassGate, GateAllows, Refuse, Forbid, Break, Admit, EmptyWallet, Loses
<1>2. ASSUME NEW r \in Requests,
       QuoteReserve(r) \/ PreReserve(r) \/ PreReserveFails(r)
     PROVE Money'
  BY <1>2 DEF QuoteReserve, Lesser, PreReserve, Debit, PreReserveFails
<1>3. ASSUME NEW r \in Requests,
       Proceed(r) \/ KeyHit(r)
     PROVE Money'
  BY <1>3 DEF Proceed, KeyHit
<1>4. ASSUME NEW r \in Requests,
       Answer(r) \/ UpstreamError(r) \/ BlowUp(r)
     PROVE Money'
  BY <1>4 DEF Answer, CostsOf, UpstreamError, BlowUp, Loses
<1>5. ASSUME NEW r \in Requests,
       SettleExact(r) \/ SettleDelta(r) \/ SettleRefundLost(r) \/ SettleBreaks(r) \/ Decline(r) \/
       Backfill(r) \/ Finalize(r)
     PROVE Money'
  BY <1>5 DEF SettleExact, NothingDue, Due, SettleDelta, SettleRefundLost, SettleBreaks, Debit,
    Decline, Backfill, Finalize, Loses
<1>6. ASSUME NEW r \in Requests,
       WriteCost(r) \/ WriteCostFails(r) \/ Adjust(r) \/ TopOff(r) \/ Charge(r)
     PROVE Money'
  BY <1>6 DEF WriteCost, WriteCostFails, Adjust, Due, Debit, TopOff, Charge, Loses
<1>7. ASSUME NEW r \in Requests,
       ReleaseBroken(r) \/ ReleaseKey(r) \/ GiveBack(r) \/ Leave(r) \/
       DropReservation(r)
     PROVE Money'
  BY <1>7 DEF ReleaseBroken, ReleaseKey, GiveBack, Debit, Leave, DropRow, DropReservation,
    Loses
<1>8. ASSUME NEW a \in Amounts, TopUp(a) \/ OtherDebit(a) PROVE Money'
  BY <1>8 DEF TopUp, OtherDebit
<1>9. ASSUME NEW k \in Keys, DropOldKey(k) PROVE Money'
  BY <1>9 DEF DropOldKey
<1>10. CASE Crash \/ UNCHANGED vars
  BY <1>10 DEF Crash, vars
<1> QED
  BY <1>1, <1>2, <1>3, <1>4, <1>5, <1>6, <1>7, <1>8, <1>9, <1>10
  DEF Next, Coroutine, Prepare, Upstream, SettleDirectly, SettleByRow, GiveUp

\* The delta brings a request from its reserve to its cost.
LEMMA AtCostStep ==
  ASSUME TypeOK, Routes, Told, NotYetLost, Money, AtCost, [Next]_vars
  PROVE AtCost'
<1> USE DEF TypeOK, Routes, Told, NotYetLost, Money, AtCost, ReservesFirst, UsesKey, Untouched, AtReserve, Held, Busy, Ended, Outcomes, NoRow
<1>1. ASSUME NEW r \in Requests,
       PassGate(r) \/ Refuse(r) \/ Forbid(r) \/ Break(r) \/ Admit(r) \/ EmptyWallet(r)
     PROVE AtCost'
  BY <1>1 DEF PassGate, GateAllows, Refuse, Forbid, Break, Admit, EmptyWallet, Loses
<1>2. ASSUME NEW r \in Requests,
       QuoteReserve(r) \/ PreReserve(r) \/ PreReserveFails(r)
     PROVE AtCost'
  BY <1>2 DEF QuoteReserve, Lesser, PreReserve, Debit, PreReserveFails
<1>3. ASSUME NEW r \in Requests,
       Proceed(r) \/ KeyHit(r)
     PROVE AtCost'
  BY <1>3 DEF Proceed, KeyHit
<1>4. ASSUME NEW r \in Requests,
       Answer(r) \/ UpstreamError(r) \/ BlowUp(r)
     PROVE AtCost'
  BY <1>4 DEF Answer, CostsOf, UpstreamError, BlowUp, Loses
<1>5. ASSUME NEW r \in Requests,
       SettleExact(r) \/ SettleDelta(r) \/ SettleRefundLost(r) \/ SettleBreaks(r) \/ Decline(r) \/
       Backfill(r) \/ Finalize(r)
     PROVE AtCost'
 <2>1. CASE SettleExact(r)
   <3>1. /\ pc[r] = "answered" /\ net[r] = reserve[r] /\ "refund" \notin lost[r]
         /\ reserve[r] \in Nat /\ cost[r] \in Nat
     BY <2>1 DEF SettleExact
   <3>2. reserve[r] - cost[r] \in -Tolerance .. Tolerance
     BY <2>1, <3>1 DEF SettleExact, NothingDue, Due
   <3>3. pc' = [pc EXCEPT ![r] = "backfill"] /\ UNCHANGED <<net, reserve, cost, logged, outcome, lost>>
     BY <2>1 DEF SettleExact
   <3> QED BY <3>1, <3>2, <3>3
 <2>2. CASE SettleDelta(r) BY <1>5, <2>2 DEF SettleDelta, NothingDue, Due, Debit
 <2>3. CASE SettleRefundLost(r) BY <1>5, <2>3 DEF SettleRefundLost, NothingDue, Due, Loses
 <2>4. CASE SettleBreaks(r) BY <1>5, <2>4 DEF SettleBreaks, Loses
 <2>5. CASE Decline(r) BY <1>5, <2>5 DEF Decline, NothingDue, Due
 <2>6. CASE Backfill(r) BY <1>5, <2>6 DEF Backfill, Loses
 <2>7. CASE Finalize(r) BY <1>5, <2>7 DEF Finalize, Loses
 <2> QED BY <1>5, <2>1, <2>2, <2>3, <2>4, <2>5, <2>6, <2>7
<1>6. ASSUME NEW r \in Requests,
       WriteCost(r) \/ WriteCostFails(r) \/ Adjust(r) \/ TopOff(r) \/ Charge(r)
     PROVE AtCost'
  BY <1>6 DEF WriteCost, WriteCostFails, Adjust, Due, Debit, TopOff, Charge, Loses
<1>7. ASSUME NEW r \in Requests,
       ReleaseBroken(r) \/ ReleaseKey(r) \/ GiveBack(r) \/ Leave(r) \/
       DropReservation(r)
     PROVE AtCost'
  BY <1>7 DEF ReleaseBroken, ReleaseKey, GiveBack, Debit, Leave, DropRow, DropReservation,
    Loses
<1>8. ASSUME NEW a \in Amounts, TopUp(a) \/ OtherDebit(a) PROVE AtCost'
  BY <1>8 DEF TopUp, OtherDebit
<1>9. ASSUME NEW k \in Keys, DropOldKey(k) PROVE AtCost'
  BY <1>9 DEF DropOldKey
<1>10. CASE Crash \/ UNCHANGED vars
  BY <1>10 DEF Crash, vars
<1> QED
  BY <1>1, <1>2, <1>3, <1>4, <1>5, <1>6, <1>7, <1>8, <1>9, <1>10
  DEF Next, Coroutine, Prepare, Upstream, SettleDirectly, SettleByRow, GiveUp

\* Debit and cost of a web request change together.
LEMMA RowsStep ==
  ASSUME TypeOK, Routes, Told, Money, Rows, [Next]_vars
  PROVE Rows'
<1> USE DEF TypeOK, Routes, Told, Money, Rows, ReservesFirst, UsesKey, Untouched, AtReserve, Held, Busy, Ended, Outcomes, NoRow
<1>1. ASSUME NEW r \in Requests,
       PassGate(r) \/ Refuse(r) \/ Forbid(r) \/ Break(r) \/ Admit(r) \/ EmptyWallet(r)
     PROVE Rows'
  BY <1>1 DEF PassGate, GateAllows, Refuse, Forbid, Break, Admit, EmptyWallet, Loses
<1>2. ASSUME NEW r \in Requests,
       QuoteReserve(r) \/ PreReserve(r) \/ PreReserveFails(r)
     PROVE Rows'
  BY <1>2 DEF QuoteReserve, Lesser, PreReserve, Debit, PreReserveFails
<1>3. ASSUME NEW r \in Requests,
       Proceed(r) \/ KeyHit(r)
     PROVE Rows'
  BY <1>3 DEF Proceed, KeyHit
<1>4. ASSUME NEW r \in Requests,
       Answer(r) \/ UpstreamError(r) \/ BlowUp(r)
     PROVE Rows'
  BY <1>4 DEF Answer, CostsOf, UpstreamError, BlowUp, Loses
<1>5. ASSUME NEW r \in Requests,
       SettleExact(r) \/ SettleDelta(r) \/ SettleRefundLost(r) \/ SettleBreaks(r) \/ Decline(r) \/
       Backfill(r) \/ Finalize(r)
     PROVE Rows'
  BY <1>5 DEF SettleExact, NothingDue, Due, SettleDelta, SettleRefundLost, SettleBreaks, Debit,
    Decline, Backfill, Finalize, Loses
<1>6. ASSUME NEW r \in Requests,
       WriteCost(r) \/ WriteCostFails(r) \/ Adjust(r) \/ TopOff(r) \/ Charge(r)
     PROVE Rows'
  BY <1>6 DEF WriteCost, WriteCostFails, Adjust, Due, Debit, TopOff, Charge, Loses
<1>7. ASSUME NEW r \in Requests,
       ReleaseBroken(r) \/ ReleaseKey(r) \/ GiveBack(r) \/ Leave(r) \/
       DropReservation(r)
     PROVE Rows'
  BY <1>7 DEF ReleaseBroken, ReleaseKey, GiveBack, Debit, Leave, DropRow, DropReservation,
    Loses
<1>8. ASSUME NEW a \in Amounts, TopUp(a) \/ OtherDebit(a) PROVE Rows'
  BY <1>8 DEF TopUp, OtherDebit
<1>9. ASSUME NEW k \in Keys, DropOldKey(k) PROVE Rows'
  BY <1>9 DEF DropOldKey
<1>10. CASE Crash \/ UNCHANGED vars
  BY <1>10 DEF Crash, vars
<1> QED
  BY <1>1, <1>2, <1>3, <1>4, <1>5, <1>6, <1>7, <1>8, <1>9, <1>10
  DEF Next, Coroutine, Prepare, Upstream, SettleDirectly, SettleByRow, GiveUp

\* A write is lost at its own place, and the fallback needs a lost one.
LEMMA LostStep ==
  ASSUME TypeOK, Routes, NotYetLost, [Next]_vars
  PROVE NotYetLost'
<1> USE DEF TypeOK, Routes, NotYetLost, ReservesFirst, UsesKey, Untouched, AtReserve, Held, Busy, Ended
<1>1. ASSUME NEW r \in Requests,
       PassGate(r) \/ Refuse(r) \/ Forbid(r) \/ Break(r) \/ Admit(r) \/ EmptyWallet(r)
     PROVE NotYetLost'
  BY <1>1 DEF PassGate, GateAllows, Refuse, Forbid, Break, Admit, ReservesFirst, EmptyWallet, Loses
<1>2. ASSUME NEW r \in Requests,
       QuoteReserve(r) \/ PreReserve(r) \/ PreReserveFails(r)
     PROVE NotYetLost'
  BY <1>2 DEF QuoteReserve, Lesser, PreReserve, Debit, PreReserveFails
<1>3. ASSUME NEW r \in Requests,
       Proceed(r) \/ KeyHit(r)
     PROVE NotYetLost'
  BY <1>3 DEF Proceed, KeyHit
<1>4. ASSUME NEW r \in Requests,
       Answer(r) \/ UpstreamError(r) \/ BlowUp(r)
     PROVE NotYetLost'
  BY <1>4 DEF Answer, CostsOf, UpstreamError, BlowUp, Loses
<1>5. ASSUME NEW r \in Requests,
       SettleExact(r) \/ SettleDelta(r) \/ SettleRefundLost(r) \/ SettleBreaks(r) \/ Decline(r) \/
       Backfill(r) \/ Finalize(r)
     PROVE NotYetLost'
  BY <1>5 DEF SettleExact, NothingDue, Due, SettleDelta, SettleRefundLost, SettleBreaks, Debit,
    Decline, Backfill, Finalize, Loses
<1>6. ASSUME NEW r \in Requests,
       WriteCost(r) \/ WriteCostFails(r) \/ Adjust(r) \/ TopOff(r) \/ Charge(r)
     PROVE NotYetLost'
  BY <1>6 DEF WriteCost, WriteCostFails, Adjust, Due, Debit, TopOff, Charge, Loses
<1>7. ASSUME NEW r \in Requests,
       ReleaseBroken(r) \/ ReleaseKey(r) \/ GiveBack(r) \/ Leave(r) \/
       DropReservation(r)
     PROVE NotYetLost'
  BY <1>7 DEF ReleaseBroken, ReleaseKey, GiveBack, Debit, Leave, DropRow, DropReservation,
    Loses
<1>8. ASSUME NEW a \in Amounts, TopUp(a) \/ OtherDebit(a) PROVE NotYetLost'
  BY <1>8 DEF TopUp, OtherDebit
<1>9. ASSUME NEW k \in Keys, DropOldKey(k) PROVE NotYetLost'
  BY <1>9 DEF DropOldKey
<1>10. CASE Crash \/ UNCHANGED vars
  BY <1>10 DEF Crash, vars
<1> QED
  BY <1>1, <1>2, <1>3, <1>4, <1>5, <1>6, <1>7, <1>8, <1>9, <1>10
  DEF Next, Coroutine, Prepare, Upstream, SettleDirectly, SettleByRow, GiveUp

\* No debit goes beyond the larger of reserve and cost.
LEMMA PaysStep ==
  ASSUME TypeOK, Routes, Told, NotYetLost, Money, PaysAtMost, [Next]_vars
  PROVE PaysAtMost'
<1> USE DEF TypeOK, Routes, Told, Money, NotYetLost, PaysAtMost, ReservesFirst, UsesKey, Untouched, AtReserve, Held, Busy, Ended, Outcomes
<1>1. ASSUME NEW r \in Requests,
       PassGate(r) \/ Refuse(r) \/ Forbid(r) \/ Break(r) \/ Admit(r) \/ EmptyWallet(r)
     PROVE PaysAtMost'
  BY <1>1 DEF PassGate, GateAllows, Refuse, Forbid, Break, Admit, EmptyWallet, Loses
<1>2. ASSUME NEW r \in Requests,
       QuoteReserve(r) \/ PreReserve(r) \/ PreReserveFails(r)
     PROVE PaysAtMost'
  BY <1>2 DEF QuoteReserve, Lesser, PreReserve, Debit, PreReserveFails
<1>3. ASSUME NEW r \in Requests,
       Proceed(r) \/ KeyHit(r)
     PROVE PaysAtMost'
  BY <1>3 DEF Proceed, KeyHit
<1>4. ASSUME NEW r \in Requests,
       Answer(r) \/ UpstreamError(r) \/ BlowUp(r)
     PROVE PaysAtMost'
  BY <1>4 DEF Answer, CostsOf, UpstreamError, BlowUp, Loses
<1>5. ASSUME NEW r \in Requests,
       SettleExact(r) \/ SettleDelta(r) \/ SettleRefundLost(r) \/ SettleBreaks(r) \/ Decline(r) \/
       Backfill(r) \/ Finalize(r)
     PROVE PaysAtMost'
  BY <1>5 DEF SettleExact, NothingDue, Due, SettleDelta, SettleRefundLost, SettleBreaks, Debit,
    Decline, Backfill, Finalize, Loses
<1>6. ASSUME NEW r \in Requests,
       WriteCost(r) \/ WriteCostFails(r) \/ Adjust(r) \/ TopOff(r) \/ Charge(r)
     PROVE PaysAtMost'
  BY <1>6 DEF WriteCost, WriteCostFails, Adjust, Due, Debit, TopOff, Charge, Loses
<1>7. ASSUME NEW r \in Requests,
       ReleaseBroken(r) \/ ReleaseKey(r) \/ GiveBack(r) \/ Leave(r) \/
       DropReservation(r)
     PROVE PaysAtMost'
  BY <1>7 DEF ReleaseBroken, ReleaseKey, GiveBack, Debit, Leave, DropRow, DropReservation,
    Loses
<1>8. ASSUME NEW a \in Amounts, TopUp(a) \/ OtherDebit(a) PROVE PaysAtMost'
  BY <1>8 DEF TopUp, OtherDebit
<1>9. ASSUME NEW k \in Keys, DropOldKey(k) PROVE PaysAtMost'
  BY <1>9 DEF DropOldKey
<1>10. CASE Crash \/ UNCHANGED vars
  BY <1>10 DEF Crash, vars
<1> QED
  BY <1>1, <1>2, <1>3, <1>4, <1>5, <1>6, <1>7, <1>8, <1>9, <1>10
  DEF Next, Coroutine, Prepare, Upstream, SettleDirectly, SettleByRow, GiveUp

\* A row is inserted only where there is none, and leaves with its owner.
LEMMA KeyStep ==
  ASSUME TypeOK, Routes, Told, OneCallPerKey, [Next]_vars
  PROVE OneCallPerKey'
<1> USE DEF TypeOK, Routes, Told, OneCallPerKey, HoldsKey, ReservesFirst, UsesKey, Untouched, Held, Busy, Ended, Outcomes
<1>1. ASSUME NEW r \in Requests,
       PassGate(r) \/ Refuse(r) \/ Forbid(r) \/ Break(r) \/ Admit(r) \/ EmptyWallet(r)
     PROVE OneCallPerKey'
  BY <1>1 DEF PassGate, GateAllows, Refuse, Forbid, Break, Admit, EmptyWallet, Loses
<1>2. ASSUME NEW r \in Requests,
       QuoteReserve(r) \/ PreReserve(r) \/ PreReserveFails(r)
     PROVE OneCallPerKey'
  BY <1>2 DEF QuoteReserve, Lesser, PreReserve, Debit, PreReserveFails
<1>3. ASSUME NEW r \in Requests,
       Proceed(r) \/ KeyHit(r)
     PROVE OneCallPerKey'
  BY <1>3 DEF Proceed, KeyHit
<1>4. ASSUME NEW r \in Requests,
       Answer(r) \/ UpstreamError(r) \/ BlowUp(r)
     PROVE OneCallPerKey'
  BY <1>4 DEF Answer, CostsOf, UpstreamError, BlowUp, Loses
<1>5. ASSUME NEW r \in Requests,
       SettleExact(r) \/ SettleDelta(r) \/ SettleRefundLost(r) \/ SettleBreaks(r) \/ Decline(r) \/
       Backfill(r) \/ Finalize(r)
     PROVE OneCallPerKey'
  BY <1>5 DEF SettleExact, NothingDue, Due, SettleDelta, SettleRefundLost, SettleBreaks, Debit,
    Decline, Backfill, Finalize, Loses
<1>6. ASSUME NEW r \in Requests,
       WriteCost(r) \/ WriteCostFails(r) \/ Adjust(r) \/ TopOff(r) \/ Charge(r)
     PROVE OneCallPerKey'
  BY <1>6 DEF WriteCost, WriteCostFails, Adjust, Due, Debit, TopOff, Charge, Loses
<1>7. ASSUME NEW r \in Requests,
       ReleaseBroken(r) \/ ReleaseKey(r) \/ GiveBack(r) \/ Leave(r) \/
       DropReservation(r)
     PROVE OneCallPerKey'
  BY <1>7 DEF ReleaseBroken, ReleaseKey, GiveBack, Debit, Leave, DropRow, DropReservation,
    Loses
<1>8. ASSUME NEW a \in Amounts, TopUp(a) \/ OtherDebit(a) PROVE OneCallPerKey'
  BY <1>8 DEF TopUp, OtherDebit
<1>9. ASSUME NEW k \in Keys, DropOldKey(k) PROVE OneCallPerKey'
  BY <1>9 DEF DropOldKey
<1>10. CASE Crash \/ UNCHANGED vars
  BY <1>10 DEF Crash, vars
<1> QED
  BY <1>1, <1>2, <1>3, <1>4, <1>5, <1>6, <1>7, <1>8, <1>9, <1>10
  DEF Next, Coroutine, Prepare, Upstream, SettleDirectly, SettleByRow, GiveUp

----------------------------------------------------------------------------
(* The theorems *)

\* The conjunction is inductive: it holds at the start and no step breaks it.
THEOREM Inductive == Spec => []IInv
<1>1. Init => IInv
  BY DEF Init, IInv, TypeOK, OneCoroutineAtATime, Routes, Told, Money, AtCost, Rows,
    NotYetLost, PaysAtMost, OneCallPerKey, HoldsKey, UsesKey, ReservesFirst, Untouched,
    AtReserve, Held, Busy, Ended, Outcomes, NoRow
<1>2. IInv /\ [Next]_vars => IInv'
  <2> SUFFICES ASSUME IInv, [Next]_vars PROVE IInv'
    OBVIOUS
  <2>1. TypeOK /\ OneCoroutineAtATime /\ Routes /\ Told /\ NotYetLost /\ Money /\ AtCost
        /\ Rows /\ PaysAtMost /\ OneCallPerKey
    BY DEF IInv
  <2>2. TypeOK' BY <2>1, TypeStep
  <2>3. OneCoroutineAtATime' BY <2>1, OneCoroutineStep
  <2>4. Routes' BY <2>1, RoutesStep
  <2>5. Told' BY <2>1, ToldStep
  <2>6. Money' BY <2>1, MoneyStep
  <2>7. AtCost' BY <2>1, AtCostStep
  <2>8. Rows' BY <2>1, RowsStep
  <2>9. NotYetLost' BY <2>1, LostStep
  <2>10. PaysAtMost' BY <2>1, PaysStep
  <2>11. OneCallPerKey' BY <2>1, KeyStep
  <2> QED
    BY <2>2, <2>3, <2>4, <2>5, <2>6, <2>7, <2>8, <2>9, <2>10, <2>11 DEF IInv
<1> QED
  BY <1>1, <1>2, PTL DEF Spec

\* Types; the wallet is never negative.
THEOREM TypeCorrect == Spec => []TypeOK
<1>1. IInv => TypeOK BY DEF IInv
<1> QED BY <1>1, Inductive, PTL

\* A delivered chat or legacy answer cost its quote and its usage row says so, unless the
\* database refused the refund (then it cost the larger reserve) or the update of the row.
THEOREM AnswersCostTheirQuote == Spec => []ServedAtCost
<1>1. IInv => ServedAtCost BY DEF IInv, TypeOK, AtCost, ServedAtCost
<1> QED BY <1>1, Inductive, PTL

\* Errors, stored responses and refusals of the admission are free; the ends named in
\* KeepsReserve cost the reserve and no more.
THEOREM RefusalsAreFree == Spec => []FreeUnlessServed
<1>1. IInv => FreeUnlessServed 
  BY DEF IInv, TypeOK, Outcomes, Told, NotYetLost, Money, Untouched, AtReserve, KeepsReserve,
         FreeUnlessServed
<1> QED BY <1>1, Inductive, PTL

\* Nobody pays more than the larger of reserve and cost, whichever writes are lost, if it is
\* not the one of the cost to the usage row.
THEOREM ChargeBounded == Spec => []PaysAtMost
<1>1. IInv => PaysAtMost BY DEF IInv
<1> QED BY <1>1, Inductive, PTL

\* Wallet and usage row agree on what /chat/send charged, at every moment.
THEOREM ChargeIsAtomic == Spec => []ChargedIffLogged
<1>1. IInv => ChargedIffLogged BY DEF IInv, Rows, ChargedIffLogged
<1> QED BY <1>1, Inductive, PTL

\* One Idempotency-Key never calls the upstream twice at once.
THEOREM KeyExclusive == Spec => []OneCallPerKey
<1>1. IInv => OneCallPerKey BY DEF IInv
<1> QED BY <1>1, Inductive, PTL

----------------------------------------------------------------------------
(* Conservation: the sum over all requests changes by what one request moves *)

\* The sum of what the requests hold is a number.
LEMMA HoldingsAreInt ==
  ASSUME TypeOK
  PROVE balance \in Int /\ funds \in Int /\ Sum(net, Requests) \in Int
<1>1. \A r \in Requests : net[r] \in Int
  BY DEF TypeOK
<1>2. Sum(net, Requests) \in Int
  BY <1>1, FiniteAssumption, SumInt
<1> QED
  BY <1>2 DEF TypeOK

\* A request that moves c credits out of the wallet holds c more.
LEMMA HandlerConserves ==
  ASSUME TypeOK, Conservation, NEW r \in Requests, NEW c \in Int,
         balance' = balance - c, net' = [net EXCEPT ![r] = net[r] + c], funds' = funds
  PROVE Conservation'
<1>1. net \in [Requests -> Int]
  BY DEF TypeOK
<1>2. Sum(net', Requests) = Sum(net, Requests) + c
  BY ONLY <1>1, FiniteAssumption, SumPlus, r \in Requests, c \in Int,
    net' = [net EXCEPT ![r] = net[r] + c], ZenonT(60)
<1>3. balance \in Int /\ funds \in Int /\ Sum(net, Requests) \in Int
  BY HoldingsAreInt
<1>4. balance' + Sum(net', Requests) = balance + Sum(net, Requests)
  BY <1>2, <1>3
<1> QED
  BY <1>4 DEF Conservation

\* A step outside the handlers moves the wallet and what came in alike.
LEMMA OthersConserve ==
  ASSUME TypeOK, Conservation, NEW c \in Int,
         balance' = balance + c, funds' = funds + c, net' = net
  PROVE Conservation'
<1>1. balance \in Int /\ funds \in Int /\ Sum(net, Requests) \in Int
  BY HoldingsAreInt
<1> QED
  BY <1>1 DEF Conservation

\* No step makes or loses credits.
LEMMA ConservationStep ==
  ASSUME TypeOK, Conservation, [Next]_vars
  PROVE Conservation'
<1>1. CASE UNCHANGED <<balance, net, funds>>
  BY <1>1 DEF Conservation
<1>2. ASSUME NEW r \in Requests, NEW c \in Int, Debit(r, c) PROVE Conservation'
  BY <1>2, HandlerConserves DEF Debit
<1>3. ASSUME NEW r \in Requests, PreReserve(r) PROVE Conservation'
  BY <1>2, <1>3 DEF PreReserve, TypeOK
<1>4. ASSUME NEW r \in Requests, GiveBack(r) PROVE Conservation'
  <2>1. -reserve[r] \in Int
    BY DEF TypeOK
  <2> QED
    BY <1>1, <1>2, <1>4, <2>1 DEF GiveBack
<1>5. ASSUME NEW r \in Requests, SettleDelta(r) \/ Adjust(r) PROVE Conservation'
  <2>1. Due(r) \in Int
    BY DEF TypeOK, Due
  <2> QED
    BY <1>1, <1>2, <1>5, <2>1 DEF SettleDelta, Adjust
<1>6. ASSUME NEW r \in Requests, TopOff(r) PROVE Conservation'
  <2>1. -reserve[r] \in Int
    BY DEF TypeOK
  <2> QED
    BY <1>1, <1>2, <1>6, <2>1 DEF TopOff
<1>7. ASSUME NEW r \in Requests, Charge(r) PROVE Conservation'
  BY <1>1, <1>2, <1>7 DEF Charge, TypeOK
<1>8. ASSUME NEW a \in Amounts, TopUp(a) \/ OtherDebit(a) PROVE Conservation'
  <2>1. a \in Int /\ -a \in Int /\ balance \in Int /\ funds \in Int
    BY HoldingsAreInt
  <2>2. CASE TopUp(a)
    BY <2>1, <2>2, OthersConserve DEF TopUp
  <2>3. CASE OtherDebit(a)
    <3>1. balance' = balance + (-a) /\ funds' = funds + (-a) /\ net' = net
      BY <2>1, <2>3 DEF OtherDebit
    <3> QED
      BY <2>1, <3>1, OthersConserve
  <2> QED
    BY <1>8, <2>2, <2>3
<1>9. ASSUME NEW r \in Requests,
       \/ PassGate(r) \/ Refuse(r) \/ Forbid(r) \/ Break(r) \/ Admit(r) \/ EmptyWallet(r)
       \/ QuoteReserve(r) \/ PreReserveFails(r) \/ Proceed(r) \/ KeyHit(r)
       \/ Answer(r) \/ UpstreamError(r) \/ BlowUp(r)
     PROVE Conservation'
  BY <1>1, <1>9 DEF PassGate, Refuse, Forbid, Break, Admit, EmptyWallet, QuoteReserve,
    PreReserveFails, Proceed, KeyHit, Answer, UpstreamError, BlowUp
<1>10. ASSUME NEW r \in Requests,
       \/ SettleExact(r) \/ SettleRefundLost(r) \/ SettleBreaks(r) \/ Decline(r)
       \/ Backfill(r) \/ Finalize(r) \/ WriteCost(r) \/ WriteCostFails(r) \/ ReleaseBroken(r) \/ ReleaseKey(r)
       \/ Leave(r) \/ DropReservation(r)
     PROVE Conservation'
  BY <1>1, <1>10 DEF SettleExact, SettleRefundLost, SettleBreaks, Decline, Backfill,
    Finalize, WriteCost, WriteCostFails, ReleaseBroken, ReleaseKey, Leave, DropReservation
<1>11. CASE (\E k \in Keys : DropOldKey(k)) \/ Crash \/ UNCHANGED vars
  BY <1>1, <1>11 DEF DropOldKey, Crash, vars
<1> QED
  BY <1>3, <1>4, <1>5, <1>6, <1>7, <1>8, <1>9, <1>10, <1>11
  DEF Next, Coroutine, Prepare, Upstream, SettleDirectly, SettleByRow, GiveUp

\* No handler, error or crash makes or loses credits: the wallet and what the requests
\* hold or paid always add up to what came in from elsewhere.
THEOREM NothingIsLost == Spec => []Conservation
<1>1. Init => Conservation
  <2> SUFFICES ASSUME Init PROVE Conservation
    OBVIOUS
  <2>1. Sum(net, Requests) = 0
    BY FiniteAssumption, SumZero DEF Init
  <2> QED
    BY <2>1 DEF Init, Conservation
<1>2. TypeOK /\ Conservation /\ [Next]_vars => Conservation'
  BY ConservationStep
<1> QED
  BY <1>1, <1>2, TypeCorrect, PTL DEF Spec

----------------------------------------------------------------------------
(* Refinement of PrepaidWallet *)

\* What the mapping needs beyond IInv: an answer costs one of its quotes; a chat request
\* that got past its quote without a reserve has no price; and what a request without a
\* reserve has paid is its whole cost, or nothing.
Quoted == \A r \in Requests : cost[r] \in CostsOf(r) \union {0}

Unpriced ==
  \A r \in Billed :
    /\ ReservesFirst(r) /\ reserve[r] = 0
    /\ pc[r] \in {"quoted", "reserved", "asking", "answered"}
    => MaxCost[r] = 0

PaidWhole == \A r \in Billed : reserve[r] = 0 => net[r] \in {0, cost[r]}

RInv == Quoted /\ Unpriced /\ PaidWhole

\* The steps of a request that leave its books alone and take it to no new quote.
BooksKept(r) ==
  \/ PassGate(r) \/ Refuse(r) \/ Forbid(r) \/ Admit(r) \/ EmptyWallet(r)
  \/ Proceed(r) \/ KeyHit(r) \/ UpstreamError(r) \/ BlowUp(r)
  \/ SettleExact(r) \/ SettleRefundLost(r) \/ SettleBreaks(r) \/ Decline(r)
  \/ Backfill(r) \/ Finalize(r) \/ WriteCost(r) \/ WriteCostFails(r) \/ ReleaseBroken(r) \/ ReleaseKey(r)
  \/ Leave(r) \/ DropReservation(r)

\* They change neither the wallet nor what a request holds, owes or has set aside, and only
\* KeyHit, UpstreamError, BlowUp, SettleBreaks and Decline what the client is told.
LEMMA BooksStay ==
  ASSUME NEW r \in Requests, BooksKept(r)
  PROVE  UNCHANGED <<balance, reserve, cost, net>>
BY DEF BooksKept, PassGate, Refuse, Forbid, Admit, EmptyWallet, Proceed, KeyHit, UpstreamError,
       BlowUp, SettleExact, SettleRefundLost, SettleBreaks, Decline, Backfill, Finalize, WriteCost, WriteCostFails,
       ReleaseBroken, ReleaseKey, Leave, DropReservation

\* The facts of the mapping hold at the start and every step keeps them.
LEMMA RStep ==
  ASSUME IInv, RInv, [Next]_vars
  PROVE  RInv'
<1> USE DEF IInv, TypeOK, RInv, Quoted, Unpriced, PaidWhole, Billed, CostsOf, ReservesFirst
<1>1. ASSUME NEW r \in Requests, BooksKept(r)
      PROVE  RInv'
  <2>1. UNCHANGED <<reserve, cost, net>>
    BY <1>1, BooksStay
  <2>2. \A q \in Requests :
          pc'[q] \in {"quoted", "reserved", "asking", "answered"} /\ ReservesFirst(q)
            /\ Endpoint[q] \in {"chat", "legacy", "web"}
          => pc[q] \in {"quoted", "reserved", "asking", "answered"}
    BY <1>1 DEF BooksKept, PassGate, Refuse, Forbid, Admit, EmptyWallet, Proceed, KeyHit,
                UpstreamError, BlowUp, SettleExact, SettleRefundLost, SettleBreaks, Decline,
                Backfill, Finalize, WriteCost,
                WriteCostFails, ReleaseBroken, ReleaseKey, Leave, DropReservation
  <2> QED
    BY <2>1, <2>2
<1>2. ASSUME NEW r \in Requests, QuoteReserve(r)
      PROVE  RInv'
  BY <1>2 DEF QuoteReserve, Lesser, Money, Untouched
<1>3. ASSUME NEW r \in Requests, PreReserve(r) \/ PreReserveFails(r) \/ Break(r)
      PROVE  RInv'
  BY <1>3 DEF PreReserve, PreReserveFails, Break, Debit, Money, Untouched
<1>4. ASSUME NEW r \in Requests, Answer(r)
      PROVE  RInv'
  BY <1>4 DEF Answer, Money, AtReserve
<1>5. ASSUME NEW r \in Requests, SettleDelta(r)
      PROVE  RInv'
  BY <1>5 DEF SettleDelta, Debit, Due, Money, AtReserve
<1>6. ASSUME NEW r \in Requests, Adjust(r) \/ TopOff(r)
      PROVE  RInv'
  BY <1>6 DEF Adjust, TopOff, Debit, Due, Routes
<1>7. ASSUME NEW r \in Requests, Charge(r)
      PROVE  RInv'
  BY <1>7 DEF Charge, Debit, Routes, Money, AtReserve
<1>8. ASSUME NEW r \in Requests, GiveBack(r)
      PROVE  RInv'
  BY <1>8 DEF GiveBack, Debit, Money, AtReserve
<1>9. CASE \/ \E a \in Amounts : TopUp(a) \/ OtherDebit(a)
           \/ \E k \in Keys : DropOldKey(k)
           \/ UNCHANGED vars
  BY <1>9 DEF TopUp, OtherDebit, DropOldKey, vars
<1>10. CASE Crash
  BY <1>10 DEF Crash
<1> QED
  BY <1>1, <1>2, <1>3, <1>4, <1>5, <1>6, <1>7, <1>8, <1>9, <1>10
  DEF Next, Coroutine, Prepare, Upstream, SettleDirectly, SettleByRow, GiveUp, BooksKept

\* The facts of the mapping are an invariant.
LEMMA Mapping == Spec => []RInv
<1>1. Init => RInv
  BY DEF Init, RInv, Quoted, Unpriced, PaidWhole, Billed
<1>2. IInv /\ RInv /\ [Next]_vars => RInv'
  BY RStep
<1> QED
  BY <1>1, <1>2, Inductive, PTL DEF Spec

\* Where no money and no stage of a request changes, the abstract specification stutters.
LEMMA Stutters ==
  ASSUME UNCHANGED <<balance, net, Stage>>
  PROVE  UNCHANGED Abstract!vars
BY DEF Abstract!vars, NetOfBilled

\* A step of a route that is not billed once and for all is one of the others' steps.
LEMMA Elsewhere ==
  ASSUME balance' \in Nat, UNCHANGED <<NetOfBilled, Stage>>
  PROVE  Abstract!Next
BY DEF Abstract!Next, Abstract!Elsewhere

\* A step of r loses none of another request's writes.
LEMMA LosesOnly ==
  ASSUME TypeOK, NEW r \in Requests,
         \/ BooksKept(r) \/ QuoteReserve(r) \/ PreReserve(r) \/ PreReserveFails(r) \/ Break(r)
         \/ Answer(r) \/ SettleDelta(r) \/ Adjust(r) \/ TopOff(r) \/ Charge(r) \/ GiveBack(r)
  PROVE  \A q \in Requests \ {r} : lost'[q] = lost[q]
BY DEF TypeOK, Loses, BooksKept, PassGate, Refuse, Forbid, Admit, EmptyWallet, Proceed, KeyHit,
       UpstreamError, BlowUp, SettleExact, SettleRefundLost, SettleBreaks, Decline, Backfill,
       Finalize, WriteCost, WriteCostFails, ReleaseBroken, ReleaseKey, Leave, DropReservation,
       DropRow, QuoteReserve, PreReserve, PreReserveFails, Break, Answer, SettleDelta, Adjust,
       TopOff, Charge, GiveBack

\* No step of proxy or simple touches the books of the other routes.
LEMMA OtherRoutes ==
  ASSUME IInv, TypeOK', NEW r \in Requests \ Billed,
         \/ BooksKept(r) \/ QuoteReserve(r) \/ PreReserve(r) \/ PreReserveFails(r) \/ Break(r)
         \/ Answer(r) \/ SettleDelta(r) \/ Adjust(r) \/ TopOff(r) \/ Charge(r) \/ GiveBack(r)
  PROVE  Abstract!Next
<1> USE DEF IInv, TypeOK
<1>1. \A q \in Billed :
        /\ q \in Requests /\ q # r
        /\ reserve'[q] = reserve[q] /\ cost'[q] = cost[q] /\ net'[q] = net[q]
        /\ outcome'[q] = outcome[q] /\ pc'[q] = pc[q]
  BY DEF Billed, BooksKept, PassGate, Refuse, Forbid, Admit, EmptyWallet, Proceed, KeyHit,
         UpstreamError, BlowUp, SettleExact, SettleRefundLost, SettleBreaks, Decline, Backfill,
         Finalize, WriteCost, WriteCostFails, ReleaseBroken, ReleaseKey, Leave, DropReservation,
         QuoteReserve, PreReserve, PreReserveFails, Break, Answer, SettleDelta, Adjust, TopOff,
         Charge, GiveBack, Debit
<1>2. \A q \in Billed : lost'[q] = lost[q]
  BY <1>1, LosesOnly
<1>3. UNCHANGED <<NetOfBilled, Stage>>
  BY <1>1, <1>2 DEF NetOfBilled, Stage, Settled
<1>4. balance' \in Nat
  OBVIOUS
<1> QED
  BY ONLY <1>3, <1>4, Elsewhere

\* A request whose stage alone moves is settled at what it holds.
LEMMA Settles ==
  ASSUME NEW r \in Billed, NEW c \in Costs \union {0}, NEW paid \in Nat,
         IInv, Stage[r] = "held", Stage' = [Stage EXCEPT ![r] = "settled"],
         paid - c \in -Tolerance .. Tolerance, paid <= balance + net[r],
         balance' = balance + net[r] - paid, net' = [net EXCEPT ![r] = paid]
  PROVE  Abstract!Next
<1> USE DEF IInv, TypeOK, Billed
<1>1. paid \in 0 .. balance + NetOfBilled[r]
  BY DEF NetOfBilled
<1>2. /\ balance' = balance + NetOfBilled[r] - paid
      /\ NetOfBilled' = [NetOfBilled EXCEPT ![r] = paid]
  BY DEF NetOfBilled
<1>3. Abstract!PayInFull(r, c)
  BY <1>1, <1>2 DEF Abstract!PayInFull
<1>4. Abstract!Settle(r)
  BY <1>3 DEF Abstract!Settle
<1> QED
  BY <1>4 DEF Abstract!Next

\* A request that has nothing of the wallet takes some of it.
LEMMA Holds ==
  ASSUME NEW r \in Billed, NEW a \in Nat,
         IInv, Stage[r] = "idle", Stage' = [Stage EXCEPT ![r] = "held"],
         0 < a, a <= balance, balance' = balance - a, net' = [net EXCEPT ![r] = a]
  PROVE  Abstract!Next
<1> USE DEF IInv, TypeOK, Billed
<1>1. a \in 1 .. balance
  OBVIOUS
<1>2. NetOfBilled' = [NetOfBilled EXCEPT ![r] = a]
  BY DEF NetOfBilled
<1>3. Abstract!Hold(r)
  BY <1>1, <1>2 DEF Abstract!Hold
<1> QED
  BY <1>3 DEF Abstract!Next

\* When the books of the other requests stay, so do their stages.
LEMMA OneStage ==
  ASSUME NEW r \in Billed, NEW s,
         \A q \in Billed \ {r} :
           /\ reserve'[q] = reserve[q] /\ cost'[q] = cost[q] /\ net'[q] = net[q]
           /\ outcome'[q] = outcome[q] /\ pc'[q] = pc[q] /\ lost'[q] = lost[q],
         Stage'[r] = s
  PROVE  Stage' = [Stage EXCEPT ![r] = s]
<1>1. \A q \in Billed \ {r} : Stage'[q] = Stage[q]
  BY DEF Stage, Settled
<1> QED
  BY <1>1 DEF Stage

\* The pre-reserve of chat is the abstract hold; without a price it is nothing.
LEMMA PreReserveHolds ==
  ASSUME IInv, NEW r \in Billed, PreReserve(r)
  PROVE  [Abstract!Next]_(Abstract!vars)
<1> USE DEF IInv, TypeOK, Billed
<1>1. /\ pc[r] = "quoted" /\ net[r] = 0 /\ reserve[r] \in Nat /\ outcome[r] = "none"
      /\ "settlement" \notin lost[r]
  BY DEF PreReserve, Money, Untouched, Told, NotYetLost
<1>2. /\ reserve[r] <= balance /\ balance' = balance - reserve[r]
      /\ net' = [net EXCEPT ![r] = reserve[r]]
      /\ UNCHANGED <<reserve, cost, outcome, lost>>
      /\ pc' = [pc EXCEPT ![r] = "reserved"]
  <2>1. /\ balance >= reserve[r] /\ balance' = balance - reserve[r]
        /\ net' = [net EXCEPT ![r] = net[r] + reserve[r]]
        /\ UNCHANGED <<reserve, cost, outcome, lost>>
        /\ pc' = [pc EXCEPT ![r] = "reserved"]
    BY DEF PreReserve, Debit
  <2>2. net[r] + reserve[r] = reserve[r]
    BY <1>1
  <2> QED
    BY <1>1, <2>1, <2>2
<1>3. Stage[r] = "idle"
  BY <1>1 DEF Stage, Settled
<1>4. CASE reserve[r] = 0
  <2>1. UNCHANGED <<balance, net>>
    BY <1>1, <1>2, <1>4
  <2>2. Stage'[r] = "idle"
    BY <1>1, <1>2, <1>4 DEF Stage, Settled
  <2>3. Stage' = [Stage EXCEPT ![r] = "idle"]
    BY <1>2, <2>2, OneStage
  <2> QED
    BY <1>3, <2>1, <2>3, Stutters DEF Stage
<1>5. CASE reserve[r] > 0
  <2>1. Stage'[r] = "held"
    BY <1>1, <1>2, <1>5 DEF Stage, Settled
  <2>2. Stage' = [Stage EXCEPT ![r] = "held"]
    BY <1>2, <2>1, OneStage
  <2> QED
    BY <1>1, <1>2, <1>3, <1>5, <2>2, Holds
<1> QED
  BY <1>1, <1>4, <1>5

\* An answer that costs what is reserved, up to the tolerance, is settled as it arrives.
LEMMA AnswerSettles ==
  ASSUME IInv, NEW r \in Billed, Answer(r)
  PROVE  [Abstract!Next]_(Abstract!vars)
<1> USE DEF IInv, TypeOK, Billed
<1>1. /\ pc[r] = "asking" /\ net[r] = reserve[r] /\ outcome[r] = "none"
      /\ "settlement" \notin lost[r]
  BY DEF Answer, Money, AtReserve, Told, NotYetLost
<1>2. PICK c \in CostsOf(r) : cost' = [cost EXCEPT ![r] = c]
  BY DEF Answer
<1>3. c \in Costs \union {0} /\ c \in Nat
  BY <1>2 DEF CostsOf
<1>4. /\ UNCHANGED <<balance, net, reserve, lost>>
      /\ outcome' = [outcome EXCEPT ![r] = "served"]
      /\ pc'[r] # "done" /\ \A q \in Requests \ {r} : pc'[q] = pc[q]
  BY DEF Answer
<1>5. Stage[r] = IF net[r] > 0 THEN "held" ELSE "idle"
  BY <1>1 DEF Stage, Settled
<1>6. CASE reserve[r] > 0 /\ net[r] - c \in -Tolerance .. Tolerance
  <2>1. Stage'[r] = "settled"
    BY <1>2, <1>4, <1>6 DEF Stage, Settled
  <2>2. Stage' = [Stage EXCEPT ![r] = "settled"]
    BY <1>2, <1>4, <2>1, OneStage
  <2>3. /\ net[r] \in Nat /\ net[r] <= balance + net[r]
        /\ balance' = balance + net[r] - net[r] /\ net' = [net EXCEPT ![r] = net[r]]
    BY <1>1, <1>4
  <2> QED
    BY <1>1, <1>3, <1>5, <1>6, <2>2, <2>3, Settles
<1>7. CASE ~(reserve[r] > 0 /\ net[r] - c \in -Tolerance .. Tolerance)
  <2>1. Stage'[r] = Stage[r]
    BY <1>2, <1>4, <1>5, <1>7 DEF Stage, Settled
  <2>2. Stage' = [Stage EXCEPT ![r] = Stage[r]]
    BY <1>2, <1>4, <2>1, OneStage
  <2> QED
    BY <1>4, <2>2, Stutters DEF Stage
<1> QED
  BY <1>6, <1>7

\* The delta brings a chat request from its reserve to its cost; legacy, which has reserved
\* nothing, takes the cost whole and holds it until the response.
LEMMA DeltaSettles ==
  ASSUME IInv, RInv, NEW r \in Billed, SettleDelta(r)
  PROVE  Abstract!Next
<1> USE DEF IInv, TypeOK, Billed
<1>1. /\ pc[r] = "answered" /\ net[r] = reserve[r] /\ outcome[r] = "served"
      /\ reserve[r] \in Nat /\ cost[r] \in Nat /\ cost[r] \in Costs \union {0}
  BY DEF SettleDelta, Money, AtReserve, Told, RInv, Quoted, CostsOf
<1>2. /\ ~NothingDue(r) /\ cost[r] - reserve[r] <= balance
      /\ balance' = balance - (cost[r] - reserve[r])
      /\ net' = [net EXCEPT ![r] = cost[r]]
  <2>1. net[r] + Due(r) = cost[r]
    BY <1>1 DEF Due
  <2>2. /\ ~NothingDue(r) /\ balance >= Due(r) /\ balance' = balance - Due(r)
        /\ net' = [net EXCEPT ![r] = net[r] + Due(r)]
    BY DEF SettleDelta, Debit
  <2> QED
    BY <1>1, <2>1, <2>2 DEF Due
<1>3. UNCHANGED <<reserve, cost, outcome, lost>> /\ pc' = [pc EXCEPT ![r] = "backfill"]
  BY DEF SettleDelta
<1>4. CASE reserve[r] > 0
  <2>1. Stage[r] = "held"
    BY <1>1, <1>2, <1>4 DEF Stage, Settled, NothingDue, Due
  <2>2. cost[r] - cost[r] \in -Tolerance .. Tolerance
    BY <1>1
  <2>3. Stage'[r] = "settled"
    BY <1>1, <1>2, <1>3, <1>4, <2>2 DEF Stage, Settled
  <2>4. Stage' = [Stage EXCEPT ![r] = "settled"]
    BY <1>2, <1>3, <2>3, OneStage
  <2>5. cost[r] <= balance + net[r] /\ balance' = balance + net[r] - cost[r]
    BY <1>1, <1>2
  <2> QED
    BY <1>1, <1>2, <2>1, <2>2, <2>4, <2>5, Settles
<1>5. CASE reserve[r] = 0
  <2>1. Stage[r] = "idle"
    BY <1>1, <1>5 DEF Stage, Settled
  <2>2. 0 < cost[r] /\ cost[r] <= balance /\ balance' = balance - cost[r]
    BY <1>1, <1>2, <1>5 DEF NothingDue
  <2>3. Stage'[r] = "held"
    BY <1>1, <1>2, <1>3, <1>5, <2>2 DEF Stage, Settled
  <2>4. Stage' = [Stage EXCEPT ![r] = "held"]
    BY <1>2, <1>3, <2>3, OneStage
  <2> QED
    BY <1>1, <1>2, <2>1, <2>2, <2>4, Holds
<1> QED
  BY <1>1, <1>4, <1>5

\* charge_for_usage takes the cost whole, or nothing.
LEMMA ChargeHolds ==
  ASSUME IInv, NEW r \in Billed, Charge(r)
  PROVE  [Abstract!Next]_(Abstract!vars)
<1> USE DEF IInv, TypeOK, Billed
<1>1. pc[r] = "charging" /\ net[r] = 0 /\ reserve[r] = 0 /\ cost[r] \in Nat
  BY DEF Charge, Money, AtReserve, Routes, ReservesFirst
<1>2. /\ UNCHANGED <<reserve, cost, outcome>> /\ pc' = [pc EXCEPT ![r] = "leaving"]
      /\ \A q \in Billed \ {r} : lost'[q] = lost[q]
  BY LosesOnly DEF Charge
<1>3. Stage[r] = "idle"
  BY <1>1 DEF Stage, Settled
<1>4. CASE balance >= cost[r] /\ cost[r] > 0 /\ Debit(r, cost[r])
  <2>1. balance' = balance - cost[r] /\ net' = [net EXCEPT ![r] = cost[r]]
    <3>1. balance' = balance - cost[r] /\ net' = [net EXCEPT ![r] = net[r] + cost[r]]
      BY <1>4 DEF Debit
    <3>2. net[r] + cost[r] = cost[r]
      BY <1>1
    <3> QED
      BY <3>1, <3>2
  <2>2. Stage'[r] = "held"
    BY <1>1, <1>2, <1>4, <2>1 DEF Stage, Settled
  <2>3. Stage' = [Stage EXCEPT ![r] = "held"]
    BY <1>2, <2>1, <2>2, OneStage
  <2> QED
    BY <1>1, <1>3, <1>4, <2>1, <2>3, Holds
<1>5. CASE UNCHANGED <<balance, net>>
  <2>1. Stage'[r] = "idle"
    BY <1>1, <1>2, <1>5 DEF Stage, Settled
  <2>2. Stage' = [Stage EXCEPT ![r] = "idle"]
    BY <1>2, <1>5, <2>1, OneStage
  <2>3. Stage' = Stage
    BY <1>3, <2>2 DEF Stage
  <2> QED
    BY <1>5, <2>3, Stutters
<1>6. \/ balance >= cost[r] /\ cost[r] > 0 /\ Debit(r, cost[r])
      \/ UNCHANGED <<balance, net>>
  <2>1. CASE Debit(r, cost[r]) /\ balance >= cost[r] /\ cost[r] = 0
    BY <1>1, <2>1 DEF Debit
  <2> QED
    BY <1>1, <2>1 DEF Charge
<1> QED
  BY <1>4, <1>5, <1>6

\* The reserve that goes back is the settlement of an answer that costs nothing; a refund
\* that fails leaves the request its hold.
LEMMA GiveBackSettles ==
  ASSUME IInv, RInv, NEW r \in Billed, GiveBack(r)
  PROVE  [Abstract!Next]_(Abstract!vars)
<1> USE DEF IInv, TypeOK, Billed
<1>1. /\ pc[r] = "refunding" /\ net[r] = reserve[r] /\ reserve[r] \in Nat
      /\ outcome[r] \in {"failed", "replayed", "blank"} /\ "settlement" \notin lost[r]
  BY DEF GiveBack, Money, AtReserve, Told, NotYetLost
<1>2. /\ UNCHANGED <<reserve, cost, outcome>>
      /\ pc'[r] # "done" /\ \A q \in Requests \ {r} : pc'[q] = pc[q] /\ lost'[q] = lost[q]
      /\ "settlement" \notin lost'[r]
  BY <1>1, LosesOnly DEF GiveBack, Loses
<1>3. \/ UNCHANGED <<balance, net>>
      \/ reserve[r] > 0 /\ balance' = balance + net[r] - 0 /\ net' = [net EXCEPT ![r] = 0]
  <2>1. CASE UNCHANGED wallet /\ UNCHANGED net
    BY <2>1
  <2>2. CASE Debit(r, -reserve[r])
    <3>1. /\ balance' = balance - (-reserve[r])
          /\ net' = [net EXCEPT ![r] = net[r] + (-reserve[r])]
      BY <2>2 DEF Debit
    <3>2. net[r] + (-reserve[r]) = 0 /\ balance - (-reserve[r]) = balance + net[r] - 0
      BY <1>1
    <3>3. balance' = balance + net[r] - 0 /\ net' = [net EXCEPT ![r] = 0]
      BY ONLY <3>1, <3>2
    <3>4. reserve[r] = 0 => UNCHANGED <<balance, net>>
      BY <1>1, <3>3
    <3> QED
      BY <1>1, <3>3, <3>4
  <2> QED
    BY <2>1, <2>2 DEF GiveBack
<1>4. CASE reserve[r] > 0 /\ balance' = balance + net[r] - 0 /\ net' = [net EXCEPT ![r] = 0]
  <2>1. Stage[r] = "held"
    BY <1>1, <1>4 DEF Stage, Settled
  <2>2. Stage'[r] = "settled"
    BY <1>1, <1>2, <1>4 DEF Stage, Settled
  <2>3. Stage' = [Stage EXCEPT ![r] = "settled"]
    BY <1>2, <1>4, <2>2, OneStage
  <2>4. 0 \in Nat /\ 0 \in Costs \union {0} /\ 0 - 0 \in -Tolerance .. Tolerance
        /\ 0 <= balance + net[r]
    BY <1>1
  <2> QED
    BY <1>4, <2>1, <2>3, <2>4, Settles
<1>5. CASE UNCHANGED <<balance, net>>
  <2>1. Stage[r] = (IF net[r] > 0 THEN "held" ELSE "idle") /\ Stage'[r] = Stage[r]
    BY <1>1, <1>2, <1>5 DEF Stage, Settled
  <2>2. Stage' = [Stage EXCEPT ![r] = Stage[r]]
    BY <1>2, <1>5, <2>1, OneStage
  <2>3. Stage' = Stage
    BY <2>2 DEF Stage
  <2> QED
    BY <1>5, <2>3, Stutters
<1> QED
  BY <1>3, <1>4, <1>5

\* The response settles what a request without a reserve has taken.
LEMMA LeaveSettles ==
  ASSUME IInv, RInv, NEW r \in Billed, Leave(r)
  PROVE  [Abstract!Next]_(Abstract!vars)
<1> USE DEF IInv, TypeOK, Billed
<1>1. pc[r] = "leaving" /\ pc' = [pc EXCEPT ![r] = "done"]
  BY DEF Leave
<1>2. /\ UNCHANGED <<balance, net, reserve, cost, outcome>>
      /\ \A q \in Billed \ {r} : lost'[q] = lost[q]
      /\ "settlement" \in lost'[r] <=> "settlement" \in lost[r]
  BY LosesOnly DEF Leave, DropRow, Loses, BooksKept
<1>3. CASE reserve[r] = 0 /\ net[r] > 0
  <2>1. net[r] = cost[r] /\ cost[r] \in Nat /\ cost[r] \in Costs \union {0}
    BY <1>3 DEF RInv, PaidWhole, Quoted, CostsOf
  <2>2. Stage[r] = "held" /\ Stage'[r] = "settled"
    BY <1>1, <1>2, <1>3 DEF Stage, Settled
  <2>3. Stage' = [Stage EXCEPT ![r] = "settled"]
    BY <1>1, <1>2, <2>2, OneStage
  <2>4. /\ cost[r] - cost[r] \in -Tolerance .. Tolerance /\ cost[r] <= balance + net[r]
        /\ balance' = balance + net[r] - cost[r] /\ net' = [net EXCEPT ![r] = cost[r]]
    BY <1>2, <2>1
  <2> QED
    BY <2>1, <2>2, <2>3, <2>4, Settles
<1>4. CASE ~(reserve[r] = 0 /\ net[r] > 0)
  <2>1. Stage'[r] = Stage[r]
    BY <1>1, <1>2, <1>4 DEF Stage, Settled
  <2>2. Stage' = [Stage EXCEPT ![r] = Stage[r]]
    BY <1>1, <1>2, <2>1, OneStage
  <2>3. Stage' = Stage
    BY <2>2 DEF Stage
  <2> QED
    BY <1>2, <2>3, Stutters
<1> QED
  BY <1>3, <1>4

\* The other steps of a billed request move no money and leave its stage alone: what it is
\* told changes only while it holds its whole reserve, and what it is charged stays its cost
\* when the answer turns into an error at the settlement.
LEMMA OthersStutter ==
  ASSUME IInv, NEW r \in Billed,
         QuoteReserve(r) \/ PreReserveFails(r) \/ Break(r) \/ (BooksKept(r) /\ ~Leave(r))
  PROVE  UNCHANGED Abstract!vars
<1> USE DEF IInv, TypeOK, Billed
<1>1. UNCHANGED <<balance, net>>
  BY BooksStay DEF QuoteReserve, PreReserveFails, Break
<1>2. \A q \in Billed \ {r} :
        /\ reserve'[q] = reserve[q] /\ cost'[q] = cost[q] /\ net'[q] = net[q]
        /\ outcome'[q] = outcome[q] /\ pc'[q] = pc[q]
  BY DEF BooksKept, PassGate, Refuse, Forbid, Admit, EmptyWallet, Proceed, KeyHit, UpstreamError,
         BlowUp, SettleExact, SettleRefundLost, SettleBreaks, Decline, Backfill, Finalize,
         WriteCost, WriteCostFails, ReleaseBroken, ReleaseKey, Leave, DropReservation,
         QuoteReserve, PreReserveFails, Break
<1>3. \A q \in Billed \ {r} : lost'[q] = lost[q]
  BY LosesOnly
<1>4. Stage'[r] = Stage[r]
  <2>1. CASE QuoteReserve(r) \/ PreReserveFails(r)
    <3>1. /\ net[r] = 0 /\ outcome[r] = "none" /\ "settlement" \notin lost[r]
          /\ UNCHANGED <<net, outcome, lost>>
      BY <2>1 DEF QuoteReserve, PreReserveFails, Money, Told, NotYetLost, Untouched
    <3> QED
      BY <3>1 DEF Stage, Settled
  <2>2. CASE Break(r)
    <3>1. /\ net[r] = 0 \/ (net[r] = reserve[r] /\ reserve'[r] = reserve[r])
          /\ outcome[r] = "none" /\ outcome'[r] = "broken" /\ UNCHANGED <<net, cost>>
          /\ "settlement" \notin lost[r] /\ "settlement" \notin lost'[r] /\ pc[r] # "done"
      BY <2>2 DEF Break, Loses, Money, Told, NotYetLost, Untouched, AtReserve
    <3>2. reserve[r] \in Nat /\ reserve'[r] \in Nat /\ net[r] \in Int
      BY <2>2 DEF Break
    <3>3. ~Settled(r) /\ ~Settled(r)'
      BY <3>1, <3>2 DEF Settled
    <3> QED
      BY <3>1, <3>3 DEF Stage
  <2>3. CASE BooksKept(r) /\ ~Leave(r)
    <3>1. UNCHANGED <<net, reserve, cost>>
      BY <2>3, BooksStay
    <3>2. CASE KeyHit(r) \/ UpstreamError(r) \/ BlowUp(r)
      <4>1. /\ net[r] = reserve[r] /\ outcome[r] = "none" /\ pc[r] # "done"
            /\ outcome'[r] \in {"failed", "replayed", "blank", "broken"}
            /\ "settlement" \notin lost[r] /\ "settlement" \notin lost'[r]
        BY <3>2 DEF KeyHit, UpstreamError, BlowUp, Loses, Money, Told, NotYetLost, AtReserve
      <4> QED
        BY <3>1, <4>1 DEF Stage, Settled
    <3>3. CASE Decline(r)
      <4>1. /\ net[r] = reserve[r] /\ outcome[r] = "served" /\ outcome'[r] = "declined"
            /\ pc[r] # "done" /\ pc'[r] # "done"
            /\ "settlement" \notin lost[r] /\ UNCHANGED lost
            /\ reserve[r] > 0 => cost[r] - reserve[r] \notin -Tolerance .. Tolerance
        BY <3>3 DEF Decline, NothingDue, Due, Money, Told, NotYetLost, AtReserve
      <4>2. reserve[r] > 0 => net[r] - cost[r] \notin -Tolerance .. Tolerance
        BY <4>1
      <4> QED
        BY <3>1, <4>1, <4>2 DEF Stage, Settled
    <3>4. CASE SettleBreaks(r)
      <4>1. /\ net[r] = reserve[r] /\ outcome[r] = "served" /\ outcome'[r] = "broken"
            /\ "settlement" \in lost'[r]
        BY <3>4 DEF SettleBreaks, Loses, Money, Told, AtReserve
      <4> QED
        BY <3>1, <4>1 DEF Stage, Settled
    <3>5. CASE ReleaseKey(r)
      <4>1. /\ net[r] = reserve[r] /\ UNCHANGED outcome
            /\ "settlement" \in lost'[r] <=> "settlement" \in lost[r]
        BY <3>5 DEF ReleaseKey, Loses, Money, AtReserve
      <4> QED
        BY <3>1, <4>1 DEF Stage, Settled
    <3>6. CASE \/ PassGate(r) \/ Refuse(r) \/ Forbid(r) \/ Admit(r) \/ EmptyWallet(r)
               \/ Proceed(r) \/ SettleExact(r) \/ SettleRefundLost(r) \/ Backfill(r)
               \/ Finalize(r) \/ WriteCost(r) \/ WriteCostFails(r) \/ ReleaseBroken(r)
               \/ DropReservation(r)
      <4>1. /\ UNCHANGED outcome /\ (pc'[r] = "done" <=> pc[r] = "done")
            /\ "settlement" \in lost'[r] <=> "settlement" \in lost[r]
        BY <3>6 DEF PassGate, Refuse, Forbid, Admit, EmptyWallet, Proceed, SettleExact,
                    SettleRefundLost, Backfill, Finalize, WriteCost, WriteCostFails,
                    ReleaseBroken, DropReservation, DropRow, Loses
      <4> QED
        BY <3>1, <4>1 DEF Stage, Settled
    <3> QED
      BY <2>3, <3>2, <3>3, <3>4, <3>5, <3>6 DEF BooksKept
  <2> QED
    BY <2>1, <2>2, <2>3
<1>5. Stage' = [Stage EXCEPT ![r] = Stage[r]]
  BY <1>2, <1>3, <1>4, OneStage
<1>6. Stage' = Stage
  BY <1>5 DEF Stage
<1> QED
  BY <1>1, <1>6, Stutters

\* The chat, legacy and web handlers, with everything around them, implement the abstract
\* prepaid wallet: whatever fails and whoever else writes the wallet, no request is settled
\* twice or at another amount than the cost of its answer.
THEOREM Refinement == Spec => ImplementsPrepaidWallet
<1>1. Init => Abstract!Init
  <2>1. Init => Stage = [r \in Billed |-> "idle"] /\ NetOfBilled = [r \in Billed |-> 0]
    BY DEF Init, Stage, Settled, NetOfBilled, Billed
  <2> QED
    BY <2>1 DEF Init, Abstract!Init
<1>2. IInv /\ RInv /\ TypeOK' /\ [Next]_vars => [Abstract!Next]_(Abstract!vars)
  <2> SUFFICES ASSUME IInv, RInv, TypeOK', [Next]_vars
               PROVE  [Abstract!Next]_(Abstract!vars)
    OBVIOUS
  <2>1. ASSUME NEW r \in Requests,
               \/ BooksKept(r) \/ QuoteReserve(r) \/ PreReserve(r) \/ PreReserveFails(r)
               \/ Break(r) \/ Answer(r) \/ SettleDelta(r) \/ Adjust(r) \/ TopOff(r) \/ Charge(r)
               \/ GiveBack(r)
        PROVE  [Abstract!Next]_(Abstract!vars)
    <3>1. CASE r \notin Billed
      BY <2>1, <3>1, OtherRoutes
    <3>2. CASE r \in Billed
      <4>1. ~Adjust(r) /\ ~TopOff(r)
        BY <3>2 DEF Adjust, TopOff, IInv, Routes, Billed
      <4> QED
        BY <2>1, <3>2, <4>1, OthersStutter, PreReserveHolds, AnswerSettles, DeltaSettles,
           ChargeHolds, GiveBackSettles, LeaveSettles
    <3> QED
      BY <3>1, <3>2
  <2>2. CASE \E a \in Amounts : TopUp(a) \/ OtherDebit(a)
    <3>1. balance' \in Nat /\ UNCHANGED <<net, reserve, cost, outcome, pc, lost>>
      BY <2>2 DEF TopUp, OtherDebit, TypeOK
    <3>2. UNCHANGED <<NetOfBilled, Stage>>
      BY <3>1 DEF NetOfBilled, Stage, Settled
    <3> QED
      BY <3>1, <3>2, Elsewhere
  <2>3. CASE (\E k \in Keys : DropOldKey(k)) \/ UNCHANGED vars
    <3>1. UNCHANGED <<balance, net, reserve, cost, outcome, pc, lost>>
      BY <2>3 DEF DropOldKey, vars
    <3> QED
      BY <3>1, Stutters DEF Stage, Settled
  <2>4. CASE Crash
    <3>1. UNCHANGED <<balance, net, reserve, cost, outcome, lost>>
      BY <2>4 DEF Crash
    <3>2. pc' = [r \in Requests |-> IF pc[r] \in Busy THEN "crashed" ELSE pc[r]]
      BY <2>4 DEF Crash
    <3>3. \A r \in Billed : r \in Requests /\ (pc'[r] = "done" <=> pc[r] = "done")
      BY <3>2 DEF Billed, Busy, Held, IInv, TypeOK
    <3>4. Stage' = Stage
      BY <3>1, <3>3 DEF Stage, Settled
    <3> QED
      BY <3>1, <3>4, Stutters
  <2> QED
    BY <2>1, <2>2, <2>3, <2>4
    DEF Next, Coroutine, Prepare, Upstream, SettleDirectly, SettleByRow, GiveUp, BooksKept
<1> QED
  BY <1>1, <1>2, Inductive, TypeCorrect, Mapping, PTL DEF Spec, ImplementsPrepaidWallet, Abstract!Spec
=============================================================================
