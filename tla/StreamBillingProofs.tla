------------------------ MODULE StreamBillingProofs ------------------------
(***************************************************************************)
(* Theorems about StreamBilling, for any number of requests and keys, any  *)
(* routes, prices and amounts, and any number of crashes and lost writes.  *)
(***************************************************************************)
EXTENDS StreamBillingRefines, SumTheorems, TLAPS

USE DEF Continue, Suspend, Runs, wallet, keyRows, books, usage, mishaps

----------------------------------------------------------------------------
\* What is lost is one of the writes.
LEMMA LosesType ==
  ASSUME lost \in [Requests -> SUBSET Writes], NEW r \in Requests,
         NEW ws \in SUBSET Writes, Loses(r, ws)
  PROVE  lost' \in [Requests -> SUBSET Writes]
BY DEF Loses

\* No step of a handler, a payment, an admin or a job leaves a variable outside its
\* type; in particular the wallet never goes below zero.
THEOREM TypeCorrect == Spec => []TypeOK
<1> USE RequestsAssumption, KeysAssumption, RouteAssumption, AmountAssumption
<1>1. Init => TypeOK
  BY DEF Init, TypeOK, NoRow, Held, Streaming, Busy, Ended
<1>2. TypeOK /\ [Next]_vars => TypeOK'
  <2> SUFFICES ASSUME TypeOK, [Next]_vars PROVE TypeOK'
    OBVIOUS
  <2> USE DEF TypeOK, Held, Streaming, Busy, Ended, NoRow
  <2>1. ASSUME NEW r \in Requests, Arrive(r) \/ Forbid(r) \/ Break(r) PROVE TypeOK'
    BY <2>1 DEF Arrive, PassGate, Refuse, Forbid, Break, Loses, Writes
  <2>2. ASSUME NEW r \in Requests, Prepare(r) PROVE TypeOK'
    <3>1. CASE Admit(r) \/ ClaimKey(r)
      <4>1. CASE Admit(r)
        <5>1. lost' \in [Requests -> SUBSET Writes]
          BY <4>1, LosesType DEF Admit, Writes
        <5> QED
          BY <4>1, <5>1 DEF Admit
      <4>2. CASE ClaimKey(r)
        BY <4>2 DEF ClaimKey, UsesKey
      <4> QED
        BY <3>1, <4>1, <4>2
    <3>2. CASE KeyTaken(r) BY <3>2 DEF KeyTaken, DropRow, Loses, Writes
    <3>3. CASE QuoteReserve(r) BY <3>3 DEF QuoteReserve, Lesser
    <3>4. CASE EmptyWallet(r) BY <3>4 DEF EmptyWallet
    <3>5. CASE PreReserve(r) BY <3>5 DEF PreReserve
    <3>6. CASE PreReserveFails(r) BY <3>6 DEF PreReserveFails
    <3> QED BY <2>2, <3>1, <3>2, <3>3, <3>4, <3>5, <3>6 DEF Prepare
  <2>3. ASSUME NEW r \in Requests, Upstream(r) PROVE TypeOK'
    <3>1. CASE DoneChunk(r)
      <4>1. lost' \in [Requests -> SUBSET Writes]
        BY <3>1, LosesType DEF DoneChunk, Writes
      <4>2. used' \in Nat /\ logged' \in [Requests -> Nat \union {NoRow}]
        BY <3>1 DEF DoneChunk, LogAnswer
      <4> QED
        BY <3>1, <4>1, <4>2 DEF DoneChunk
    <3>2. CASE ErrorChunk(r) BY <3>2 DEF ErrorChunk
    <3>3. CASE NoticeFreeze(r) BY <3>3 DEF NoticeFreeze
    <3>4. CASE ClientGone(r) BY <3>4 DEF ClientGone
    <3> QED BY <2>3, <3>1, <3>2, <3>3, <3>4 DEF Upstream
  <2>4. ASSUME NEW r \in Requests, Mark(r) PROVE TypeOK'
    <3>1. CASE MarkDone(r)
      <4>1. lost' \in [Requests -> SUBSET Writes]
        BY <3>1, LosesType DEF MarkDone, Writes
      <4>2. used' \in Nat /\ logged' \in [Requests -> Nat \union {NoRow}]
        BY <3>1 DEF MarkDone, LogAnswer
      <4>3. keyState' \in [Keys -> {"free", "pending", "completed"}]
        BY <3>1 DEF MarkDone, UsesKey
      <4> QED
        BY <3>1, <4>1, <4>2, <4>3 DEF MarkDone
    <3>2. CASE MarkError(r) BY <3>2 DEF MarkError, UsesKey, Loses, Writes
    <3> QED BY <2>4, <3>1, <3>2 DEF Mark
  <2>5. ASSUME NEW r \in Requests, BeginSettle(r) PROVE TypeOK'
    BY <2>5 DEF BeginSettle, LogAtEnd, Loses, Writes
  <2>6. ASSUME NEW r \in Requests, Settle(r) PROVE TypeOK'
    <3>1. CASE SettleExact(r) BY <3>1 DEF SettleExact
    <3>2. CASE SettleRefund(r) BY <3>2 DEF SettleRefund
    <3>3. CASE SettleExtra(r) BY <3>3 DEF SettleExtra
    <3>4. CASE SettleExtraFails(r) BY <3>4 DEF SettleExtraFails
    <3>5. CASE SettlePartial(r) BY <3>5 DEF SettlePartial, Lesser, Loses, Writes
    <3>6. CASE SettleRefundLost(r) \/ SettleAborts(r)
      BY <3>6 DEF SettleRefundLost, SettleAborts, Loses, Writes
    <3>7. CASE Release(r) BY <3>7 DEF Release, DropRow, Loses, Writes
    <3> QED BY <2>6, <3>1, <3>2, <3>3, <3>4, <3>5, <3>6, <3>7 DEF Settle
  <2>7. ASSUME NEW r \in Requests, AbortWithoutCleanup(r) \/ Lapse(r) PROVE TypeOK'
    BY <2>7 DEF AbortWithoutCleanup, Lapse
  <2>8. ASSUME NEW a \in Amounts, TopUp(a) \/ OtherDebit(a) PROVE TypeOK'
    BY <2>8 DEF TopUp, OtherDebit
  <2>9. ASSUME NEW k \in Keys, DropOldKey(k) PROVE TypeOK'
    BY <2>9 DEF DropOldKey
  <2>10. CASE FreezeUser \/ UnfreezeUser \/ RevokeCredentials \/ PurgeReservations
    <3>1. CASE FreezeUser
      BY <3>1 DEF FreezeUser
    <3>2. CASE UnfreezeUser
      BY <3>2 DEF UnfreezeUser
    <3>3. CASE RevokeCredentials
      BY <3>3 DEF RevokeCredentials
    <3>4. CASE PurgeReservations
      BY <3>4 DEF PurgeReservations
    <3> QED
      BY <2>10, <3>1, <3>2, <3>3, <3>4
  <2>11. CASE Crash
    BY <2>11 DEF Crash
  <2>12. CASE UNCHANGED vars
    BY <2>12 DEF vars
  <2> QED
    BY <2>1, <2>2, <2>3, <2>4, <2>5, <2>6, <2>7, <2>8, <2>9, <2>10, <2>11, <2>12
    DEF Next, Coroutine
<1> QED
  BY <1>1, <1>2, PTL DEF Spec

----------------------------------------------------------------------------
(* The inductive invariant behind the safety properties *)

\* Requests that have not reached the upstream, or never will.
Unbilled == {"new", "passed", "admitted", "keyed", "quoted", "refused", "replayed", "forbidden", "unfunded",
             "broken"}

\* What r has taken from the wallet at each place of its life.
Money ==
  \A r \in Requests :
    /\ pc[r] \in Unbilled => net[r] = 0 /\ short[r] = 0
    /\ pc[r] \in Streaming \union {"settling", "partial"} => net[r] = reserve[r] /\ short[r] = 0
    /\ pc[r] = "settling" => reserve[r] > 0 /\ cost[r] \in Costs
    /\ pc[r] = "partial" =>
         reserve[r] > 0 /\ cost[r] \in Costs /\ cost[r] - reserve[r] > Tolerance
    /\ pc[r] \in {"aborted", "crashed"} => net[r] \in {0, reserve[r]}
    /\ pc[r] \in Unbilled \union Streaming \union {"settling", "partial"} =>
         "refund" \notin lost[r] /\ "settlement" \notin lost[r] /\ "audit" \notin lost[r]

\* What a settled request has paid.
Settled ==
  \A r \in Requests :
    pc[r] \in {"releasing", "done", "cut"} =>
      /\ net[r] >= 0
      /\ net[r] <= reserve[r] \/ net[r] <= cost[r]
      /\ reserve[r] = 0 => net[r] = 0 /\ short[r] = 0
      /\ reserve[r] > 0 /\ Unsettled(r) => net[r] = reserve[r] /\ short[r] = 0
      /\ reserve[r] > 0 /\ ~Unsettled(r) =>
           IF "audit" \in lost[r]
             THEN net[r] \in reserve[r] .. (cost[r] - 1) /\ short[r] = 0
             ELSE net[r] + short[r] - cost[r] \in -Tolerance .. Tolerance

\* The cost shown by the usage row before the tail writes the actual one back.
LogSoFar ==
  \A r \in Requests :
    /\ pc[r] \in Busy => logged[r] \in {NoRow, 0, cost[r]}
    /\ pc[r] \in {"new", "passed", "admitted", "keyed", "quoted"} \union Streaming => logged[r] \in {NoRow, 0}

IInv ==
  /\ TypeOK
  /\ OneCoroutineAtATime
  /\ Money
  /\ Settled
  /\ LogSoFar
  /\ LoggedCostIsActual
  /\ ReservationHasOwner
  /\ OneStreamPerKey


\* A coroutine takes the loop only when it is free and keeps it until its next await.
LEMMA OneCoroutineStep ==
  ASSUME TypeOK, OneCoroutineAtATime, [Next]_vars
  PROVE OneCoroutineAtATime'
<1> USE RequestsAssumption, KeysAssumption, RouteAssumption, AmountAssumption
<1> USE DEF TypeOK, OneCoroutineAtATime, Held, Streaming, Busy, Ended
<1>1. ASSUME NEW r \in Requests, Arrive(r) \/ Forbid(r) \/ Break(r) PROVE OneCoroutineAtATime'
  BY <1>1 DEF Arrive, PassGate, Refuse, Forbid, Break, Loses
<1>2. ASSUME NEW r \in Requests, Admit(r) \/ ClaimKey(r) PROVE OneCoroutineAtATime'
  BY <1>2 DEF Admit, ClaimKey, Loses
<1>3. ASSUME NEW r \in Requests, KeyTaken(r) PROVE OneCoroutineAtATime'
  BY <1>3 DEF KeyTaken, DropRow, Loses
<1>4. ASSUME NEW r \in Requests, QuoteReserve(r) \/ EmptyWallet(r) PROVE OneCoroutineAtATime'
  BY <1>4 DEF QuoteReserve, EmptyWallet, ReadyToQuote, Lesser
<1>5. ASSUME NEW r \in Requests, PreReserve(r) \/ PreReserveFails(r) PROVE OneCoroutineAtATime'
  BY <1>5 DEF PreReserve, PreReserveFails
<1>6. ASSUME NEW r \in Requests, Upstream(r) PROVE OneCoroutineAtATime'
  BY <1>6 DEF Upstream, DoneChunk, LogAnswer, ErrorChunk, NoticeFreeze, ClientGone, Loses
<1>7. ASSUME NEW r \in Requests, MarkDone(r) PROVE OneCoroutineAtATime'
  BY <1>7 DEF MarkDone, LogAnswer, Loses
<1>8. ASSUME NEW r \in Requests, MarkError(r) PROVE OneCoroutineAtATime'
  BY <1>8 DEF MarkError, Loses
<1>9. ASSUME NEW r \in Requests, BeginSettle(r) PROVE OneCoroutineAtATime'
  BY <1>9 DEF BeginSettle, LogAtEnd, Loses
<1>10. ASSUME NEW r \in Requests, SettleExact(r) \/ SettleRefund(r) \/ SettleExtra(r) PROVE OneCoroutineAtATime'
  BY <1>10 DEF SettleExact, SettleRefund, SettleExtra
<1>11. ASSUME NEW r \in Requests, SettleExtraFails(r) \/ SettlePartial(r) PROVE OneCoroutineAtATime'
  BY <1>11 DEF SettleExtraFails, SettlePartial, Lesser, Loses
<1>12. ASSUME NEW r \in Requests, SettleRefundLost(r) \/ SettleAborts(r) PROVE OneCoroutineAtATime'
  BY <1>12 DEF SettleRefundLost, SettleAborts, Loses
<1>13. ASSUME NEW r \in Requests, Release(r) PROVE OneCoroutineAtATime'
  BY <1>13 DEF Release, Backfills, DropRow, Loses
<1>14. ASSUME NEW r \in Requests, AbortWithoutCleanup(r) \/ Lapse(r) PROVE OneCoroutineAtATime'
  BY <1>14 DEF AbortWithoutCleanup, Lapse
<1>15. ASSUME NEW a \in Amounts, TopUp(a) \/ OtherDebit(a) PROVE OneCoroutineAtATime'
  BY <1>15 DEF TopUp, OtherDebit
<1>16. ASSUME NEW k \in Keys, DropOldKey(k) PROVE OneCoroutineAtATime'
  BY <1>16 DEF DropOldKey
<1>17. CASE FreezeUser \/ UnfreezeUser \/ RevokeCredentials \/ PurgeReservations
  BY <1>17 DEF FreezeUser, UnfreezeUser, RevokeCredentials, PurgeReservations
<1>18. CASE Crash
  BY <1>18 DEF Crash
<1>19. CASE UNCHANGED vars
  BY <1>19 DEF vars
<1> QED
  BY <1>1, <1>2, <1>3, <1>4, <1>5, <1>6, <1>7, <1>8, <1>9, <1>10, <1>11, <1>12,
    <1>13, <1>14, <1>15, <1>16, <1>17, <1>18, <1>19
  DEF Next, Arrive, Coroutine, Prepare, Mark, Settle

\* The pre-reserve is what a running stream holds, and nothing else touches it.
LEMMA MoneyStep ==
  ASSUME TypeOK, OneCoroutineAtATime, Money, [Next]_vars
  PROVE Money'
<1> USE RequestsAssumption, KeysAssumption, RouteAssumption, AmountAssumption
<1> USE DEF TypeOK, OneCoroutineAtATime, Money, Unbilled, Held, Streaming, Busy, Ended
<1>1. ASSUME NEW r \in Requests, Arrive(r) \/ Forbid(r) \/ Break(r) PROVE Money'
  BY <1>1 DEF Arrive, PassGate, Refuse, Forbid, Break, Loses
<1>2. ASSUME NEW r \in Requests, Admit(r) \/ ClaimKey(r) PROVE Money'
  BY <1>2 DEF Admit, ClaimKey, Loses
<1>3. ASSUME NEW r \in Requests, KeyTaken(r) PROVE Money'
  BY <1>3 DEF KeyTaken, DropRow, Loses
<1>4. ASSUME NEW r \in Requests, QuoteReserve(r) \/ EmptyWallet(r) PROVE Money'
  BY <1>4 DEF QuoteReserve, EmptyWallet, ReadyToQuote, Lesser
<1>5. ASSUME NEW r \in Requests, PreReserve(r) \/ PreReserveFails(r) PROVE Money'
  BY <1>5 DEF PreReserve, PreReserveFails
<1>6. ASSUME NEW r \in Requests, Upstream(r) PROVE Money'
  BY <1>6 DEF Upstream, DoneChunk, LogAnswer, ErrorChunk, NoticeFreeze, ClientGone, Loses
<1>7. ASSUME NEW r \in Requests, MarkDone(r) PROVE Money'
  BY <1>7 DEF MarkDone, LogAnswer, Loses
<1>8. ASSUME NEW r \in Requests, MarkError(r) PROVE Money'
  BY <1>8 DEF MarkError, Loses
<1>9. ASSUME NEW r \in Requests, BeginSettle(r) PROVE Money'
  BY <1>9 DEF BeginSettle, LogAtEnd, Loses
<1>10. ASSUME NEW r \in Requests, SettleExact(r) \/ SettleRefund(r) \/ SettleExtra(r) PROVE Money'
  BY <1>10 DEF SettleExact, SettleRefund, SettleExtra
<1>11. ASSUME NEW r \in Requests, SettleExtraFails(r) \/ SettlePartial(r) PROVE Money'
  BY <1>11 DEF SettleExtraFails, SettlePartial, Lesser, Loses
<1>12. ASSUME NEW r \in Requests, SettleRefundLost(r) \/ SettleAborts(r) PROVE Money'
  BY <1>12 DEF SettleRefundLost, SettleAborts, Loses
<1>13. ASSUME NEW r \in Requests, Release(r) PROVE Money'
  BY <1>13 DEF Release, Backfills, DropRow, Loses
<1>14. ASSUME NEW r \in Requests, AbortWithoutCleanup(r) \/ Lapse(r) PROVE Money'
  BY <1>14 DEF AbortWithoutCleanup, Lapse
<1>15. ASSUME NEW a \in Amounts, TopUp(a) \/ OtherDebit(a) PROVE Money'
  BY <1>15 DEF TopUp, OtherDebit
<1>16. ASSUME NEW k \in Keys, DropOldKey(k) PROVE Money'
  BY <1>16 DEF DropOldKey
<1>17. CASE FreezeUser \/ UnfreezeUser \/ RevokeCredentials \/ PurgeReservations
  BY <1>17 DEF FreezeUser, UnfreezeUser, RevokeCredentials, PurgeReservations
<1>18. CASE Crash
  BY <1>18 DEF Crash
<1>19. CASE UNCHANGED vars
  BY <1>19 DEF vars
<1> QED
  BY <1>1, <1>2, <1>3, <1>4, <1>5, <1>6, <1>7, <1>8, <1>9, <1>10, <1>11, <1>12,
    <1>13, <1>14, <1>15, <1>16, <1>17, <1>18, <1>19
  DEF Next, Arrive, Coroutine, Prepare, Mark, Settle

\* Every way through the reconciliation charges the actual cost.
LEMMA SettledStep ==
  ASSUME TypeOK, Money, Settled, [Next]_vars
  PROVE Settled'
<1> USE RequestsAssumption, KeysAssumption, RouteAssumption, AmountAssumption
<1> USE DEF TypeOK, Money, Settled, Unsettled, Held, Streaming, Busy, Ended
<1>1. ASSUME NEW r \in Requests, Arrive(r) \/ Forbid(r) \/ Break(r) PROVE Settled'
  BY <1>1 DEF Arrive, PassGate, Refuse, Forbid, Break, Loses
<1>2. ASSUME NEW r \in Requests, Admit(r) \/ ClaimKey(r) PROVE Settled'
  BY <1>2 DEF Admit, ClaimKey, Loses
<1>3. ASSUME NEW r \in Requests, KeyTaken(r) PROVE Settled'
  BY <1>3 DEF KeyTaken, DropRow, Loses
<1>4. ASSUME NEW r \in Requests, QuoteReserve(r) \/ EmptyWallet(r) PROVE Settled'
  BY <1>4 DEF QuoteReserve, EmptyWallet, ReadyToQuote, Lesser
<1>5. ASSUME NEW r \in Requests, PreReserve(r) \/ PreReserveFails(r) PROVE Settled'
  BY <1>5 DEF PreReserve, PreReserveFails
<1>6. ASSUME NEW r \in Requests, Upstream(r) PROVE Settled'
  BY <1>6 DEF Upstream, DoneChunk, LogAnswer, ErrorChunk, NoticeFreeze, ClientGone, Loses
<1>7. ASSUME NEW r \in Requests, MarkDone(r) PROVE Settled'
  BY <1>7 DEF MarkDone, LogAnswer, Loses
<1>8. ASSUME NEW r \in Requests, MarkError(r) PROVE Settled'
  BY <1>8 DEF MarkError, Loses
<1>9. ASSUME NEW r \in Requests, BeginSettle(r) PROVE Settled'
  BY <1>9 DEF BeginSettle, LogAtEnd, Loses
<1>10. ASSUME NEW r \in Requests, SettleExact(r) \/ SettleRefund(r) \/ SettleExtra(r) PROVE Settled'
  BY <1>10 DEF SettleExact, SettleRefund, SettleExtra
<1>11. ASSUME NEW r \in Requests, SettleExtraFails(r) \/ SettlePartial(r) PROVE Settled'
  BY <1>11 DEF SettleExtraFails, SettlePartial, Lesser, Loses
<1>12. ASSUME NEW r \in Requests, SettleRefundLost(r) \/ SettleAborts(r) PROVE Settled'
  BY <1>12 DEF SettleRefundLost, SettleAborts, Loses
<1>13. ASSUME NEW r \in Requests, Release(r) PROVE Settled'
  BY <1>13 DEF Release, Backfills, DropRow, Loses
<1>14. ASSUME NEW r \in Requests, AbortWithoutCleanup(r) \/ Lapse(r) PROVE Settled'
  BY <1>14 DEF AbortWithoutCleanup, Lapse
<1>15. ASSUME NEW a \in Amounts, TopUp(a) \/ OtherDebit(a) PROVE Settled'
  BY <1>15 DEF TopUp, OtherDebit
<1>16. ASSUME NEW k \in Keys, DropOldKey(k) PROVE Settled'
  BY <1>16 DEF DropOldKey
<1>17. CASE FreezeUser \/ UnfreezeUser \/ RevokeCredentials \/ PurgeReservations
  BY <1>17 DEF FreezeUser, UnfreezeUser, RevokeCredentials, PurgeReservations
<1>18. CASE Crash
  BY <1>18 DEF Crash
<1>19. CASE UNCHANGED vars
  BY <1>19 DEF vars
<1> QED
  BY <1>1, <1>2, <1>3, <1>4, <1>5, <1>6, <1>7, <1>8, <1>9, <1>10, <1>11, <1>12,
    <1>13, <1>14, <1>15, <1>16, <1>17, <1>18, <1>19
  DEF Next, Arrive, Coroutine, Prepare, Mark, Settle

\* A usage row holds zero or the cost until the tail has written it back.
LEMMA LogStep ==
  ASSUME TypeOK, Money, LogSoFar, LoggedCostIsActual, [Next]_vars
  PROVE LogSoFar' /\ LoggedCostIsActual'
<1> USE RequestsAssumption, KeysAssumption, RouteAssumption, AmountAssumption
<1> USE DEF TypeOK, Money, LogSoFar, LoggedCostIsActual, NoRow, Held, Streaming, Busy, Ended
<1>1. ASSUME NEW r \in Requests, Arrive(r) \/ Forbid(r) \/ Break(r) PROVE LogSoFar' /\ LoggedCostIsActual'
  BY <1>1 DEF Arrive, PassGate, Refuse, Forbid, Break, Loses
<1>2. ASSUME NEW r \in Requests, Admit(r) \/ ClaimKey(r) PROVE LogSoFar' /\ LoggedCostIsActual'
  BY <1>2 DEF Admit, ClaimKey, Loses
<1>3. ASSUME NEW r \in Requests, KeyTaken(r) PROVE LogSoFar' /\ LoggedCostIsActual'
  BY <1>3 DEF KeyTaken, DropRow, Loses
<1>4. ASSUME NEW r \in Requests, QuoteReserve(r) \/ EmptyWallet(r) PROVE LogSoFar' /\ LoggedCostIsActual'
  BY <1>4 DEF QuoteReserve, EmptyWallet, ReadyToQuote, Lesser
<1>5. ASSUME NEW r \in Requests, PreReserve(r) \/ PreReserveFails(r) PROVE LogSoFar' /\ LoggedCostIsActual'
  BY <1>5 DEF PreReserve, PreReserveFails
<1>6. ASSUME NEW r \in Requests, Upstream(r) PROVE LogSoFar' /\ LoggedCostIsActual'
  BY <1>6 DEF Upstream, DoneChunk, LogAnswer, ErrorChunk, NoticeFreeze, ClientGone, Loses
<1>7. ASSUME NEW r \in Requests, MarkDone(r) PROVE LogSoFar' /\ LoggedCostIsActual'
  BY <1>7 DEF MarkDone, LogAnswer, Loses
<1>8. ASSUME NEW r \in Requests, MarkError(r) PROVE LogSoFar' /\ LoggedCostIsActual'
  BY <1>8 DEF MarkError, Loses
<1>9. ASSUME NEW r \in Requests, BeginSettle(r) PROVE LogSoFar' /\ LoggedCostIsActual'
  BY <1>9 DEF BeginSettle, LogAtEnd, Loses
<1>10. ASSUME NEW r \in Requests, SettleExact(r) \/ SettleRefund(r) \/ SettleExtra(r) PROVE LogSoFar' /\ LoggedCostIsActual'
  BY <1>10 DEF SettleExact, SettleRefund, SettleExtra
<1>11. ASSUME NEW r \in Requests, SettleExtraFails(r) \/ SettlePartial(r) PROVE LogSoFar' /\ LoggedCostIsActual'
  BY <1>11 DEF SettleExtraFails, SettlePartial, Lesser, Loses
<1>12. ASSUME NEW r \in Requests, SettleRefundLost(r) \/ SettleAborts(r) PROVE LogSoFar' /\ LoggedCostIsActual'
  BY <1>12 DEF SettleRefundLost, SettleAborts, Loses
<1>13. ASSUME NEW r \in Requests, Release(r) PROVE LogSoFar' /\ LoggedCostIsActual'
  <2>1. /\ pc[r] = "releasing" /\ pc' = [pc EXCEPT ![r] = "done"]
        /\ UNCHANGED <<reserve, cost>>
        /\ \A q \in Requests : q # r => logged'[q] = logged[q] /\ lost'[q] = lost[q]
    BY <1>13 DEF Release, DropRow, Loses
  <2>2. \/ Backfills(r) /\ (logged'[r] = cost[r] \/ (logged'[r] = logged[r] /\ "row" \in lost'[r]))
        \/ ~Backfills(r) /\ logged'[r] = logged[r] /\ lost[r] \subseteq lost'[r]
    <3>1. lost[r] \subseteq lost'[r]
      <4>1. PICK ws : lost' = [lost EXCEPT ![r] = @ \union ws]
        BY <1>13, Zenon DEF Release, DropRow, Loses
      <4> QED
        BY <4>1
    <3>2. CASE Backfills(r)
      BY <1>13, <3>2 DEF Release, DropRow, Loses
    <3>3. CASE ~Backfills(r)
      BY <1>13, <3>1, <3>3 DEF Release
    <3> QED
      BY <3>2, <3>3
  <2>3. logged[r] \in {NoRow, 0, cost[r]}
    BY <2>1
  <2>4. reserve[r] > 0 /\ logged'[r] # NoRow =>
          \/ logged'[r] = cost[r]
          \/ logged'[r] = 0 /\ ("settlement" \in lost'[r] \/ "row" \in lost'[r])
    BY <2>2, <2>3 DEF Backfills
  <2> QED
    BY <2>1, <2>4
<1>14. ASSUME NEW r \in Requests, AbortWithoutCleanup(r) \/ Lapse(r) PROVE LogSoFar' /\ LoggedCostIsActual'
  BY <1>14 DEF AbortWithoutCleanup, Lapse
<1>15. ASSUME NEW a \in Amounts, TopUp(a) \/ OtherDebit(a) PROVE LogSoFar' /\ LoggedCostIsActual'
  BY <1>15 DEF TopUp, OtherDebit
<1>16. ASSUME NEW k \in Keys, DropOldKey(k) PROVE LogSoFar' /\ LoggedCostIsActual'
  BY <1>16 DEF DropOldKey
<1>17. CASE FreezeUser \/ UnfreezeUser \/ RevokeCredentials \/ PurgeReservations
  BY <1>17 DEF FreezeUser, UnfreezeUser, RevokeCredentials, PurgeReservations
<1>18. CASE Crash
  BY <1>18 DEF Crash
<1>19. CASE UNCHANGED vars
  BY <1>19 DEF vars
<1> QED
  BY <1>1, <1>2, <1>3, <1>4, <1>5, <1>6, <1>7, <1>8, <1>9, <1>10, <1>11, <1>12,
    <1>13, <1>14, <1>15, <1>16, <1>17, <1>18, <1>19
  DEF Next, Arrive, Coroutine, Prepare, Mark, Settle

\* No step gives a released request its reservation row back.
LEMMA OwnerStep ==
  ASSUME TypeOK, ReservationHasOwner, [Next]_vars
  PROVE ReservationHasOwner'
<1> USE RequestsAssumption, KeysAssumption, RouteAssumption, AmountAssumption
<1> USE DEF TypeOK, ReservationHasOwner, Held, Streaming, Busy, Ended
<1>1. ASSUME NEW r \in Requests, Arrive(r) \/ Forbid(r) \/ Break(r) PROVE ReservationHasOwner'
  BY <1>1 DEF Arrive, PassGate, Refuse, Forbid, Break, Loses
<1>2. ASSUME NEW r \in Requests, Admit(r) \/ ClaimKey(r) PROVE ReservationHasOwner'
  BY <1>2 DEF Admit, ClaimKey, Loses
<1>3. ASSUME NEW r \in Requests, KeyTaken(r) PROVE ReservationHasOwner'
  BY <1>3 DEF KeyTaken, DropRow, Loses
<1>4. ASSUME NEW r \in Requests, QuoteReserve(r) \/ EmptyWallet(r) PROVE ReservationHasOwner'
  BY <1>4 DEF QuoteReserve, EmptyWallet, ReadyToQuote, Lesser
<1>5. ASSUME NEW r \in Requests, PreReserve(r) \/ PreReserveFails(r) PROVE ReservationHasOwner'
  BY <1>5 DEF PreReserve, PreReserveFails
<1>6. ASSUME NEW r \in Requests, Upstream(r) PROVE ReservationHasOwner'
  BY <1>6 DEF Upstream, DoneChunk, LogAnswer, ErrorChunk, NoticeFreeze, ClientGone, Loses
<1>7. ASSUME NEW r \in Requests, MarkDone(r) PROVE ReservationHasOwner'
  BY <1>7 DEF MarkDone, LogAnswer, Loses
<1>8. ASSUME NEW r \in Requests, MarkError(r) PROVE ReservationHasOwner'
  BY <1>8 DEF MarkError, Loses
<1>9. ASSUME NEW r \in Requests, BeginSettle(r) PROVE ReservationHasOwner'
  BY <1>9 DEF BeginSettle, LogAtEnd, Loses
<1>10. ASSUME NEW r \in Requests, SettleExact(r) \/ SettleRefund(r) \/ SettleExtra(r) PROVE ReservationHasOwner'
  BY <1>10 DEF SettleExact, SettleRefund, SettleExtra
<1>11. ASSUME NEW r \in Requests, SettleExtraFails(r) \/ SettlePartial(r) PROVE ReservationHasOwner'
  BY <1>11 DEF SettleExtraFails, SettlePartial, Lesser, Loses
<1>12. ASSUME NEW r \in Requests, SettleRefundLost(r) \/ SettleAborts(r) PROVE ReservationHasOwner'
  BY <1>12 DEF SettleRefundLost, SettleAborts, Loses
<1>13. ASSUME NEW r \in Requests, Release(r) PROVE ReservationHasOwner'
  BY <1>13 DEF Release, Backfills, DropRow, Loses
<1>14. ASSUME NEW r \in Requests, AbortWithoutCleanup(r) \/ Lapse(r) PROVE ReservationHasOwner'
  BY <1>14 DEF AbortWithoutCleanup, Lapse
<1>15. ASSUME NEW a \in Amounts, TopUp(a) \/ OtherDebit(a) PROVE ReservationHasOwner'
  BY <1>15 DEF TopUp, OtherDebit
<1>16. ASSUME NEW k \in Keys, DropOldKey(k) PROVE ReservationHasOwner'
  BY <1>16 DEF DropOldKey
<1>17. CASE FreezeUser \/ UnfreezeUser \/ RevokeCredentials \/ PurgeReservations
  BY <1>17 DEF FreezeUser, UnfreezeUser, RevokeCredentials, PurgeReservations
<1>18. CASE Crash
  BY <1>18 DEF Crash
<1>19. CASE UNCHANGED vars
  BY <1>19 DEF vars
<1> QED
  BY <1>1, <1>2, <1>3, <1>4, <1>5, <1>6, <1>7, <1>8, <1>9, <1>10, <1>11, <1>12,
    <1>13, <1>14, <1>15, <1>16, <1>17, <1>18, <1>19
  DEF Next, Arrive, Coroutine, Prepare, Mark, Settle

\* A key row changes hands only when its stream is over.
LEMMA KeyStep ==
  ASSUME TypeOK, OneStreamPerKey, [Next]_vars
  PROVE OneStreamPerKey'
<1> USE RequestsAssumption, KeysAssumption, RouteAssumption, AmountAssumption
<1> USE DEF TypeOK, OneStreamPerKey, HoldsKey, UsesKey, Held, Streaming, Busy, Ended
<1>1. ASSUME NEW r \in Requests, Arrive(r) \/ Forbid(r) \/ Break(r) PROVE OneStreamPerKey'
  BY <1>1 DEF Arrive, PassGate, Refuse, Forbid, Break, Loses
<1>2. ASSUME NEW r \in Requests, Admit(r) \/ ClaimKey(r) PROVE OneStreamPerKey'
  <2>1. CASE Admit(r)
    BY <2>1 DEF Admit, Loses
  <2>2. CASE ClaimKey(r)
    BY <2>2 DEF ClaimKey
  <2> QED
    BY <1>2, <2>1, <2>2
<1>3. ASSUME NEW r \in Requests, KeyTaken(r) PROVE OneStreamPerKey'
  BY <1>3 DEF KeyTaken, DropRow, Loses
<1>4. ASSUME NEW r \in Requests, QuoteReserve(r) \/ EmptyWallet(r) PROVE OneStreamPerKey'
  BY <1>4 DEF QuoteReserve, EmptyWallet, ReadyToQuote, Lesser
<1>5. ASSUME NEW r \in Requests, PreReserve(r) \/ PreReserveFails(r) PROVE OneStreamPerKey'
  BY <1>5 DEF PreReserve, PreReserveFails
<1>6. ASSUME NEW r \in Requests, Upstream(r) PROVE OneStreamPerKey'
  BY <1>6 DEF Upstream, DoneChunk, LogAnswer, ErrorChunk, NoticeFreeze, ClientGone, Loses
<1>7. ASSUME NEW r \in Requests, MarkDone(r) PROVE OneStreamPerKey'
  BY <1>7 DEF MarkDone, LogAnswer, Loses
<1>8. ASSUME NEW r \in Requests, MarkError(r) PROVE OneStreamPerKey'
  BY <1>8 DEF MarkError, Loses
<1>9. ASSUME NEW r \in Requests, BeginSettle(r) PROVE OneStreamPerKey'
  BY <1>9 DEF BeginSettle, LogAtEnd, Loses
<1>10. ASSUME NEW r \in Requests, SettleExact(r) \/ SettleRefund(r) \/ SettleExtra(r) PROVE OneStreamPerKey'
  BY <1>10 DEF SettleExact, SettleRefund, SettleExtra
<1>11. ASSUME NEW r \in Requests, SettleExtraFails(r) \/ SettlePartial(r) PROVE OneStreamPerKey'
  BY <1>11 DEF SettleExtraFails, SettlePartial, Lesser, Loses
<1>12. ASSUME NEW r \in Requests, SettleRefundLost(r) \/ SettleAborts(r) PROVE OneStreamPerKey'
  BY <1>12 DEF SettleRefundLost, SettleAborts, Loses
<1>13. ASSUME NEW r \in Requests, Release(r) PROVE OneStreamPerKey'
  BY <1>13 DEF Release, Backfills, DropRow, Loses
<1>14. ASSUME NEW r \in Requests, AbortWithoutCleanup(r) \/ Lapse(r) PROVE OneStreamPerKey'
  BY <1>14 DEF AbortWithoutCleanup, Lapse
<1>15. ASSUME NEW a \in Amounts, TopUp(a) \/ OtherDebit(a) PROVE OneStreamPerKey'
  BY <1>15 DEF TopUp, OtherDebit
<1>16. ASSUME NEW k \in Keys, DropOldKey(k) PROVE OneStreamPerKey'
  BY <1>16 DEF DropOldKey
<1>17. CASE FreezeUser \/ UnfreezeUser \/ RevokeCredentials \/ PurgeReservations
  BY <1>17 DEF FreezeUser, UnfreezeUser, RevokeCredentials, PurgeReservations
<1>18. CASE Crash
  BY <1>18 DEF Crash
<1>19. CASE UNCHANGED vars
  BY <1>19 DEF vars
<1> QED
  BY <1>1, <1>2, <1>3, <1>4, <1>5, <1>6, <1>7, <1>8, <1>9, <1>10, <1>11, <1>12,
    <1>13, <1>14, <1>15, <1>16, <1>17, <1>18, <1>19
  DEF Next, Arrive, Coroutine, Prepare, Mark, Settle

----------------------------------------------------------------------------
(* The invariant holds, and what follows from it *)

\* The first state.
LEMMA Initially == Init => IInv
<1> USE RequestsAssumption, KeysAssumption, RouteAssumption, AmountAssumption
<1> SUFFICES ASSUME Init PROVE IInv
  OBVIOUS
<1>1. TypeOK
  BY DEF Init, TypeOK, NoRow, Held, Streaming, Busy, Ended
<1>2. Money /\ Settled /\ LogSoFar /\ LoggedCostIsActual
  BY DEF Init, Money, Settled, LogSoFar, LoggedCostIsActual, Unbilled, NoRow, Held, Streaming, Busy
<1>3. OneCoroutineAtATime /\ ReservationHasOwner /\ OneStreamPerKey
  BY DEF Init, OneCoroutineAtATime, ReservationHasOwner, OneStreamPerKey, HoldsKey, Held
<1> QED
  BY <1>1, <1>2, <1>3 DEF IInv

\* The invariant is inductive: every behaviour stays inside it.
THEOREM Inductive == Spec => []IInv
<1>1. IInv /\ [Next]_vars /\ TypeOK' => IInv'
  BY OneCoroutineStep, MoneyStep, SettledStep, LogStep, OwnerStep, KeyStep DEF IInv
<1> QED
  BY <1>1, Initially, TypeCorrect, PTL DEF Spec

\* A reconciled stream cost what it was quoted, up to the tolerance and the audited
\* shortfall, whatever other requests, payments and jobs did to the wallet meanwhile; one
\* whose refund or settlement the database refused cost its reserve.
THEOREM SettlementCorrect == Spec => []SettledExactly
<1>1. IInv => SettledExactly
  BY DEF IInv, Settled, SettledExactly
<1> QED
  BY <1>1, Inductive, PTL

\* A request that was refused, replayed, forbidden or found no credits has paid nothing.
THEOREM NoServiceNoCharge == Spec => []NoChargeWithoutService
<1>1. IInv => NoChargeWithoutService
  BY DEF IInv, Money, Unbilled, NoChargeWithoutService
<1> QED
  BY <1>1, Inductive, PTL

\* Neither an abort nor a crash takes more from a user than the pre-reserve, and no
\* request pays out credits.
THEOREM ChargeBounded == Spec => []PaysAtMost
<1>1. IInv => PaysAtMost
  <2> SUFFICES ASSUME IInv, NEW r \in Requests
               PROVE net[r] >= 0 /\ (net[r] <= reserve[r] \/ net[r] <= cost[r])
    BY DEF PaysAtMost
  <2>1. /\ net[r] \in Int /\ reserve[r] \in Nat
        /\ pc[r] \in Busy \union Ended \union {"new"}
    BY DEF IInv, TypeOK
  <2>2. CASE pc[r] \in {"releasing", "done", "cut"}
    BY <2>2 DEF IInv, Settled
  <2>3. CASE pc[r] \notin {"releasing", "done", "cut"}
    BY <2>1, <2>3 DEF IInv, Money, Unbilled, Busy, Held, Streaming, Ended
  <2> QED
    BY <2>2, <2>3
<1> QED
  BY <1>1, Inductive, PTL

\* Two streams with one Idempotency-Key never run at once, through any interleaving of
\* claims, completions, errors, sweeps and crashes.
THEOREM KeyExclusive == Spec => []OneStreamPerKey
<1>1. IInv => OneStreamPerKey
  BY DEF IInv
<1> QED
  BY <1>1, Inductive, PTL

\* A reservation row never outlives the regular end of its request, if its release was not
\* refused.
THEOREM ReservationsOwned == Spec => []ReservationHasOwner
<1>1. IInv => ReservationHasOwner
  BY DEF IInv
<1> QED
  BY <1>1, Inductive, PTL

\* The usage row of a reconciled stream shows its actual cost, or none if the settlement or
\* the write of that cost was refused and swallowed.
THEOREM LogCorrect == Spec => []LoggedCostIsActual
<1>1. IInv => LoggedCostIsActual
  BY DEF IInv
<1> QED
  BY <1>1, Inductive, PTL

----------------------------------------------------------------------------
(* Conservation: the sum over all requests changes by what one request moves *)

\* The sum of what the requests hold is a number.
LEMMA HoldingsAreInt ==
  ASSUME TypeOK
  PROVE balance \in Int /\ funds \in Int /\ Sum(net, Requests) \in Int
<1>1. \A r \in Requests : net[r] \in Int
  BY DEF TypeOK
<1>2. Sum(net, Requests) \in Int
  BY <1>1, FiniteAssumption, SumInt
<1> QED
  BY <1>2 DEF TypeOK

\* A request that moves c credits out of the wallet holds c more.
LEMMA HandlerConserves ==
  ASSUME TypeOK, Conservation, NEW r \in Requests, NEW c \in Int,
         balance' = balance - c, net' = [net EXCEPT ![r] = net[r] + c], funds' = funds
  PROVE Conservation'
<1>1. net \in [Requests -> Int]
  BY DEF TypeOK
<1>2. Sum(net', Requests) = Sum(net, Requests) + c
  BY <1>1, FiniteAssumption, SumPlus, ZenonT(60)
<1>3. balance \in Int /\ funds \in Int /\ Sum(net, Requests) \in Int
  BY HoldingsAreInt
<1>4. balance' + Sum(net', Requests) = balance + Sum(net, Requests)
  BY <1>2, <1>3
<1> QED
  BY <1>4 DEF Conservation

\* A step outside the handlers moves the wallet and what came in alike.
LEMMA OthersConserve ==
  ASSUME TypeOK, Conservation, NEW c \in Int,
         balance' = balance + c, funds' = funds + c, net' = net
  PROVE Conservation'
<1>1. balance \in Int /\ funds \in Int /\ Sum(net, Requests) \in Int
  BY HoldingsAreInt
<1> QED
  BY <1>1 DEF Conservation

\* No step makes or loses credits.
LEMMA ConservationStep ==
  ASSUME TypeOK, Money, Conservation, [Next]_vars
  PROVE Conservation'
<1>1. CASE UNCHANGED <<balance, net, funds>>
  BY <1>1 DEF Conservation
<1>2. ASSUME NEW r \in Requests, Settle(r), ~UNCHANGED <<balance, net, funds>>
      PROVE Conservation'
  <2>1. balance \in Nat /\ reserve[r] \in Nat /\ cost[r] \in Nat /\ net[r] \in Int
    BY DEF TypeOK
  <2>2. CASE SettleRefund(r)
    <3> DEFINE c == cost[r] - reserve[r]
    <3>1. /\ balance' = balance + (reserve[r] - cost[r]) /\ funds' = funds
          /\ net' = [net EXCEPT ![r] = net[r] - (reserve[r] - cost[r])]
      BY <2>2 DEF SettleRefund
    <3>2. /\ c \in Int /\ balance + (reserve[r] - cost[r]) = balance - c
          /\ net[r] - (reserve[r] - cost[r]) = net[r] + c
      BY <2>1
    <3> HIDE DEF c
    <3>3. balance' = balance - c /\ net' = [net EXCEPT ![r] = net[r] + c]
      BY <3>1, <3>2, Zenon
    <3> QED
      BY <3>1, <3>2, <3>3, HandlerConserves
  <2>3. CASE SettleExtra(r)
    <3> DEFINE c == cost[r] - reserve[r]
    <3>1. /\ c \in Int /\ balance' = balance - c /\ funds' = funds
          /\ net' = [net EXCEPT ![r] = net[r] + c]
      BY <2>1, <2>3 DEF SettleExtra
    <3> HIDE DEF c
    <3> QED
      BY <3>1, HandlerConserves
  <2>4. CASE SettlePartial(r)
    <3> DEFINE c == Lesser(cost[r] - reserve[r], balance)
    <3>1. /\ c \in Int /\ balance' = balance - c /\ funds' = funds
          /\ net' = [net EXCEPT ![r] = net[r] + c]
      BY <2>1, <2>4 DEF SettlePartial, Lesser
    <3> HIDE DEF c
    <3> QED
      BY <3>1, HandlerConserves
  <2> QED
    BY <1>2, <2>2, <2>3, <2>4
    DEF Settle, SettleExact, SettleRefundLost, SettleAborts, SettleExtraFails, Release
<1>3. ASSUME NEW r \in Requests, PreReserve(r) PROVE Conservation'
  <2> DEFINE c == reserve[r]
  <2>1. c \in Int /\ balance' = balance - c /\ funds' = funds
    BY <1>3 DEF PreReserve, TypeOK
  <2>2. net[r] = 0
    BY <1>3 DEF PreReserve, Money, Unbilled
  <2>3. net' = [net EXCEPT ![r] = net[r] + c]
    <3>1. net[r] + c = c
      BY <2>1, <2>2
    <3>2. net' = [net EXCEPT ![r] = c]
      BY <1>3 DEF PreReserve
    <3> HIDE DEF c
    <3> QED
      BY <3>1, <3>2, Zenon
  <2> HIDE DEF c
  <2> QED
    BY <2>1, <2>3, HandlerConserves
<1>4. ASSUME NEW a \in Amounts, TopUp(a) \/ OtherDebit(a) PROVE Conservation'
  <2>1. a \in Int /\ -a \in Int /\ balance \in Int /\ funds \in Int
    BY HoldingsAreInt, AmountAssumption
  <2>2. CASE TopUp(a)
    BY <2>1, <2>2, OthersConserve DEF TopUp
  <2>3. CASE OtherDebit(a)
    <3>1. balance' = balance + (-a) /\ funds' = funds + (-a) /\ net' = net
      BY <2>1, <2>3 DEF OtherDebit
    <3> QED
      BY <2>1, <3>1, OthersConserve
  <2> QED
    BY <1>4, <2>2, <2>3
<1>5. ASSUME NEW r \in Requests,
       Arrive(r) \/ Forbid(r) \/ Break(r) \/ Prepare(r) \/ AbortWithoutCleanup(r) \/ Lapse(r), ~PreReserve(r)
     PROVE Conservation'
  BY <1>1, <1>5 DEF Arrive, PassGate, Refuse, Forbid, Break, Prepare, Admit, ClaimKey, KeyTaken,
    QuoteReserve, EmptyWallet, PreReserveFails, AbortWithoutCleanup, Lapse
<1>6. ASSUME NEW r \in Requests, Upstream(r) \/ Mark(r) \/ BeginSettle(r) PROVE Conservation'
  BY <1>1, <1>6 DEF Upstream, DoneChunk, ErrorChunk, NoticeFreeze, ClientGone,
    Mark, MarkDone, MarkError, BeginSettle
<1>7. CASE \/ \E k \in Keys : DropOldKey(k)
           \/ FreezeUser \/ UnfreezeUser \/ RevokeCredentials \/ PurgeReservations
           \/ Crash \/ UNCHANGED vars
  BY <1>1, <1>7 DEF DropOldKey, FreezeUser, UnfreezeUser, RevokeCredentials,
    PurgeReservations, Crash, vars
<1> QED
  BY <1>1, <1>2, <1>3, <1>4, <1>5, <1>6, <1>7 DEF Next, Coroutine

\* No handler, abort, payment or crash makes or loses credits: the wallet and what the
\* requests hold or paid always add up to what came in from elsewhere.
THEOREM NothingIsLost == Spec => []Conservation
<1>1. Init => Conservation
  <2> SUFFICES ASSUME Init PROVE Conservation
    OBVIOUS
  <2>1. Sum(net, Requests) = 0
    BY FiniteAssumption, SumZero DEF Init
  <2>2. InitBalance \in Nat
    BY AmountAssumption
  <2> QED
    BY <2>1, <2>2 DEF Init, Conservation
<1>2. IInv /\ Conservation /\ [Next]_vars => Conservation'
  BY ConservationStep DEF IInv
<1> QED
  BY <1>1, <1>2, Inductive, PTL DEF Spec

----------------------------------------------------------------------------
(* What a step may never do *)

\* No step moves the money of a stream that is settled.
THEOREM SettledStaysSettled == Spec => SettlementIsFinal
<1>1. ASSUME TypeOK, [Next]_vars, NEW r \in Requests, pc[r] \in {"releasing", "done", "cut"}
      PROVE net'[r] = net[r] /\ short'[r] = short[r]
  <2> USE <1>1 DEF TypeOK, Held, Streaming
  <2>1. ASSUME NEW q \in Requests, Arrive(q) \/ Forbid(q) \/ Break(q) \/ Prepare(q)
        PROVE net'[r] = net[r] /\ short'[r] = short[r]
    BY <2>1 DEF Arrive, PassGate, Refuse, Forbid, Break, Prepare, Admit, ClaimKey, KeyTaken, QuoteReserve,
                EmptyWallet, PreReserve, PreReserveFails
  <2>2. ASSUME NEW q \in Requests, Upstream(q) \/ Mark(q) \/ BeginSettle(q)
        PROVE net'[r] = net[r] /\ short'[r] = short[r]
    BY <2>2 DEF Upstream, DoneChunk, ErrorChunk, NoticeFreeze, ClientGone,
                Mark, MarkDone, MarkError, BeginSettle
  <2>3. ASSUME NEW q \in Requests, Settle(q)
        PROVE net'[r] = net[r] /\ short'[r] = short[r]
    BY <2>3 DEF Settle, SettleExact, SettleRefund, SettleRefundLost, SettleAborts, SettleExtra,
                SettleExtraFails, SettlePartial, Release
  <2>4. ASSUME NEW q \in Requests, AbortWithoutCleanup(q) \/ Lapse(q)
        PROVE net'[r] = net[r] /\ short'[r] = short[r]
    BY <2>4 DEF AbortWithoutCleanup, Lapse
  <2>5. CASE \/ \E a \in Amounts : TopUp(a) \/ OtherDebit(a)
             \/ \E k \in Keys : DropOldKey(k)
             \/ FreezeUser \/ UnfreezeUser \/ RevokeCredentials \/ PurgeReservations \/ Crash
             \/ UNCHANGED vars
    BY <2>5 DEF TopUp, OtherDebit, DropOldKey, FreezeUser, UnfreezeUser, RevokeCredentials,
                PurgeReservations, Crash, vars
  <2> QED
    BY <2>1, <2>2, <2>3, <2>4, <2>5 DEF Next, Coroutine
<1>2. TypeOK /\ [Next]_vars =>
        [\A r \in Requests : pc[r] \in {"releasing", "done", "cut"}
          => net'[r] = net[r] /\ short'[r] = short[r]]_vars
  BY <1>1
<1> QED
  BY <1>2, TypeCorrect, PTL DEF Spec, SettlementIsFinal

\* A step that records a shortfall leaves the wallet at zero.
THEOREM NoNeedlessShortfall == Spec => ShortfallMeansEmpty
<1>1. ASSUME TypeOK, [Next]_vars, NEW r \in Requests, short'[r] # short[r], short'[r] > 0
      PROVE balance' = 0
  <2> USE <1>1 DEF TypeOK
  <2>1. ASSUME NEW q \in Requests, SettlePartial(q) PROVE balance' = 0
    BY <2>1, AmountAssumption DEF SettlePartial, Lesser
  <2>2. ASSUME NEW q \in Requests, Arrive(q) \/ Forbid(q) \/ Break(q) \/ Prepare(q) PROVE FALSE
    BY <2>2 DEF Arrive, PassGate, Refuse, Forbid, Break, Prepare, Admit, ClaimKey, KeyTaken, QuoteReserve,
                EmptyWallet, PreReserve, PreReserveFails
  <2>3. ASSUME NEW q \in Requests, Upstream(q) \/ Mark(q) \/ BeginSettle(q) PROVE FALSE
    BY <2>3 DEF Upstream, DoneChunk, ErrorChunk, NoticeFreeze, ClientGone,
                Mark, MarkDone, MarkError, BeginSettle
  <2>4. ASSUME NEW q \in Requests, Settle(q), ~SettlePartial(q) PROVE FALSE
    BY <2>4 DEF Settle, SettleExact, SettleRefund, SettleRefundLost, SettleAborts, SettleExtra,
                SettleExtraFails, Release
  <2>5. ASSUME NEW q \in Requests, AbortWithoutCleanup(q) \/ Lapse(q) PROVE FALSE
    BY <2>5 DEF AbortWithoutCleanup, Lapse
  <2>6. ~ \/ \E a \in Amounts : TopUp(a) \/ OtherDebit(a)
          \/ \E k \in Keys : DropOldKey(k)
          \/ FreezeUser \/ UnfreezeUser \/ RevokeCredentials \/ PurgeReservations \/ Crash
          \/ UNCHANGED vars
    BY DEF TopUp, OtherDebit, DropOldKey, FreezeUser, UnfreezeUser, RevokeCredentials,
           PurgeReservations, Crash, vars
  <2> QED
    BY <2>1, <2>2, <2>3, <2>4, <2>5, <2>6 DEF Next, Coroutine
<1>2. TypeOK /\ [Next]_vars =>
        [\A r \in Requests : short'[r] # short[r] /\ short'[r] > 0 => balance' = 0]_vars
  BY <1>1
<1> QED
  BY <1>2, TypeCorrect, PTL DEF Spec, ShortfallMeansEmpty

----------------------------------------------------------------------------
(* Refinement *)

\* Where no money and no place in the life of a request changes, the abstract
\* specification stutters.
LEMMA Stutters ==
  ASSUME UNCHANGED <<balance, net, WrittenOff, Stage>>
  PROVE  UNCHANGED Abstract!vars
BY DEF Abstract!vars

\* The pre-reserve is the abstract hold; without a price it is nothing.
LEMMA PreReserveHolds ==
  ASSUME IInv, NEW r \in Requests, PreReserve(r)
  PROVE  [Abstract!Next]_(Abstract!vars)
<1> USE DEF IInv, TypeOK
<1>1. pc[r] = "quoted" /\ net[r] = 0 /\ reserve[r] \in Nat
  BY DEF PreReserve, Money, Unbilled
<1>2. Stage[r] = "idle"
  BY <1>1 DEF Stage, Reconciled, Unsettled
<1>3. /\ balance >= reserve[r] /\ balance' = balance - reserve[r]
      /\ net' = [net EXCEPT ![r] = reserve[r]]
      /\ UNCHANGED <<short, reserve, cost, lost>>
      /\ pc' = [pc EXCEPT ![r] = "streaming"]
  BY DEF PreReserve
<1>4. \A q \in Requests : WrittenOff'[q] = WrittenOff[q]
  <2> TAKE q \in Requests
  <2>1. CASE q = r
    <3>1. "audit" \notin lost[r]
      BY <1>1 DEF Money, Unbilled
    <3> QED
      BY <1>3, <2>1, <3>1 DEF WrittenOff
  <2>2. CASE q # r
    BY <1>3, <2>2 DEF WrittenOff
  <2> QED
    BY <2>1, <2>2
<1>5. WrittenOff' = WrittenOff
  BY <1>4 DEF WrittenOff
<1>6. CASE reserve[r] = 0
  <2>1. UNCHANGED <<balance, net>>
    BY <1>1, <1>3, <1>6
  <2>2. UNCHANGED Stage
    BY <1>1, <1>3, <2>1 DEF Stage, Reconciled, Unsettled
  <2> QED
    BY <1>5, <2>1, <2>2, Stutters
<1>7. CASE reserve[r] > 0
  <2>1. Stage' = [Stage EXCEPT ![r] = "held"]
    BY <1>1, <1>3, <1>7 DEF Stage, Reconciled, Unsettled
  <2>2. reserve[r] \in 1 .. balance
    BY <1>1, <1>3, <1>7
  <2>3. Abstract!Hold(r)
    BY <1>2, <1>3, <1>5, <2>1, <2>2 DEF Abstract!Hold
  <2> QED
    BY <2>3 DEF Abstract!Next
<1> QED
  BY <1>1, <1>6, <1>7

\* A step of the reconciliation that commits is the abstract settlement at cost[r].
LEMMA SettleSettles ==
  ASSUME IInv, NEW r \in Requests,
         SettleExact(r) \/ SettleRefund(r) \/ SettleExtra(r) \/ SettlePartial(r)
  PROVE  Abstract!Next
<1> USE AmountAssumption DEF IInv, TypeOK
<1>1. /\ pc[r] \in {"settling", "partial"}
      /\ pc' = [pc EXCEPT ![r] = "releasing"]
      /\ UNCHANGED <<reserve, cost>>
  BY DEF SettleExact, SettleRefund, SettleExtra, SettlePartial
<1>2. /\ net[r] = reserve[r] /\ short[r] = 0
      /\ reserve[r] > 0 /\ cost[r] \in Costs
  BY <1>1 DEF Money
<1>3. /\ Stage[r] = "held" /\ WrittenOff[r] = 0
      /\ "refund" \notin lost[r] /\ "settlement" \notin lost[r] /\ "audit" \notin lost[r]
  BY <1>1, <1>2 DEF Stage, Reconciled, Unsettled, WrittenOff, Money
<1>4. /\ \A q \in Requests : q # r =>
           net'[q] = net[q] /\ short'[q] = short[q] /\ lost'[q] = lost[q]
      /\ "refund" \notin lost'[r] /\ "settlement" \notin lost'[r]
  BY <1>3 DEF SettleExact, SettleRefund, SettleExtra, SettlePartial, Loses
<1>5. Stage' = [Stage EXCEPT ![r] = "settled"]
  BY <1>1, <1>2, <1>4 DEF Stage, Reconciled, Unsettled
<1>6. Abstract!PayInFull(r, cost[r]) \/ Abstract!PayWhatThereIs(r, cost[r])
  <2>1. \A v : (\A q \in Requests : q # r => WrittenOff'[q] = WrittenOff[q]) /\ WrittenOff'[r] = v
              => WrittenOff' = [WrittenOff EXCEPT ![r] = v]
    BY DEF WrittenOff
  <2>2. \A q \in Requests : q # r => WrittenOff'[q] = WrittenOff[q]
    BY <1>1, <1>4 DEF WrittenOff
  <2>3. ASSUME "audit" \notin lost'[r], short'[r] = 0 PROVE WrittenOff' = WrittenOff
    BY <1>3, <2>2, <2>3 DEF WrittenOff
  <2>4. CASE SettleExact(r)
    BY <1>2, <1>3, <2>3, <2>4 DEF SettleExact, Abstract!PayInFull
  <2>5. CASE SettleRefund(r)
    <3>1. /\ balance + (reserve[r] - cost[r]) = balance + net[r] - cost[r]
          /\ net[r] - (reserve[r] - cost[r]) = cost[r]
          /\ cost[r] \in 0 .. balance + net[r]
          /\ cost[r] - cost[r] \in -Tolerance .. Tolerance
      BY <1>2, <2>5 DEF SettleRefund
    <3>2. WrittenOff' = WrittenOff
      BY <1>2, <1>3, <2>3, <2>5 DEF SettleRefund
    <3> QED
      BY <2>5, <3>1, <3>2 DEF SettleRefund, Abstract!PayInFull
  <2>6. CASE SettleExtra(r)
    <3>1. /\ balance - (cost[r] - reserve[r]) = balance + net[r] - cost[r]
          /\ net[r] + (cost[r] - reserve[r]) = cost[r]
          /\ cost[r] \in 0 .. balance + net[r]
          /\ cost[r] - cost[r] \in -Tolerance .. Tolerance
      BY <1>2, <2>6 DEF SettleExtra
    <3>2. WrittenOff' = WrittenOff
      BY <1>2, <1>3, <2>3, <2>6 DEF SettleExtra
    <3> QED
      BY <2>6, <3>1, <3>2 DEF SettleExtra, Abstract!PayInFull
  <2>7. CASE SettlePartial(r)
    <3> DEFINE needed == cost[r] - reserve[r]
               debit == Lesser(needed, balance)
    <3>1. /\ balance' = balance - debit
          /\ net' = [net EXCEPT ![r] = net[r] + debit]
          /\ \/ short' = [short EXCEPT ![r] = needed - debit] /\ lost' = lost
             \/ needed > debit /\ "audit" \in lost'[r]
      BY <2>7 DEF SettlePartial, Loses
    <3>2. needed > 0 /\ needed \in Nat
      BY <2>7 DEF SettlePartial, Money
    <3>3. CASE needed <= balance
      <4>1. debit = needed
        BY <3>2, <3>3 DEF Lesser
      <4>2. /\ balance - debit = balance + net[r] - cost[r]
            /\ net[r] + debit = cost[r]
            /\ needed - debit = 0
        BY <1>2, <4>1
      <4>3. short'[r] = 0 /\ lost' = lost
        BY <1>2, <3>1, <4>1, <4>2
      <4>4. cost[r] \in 0 .. balance + net[r] /\ cost[r] - cost[r] \in -Tolerance .. Tolerance
        BY <1>2, <3>3
      <4>5. WrittenOff' = WrittenOff
        BY <1>3, <2>3, <4>3
      <4> HIDE DEF needed, debit
      <4> QED
        BY <3>1, <4>2, <4>4, <4>5 DEF Abstract!PayInFull
    <3>4. CASE needed > balance
      <4>1. debit = balance
        BY <3>2, <3>4 DEF Lesser
      <4>2. /\ balance - debit = 0
            /\ net[r] + debit = balance + net[r]
            /\ needed - debit = cost[r] - (balance + net[r])
            /\ balance + net[r] < cost[r]
        BY <1>2, <3>4, <4>1
      <4>3. net'[r] = balance + net[r] /\ balance' = 0 /\ net' = [net EXCEPT ![r] = balance + net[r]]
        <5> HIDE DEF needed, debit
        <5> QED
          BY <3>1, <4>2
      <4>4. WrittenOff'[r] = cost[r] - (balance + net[r])
        <5>1. CASE short' = [short EXCEPT ![r] = needed - debit] /\ lost' = lost
          <6>1. WrittenOff'[r] = short'[r]
            BY <1>3, <5>1 DEF WrittenOff
          <6>2. short'[r] = needed - debit
            BY <5>1
          <6> QED
            BY <4>2, <6>1, <6>2
        <5>2. CASE "audit" \in lost'[r]
          <6>1. WrittenOff'[r] = cost'[r] - net'[r]
            BY <5>2 DEF WrittenOff
          <6> QED
            BY <1>1, <4>3, <6>1
        <5> QED
          BY <3>1, <5>1, <5>2
      <4>5. WrittenOff' = [WrittenOff EXCEPT ![r] = cost[r] - (balance + net[r])]
        BY <2>1, <2>2, <4>4
      <4> QED
        BY <4>2, <4>3, <4>5 DEF Abstract!PayWhatThereIs
    <3> QED
      BY <3>2, <3>3, <3>4
  <2> QED
    BY <2>4, <2>5, <2>6, <2>7
<1>7. Abstract!Settle(r)
  BY <1>2, <1>3, <1>5, <1>6 DEF Abstract!Settle
<1> QED
  BY <1>7 DEF Abstract!Next

\* The other steps of a request move no money and leave its stage alone; a settlement
\* that is lost leaves the hold.
LEMMA OthersStutter ==
  ASSUME IInv, NEW r \in Requests,
         \/ Arrive(r) \/ Forbid(r) \/ Break(r) \/ Admit(r) \/ ClaimKey(r) \/ KeyTaken(r)
         \/ QuoteReserve(r) \/ EmptyWallet(r) \/ PreReserveFails(r)
         \/ Upstream(r) \/ Mark(r) \/ BeginSettle(r) \/ SettleExtraFails(r)
         \/ SettleRefundLost(r) \/ SettleAborts(r)
         \/ Release(r) \/ AbortWithoutCleanup(r) \/ Lapse(r)
  PROVE  UNCHANGED Abstract!vars
<1> USE DEF IInv, TypeOK, Money, Settled, Unbilled, Streaming
<1>1. UNCHANGED <<balance, net, short>>
  BY DEF Arrive, PassGate, Refuse, Forbid, Break, Admit, ClaimKey, KeyTaken, QuoteReserve,
         EmptyWallet, PreReserveFails, Upstream, DoneChunk, ErrorChunk, NoticeFreeze, ClientGone,
         Mark, MarkDone, MarkError, BeginSettle, SettleExtraFails, SettleRefundLost, SettleAborts,
         Release, AbortWithoutCleanup, Lapse
<1>2. \A q \in Requests : q # r =>
        pc'[q] = pc[q] /\ reserve'[q] = reserve[q] /\ cost'[q] = cost[q] /\ lost'[q] = lost[q]
  <2>1. CASE Arrive(r) \/ Forbid(r) \/ Break(r) \/ Admit(r) \/ ClaimKey(r) \/ KeyTaken(r)
    BY <2>1 DEF Arrive, PassGate, Refuse, Forbid, Break, Admit, ClaimKey, KeyTaken, DropRow, Loses
  <2>2. CASE \/ QuoteReserve(r) \/ EmptyWallet(r) \/ PreReserveFails(r)
             \/ Upstream(r) \/ AbortWithoutCleanup(r) \/ Lapse(r)
    BY <2>2 DEF QuoteReserve, EmptyWallet, PreReserveFails, Upstream, DoneChunk, ErrorChunk,
                NoticeFreeze, ClientGone, Loses, AbortWithoutCleanup, Lapse
  <2>3. CASE \/ Mark(r) \/ BeginSettle(r) \/ SettleExtraFails(r) \/ SettleRefundLost(r)
             \/ SettleAborts(r) \/ Release(r)
    BY <2>3 DEF Mark, MarkDone, MarkError, BeginSettle, SettleExtraFails, SettleRefundLost,
                SettleAborts, Release, DropRow, Loses
  <2> QED
    BY <2>1, <2>2, <2>3
<1>3. \/ pc[r] \in {"releasing", "done", "cut"} /\ Release(r)
      \/ UNCHANGED <<pc, reserve, cost, lost>>
      \/ /\ pc[r] \in Unbilled \union Streaming \union {"settling"}
         /\ pc'[r] \notin {"releasing", "done", "cut"} \/ reserve'[r] = 0
         /\ lost'[r] \intersect {"audit"} = {}
      \/ SettleRefundLost(r) \/ SettleAborts(r)
  <2>1. CASE Arrive(r) \/ Forbid(r) \/ Break(r) \/ Admit(r) \/ ClaimKey(r) \/ KeyTaken(r)
    BY <2>1 DEF Arrive, PassGate, Refuse, Forbid, Break, Admit, ClaimKey, KeyTaken, DropRow, Loses
  <2>2. CASE QuoteReserve(r) \/ EmptyWallet(r) \/ PreReserveFails(r)
    BY <2>2 DEF QuoteReserve, EmptyWallet, PreReserveFails, ReadyToQuote
  <2>3. CASE Upstream(r) \/ Mark(r)
    BY <2>3 DEF Upstream, DoneChunk, ErrorChunk, NoticeFreeze, ClientGone,
                Mark, MarkDone, MarkError, Loses
  <2>4. CASE BeginSettle(r)
    BY <2>4 DEF BeginSettle, Loses
  <2>5. CASE SettleExtraFails(r) \/ AbortWithoutCleanup(r) \/ Lapse(r)
    BY <2>5 DEF SettleExtraFails, AbortWithoutCleanup, Lapse
  <2>6. CASE Release(r)
    BY <2>6 DEF Release
  <2> QED
    BY <2>1, <2>2, <2>3, <2>4, <2>5, <2>6
<1>4. (Reconciled(r))' = Reconciled(r) /\ WrittenOff'[r] = WrittenOff[r]
  <2>1. CASE Release(r)
    <3>1. /\ pc[r] = "releasing" /\ pc'[r] = "done" /\ UNCHANGED <<reserve, cost>>
          /\ \A w \in {"refund", "settlement", "audit"} : w \in lost'[r] <=> w \in lost[r]
      BY <2>1 DEF Release, DropRow, Loses
    <3>2. (lost'[r] \intersect {"refund", "settlement"} = {})
            <=> (lost[r] \intersect {"refund", "settlement"} = {})
      BY <3>1
    <3> QED
      BY <1>1, <3>1, <3>2 DEF Reconciled, Unsettled, WrittenOff
  <2>2. CASE UNCHANGED <<pc, reserve, cost, lost>>
    BY <1>1, <2>2 DEF Reconciled, Unsettled, WrittenOff
  <2>3. CASE /\ pc[r] \in Unbilled \union Streaming \union {"settling"}
             /\ pc'[r] \notin {"releasing", "done", "cut"} \/ reserve'[r] = 0
             /\ lost'[r] \intersect {"audit"} = {}
    <3>1. "audit" \notin lost[r] /\ "audit" \notin lost'[r]
      BY <2>3
    <3>2. Reconciled(r) = FALSE /\ (Reconciled(r))' = FALSE
      BY <2>3 DEF Reconciled, Unsettled
    <3>3. WrittenOff'[r] = WrittenOff[r]
      BY <1>1, <3>1 DEF WrittenOff
    <3> QED
      BY <3>2, <3>3
  <2>4. CASE SettleRefundLost(r) \/ SettleAborts(r)
    <3>1. /\ pc[r] \in {"settling", "partial"} /\ UNCHANGED cost
          /\ "refund" \in lost'[r] \/ "settlement" \in lost'[r]
          /\ "audit" \notin lost[r] /\ "audit" \notin lost'[r]
      BY <2>4 DEF SettleRefundLost, SettleAborts, Loses
    <3> QED
      BY <1>1, <3>1 DEF Reconciled, Unsettled, WrittenOff
  <2> QED
    BY <1>3, <2>1, <2>2, <2>3, <2>4
<1>5. \A q \in Requests : Stage'[q] = Stage[q] /\ WrittenOff'[q] = WrittenOff[q]
  BY <1>1, <1>2, <1>4 DEF Stage, Reconciled, Unsettled, WrittenOff
<1>6. Stage' = Stage /\ WrittenOff' = WrittenOff
  BY <1>5 DEF Stage, WrittenOff
<1> QED
  BY <1>1, <1>6, Stutters

\* The handlers, with everything around them, implement the abstract prepaid wallet.
THEOREM Refinement == Spec => ImplementsPrepaidWallet
<1>1. Init => Abstract!Init
  BY AmountAssumption DEF Init, Abstract!Init, Stage, Reconciled, Unsettled, WrittenOff
<1>2. IInv /\ TypeOK' /\ [Next]_vars => [Abstract!Next]_(Abstract!vars)
  <2> SUFFICES ASSUME IInv, TypeOK', [Next]_vars
               PROVE  [Abstract!Next]_(Abstract!vars)
    OBVIOUS
  <2>1. CASE \E r \in Requests : PreReserve(r)
    BY <2>1, PreReserveHolds
  <2>2. CASE \E r \in Requests :
               SettleExact(r) \/ SettleRefund(r) \/ SettleExtra(r) \/ SettlePartial(r)
    BY <2>2, SettleSettles
  <2>3. CASE \E r \in Requests :
               \/ Arrive(r) \/ Forbid(r) \/ Break(r) \/ Admit(r) \/ ClaimKey(r) \/ KeyTaken(r)
               \/ QuoteReserve(r) \/ EmptyWallet(r) \/ PreReserveFails(r)
               \/ Upstream(r) \/ Mark(r) \/ BeginSettle(r) \/ SettleExtraFails(r)
               \/ SettleRefundLost(r) \/ SettleAborts(r)
               \/ Release(r) \/ AbortWithoutCleanup(r) \/ Lapse(r)
    BY <2>3, OthersStutter
  <2>4. CASE \E a \in Amounts : TopUp(a) \/ OtherDebit(a)
    <3>1. balance' \in Nat /\ UNCHANGED <<net, short, pc, reserve, cost, lost>>
      BY <2>4 DEF TopUp, OtherDebit, TypeOK
    <3>2. Abstract!Elsewhere
      BY <3>1 DEF Abstract!Elsewhere, Stage, Reconciled, Unsettled, WrittenOff
    <3> QED
      BY <3>2 DEF Abstract!Next
  <2>5. CASE \/ \E k \in Keys : DropOldKey(k)
             \/ FreezeUser \/ UnfreezeUser \/ RevokeCredentials \/ PurgeReservations
             \/ UNCHANGED vars
    <3>1. UNCHANGED <<balance, net, short, pc, reserve, cost, lost>>
      BY <2>5 DEF DropOldKey, FreezeUser, UnfreezeUser, RevokeCredentials, PurgeReservations, vars
    <3> QED
      BY <3>1, Stutters DEF Stage, Reconciled, Unsettled, WrittenOff
  <2>6. CASE Crash
    <3>1. UNCHANGED <<balance, net, short, reserve, cost, lost>>
      BY <2>6 DEF Crash
    <3>2. pc' = [r \in Requests |-> IF pc[r] = "releasing" THEN "cut"
                                    ELSE IF pc[r] \in Busy THEN "crashed" ELSE pc[r]]
      BY <2>6 DEF Crash
    <3>3. Stage' = Stage /\ WrittenOff' = WrittenOff
      BY <3>1, <3>2 DEF Stage, Reconciled, Unsettled, WrittenOff, Busy, Held, Streaming
    <3> QED
      BY <3>1, <3>3, Stutters
  <2> QED
    BY <2>1, <2>2, <2>3, <2>4, <2>5, <2>6 DEF Next, Coroutine, Prepare, Settle
<1> QED
  BY <1>1, <1>2, Inductive, TypeCorrect, PTL DEF Spec, ImplementsPrepaidWallet, Abstract!Spec
=============================================================================
