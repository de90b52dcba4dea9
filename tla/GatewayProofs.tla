---------------------------- MODULE GatewayProofs ----------------------------
(***************************************************************************)
(* Theorems about what a request meets on its way to an upstream: the      *)
(* quotas that let it in (Quotas), and the channels and the breaker that   *)
(* carry it there (ChannelRouting).  For any number of requests, windows   *)
(* and channels, and any quotas, thresholds, cooldowns and budgets.        *)
(*                                                                         *)
(* The two share their requests and no state.  ChannelRouting is extended; *)
(* Quotas is an instance, whose names here begin with Q!.  What it counts  *)
(* in (UsageWindows) is extended, too: the properties are stated there.    *)
(***************************************************************************)
EXTENDS ChannelRouting, UsageWindows, SumTheorems

CONSTANTS Uses, IsAdmin, MaxBeyond
VARIABLES gate, reserved

Q == INSTANCE Quotas WITH pc <- gate

----------------------------------------------------------------------------
(* Quotas *)

\* What gated requests that may still be counted have reserved (Standing in Quotas).
Pending == [r \in Requests |-> IF gate[r] = "open" THEN reserved[r] ELSE 0]

\* Of the ages that are kept, the buckets hold what the rows hold; and what was used beyond
\* the reservations is part of what was used.
Mirrored ==
  \A a \in Q!Ages : (a <= Keep => rollup[a] = log[a]) /\ beyond[a] <= log[a]

\* What a window holds against its quota: tokens used out of reservations, and
\* reservations that may still be used.
Load(w) == Sum(log, Q!Seen(w)) - Sum(beyond, Q!Seen(w)) + Sum(Pending, Requests)

Largest1 == Q!Max(Estimates)

\* The load is bounded, whoever is under way.
Bounded == \A w \in Windows : Quota[w] > 0 => Load(w) <= Quota[w] - 1 + Largest1

QInv == Q!TypeOK /\ Mirrored /\ Bounded

\* The instance folds and chooses as this module does.
LEMMA SameSum == \A f, S : Q!Sum(f, S) = Sum(f, S)
BY DEF Q!Sum, Sum, Q!MapThenSumSet, MapThenSumSet, Q!MapThenFoldSet, MapThenFoldSet

\* And its largest numbers are the same.
LEMMA SameMax == \A S : Q!Max(S) = Max(S)
BY DEF Q!Max, Max

\* Finite is the same, too.
LEMMA SameFinite == \A S : Q!IsFiniteSet(S) <=> IsFiniteSet(S)
BY DEF Q!IsFiniteSet, IsFiniteSet

\* What the constants are.
LEMMA QuotaConstants ==
  ASSUME Q!QuotasAssumption
  PROVE /\ Span \in [Windows -> Nat] /\ Quota \in [Windows -> Nat] /\ Keep \in Nat
        /\ IsFiniteSet(Requests) /\ IsFiniteSet(Windows) /\ Windows # {}
        /\ IsFiniteSet(Estimates) /\ Estimates # {} /\ Estimates \in SUBSET Nat
        /\ Uses \in SUBSET Nat
BY SameFinite, WindowsAssumption DEF Q!QuotasAssumption

\* The ages run from zero, as far as the longest window.
LEMMA AgesFrom ==
  ASSUME Q!QuotasAssumption
  PROVE \E top \in Nat : Q!Ages = 0..top /\ \A w \in Windows : Span[w] <= top
<1> DEFINE Spans == {Span[w] : w \in Windows}
<1>1. IsFiniteSet(Spans)
  <2>1. IsFiniteSet(Windows) /\ Span \in Surjection(Windows, Spans)
    BY QuotaConstants DEF Surjection
  <2> QED
    BY <2>1, FS_Surjection
<1>2. Spans \in SUBSET Nat /\ Spans # {}
  BY QuotaConstants
<1>3. Q!Ages = 0..Max(Spans)
  BY SameMax DEF Q!Ages
<1> HIDE DEF Spans
<1>4. Max(Spans) \in Spans /\ \A y \in Spans : Max(Spans) >= y
  BY <1>1, <1>2, Largest
<1>5. \A w \in Windows : Span[w] \in Spans /\ Span[w] \in Nat
  BY QuotaConstants DEF Spans
<1> QED
  BY <1>2, <1>3, <1>4, <1>5

\* What is seen of a window are the ages of the window that are kept.
LEMMA SeenFrom ==
  ASSUME Q!QuotasAssumption, NEW w \in Windows
  PROVE \E m \in Nat : /\ Q!Seen(w) = 0..m
                       /\ m <= Span[w] /\ m <= Keep
                       /\ Span[w] <= Keep => m = Span[w]
<1> DEFINE low == IF Span[w] <= Keep THEN Span[w] ELSE Keep
<1>1. Span[w] \in Nat /\ Keep \in Nat
  BY QuotaConstants
<1>2. Q!Min({Span[w], Keep}) = low
  <2>1. low \in {Span[w], Keep} /\ \A y \in {Span[w], Keep} : low <= y
    BY <1>1
  <2>2. \A x \in {Span[w], Keep} : (\A y \in {Span[w], Keep} : x <= y) => x = low
    BY <1>1
  <2> QED
    BY <2>1, <2>2 DEF Q!Min
<1> QED
  BY <1>1, <1>2 DEF Q!Seen

\* A reservation is at most the largest estimate.
LEMMA EstimateBound ==
  ASSUME Q!QuotasAssumption
  PROVE Largest1 \in Nat /\ \A n \in Estimates : n \in Nat /\ n <= Largest1
<1>1. Estimates \in SUBSET Nat /\ IsFiniteSet(Estimates) /\ Estimates # {}
  BY QuotaConstants
<1>2. Max(Estimates) \in Estimates /\ \A y \in Estimates : Max(Estimates) >= y
  BY <1>1, Largest
<1>3. Largest1 = Max(Estimates)
  BY SameMax DEF Largest1
<1> QED
  BY <1>1, <1>2, <1>3

\* The sums are numbers.
LEMMA QuotaSums ==
  ASSUME Q!QuotasAssumption, Q!TypeOK, NEW w \in Windows
  PROVE /\ IsFiniteSet(Q!Seen(w)) /\ Q!Seen(w) \subseteq Q!Ages /\ 0 \in Q!Seen(w)
        /\ Sum(log, Q!Seen(w)) \in Nat /\ Sum(beyond, Q!Seen(w)) \in Nat
        /\ Sum(reserved, Requests) \in Nat /\ Sum(Pending, Requests) \in Nat
        /\ \A r \in Requests : reserved[r] \in Nat /\ Pending[r] \in Nat
<1>1. PICK top \in Nat : Q!Ages = 0..top /\ \A v \in Windows : Span[v] <= top
  BY AgesFrom
<1>2. PICK m \in Nat : Q!Seen(w) = 0..m /\ m <= Span[w]
  BY SeenFrom
<1>3. Span[w] \in Nat /\ Span[w] <= top
  BY QuotaConstants, <1>1
<1>4. 0..m \subseteq 0..top /\ 0 \in 0..m
  BY <1>2, <1>3
<1>5. IsFiniteSet(0..m)
  BY Intervals
<1>6. IsFiniteSet(Requests) /\ \A r \in Requests : reserved[r] \in Nat /\ Pending[r] \in Nat
  BY QuotaConstants DEF Q!TypeOK, Pending
<1>7. IsFiniteSet(Q!Seen(w)) /\ Q!Seen(w) \subseteq Q!Ages /\ 0 \in Q!Seen(w)
  BY <1>1, <1>2, <1>4, <1>5
<1>8. \A a \in Q!Seen(w) : log[a] \in Nat /\ beyond[a] \in Nat
  BY <1>7 DEF Q!TypeOK
<1>9. Sum(log, Q!Seen(w)) \in Nat /\ Sum(beyond, Q!Seen(w)) \in Nat
  BY <1>7, <1>8, SumNat
<1>10. Sum(reserved, Requests) \in Nat /\ Sum(Pending, Requests) \in Nat
  BY <1>6, SumNat
<1> QED
  BY <1>6, <1>7, <1>9, <1>10

\* The gate reads at least what the rows hold of the ages that are kept.
LEMMA UsedCounts ==
  ASSUME Q!QuotasAssumption, Q!TypeOK, Mirrored, NEW w \in Windows
  PROVE Q!Used(w) \in Nat /\ Sum(log, Q!Seen(w)) <= Q!Used(w)
<1>1. PICK top \in Nat : Q!Ages = 0..top /\ \A v \in Windows : Span[v] <= top
  BY AgesFrom
<1>2. PICK m \in Nat : Q!Seen(w) = 0..m /\ m <= Span[w] /\ m <= Keep
  BY SeenFrom
<1>3. Span[w] \in Nat /\ Span[w] <= top /\ Keep \in Nat
  BY QuotaConstants, <1>1
<1> DEFINE A == 0..Span[w]
           B == 0..m
<1>4. B \in SUBSET A /\ A \subseteq Q!Ages
  BY <1>1, <1>2, <1>3
<1>5. IsFiniteSet(A)
  BY <1>3, Intervals
<1>6. \A a \in A : rollup[a] \in Nat
  BY <1>4 DEF Q!TypeOK
<1>7. \A a \in B : rollup[a] = log[a]
  BY <1>2, <1>3, <1>4 DEF Mirrored
<1>8. Q!Seen(w) = B /\ Q!Used(w) = Sum(rollup, A)
  BY <1>2, SameSum DEF Q!Used
<1> HIDE DEF A, B
<1>9. Sum(rollup, A) = Sum(rollup, B) + Sum(rollup, A \ B)
  BY <1>4, <1>5, <1>6, SumSplit
<1>10. Sum(rollup, B) = Sum(log, B)
  BY <1>4, <1>5, <1>7, FS_Subset, SumSame
<1>11. Sum(rollup, B) \in Nat /\ Sum(rollup, A \ B) \in Nat
  BY <1>4, <1>5, <1>6, FS_Subset, SumNat
<1> QED
  BY <1>8, <1>9, <1>10, <1>11

\* Where only requests go on, and none of them gets to hold more, the load does not grow.
LEMMA HoldsNoMore ==
  ASSUME Q!QuotasAssumption, Q!TypeOK, Q!TypeOK', Bounded, UNCHANGED <<log, beyond>>,
         \A r \in Requests : Pending'[r] <= Pending[r]
  PROVE Bounded'
<1>1. SUFFICES ASSUME NEW w \in Windows, Quota[w] > 0
               PROVE Load(w)' <= Quota[w] - 1 + Largest1
  BY DEF Bounded, Largest1
<1>2. \A r \in Requests : Pending[r] \in Int /\ Pending'[r] \in Int
  BY DEF Q!TypeOK, Pending
<1>3. IsFiniteSet(Requests)
  BY QuotaConstants
<1>4. Sum(Pending', Requests) <= Sum(Pending, Requests)
  BY <1>2, <1>3, SumAtMost
<1>5. Load(w)' = Sum(log, Q!Seen(w)) - Sum(beyond, Q!Seen(w)) + Sum(Pending', Requests)
  BY DEF Load, Q!Seen, Q!Min
<1>6. Load(w) = Sum(log, Q!Seen(w)) - Sum(beyond, Q!Seen(w)) + Sum(Pending, Requests)
  BY DEF Load
<1>7. Sum(log, Q!Seen(w)) \in Nat /\ Sum(beyond, Q!Seen(w)) \in Nat
      /\ Sum(Pending, Requests) \in Nat
  BY QuotaSums
<1>8. Sum(Pending', Requests) \in Int
  BY <1>2, <1>3, SumInt
<1>9. Load(w) <= Quota[w] - 1 + Largest1 /\ Largest1 \in Nat /\ Quota[w] \in Nat
  BY QuotaConstants, <1>1, EstimateBound DEF Bounded
<1> QED
  BY <1>4, <1>5, <1>6, <1>7, <1>8, <1>9

\* One gets in: what it may reserve comes on top of a window that was below its quota.
LEMMA AdmitBounded ==
  ASSUME Q!QuotasAssumption, Q!TypeOK, Q!TypeOK', Mirrored, Bounded,
         NEW r \in Requests, Q!Admit(r)
  PROVE Bounded'
<1>1. SUFFICES ASSUME NEW w \in Windows, Quota[w] > 0
               PROVE Load(w)' <= Quota[w] - 1 + Largest1
  BY DEF Bounded, Largest1
<1>2. Largest1 \in Nat /\ Quota[w] \in Nat /\ IsFiniteSet(Requests)
  BY QuotaConstants, EstimateBound
<1>3. /\ Q!Used(w) \in Nat /\ Sum(log, Q!Seen(w)) <= Q!Used(w)
      /\ Sum(log, Q!Seen(w)) \in Nat /\ Sum(beyond, Q!Seen(w)) \in Nat
      /\ Sum(reserved, Requests) \in Nat /\ Sum(Pending, Requests) \in Nat
  BY QuotaSums, UsedCounts
<1>4. Q!Used(w) + Sum(reserved, Requests) < Quota[w]
  BY <1>1, SameSum DEF Q!Admit, Q!Allowed
<1>5. Sum(Pending, Requests) <= Sum(reserved, Requests)
  <2>1. \A q \in Requests :
          Pending[q] \in Int /\ reserved[q] \in Int /\ Pending[q] <= reserved[q]
    BY DEF Q!TypeOK, Pending
  <2> QED
    BY <1>2, <2>1, SumAtMost
<1>6. PICK n \in Estimates \union {0} : reserved' = [reserved EXCEPT ![r] = n]
  BY DEF Q!Admit, Q!Reserve, Q!Held
<1>7. n \in Nat /\ n <= Largest1
  BY <1>2, <1>6, EstimateBound
<1>8. Sum(Pending', Requests) = Sum(Pending, Requests) + n
  <2>1. /\ gate \in [Requests -> {"idle", "open", "ungated", "counted", "left"}]
        /\ reserved \in [Requests -> Nat]
        /\ gate' = [gate EXCEPT ![r] = "open"] /\ gate[r] = "idle"
    BY DEF Q!Admit, Q!Becomes, Q!TypeOK
  <2>2. Pending[r] = 0 /\ Pending'[r] = n
    BY <1>6, <2>1 DEF Pending
  <2>3. \A q \in Requests \ {r} : Pending'[q] = Pending[q]
    BY <1>6, <2>1 DEF Pending
  <2>4. \A q \in Requests : Pending[q] \in Int
    BY <2>1 DEF Pending
  <2>5. Pending'[r] = Pending[r] + n /\ n \in Int
    BY <1>7, <2>2
  <2> QED
    BY <1>2, <2>3, <2>4, <2>5, SumAdd
<1>9. Load(w)' = Sum(log, Q!Seen(w)) - Sum(beyond, Q!Seen(w)) + Sum(Pending', Requests)
  BY DEF Load, Q!Seen, Q!Min, Q!Admit, Q!usage
<1> QED
  BY <1>2, <1>3, <1>4, <1>5, <1>7, <1>8, <1>9

\* One is counted: what it used is either out of its reservation, which is no longer
\* pending, or beyond it.
LEMMA CountBounded ==
  ASSUME Q!QuotasAssumption, Q!TypeOK, Q!TypeOK', Bounded, NEW r \in Requests, Q!Count(r)
  PROVE Bounded'
<1>1. SUFFICES ASSUME NEW w \in Windows, Quota[w] > 0
               PROVE Load(w)' <= Quota[w] - 1 + Largest1
  BY DEF Bounded, Largest1
<1>2. Largest1 \in Nat /\ Quota[w] \in Nat /\ IsFiniteSet(Requests)
  BY QuotaConstants, EstimateBound
<1> DEFINE S == Q!Seen(w)
<1>3. /\ IsFiniteSet(S) /\ S \subseteq Q!Ages /\ 0 \in S
      /\ Sum(log, S) \in Nat /\ Sum(beyond, S) \in Nat
      /\ Sum(Pending, Requests) \in Nat /\ reserved[r] \in Nat /\ Pending[r] \in Nat
  BY QuotaSums
<1>4. PICK n \in Uses : /\ log' = [log EXCEPT ![0] = @ + n]
                        /\ beyond' = [beyond EXCEPT ![0] = @ + Q!Unreserved(r, n)]
  BY DEF Q!Count, Q!Add
<1> DEFINE over == Q!Unreserved(r, n)
<1>5. n \in Nat /\ over \in Nat /\ n - over <= Pending[r]
  BY <1>3, QuotaConstants DEF Q!Unreserved, Q!Standing, Pending
<1>6. /\ log \in [Q!Ages -> Nat] /\ beyond \in [Q!Ages -> Nat]
      /\ log' = [log EXCEPT ![0] = @ + n] /\ beyond' = [beyond EXCEPT ![0] = @ + over]
  BY <1>4 DEF Q!TypeOK
<1>7. S' = S
  BY DEF Q!Seen, Q!Min
<1> HIDE DEF S, over
<1>8. Sum(log', S) = Sum(log, S) + n
  <2>1. /\ \A a \in S : log[a] \in Int
        /\ log'[0] = log[0] + n /\ \A a \in S \ {0} : log'[a] = log[a]
    BY <1>3, <1>6
  <2> QED
    BY <1>3, <1>5, <2>1, SumAdd
<1>9. Sum(beyond', S) = Sum(beyond, S) + over
  <2>1. /\ \A a \in S : beyond[a] \in Int
        /\ beyond'[0] = beyond[0] + over /\ \A a \in S \ {0} : beyond'[a] = beyond[a]
    BY <1>3, <1>6
  <2> QED
    BY <1>3, <1>5, <2>1, SumAdd
<1>10. Sum(Pending', Requests) = Sum(Pending, Requests) + (-Pending[r])
  <2>1. /\ gate \in [Requests -> {"idle", "open", "ungated", "counted", "left"}]
        /\ reserved \in [Requests -> Nat] /\ reserved' = reserved
        /\ gate' = [gate EXCEPT ![r] = "counted"]
    BY DEF Q!Count, Q!Becomes, Q!TypeOK
  <2>2. Pending'[r] = 0
    BY <2>1 DEF Pending
  <2>3. \A q \in Requests \ {r} : Pending'[q] = Pending[q]
    BY <2>1 DEF Pending
  <2>4. \A q \in Requests : Pending[q] \in Int
    BY <2>1 DEF Pending
  <2>5. Pending'[r] = Pending[r] + (-Pending[r]) /\ -Pending[r] \in Int
    BY <1>3, <2>2
  <2> QED
    BY <1>2, <2>3, <2>4, <2>5, SumAdd
<1>11. Load(w) <= Quota[w] - 1 + Largest1
  BY <1>1 DEF Bounded
<1>12. /\ Load(w) = Sum(log, S) - Sum(beyond, S) + Sum(Pending, Requests)
       /\ Load(w)' = Sum(log', S) - Sum(beyond', S) + Sum(Pending', Requests)
  BY <1>7 DEF Load, S
<1> QED
  BY <1>2, <1>3, <1>5, <1>8, <1>9, <1>10, <1>11, <1>12

\* Time passes: what leaves the window was no less than what of it was beyond a reservation.
LEMMA TickBounded ==
  ASSUME Q!QuotasAssumption, Q!TypeOK, Q!TypeOK', Mirrored, Bounded, Q!Tick
  PROVE Bounded'
<1>1. SUFFICES ASSUME NEW w \in Windows, Quota[w] > 0
               PROVE Load(w)' <= Quota[w] - 1 + Largest1
  BY DEF Bounded, Largest1
<1>2. Largest1 \in Nat /\ Quota[w] \in Nat /\ Span[w] \in Nat
  BY QuotaConstants, EstimateBound
<1> DEFINE S == Q!Seen(w)
<1>3. PICK top \in Nat : Q!Ages = 0..top /\ \A v \in Windows : Span[v] <= top
  BY AgesFrom
<1>4. PICK m \in Nat : S = 0..m /\ m <= Span[w]
  BY SeenFrom
<1>5. top \in Nat /\ m \in 0..top
  BY <1>2, <1>3, <1>4
<1>16. S' = S
  BY DEF Q!Seen, Q!Min
<1> HIDE DEF S
<1>6. /\ log \in [0..top -> Nat] /\ beyond \in [0..top -> Nat]
      /\ log' = [a \in 0..top |-> IF a = 0 THEN 0 ELSE log[a - 1]]
      /\ beyond' = [a \in 0..top |-> IF a = 0 THEN 0 ELSE beyond[a - 1]]
      /\ log' \in [0..top -> Nat] /\ beyond' \in [0..top -> Nat]
  BY <1>3 DEF Q!TypeOK, Q!Tick, Q!Older, Q!Ages
<1>7. Sum(log, S) = Sum(log', S) + log[m]
  <2>1. Sum(log, 0..m) = Sum(log', 0..m) + log[m]
    BY <1>5, <1>6, SumOlder, Zenon
  <2> QED
    BY <1>4, <2>1, Zenon
<1>8. Sum(beyond, S) = Sum(beyond', S) + beyond[m]
  <2>1. Sum(beyond, 0..m) = Sum(beyond', 0..m) + beyond[m]
    BY <1>5, <1>6, SumOlder, Zenon
  <2> QED
    BY <1>4, <2>1, Zenon
<1>9. beyond[m] <= log[m] /\ beyond[m] \in Nat /\ log[m] \in Nat
  BY <1>3, <1>5, <1>6 DEF Mirrored
<1>10. Pending' = Pending
  BY DEF Pending, Q!Tick
<1>12. /\ Load(w) = Sum(log, S) - Sum(beyond, S) + Sum(Pending, Requests)
       /\ Load(w)' = Sum(log', S) - Sum(beyond', S) + Sum(Pending, Requests)
  BY <1>10, <1>16 DEF Load, S
<1>13. /\ Sum(log, S) \in Nat /\ Sum(beyond, S) \in Nat
       /\ Sum(Pending, Requests) \in Nat
  BY QuotaSums DEF S
<1>14. Sum(log', S) \in Nat /\ Sum(beyond', S) \in Nat
  <2>1. IsFiniteSet(S)
    BY QuotaSums DEF S
  <2>2. \A a \in S : log'[a] \in Nat /\ beyond'[a] \in Nat
    BY <1>4, <1>5, <1>6
  <2> QED
    BY <2>1, <2>2, SumNat
<1>15. Load(w) <= Quota[w] - 1 + Largest1
  BY <1>1 DEF Bounded
<1> QED
  BY <1>2, <1>7, <1>8, <1>9, <1>12, <1>13, <1>14, <1>15

\* Every step keeps the types.
LEMMA QuotaTypeStep ==
  ASSUME Q!QuotasAssumption, Q!TypeOK, [Q!Next]_Q!vars
  PROVE Q!TypeOK'
<1>1. PICK top \in Nat : Q!Ages = 0..top
  BY AgesFrom
<1>2. 0 \in Q!Ages /\ \A a \in Q!Ages : a # 0 => a - 1 \in Q!Ages
  BY <1>1
<1>3. Estimates \in SUBSET Nat /\ Uses \in SUBSET Nat
  BY QuotaConstants
<1>4. Q!Ages' = Q!Ages
  BY DEF Q!Ages, Q!Max
<1> DEFINE A == Q!Ages
           Table == [A -> Nat]
           Places == [Requests -> {"idle", "open", "ungated", "counted", "left"}]
<1>5. /\ gate \in Places /\ reserved \in [Requests -> Nat]
      /\ log \in Table /\ rollup \in Table /\ beyond \in Table
  BY DEF Q!TypeOK
<1>6. SUFFICES /\ gate' \in Places /\ reserved' \in [Requests -> Nat]
               /\ log' \in Table /\ rollup' \in Table /\ beyond' \in Table
  BY <1>4 DEF Q!TypeOK
<1>7. ASSUME NEW f \in Table, NEW n \in Nat
      PROVE Q!Add(f, n) \in Table /\ Q!Cleaned(f) \in Table /\ Q!Older(f) \in Table
  BY <1>2 DEF Q!Add, Q!Cleaned, Q!Older
<1>8. ASSUME NEW r \in Requests, NEW n \in Nat
      PROVE Q!Unreserved(r, n) \in Nat
  BY <1>5 DEF Q!Unreserved, Q!Standing
<1>9. CASE UNCHANGED Q!vars
  BY <1>5, <1>9 DEF Q!vars, Q!usage
<1>10. CASE Q!Restart
  BY <1>5, <1>10 DEF Q!Restart, Q!usage
<1>11. CASE Q!Tick
  BY <1>5, <1>7, <1>11 DEF Q!Tick
<1>12. ASSUME NEW r \in Requests, Q!Count(r)
       PROVE /\ gate' \in Places /\ reserved' \in [Requests -> Nat]
             /\ log' \in Table /\ rollup' \in Table /\ beyond' \in Table
  <2>1. PICK n \in Uses :
          /\ log' = Q!Add(log, n)
          /\ rollup' \in {Q!Add(rollup, n), Q!Cleaned(Q!Add(rollup, n))}
          /\ beyond' = Q!Add(beyond, Q!Unreserved(r, n))
    BY <1>12 DEF Q!Count
  <2>2. n \in Nat /\ Q!Unreserved(r, n) \in Nat
    BY <1>3, <1>8, <2>1
  <2>3. log' \in Table /\ rollup' \in Table /\ beyond' \in Table
    <3>1. Q!Add(log, n) \in Table /\ Q!Add(beyond, Q!Unreserved(r, n)) \in Table
      BY <1>5, <1>7, <2>2
    <3>2. Q!Add(rollup, n) \in Table
      BY <1>5, <1>7, <2>2
    <3>3. Q!Cleaned(Q!Add(rollup, n)) \in Table
      BY <1>7, <2>2, <3>2
    <3> HIDE DEF Table
    <3> QED
      BY <2>1, <3>1, <3>2, <3>3
  <2> QED
    BY <1>5, <1>12, <2>3 DEF Q!Count, Q!Becomes
<1>13. ASSUME NEW r \in Requests,
              Q!Admit(r) \/ Q!AdmitPenniless(r) \/ Q!AskTitle(r) \/ Q!Fail(r) \/ Q!Release(r)
                \/ Q!Leave(r) \/ Q!Forgotten(r) \/ Q!Lapse(r)
       PROVE /\ gate' \in Places /\ reserved' \in [Requests -> Nat]
             /\ UNCHANGED <<log, rollup, beyond>>
  BY <1>3, <1>5, <1>13 DEF Q!Admit, Q!AdmitPenniless, Q!AskTitle, Q!Reserve, Q!Fail,
    Q!Release, Q!Leave, Q!Forgotten, Q!Lapse, Q!Becomes, Q!Held, Q!usage
<1> QED
  BY <1>5, <1>9, <1>10, <1>11, <1>12, <1>13 DEF Q!Next, Q!Serve

\* Rows and buckets are written together, the cleanup takes old buckets only.
LEMMA MirroredStep ==
  ASSUME Q!QuotasAssumption, Q!TypeOK, Q!TypeOK', Mirrored, [Q!Next]_Q!vars
  PROVE Mirrored'
<1>1. PICK top \in Nat : Q!Ages = 0..top
  BY AgesFrom
<1>2. Keep \in Nat /\ Uses \in SUBSET Nat
  BY QuotaConstants
<1>3. Q!Ages' = 0..top
  BY <1>1 DEF Q!Ages, Q!Max
<1>4. /\ log \in [0..top -> Nat] /\ rollup \in [0..top -> Nat] /\ beyond \in [0..top -> Nat]
      /\ reserved \in [Requests -> Nat]
  BY <1>1 DEF Q!TypeOK
<1>5. \A a \in 0..top : (a <= Keep => rollup[a] = log[a]) /\ beyond[a] <= log[a]
  BY <1>1 DEF Mirrored
<1>6. SUFFICES
        \A a \in 0..top : (a <= Keep => rollup'[a] = log'[a]) /\ beyond'[a] <= log'[a]
  BY <1>3 DEF Mirrored
<1>7. CASE UNCHANGED <<log, rollup, beyond>>
  BY <1>5, <1>7
<1>8. CASE Q!Tick
  <2>1. /\ log' = [a \in 0..top |-> IF a = 0 THEN 0 ELSE log[a - 1]]
        /\ rollup' = [a \in 0..top |-> IF a = 0 THEN 0 ELSE rollup[a - 1]]
        /\ beyond' = [a \in 0..top |-> IF a = 0 THEN 0 ELSE beyond[a - 1]]
    BY <1>1, <1>8 DEF Q!Tick, Q!Older
  <2> QED
    BY <1>2, <1>4, <1>5, <2>1
<1>9. ASSUME NEW r \in Requests, Q!Count(r)
      PROVE \A a \in 0..top :
              (a <= Keep => rollup'[a] = log'[a]) /\ beyond'[a] <= log'[a]
  <2>1. PICK n \in Uses :
          /\ log' = Q!Add(log, n)
          /\ rollup' \in {Q!Add(rollup, n), Q!Cleaned(Q!Add(rollup, n))}
          /\ beyond' = Q!Add(beyond, Q!Unreserved(r, n))
    BY <1>9 DEF Q!Count
  <2>2. n \in Nat /\ Q!Unreserved(r, n) \in Nat /\ Q!Unreserved(r, n) <= n
    BY <1>2, <1>4 DEF Q!Unreserved, Q!Standing
  <2>3. /\ log' = [log EXCEPT ![0] = @ + n]
        /\ beyond' = [beyond EXCEPT ![0] = @ + Q!Unreserved(r, n)]
    BY <2>1 DEF Q!Add
  <2>4. ASSUME NEW a \in 0..top PROVE beyond'[a] <= log'[a]
    BY <1>4, <1>5, <2>2, <2>3
  <2>5. ASSUME NEW a \in 0..top, a <= Keep PROVE rollup'[a] = log'[a]
    <3>1. Q!Add(rollup, n)[a] = Q!Add(log, n)[a]
      BY <1>4, <1>5, <2>2, <2>5 DEF Q!Add
    <3>2. Q!Cleaned(Q!Add(rollup, n))[a] = Q!Add(rollup, n)[a]
      BY <1>1, <1>2, <2>5 DEF Q!Cleaned
    <3> QED
      BY <2>1, <3>1, <3>2
  <2> QED
    BY <2>4, <2>5
<1> QED
  BY <1>7, <1>8, <1>9
    DEF Q!Next, Q!Serve, Q!vars, Q!usage, Q!Admit, Q!AdmitPenniless, Q!AskTitle, Q!Fail,
      Q!Release, Q!Leave, Q!Forgotten, Q!Lapse, Q!Restart

\* The other steps: what may still be counted does not grow.
LEMMA OthersBounded ==
  ASSUME Q!QuotasAssumption, Q!TypeOK, Q!TypeOK', Bounded,
         \/ \E r \in Requests :
              \/ Q!AdmitPenniless(r) \/ Q!AskTitle(r) \/ Q!Fail(r) \/ Q!Release(r)
              \/ Q!Leave(r) \/ Q!Forgotten(r) \/ Q!Lapse(r)
         \/ Q!Restart
         \/ UNCHANGED Q!vars
  PROVE Bounded'
<1>1. /\ gate \in [Requests -> {"idle", "open", "ungated", "counted", "left"}]
      /\ reserved \in [Requests -> Nat]
  BY DEF Q!TypeOK
<1>2. UNCHANGED <<log, beyond>>
  BY DEF Q!AdmitPenniless, Q!AskTitle, Q!Fail, Q!Release, Q!Leave, Q!Forgotten, Q!Lapse,
    Q!Restart, Q!vars, Q!usage
<1>3. \A q \in Requests : Pending'[q] <= Pending[q]
  <2>1. SUFFICES ASSUME NEW q \in Requests
                 PROVE Pending'[q] <= Pending[q]
    OBVIOUS
  <2>2. gate'[q] = "open" => gate[q] = "open" /\ reserved'[q] \in {reserved[q], 0}
    BY <1>1 DEF Q!AdmitPenniless, Q!AskTitle, Q!Reserve, Q!Fail, Q!Release, Q!Leave,
      Q!Forgotten, Q!Lapse, Q!Restart, Q!vars, Q!Becomes, Q!Held
  <2>3. reserved[q] \in Nat
    BY <1>1
  <2>4. /\ Pending[q] = IF gate[q] = "open" THEN reserved[q] ELSE 0
        /\ Pending'[q] = IF gate'[q] = "open" THEN reserved'[q] ELSE 0
    BY DEF Pending
  <2> QED
    BY <2>2, <2>3, <2>4
<1> QED
  BY <1>2, <1>3, HoldsNoMore

\* Every step keeps the load within its bound.
LEMMA BoundedStep ==
  ASSUME Q!QuotasAssumption, QInv, Q!TypeOK', [Q!Next]_Q!vars
  PROVE Bounded'
BY AdmitBounded, CountBounded, TickBounded, OthersBounded DEF QInv, Q!Next, Q!Serve

\* At first nothing is used and nothing is reserved.
LEMMA QuotaInit ==
  ASSUME Q!QuotasAssumption, Q!Init
  PROVE QInv
<1>1. Q!TypeOK
  BY DEF Q!TypeOK, Q!Init, Q!Nothing
<1>2. Mirrored
  BY DEF Mirrored, Q!Init, Q!Nothing
<1>3. ASSUME NEW w \in Windows, Quota[w] > 0
      PROVE Load(w) <= Quota[w] - 1 + Largest1
  <2>1. IsFiniteSet(Q!Seen(w)) /\ Q!Seen(w) \subseteq Q!Ages
    BY <1>1, QuotaSums
  <2>2. \A a \in Q!Seen(w) : log[a] = 0 /\ beyond[a] = 0
    BY <2>1 DEF Q!Init, Q!Nothing
  <2>3. IsFiniteSet(Requests) /\ \A r \in Requests : Pending[r] = 0
    BY QuotaConstants DEF Pending, Q!Init
  <2>4. /\ Sum(log, Q!Seen(w)) = 0 /\ Sum(beyond, Q!Seen(w)) = 0
        /\ Sum(Pending, Requests) = 0
    BY <2>1, <2>2, <2>3, SumZero
  <2>5. Quota[w] \in Nat /\ Largest1 \in Nat
    BY QuotaConstants, EstimateBound
  <2> QED
    BY <1>3, <2>4, <2>5 DEF Load
<1> QED
  BY <1>1, <1>2, <1>3 DEF QInv, Bounded

\* What the instance promises is what is promised here.
LEMMA SamePromises == (Q!QuotaKept <=> QuotaKept) /\ (Q!WindowsAgree <=> WindowsAgree)
BY SameSum, SameMax
  DEF Q!QuotaKept, QuotaKept, Q!WindowsAgree, WindowsAgree, Q!Seen, Seen, Q!Min, Min,
    Q!Used, Used

\* The inductive invariant of the quotas holds in every state.
THEOREM QuotaInvariant ==
  ASSUME Q!QuotasAssumption
  PROVE Q!Spec => []QInv
<1>1. Q!Init => QInv
  BY QuotaInit
<1>2. QInv /\ [Q!Next]_Q!vars => QInv'
  <2>1. SUFFICES ASSUME QInv, [Q!Next]_Q!vars
                 PROVE QInv'
    OBVIOUS
  <2>2. Q!TypeOK'
    BY <2>1, QuotaTypeStep DEF QInv
  <2>3. Mirrored'
    BY <2>1, <2>2, MirroredStep DEF QInv
  <2>4. Bounded'
    BY <2>1, <2>2, BoundedStep
  <2> QED
    BY <2>2, <2>3, <2>4 DEF QInv
<1> QED
  BY <1>1, <1>2, PTL DEF Q!Spec

\* In no window is more used than its quota, the largest estimate, and what requests have
\* used without a reservation or past the gate (titles, an admin with an empty wallet):
\* however many requests are under way at once, and whatever becomes of their reservations.
THEOREM QuotaKeptAlways ==
  ASSUME Q!QuotasAssumption
  PROVE Q!Spec => []QuotaKept
<1>1. QInv => QuotaKept
  <2>1. SUFFICES ASSUME QInv, NEW w \in Windows, Quota[w] > 0
                 PROVE Q!Sum(log, Q!Seen(w)) <=
                         Quota[w] - 1 + Q!Max(Estimates) + Q!Sum(beyond, Q!Seen(w))
    BY SamePromises DEF Q!QuotaKept
  <2>2. Load(w) <= Quota[w] - 1 + Largest1
    BY <2>1 DEF QInv, Bounded
  <2>3. /\ Sum(log, Q!Seen(w)) \in Nat /\ Sum(beyond, Q!Seen(w)) \in Nat
        /\ Sum(Pending, Requests) \in Nat /\ Quota[w] \in Nat /\ Largest1 \in Nat
    BY <2>1, QuotaSums, QuotaConstants, EstimateBound DEF QInv
  <2>4. Sum(log, Q!Seen(w)) <= Quota[w] - 1 + Largest1 + Sum(beyond, Q!Seen(w))
    BY <2>2, <2>3 DEF Load
  <2>5. /\ Q!Sum(log, Q!Seen(w)) = Sum(log, Q!Seen(w))
        /\ Q!Sum(beyond, Q!Seen(w)) = Sum(beyond, Q!Seen(w))
        /\ Q!Max(Estimates) = Largest1
    BY SameSum DEF Largest1
  <2> QED
    BY <2>4, <2>5
<1> QED
  BY <1>1, QuotaInvariant, PTL

\* The buckets that the gate reads hold what the rows of the usage log hold, in every
\* window that is within what the cleanup keeps.
THEOREM WindowsAgreeAlways ==
  ASSUME Q!QuotasAssumption
  PROVE Q!Spec => []WindowsAgree
<1>1. QInv => WindowsAgree
  <2>1. SUFFICES ASSUME QInv, NEW w \in Windows, Span[w] <= Keep
                 PROVE Q!Used(w) = Q!Sum(log, 0..Span[w])
    BY SamePromises DEF Q!WindowsAgree
  <2>2. PICK top \in Nat : Q!Ages = 0..top /\ \A v \in Windows : Span[v] <= top
    BY AgesFrom
  <2> DEFINE A == 0..Span[w]
  <2>3. Span[w] \in Nat /\ Keep \in Nat /\ Span[w] <= top
    BY <2>2, QuotaConstants
  <2>4. IsFiniteSet(A)
    BY <2>3, Intervals
  <2>5. \A a \in A : rollup[a] = log[a]
    BY <2>1, <2>2, <2>3 DEF QInv, Mirrored
  <2>6. Q!Used(w) = Sum(rollup, A) /\ Q!Sum(log, A) = Sum(log, A)
    BY SameSum DEF Q!Used
  <2> HIDE DEF A
  <2>7. Sum(rollup, A) = Sum(log, A)
    BY <2>4, <2>5, SumSame
  <2>8. Q!Used(w) = Q!Sum(log, A)
    BY <2>6, <2>7
  <2> QED
    BY <2>8 DEF A
<1> QED
  BY <1>1, QuotaInvariant, PTL

USE RouteAssumption, BudgetAssumption, TimerAssumption
USE DEF breaker, channels, route, Never

\* A call that a request has made is remembered, or is the one it is busy with; plain
\* requests remember it as soon as they make it.
Remembered ==
  \A r \in Requests :
    /\ \A c \in Targets :
         calls[<<r, c>>] > 0 => c \in tried[r] \/ (pc[r] # "choosing" /\ c = at[r])
    /\ r \notin Streams => pc[r] \notin {"reading", "streaming"}
    /\ r \notin Streams /\ pc[r] = "calling" => at[r] = Base \/ at[r] \in tried[r]

\* A request that is not over has an attempt left.
AttemptLeft ==
  \A r \in Requests : pc[r] \in InFlight \union {"choosing"} => attempts[r] < Budget(r)

\* Attempts that were begun: those that failed, and the one that is under way or was the last.
Effort(r) == attempts[r] + (IF pc[r] \in {"choosing", "failed"} THEN 0 ELSE 1)

\* Each channel that was called took an attempt, and there are no more of them than the budget.
Spent ==
  \A r \in Requests :
    /\ IsFiniteSet(Called(r))
    /\ Cardinality(Called(r)) <= Effort(r)
    /\ Effort(r) <= Budget(r)

IInv ==
  /\ TypeOK
  /\ OpenIffThreshold
  /\ Remembered
  /\ OncePerChannel
  /\ AttemptLeft
  /\ GivesUpLate
  /\ Spent

----------------------------------------------------------------------------
\* Every step keeps the types.
LEMMA TypeStep ==
  ASSUME TypeOK, [Next]_vars
  PROVE TypeOK'
<1> USE DEF TypeOK, InFlight, Ended, Targets
<1>1. ASSUME NEW r \in Requests, NEW c \in Selectable(r) PROVE c \in Targets
  BY <1>1 DEF Selectable, Candidates
<1>2. ASSUME NEW r \in Requests, Choose(r) PROVE TypeOK'
  <2>1. CASE KeyMissing(r)
    BY <1>1, <2>1 DEF KeyMissing, Exclude, RetryOrGiveUp, Cool
  <2>2. CASE Blocked(r)
    BY <1>1, <2>2 DEF Blocked, Exclude, RetryOrGiveUp, Cool
  <2>3. CASE Dispatch(r)
    BY <1>1, <2>3 DEF Dispatch
  <2> QED BY <1>2, <2>1, <2>2, <2>3 DEF Choose
<1>3. ASSUME NEW r \in Requests, Respond(r) \/ Abandon(r) PROVE TypeOK'
  <2>1. CASE Succeed(r) \/ RefusePlain(r) \/ RefuseStream(r)
    BY <2>1 DEF Succeed, RefusePlain, RefuseStream, RecordSuccess, RecordFailure,
      RetryOrGiveUp, Cool
  <2>2. CASE NetError(r) \/ OtherError(r)
    BY <2>2 DEF NetError, OtherError, RecordFailure, Exclude, RetryOrGiveUp, Cool
  <2>3. CASE StreamFails(r) \/ StreamEnds(r) \/ StreamBreaks(r) \/ Abandon(r)
    BY <2>3, SMTT(40)
      DEF StreamFails, StreamEnds, StreamBreaks, Abandon, Exclude, RetryOrGiveUp, Cool
  <2> QED BY <1>3, <2>1, <2>2, <2>3 DEF Respond
<1>4. ASSUME NEW c \in Channels, ToggleActive(c) \/ ResetCooldown(c) \/ TestFails(c)
      PROVE TypeOK'
  BY <1>4 DEF ToggleActive, ResetCooldown, TestFails, Cool
<1>5. CASE Tick \/ UNCHANGED vars
  BY <1>5 DEF Tick, vars
<1> QED
  BY <1>2, <1>3, <1>4, <1>5 DEF Next

\* A failure opens the breaker when it reaches the threshold, a success closes it.
LEMMA BreakerStep ==
  ASSUME TypeOK, OpenIffThreshold, [Next]_vars
  PROVE OpenIffThreshold'
<1> USE DEF TypeOK, OpenIffThreshold
<1>1. ASSUME RecordFailure \/ RecordSuccess PROVE OpenIffThreshold'
  BY <1>1 DEF RecordFailure, RecordSuccess
<1>2. ASSUME NEW r \in Requests, Choose(r) PROVE OpenIffThreshold'
  BY <1>2 DEF Choose, KeyMissing, Blocked, Dispatch
<1>3. ASSUME NEW r \in Requests, Respond(r) \/ Abandon(r) PROVE OpenIffThreshold'
  BY <1>1, <1>3 DEF Respond, Succeed, RefusePlain, RefuseStream, NetError, OtherError,
    StreamFails, StreamEnds, StreamBreaks, Abandon
<1>4. ASSUME NEW c \in Channels, ToggleActive(c) \/ ResetCooldown(c) \/ TestFails(c)
      PROVE OpenIffThreshold'
  BY <1>4 DEF ToggleActive, ResetCooldown, TestFails
<1>5. CASE Tick \/ UNCHANGED vars
  BY <1>5 DEF Tick, vars
<1> QED
  BY <1>2, <1>3, <1>4, <1>5 DEF Next

\* What was called is excluded before the request chooses again.
LEMMA RememberedStep ==
  ASSUME TypeOK, Remembered, [Next]_vars
  PROVE Remembered'
<1> USE DEF TypeOK, Remembered, InFlight, Ended, Targets
<1>1. ASSUME NEW r \in Requests, NEW c \in Selectable(r) PROVE c \in Targets
  BY <1>1 DEF Selectable, Candidates
<1>2. ASSUME NEW r \in Requests, KeyMissing(r) \/ Blocked(r) PROVE Remembered'
  BY <1>1, <1>2 DEF KeyMissing, Blocked, Exclude, RetryOrGiveUp
<1>3. ASSUME NEW r \in Requests, Dispatch(r) PROVE Remembered'
  BY <1>1, <1>3 DEF Dispatch
<1>4. ASSUME NEW r \in Requests, Succeed(r) \/ RefusePlain(r) \/ RefuseStream(r) PROVE Remembered'
  BY <1>4 DEF Succeed, RefusePlain, RefuseStream, RetryOrGiveUp
<1>5. ASSUME NEW r \in Requests, NetError(r) \/ OtherError(r) PROVE Remembered'
  BY <1>5 DEF NetError, OtherError, Exclude, RetryOrGiveUp
<1>6. ASSUME NEW r \in Requests,
        StreamFails(r) \/ StreamEnds(r) \/ StreamBreaks(r) \/ Abandon(r)
      PROVE Remembered'
  BY <1>6 DEF StreamFails, StreamEnds, StreamBreaks, Abandon, Exclude, RetryOrGiveUp
<1>7. ASSUME NEW c \in Channels, ToggleActive(c) \/ ResetCooldown(c) \/ TestFails(c)
      PROVE Remembered'
  BY <1>7 DEF ToggleActive, ResetCooldown, TestFails
<1>8. CASE Tick \/ UNCHANGED vars
  BY <1>8 DEF Tick, vars
<1> QED
  BY <1>2, <1>3, <1>4, <1>5, <1>6, <1>7, <1>8 DEF Next, Choose, Respond

\* Only Dispatch calls, and it chooses among what is not remembered.
LEMMA OnceStep ==
  ASSUME TypeOK, Remembered, OncePerChannel, [Next]_vars
  PROVE OncePerChannel'
<1> USE DEF TypeOK
<1>1. ASSUME NEW r \in Requests, Dispatch(r) PROVE OncePerChannel'
  <2>1. PICK c \in Selectable(r) : calls' = [calls EXCEPT ![<<r, c>>] = @ + 1]
    BY <1>1 DEF Dispatch
  <2>2. c \in Targets /\ c \notin tried[r]
    BY <2>1 DEF Selectable, Candidates, Targets
  <2>3. calls[<<r, c>>] = 0
    BY <1>1, <2>2 DEF Remembered, Dispatch
  <2>4. \A q \in Requests, d \in Targets :
          calls'[<<q, d>>] = IF q = r /\ d = c THEN 1 ELSE calls[<<q, d>>]
    <3> SUFFICES ASSUME NEW q \in Requests, NEW d \in Targets
                 PROVE  calls'[<<q, d>>] = IF q = r /\ d = c THEN 1 ELSE calls[<<q, d>>]
      OBVIOUS
    <3>1. <<q, d>> \in Requests \X Targets /\ (<<q, d>> = <<r, c>> <=> q = r /\ d = c)
      OBVIOUS
    <3>2. calls \in [Requests \X Targets -> Nat]
      OBVIOUS
    <3> QED BY <2>1, <2>2, <2>3, <3>1, <3>2
  <2>5. \A q \in Requests, d \in Targets : calls[<<q, d>>] <= 1
    BY DEF OncePerChannel
  <2>6. \A q \in Requests, d \in Targets : calls'[<<q, d>>] <= 1
    <3> TAKE q \in Requests, d \in Targets
    <3>1. CASE q = r /\ d = c BY <2>4, <3>1
    <3>2. CASE ~(q = r /\ d = c)
      <4>1. calls'[<<q, d>>] = calls[<<q, d>>] BY <2>4, <3>2
      <4> QED BY <2>5, <4>1
    <3> QED BY <3>1, <3>2
  <2> QED BY <2>6 DEF OncePerChannel
<1>2. ASSUME NEW r \in Requests,
        KeyMissing(r) \/ Blocked(r) \/ Respond(r) \/ Abandon(r)
      PROVE OncePerChannel'
  BY <1>2 DEF OncePerChannel, KeyMissing, Blocked, Respond, Succeed, RefusePlain, RefuseStream, NetError,
    OtherError, StreamFails, StreamEnds, StreamBreaks, Abandon
<1>3. ASSUME NEW c \in Channels, ToggleActive(c) \/ ResetCooldown(c) \/ TestFails(c)
      PROVE OncePerChannel'
  BY <1>3 DEF OncePerChannel, ToggleActive, ResetCooldown, TestFails
<1>4. CASE Tick \/ UNCHANGED vars
  BY <1>4 DEF OncePerChannel, Tick, vars
<1> QED
  BY <1>1, <1>2, <1>3, <1>4 DEF Next, Choose

\* The budget bounds the attempts, and a request gives up for one of three reasons.
LEMMA BudgetStep ==
  ASSUME TypeOK, AttemptLeft, GivesUpLate, [Next]_vars
  PROVE AttemptLeft' /\ GivesUpLate'
<1> USE DEF TypeOK, AttemptLeft, GivesUpLate, InFlight, Ended, Targets
<1> DEFINE Fine == AttemptLeft' /\ GivesUpLate'
<1>1. \A r \in Requests : Budget(r) \in Nat
  BY DEF Budget
<1>2. ASSUME NEW r \in Requests, NEW c \in Targets, RetryOrGiveUp(r, c),
        pc[r] \in InFlight \union {"choosing"}, at' = [at EXCEPT ![r] = c]
      PROVE Fine
  <2>1. \A q \in Requests : q # r => pc'[q] = pc[q] /\ at'[q] = at[q] /\ attempts'[q] = attempts[q]
    BY <1>2 DEF RetryOrGiveUp
  <2>2. at'[r] = c /\ attempts'[r] = attempts[r] + 1 /\ attempts[r] < Budget(r)
    BY <1>2 DEF RetryOrGiveUp
  <2>3. pc'[r] = IF c = Base \/ attempts[r] + 1 >= Budget(r) THEN "failed" ELSE "choosing"
    BY <1>2 DEF RetryOrGiveUp
  <2>4. attempts[r] \in Nat /\ Budget(r) \in Nat
    BY <1>1
  <2>5. AttemptLeft'
    BY <2>1, <2>2, <2>3, <2>4
  <2>6. pc'[r] = "failed" => c = Base \/ attempts'[r] = Budget(r)
    BY <2>2, <2>3, <2>4
  <2>7. GivesUpLate'
    BY <2>1, <2>2, <2>6
  <2> QED BY <2>5, <2>7
<1>3. ASSUME NEW r \in Requests, RetryOrGiveUp(r, at[r]), pc[r] \in InFlight, UNCHANGED at
      PROVE Fine
  <2>1. at[r] \in Targets /\ at' = [at EXCEPT ![r] = at[r]]
    BY <1>3
  <2> HIDE DEF Fine
  <2> QED BY <1>2, <1>3, <2>1 DEF InFlight
<1>4. ASSUME NEW r \in Requests, Choose(r) PROVE Fine
  <2>1. CASE KeyMissing(r) \/ Blocked(r)
    <3>1. PICK c \in Selectable(r) : at' = [at EXCEPT ![r] = c] /\ pc[r] = "choosing"
            /\ \/ RetryOrGiveUp(r, c)
               \/ /\ r \notin Streams /\ c \in KeyLess
                  /\ pc' = [pc EXCEPT ![r] = "failed"] /\ UNCHANGED attempts
      BY <2>1 DEF KeyMissing, Blocked
    <3>2. c \in Targets
      BY DEF Selectable, Candidates
    <3> QED BY <1>2, <3>1, <3>2
  <2>2. CASE Dispatch(r)
    BY <2>2 DEF Dispatch
  <2> QED BY <1>4, <2>1, <2>2 DEF Choose
<1>5. ASSUME NEW r \in Requests, Succeed(r) \/ RefusePlain(r) \/ RefuseStream(r) PROVE Fine
  BY <1>3, <1>5 DEF Succeed, RefusePlain, RefuseStream
<1>6. ASSUME NEW r \in Requests, NetError(r) \/ OtherError(r) PROVE Fine
  BY <1>3, <1>6 DEF NetError, OtherError
<1>7. ASSUME NEW r \in Requests,
        StreamFails(r) \/ StreamEnds(r) \/ StreamBreaks(r) \/ Abandon(r)
      PROVE Fine
  BY <1>3, <1>7 DEF StreamFails, StreamEnds, StreamBreaks, Abandon
<1>8. ASSUME NEW c \in Channels, ToggleActive(c) \/ ResetCooldown(c) \/ TestFails(c)
      PROVE Fine
  BY <1>8 DEF ToggleActive, ResetCooldown, TestFails
<1>9. CASE Tick \/ UNCHANGED vars
  BY <1>9 DEF Tick, vars
<1> QED
  BY <1>4, <1>5, <1>6, <1>7, <1>8, <1>9 DEF Next, Respond

\* Each call is an attempt that was begun, and each attempt was left to begin.
LEMMA SpentStep ==
  ASSUME TypeOK, AttemptLeft, Spent, [Next]_vars
  PROVE  Spent'
<1> USE DEF TypeOK, InFlight, Ended
<1>1. \A r \in Requests : Budget(r) \in Nat /\ Effort(r) \in Nat
  BY BudgetAssumption DEF Budget, Effort
<1>2. ASSUME UNCHANGED calls, \A q \in Requests : Effort(q)' >= Effort(q) /\ Effort(q)' <= Budget(q),
             \A q \in Requests : Effort(q)' \in Nat
      PROVE  Spent'
  <2>1. \A q \in Requests : Called(q)' = Called(q)
    BY <1>2 DEF Called
  <2>2. \A q \in Requests : IsFiniteSet(Called(q)) /\ Cardinality(Called(q)) \in Nat
    BY FS_CardinalityType DEF Spent
  <2> QED
    BY <1>1, <1>2, <2>1, <2>2 DEF Spent, Budget
<1>3. ASSUME UNCHANGED <<calls, attempts>>,
             \A q \in Requests : pc'[q] \in {"choosing", "failed"} <=> pc[q] \in {"choosing", "failed"}
      PROVE  Spent'
  <2>1. \A q \in Requests : Effort(q)' = Effort(q)
    BY <1>3 DEF Effort
  <2>2. \A q \in Requests : Effort(q)' >= Effort(q) /\ Effort(q)' <= Budget(q) /\ Effort(q)' \in Nat
    BY <1>1, <2>1 DEF Spent
  <2> QED
    BY <1>2, <1>3, <2>2
<1>4. ASSUME NEW r \in Requests, NEW c, RetryOrGiveUp(r, c), UNCHANGED calls,
             pc[r] \in InFlight \union {"choosing"}
      PROVE  Spent'
  <2>1. \A q \in Requests \ {r} : Effort(q)' = Effort(q)
    BY <1>4 DEF RetryOrGiveUp, Effort
  <2>2. Effort(r)' = attempts[r] + 1 /\ attempts[r] < Budget(r) /\ attempts[r] \in Nat
    BY <1>4 DEF RetryOrGiveUp, Effort, AttemptLeft
  <2>3. Effort(r) <= attempts[r] + 1
    BY DEF Effort
  <2>4. \A q \in Requests : Effort(q)' >= Effort(q) /\ Effort(q)' <= Budget(q) /\ Effort(q)' \in Nat
    BY <1>1, <2>1, <2>2, <2>3 DEF Spent
  <2> QED
    BY <1>2, <1>4, <2>4
<1>5. ASSUME NEW r \in Requests, Dispatch(r) PROVE Spent'
  <2>1. PICK c \in Selectable(r) : calls' = [calls EXCEPT ![<<r, c>>] = @ + 1]
    BY <1>5 DEF Dispatch
  <2>2. c \in Targets
    BY <2>1 DEF Selectable, Candidates, Targets
  <2>3. /\ pc[r] = "choosing" /\ pc' = [pc EXCEPT ![r] = "calling"] /\ UNCHANGED attempts
    BY <1>5 DEF Dispatch
  <2>4. \A q \in Requests \ {r} : Called(q)' = Called(q) /\ Effort(q)' = Effort(q)
    <3> TAKE q \in Requests \ {r}
    <3>1. \A d \in Targets : calls'[<<q, d>>] = calls[<<q, d>>]
      BY <2>1
    <3> QED
      BY <2>3, <3>1 DEF Called, Effort, Targets
  <2>5. Called(r)' = Called(r) \union {c}
    <3>1. \A d \in Targets : calls'[<<r, d>>] = IF d = c THEN calls[<<r, d>>] + 1 ELSE calls[<<r, d>>]
      BY <2>1, <2>2
    <3>2. \A d \in Targets : calls[<<r, d>>] \in Nat
      OBVIOUS
    <3> QED
      BY <2>2, <3>1, <3>2 DEF Called, Targets
  <2>6. /\ IsFiniteSet(Called(r)) /\ Cardinality(Called(r)) \in Nat
        /\ Cardinality(Called(r)) <= Effort(r)
    BY FS_CardinalityType DEF Spent
  <2>7. /\ IsFiniteSet(Called(r)')
        /\ Cardinality(Called(r)') <= Cardinality(Called(r)) + 1
        /\ Cardinality(Called(r)') \in Nat
    <3>1. /\ IsFiniteSet(Called(r) \union {c})
          /\ Cardinality(Called(r) \union {c}) \in Nat
          /\ Cardinality(Called(r) \union {c}) =
               IF c \in Called(r) THEN Cardinality(Called(r)) ELSE Cardinality(Called(r)) + 1
      BY ONLY <2>6, FS_AddElement, FS_CardinalityType
    <3>2. Cardinality(Called(r) \union {c}) <= Cardinality(Called(r)) + 1
      BY ONLY <2>6, <3>1
    <3> QED
      BY ONLY <2>5, <3>1, <3>2
  <2>8. Effort(r) = attempts[r] /\ Effort(r)' = attempts[r] + 1 /\ attempts[r] < Budget(r)
    BY <2>3 DEF Effort, AttemptLeft
  <2>9. attempts[r] \in Nat /\ Budget(r) \in Nat
    BY <1>1
  <2>10. Cardinality(Called(r)') <= Effort(r)' /\ Effort(r)' <= Budget(r)
    BY <2>6, <2>7, <2>8, <2>9
  <2> QED
    BY <2>4, <2>7, <2>10 DEF Spent, Budget
<1>6. ASSUME NEW r \in Requests, KeyMissing(r) \/ Blocked(r) PROVE Spent'
  <2>1. CASE \E c \in Selectable(r) : RetryOrGiveUp(r, c)
    BY <1>4, <1>6, <2>1 DEF KeyMissing, Blocked
  <2>2. CASE pc' = [pc EXCEPT ![r] = "failed"] /\ UNCHANGED attempts
    BY <1>3, <1>6, <2>2 DEF KeyMissing, Blocked
  <2> QED
    BY <1>6, <2>1, <2>2 DEF KeyMissing, Blocked
<1>7. ASSUME NEW r \in Requests, Succeed(r) \/ RefusePlain(r) \/ RefuseStream(r) PROVE Spent'
  BY <1>3, <1>4, <1>7 DEF Succeed, RefusePlain, RefuseStream
<1>8. ASSUME NEW r \in Requests, NetError(r) \/ OtherError(r) PROVE Spent'
  BY <1>3, <1>4, <1>8 DEF NetError, OtherError
<1>9. ASSUME NEW r \in Requests,
        StreamFails(r) \/ StreamEnds(r) \/ StreamBreaks(r) \/ Abandon(r)
      PROVE Spent'
  BY <1>3, <1>4, <1>9 DEF StreamFails, StreamEnds, StreamBreaks, Abandon
<1>10. CASE \/ \E c \in Channels : ToggleActive(c) \/ ResetCooldown(c) \/ TestFails(c)
            \/ Tick \/ UNCHANGED vars
  BY <1>3, <1>10 DEF ToggleActive, ResetCooldown, TestFails, Tick, vars
<1> QED
  BY <1>5, <1>6, <1>7, <1>8, <1>9, <1>10 DEF Next, Choose, Respond

----------------------------------------------------------------------------
\* The conjunction is inductive.
THEOREM Inductive == Spec => []IInv
<1>1. Init => IInv
  <2>1. Init => Spent
    <3> SUFFICES ASSUME Init, NEW r \in Requests
                 PROVE  /\ IsFiniteSet(Called(r)) /\ Cardinality(Called(r)) <= Effort(r)
                        /\ Effort(r) <= Budget(r)
      BY DEF Spent
    <3>1. Called(r) = {}
      BY DEF Init, Called
    <3>2. Effort(r) = 0 /\ Budget(r) \in Nat
      BY BudgetAssumption DEF Init, Effort, Budget
    <3> QED
      BY <3>1, <3>2, FS_EmptySet
  <2> QED
    BY <2>1 DEF Init, IInv, TypeOK, OpenIffThreshold, Remembered, OncePerChannel, AttemptLeft,
      GivesUpLate, InFlight, Ended, Targets, Budget
<1>2. IInv /\ [Next]_vars => IInv'
  BY TypeStep, BreakerStep, RememberedStep, OnceStep, BudgetStep, SpentStep DEF IInv
<1> QED
  BY <1>1, <1>2, PTL DEF Spec

\* Types, the counters of the breaker and of the rotation included.
THEOREM TypeCorrect == Spec => []TypeOK
<1>1. IInv => TypeOK BY DEF IInv
<1> QED BY <1>1, Inductive, PTL

\* The breaker is open exactly while its threshold is reached.
THEOREM BreakerConsistent == Spec => []OpenIffThreshold
<1>1. IInv => OpenIffThreshold BY DEF IInv
<1> QED BY <1>1, Inductive, PTL

\* No request calls a channel twice.
THEOREM NoChannelTwice == Spec => []OncePerChannel
<1>1. IInv => OncePerChannel BY DEF IInv
<1> QED BY <1>1, Inductive, PTL

\* Fallback never carries a request to more channels than it has attempts (the posts that
\* post_with_retry repeats on one channel are one attempt).
THEOREM CallsBounded == Spec => []CallsWithinBudget
<1>1. IInv => CallsWithinBudget
  <2> SUFFICES ASSUME IInv, NEW r \in Requests
               PROVE  IsFiniteSet(Called(r)) /\ Cardinality(Called(r)) <= Budget(r)
    BY DEF CallsWithinBudget
  <2>1. /\ IsFiniteSet(Called(r)) /\ Cardinality(Called(r)) \in Nat
        /\ Cardinality(Called(r)) <= Effort(r) /\ Effort(r) <= Budget(r)
    BY FS_CardinalityType DEF IInv, Spent
  <2>2. Effort(r) \in Nat /\ Budget(r) \in Nat
    BY BudgetAssumption DEF IInv, TypeOK, Effort, Budget
  <2> QED
    BY <2>1, <2>2
<1> QED BY <1>1, Inductive, PTL

\* A request gives up only after its attempts, at the base, or at a missing key.
THEOREM NoEarlyGiveUp == Spec => []GivesUpLate
<1>1. IInv => GivesUpLate BY DEF IInv
<1> QED BY <1>1, Inductive, PTL
=============================================================================
