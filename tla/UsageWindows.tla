------------------------------ MODULE UsageWindows ------------------------------
(***************************************************************************)
(* What one user has used, by age, and the windows that the quotas look at *)
(* (the usage tables of backend/database.py).                              *)
(*                                                                         *)
(* Tokens are counted twice: a row of usage_logs for every request, and a  *)
(* bucket of usage_rollups for every minute, which is what the gate reads. *)
(* Both are kept here by age, the newest first.                            *)
(***************************************************************************)
EXTENDS Sums

CONSTANTS
  Windows,      \* "5h", "week", "month"
  Span,         \* Span[w]: the age a bucket may have to be in the window
  Quota,        \* users.quota_5h, quota_week, quota_month; 0 is no limit
  Keep,         \* the age at which a bucket is deleted, nine days
  Estimates     \* max_tokens of a request, what it reserves

ASSUME WindowsAssumption ==
  /\ Span \in [Windows -> Nat] /\ Quota \in [Windows -> Nat]
  /\ Keep \in Nat
  /\ IsFiniteSet(Windows) /\ Windows # {}
  /\ IsFiniteSet(Estimates) /\ Estimates # {} /\ Estimates \subseteq Nat

VARIABLES
  log,       \* log[a]: tokens in the rows of usage_logs of age a
  rollup,    \* rollup[a]: tokens in the bucket of usage_rollups of age a
  beyond     \* beyond[a]: of log[a], what no reservation of a gated request stood for

usage == <<log, rollup, beyond>>

Ages == 0..Max({Span[w] : w \in Windows})
Nothing == [a \in Ages |-> 0]

Add(f, n) == [f EXCEPT ![0] = @ + n]
Older(f) == [a \in Ages |-> IF a = 0 THEN 0 ELSE f[a - 1]]

\* Faulty variant: what is older than a day is deleted.
CleanedSooner(f) == [a \in Ages |-> IF a > 1 THEN 0 ELSE f[a]]

\* The buckets that are deleted by the first request of an hour.
Cleaned(f) == [a \in Ages |-> IF a > Keep THEN 0 ELSE f[a]]

\* bucket_minute >= now_minute - span
Used(w) == Sum(rollup, 0..Span[w])

\* The part of a window for which buckets are kept.
Seen(w) == 0..Min({Span[w], Keep})

----------------------------------------------------------------------------
(* Properties *)

\* assert_request_allowed, with requests that overlap, overrun their reservations or lose
\* them: in no window is more used than the quota, one request's estimate, and what
\* requests have used without a reservation or without the gate -- an admin's with an empty
\* wallet, and titles.  The reservations are what makes that hold for any number of requests
\* at once.
QuotaKept ==
  \A w \in Windows :
    Quota[w] > 0 =>
      Sum(log, Seen(w)) <= Quota[w] - 1 + Max(Estimates) + Sum(beyond, Seen(w))

\* get_quota_snapshot reads the buckets in place of the rows: of a window that is within
\* what the cleanup keeps, they hold the same tokens.  (The month is not within it.)
WindowsAgree ==
  \A w \in Windows : Span[w] <= Keep => Used(w) = Sum(log, 0..Span[w])
=============================================================================
