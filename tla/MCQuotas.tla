------------------------------- MODULE MCQuotas -------------------------------
(* An instance of Quotas for TLC. *)
EXTENDS Quotas, TLC
CONSTANTS r1, r2, r3

\* A month is longer than the buckets are kept.
Spans == "5h" :> 1 @@ "week" :> 2 @@ "month" :> 4
Quotas123 == "5h" :> 2 @@ "week" :> 3 @@ "month" :> 4
Sym == Permutations(Requests)
=============================================================================
