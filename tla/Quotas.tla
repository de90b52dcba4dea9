--------------------------------- MODULE Quotas ---------------------------------
(***************************************************************************)
(* One user's token quotas (backend/services/quota_service.py), over what  *)
(* UsageWindows counts.                                                    *)
(*                                                                         *)
(* A request is let in when, in each of the three windows, the tokens that *)
(* are counted and the tokens that other requests have reserved stay below *)
(* the quota; its own estimate is not asked.  The gate and the reservation *)
(* have no await between them.  What a request used is known, and counted, *)
(* when it ends; then its reservation goes.  Two ways lead past the        *)
(* windows: an admin's whose wallet is empty, and the title of a chat.     *)
(***************************************************************************)
EXTENDS UsageWindows

CONSTANTS
  Requests,  \* places for requests, and for the reservations they leave behind
  Uses,      \* tokens a request may turn out to use
  IsAdmin,   \* the user is in admin_users, too
  MaxBeyond  \* bound: with so much used beyond the reservations none comes past the gate

ASSUME QuotasAssumption ==
  IsFiniteSet(Requests) /\ Uses \subseteq Nat /\ IsAdmin \in BOOLEAN /\ MaxBeyond \in Nat

VARIABLES
  pc,        \* pc[r]: "idle", "open", "ungated", "counted", or "left"
  reserved   \* reserved[r]: its row of token_reservations, while the TTL runs

vars == <<pc, reserved, usage>>

TypeOK ==
  /\ pc \in [Requests -> {"idle", "open", "ungated", "counted", "left"}]
  /\ reserved \in [Requests -> Nat]
  /\ log \in [Ages -> Nat] /\ rollup \in [Ages -> Nat] /\ beyond \in [Ages -> Nat]

Init ==
  /\ pc = [r \in Requests |-> "idle"]
  /\ reserved = [r \in Requests |-> 0]
  /\ log = Nothing /\ rollup = Nothing /\ beyond = Nothing

Becomes(r, state) == pc' = [pc EXCEPT ![r] = state]
Held(r, n) == reserved' = [reserved EXCEPT ![r] = n]

----------------------------------------------------------------------------
(* The gate *)

\* Faulty variant: requests that are under way are not counted.
AllowedUnreserved(w) == Quota[w] > 0 => Used(w) < Quota[w]

Allowed(w) == Quota[w] > 0 => Used(w) + Sum(reserved, Requests) < Quota[w]

\* reserve_quota_reservation; a row that cannot be written is done without.
Reserve(r) == \E n \in Estimates \union {0} : Held(r, n)

\* assert_request_allowed and the reservation.
Admit(r) ==
  /\ pc[r] = "idle"
  /\ \A w \in Windows : Allowed(w)
  /\ Reserve(r)
  /\ Becomes(r, "open")
  /\ UNCHANGED usage

\* Keeps the model finite.
InBound == Sum(beyond, Ages) < MaxBeyond

\* An admin's wallet is empty: assert_request_allowed says so before it comes to the
\* windows, and chat completions go on all the same.
AdmitPenniless(r) ==
  /\ pc[r] = "idle" /\ IsAdmin /\ InBound
  /\ Reserve(r)
  /\ Becomes(r, "ungated")
  /\ UNCHANGED usage

\* generate_chat_title asks no gate and reserves nothing; what it uses is counted.
AskTitle(r) ==
  /\ pc[r] = "idle" /\ InBound
  /\ Becomes(r, "ungated")
  /\ UNCHANGED <<reserved, usage>>

\* The TTL is over: the row is not summed any more, and the hourly job deletes it.
Lapse(r) ==
  /\ reserved[r] > 0
  /\ Held(r, 0)
  /\ UNCHANGED <<pc, usage>>

----------------------------------------------------------------------------
(* The end of a request *)

\* The reservation that stands for a request in the windows: of one that was gated, what it
\* still has.
Standing(r) == IF pc[r] = "open" THEN reserved[r] ELSE 0

\* What a request used beyond that.
Unreserved(r, n) == IF n > Standing(r) THEN n - Standing(r) ELSE 0

InFlight(r) == pc[r] \in {"open", "ungated"}

\* add_usage_log: the row, the bucket and the cleanup are one transaction.
Count(r) ==
  /\ InFlight(r)
  /\ \E n \in Uses :
       /\ log' = Add(log, n)
       /\ rollup' \in {Add(rollup, n), Cleaned(Add(rollup, n))}
       /\ beyond' = Add(beyond, Unreserved(r, n))
  /\ Becomes(r, "counted")
  /\ UNCHANGED reserved

\* The upstream has failed, or the transaction above has: it is not counted.
Fail(r) ==
  /\ InFlight(r)
  /\ Becomes(r, "counted")
  /\ UNCHANGED <<reserved, usage>>

\* release_quota_reservation, for this request only.
Release(r) ==
  /\ pc[r] = "counted"
  /\ Held(r, 0)
  /\ Becomes(r, "idle")
  /\ UNCHANGED usage

\* A way out that forgets the reservation: an answer of /v1/chat with an error, or a
\* client that has left a stream of openai_compat.py.
Leave(r) ==
  /\ InFlight(r) \/ pc[r] = "counted"
  /\ Becomes(r, "left")
  /\ UNCHANGED <<reserved, usage>>

Forgotten(r) ==
  /\ pc[r] = "left" /\ reserved[r] = 0
  /\ Becomes(r, "idle")
  /\ UNCHANGED <<reserved, usage>>

\* The process ends, and all its requests.
Restart ==
  /\ \E r \in Requests : InFlight(r) \/ pc[r] = "counted"
  /\ pc' = [r \in Requests |-> IF pc[r] = "idle" THEN "idle" ELSE "left"]
  /\ UNCHANGED <<reserved, usage>>

\* Time passes.
Tick ==
  /\ log' = Older(log) /\ rollup' = Older(rollup) /\ beyond' = Older(beyond)
  /\ UNCHANGED <<pc, reserved>>

----------------------------------------------------------------------------

Serve(r) ==
  \/ Admit(r) \/ AdmitPenniless(r) \/ AskTitle(r)
  \/ Count(r) \/ Fail(r) \/ Release(r) \/ Leave(r) \/ Forgotten(r) \/ Lapse(r)
Next == (\E r \in Requests : Serve(r)) \/ Restart \/ Tick

Spec == Init /\ [][Next]_vars
=============================================================================
