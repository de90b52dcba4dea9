---------------------------- MODULE ChannelRouting ----------------------------
(***************************************************************************)
(* How requests find an upstream: the channel rotation with its cooldowns, *)
(* the circuit breaker of the provider, and the fallback loops             *)
(*   ProxyService.forward_request  answers in one piece                    *)
(*   ProxyService.stream_chat      streams (the requests in Streams)       *)
(*                                                                         *)
(* All requests ask one provider.  A step is what a coroutine does between *)
(* two awaits.  The choice among eligible channels is nondeterministic:    *)
(* weighted random, or round robin with equal weights.  Time is the ticks  *)
(* left on each timer.                                                     *)
(***************************************************************************)
EXTENDS Integers, FiniteSets

CONSTANTS
  Requests, Streams,  \* the requests, and those that stream
  Channels, Base,     \* the channels rows; the fallback to the platform key
  KeyLess,            \* channels, or Base, whose key an admin edits: at times it is unusable
  Threshold,          \* failure_threshold
  BreakerCooldown,    \* cooldown_seconds, in ticks
  ChannelCooldown,    \* CHANNEL_COOLDOWN_SECONDS, in ticks
  FallbackMax,        \* CHANNEL_FALLBACK_MAX
  StreamTries         \* max_fallbacks of stream_chat

ASSUME RouteAssumption == Streams \subseteq Requests /\ Base \notin Channels
ASSUME BudgetAssumption == FallbackMax \in Nat \ {0} /\ StreamTries \in Nat \ {0}
ASSUME TimerAssumption ==
  /\ Threshold \in Nat \ {0}
  /\ BreakerCooldown \in Nat \ {0} /\ ChannelCooldown \in Nat \ {0}

VARIABLES
  failures,  \* _State.failures
  left,      \* ticks until the breaker half-opens; Never when opened_at is 0.0
  active,    \* channels with is_active = 1
  cool,      \* cool[c]: ticks until cooldown_until
  pc,        \* pc[r]: where request r is
  at,        \* at[r]: the channel of r's last attempt
  tried,     \* tried[r]: attempted, exclude_ids
  attempts,  \* attempts[r]: attempts that failed
  calls      \* calls[<<r, c>>]: how often r began to call c

breaker == <<failures, left>>
channels == <<active, cool>>
route == <<at, tried, attempts, calls>>
vars == <<breaker, channels, pc, route>>

Never == -1
Targets == Channels \union {Base}
InFlight == {"calling", "reading", "streaming"}
\* failed: 5xx or an error event; broken: an error event after the first delta;
\* raised: an exception leaves stream_chat; gone: the client left.
Ended == {"served", "failed", "broken", "raised", "gone"}

TypeOK ==
  /\ failures \in Nat
  /\ left \in 0 .. BreakerCooldown \union {Never}
  /\ active \subseteq Channels
  /\ cool \in [Channels -> 0 .. ChannelCooldown]
  /\ pc \in [Requests -> InFlight \union Ended \union {"choosing"}]
  /\ at \in [Requests -> Targets]
  /\ tried \in [Requests -> SUBSET Channels]
  /\ attempts \in [Requests -> Nat]
  /\ calls \in [Requests \X Targets -> Nat]

Init ==
  /\ failures = 0 /\ left = Never
  /\ active = Channels
  /\ cool = [c \in Channels |-> 0]
  /\ pc = [r \in Requests |-> "choosing"]
  /\ at = [r \in Requests |-> Base]
  /\ tried = [r \in Requests |-> {}]
  /\ attempts = [r \in Requests |-> 0]
  /\ calls = [rc \in Requests \X Targets |-> 0]

----------------------------------------------------------------------------
(* The circuit breaker of the provider *)

\* Faulty variant: once open, the breaker looks at the failures only.
OpenForEver == failures >= Threshold /\ left # Never

IsOpen == failures >= Threshold /\ left > 0
HalfOpen == failures >= Threshold /\ left = 0

RecordFailure ==
  /\ failures' = failures + 1
  /\ left' = IF failures + 1 >= Threshold /\ left = Never THEN BreakerCooldown ELSE left

\* Faulty variant: opened_at survives a success.
RecordSuccessKeepsTime == failures' = 0 /\ UNCHANGED left

RecordSuccess ==
  IF failures > 0 THEN failures' = 0 /\ left' = Never ELSE UNCHANGED breaker

----------------------------------------------------------------------------
(* Channels *)

\* select_channel; with no candidate left, the platform's own key and base URL.
Candidates(r) == {c \in active \ tried[r] : cool[c] = 0}
Selectable(r) == IF Candidates(r) = {} THEN {Base} ELSE Candidates(r)

\* mark_failed
Cool(c) == cool' = IF c \in Channels THEN [cool EXCEPT ![c] = ChannelCooldown] ELSE cool

\* Attempts a request has: the first and its fallbacks.
Budget(r) == IF r \in Streams THEN StreamTries ELSE FallbackMax + 1

\* The channel is remembered as tried.
Exclude(r, c) == tried' = [tried EXCEPT ![r] = @ \union ({c} \ {Base})]

\* After a failed attempt: the next one, if there is one and a channel was left to fail.
RetryOrGiveUp(r, c) ==
  /\ attempts' = [attempts EXCEPT ![r] = @ + 1]
  /\ pc' = [pc EXCEPT ![r] =
       IF c = Base \/ attempts[r] + 1 >= Budget(r) THEN "failed" ELSE "choosing"]

----------------------------------------------------------------------------
(* An attempt *)

\* Faulty variant: the loop goes on without counting, marking or excluding the channel.
KeyMissingLoops(r) ==
  /\ pc[r] = "choosing"
  /\ \E c \in Selectable(r) \intersect KeyLess : at' = [at EXCEPT ![r] = c]
  /\ UNCHANGED <<breaker, channels, pc, tried, attempts, calls>>

\* No usable key: forward_request answers 500 at once, stream_chat tries the next one.
KeyMissing(r) ==
  /\ pc[r] = "choosing"
  /\ \E c \in Selectable(r) \intersect KeyLess :
       /\ at' = [at EXCEPT ![r] = c]
       /\ Exclude(r, c)
       /\ IF r \in Streams
            THEN RetryOrGiveUp(r, c) /\ Cool(c)
            ELSE pc' = [pc EXCEPT ![r] = "failed"] /\ UNCHANGED <<attempts, cool>>
  /\ UNCHANGED <<breaker, active, calls>>

\* CircuitOpenError: the channel that was selected is put in cooldown.
Blocked(r) ==
  /\ pc[r] = "choosing" /\ IsOpen
  /\ \E c \in Selectable(r) :
       /\ at' = [at EXCEPT ![r] = c]
       /\ Exclude(r, c)
       /\ RetryOrGiveUp(r, c) /\ Cool(c)
  /\ UNCHANGED <<breaker, active, calls>>

\* The call leaves.  A half-open breaker lets every call through.
Dispatch(r) ==
  /\ pc[r] = "choosing" /\ ~IsOpen
  /\ \E c \in Selectable(r) :
       /\ at' = [at EXCEPT ![r] = c]
       /\ tried' = IF r \in Streams THEN tried ELSE [tried EXCEPT ![r] = @ \union ({c} \ {Base})]
       /\ calls' = [calls EXCEPT ![<<r, c>>] = @ + 1]
  /\ pc' = [pc EXCEPT ![r] = "calling"]
  /\ UNCHANGED <<breaker, channels, attempts>>

\* 200.  mark_healthy writes last_health_at and last_error only.
Succeed(r) ==
  /\ pc[r] = "calling"
  /\ RecordSuccess
  /\ pc' = [pc EXCEPT ![r] = IF r \in Streams THEN "streaming" ELSE "served"]
  /\ UNCHANGED <<channels, route>>

\* forward_request, any other status: the awaited call has returned, so the breaker takes
\* it for a success; the channel is marked failed.
RefusePlain(r) ==
  /\ pc[r] = "calling" /\ r \notin Streams
  /\ RecordSuccess
  /\ RetryOrGiveUp(r, at[r]) /\ Cool(at[r])
  /\ UNCHANGED <<active, at, tried, calls>>

\* stream_chat, any other status: a failure from 400 on; then the body is awaited.
RefuseStream(r) ==
  /\ pc[r] = "calling" /\ r \in Streams
  /\ RecordFailure \/ RecordSuccess
  /\ pc' = [pc EXCEPT ![r] = "reading"]
  /\ UNCHANGED <<channels, route>>

\* Faulty variant: the failed channel is not excluded, its cooldown is relied on.
StreamFailsForgets(r) ==
  /\ pc[r] \in {"reading", "streaming"}
  /\ RetryOrGiveUp(r, at[r]) /\ Cool(at[r])
  /\ UNCHANGED <<breaker, active, at, tried, calls>>

\* The body of an error has been read, or the stream broke before its first delta.
StreamFails(r) ==
  /\ pc[r] \in {"reading", "streaming"}
  /\ Exclude(r, at[r])
  /\ RetryOrGiveUp(r, at[r]) /\ Cool(at[r])
  /\ UNCHANGED <<breaker, active, at, calls>>

\* TimeoutException or NetworkError, for a plain request after the retries of
\* post_with_retry.
NetError(r) ==
  /\ pc[r] = "calling"
  /\ RecordFailure
  /\ Exclude(r, at[r])
  /\ RetryOrGiveUp(r, at[r]) /\ Cool(at[r])
  /\ UNCHANGED <<active, at, calls>>

\* Any other exception of the call: the breaker does not count it, and stream_chat does
\* not catch it.
OtherError(r) ==
  /\ pc[r] = "calling"
  /\ IF r \in Streams
       THEN pc' = [pc EXCEPT ![r] = "raised"] /\ UNCHANGED <<attempts, cool>>
       ELSE RetryOrGiveUp(r, at[r]) /\ Cool(at[r])
  /\ UNCHANGED <<breaker, active, at, tried, calls>>

\* done
StreamEnds(r) ==
  /\ pc[r] = "streaming"
  /\ pc' = [pc EXCEPT ![r] = "served"]
  /\ UNCHANGED <<breaker, channels, route>>

\* The stream breaks after its first delta: an error event, and no mark on the channel.
StreamBreaks(r) ==
  /\ pc[r] = "streaming"
  /\ pc' = [pc EXCEPT ![r] = "broken"]
  /\ UNCHANGED <<breaker, channels, route>>

\* The client of a stream has gone: the generator is closed where it stands.
Abandon(r) ==
  /\ r \in Streams /\ pc[r] \in InFlight
  /\ pc' = [pc EXCEPT ![r] = "gone"]
  /\ UNCHANGED <<breaker, channels, route>>

----------------------------------------------------------------------------
(* Admins and the clock *)

\* toggle_active, set_active, delete_channel
ToggleActive(c) ==
  /\ active' = IF c \in active THEN active \ {c} ELSE active \union {c}
  /\ UNCHANGED <<breaker, cool, pc, route>>

ResetCooldown(c) ==
  /\ cool[c] > 0
  /\ cool' = [cool EXCEPT ![c] = 0]
  /\ UNCHANGED <<breaker, active, pc, route>>

\* POST /admin/channels/{id}/test, when the probe fails
TestFails(c) ==
  /\ Cool(c)
  /\ UNCHANGED <<breaker, active, pc, route>>

Tick ==
  /\ left > 0 \/ \E c \in Channels : cool[c] > 0
  /\ left' = IF left > 0 THEN left - 1 ELSE left
  /\ cool' = [c \in Channels |-> IF cool[c] > 0 THEN cool[c] - 1 ELSE 0]
  /\ UNCHANGED <<failures, active, pc, route>>

----------------------------------------------------------------------------

Respond(r) ==
  Succeed(r) \/ RefusePlain(r) \/ RefuseStream(r) \/ NetError(r) \/ OtherError(r)
    \/ StreamFails(r) \/ StreamEnds(r) \/ StreamBreaks(r)

Choose(r) == KeyMissing(r) \/ Blocked(r) \/ Dispatch(r)

Next ==
  \/ \E r \in Requests : Choose(r) \/ Respond(r) \/ Abandon(r)
  \/ \E c \in Channels : ToggleActive(c) \/ ResetCooldown(c) \/ TestFails(c)
  \/ Tick

Spec == Init /\ [][Next]_vars

\* The event loop runs its coroutines, calls time out, the clock goes on.
Fairness ==
  /\ \A r \in Requests : WF_vars(Choose(r) \/ Respond(r))
  /\ WF_vars(Tick)

FairSpec == Spec /\ Fairness

----------------------------------------------------------------------------
(* What the component promises *)

\* The breaker is opened exactly while the threshold is reached, whatever successes and
\* failures of concurrent calls come in, and in whatever order.
OpenIffThreshold == left = Never <=> failures < Threshold

\* No request calls the same channel twice, though cooldowns run out and admins reset them
\* between its attempts.
OncePerChannel == \A r \in Requests, c \in Targets : calls[<<r, c>>] <= 1

\* A request that is answered an error has used up its attempts or has nothing to fall
\* back to; a plain request also gives up at a channel without a key.
GivesUpLate ==
  \A r \in Requests :
    pc[r] = "failed" =>
      attempts[r] = Budget(r) \/ at[r] = Base \/ (r \notin Streams /\ at[r] \in KeyLess)

\* The channels that r has called.
Called(r) == {c \in Targets : calls[<<r, c>>] > 0}

\* Fallback does not multiply load: whatever fails, however often cooldowns run out and
\* channels come and go, a request calls no more channels than it has attempts.  (On one
\* channel post_with_retry may post three times; that is one attempt here.)
CallsWithinBudget ==
  \A r \in Requests : IsFiniteSet(Called(r)) /\ Cardinality(Called(r)) <= Budget(r)

\* Every request ends.
RequestsEnd == \A r \in Requests : pc[r] = "choosing" ~> pc[r] \in Ended

\* An open breaker lets calls through again.
BreakerRecovers == IsOpen ~> ~IsOpen
=============================================================================
