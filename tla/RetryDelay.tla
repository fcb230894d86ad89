------------------------------ MODULE RetryDelay ------------------------------
(***************************************************************************)
(* When a retry is made (retry.rs): the delay a policy computes, jitter,   *)
(* Retry-After, and the moment of the next call.  The module follows one   *)
(* request through its attempts on a clock; whether an attempt is to be    *)
(* retried at all is the subject of RequestPipeline.                       *)
(*                                                                         *)
(* Times and durations are natural numbers of one unit, the code's         *)
(* nanosecond; integers keep their width, scaled by the constants.         *)
(***************************************************************************)
EXTENDS Integers

CONSTANTS
  Policies,     (* the policies under study, records of PolicyType         *)
  Second,       (* units in a second                                       *)
  PowMax,       (* u32::MAX                                                *)
  DurationMax,  (* Duration::MAX                                           *)
  NanosMax,     (* u64::MAX                                                *)
  Afters,       (* the values of Retry-After in seconds                    *)
  Slack         (* bound: what hooks and a late timer may add to a wait    *)

PolicyType ==
  [ kind     : {"count", "linear", "exponential"},
    attempts : Nat,
    delay    : Nat,       (* `delay` of a linear, `base_delay` of an       *)
    maxDelay : Nat,       (* exponential policy, and its `max_delay`       *)
    jitter   : BOOLEAN ]

ASSUME PoliciesAssumption == Policies \subseteq PolicyType
ASSUME WidthsAssumption ==
  /\ Second \in Nat \ {0}
  /\ PowMax \in Nat /\ DurationMax \in Nat /\ NanosMax \in Nat \ {0}
ASSUME TimesAssumption == Afters \subseteq Nat /\ Slack \in Nat

VARIABLES
  policy,      (* the policy; never changes                                *)
  phase,       (* "calling", "notifying", "sleeping" or "done"             *)
  attempt,     (* the attempt counter of the loop                          *)
  now,         (* the clock                                                *)
  ended,       (* when the last call ended                                 *)
  retryAfter,  (* its Retry-After, a record of RetryAfterType              *)
  delay,       (* what the current sleep was asked to last                 *)
  alarm,       (* when it ends                                             *)
  backoff      (* history: the last delay that was the policy's own        *)

vars == <<policy, phase, attempt, now, ended, retryAfter, delay, alarm, backoff>>

(* A header that is missing or that neither form parses is "none".         *)
RetryAfterType == [form : {"none", "seconds", "date"}, value : Nat]

RetryAfters ==
  [form : {"seconds", "date"}, value : Afters] \cup [form : {"none"}, value : {0}]

Lesser(a, b) == IF a < b THEN a ELSE b

(* Arithmetic that saturates at the largest number of its type.            *)
Saturating(n, max) == IF n \in 0..max THEN n ELSE max

-----------------------------------------------------------------------------
(* delay_before_attempt, apply_jitter and uses_jitter.                     *)

(* Faulty variant: the power wraps around.                                 *)
PowerWrapping(n) == (2 ^ n) % (PowMax + 1)

(* 2u32.saturating_pow(n): every product saturates.                        *)
Power(n) ==
  LET power[k \in Nat] == Saturating(IF k = 0 THEN 1 ELSE 2 * power[k - 1], PowMax)
  IN  power[n]

(* Faulty variant: max_delay bounds the base only.                         *)
OwnBackoffUncapped(n) ==
  CASE policy.kind = "count" -> Second
    [] policy.kind = "linear" -> policy.delay
    [] policy.kind = "exponential" ->
         Saturating(Lesser(policy.delay, policy.maxDelay) * Power(n), DurationMax)

OwnBackoff(n) ==
  CASE policy.kind = "count" -> Second
    [] policy.kind = "linear" -> policy.delay
    [] policy.kind = "exponential" ->
         Lesser(Saturating(policy.delay * Power(n), DurationMax), policy.maxDelay)

UsesJitter == policy.kind = "count" \/ policy.jitter

(* The delays a random number may give: from half of the delay up to, but  *)
(* not including, the delay.                                               *)
Jittered(d) ==
  LET nanos == Lesser(d, NanosMax)
      half == nanos \div 2
      span == IF nanos - half > 1 THEN nanos - half ELSE 1
  IN  IF nanos = 0 THEN {d} ELSE half..(half + span - 1)

OwnDelays(n) == IF UsesJitter THEN Jittered(OwnBackoff(n)) ELSE {OwnBackoff(n)}

(* Faulty variant: a date in the past is not clamped.                      *)
MandatedSigned(header, t) ==
  IF header.form = "seconds" THEN header.value * Second
                             ELSE header.value * Second - t

(* parse_retry_after at time t; a date in the past is a delay of zero.     *)
Mandated(header, t) ==
  LET wanted == header.value * Second IN
  IF header.form = "seconds" THEN wanted
  ELSE IF wanted > t THEN wanted - t ELSE 0

(* Faulty variant: jitter applies to every delay.                          *)
DelaysJitteringAll(header, n, t) ==
  IF header.form # "none" THEN Jittered(Mandated(header, t)) ELSE OwnDelays(n)

(* delay_after_response                                                    *)
Delays(header, n, t) ==
  IF header.form # "none" THEN {Mandated(header, t)} ELSE OwnDelays(n)

-----------------------------------------------------------------------------
(* The clock starts anywhere in a second.                                  *)
Init ==
  /\ policy \in Policies
  /\ phase = "calling" /\ attempt = 0
  /\ now \in 0..(Second - 1)
  /\ ended = now
  /\ retryAfter = [form |-> "none", value |-> 0]
  /\ delay = 0 /\ alarm = now /\ backoff = 0

(* The call ends with a response, whose headers may ask for a delay, or in *)
(* a transport error, for which handle_transport_error passes no headers;  *)
(* the loop returns, or retries if it may.                                 *)
CallEnds ==
  /\ phase = "calling"
  /\ ended' = now
  /\ retryAfter' \in RetryAfters
  /\ \/ phase' = "done"
     \/ attempt < policy.attempts /\ phase' = "notifying"
  /\ UNCHANGED <<policy, attempt, now, delay, alarm, backoff>>

(* run_retry_backoff: the delay is computed when the on_retry hooks, which *)
(* take their time, have run.                                              *)
StartSleep ==
  /\ phase = "notifying"
  /\ now' \in now..(now + Slack)
  /\ delay' \in Delays(retryAfter, attempt, now')
  /\ alarm' = now' + delay'
  /\ backoff' = IF retryAfter.form = "none" THEN delay' ELSE backoff
  /\ phase' = "sleeping"
  /\ UNCHANGED <<policy, attempt, ended, retryAfter>>

(* The sleep ends when it is due or somewhat later.                        *)
SleepEnds ==
  /\ phase = "sleeping"
  /\ now' \in alarm..(alarm + Slack)
  /\ attempt' = attempt + 1
  /\ phase' = "calling"
  /\ UNCHANGED <<policy, ended, retryAfter, delay, alarm, backoff>>

(* sleep_or_cancel ends the request if the token is triggered.             *)
CancelSleep ==
  /\ phase = "sleeping"
  /\ phase' = "done"
  /\ UNCHANGED <<policy, attempt, now, ended, retryAfter, delay, alarm, backoff>>

(* The loop has returned.                                                  *)
Stopped == phase = "done" /\ UNCHANGED vars

Next == CallEnds \/ StartSleep \/ SleepEnds \/ CancelSleep \/ Stopped

Spec == Init /\ [][Next]_vars

-----------------------------------------------------------------------------
(* The variables have their types.                                         *)
TypeOK ==
  /\ policy \in Policies
  /\ phase \in {"calling", "notifying", "sleeping", "done"}
  /\ attempt \in 0..policy.attempts
  /\ now \in Nat /\ ended \in 0..now
  /\ retryAfter \in RetryAfterType
  /\ delay \in Nat /\ alarm \in Nat /\ backoff \in Nat

(* The moment the server asked the client to wait for.                     *)
NotBefore ==
  CASE retryAfter.form = "seconds" -> ended + retryAfter.value * Second
    [] retryAfter.form = "date" -> retryAfter.value * Second
    [] OTHER -> ended

(* The next call is not made before the moment Retry-After names, in both  *)
(* forms, however long the hooks ran between the response and the sleep;   *)
(* and it is no later than that but for what hooks and timers took.        *)
RetryAfterExact ==
  phase = "calling" /\ attempt > 0 /\ retryAfter.form # "none" =>
    /\ now >= NotBefore
    /\ now <= (IF NotBefore > ended THEN NotBefore ELSE ended) + 2 * Slack

(* The policy's own delay is right at every attempt, whatever saturates on *)
(* the way: never above the configured maximum, exact where no jitter is   *)
(* configured, and otherwise jitter takes off at most half of what fits    *)
(* the random number (delay_before_attempt, apply_jitter).  A count policy *)
(* has no jitter to configure, and retry.rs:71-74 documents a fixed second *)
(* for it; the code jitters it all the same, which is stated here as it    *)
(* is: every delay of a count policy falls short of the second.            *)
OwnDelayBounded ==
  phase = "sleeping" /\ retryAfter.form = "none" =>
    /\ delay <= (CASE policy.kind = "count" -> Second
                   [] policy.kind = "linear" -> policy.delay
                   [] policy.kind = "exponential" -> policy.maxDelay)
    /\ 2 * delay + 1 >= Lesser(OwnBackoff(attempt), NanosMax)
    /\ policy.kind # "count" /\ ~policy.jitter => delay = OwnBackoff(attempt)
    /\ policy.kind = "count" => delay < Second

(* Without jitter a policy never waits less than it did before, also past  *)
(* the attempt at which the power of two no longer fits its integer.       *)
BackoffGrows ==
  [][phase = "notifying" /\ phase' = "sleeping" /\ retryAfter.form = "none"
       /\ ~UsesJitter => delay' >= backoff]_vars

=============================================================================
