--------------------------- MODULE RetryDelayProofs ---------------------------
(***************************************************************************)
(* Proofs about RetryDelay, for every policy, every width of the integers  *)
(* and every slack.                                                        *)
(***************************************************************************)
EXTENDS RetryDelay, Induction

(* While it sleeps the client has an alarm that honours the header; until  *)
(* the hooks have run the clock stands where the call ended.               *)
AlarmSet ==
  /\ phase = "notifying" => now = ended
  /\ phase \in {"notifying", "sleeping"} => attempt < policy.attempts
  /\ phase = "sleeping" => now <= alarm
  /\ phase = "sleeping" /\ retryAfter.form # "none" =>
       /\ alarm >= NotBefore
       /\ alarm <= (IF NotBefore > ended THEN NotBefore ELSE ended) + Slack

IInv == TypeOK /\ AlarmSet /\ RetryAfterExact /\ OwnDelayBounded

-----------------------------------------------------------------------------
(* A policy under study has the fields of its type.                        *)
LEMMA PolicyFacts ==
  ASSUME TypeOK
  PROVE  /\ policy.kind \in {"count", "linear", "exponential"}
         /\ policy.attempts \in Nat /\ policy.delay \in Nat
         /\ policy.maxDelay \in Nat /\ policy.jitter \in BOOLEAN
BY PoliciesAssumption DEF TypeOK, PolicyType

(* The largest delay the configuration allows.                             *)
Ceiling ==
  CASE policy.kind = "count" -> Second
    [] policy.kind = "linear" -> policy.delay
    [] policy.kind = "exponential" -> policy.maxDelay

(* Whatever saturates, the policy's delay is a duration within its ceiling.*)
LEMMA OwnBackoffBounded ==
  ASSUME TypeOK, NEW n \in Nat
  PROVE  OwnBackoff(n) \in Nat /\ OwnBackoff(n) <= Ceiling
<1>1. \A x, max : max \in Nat => Saturating(x, max) \in Nat
  BY DEF Saturating
<1>2. Saturating(policy.delay * Power(n), DurationMax) \in Nat
  BY <1>1, WidthsAssumption
<1>3. \A a, b \in Nat : Lesser(a, b) \in Nat /\ Lesser(a, b) <= b
  BY DEF Lesser
<1>4. CASE policy.kind = "count"
  BY <1>4, WidthsAssumption DEF OwnBackoff, Ceiling
<1>5. CASE policy.kind = "linear"
  BY <1>5, PolicyFacts DEF OwnBackoff, Ceiling
<1>6. CASE policy.kind = "exponential"
  BY <1>2, <1>3, <1>6, PolicyFacts DEF OwnBackoff, Ceiling
<1> QED
  BY <1>4, <1>5, <1>6, PolicyFacts

(* Jitter yields a duration between half of the delay and the delay, and   *)
(* never the delay itself.                                                 *)
LEMMA JitterBounded ==
  ASSUME NEW d \in Nat, NEW j \in Jittered(d)
  PROVE  /\ j \in Nat /\ j <= d /\ 2 * j + 1 >= Lesser(d, NanosMax)
         /\ d > 0 => j < d
BY WidthsAssumption DEF Jittered, Lesser

(* The headers under study have their type.                                *)
LEMMA HeaderType == RetryAfters \subseteq RetryAfterType
<1>1. [form : {"seconds", "date"}, value : Afters] \subseteq RetryAfterType
  BY TimesAssumption DEF RetryAfterType
<1>2. [form : {"none"}, value : {0}] \subseteq RetryAfterType
  BY DEF RetryAfterType
<1> QED
  BY <1>1, <1>2 DEF RetryAfters

-----------------------------------------------------------------------------
LEMMA InvariantInit == Init => IInv
<1> SUFFICES ASSUME Init PROVE IInv
  OBVIOUS
<1>1. TypeOK
  <2>1. policy \in Policies /\ policy.attempts \in Nat
    BY PoliciesAssumption DEF Init, PolicyType
  <2> QED
    BY <2>1, WidthsAssumption DEF Init, TypeOK, RetryAfterType
<1> QED
  BY <1>1 DEF Init, IInv, AlarmSet, RetryAfterExact, OwnDelayBounded

(* The end of a call reads the clock, and with it what a delay is asked    *)
(* from.                                                                   *)
LEMMA CallEndsStep == IInv /\ CallEnds => IInv'
<1> SUFFICES ASSUME IInv, CallEnds PROVE IInv'
  OBVIOUS
<1>1. retryAfter' \in RetryAfterType
  BY HeaderType DEF CallEnds
<1>2. TypeOK'
  BY <1>1 DEF IInv, CallEnds, TypeOK
<1> QED
  BY <1>2 DEF IInv, TypeOK, CallEnds, AlarmSet, RetryAfterExact, OwnDelayBounded

(* The delay of a sleep honours the header if there is one, and else the   *)
(* bounds of the policy.                                                   *)
LEMMA StartSleepStep == IInv /\ StartSleep => IInv'
<1> SUFFICES ASSUME IInv, StartSleep PROVE IInv'
  OBVIOUS
<1>1. now \in Nat /\ attempt \in Nat /\ ended \in Nat /\ now = ended
  BY PolicyFacts DEF IInv, TypeOK, AlarmSet, StartSleep
<1>2. now' \in Nat /\ now <= now' /\ now' <= now + Slack /\ ended <= now'
  BY <1>1, TimesAssumption DEF StartSleep
<1>5. /\ policy' \in Policies /\ attempt' \in 0..policy'.attempts
      /\ ended' \in 0..now' /\ retryAfter' \in RetryAfterType /\ backoff \in Nat
      /\ phase' = "sleeping"
  BY <1>1, <1>2 DEF IInv, TypeOK, StartSleep
<1>3. CASE retryAfter.form # "none"
  <2> DEFINE wanted == retryAfter.value * Second
  <2>1. retryAfter.form \in {"seconds", "date"} /\ retryAfter.value \in Nat
    BY <1>3 DEF IInv, TypeOK, RetryAfterType
  <2>2. wanted \in Nat
    BY <2>1, WidthsAssumption
  <2>3. delay' = Mandated(retryAfter, now') /\ now' + delay' = alarm'
    BY <1>3 DEF StartSleep, Delays
  <2>4. NotBefore' = IF retryAfter.form = "seconds" THEN ended + wanted ELSE wanted
    BY <2>1 DEF NotBefore, StartSleep
  <2> HIDE DEF wanted
  <2>5. delay' = IF retryAfter.form = "seconds" THEN wanted
                 ELSE IF wanted > now' THEN wanted - now' ELSE 0
    BY <2>3 DEF Mandated, wanted
  <2>6. /\ delay' \in Nat /\ alarm' \in Nat /\ now' <= alarm'
        /\ alarm' >= NotBefore'
        /\ alarm' <= (IF NotBefore' > ended THEN NotBefore' ELSE ended) + Slack
    <3>1. CASE retryAfter.form = "seconds"
      <4>1. delay' = wanted /\ NotBefore' = ended + wanted
        BY <2>4, <2>5, <3>1
      <4> QED
        BY <1>1, <1>2, <2>2, <2>3, <4>1, TimesAssumption
    <3>2. CASE retryAfter.form = "date" /\ wanted > now'
      <4>1. wanted - now' = delay' /\ NotBefore' = wanted
        BY <2>4, <2>5, <3>2
      <4> QED
        BY <1>1, <1>2, <2>2, <2>3, <3>2, <4>1, TimesAssumption
    <3>3. CASE retryAfter.form = "date" /\ ~(wanted > now')
      <4>1. delay' = 0 /\ NotBefore' = wanted
        BY <2>4, <2>5, <3>3
      <4> QED
        BY <1>1, <1>2, <2>2, <2>3, <3>3, <4>1, TimesAssumption
    <3> QED
      BY <2>1, <3>1, <3>2, <3>3
  <2>7. TypeOK'
    BY <1>1, <1>2, <1>5, <2>6, <1>3 DEF StartSleep, TypeOK
  <2> QED
    BY <1>3, <2>6, <2>7
    DEF IInv, StartSleep, AlarmSet, RetryAfterExact, OwnDelayBounded
<1>4. CASE retryAfter.form = "none"
  <2> DEFINE own == OwnBackoff(attempt)
  <2>1. own \in Nat /\ own <= Ceiling
    BY <1>1, OwnBackoffBounded DEF IInv
  <2>2. delay' \in OwnDelays(attempt) /\ now' + delay' = alarm'
    BY <1>4 DEF StartSleep, Delays
  <2> HIDE DEF own
  <2>3. delay' \in Nat /\ delay' <= own /\ 2 * delay' + 1 >= Lesser(own, NanosMax)
    <3>1. CASE UsesJitter
      <4>1. delay' \in Jittered(own)
        BY <2>2, <3>1 DEF OwnDelays, own
      <4> QED
        BY <2>1, <4>1, JitterBounded
    <3>2. CASE ~UsesJitter
      <4>1. delay' = own
        BY <2>2, <3>2 DEF OwnDelays, own
      <4> QED
        BY <2>1, <4>1, WidthsAssumption DEF Lesser
    <3> QED
      BY <3>1, <3>2
  <2>4. own' = own /\ Ceiling' = Ceiling /\ Ceiling \in Nat
    BY PolicyFacts, WidthsAssumption
    DEF IInv, StartSleep, own, OwnBackoff, Ceiling, Power
  <2>5. delay' <= Ceiling /\ alarm' \in Nat /\ now' <= alarm'
    <3>1. Ceiling \in Nat
      BY <2>4
    <3>2. delay' <= Ceiling
      BY <2>1, <2>3, <3>1
    <3>3. alarm' \in Nat
      BY <1>2, <2>2, <2>3
    <3>4. now' <= alarm'
      BY <1>2, <2>2, <2>3
    <3> QED
      BY <3>2, <3>3, <3>4
  <2>8. policy.kind # "count" /\ ~policy.jitter => delay' = own
    BY <2>2 DEF OwnDelays, UsesJitter, own
  <2>9. policy.kind = "count" => delay' < Second
    <3> SUFFICES ASSUME policy.kind = "count" PROVE delay' < Second
      OBVIOUS
    <3>1. own = Second /\ own > 0
      BY WidthsAssumption DEF own, OwnBackoff
    <3>2. delay' \in Jittered(own)
      BY <2>2 DEF OwnDelays, UsesJitter, own
    <3> QED
      BY <2>1, <3>1, <3>2, JitterBounded
  <2>6. OwnDelayBounded'
    <3>1. policy' = policy /\ attempt' = attempt /\ OwnBackoff(attempt)' = own
      BY <2>4 DEF StartSleep, own
    <3> QED
      BY <2>3, <2>5, <2>8, <2>9, <3>1 DEF OwnDelayBounded, Ceiling
  <2>7. TypeOK'
    BY <1>1, <1>2, <1>4, <1>5, <2>3, <2>5 DEF StartSleep, TypeOK
  <2> QED
    BY <1>4, <2>5, <2>6, <2>7 DEF IInv, StartSleep, AlarmSet, RetryAfterExact
<1> QED
  BY <1>3, <1>4

(* The sleep ends no earlier than its alarm.                               *)
LEMMA SleepEndsStep == IInv /\ SleepEnds => IInv'
<1> SUFFICES ASSUME IInv, SleepEnds PROVE IInv'
  OBVIOUS
<1>1. /\ now' \in Nat /\ alarm <= now' /\ now' <= alarm + Slack
      /\ now \in Nat /\ alarm \in Nat /\ ended \in Nat /\ now <= now'
      /\ ended <= now'
  BY TimesAssumption DEF IInv, TypeOK, AlarmSet, SleepEnds
<1>2. attempt' \in 0..policy.attempts
  BY PolicyFacts DEF IInv, TypeOK, AlarmSet, SleepEnds
<1>3. TypeOK'
  BY <1>1, <1>2 DEF IInv, TypeOK, SleepEnds
<1>4. RetryAfterExact'
  <2>1. NotBefore' = NotBefore
    BY DEF NotBefore, SleepEnds
  <2>2. NotBefore \in Nat
    <3>1. retryAfter.value * Second \in Nat /\ retryAfter.form \in {"none", "seconds", "date"}
      BY WidthsAssumption DEF IInv, TypeOK, RetryAfterType
    <3> QED
      BY <1>1, <3>1 DEF NotBefore
  <2> QED
    BY <1>1, <2>1, <2>2, TimesAssumption DEF IInv, AlarmSet, RetryAfterExact, SleepEnds
<1> QED
  BY <1>3, <1>4 DEF IInv, AlarmSet, OwnDelayBounded, SleepEnds

LEMMA InvariantStep == IInv /\ [Next]_vars => IInv'
<1> SUFFICES ASSUME IInv, [Next]_vars PROVE IInv'
  OBVIOUS
<1>1. CASE CallEnds
  BY <1>1, CallEndsStep
<1>2. CASE StartSleep
  BY <1>2, StartSleepStep
<1>3. CASE SleepEnds
  BY <1>3, SleepEndsStep
<1>4. CASE CancelSleep
  BY <1>4 DEF CancelSleep, IInv, TypeOK, AlarmSet, RetryAfterExact, OwnDelayBounded
<1>5. CASE UNCHANGED vars
  BY <1>5 DEF vars, IInv, TypeOK, AlarmSet, RetryAfterExact, OwnDelayBounded,
              NotBefore, OwnBackoff, Power
<1> QED
  BY <1>1, <1>2, <1>3, <1>4, <1>5 DEF Next, Stopped

(* The invariant holds of every reachable state.                           *)
THEOREM Invariance == Spec => []IInv
BY InvariantInit, InvariantStep, PTL DEF Spec

(* The variables keep their types; in particular no delay is negative.     *)
THEOREM TypeCorrect == Spec => []TypeOK
<1>1. IInv => TypeOK
  BY DEF IInv
<1> QED
  BY Invariance, <1>1, PTL

(* A retry never comes before the moment Retry-After names and not much    *)
(* after it, in every policy and whatever the hooks take.                  *)
THEOREM RetryAfterHonoured == Spec => []RetryAfterExact
<1>1. IInv => RetryAfterExact
  BY DEF IInv
<1> QED
  BY Invariance, <1>1, PTL

(* The policy's own delays keep their bounds at every attempt, for every   *)
(* width at which the computation saturates.                               *)
THEOREM DelayWithinBounds == Spec => []OwnDelayBounded
<1>1. IInv => OwnDelayBounded
  BY DEF IInv
<1> QED
  BY Invariance, <1>1, PTL

-----------------------------------------------------------------------------
(* The backoff grows.                                                      *)

(* A saturating operation stays within its width.                         *)
LEMMA SaturatingType ==
  \A n, max : max \in Nat => Saturating(n, max) \in 0..max
BY DEF Saturating

(* Power satisfies its equation.                                           *)
LEMMA PowerDef ==
  ASSUME NEW n \in Nat
  PROVE  Power(n) \in Nat /\ Power(n) = Saturating(IF n = 0 THEN 1 ELSE 2 * Power(n - 1), PowMax)
<1> DEFINE Eq(h) == h = [k \in Nat |-> Saturating(IF k = 0 THEN 1 ELSE 2 * h[k - 1], PowMax)]
           size == [k \in Nat |-> k]
           more == Nat \ {0}
           rest == [k \in more |-> k - 1]
           base == [k \in Nat |-> Saturating(1, PowMax)]
           step == [p \in Nat \X Nat |-> Saturating(2 * p[2], PowMax)]
<1>1. PICK g : Solution(Nat, Nat, more, rest, base, step, g)
  <2>1. size \in [Nat -> Nat] /\ more \in SUBSET Nat /\ rest \in [more -> Nat]
    OBVIOUS
  <2>2. base \in [Nat -> Nat] /\ step \in [Nat \X Nat -> Nat]
    <3>1. \A x : Saturating(x, PowMax) \in Nat
      BY WidthsAssumption, SaturatingType
    <3> QED BY <3>1
  <2>3. \A k \in more : size[rest[k]] < size[k]
    OBVIOUS
  <2>4. Recursion(Nat, Nat, size, more, rest, base, step)
    BY <2>1, <2>2, <2>3 DEF Recursion
  <2> HIDE DEF size, more, rest, base, step
  <2> QED BY <2>4, MeasuredRecursion
<1>2. g \in [Nat -> Nat]
  BY <1>1 DEF Solution
<1>3. ASSUME NEW k \in Nat
      PROVE  g[k] = Saturating(IF k = 0 THEN 1 ELSE 2 * g[k - 1], PowMax)
  <2>1. CASE k = 0
    BY <1>1, <2>1 DEF Solution
  <2>2. CASE k # 0
    <3>1. k \in more /\ rest[k] = k - 1 /\ k - 1 \in Nat /\ g[k - 1] \in Nat
      BY <1>2, <2>2
    <3>2. g[k] = step[<<k, g[k - 1]>>]
      BY <1>1, <3>1 DEF Solution
    <3>3. \A v \in Nat : step[<<k, v>>] = Saturating(2 * v, PowMax)
      OBVIOUS
    <3> QED BY <2>2, <3>1, <3>2, <3>3
  <2> QED BY <2>1, <2>2
<1> DEFINE power == CHOOSE h : Eq(h)
<1>4. Eq(power)
  <2>1. Eq(g)
    BY <1>2, <1>3
  <2> QED BY <2>1
<1>5. \A k : Power(k) = power[k]
  BY DEF Power
<1> HIDE DEF power
<1>6. \A k \in Nat : power[k] = Saturating(IF k = 0 THEN 1 ELSE 2 * power[k - 1], PowMax)
  BY <1>4
<1>7. \A k \in Nat : power[k] \in Nat
  <2> DEFINE S == {k \in Nat : power[k] \in Nat}
  <2>1. 0 \in S
    BY <1>6, WidthsAssumption, SaturatingType
  <2>2. ASSUME NEW k \in Nat, k \in S PROVE k + 1 \in S
    <3>1. power[k + 1] = Saturating(2 * power[k], PowMax) /\ power[k] \in Nat
      BY <1>6, <2>2
    <3>2. \A x : Saturating(x, PowMax) \in Nat
      BY WidthsAssumption, SaturatingType
    <3> QED BY <3>1, <3>2
  <2> HIDE DEF S
  <2>3. Nat \subseteq S
    BY <2>1, <2>2, NatSetInduction
  <2> QED BY <2>3 DEF S
<1> QED BY <1>5, <1>6, <1>7

(* Its powers do not shrink, also where they saturate.                     *)
LEMMA PowerGrows ==
  ASSUME NEW n \in Nat
  PROVE  Power(n) \in Nat /\ Power(n + 1) \in Nat /\ Power(n) <= Power(n + 1)
<1>1. Power(n) \in Nat /\ Power(n) <= PowMax
  <2>1. PICK v : Power(n) = Saturating(v, PowMax)
    BY PowerDef
  <2>2. Saturating(v, PowMax) \in 0..PowMax
    BY WidthsAssumption, SaturatingType
  <2> QED BY <2>1, <2>2, WidthsAssumption
<1>2. Power(n + 1) \in Nat /\ Power(n + 1) = Saturating(2 * Power(n), PowMax)
  BY PowerDef
<1> QED BY <1>1, <1>2, WidthsAssumption DEF Saturating

(* Nor a product with one of them.                                         *)
LEMMA ProductGrows == \A a, b, c \in Nat : b <= c => a * b <= a * c
OBVIOUS

(* Nor does a policy's delay before jitter.                                *)
LEMMA OwnBackoffGrows ==
  ASSUME TypeOK, NEW n \in Nat
  PROVE  OwnBackoff(n) <= OwnBackoff(n + 1)
<1>1. CASE policy.kind \in {"count", "linear"}
  BY <1>1, PolicyFacts, WidthsAssumption DEF OwnBackoff
<1>2. CASE policy.kind = "exponential"
  <2>1. PICK a, b, m : a = policy.delay * Power(n) /\ b = policy.delay * Power(n + 1) /\ m = policy.maxDelay
    OBVIOUS
  <2>2. a \in Nat /\ b \in Nat /\ a <= b /\ m \in Nat
    BY <2>1, PowerGrows, PolicyFacts, ProductGrows
  <2>3. Lesser(Saturating(a, DurationMax), m) <= Lesser(Saturating(b, DurationMax), m)
    BY <2>2, WidthsAssumption DEF Lesser, Saturating
  <2>4. /\ OwnBackoff(n) = Lesser(Saturating(a, DurationMax), m)
        /\ OwnBackoff(n + 1) = Lesser(Saturating(b, DurationMax), m)
    BY <1>2, <2>1 DEF OwnBackoff
  <2> QED BY <2>3, <2>4
<1> QED BY <1>1, <1>2, PolicyFacts

(* Without jitter, the last delay of the policy's own is no longer than    *)
(* the one it has for the current attempt.                                 *)
LastBackoff == ~UsesJitter => backoff <= OwnBackoff(attempt)

(* Only another attempt changes what the policy would wait now.            *)
LEMMA BackoffStep ==
  ASSUME IInv, LastBackoff, [Next]_vars
  PROVE  LastBackoff'
<1> SUFFICES ASSUME ~UsesJitter' PROVE backoff' <= OwnBackoff(attempt)'
  BY DEF LastBackoff
<1>1. policy' = policy /\ ~UsesJitter
  BY DEF Next, CallEnds, StartSleep, SleepEnds, CancelSleep, Stopped, vars, UsesJitter
<1>2. backoff <= OwnBackoff(attempt) /\ attempt \in Nat /\ backoff \in Nat
  BY <1>1, PolicyFacts DEF LastBackoff, IInv, TypeOK
<1>3. OwnBackoff(attempt)' = OwnBackoff(attempt')
  BY <1>1 DEF OwnBackoff
<1>4. OwnBackoff(attempt) \in Nat /\ OwnBackoff(attempt + 1) \in Nat
      /\ OwnBackoff(attempt) <= OwnBackoff(attempt + 1)
  BY <1>2, OwnBackoffBounded, OwnBackoffGrows DEF IInv
<1>5. CASE StartSleep
  <2>1. attempt' = attempt
    BY <1>5 DEF StartSleep
  <2>2. CASE retryAfter.form = "none"
    BY <1>1, <1>2, <1>3, <1>4, <1>5, <2>1, <2>2 DEF StartSleep, Delays, OwnDelays
  <2>3. CASE retryAfter.form # "none"
    BY <1>2, <1>3, <1>5, <2>1, <2>3 DEF StartSleep
  <2> QED BY <2>2, <2>3
<1>6. CASE SleepEnds
  BY <1>2, <1>3, <1>4, <1>6 DEF SleepEnds
<1>7. CASE CallEnds \/ CancelSleep \/ UNCHANGED vars
  BY <1>2, <1>3, <1>7 DEF CallEnds, CancelSleep, vars
<1> QED BY <1>5, <1>6, <1>7 DEF Next, Stopped

(* Without jitter a policy never waits less than it did before, for every  *)
(* width at which the power of two or the product saturates.               *)
THEOREM BackoffsGrow == Spec => BackoffGrows
<1>1. Init => LastBackoff
  <2> SUFFICES ASSUME Init PROVE backoff <= OwnBackoff(attempt)
    BY DEF LastBackoff
  <2>1. TypeOK
    BY InvariantInit DEF IInv
  <2> QED BY <2>1, OwnBackoffBounded DEF Init
<1>2. IInv /\ LastBackoff /\ [Next]_vars => LastBackoff'
  BY BackoffStep
<1>3. IInv /\ LastBackoff /\ [Next]_vars
        => [phase = "notifying" /\ phase' = "sleeping" /\ retryAfter.form = "none"
              /\ ~UsesJitter => delay' >= backoff]_vars
  <2> SUFFICES ASSUME IInv, LastBackoff, Next, phase = "notifying", phase' = "sleeping",
                      retryAfter.form = "none", ~UsesJitter
               PROVE  delay' >= backoff
    OBVIOUS
  <2>1. StartSleep
    BY DEF Next, CallEnds, StartSleep, SleepEnds, CancelSleep, Stopped, vars
  <2>2. delay' = OwnBackoff(attempt)
    BY <2>1 DEF StartSleep, Delays, OwnDelays
  <2>3. backoff <= OwnBackoff(attempt) /\ attempt \in Nat /\ backoff \in Nat
    BY PolicyFacts DEF LastBackoff, IInv, TypeOK
  <2>4. OwnBackoff(attempt) \in Nat
    BY <2>3, OwnBackoffBounded DEF IInv
  <2> QED BY <2>2, <2>3, <2>4
<1> QED BY <1>1, <1>2, <1>3, Invariance, PTL DEF Spec, BackoffGrows

=============================================================================
