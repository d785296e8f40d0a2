--------------------------- MODULE ResilienceProofs ----------------------------
(* Proofs about the circuit breaker, for every set of calls and all thresholds,  *)
(* and about the rate limiters, for every limit, window and set of costs and     *)
(* however long the clock runs.                                                  *)
EXTENDS CircuitBreaker, RateLimiter, SequenceTheorems, TLAPS

BreakerInv == TypeOK /\ NothingCarriedOver

(* The breaker invariant holds initially.                                   *)
LEMMA BreakerInvInit == Init => BreakerInv
BY ThresholdsAssumption
   DEF Init, BreakerInv, NothingCarriedOver, TypeOK, ClosedBelowThreshold, ProbingStartsFromZero,
       NeverLeavesOpenEarly, States

(* The outcome of transitionTo(), once for all its callers.                      *)
LEMMA TransitionTyped ==
  ASSUME TypeOK, NEW s \in States, TransitionTo(s)
  PROVE  state' = s /\ cooled' \in BOOLEAN /\ (cooled' <=> cooled /\ s # "OPEN")
BY DEF TypeOK, TransitionTo

(* A call let through keeps it, also the one that starts a probing period.  *)
LEMMA StartKeepsInv ==
  ASSUME BreakerInv, NEW c \in Calls, Start(c)
  PROVE  BreakerInv'
<1> USE DEF BreakerInv, NothingCarriedOver, ClosedBelowThreshold, ProbingStartsFromZero, NeverLeavesOpenEarly
<1>1. CASE state = "OPEN"
  <2>1. /\ state' = "HALF_OPEN" /\ cooled' = TRUE /\ cooled
    BY <1>1, TransitionTyped DEF Start, States, TypeOK, TransitionTo
  <2>2. TypeOK'
    BY <2>1 DEF Start, TypeOK, States
  <2> QED BY <1>1, <2>1, <2>2 DEF Start
<1>2. CASE state # "OPEN"
  BY <1>2 DEF Start, NoTransition, TypeOK
<1> QED BY <1>1, <1>2

(* A success keeps it, in whatever state it finds the breaker.              *)
LEMMA SucceedKeepsInv ==
  ASSUME BreakerInv, NEW c \in Calls, Succeed(c)
  PROVE  BreakerInv'
<1> USE ThresholdsAssumption
    DEF BreakerInv, NothingCarriedOver, ClosedBelowThreshold, ProbingStartsFromZero, NeverLeavesOpenEarly
<1>1. failureCount' = 0 /\ streak' = 0 /\ inFlight' = inFlight \ {c}
  BY DEF Succeed, OnSuccess
<1>2. CASE state = "HALF_OPEN" /\ successCount + 1 >= SuccessThreshold
  <2>1. TransitionTo("CLOSED") /\ successCount' = 0
    BY <1>2 DEF Succeed, OnSuccess
  <2>2. state' = "CLOSED" /\ cooled' = TRUE
    BY <1>2, <2>1, TransitionTyped DEF States, TypeOK, TransitionTo
  <2>3. TypeOK'
    BY <1>1, <2>1, <2>2 DEF TypeOK, States
  <2> QED BY <1>1, <2>1, <2>2, <2>3
<1>3. CASE ~(state = "HALF_OPEN" /\ successCount + 1 >= SuccessThreshold)
  <2>1. /\ NoTransition
        /\ successCount' = IF state = "HALF_OPEN" THEN successCount + 1 ELSE successCount
    BY <1>3 DEF Succeed, OnSuccess
  <2>2. successCount' \in 0..(SuccessThreshold - 1)
    BY <1>3, <2>1 DEF TypeOK
  <2>3. TypeOK'
    BY <1>1, <2>1, <2>2 DEF TypeOK, NoTransition
  <2> QED BY <1>1, <2>1, <2>3 DEF NoTransition
<1> QED BY <1>2, <1>3

(* A failure keeps it, in whatever state it finds the breaker.              *)
LEMMA FailKeepsInv ==
  ASSUME BreakerInv, NEW c \in Calls, Fail(c)
  PROVE  BreakerInv'
<1> USE ThresholdsAssumption
    DEF BreakerInv, NothingCarriedOver, ClosedBelowThreshold, ProbingStartsFromZero, NeverLeavesOpenEarly
<1>1. /\ failureCount' = Bump(failureCount)
      /\ failureCount' \in 0..FailureThreshold
      /\ inFlight' = inFlight \ {c}
      /\ successCount' = IF state = "HALF_OPEN" THEN 0 ELSE successCount
      /\ successCount' \in 0..(SuccessThreshold - 1)
      /\ streak' = IF state = "CLOSED" /\ state' = "CLOSED" THEN Bump(streak) ELSE 0
      /\ streak' \in 0..FailureThreshold
  BY DEF Fail, OnFailure, Bump, TypeOK
<1>2. CASE state = "HALF_OPEN" \/ failureCount' >= FailureThreshold
  <2>1. TransitionTo("OPEN")
    BY <1>2 DEF Fail, OnFailure
  <2>2. state' = "OPEN" /\ cooled' \in BOOLEAN
    BY <2>1, TransitionTyped DEF States, TypeOK, TransitionTo
  <2>3. TypeOK'
    BY <1>1, <2>2 DEF TypeOK, States
  <2>4. successCount' = 0
    BY <1>1
  <2> QED BY <2>2, <2>3, <2>4
<1>3. CASE ~(state = "HALF_OPEN" \/ failureCount' >= FailureThreshold)
  <2>1. NoTransition
    BY <1>3 DEF Fail, OnFailure
  <2>2. TypeOK'
    BY <1>1, <2>1 DEF TypeOK, NoTransition
  <2>3. ClosedBelowThreshold'
    BY <1>1, <1>3, <2>1 DEF NoTransition, Bump, TypeOK
  <2>4. ProbingStartsFromZero' /\ NeverLeavesOpenEarly'
    BY <1>1, <1>3, <2>1 DEF NoTransition
  <2> QED BY <2>2, <2>3, <2>4
<1> QED BY <1>2, <1>3

(* Every step keeps the breaker invariant.                                  *)
LEMMA StepKeepsInv == BreakerInv /\ [Next]_vars => BreakerInv'
<1> SUFFICES ASSUME BreakerInv, [Next]_vars PROVE BreakerInv'
  OBVIOUS
<1> USE DEF BreakerInv, NothingCarriedOver, ClosedBelowThreshold, ProbingStartsFromZero, NeverLeavesOpenEarly
<1>1. ASSUME NEW c \in Calls, Start(c) PROVE BreakerInv'
  BY <1>1, StartKeepsInv
<1>2. ASSUME NEW c \in Calls, Settle(c) PROVE BreakerInv'
  BY <1>2, SucceedKeepsInv, FailKeepsInv DEF Settle
<1>3. CASE Reject
  BY <1>3 DEF Reject, NoTransition, TypeOK
<1>4. CASE Cool
  BY <1>4 DEF Cool, TypeOK
<1>5. CASE Reset
  BY <1>5, ThresholdsAssumption DEF Reset, TypeOK, States
<1>6. CASE UNCHANGED vars
  BY <1>6 DEF vars, TypeOK
<1> QED BY <1>1, <1>2, <1>3, <1>4, <1>5, <1>6 DEF Next

(* Counters, state and cooling period agree in every reachable state.            *)
THEOREM BreakerSafety == Spec => []BreakerInv
BY BreakerInvInit, StepKeepsInv, PTL DEF Spec

(* Type correctness: the counters stay below the thresholds.                     *)
THEOREM TypeCorrect == Spec => []TypeOK
<1>1. BreakerInv => TypeOK
  BY DEF BreakerInv
<1> QED BY <1>1, BreakerSafety, PTL

(* What one period of the breaker counts or times is not carried into another.   *)
THEOREM NothingCarriedOverTheorem == Spec => []NothingCarriedOver
<1>1. BreakerInv => NothingCarriedOver
  BY DEF BreakerInv
<1> QED BY <1>1, BreakerSafety, PTL

(* A trip takes failureThreshold failures in a row since the breaker last closed. *)
LEMMA TripStep == BreakerInv /\ Next => TripIsEarned
<1> SUFFICES ASSUME BreakerInv, Next, state = "CLOSED", state' = "OPEN"
             PROVE  streak + 1 >= FailureThreshold
  BY DEF TripIsEarned
<1>1. PICK c \in Calls : Fail(c)
  BY DEF Next, Reject, Cool, Start, Settle, Succeed, OnSuccess, TransitionTo,
         NoTransition, Reset
<1>2. failureCount' >= FailureThreshold /\ failureCount' = Bump(failureCount)
  BY <1>1 DEF Fail, OnFailure, NoTransition
<1> QED
  BY <1>2, ThresholdsAssumption
     DEF BreakerInv, NothingCarriedOver, ClosedBelowThreshold, TypeOK, Bump

(* Only a probing breaker closes unless it is reset, and only an open one starts  *)
(* to probe, whatever the calls still in flight answer.                          *)
LEMMA TransitionStep == Next => LegalTransition
<1>1. ASSUME NEW c \in Calls, Start(c) \/ Succeed(c) \/ Fail(c) PROVE LegalTransition
  BY <1>1 DEF LegalTransition, Start, Succeed, OnSuccess, Fail, OnFailure, TransitionTo,
              NoTransition
<1>2. ASSUME Reject \/ Cool \/ Reset PROVE LegalTransition
  <2>1. CASE Reject \/ Cool
    BY <2>1 DEF LegalTransition, Reject, Cool, NoTransition
  <2>2. CASE Reset
    <3>1. state' = "CLOSED"
      BY <2>2 DEF Reset
    <3> QED BY <2>2, <3>1, Zenon DEF LegalTransition
  <2> QED BY <1>2, <2>1, <2>2
<1> QED BY <1>1, <1>2 DEF Next, Settle

(* Transitions are legal, and a trip is earned by failures of this CLOSED period. *)
THEOREM TransitionTheorem == Spec => TransitionsEarned
<1>1. BreakerInv /\ [Next]_vars => [LegalTransition /\ TripIsEarned]_vars
  BY TripStep, TransitionStep
<1> QED BY <1>1, BreakerSafety, PTL DEF Spec, TransitionsEarned

(* How far a breaker has come on its way to CLOSED. *)
Progress ==
  CASE state = "OPEN" -> 0
    [] state = "HALF_OPEN" -> 1 + successCount
    [] state = "CLOSED" -> 1 + SuccessThreshold

Closer ==
  /\ Progress' >= Progress
  /\ state = "HALF_OPEN" /\ (\E c \in Calls : Succeed(c)) => Progress' > Progress

(* A step in which no call fails never throws the breaker back, and a       *)
(* success of a probing call brings it closer to CLOSED.  This is what      *)
(* Recovers needs besides fairness.                                         *)
NeverThrownBack ==
  [][(~\E c \in Calls : Fail(c)) => Closer]_vars

(* No step but a failure throws the breaker back, and a probing success brings it *)
(* closer to CLOSED.                                                             *)
THEOREM NeverThrownBackTheorem == Spec => NeverThrownBack
<1>1. ASSUME BreakerInv, BreakerInv', Next, ~\E c \in Calls : Fail(c) PROVE Closer
  <2> USE ThresholdsAssumption DEF Closer
  <2>1. /\ state \in States /\ state' \in States
        /\ successCount \in 0..(SuccessThreshold - 1)
        /\ successCount' \in 0..(SuccessThreshold - 1)
    BY <1>1 DEF BreakerInv, TypeOK
  <2>2. /\ Progress \in Nat /\ Progress' \in Nat
        /\ state = "OPEN" => Progress = 0
        /\ state = "HALF_OPEN" => Progress = 1 + successCount
        /\ state = "CLOSED" => Progress = 1 + SuccessThreshold
        /\ state' = "OPEN" => Progress' = 0
        /\ state' = "HALF_OPEN" => Progress' = 1 + successCount'
        /\ state' = "CLOSED" => Progress' = 1 + SuccessThreshold
    BY <2>1 DEF Progress, States
  <2>3. ASSUME NEW c \in Calls, Start(c) PROVE Closer
    <3>1. /\ successCount' = successCount /\ inFlight' = inFlight \union {c}
          /\ state # "OPEN" => state' = state
      BY <2>3 DEF Start, TransitionTo, NoTransition
    <3>2. ~\E d \in Calls : Succeed(d)
      BY <3>1, <2>3 DEF Succeed, Start
    <3> QED BY <2>1, <2>2, <3>1, <3>2 DEF States
  <2>4. ASSUME NEW c \in Calls, Succeed(c) PROVE Closer
    <3>1. CASE state = "HALF_OPEN"
      <4>1. CASE successCount + 1 >= SuccessThreshold
        <5>1. state' = "CLOSED"
          BY <2>4, <3>1, <4>1 DEF Succeed, OnSuccess, TransitionTo
        <5> QED BY <2>1, <2>2, <3>1, <5>1
      <4>2. CASE ~(successCount + 1 >= SuccessThreshold)
        <5>1. state' = "HALF_OPEN" /\ successCount' = successCount + 1
          BY <2>4, <3>1, <4>2 DEF Succeed, OnSuccess, NoTransition
        <5> QED BY <2>1, <2>2, <3>1, <5>1
      <4> QED BY <4>1, <4>2
    <3>2. CASE state # "HALF_OPEN"
      <4>1. state' = state
        BY <2>4, <3>2 DEF Succeed, OnSuccess, NoTransition
      <4> QED BY <2>1, <2>2, <3>2, <4>1 DEF States
    <3> QED BY <3>1, <3>2
  <2>5. ASSUME Reject \/ Cool \/ Reset PROVE Closer
    <3>1. /\ state' = "CLOSED" \/ (state' = state /\ successCount' = successCount)
          /\ inFlight' = inFlight
      BY <2>5 DEF Reject, Cool, Reset, NoTransition
    <3>2. ~\E d \in Calls : Succeed(d)
      BY <3>1 DEF Succeed
    <3>3. Progress' >= Progress
      <4>1. CASE state' = "CLOSED"
        <5>1. Progress' = 1 + SuccessThreshold
          BY <2>2, <4>1
        <5>2. Progress <= 1 + SuccessThreshold
          BY <2>1, <2>2 DEF States
        <5> QED BY <2>2, <5>1, <5>2
      <4>2. CASE state' = state /\ successCount' = successCount
        <5>1. Progress' = Progress
          BY <2>1, <2>2, <4>2 DEF States
        <5> QED BY <2>2, <5>1
      <4> QED BY <3>1, <4>1, <4>2
    <3> QED BY <3>2, <3>3
  <2> QED BY <1>1, <2>3, <2>4, <2>5 DEF Next, Settle
<1>2. BreakerInv /\ [Next]_vars => [(~\E c \in Calls : Fail(c)) => Closer]_vars
  BY <1>1, StepKeepsInv
<1> QED BY <1>2, BreakerSafety, PTL DEF Spec, NeverThrownBack

-------------------------------------------------------------------------------
(* The rate limiters.  Of the history that the properties speak of, the bucket,  *)
(* the timestamps and the counter keep only so much; the invariants say what.    *)
(* The requests allowed so far, in order; those of a window cost one each.        *)
Past ==
  /\ \A i \in DOMAIN admitted : /\ admitted[i].at <= now
                                /\ admitted[i].before + admitted[i].cost <= Total
  /\ \A i, j \in DOMAIN admitted : i <= j => admitted[i].at <= admitted[j].at
  /\ strategy # "token-bucket" =>
       /\ Total = Len(admitted)
       /\ \A i \in DOMAIN admitted : admitted[i].cost = 1 /\ admitted[i].before = i - 1
  /\ \A r \in refused : r.at <= now
  /\ strategy # "sliding-window" /\ ~known => admitted = <<>> /\ refused = {}

(* What was taken from the bucket and what is left of it came from its capacity  *)
(* and from the refills since.                                                   *)
BucketFlow ==
  strategy = "token-bucket" =>
    \A i \in DOMAIN admitted :
      /\ admitted[i].at <= lastRefill
      /\ (Total - admitted[i].before) * WindowMs + level <= Full + (lastRefill - admitted[i].at) * MaxRequests

(* The timestamps are those of the last requests allowed; the others have expired. *)
SlidingWindow ==
  strategy = "sliding-window" =>
    LET rest == Len(admitted) - Len(timestamps) IN
    /\ rest >= 0
    /\ \A k \in DOMAIN timestamps : timestamps[k] = admitted[rest + k].at
    /\ \A i \in DOMAIN admitted : i <= rest => admitted[i].at <= now - WindowMs

(* The last requests are those of this window, at most MaxRequests before them    *)
(* of the one before, and the rest is older.                                     *)
FixedWindows ==
  strategy = "fixed-window" /\ known =>
    LET rest == Len(admitted) - count IN
    /\ rest >= 0
    /\ \A i \in DOMAIN admitted :
         /\ i > rest => admitted[i].at >= windowStart /\ admitted[i].at < windowStart + WindowMs
         /\ i <= rest => admitted[i].at < windowStart
         /\ i <= rest - MaxRequests => admitted[i].at < windowStart - WindowMs

(* What flowed into the bucket since any time is still there, was taken since, or *)
(* found it full; and if no more than that is there, it is exactly full again.   *)
Before(i) == IF i \in DOMAIN admitted THEN admitted[i].before ELSE Total
BucketFill ==
  strategy = "token-bucket" /\ known =>
    \A t \in Int : t <= lastRefill =>
      \E i \in 1..Len(admitted) + 1 :
        /\ i \in DOMAIN admitted => admitted[i].at > t
        /\ LET held == level + (Total - Before(i)) * WindowMs
           IN  held > Full \/ (held = Full /\ ~rounded) \/ held >= (lastRefill - t) * MaxRequests

(* What was promised to those refused is on its way.                             *)
Promised ==
  \A r \in refused :
    /\ r.until > r.at
    /\ strategy = "token-bucket" /\ r.cost <= MaxRequests =>
         \/ level > r.cost * WindowMs
         \/ level = Full /\ ~rounded
         \/ r.until >= lastRefill /\ level + (r.until - lastRefill) * MaxRequests >= r.cost * WindowMs
    /\ strategy = "sliding-window" =>
         Len(timestamps) = MaxRequests /\ r.until = timestamps[1] + WindowMs
    /\ strategy = "fixed-window" =>
         known /\ count = MaxRequests /\ r.until = windowStart + WindowMs

-------------------------------------------------------------------------------
(* Arithmetic.                                                                   *)
LEMMA Distribute ==
  ASSUME NEW a \in Int, NEW b \in Int, NEW c \in Int
  PROVE  a * c \in Int /\ (a + b) * c = a * c + b * c /\ (a - b) * c = a * c - b * c
OBVIOUS

LEMMA ProductInt ==
  ASSUME NEW a \in Int, NEW b \in Int
  PROVE  a * b \in Int
OBVIOUS

LEMMA Monotone ==
  ASSUME NEW a \in Int, NEW b \in Int, NEW c \in Nat, a <= b
  PROVE  a * c <= b * c
<1>1. b - a \in Nat
  OBVIOUS
<1>2. (b - a) * c \in Nat
  BY <1>1
<1>3. (b - a) * c = b * c - a * c
  BY Distribute
<1>4. a * c \in Int /\ b * c \in Int
  BY Distribute
<1> QED BY <1>2, <1>3, <1>4

LEMMA FullNat == Full \in Nat /\ Full = WindowMs * MaxRequests /\ MaxRequests \in Nat /\ WindowMs \in Nat
BY LimiterAssumption DEF Full

(* What is held once the bucket is refilled.                                     *)
LEMMA RefillProperties ==
  ASSUME LimiterTypeOK
  PROVE  /\ Refilled \in 0..Full
         /\ ~known => Refilled = Full
         /\ known => LET flow == (now - lastRefill) * MaxRequests IN
              /\ flow \in Nat /\ level <= Refilled /\ Refilled <= level + flow
              /\ Refilled = Full \/ Refilled = level + flow
<1> DEFINE flow == (now - lastRefill) * MaxRequests
<1>1. now - lastRefill \in Nat /\ level \in 0..Full
  BY DEF LimiterTypeOK
<1>2. flow \in Nat
  BY <1>1, FullNat
<1>3. Refilled = IF known /\ level + flow < Full THEN level + flow ELSE Full
  BY DEF Refilled, Filled
<1> HIDE DEF flow
<1>4. level + flow \in Nat /\ level <= level + flow
  BY <1>1, <1>2
<1>5. Refilled \in 0..Full
  BY <1>1, <1>3, <1>4, FullNat
<1>6. CASE known
  <2>1. CASE level + flow < Full
    BY <1>1, <1>2, <1>3, <1>4, <1>5, <1>6, <2>1 DEF flow
  <2>2. CASE ~(level + flow < Full)
    <3>1. Refilled = Full /\ Full <= level + flow
      BY <1>3, <1>4, <2>2, FullNat
    <3> QED BY <1>1, <1>2, <1>5, <1>6, <3>1, FullNat DEF flow
  <2> QED BY <2>1, <2>2
<1>7. CASE ~known
  BY <1>3, <1>5, <1>7
<1> QED BY <1>6, <1>7

(* Where the refill may leave a rounded sum: never where the bucket is capped.   *)
LEMMA RefillRounds ==
  ASSUME LimiterTypeOK, rounded' \in Rounding
  PROVE  /\ rounded' \in BOOLEAN
         /\ ~known => Refilled = Full /\ ~rounded'
         /\ known => LET flow == (now - lastRefill) * MaxRequests IN
              \/ now = lastRefill /\ Refilled = level /\ rounded' = rounded
              \/ now > lastRefill /\ flow > 0 /\ Refilled = level + flow
              \/ now > lastRefill /\ level + flow > Full /\ Refilled = Full /\ ~rounded'
<1> DEFINE flow == (now - lastRefill) * MaxRequests
<1>1. /\ now \in Nat /\ lastRefill \in Nat /\ now >= lastRefill /\ level \in 0..Full /\ rounded \in BOOLEAN
      /\ MaxRequests \in Nat \ {0} /\ Full \in Nat
  BY LimiterAssumption, FullNat DEF LimiterTypeOK
<1>2. rounded' \in BOOLEAN
  BY <1>1 DEF Rounding
<1>3. CASE ~known
  BY <1>2, <1>3 DEF Rounding, Refilled
<1>4. CASE known /\ now = lastRefill
  <2>1. flow = 0 /\ rounded' = rounded
    BY <1>1, <1>4 DEF Rounding
  <2>2. Refilled = IF level + flow < Full THEN level + flow ELSE Full
    BY <1>4 DEF Refilled, Filled
  <2>3. Refilled = level
    BY <1>1, <2>1, <2>2
  <2> QED BY <1>2, <1>4, <2>1, <2>3
<1>5. CASE known /\ now # lastRefill
  <2>1. now > lastRefill /\ now - lastRefill \in Nat /\ 1 <= now - lastRefill
    BY <1>1, <1>5
  <2>2. flow > 0 /\ flow \in Int
    <3>1. 1 * MaxRequests <= flow /\ flow \in Int
      BY <1>1, <2>1, Monotone, Distribute
    <3> HIDE DEF flow
    <3> QED BY <1>1, <3>1
  <2>3. Filled = level + flow
    BY DEF Filled
  <2> HIDE DEF flow
  <2>4. CASE level + flow <= Full
    <3>1. Refilled = level + flow
      BY <1>1, <1>5, <2>2, <2>3, <2>4 DEF Refilled
    <3> QED BY <1>2, <1>5, <2>1, <2>2, <3>1 DEF flow
  <2>5. CASE ~(level + flow <= Full)
    <3>1. Refilled = Full /\ level + flow > Full
      BY <1>1, <1>5, <2>2, <2>3, <2>5 DEF Refilled
    <3>2. ~rounded'
      BY <1>1, <1>5, <2>3, <3>1 DEF Rounding
    <3> QED BY <1>2, <1>5, <2>1, <3>1, <3>2 DEF flow
  <2> QED BY <2>4, <2>5
<1> QED BY <1>3, <1>4, <1>5

(* What an answer does to the histories.                                         *)
LEMMA TotalNat ==
  ASSUME LimiterTypeOK
  PROVE  /\ Total \in Nat /\ Len(admitted) \in Nat /\ DOMAIN admitted = 1..Len(admitted)
         /\ admitted = <<>> => Total = 0 /\ Len(admitted) = 0
         /\ \A i \in DOMAIN admitted : admitted[i] \in Request
<1>1. admitted \in Seq(Request) /\ Len(admitted) \in Nat /\ DOMAIN admitted = 1..Len(admitted)
  BY LenProperties DEF LimiterTypeOK
<1>2. \A i \in DOMAIN admitted : admitted[i] \in Request
  BY <1>1, ElementOfSeq
<1>3. CASE admitted = <<>>
  BY <1>1, <1>2, <1>3 DEF Total
<1>4. CASE admitted # <<>>
  <2>1. Len(admitted) \in DOMAIN admitted
    BY <1>1, <1>4, EmptySeq
  <2>2. admitted[Len(admitted)] \in Request
    BY <1>2, <2>1
  <2> QED BY <1>1, <1>2, <1>4, <2>2 DEF Total, Request
<1> QED BY <1>3, <1>4

(* The types of the numbers, which most steps need.                           *)
LEMMA Numbers ==
  ASSUME LimiterTypeOK
  PROVE  /\ now \in Nat /\ lastRefill \in 0..now /\ windowStart \in 0..now
         /\ level \in 0..Full /\ count \in 0..MaxRequests
         /\ MaxRequests \in Nat \ {0} /\ WindowMs \in Nat \ {0} /\ Full \in Nat
<1>1. /\ now \in 0..MaxTime /\ lastRefill \in 0..now /\ windowStart \in 0..now
      /\ level \in 0..Full /\ count \in 0..MaxRequests
  BY DEF LimiterTypeOK
<1> QED BY <1>1, LimiterAssumption, FullNat

(* An admitted request lies in the past and counts in the total.              *)
LEMMA RequestProperties ==
  ASSUME LimiterTypeOK, Past, NEW i \in DOMAIN admitted
  PROVE  /\ admitted[i].at \in Nat /\ admitted[i].at <= now
         /\ admitted[i].cost \in Nat /\ admitted[i].before \in Nat
         /\ admitted[i].before + admitted[i].cost <= Total
<1>1. admitted[i] \in Request
  BY TotalNat
<1> QED BY <1>1 DEF Past, Request

LEMMA AdmittedGrows ==
  ASSUME LimiterTypeOK, NEW cost \in Nat \ {0}, Admitted(cost)
  PROVE  /\ admitted' \in Seq(Request) /\ refused' = {}
         /\ Len(admitted') = Len(admitted) + 1 /\ DOMAIN admitted' = 1..Len(admitted) + 1
         /\ \A i \in DOMAIN admitted : admitted'[i] = admitted[i]
         /\ admitted'[Len(admitted) + 1] = [at |-> now, cost |-> cost, before |-> Total]
         /\ Total' = Total + cost
<1> DEFINE r == [at |-> now, cost |-> cost, before |-> Total]
<1>1. Total \in Nat /\ now \in Nat /\ admitted \in Seq(Request) /\ Len(admitted) \in Nat
  BY TotalNat DEF LimiterTypeOK
<1>2. r \in Request /\ r.before + r.cost = Total + cost
  BY <1>1 DEF Request
<1>3. admitted' = Append(admitted, r) /\ refused' = {}
  BY DEF Admitted
<1> HIDE DEF r
<1>4. /\ admitted' \in Seq(Request) /\ Len(admitted') = Len(admitted) + 1
      /\ \A i \in 1..Len(admitted) : admitted'[i] = admitted[i]
      /\ admitted'[Len(admitted) + 1] = r
  BY <1>1, <1>2, <1>3, AppendProperties
<1>5. DOMAIN admitted' = 1..Len(admitted) + 1 /\ DOMAIN admitted = 1..Len(admitted)
  BY <1>1, <1>4, LenProperties
<1>6. admitted' # <<>>
  BY <1>1, <1>4, EmptySeq
<1>7. Total' = Total + cost
  BY <1>2, <1>4, <1>6 DEF Total
<1> QED BY <1>3, <1>4, <1>5, <1>7 DEF r

(* An admission of one, as the windows count them.                            *)
LEMMA AdmittedOne ==
  ASSUME LimiterTypeOK, Admitted(1)
  PROVE  LET n == Len(admitted) IN
         /\ refused' = {} /\ Len(admitted') = n + 1 /\ DOMAIN admitted' = 1..n + 1
         /\ \A i \in 1..n : admitted'[i] = admitted[i]
         /\ admitted'[n + 1].at = now /\ admitted'[n + 1].cost = 1 /\ admitted'[n + 1].before = Total
<1>1. 1 \in Nat \ {0} /\ DOMAIN admitted = 1..Len(admitted)
  BY TotalNat
<1>2. /\ refused' = {} /\ Len(admitted') = Len(admitted) + 1 /\ DOMAIN admitted' = 1..Len(admitted) + 1
      /\ \A i \in DOMAIN admitted : admitted'[i] = admitted[i]
      /\ admitted'[Len(admitted) + 1] = [at |-> now, cost |-> 1, before |-> Total]
  BY <1>1, AdmittedGrows
<1> QED BY <1>1, <1>2

(* A refusal adds to the refusals only.                                       *)
LEMMA RefusedGrows ==
  ASSUME LimiterTypeOK, NEW cost, NEW until, Refused(cost, until)
  PROVE  /\ admitted' = admitted /\ Total' = Total
         /\ refused' = refused \union {[at |-> now, cost |-> cost, until |-> until]}
BY DEF Refused, Total

LEMMA ResetHistory ==
  ASSUME ResetKey
  PROVE  admitted' = <<>> /\ refused' = {} /\ Total' = 0 /\ DOMAIN admitted' = {} /\ Len(admitted') = 0
BY EmptySeq DEF ResetKey, Total

(* What the filter leaves of the timestamps.                                     *)
LEMMA FilterProperties ==
  ASSUME LimiterTypeOK, NEW k \in 0..Len(timestamps)
  PROVE  /\ Len(timestamps) \in Nat
         /\ Unexpired(k) \in Seq(0..now) /\ Len(Unexpired(k)) = Len(timestamps) - k
         /\ \A i \in 1..Len(timestamps) - k : Unexpired(k)[i] = timestamps[k + i]
         /\ \A i \in 1..Len(timestamps) : timestamps[i] \in 0..now
<1> DEFINE n == Len(timestamps)
<1>1. timestamps \in Seq(0..now) /\ n \in Nat
  BY LenProperties DEF LimiterTypeOK
<1>2. \A i \in 1..n : timestamps[i] \in 0..now
  BY <1>1, ElementOfSeq
<1>3. k \in 0..n
  OBVIOUS
<1>4. Unexpired(k) = SubSeq(timestamps, k + 1, n)
  BY DEF Unexpired
<1> HIDE DEF n
<1>5. k + 1 \in Int /\ n \in Int /\ \A i \in k + 1..n : timestamps[i] \in 0..now
  BY <1>1, <1>2, <1>3
<1>6. /\ Unexpired(k) \in Seq(0..now)
      /\ Len(Unexpired(k)) = IF k + 1 <= n THEN n - (k + 1) + 1 ELSE 0
      /\ \A i \in 1..n - (k + 1) + 1 : Unexpired(k)[i] = timestamps[k + 1 + i - 1]
  BY <1>4, <1>5, SubSeqProperties
<1>7. Len(Unexpired(k)) = n - k
  BY <1>1, <1>3, <1>6
<1>8. ASSUME NEW i \in 1..n - k PROVE Unexpired(k)[i] = timestamps[k + i]
  <2>1. i \in 1..n - (k + 1) + 1 /\ k + 1 + i - 1 = k + i
    BY <1>1, <1>3
  <2> QED BY <1>6, <2>1
<1> QED BY <1>1, <1>2, <1>6, <1>7, <1>8 DEF n

(* The timestamps after an admission: what the filter leaves, and now.        *)
LEMMA PushProperties ==
  ASSUME LimiterTypeOK, NEW k \in 0..Len(timestamps)
  PROVE  /\ Append(Unexpired(k), now) \in Seq(0..now)
         /\ Len(Append(Unexpired(k), now)) = Len(timestamps) - k + 1
         /\ \A i \in 1..Len(timestamps) - k : Append(Unexpired(k), now)[i] = timestamps[k + i]
         /\ Append(Unexpired(k), now)[Len(timestamps) - k + 1] = now
<1>1. now \in 0..now
  BY DEF LimiterTypeOK
<1>2. /\ Unexpired(k) \in Seq(0..now) /\ Len(Unexpired(k)) = Len(timestamps) - k
      /\ \A i \in 1..Len(timestamps) - k : Unexpired(k)[i] = timestamps[k + i]
  BY FilterProperties
<1> DEFINE s == Unexpired(k)
<1> HIDE DEF s
<1>3. /\ Append(s, now) \in Seq(0..now) /\ Len(Append(s, now)) = Len(s) + 1
      /\ \A i \in 1..Len(s) : Append(s, now)[i] = s[i]
      /\ Append(s, now)[Len(s) + 1] = now
  BY <1>1, <1>2, AppendProperties DEF s
<1> QED BY <1>2, <1>3 DEF s

-------------------------------------------------------------------------------
(* Types.                                                                        *)
LEMMA LimiterTypeInit == LimiterInit => LimiterTypeOK
<1> SUFFICES ASSUME LimiterInit PROVE LimiterTypeOK
  OBVIOUS
<1>1. timestamps \in Seq(0..now) /\ Len(timestamps) = 0 /\ admitted \in Seq(Request)
  BY EmptySeq DEF LimiterInit
<1>2. timestamps \in Seq(0..now) /\ Len(timestamps) <= MaxRequests
  BY <1>1, FullNat
<1>3. level \in 0..Full /\ rounded \in BOOLEAN /\ count \in 0..MaxRequests
  <2>1. Full \in Nat /\ MaxRequests \in Nat /\ level = Full /\ count = 0
    BY FullNat DEF LimiterInit
  <2>2. rounded \in BOOLEAN
    BY DEF LimiterInit
  <2> QED BY <2>1, <2>2
<1>4. refused \subseteq Refusal /\ known \in BOOLEAN /\ strategy \in Strategies
  BY DEF LimiterInit
<1>5. now \in 0..MaxTime /\ lastRefill \in 0..now /\ windowStart \in 0..now
  BY LimiterAssumption DEF LimiterInit
<1> QED BY <1>1, <1>2, <1>3, <1>4, <1>5 DEF LimiterTypeOK

LEMMA RefusedTyped ==
  ASSUME LimiterTypeOK, NEW cost \in Nat \ {0}, NEW until \in Nat, Refused(cost, until)
  PROVE  admitted' \in Seq(Request) /\ refused' \subseteq Refusal
BY DEF Refused, LimiterTypeOK, Refusal

LEMMA AdmittedTyped ==
  ASSUME LimiterTypeOK, NEW cost \in Nat \ {0}, Admitted(cost)
  PROVE  admitted' \in Seq(Request) /\ refused' \subseteq Refusal
BY AdmittedGrows

(* The bucket keeps between nothing and its capacity.                         *)
LEMMA ConsumeTokensTyped ==
  ASSUME LimiterTypeOK, NEW cost \in Costs, ConsumeTokens(cost)
  PROVE  LimiterTypeOK'
<1> DEFINE tokens == cost * WindowMs
<1>1. cost \in Nat \ {0} /\ tokens \in Nat /\ now \in 0..MaxTime /\ MaxTime \in Nat
  BY LimiterAssumption DEF LimiterTypeOK
<1>2. Refilled \in 0..Full /\ Full \in Nat
  BY RefillProperties, FullNat
<1>3. /\ strategy' = strategy /\ now' = now /\ known' = TRUE /\ lastRefill' = now
      /\ timestamps' = timestamps /\ count' = count /\ windowStart' = windowStart
      /\ \/ Refilled >= tokens /\ level' = Refilled - tokens /\ Admitted(cost)
         \/ /\ level' = Refilled
            /\ \E wait \in 0..tokens + 1 : Refused(cost, now + wait)
      /\ rounded' \in BOOLEAN
  BY RefillRounds DEF ConsumeTokens, counter
<1> HIDE DEF tokens
<1>4. level' \in 0..Full
  BY <1>1, <1>2, <1>3
<1>5. admitted' \in Seq(Request) /\ refused' \subseteq Refusal
  <2>1. CASE Admitted(cost)
    BY <1>1, <2>1, AdmittedTyped
  <2>2. ASSUME NEW wait \in 0..tokens + 1, Refused(cost, now + wait)
        PROVE  admitted' \in Seq(Request) /\ refused' \subseteq Refusal
    <3>1. now + wait \in Nat
      BY <1>1
    <3> QED BY <1>1, <2>2, <3>1, RefusedTyped
  <2> QED BY <1>3, <2>1, <2>2
<1> QED BY <1>1, <1>3, <1>4, <1>5 DEF LimiterTypeOK, Full

(* A sliding window never holds more than MaxRequests timestamps.             *)
LEMMA ConsumeSlidingTyped ==
  ASSUME LimiterTypeOK, ConsumeSliding
  PROVE  LimiterTypeOK'
<1>1. PICK k \in 0..Len(timestamps) :
        \/ /\ Len(timestamps) - k < MaxRequests
           /\ timestamps' = Append(Unexpired(k), now)
           /\ Admitted(1)
        \/ /\ Len(timestamps) - k >= MaxRequests
           /\ timestamps' = Unexpired(k)
           /\ Refused(1, timestamps[k + 1] + WindowMs)
  BY DEF ConsumeSliding
<1>2. UNCHANGED <<strategy, now, known, level, lastRefill, rounded, count, windowStart>>
  BY DEF ConsumeSliding, bucket, counter
<1>3. Len(timestamps) \in Nat /\ Len(timestamps) <= MaxRequests /\ MaxRequests \in Nat \ {0} /\ WindowMs \in Nat
  BY FilterProperties, LimiterAssumption DEF LimiterTypeOK
<1>4. timestamps' \in Seq(0..now) /\ Len(timestamps') <= MaxRequests
  <2>1. k \in Nat /\ Unexpired(k) \in Seq(0..now) /\ Len(Unexpired(k)) = Len(timestamps) - k
    BY <1>3, FilterProperties
  <2>2. /\ Append(Unexpired(k), now) \in Seq(0..now)
        /\ Len(Append(Unexpired(k), now)) = Len(timestamps) - k + 1
    BY PushProperties
  <2>3. CASE Len(timestamps) - k < MaxRequests /\ timestamps' = Append(Unexpired(k), now)
    <3>1. Len(timestamps') = Len(timestamps) - k + 1
      BY <2>2, <2>3
    <3> QED BY <1>3, <2>1, <2>2, <2>3, <3>1
  <2>4. CASE timestamps' = Unexpired(k)
    <3>1. Len(timestamps') = Len(timestamps) - k
      BY <2>1, <2>4
    <3> QED BY <1>3, <2>1, <2>4, <3>1
  <2> QED BY <1>1, <2>3, <2>4
<1>5. admitted' \in Seq(Request) /\ refused' \subseteq Refusal
  <2>1. CASE Admitted(1)
    BY <2>1, AdmittedTyped
  <2>2. CASE Len(timestamps) - k >= MaxRequests /\ Refused(1, timestamps[k + 1] + WindowMs)
    <3>1. k + 1 \in 1..Len(timestamps)
      BY <1>3, <2>2
    <3>2. timestamps[k + 1] \in 0..now
      BY <3>1, FilterProperties
    <3>3. timestamps[k + 1] + WindowMs \in Nat
      BY <1>3, <3>2
    <3> QED BY <2>2, <3>3, RefusedTyped
  <2> QED BY <1>1, <2>1, <2>2
<1> QED BY <1>2, <1>4, <1>5 DEF LimiterTypeOK, Full

(* Nor does the counter of a fixed window pass MaxRequests.                   *)
LEMMA ConsumeFixedTyped ==
  ASSUME LimiterTypeOK, ConsumeFixed
  PROVE  LimiterTypeOK'
<1>1. /\ known' = TRUE /\ UNCHANGED <<strategy, now, level, lastRefill, rounded, timestamps>>
      /\ \/ windowStart' = now /\ count' = 1 /\ Admitted(1)
         \/ count < MaxRequests /\ count' = count + 1 /\ Admitted(1) /\ windowStart' = windowStart
         \/ Refused(1, windowStart + WindowMs) /\ windowStart' = windowStart /\ count' = count
  BY DEF ConsumeFixed, bucket, counter
<1>2. count \in 0..MaxRequests /\ windowStart \in 0..now /\ now \in Nat /\ MaxRequests \in Nat \ {0} /\ WindowMs \in Nat
  BY LimiterAssumption DEF LimiterTypeOK
<1>3. count' \in 0..MaxRequests /\ windowStart' \in 0..now
  BY <1>1, <1>2
<1>4. windowStart + WindowMs \in Nat
  BY <1>2
<1>5. admitted' \in Seq(Request) /\ refused' \subseteq Refusal
  BY <1>1, <1>4, AdmittedTyped, RefusedTyped
<1> QED BY <1>1, <1>3, <1>5 DEF LimiterTypeOK, Full

LEMMA LimiterTypeStep == LimiterTypeOK /\ [LimiterNext]_limiterVars => LimiterTypeOK'
<1> SUFFICES ASSUME LimiterTypeOK, [LimiterNext]_limiterVars PROVE LimiterTypeOK'
  OBVIOUS
<1>1. CASE Tick
  <2>1. /\ now \in 0..MaxTime /\ MaxTime \in Nat /\ now' = now + 1 /\ now' \in 0..MaxTime /\ 0..now \subseteq 0..now'
        /\ UNCHANGED <<strategy, known, level, lastRefill, rounded, timestamps, count, windowStart, admitted, refused>>
    BY <1>1, LimiterAssumption DEF Tick, LimiterTypeOK, bucket, counter
  <2>2. timestamps \in Seq(0..now')
    BY <2>1, SeqMonotonic DEF LimiterTypeOK
  <2> QED BY <2>1, <2>2 DEF LimiterTypeOK, Full
<1>2. CASE ResetKey
  <2>1. timestamps' = <<>> /\ timestamps' \in Seq(0..now) /\ Len(timestamps') = 0 /\ admitted' \in Seq(Request)
    BY <1>2, EmptySeq DEF ResetKey
  <2>2. /\ known' = FALSE /\ refused' = {}
        /\ UNCHANGED <<strategy, now, level, lastRefill, rounded, count, windowStart>>
    BY <1>2 DEF ResetKey, bucket, counter
  <2>3. timestamps' \in Seq(0..now') /\ Len(timestamps') <= MaxRequests
    BY <2>1, <2>2, FullNat
  <2>4. refused' \subseteq Refusal /\ known' \in BOOLEAN
    BY <2>2
  <2>5. Full' = Full
    BY DEF Full
  <2>6. /\ strategy' \in Strategies /\ now' \in 0..MaxTime /\ lastRefill' \in 0..now' /\ windowStart' \in 0..now'
        /\ level' \in 0..Full /\ rounded' \in BOOLEAN /\ count' \in 0..MaxRequests
    BY <2>2 DEF LimiterTypeOK
  <2> QED BY <2>1, <2>3, <2>4, <2>5, <2>6 DEF LimiterTypeOK
<1>3. ASSUME NEW cost \in Costs, ConsumeTokens(cost) PROVE LimiterTypeOK'
  BY <1>3, ConsumeTokensTyped
<1>4. CASE ConsumeSliding
  BY <1>4, ConsumeSlidingTyped
<1>5. CASE ConsumeFixed
  BY <1>5, ConsumeFixedTyped
<1>6. CASE UNCHANGED limiterVars
  BY <1>6 DEF LimiterTypeOK, limiterVars, bucket, counter, Full
<1> QED BY <1>1, <1>2, <1>3, <1>4, <1>5, <1>6 DEF LimiterNext

(* Types, and the limits: a bucket never overflows and no window holds more      *)
(* requests than it may.                                                         *)
THEOREM LimiterTypeTheorem == LimiterSpec => []LimiterTypeOK
BY LimiterTypeInit, LimiterTypeStep, PTL DEF LimiterSpec

-------------------------------------------------------------------------------
(* The history.                                                                  *)
LEMMA PastAdmitted ==
  ASSUME LimiterTypeOK, Past, NEW cost \in Nat \ {0}, Admitted(cost),
         now' = now, strategy' = strategy, strategy # "token-bucket" => cost = 1,
         known' \/ strategy = "sliding-window"
  PROVE  Past'
<1> DEFINE n == Len(admitted)
<1>1. n \in Nat /\ DOMAIN admitted = 1..n /\ Total \in Nat /\ now \in Nat
  BY TotalNat DEF LimiterTypeOK
<1>2. /\ refused' = {} /\ DOMAIN admitted' = 1..n + 1 /\ Total' = Total + cost /\ Len(admitted') = n + 1
      /\ \A i \in 1..n : admitted'[i] = admitted[i]
      /\ admitted'[n + 1] = [at |-> now, cost |-> cost, before |-> Total]
  BY <1>1, AdmittedGrows
<1>3. \A i \in 1..n : admitted[i].at \in Nat /\ admitted[i].cost \in Nat /\ admitted[i].before \in Nat
  BY <1>1, TotalNat DEF Request
<1>4. /\ \A i \in 1..n : admitted[i].at <= now /\ admitted[i].before + admitted[i].cost <= Total
      /\ \A i, j \in 1..n : i <= j => admitted[i].at <= admitted[j].at
      /\ strategy # "token-bucket" =>
           Total = n /\ \A i \in 1..n : admitted[i].cost = 1 /\ admitted[i].before = i - 1
  BY <1>1 DEF Past
<1> HIDE DEF n
<1>5. \A i \in 1..n + 1 : i \in 1..n \/ i = n + 1
  BY <1>1
<1>6. admitted'[n + 1].at = now /\ admitted'[n + 1].cost = cost /\ admitted'[n + 1].before = Total
  BY <1>2
<1>7. ASSUME NEW i \in 1..n + 1
      PROVE  admitted'[i].at <= now' /\ admitted'[i].before + admitted'[i].cost <= Total'
  <2>1. CASE i \in 1..n
    BY <1>1, <1>2, <1>3, <1>4, <2>1
  <2>2. CASE i = n + 1
    BY <1>1, <1>2, <1>6, <2>2
  <2> QED BY <1>5, <2>1, <2>2
<1>8. \A i, j \in 1..n + 1 : i <= j => admitted'[i].at <= admitted'[j].at
  BY <1>1, <1>2, <1>3, <1>4, <1>5, <1>6
<1>9. strategy' # "token-bucket" =>
        Total' = n + 1 /\ \A i \in 1..n + 1 : admitted'[i].cost = 1 /\ admitted'[i].before = i - 1
  <2> SUFFICES ASSUME strategy # "token-bucket"
               PROVE  Total' = n + 1 /\ \A i \in 1..n + 1 : admitted'[i].cost = 1 /\ admitted'[i].before = i - 1
    OBVIOUS
  <2>1. \A i \in 1..n : admitted'[i].cost = 1 /\ admitted'[i].before = i - 1
    BY <1>2, <1>4
  <2>2. Total = n /\ cost = 1 /\ n + 1 - 1 = n
    BY <1>1, <1>4
  <2> QED BY <1>1, <1>2, <1>5, <1>6, <2>1, <2>2
<1> QED BY <1>2, <1>7, <1>8, <1>9 DEF Past

(* A refusal leaves what was admitted alone.                                  *)
LEMMA PastRefused ==
  ASSUME LimiterTypeOK, Past, NEW cost, NEW until, Refused(cost, until),
         now' = now, strategy' = strategy, known' \/ strategy = "sliding-window"
  PROVE  Past'
<1>1. /\ admitted' = admitted /\ Total' = Total
      /\ refused' = refused \union {[at |-> now, cost |-> cost, until |-> until]} /\ now \in Nat
  BY RefusedGrows DEF LimiterTypeOK
<1>2. \A r \in refused' : r.at <= now'
  BY <1>1 DEF Past
<1> QED BY <1>1, <1>2 DEF Past

(* What a step does to the histories, whatever the limiter.                      *)
LEMMA Answers ==
  ASSUME LimiterTypeOK, [LimiterNext]_limiterVars
  PROVE  \/ /\ UNCHANGED <<strategy, known, level, lastRefill, rounded, timestamps, count, windowStart, admitted, refused>>
            /\ now' \in Nat /\ now' >= now
         \/ ResetKey
         \/ \E cost \in Costs : strategy = "token-bucket" /\ ConsumeTokens(cost)
         \/ strategy = "sliding-window" /\ ConsumeSliding
         \/ strategy = "fixed-window" /\ ConsumeFixed
BY DEF LimiterTypeOK, LimiterNext, limiterVars, bucket, counter, Tick, ConsumeTokens, ConsumeSliding, ConsumeFixed

LEMMA Still ==
  ASSUME UNCHANGED admitted
  PROVE  Total' = Total
BY DEF Total

(* The history is in order after every step.                                  *)
LEMMA PastStep ==
  ASSUME LimiterTypeOK, Past, [LimiterNext]_limiterVars
  PROVE  Past'
<1>1. CASE /\ UNCHANGED <<strategy, known, level, lastRefill, rounded, timestamps, count, windowStart, admitted, refused>>
           /\ now' \in Nat /\ now' >= now
  <2>1. Total' = Total
    BY <1>1, Still
  <2>2. \A i \in DOMAIN admitted : admitted[i].at \in Nat /\ admitted[i].at <= now'
    BY <1>1, RequestProperties, Numbers
  <2>3. \A r \in refused : r.at \in Nat /\ r.at <= now'
    BY <1>1 DEF Past, Refusal, LimiterTypeOK
  <2> QED BY <1>1, <2>1, <2>2, <2>3 DEF Past
<1>2. CASE ResetKey
  BY <1>2, ResetHistory DEF Past, ResetKey
<1>3. ASSUME NEW cost \in Costs, strategy = "token-bucket", ConsumeTokens(cost) PROVE Past'
  <2>1. cost \in Nat \ {0} /\ now' = now /\ strategy' = strategy /\ known'
    BY <1>3, LimiterAssumption DEF ConsumeTokens
  <2>2. Admitted(cost) \/ \E until : Refused(cost, until)
    BY <1>3 DEF ConsumeTokens
  <2> QED BY <1>3, <2>1, <2>2, PastAdmitted, PastRefused
<1>4. CASE strategy = "sliding-window" /\ ConsumeSliding
  <2>1. 1 \in Nat \ {0} /\ now' = now /\ strategy' = strategy
    BY <1>4 DEF ConsumeSliding
  <2>2. Admitted(1) \/ \E until : Refused(1, until)
    BY <1>4 DEF ConsumeSliding
  <2> QED BY <1>4, <2>1, <2>2, PastAdmitted, PastRefused
<1>5. CASE strategy = "fixed-window" /\ ConsumeFixed
  <2>1. 1 \in Nat \ {0} /\ now' = now /\ strategy' = strategy /\ known'
    BY <1>5 DEF ConsumeFixed
  <2>2. Admitted(1) \/ \E until : Refused(1, until)
    BY <1>5 DEF ConsumeFixed
  <2> QED BY <1>5, <2>1, <2>2, PastAdmitted, PastRefused
<1> QED BY <1>1, <1>2, <1>3, <1>4, <1>5, Answers

-------------------------------------------------------------------------------
(* The rate.                                                                     *)
(* What flowed into the bucket, where it is given out of it.                     *)
LEMMA Flows ==
  ASSUME LimiterTypeOK, Past, BucketFlow, strategy = "token-bucket",
         NEW i \in DOMAIN admitted
  PROVE  (Total - admitted[i].before) * WindowMs + Refilled <= Full + (now - admitted[i].at) * MaxRequests
<1> DEFINE spent == (Total - admitted[i].before) * WindowMs
           flow == (now - lastRefill) * MaxRequests
           upTo == (lastRefill - admitted[i].at) * MaxRequests
           since == (now - admitted[i].at) * MaxRequests
<1>1. /\ Total \in Nat /\ admitted[i].before \in Nat /\ admitted[i].at \in Nat /\ now \in Nat
      /\ lastRefill \in Nat /\ level \in Nat /\ MaxRequests \in Nat /\ WindowMs \in Nat /\ Full \in Nat
  <2>1. Total \in Nat /\ admitted[i].before \in Nat /\ admitted[i].at \in Nat
    BY TotalNat, RequestProperties
  <2>2. now \in Nat /\ lastRefill \in Nat /\ level \in 0..Full
    BY DEF LimiterTypeOK
  <2> QED BY <2>1, <2>2, FullNat
<1>2. known
  BY DEF Past
<1>3. Refilled <= level + flow /\ Refilled \in Nat
  BY <1>2, FullNat, RefillProperties
<1>4. spent + level <= Full + upTo
  BY DEF BucketFlow
<1>5. since = upTo + flow /\ spent \in Int /\ flow \in Int /\ upTo \in Int
  <2>1. now - admitted[i].at = (lastRefill - admitted[i].at) + (now - lastRefill)
    BY <1>1
  <2> QED BY <1>1, <2>1, Distribute
<1> HIDE DEF spent, flow, upTo, since
<1>6. spent + Refilled <= Full + since
  BY <1>1, <1>3, <1>4, <1>5
<1> QED BY <1>6 DEF spent, since

(* Neither a call nor a tick makes tokens out of nothing.                     *)
LEMMA BucketFlowStep ==
  ASSUME LimiterTypeOK, Past, BucketFlow, [LimiterNext]_limiterVars
  PROVE  BucketFlow'
<1> SUFFICES ASSUME strategy' = "token-bucket", NEW i \in DOMAIN admitted'
             PROVE  /\ admitted'[i].at <= lastRefill'
                    /\ (Total' - admitted'[i].before) * WindowMs + level'
                         <= Full + (lastRefill' - admitted'[i].at) * MaxRequests
  BY DEF BucketFlow, Full
<1>1. CASE UNCHANGED <<strategy, level, lastRefill, admitted>>
  BY <1>1, Still DEF BucketFlow
<1>2. CASE ResetKey
  BY <1>2, ResetHistory
<1>3. ASSUME NEW cost \in Costs, strategy = "token-bucket", ConsumeTokens(cost)
      PROVE  /\ admitted'[i].at <= lastRefill'
             /\ (Total' - admitted'[i].before) * WindowMs + level'
                  <= Full + (lastRefill' - admitted'[i].at) * MaxRequests
  <2> DEFINE tokens == cost * WindowMs
             spent == (Total - admitted[i].before) * WindowMs
             since == (now - admitted[i].at) * MaxRequests
  <2>1. /\ cost \in Nat \ {0} /\ WindowMs \in Nat /\ MaxRequests \in Nat /\ Full \in Nat /\ now \in Nat
        /\ Total \in Nat /\ Refilled \in 0..Full /\ tokens \in Nat
        /\ Len(admitted) \in Nat /\ DOMAIN admitted = 1..Len(admitted)
    BY LimiterAssumption, FullNat, TotalNat, RefillProperties DEF LimiterTypeOK
  <2>2. lastRefill' = now /\ now' = now
    BY <1>3 DEF ConsumeTokens
  <2>3. i \in DOMAIN admitted =>
          /\ admitted[i].at <= now /\ admitted[i].at \in Nat /\ admitted[i].before \in Nat
          /\ spent + Refilled <= Full + since /\ spent \in Int /\ since \in Int
    <3> SUFFICES ASSUME i \in DOMAIN admitted
                 PROVE  /\ admitted[i].at <= now /\ admitted[i].at \in Nat /\ admitted[i].before \in Nat
                        /\ spent + Refilled <= Full + since /\ spent \in Int /\ since \in Int
      OBVIOUS
    <3>1. admitted[i].at <= now /\ admitted[i].at \in Nat /\ admitted[i].before \in Nat
      BY RequestProperties
    <3>2. spent \in Int /\ since \in Int
      <4>1. Total - admitted[i].before \in Int /\ now - admitted[i].at \in Int
        BY <2>1, <3>1
      <4>2. WindowMs \in Int /\ MaxRequests \in Int
        BY <2>1
      <4> QED BY <4>1, <4>2, ProductInt
    <3> QED BY <1>3, <3>1, <3>2, Flows
  <2>4. CASE level' = Refilled /\ UNCHANGED admitted
    BY <2>2, <2>3, <2>4, Still
  <2>5. CASE Refilled >= tokens /\ level' = Refilled - tokens /\ Admitted(cost)
    <3>1. /\ Total' = Total + cost /\ DOMAIN admitted' = 1..Len(admitted) + 1
          /\ \A j \in DOMAIN admitted : admitted'[j] = admitted[j]
          /\ admitted'[Len(admitted) + 1] = [at |-> now, cost |-> cost, before |-> Total]
      BY <2>1, <2>5, AdmittedGrows
    <3>2. CASE i \in DOMAIN admitted
      <4>1. admitted'[i] = admitted[i]
        BY <3>1, <3>2
      <4>2. (Total' - admitted'[i].before) * WindowMs = spent + tokens
        <5>1. Total \in Nat /\ cost \in Int /\ WindowMs \in Int /\ admitted[i].before \in Nat
          BY <2>1, <2>3, <3>2
        <5>2. Total' - admitted'[i].before = (Total - admitted[i].before) + cost /\ Total - admitted[i].before \in Int
          BY <3>1, <4>1, <5>1
        <5> DEFINE d == Total - admitted[i].before
        <5> HIDE DEF d
        <5>3. d \in Int /\ Total' - admitted'[i].before = d + cost
          BY <5>2 DEF d
        <5>4. (d + cost) * WindowMs = d * WindowMs + cost * WindowMs
          BY <5>1, <5>3, Distribute
        <5> QED BY <5>3, <5>4 DEF d
      <4>3. (lastRefill' - admitted'[i].at) * MaxRequests = since
        BY <2>2, <4>1
      <4> HIDE DEF spent, since, tokens
      <4> QED BY <2>1, <2>2, <2>3, <2>5, <3>2, <4>1, <4>2, <4>3
    <3>3. CASE i = Len(admitted) + 1
      <4>1. admitted'[i].at = now /\ Total' - admitted'[i].before = cost
        BY <2>1, <3>1, <3>3
      <4>2. (lastRefill' - admitted'[i].at) * MaxRequests = 0
        BY <2>1, <2>2, <4>1
      <4>3. (Total' - admitted'[i].before) * WindowMs = tokens
        BY <4>1
      <4> HIDE DEF tokens
      <4> QED BY <2>1, <2>2, <2>5, <4>1, <4>2, <4>3
    <3> QED BY <2>1, <3>1, <3>2, <3>3
  <2> QED BY <1>3, <2>4, <2>5 DEF ConsumeTokens, Refused
<1>4. CASE strategy # "token-bucket" /\ UNCHANGED strategy
  BY <1>4
<1> QED BY <1>1, <1>2, <1>3, <1>4, Answers DEF ConsumeSliding, ConsumeFixed

(* The timestamps that stay are those of the last requests, what goes has expired. *)
LEMMA Filtered ==
  ASSUME LimiterTypeOK, Past, SlidingWindow, strategy = "sliding-window",
         NEW k \in 0..Len(timestamps), Expired(k)
  PROVE  LET rest == Len(admitted) - Len(timestamps) IN
         /\ rest \in Nat
         /\ \A i \in DOMAIN admitted : i <= rest + k => admitted[i].at <= now - WindowMs
         /\ \A i \in 1..Len(timestamps) : timestamps[i] = admitted[rest + i].at
         /\ \A i \in 1..Len(timestamps) : i > k => timestamps[i] > now - WindowMs
<1> DEFINE m == Len(timestamps)
           rest == Len(admitted) - m
<1>1. /\ m \in Nat /\ DOMAIN timestamps = 1..m /\ Len(admitted) \in Nat /\ DOMAIN admitted = 1..Len(admitted)
      /\ now \in Nat /\ WindowMs \in Nat /\ k \in 0..m
  BY FilterProperties, TotalNat, FullNat, LenProperties DEF LimiterTypeOK
<1>2. /\ rest \in Nat
      /\ \A i \in 1..m : timestamps[i] = admitted[rest + i].at
      /\ \A i \in DOMAIN admitted : i <= rest => admitted[i].at <= now - WindowMs
  BY <1>1 DEF SlidingWindow
<1>3. \A i \in 1..m : timestamps[i] \in Nat
  <2>1. \A i \in 1..m : timestamps[i] \in 0..now
    BY FilterProperties
  <2> QED BY <1>1, <2>1
<1>4. \A i \in 1..m : i <= k <=> timestamps[i] <= now - WindowMs
  BY <1>1 DEF Expired
<1>5. ASSUME NEW i \in DOMAIN admitted, i <= rest + k PROVE admitted[i].at <= now - WindowMs
  <2>1. CASE i <= rest
    BY <1>2, <2>1
  <2>2. CASE i > rest
    <3>1. i - rest \in 1..m /\ i - rest <= k /\ rest + (i - rest) = i
      BY <1>1, <1>2, <1>5, <2>2
    <3>2. timestamps[i - rest] = admitted[i].at /\ timestamps[i - rest] <= now - WindowMs
      BY <1>2, <1>4, <3>1
    <3> QED BY <3>2
  <2> QED BY <1>1, <1>2, <2>1, <2>2
<1>6. \A i \in 1..m : i > k => timestamps[i] > now - WindowMs
  BY <1>1, <1>3, <1>4
<1> QED BY <1>2, <1>5, <1>6

(* The timestamps stay those of the last requests.                            *)
LEMMA SlidingWindowStep ==
  ASSUME LimiterTypeOK, Past, SlidingWindow, [LimiterNext]_limiterVars
  PROVE  SlidingWindow'
<1>1. CASE /\ UNCHANGED <<strategy, known, level, lastRefill, rounded, timestamps, count, windowStart, admitted, refused>>
           /\ now' \in Nat /\ now' >= now
  <2>1. \A i \in DOMAIN admitted : admitted[i].at \in Nat
    BY TotalNat DEF Request
  <2>2. now \in Nat /\ WindowMs \in Nat
    BY FullNat DEF LimiterTypeOK
  <2> QED BY <1>1, <2>1, <2>2 DEF SlidingWindow
<1>2. CASE ResetKey
  <2>1. timestamps' = <<>> /\ Len(timestamps') = 0 /\ DOMAIN timestamps' = {}
    BY <1>2, EmptySeq DEF ResetKey
  <2> QED BY <1>2, <2>1, ResetHistory DEF SlidingWindow
<1>3. CASE strategy = "sliding-window" /\ ConsumeSliding
  <2> DEFINE n == Len(admitted)
             m == Len(timestamps)
             rest == n - m
  <2>1. PICK k \in 0..m :
          /\ Expired(k)
          /\ \/ timestamps' = Append(Unexpired(k), now) /\ Admitted(1)
             \/ timestamps' = Unexpired(k) /\ \E until : Refused(1, until)
    BY <1>3 DEF ConsumeSliding
  <2>2. /\ m \in Nat /\ n \in Nat /\ DOMAIN admitted = 1..n /\ rest \in Nat
        /\ \A i \in DOMAIN admitted : i <= rest + k => admitted[i].at <= now - WindowMs
        /\ \A i \in 1..m : timestamps[i] = admitted[rest + i].at
    BY <1>3, <2>1, FilterProperties, TotalNat, Filtered
  <2>3. /\ Unexpired(k) \in Seq(0..now) /\ Len(Unexpired(k)) = m - k
        /\ \A i \in 1..m - k : Unexpired(k)[i] = timestamps[k + i]
    BY FilterProperties
  <2>4. now' = now
    BY <1>3 DEF ConsumeSliding
  <2>5. k \in 0..m
    OBVIOUS
  <2> HIDE DEF n, m
  <2>6. CASE timestamps' = Unexpired(k) /\ UNCHANGED admitted
    <3>1. /\ Len(timestamps') = m - k /\ DOMAIN timestamps' = 1..m - k /\ Len(admitted') = n
          /\ \A i \in 1..m - k : timestamps'[i] = timestamps[k + i]
      BY <2>3, <2>6, LenProperties DEF n
    <3>2. \A i \in 1..m - k : k + i \in 1..m /\ rest + (k + i) = n - (m - k) + i
      BY <2>2, <2>5
    <3>3. \A i \in 1..m - k : timestamps'[i] = admitted'[n - (m - k) + i].at
      BY <2>2, <2>6, <3>1, <3>2
    <3>4. n - (m - k) = rest + k /\ n - (m - k) >= 0
      BY <2>2, <2>5
    <3>5. \A i \in DOMAIN admitted' : i <= n - (m - k) => admitted'[i].at <= now' - WindowMs
      BY <2>2, <2>4, <2>6, <3>4
    <3> QED BY <3>1, <3>3, <3>4, <3>5 DEF SlidingWindow
  <2>7. CASE timestamps' = Append(Unexpired(k), now) /\ Admitted(1)
    <3>1. /\ Len(timestamps') = m - k + 1 /\ timestamps' \in Seq(0..now)
          /\ \A i \in 1..m - k : timestamps'[i] = timestamps[k + i]
          /\ timestamps'[m - k + 1] = now
      BY <2>7, PushProperties DEF m
    <3>2. DOMAIN timestamps' = 1..m - k + 1
      BY <3>1, LenProperties
    <3>3. /\ Len(admitted') = n + 1 /\ DOMAIN admitted' = 1..n + 1
          /\ \A i \in 1..n : admitted'[i] = admitted[i]
          /\ admitted'[n + 1].at = now
      BY <2>7, AdmittedOne DEF n
    <3>4. n + 1 - (m - k + 1) = rest + k /\ rest + k \in Nat /\ rest + k <= n
      BY <2>2, <2>5
    <3>5. ASSUME NEW i \in 1..m - k + 1 PROVE timestamps'[i] = admitted'[rest + k + i].at
      <4>1. CASE i \in 1..m - k
        <5>1. k + i \in 1..m /\ rest + (k + i) = rest + k + i /\ rest + k + i \in 1..n
          BY <2>2, <2>5, <4>1
        <5>2. timestamps'[i] = timestamps[k + i]
          BY <3>1, <4>1
        <5>3. timestamps[k + i] = admitted[rest + k + i].at
          BY <2>2, <5>1
        <5> QED BY <3>3, <5>1, <5>2, <5>3
      <4>2. CASE i = m - k + 1
        <5>1. rest + k + i = n + 1
          BY <2>2, <2>5, <4>2
        <5> QED BY <3>1, <3>3, <4>2, <5>1
      <4> QED BY <2>2, <2>5, <4>1, <4>2
    <3>6. ASSUME NEW i \in DOMAIN admitted', i <= rest + k PROVE admitted'[i].at <= now' - WindowMs
      <4>1. i \in 1..n
        BY <2>2, <3>3, <3>4, <3>6
      <4> QED BY <2>2, <2>4, <3>3, <3>6, <4>1
    <3>7. Len(admitted') - Len(timestamps') = rest + k
      BY <2>2, <2>5, <3>1, <3>3, <3>4
    <3> QED BY <3>2, <3>4, <3>5, <3>6, <3>7 DEF SlidingWindow
  <2> QED BY <2>1, <2>6, <2>7 DEF Refused
<1>4. CASE strategy # "sliding-window" /\ UNCHANGED strategy
  BY <1>4 DEF SlidingWindow
<1> QED BY <1>1, <1>2, <1>3, <1>4, Answers DEF ConsumeTokens, ConsumeFixed

(* A new window starts at least a full window after the one before.           *)
LEMMA FixedWindowsStep ==
  ASSUME LimiterTypeOK, Past, FixedWindows, [LimiterNext]_limiterVars
  PROVE  FixedWindows'
<1>1. CASE UNCHANGED <<strategy, known, count, windowStart, admitted>>
  BY <1>1 DEF FixedWindows
<1>2. CASE ResetKey
  BY <1>2 DEF FixedWindows, ResetKey
<1>3. CASE strategy = "fixed-window" /\ ConsumeFixed
  <2> DEFINE n == Len(admitted)
  <2>1. /\ n \in Nat /\ DOMAIN admitted = 1..n /\ MaxRequests \in Nat /\ WindowMs \in Nat /\ WindowMs > 0 /\ now \in Nat
        /\ windowStart \in 0..now /\ count \in 0..MaxRequests
        /\ \A i \in 1..n : admitted[i].at \in Nat /\ admitted[i].at <= now
    <3>1. n \in Nat /\ DOMAIN admitted = 1..n
      BY TotalNat
    <3> QED BY <3>1, Numbers, RequestProperties
  <2>2. Admitted(1) => /\ Len(admitted') = n + 1 /\ DOMAIN admitted' = 1..n + 1
                       /\ \A i \in 1..n : admitted'[i] = admitted[i]
                       /\ admitted'[n + 1].at = now
    BY AdmittedOne
  <2>3. /\ known' = TRUE
        /\ known => /\ n - count >= 0
                    /\ \A i \in 1..n : /\ i > n - count => /\ admitted[i].at >= windowStart
                                                           /\ admitted[i].at < windowStart + WindowMs
                                       /\ i <= n - count => admitted[i].at < windowStart
                                       /\ i <= n - count - MaxRequests => admitted[i].at < windowStart - WindowMs
    BY <1>3, <2>1 DEF FixedWindows, ConsumeFixed
  <2>4. ~known => n = 0
    BY <1>3, TotalNat DEF Past
  <2> HIDE DEF n
  <2>5. \A i \in 1..n + 1 : i \in 1..n \/ i = n + 1
    BY <2>1
  <2>6. CASE WindowOver /\ windowStart' = now /\ count' = 1 /\ Admitted(1)
    <3>1. known => now - windowStart >= WindowMs
      BY <2>6 DEF WindowOver
    <3>3. ASSUME NEW i \in 1..n
          PROVE  admitted'[i].at < now /\ (i <= n - MaxRequests => admitted'[i].at < now - WindowMs)
      <4>1. known /\ admitted'[i] = admitted[i]
        BY <2>1, <2>2, <2>4, <2>6
      <4> QED BY <2>1, <2>3, <3>1, <4>1
    <3> QED BY <2>1, <2>2, <2>5, <2>6, <3>3 DEF FixedWindows, n
  <2>7. CASE count < MaxRequests /\ count' = count + 1 /\ Admitted(1) /\ UNCHANGED windowStart /\ ~WindowOver
    <3>1. known
      BY <2>7 DEF WindowOver
    <3>2. \A i \in 1..n : admitted'[i] = admitted[i]
      BY <2>2, <2>7
    <3>3. (n + 1) - count' = n - count
      BY <2>1, <2>7
    <3>4. \A i \in 1..n + 1 :
            /\ i > n - count => admitted'[i].at >= windowStart /\ admitted'[i].at < windowStart + WindowMs
            /\ i <= n - count => admitted'[i].at < windowStart
            /\ i <= n - count - MaxRequests => admitted'[i].at < windowStart - WindowMs
      <4>1. now >= windowStart /\ now < windowStart + WindowMs
        BY <2>1, <2>7 DEF WindowOver
      <4>2. admitted'[n + 1].at = now
        BY <2>2, <2>7
      <4>3. ~(n + 1 <= n - count)
        BY <2>1
      <4> QED BY <2>1, <2>3, <2>5, <3>1, <3>2, <4>1, <4>2, <4>3
    <3>5. Len(admitted') = n + 1 /\ DOMAIN admitted' = 1..n + 1 /\ windowStart' = windowStart
      BY <2>2, <2>7
    <3>6. Len(admitted') - count' = n - count /\ n - count >= 0
      BY <2>3, <3>1, <3>3, <3>5
    <3> QED BY <3>4, <3>5, <3>6 DEF FixedWindows
  <2>8. CASE ~WindowOver /\ UNCHANGED <<count, windowStart, admitted>>
    <3>1. known
      BY <2>8 DEF WindowOver
    <3> QED BY <2>1, <2>3, <2>8, <3>1 DEF FixedWindows, n
  <2> QED BY <1>3, <2>6, <2>7, <2>8 DEF ConsumeFixed, Refused, counter
<1>4. CASE strategy # "fixed-window" /\ UNCHANGED strategy
  BY <1>4 DEF FixedWindows
<1> QED BY <1>1, <1>2, <1>3, <1>4, Answers DEF ConsumeTokens, ConsumeSliding

(* What an admission adds to any earlier request, or to itself, keeps the rate.  *)
Rate(strat, spent, span) ==
  /\ strat = "token-bucket" => spent * WindowMs <= Full + span * MaxRequests
  /\ strat = "sliding-window" /\ spent > MaxRequests => span >= WindowMs
  /\ strat = "fixed-window" /\ spent > 2 * MaxRequests => span > WindowMs

(* A single request is within the rate.                                       *)
LEMMA RateAtOnce ==
  ASSUME LimiterTypeOK, NEW cost \in Nat \ {0}, strategy \in Strategies,
         strategy = "token-bucket" => cost * WindowMs <= Full,
         strategy # "token-bucket" => cost = 1
  PROVE  Rate(strategy, cost, 0)
<1>1. 0 * MaxRequests = 0 /\ MaxRequests \in Nat \ {0} /\ Full \in Nat
  BY LimiterAssumption, FullNat
<1>2. cost * WindowMs \in Nat
  BY FullNat
<1>3. strategy # "token-bucket" => ~(cost > MaxRequests) /\ ~(cost > 2 * MaxRequests)
  BY <1>1
<1>4. CASE strategy = "token-bucket"
  <2>1. cost * WindowMs <= Full + 0 * MaxRequests
    BY <1>1, <1>2, <1>4
  <2> QED BY <1>4, <2>1 DEF Rate
<1>5. CASE strategy # "token-bucket"
  BY <1>3, <1>5 DEF Rate
<1> QED BY <1>4, <1>5

(* What the bucket gives now is within the rate since any earlier request.    *)
LEMMA BucketRate ==
  ASSUME LimiterTypeOK, Past, BucketFlow, strategy = "token-bucket",
         NEW cost \in Nat \ {0}, Refilled >= cost * WindowMs, NEW i \in DOMAIN admitted
  PROVE  Rate(strategy, Total + cost - admitted[i].before, now - admitted[i].at)
<1> DEFINE spent == (Total - admitted[i].before) * WindowMs
           tokens == cost * WindowMs
           since == (now - admitted[i].at) * MaxRequests
<1>1. Total \in Nat /\ admitted[i].before \in Nat /\ WindowMs \in Nat /\ MaxRequests \in Nat /\ Full \in Nat
      /\ now \in Nat /\ admitted[i].at \in Nat /\ Refilled \in 0..Full
  <2>1. admitted[i] \in Request /\ Total \in Nat
    BY TotalNat
  <2>2. Refilled \in 0..Full
    BY RefillProperties
  <2> QED BY <2>1, <2>2, FullNat DEF Request, LimiterTypeOK
<1>2. spent + Refilled <= Full + since
  BY Flows
<1>3. spent \in Int /\ since \in Int /\ tokens \in Int
  BY <1>1, Distribute
<1>4. (Total + cost - admitted[i].before) * WindowMs = spent + tokens
  <2>1. Total + cost - admitted[i].before = (Total - admitted[i].before) + cost
    BY <1>1
  <2> QED BY <1>1, <2>1, Distribute
<1>5. Refilled >= tokens
  OBVIOUS
<1> HIDE DEF spent, since, tokens
<1>6. spent + tokens <= Full + since
  BY <1>1, <1>2, <1>3, <1>5
<1>7. (Total + cost - admitted[i].before) * WindowMs <= Full + (now - admitted[i].at) * MaxRequests
  BY <1>4, <1>6 DEF since
<1> QED BY <1>7 DEF Rate

(* If MaxRequests came since some request, that one has expired.              *)
LEMMA SlidingRate ==
  ASSUME LimiterTypeOK, Past, SlidingWindow, strategy = "sliding-window",
         NEW k \in 0..Len(timestamps), Expired(k), Len(timestamps) - k < MaxRequests,
         NEW i \in DOMAIN admitted
  PROVE  Rate(strategy, Total + 1 - admitted[i].before, now - admitted[i].at)
<1> DEFINE n == Len(admitted)
           m == Len(timestamps)
<1>1. n \in Nat /\ m \in Nat /\ i \in 1..n /\ k \in 0..m /\ MaxRequests \in Nat /\ WindowMs \in Nat /\ now \in Nat
      /\ admitted[i].at \in Nat
  <2>1. admitted[i] \in Request /\ n \in Nat /\ i \in 1..n
    BY TotalNat
  <2>2. m \in Nat /\ k \in 0..m
    BY FilterProperties
  <2> QED BY <2>1, <2>2, FullNat DEF Request, LimiterTypeOK
<1>2. Total = n /\ admitted[i].before = i - 1
  BY DEF Past
<1>3. i <= n - m + k => admitted[i].at <= now - WindowMs
  BY Filtered
<1>4. m - k < MaxRequests
  OBVIOUS
<1> HIDE DEF n, m
<1>5. ASSUME Total + 1 - admitted[i].before > MaxRequests PROVE now - admitted[i].at >= WindowMs
  <2>1. i <= n - m + k
    BY <1>1, <1>2, <1>4, <1>5
  <2> QED BY <1>1, <1>3, <2>1
<1> QED BY <1>5 DEF Rate

(* If twice MaxRequests came since a request, two windows have begun since.   *)
LEMMA FixedRate ==
  ASSUME LimiterTypeOK, Past, FixedWindows, strategy = "fixed-window",
         WindowOver \/ count < MaxRequests, NEW i \in DOMAIN admitted
  PROVE  Rate(strategy, Total + 1 - admitted[i].before, now - admitted[i].at)
<1> DEFINE n == Len(admitted)
<1>1. n \in Nat /\ i \in 1..n /\ MaxRequests \in Nat \ {0} /\ WindowMs \in Nat /\ now \in Nat /\ admitted[i].at \in Nat
      /\ windowStart \in 0..now /\ count \in 0..MaxRequests
  <2>1. n \in Nat /\ i \in 1..n
    BY TotalNat
  <2> QED BY <2>1, Numbers, RequestProperties
<1>2. Total = n /\ admitted[i].before = i - 1
  BY DEF Past
<1>3. known
  BY DEF Past
<1>4. /\ i <= n - count => admitted[i].at < windowStart
      /\ i <= n - count - MaxRequests => admitted[i].at < windowStart - WindowMs
  BY <1>3 DEF FixedWindows
<1>5. ~(count < MaxRequests) => now - windowStart >= WindowMs
  BY <1>3 DEF WindowOver
<1> HIDE DEF n
<1>6. ASSUME Total + 1 - admitted[i].before > 2 * MaxRequests PROVE now - admitted[i].at > WindowMs
  <2>1. n - i + 2 > 2 * MaxRequests
    BY <1>1, <1>2, <1>6
  <2>2. CASE count < MaxRequests
    <3>1. i <= n - count - MaxRequests
      BY <1>1, <2>1, <2>2
    <3> QED BY <1>1, <1>4, <3>1
  <2>3. CASE ~(count < MaxRequests)
    <3>1. i <= n - count
      BY <1>1, <2>1
    <3> QED BY <1>1, <1>4, <1>5, <2>3, <3>1
  <2> QED BY <2>2, <2>3
<1> QED BY <1>6 DEF Rate

(* The property, in terms of Rate.                                            *)
LEMMA RateAsStated ==
  RateBounded <=> \A i, j \in DOMAIN admitted :
    i <= j => Rate(strategy, admitted[j].before + admitted[j].cost - admitted[i].before,
                   admitted[j].at - admitted[i].at)
BY DEF RateBounded, Rate

(* It is enough to look at the pairs that end with the new request.           *)
LEMMA RateAdmitted ==
  ASSUME LimiterTypeOK, RateBounded, NEW cost \in Nat \ {0}, Admitted(cost), strategy' = strategy,
         Rate(strategy, cost, 0),
         \A i \in DOMAIN admitted : Rate(strategy, Total + cost - admitted[i].before, now - admitted[i].at)
  PROVE  RateBounded'
<1> DEFINE n == Len(admitted)
<1>1. /\ n \in Nat /\ DOMAIN admitted = 1..n /\ DOMAIN admitted' = 1..n + 1
      /\ \A i \in 1..n : admitted'[i] = admitted[i]
      /\ admitted'[n + 1].at = now /\ admitted'[n + 1].cost = cost /\ admitted'[n + 1].before = Total
      /\ Total \in Nat /\ now \in Nat
  <2>1. n \in Nat /\ DOMAIN admitted = 1..n /\ Total \in Nat
    BY TotalNat
  <2>2. /\ DOMAIN admitted' = 1..n + 1
        /\ \A i \in DOMAIN admitted : admitted'[i] = admitted[i]
        /\ admitted'[n + 1] = [at |-> now, cost |-> cost, before |-> Total]
    BY AdmittedGrows
  <2>3. admitted'[n + 1].at = now /\ admitted'[n + 1].cost = cost /\ admitted'[n + 1].before = Total
    BY <2>2
  <2> QED BY <2>1, <2>2, <2>3, Numbers
<1> HIDE DEF n
<1>2. \A i, j \in 1..n : i <= j => Rate(strategy, admitted[j].before + admitted[j].cost - admitted[i].before,
                                        admitted[j].at - admitted[i].at)
  BY <1>1, RateAsStated
<1> DEFINE Kept(i, j) == Rate(strategy', admitted'[j].before + admitted'[j].cost - admitted'[i].before,
                              admitted'[j].at - admitted'[i].at)
<1>3. ASSUME NEW i \in 1..n + 1, NEW j \in 1..n + 1, i <= j PROVE Kept(i, j)
  <2>1. CASE j \in 1..n
    <3>1. i \in 1..n
      BY <1>1, <1>3, <2>1
    <3> QED BY <1>1, <1>2, <1>3, <2>1, <3>1
  <2>2. CASE j = n + 1 /\ i \in 1..n
    BY <1>1, <2>2
  <2>3. CASE j = n + 1 /\ i = n + 1
    <3>1. admitted'[j].before + admitted'[j].cost - admitted'[i].before = cost /\ admitted'[j].at - admitted'[i].at = 0
      BY <1>1, <2>3
    <3> QED BY <3>1
  <2> QED BY <1>1, <2>1, <2>2, <2>3
<1>4. RateBounded' <=> \A i, j \in DOMAIN admitted' : i <= j => Kept(i, j)
  BY DEF RateBounded, Rate, Full
<1> QED BY <1>1, <1>3, <1>4

(* The rate is kept by every step.                                            *)
LEMMA RateStep ==
  ASSUME LimiterTypeOK, Past, BucketFlow, SlidingWindow, FixedWindows, RateBounded, [LimiterNext]_limiterVars
  PROVE  RateBounded'
<1>1. CASE UNCHANGED <<strategy, admitted>>
  BY <1>1 DEF RateBounded, Full
<1>2. CASE ResetKey
  BY <1>2, ResetHistory DEF RateBounded
<1>3. ASSUME NEW cost \in Costs, strategy = "token-bucket", ConsumeTokens(cost) PROVE RateBounded'
  <2>1. cost \in Nat \ {0} /\ strategy' = strategy /\ Refilled \in 0..Full /\ Full \in Nat
    BY <1>3, LimiterAssumption, RefillProperties, FullNat DEF ConsumeTokens
  <2>2. UNCHANGED admitted \/ (Refilled >= cost * WindowMs /\ Admitted(cost))
    BY <1>3 DEF ConsumeTokens, Refused
  <2>3. CASE Refilled >= cost * WindowMs /\ Admitted(cost)
    <3>1. cost * WindowMs \in Nat
      BY <2>1, FullNat
    <3>2. cost * WindowMs <= Full
      BY <2>1, <2>3, <3>1
    <3>3. Rate(strategy, cost, 0)
      BY <1>3, <2>1, <3>2, RateAtOnce DEF Strategies
    <3>4. \A i \in DOMAIN admitted : Rate(strategy, Total + cost - admitted[i].before, now - admitted[i].at)
      BY <1>3, <2>1, <2>3, BucketRate
    <3> QED BY <2>1, <2>3, <3>3, <3>4, RateAdmitted
  <2> QED BY <1>1, <2>1, <2>2, <2>3
<1>4. CASE strategy = "sliding-window" /\ ConsumeSliding
  <2>1. 1 \in Nat \ {0} /\ strategy' = strategy
    BY <1>4 DEF ConsumeSliding
  <2>2. UNCHANGED admitted
        \/ \E k \in 0..Len(timestamps) : Expired(k) /\ Len(timestamps) - k < MaxRequests /\ Admitted(1)
    BY <1>4 DEF ConsumeSliding, Refused
  <2>3. ASSUME NEW k \in 0..Len(timestamps), Expired(k), Len(timestamps) - k < MaxRequests, Admitted(1)
        PROVE  RateBounded'
    <3>1. Rate(strategy, 1, 0)
      BY <1>4, <2>1, RateAtOnce DEF Strategies
    <3>2. \A i \in DOMAIN admitted : Rate(strategy, Total + 1 - admitted[i].before, now - admitted[i].at)
      BY <1>4, <2>3, SlidingRate
    <3> QED BY <2>1, <2>3, <3>1, <3>2, RateAdmitted
  <2> QED BY <1>1, <2>1, <2>2, <2>3
<1>5. CASE strategy = "fixed-window" /\ ConsumeFixed
  <2>1. 1 \in Nat \ {0} /\ strategy' = strategy
    BY <1>5 DEF ConsumeFixed
  <2>2. UNCHANGED admitted \/ ((WindowOver \/ count < MaxRequests) /\ Admitted(1))
    BY <1>5 DEF ConsumeFixed, Refused
  <2>3. CASE (WindowOver \/ count < MaxRequests) /\ Admitted(1)
    <3>1. Rate(strategy, 1, 0)
      BY <1>5, <2>1, RateAtOnce DEF Strategies
    <3>2. \A i \in DOMAIN admitted : Rate(strategy, Total + 1 - admitted[i].before, now - admitted[i].at)
      BY <1>5, <2>3, FixedRate
    <3> QED BY <2>1, <2>3, <3>1, <3>2, RateAdmitted
  <2> QED BY <1>1, <2>1, <2>2, <2>3
<1> QED BY <1>1, <1>2, <1>3, <1>4, <1>5, Answers

-------------------------------------------------------------------------------
(* Refusals.                                                                     *)
LEMMA BeforeProperties ==
  ASSUME LimiterTypeOK, Past, NEW i \in 1..Len(admitted) + 1
  PROVE  /\ Before(i) \in Nat /\ Before(i) <= Total /\ Total \in Nat
         /\ (Total - Before(i)) * WindowMs \in Nat
         /\ i \in DOMAIN admitted => Before(i) = admitted[i].before
         /\ i \notin DOMAIN admitted => i = Len(admitted) + 1 /\ Before(i) = Total
<1>1. Total \in Nat /\ Len(admitted) \in Nat /\ DOMAIN admitted = 1..Len(admitted)
  BY TotalNat
<1>2. i \in DOMAIN admitted => /\ admitted[i].before \in Nat /\ admitted[i].cost \in Nat
                               /\ admitted[i].before + admitted[i].cost <= Total
  BY TotalNat DEF Past, Request
<1>3. Before(i) \in Nat /\ Before(i) <= Total
  BY <1>1, <1>2 DEF Before
<1>4. (Total - Before(i)) * WindowMs \in Nat
  <2>1. Total - Before(i) \in Nat
    BY <1>1, <1>3
  <2> QED BY <2>1, FullNat
<1> QED BY <1>1, <1>3, <1>4 DEF Before

(* What flowed in since any time, where the bucket is refilled.                  *)
LEMMA FilledSince ==
  ASSUME LimiterTypeOK, Past, BucketFill, strategy = "token-bucket", rounded' \in Rounding, NEW t \in Int, t <= now
  PROVE  \E i \in 1..Len(admitted) + 1 :
           /\ i \in DOMAIN admitted => admitted[i].at > t
           /\ LET held == Refilled + (Total - Before(i)) * WindowMs
              IN  held > Full \/ (held = Full /\ ~rounded') \/ held >= (now - t) * MaxRequests
<1> DEFINE taken(i) == (Total - Before(i)) * WindowMs
           n == Len(admitted)
           flow == (now - lastRefill) * MaxRequests
           upTo == (lastRefill - t) * MaxRequests
           since == (now - t) * MaxRequests
           Holds(held) == held > Full \/ (held = Full /\ ~rounded') \/ held >= since
<1>1. /\ n \in Nat /\ DOMAIN admitted = 1..n /\ now \in Nat /\ lastRefill \in Nat /\ MaxRequests \in Nat
      /\ level \in 0..Full /\ Full \in Nat /\ flow \in Int
  <2>1. n \in Nat /\ DOMAIN admitted = 1..n
    BY TotalNat
  <2>2. now \in Nat /\ lastRefill \in Nat /\ level \in 0..Full
    BY DEF LimiterTypeOK
  <2> QED BY <2>1, <2>2, FullNat, Distribute
<1>2. since = upTo + flow /\ upTo \in Int /\ since \in Int
  <2>1. now - t = (lastRefill - t) + (now - lastRefill)
    BY <1>1
  <2> QED BY <1>1, <2>1, Distribute
<1>3. \A i \in 1..n + 1 : taken(i) \in Nat
  BY BeforeProperties
<1>4. n + 1 \in 1..n + 1 /\ n + 1 \notin DOMAIN admitted
  BY <1>1
<1>5. \/ ~known /\ Refilled = Full /\ ~rounded'
      \/ known /\ now = lastRefill /\ Refilled = level /\ rounded' = rounded
      \/ known /\ flow > 0 /\ Refilled = level + flow
      \/ known /\ Refilled = Full /\ ~rounded'
  BY RefillRounds
<1>6. CASE Refilled = Full /\ ~rounded'
  <2>1. taken(n + 1) \in Nat
    BY <1>3, <1>4
  <2>2. Holds(Refilled + taken(n + 1))
    <3> HIDE DEF taken, since
    <3> QED BY <1>1, <1>6, <2>1
  <2> QED BY <1>4, <2>2
<1>7. CASE /\ known /\ t <= lastRefill
           /\ \/ now = lastRefill /\ Refilled = level /\ rounded' = rounded
              \/ flow > 0 /\ Refilled = level + flow
  <2>1. PICK i \in 1..n + 1 :
          /\ i \in DOMAIN admitted => admitted[i].at > t
          /\ \/ level + taken(i) > Full
             \/ level + taken(i) = Full /\ ~rounded
             \/ level + taken(i) >= upTo
    BY <1>7 DEF BucketFill
  <2>2. Holds(Refilled + taken(i))
    <3>1. taken(i) \in Nat
      BY <1>3
    <3>2. CASE now = lastRefill /\ Refilled = level /\ rounded' = rounded
      <4>1. since = upTo
        BY <3>2
      <4> HIDE DEF taken, flow, upTo, since
      <4> QED BY <2>1, <3>2, <4>1
    <3>3. CASE flow > 0 /\ Refilled = level + flow
      <4> HIDE DEF taken, flow, upTo, since
      <4> QED BY <1>1, <1>2, <2>1, <3>1, <3>3
    <3> QED BY <1>7, <3>2, <3>3
  <2> QED BY <2>1, <2>2
<1>8. CASE known /\ t > lastRefill /\ Refilled = level + flow
  <2>1. since <= flow /\ taken(n + 1) \in Nat
    BY <1>1, <1>3, <1>4, <1>8, Monotone
  <2>2. Holds(Refilled + taken(n + 1))
    <3> HIDE DEF taken, flow, since
    <3> QED BY <1>1, <1>2, <1>8, <2>1
  <2> QED BY <1>4, <2>2
<1>9. known /\ now = lastRefill => t <= lastRefill
  BY <1>1
<1> QED
  <2>1. t <= lastRefill \/ t > lastRefill
    BY <1>1
  <2> QED BY <1>5, <1>6, <1>7, <1>8, <1>9, <2>1

(* No refill is lost, whether the call that makes it is allowed or not.       *)
LEMMA BucketFillStep ==
  ASSUME LimiterTypeOK, Past, BucketFill, [LimiterNext]_limiterVars
  PROVE  BucketFill'
<1>1. CASE UNCHANGED <<strategy, known, level, lastRefill, rounded, admitted>>
  BY <1>1 DEF BucketFill, Before, Total, Full
<1>2. CASE ResetKey
  BY <1>2 DEF BucketFill, ResetKey
<1>3. ASSUME NEW cost \in Costs, strategy = "token-bucket", ConsumeTokens(cost) PROVE BucketFill'
  <2> DEFINE n == Len(admitted)
             tokens == cost * WindowMs
  <2>1. /\ cost \in Nat \ {0} /\ WindowMs \in Nat /\ n \in Nat /\ DOMAIN admitted = 1..n /\ now \in Nat
        /\ tokens \in Nat /\ Total \in Nat /\ Full \in Nat /\ Refilled \in 0..Full /\ MaxRequests \in Nat
    <3>1. n \in Nat /\ DOMAIN admitted = 1..n /\ Total \in Nat
      BY TotalNat
    <3> QED BY <3>1, LimiterAssumption, FullNat, RefillProperties DEF LimiterTypeOK
  <2>2. lastRefill' = now /\ now' = now /\ Full' = Full
    BY <1>3 DEF ConsumeTokens, Full
  <2>3. SUFFICES ASSUME NEW t \in Int, t <= now
                 PROVE  \E i \in 1..Len(admitted') + 1 :
                          /\ i \in DOMAIN admitted' => admitted'[i].at > t
                          /\ LET held == level' + (Total' - Before(i)') * WindowMs
                             IN  held > Full \/ (held = Full /\ ~rounded') \/ held >= (now - t) * MaxRequests
    BY <2>2 DEF BucketFill
  <2>4. PICK i \in 1..n + 1 :
          /\ i \in DOMAIN admitted => admitted[i].at > t
          /\ LET held == Refilled + (Total - Before(i)) * WindowMs
             IN  held > Full \/ (held = Full /\ ~rounded') \/ held >= (now - t) * MaxRequests
    BY <1>3, <2>3, FilledSince DEF ConsumeTokens
  <2>5. CASE level' = Refilled /\ UNCHANGED admitted
    <3>1. Total' = Total /\ Before(i)' = Before(i)
      BY <2>5 DEF Before, Total
    <3> QED BY <2>4, <2>5, <3>1
  <2>6. CASE Refilled >= tokens /\ level' = Refilled - tokens /\ Admitted(cost)
    <3>1. /\ Len(admitted') = n + 1 /\ DOMAIN admitted' = 1..n + 1 /\ Total' = Total + cost
          /\ \A j \in 1..n : admitted'[j] = admitted[j]
          /\ admitted'[n + 1] = [at |-> now, cost |-> cost, before |-> Total]
      BY <2>1, <2>6, AdmittedGrows
    <3>2. CASE t = now
      <4>1. PICK j \in Nat : j = n + 2
        BY <2>1
      <4>2. j \in 1..Len(admitted') + 1 /\ j \notin DOMAIN admitted'
        BY <2>1, <3>1, <4>1
      <4>3. Before(j)' = Total'
        BY <4>2 DEF Before
      <4>4. Total' - Before(j)' = 0 /\ 0 * WindowMs = 0 /\ now - t = 0 /\ 0 * MaxRequests = 0
        BY <2>1, <3>1, <3>2, <4>3
      <4>5. level' >= 0 /\ level' \in Int
        <5> HIDE DEF tokens
        <5> QED BY <2>1, <2>6
      <4>6. level' + (Total' - Before(j)') * WindowMs >= (now - t) * MaxRequests
        BY <4>4, <4>5
      <4> QED BY <4>2, <4>6
    <3>3. CASE t < now
      <4>1. i \in 1..Len(admitted') + 1 /\ i \in DOMAIN admitted'
        BY <2>1, <3>1
      <4>2. Before(i)' = Before(i) /\ Before(i) \in Nat
        <5>1. Before(i)' = admitted'[i].before
          BY <4>1 DEF Before
        <5>2. CASE i \in 1..n
          BY <2>1, <3>1, <5>1, <5>2, BeforeProperties
        <5>3. CASE i = n + 1
          BY <2>1, <3>1, <5>1, <5>3, BeforeProperties
        <5> QED BY <2>1, <5>2, <5>3
      <4>3. admitted'[i].at > t
        <5>1. CASE i \in 1..n
          BY <2>1, <2>4, <3>1, <5>1
        <5>2. CASE i = n + 1
          BY <2>1, <3>1, <3>3, <5>2
        <5> QED BY <2>1, <5>1, <5>2
      <4>4. level' + (Total' - Before(i)') * WindowMs = Refilled + (Total - Before(i)) * WindowMs
        <5>1. Total' - Before(i)' = (Total - Before(i)) + cost
          BY <2>1, <3>1, <4>2
        <5>2. (Total' - Before(i)') * WindowMs = (Total - Before(i)) * WindowMs + tokens
              /\ (Total - Before(i)) * WindowMs \in Int
          BY <2>1, <4>2, <5>1, Distribute
        <5> HIDE DEF tokens
        <5> QED BY <2>1, <2>6, <5>2
      <4> QED BY <2>4, <4>1, <4>3, <4>4
    <3> QED BY <2>1, <2>3, <3>2, <3>3
  <2> QED BY <1>3, <2>5, <2>6 DEF ConsumeTokens, Refused
<1>4. CASE strategy # "token-bucket" /\ UNCHANGED strategy
  BY <1>4 DEF BucketFill
<1> QED BY <1>1, <1>2, <1>3, <1>4, Answers DEF ConsumeSliding, ConsumeFixed

(* A bucket that refuses gave out what flowed in over the last WindowMs.      *)
LEMMA BucketRefusal ==
  ASSUME LimiterTypeOK, Past, BucketFill, strategy = "token-bucket", rounded' \in Rounding,
         NEW cost \in Nat \ {0}, cost <= MaxRequests, TooFew(cost * WindowMs)
  PROVE  \E i \in DOMAIN admitted : /\ admitted[i].at >= now - WindowMs
                                    /\ Total - admitted[i].before + cost > MaxRequests
<1> DEFINE tokens == cost * WindowMs
           past == now - WindowMs - 1
           taken(i) == (Total - Before(i)) * WindowMs
<1>1. /\ now \in Nat /\ WindowMs \in Nat \ {0} /\ MaxRequests \in Nat \ {0} /\ Full \in Nat /\ Refilled \in 0..Full
      /\ rounded' \in BOOLEAN
  BY LimiterAssumption, FullNat, RefillProperties, RefillRounds DEF LimiterTypeOK
<1>2. past \in Int /\ past <= now /\ (now - past) * MaxRequests > Full
  <2>1. past \in Int /\ past <= now /\ now - past = WindowMs + 1
    BY <1>1
  <2>2. (WindowMs + 1) * MaxRequests = WindowMs * MaxRequests + 1 * MaxRequests
    BY <1>1, Distribute
  <2>3. WindowMs * MaxRequests = Full /\ 1 * MaxRequests = MaxRequests
    BY <1>1, FullNat
  <2> QED BY <1>1, <2>1, <2>2, <2>3
<1>3. PICK i \in 1..Len(admitted) + 1 :
        /\ i \in DOMAIN admitted => admitted[i].at > past
        /\ \/ Refilled + taken(i) > Full
           \/ Refilled + taken(i) = Full /\ ~rounded'
           \/ Refilled + taken(i) >= (now - past) * MaxRequests
  <2> HIDE DEF past
  <2> QED BY <1>2, FilledSince
<1>4. /\ taken(i) \in Nat /\ Before(i) \in Nat /\ Total \in Nat
      /\ Refilled + taken(i) >= Full /\ (Refilled + taken(i) = Full => ~rounded')
  <2>1. taken(i) \in Nat /\ Before(i) \in Nat /\ Total \in Nat /\ (now - past) * MaxRequests \in Int
    BY <1>1, <1>2, BeforeProperties, ProductInt
  <2> HIDE DEF taken, past
  <2> QED BY <1>1, <1>2, <1>3, <2>1
<1>5. tokens <= Full /\ tokens \in Nat
  <2>1. cost * WindowMs <= MaxRequests * WindowMs
    BY <1>1, Monotone
  <2> QED BY <1>1, <2>1 DEF Full
<1>6. Refilled < tokens \/ (Refilled = tokens /\ rounded')
  BY DEF TooFew
<1>7. taken(i) + tokens > Full
  <2> HIDE DEF taken, tokens
  <2> QED BY <1>1, <1>4, <1>5, <1>6
<1>8. i \in DOMAIN admitted
  <2>1. SUFFICES ASSUME i \notin DOMAIN admitted PROVE FALSE
    OBVIOUS
  <2>2. taken(i) = 0
    <3>1. Before(i) = Total
      BY <2>1, BeforeProperties
    <3> QED BY <1>1, <1>4, <3>1
  <2> HIDE DEF taken, tokens
  <2> QED BY <1>5, <1>7, <2>2, FullNat
<1>9. Before(i) = admitted[i].before
  BY <1>8, BeforeProperties
<1>10. (Total - Before(i) + cost) * WindowMs = taken(i) + tokens
  <2>1. Total - Before(i) \in Int
    BY <1>4
  <2> QED BY <1>1, <2>1, Distribute
<1>11. Total - Before(i) + cost > MaxRequests
  <2>1. SUFFICES ASSUME Total - Before(i) + cost <= MaxRequests PROVE FALSE
    BY <1>1, <1>4
  <2>2. (Total - Before(i) + cost) * WindowMs <= MaxRequests * WindowMs
    <3>1. Total - Before(i) + cost \in Int
      BY <1>4
    <3> QED BY <1>1, <2>1, <3>1, Monotone
  <2>3. taken(i) + tokens <= Full
    BY <1>10, <2>2 DEF Full
  <2> HIDE DEF taken, tokens
  <2> QED BY <1>1, <1>4, <1>5, <1>7, <2>3
<1>12. admitted[i].at >= now - WindowMs
  <2>1. admitted[i].at \in Nat
    BY <1>8, RequestProperties
  <2> QED BY <1>1, <1>3, <1>8, <2>1
<1> QED BY <1>8, <1>9, <1>11, <1>12

(* A sliding window that refuses holds MaxRequests unexpired requests.        *)
LEMMA SlidingRefusal ==
  ASSUME LimiterTypeOK, Past, SlidingWindow, strategy = "sliding-window",
         NEW k \in 0..Len(timestamps), Expired(k), Len(timestamps) - k >= MaxRequests
  PROVE  \E i \in DOMAIN admitted : /\ admitted[i].at > now - WindowMs
                                    /\ Total - admitted[i].before + 1 > MaxRequests
<1> DEFINE n == Len(admitted)
           m == Len(timestamps)
           rest == n - m
<1>1. n \in Nat /\ DOMAIN admitted = 1..n /\ m \in Nat /\ rest \in Nat /\ k \in 0..m /\ MaxRequests \in Nat \ {0}
  BY TotalNat, FilterProperties, Filtered, LimiterAssumption
<1>2. m - k >= MaxRequests
  OBVIOUS
<1>3. /\ \A i \in 1..m : timestamps[i] = admitted[rest + i].at
      /\ \A i \in 1..m : i > k => timestamps[i] > now - WindowMs
  BY Filtered
<1>4. Total = n /\ \A i \in DOMAIN admitted : admitted[i].before = i - 1
  BY DEF Past
<1> HIDE DEF n, m
<1>5. k + 1 \in 1..m /\ k + 1 > k /\ rest + (k + 1) \in 1..n
  BY <1>1, <1>2
<1>6. admitted[rest + (k + 1)].at > now - WindowMs
  BY <1>3, <1>5
<1>7. Total - admitted[rest + (k + 1)].before + 1 > MaxRequests
  BY <1>1, <1>2, <1>4, <1>5
<1> QED BY <1>1, <1>5, <1>6, <1>7

(* A fixed window that refuses admitted MaxRequests since it began.           *)
LEMMA FixedRefusal ==
  ASSUME LimiterTypeOK, Past, FixedWindows, strategy = "fixed-window", ~WindowOver, count >= MaxRequests
  PROVE  \E i \in DOMAIN admitted : /\ admitted[i].at > now - WindowMs
                                    /\ Total - admitted[i].before + 1 > MaxRequests
<1> DEFINE n == Len(admitted)
           i == n - count + 1
<1>1. n \in Nat /\ DOMAIN admitted = 1..n /\ MaxRequests \in Nat \ {0} /\ count = MaxRequests
      /\ now \in Nat /\ windowStart \in 0..now /\ WindowMs \in Nat
  BY TotalNat, LimiterAssumption DEF LimiterTypeOK
<1>2. known /\ now - windowStart < WindowMs
  BY <1>1 DEF WindowOver
<1>3. n - count >= 0 /\ \A j \in 1..n : j > n - count => admitted[j].at >= windowStart /\ admitted[j].at \in Nat
  BY <1>1, <1>2, TotalNat DEF FixedWindows, Request
<1>4. Total = n /\ \A j \in DOMAIN admitted : admitted[j].before = j - 1
  BY DEF Past
<1> HIDE DEF n
<1>5. i \in 1..n /\ i > n - count
  BY <1>1, <1>3
<1>6. admitted[i].at > now - WindowMs
  BY <1>1, <1>2, <1>3, <1>5
<1>7. Total - admitted[i].before + 1 > MaxRequests
  BY <1>1, <1>4, <1>5
<1> QED BY <1>1, <1>5, <1>6, <1>7

(* Earlier refusals stay justified: nothing was admitted since.               *)
LEMMA OverLimitRefused ==
  ASSUME LimiterTypeOK, RefusedOverLimit, NEW cost, NEW until, Refused(cost, until), strategy' = strategy,
         \/ cost > MaxRequests
         \/ \E i \in DOMAIN admitted :
              /\ \/ admitted[i].at > now - WindowMs
                 \/ (strategy = "token-bucket" /\ admitted[i].at = now - WindowMs)
              /\ Total - admitted[i].before + cost > MaxRequests
  PROVE  RefusedOverLimit'
<1>1. /\ admitted' = admitted /\ Total' = Total
      /\ refused' = refused \union {[at |-> now, cost |-> cost, until |-> until]}
  BY RefusedGrows
<1>2. ASSUME NEW r \in refused'
      PROVE  \/ r.cost > MaxRequests
             \/ \E i \in DOMAIN admitted :
                  /\ \/ admitted[i].at > r.at - WindowMs
                     \/ (strategy = "token-bucket" /\ admitted[i].at = r.at - WindowMs)
                  /\ Total - admitted[i].before + r.cost > MaxRequests
  <2>1. CASE r \in refused
    BY <2>1 DEF RefusedOverLimit
  <2>2. CASE r = [at |-> now, cost |-> cost, until |-> until]
    <3>1. r.at = now /\ r.cost = cost
      BY <2>2
    <3> QED BY <3>1
  <2> QED BY <1>1, <2>1, <2>2
<1> QED BY <1>1, <1>2 DEF RefusedOverLimit

(* Every refusal of a step is over the limit.                                 *)
LEMMA OverLimitStep ==
  ASSUME LimiterTypeOK, Past, BucketFill, SlidingWindow, FixedWindows, RefusedOverLimit, [LimiterNext]_limiterVars
  PROVE  RefusedOverLimit'
<1>1. CASE UNCHANGED <<strategy, admitted, refused>>
  BY <1>1, Still DEF RefusedOverLimit
<1>2. CASE ResetKey
  BY <1>2, ResetHistory DEF RefusedOverLimit
<1>3. ASSUME NEW cost, Admitted(cost) PROVE RefusedOverLimit'
  BY <1>3 DEF RefusedOverLimit, Admitted
<1>4. ASSUME NEW cost \in Costs, strategy = "token-bucket", ConsumeTokens(cost) PROVE RefusedOverLimit'
  <2>1. cost \in Nat \ {0} /\ MaxRequests \in Nat
    BY LimiterAssumption
  <2>2. ASSUME NEW until, TooFew(cost * WindowMs), Refused(cost, until) PROVE RefusedOverLimit'
    <3>1. strategy' = strategy /\ rounded' \in Rounding
      BY <1>4 DEF ConsumeTokens
    <3>2. CASE cost > MaxRequests
      BY <2>2, <3>1, <3>2, OverLimitRefused
    <3>3. CASE cost <= MaxRequests
      <4>1. PICK i \in DOMAIN admitted : /\ admitted[i].at >= now - WindowMs
                                         /\ Total - admitted[i].before + cost > MaxRequests
        BY <1>4, <2>1, <2>2, <3>1, <3>3, BucketRefusal
      <4>2. admitted[i].at > now - WindowMs \/ admitted[i].at = now - WindowMs
        <5>1. admitted[i].at \in Nat /\ now \in Nat /\ WindowMs \in Nat
          BY RequestProperties, FullNat DEF LimiterTypeOK
        <5> QED BY <4>1, <5>1
      <4> QED BY <1>4, <2>2, <3>1, <4>1, <4>2, OverLimitRefused
    <3> QED BY <2>1, <3>2, <3>3
  <2> QED BY <1>3, <1>4, <2>2 DEF ConsumeTokens
<1>5. CASE strategy = "sliding-window" /\ ConsumeSliding
  <2>1. ASSUME NEW until, NEW k \in 0..Len(timestamps), Expired(k), Len(timestamps) - k >= MaxRequests,
               Refused(1, until)
        PROVE  RefusedOverLimit'
    BY <1>5, <2>1, SlidingRefusal, OverLimitRefused DEF ConsumeSliding
  <2> QED BY <1>3, <1>5, <2>1 DEF ConsumeSliding
<1>6. CASE strategy = "fixed-window" /\ ConsumeFixed
  <2>1. ASSUME NEW until, ~WindowOver, count >= MaxRequests, Refused(1, until)
        PROVE  RefusedOverLimit'
    BY <1>6, <2>1, FixedRefusal, OverLimitRefused DEF ConsumeFixed
  <2> QED BY <1>3, <1>6, <2>1 DEF ConsumeFixed
<1> QED BY <1>1, <1>2, <1>4, <1>5, <1>6, Answers

(* What those refused were promised.                                             *)
LEMMA Waiting ==
  ASSUME LimiterTypeOK, Past, Promised, strategy = "token-bucket", rounded' \in Rounding,
         NEW r \in refused, r.cost <= MaxRequests
  PROVE  \/ Refilled > r.cost * WindowMs
         \/ Refilled = Full /\ ~rounded'
         \/ r.until >= now /\ Refilled + (r.until - now) * MaxRequests >= r.cost * WindowMs
<1> DEFINE tokens == r.cost * WindowMs
           flow == (now - lastRefill) * MaxRequests
           wait == (r.until - lastRefill) * MaxRequests
           left == (r.until - now) * MaxRequests
<1>1. /\ r.cost \in Nat /\ r.until \in Nat /\ now \in Nat /\ lastRefill \in Nat /\ MaxRequests \in Nat \ {0}
      /\ level \in 0..Full /\ Full \in Nat /\ WindowMs \in Nat /\ tokens \in Nat
  <2>1. r.cost \in Nat /\ WindowMs \in Nat
    BY FullNat DEF LimiterTypeOK, Refusal
  <2> QED BY <2>1, FullNat, LimiterAssumption DEF LimiterTypeOK, Refusal
<1>2. \/ now = lastRefill /\ Refilled = level /\ rounded' = rounded
      \/ flow > 0 /\ Refilled = level + flow
      \/ Refilled = Full /\ ~rounded'
  BY RefillRounds DEF Past
<1>3. level > tokens \/ (level = Full /\ ~rounded) \/ (r.until >= lastRefill /\ level + wait >= tokens)
  BY DEF Promised
<1>4. wait = flow + left /\ wait \in Int /\ left \in Int /\ flow \in Int
  <2>1. r.until - lastRefill = (now - lastRefill) + (r.until - now)
    BY <1>1
  <2>2. now - lastRefill \in Int /\ r.until - now \in Int /\ r.until - lastRefill \in Int
    BY <1>1
  <2> QED BY <1>1, <2>1, <2>2, Distribute
<1>5. r.until < now => left < 0
  <2>1. ASSUME r.until < now PROVE left < 0
    <3>1. r.until - now <= -1 /\ r.until - now \in Int /\ (-1) * MaxRequests = -MaxRequests
      BY <1>1, <2>1
    <3>2. left <= (-1) * MaxRequests
      BY <1>1, <3>1, Monotone
    <3> HIDE DEF left
    <3> QED BY <1>1, <1>4, <3>1, <3>2
  <2> QED BY <2>1
<1>6. Refilled \in 0..Full
  BY RefillProperties
<1>7. CASE now = lastRefill /\ Refilled = level /\ rounded' = rounded
  <2>1. left = wait
    BY <1>7
  <2> HIDE DEF tokens, flow, wait, left
  <2>2. Refilled > tokens \/ (Refilled = Full /\ ~rounded') \/ (r.until >= now /\ Refilled + left >= tokens)
    BY <1>3, <1>7, <2>1
  <2> QED BY <2>2 DEF tokens, left
<1>8. CASE flow > 0 /\ Refilled = level + flow
  <2> HIDE DEF tokens, flow, wait, left
  <2>1. Refilled > tokens \/ (r.until >= now /\ Refilled + left >= tokens)
    BY <1>1, <1>3, <1>4, <1>5, <1>6, <1>8
  <2> QED BY <2>1 DEF tokens, left
<1> QED BY <1>2, <1>7, <1>8

(* A call is refused before anyone who asked for as much was told to come back,  *)
(* or, by a bucket, just then.                                                   *)
LEMMA NotYet ==
  ASSUME LimiterTypeOK, Past, Promised, NEW r \in refused, NEW cost \in Nat \ {0},
         cost <= r.cost, r.cost <= MaxRequests,
         \/ strategy = "token-bucket" /\ rounded' \in Rounding /\ TooFew(cost * WindowMs)
         \/ /\ strategy = "sliding-window"
            /\ \E k \in 0..Len(timestamps) : Expired(k) /\ Len(timestamps) - k >= MaxRequests
         \/ strategy = "fixed-window" /\ ~WindowOver
  PROVE  now < r.until \/ (strategy = "token-bucket" /\ now = r.until)
<1>1. /\ r.cost \in Nat /\ r.until \in Nat /\ now \in Nat /\ MaxRequests \in Nat \ {0} /\ WindowMs \in Nat
      /\ windowStart \in Nat
  BY LimiterAssumption DEF LimiterTypeOK, Refusal
<1>2. CASE strategy = "token-bucket" /\ rounded' \in Rounding /\ TooFew(cost * WindowMs)
  <2> DEFINE tokens == r.cost * WindowMs
             mine == cost * WindowMs
             left == (r.until - now) * MaxRequests
  <2>1. mine <= tokens /\ mine \in Nat /\ tokens \in Nat /\ tokens <= Full
    <3>1. tokens <= MaxRequests * WindowMs /\ mine <= tokens
      BY <1>1, Monotone
    <3>2. mine \in Nat /\ tokens \in Nat
      BY <1>1
    <3> QED BY <3>1, <3>2 DEF Full
  <2>2. Refilled \in Nat /\ Full \in Nat
    BY RefillProperties, FullNat
  <2>3. Refilled > tokens \/ (Refilled = Full /\ ~rounded') \/ (r.until >= now /\ Refilled + left >= tokens)
    BY <1>2, Waiting
  <2>4. Refilled < mine \/ (Refilled = mine /\ rounded')
    BY <1>2 DEF TooFew
  <2>5. r.until >= now
    <3> HIDE DEF tokens, mine, left
    <3> QED BY <2>1, <2>2, <2>3, <2>4
  <2> QED BY <1>1, <1>2, <2>5
<1>3. ASSUME strategy = "sliding-window", NEW k \in 0..Len(timestamps), Expired(k), Len(timestamps) - k >= MaxRequests
      PROVE  now < r.until
  <2>1. Len(timestamps) = MaxRequests /\ r.until = timestamps[1] + WindowMs
    BY <1>3 DEF Promised
  <2>2. k = 0 /\ DOMAIN timestamps = 1..Len(timestamps) /\ Len(timestamps) \in Nat
    <3>1. DOMAIN timestamps = 1..Len(timestamps) /\ Len(timestamps) \in Nat
      BY LenProperties DEF LimiterTypeOK
    <3> QED BY <1>1, <1>3, <2>1, <3>1
  <2>3. 1 \in DOMAIN timestamps /\ timestamps[1] \in Nat
    <3>1. 1 \in 1..Len(timestamps)
      BY <1>1, <2>1
    <3>2. timestamps[1] \in 0..now
      BY <3>1, FilterProperties
    <3> QED BY <2>2, <3>1, <3>2
  <2>4. ~(timestamps[1] <= now - WindowMs)
    BY <1>3, <2>2, <2>3 DEF Expired
  <2> QED BY <1>1, <2>1, <2>3, <2>4
<1>4. CASE strategy = "fixed-window" /\ ~WindowOver
  <2>1. r.until = windowStart + WindowMs
    BY <1>4 DEF Promised
  <2>2. now - windowStart < WindowMs
    BY <1>1, <1>4 DEF WindowOver
  <2> QED BY <1>1, <2>1, <2>2
<1> QED BY <1>2, <1>3, <1>4

(* A refusal breaks no promise made before, and makes one for later.          *)
LEMMA KeptRefused ==
  ASSUME LimiterTypeOK, Past, Promised, PromiseKept, NEW cost \in Nat \ {0}, NEW until \in Nat, until > now,
         Refused(cost, until),
         strategy' = strategy,
         \A r \in refused : cost <= r.cost /\ r.cost <= MaxRequests =>
           now < r.until \/ (strategy = "token-bucket" /\ now = r.until)
  PROVE  PromiseKept'
<1> DEFINE new == [at |-> now, cost |-> cost, until |-> until]
<1>1. refused' = refused \union {new} /\ now \in Nat
  BY RefusedGrows DEF LimiterTypeOK
<1>2. new.at = now /\ new.cost = cost /\ new.until = until
  OBVIOUS
<1>3. \A r \in refused : r.at \in Nat /\ r.cost \in Nat /\ r.until \in Nat /\ r.at <= now
  BY DEF LimiterTypeOK, Refusal, Past
<1> HIDE DEF new
<1>4. SUFFICES ASSUME NEW r \in refused \union {new}, NEW again \in refused \union {new},
                      again.cost <= r.cost, r.cost <= MaxRequests
               PROVE  again.at < r.until \/ (strategy = "token-bucket" /\ again.at = r.until)
  BY <1>1 DEF PromiseKept
<1>5. CASE r \in refused /\ again \in refused
  BY <1>4, <1>5 DEF PromiseKept
<1>6. CASE r \in refused /\ again = new
  BY <1>2, <1>4, <1>6
<1>7. CASE r = new
  <2>1. again.at <= now /\ again.at \in Nat
    BY <1>1, <1>2, <1>3
  <2> QED BY <1>1, <1>2, <1>7, <2>1
<1> QED BY <1>5, <1>6, <1>7

(* The bucket refills as its promises count on, also when it refuses.         *)
LEMMA BucketPromise ==
  ASSUME LimiterTypeOK, Past, Promised, PromiseKept, strategy = "token-bucket",
         NEW cost \in Costs, ConsumeTokens(cost)
  PROVE  Promised' /\ PromiseKept'
<1> DEFINE tokens == cost * WindowMs
<1>1. /\ cost \in Nat \ {0} /\ tokens \in Nat /\ now \in Nat /\ MaxRequests \in Nat \ {0}
      /\ Refilled \in Nat /\ WindowMs \in Nat
  BY LimiterAssumption, RefillProperties, FullNat DEF LimiterTypeOK
<1>2. strategy' = "token-bucket" /\ lastRefill' = now /\ known' = TRUE /\ rounded' \in Rounding /\ Full' = Full
  BY DEF ConsumeTokens, Full
<1>3. CASE Admitted(cost)
  BY <1>3 DEF Promised, PromiseKept, Admitted
<1>4. ASSUME TooFew(tokens), level' = Refilled,
             NEW wait \in 0..tokens + 1, IsWait(wait, tokens - Refilled), Refused(cost, now + wait)
      PROVE  Promised' /\ PromiseKept'
  <2> DEFINE new == [at |-> now, cost |-> cost, until |-> now + wait]
  <2>1. wait \in Nat /\ wait * MaxRequests >= tokens - Refilled
    BY <1>1, <1>4 DEF IsWait
  <2>2. wait > 0
    BY <2>1, <1>4 DEF IsWait
  <2>3. refused' = refused \union {new} /\ now + wait \in Nat /\ now + wait > now
    BY <1>1, <1>4, <2>1, <2>2, RefusedGrows
  <2>4. PromiseKept'
    BY <1>1, <1>2, <1>4, <2>3, NotYet, KeptRefused
  <2>5. ASSUME NEW r \in refused
        PROVE  /\ r.until > r.at
               /\ r.cost <= MaxRequests =>
                    \/ level' > r.cost * WindowMs
                    \/ level' = Full /\ ~rounded'
                    \/ r.until >= now /\ level' + (r.until - now) * MaxRequests >= r.cost * WindowMs
    BY <1>2, <1>4, Waiting DEF Promised
  <2>6. /\ new.until > new.at
        /\ new.until >= now /\ level' + (new.until - now) * MaxRequests >= new.cost * WindowMs
    <3>1. new.at = now /\ new.cost = cost /\ new.until = now + wait /\ new.until - now = wait
      BY <1>1, <2>1
    <3>2. Refilled + wait * MaxRequests >= tokens
      <4>1. wait * MaxRequests \in Nat
        BY <1>1, <2>1
      <4> HIDE DEF tokens
      <4> QED BY <1>1, <2>1, <4>1
    <3> QED BY <1>1, <1>4, <2>1, <2>3, <3>1, <3>2
  <2> HIDE DEF new
  <2> QED BY <1>2, <2>3, <2>4, <2>5, <2>6 DEF Promised
<1> QED BY <1>3, <1>4 DEF ConsumeTokens

(* A sliding window that refuses drops nothing: the oldest stays.             *)
LEMMA SlidingPromise ==
  ASSUME LimiterTypeOK, Past, Promised, PromiseKept, strategy = "sliding-window", ConsumeSliding
  PROVE  Promised' /\ PromiseKept'
<1>1. 1 \in Nat \ {0} /\ strategy' = "sliding-window" /\ MaxRequests \in Nat \ {0} /\ now \in Nat /\ WindowMs \in Nat
  BY LimiterAssumption DEF ConsumeSliding, LimiterTypeOK
<1>2. CASE Admitted(1)
  BY <1>2 DEF Promised, PromiseKept, Admitted
<1>3. ASSUME NEW k \in 0..Len(timestamps), Expired(k), Len(timestamps) - k >= MaxRequests,
             timestamps' = Unexpired(k), Refused(1, timestamps[k + 1] + WindowMs)
      PROVE  Promised' /\ PromiseKept'
  <2>1. /\ Len(timestamps) \in Nat /\ Len(timestamps) <= MaxRequests /\ k \in Nat
        /\ DOMAIN timestamps = 1..Len(timestamps)
    BY FilterProperties, LenProperties DEF LimiterTypeOK
  <2>2. k = 0 /\ Len(timestamps) = MaxRequests /\ 1 \in 1..Len(timestamps)
    <3> DEFINE m == Len(timestamps)
    <3>1. m - k >= MaxRequests /\ m <= MaxRequests /\ m \in Nat /\ k \in Nat /\ MaxRequests \in Nat \ {0}
      BY <1>1, <1>3, <2>1
    <3> HIDE DEF m
    <3>2. k = 0 /\ m = MaxRequests /\ 1 \in 1..m
      BY <3>1
    <3> QED BY <3>2 DEF m
  <2>3. timestamps[1] \in Nat /\ timestamps[1] > now - WindowMs
    <3>1. timestamps[1] \in 0..now
      BY <2>2, FilterProperties
    <3>2. ~(timestamps[1] <= now - WindowMs)
      BY <1>3, <2>1, <2>2 DEF Expired
    <3> QED BY <1>1, <3>1, <3>2
  <2>4. Len(timestamps') = MaxRequests /\ timestamps'[1] = timestamps[1]
    <3>1. /\ Len(Unexpired(k)) = Len(timestamps) - k
          /\ \A i \in 1..Len(timestamps) - k : Unexpired(k)[i] = timestamps[k + i]
      BY FilterProperties
    <3> QED BY <1>3, <2>1, <2>2, <3>1
  <2> DEFINE until == timestamps[1] + WindowMs
             new == [at |-> now, cost |-> 1, until |-> until]
  <2>5. until \in Nat /\ until > now /\ Refused(1, until) /\ refused' = refused \union {new}
    BY <1>1, <1>3, <2>2, <2>3, RefusedGrows
  <2>6. PromiseKept'
    <3>1. \A r \in refused : 1 <= r.cost /\ r.cost <= MaxRequests =>
            now < r.until \/ (strategy = "token-bucket" /\ now = r.until)
      BY <1>1, <1>3, NotYet
    <3> HIDE DEF until
    <3> QED BY <1>1, <2>5, <3>1, KeptRefused
  <2>7. \A r \in refused : r.until > r.at /\ r.until = timestamps[1] + WindowMs
    BY DEF Promised
  <2>8. new.until = until /\ new.at = now
    OBVIOUS
  <2> HIDE DEF new
  <2> QED BY <1>1, <2>4, <2>5, <2>6, <2>7, <2>8 DEF Promised
<1> QED BY <1>2, <1>3 DEF ConsumeSliding

(* A fixed window that refuses goes on till its end.                          *)
LEMMA FixedPromise ==
  ASSUME LimiterTypeOK, Past, Promised, PromiseKept, strategy = "fixed-window", ConsumeFixed
  PROVE  Promised' /\ PromiseKept'
<1>1. /\ 1 \in Nat \ {0} /\ strategy' = "fixed-window" /\ MaxRequests \in Nat \ {0} /\ now \in Nat /\ WindowMs \in Nat
      /\ windowStart \in 0..now /\ count \in 0..MaxRequests /\ known' = TRUE
  BY LimiterAssumption DEF ConsumeFixed, LimiterTypeOK
<1>2. CASE Admitted(1)
  BY <1>2 DEF Promised, PromiseKept, Admitted
<1>3. CASE ~WindowOver /\ count >= MaxRequests /\ Refused(1, windowStart + WindowMs) /\ UNCHANGED <<count, windowStart>>
  <2> DEFINE until == windowStart + WindowMs
             new == [at |-> now, cost |-> 1, until |-> until]
  <2>1. until \in Nat /\ until > now
    BY <1>1, <1>3 DEF WindowOver
  <2>2. refused' = refused \union {new} /\ count' = MaxRequests
    BY <1>1, <1>3, RefusedGrows
  <2>3. PromiseKept'
    <3>1. \A r \in refused : 1 <= r.cost /\ r.cost <= MaxRequests =>
            now < r.until \/ (strategy = "token-bucket" /\ now = r.until)
      BY <1>1, <1>3, NotYet
    <3>2. Refused(1, until)
      BY <1>3
    <3> HIDE DEF until
    <3> QED BY <1>1, <2>1, <3>1, <3>2, KeptRefused
  <2>4. \A r \in refused : r.until > r.at /\ r.until = windowStart + WindowMs
    BY DEF Promised
  <2>5. new.until = until /\ new.at = now
    OBVIOUS
  <2> HIDE DEF new
  <2> QED BY <1>1, <1>3, <2>1, <2>2, <2>3, <2>4, <2>5 DEF Promised
<1> QED BY <1>2, <1>3 DEF ConsumeFixed, counter

(* The promises are kept by every step.                                       *)
LEMMA PromiseStep ==
  ASSUME LimiterTypeOK, Past, Promised, PromiseKept, [LimiterNext]_limiterVars
  PROVE  Promised' /\ PromiseKept'
<1>1. CASE UNCHANGED <<strategy, known, level, lastRefill, rounded, timestamps, count, windowStart, refused>>
  BY <1>1 DEF Promised, PromiseKept, Full
<1>2. CASE ResetKey
  BY <1>2, ResetHistory DEF Promised, PromiseKept
<1> QED BY <1>1, <1>2, BucketPromise, SlidingPromise, FixedPromise, Answers

-------------------------------------------------------------------------------
LimiterInv ==
  /\ LimiterTypeOK /\ Past
  /\ BucketFlow /\ SlidingWindow /\ FixedWindows /\ RateBounded
  /\ BucketFill /\ RefusedOverLimit
  /\ Promised /\ PromiseKept

LEMMA LimiterInvInit == LimiterInit => LimiterInv
<1> SUFFICES ASSUME LimiterInit PROVE LimiterInv
  OBVIOUS
<1>1. LimiterTypeOK /\ admitted = <<>> /\ refused = {} /\ ~known /\ timestamps = <<>>
  BY LimiterTypeInit DEF LimiterInit
<1>2. DOMAIN admitted = {} /\ Len(admitted) = 0 /\ DOMAIN timestamps = {} /\ Len(timestamps) = 0 /\ Total = 0
  <2>1. Len(admitted) = 0 /\ Len(timestamps) = 0
    BY <1>1, EmptySeq
  <2> QED BY <1>1, <2>1, TotalNat, LenProperties DEF LimiterTypeOK
<1>3. Past
  BY <1>1, <1>2 DEF Past
<1>4. BucketFlow /\ FixedWindows /\ RateBounded /\ BucketFill
  BY <1>1, <1>2 DEF BucketFlow, FixedWindows, RateBounded, BucketFill
<1>5. SlidingWindow
  BY <1>2 DEF SlidingWindow
<1>6. RefusedOverLimit /\ Promised /\ PromiseKept
  BY <1>1 DEF RefusedOverLimit, Promised, PromiseKept
<1> QED BY <1>1, <1>3, <1>4, <1>5, <1>6 DEF LimiterInv

(* Together they are inductive.                                               *)
LEMMA LimiterInvStep == LimiterInv /\ [LimiterNext]_limiterVars => LimiterInv'
BY LimiterTypeStep, PastStep, BucketFlowStep, SlidingWindowStep, FixedWindowsStep, RateStep,
   BucketFillStep, OverLimitStep, PromiseStep
   DEF LimiterInv

LEMMA LimiterSafety == LimiterSpec => []LimiterInv
BY LimiterInvInit, LimiterInvStep, PTL DEF LimiterSpec

(* From any request that was allowed to any later one, no limiter lets through   *)
(* more than its rate, for every limit, window and set of costs and however long *)
(* the clock runs.                                                               *)
THEOREM RateTheorem == LimiterSpec => []RateBounded
<1>1. LimiterInv => RateBounded
  BY DEF LimiterInv
<1> QED BY <1>1, LimiterSafety, PTL

(* Nobody is refused who was not over the limit of the last windowMs, to which   *)
(* the first instant belongs for a bucket, however its sums are rounded.         *)
THEOREM RefusalTheorem == LimiterSpec => []RefusedOverLimit
<1>1. LimiterInv => RefusedOverLimit
  BY DEF LimiterInv
<1> QED BY <1>1, LimiterSafety, PTL

(* The time a refusal tells is late enough to come back, for a bucket whose sums *)
(* are rounded one tick after it.                                                *)
THEOREM PromiseTheorem == LimiterSpec => []PromiseKept
<1>1. LimiterInv => PromiseKept
  BY DEF LimiterInv
<1> QED BY <1>1, LimiterSafety, PTL
===============================================================================
