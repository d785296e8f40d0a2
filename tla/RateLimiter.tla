------------------------------ MODULE RateLimiter ------------------------------
(***************************************************************************)
(* The three limiters of packages/kernel/src/resilience/rate-limiter.ts,   *)
(* one of which createRateLimiter() makes.  consume() awaits nothing, so a  *)
(* call is one step; what is hard is time, which passes between calls, and *)
(* the boundaries of windows.  Keys share nothing: one stands for all.     *)
(*                                                                         *)
(* The clock never goes back.  The tokens of a bucket, a fraction, are     *)
(* counted in units of 1/WindowMs: `level` is what exact arithmetic would  *)
(* give.  The code adds rounded floats instead and may end a little below  *)
(* or above: `rounded` says that it may, and then a comparison of equal    *)
(* numbers may come out either way.  What the roundings since the bucket   *)
(* was last full add up to is taken to be less than one unit.              *)
(*                                                                         *)
(* The numbers `limit` and `remaining` of an answer, the callback and the  *)
(* middleware, which only passes the answer on, are left out.              *)
(***************************************************************************)
EXTENDS Integers, Sequences

CONSTANTS
  MaxRequests, WindowMs,  \* the options
  Costs,                  \* the numbers of tokens asked of a bucket
  MaxTime                 \* bound on the clock

ASSUME LimiterAssumption ==
  /\ MaxRequests \in Nat \ {0} /\ WindowMs \in Nat \ {0}
  /\ Costs \subseteq Nat \ {0}
  /\ MaxTime \in Nat

VARIABLES
  strategy,             \* options.strategy
  now,                  \* Date.now()
  known,                \* the map of the limiter has an entry for the key
  level, lastRefill,    \* the bucket of a token bucket
  rounded,              \* the tokens of the bucket are a sum of rounded numbers
  timestamps,           \* the timestamps of a sliding window
  count, windowStart,   \* the counter of a fixed window
  admitted,  \* history: the requests allowed since the last reset, in order, with
             \* their costs and the sum of the costs before
  refused    \* history: the requests refused since the last that was allowed, or
             \* reset, and the times at which they were told to come back

bucket == <<level, lastRefill, rounded>>
counter == <<count, windowStart>>
limiterVars == <<strategy, now, known, bucket, timestamps, counter, admitted, refused>>

Strategies == {"token-bucket", "sliding-window", "fixed-window"}
Full == MaxRequests * WindowMs

LimiterInit ==
  /\ strategy \in Strategies
  /\ now = 0 /\ known = FALSE
  /\ level = Full /\ lastRefill = 0 /\ rounded = FALSE
  /\ timestamps = <<>>
  /\ count = 0 /\ windowStart = 0
  /\ admitted = <<>> /\ refused = {}

-------------------------------------------------------------------------------
Total == IF admitted = <<>> THEN 0 ELSE LET last == admitted[Len(admitted)] IN last.before + last.cost

(* The two answers; a refusal carries resetMs, here the time it points at. *)
Admitted(cost) ==
  /\ admitted' = Append(admitted, [at |-> now, cost |-> cost, before |-> Total])
  /\ refused' = {}

Refused(cost, until) ==
  /\ refused' = refused \union {[at |-> now, cost |-> cost, until |-> until]}
  /\ UNCHANGED admitted

(* Mutant: the bucket overflows. *)
RefilledUncapped == IF known THEN level + (now - lastRefill) * MaxRequests ELSE Full

Filled == level + (now - lastRefill) * MaxRequests

(* The level after the refill; a bucket that is new is full. *)
Refilled == IF known /\ Filled < Full THEN Filled ELSE Full

(* Whether the refill leaves a rounded sum: a bucket that is new, or capped by  *)
(* Math.min(), holds maxRequests exactly, and adding 0 changes nothing.         *)
Rounding ==
  IF ~known THEN {FALSE}
  ELSE IF now = lastRefill THEN {rounded}
  ELSE {inexact \in BOOLEAN : (Filled < Full => inexact) /\ (Filled > Full => ~inexact)}

(* After the refill the bucket holds less than `tokens`, perhaps by a rounding. *)
TooFew(tokens) == Refilled < tokens \/ (Refilled = tokens /\ rounded')

(* Mutant: Math.floor(). *)
IsFloor(wait, missing) == wait * MaxRequests <= missing /\ (wait + 1) * MaxRequests >= missing

(* Math.ceil((tokens - bucket.tokens) / refillRate): a quotient that is a whole *)
(* number may be rounded up to the next; something, if little, is missing.      *)
IsWait(wait, missing) ==
  wait >= 1 /\ wait * MaxRequests >= missing /\ (wait - 1) * MaxRequests <= missing

(* Mutant: a refusal does not move lastRefill. *)
ConsumeTokensRefilledTwice(cost) ==
  /\ strategy = "token-bucket"
  /\ known' = TRUE /\ rounded' \in Rounding
  /\ LET tokens == cost * WindowMs IN
     \/ Refilled >= tokens /\ level' = Refilled - tokens /\ lastRefill' = now /\ Admitted(cost)
     \/ /\ TooFew(tokens)
        /\ level' = Refilled /\ UNCHANGED lastRefill
        /\ \E wait \in 0..tokens + 1 : IsWait(wait, tokens - Refilled) /\ Refused(cost, now + wait)
  /\ UNCHANGED <<strategy, now, timestamps, counter>>

ConsumeTokens(cost) ==
  /\ strategy = "token-bucket"
  /\ known' = TRUE /\ lastRefill' = now /\ rounded' \in Rounding
  /\ LET tokens == cost * WindowMs IN
     \/ Refilled >= tokens /\ level' = Refilled - tokens /\ Admitted(cost)
     \/ /\ TooFew(tokens)
        /\ level' = Refilled
        /\ \E wait \in 0..tokens + 1 : IsWait(wait, tokens - Refilled) /\ Refused(cost, now + wait)
  /\ UNCHANGED <<strategy, now, timestamps, counter>>

(* The filter drops the first k timestamps, which are in order. *)
Expired(k) == \A i \in DOMAIN timestamps : i <= k <=> timestamps[i] <= now - WindowMs
Unexpired(k) == SubSeq(timestamps, k + 1, Len(timestamps))

ConsumeSliding ==
  /\ strategy = "sliding-window"
  /\ \E k \in 0..Len(timestamps) :
       /\ Expired(k)
       /\ \/ /\ Len(timestamps) - k < MaxRequests
             /\ timestamps' = Append(Unexpired(k), now)
             /\ Admitted(1)
          \/ /\ Len(timestamps) - k >= MaxRequests
             /\ timestamps' = Unexpired(k)
             /\ Refused(1, timestamps[k + 1] + WindowMs)
  /\ UNCHANGED <<strategy, now, known, bucket, counter>>

(* Mutant: a window lasts one tick longer. *)
WindowOverLate == ~known \/ now - windowStart > WindowMs
WindowOver == ~known \/ now - windowStart >= WindowMs

ConsumeFixed ==
  /\ strategy = "fixed-window"
  /\ known' = TRUE
  /\ \/ WindowOver /\ windowStart' = now /\ count' = 1 /\ Admitted(1)
     \/ ~WindowOver /\ count < MaxRequests /\ count' = count + 1 /\ Admitted(1) /\ UNCHANGED windowStart
     \/ /\ ~WindowOver /\ count >= MaxRequests
        /\ Refused(1, windowStart + WindowMs)
        /\ UNCHANGED counter
  /\ UNCHANGED <<strategy, now, bucket, timestamps>>

(* reset() and resetAll() *)
ResetKey ==
  /\ known' = FALSE /\ timestamps' = <<>>
  /\ admitted' = <<>> /\ refused' = {}
  /\ UNCHANGED <<strategy, now, bucket, counter>>

Tick ==
  /\ now < MaxTime
  /\ now' = now + 1
  /\ UNCHANGED <<strategy, known, bucket, timestamps, counter, admitted, refused>>

LimiterNext ==
  \/ Tick \/ ResetKey
  \/ \E cost \in Costs : ConsumeTokens(cost)
  \/ ConsumeSliding \/ ConsumeFixed

LimiterSpec == LimiterInit /\ [][LimiterNext]_limiterVars

-------------------------------------------------------------------------------
Request == [at : Nat, cost : Nat \ {0}, before : Nat]
Refusal == [at : Nat, cost : Nat \ {0}, until : Nat]

(* Types and limits: a bucket never overflows, no window holds more than it may. *)
LimiterTypeOK ==
  /\ strategy \in Strategies /\ known \in BOOLEAN
  /\ now \in 0..MaxTime /\ lastRefill \in 0..now /\ windowStart \in 0..now
  /\ level \in 0..Full /\ rounded \in BOOLEAN
  /\ timestamps \in Seq(0..now) /\ Len(timestamps) <= MaxRequests
  /\ count \in 0..MaxRequests
  /\ admitted \in Seq(Request) /\ refused \subseteq Refusal

(* What was allowed from one request to a later one, both included, keeps to    *)
(* the rate, wherever windows begin and however refusals, idle times and        *)
(* partial refills lie between: a bucket gives no more than its capacity and    *)
(* what flows in meanwhile; a sliding window no more than MaxRequests in any    *)
(* stretch shorter than the window; a fixed window up to twice as many, in a    *)
(* stretch that reaches over a boundary, but never more.                        *)
RateBounded ==
  \A i, j \in DOMAIN admitted :
    LET spent == admitted[j].before + admitted[j].cost - admitted[i].before
        span == admitted[j].at - admitted[i].at
    IN  i <= j =>
          /\ strategy = "token-bucket" => spent * WindowMs <= Full + span * MaxRequests
          /\ strategy = "sliding-window" /\ spent > MaxRequests => span >= WindowMs
          /\ strategy = "fixed-window" /\ spent > 2 * MaxRequests => span > WindowMs

(* The other way round, nobody is refused without need: with a refused request  *)
(* more than MaxRequests would have been spent in the last WindowMs, to which   *)
(* its first instant belongs for a bucket, whose tokens may fall short of a     *)
(* whole one by a rounding, and not for a window.                               *)
RefusedOverLimit ==
  \A r \in refused :
    \/ r.cost > MaxRequests
    \/ \E i \in DOMAIN admitted :
         /\ \/ admitted[i].at > r.at - WindowMs
            \/ (strategy = "token-bucket" /\ admitted[i].at = r.at - WindowMs)
         /\ Total - admitted[i].before + r.cost > MaxRequests

(* resetMs is kept, to the rounding: who was refused and comes back at the time *)
(* told, asking for no more, is not refused again unless another was allowed in *)
(* between; at a bucket the same holds one tick later, for what is exactly      *)
(* enough may be refused.                                                       *)
PromiseKept ==
  \A r, again \in refused :
    again.cost <= r.cost /\ r.cost <= MaxRequests =>
      again.at < r.until \/ (strategy = "token-bucket" /\ again.at = r.until)
===============================================================================
