----------------------------- MODULE CircuitBreaker -----------------------------
(***************************************************************************)
(* The circuit breaker of packages/kernel/src/resilience/circuit-breaker.ts *)
(* with several calls in flight at once.  A call that started in one state *)
(* of the breaker may settle in another: onSuccess() and onFailure() look  *)
(* at the state they find, not at the one the call started in.             *)
(*                                                                         *)
(* Time is one fact, `cooled`: Date.now() >= nextAttempt.  Opening makes   *)
(* it false, the passing of resetTimeout makes it true.  The metrics       *)
(* (numbers of calls, last times) and the onStateChange callback are left   *)
(* out: no decision reads them.                                            *)
(***************************************************************************)
EXTENDS Naturals

CONSTANTS Calls,             \* the places of calls in flight; a place is reused
          FailureThreshold,  \* options.failureThreshold
          SuccessThreshold   \* options.successThreshold

ASSUME ThresholdsAssumption ==
  /\ FailureThreshold \in Nat \ {0}
  /\ SuccessThreshold \in Nat \ {0}

VARIABLES
  state,         \* this.state
  failureCount,  \* this.failureCount, saturated at FailureThreshold
  successCount,  \* this.successCount
  cooled,        \* Date.now() >= this.nextAttempt
  inFlight,      \* the calls inside executeWithTimeout()
  streak         \* history: failures in a row in this CLOSED period, saturated

vars == <<state, failureCount, successCount, cooled, inFlight, streak>>

States == {"CLOSED", "OPEN", "HALF_OPEN"}

(* The counters are only compared with the threshold, so they stop there.   *)
Bump(n) == IF n < FailureThreshold THEN n + 1 ELSE n

Init ==
  /\ state = "CLOSED"
  /\ failureCount = 0
  /\ successCount = 0
  /\ cooled = TRUE
  /\ inFlight = {}
  /\ streak = 0

(* transitionTo(): opening sets nextAttempt. *)
TransitionTo(new) == state' = new /\ cooled' = (cooled /\ new # "OPEN")

NoTransition == UNCHANGED <<state, cooled>>

(* execute() of an open breaker before nextAttempt: rejected at once. *)
Reject ==
  /\ state = "OPEN" /\ ~cooled
  /\ NoTransition
  /\ UNCHANGED <<failureCount, successCount, inFlight, streak>>

(* Mutant: a cooled breaker lets the call through without HALF_OPEN. *)
StartWithoutProbing(c) ==
  /\ c \notin inFlight
  /\ state = "OPEN" => cooled
  /\ NoTransition
  /\ inFlight' = inFlight \union {c}
  /\ UNCHANGED <<failureCount, successCount, streak>>

(* execute() that lets the call through; the first after the cooling        *)
(* period turns the breaker to HALF_OPEN.                                   *)
Start(c) ==
  /\ c \notin inFlight
  /\ state = "OPEN" => cooled
  /\ IF state = "OPEN" THEN TransitionTo("HALF_OPEN") ELSE NoTransition
  /\ inFlight' = inFlight \union {c}
  /\ UNCHANGED <<failureCount, successCount, streak>>

(* Mutants of onSuccess(): the failure count survives a success; a success  *)
(* counts whatever the state; one success too many is asked for.            *)
OnSuccessKeepsFailures ==
  /\ UNCHANGED failureCount
  /\ IF state = "HALF_OPEN" /\ successCount + 1 >= SuccessThreshold
     THEN TransitionTo("CLOSED") /\ successCount' = 0
     ELSE NoTransition /\ successCount' = IF state = "HALF_OPEN" THEN successCount + 1 ELSE successCount

OnSuccessInAnyState ==
  /\ failureCount' = 0
  /\ IF state # "CLOSED" /\ successCount + 1 >= SuccessThreshold
     THEN TransitionTo("CLOSED") /\ successCount' = 0
     ELSE NoTransition /\ successCount' = IF state # "CLOSED" THEN successCount + 1 ELSE successCount

OnSuccessOffByOne ==
  /\ failureCount' = 0
  /\ IF state = "HALF_OPEN" /\ successCount + 1 > SuccessThreshold
     THEN TransitionTo("CLOSED") /\ successCount' = 0
     ELSE NoTransition /\ successCount' = IF state = "HALF_OPEN" THEN successCount + 1 ELSE successCount

(* onSuccess() *)
OnSuccess ==
  /\ failureCount' = 0
  /\ IF state = "HALF_OPEN" /\ successCount + 1 >= SuccessThreshold
     THEN TransitionTo("CLOSED") /\ successCount' = 0
     ELSE NoTransition /\ successCount' = IF state = "HALF_OPEN" THEN successCount + 1 ELSE successCount

(* onFailure() *)
OnFailure ==
  /\ failureCount' = Bump(failureCount)
  /\ IF state = "HALF_OPEN" \/ failureCount' >= FailureThreshold
     THEN TransitionTo("OPEN")
     ELSE NoTransition
  /\ successCount' = IF state = "HALF_OPEN" THEN 0 ELSE successCount

(* The wrapped function resolves before callTimeout. *)
Succeed(c) ==
  /\ c \in inFlight
  /\ inFlight' = inFlight \ {c}
  /\ OnSuccess
  /\ streak' = 0

(* The wrapped function rejects, or callTimeout passes first; what the      *)
(* function answers after that changes nothing, its promise is settled.     *)
Fail(c) ==
  /\ c \in inFlight
  /\ inFlight' = inFlight \ {c}
  /\ OnFailure
  /\ streak' = IF state = "CLOSED" /\ state' = "CLOSED" THEN Bump(streak) ELSE 0

(* resetTimeout has passed since the breaker last opened. *)
Cool ==
  /\ state = "OPEN" /\ ~cooled
  /\ cooled' = TRUE
  /\ UNCHANGED <<state, failureCount, successCount, inFlight, streak>>

(* reset(): the calls in flight go on. *)
Reset ==
  /\ state' = "CLOSED"
  /\ failureCount' = 0
  /\ successCount' = 0
  /\ cooled' = TRUE
  /\ streak' = 0
  /\ UNCHANGED inFlight

Settle(c) == Succeed(c) \/ Fail(c)
Next ==
  \/ Reject \/ Cool \/ Reset
  \/ \E c \in Calls : Start(c) \/ Settle(c)

Spec == Init /\ [][Next]_vars

(* Timers run out (the cooling period, and the callTimeout that settles a   *)
(* call whose function hangs), and clients go on calling.  Nobody need ever *)
(* call reset().                                                            *)
Fairness ==
  /\ WF_vars(Cool)
  /\ \A c \in Calls : WF_vars(Settle(c))
  /\ WF_vars(\E c \in Calls : Start(c))
FairSpec == Spec /\ Fairness

-------------------------------------------------------------------------------
(* Types: both counters stay below the thresholds they are compared with. *)
TypeOK ==
  /\ state \in States
  /\ failureCount \in 0..FailureThreshold
  /\ successCount \in 0..(SuccessThreshold - 1)
  /\ cooled \in BOOLEAN
  /\ inFlight \subseteq Calls
  /\ streak \in 0..FailureThreshold

(* A closed breaker has seen fewer failures in a row than the threshold:    *)
(* no failure of a call that outlived a trip or a reset is carried into a   *)
(* CLOSED period without opening it.                                        *)
ClosedBelowThreshold ==
  state = "CLOSED" => failureCount < FailureThreshold /\ failureCount = streak

(* Successes are counted only while HALF_OPEN: each probing period starts   *)
(* from zero, so successes of different periods never add up to a closing.  *)
ProbingStartsFromZero == state # "HALF_OPEN" => successCount = 0

(* While the breaker is closed or probing, no cooling period is running:    *)
(* a breaker never leaves OPEN early, also when failures of calls that      *)
(* started before the trip come in while it is open.                        *)
NeverLeavesOpenEarly == state # "OPEN" => cooled

(* What one period of the breaker has counted or timed is not carried into  *)
(* another: whatever the calls in flight answer and whenever reset() comes, *)
(* the failures counted are those of this CLOSED period, the successes      *)
(* those of this probing period, and the cooling period ends with OPEN.     *)
NothingCarriedOver ==
  ClosedBelowThreshold /\ ProbingStartsFromZero /\ NeverLeavesOpenEarly

(* Only a probing breaker closes, or one that is reset; an open one does    *)
(* not, whatever the calls still in flight answer, and a closed one never   *)
(* starts probing.                                                          *)
LegalTransition ==
  /\ state' = "CLOSED" /\ state # "CLOSED" => state = "HALF_OPEN" \/ Reset
  /\ state' = "HALF_OPEN" /\ state # "HALF_OPEN" => state = "OPEN"

(* A trip from CLOSED is earned by FailureThreshold failures in a row since *)
(* the breaker last closed.                                                 *)
TripIsEarned ==
  state = "CLOSED" /\ state' = "OPEN" => streak + 1 >= FailureThreshold

(* Every transition of the breaker is a legal one, and a trip is earned by  *)
(* failures of the CLOSED period it ends, however calls overlap.            *)
TransitionsEarned == [][LegalTransition /\ TripIsEarned]_vars

(* If failures cease the breaker closes for good: stragglers cannot hold it *)
(* open, nor a half-open breaker that nobody finishes probing.              *)
Recovers ==
  <>[][~\E c \in Calls : Fail(c)]_vars => <>[](state = "CLOSED")
===============================================================================
