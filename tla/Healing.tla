-------------------------------- MODULE Healing --------------------------------
(***************************************************************************)
(* The self-healing orchestrator, workers/orchestrator/src/index.ts: health *)
(* reports, detection, the plans made for anomalies, their approval and    *)
(* execution.  A handler runs until it waits: a pass of /cron/5minutes and *)
(* a call of /healing/:id/execute wait while the steps of a plan run, and   *)
(* two passes may overlap.                                                  *)
(*                                                                         *)
(* A kind is an anomaly type of a service; an anomaly is numbered in the   *)
(* order of the store, and a plan (RemediationAction) by its anomaly and   *)
(* its place among the plans made for it.  Left out: metrics, texts and    *)
(* steps, the cooldown (nothing reads it), the ids of manual plans (two of *)
(* one millisecond share one), the read-only routes, and /cron/hourly,     *)
(* which deletes resolved anomalies: nothing ever resolves one.  A report  *)
(* without a latency ends in an error once it is stored, and detection     *)
(* does until it is replaced: nothing modelled changes.                    *)
(***************************************************************************)
EXTENDS Naturals, Sequences, FiniteSets

CONSTANTS
  Kind, Policy,
  PolicyBody, Default,       \* what POST /policies may store, and the initial policies
  Pass, Caller,              \* the passes of the cron, and the calls of execute, at once
  MaxAnomalies, MaxRuns, MaxApprovals  \* bounds: anomalies, runs (of any call), approvals

ASSUME HealingAssumption ==
  /\ IsFiniteSet(Kind) /\ IsFiniteSet(Pass)
  /\ PolicyBody \subseteq [enabled: BOOLEAN, autoExecute: BOOLEAN, priority: Nat, applies: SUBSET Kind,
                           breaks: SUBSET Kind,  \* reading its conditions throws
                           actions: BOOLEAN]     \* it has some, and each can be read
  /\ Default \in [Policy -> PolicyBody]

VARIABLES
  policies,
  health,     \* the severity at which each kind shows in the latest reports
  anomalies,  \* anomalyStore, with the plans of each in healingActions
  passes,     \* each pass: the anomalies still on its list, the plan it waits for
  callers     \* the plan each call of execute waits for

vars == <<policies, health, anomalies, passes, callers>>

Severity == {"none", "high", "critical"}
RemediationStatus == {"PENDING", "APPROVED", "EXECUTING", "COMPLETED", "FAILED"}
RemediationAction == [strategy: {"AUTOMATIC", "SUPERVISED", "MANUAL"}, status: RemediationStatus,
                      runs: Nat, approvals: Nat]   \* histories
Anomaly == [kind: Kind, status: {"DETECTED", "ANALYZING", "REMEDIATING"},
            plans: Seq(RemediationAction),
            \* histories: planned by passes; one failed to; the most lists it was on at once
            analyses: Nat, failed: BOOLEAN, overlap: Nat]

NoPlan == <<0, 0>>
Ids == DOMAIN anomalies
Times(Count(_)) ==
  Cardinality(UNION {UNION {{<<a, n>>} \X (1..Count(anomalies[a].plans[n])) :
                              n \in DOMAIN anomalies[a].plans} : a \in Ids})
Approvals == Times(LAMBDA plan : plan.approvals)
Runs == Times(LAMBDA plan : plan.runs)

Init ==
  /\ policies = Default
  /\ health = [k \in Kind |-> "none"]
  /\ anomalies = <<>>
  /\ passes = [p \in Pass |-> [todo |-> {}, plan |-> NoPlan]]
  /\ callers = [c \in Caller |-> NoPlan]

-----------------------------------------------------------------------------
(* Planning *)

\* POST /policies stores what it is given.
SetPolicy(p, body) ==
  /\ policies' = [policies EXCEPT ![p] = body]
  /\ UNCHANGED <<health, anomalies, passes, callers>>

Applicable(k) == {p \in Policy : policies[p].enabled /\ k \in policies[p].applies}
Foremost(k) == CHOOSE p \in Applicable(k) :
                 \A q \in Applicable(k) : policies[q].priority <= policies[p].priority
Strategy(k) == IF Applicable(k) = {} THEN "MANUAL"
               ELSE IF policies[Foremost(k)].autoExecute THEN "AUTOMATIC" ELSE "SUPERVISED"
planRemediation(k) ==
  [strategy |-> Strategy(k), status |-> "PENDING", runs |-> 0, approvals |-> 0]
RequiresApproval(plan) == plan.strategy # "AUTOMATIC"

\* What is stored is not checked: every enabled policy is read, and the steps are
\* made from the actions of the foremost.
PlanningThrows(k) ==
  \/ \E p \in Policy : policies[p].enabled /\ k \in policies[p].breaks
  \/ Applicable(k) # {} /\ ~policies[Foremost(k)].actions

-----------------------------------------------------------------------------
(* Detection: every time it finds a kind it makes a new anomaly *)

createAnomaly(k, plans) ==
  [kind |-> k, status |-> "DETECTED", plans |-> plans,
   analyses |-> 0, failed |-> FALSE, overlap |-> 0]

Found == {k \in Kind : health[k] # "none"}
Orders(S) == {f \in [1..Cardinality(S) -> S] : \A i, j \in DOMAIN f : f[i] = f[j] => i = j}

\* The scan goes over the services in the order of their first report; the first
\* anomaly for which planning throws is the last one stored.
detectAnomalies(new, throws) ==
  /\ Len(anomalies) + Cardinality(Found) <= MaxAnomalies
  /\ \E order \in Orders(Found), n \in 0..Cardinality(Found) :
       /\ \A i \in 1..n : order[i] \in throws => i = n
       /\ n = Cardinality(Found) \/ (n > 0 /\ order[n] \in throws)
       /\ anomalies' = anomalies \o [i \in 1..n |-> new[order[i]]]
  /\ UNCHANGED <<policies, health, passes, callers>>

\* POST /anomalies/detect plans for the critical ones, and leaves them DETECTED.
Detect ==
  LET throws == {k \in Found : health[k] = "critical" /\ PlanningThrows(k)}
      plans(k) == IF health[k] = "critical" /\ k \notin throws THEN <<planRemediation(k)>> ELSE <<>>
  IN  detectAnomalies([k \in Kind |-> createAnomaly(k, plans(k))], throws)
CronMinute == detectAnomalies([k \in Kind |-> createAnomaly(k, <<>>)], {})

\* POST /health/report: of what a report shows, at most one kind is stored at once.
Report(shown, found) ==
  /\ \A k \in found : shown[k] # "none"
  /\ Len(anomalies) + Cardinality(found) <= MaxAnomalies
  /\ health' = shown
  /\ anomalies' = IF found = {} THEN anomalies
                  ELSE Append(anomalies, createAnomaly(CHOOSE k \in found : TRUE, <<>>))
  /\ UNCHANGED <<policies, passes, callers>>

-----------------------------------------------------------------------------
(* Approval and execution *)

\* Whatever has become of the plan, it is then approved (once more).
Approved(plan) == [plan EXCEPT !.status = "APPROVED", !.approvals = plan.approvals + 1]

(* Mutant: the status is only changed when the steps have run. *)
StartedAsBefore(plan) == [plan EXCEPT !.runs = plan.runs + 1]

\* executeRemediation() until its first await, and after its last.
Started(plan) == [plan EXCEPT !.status = "EXECUTING", !.runs = plan.runs + 1]

(* Mutant: a failure leaves the plan as it was started. *)
EndedOnSuccess(plan, success) == IF success THEN [plan EXCEPT !.status = "COMPLETED"] ELSE plan

Ended(plan, success) == [plan EXCEPT !.status = IF success THEN "COMPLETED" ELSE "FAILED"]

WithPlan(a, n, plan) == [anomalies[a] EXCEPT !.plans = [anomalies[a].plans EXCEPT ![n] = plan]]

Approve(a, n) ==
  /\ Approvals < MaxApprovals
  /\ anomalies' = [anomalies EXCEPT ![a] = WithPlan(a, n, Approved(anomalies[a].plans[n]))]
  /\ UNCHANGED <<policies, health, passes, callers>>

Execute(c, a, n) ==
  LET plan == anomalies[a].plans[n]
  IN  /\ callers[c] = NoPlan
      /\ RequiresApproval(plan) => plan.status = "APPROVED"
      /\ Runs < MaxRuns
      /\ anomalies' = [anomalies EXCEPT ![a] = WithPlan(a, n, Started(plan))]
      /\ callers' = [callers EXCEPT ![c] = <<a, n>>]
      /\ UNCHANGED <<policies, health, passes>>

Executed(c, success) ==
  LET a == callers[c][1]
      n == callers[c][2]
  IN  /\ callers[c] # NoPlan
      /\ anomalies' = [anomalies EXCEPT ![a] = WithPlan(a, n, Ended(anomalies[a].plans[n], success))]
      /\ callers' = [callers EXCEPT ![c] = NoPlan]
      /\ UNCHANGED <<policies, health, passes>>

-----------------------------------------------------------------------------
(* A pass of /cron/5minutes *)

(* Mutant: the status is left to the end of the execution. *)
AnalysedUnlessAutomatic(anomaly) ==
  LET plan == planRemediation(anomaly.kind)
      run == IF RequiresApproval(plan) THEN plan ELSE Started(plan)
  IN  IF PlanningThrows(anomaly.kind) THEN [anomaly EXCEPT !.status = "ANALYZING", !.failed = TRUE]
      ELSE [anomaly EXCEPT !.status = IF RequiresApproval(plan) THEN "ANALYZING" ELSE anomaly.status,
                           !.plans = Append(anomaly.plans, run),
                           !.analyses = anomaly.analyses + 1]

\* A pass takes an anomaly, whose status changes first: a plan is made for it and,
\* when automatic, started.
Analysed(anomaly) ==
  LET plan == planRemediation(anomaly.kind)
      run == IF RequiresApproval(plan) THEN plan ELSE Started(plan)
  IN  IF PlanningThrows(anomaly.kind) THEN [anomaly EXCEPT !.status = "ANALYZING", !.failed = TRUE]
      ELSE [anomaly EXCEPT !.status = "ANALYZING",
                           !.plans = Append(anomaly.plans, run),
                           !.analyses = anomaly.analyses + 1]

\* From one wait to the next a pass takes the anomalies on its list, in order,
\* up to the first whose plan is automatic, or cannot be made: that ends the pass.
GoOn(p, store, todo) ==
  LET Throws(a) == PlanningThrows(store[a].kind)
      stops == {a \in todo : Throws(a) \/ ~RequiresApproval(planRemediation(store[a].kind))}
      Take(taken) == anomalies' = [a \in DOMAIN store |-> IF a \in taken THEN Analysed(store[a]) ELSE store[a]]
      Wait(rest, plan) == passes' = [passes EXCEPT ![p] = [todo |-> rest, plan |-> plan]]
  IN  \/ stops = {} /\ Take(todo) /\ Wait({}, NoPlan)
      \/ \E a \in stops :
           /\ \A b \in stops : a <= b
           /\ Take({b \in todo : b <= a})
           /\ \/ Throws(a) /\ Wait({}, NoPlan)
              \/ ~Throws(a) /\ Wait({b \in todo : b > a}, <<a, Len(store[a].plans) + 1>>)

Holders(a) == Cardinality({q \in Pass : a \in passes[q].todo})
Listed(a) ==
  [anomalies[a] EXCEPT !.overlap = IF anomalies[a].overlap > Holders(a) THEN anomalies[a].overlap
                                                                        ELSE Holders(a) + 1]

\* The list is read at once; the anomalies on it keep their status until their turn.
StartPass(p) ==
  LET todo == {a \in Ids : anomalies[a].status = "DETECTED"}
  IN  /\ passes[p].plan = NoPlan
      /\ GoOn(p, [a \in Ids |-> IF a \in todo THEN Listed(a) ELSE anomalies[a]], todo)
      /\ UNCHANGED <<policies, health, callers>>

\* The plan has run, whatever its result.
Remediated(p, success) ==
  LET a == passes[p].plan[1]
      n == passes[p].plan[2]
      after == [WithPlan(a, n, Ended(anomalies[a].plans[n], success)) EXCEPT !.status = "REMEDIATING"]
  IN  /\ passes[p].plan # NoPlan
      /\ GoOn(p, [anomalies EXCEPT ![a] = after], passes[p].todo)
      /\ UNCHANGED <<policies, health, callers>>

Next ==
  \/ Detect \/ CronMinute
  \/ \E p \in Policy, body \in PolicyBody : SetPolicy(p, body)
  \/ \E shown \in [Kind -> Severity], found \in SUBSET Kind : Cardinality(found) <= 1 /\ Report(shown, found)
  \/ \E a \in Ids : \E n \in DOMAIN anomalies[a].plans :
       Approve(a, n) \/ \E c \in Caller : Execute(c, a, n)
  \/ \E c \in Caller, success \in BOOLEAN : Executed(c, success)
  \/ \E p \in Pass : StartPass(p) \/ \E success \in BOOLEAN : Remediated(p, success)

Spec == Init /\ [][Next]_vars

-----------------------------------------------------------------------------
(* Properties *)

\* The variables have their types; what a pass or a call waits for exists.
TypeOK ==
  /\ policies \in [Policy -> PolicyBody]
  /\ health \in [Kind -> Severity]
  /\ anomalies \in Seq(Anomaly)
  /\ passes \in [Pass -> [todo: SUBSET Nat, plan: Nat \X Nat]]
  /\ callers \in [Caller -> Nat \X Nat]
  /\ \A p \in Pass : passes[p].todo \subseteq Ids
  /\ \A plan \in {passes[p].plan : p \in Pass} \cup {callers[c] : c \in Caller} :
       plan # NoPlan => plan[1] \in Ids /\ plan[2] \in DOMAIN anomalies[plan[1]].plans

\* A plan that needs approval never runs more often than it was approved,
\* however its approvals, executions and their ends interleave.
ApprovalsSpent ==
  \A a \in Ids : \A n \in DOMAIN anomalies[a].plans :
    LET plan == anomalies[a].plans[n]
    IN  RequiresApproval(plan) => plan.runs <= plan.approvals

\* A plan shown EXECUTING has a call or a pass that waits for its steps and will
\* end it, though calls and passes may run one plan at once, fail, and
\* forget what they waited for, and its status be overwritten meanwhile.
ExecutingIsAwaited ==
  \A a \in Ids : \A n \in DOMAIN anomalies[a].plans :
    anomalies[a].plans[n].status = "EXECUTING" =>
      <<a, n>> \in {passes[p].plan : p \in Pass} \cup {callers[c] : c \in Caller}

\* Passes plan an anomaly no more often than there were passes that had it on their
\* lists at the same time.  One that no pass has planned is still DETECTED, or a later
\* pass would not find it, unless planning it failed.
ReplannedOnlyByOverlap ==
  \A a \in Ids :
    /\ anomalies[a].analyses <= anomalies[a].overlap
    /\ anomalies[a].analyses = 0 => anomalies[a].status = "DETECTED" \/ anomalies[a].failed

===============================================================================
