----------------------------- MODULE HealingProofs -----------------------------
(* Proofs about the orchestrator, for any kinds, policies, passes and bounds.   *)
EXTENDS Healing, FiniteSetTheorems, SequenceTheorems, TLAPS

(* Approvals are spent by starting, not by ending, a run: an approval that is   *)
(* still good is the status APPROVED.                                           *)
PlanOK(plan) ==
  /\ plan \in RemediationAction
  /\ RequiresApproval(plan) =>
       plan.runs + (IF plan.status = "APPROVED" THEN 1 ELSE 0) <= plan.approvals
AnomalyOK(e) ==
  /\ e \in Anomaly
  /\ \A n \in DOMAIN e.plans : PlanOK(e.plans[n])
  /\ e.status = "DETECTED" => e.analyses = 0
  /\ e.analyses = 0 => e.status = "DETECTED" \/ e.failed

(* Every plan a pass has made of an anomaly, or may still make, took a place on  *)
(* a list, and none is added once the anomaly is taken: those that have made    *)
(* theirs and those that hold it still were holding it together.                *)
On(a, list) == {p \in Pass : a \in list[p]}
Once(a, e, list) == e.analyses + Cardinality(On(a, list)) <= e.overlap
Lists == [p \in Pass |-> passes[p].todo]

StoreOK == \A a \in Ids : AnomalyOK(anomalies[a]) /\ Once(a, anomalies[a], Lists)
(* A pass stops only to wait for a plan of an anomaly it has planned.           *)
ListsEnd == \A p \in Pass : /\ passes[p].plan = NoPlan => passes[p].todo = {}
                            /\ passes[p].plan # NoPlan => anomalies[passes[p].plan[1]].analyses # 0
Inv == TypeOK /\ StoreOK /\ ListsEnd

-----------------------------------------------------------------------------
(* Plans *)

LEMMA Planned ==
  ASSUME NEW k
  PROVE  PlanOK(planRemediation(k)) /\ planRemediation(k).status = "PENDING"
BY DEF PlanOK, planRemediation, Strategy, RemediationAction, RemediationStatus, RequiresApproval

LEMMA StartedKeeps ==
  ASSUME NEW plan, PlanOK(plan), RequiresApproval(plan) => plan.status = "APPROVED"
  PROVE  PlanOK(Started(plan))
<1>1. plan \in RemediationAction /\ plan.runs \in Nat /\ plan.approvals \in Nat
  BY DEF PlanOK, RemediationAction
<1>2. plan.runs + 1 \in Nat
  BY <1>1
<1>3. Started(plan) \in RemediationAction
  BY <1>1, <1>2 DEF Started, RemediationAction, RemediationStatus
<1>4. /\ Started(plan).strategy = plan.strategy /\ Started(plan).status = "EXECUTING"
      /\ Started(plan).runs = plan.runs + 1 /\ Started(plan).approvals = plan.approvals
  BY <1>1 DEF Started, RemediationAction
<1>5. RequiresApproval(plan) => plan.runs + 1 <= plan.approvals
  BY DEF PlanOK
<1> QED BY <1>1, <1>3, <1>4, <1>5 DEF PlanOK, RequiresApproval

LEMMA EndedKeeps ==
  ASSUME NEW plan, PlanOK(plan), NEW success \in BOOLEAN
  PROVE  PlanOK(Ended(plan, success)) /\ Ended(plan, success).status # "EXECUTING"
BY DEF PlanOK, Ended, RemediationAction, RemediationStatus, RequiresApproval

(* What a pass waits for is a plan there is.                                    *)
LEMMA WaitsForPlan ==
  ASSUME TypeOK, NEW p \in Pass, passes[p].plan # NoPlan
  PROVE  LET a == passes[p].plan[1]
             n == passes[p].plan[2]
         IN  /\ a \in Ids /\ n \in DOMAIN anomalies[a].plans /\ passes[p].plan = <<a, n>>
             /\ passes[p].todo \subseteq Ids
<1>1. /\ passes[p].plan[1] \in Ids /\ passes[p].plan[2] \in DOMAIN anomalies[passes[p].plan[1]].plans
      /\ passes[p].todo \subseteq Ids
  BY DEF TypeOK
<1>2. passes[p].plan \in Nat \X Nat
  BY DEF TypeOK
<1>3. passes[p].plan = <<passes[p].plan[1], passes[p].plan[2]>>
  BY <1>2
<1> QED BY <1>1, <1>3

LEMMA ApprovedKeeps ==
  ASSUME NEW plan, PlanOK(plan)
  PROVE  PlanOK(Approved(plan))
<1>1. plan \in RemediationAction /\ plan.runs \in Nat /\ plan.approvals \in Nat
  BY DEF PlanOK, RemediationAction
<1>2. plan.approvals + 1 \in Nat
  BY <1>1
<1>3. Approved(plan) \in RemediationAction
  BY <1>1, <1>2 DEF Approved, RemediationAction, RemediationStatus
<1>4. /\ Approved(plan).strategy = plan.strategy /\ Approved(plan).status = "APPROVED"
      /\ Approved(plan).runs = plan.runs /\ Approved(plan).approvals = plan.approvals + 1
  BY <1>1 DEF Approved, RemediationAction
<1>5. RequiresApproval(plan) => plan.runs <= plan.approvals
  BY <1>1 DEF PlanOK
<1> QED BY <1>1, <1>3, <1>4, <1>5 DEF PlanOK, RequiresApproval

(* Writing a plan back changes nothing else of the anomaly.                     *)
LEMMA WithPlanKeeps ==
  ASSUME NEW a \in Ids, AnomalyOK(anomalies[a]), NEW n \in DOMAIN anomalies[a].plans,
         NEW plan, PlanOK(plan)
  PROVE  /\ AnomalyOK(WithPlan(a, n, plan))
         /\ WithPlan(a, n, plan).overlap = anomalies[a].overlap
         /\ WithPlan(a, n, plan).analyses = anomalies[a].analyses
         /\ DOMAIN WithPlan(a, n, plan).plans = DOMAIN anomalies[a].plans
         /\ AnomalyOK([WithPlan(a, n, plan) EXCEPT !.status = "REMEDIATING"])
              \/ anomalies[a].analyses = 0
<1> DEFINE e == anomalies[a]
           s == [e.plans EXCEPT ![n] = plan]
<1>1. e \in Anomaly /\ plan \in RemediationAction
  BY DEF AnomalyOK, PlanOK
<1>2. s \in Seq(RemediationAction) /\ DOMAIN s = DOMAIN e.plans
  <2>1. e.plans \in Seq(RemediationAction)
    BY <1>1 DEF Anomaly
  <2> QED BY <1>1, <2>1, ExceptSeq
<1>3. \A m \in DOMAIN s : PlanOK(s[m])
  BY <1>2 DEF AnomalyOK
<1>4. WithPlan(a, n, plan) = [e EXCEPT !.plans = s]
  BY DEF WithPlan
<1> HIDE DEF s
<1>5. [e EXCEPT !.plans = s] \in Anomaly /\ [e EXCEPT !.plans = s].plans = s
  BY <1>1, <1>2 DEF Anomaly
<1>6. /\ [e EXCEPT !.plans = s].status = e.status /\ [e EXCEPT !.plans = s].analyses = e.analyses
      /\ [e EXCEPT !.plans = s].overlap = e.overlap /\ [e EXCEPT !.plans = s].failed = e.failed
  BY <1>1 DEF Anomaly
<1>7. ASSUME NEW f, f \in Anomaly, f.plans = s, f.analyses = e.analyses
      PROVE  AnomalyOK([f EXCEPT !.status = "REMEDIATING"]) \/ e.analyses = 0
  <2>1. [f EXCEPT !.status = "REMEDIATING"] \in Anomaly
    BY <1>7 DEF Anomaly
  <2>2. /\ [f EXCEPT !.status = "REMEDIATING"].plans = s
        /\ [f EXCEPT !.status = "REMEDIATING"].analyses = e.analyses
        /\ [f EXCEPT !.status = "REMEDIATING"].status = "REMEDIATING"
    BY <1>7 DEF Anomaly
  <2> QED BY <1>3, <2>1, <2>2 DEF AnomalyOK
<1>8. AnomalyOK([e EXCEPT !.plans = s])
  BY <1>3, <1>5, <1>6 DEF AnomalyOK
<1> QED BY <1>2, <1>4, <1>5, <1>6, <1>7, <1>8

(* Taken by a pass, an anomaly has one plan more, or failed to get one.          *)
LEMMA AnalysedKeeps ==
  ASSUME NEW e, AnomalyOK(e)
  PROVE  /\ AnomalyOK(Analysed(e))
         /\ Analysed(e).overlap = e.overlap
         /\ IF PlanningThrows(e.kind)
            THEN Analysed(e).analyses = e.analyses /\ Analysed(e).plans = e.plans
            ELSE /\ Analysed(e).analyses = e.analyses + 1
                 /\ DOMAIN Analysed(e).plans = 1..(Len(e.plans) + 1)
<1> DEFINE plan == planRemediation(e.kind)
           run == IF RequiresApproval(plan) THEN plan ELSE Started(plan)
           s == Append(e.plans, run)
<1>1. PlanOK(run)
  BY Planned, StartedKeeps
<1>2. e \in Anomaly /\ e.plans \in Seq(RemediationAction) /\ run \in RemediationAction
  BY <1>1 DEF AnomalyOK, Anomaly, PlanOK
<1>3. CASE PlanningThrows(e.kind)
  <2> DEFINE f == [e EXCEPT !.status = "ANALYZING", !.failed = TRUE]
  <2>1. Analysed(e) = f
    BY <1>3 DEF Analysed
  <2>2. /\ f \in Anomaly /\ f.status = "ANALYZING" /\ f.failed = TRUE /\ f.plans = e.plans
        /\ f.analyses = e.analyses /\ f.overlap = e.overlap
    BY <1>2 DEF Anomaly
  <2> HIDE DEF f
  <2>3. AnomalyOK(f)
    BY <2>2 DEF AnomalyOK
  <2> QED BY <1>3, <2>1, <2>2, <2>3
<1>4. CASE ~PlanningThrows(e.kind)
  <2> HIDE DEF run, plan
  <2>3. s \in Seq(RemediationAction) /\ DOMAIN s = 1..(Len(e.plans) + 1)
    BY <1>2, AppendProperties, LenProperties
  <2>4. \A m \in DOMAIN s : PlanOK(s[m])
    BY <1>1, <1>2, <2>3, AppendProperties, LenProperties DEF AnomalyOK
  <2> DEFINE f == [e EXCEPT !.status = "ANALYZING", !.plans = s, !.analyses = e.analyses + 1]
  <2>5. Analysed(e) = f
    BY <1>4 DEF Analysed, run, plan
  <2> HIDE DEF s
  <2>6. f \in Anomaly
    <3>1. e.analyses + 1 \in Nat
      BY <1>2 DEF Anomaly
    <3> DEFINE m == e.analyses + 1
    <3> HIDE DEF m
    <3>2. [e EXCEPT !.status = "ANALYZING", !.plans = s, !.analyses = m] \in Anomaly
      BY <1>2, <2>3, <3>1 DEF Anomaly, m
    <3> QED BY <3>2 DEF m
  <2>7. /\ f.status = "ANALYZING" /\ f.plans = s /\ f.analyses = e.analyses + 1
        /\ f.overlap = e.overlap
    BY <1>2 DEF Anomaly
  <2>8. e.analyses \in Nat
    BY <1>2 DEF Anomaly
  <2>9. f.analyses # 0
    BY <2>7, <2>8
  <2> QED BY <1>4, <2>3, <2>4, <2>5, <2>6, <2>7, <2>9 DEF AnomalyOK
<1> QED BY <1>3, <1>4

-----------------------------------------------------------------------------
(* Steps of the whole store *)

LEMMA StoreOf ==
  ASSUME TypeOK
  PROVE  /\ Len(anomalies) \in Nat /\ Ids = 1..Len(anomalies)
         /\ \A a \in Ids : /\ anomalies[a] \in Anomaly
                           /\ anomalies[a].plans \in Seq(RemediationAction)
                           /\ Len(anomalies[a].plans) \in Nat
                           /\ DOMAIN anomalies[a].plans = 1..Len(anomalies[a].plans)
<1>1. anomalies \in Seq(Anomaly)
  BY DEF TypeOK
<1>2. Len(anomalies) \in Nat /\ Ids = 1..Len(anomalies)
  BY <1>1, LenProperties DEF Ids
<1>3. ASSUME NEW a \in Ids
      PROVE  anomalies[a] \in Anomaly /\ anomalies[a].plans \in Seq(RemediationAction)
  <2>1. anomalies[a] \in Anomaly
    BY <1>1, <1>2, ElementOfSeq
  <2> QED BY <2>1 DEF Anomaly
<1>4. \A s \in Seq(RemediationAction) : Len(s) \in Nat /\ DOMAIN s = 1..Len(s)
  BY LenProperties
<1> QED BY <1>2, <1>3, <1>4

(* A pass that goes on, with the store it leaves behind and what is on its list. *)
GoodStore(p, store, todo) ==
  /\ DOMAIN store = Ids /\ todo \subseteq Ids
  /\ \A a \in Ids : /\ AnomalyOK(store[a])
                    /\ DOMAIN store[a].plans = DOMAIN anomalies[a].plans
                    /\ store[a].analyses = anomalies[a].analyses
                    /\ Once(a, store[a], [Lists EXCEPT ![p] = todo])
  /\ \A q \in Pass : q # p => /\ passes[q].plan = NoPlan => passes[q].todo = {}
                              /\ passes[q].plan # NoPlan => anomalies[passes[q].plan[1]].analyses # 0

(* It takes some of its list, and ends there or waits for a plan of those.      *)
Takes(p, store, taken, rest, plan) ==
  /\ plan \in Nat \X Nat /\ taken \cap rest = {}
  /\ plan = NoPlan => rest = {}
  /\ plan # NoPlan => /\ plan[1] \in taken /\ plan[2] = Len(store[plan[1]].plans) + 1
                      /\ ~PlanningThrows(store[plan[1]].kind)
  /\ anomalies' = [a \in DOMAIN store |-> IF a \in taken THEN Analysed(store[a]) ELSE store[a]]
  /\ passes' = [passes EXCEPT ![p] = [todo |-> rest, plan |-> plan]]

(* What it took is planned, or failed to be, and no longer on its list.         *)
LEMMA TakenKeeps ==
  ASSUME TypeOK, NEW p \in Pass, NEW store, NEW todo, NEW taken, NEW rest, NEW plan,
         GoodStore(p, store, todo), taken \cup rest \subseteq todo, Takes(p, store, taken, rest, plan),
         UNCHANGED <<policies, health, callers>>
  PROVE  Inv'
<1> USE DEF GoodStore, Takes
<1>1. Len(anomalies) \in Nat /\ Ids = 1..Len(anomalies)
  BY StoreOf
<1>2. ASSUME NEW a \in Ids
      PROVE  /\ AnomalyOK(anomalies'[a])
             /\ DOMAIN anomalies[a].plans \subseteq DOMAIN anomalies'[a].plans
             /\ a \in taken => /\ anomalies'[a].analyses \in {store[a].analyses, store[a].analyses + 1}
                               /\ ~PlanningThrows(store[a].kind) =>
                                    /\ anomalies'[a].analyses = store[a].analyses + 1
                                    /\ Len(store[a].plans) + 1 \in DOMAIN anomalies'[a].plans
             /\ a \notin taken => anomalies'[a].analyses = store[a].analyses
             /\ anomalies'[a].overlap = store[a].overlap
  <2>1. AnomalyOK(store[a]) /\ DOMAIN store[a].plans = DOMAIN anomalies[a].plans
    BY DEF AnomalyOK
  <2>2. CASE a \in taken
    <3>1. anomalies'[a] = Analysed(store[a])
      BY <2>2
    <3>2. /\ AnomalyOK(Analysed(store[a])) /\ Analysed(store[a]).overlap = store[a].overlap
          /\ IF PlanningThrows(store[a].kind)
             THEN Analysed(store[a]).analyses = store[a].analyses /\ Analysed(store[a]).plans = store[a].plans
             ELSE /\ Analysed(store[a]).analyses = store[a].analyses + 1
                  /\ DOMAIN Analysed(store[a]).plans = 1..(Len(store[a].plans) + 1)
      BY <2>1, AnalysedKeeps
    <3>3. store[a].plans \in Seq(RemediationAction)
      BY <2>1 DEF AnomalyOK, Anomaly
    <3>4. Len(store[a].plans) \in Nat /\ DOMAIN store[a].plans = 1..Len(store[a].plans)
      BY <3>3, LenProperties
    <3>5. Len(store[a].plans) + 1 \in 1..(Len(store[a].plans) + 1)
      BY <3>4
    <3>6. 1..Len(store[a].plans) \subseteq 1..(Len(store[a].plans) + 1)
      BY <3>4
    <3> QED BY <2>1, <2>2, <3>1, <3>2, <3>4, <3>5, <3>6
  <2>3. CASE a \notin taken
    BY <2>1, <2>3
  <2> QED BY <2>2, <2>3
<1>3. Ids' = Ids
  BY DEF Ids
<1>4. anomalies' \in Seq(Anomaly)
  <2>1. anomalies' = [a \in 1..Len(anomalies) |-> anomalies'[a]]
    BY <1>1
  <2>2. \A a \in 1..Len(anomalies) : anomalies'[a] \in Anomaly
    BY <1>1, <1>2 DEF AnomalyOK
  <2>3. anomalies' \in [1..Len(anomalies) -> Anomaly]
    BY <2>1, <2>2
  <2> QED BY <1>1, <2>3, SeqDef
<1>5. passes \in [Pass -> [todo: SUBSET Nat, plan: Nat \X Nat]] /\ rest \subseteq Nat
  <2>1. rest \subseteq Ids /\ \A i \in Ids : i \in Nat
    BY <1>1
  <2> QED BY <2>1 DEF TypeOK
<1>6. /\ passes' \in [Pass -> [todo: SUBSET Nat, plan: Nat \X Nat]]
      /\ passes'[p].todo = rest /\ passes'[p].plan = plan
      /\ \A q \in Pass : q # p => passes'[q] = passes[q]
  BY <1>5
<1>7. TypeOK'
  <2>1. \A q \in Pass : passes'[q].todo \subseteq Ids
    BY <1>6 DEF TypeOK
  <2>2. ASSUME NEW q \in Pass, passes'[q].plan # NoPlan
        PROVE  passes'[q].plan[1] \in Ids /\ passes'[q].plan[2] \in DOMAIN anomalies'[passes'[q].plan[1]].plans
    <3>1. CASE q = p
      BY <1>2, <1>6, <2>2, <3>1
    <3>2. CASE q # p
      <4>1. passes[q].plan # NoPlan /\ passes'[q].plan = passes[q].plan
        BY <1>6, <2>2, <3>2
      <4>2. passes[q].plan[1] \in Ids /\ passes[q].plan[2] \in DOMAIN anomalies[passes[q].plan[1]].plans
        BY <4>1 DEF TypeOK
      <4> QED BY <1>2, <4>1, <4>2
    <3> QED BY <3>1, <3>2
  <2>3. ASSUME NEW c \in Caller, callers[c] # NoPlan
        PROVE  callers[c][1] \in Ids /\ callers[c][2] \in DOMAIN anomalies'[callers[c][1]].plans
    <3>1. callers[c][1] \in Ids /\ callers[c][2] \in DOMAIN anomalies[callers[c][1]].plans
      BY <2>3 DEF TypeOK
    <3> QED BY <1>2, <3>1
  <2>4. policies' \in [Policy -> PolicyBody] /\ health' \in [Kind -> Severity]
        /\ callers' \in [Caller -> Nat \X Nat]
    BY DEF TypeOK
  <2>5. \A q \in Pass : passes'[q].todo \subseteq Ids'
    BY <1>3, <2>1
  <2>6. \A w \in {passes'[q].plan : q \in Pass} \cup {callers'[c] : c \in Caller} :
          w # NoPlan => w[1] \in Ids' /\ w[2] \in DOMAIN anomalies'[w[1]].plans
    <3>1. ASSUME NEW w \in {passes'[q].plan : q \in Pass}, w # NoPlan
          PROVE  w[1] \in Ids' /\ w[2] \in DOMAIN anomalies'[w[1]].plans
      BY <1>3, <2>2, <3>1
    <3>2. ASSUME NEW w \in {callers'[c] : c \in Caller}, w # NoPlan
          PROVE  w[1] \in Ids' /\ w[2] \in DOMAIN anomalies'[w[1]].plans
      BY <1>3, <2>3, <3>2
    <3> QED BY <3>1, <3>2
  <2>7. passes' \in [Pass -> [todo: SUBSET Nat, plan: Nat \X Nat]]
    BY <1>6
  <2> QED BY <1>4, <2>4, <2>5, <2>6, <2>7 DEF TypeOK
<1>8. ASSUME NEW a \in Ids
      PROVE  Once(a, anomalies'[a], Lists')
  <2> DEFINE L == [Lists EXCEPT ![p] = todo]
  <2>1. /\ L[p] = todo /\ Lists'[p] = rest
        /\ \A q \in Pass : q # p => Lists'[q] = L[q]
    BY <1>6 DEF Lists
  <2>2. Once(a, store[a], L)
    OBVIOUS
  <2> HIDE DEF L
  <2> DEFINE on == On(a, L)
             now == On(a, Lists')
  <2>3. now \subseteq on /\ (a \in taken => p \in on /\ p \notin now)
    BY <2>1 DEF On
  <2>4. IsFiniteSet(on)
    BY HealingAssumption, FS_Subset DEF On
  <2>5. /\ Cardinality(on) \in Nat /\ Cardinality(now) \in Nat /\ Cardinality(now) <= Cardinality(on)
        /\ now # on => Cardinality(now) < Cardinality(on)
    BY <2>3, <2>4, FS_Subset, FS_CardinalityType
  <2>6. /\ store[a].analyses \in Nat /\ store[a].overlap \in Nat
        /\ store[a].analyses + Cardinality(on) <= store[a].overlap
    BY <2>2 DEF Once, AnomalyOK, Anomaly
  <2>7. anomalies'[a].overlap = store[a].overlap
    BY <1>2
  <2> HIDE DEF on, now
  <2>8. CASE a \in taken
    <3>1. Cardinality(now) + 1 <= Cardinality(on)
      BY <2>3, <2>5, <2>8
    <3>2. anomalies'[a].analyses \in {store[a].analyses, store[a].analyses + 1}
      BY <1>2, <2>8
    <3> DEFINE x == store[a].analyses
               y == Cardinality(on)
               z == Cardinality(now)
               o == store[a].overlap
    <3>3. x \in Nat /\ y \in Nat /\ z \in Nat /\ o \in Nat /\ z + 1 <= y /\ x + y <= o
      BY <2>5, <2>6, <3>1
    <3> HIDE DEF x, y, z, o
    <3>4. x + z <= o /\ (x + 1) + z <= o
      BY <3>3
    <3>5. anomalies'[a].analyses + z <= o
      BY <3>2, <3>4 DEF x
    <3> QED BY <2>7, <3>5 DEF Once, now, z, o
  <2>9. CASE a \notin taken
    <3>1. anomalies'[a].analyses = store[a].analyses
      BY <1>2, <2>9
    <3>2. store[a].analyses + Cardinality(now) <= store[a].overlap
      BY <2>5, <2>6
    <3> QED BY <2>7, <3>1, <3>2 DEF Once, now
  <2> QED BY <2>8, <2>9
<1>9. StoreOK'
  BY <1>2, <1>3, <1>8 DEF StoreOK
<1>10. ListsEnd'
  <2>1. ASSUME NEW a \in Ids
        PROVE  /\ a \in taken /\ ~PlanningThrows(store[a].kind) => anomalies'[a].analyses # 0
               /\ anomalies[a].analyses # 0 => anomalies'[a].analyses # 0
    <3>1. store[a].analyses \in Nat
      BY DEF AnomalyOK, Anomaly
    <3> QED BY <1>2, <3>1
  <2>2. ASSUME NEW q \in Pass
        PROVE  /\ passes'[q].plan = NoPlan => passes'[q].todo = {}
               /\ passes'[q].plan # NoPlan => anomalies'[passes'[q].plan[1]].analyses # 0
    <3>1. CASE q = p
      BY <1>6, <2>1, <3>1
    <3>2. CASE q # p
      <4>1. passes[q].plan # NoPlan => passes[q].plan[1] \in Ids
        BY DEF TypeOK
      <4> QED BY <1>6, <2>1, <3>2, <4>1
    <3> QED BY <3>1, <3>2
  <2> QED BY <2>2 DEF ListsEnd
<1> QED BY <1>7, <1>9, <1>10 DEF Inv

LEMMA GoOnKeeps ==
  ASSUME TypeOK, NEW p \in Pass, NEW store, NEW todo,
         GoodStore(p, store, todo), GoOn(p, store, todo),
         UNCHANGED <<policies, health, callers>>
  PROVE  Inv'
<1> DEFINE Throws(a) == PlanningThrows(store[a].kind)
           stops == {a \in todo : Throws(a) \/ ~RequiresApproval(planRemediation(store[a].kind))}
           Take(taken) == anomalies' = [b \in DOMAIN store |-> IF b \in taken THEN Analysed(store[b]) ELSE store[b]]
           Wait(rest, plan) == passes' = [passes EXCEPT ![p] = [todo |-> rest, plan |-> plan]]
<1>1. Ids \subseteq Nat /\ todo \subseteq Ids
  BY StoreOf DEF GoodStore
<1>2. ASSUME NEW taken \in SUBSET todo, Take(taken), Wait({}, NoPlan)
      PROVE  Inv'
  <2> DEFINE rest == {}
             plan == NoPlan
  <2>1. Takes(p, store, taken, rest, plan)
    BY <1>2 DEF Takes, NoPlan
  <2>2. taken \cup rest \subseteq todo
    OBVIOUS
  <2> HIDE DEF rest, plan
  <2> QED BY <2>1, <2>2, TakenKeeps
<1>3. ASSUME NEW a \in stops, ~Throws(a), Take({b \in todo : b <= a}),
             Wait({b \in todo : b > a}, <<a, Len(store[a].plans) + 1>>)
      PROVE  Inv'
  <2> DEFINE taken == {b \in todo : b <= a}
             rest == {b \in todo : b > a}
             plan == <<a, Len(store[a].plans) + 1>>
  <2>1. a \in todo /\ a \in Nat
    BY <1>1
  <2>2. taken \cup rest \subseteq todo /\ taken \cap rest = {} /\ a \in taken
    <3>1. a <= a /\ \A b \in todo : ~(b <= a /\ b > a)
      BY <1>1, <2>1
    <3> QED BY <2>1, <3>1, Zenon
  <2>3. Len(store[a].plans) \in Nat
    <3>1. store[a].plans \in Seq(RemediationAction)
      BY <1>1, <2>1 DEF GoodStore, AnomalyOK, Anomaly
    <3> QED BY <3>1, LenProperties
  <2>4. plan \in Nat \X Nat /\ plan # NoPlan /\ plan[1] = a /\ plan[2] = Len(store[a].plans) + 1
    BY <2>1, <2>3 DEF NoPlan
  <2>5. Take(taken) /\ Wait(rest, plan) /\ ~PlanningThrows(store[a].kind)
    BY <1>3
  <2> HIDE DEF taken, rest, plan
  <2>6. Takes(p, store, taken, rest, plan)
    BY <2>2, <2>4, <2>5 DEF Takes
  <2> QED BY <2>2, <2>6, TakenKeeps
<1>4. \/ Take(todo) /\ Wait({}, NoPlan)
      \/ \E a \in stops : /\ Take({b \in todo : b <= a})
                          /\ \/ Wait({}, NoPlan)
                             \/ ~Throws(a) /\ Wait({b \in todo : b > a}, <<a, Len(store[a].plans) + 1>>)
  BY DEF GoOn
<1>5. \A a : {b \in todo : b <= a} \in SUBSET todo
  OBVIOUS
<1> HIDE DEF Take, Wait, stops, Throws
<1> QED BY <1>2, <1>3, <1>4, <1>5

(* A step that leaves the lists alone, and what passes have done.               *)
LEMMA StoreStep ==
  ASSUME Inv, anomalies' \in Seq(Anomaly), passes' = passes,
         \A a \in Ids : /\ a \in Ids'
                        /\ DOMAIN anomalies[a].plans \subseteq DOMAIN anomalies'[a].plans
                        /\ anomalies'[a].overlap = anomalies[a].overlap
                        /\ anomalies'[a].analyses = anomalies[a].analyses,
         \A a \in Ids' : AnomalyOK(anomalies'[a]),
         \A a \in Ids' \ Ids : anomalies'[a].analyses = 0,
         policies' \in [Policy -> PolicyBody], health' \in [Kind -> Severity],
         callers' \in [Caller -> Nat \X Nat],
         \A c \in Caller : callers'[c] # NoPlan =>
           callers'[c][1] \in Ids /\ callers'[c][2] \in DOMAIN anomalies[callers'[c][1]].plans
  PROVE  Inv'
<1>1. Lists' = Lists /\ \A p \in Pass : Lists[p] \subseteq Ids
  BY DEF Lists, Inv, TypeOK
<1>2. TypeOK'
  <2>1. \A p \in Pass : passes'[p].todo \subseteq Ids'
    BY DEF Inv, TypeOK
  <2>2. ASSUME NEW p \in Pass, passes'[p].plan # NoPlan
        PROVE  passes'[p].plan[1] \in Ids' /\ passes'[p].plan[2] \in DOMAIN anomalies'[passes'[p].plan[1]].plans
    <3>1. passes[p].plan[1] \in Ids /\ passes[p].plan[2] \in DOMAIN anomalies[passes[p].plan[1]].plans
      BY <2>2 DEF Inv, TypeOK
    <3> QED BY <3>1
  <2>3. passes' \in [Pass -> [todo: SUBSET Nat, plan: Nat \X Nat]]
    BY DEF Inv, TypeOK
  <2>4. ASSUME NEW c \in Caller, callers'[c] # NoPlan
        PROVE  callers'[c][1] \in Ids' /\ callers'[c][2] \in DOMAIN anomalies'[callers'[c][1]].plans
    <3>1. callers'[c][1] \in Ids /\ callers'[c][2] \in DOMAIN anomalies[callers'[c][1]].plans
      BY <2>4
    <3> QED BY <3>1
  <2>5. \A w \in {passes'[q].plan : q \in Pass} \cup {callers'[c] : c \in Caller} :
          w # NoPlan => w[1] \in Ids' /\ w[2] \in DOMAIN anomalies'[w[1]].plans
    BY <2>2, <2>4
  <2> QED BY <2>1, <2>3, <2>5 DEF TypeOK
<1>3. ASSUME NEW a \in Ids'
      PROVE  Once(a, anomalies'[a], Lists')
  <2>1. CASE a \in Ids
    <3>1. Once(a, anomalies[a], Lists)
      BY <2>1 DEF Inv, StoreOK
    <3>2. anomalies'[a].overlap = anomalies[a].overlap /\ anomalies'[a].analyses = anomalies[a].analyses
      BY <2>1
    <3> DEFINE L == Lists
    <3>3. Once(a, anomalies[a], L) /\ L = Lists'
      BY <1>1, <3>1
    <3> HIDE DEF L
    <3>4. Once(a, anomalies'[a], L)
      BY <3>2, <3>3 DEF Once
    <3> QED BY <3>3, <3>4
  <2>2. CASE a \notin Ids
    <3>1. anomalies'[a].analyses = 0 /\ anomalies'[a].overlap \in Nat
      BY <2>2 DEF AnomalyOK, Anomaly
    <3>2. On(a, Lists') = {}
      BY <1>1, <2>2 DEF On
    <3> QED BY <3>1, <3>2, FS_EmptySet DEF Once
  <2> QED BY <2>1, <2>2
<1>4. StoreOK'
  BY <1>3 DEF StoreOK
<1>5. ListsEnd'
  <2>1. ASSUME NEW p \in Pass
        PROVE  /\ passes'[p].plan = NoPlan => passes'[p].todo = {}
               /\ passes'[p].plan # NoPlan => anomalies'[passes'[p].plan[1]].analyses # 0
    <3>1. passes[p].plan # NoPlan => passes[p].plan[1] \in Ids
      BY DEF Inv, TypeOK
    <3> QED BY <3>1 DEF Inv, ListsEnd
  <2> QED BY <2>1 DEF ListsEnd
<1> QED BY <1>2, <1>4, <1>5 DEF Inv

LEMMA WriteStep ==
  ASSUME Inv, NEW a \in Ids, NEW n \in DOMAIN anomalies[a].plans, NEW plan, PlanOK(plan),
         anomalies' = [anomalies EXCEPT ![a] = WithPlan(a, n, plan)],
         UNCHANGED <<policies, health, passes>>,
         callers' \in [Caller -> Nat \X Nat],
         \A c \in Caller : callers'[c] # NoPlan =>
           callers'[c][1] \in Ids /\ callers'[c][2] \in DOMAIN anomalies[callers'[c][1]].plans
  PROVE  Inv'
<1> DEFINE e == WithPlan(a, n, plan)
<1>1. /\ AnomalyOK(e) /\ e.overlap = anomalies[a].overlap
      /\ e.analyses = anomalies[a].analyses /\ DOMAIN e.plans = DOMAIN anomalies[a].plans
  BY WithPlanKeeps DEF Inv, StoreOK
<1> HIDE DEF e
<1>2. Ids' = Ids /\ anomalies'[a] = e /\ \A b \in Ids : b # a => anomalies'[b] = anomalies[b]
  BY DEF Ids, e
<1>3. anomalies' \in Seq(Anomaly)
  <2>1. anomalies \in Seq(Anomaly) /\ a \in 1..Len(anomalies) /\ e \in Anomaly
    BY <1>1, StoreOf DEF Inv, TypeOK, AnomalyOK
  <2>2. [anomalies EXCEPT ![a] = e] \in Seq(Anomaly)
    BY <2>1, ExceptSeq
  <2> QED BY <2>2 DEF e
<1>4. \A b \in Ids' : AnomalyOK(anomalies'[b])
  BY <1>1, <1>2 DEF Inv, StoreOK
<1>5. \A b \in Ids : /\ b \in Ids'
                     /\ DOMAIN anomalies[b].plans \subseteq DOMAIN anomalies'[b].plans
                     /\ anomalies'[b].overlap = anomalies[b].overlap
                     /\ anomalies'[b].analyses = anomalies[b].analyses
  BY <1>1, <1>2
<1>6. policies' \in [Policy -> PolicyBody] /\ health' \in [Kind -> Severity]
  BY DEF Inv, TypeOK
<1> QED BY <1>2, <1>3, <1>4, <1>5, <1>6, StoreStep

(* Anomalies are added at the end.                                              *)
LEMMA AddStep ==
  ASSUME Inv, NEW m \in Nat, NEW new, DOMAIN new = 1..m,
         \A i \in 1..m : AnomalyOK(new[i]) /\ new[i].analyses = 0,
         new \in Seq(Anomaly),
         anomalies' = anomalies \o new,
         health' \in [Kind -> Severity],
         UNCHANGED <<policies, passes, callers>>
  PROVE  Inv'
<1>1. anomalies \in Seq(Anomaly) /\ Ids = 1..Len(anomalies) /\ Len(anomalies) \in Nat /\ Len(new) = m
  BY StoreOf, LenProperties DEF Inv, TypeOK
<1>2. /\ anomalies' \in Seq(Anomaly) /\ Len(anomalies') = Len(anomalies) + m
      /\ \A i \in 1..(Len(anomalies) + m) :
           anomalies'[i] = IF i <= Len(anomalies) THEN anomalies[i] ELSE new[i - Len(anomalies)]
  BY <1>1, ConcatProperties
<1>3. Ids' = 1..(Len(anomalies) + m)
  BY <1>2, LenProperties DEF Ids
<1>4. \A a \in Ids : a \in Ids' /\ anomalies'[a] = anomalies[a]
  BY <1>1, <1>2, <1>3
<1>5. ASSUME NEW a \in Ids' \ Ids
      PROVE  AnomalyOK(anomalies'[a]) /\ anomalies'[a].analyses = 0
  <2>1. a \in 1..(Len(anomalies) + m) /\ ~(a <= Len(anomalies)) /\ a - Len(anomalies) \in 1..m
    BY <1>1, <1>3
  <2>2. anomalies'[a] = new[a - Len(anomalies)]
    BY <1>2, <2>1
  <2> QED BY <2>1, <2>2
<1>6. \A a \in Ids' : AnomalyOK(anomalies'[a])
  BY <1>4, <1>5 DEF Inv, StoreOK
<1>7. policies' \in [Policy -> PolicyBody] /\ callers' \in [Caller -> Nat \X Nat]
  BY DEF Inv, TypeOK
<1>8. \A c \in Caller : callers'[c] # NoPlan =>
        callers'[c][1] \in Ids /\ callers'[c][2] \in DOMAIN anomalies[callers'[c][1]].plans
  BY DEF Inv, TypeOK
<1> QED BY <1>2, <1>4, <1>5, <1>6, <1>7, <1>8, StoreStep

-----------------------------------------------------------------------------
(* The invariant *)

LEMMA InitInv == Init => Inv
<1> SUFFICES ASSUME Init PROVE Inv
  OBVIOUS
<1>1. anomalies = <<>> /\ Ids = {}
  BY EmptySeq DEF Init, Ids
<1>2. TypeOK
  BY <1>1, EmptySeq, HealingAssumption DEF Init, TypeOK, NoPlan, Severity
<1> QED BY <1>1, <1>2 DEF Inv, StoreOK, ListsEnd, Init

LEMMA DetectAdds ==
  ASSUME NEW new, NEW throws, detectAnomalies(new, throws)
  PROVE  \E m \in Nat : \E order : /\ \A i \in 1..m : order[i] \in Kind
                                   /\ anomalies' = anomalies \o [i \in 1..m |-> new[order[i]]]
<1> DEFINE c == Cardinality(Found)
<1>1. Found \subseteq Kind /\ c \in Nat
  BY HealingAssumption, FS_Subset, FS_CardinalityType DEF Found
<1>2. PICK order \in Orders(Found), m \in 0..c : anomalies' = anomalies \o [i \in 1..m |-> new[order[i]]]
  BY DEF detectAnomalies
<1>3. order \in [1..c -> Found]
  BY DEF Orders
<1> HIDE DEF c
<1>4. m \in Nat /\ \A i \in 1..m : i \in 1..c
  BY <1>1
<1>5. \A i \in 1..m : order[i] \in Kind
  BY <1>1, <1>3, <1>4
<1> QED BY <1>2, <1>4, <1>5

LEMMA DetectKeeps ==
  ASSUME Inv, NEW new, NEW throws, detectAnomalies(new, throws),
         \A k \in Kind : AnomalyOK(new[k]) /\ new[k].analyses = 0
  PROVE  Inv'
<1>1. PICK m \in Nat : \E order : /\ \A i \in 1..m : order[i] \in Kind
                                  /\ anomalies' = anomalies \o [i \in 1..m |-> new[order[i]]]
  BY DetectAdds
<1>2. m \in Nat
  OBVIOUS
<1>3. PICK order : /\ \A i \in 1..m : order[i] \in Kind
                   /\ anomalies' = anomalies \o [i \in 1..m |-> new[order[i]]]
  BY <1>1
<1> DEFINE added == [i \in 1..m |-> new[order[i]]]
<1>4. \A i \in 1..m : order[i] \in Kind
  BY <1>3
<1>5. \A i \in 1..m : AnomalyOK(added[i]) /\ added[i].analyses = 0 /\ added[i] \in Anomaly
  BY <1>4 DEF AnomalyOK
<1>6. added \in Seq(Anomaly) /\ DOMAIN added = 1..m
  BY <1>2, <1>5, SeqDef
<1>7. health' \in [Kind -> Severity] /\ UNCHANGED <<policies, passes, callers>>
  BY DEF detectAnomalies, Inv, TypeOK
<1>8. anomalies' = anomalies \o added
  BY <1>3
<1> HIDE DEF added
<1> QED BY <1>2, <1>5, <1>6, <1>7, <1>8, AddStep

LEMMA Created ==
  ASSUME NEW k \in Kind, NEW plans \in Seq(RemediationAction), \A n \in DOMAIN plans : PlanOK(plans[n])
  PROVE  AnomalyOK(createAnomaly(k, plans)) /\ createAnomaly(k, plans).analyses = 0
BY DEF createAnomaly, AnomalyOK, Anomaly

(* On a list more, an anomaly has been on as many as hold it now, and on that.  *)
LEMMA ListedKeeps ==
  ASSUME Inv, NEW a \in Ids
  PROVE  /\ AnomalyOK(Listed(a)) /\ Listed(a).plans = anomalies[a].plans
         /\ Listed(a).analyses = anomalies[a].analyses
         /\ Cardinality(On(a, Lists)) \in Nat /\ IsFiniteSet(On(a, Lists))
         /\ Cardinality(On(a, Lists)) + 1 <= Listed(a).overlap
<1> DEFINE h == Holders(a)
           o == anomalies[a].overlap
           most == IF o > h THEN o ELSE h + 1
           e == [anomalies[a] EXCEPT !.overlap = most]
<1>1. AnomalyOK(anomalies[a]) /\ anomalies[a] \in Anomaly /\ o \in Nat
  BY DEF Inv, StoreOK, AnomalyOK, Anomaly
<1>2. On(a, Lists) = {q \in Pass : a \in passes[q].todo}
  BY DEF On, Lists
<1>3. IsFiniteSet(On(a, Lists)) /\ h = Cardinality(On(a, Lists)) /\ h \in Nat
  BY <1>2, HealingAssumption, FS_Subset, FS_CardinalityType DEF Holders
<1>4. Listed(a) = e
  BY DEF Listed
<1> HIDE DEF h, o
<1>5. most \in Nat /\ h + 1 <= most
  BY <1>1, <1>3
<1> HIDE DEF most
<1>6. /\ e \in Anomaly /\ e.plans = anomalies[a].plans /\ e.analyses = anomalies[a].analyses
      /\ e.status = anomalies[a].status /\ e.failed = anomalies[a].failed /\ e.overlap = most
  BY <1>1, <1>5 DEF Anomaly
<1> HIDE DEF e
<1>7. AnomalyOK(e)
  BY <1>1, <1>6 DEF AnomalyOK
<1> QED BY <1>3, <1>4, <1>5, <1>6, <1>7

LEMMA NextInv == Inv /\ [Next]_vars => Inv'
<1> SUFFICES ASSUME Inv, [Next]_vars PROVE Inv'
  OBVIOUS
<1>0. <<>> \in Seq(RemediationAction) /\ DOMAIN <<>> = {}
  BY EmptySeq
<1>1. CASE Detect
  <2> DEFINE throws == {k \in Found : health[k] = "critical" /\ PlanningThrows(k)}
             plans(k) == IF health[k] = "critical" /\ k \notin throws THEN <<planRemediation(k)>> ELSE <<>>
             new == [k \in Kind |-> createAnomaly(k, plans(k))]
  <2>1. ASSUME NEW k \in Kind
        PROVE  plans(k) \in Seq(RemediationAction) /\ \A n \in DOMAIN plans(k) : PlanOK(plans(k)[n])
    <3>1. PlanOK(planRemediation(k)) /\ planRemediation(k) \in RemediationAction
      BY Planned DEF PlanOK
    <3> DEFINE plan == planRemediation(k)
    <3> HIDE DEF plan
    <3>2. <<plan>> \in Seq(RemediationAction) /\ DOMAIN <<plan>> = {1} /\ <<plan>>[1] = plan
      BY <3>1 DEF plan
    <3> QED BY <1>0, <3>1, <3>2 DEF plan
  <2>2. \A k \in Kind : AnomalyOK(new[k]) /\ new[k].analyses = 0
    BY <2>1, Created
  <2>3. detectAnomalies(new, throws)
    BY <1>1 DEF Detect
  <2> HIDE DEF new
  <2> QED BY <2>2, <2>3, DetectKeeps
<1>2. CASE CronMinute
  <2> DEFINE new == [k \in Kind |-> createAnomaly(k, <<>>)]
  <2>1. \A k \in Kind : AnomalyOK(new[k]) /\ new[k].analyses = 0
    BY <1>0, Created
  <2>2. detectAnomalies(new, {})
    BY <1>2 DEF CronMinute
  <2> HIDE DEF new
  <2> QED BY <2>1, <2>2, DetectKeeps
<1>3. ASSUME NEW p \in Policy, NEW body \in PolicyBody, SetPolicy(p, body)
      PROVE  Inv'
  <2>1. policies' \in [Policy -> PolicyBody]
    BY <1>3 DEF SetPolicy, Inv, TypeOK
  <2>2. UNCHANGED <<health, anomalies, passes, callers>>
    BY <1>3 DEF SetPolicy
  <2> QED BY <2>1, <2>2 DEF Inv, TypeOK, StoreOK, ListsEnd, Lists, Ids
<1>4. ASSUME NEW shown \in [Kind -> Severity], NEW found \in SUBSET Kind, Report(shown, found)
      PROVE  Inv'
  <2>1. CASE found = {}
    <3>1. health' \in [Kind -> Severity] /\ UNCHANGED <<policies, anomalies, passes, callers>>
      BY <1>4, <2>1 DEF Report
    <3> QED BY <3>1 DEF Inv, TypeOK, StoreOK, ListsEnd, Lists, Ids
  <2>2. CASE found # {}
    <3> DEFINE e == createAnomaly(CHOOSE k \in found : TRUE, <<>>)
    <3>1. AnomalyOK(e) /\ e.analyses = 0 /\ e \in Anomaly
      <4>1. (CHOOSE k \in found : TRUE) \in Kind
        BY <2>2
      <4> QED BY <1>0, <4>1, Created DEF AnomalyOK
    <3>2. anomalies' = Append(anomalies, e)
      BY <1>4, <2>2 DEF Report
    <3> HIDE DEF e
    <3>3. anomalies \in Seq(Anomaly)
      BY DEF Inv, TypeOK
    <3>4. /\ anomalies' = anomalies \o <<e>> /\ <<e>> \in Seq(Anomaly)
          /\ DOMAIN <<e>> = 1..1 /\ \A i \in 1..1 : <<e>>[i] = e
      BY <3>1, <3>2, <3>3, AppendIsConcat
    <3>5. health' \in [Kind -> Severity] /\ UNCHANGED <<policies, passes, callers>>
      BY <1>4 DEF Report
    <3> DEFINE new == <<e>>
    <3>6. \A i \in 1..1 : AnomalyOK(new[i]) /\ new[i].analyses = 0
      BY <3>1, <3>4
    <3>7. DOMAIN new = 1..1 /\ new \in Seq(Anomaly) /\ anomalies' = anomalies \o new
      BY <3>4
    <3> HIDE DEF new
    <3> QED BY <3>5, <3>6, <3>7, AddStep
  <2> QED BY <2>1, <2>2
<1>5. ASSUME NEW a \in Ids, NEW n \in DOMAIN anomalies[a].plans
      PROVE  /\ PlanOK(anomalies[a].plans[n]) /\ <<a, n>> \in Nat \X Nat
             /\ <<a, n>>[1] = a /\ <<a, n>>[2] = n
  BY StoreOf DEF Inv, StoreOK, AnomalyOK
<1>6. /\ callers \in [Caller -> Nat \X Nat] /\ NoPlan \in Nat \X Nat
      /\ \A c \in Caller : callers[c] # NoPlan =>
           callers[c][1] \in Ids /\ callers[c][2] \in DOMAIN anomalies[callers[c][1]].plans
  BY DEF Inv, TypeOK, NoPlan
<1>7. ASSUME NEW a \in Ids, NEW n \in DOMAIN anomalies[a].plans, Approve(a, n)
      PROVE  Inv'
  <2>1. PlanOK(Approved(anomalies[a].plans[n]))
    BY <1>5, ApprovedKeeps
  <2>2. anomalies' = [anomalies EXCEPT ![a] = WithPlan(a, n, Approved(anomalies[a].plans[n]))]
        /\ UNCHANGED <<policies, health, passes, callers>>
    BY <1>7 DEF Approve
  <2> QED BY <1>6, <2>1, <2>2, WriteStep
<1>8. ASSUME NEW a \in Ids, NEW n \in DOMAIN anomalies[a].plans, NEW c \in Caller, Execute(c, a, n)
      PROVE  Inv'
  <2>1. PlanOK(Started(anomalies[a].plans[n]))
    BY <1>5, <1>8, StartedKeeps DEF Execute
  <2>2. /\ anomalies' = [anomalies EXCEPT ![a] = WithPlan(a, n, Started(anomalies[a].plans[n]))]
        /\ UNCHANGED <<policies, health, passes>> /\ callers' = [callers EXCEPT ![c] = <<a, n>>]
    BY <1>8 DEF Execute
  <2>3. callers' \in [Caller -> Nat \X Nat]
        /\ \A d \in Caller : callers'[d] = IF d = c THEN <<a, n>> ELSE callers[d]
    <3> DEFINE w == <<a, n>>
    <3>1. w \in Nat \X Nat /\ callers \in [Caller -> Nat \X Nat] /\ callers' = [callers EXCEPT ![c] = w]
      BY <1>5, <1>6, <2>2
    <3>2. /\ callers' \in [Caller -> Nat \X Nat]
          /\ \A d \in Caller : callers'[d] = IF d = c THEN w ELSE callers[d]
      <4> HIDE DEF w
      <4> QED BY <3>1
    <3> QED BY <3>2
  <2>4. \A d \in Caller : callers'[d] # NoPlan =>
          callers'[d][1] \in Ids /\ callers'[d][2] \in DOMAIN anomalies[callers'[d][1]].plans
    BY <1>5, <1>6, <2>3
  <2> QED BY <2>1, <2>2, <2>3, <2>4, WriteStep
<1>9. ASSUME NEW c \in Caller, NEW success \in BOOLEAN, Executed(c, success)
      PROVE  Inv'
  <2> DEFINE a == callers[c][1]
             n == callers[c][2]
  <2>1. a \in Ids /\ n \in DOMAIN anomalies[a].plans
    BY <1>6, <1>9 DEF Executed
  <2>2. PlanOK(Ended(anomalies[a].plans[n], success))
    BY <1>5, <2>1, EndedKeeps
  <2>3. /\ anomalies' = [anomalies EXCEPT ![a] = WithPlan(a, n, Ended(anomalies[a].plans[n], success))]
        /\ UNCHANGED <<policies, health, passes>> /\ callers' = [callers EXCEPT ![c] = NoPlan]
    BY <1>9 DEF Executed
  <2>4. callers' \in [Caller -> Nat \X Nat]
        /\ \A d \in Caller : callers'[d] = IF d = c THEN NoPlan ELSE callers[d]
    BY <1>6, <2>3
  <2> HIDE DEF a, n
  <2> QED BY <1>6, <2>1, <2>2, <2>3, <2>4, WriteStep
<1>10. ASSUME NEW p \in Pass, StartPass(p)
       PROVE  Inv'
  <2> DEFINE todo == {a \in Ids : anomalies[a].status = "DETECTED"}
             store == [a \in Ids |-> IF a \in todo THEN Listed(a) ELSE anomalies[a]]
             L == [Lists EXCEPT ![p] = todo]
  <2>1. GoOn(p, store, todo) /\ UNCHANGED <<policies, health, callers>> /\ passes[p].plan = NoPlan
    BY <1>10 DEF StartPass
  <2>2. passes[p].todo = {}
    BY <2>1 DEF Inv, ListsEnd
  <2>3. ASSUME NEW a \in Ids
        PROVE  /\ AnomalyOK(store[a]) /\ DOMAIN store[a].plans = DOMAIN anomalies[a].plans
               /\ store[a].analyses = anomalies[a].analyses /\ Once(a, store[a], L)
    <3>1. AnomalyOK(anomalies[a]) /\ Once(a, anomalies[a], Lists)
      BY DEF Inv, StoreOK
    <3>2. \A q \in Pass : L[q] = IF q = p THEN todo ELSE Lists[q]
      BY DEF Lists
    <3>3. Lists[p] = {}
      BY <2>2 DEF Lists
    <3>4. CASE a \in todo
      <4>1. store[a] = Listed(a) /\ anomalies[a].analyses = 0
        BY <3>1, <3>4 DEF AnomalyOK
      <4>2. /\ AnomalyOK(Listed(a)) /\ Listed(a).plans = anomalies[a].plans
            /\ Listed(a).analyses = anomalies[a].analyses
            /\ Cardinality(On(a, Lists)) \in Nat /\ IsFiniteSet(On(a, Lists))
            /\ Cardinality(On(a, Lists)) + 1 <= Listed(a).overlap
        BY ListedKeeps
      <4>3. On(a, L) = On(a, Lists) \cup {p} /\ p \notin On(a, Lists)
        BY <3>2, <3>3, <3>4 DEF On
      <4> HIDE DEF L, todo, store
      <4>4. Cardinality(On(a, L)) = Cardinality(On(a, Lists)) + 1
        BY <4>2, <4>3, FS_AddElement
      <4> QED BY <4>1, <4>2, <4>4 DEF Once
    <3>5. CASE a \notin todo
      <4>1. store[a] = anomalies[a]
        BY <3>5
      <4>2. On(a, L) = On(a, Lists)
        BY <3>2, <3>3, <3>5 DEF On
      <4> HIDE DEF L, todo, store
      <4> QED BY <3>1, <4>1, <4>2 DEF Once
    <3> QED BY <3>4, <3>5
  <2>4. DOMAIN store = Ids /\ todo \subseteq Ids
    OBVIOUS
  <2>5. \A q \in Pass : q # p => /\ passes[q].plan = NoPlan => passes[q].todo = {}
                                 /\ passes[q].plan # NoPlan => anomalies[passes[q].plan[1]].analyses # 0
    BY DEF Inv, ListsEnd
  <2>6. TypeOK
    BY DEF Inv
  <2> HIDE DEF todo, store
  <2>7. GoodStore(p, store, todo)
    BY <2>3, <2>4, <2>5 DEF GoodStore
  <2> QED BY <2>1, <2>6, <2>7, GoOnKeeps
<1>11. ASSUME NEW p \in Pass, NEW success \in BOOLEAN, Remediated(p, success)
       PROVE  Inv'
  <2> DEFINE a == passes[p].plan[1]
             n == passes[p].plan[2]
             after == [WithPlan(a, n, Ended(anomalies[a].plans[n], success)) EXCEPT !.status = "REMEDIATING"]
             store == [anomalies EXCEPT ![a] = after]
             todo == passes[p].todo
  <2>1. /\ passes[p].plan # NoPlan /\ GoOn(p, store, todo)
        /\ UNCHANGED <<policies, health, callers>>
    BY <1>11 DEF Remediated
  <2>2. a \in Ids /\ n \in DOMAIN anomalies[a].plans
    BY <2>1, WaitsForPlan DEF Inv
  <2>3. PlanOK(Ended(anomalies[a].plans[n], success))
    <3>1. PlanOK(anomalies[a].plans[n])
      BY <1>5, <2>2
    <3> HIDE DEF a, n
    <3> QED BY <3>1, EndedKeeps
  <2> DEFINE e == WithPlan(a, n, Ended(anomalies[a].plans[n], success))
  <2>4. /\ AnomalyOK(e) /\ e.overlap = anomalies[a].overlap
        /\ e.analyses = anomalies[a].analyses /\ DOMAIN e.plans = DOMAIN anomalies[a].plans
        /\ AnomalyOK([e EXCEPT !.status = "REMEDIATING"]) \/ anomalies[a].analyses = 0
    <3>1. a \in Ids /\ AnomalyOK(anomalies[a])
      BY <2>2 DEF Inv, StoreOK
    <3> HIDE DEF a, n
    <3> QED BY <2>2, <2>3, <3>1, WithPlanKeeps
  <2>5. anomalies[a].analyses # 0
    BY <2>1 DEF Inv, ListsEnd
  <2>6. e \in Anomaly
    BY <2>4 DEF AnomalyOK
  <2> HIDE DEF e
  <2>7. /\ after = [e EXCEPT !.status = "REMEDIATING"] /\ AnomalyOK(after)
        /\ after.overlap = e.overlap /\ after.analyses = e.analyses /\ after.plans = e.plans
    BY <2>4, <2>5, <2>6 DEF Anomaly, e
  <2> HIDE DEF after
  <2>8. DOMAIN store = Ids /\ todo \subseteq Ids
    BY DEF Ids, Inv, TypeOK
  <2>9. \A b \in Ids : store[b] = IF b = a THEN after ELSE anomalies[b]
    BY DEF Ids
  <2> HIDE DEF store
  <2>10. [Lists EXCEPT ![p] = todo] = Lists
    BY DEF Lists
  <2> HIDE DEF todo
  <2>11. ASSUME NEW b \in Ids
         PROVE  /\ AnomalyOK(store[b]) /\ DOMAIN store[b].plans = DOMAIN anomalies[b].plans
                /\ store[b].analyses = anomalies[b].analyses
                /\ Once(b, store[b], [Lists EXCEPT ![p] = todo])
    <3>1. AnomalyOK(anomalies[b]) /\ Once(b, anomalies[b], Lists)
      BY DEF Inv, StoreOK
    <3>2. store[b].analyses = anomalies[b].analyses /\ store[b].overlap = anomalies[b].overlap
      BY <2>4, <2>7, <2>9
    <3>3. AnomalyOK(store[b]) /\ DOMAIN store[b].plans = DOMAIN anomalies[b].plans
      BY <2>4, <2>7, <2>9, <3>1
    <3> DEFINE L == Lists
    <3>4. Once(b, anomalies[b], L) /\ L = [Lists EXCEPT ![p] = todo]
      BY <2>10, <3>1
    <3> HIDE DEF L
    <3>5. Once(b, store[b], L)
      BY <3>2, <3>4 DEF Once
    <3> QED BY <3>2, <3>3, <3>4, <3>5
  <2>12. \A q \in Pass : q # p => /\ passes[q].plan = NoPlan => passes[q].todo = {}
                                  /\ passes[q].plan # NoPlan => anomalies[passes[q].plan[1]].analyses # 0
    BY DEF Inv, ListsEnd
  <2>13. TypeOK
    BY DEF Inv
  <2>14. GoodStore(p, store, todo)
    BY <2>8, <2>11, <2>12 DEF GoodStore
  <2> QED BY <2>1, <2>13, <2>14, GoOnKeeps
<1>12. CASE UNCHANGED vars
  BY <1>12 DEF vars, Inv, TypeOK, StoreOK, ListsEnd, Lists, Ids
<1> QED BY <1>1, <1>2, <1>3, <1>4, <1>7, <1>8, <1>9, <1>10, <1>11, <1>12 DEF Next

THEOREM Invariant == Spec => []Inv
BY InitInv, NextInv, PTL DEF Spec

-----------------------------------------------------------------------------

(* The type invariant, for any number of kinds, policies, passes and calls.     *)
THEOREM TypeCorrect == Spec => []TypeOK
<1>1. Inv => TypeOK
  BY DEF Inv
<1> QED BY <1>1, Invariant, PTL

(* No interleaving of approvals, executions and policy changes lets a plan that *)
(* needs approval run more often than it was approved.                          *)
THEOREM ApprovalsNeeded == Spec => []ApprovalsSpent
<1>1. Inv => ApprovalsSpent
  <2> SUFFICES ASSUME Inv, NEW a \in Ids, NEW n \in DOMAIN anomalies[a].plans,
                      RequiresApproval(anomalies[a].plans[n])
               PROVE  anomalies[a].plans[n].runs <= anomalies[a].plans[n].approvals
    BY DEF ApprovalsSpent
  <2>1. PlanOK(anomalies[a].plans[n])
    BY DEF Inv, StoreOK, AnomalyOK
  <2> QED BY <2>1 DEF PlanOK, RemediationAction
<1> QED BY <1>1, Invariant, PTL

(* Passes plan an anomaly no more often than there were passes that had it on   *)
(* their lists together; one never planned is DETECTED, or planning it failed.  *)
THEOREM PlannedOnce == Spec => []ReplannedOnlyByOverlap
<1>1. Inv => ReplannedOnlyByOverlap
  <2> SUFFICES ASSUME Inv, NEW a \in Ids
               PROVE  /\ anomalies[a].analyses <= anomalies[a].overlap
                      /\ anomalies[a].analyses = 0 => anomalies[a].status = "DETECTED" \/ anomalies[a].failed
    BY DEF ReplannedOnlyByOverlap
  <2>1. AnomalyOK(anomalies[a]) /\ Once(a, anomalies[a], Lists)
    BY DEF Inv, StoreOK
  <2> DEFINE h == Cardinality(On(a, Lists))
  <2>2. h \in Nat
    BY HealingAssumption, FS_Subset, FS_CardinalityType DEF On
  <2>3. /\ anomalies[a].analyses \in Nat /\ anomalies[a].overlap \in Nat
        /\ anomalies[a].analyses + h <= anomalies[a].overlap
    BY <2>1 DEF AnomalyOK, Anomaly, Once
  <2> HIDE DEF h
  <2> QED BY <2>1, <2>2, <2>3 DEF AnomalyOK
<1> QED BY <1>1, Invariant, PTL

-----------------------------------------------------------------------------
(* Plans that run *)

(* Somebody waits for a plan, or somebody other than one of the passes.         *)
Awaited(w) == (\E p \in Pass : passes[p].plan = w) \/ (\E c \in Caller : callers[c] = w)
AwaitedBesides(w, p) ==
  (\E q \in Pass : q # p /\ passes[q].plan = w) \/ (\E c \in Caller : callers[c] = w)
IsRunning(e, n) == e.plans[n].status = "EXECUTING"

LEMMA ExecutingAwaited ==
  ExecutingIsAwaited <=>
    \A a \in Ids : \A n \in DOMAIN anomalies[a].plans : IsRunning(anomalies[a], n) => Awaited(<<a, n>>)
BY DEF ExecutingIsAwaited, Awaited, IsRunning

(* What the analysis of an anomaly adds to its plans.                           *)
LEMMA AnalysedRuns ==
  ASSUME NEW e, AnomalyOK(e), NEW n \in DOMAIN Analysed(e).plans, IsRunning(Analysed(e), n)
  PROVE  \/ n \in DOMAIN e.plans /\ IsRunning(e, n)
         \/ /\ n = Len(e.plans) + 1 /\ ~RequiresApproval(planRemediation(e.kind))
            /\ ~PlanningThrows(e.kind)
<1>0. CASE PlanningThrows(e.kind)
  <2>1. Analysed(e).plans = e.plans
    BY <1>0, AnalysedKeeps
  <2> QED BY <2>1 DEF IsRunning
<1> SUFFICES ASSUME ~PlanningThrows(e.kind)
             PROVE  \/ n \in DOMAIN e.plans /\ IsRunning(e, n)
                    \/ n = Len(e.plans) + 1 /\ ~RequiresApproval(planRemediation(e.kind))
  BY <1>0
<1> DEFINE plan == planRemediation(e.kind)
           run == IF RequiresApproval(plan) THEN plan ELSE Started(plan)
<1>1. /\ e \in Anomaly /\ e.plans \in Seq(RemediationAction) /\ run \in RemediationAction
      /\ Len(e.plans) \in Nat /\ DOMAIN e.plans = 1..Len(e.plans)
  BY Planned, StartedKeeps, LenProperties DEF AnomalyOK, Anomaly, PlanOK
<1>2. run.status = "EXECUTING" => ~RequiresApproval(plan)
  BY Planned
<1>3. Analysed(e).plans = Append(e.plans, run)
  BY <1>1 DEF Analysed, Anomaly
<1> HIDE DEF run, plan
<1>4. /\ DOMAIN Append(e.plans, run) = 1..(Len(e.plans) + 1)
      /\ \A m \in 1..Len(e.plans) : Append(e.plans, run)[m] = e.plans[m]
      /\ Append(e.plans, run)[Len(e.plans) + 1] = run
  BY <1>1, AppendProperties, LenProperties
<1>5. n \in 1..Len(e.plans) \/ n = Len(e.plans) + 1
  BY <1>1, <1>3, <1>4
<1> QED BY <1>1, <1>2, <1>3, <1>4, <1>5 DEF IsRunning, plan

(* A pass goes on: the one plan it starts is the one it then waits for.         *)
LEMMA GoOnAwaits ==
  ASSUME Inv, NEW p \in Pass, NEW store, NEW todo, DOMAIN store = Ids, todo \subseteq Ids,
         \A a \in Ids : AnomalyOK(store[a]),
         \A a \in Ids : \A n \in DOMAIN store[a].plans :
           IsRunning(store[a], n) => AwaitedBesides(<<a, n>>, p),
         GoOn(p, store, todo), callers' = callers
  PROVE  ExecutingIsAwaited'
<1> DEFINE Throws(a) == PlanningThrows(store[a].kind)
           auto(a) == ~RequiresApproval(planRemediation(store[a].kind)) /\ ~Throws(a)
<1>1. ASSUME NEW taken, NEW rest, NEW plan,
             anomalies' = [a \in DOMAIN store |-> IF a \in taken THEN Analysed(store[a]) ELSE store[a]],
             passes' = [passes EXCEPT ![p] = [todo |-> rest, plan |-> plan]],
             \A a \in taken : auto(a) => plan = <<a, Len(store[a].plans) + 1>>
      PROVE  ExecutingIsAwaited'
  <2>1. Ids' = Ids
    BY <1>1 DEF Ids
  <2>2. passes'[p].plan = plan /\ \A q \in Pass : q # p => passes'[q] = passes[q]
    BY <1>1 DEF Inv, TypeOK
  <2>3. \A w : AwaitedBesides(w, p) => Awaited(w)'
    BY <2>2 DEF AwaitedBesides, Awaited
  <2>4. Awaited(plan)'
    BY <2>2 DEF Awaited
  <2>5. ASSUME NEW a \in Ids, NEW n \in DOMAIN anomalies'[a].plans, IsRunning(anomalies'[a], n)
        PROVE  Awaited(<<a, n>>)'
    <3>1. CASE a \notin taken
      <4>1. anomalies'[a] = store[a]
        BY <1>1, <3>1
      <4> QED BY <2>3, <2>5, <4>1
    <3>2. CASE a \in taken
      <4>1. anomalies'[a] = Analysed(store[a])
        BY <1>1, <3>2
      <4>2. \/ n \in DOMAIN store[a].plans /\ IsRunning(store[a], n)
            \/ n = Len(store[a].plans) + 1 /\ auto(a)
        BY <2>5, <4>1, AnalysedRuns
      <4>3. CASE n \in DOMAIN store[a].plans /\ IsRunning(store[a], n)
        BY <2>3, <4>3
      <4>4. CASE n = Len(store[a].plans) + 1 /\ auto(a)
        BY <1>1, <2>4, <3>2, <4>4
      <4> QED BY <4>2, <4>3, <4>4
    <3> QED BY <3>1, <3>2
  <2>6. \A a \in Ids' : \A n \in DOMAIN anomalies'[a].plans :
          IsRunning(anomalies'[a], n) => Awaited(<<a, n>>)'
    BY <2>1, <2>5
  <2> QED BY <2>6 DEF ExecutingIsAwaited, Awaited, IsRunning
<1> DEFINE stops == {a \in todo : Throws(a) \/ ~RequiresApproval(planRemediation(store[a].kind))}
           Take(taken) == anomalies' = [b \in DOMAIN store |-> IF b \in taken THEN Analysed(store[b]) ELSE store[b]]
           Wait(rest, plan) == passes' = [passes EXCEPT ![p] = [todo |-> rest, plan |-> plan]]
           upTo(a) == {b \in todo : b <= a}
<1>2. CASE stops = {} /\ Take(todo) /\ Wait({}, NoPlan)
  <2>1. \A a \in todo : auto(a) => NoPlan = <<a, Len(store[a].plans) + 1>>
    BY <1>2
  <2> QED BY <1>1, <1>2, <2>1
<1>3. ASSUME NEW a \in stops, \A b \in stops : a <= b, NEW b \in upTo(a), auto(b)
      PROVE  b = a
  <2>1. b \in stops /\ a \in Nat /\ b \in Nat
    BY <1>3, StoreOf DEF Inv
  <2> QED BY <1>3, <2>1
<1>4. ASSUME NEW a \in stops, \A b \in stops : a <= b, Take(upTo(a)), Throws(a), Wait({}, NoPlan)
      PROVE  ExecutingIsAwaited'
  <2>1. \A b \in upTo(a) : auto(b) => NoPlan = <<b, Len(store[b].plans) + 1>>
    BY <1>3, <1>4
  <2> QED BY <1>1, <1>4, <2>1
<1>5. ASSUME NEW a \in stops, \A b \in stops : a <= b, Take(upTo(a)),
             Wait({b \in todo : b > a}, <<a, Len(store[a].plans) + 1>>)
      PROVE  ExecutingIsAwaited'
  <2> DEFINE rest == {b \in todo : b > a}
             plan == <<a, Len(store[a].plans) + 1>>
             taken == upTo(a)
  <2>1. \A b \in taken : auto(b) => plan = <<b, Len(store[b].plans) + 1>>
    BY <1>3, <1>5
  <2>2. Take(taken) /\ Wait(rest, plan)
    BY <1>5
  <2> HIDE DEF taken, rest, plan, auto
  <2> QED BY <1>1, <2>1, <2>2
<1>6. \/ stops = {} /\ Take(todo) /\ Wait({}, NoPlan)
      \/ \E a \in stops :
           /\ \A b \in stops : a <= b
           /\ Take(upTo(a))
           /\ \/ Throws(a) /\ Wait({}, NoPlan)
              \/ Wait({b \in todo : b > a}, <<a, Len(store[a].plans) + 1>>)
  BY DEF GoOn
<1> HIDE DEF stops, Take, Wait, upTo, Throws
<1> QED BY <1>2, <1>4, <1>5, <1>6

(* A plan is written back, and nobody stops waiting for another.                *)
LEMMA WriteAwaits ==
  ASSUME Inv, ExecutingIsAwaited, NEW a \in Ids, NEW n \in DOMAIN anomalies[a].plans, NEW plan,
         anomalies' = [anomalies EXCEPT ![a] = WithPlan(a, n, plan)],
         plan.status = "EXECUTING" => Awaited(<<a, n>>)',
         \A w \in Nat \X Nat : w # <<a, n>> /\ w # NoPlan /\ Awaited(w) => Awaited(w)'
  PROVE  ExecutingIsAwaited'
<1>1. anomalies[a] \in Anomaly /\ anomalies[a].plans \in Seq(RemediationAction)
  BY StoreOf DEF Inv
<1>2. /\ WithPlan(a, n, plan).plans = [anomalies[a].plans EXCEPT ![n] = plan]
  BY <1>1 DEF WithPlan, Anomaly
<1>3. Ids' = Ids /\ anomalies'[a] = WithPlan(a, n, plan) /\ \A b \in Ids : b # a => anomalies'[b] = anomalies[b]
  BY DEF Ids
<1>4. ASSUME NEW b \in Ids, NEW m \in DOMAIN anomalies'[b].plans, IsRunning(anomalies'[b], m)
      PROVE  Awaited(<<b, m>>)'
  <2>1. CASE b = a /\ m = n
    <3>1. anomalies'[b].plans[m] = plan
      BY <1>2, <1>3, <2>1
    <3> QED BY <1>4, <2>1, <3>1 DEF IsRunning
  <2>2. CASE ~(b = a /\ m = n)
    <3>1. m \in DOMAIN anomalies[b].plans /\ anomalies'[b].plans[m] = anomalies[b].plans[m]
      BY <1>2, <1>3, <1>4, <2>2
    <3>2. Awaited(<<b, m>>)
      BY <1>4, <3>1, ExecutingAwaited DEF IsRunning
    <3>3. <<b, m>> \in Nat \X Nat /\ <<b, m>> # <<a, n>> /\ <<b, m>> # NoPlan
      BY <2>2, <3>1, StoreOf DEF Inv, NoPlan
    <3> QED BY <3>2, <3>3
  <2> QED BY <2>1, <2>2
<1>5. \A b \in Ids' : \A m \in DOMAIN anomalies'[b].plans :
        IsRunning(anomalies'[b], m) => Awaited(<<b, m>>)'
  BY <1>3, <1>4
<1> QED BY <1>5 DEF ExecutingIsAwaited, Awaited, IsRunning

(* Anomalies are added with plans that nobody has started.                      *)
LEMMA AddAwaits ==
  ASSUME Inv, ExecutingIsAwaited, NEW new \in Seq(Anomaly), anomalies' = anomalies \o new,
         \A i \in DOMAIN new : \A n \in DOMAIN new[i].plans : ~IsRunning(new[i], n),
         UNCHANGED <<passes, callers>>
  PROVE  ExecutingIsAwaited'
<1>1. /\ anomalies \in Seq(Anomaly) /\ Ids = 1..Len(anomalies) /\ Len(anomalies) \in Nat
      /\ Len(new) \in Nat /\ DOMAIN new = 1..Len(new)
  BY StoreOf, LenProperties DEF Inv, TypeOK
<1>2. /\ anomalies' \in Seq(Anomaly) /\ Len(anomalies') = Len(anomalies) + Len(new)
      /\ \A i \in 1..(Len(anomalies) + Len(new)) :
           anomalies'[i] = IF i <= Len(anomalies) THEN anomalies[i] ELSE new[i - Len(anomalies)]
  BY <1>1, ConcatProperties
<1>3. Ids' = 1..(Len(anomalies) + Len(new))
  BY <1>2, LenProperties DEF Ids
<1>4. \A w : Awaited(w) => Awaited(w)'
  BY DEF Awaited
<1>5. ASSUME NEW b \in Ids', NEW m \in DOMAIN anomalies'[b].plans, IsRunning(anomalies'[b], m)
      PROVE  Awaited(<<b, m>>)'
  <2>1. CASE b <= Len(anomalies)
    <3>1. b \in Ids /\ anomalies'[b] = anomalies[b]
      BY <1>1, <1>2, <1>3, <2>1
    <3>2. Awaited(<<b, m>>)
      BY <1>5, <3>1, ExecutingAwaited
    <3> QED BY <1>4, <3>2
  <2>2. CASE ~(b <= Len(anomalies))
    <3>1. b - Len(anomalies) \in DOMAIN new /\ anomalies'[b] = new[b - Len(anomalies)]
      BY <1>1, <1>2, <1>3, <2>2
    <3> QED BY <1>5, <3>1
  <2> QED BY <2>1, <2>2
<1>6. \A b \in Ids' : \A m \in DOMAIN anomalies'[b].plans :
        IsRunning(anomalies'[b], m) => Awaited(<<b, m>>)'
  BY <1>5
<1> QED BY <1>6 DEF ExecutingIsAwaited, Awaited, IsRunning

LEMMA DetectAwaits ==
  ASSUME Inv, ExecutingIsAwaited, NEW new, NEW throws, detectAnomalies(new, throws),
         \A k \in Kind : AnomalyOK(new[k]) /\ \A n \in DOMAIN new[k].plans : ~IsRunning(new[k], n)
  PROVE  ExecutingIsAwaited'
<1>1. PICK m \in Nat : \E order : /\ \A i \in 1..m : order[i] \in Kind
                                  /\ anomalies' = anomalies \o [i \in 1..m |-> new[order[i]]]
  BY DetectAdds
<1>2. PICK order : /\ \A i \in 1..m : order[i] \in Kind
                   /\ anomalies' = anomalies \o [i \in 1..m |-> new[order[i]]]
  BY <1>1
<1> DEFINE added == [i \in 1..m |-> new[order[i]]]
<1>3. \A i \in 1..m : order[i] \in Kind
  BY <1>2
<1>4. \A i \in 1..m : added[i] \in Anomaly /\ \A n \in DOMAIN added[i].plans : ~IsRunning(added[i], n)
  BY <1>3 DEF AnomalyOK
<1>5. added \in Seq(Anomaly) /\ DOMAIN added = 1..m
  BY <1>4, SeqDef
<1>6. UNCHANGED <<passes, callers>> /\ anomalies' = anomalies \o added
  BY <1>2 DEF detectAnomalies
<1> HIDE DEF added
<1> QED BY <1>4, <1>5, <1>6, AddAwaits

LEMMA AwaitedStep == Inv /\ ExecutingIsAwaited /\ [Next]_vars => ExecutingIsAwaited'
<1> SUFFICES ASSUME Inv, ExecutingIsAwaited, [Next]_vars PROVE ExecutingIsAwaited'
  OBVIOUS
<1>0. <<>> \in Seq(RemediationAction) /\ DOMAIN <<>> = {}
  BY EmptySeq
<1>1. ASSUME NEW k
      PROVE  createAnomaly(k, <<>>).plans = <<>>
  BY DEF createAnomaly
<1>2. CASE Detect
  <2> DEFINE throws == {k \in Found : health[k] = "critical" /\ PlanningThrows(k)}
             plans(k) == IF health[k] = "critical" /\ k \notin throws THEN <<planRemediation(k)>> ELSE <<>>
             new == [k \in Kind |-> createAnomaly(k, plans(k))]
  <2>1. ASSUME NEW k \in Kind
        PROVE  /\ plans(k) \in Seq(RemediationAction) /\ \A n \in DOMAIN plans(k) : PlanOK(plans(k)[n])
               /\ \A n \in DOMAIN plans(k) : plans(k)[n].status = "PENDING"
    <3>1. PlanOK(planRemediation(k)) /\ planRemediation(k) \in RemediationAction
          /\ planRemediation(k).status = "PENDING"
      BY Planned DEF PlanOK
    <3> DEFINE plan == planRemediation(k)
    <3> HIDE DEF plan
    <3>2. <<plan>> \in Seq(RemediationAction) /\ DOMAIN <<plan>> = {1} /\ <<plan>>[1] = plan
      BY <3>1 DEF plan
    <3> QED BY <1>0, <3>1, <3>2 DEF plan
  <2>2. ASSUME NEW k \in Kind
        PROVE  AnomalyOK(new[k]) /\ \A n \in DOMAIN new[k].plans : ~IsRunning(new[k], n)
    <3>1. AnomalyOK(new[k])
      BY <2>1, Created
    <3>2. new[k].plans = plans(k)
      BY DEF createAnomaly
    <3> HIDE DEF new, plans
    <3> QED BY <2>1, <3>1, <3>2 DEF IsRunning
  <2>3. detectAnomalies(new, throws)
    BY <1>2 DEF Detect
  <2> HIDE DEF new
  <2> QED BY <2>2, <2>3, DetectAwaits
<1>3. CASE CronMinute
  <2> DEFINE new == [k \in Kind |-> createAnomaly(k, <<>>)]
  <2>1. \A k \in Kind : AnomalyOK(new[k]) /\ \A n \in DOMAIN new[k].plans : ~IsRunning(new[k], n)
    BY <1>0, <1>1, Created
  <2>2. detectAnomalies(new, {})
    BY <1>3 DEF CronMinute
  <2> HIDE DEF new
  <2> QED BY <2>1, <2>2, DetectAwaits
<1>4. CASE UNCHANGED <<anomalies, passes, callers>>
  BY <1>4 DEF ExecutingIsAwaited, Ids
<1>5. ASSUME NEW shown \in [Kind -> Severity], NEW found \in SUBSET Kind, Report(shown, found)
      PROVE  ExecutingIsAwaited'
  <2>1. CASE found = {}
    BY <1>4, <1>5, <2>1 DEF Report
  <2>2. CASE found # {}
    <3> DEFINE e == createAnomaly(CHOOSE k \in found : TRUE, <<>>)
    <3>1. AnomalyOK(e) /\ e \in Anomaly /\ e.plans = <<>>
      <4>1. (CHOOSE k \in found : TRUE) \in Kind
        BY <2>2
      <4> QED BY <1>0, <1>1, <4>1, Created DEF AnomalyOK
    <3>2. anomalies' = Append(anomalies, e) /\ UNCHANGED <<passes, callers>>
      BY <1>5, <2>2 DEF Report
    <3> HIDE DEF e
    <3>3. anomalies \in Seq(Anomaly)
      BY DEF Inv, TypeOK
    <3> DEFINE new == <<e>>
    <3>4. /\ anomalies' = anomalies \o new /\ new \in Seq(Anomaly)
          /\ DOMAIN new = {1} /\ new[1] = e
      BY <3>1, <3>2, <3>3, AppendIsConcat
    <3> HIDE DEF new
    <3> QED BY <1>0, <3>1, <3>2, <3>4, AddAwaits
  <2> QED BY <2>1, <2>2
<1>6. ASSUME NEW a \in Ids, NEW n \in DOMAIN anomalies[a].plans
      PROVE  /\ PlanOK(anomalies[a].plans[n]) /\ anomalies[a].plans[n] \in RemediationAction
             /\ <<a, n>> # NoPlan /\ <<a, n>>[1] = a /\ <<a, n>>[2] = n
  BY StoreOf DEF Inv, StoreOK, AnomalyOK, PlanOK, NoPlan
<1>7. /\ callers \in [Caller -> Nat \X Nat]
      /\ \A w : Awaited(w) /\ w # NoPlan => w[1] \in Ids /\ w[2] \in DOMAIN anomalies[w[1]].plans
  BY DEF Inv, TypeOK, Awaited
<1>8. ASSUME NEW a \in Ids, NEW n \in DOMAIN anomalies[a].plans, Approve(a, n)
      PROVE  ExecutingIsAwaited'
  <2>1. Approved(anomalies[a].plans[n]).status = "APPROVED"
    BY <1>6 DEF Approved, RemediationAction
  <2>2. anomalies' = [anomalies EXCEPT ![a] = WithPlan(a, n, Approved(anomalies[a].plans[n]))]
        /\ UNCHANGED <<passes, callers>>
    BY <1>8 DEF Approve
  <2>3. \A w : Awaited(w) => Awaited(w)'
    BY <2>2 DEF Awaited
  <2> QED BY <2>1, <2>2, <2>3, WriteAwaits
<1>9. ASSUME NEW a \in Ids, NEW n \in DOMAIN anomalies[a].plans, NEW c \in Caller, Execute(c, a, n)
      PROVE  ExecutingIsAwaited'
  <2>1. /\ anomalies' = [anomalies EXCEPT ![a] = WithPlan(a, n, Started(anomalies[a].plans[n]))]
        /\ callers[c] = NoPlan
        /\ passes' = passes /\ callers' = [callers EXCEPT ![c] = <<a, n>>]
    BY <1>9 DEF Execute
  <2>2. callers'[c] = <<a, n>> /\ \A d \in Caller : d # c => callers'[d] = callers[d]
    BY <1>7, <2>1
  <2>3. Awaited(<<a, n>>)' /\ \A w : w # NoPlan /\ Awaited(w) => Awaited(w)'
    BY <2>1, <2>2 DEF Awaited
  <2> QED BY <2>1, <2>3, WriteAwaits
<1>10. ASSUME NEW c \in Caller, NEW success \in BOOLEAN, Executed(c, success)
       PROVE  ExecutingIsAwaited'
  <2> DEFINE a == callers[c][1]
             n == callers[c][2]
  <2>1. callers[c] # NoPlan /\ a \in Ids /\ n \in DOMAIN anomalies[a].plans
    BY <1>7, <1>10 DEF Executed, Awaited
  <2>2. Ended(anomalies[a].plans[n], success).status # "EXECUTING"
    BY <1>6, <2>1 DEF Ended, RemediationAction
  <2>3. /\ anomalies' = [anomalies EXCEPT ![a] = WithPlan(a, n, Ended(anomalies[a].plans[n], success))]
        /\ passes' = passes /\ callers' = [callers EXCEPT ![c] = NoPlan]
    BY <1>10 DEF Executed
  <2>4. callers[c] = <<a, n>> /\ \A d \in Caller : d # c => callers'[d] = callers[d]
    BY <1>7, <2>3
  <2> HIDE DEF a, n
  <2>5. \A w : w # <<a, n>> /\ Awaited(w) => Awaited(w)'
    BY <2>3, <2>4 DEF Awaited
  <2> QED BY <2>1, <2>2, <2>3, <2>5, WriteAwaits
<1>11. ASSUME NEW a \in Ids, NEW n \in DOMAIN anomalies[a].plans, IsRunning(anomalies[a], n),
              NEW p \in Pass, passes[p].plan # <<a, n>>
       PROVE  AwaitedBesides(<<a, n>>, p)
  <2>1. Awaited(<<a, n>>)
    BY <1>11, ExecutingAwaited
  <2> QED BY <1>11, <2>1 DEF Awaited, AwaitedBesides
<1>12. ASSUME NEW p \in Pass, StartPass(p)
       PROVE  ExecutingIsAwaited'
  <2> DEFINE todo == {a \in Ids : anomalies[a].status = "DETECTED"}
             store == [a \in Ids |-> IF a \in todo THEN Listed(a) ELSE anomalies[a]]
  <2>1. GoOn(p, store, todo) /\ callers' = callers /\ passes[p].plan = NoPlan
    BY <1>12 DEF StartPass
  <2>2. ASSUME NEW a \in Ids
        PROVE  AnomalyOK(store[a]) /\ store[a].plans = anomalies[a].plans
    <3>1. AnomalyOK(Listed(a)) /\ Listed(a).plans = anomalies[a].plans /\ AnomalyOK(anomalies[a])
      BY ListedKeeps DEF Inv, StoreOK
    <3> QED BY <3>1
  <2>3. DOMAIN store = Ids /\ todo \subseteq Ids
    OBVIOUS
  <2> HIDE DEF todo, store
  <2>4. ASSUME NEW a \in Ids, NEW n \in DOMAIN store[a].plans, IsRunning(store[a], n)
        PROVE  AwaitedBesides(<<a, n>>, p)
    <3>1. n \in DOMAIN anomalies[a].plans /\ IsRunning(anomalies[a], n)
      BY <2>2, <2>4 DEF IsRunning
    <3> QED BY <1>6, <1>11, <2>1, <3>1
  <2> QED BY <2>1, <2>2, <2>3, <2>4, GoOnAwaits
<1>13. ASSUME NEW p \in Pass, NEW success \in BOOLEAN, Remediated(p, success)
       PROVE  ExecutingIsAwaited'
  <2> DEFINE a == passes[p].plan[1]
             n == passes[p].plan[2]
             plan == Ended(anomalies[a].plans[n], success)
             after == [WithPlan(a, n, plan) EXCEPT !.status = "REMEDIATING"]
             store == [anomalies EXCEPT ![a] = after]
             todo == passes[p].todo
  <2>1. passes[p].plan # NoPlan /\ GoOn(p, store, todo) /\ callers' = callers
    BY <1>13 DEF Remediated
  <2>2. /\ a \in Ids /\ n \in DOMAIN anomalies[a].plans /\ passes[p].plan = <<a, n>>
        /\ todo \subseteq Ids
    BY <2>1, WaitsForPlan DEF Inv
  <2>3. PlanOK(plan) /\ plan.status # "EXECUTING"
    <3>1. PlanOK(anomalies[a].plans[n])
      BY <1>6, <2>2
    <3> HIDE DEF a, n
    <3> QED BY <3>1, EndedKeeps
  <2> HIDE DEF plan
  <2>4. anomalies[a] \in Anomaly /\ AnomalyOK(anomalies[a]) /\ anomalies[a].analyses # 0
    BY <2>1, <2>2, StoreOf DEF Inv, StoreOK, ListsEnd
  <2>5. AnomalyOK(after)
    BY <2>2, <2>3, <2>4, WithPlanKeeps
  <2>6. after.plans = [anomalies[a].plans EXCEPT ![n] = plan]
    BY <2>4 DEF WithPlan, Anomaly
  <2> HIDE DEF after
  <2>7. /\ DOMAIN store = Ids
        /\ \A b \in Ids : store[b] = IF b = a THEN after ELSE anomalies[b]
    BY DEF Ids
  <2> HIDE DEF store, todo, a, n
  <2>8. \A b \in Ids : AnomalyOK(store[b])
    BY <2>5, <2>7 DEF Inv, StoreOK
  <2>9. ASSUME NEW b \in Ids, NEW m \in DOMAIN store[b].plans, IsRunning(store[b], m)
        PROVE  AwaitedBesides(<<b, m>>, p)
    <3>1. ~(b = a /\ m = n)
      BY <2>2, <2>3, <2>6, <2>7, <2>9 DEF IsRunning
    <3>2. m \in DOMAIN anomalies[b].plans /\ IsRunning(anomalies[b], m)
      BY <2>6, <2>7, <2>9, <3>1 DEF IsRunning
    <3>3. passes[p].plan # <<b, m>>
      BY <2>2, <3>1
    <3> QED BY <1>11, <3>2, <3>3
  <2> QED BY <2>1, <2>2, <2>7, <2>8, <2>9, GoOnAwaits
<1>14. ASSUME NEW p \in Policy, NEW body \in PolicyBody, SetPolicy(p, body)
       PROVE  ExecutingIsAwaited'
  BY <1>4, <1>14 DEF SetPolicy
<1>15. CASE UNCHANGED vars
  BY <1>4, <1>15 DEF vars
<1> QED BY <1>2, <1>3, <1>5, <1>8, <1>9, <1>10, <1>12, <1>13, <1>14, <1>15 DEF Next

(* A plan that is shown EXECUTING has a call or a pass that will end it.        *)
THEOREM AwaitedTheorem == Spec => []ExecutingIsAwaited
<1>1. Init => ExecutingIsAwaited
  BY EmptySeq DEF Init, ExecutingIsAwaited, Ids
<1> QED BY <1>1, AwaitedStep, Invariant, PTL DEF Spec

===============================================================================
