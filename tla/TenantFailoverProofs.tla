------------------------- MODULE TenantFailoverProofs -------------------------
(* Proofs about the failover of providers, for any capabilities, providers,    *)
(* priorities and clients.                                                     *)
EXTENDS TenantFailover, TLAPS

(* The priorities a set of swaps was planned with are still the current ones.  *)
Fresh(S) == \A s \in S : priority[s.from] = s.high /\ priority[s.to] = s.low

(* What a pass reads is well-formed, and true when it is read.                 *)
LEMMA SnapshotFits ==
  ASSUME TypeOK, NEW S \in Snapshots
  PROVE  WellFormed(S) /\ Fresh(S)
<1> DEFINE all == UNION {Swaps(p) : p \in UNION {Foremost(RowsOf(c)) : c \in Capability}}
<1>1. S \subseteq all
  BY DEF Snapshots
<1>2. ASSUME NEW s \in all
      PROVE  /\ s \in Swap /\ s.from \in Rows /\ s.to \in Rows
             /\ s.from[1] = s.to[1] /\ s.from # s.to
             /\ priority[s.from] = s.high /\ priority[s.to] = s.low
  <2>1. PICK p \in Rows : s \in Swaps(p)
    BY DEF Foremost, RowsOf, Rows
  <2>2. PICK q \in Fallbacks(p) : s = [from |-> p, to |-> q, high |-> priority[p], low |-> priority[q]]
    BY <2>1 DEF Swaps
  <2>3. q \in Rows /\ q[1] = p[1] /\ q # p
    BY DEF Fallbacks, Foremost, RowsOf
  <2>4. priority[p] \in Priorities /\ priority[q] \in Priorities /\ p \in Offers /\ q \in Offers
    BY <2>3 DEF TypeOK
  <2> QED BY <2>2, <2>3, <2>4 DEF Swap
<1>3. ASSUME NEW s \in S, NEW t \in S, s.from[1] = t.from[1]
      PROVE  s = t
  <2> DEFINE c == s.from[1]
             mine == {x \in S : x.from[1] = c}
  <2>1. c \in Capability
    BY <1>1, <1>2 DEF Capability
  <2>2. mine = {} \/ \E x : mine = {x}
    BY <2>1 DEF Snapshots
  <2>3. s \in mine /\ t \in mine
    BY <1>3
  <2> QED BY <2>2, <2>3
<1> QED BY <1>1, <1>2, <1>3 DEF WellFormed, Fresh

(* A step of a pass, whether it begins or goes on.                             *)
LEMMA ContinueTyped ==
  ASSUME TypeOK, NEW r \in Runners, NEW todo, NEW scheduled \in BOOLEAN,
         WellFormed(todo), r \in awaiting => todo = plan[r],
         Continue(r, todo, scheduled), UNCHANGED <<down, registrations, monitored, gaveUp>>,
         mixed' \in BOOLEAN
  PROVE  TypeOK'
<1>1. CASE todo = {}
  <2>1. UNCHANGED <<priority, plan>> /\ awaiting' = awaiting \ {r} /\ alarmSet' \in BOOLEAN
    BY <1>1 DEF Continue, Reschedule
  <2>2. plan[r] = {}
    BY <1>1 DEF TypeOK
  <2> QED BY <2>1, <2>2 DEF TypeOK, Rows, WellFormed
<1>2. ASSUME NEW s \in todo, SwapPriorities(s),
             plan' = [plan EXCEPT ![r] = todo \ {s}],
             awaiting' = awaiting \union {r}, alarmSet' = scheduled
      PROVE  TypeOK'
  <2>1. s.from \in Rows /\ s.to \in Rows /\ s.high \in Priorities /\ s.low \in Priorities
    BY <1>2 DEF WellFormed, Swap
  <2>2. priority' \in [Rows -> Priorities] /\ Rows' = Rows
    BY <1>2, <2>1 DEF SwapPriorities, TypeOK, Rows
  <2>3. WellFormed(todo \ {s})
    BY DEF WellFormed
  <2>4. \A x \in Runners : WellFormed(plan'[x]) /\ (plan'[x] # {} => x \in awaiting')
    BY <1>2, <2>3 DEF TypeOK
  <2>5. \A x \in Runners : WellFormed(plan[x])'
    BY <2>2, <2>4 DEF WellFormed
  <2>6. plan' \in [Runners -> SUBSET Swap]
    BY <1>2, <2>3 DEF TypeOK, WellFormed
  <2> QED BY <1>2, <2>2, <2>4, <2>5, <2>6 DEF TypeOK
<1> QED BY <1>1, <1>2 DEF Continue

(* Passes that end early leave a well-formed rest to the others.               *)
LEMMA EndPassesTyped ==
  ASSUME TypeOK, NEW rs \in SUBSET Runners, EndPasses(rs),
         UNCHANGED <<tables, registrations, monitored, mixed>>,
         alarmSet' \in BOOLEAN, gaveUp' \in BOOLEAN
  PROVE  TypeOK'
<1>1. Rows' = Rows
  BY DEF tables, Rows
<1>2. \A x \in Runners : plan'[x] = {} \/ (plan'[x] = plan[x] /\ x \notin rs)
  BY DEF EndPasses
<1>3. \A x \in Runners : WellFormed(plan[x])' /\ (plan'[x] # {} => x \in awaiting')
  BY <1>1, <1>2 DEF EndPasses, TypeOK, WellFormed
<1> QED BY <1>1, <1>3 DEF EndPasses, TypeOK, tables

(* The type invariant holds initially and is kept by every action.             *)
LEMMA TypeInit == Init => TypeOK
<1> SUFFICES ASSUME Init PROVE TypeOK
  OBVIOUS
<1>1. Rows = {} /\ priority \in [Rows -> Priorities]
  BY DEF Init, Rows
<1>2. \A r \in Runners : plan[r] = {}
  BY DEF Init
<1>3. \A r \in Runners : WellFormed(plan[r])
  BY <1>2 DEF WellFormed
<1>4. registrations \in 0..MaxRegistrations
  BY FailoverAssumption DEF Init
<1> QED BY <1>1, <1>2, <1>3, <1>4 DEF Init, TypeOK

LEMMA TypeNext == TypeOK /\ [Next]_vars => TypeOK'
<1> SUFFICES ASSUME TypeOK, [Next]_vars PROVE TypeOK'
  OBVIOUS
<1>1. ASSUME NEW o \in Offers, NEW n \in Priorities, Register(o, n)
      PROVE  TypeOK'
  <2>1. /\ priority' \in [Rows \union {o} -> Priorities]
        /\ Rows' = Rows \union {o} /\ down' \subseteq Rows' /\ mixed' \in BOOLEAN
    BY <1>1 DEF Register, TypeOK, Rows
  <2>2. \A x \in Runners : WellFormed(plan[x])'
    BY <1>1, <2>1 DEF Register, passes, TypeOK, WellFormed
  <2>3. registrations' \in 0..MaxRegistrations
    BY <1>1, FailoverAssumption DEF Register, TypeOK
  <2> QED BY <1>1, <2>1, <2>2, <2>3 DEF Register, passes, TypeOK
<1>2. ASSUME NEW r \in Rows, ReportHealth(r)
      PROVE  TypeOK'
  BY <1>2 DEF ReportHealth, passes, history, TypeOK, Rows, WellFormed
<1>3. CASE StartMonitoring
  BY <1>3 DEF StartMonitoring, tables, passes, TypeOK, Rows, WellFormed
<1>4. CASE StopMonitoring
  BY <1>4 DEF StopMonitoring, tables, passes, TypeOK, Rows, WellFormed
<1>5. CASE Crash
  <2>1. alarmSet' \in BOOLEAN /\ gaveUp' \in BOOLEAN
    BY <1>5 DEF Crash, RetryAlarm, TypeOK
  <2> QED BY <1>5, <2>1, EndPassesTyped DEF Crash, TypeOK
<1>6. ASSUME NEW r \in Runners, Begin(r)
      PROVE  TypeOK'
  <2>1. PICK todo \in Snapshots : Continue(r, todo, IF r = "alarm" THEN FALSE ELSE alarmSet)
    BY <1>6 DEF Begin
  <2>2. WellFormed(todo)
    BY SnapshotFits
  <2> QED BY <1>6, <2>1, <2>2, ContinueTyped DEF Begin, TypeOK
<1>7. ASSUME NEW r \in Runners, Sent(r)
      PROVE  TypeOK'
  <2>1. WellFormed(plan[r]) /\ alarmSet \in BOOLEAN
    BY DEF TypeOK
  <2> QED BY <1>7, <2>1, ContinueTyped DEF Sent, history, TypeOK
<1>8. ASSUME NEW r \in Runners, SendFails(r)
      PROVE  TypeOK'
  <2>1. alarmSet' \in BOOLEAN /\ gaveUp' \in BOOLEAN
    BY <1>8 DEF SendFails, RetryAlarm, TypeOK
  <2> QED BY <1>8, <2>1, EndPassesTyped DEF SendFails
<1>9. CASE UNCHANGED vars
  BY <1>9 DEF vars, tables, passes, history, TypeOK, Rows, WellFormed
<1> QED BY <1>1, <1>2, <1>3, <1>4, <1>5, <1>6, <1>7, <1>8, <1>9 DEF Next

(* Type correctness: a pass in progress has well-formed swaps of registered    *)
(* providers left, and an idle runner none.                                    *)
THEOREM TypeCorrect == Spec => []TypeOK
BY TypeInit, TypeNext, PTL DEF Spec

-------------------------------------------------------------------------------
(* Monitoring that was started and not stopped goes on, until the platform     *)
(* gives up: every way out of an alarm's pass schedules the next or ends in    *)
(* gaveUp.                                                                     *)
LEMMA MonitoringNext == TypeOK /\ MonitoringGoesOn /\ [Next]_vars => MonitoringGoesOn'
<1> SUFFICES ASSUME TypeOK, MonitoringGoesOn, [Next]_vars PROVE MonitoringGoesOn'
  OBVIOUS
<1> USE DEF MonitoringGoesOn
<1>1. ASSUME NEW r \in Runners, NEW todo, NEW scheduled \in BOOLEAN,
             Continue(r, todo, scheduled), UNCHANGED <<monitored, gaveUp>>,
             alarmSet /\ r # "alarm" => scheduled,
             alarmSet /\ r \in awaiting => scheduled
      PROVE  MonitoringGoesOn'
  <2>1. CASE r = "alarm"
    <3>1. r \in awaiting' \/ alarmSet'
      BY <1>1, <2>1 DEF Continue, Reschedule
    <3> QED BY <3>1, <2>1
  <2>2. CASE r # "alarm"
    <3>1. alarmSet => alarmSet'
      BY <1>1, <2>2 DEF Continue, Reschedule
    <3>2. "alarm" \in awaiting => "alarm" \in awaiting'
      BY <1>1, <2>2 DEF Continue
    <3> QED BY <1>1, <3>1, <3>2
  <2> QED BY <2>1, <2>2
<1>2. ASSUME NEW r \in Runners, Begin(r) PROVE MonitoringGoesOn'
  <2>1. PICK todo : Continue(r, todo, IF r = "alarm" THEN FALSE ELSE alarmSet)
    BY <1>2 DEF Begin
  <2>2. UNCHANGED <<monitored, gaveUp>> /\ r \notin awaiting
    BY <1>2 DEF Begin
  <2>3. (IF r = "alarm" THEN FALSE ELSE alarmSet) \in BOOLEAN
    BY DEF TypeOK
  <2> QED BY <2>1, <2>2, <2>3, <1>1
<1>3. ASSUME NEW r \in Runners, Sent(r) PROVE MonitoringGoesOn'
  BY <1>3, <1>1 DEF Sent, history, TypeOK
<1>4. ASSUME NEW r \in Runners, SendFails(r) PROVE MonitoringGoesOn'
  BY <1>4 DEF SendFails, EndPasses, RetryAlarm, TypeOK
<1>5. CASE Crash
  BY <1>5 DEF Crash, EndPasses, RetryAlarm, TypeOK
<1>6. CASE StartMonitoring \/ StopMonitoring
  BY <1>6 DEF StartMonitoring, StopMonitoring
<1>7. CASE (\E o \in Offers, n \in Priorities : Register(o, n)) \/ \E r \in Rows : ReportHealth(r)
  BY <1>7 DEF Register, ReportHealth, passes, history
<1>8. CASE UNCHANGED vars
  BY <1>8 DEF vars, passes, history
<1> QED BY <1>2, <1>3, <1>4, <1>5, <1>6, <1>7, <1>8 DEF Next

(* Monitoring that was started and not stopped goes on, until the platform       *)
(* gives up on a failing alarm.                                                  *)
THEOREM MonitoringTheorem == Spec => []MonitoringGoesOn
<1>1. Init => MonitoringGoesOn
  BY DEF Init, MonitoringGoesOn
<1> QED BY <1>1, TypeCorrect, MonitoringNext, PTL DEF Spec

-------------------------------------------------------------------------------
(* While nothing was mixed, one pass at most waits, and what it has still to   *)
(* do was planned with the current priorities.                                 *)
Strict ==
  ~mixed => /\ Distinct
            /\ \A r, x \in awaiting : r = x
            /\ \A r \in Runners : Fresh(plan[r])

(* A swap permutes the priorities of its capability, and leaves those of the   *)
(* other capabilities, which the rest of the pass is about, alone.             *)
LEMMA SwapPermutes ==
  ASSUME TypeOK, Distinct, NEW S, WellFormed(S), Fresh(S), NEW s \in S, SwapPriorities(s)
  PROVE  Distinct' /\ Fresh(S \ {s})'
<1>1. /\ s.from \in Rows /\ s.to \in Rows /\ s.from[1] = s.to[1] /\ s.from # s.to
      /\ priority[s.from] = s.high /\ priority[s.to] = s.low
  BY DEF WellFormed, Fresh
<1>2. /\ Rows' = Rows
      /\ priority'[s.from] = s.low /\ priority'[s.to] = s.high
      /\ \A r \in Rows \ {s.from, s.to} : priority'[r] = priority[r]
  BY <1>1 DEF SwapPriorities, TypeOK, Rows
<1>3. Distinct'
  <2> SUFFICES ASSUME NEW r \in Rows, NEW x \in Rows, r[1] = x[1], priority'[r] = priority'[x]
               PROVE  r = x
    BY <1>2 DEF Distinct
  <2>1. CASE r \notin {s.from, s.to} /\ x \notin {s.from, s.to}
    BY <2>1, <1>2 DEF Distinct
  <2>2. CASE r = s.from
    BY <2>2, <1>1, <1>2 DEF Distinct
  <2>3. CASE r = s.to
    BY <2>3, <1>1, <1>2 DEF Distinct
  <2>4. CASE x = s.from
    BY <2>4, <1>1, <1>2 DEF Distinct
  <2>5. CASE x = s.to
    BY <2>5, <1>1, <1>2 DEF Distinct
  <2> QED BY <2>1, <2>2, <2>3, <2>4, <2>5
<1>4. ASSUME NEW t \in S \ {s}
      PROVE  priority'[t.from] = t.high /\ priority'[t.to] = t.low
  <2>1. t.from[1] # s.from[1] /\ t.from[1] = t.to[1] /\ t.from \in Rows /\ t.to \in Rows
    BY DEF WellFormed
  <2> QED BY <2>1, <1>1, <1>2 DEF Fresh
<1> QED BY <1>3, <1>4 DEF Fresh

(* A step of the only pass keeps the order strict and the rest of it fresh.    *)
LEMMA ContinueStrict ==
  ASSUME TypeOK, Distinct, NEW r \in Runners, awaiting \subseteq {r},
         NEW todo, WellFormed(todo), Fresh(todo), r \in awaiting => todo = plan[r],
         NEW scheduled, Continue(r, todo, scheduled)
  PROVE  Strict'
<1>1. \A x \in Runners \ {r} : plan[x] = {}
  BY DEF TypeOK
<1>2. CASE todo = {}
  <2>1. UNCHANGED <<priority, plan>> /\ awaiting' = awaiting \ {r}
    BY <1>2 DEF Continue
  <2>2. \A x \in Runners : plan'[x] = {}
    BY <1>1, <1>2, <2>1 DEF TypeOK
  <2> QED BY <2>1, <2>2 DEF Strict, Fresh, Distinct, Rows
<1>3. ASSUME NEW s \in todo, SwapPriorities(s),
             plan' = [plan EXCEPT ![r] = todo \ {s}], awaiting' = awaiting \union {r}
      PROVE  Strict'
  <2>1. Distinct' /\ Fresh(todo \ {s})'
    BY <1>3, SwapPermutes
  <2>2. \A x \in Runners : plan'[x] = todo \ {s} \/ plan'[x] = {}
    BY <1>1, <1>3 DEF TypeOK
  <2>3. \A x \in Runners : Fresh(plan[x])'
    BY <2>1, <2>2 DEF Fresh
  <2> QED BY <1>3, <2>1, <2>3 DEF Strict
<1> QED BY <1>2, <1>3 DEF Continue

(* Every action keeps it; what would not is what sets mixed.                   *)
LEMMA StrictNext == TypeOK /\ Strict /\ [Next]_vars => Strict'
<1> SUFFICES ASSUME TypeOK, Strict, [Next]_vars, ~mixed' PROVE Strict'
  BY DEF Strict
<1>1. ASSUME NEW r \in Runners, Begin(r) PROVE Strict'
  <2>1. PICK todo \in Snapshots : Continue(r, todo, IF r = "alarm" THEN FALSE ELSE alarmSet)
    BY <1>1 DEF Begin
  <2>2. ~mixed /\ awaiting = {}
    BY <1>1 DEF Begin, TypeOK
  <2> QED BY <2>1, <2>2, SnapshotFits, ContinueStrict DEF Strict
<1>2. ASSUME NEW r \in Runners, Sent(r) PROVE Strict'
  <2>1. ~mixed /\ awaiting \subseteq {r}
    BY <1>2 DEF Sent, history, Strict
  <2>2. WellFormed(plan[r]) /\ Fresh(plan[r]) /\ Distinct
    BY <2>1 DEF TypeOK, Strict
  <2> QED BY <1>2, <2>1, <2>2, ContinueStrict DEF Sent
<1>3. ASSUME NEW rs \in SUBSET Runners, EndPasses(rs), UNCHANGED <<tables, mixed>> PROVE Strict'
  BY <1>3 DEF EndPasses, tables, Strict, Distinct, Fresh, Rows
<1>4. CASE Crash
  BY <1>4, <1>3 DEF Crash, TypeOK
<1>5. ASSUME NEW r \in Runners, SendFails(r) PROVE Strict'
  BY <1>5, <1>3 DEF SendFails
<1>6. ASSUME NEW o \in Offers, NEW n \in Priorities, Register(o, n) PROVE Strict'
  <2>1. /\ awaiting = {} /\ awaiting' = {} /\ plan' = plan /\ Distinct
        /\ \A r \in RowsOf(o[1]) \ {o} : priority[r] # n
    BY <1>6 DEF Register, passes, TypeOK, Strict
  <2>2. /\ Rows' = Rows \union {o} /\ priority'[o] = n
        /\ \A r \in Rows \ {o} : priority'[r] = priority[r]
    BY <1>6 DEF Register, Rows
  <2>3. Distinct'
    BY <2>1, <2>2 DEF Distinct, RowsOf
  <2>4. \A r \in Runners : plan'[r] = {}
    BY <2>1 DEF TypeOK
  <2> QED BY <2>1, <2>3, <2>4 DEF Strict, Fresh
<1>7. CASE StartMonitoring \/ StopMonitoring \/ UNCHANGED vars \/ \E r \in Rows : ReportHealth(r)
  BY <1>7 DEF StartMonitoring, StopMonitoring, ReportHealth, vars, tables, passes, history,
              Strict, Distinct, Fresh, Rows
<1> QED BY <1>1, <1>2, <1>4, <1>5, <1>6, <1>7 DEF Next

(* Failover permutes the registered priorities as long as passes and           *)
(* registrations keep out of each other.                                       *)
THEOREM OrderTheorem == Spec => []OrderStaysStrict
<1>1. Init => Strict
  BY DEF Init, Strict, Distinct, Fresh, Rows
<1>2. Strict => OrderStaysStrict
  BY DEF Strict, OrderStaysStrict
<1> QED BY <1>1, <1>2, TypeCorrect, StrictNext, PTL DEF Spec

-------------------------------------------------------------------------------
(* Each swap a pass has still to make demotes the provider that is first.      *)
OfPrimaries(S) == \A s \in S : s.from \in Foremost(RowsOf(s.from[1]))
PlansPrimaries == ~mixed => \A r \in Runners : OfPrimaries(plan[r])

(* A swap of p and q, the one provider that is first before and after.         *)
Promotes(p, q) ==
  /\ p[1] = q[1] /\ p # q
  /\ Foremost(RowsOf(p[1])) = {p} /\ Foremost(RowsOf(p[1]))' = {q}
  /\ priority' = [priority EXCEPT ![p] = priority[q], ![q] = priority[p]]

(* What a step other than a registration may do to the priorities.  A swap at  *)
(* which its pass did not wait replaces one that is down by the best that is   *)
(* not; after an await that may be otherwise.                                  *)
PromotionSound ==
  ~mixed' /\ registrations' = registrations /\ priority' # priority =>
    \E p, q \in Rows : Promotes(p, q) /\ (awaiting = {} => p \in down /\ q \in Fallbacks(p))

LEMMA SnapshotPrimaries ==
  ASSUME NEW S \in Snapshots
  PROVE  OfPrimaries(S) /\ \A s \in S : s.from \in down /\ s.to \in Fallbacks(s.from)
<1> DEFINE all == UNION {Swaps(p) : p \in UNION {Foremost(RowsOf(c)) : c \in Capability}}
<1>1. S \subseteq all
  BY DEF Snapshots
<1>2. ASSUME NEW s \in all
      PROVE  /\ s.from \in Foremost(RowsOf(s.from[1]))
             /\ s.from \in down /\ s.to \in Fallbacks(s.from)
  <2>1. \E c \in Capability : \E p \in Foremost(RowsOf(c)) : s \in Swaps(p)
    BY <1>2
  <2>2. PICK c \in Capability : \E p \in Foremost(RowsOf(c)) : s \in Swaps(p)
    BY <2>1
  <2>3. PICK p \in Foremost(RowsOf(c)) : s \in Swaps(p)
    BY <2>2
  <2>4. /\ p \in down
        /\ \E q \in Fallbacks(p) : s = [from |-> p, to |-> q, high |-> priority[p], low |-> priority[q]]
    BY <2>3 DEF Swaps
  <2>5. p[1] = c
    BY DEF Foremost, RowsOf
  <2> QED BY <2>3, <2>4, <2>5
<1> QED BY <1>1, <1>2 DEF OfPrimaries

(* The swap of a primary makes the other the only one that is first, and does  *)
(* not touch what is first of any other capability.                            *)
LEMMA SwapPromotes ==
  ASSUME TypeOK, Distinct, NEW S, WellFormed(S), Fresh(S), OfPrimaries(S),
         NEW s \in S, SwapPriorities(s)
  PROVE  Promotes(s.from, s.to) /\ OfPrimaries(S \ {s})'
<1>1. PICK p \in Rows, q \in Rows : p = s.from /\ q = s.to
  BY DEF WellFormed
<1>2. /\ p[1] = q[1] /\ p # q /\ priority[p] = s.high /\ priority[q] = s.low
      /\ p \in Foremost(RowsOf(p[1]))
  BY <1>1 DEF WellFormed, Fresh, OfPrimaries
<1>3. \A r \in Rows : priority[r] \in Nat
  BY FailoverAssumption DEF TypeOK
<1>4. /\ Rows' = Rows
      /\ priority'[p] = priority[q] /\ priority'[q] = priority[p]
      /\ \A r \in Rows \ {p, q} : priority'[r] = priority[r]
  BY <1>1, <1>2 DEF SwapPriorities, TypeOK, Rows
<1>5. \A r \in RowsOf(p[1]) \ {p} : priority[r] < priority[p]
  <2> SUFFICES ASSUME NEW r \in RowsOf(p[1]), r # p PROVE priority[r] < priority[p]
    OBVIOUS
  <2>1. priority[r] <= priority[p] /\ r \in Rows /\ r[1] = p[1]
    BY <1>2 DEF Foremost, RowsOf
  <2>2. priority[r] # priority[p]
    BY <2>1 DEF Distinct
  <2> QED BY <1>3, <2>1, <2>2
<1>6. Foremost(RowsOf(p[1])) = {p}
  <2> SUFFICES ASSUME NEW r \in Foremost(RowsOf(p[1])), r # p PROVE FALSE
    BY <1>2
  <2>1. r \in RowsOf(p[1]) /\ p \in RowsOf(p[1]) /\ priority[p] <= priority[r] /\ r \in Rows
    BY DEF Foremost, RowsOf
  <2>2. priority[r] < priority[p]
    BY <1>5, <2>1
  <2> QED BY <1>3, <2>1, <2>2
<1>7. Foremost(RowsOf(p[1]))' = {q}
  <2>1. RowsOf(p[1])' = RowsOf(p[1])
    BY <1>4 DEF RowsOf
  <2>2. q \in RowsOf(p[1]) /\ p \in RowsOf(p[1]) /\ \A r \in RowsOf(p[1]) : r \in Rows
    BY <1>2 DEF RowsOf
  <2>3. \A r \in RowsOf(p[1]) : r # q => priority'[r] < priority'[q]
    <3> SUFFICES ASSUME NEW r \in RowsOf(p[1]), r # q PROVE priority'[r] < priority'[q]
      OBVIOUS
    <3>1. CASE r = p
      BY <1>2, <1>4, <1>5, <2>2, <3>1
    <3>2. CASE r # p
      <4>1. priority'[r] = priority[r]
        BY <1>4, <2>2, <3>2
      <4> QED BY <1>4, <1>5, <3>2, <4>1
    <3> QED BY <3>1, <3>2
  <2>4. \A r \in RowsOf(p[1]) : priority'[r] \in Nat
    BY <1>3, <1>4, <2>2
  <2>5. \A r \in RowsOf(p[1]) : priority'[r] <= priority'[q]
    BY <2>2, <2>3, <2>4
  <2>6. \A r \in RowsOf(p[1]) : r # q => ~(priority'[q] <= priority'[r])
    BY <2>2, <2>3, <2>4
  <2>7. Foremost(RowsOf(p[1]))' = {r \in RowsOf(p[1]) : \A x \in RowsOf(p[1]) : priority'[x] <= priority'[r]}
    BY <2>1 DEF Foremost
  <2> QED BY <2>2, <2>5, <2>6, <2>7
<1>8. ASSUME NEW t \in S \ {s}
      PROVE  (t.from \in Foremost(RowsOf(t.from[1])))'
  <2>1. t.from[1] # p[1]
    BY <1>1 DEF WellFormed
  <2>2. RowsOf(t.from[1])' = RowsOf(t.from[1])
    BY <1>4 DEF RowsOf
  <2>3. \A r \in RowsOf(t.from[1]) : priority'[r] = priority[r]
    BY <1>2, <1>4, <2>1 DEF RowsOf
  <2>4. t.from \in Foremost(RowsOf(t.from[1]))
    BY DEF OfPrimaries
  <2> QED BY <2>2, <2>3, <2>4 DEF Foremost
<1>9. priority' = [priority EXCEPT ![p] = priority[q], ![q] = priority[p]]
  BY <1>1, <1>2, <1>4 DEF SwapPriorities, TypeOK, Rows
<1>10. OfPrimaries(S \ {s})'
  BY <1>8 DEF OfPrimaries
<1> QED BY <1>1, <1>2, <1>6, <1>7, <1>9, <1>10 DEF Promotes

(* A step of the only pass: it makes the first swap of what it has to do, or   *)
(* changes no priority.                                                        *)
LEMMA ContinuePromotes ==
  ASSUME TypeOK, Distinct, NEW r \in Runners, awaiting \subseteq {r},
         NEW todo, WellFormed(todo), Fresh(todo), OfPrimaries(todo), r \in awaiting => todo = plan[r],
         NEW scheduled, Continue(r, todo, scheduled)
  PROVE  /\ priority' # priority => \E s \in todo : Promotes(s.from, s.to)
         /\ \A x \in Runners : OfPrimaries(plan[x])'
<1>1. \A x \in Runners \ {r} : plan[x] = {}
  BY DEF TypeOK
<1>2. CASE todo = {}
  <2>1. UNCHANGED <<priority, plan>>
    BY <1>2 DEF Continue
  <2>2. \A x \in Runners : plan'[x] = {}
    BY <1>1, <1>2, <2>1 DEF TypeOK
  <2> QED BY <2>1, <2>2 DEF OfPrimaries
<1>3. ASSUME NEW s \in todo, SwapPriorities(s), plan' = [plan EXCEPT ![r] = todo \ {s}]
      PROVE  Promotes(s.from, s.to) /\ \A x \in Runners : OfPrimaries(plan[x])'
  <2>1. Promotes(s.from, s.to) /\ OfPrimaries(todo \ {s})'
    BY <1>3, SwapPromotes
  <2>2. \A x \in Runners : plan'[x] = todo \ {s} \/ plan'[x] = {}
    BY <1>1, <1>3 DEF TypeOK
  <2>3. \A x \in Runners : OfPrimaries(plan[x])'
    BY <2>1, <2>2 DEF OfPrimaries
  <2> QED BY <2>1, <2>3
<1> QED BY <1>2, <1>3 DEF Continue

LEMMA PromotionStep ==
  ASSUME TypeOK, Strict, PlansPrimaries, [Next]_vars
  PROVE  PlansPrimaries' /\ PromotionSound
<1> SUFFICES ASSUME ~mixed' PROVE (\A r \in Runners : OfPrimaries(plan[r])') /\ PromotionSound
  BY DEF PlansPrimaries, PromotionSound
<1>1. ASSUME NEW r \in Runners, Begin(r)
      PROVE  (\A x \in Runners : OfPrimaries(plan[x])') /\ PromotionSound
  <2>1. PICK todo \in Snapshots : Continue(r, todo, IF r = "alarm" THEN FALSE ELSE alarmSet)
    BY <1>1 DEF Begin
  <2>2. ~mixed /\ awaiting = {}
    BY <1>1 DEF Begin, TypeOK
  <2>3. /\ WellFormed(todo) /\ Fresh(todo) /\ OfPrimaries(todo)
        /\ \A s \in todo : s.from \in down /\ s.to \in Fallbacks(s.from)
    BY SnapshotFits, SnapshotPrimaries
  <2>4. /\ priority' # priority => \E s \in todo : Promotes(s.from, s.to)
        /\ \A x \in Runners : OfPrimaries(plan[x])'
    BY <2>1, <2>2, <2>3, ContinuePromotes DEF Strict
  <2> QED BY <2>3, <2>4 DEF PromotionSound, WellFormed
<1>2. ASSUME NEW r \in Runners, Sent(r)
      PROVE  (\A x \in Runners : OfPrimaries(plan[x])') /\ PromotionSound
  <2>1. ~mixed /\ awaiting \subseteq {r} /\ awaiting # {}
    BY <1>2 DEF Sent, history, Strict
  <2>2. WellFormed(plan[r]) /\ Fresh(plan[r]) /\ Distinct /\ OfPrimaries(plan[r])
    BY <2>1 DEF TypeOK, Strict, PlansPrimaries
  <2>3. /\ priority' # priority => \E s \in plan[r] : Promotes(s.from, s.to)
        /\ \A x \in Runners : OfPrimaries(plan[x])'
    BY <1>2, <2>1, <2>2, ContinuePromotes DEF Sent
  <2> QED BY <2>1, <2>2, <2>3 DEF PromotionSound, WellFormed
<1>3. ASSUME NEW rs \in SUBSET Runners, EndPasses(rs), UNCHANGED <<tables, mixed>>
      PROVE  (\A x \in Runners : OfPrimaries(plan[x])') /\ PromotionSound
  <2>1. \A x \in Runners : plan'[x] = {} \/ plan'[x] = plan[x]
    BY <1>3 DEF EndPasses
  <2>2. priority' = priority /\ ~mixed
    BY <1>3 DEF tables
  <2> QED BY <2>1, <2>2 DEF PlansPrimaries, PromotionSound, OfPrimaries, Foremost, RowsOf, Rows
<1>4. CASE Crash
  BY <1>4, <1>3 DEF Crash, TypeOK
<1>5. ASSUME NEW r \in Runners, SendFails(r)
      PROVE  (\A x \in Runners : OfPrimaries(plan[x])') /\ PromotionSound
  BY <1>5, <1>3 DEF SendFails
<1>6. ASSUME NEW o \in Offers, NEW n \in Priorities, Register(o, n)
      PROVE  (\A x \in Runners : OfPrimaries(plan[x])') /\ PromotionSound
  <2>1. \A r \in Runners : plan'[r] = {}
    BY <1>6 DEF Register, passes, TypeOK
  <2>2. registrations' # registrations
    BY <1>6 DEF Register, TypeOK
  <2> QED BY <2>1, <2>2 DEF OfPrimaries, PromotionSound
<1>7. CASE StartMonitoring \/ StopMonitoring \/ UNCHANGED vars \/ \E r \in Rows : ReportHealth(r)
  <2>1. UNCHANGED <<priority, plan, mixed>>
    BY <1>7 DEF StartMonitoring, StopMonitoring, ReportHealth, vars, tables, passes, history
  <2> QED BY <2>1 DEF PlansPrimaries, PromotionSound, OfPrimaries, Foremost, RowsOf, Rows
<1> QED BY <1>1, <1>2, <1>4, <1>5, <1>6, <1>7 DEF Next

(* As long as passes and registrations keep out of each other, failover        *)
(* changes priorities only by swapping the provider that is first, and the one *)
(* it is swapped with is first then; a pass that did not wait before takes the *)
(* best that is not down, and only if the first is down.                       *)
THEOREM PromotionTheorem == Spec => [][PromotionSound]_vars
<1>1. Init => Strict /\ PlansPrimaries
  BY DEF Init, Strict, Distinct, Fresh, Rows, PlansPrimaries, OfPrimaries
<1>2. TypeOK /\ Strict /\ PlansPrimaries /\ [Next]_vars => PlansPrimaries' /\ [PromotionSound]_vars
  BY PromotionStep
<1> QED BY <1>1, <1>2, TypeCorrect, StrictNext, PTL DEF Spec

-------------------------------------------------------------------------------
(* Stopped, and no check left that runs.                                       *)
Stopped == ~monitored /\ ~alarmSet /\ "alarm" \notin awaiting

LEMMA StoppedStep ==
  ASSUME TypeOK, Stopped, [Next]_vars
  PROVE  monitored' \/ (~alarmSet' /\ "alarm" \notin awaiting')
<1> USE DEF Stopped
<1>1. ASSUME NEW r \in Runners, r # "alarm", NEW todo, Continue(r, todo, alarmSet)
      PROVE  ~alarmSet' /\ "alarm" \notin awaiting'
  BY <1>1 DEF Continue, Reschedule
<1>2. ASSUME NEW r \in Runners, Begin(r)
      PROVE  ~alarmSet' /\ "alarm" \notin awaiting'
  BY <1>1, <1>2 DEF Begin
<1>3. ASSUME NEW r \in Runners, Sent(r)
      PROVE  ~alarmSet' /\ "alarm" \notin awaiting'
  BY <1>1, <1>3 DEF Sent
<1>4. ASSUME NEW r \in Runners, SendFails(r)
      PROVE  ~alarmSet' /\ "alarm" \notin awaiting'
  BY <1>4 DEF SendFails, EndPasses
<1>5. CASE Crash
  BY <1>5 DEF Crash, EndPasses
<1>6. CASE StartMonitoring \/ StopMonitoring
  BY <1>6 DEF StartMonitoring, StopMonitoring, passes
<1>7. CASE (\E o \in Offers, n \in Priorities : Register(o, n)) \/ \E r \in Rows : ReportHealth(r)
  BY <1>7 DEF Register, ReportHealth, passes
<1>8. CASE UNCHANGED vars
  BY <1>8 DEF vars, passes
<1> QED BY <1>2, <1>3, <1>4, <1>5, <1>6, <1>7, <1>8 DEF Next

(* Once monitoring was stopped and no check runs, only a start schedules one.  *)
THEOREM StopTheorem == Spec => StoppedStaysStopped
<1>1. TypeOK /\ [Next]_vars =>
        [Stopped => monitored' \/ (~alarmSet' /\ "alarm" \notin awaiting')]_vars
  BY StoppedStep
<1> QED BY <1>1, TypeCorrect, PTL DEF Spec, StoppedStaysStopped, Stopped
===============================================================================
