---------------------------- MODULE TenantFailover ----------------------------
(***************************************************************************)
(* The providers of a tenant and their alarm-driven failover, from         *)
(* packages/tenant-do/src/index.ts.  A Durable Object runs one thing at a  *)
(* time, but others get in while healthCheckAndFailover() awaits           *)
(* FAILOVER_QUEUE.send(): further passes called by RPC, registrations,     *)
(* health reports, start and stop.                                         *)
(*                                                                         *)
(* A pass reads all rows once, at its start, and looks at nothing else     *)
(* later: what it will do is fixed then, so a pass is the set of the swaps *)
(* it still has to make.  Its promotions go by capability, and each is     *)
(* followed by the await.  Capabilities are numbers in their sort order.   *)
(* Of the health status only "down" is ever compared.  The queue is taken  *)
(* to be bound: without it a pass is one step.  Tenant configuration,      *)
(* routes and modules share no state with the providers.                   *)
(***************************************************************************)
EXTENDS Naturals, FiniteSets

CONSTANTS
  Offers,            \* the pairs of a capability and a provider that may be registered
  Priorities,        \* the priorities they may be registered with
  Clients,           \* callers of the RPC healthCheckAndFailover()
  MaxRegistrations   \* bound on the calls of registerProvider()

ASSUME FailoverAssumption ==
  /\ IsFiniteSet(Offers) /\ \A o \in Offers : o[1] \in Nat
  /\ Priorities \subseteq Nat
  /\ MaxRegistrations \in Nat
  /\ "alarm" \notin Clients

VARIABLES
  priority,       \* the registered rows and their priorities
  down,           \* the rows whose health_status is 'down'
  awaiting,       \* the passes that await FAILOVER_QUEUE.send()
  plan,           \* per runner, the swaps its pass has still to make
  alarmSet,       \* an alarm is scheduled in the storage
  registrations,  \* number of calls of registerProvider(), for the bound
  monitored,      \* history: startHealthMonitoring() was called last, not stop
  gaveUp,         \* history: the platform stopped retrying an alarm that threw
  mixed           \* history: a pass or a registration got into a waiting pass,
                  \* or a priority was registered twice for a capability

tables == <<priority, down>>
passes == <<awaiting, plan>>
history == <<monitored, gaveUp, mixed>>
vars == <<tables, passes, alarmSet, registrations, history>>

Runners == Clients \union {"alarm"}
Rows == DOMAIN priority
RowsOf(c) == {r \in Rows : r[1] = c}
Capability == {r[1] : r \in Rows}

Init ==
  /\ priority = [r \in {} |-> 0]
  /\ down = {}
  /\ awaiting = {} /\ plan = [r \in Runners |-> {}]
  /\ alarmSet = FALSE
  /\ registrations = 0
  /\ monitored = FALSE /\ gaveUp = FALSE /\ mixed = FALSE

-------------------------------------------------------------------------------
(* The rows a sort by descending priority may put first. *)
Foremost(rows) == {r \in rows : \A s \in rows : priority[s] <= priority[r]}

(* The next provider that is not down. *)
Fallbacks(p) == Foremost(RowsOf(p[1]) \ (down \union {p}))

(* What a pass that starts now may do for the primary p of a capability: at *)
(* most one swap, with the priorities it has read.                          *)
Swaps(p) ==
  IF p \notin down THEN {}
  ELSE {[from |-> p, to |-> q, high |-> priority[p], low |-> priority[q]] : q \in Fallbacks(p)}

(* A snapshot: one primary for each capability (ties are broken by the      *)
(* database), and a swap for each primary that needs and has one.           *)
Snapshots ==
  LET all == UNION {Swaps(p) : p \in UNION {Foremost(RowsOf(c)) : c \in Capability}}
      possible(S, c) ==
        LET mine == {s \in S : s.from[1] = c}
        IN  \E p \in Foremost(RowsOf(c)) :
              IF Swaps(p) = {} THEN mine = {} ELSE \E s \in Swaps(p) : mine = {s}
  IN  {S \in SUBSET all : \A c \in Capability : possible(S, c)}

(* Mutants: the two parameters are mixed up; only the fallback is updated. *)
SwapBack(s) == priority' = [priority EXCEPT ![s.to] = s.low, ![s.from] = s.high]
PromoteOnly(s) == priority' = [priority EXCEPT ![s.to] = s.high]

(* The two UPDATEs: nothing gets between them. *)
SwapPriorities(s) == priority' = [priority EXCEPT ![s.to] = s.high, ![s.from] = s.low]

(* Mutant: the next check is scheduled only when the pass never waited. *)
RescheduleWhenIdle(r, scheduled) ==
  alarmSet' = IF r = "alarm" /\ r \notin awaiting THEN TRUE ELSE scheduled

(* Mutant: every pass schedules the next check, not only the alarm's. *)
RescheduleAlways(r, scheduled) == alarmSet' = TRUE

(* alarm() schedules the next check when its pass has returned. *)
Reschedule(r, scheduled) == alarmSet' = IF r = "alarm" THEN TRUE ELSE scheduled

(* A pass runs on to its next await, or to its end. *)
Continue(r, todo, scheduled) ==
  \/ \E s \in todo :
       /\ \A t \in todo : s.from[1] <= t.from[1]
       /\ SwapPriorities(s)
       /\ plan' = [plan EXCEPT ![r] = todo \ {s}]
       /\ awaiting' = awaiting \union {r}
       /\ alarmSet' = scheduled
  \/ /\ todo = {}
     /\ Reschedule(r, scheduled)
     /\ awaiting' = awaiting \ {r}
     /\ UNCHANGED <<priority, plan>>

-------------------------------------------------------------------------------
(* registerProvider(): INSERT OR REPLACE, with unknown health. *)
Register(o, n) ==
  /\ registrations < MaxRegistrations
  /\ registrations' = registrations + 1
  /\ priority' = [r \in Rows \union {o} |-> IF r = o THEN n ELSE priority[r]]
  /\ down' = down \ {o}
  /\ mixed' = (mixed \/ awaiting # {} \/ \E r \in RowsOf(o[1]) \ {o} : priority[r] = n)
  /\ UNCHANGED <<passes, alarmSet, monitored, gaveUp>>

(* updateProviderHealth() *)
ReportHealth(r) ==
  /\ \/ r \notin down /\ down' = down \union {r}
     \/ r \in down /\ down' = down \ {r}
  /\ UNCHANGED <<priority, passes, alarmSet, registrations, history>>

StartMonitoring ==
  /\ alarmSet' = TRUE
  /\ monitored' = TRUE /\ gaveUp' = FALSE
  /\ UNCHANGED <<tables, passes, registrations, mixed>>

StopMonitoring ==
  /\ alarmSet' = FALSE
  /\ monitored' = FALSE
  /\ UNCHANGED <<tables, passes, registrations, gaveUp, mixed>>

(* healthCheckAndFailover() up to its first await.  The platform runs one   *)
(* alarm handler at a time, and a fired alarm is not scheduled any more.    *)
Begin(r) ==
  /\ r \notin awaiting
  /\ r = "alarm" => alarmSet
  /\ \E todo \in Snapshots : Continue(r, todo, IF r = "alarm" THEN FALSE ELSE alarmSet)
  /\ mixed' = (mixed \/ awaiting # {})
  /\ UNCHANGED <<down, registrations, monitored, gaveUp>>

(* FAILOVER_QUEUE.send() resolves. *)
Sent(r) ==
  /\ r \in awaiting
  /\ Continue(r, plan[r], alarmSet)
  /\ UNCHANGED <<down, registrations, history>>

(* Mutant: what the broken pass had to do is kept. *)
EndKeepingPlan(rs) == awaiting' = awaiting \ rs /\ UNCHANGED plan

(* The passes rs end where they stand.                                      *)
EndPasses(rs) ==
  /\ awaiting' = awaiting \ rs
  /\ plan' = [r \in Runners |-> IF r \in rs THEN {} ELSE plan[r]]

(* An alarm handler that throws or is interrupted is retried by the         *)
(* platform, unless the alarm was deleted, and not for ever.                *)
RetryAlarm ==
  \/ alarmSet' = (alarmSet \/ monitored) /\ UNCHANGED gaveUp
  \/ gaveUp' = TRUE /\ UNCHANGED alarmSet

(* FAILOVER_QUEUE.send() rejects: nothing catches it. *)
SendFails(r) ==
  /\ r \in awaiting
  /\ EndPasses({r})
  /\ IF r = "alarm" THEN RetryAlarm ELSE UNCHANGED <<alarmSet, gaveUp>>
  /\ UNCHANGED <<tables, registrations, monitored, mixed>>

(* The object is evicted while passes wait: the tables are in the storage.  *)
Crash ==
  /\ awaiting # {}
  /\ EndPasses(awaiting)
  /\ IF "alarm" \in awaiting THEN RetryAlarm ELSE UNCHANGED <<alarmSet, gaveUp>>
  /\ UNCHANGED <<tables, registrations, monitored, mixed>>

Next ==
  \/ \E o \in Offers, n \in Priorities : Register(o, n)
  \/ \E r \in Rows : ReportHealth(r)
  \/ StartMonitoring \/ StopMonitoring \/ Crash
  \/ \E r \in Runners : Begin(r) \/ Sent(r) \/ SendFails(r)

Spec == Init /\ [][Next]_vars

(* Scheduled alarms fire, and what send() returns settles.                  *)
FairSpec ==
  /\ Spec
  /\ WF_vars(Begin("alarm"))
  /\ \A r \in Runners : WF_vars(Sent(r) \/ SendFails(r))

-------------------------------------------------------------------------------
Swap == [from : Offers, to : Offers, high : Priorities, low : Priorities]

(* What a pass may have left to do: at most one swap per capability, each   *)
(* between two of its providers.                                            *)
WellFormed(S) ==
  /\ S \subseteq Swap
  /\ \A s \in S : s.from \in Rows /\ s.to \in Rows /\ s.from[1] = s.to[1] /\ s.from # s.to
  /\ \A s, t \in S : s.from[1] = t.from[1] => s = t

(* Types; a pass that does not wait has nothing left to do. *)
TypeOK ==
  /\ priority \in [Rows -> Priorities] /\ Rows \subseteq Offers
  /\ down \subseteq Rows
  /\ awaiting \subseteq Runners
  /\ plan \in [Runners -> SUBSET Swap]
  /\ \A r \in Runners : WellFormed(plan[r]) /\ (plan[r] # {} => r \in awaiting)
  /\ alarmSet \in BOOLEAN
  /\ registrations \in 0..MaxRegistrations
  /\ monitored \in BOOLEAN /\ gaveUp \in BOOLEAN /\ mixed \in BOOLEAN

Distinct == \A r, s \in Rows : r[1] = s[1] /\ priority[r] = priority[s] => r = s

(* The order of a capability's providers stays strict: failover permutes    *)
(* the registered priorities, whatever happens to the providers' health,    *)
(* to send() and to the object while a pass waits, as long as passes and    *)
(* registrations keep out of each other.                                    *)
OrderStaysStrict == ~mixed => Distinct

(* Monitoring that was started and not stopped goes on: a check is          *)
(* scheduled or running, until the platform gives up on a failing alarm.    *)
MonitoringGoesOn ==
  monitored => alarmSet \/ "alarm" \in awaiting \/ gaveUp

(* A stop holds once no check runs: neither a pass that an RPC has begun, nor *)
(* its failure, nor an eviction schedules a check again; only a start does.   *)
StoppedStaysStopped ==
  [][~monitored /\ ~alarmSet /\ "alarm" \notin awaiting
       => monitored' \/ (~alarmSet' /\ "alarm" \notin awaiting')]_vars

(* Failover converges: once health reports and registrations cease, and the *)
(* order of the providers stays strict, monitoring that goes on puts a      *)
(* provider that is not down first wherever there is one; passes that read  *)
(* the tables before cannot undo it for good, nor can failures of send().   *)
Settled == UNCHANGED <<down, registrations>>
InCharge ==
  \A c \in Capability :
    RowsOf(c) \subseteq down \/ Foremost(RowsOf(c)) \intersect down = {}
Converges ==
  <>[][Settled]_vars /\ <>[](monitored /\ ~gaveUp /\ Distinct) => <>[]InCharge

(* "Stop periodic health checks" (index.ts:451): after a stop no check is   *)
(* scheduled, once one that was already running has ended.                  *)
StopHolds == ~monitored /\ "alarm" \notin awaiting => ~alarmSet
===============================================================================
