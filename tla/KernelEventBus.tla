---------------------------- MODULE KernelEventBus ----------------------------
(***************************************************************************)
(* The event bus of packages/kernel/src/microservices/event-bus.ts.        *)
(* publish() starts one task per matching subscription; a task calls the   *)
(* handler, backs off and tries again, and ends by success or in the dead  *)
(* letter queue.  Tasks of different deliveries and subscriptions          *)
(* interleave at every await.  retryDeadLetterQueue() takes the queue and  *)
(* delivers its events one after the other.                                *)
(*                                                                         *)
(* An event is published at most once, a subscription made at most once    *)
(* (ids are fresh).  matchPattern() is the constant relation Matches.      *)
(* The history kept for replay(), which delivery never reads, and the      *)
(* metrics other than delivered and failed are left out.                   *)
(***************************************************************************)
EXTENDS Naturals, Sequences, SequencesExt, FiniteSets

CONSTANTS
  Events,            \* the events that will ever be published
  Subs,              \* the subscriptions that will ever be made
  Matches,           \* the pairs of an event and a subscription whose pattern it matches
  RequestedRetries,  \* per subscription, the maxRetries it was made with
  DefaultMaxRetries, \* options.defaultMaxRetries
  MaxDeadLetters,    \* options.maxDeadLetterQueue
  Retriers,          \* callers of retryDeadLetterQueue(), one call at a time each
  MaxPasses          \* bound on the calls of retryDeadLetterQueue()

ASSUME BusAssumption ==
  /\ Matches \subseteq Events \X Subs
  /\ RequestedRetries \in [Subs -> Nat]
  /\ DefaultMaxRetries \in Nat
  /\ MaxDeadLetters \in Nat \ {0}
  /\ MaxPasses \in Nat
  /\ "publish" \notin Retriers

VARIABLES
  active,       \* the subscriptions in this.subscriptions
  gone,         \* history: subscriptions that were removed
  deadLetters,  \* this.deadLetterQueue, as pairs of an event and a subscription
  tasks,        \* the deliveries of one event to one subscription in progress
  pass,         \* per retrier, the items its call of retryDeadLetterQueue() still has
  passes,       \* number of calls of retryDeadLetterQueue(), for the bound
  delivered,    \* this.totalDelivered
  failed,       \* this.totalFailed
  destroyed,    \* destroy() was called
  published,    \* history: the events in the order they were published
  owed,         \* history: pairs matched when the event was published
  handled,      \* history: per subscription, the events it handled, in order
  trimmed       \* history: pairs cut off the dead letter queue

vars == <<active, gone, deadLetters, tasks, pass, passes, delivered, failed,
          destroyed, published, owed, handled, trimmed>>
ghosts == <<published, owed, handled, trimmed>>
counters == <<delivered, failed>>

Pairs == Events \X Subs

(* slice(-n): the last n elements. *)
LastN(s, n) == IF Len(s) > n THEN SubSeq(s, Len(s) - n + 1, Len(s)) ELSE s

(* options?.maxRetries || defaultMaxRetries: zero is taken for absent.      *)
MaxRetries(s) ==
  IF RequestedRetries[s] = 0 THEN DefaultMaxRetries ELSE RequestedRetries[s]

(* The tasks of a delivery: a snapshot of the matching subscriptions.       *)
Matching(e) == {s \in active : <<e, s>> \in Matches}
TasksFor(origin, e) ==
  {[origin |-> origin, event |-> e, sub |-> s, attempt |-> 0]
     : s \in Matching(e)}

Init ==
  /\ active = {} /\ gone = {}
  /\ deadLetters = <<>>
  /\ tasks = {}
  /\ pass = [r \in Retriers |-> <<>>] /\ passes = 0
  /\ delivered = 0 /\ failed = 0
  /\ destroyed = FALSE
  /\ published = <<>> /\ owed = {} /\ trimmed = {}
  /\ handled = [s \in Subs |-> <<>>]

Subscribe(s) ==
  /\ s \notin active \union gone
  /\ active' = active \union {s}
  /\ UNCHANGED <<gone, deadLetters, tasks, pass, passes, counters, destroyed, ghosts>>

Unsubscribe(s) ==
  /\ s \in active
  /\ active' = active \ {s}
  /\ gone' = gone \union {s}
  /\ UNCHANGED <<deadLetters, tasks, pass, passes, counters, destroyed, ghosts>>

(* publish(): every matching handler is started before the first await.     *)
Publish(e) ==
  /\ e \notin ToSet(published)
  /\ tasks' = tasks \union TasksFor("publish", e)
  /\ published' = Append(published, e)
  /\ owed' = owed \union ({e} \X Matching(e))
  /\ UNCHANGED <<active, gone, deadLetters, pass, passes, counters, destroyed, handled, trimmed>>

(* Mutant: one attempt too many. *)
LastAttemptLate(t) == t.attempt > MaxRetries(t.sub)
LastAttempt(t) == t.attempt >= MaxRetries(t.sub)

(* Mutant: the handler is called again after it has resolved. *)
HandlerSucceedsTwice(t) ==
  /\ tasks' = IF LastAttempt(t) THEN tasks \ {t} ELSE (tasks \ {t}) \union {[t EXCEPT !.attempt = @ + 1]}
  /\ delivered' = delivered + 1
  /\ handled' = [handled EXCEPT ![t.sub] = Append(@, t.event)]
  /\ UNCHANGED <<active, gone, deadLetters, pass, passes, failed, destroyed, published, owed, trimmed>>

(* The handler of a task resolves. *)
HandlerSucceeds(t) ==
  /\ tasks' = tasks \ {t}
  /\ delivered' = delivered + 1
  /\ handled' = [handled EXCEPT ![t.sub] = Append(@, t.event)]
  /\ UNCHANGED <<active, gone, deadLetters, pass, passes, failed, destroyed, published, owed, trimmed>>

(* The handler throws and attempts are left: it is called again after        *)
(* retryDelay * 2^attempt; nothing tells the waiting from the calling.       *)
HandlerBacksOff(t) ==
  /\ ~LastAttempt(t)
  /\ tasks' = (tasks \ {t}) \union {[t EXCEPT !.attempt = @ + 1]}
  /\ UNCHANGED <<active, gone, deadLetters, pass, passes, counters, destroyed, ghosts>>

(* Mutant: the failure is counted but not kept once the queue is full. *)
HandlerGivesUpWhenRoom(t) ==
  /\ LastAttempt(t)
  /\ tasks' = tasks \ {t}
  /\ failed' = failed + 1
  /\ deadLetters' = IF Len(deadLetters) < MaxDeadLetters
                    THEN Append(deadLetters, <<t.event, t.sub>>) ELSE deadLetters
  /\ UNCHANGED <<active, gone, pass, passes, delivered, destroyed, ghosts>>

(* The last attempt throws: handleDeliveryFailure() queues and trims.       *)
HandlerGivesUp(t) ==
  /\ LastAttempt(t)
  /\ tasks' = tasks \ {t}
  /\ failed' = failed + 1
  /\ deadLetters' = LastN(Append(deadLetters, <<t.event, t.sub>>), MaxDeadLetters)
  /\ trimmed' = trimmed \union (ToSet(Append(deadLetters, <<t.event, t.sub>>)) \ ToSet(deadLetters'))
  /\ UNCHANGED <<active, gone, pass, passes, delivered, destroyed, published, owed, handled>>

(* retryDeadLetterQueue(): take the whole queue and deliver its first event *)
(* to every subscription that matches now, not only to the one that failed. *)
RetryStart(r) ==
  /\ pass[r] = <<>> /\ passes < MaxPasses
  /\ deadLetters # <<>>
  /\ pass' = [pass EXCEPT ![r] = deadLetters]
  /\ passes' = passes + 1
  /\ deadLetters' = <<>>
  /\ tasks' = tasks \union TasksFor(r, Head(deadLetters)[1])
  /\ UNCHANGED <<active, gone, counters, destroyed, ghosts>>

TasksOf(r) == {t \in tasks : t.origin = r}

(* Mutant: the loop waits until the item is not a dead letter any more. *)
RetryContinueOnSuccess(r) ==
  /\ pass[r] # <<>>
  /\ TasksOf(r) = {}
  /\ Head(pass[r]) \notin ToSet(deadLetters)
  /\ pass' = [pass EXCEPT ![r] = Tail(@)]
  /\ tasks' = IF Len(pass[r]) > 1
              THEN tasks \union TasksFor(r, pass[r][2][1]) ELSE tasks
  /\ UNCHANGED <<active, gone, deadLetters, passes, counters, destroyed, ghosts>>

(* The delivery of the first item has settled: deliver() never throws, so   *)
(* the item counts as a success, and the loop goes on with the next.        *)
RetryContinue(r) ==
  /\ pass[r] # <<>>
  /\ TasksOf(r) = {}
  /\ pass' = [pass EXCEPT ![r] = Tail(@)]
  /\ tasks' = IF Len(pass[r]) > 1
              THEN tasks \union TasksFor(r, pass[r][2][1]) ELSE tasks
  /\ UNCHANGED <<active, gone, deadLetters, passes, counters, destroyed, ghosts>>

(* Mutant: the subscriptions stay. *)
DestroyQueueOnly ==
  /\ ~destroyed
  /\ destroyed' = TRUE
  /\ gone' = gone \union active
  /\ deadLetters' = <<>>
  /\ UNCHANGED <<active, tasks, pass, passes, counters, ghosts>>

(* destroy(): tasks and retry passes in progress go on. *)
Destroy ==
  /\ ~destroyed
  /\ destroyed' = TRUE
  /\ gone' = gone \union active
  /\ active' = {}
  /\ deadLetters' = <<>>
  /\ UNCHANGED <<tasks, pass, passes, counters, ghosts>>

TaskStep(t) ==
  HandlerSucceeds(t) \/ HandlerBacksOff(t) \/ HandlerGivesUp(t)

Next ==
  \/ \E s \in Subs : Subscribe(s) \/ Unsubscribe(s)
  \/ \E e \in Events : Publish(e)
  \/ \E t \in tasks : TaskStep(t)
  \/ \E r \in Retriers : RetryStart(r) \/ RetryContinue(r)
  \/ Destroy

Spec == Init /\ [][Next]_vars

(* Handlers settle, back-off timers fire and the loop of a retry pass goes  *)
(* on when its await does.                                                  *)
Fairness ==
  /\ WF_vars(\E t \in tasks : TaskStep(t))
  /\ \A r \in Retriers : WF_vars(RetryContinue(r))
FairSpec == Spec /\ Fairness

-------------------------------------------------------------------------------
Task == [origin : Retriers \union {"publish"}, event : Events, sub : Subs,
         attempt : Nat]

(* Types and bounds; no task is at an attempt beyond its last. *)
TypeOK ==
  /\ active \subseteq Subs /\ gone \subseteq Subs
  /\ deadLetters \in Seq(Pairs) /\ Len(deadLetters) <= MaxDeadLetters
  /\ tasks \subseteq Task
  /\ \A t \in tasks : t.attempt <= MaxRetries(t.sub)
  /\ pass \in [Retriers -> Seq(Pairs)] /\ passes \in 0..MaxPasses
  /\ delivered \in Nat /\ failed \in Nat
  /\ destroyed \in BOOLEAN

Succeeded(p) == \E i \in 1..Len(handled[p[2]]) : handled[p[2]][i] = p[1]

(* No delivery is lost without a trace: what was matched when its event was *)
(* published has been handled, is being tried, waits in the dead letter     *)
(* queue or in a retry pass, or was trimmed; or its subscription is gone.   *)
NothingLost ==
  ~destroyed =>
    \A p \in owed :
      \/ Succeeded(p)
      \/ \E t \in tasks : t.event = p[1] /\ t.sub = p[2]
      \/ p \in ToSet(deadLetters)
      \/ \E r \in Retriers : p \in ToSet(pass[r])
      \/ p \in trimmed
      \/ p[2] \in gone

(* Every handler success and every exhausted delivery is counted once.      *)
CountsMatch ==
  /\ delivered = Cardinality(UNION {{s} \X DOMAIN handled[s] : s \in Subs})
  /\ passes = 0 /\ ~destroyed /\ trimmed = {} => failed = Len(deadLetters)

(* Without a retry pass no subscription handles an event twice.             *)
AtMostOnceWithoutRetry ==
  passes = 0 => \A s \in Subs : \A i, j \in 1..Len(handled[s]) : handled[s][i] = handled[s][j] => i = j

(* A subscription that was removed, alone or by destroy(), only runs down:    *)
(* neither publish() nor a retry pass that still holds one of its dead        *)
(* letters begins a delivery to it, and the dead letters it still gets, also  *)
(* those of a destroyed bus, come from deliveries that were under way.        *)
GoneRunsDown ==
  [][/\ \A t \in tasks' \ tasks : t.sub \in gone =>
            \E u \in tasks \ tasks' : t = [u EXCEPT !.attempt = @ + 1]
     /\ \A p \in ToSet(deadLetters') \ ToSet(deadLetters) :
            \E u \in tasks \ tasks' : p = <<u.event, u.sub>>]_vars

(* Every publish() and every retryDeadLetterQueue() returns: a delivery ends *)
(* by success or gives up after a bounded number of attempts.               *)
CallsReturn ==
  /\ \A e \in Events :
       LET Publishing == \E t \in tasks : t.origin = "publish" /\ t.event = e
       IN  Publishing ~> ~Publishing
  /\ \A r \in Retriers : pass[r] # <<>> ~> pass[r] = <<>>

(* "Ordered delivery guarantees" (event-bus.ts:9): no subscription handles  *)
(* an event before one that was published earlier (without retry passes).   *)
OrderedDelivery ==
  passes = 0 =>
    \A s \in Subs : \A i, j \in 1..Len(handled[s]) :
      i < j => \E m, n \in 1..Len(published) :
                 m <= n /\ published[m] = handled[s][i] /\ published[n] = handled[s][j]
===============================================================================
