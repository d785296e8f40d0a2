---------------------------- MODULE WebhookDelivery ----------------------------
(***************************************************************************)
(* The webhook manager of packages/kernel/src/os/webhook-system.ts with    *)
(* its event stream (module EventStream), for one webhook: webhooks share  *)
(* only logs and lists of entries that carry their id, so one stands for   *)
(* all.  State: the webhook's status, filter and retry limit, its circuit  *)
(* breaker, the retries waiting in setTimeout, and its dead letters.       *)
(*                                                                         *)
(* create() subscribes one closure for every element of eventTypes, equal  *)
(* elements and "*" included, and publish() calls every closure that       *)
(* matches, so what is delivered is a pair of an event and a closure.      *)
(* Nothing is awaited between publish() and the end of the first attempts  *)
(* (the HTTP request is simulated), so nothing else runs while closures    *)
(* are still to be called.  A retry holds the webhook object and looks at  *)
(* nothing when it fires.  Listeners of the manager and of the stream may  *)
(* throw; they do not call back.                                           *)
(*                                                                         *)
(* Events are their sequence numbers.  The statistics other than           *)
(* consecutiveFailures, the delivery log, the delays and direct calls of   *)
(* deliver() are left out.                                                 *)
(***************************************************************************)
EXTENDS Naturals, Sequences, FiniteSets

CONSTANTS
  MaxPublished,   \* bound: the number of events published
  Types,          \* event types, the wildcard included
  Wildcard,       \* "*"
  TypeOf,         \* the type of an event
  Registrations,  \* the lists of eventTypes a webhook can be created with
  Filters,        \* the filters a webhook can have: the events they let through
  AttemptLimits,  \* the values of retry.maxAttempts
  MaxAttempts,    \* the largest of them, or 1
  FailureLimit,   \* consecutive failures that open the circuit (5 in the code)
  MaxBufferSize, BackpressureThreshold,  \* the stream's options
  Touchy,         \* bound: the deliveries at whose success a listener may throw
  ReplayLimit     \* how much of the buffer retryDeadLetter() looks at (1000)

Events == 1..MaxPublished

(* The closures create() makes, by their place in eventTypes. *)
Closures == UNION {DOMAIN types : types \in Registrations}
Deliveries == Events \X Closures

ASSUME WebhookAssumption ==
  /\ MaxPublished \in Nat
  /\ Wildcard \in Types /\ TypeOf \in [Events -> Types]
  /\ Registrations \subseteq Seq(Types)
  /\ Filters \subseteq SUBSET Events
  /\ MaxAttempts \in Nat \ {0} /\ AttemptLimits \subseteq 0..MaxAttempts
  /\ FailureLimit \in Nat \ {0}
  /\ MaxBufferSize \in Nat \ {0} /\ BackpressureThreshold \in Nat
  /\ ReplayLimit \in Nat

VARIABLES
  streamStatus, buffer, sequenceCounter, subscribed, toCall,  \* the stream
  created,     \* create() was called
  exists,      \* the webhook is in this.webhooks
  status,      \* webhook.status
  accepted,    \* the events webhook.filter lets through
  limit,       \* webhook.retry.maxAttempts
  failures,    \* webhook.stats.consecutiveFailures, saturated at FailureLimit
  circuit,     \* circuitState of the webhook: "none", "open", or open and "cooled"
  pending,     \* retries waiting in setTimeout: deliveries and attempt numbers
  deadLetters, \* the deliveries in the dead letter queue
  attempted,   \* the deliveries attempted in this step
  delivered, purged, skipped, owed,  \* histories of deliveries
  disturbed,   \* history: the endpoint answered and a listener threw
  cut          \* history: the stream was closed after the webhook was created

stream == <<streamStatus, buffer, sequenceCounter, subscribed, toCall>>
webhook == <<created, exists, status, accepted, limit>>
breaker == <<failures, circuit>>
delivery == <<breaker, pending, deadLetters, delivered, disturbed>>
vars == <<stream, webhook, delivery, attempted, purged, skipped, owed, cut>>

Stream == INSTANCE EventStream WITH status <- streamStatus, subscribers <- subscribed

Statuses == {"active", "paused", "error"}

Init ==
  /\ Stream!Init
  /\ created = FALSE /\ exists = FALSE
  /\ status = "active" /\ accepted = {} /\ limit = 0
  /\ failures = 0 /\ circuit = "none"
  /\ pending = {} /\ deadLetters = {}
  /\ attempted = {}
  /\ delivered = {} /\ purged = {} /\ skipped = {} /\ owed = {} /\ disturbed = {}
  /\ cut = FALSE

-------------------------------------------------------------------------------
Bump(n) == IF n < FailureLimit THEN n + 1 ELSE n

(* checkCircuitBreaker() from circuit c and status s, and a mutant that leaves *)
(* the status alone.                                                         *)
CheckCircuitOnly(c, s) ==
  /\ circuit' = IF failures' >= FailureLimit THEN "open" ELSE c
  /\ status' = s

CheckCircuit(c, s) ==
  /\ circuit' = IF failures' >= FailureLimit THEN "open" ELSE c
  /\ status' = IF failures' >= FailureLimit THEN "error" ELSE s

(* Mutant of the test on the number of attempts. *)
LastAttemptLate(n) == n > limit
LastAttempt(n) == n >= limit

(* The status after resetCircuitBreaker() *)
Reopened == IF circuit # "none" /\ exists THEN "active" ELSE status

(* The ends of attemptDelivery() number n; dead is the dead letter queue it  *)
(* finds, rest the retries that wait besides it.                             *)
Delivered(d, rest, dead) ==
  /\ failures' = 0 /\ circuit' = "none"   \* updateStats(), resetCircuitBreaker()
  /\ status' = Reopened
  /\ delivered' = delivered \union {d}
  /\ pending' = rest /\ deadLetters' = dead

(* The catch, which finds f failures, circuit c and status s. *)
FailedForNow(d, n, rest, dead, c, s) ==
  /\ ~LastAttempt(n)
  /\ pending' = rest \union {<<d, n + 1>>}
  /\ deadLetters' = dead
  /\ circuit' = c /\ status' = s

FailedFinally(d, n, rest, dead, c, s) ==
  /\ LastAttempt(n)
  /\ CheckCircuit(c, s)
  /\ pending' = rest
  /\ deadLetters' = dead \union {d}

Failed(d, n, rest, dead, f, c, s) ==
  /\ failures' = Bump(f)
  /\ FailedForNow(d, n, rest, dead, c, s) \/ FailedFinally(d, n, rest, dead, c, s)
  /\ UNCHANGED delivered

(* attemptDelivery(): the request succeeds; or it fails; or it succeeds and  *)
(* a listener of the circuit's closing or of the delivery throws, which the  *)
(* catch takes for a failed request.                                         *)
Attempt(d, n, rest, dead) ==
  /\ attempted' = {d}
  /\ \/ Delivered(d, rest, dead) /\ UNCHANGED disturbed
     \/ Failed(d, n, rest, dead, failures, circuit, status) /\ UNCHANGED disturbed
     \/ /\ d \in Touchy
        /\ Failed(d, n, rest, dead, 0, "none", Reopened)
        /\ disturbed' = disturbed \union {d}

(* deliver() to a webhook that exists: an open circuit that has not cooled   *)
(* answers "failed" and keeps nothing of the event.                          *)
Deliver(d, dead) ==
  \/ /\ circuit = "open"
     /\ attempted' = {}
     /\ deadLetters' = dead
     /\ skipped' = skipped \union {d}
     /\ UNCHANGED <<status, breaker, pending, delivered, disturbed>>
  \/ circuit # "open" /\ Attempt(d, 1, pending, dead) /\ UNCHANGED skipped

NoAttempt == attempted' = {} /\ UNCHANGED <<delivery, skipped>>

-------------------------------------------------------------------------------
(* create(): registered, and one subscription per element of eventTypes. *)
Create(types, filter, n) ==
  /\ ~created
  /\ created' = TRUE /\ exists' = TRUE
  /\ accepted' = filter /\ limit' = n
  /\ Stream!Subscribe({<<types[i], i>> : i \in DOMAIN types})
  /\ NoAttempt
  /\ UNCHANGED <<status, purged, owed, cut>>

(* update(): the filter is read at every event, the retry configuration at   *)
(* every failed attempt.  The subscriptions of create() stay, whatever the   *)
(* new event types are.                                                      *)
Update(filter, n) ==
  /\ exists
  /\ accepted' = filter /\ limit' = n
  /\ NoAttempt
  /\ UNCHANGED <<stream, created, exists, status, purged, owed, cut>>

(* delete(): the circuit state goes, subscriptions and retries stay.         *)
Delete ==
  /\ exists
  /\ exists' = FALSE
  /\ circuit' = "none"
  /\ attempted' = {}
  /\ UNCHANGED <<stream, created, status, accepted, limit, failures, pending, deadLetters,
                 delivered, disturbed, purged, skipped, owed, cut>>

Pause ==
  /\ exists
  /\ status' = "paused"
  /\ NoAttempt
  /\ UNCHANGED <<stream, created, exists, accepted, limit, purged, owed, cut>>

(* Mutant: resume() forgets the circuit state. *)
ResumeKeepsCircuit ==
  /\ exists
  /\ status' = "active" /\ failures' = 0
  /\ attempted' = {}
  /\ UNCHANGED <<stream, created, exists, accepted, limit, circuit, pending, deadLetters,
                 delivered, disturbed, purged, skipped, owed, cut>>

(* resume(): active, no failures, no circuit state. *)
Resume ==
  /\ exists
  /\ status' = "active" /\ failures' = 0 /\ circuit' = "none"
  /\ attempted' = {}
  /\ UNCHANGED <<stream, created, exists, accepted, limit, pending, deadLetters,
                 delivered, disturbed, purged, skipped, owed, cut>>

(* The stream takes an event. *)
Publish(e) ==
  /\ Stream!Publish(e)
  /\ NoAttempt
  /\ UNCHANGED <<webhook, purged, owed, cut>>

(* The stream hands the event to a closure, which looks at the status and    *)
(* the filter; deliver() throws when the webhook is deleted, and the stream  *)
(* logs that.                                                                *)
Offered(e) == status = "active" /\ e \in accepted

HandOver(d) ==
  /\ Stream!Call(d)
  /\ IF Offered(d[1]) /\ exists
     THEN Deliver(d, deadLetters) /\ owed' = owed \union {d}
     ELSE NoAttempt /\ UNCHANGED <<status, owed>>
  /\ UNCHANGED <<created, exists, accepted, limit, purged, cut>>

(* Mutant: the retry fires and stays scheduled. *)
RetryFiresAgain(p) ==
  /\ toCall = {} /\ p \in pending
  /\ Attempt(p[1], p[2], pending, deadLetters)
  /\ UNCHANGED <<stream, created, exists, accepted, limit, purged, skipped, owed, cut>>

(* setTimeout fires: attemptDelivery() without a look at status, deletion    *)
(* or circuit.                                                               *)
RetryFires(p) ==
  /\ toCall = {} /\ p \in pending
  /\ Attempt(p[1], p[2], pending \ {p}, deadLetters)
  /\ UNCHANGED <<stream, created, exists, accepted, limit, purged, skipped, owed, cut>>

(* A minute has passed since the circuit opened. *)
Cool ==
  /\ circuit = "open"
  /\ circuit' = "cooled"
  /\ attempted' = {}
  /\ UNCHANGED <<stream, webhook, failures, pending, deadLetters, delivered, disturbed,
                 purged, skipped, owed, cut>>

(* retryDeadLetter(): the event must be among the oldest ReplayLimit events  *)
(* of the buffer; the entry is removed, then delivered.                      *)
Replayable(e) == \E i \in 1..Len(buffer) : i <= ReplayLimit /\ buffer[i] = e

RetryDeadLetter(d) ==
  /\ d \in deadLetters /\ exists /\ Replayable(d[1])
  /\ Deliver(d, deadLetters \ {d})
  /\ UNCHANGED <<stream, created, exists, accepted, limit, purged, owed, cut>>

(* purgeDeadLetterQueue() *)
Purge ==
  /\ deadLetters # {}
  /\ purged' = purged \union deadLetters
  /\ deadLetters' = {}
  /\ attempted' = {}
  /\ UNCHANGED <<stream, webhook, breaker, pending, delivered, disturbed, skipped, owed, cut>>

(* The stream is paused, resumed or closed by whoever owns it. *)
StreamControl ==
  /\ Stream!Pause \/ Stream!Resume \/ Stream!Close
  /\ cut' = (cut \/ (created /\ streamStatus' = "closed"))
  /\ NoAttempt
  /\ UNCHANGED <<webhook, purged, owed>>

Next ==
  \/ \E d \in toCall : HandOver(d)
  \/ \E p \in pending : RetryFires(p)
  \/ /\ toCall = {}
     /\ \/ \E types \in Registrations, filter \in Filters, n \in AttemptLimits :
             Create(types, filter, n)
        \/ \E filter \in Filters, n \in AttemptLimits : Update(filter, n)
        \/ Delete \/ Pause \/ Resume \/ Cool \/ Purge \/ StreamControl
        \/ \E e \in Events : Publish(e)
        \/ \E d \in deadLetters : RetryDeadLetter(d)

Spec == Init /\ [][Next]_vars

(* publish() calls its handlers, and setTimeout fires. *)
Waiting(d) == \E p \in pending : p[1] = d
FairSpec ==
  /\ Spec
  /\ WF_vars(\E d \in toCall : HandOver(d))
  /\ \A d \in Deliveries : WF_vars(\E p \in pending : p[1] = d /\ RetryFires(p))

-------------------------------------------------------------------------------
(* Types and bounds, the stream's included. *)
TypeOK ==
  /\ Stream!TypeOK /\ sequenceCounter \in 0..MaxPublished
  /\ subscribed \subseteq Types \X Closures /\ toCall \subseteq Deliveries
  /\ created \in BOOLEAN /\ exists \in BOOLEAN /\ cut \in BOOLEAN
  /\ status \in Statuses /\ accepted \subseteq Events /\ limit \in 0..MaxAttempts
  /\ failures \in 0..FailureLimit
  /\ circuit \in {"none", "open", "cooled"}
  /\ pending \subseteq Deliveries \X (2..MaxAttempts)
  /\ \A x \in {deadLetters, attempted, delivered, purged, skipped, owed, disturbed} :
        x \subseteq Deliveries

(* Status and circuit breaker of a registered webhook go together: while     *)
(* the circuit is not closed the stream's events stay away (the subscriber   *)
(* wants "active"), and "error" always has a circuit that can close again.   *)
StatusFollowsCircuit ==
  exists => /\ circuit # "none" => status # "active"
            /\ status = "error" => circuit # "none"

(* What the stream handed over was delivered, waits for a retry, is a dead   *)
(* letter, was purged, or was skipped by an open circuit.                    *)
NothingLostButSkipped ==
  owed \subseteq delivered \union {p[1] : p \in pending} \union deadLetters
                \union purged \union skipped

(* What the endpoint has answered. *)
Received == delivered \union disturbed

(* For every closure an event was handed to, whatever mix of retries and     *)
(* dead letter retries: the endpoint is sent again what it has answered only *)
(* where a listener that threw hid the answer.                               *)
DeliveredOnce == [][attempted' \intersect Received \subseteq disturbed \ delivered]_vars

(* close() cuts a webhook off for good: pause() and resume() make the status *)
(* of a closed stream anything, but no new event is handed over any more.    *)
ClosedForGood == [][cut => owed' = owed]_vars

(* No delivery waits for its next attempt for ever: a chain of retries ends, *)
(* whatever happens to the webhook, to its retry configuration and to the    *)
(* other deliveries.                                                         *)
RetriesEnd == \A d \in Deliveries : Waiting(d) ~> ~Waiting(d)

(* "reliable webhook delivery ... and dead letter queue support"             *)
(* (webhook-system.ts:4-6): no event handed over is lost.                    *)
NothingLost ==
  owed \subseteq delivered \union {p[1] : p \in pending} \union deadLetters \union purged

-------------------------------------------------------------------------------
(* For the deliveries themselves the webhook manager is a delivery ledger:   *)
(* status, filter, circuit, deletion and the stream decide when a delivery   *)
(* moves, never whether it is lost from the ledger, is in two places, is     *)
(* attempted beyond the limit of the day, or is dropped other than as a dead *)
(* letter: the stream itself never meets an open circuit.                    *)
Ledger == INSTANCE DeliveryLedger WITH
  Limits <- AttemptLimits,
  waiting <- pending,
  dead <- deadLetters,
  dropped <- skipped

ImplementsLedger == Ledger!LSpec
===============================================================================
