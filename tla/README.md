# Formal models of Infinity OS

TLA+ models of the parts of Infinity OS where something can go wrong that a
test would hardly reach, with TLC runs on small instances and theorems proved
for all values of the constants. Paths are relative to the repository root;
`kernel/` stands for `packages/kernel/src/`.

## The system

Infinity OS is a platform of TypeScript packages and Cloudflare Workers, with a
Python backend and React front ends. Its concurrency is that of JavaScript: one
thread per isolate, so code between two awaits is atomic; timers, promises and
requests interleave at the awaits. Durable Objects add alarms, evictions and
storage. This is the inventory of the parts with a logic of their own.

| Part | State | Operations | What is hard | What makes it correct |
|---|---|---|---|---|
| Bulkhead, `kernel/resilience/bulkhead.ts` | counter, queue with timers, promises | `execute`, `run`, `enqueue`, `dequeue`, `reset` | a finish, a timeout and a reset compete for one queued call; reset while executions run | one answer per call, FIFO, no idle slot while a call waits, at most `maxConcurrent` running |
| Circuit breaker, `kernel/resilience/circuit-breaker.ts` | state, two counters, `nextAttempt` | `execute`, `onSuccess`, `onFailure`, `transitionTo`, `reset` | calls settle in a state they did not start in | trips are earned, never left early, closes only after probing, recovers |
| Kernel event bus, `kernel/microservices/event-bus.ts` | subscriptions, history, dead letters, deliveries in progress | `publish`, `subscribe`, `unsubscribe`, `retryDeadLetterQueue`, `destroy` | deliveries and retry passes overlap; bounded queue | nothing lost without a trace, no event handled twice, every call returns |
| Event stream and webhooks, `kernel/os/webhook-system.ts` | buffer and status; webhook status, circuit, pending retries, dead letters | `publish`, `pause`, `resume`, `close`; `create`, `update`, `delete`, `pause`, `resume`, `deliver`, `retryDeadLetter`, purge | retries fire after the webhook was paused, deleted or tripped | one way per event and subscription, status follows circuit, nothing lost |
| Tenant object, `packages/tenant-do/src/index.ts` | SQL tables of config, modules, providers, routes; one alarm | provider registration, health reports, alarm-driven failover, start and stop; config, modules, routes | a pass goes on after an await with what it read before it | priorities stay strict, monitoring goes on, failover converges |
| Kernel core, `kernel/index.ts` | processes, handlers, grants, session | `start`, `stop`, `setUser`, `spawn`, `terminate`, IPC | start and stop overlap; session saved and restored | a logged-out user stays logged out |
| Rate limiters, `kernel/resilience/rate-limiter.ts` | buckets, timestamps, counters | `consume`, `reset`, `resetAll` | boundaries of windows, refills of refused calls, idle times | no interval admits more than the rate, none is refused without need, `resetMs` is kept to the rounding |
| Cache manager, `kernel/cache/cache-manager.ts` | entries with expiry | `get`, `set`, `delete`, `getOrSet`, `warm`, cleanup | a fill overtaken by a delete | bounded size, no stale value after a delete |
| The Void, `packages/void/src/VoidService.ts` | seal and shards, secret envelopes with versions, rotation timers | unseal, seal, store, retrieve, update, delete, rotate, auto-rotation, quarantine | every operation awaits cryptography between what it checks and what it writes; a timer rotates after a break-glass access | open only after a quorum, every version recorded, no secret stuck in rotation, a seal takes hold |
| The Lighthouse, `packages/lighthouse/src/LighthouseService.ts` | tokens with audit chains, token of each entity, ice box | issue, rotate, revoke, verify, monitor, threats, warp tunnel, verdicts | a hash is awaited between reading the end of a chain and appending to it; the six steps of the tunnel | chains are linked, a tunnel ends in quarantine or is FAILED |
| Orchestrator, `workers/orchestrator/src/index.ts` | policies, health, anomalies with their plans | report, detect, approve, execute, cron handlers | crons and calls of execute overlap at their awaits | supervised plans run only as often as approved, an anomaly is planned once, found again until it is |
| Self-healing, service discovery, `kernel/os/` | health, failover state, instances | heartbeats, sweeps, failover | heartbeat against sweep | no live instance evicted |
| Royal bank, Arcadian exchange, `workers/` | key-value entries | audit entries, stake, unstake | read, await, write back | audit chain unbroken, no lost update |

`PROJECT.json` lists these and the remaining parts (marketplace, configuration,
disaster recovery, gateways, identity, AI, studios, schemas, front ends) with
the reason each is left out.

How the parts interact: services call dependencies through a bulkhead and a
breaker, which share no state; the kernel bus carries events between
microservices, and the event stream feeds the webhook manager by calling its
subscriber inside `publish()`; the dispatch worker calls the tenant object by
RPC, and the platform fires its alarm. The Void and the Lighthouse are libraries
with the whole of their state in memory and no lock: their callers' requests and
their own timers meet at the awaits. The orchestrator keeps its state in global
maps of one isolate and is driven by HTTP alone.

## Modules

| Module | Models | Notes |
|---|---|---|
| `AdmissionControl` | what a bulkhead promises | abstract specification: three sets of calls |
| `Bulkhead` | `bulkhead.ts` | implements `AdmissionControl` until it is reset |
| `CircuitBreaker` | `circuit-breaker.ts` | several calls in flight |
| `RateLimiter` | `rate-limiter.ts` | three strategies over an explicit clock |
| `KernelEventBus` | `microservices/event-bus.ts` | one task per event and subscription |
| `EventStream` | the stream of `webhook-system.ts` | operations as parts of actions |
| `DeliveryLedger` | what reliable delivery promises of a delivery | abstract: where a delivery is, and the attempts it has left |
| `WebhookDelivery` | the webhook manager, composed with `EventStream` | one webhook; implements `DeliveryLedger` |
| `TenantFailover` | providers and failover of `tenant-do` | passes overlap at the await of `send()` |
| `VersionedStore` | what a store of versioned values promises | abstract: no seal, no status, no calls in flight |
| `VoidVault` | `packages/void` | calls split at their await, in slots; implements `VersionedStore` |
| `Healing` | `workers/orchestrator` | passes of the cron and calls of execute overlap |
| `Lighthouse` | `packages/lighthouse` | calls split at their awaits, in slots |
| `MC*` | | constants of the TLC instances |
| `*Proofs` | | theorems: one for each module but the abstract ones and the stream; `ResilienceProofs` is that of the breaker and of the limiters |

### Bulkhead

`activeCount` and `queue` are the fields of the class; `status[c]` is the promise
of call `c`, pending in a run, pending in the queue, or answered. `execute()` has
three outcomes, `ExecuteNow`, `ExecuteRejected` and `Enqueue`. The `finally` of
`run()` decrements the counter and dequeues in one turn of the event loop, so
`Finish` does both. `QueueTimeout(i)` is the timer callback that splices a call
out of the queue, in any order among calls. `Reset` rejects what is queued and
zeroes the counter, and the executions in flight go on. Left out: metrics and
their callback, and what the wrapped function returns, which the bulkhead does
not look at.

### CircuitBreaker

Time is one bit, `cooled` (`Date.now() >= nextAttempt`). A place in `Calls` is
reused, so any number of calls is made with at most `|Calls|` in flight. The
failure counter saturates at the threshold, which is all it is compared with.
`Succeed` and `Fail` run `onSuccess()` and `onFailure()` in whatever state they
find. A call that hangs fails by `callTimeout`. Left out: metrics,
`onStateChange`, the registry.

### RateLimiter

The one component in which actual times matter: `now` is the clock, `Tick` lets it
pass, and `consume()`, which awaits nothing, is one step for each strategy
(`ConsumeTokens`, `ConsumeSliding`, `ConsumeFixed`). `known` says that the map has
an entry for the key. The bucket's tokens are a fraction; `level` counts in units of
`1/windowMs` what exact arithmetic would give, so a millisecond adds `maxRequests`.
The code adds up rounded products instead (`rate-limiter.ts:59`) and may hold a
little less or more: `rounded` says that the tokens are such a sum, and then a
bucket with exactly what is asked for may let the request in or refuse it, and the
wait may be rounded up. What is assumed is that the roundings since the bucket was
last full add up to less than one unit, so that no other comparison comes out
differently; each of them is at most some `3 * maxRequests * 2^-53` tokens, which
leaves room for about `2^53 / (3 * maxRequests * windowMs)` calls from one filling
to the next (tens of millions for 1000 requests a minute). `ConsumeSliding` drops
the first `k` timestamps, those the filter drops, as they are in order. Two
histories say what clients saw: the requests allowed since the last reset
(`admitted`), and those refused since the last that was allowed, with the time
`resetMs` points at (`refused`). Left out: `limit` and `remaining` of an answer, the
callback, and the middleware, which turns the answer into headers. Keys share
nothing, so one stands for all. A clock that is set back is not modelled.

### KernelEventBus

`publish()` calls every matching handler before its first await, so `Publish`
creates all tasks of the event. A task ends by `HandlerSucceeds` or, after its
last attempt, by `HandlerGivesUp`, which appends to the dead letter queue and
trims it. `HandlerBacksOff` is a failed attempt with its delay. A retry pass
takes the whole queue and delivers item after item to every subscription that
matches *now*. Patterns are the constant relation `Matches`. Left out: the
history for `replay()`, which delivery does not read, and the other metrics.

### EventStream and WebhookDelivery

Events are their sequence numbers. `create()` subscribes one closure for every
element of `eventTypes`, equal elements and `"*"` included, and `publish()` calls
each handler of the event's type and of `"*"`; so what is delivered is a pair of an
event and a closure, the closure being a place in `eventTypes`. `Publish` stores the
event and puts the pairs into `toCall`, `HandOver` calls one of them, up to the end
of the first attempt. Nothing is awaited in between (the HTTP request is simulated),
so the other actions wait until `toCall` is empty. The stream's operations are
operators of `EventStream` and are composed with the manager's. A waiting
`setTimeout` is an element of `pending`; `RetryFires` looks neither at status, nor
deletion, nor circuit, as in the code, but at the retry limit of the moment, which
`Update` replaces as it does the filter. `circuit` is `none`, `open`, or open and
`cooled`.

Listeners run unguarded (`webhook-system.ts:559`): one that throws when an attempt
has succeeded ends it in the `catch`, which is the third outcome of `Attempt`
(`disturbed` is its history); one that throws at the backpressure signal ends
`publish()` before the handlers are called. In the run `Touchy` bounds the first to
the deliveries of one event. Left out: statistics other than `consecutiveFailures`,
the delivery log, signatures, delays, direct calls of `deliver()`, and listeners
that call back into the manager. Webhooks share only lists of entries that carry
their id, so one stands for all.

### TenantFailover

A pass of `healthCheckAndFailover()` reads all rows once and decides by them, so
it is modelled as the set of swaps it still has to make (`plan`), fixed in
`Begin`. After each swap it awaits `FAILOVER_QUEUE.send()`: there clients'
passes, registrations, health reports, start and stop get in. `SendFails` is a
rejected `send()`, `Crash` the eviction of the object. The platform's part is
external: it runs one alarm handler at a time, and retries one that throws until
it gives up or the alarm is deleted. Writes count as durable when made, since the
platform holds `send()` back until they are. The queue is optional in `Env`; it is
taken to be bound, without it a pass is one step. `Priorities` and `Offers` are
arbitrary.

### VoidVault

A call runs until its first await, and `calls[c]` says what slot `c` goes on to
do: the pair of actions `BeginUpdate`, `Updated` is `updateSecret()` before and
after its await. `seal` is `sealStatus`, `shards` the map of shards given so far;
`accepted` is a history. A payload is the version whose value it encrypts, or
`Shredded`. `RunAutoRotation` walks the secrets in the order of the map, rotating
and waiting one by one, so a scan can be sealed out, or overtaken by another scan,
between two secrets. `BreakGlassRotation` is the `setTimeout` of a break-glass
access. `TimePasses` makes a secret expire or its rotation fall due. The stages of
the quarantine only wait, and write at the end (`Quarantined`, and `Burnt` for a
critical one). Left out: the audit log, access policies and rate limits (a read is
let in or not), zero-knowledge bindings, Shamir splitting of single secrets, search
and metrics. Failures are taken where the code has a `catch`.

### Healing

A kind is an anomaly type of a service. An anomaly has its plans (`healingActions`)
in a sequence; `passes[p]` is a pass of `/cron/5minutes`: the anomalies still on the
list it read when it started, and the plan it waits for. A pass takes the anomalies
in order up to the first whose plan is automatic, starts that plan and waits, or up
to the first for which planning throws, which ends it (`GoOn`); the status is
ANALYZING before the plan is made. Planning throws (`PlanningThrows`) when an
enabled policy has conditions that cannot be read, or the one that applies has no
actions: `POST /policies` checks nothing. Detection plans for critical anomalies
too, and then stores those up to the first that fails. `Remediated` is the rest of
`executeRemediation()`, the status after it, and the way to the next wait, in one
step as in the code. `Execute` and `Executed` are `/healing/:id/execute`.
`SetPolicy` stores what it is given. `runs`, `approvals`, `analyses`, `failed` and
`overlap` (the most passes that had the anomaly on their lists at once) are
histories. A report without a latency ends in an error once it is stored and makes
detection do so, which changes nothing modelled. Left out: metrics, texts, the steps
of a plan, the cooldown, and `/cron/hourly`, which deletes resolved anomalies:
nothing resolves one. The steps of a plan are stand-ins that cannot fail today;
failing ones are modelled, since the handler has a `catch` for them.

### Lighthouse

As in `VoidVault`, a slot says what a call waits for. A link of an audit chain is
the number of the entry whose hash it records: `AppendCall` reads the end of the
chain, `Appended` pushes after the hash is there. `rotateToken()` is `BeginRotate`,
`Rotated` (the new token), `Replaced` (the old one is revoked) and `Appended`. The
monitoring cycle is `RevokeExpired` again and again, with the append of each
between. The tunnel's steps are `TriggerWarpTunnel` (up to the scan),
`TransferToIceBox` and `Quarantined`; the forensic analysis runs beside it, at once
or when asked for (`AutoAnalysis`: the run lets every entry choose, which covers
either setting). `altered` says whether what the signature covers may have changed.
`emit()` runs listeners unguarded. One that throws at `icebox.entry_added` ends the
tunnel in its `catch`: the entry is there, the transfer FAILED, the token as it was
(`TransferFails`). One that throws at `token.issued` ends a rotation with both
tokens, one at `token.revoked` ends the monitoring cycle: outcomes of `Rotated` and
`Appended`. A throw elsewhere leaves nothing undone that is modelled: at
`warp_tunnel.initiated` the tunnel has not begun, at `warp_tunnel.completed` all is
done but the transfer is marked FAILED. Left out: the records of threats and of
transfers, what an analysis finds, and verdicts that only note something. The awaits
are those of stand-ins for cryptography that resolve at once, so overlaps need calls
begun in the same turn of the event loop, which one caller can do; token expiry is
off by default and is modelled as configured (`Lapse`).

## Runs

Passing runs (bounds in the `.cfg`):

| Run | Instance | States | What it shows |
|---|---|---|---|
| `bulkhead` | 5 calls, 2 slots, 2 places, 1 reset | 7 246 | the queue holds exactly the waiting calls and is empty while a slot is free (`QueueSound`), overrun after a reset bounded (`OverrunBounded`), FIFO (`FirstComeFirstServed`), queued calls leave (`QueuedLeaves`), refinement of `AdmissionControl` |
| `breaker` | 4 in flight, thresholds 3 and 2 | 236 | no count and no cooling period outlives its state (`NothingCarriedOver`), trips and recoveries are earned (`TransitionsEarned`), `Recovers` |
| `rate_limiter` | 2 requests per 3 ticks, costs 1 to 3, 7 instants, any strategy | 1 003 453 | what lies between two allowed requests keeps to the rate (`RateBounded`), nobody is refused who keeps to it (`RefusedOverLimit`), `resetMs` is kept, at a bucket to a tick (`PromiseKept`) |
| `bus` | 1 event, 2 subscriptions, 1 retry each, 2 retriers, queue of 2 | 387 198 | `NothingLost`, `AtMostOnceWithoutRetry`, `CallsReturn`; a subscription that is gone only runs down (`GoneRunsDown`) |
| `webhook` | 2 events of 2 types, 2 closures (a type and everything, or a type twice), limits of 1 and 2 attempts, circuit of 3, buffer of 1 | 541 543 | `StatusFollowsCircuit`, `ClosedForGood`, `RetriesEnd`, refinement of `DeliveryLedger` |
| `tenant` | 2 capabilities of 2 providers, 3 priorities, alarm and 1 client, 4 registrations | 199 922 | `OrderStaysStrict`, `MonitoringGoesOn`, a stop holds once no check runs (`StoppedStaysStopped`), `Converges` |
| `vault` | 3 shards of threshold 2, 2 calls in flight, 1 secret, 3 new versions, 1 timer | 392 532 | `SecretsConsistent`, `QuorumUnseals`, `SealTakesHold`, refinement of `VersionedStore` |
| `healing` | 1 kind, 1 policy (automatic, supervised, or without actions), 2 passes, 2 calls of execute, 2 anomalies, 2 runs, 2 approvals | 1 831 329 | a supervised plan runs no more often than approved (`ApprovalsSpent`), an EXECUTING plan has somebody who will end it (`ExecutingIsAwaited`), an anomaly is planned at most once by each pass that had it on its list at the same time, and stays to be found until then, unless planning failed (`ReplannedOnlyByOverlap`) |
| `lighthouse` | 1 entity, 2 tokens, 2 calls in flight, chains of 3, 1 entry with 1 analysis at once, either setting of autoAnalysis | 221 692 | chains are linked (`AuditLinked`), no change of status without its entry, and no way back to ACTIVE but a release (`StatusAudited`), a verdict acts at once and only an analysis of its entry takes it back (`VerdictStands`), a tunnel quarantines its token or is FAILED (`TunnelQuarantines`) |

Some properties are theorems without a run of their own: `AnsweredOnce` (bulkhead),
`CountsMatch` (bus), `NothingLostButSkipped` and `DeliveredOnce` (webhooks, where
the refinement of `DeliveryLedger` is the stronger statement), and the type
invariants of the vault, the orchestrator and the Lighthouse, which bound no counter
and no queue.

Why the bounds are enough: each instance reaches the limit of every bounded resource
(slots, queue places, dead letters, buffer, attempts, thresholds) and goes one
beyond it, and has two of every actor whose steps can interleave: five calls fill
two slots and two places with one to spare; four in flight give a threshold of three
and one straggler; two retriers overlap; two capabilities open a window between the
first swap and the second. The bus instance with one event suffices for its
properties, which are about one pair of an event and a subscription; the order of
two events is the subject of `bus_order`. In the vault one secret is enough because
the properties are about one secret and the calls for it: two calls overlap in every
pair of operations, three versions let an update and two rotations interleave, and
three shards of two leave one that comes late. Two anomalies make a pass wait with
another on its list while the second pass reads the same list; two runs and two
approvals let one plan run twice, and a second approval come between. A chain of
three holds two appends that read the same end, and two tokens are what a rotation
leaves. In the webhook instance one event is seen by both closures and the other by
one, or one by both and the other by none; two deliveries of two attempts, and a
third that fails at once or is retried from the dead letters, open a circuit of
three; a buffer of one forgets the first event when the second comes, and a limit
that changes from one to two or back meets retries that wait. One policy is enough
for the orchestrator because planning only asks what the foremost one says, which
the three bodies differ in. One whose conditions cannot be read makes planning fail
as one without actions does. Seven instants hold two windows of three ticks and the
boundaries on both sides, and fractions of a token remain (a tick refills two thirds
of one); costs of one to three are less than, equal to and more than the bucket
holds. Deadlock is not checked where the clients may simply stop (the runs of the
bulkhead, the bus, the webhooks and the tenant object); bounded calls run out there.
It is checked in the others, where a step is always left: time passes, a report
arrives, the seal is set again, a limiter is reset.

Runs that find what a comment says violated:

| Run | Says | What TLC finds |
|---|---|---|
| `bus_order` | "Ordered delivery guarantees" (`event-bus.ts:9`) | two events in progress, the later handled first; the `ordered` flag is never read |
| `webhook_lost` | "reliable webhook delivery ... dead letter queue support" (`webhook-system.ts:4`) | a dead letter retried while the circuit is open is removed and not kept anywhere |
| `tenant_stop` | "Stop periodic health checks" (`tenant-do/src/index.ts:451`) | monitoring stopped while a check awaits `send()`; `alarm()` then schedules the next |

## Fairness

- `Bulkhead`: only that a timer that was set and not cleared fires (`setTimeout`).
  Nothing is assumed of the wrapped functions, so `QueuedLeaves` holds when all of
  them hang.
- `CircuitBreaker`: the cooling period passes, every call settles (`callTimeout`
  settles one that hangs), and clients go on calling. `Recovers` says that once
  failures cease the breaker closes for good; nobody need call `reset()`.
- `RateLimiter`: none. Nothing is promised that must happen.
- `KernelEventBus`: handlers settle and back-off timers fire, and a retry pass goes
  on when its await does. A handler that never settles keeps `publish()` from
  returning, in the code as well.
- `WebhookDelivery`: `publish()` goes on to its next handler (`HandOver`; it awaits
  nothing), and `setTimeout` fires. No fairness of publishing, resuming or cooling.
- `TenantFailover`: a scheduled alarm fires, and what `send()` returns settles, one
  way or the other. `Converges` is stated under what it needs: reports and
  registrations cease, monitoring goes on, and the platform does not give up.
- `VoidVault`, `Lighthouse`: the event loop resumes every await (`GoesOn` of each
  slot). No client calls anything, no time passes and no timer fires by fairness.
  `SealTakesHold` says that once the vault stays sealed the calls that were let in
  come to an end; `TunnelQuarantines` that an opened tunnel reaches its last step,
  or is FAILED.
- `Healing`: none. The schedules of the worker reach no handler, so nothing promises
  that a pass is ever run, and no liveness is stated.

## Theorems

TLAPS checks every proof to the last leaf; the constants are arbitrary, under the
assumptions named in the modules (`CallsFinite`, `LimitsAssumption`,
`ThresholdsAssumption`, `LimiterAssumption`, `BusAssumption`, `WebhookAssumption`,
`FailoverAssumption`, `VaultAssumption`, `HealingAssumption`,
`LighthouseAssumption`). They say that limits are numbers, that some are not zero
(`maxRequests` and `windowMs` of a limiter, a number of tokens asked for), and where
cardinalities are taken that sets are finite. Every invariant, action property and
refinement of the passing runs is proved, and the properties listed above that have
no run; what is left to TLC is the liveness, and of that the part that is about
steps is proved too (below).

**Bulkhead.** `QueueInv` is inductive: types, the agreement of queue and promises,
and "calls wait only while the counter is at its limit". The last part alone is not
inductive: a queue that held a call twice, or one that was answered, would be served
wrongly, so the agreement is needed with it; the key lemma says what `RemoveAt`
leaves of a queue without duplicates. Consequences: `TypeCorrect`,
`QueueSoundTheorem` and the action properties `AnswerTheorem` and `OrderTheorem`: no
call starts on the direct path while another waits, and a call that still waits is
where it was or further to the front. The second invariant relates the counter to
the world: `activeCount` is the number of executions in flight less those the last
reset lost track of (`CountCorrect`). With `activeCount <= MaxConcurrent` it gives
`OverrunTheorem` and, before the first reset, `ConcurrencyTheorem`. `Refinement`
shows that until the first reset every step is one of `AdmissionControl`: the
counter is then the number of running calls, and the queue is as long as calls are
waiting (`QueuedCount`).

**Kernel event bus.** `NothingLost` counts an item of a retry pass as kept, and the
item the pass is at leaves it in the end; so `LossInv` is stronger: *without*
that first item every owed pair has a trace. That is inductive because the pass
started a task for every matching subscription when it came to the item.
`CountTheorem` and `OnceTheorem` rest on `Once`: before the first retry pass an event
meets a subscription once, as one task, one handled event or one dead letter. Only
so does the queue grow by one whenever nothing is trimmed. `AdvanceTheorem` is an
action property of what `publish()` and a retry pass wait for: it only gets less.
`RunDownTheorem` is one of subscriptions that are gone: no delivery to them begins. It
needs that what a pass still holds of the queue starts tasks for registered
subscriptions alone, and that a subscription never comes back.

**Webhooks.** `StatusTheorem` needs that before `create()` nothing has happened;
`ClosedTheorem` needs that a cut stream has no handlers and no call left to make.
`OnceTheorem` and `LedgerTheorem` rest on three facts about a delivery, an event at
one closure: what is still to be called has not been handed over (`HandedOnce`); the
ways it can be on exclude each other and hold one retry each (`OneWay`); an attempt
ends in one of three ways, whatever the listeners do (`AttemptWays`). `OnceTheorem`
speaks of one closure: a type listed twice, or with `"*"`, makes two deliveries of
one event, which the endpoint gets twice. And of one delivery it says that the
endpoint is sent again what it has answered only where a listener that threw hid the
answer. `LedgerTheorem` is the refinement of `DeliveryLedger`: `pending`,
`deadLetters` and `skipped` are its `waiting`, `dead` and `dropped`, each attempt is
one `Outcome` of it, under the limit of the day (`update()` is its `SetLimit`), and
a step of status, circuit or stream stutters. It needs `OneWay` (a delivery handed
over is unknown to the ledger) and the status (an open circuit is met only by a dead
letter, never by an event of the stream, or `Drop` would be no step of the ledger).
`OnePlaceTheorem` is proved of the ledger's own steps and holds of the webhook
manager through the refinement: a delivery waits for one attempt, is a dead letter,
or has ended in one of three ways.

**Circuit breaker.** `BreakerInv` is `TypeOK` and `NothingCarriedOver`: a closed
breaker has counted exactly the failures in a row of this CLOSED period, a probing
one the successes of this probing period, and no cooling period has passed but that
of an open one. It is inductive. `TransitionTheorem` needs that `failureCount` is the
streak: else a trip by the counter would not be one by failures in a row.

**Rate limiters.** The properties speak of histories of any length; the state of a
limiter is a few numbers. `LimiterInv` says what those numbers know of the history:

- `BucketFlow`: since any request, what was taken and what is left is at most the
  capacity and the refills since. It gives the bucket's part of `RateTheorem`.
- `BucketFill`, its converse: what flowed in since *any* time `t` is still there,
  was taken since, or found the bucket full. It gives `RefusalTheorem` at `t = now -
  windowMs`, that instant included, as a bucket with exactly enough may refuse. It
  is the reason why a refused call may refill: no refill is lost.
- `SlidingWindow`: the timestamps are those of the last requests, all others have
  expired. `FixedWindows`: the last `count` requests are of this window, at most
  `maxRequests` before them of the one before, and the rest is more than a window
  older. `RateBounded` alone is not inductive for either: it does not say which
  requests the limiter has forgotten.
- `Promised`: a promise is covered by what is in the bucket and what will flow in by
  then, or names the end of the oldest timestamp or of the window, which no refusal
  moves. It gives `PromiseTheorem`: at a bucket the promise holds one tick later for
  certain, and at the tick itself unless a rounding falls short.

The products of costs, spans and rates are what the proofs are careful about: the few
facts needed (`Distribute`, `Monotone`) are lemmas, and the rest is linear.

**Tenant failover.** `TypeCorrect` shows that what a pass has left is always
well-formed: swaps between two registered providers of one capability, one per
capability. `MonitoringTheorem` needs it for the Booleans of the alarm;
`StopTheorem` is its counterpart, which a stop during a check escapes
(`tenant_stop`). `OrderTheorem` rests on `Strict`: while nothing was mixed,
priorities are distinct, at most one pass waits, and *what it has left to do was
planned with the priorities that still hold* (`Fresh`). `OrderStaysStrict` alone is
not inductive: a swap with outdated priorities would duplicate one. The key lemma is
`SwapPermutes`. `PromotionTheorem` says what the permutations are: each exchanges
the provider that is first of its capability with one that is first afterwards. It
needs that every swap a pass has still to make demotes a provider that is first
*now* (`PlansPrimaries`): its swaps of other capabilities do not touch that. That
the demoted one is down and the promoted one the best that is not can only be
claimed of a swap at which its pass did not wait; after an await either may have
changed.

**Vault.** Every step either leaves the versions of a secret alone (`Kept`: at most
its payload is shredded) or writes the next version (`Grown`); with that
`VersionsKept` is inductive, whatever calls overlap. `RotationsEnd` is inductive by
itself, with types: the step that takes the last rotation of a secret away gives it
another status. `StoreTheorem` is the refinement of `VersionedStore` by
`Versions(secrets[s])`, which forgets the status: a step that keeps the versions is
a stutter or `Erase`, one that grows them is `Write`, and the abstract store has no
step by which an older value comes back. `QuorumNeeded` is strengthened by: while
sealed, the shards held are those accepted.

**Healing.** `ApprovalsNeeded` is strengthened by what an approval is worth
(`PlanOK`): the runs of a plan and the approval it still has in its status are
together at most its approvals. `PlannedOnce` is `ReplannedOnlyByOverlap`,
strengthened: the plans that passes made for an anomaly and the lists it is still on
are together at most its `overlap`, and of one that no pass has planned, or failed
to plan, the status is DETECTED, since the status changes in the turn in which the
plan is made. It needs to know of each pass that it waits only for a plan of an
anomaly it has planned, which is on its list no more. `ExecutingIsAwaited` is
inductive with these: when the wait of one of two runs of a plan ends, the status is
COMPLETED or FAILED at once, and a plan newly started is the one its pass or call
now waits for. A pass that goes on to its next plan has ended the last one.

**Lighthouse.** `ChainsLinked` needs an invariant of the appends in flight: each has
read an entry that exists, and on a chain that was never contended it is alone and
has read the last. `AuditTheorem` needs only types: it classifies every step by what
it does to one token (`Opens`, an append, or nothing), and of those that make a
token ACTIVE leaves the release alone. `VerdictTheorem` looks at the entries of the
ice box in the same way: of the steps that change the status of one, all but those
of an analysis are verdicts, which change the token too.

**Liveness, step by step.** Each liveness property combines fairness with a claim
about single steps: that no step of anybody undoes the progress. That claim can
be proved, for all constants, and is where the interleavings are:

| Checked by TLC | Proved | What no step does |
|---|---|---|
| `QueuedLeaves` | `OrderTheorem` | push a waiting call back |
| `Recovers` | `NeverThrownBackTheorem` | throw the breaker back, unless a call fails |
| `CallsReturn` | `AdvanceTheorem` | add a task to a delivery under way, or repeat an attempt |
| `RetriesEnd` | `RetriesAdvanceTheorem` | go back to an earlier attempt |
| `Converges` | `PromotionTheorem` | change priorities but by putting one provider first in place of another, the best for one that is down unless the pass waited (while nothing was mixed) |
| `SealTakesHold` | `SealTheorem` | begin a guarded operation or a rotation while sealed |
| `TunnelQuarantines` | `TunnelTheorem` | take the tunnel from its way, but for the transfer that fails |

Only model-checked: the liveness properties themselves, which rest on
fairness and ENABLED and are out of the proof system's reach. No module uses
recursive operators. What the assumptions do not cover is not proved: the
transcription of the code itself is by reading.

## Observations

Met while modelling, and part of the models as the code has them, but without a
run of their own:

- Circuit breaker: a straggler that fails in the open breaker extends the cooling
  period and reports `onStateChange(OPEN, OPEN)`; `reset()` reports nothing.
- Bulkhead: after a `reset()` with executions in flight more than `maxConcurrent`
  ("Maximum concurrent executions", `bulkhead.ts:13`) may run, as `activeCount = 0`
  forgets those that later decrement it; `OverrunBounded` says how many, and until
  the reset the limit holds (`ConcurrencyTheorem`).
- Event bus: `maxRetries: 0` is taken for absent; `retryDeadLetterQueue()` counts
  every item as a success, also one whose handler failed again, and redelivers to
  subscriptions that handled the event.
- Rate limiters: a request for more tokens than the bucket holds is told a finite
  `resetMs` and is never allowed; a bucket of 1 request per 161 ms holds
  0.9999999999999999 tokens 161 ms after it was empty, so the request that comes
  back when `resetMs` says is refused again (the `rounded` of the model); the fixed
  window admits twice its limit around a boundary, which is the bound that is
  proved; keys are never removed from the maps.
- Webhooks: retries ignore `pause()` and `delete()`; an open circuit sets the status
  to `error`, and the stream's subscriber wants `active`, so no event probes the
  half-open circuit; `retryDeadLetter()` looks at the oldest 1000 of up to 10000
  buffered events; the circuit lets several dead letters through once it has cooled
  ("Half-open: allow one attempt", `webhook-system.ts:523`), as a failed attempt
  that will be retried decides nothing; `update()` does not subscribe to new event
  types. A type listed twice, or with `"*"`, has an event delivered twice. A
  listener of `webhook:delivery.success` that throws makes a delivered event a
  failed attempt, which is sent again or becomes a dead letter; one of
  `stream:backpressure.on` that throws keeps the event from the subscribers and
  rejects `publish()`, and the next event does reach them.
- Event stream: a paused stream publishes; `pause()` and `resume()` undo `close()`,
  but the subscribers stay gone (`ClosedForGood`).
- Tenant failover: a provider that went down during the await may be promoted, and
  the next check repairs it; with equal priorities a swap changes nothing, and every
  check reports a failover anew; when `send()` rejects, the code does not schedule
  the next alarm and relies on the platform's retries.
- Event bus: `destroy()` leaves the deliveries in flight, which fill the dead letter
  queue of the destroyed bus (`GoneRunsDown` says that nothing else does).
- Vault: no rotation, and not the error path of one, looks at the status of the
  secret, so a rotation makes a SHREDDED or QUARANTINED secret ACTIVE; an update
  after a delete leaves a SHREDDED secret with a readable payload, although
  shredding is "making the ciphertext permanently unreadable"
  (`VoidService.ts:1372`). `retrieveSecret()` checks the status before its await.
  Two scans that overlap rotate a secret twice. A shard whose signature is verified
  after the vault was opened is stored for the next unsealing. Rotation replaces the
  payload, so no old version is left for the grace period its comment mentions, and
  leaves the zero-knowledge binding as it was. Nothing fills `dataSubjectIds`, so an
  erasure request erases nothing.
- Orchestrator: the first default policy (`policy_service_down`, automatic, priority
  100) tests a metric no report has and so applies to everything, which makes error
  spikes run automatically although their own policy says "Requires approval"
  (`workers/orchestrator/src/index.ts:269`). Every detection makes a fresh anomaly
  of what is already known. A pass sets REMEDIATING whatever the result. `approve`
  looks at no status, so a plan that has run can be approved and run again. The
  worker exports no `scheduled` handler: the cron routes run when somebody calls
  them. When planning throws, the anomaly a pass was at stays ANALYZING without a
  plan and is never found again, while a policy without conditions makes planning
  throw for every anomaly; a report without a latency stops all detection until the
  service reports again.
- Lighthouse: the signature covers the risk score and the fingerprint, so any
  activity makes `verifyToken()` report an invalid signature; the fingerprint is
  updated before activity is compared with it, so nothing is ever anomalous. Two
  overlapping appends fork a chain (`contended` in `AuditLinked`). A release makes a
  token ACTIVE that was revoked before the tunnel, and one given before step 6
  leaves a QUARANTINED token with a RELEASED entry; a tunnel whose listener throws
  leaves the token ACTIVE with an entry in the ice box; a listener of `token.issued`
  that throws leaves the old token of a rotation unrevoked, and one of
  `token.revoked` the tokens a monitoring cycle had still to look at; a verdict
  given while the analysis runs is overwritten (the exception of `VerdictStands`); a
  rotation during a tunnel leaves the successor ACTIVE, and two rotations leave two
  ACTIVE tokens.
- Not modelled, met in reading: `getLastAuditHash()` of the royal bank lists keys in
  ascending order with limit 1, so it finds the oldest entry
  (`workers/royal-bank/src/index.ts:854`); stake and unstake of the Arcadian
  exchange read and write back a key-value entry with no guard between.

## Plan

Done: the kernel's resilience (bulkhead, breaker, limiters) and messaging, the
tenant object's failover, the vault, the orchestrator and the token service, each
with its theorems. What comes next, in this order:

1. `KernelLifecycle` (`kernel/index.ts`): `start`, `stop`, `setUser` as actions
   split at their awaits, with the stored session. The question: can a user who
   logged out be restored, and is a stopped kernel stopped? 2 users, 2
   overlapping callers.
2. `CacheManager` with fills in flight, or the failover manager of
   `self-healing.ts` with the heartbeats of `service-discovery.ts`.
3. `InfinityOne` (`packages/infinity-one`): users, sessions, roles and their limits.
4. `TenantModules`: install, uninstall and routes on one route table.
5. The audit ledger of the royal bank and the wallets of the exchange, which read,
   await and write back.

## Not modelled

Most of the repository is parts without concurrent state (gateways, loggers,
schemas, front ends, studios), which keep nothing two requests could disagree about,
numerical code (AI, quantum, anomaly detection), whose results TLA+ has nothing to
say about, and the Python backend, whose bus is a separate implementation. The parts
of the plan are not modelled yet; the models cover some two thousand of the roughly
hundred thousand lines, those where steps interleave. Outside `RateLimiter` actual
times are abstracted to "has passed"; delays, back-off factors and jitter have no
effect on what may happen in which order.

## Running

    tlc -workers 2 -config Bulkhead.cfg MCBulkhead
    tlapm BulkheadProofs.tla

Definitions whose comment says "Mutant" are deliberately wrong variants of the
definition that follows: with one in its place, the property named in
`PROJECT.json` must fail, which shows that the property can fail.
