------------------------------- MODULE Bulkhead -------------------------------
(***************************************************************************)
(* The bulkhead of packages/kernel/src/resilience/bulkhead.ts: a counter   *)
(* of executions in flight and a queue of calls that wait for a slot, each *)
(* with a timer.  The code runs on one event loop, so what happens between *)
(* two awaits is one action.  The outcome of the wrapped function (value   *)
(* or exception) does not change what the bulkhead does (`finally`), so    *)
(* both are the outcome "done".  The metrics and the onMetric callback,    *)
(* which no decision reads, are left out.                                  *)
(***************************************************************************)
EXTENDS Integers, Sequences, SequencesExt, FiniteSets

CONSTANTS Calls,          \* the calls of execute() that will ever be made
          MaxConcurrent,  \* options.maxConcurrent
          MaxQueue,       \* options.maxQueue
          MaxResets       \* bound on the calls of reset()

ASSUME CallsFinite == IsFiniteSet(Calls)
ASSUME LimitsAssumption ==
  /\ MaxConcurrent \in Nat \ {0}
  /\ MaxQueue \in Nat
  /\ MaxResets \in Nat

VARIABLES
  activeCount,  \* this.activeCount
  queue,        \* this.queue, the calls in the order they were pushed
  status,       \* what has become of the promise of each call
  orphans,      \* history: executions in flight when reset() was last called
  resets        \* number of resets so far, for the bound

vars == <<activeCount, queue, status, orphans, resets>>

Answers == {"done", "full", "timeout", "reset"}
Status == {"idle", "running", "queued"} \union Answers

Running == {c \in Calls : status[c] = "running"}
Queued == {c \in Calls : status[c] = "queued"}

Init ==
  /\ activeCount = 0
  /\ queue = <<>>
  /\ status = [c \in Calls |-> "idle"]
  /\ orphans = 0
  /\ resets = 0

(* The two tests of execute(). *)
HasCapacityOffByOne == activeCount <= MaxConcurrent
HasCapacity == activeCount < MaxConcurrent
QueueFull == Len(queue) >= MaxQueue

(* execute() with capacity: run() is entered at once. *)
ExecuteNow(c) ==
  /\ status[c] = "idle"
  /\ HasCapacity
  /\ activeCount' = activeCount + 1
  /\ status' = [status EXCEPT ![c] = "running"]
  /\ UNCHANGED <<queue, orphans, resets>>

(* execute() with neither capacity nor room in the queue throws. *)
ExecuteRejected(c) ==
  /\ status[c] = "idle"
  /\ ~HasCapacity
  /\ QueueFull
  /\ status' = [status EXCEPT ![c] = "full"]
  /\ UNCHANGED <<activeCount, queue, orphans, resets>>

(* execute() without capacity pushes the call and starts its timer. *)
Enqueue(c) ==
  /\ status[c] = "idle"
  /\ ~HasCapacity
  /\ ~QueueFull
  /\ queue' = Append(queue, c)
  /\ status' = [status EXCEPT ![c] = "queued"]
  /\ UNCHANGED <<activeCount, orphans, resets>>

(* Mutants: the queue is not served when a slot frees up; the newest call   *)
(* is taken from it.                                                        *)
EndWithoutDequeue(c, n) ==
  /\ activeCount' = n
  /\ status' = [status EXCEPT ![c] = "done"]
  /\ UNCHANGED queue

EndAndPop(c, n) ==
  IF queue = <<>> \/ n >= MaxConcurrent
  THEN EndWithoutDequeue(c, n)
  ELSE /\ activeCount' = n + 1
       /\ status' = [status EXCEPT ![c] = "done", ![queue[Len(queue)]] = "running"]
       /\ queue' = SubSeq(queue, 1, Len(queue) - 1)

(* dequeue() after the count has become n: the head of the queue, if there  *)
(* is one and n leaves room, is shifted out and run; c is the call whose    *)
(* execution has just ended.                                                *)
EndAndDequeue(c, n) ==
  IF queue = <<>> \/ n >= MaxConcurrent
  THEN /\ activeCount' = n
       /\ status' = [status EXCEPT ![c] = "done"]
       /\ UNCHANGED queue
  ELSE /\ activeCount' = n + 1
       /\ status' = [status EXCEPT ![c] = "done", ![Head(queue)] = "running"]
       /\ queue' = Tail(queue)

(* The wrapped function settles: the `finally` block of run(). *)
Finish(c) ==
  /\ status[c] = "running"
  /\ EndAndDequeue(c, activeCount - 1)
  /\ UNCHANGED <<orphans, resets>>

(* Mutant: the timer's callback shifts the queue instead of splicing it. *)
QueueTimeoutShifts(i) ==
  /\ queue' = Tail(queue)
  /\ status' = [status EXCEPT ![queue[i]] = "timeout"]
  /\ UNCHANGED <<activeCount, orphans, resets>>

(* The timer of a queued call fires.  Nothing is assumed of the order in    *)
(* which the timers of different calls fire.                                *)
QueueTimeout(i) ==
  /\ queue' = RemoveAt(queue, i)
  /\ status' = [status EXCEPT ![queue[i]] = "timeout"]
  /\ UNCHANGED <<activeCount, orphans, resets>>

(* reset(): every queued call is rejected, and the count is set to zero     *)
(* although the executions in flight go on.                                 *)
Reset ==
  /\ resets < MaxResets
  /\ activeCount' = 0
  /\ queue' = <<>>
  /\ status' = [c \in Calls |-> IF c \in Queued THEN "reset" ELSE status[c]]
  /\ orphans' = Cardinality(Running)
  /\ resets' = resets + 1

Execute(c) == ExecuteNow(c) \/ ExecuteRejected(c) \/ Enqueue(c)

(* The steps of a bulkhead nobody resets. *)
Serve ==
  \/ \E c \in Calls : Execute(c) \/ Finish(c)
  \/ \E i \in 1..Len(queue) : QueueTimeout(i)

Next == Serve \/ Reset

Spec == Init /\ [][Next]_vars

(* A timer that was set and not cleared fires: setTimeout promises that,    *)
(* and nothing is promised about the wrapped functions.                     *)
TimerFairness ==
  \A c \in Calls :
    WF_vars(\E i \in 1..Len(queue) : queue[i] = c /\ QueueTimeout(i))
TimedSpec == Spec /\ TimerFairness

-------------------------------------------------------------------------------
(* Type invariant of the counter, the queue and the promises. *)
TypeOK ==
  /\ activeCount \in Int /\ activeCount <= MaxConcurrent
  /\ queue \in Seq(Calls) /\ Len(queue) <= MaxQueue
  /\ status \in [Calls -> Status]
  /\ orphans \in Nat
  /\ resets \in 0..MaxResets

(* The queue holds exactly the calls whose promise is pending in the queue, *)
(* each once: a call that was answered by its timer, by reset() or by a run *)
(* is nowhere in the queue, so no call is run after it was answered.        *)
QueueHoldsTheWaiting ==
  /\ Queued = {queue[i] : i \in 1..Len(queue)}
  /\ \A i, j \in 1..Len(queue) : queue[i] = queue[j] => i = j

(* A call waits only while every slot is taken: dequeue() in the `finally`  *)
(* of run() leaves no free slot behind while a call is queued, whatever the *)
(* interleaving of finishes, timeouts and resets.                           *)
QueueOnlyWhenFull == queue # <<>> => activeCount = MaxConcurrent

(* The queue agrees with the promises and with the counter: no call is lost *)
(* from it, none stays in it after its answer, and it is empty while a slot *)
(* is free, however finishes, timers and resets interleave.                 *)
QueueSound == QueueHoldsTheWaiting /\ QueueOnlyWhenFull

(* The counter is the number of executions in flight less those that were   *)
(* in flight at the last reset: reset() zeroes the counter and their later  *)
(* `finally` blocks decrement it all the same.                              *)
CountTracksRunning == activeCount = Cardinality(Running) - orphans

(* The executions in flight never exceed the limit by more than the ones    *)
(* the last reset() lost track of.                                          *)
OverrunBounded == Cardinality(Running) <= MaxConcurrent + orphans

(* "Maximum concurrent executions" (bulkhead.ts:13).                        *)
ConcurrencyLimit == Cardinality(Running) <= MaxConcurrent

(* No call starts to run while a call that was queued before it waits: the  *)
(* direct path of execute() never overtakes the queue.                      *)
NoOvertaking ==
  \A c \in Calls : status[c] # "running" /\ status'[c] = "running" =>
                    queue = <<>> \/ c = Head(queue)

(* A call that goes on waiting is at the same place of the queue or nearer  *)
(* to its head.                                                             *)
NeverPushedBack ==
  \A i \in 1..Len(queue) : status'[queue[i]] = "queued" =>
    \E j \in 1..i : j <= Len(queue') /\ queue'[j] = queue[i]

(* Calls are served in the order they came: none overtakes the queue, and   *)
(* none is pushed back in it by finishes, timers of other calls or new      *)
(* arrivals.                                                                *)
FirstComeFirstServed == [][NoOvertaking /\ NeverPushedBack]_vars

(* One answer per call: a promise that was settled stays as it was settled, *)
(* although timer, dequeue, reset and execution all hold its callbacks.     *)
AnsweredOnce ==
  [][\A c \in Calls : status[c] \in Answers => status'[c] = status[c]]_vars

(* A queued call does not stay queued for ever, even when every running     *)
(* function hangs: it is run, timed out or reset.                           *)
QueuedLeaves == \A c \in Calls : status[c] = "queued" ~> status[c] # "queued"

-------------------------------------------------------------------------------
(* Until it is reset the bulkhead implements the abstract admission control. *)
Abstract == INSTANCE AdmissionControl WITH
  Slots <- MaxConcurrent,
  Places <- MaxQueue,
  running <- Running,
  waiting <- Queued,
  answered <- {c \in Calls : status[c] \in Answers}

ImplementsAdmissionControl ==
  Abstract!AInit /\ [][resets' = 0 => Abstract!ANext]_(Abstract!avars)
===============================================================================
