--------------------------- MODULE BulkheadProofs ---------------------------
(***************************************************************************)
(* Proofs about the bulkhead, for every finite set of calls and all        *)
(* limits.  The queue and the promises (QueueInv) come first, then the     *)
(* count of executions in flight, which needs them: the call a finish      *)
(* takes from the queue must be one that is not running yet.               *)
(***************************************************************************)
EXTENDS Bulkhead, TLAPS, FiniteSetTheorems, SequenceTheorems

(* What splice(i, 1) leaves of a queue. *)
LEMMA RemoveAtProperties ==
  ASSUME NEW S, NEW s \in Seq(S), NEW i \in 1..Len(s)
  PROVE  /\ RemoveAt(s, i) \in Seq(S)
         /\ Len(RemoveAt(s, i)) = Len(s) - 1
         /\ \A j \in 1..(Len(s) - 1) :
              RemoveAt(s, i)[j] = IF j < i THEN s[j] ELSE s[j + 1]
<1> DEFINE a == SubSeq(s, 1, i - 1)
           b == SubSeq(s, i + 1, Len(s))
<1>1. a \in Seq(S) /\ Len(a) = i - 1 /\ \A j \in 1..(i - 1) : a[j] = s[j]
  OBVIOUS
<1>2. b \in Seq(S) /\ Len(b) = Len(s) - i /\ \A j \in 1..(Len(s) - i) : b[j] = s[j + i]
  OBVIOUS
<1>3. RemoveAt(s, i) = a \o b
  BY DEF RemoveAt
<1> HIDE DEF a, b
<1>4. a \o b \in Seq(S)
  BY <1>1, <1>2
<1>6. Len(a \o b) = Len(s) - 1
  <2>1. Len(a \o b) = Len(a) + Len(b)
    BY <1>1, <1>2, ConcatProperties
  <2> QED BY <2>1, <1>1, <1>2
<1>5. ASSUME NEW j \in 1..(Len(s) - 1)
      PROVE  (a \o b)[j] = IF j < i THEN s[j] ELSE s[j + 1]
  <2>1. CASE j < i
    BY <1>1, <1>2, <2>1
  <2>2. CASE ~(j < i)
    <3>1. (a \o b)[j] = b[j - (i - 1)]
      BY <1>1, <1>2, <2>2
    <3>2. b[j - (i - 1)] = s[(j - (i - 1)) + i]
      BY <1>2, <2>2
    <3> QED BY <3>1, <3>2, <2>2
  <2> QED BY <2>1, <2>2
<1> QED BY <1>3, <1>4, <1>5, <1>6

QueueInv == TypeOK /\ QueueHoldsTheWaiting /\ QueueOnlyWhenFull

(* The queue invariant holds initially.                                     *)
LEMMA QueueInvInit == Init => QueueInv
<1> SUFFICES ASSUME Init PROVE QueueInv
  OBVIOUS
<1>1. TypeOK
  BY LimitsAssumption DEF Init, TypeOK, Status
<1> QED
  BY <1>1 DEF Init, QueueInv, QueueHoldsTheWaiting, QueueOnlyWhenFull, Queued

(* execute() keeps it on each of its three paths.                           *)
LEMMA ExecuteKeepsQueueInv ==
  ASSUME QueueInv, NEW c \in Calls, Execute(c)
  PROVE  QueueInv'
<1> USE LimitsAssumption DEF QueueInv, TypeOK
<1>1. CASE ExecuteNow(c)
  <2>1. TypeOK'
    BY <1>1 DEF ExecuteNow, HasCapacity, Status
  <2>2. queue = <<>>
    BY <1>1 DEF ExecuteNow, HasCapacity, QueueOnlyWhenFull
  <2>3. QueueHoldsTheWaiting' /\ QueueOnlyWhenFull'
    BY <1>1, <2>2 DEF ExecuteNow, QueueHoldsTheWaiting, QueueOnlyWhenFull, Queued
  <2> QED BY <2>1, <2>3
<1>2. CASE ExecuteRejected(c)
  BY <1>2 DEF ExecuteRejected, Status, Answers, QueueHoldsTheWaiting, QueueOnlyWhenFull, Queued
<1>3. CASE Enqueue(c)
  <2>1. TypeOK'
    BY <1>3 DEF Enqueue, HasCapacity, QueueFull, Status
  <2>2. QueueOnlyWhenFull'
    BY <1>3 DEF Enqueue, HasCapacity, QueueOnlyWhenFull
  <2>3. /\ Len(queue') = Len(queue) + 1
        /\ queue'[Len(queue) + 1] = c
        /\ \A i \in 1..Len(queue) : queue'[i] = queue[i]
    BY <1>3 DEF Enqueue
  <2>4. \A i \in 1..Len(queue) : queue[i] \in Queued
    BY DEF QueueHoldsTheWaiting
  <2>5. c \notin Queued
    BY <1>3 DEF Enqueue, Queued
  <2>6. Queued' = Queued \union {c}
    BY <1>3 DEF Enqueue, Queued
  <2>7. Queued' = {queue'[i] : i \in 1..Len(queue')}
    BY <2>3, <2>6 DEF QueueHoldsTheWaiting
  <2>8. \A i, j \in 1..Len(queue') : queue'[i] = queue'[j] => i = j
    BY <2>3, <2>4, <2>5 DEF QueueHoldsTheWaiting
  <2> QED BY <2>1, <2>2, <2>7, <2>8 DEF QueueHoldsTheWaiting
<1> QED BY <1>1, <1>2, <1>3 DEF Execute

(* The end of an execution keeps it, with a dequeue and without.            *)
LEMMA FinishKeepsQueueInv ==
  ASSUME QueueInv, NEW c \in Calls, Finish(c)
  PROVE  QueueInv'
<1> USE LimitsAssumption DEF QueueInv, TypeOK
<1>1. CASE queue = <<>>
  <2>1. TypeOK'
    BY <1>1 DEF Finish, EndAndDequeue, Status, Answers
  <2> QED
    BY <2>1, <1>1 DEF Finish, EndAndDequeue, QueueHoldsTheWaiting, QueueOnlyWhenFull, Queued
<1>2. CASE queue # <<>>
  <2> DEFINE h == Head(queue)
  <2>1. activeCount = MaxConcurrent
    BY <1>2 DEF QueueOnlyWhenFull
  <2>2. /\ activeCount' = activeCount
        /\ status' = [status EXCEPT ![c] = "done", ![h] = "running"]
        /\ queue' = Tail(queue)
        /\ UNCHANGED <<orphans, resets>>
    BY <1>2, <2>1 DEF Finish, EndAndDequeue
  <2>3. h = queue[1] /\ h \in Calls
    BY <1>2
  <2>4. TypeOK'
    <3>1. queue' \in Seq(Calls) /\ Len(queue') = Len(queue) - 1
      BY <1>2, <2>2, HeadTailProperties
    <3>2. status' \in [Calls -> Status]
      BY <2>2, <2>3 DEF Status, Answers
    <3>3. activeCount' \in Int /\ activeCount' <= MaxConcurrent /\ Len(queue') <= MaxQueue
      BY <2>2, <3>1
    <3> QED BY <2>2, <3>1, <3>2, <3>3
  <2>5. Len(queue') = Len(queue) - 1 /\ \A i \in 1..(Len(queue) - 1) : queue'[i] = queue[i + 1]
    BY <1>2, <2>2
  <2>6. status[h] = "queued" /\ h # c
    BY <1>2, <2>3 DEF QueueHoldsTheWaiting, Queued, Finish
  <2>7. Queued' = Queued \ {h}
    BY <2>2, <2>3, <2>6 DEF Queued, Finish
  <2>8. Queued' = {queue'[i] : i \in 1..Len(queue')}
    <3>1. ASSUME NEW d \in Queued' PROVE \E i \in 1..Len(queue') : d = queue'[i]
      <4>1. PICK i \in 1..Len(queue) : d = queue[i]
        BY <2>7 DEF QueueHoldsTheWaiting
      <4>2. i # 1
        BY <4>1, <2>3, <2>7
      <4>3. i - 1 \in 1..Len(queue') /\ queue'[i - 1] = d
        BY <4>1, <4>2, <2>5
      <4> QED BY <4>3
    <3>2. ASSUME NEW i \in 1..Len(queue') PROVE queue'[i] \in Queued'
      <4>1. i + 1 \in 1..Len(queue) /\ queue'[i] = queue[i + 1]
        BY <2>5
      <4>2. queue[i + 1] # h
        BY <4>1, <2>3, <1>2 DEF QueueHoldsTheWaiting
      <4> QED BY <4>1, <4>2, <2>7 DEF QueueHoldsTheWaiting
    <3> QED BY <3>1, <3>2
  <2>9. \A i, j \in 1..Len(queue') : queue'[i] = queue'[j] => i = j
    BY <2>5 DEF QueueHoldsTheWaiting
  <2> QED
    BY <2>1, <2>2, <2>4, <2>8, <2>9 DEF QueueHoldsTheWaiting, QueueOnlyWhenFull
<1> QED BY <1>1, <1>2

(* A queue timeout keeps it: splicing one call leaves the others in place.  *)
LEMMA TimeoutKeepsQueueInv ==
  ASSUME QueueInv, NEW k \in 1..Len(queue), QueueTimeout(k)
  PROVE  QueueInv'
<1> USE LimitsAssumption DEF QueueInv, TypeOK
<1> DEFINE c == queue[k]
<1>1. /\ queue' \in Seq(Calls)
      /\ Len(queue') = Len(queue) - 1
      /\ \A j \in 1..(Len(queue) - 1) : queue'[j] = IF j < k THEN queue[j] ELSE queue[j + 1]
  BY RemoveAtProperties DEF QueueTimeout
<1>2. c \in Calls /\ status' = [status EXCEPT ![c] = "timeout"]
  BY DEF QueueTimeout
<1>3. TypeOK'
  <2>1. status' \in [Calls -> Status]
    BY <1>2 DEF Status, Answers
  <2>2. queue' \in Seq(Calls) /\ Len(queue') <= MaxQueue
    BY <1>1
  <2> QED BY <2>1, <2>2 DEF QueueTimeout
<1>4. Queued' = Queued \ {c}
  BY <1>2 DEF Queued
<1>5. Queued' = {queue'[i] : i \in 1..Len(queue')}
  <2>1. ASSUME NEW d \in Queued' PROVE \E i \in 1..Len(queue') : d = queue'[i]
    <3>1. PICK i \in 1..Len(queue) : d = queue[i]
      BY <1>4 DEF QueueHoldsTheWaiting
    <3>2. i # k
      BY <3>1, <1>4
    <3>3. CASE i < k
      <4>1. i \in 1..Len(queue') /\ queue'[i] = d
        BY <1>1, <3>1, <3>3
      <4> QED BY <4>1
    <3>4. CASE i > k
      <4>1. i - 1 \in 1..Len(queue') /\ queue'[i - 1] = d
        BY <1>1, <3>1, <3>4
      <4> QED BY <4>1
    <3> QED BY <3>2, <3>3, <3>4
  <2>2. ASSUME NEW i \in 1..Len(queue') PROVE queue'[i] \in Queued'
    <3>1. PICK j \in 1..Len(queue) : j # k /\ queue'[i] = queue[j]
      <4>1. CASE i < k BY <1>1, <4>1
      <4>2. CASE ~(i < k)
        <5>1. i + 1 \in 1..Len(queue) /\ i + 1 # k /\ queue'[i] = queue[i + 1]
          BY <1>1, <4>2
        <5> QED BY <5>1
      <4> QED BY <4>1, <4>2
    <3>2. queue[j] # c /\ queue[j] \in Queued
      BY <3>1 DEF QueueHoldsTheWaiting
    <3> QED BY <3>1, <3>2, <1>4
  <2> QED BY <2>1, <2>2
<1>6. \A i, j \in 1..Len(queue') : queue'[i] = queue'[j] => i = j
  <2> SUFFICES ASSUME NEW i \in 1..Len(queue'), NEW j \in 1..Len(queue'), queue'[i] = queue'[j]
               PROVE  i = j
    OBVIOUS
  <2> DEFINE from(n) == IF n < k THEN n ELSE n + 1
  <2>1. \A n \in 1..Len(queue') : from(n) \in 1..Len(queue) /\ queue'[n] = queue[from(n)]
    <3> SUFFICES ASSUME NEW n \in 1..Len(queue')
                 PROVE  from(n) \in 1..Len(queue) /\ queue'[n] = queue[from(n)]
      OBVIOUS
    <3>1. CASE n < k BY <1>1, <3>1
    <3>2. CASE ~(n < k) BY <1>1, <3>2
    <3> QED BY <3>1, <3>2
  <2>2. from(i) = from(j)
    BY <2>1 DEF QueueHoldsTheWaiting
  <2> QED BY <2>2
<1>7. queue # <<>> /\ UNCHANGED activeCount
  BY DEF QueueTimeout
<1> QED
  BY <1>3, <1>5, <1>6, <1>7 DEF QueueHoldsTheWaiting, QueueOnlyWhenFull

(* The executions in flight can be counted before and after every step.     *)
LEMMA RunningFinite == IsFiniteSet(Running) /\ IsFiniteSet(Running')
<1>1. Running \in SUBSET Calls /\ Running' \in SUBSET Calls
  BY DEF Running
<1> QED BY <1>1, CallsFinite, FS_Subset

(* reset() keeps it: an empty queue and nobody waiting.                     *)
LEMMA ResetKeepsQueueInv ==
  ASSUME QueueInv, Reset
  PROVE  QueueInv'
<1> USE LimitsAssumption DEF QueueInv, TypeOK
<1>1. orphans' \in Nat
  <2>1. IsFiniteSet(Running)
    BY RunningFinite
  <2>2. Cardinality(Running) \in Nat
    BY <2>1, FS_CardinalityType
  <2> QED BY <2>2 DEF Reset
<1>2. TypeOK'
  <2>1. status' \in [Calls -> Status]
    BY DEF Reset, Status, Answers
  <2>2. resets' \in 0..MaxResets
    BY DEF Reset
  <2>3. queue' \in Seq(Calls) /\ Len(queue') = 0 /\ activeCount' = 0
    BY DEF Reset
  <2> QED BY <1>1, <2>1, <2>2, <2>3
<1>3. Queued' = {}
  BY DEF Reset, Queued
<1>4. queue' = <<>>
  BY DEF Reset
<1> QED BY <1>2, <1>3, <1>4 DEF QueueHoldsTheWaiting, QueueOnlyWhenFull

(* Every step keeps the queue invariant.                                    *)
LEMMA StepKeepsQueueInv == QueueInv /\ [Next]_vars => QueueInv'
<1> SUFFICES ASSUME QueueInv, [Next]_vars PROVE QueueInv'
  OBVIOUS
<1>1. ASSUME NEW c \in Calls, Execute(c) PROVE QueueInv'
  BY <1>1, ExecuteKeepsQueueInv
<1>2. ASSUME NEW c \in Calls, Finish(c) PROVE QueueInv'
  BY <1>2, FinishKeepsQueueInv
<1>3. ASSUME NEW i \in 1..Len(queue), QueueTimeout(i) PROVE QueueInv'
  BY <1>3, TimeoutKeepsQueueInv
<1>4. CASE Reset
  BY <1>4, ResetKeepsQueueInv
<1>5. CASE UNCHANGED vars
  BY <1>5 DEF vars, QueueInv, TypeOK, QueueHoldsTheWaiting, QueueOnlyWhenFull, Queued
<1> QED BY <1>1, <1>2, <1>3, <1>4, <1>5 DEF Next, Serve

(* The queue and the promises agree in every reachable state, whatever the   *)
(* interleaving of finishes, timers and resets.                              *)
THEOREM QueueSafety == Spec => []QueueInv
<1>1. Init => QueueInv
  BY QueueInvInit
<1>2. QueueInv /\ [Next]_vars => QueueInv'
  BY StepKeepsQueueInv
<1> QED BY <1>1, <1>2, PTL DEF Spec

(* Type correctness of the bulkhead's counter, queue and promises.           *)
THEOREM TypeCorrect == Spec => []TypeOK
<1>1. QueueInv => TypeOK
  BY DEF QueueInv
<1> QED BY <1>1, QueueSafety, PTL

(* The queue holds exactly the calls that wait, each once, and is empty      *)
(* while a slot is free.                                                     *)
THEOREM QueueSoundTheorem == Spec => []QueueSound
<1>1. QueueInv => QueueSound
  BY DEF QueueInv, QueueSound
<1> QED BY <1>1, QueueSafety, PTL

-----------------------------------------------------------------------------
(* How each step changes the set of executions in flight.                    *)
LEMMA ServeRunning ==
  ASSUME QueueInv, Serve
  PROVE  /\ Cardinality(Running') - Cardinality(Running) = activeCount' - activeCount
         /\ activeCount' <= MaxConcurrent
         /\ UNCHANGED <<orphans, resets>>
<1> USE LimitsAssumption, RunningFinite, FS_CardinalityType DEF QueueInv, TypeOK
<1>1. ASSUME NEW c \in Calls, ExecuteNow(c)
      PROVE  /\ Cardinality(Running') - Cardinality(Running) = activeCount' - activeCount
             /\ activeCount' <= MaxConcurrent
             /\ UNCHANGED <<orphans, resets>>
  <2>1. Running' = Running \union {c} /\ c \notin Running
    BY <1>1 DEF ExecuteNow, Running
  <2>2. Cardinality(Running') = Cardinality(Running) + 1
    BY <2>1, FS_AddElement
  <2> QED BY <2>2, <1>1 DEF ExecuteNow, HasCapacity
<1>2. ASSUME NEW c \in Calls, ExecuteRejected(c) \/ Enqueue(c)
      PROVE  Running' = Running /\ UNCHANGED <<activeCount, orphans, resets>>
  BY <1>2 DEF ExecuteRejected, Enqueue, Running
<1>3. ASSUME NEW c \in Calls, Finish(c)
      PROVE  /\ Cardinality(Running') - Cardinality(Running) = activeCount' - activeCount
             /\ activeCount' <= MaxConcurrent
             /\ UNCHANGED <<orphans, resets>>
  <2>1. c \in Running /\ UNCHANGED <<orphans, resets>>
    BY <1>3 DEF Finish, Running
  <2>2. Cardinality(Running \ {c}) = Cardinality(Running) - 1 /\ IsFiniteSet(Running \ {c})
    BY <2>1, FS_RemoveElement
  <2>3. CASE queue = <<>>
    <3>1. Running' = Running \ {c} /\ activeCount' = activeCount - 1
      BY <1>3, <2>3 DEF Finish, EndAndDequeue, Running
    <3> QED BY <2>1, <2>2, <3>1
  <2>4. CASE queue # <<>>
    <3>1. activeCount = MaxConcurrent
      BY <2>4 DEF QueueOnlyWhenFull
    <3>2. status' = [status EXCEPT ![c] = "done", ![Head(queue)] = "running"] /\ activeCount' = activeCount
      BY <1>3, <2>4, <3>1 DEF Finish, EndAndDequeue
    <3>3. Head(queue) = queue[1] /\ Head(queue) \in Queued
      BY <2>4 DEF QueueHoldsTheWaiting
    <3>4. Head(queue) \in Calls /\ status[Head(queue)] = "queued"
      BY <3>3 DEF Queued
    <3>5. Running' = (Running \ {c}) \union {Head(queue)} /\ Head(queue) \notin Running \ {c}
      BY <3>2, <3>4, <2>1 DEF Running
    <3>6. Cardinality(Running') = Cardinality(Running \ {c}) + 1
      BY <3>5, <2>2, FS_AddElement
    <3> QED BY <2>1, <2>2, <3>1, <3>2, <3>6
  <2> QED BY <2>3, <2>4
<1>4. ASSUME NEW i \in 1..Len(queue), QueueTimeout(i)
      PROVE  Running' = Running /\ UNCHANGED <<activeCount, orphans, resets>>
  <2>1. status[queue[i]] = "queued"
    BY DEF QueueHoldsTheWaiting, Queued
  <2> QED BY <1>4, <2>1 DEF QueueTimeout, Running
<1> QED BY <1>1, <1>2, <1>3, <1>4 DEF Serve, Execute

CountInv == QueueInv /\ CountTracksRunning

(* The counter invariant holds initially.                                   *)
LEMMA CountInvInit == Init => CountInv
<1> SUFFICES ASSUME Init PROVE CountInv
  OBVIOUS
<1>1. Running = {}
  BY DEF Init, Running
<1> QED BY <1>1, QueueInvInit, FS_EmptySet DEF CountInv, CountTracksRunning, Init

(* Every step keeps it, resets included.                                    *)
LEMMA StepKeepsCountInv == CountInv /\ [Next]_vars => CountInv'
<1> SUFFICES ASSUME CountInv, [Next]_vars PROVE CountTracksRunning'
  BY StepKeepsQueueInv DEF CountInv
<1>1. CASE Serve
  <2>1. activeCount \in Int /\ activeCount' \in Int /\ orphans \in Nat
    BY StepKeepsQueueInv DEF CountInv, QueueInv, TypeOK
  <2>2. Cardinality(Running') - Cardinality(Running) = activeCount' - activeCount /\ orphans' = orphans
    BY <1>1, ServeRunning DEF CountInv
  <2>3. Cardinality(Running) \in Nat /\ Cardinality(Running') \in Nat
    BY RunningFinite, FS_CardinalityType
  <2>4. activeCount' = Cardinality(Running') - orphans
    BY <2>1, <2>2, <2>3 DEF CountInv, CountTracksRunning
  <2> QED BY <2>2, <2>4 DEF CountTracksRunning
<1>2. CASE Reset
  <2>1. Running' = Running
    BY <1>2 DEF Reset, Running, Queued, CountInv, QueueInv, TypeOK
  <2>2. Cardinality(Running) \in Nat
    BY RunningFinite, FS_CardinalityType
  <2> QED BY <1>2, <2>1, <2>2 DEF Reset, CountTracksRunning
<1>3. CASE UNCHANGED vars
  BY <1>3 DEF vars, CountTracksRunning, Running, CountInv
<1> QED BY <1>1, <1>2, <1>3 DEF Next

(* The counter is the number of executions in flight less the ones the last  *)
(* reset() lost track of.                                                     *)
THEOREM CountCorrect == Spec => []CountTracksRunning
<1>1. CountInv => CountTracksRunning
  BY DEF CountInv
<1> QED BY <1>1, CountInvInit, StepKeepsCountInv, PTL DEF Spec

(* Resets or not, the limit is exceeded by no more than the executions that   *)
(* were in flight when reset() was last called.                               *)
THEOREM OverrunTheorem == Spec => []OverrunBounded
<1>1. CountInv => OverrunBounded
  BY RunningFinite, FS_CardinalityType, LimitsAssumption
     DEF CountInv, CountTracksRunning, OverrunBounded, QueueInv, TypeOK
<1> QED BY <1>1, CountInvInit, StepKeepsCountInv, PTL DEF Spec

(* While nobody has called reset(), none of the executions is lost track of.    *)
Unreset == CountInv /\ (resets = 0 => orphans = 0)

LEMMA UnresetAlways == Spec => []Unreset
<1>1. Init => Unreset
  BY CountInvInit DEF Init, Unreset
<1>2. Unreset /\ [Next]_vars => Unreset'
  <2> SUFFICES ASSUME Unreset, [Next]_vars PROVE Unreset'
    OBVIOUS
  <2>1. CountInv'
    BY StepKeepsCountInv DEF Unreset
  <2>2. CASE Serve \/ UNCHANGED vars
    BY <2>1, <2>2, ServeRunning DEF Unreset, CountInv, vars
  <2>3. CASE Reset
    <3>1. resets' # 0
      BY <2>3 DEF Reset, Unreset, CountInv, QueueInv, TypeOK
    <3> QED BY <2>1, <3>1 DEF Unreset
  <2> QED BY <2>2, <2>3 DEF Next
<1> QED BY <1>1, <1>2, PTL DEF Spec

(* Until it is reset, a bulkhead runs at most maxConcurrent executions at     *)
(* once.                                                                      *)
THEOREM ConcurrencyTheorem == Spec => [](resets = 0 => ConcurrencyLimit)
<1>1. Unreset => (resets = 0 => ConcurrencyLimit)
  <2> SUFFICES ASSUME Unreset, resets = 0 PROVE Cardinality(Running) <= MaxConcurrent
    BY DEF ConcurrencyLimit
  <2>1. Cardinality(Running) \in Nat
    BY RunningFinite, FS_CardinalityType
  <2> QED BY <2>1, LimitsAssumption DEF Unreset, CountInv, CountTracksRunning, QueueInv, TypeOK
<1> QED BY <1>1, UnresetAlways, PTL

-------------------------------------------------------------------------------
(* What the end of an execution does, once the queue is known to be served      *)
(* only from a full bulkhead.                                                   *)
LEMMA FinishForms ==
  ASSUME QueueInv, NEW c \in Calls, Finish(c)
  PROVE  \/ /\ queue = <<>> /\ queue' = <<>>
            /\ status' = [status EXCEPT ![c] = "done"]
         \/ /\ queue # <<>> /\ Head(queue) \in Calls /\ status[Head(queue)] = "queued"
            /\ status' = [status EXCEPT ![c] = "done", ![Head(queue)] = "running"]
<1> USE LimitsAssumption DEF QueueInv, TypeOK
<1>1. CASE queue = <<>>
  BY <1>1 DEF Finish, EndAndDequeue
<1>2. CASE queue # <<>>
  <2>1. ~(activeCount - 1 >= MaxConcurrent)
    OBVIOUS
  <2>2. 1 \in 1..Len(queue) /\ Head(queue) = queue[1]
    BY <1>2, EmptySeq, LenProperties
  <2>3. Head(queue) \in Queued
    BY <2>2 DEF QueueHoldsTheWaiting
  <2> QED BY <1>2, <2>1, <2>3 DEF Finish, EndAndDequeue, Queued
<1> QED BY <1>1, <1>2

LEMMA TimeoutForm ==
  ASSUME QueueInv, NEW i \in 1..Len(queue), QueueTimeout(i)
  PROVE  /\ queue[i] \in Calls /\ status[queue[i]] = "queued"
         /\ status' = [status EXCEPT ![queue[i]] = "timeout"]
BY DEF QueueInv, QueueHoldsTheWaiting, Queued, QueueTimeout

(* No call starts to run while a call that was queued before it waits: the      *)
(* direct path of execute() never overtakes the queue.                          *)
LEMMA OvertakingStep == QueueInv /\ Next => NoOvertaking
<1> SUFFICES ASSUME QueueInv, Next, NEW c \in Calls, status[c] # "running", status'[c] = "running"
             PROVE  queue = <<>> \/ c = Head(queue)
  BY DEF NoOvertaking
<1> status \in [Calls -> Status]
  BY DEF QueueInv, TypeOK
<1>1. ASSUME NEW d \in Calls, ExecuteNow(d) PROVE queue = <<>>
  BY <1>1, LimitsAssumption DEF ExecuteNow, HasCapacity, QueueInv, QueueOnlyWhenFull, TypeOK
<1>2. ASSUME NEW d \in Calls, ExecuteRejected(d) \/ Enqueue(d) PROVE FALSE
  BY <1>2 DEF ExecuteRejected, Enqueue
<1>3. ASSUME NEW d \in Calls, Finish(d) PROVE queue = <<>> \/ c = Head(queue)
  BY <1>3, FinishForms
<1>4. ASSUME NEW i \in 1..Len(queue), QueueTimeout(i) PROVE FALSE
  BY <1>4, TimeoutForm
<1>5. CASE Reset
  BY <1>5 DEF Reset
<1> QED BY <1>1, <1>2, <1>3, <1>4, <1>5 DEF Next, Serve, Execute

(* A call that goes on waiting is never pushed back in the queue: arrivals join *)
(* behind it, a served call leaves before it, and a timed out one on either side.*)
LEMMA PushedBackStep == QueueInv /\ [Next]_vars => NeverPushedBack
<1> SUFFICES ASSUME QueueInv, [Next]_vars, NEW i \in 1..Len(queue), status'[queue[i]] = "queued"
             PROVE  \E j \in 1..i : j <= Len(queue') /\ queue'[j] = queue[i]
  BY DEF NeverPushedBack
<1> USE DEF QueueInv, TypeOK
<1>0. Len(queue) \in Nat /\ queue[i] \in Calls /\ status[queue[i]] = "queued"
  BY LenProperties, ElementOfSeq DEF QueueHoldsTheWaiting, Queued
<1>1. ASSUME UNCHANGED queue PROVE \E j \in 1..i : j <= Len(queue') /\ queue'[j] = queue[i]
  <2>1. i \in 1..i /\ i <= Len(queue') /\ queue'[i] = queue[i]
    BY <1>0, <1>1
  <2> QED BY <2>1
<1>2. ASSUME NEW c \in Calls, Enqueue(c)
      PROVE  \E j \in 1..i : j <= Len(queue') /\ queue'[j] = queue[i]
  <2>1. queue' = Append(queue, c)
    BY <1>2 DEF Enqueue
  <2>2. i <= Len(queue') /\ queue'[i] = queue[i]
    BY <1>0, <2>1, AppendProperties
  <2> QED BY <1>0, <2>2
<1>3. ASSUME NEW c \in Calls, Finish(c)
      PROVE  \E j \in 1..i : j <= Len(queue') /\ queue'[j] = queue[i]
  <2>1. CASE UNCHANGED queue
    BY <1>1, <2>1
  <2>2. CASE /\ queue # <<>> /\ queue' = Tail(queue)
             /\ status' = [status EXCEPT ![c] = "done", ![Head(queue)] = "running"]
    <3>1. Head(queue) = queue[1]
      BY <2>2, HeadTailProperties
    <3>2. i # 1
      <4>1. CASE i = 1
        <5>1. status' = [status EXCEPT ![c] = "done", ![queue[i]] = "running"]
          BY <2>2, <3>1, <4>1
        <5> QED BY <1>0, <5>1
      <4> QED BY <4>1
    <3>3. Len(queue') = Len(queue) - 1 /\ queue'[i - 1] = queue[i]
      BY <1>0, <2>2, <3>2, HeadTailProperties
    <3>4. i - 1 \in 1..i /\ i - 1 <= Len(queue')
      BY <1>0, <3>2, <3>3
    <3> QED BY <3>3, <3>4
  <2> QED BY <1>3, <2>1, <2>2 DEF Finish, EndAndDequeue
<1>4. ASSUME NEW k \in 1..Len(queue), QueueTimeout(k)
      PROVE  \E j \in 1..i : j <= Len(queue') /\ queue'[j] = queue[i]
  <2>1. /\ Len(queue') = Len(queue) - 1
        /\ \A j \in 1..(Len(queue) - 1) : queue'[j] = IF j < k THEN queue[j] ELSE queue[j + 1]
    BY <1>4, RemoveAtProperties DEF QueueTimeout
  <2>2. i # k
    BY <1>0, <1>4, TimeoutForm
  <2>3. CASE i < k
    <3>1. i \in 1..i /\ i <= Len(queue') /\ queue'[i] = queue[i]
      BY <1>0, <2>1, <2>3
    <3> QED BY <3>1
  <2>4. CASE i > k
    <3>1. i - 1 \in 1..i /\ i - 1 <= Len(queue') /\ queue'[i - 1] = queue[i]
      BY <1>0, <2>1, <2>4
    <3> QED BY <3>1
  <2> QED BY <1>0, <2>2, <2>3, <2>4
<1>5. CASE Reset
  BY <1>0, <1>5 DEF Reset, Queued
<1>6. ASSUME NEW c \in Calls, ExecuteNow(c) \/ ExecuteRejected(c) PROVE UNCHANGED queue
  BY <1>6 DEF ExecuteNow, ExecuteRejected
<1> QED BY <1>1, <1>2, <1>3, <1>4, <1>5, <1>6 DEF Next, Serve, Execute, vars

(* Calls are served in the order they came.                                     *)
THEOREM OrderTheorem == Spec => FirstComeFirstServed
<1>1. QueueInv /\ [Next]_vars => [NoOvertaking /\ NeverPushedBack]_vars
  BY OvertakingStep, PushedBackStep
<1> QED BY <1>1, QueueSafety, PTL DEF Spec, FirstComeFirstServed

(* One answer per call: a promise that was settled stays as it was settled,     *)
(* although timer, dequeue, reset and execution all hold its callbacks.         *)
THEOREM AnswerTheorem == Spec => AnsweredOnce
<1> DEFINE A == \A c \in Calls : status[c] \in Answers => status'[c] = status[c]
<1>1. QueueInv /\ [Next]_vars => [A]_vars
  <2> SUFFICES ASSUME QueueInv, Next, NEW c \in Calls, status[c] \in Answers
               PROVE  status'[c] = status[c]
    OBVIOUS
  <2> status \in [Calls -> Status] /\ status[c] \notin {"idle", "running", "queued"}
    BY DEF QueueInv, TypeOK, Answers
  <2>1. ASSUME NEW d \in Calls, Execute(d) PROVE status'[c] = status[c]
    BY <2>1 DEF Execute, ExecuteNow, ExecuteRejected, Enqueue
  <2>2. ASSUME NEW d \in Calls, Finish(d) PROVE status'[c] = status[c]
    <3>1. status[d] = "running"
      BY <2>2 DEF Finish
    <3> QED BY <2>2, <3>1, FinishForms
  <2>3. ASSUME NEW i \in 1..Len(queue), QueueTimeout(i) PROVE status'[c] = status[c]
    BY <2>3, TimeoutForm
  <2>4. CASE Reset
    BY <2>4 DEF Reset, Queued
  <2> QED BY <2>1, <2>2, <2>3, <2>4 DEF Next, Serve
<1> QED BY <1>1, QueueSafety, PTL DEF Spec, AnsweredOnce

(* As many calls wait as the queue is long.                                     *)
LEMMA QueuedCount ==
  ASSUME QueueInv
  PROVE  Cardinality(Queued) = Len(queue)
<1> DEFINE f == [i \in 1..Len(queue) |-> queue[i]]
<1>1. Len(queue) \in Nat
  BY LenProperties DEF QueueInv, TypeOK
<1>2. f \in [1..Len(queue) -> Queued]
  BY DEF QueueInv, QueueHoldsTheWaiting
<1>3. \A i, j \in 1..Len(queue) : f[i] = f[j] => i = j
  BY DEF QueueInv, QueueHoldsTheWaiting
<1>4. \A c \in Queued : \E i \in 1..Len(queue) : f[i] = c
  BY DEF QueueInv, QueueHoldsTheWaiting
<1> HIDE DEF f
<1>5. f \in Bijection(1..Len(queue), Queued)
  BY <1>2, <1>3, <1>4 DEF Bijection, Injection, Surjection, IsInjective
<1> QED BY <1>1, <1>5, FS_CountingElements DEF ExistsBijection

Answered == {c \in Calls : status[c] \in Answers}

(* How a change of one promise shows in the three sets of the abstract module.  *)
LEMMA OneChange ==
  ASSUME TypeOK, NEW c \in Calls, NEW x \in Status, status' = [status EXCEPT ![c] = x]
  PROVE  /\ Running' = IF x = "running" THEN Running \union {c} ELSE Running \ {c}
         /\ Queued' = IF x = "queued" THEN Queued \union {c} ELSE Queued \ {c}
         /\ Answered' = IF x \in Answers THEN Answered \union {c} ELSE Answered \ {c}
<1>1. status'[c] = x /\ \A d \in Calls : d # c => status'[d] = status[d]
  BY DEF TypeOK
<1> QED BY <1>1 DEF Running, Queued, Answered

LEMMA SetsApart ==
  ASSUME TypeOK, NEW c \in Calls
  PROVE  /\ c \in Running <=> status[c] = "running"
         /\ c \in Queued <=> status[c] = "queued"
         /\ c \in Answered <=> status[c] \in Answers
         /\ c \in Calls \ (Running \union Queued \union Answered) <=> status[c] = "idle"
BY DEF TypeOK, Status, Running, Queued, Answered, Answers

LEMMA SameCardinality ==
  ASSUME NEW S
  PROVE  Abstract!Cardinality(S) = Cardinality(S)
BY DEF Abstract!Cardinality, Abstract!IsFiniteSet, Cardinality, IsFiniteSet

(* Until it is reset, every step of the bulkhead is a step of the abstract      *)
(* admission control or changes none of its three sets.                         *)
LEMMA ServeImplements ==
  ASSUME Unreset, resets = 0, Serve
  PROVE  Abstract!ANext \/ UNCHANGED <<Running, Queued, Answered>>
<1> USE LimitsAssumption DEF Abstract!Fresh, Answered
<1>a. QueueInv /\ TypeOK /\ activeCount \in Int
  BY DEF Unreset, CountInv, QueueInv, TypeOK
<1>b. Cardinality(Running) = activeCount /\ Cardinality(Queued) = Len(queue)
  <2>1. Cardinality(Running) \in Nat
    BY RunningFinite, FS_CardinalityType
  <2> QED BY <1>a, <2>1, QueuedCount DEF Unreset, CountInv, CountTracksRunning
<1>c. activeCount <= MaxConcurrent /\ Len(queue) <= MaxQueue /\ Len(queue) \in Nat
  BY <1>a, LenProperties DEF TypeOK
<1> HIDE DEF Answered
<1>1. ASSUME NEW c \in Calls, ExecuteNow(c) PROVE Abstract!Admit(c)
  <2>1. status[c] = "idle" /\ activeCount < MaxConcurrent /\ status' = [status EXCEPT ![c] = "running"]
    BY <1>1 DEF ExecuteNow, HasCapacity
  <2>2. Running' = Running \union {c} /\ Queued' = Queued \ {c} /\ Answered' = Answered \ {c}
    BY <1>a, <2>1, OneChange DEF Status, Answers
  <2>3. c \in Calls \ (Running \union Queued \union Answered)
    BY <1>a, <2>1, SetsApart
  <2> QED BY <1>b, <2>1, <2>2, <2>3, SameCardinality DEF Abstract!Admit, Answered
<1>2. ASSUME NEW c \in Calls, ExecuteRejected(c) PROVE Abstract!Refuse(c)
  <2>1. /\ status[c] = "idle" /\ ~(activeCount < MaxConcurrent) /\ Len(queue) >= MaxQueue
        /\ status' = [status EXCEPT ![c] = "full"]
    BY <1>2 DEF ExecuteRejected, HasCapacity, QueueFull
  <2>2. activeCount = MaxConcurrent /\ Len(queue) = MaxQueue
    BY <1>a, <1>c, <2>1
  <2>3. Running' = Running \ {c} /\ Queued' = Queued \ {c} /\ Answered' = Answered \union {c}
    BY <1>a, <2>1, OneChange DEF Status, Answers
  <2>4. c \in Calls \ (Running \union Queued \union Answered)
    BY <1>a, <2>1, SetsApart
  <2> QED BY <1>b, <2>2, <2>3, <2>4, SameCardinality DEF Abstract!Refuse, Answered
<1>3. ASSUME NEW c \in Calls, Enqueue(c) PROVE Abstract!Wait(c)
  <2>1. /\ status[c] = "idle" /\ ~(activeCount < MaxConcurrent) /\ ~(Len(queue) >= MaxQueue)
        /\ status' = [status EXCEPT ![c] = "queued"]
    BY <1>3 DEF Enqueue, HasCapacity, QueueFull
  <2>2. activeCount = MaxConcurrent /\ Len(queue) < MaxQueue
    BY <1>a, <1>c, <2>1
  <2>3. Running' = Running \ {c} /\ Queued' = Queued \union {c} /\ Answered' = Answered \ {c}
    BY <1>a, <2>1, OneChange DEF Status, Answers
  <2>4. c \in Calls \ (Running \union Queued \union Answered)
    BY <1>a, <2>1, SetsApart
  <2> QED BY <1>b, <2>2, <2>3, <2>4, SameCardinality DEF Abstract!Wait, Answered
<1>4. ASSUME NEW c \in Calls, Finish(c)
      PROVE  Abstract!Release(c) \/ \E d \in Calls : Abstract!HandOver(c, d)
  <2>1. status[c] = "running"
    BY <1>4 DEF Finish
  <2>2. CASE queue = <<>> /\ status' = [status EXCEPT ![c] = "done"]
    <3>1. Queued = {}
      BY <1>a, <2>2, EmptySeq DEF QueueInv, QueueHoldsTheWaiting
    <3>2. Running' = Running \ {c} /\ Queued' = Queued \ {c} /\ Answered' = Answered \union {c}
      BY <1>a, <2>2, OneChange DEF Status, Answers
    <3>3. c \in Running
      BY <1>a, <2>1, SetsApart
    <3> QED BY <3>1, <3>2, <3>3 DEF Abstract!Release, Answered
  <2>3. CASE /\ Head(queue) \in Calls /\ status[Head(queue)] = "queued"
             /\ status' = [status EXCEPT ![c] = "done", ![Head(queue)] = "running"]
    <3>0. PICK d \in Calls : d = Head(queue)
      BY <2>3
    <3>1. status[d] = "queued" /\ d # c
      BY <2>1, <2>3, <3>0
    <3>2. /\ status'[c] = "done" /\ status'[d] = "running"
          /\ \A e \in Calls : e \notin {c, d} => status'[e] = status[e]
      BY <1>a, <2>3, <3>0, <3>1 DEF TypeOK
    <3>3. /\ Running' = (Running \ {c}) \union {d} /\ Queued' = Queued \ {d}
      BY <2>1, <3>1, <3>2 DEF Running, Queued
    <3>4. Answered' = Answered \union {c}
      BY <2>1, <3>1, <3>2 DEF Answered, Answers
    <3>5. c \in Running /\ d \in Queued
      BY <1>a, <2>1, <3>1, SetsApart
    <3>6. Abstract!HandOver(c, d)
      BY <3>3, <3>4, <3>5 DEF Abstract!HandOver, Answered
    <3> QED BY <3>6
  <2> QED BY <1>a, <1>4, <2>2, <2>3, FinishForms
<1>5. ASSUME NEW i \in 1..Len(queue), QueueTimeout(i) PROVE \E c \in Calls : Abstract!GiveUp(c)
  <2>1. /\ queue[i] \in Calls /\ status[queue[i]] = "queued"
        /\ status' = [status EXCEPT ![queue[i]] = "timeout"]
    BY <1>a, <1>5, TimeoutForm
  <2>2. PICK c \in Calls : c = queue[i]
    BY <2>1
  <2>3. Running' = Running \ {c} /\ Queued' = Queued \ {c} /\ Answered' = Answered \union {c}
    BY <1>a, <2>1, <2>2, OneChange DEF Status, Answers
  <2>4. c \in Queued /\ c \notin Running
    BY <1>a, <2>1, <2>2, SetsApart
  <2>5. Abstract!GiveUp(c)
    BY <2>3, <2>4 DEF Abstract!GiveUp, Answered
  <2> QED BY <2>5
<1> QED BY <1>1, <1>2, <1>3, <1>4, <1>5 DEF Serve, Execute, Abstract!ANext

(* The bulkhead implements what an admission control promises, until reset() is *)
(* called: at most maxConcurrent executions, at most maxQueue calls waiting, no *)
(* free slot while a call waits, one answer per call.                           *)
THEOREM Refinement == Spec => ImplementsAdmissionControl
<1>1. Init => Abstract!AInit
  BY DEF Init, Abstract!AInit, Running, Queued, Answers
<1>2. Unreset /\ [Next]_vars => [resets' = 0 => Abstract!ANext]_(Abstract!avars)
  <2> SUFFICES ASSUME Unreset, [Next]_vars, resets' = 0
               PROVE  Abstract!ANext \/ UNCHANGED Abstract!avars
    OBVIOUS
  <2>1. resets \in Nat
    BY DEF Unreset, CountInv, QueueInv, TypeOK
  <2>2. CASE Serve
    <3>1. resets = 0
      BY <2>2 DEF Serve, Execute, ExecuteNow, ExecuteRejected, Enqueue, Finish, QueueTimeout
    <3> QED BY <2>2, <3>1, ServeImplements DEF Abstract!avars, Answered
  <2>3. CASE Reset
    BY <2>1, <2>3 DEF Reset
  <2>4. CASE UNCHANGED vars
    BY <2>4 DEF vars, Abstract!avars, Running, Queued
  <2> QED BY <2>2, <2>3, <2>4 DEF Next
<1> QED BY <1>1, <1>2, UnresetAlways, PTL DEF Spec, ImplementsAdmissionControl
=============================================================================
