------------------------ MODULE WebhookDeliveryProofs ------------------------
(* Proofs about the webhook manager and its stream, for any bounds, types,      *)
(* filters and limits.                                                          *)
EXTENDS WebhookDelivery, SequenceTheorems, TLAPS

LEMMA StoreProperties ==
  ASSUME NEW n \in Nat, NEW m \in Nat \ {0}, NEW b \in Seq(1..n), Len(b) <= m,
         MaxBufferSize = m
  PROVE  /\ Stream!Store(b, n + 1) \in Seq(1..(n + 1))
         /\ Len(Stream!Store(b, n + 1)) <= m
         /\ Len(Stream!Store(b, n + 1)) >= Len(b)
<1> DEFINE T == 1..(n + 1)
<1>1. b \in Seq(T)
  <2>1. 1..n \subseteq T
    OBVIOUS
  <2> QED BY <2>1, SeqMonotonic
<1>2. n + 1 \in T /\ Len(b) \in Nat
  BY LenProperties
<1> HIDE DEF T
<1>3. CASE Len(b) + 1 > m
  <2>1. b # <<>> /\ Len(b) = m
    BY <1>2, <1>3, EmptySeq
  <2>2. Tail(b) \in Seq(T) /\ Len(Tail(b)) = Len(b) - 1
    BY <1>1, <2>1, HeadTailProperties
  <2>3. Append(Tail(b), n + 1) \in Seq(T) /\ Len(Append(Tail(b), n + 1)) = m
    BY <1>2, <2>1, <2>2, AppendProperties
  <2>4. Stream!Store(b, n + 1) = Append(Tail(b), n + 1)
    BY <1>3 DEF Stream!Store
  <2> QED BY <1>2, <2>1, <2>3, <2>4 DEF T
<1>4. CASE ~(Len(b) + 1 > m)
  <2>1. Append(b, n + 1) \in Seq(T) /\ Len(Append(b, n + 1)) = Len(b) + 1
    BY <1>1, <1>2, AppendProperties
  <2>2. Stream!Store(b, n + 1) = Append(b, n + 1)
    BY <1>4 DEF Stream!Store
  <2>3. Len(b) + 1 <= m /\ Len(b) + 1 >= Len(b)
    BY <1>2, <1>4
  <2> QED BY <2>1, <2>2, <2>3 DEF T
<1> QED BY <1>3, <1>4

(* The parts of the type invariant: the stream's, the webhook's own, and the    *)
(* sets of events.                                                              *)
StreamOK ==
  /\ Stream!TypeOK /\ sequenceCounter \in 0..MaxPublished
  /\ subscribed \subseteq Types \X Closures /\ toCall \subseteq Deliveries
WebhookOK ==
  /\ created \in BOOLEAN /\ exists \in BOOLEAN /\ cut \in BOOLEAN
  /\ status \in Statuses /\ accepted \subseteq Events /\ limit \in 0..MaxAttempts
  /\ failures \in 0..FailureLimit
  /\ circuit \in {"none", "open", "cooled"}
SetsOK ==
  /\ pending \subseteq Deliveries \X (2..MaxAttempts)
  /\ deadLetters \subseteq Deliveries /\ attempted \subseteq Deliveries
  /\ delivered \subseteq Deliveries /\ purged \subseteq Deliveries
  /\ skipped \subseteq Deliveries /\ owed \subseteq Deliveries /\ disturbed \subseteq Deliveries

LEMMA TypeParts == TypeOK <=> StreamOK /\ WebhookOK /\ SetsOK
BY DEF TypeOK, StreamOK, WebhookOK, SetsOK

LEMMA StreamTypes ==
  ASSUME WebhookAssumption, StreamOK, Next
  PROVE  StreamOK'
<1>1. CASE UNCHANGED stream
  BY <1>1 DEF StreamOK, stream, Stream!TypeOK
<1>2. ASSUME NEW types \in Registrations, NEW filter \in Filters, NEW n \in AttemptLimits,
             Create(types, filter, n)
      PROVE  StreamOK'
  <2>1. /\ subscribed' = subscribed \union {<<types[i], i>> : i \in DOMAIN types}
        /\ UNCHANGED <<streamStatus, buffer, sequenceCounter, toCall>>
    BY <1>2 DEF Create, Stream!Subscribe
  <2>2. types \in Seq(Types)
    BY DEF WebhookAssumption
  <2>3. \A i \in DOMAIN types : types[i] \in Types /\ i \in Closures
    <3>1. \A i \in DOMAIN types : i \in Closures
      BY DEF Closures
    <3>2. \A i \in DOMAIN types : types[i] \in Types
      <4>1. DOMAIN types = 1..Len(types)
        BY <2>2, LenProperties
      <4> QED BY <2>2, <4>1, ElementOfSeq
    <3> QED BY <3>1, <3>2
  <2>4. subscribed' \subseteq Types \X Closures
    BY <2>1, <2>3 DEF StreamOK
  <2> QED BY <2>1, <2>4 DEF StreamOK, Stream!TypeOK
<1>3. ASSUME NEW e \in Events, Stream!Publish(e)
      PROVE  StreamOK'
  <2>1. /\ sequenceCounter \in Nat /\ buffer \in Seq(1..sequenceCounter)
        /\ Len(buffer) <= MaxBufferSize /\ MaxBufferSize \in Nat \ {0}
    BY DEF StreamOK, Stream!TypeOK, WebhookAssumption
  <2>2. sequenceCounter' = sequenceCounter + 1 /\ buffer' = Stream!Store(buffer, sequenceCounter + 1)
    BY <1>3 DEF Stream!Publish
  <2>3. /\ buffer' \in Seq(1..sequenceCounter') /\ Len(buffer') <= MaxBufferSize
        /\ Len(buffer') >= Len(buffer)
    BY <2>1, <2>2, StoreProperties
  <2>4. sequenceCounter' \in Nat /\ sequenceCounter' \in 0..MaxPublished
    BY <1>3, <2>1, <2>2 DEF Stream!Publish, Events, WebhookAssumption
  <2>5. /\ streamStatus' \in Stream!StreamStatus
        /\ streamStatus' = "backpressure" => Len(buffer') >= BackpressureThreshold
    <3>1. Len(buffer) \in Nat /\ Len(buffer') \in Nat
      BY <2>1, <2>3, LenProperties
    <3>2. streamStatus \in Stream!StreamStatus
      BY DEF StreamOK, Stream!TypeOK
    <3>3. streamStatus = "backpressure" => Len(buffer) >= BackpressureThreshold
      BY DEF StreamOK, Stream!TypeOK
    <3>4. streamStatus' = IF Len(buffer') >= BackpressureThreshold THEN "backpressure" ELSE streamStatus
      BY <1>3 DEF Stream!Publish
    <3> QED BY <2>3, <3>1, <3>2, <3>3, <3>4 DEF Stream!StreamStatus, WebhookAssumption
  <2>6. subscribed' \subseteq Types \X Closures
    BY <1>3 DEF Stream!Publish, StreamOK
  <2>7. toCall' \subseteq Deliveries /\ \A d \in toCall' : d[1] = sequenceCounter'
    <3>1. Stream!Handlers(e) \subseteq Closures
      BY DEF Stream!Handlers, StreamOK
    <3>2. toCall' \subseteq {e} \X Stream!Handlers(e) /\ sequenceCounter' = e
      BY <1>3 DEF Stream!Publish
    <3> QED BY <3>1, <3>2 DEF Deliveries
  <2> QED BY <2>3, <2>4, <2>5, <2>6, <2>7 DEF StreamOK, Stream!TypeOK
<1>4. ASSUME NEW d \in toCall, Stream!Call(d)
      PROVE  StreamOK'
  BY <1>4 DEF StreamOK, Stream!Call, Stream!TypeOK
<1>5. CASE Stream!Pause \/ Stream!Resume \/ Stream!Close
  <2>1. /\ streamStatus' \in Stream!StreamStatus /\ streamStatus' # "backpressure"
        /\ subscribed' \subseteq Types \X Closures /\ UNCHANGED <<buffer, sequenceCounter, toCall>>
    BY <1>5 DEF Stream!Pause, Stream!Resume, Stream!Close, Stream!StreamStatus, StreamOK
  <2> QED BY <2>1 DEF StreamOK, Stream!TypeOK
<1> QED BY <1>1, <1>2, <1>3, <1>4, <1>5
        DEF Next, Update, Delete, Pause, Resume, Cool, Purge, StreamControl, Publish,
            HandOver, RetryDeadLetter, RetryFires

(* What an attempt does to the webhook's own state and to the sets.             *)
LEMMA AttemptTypes ==
  ASSUME WebhookAssumption, WebhookOK, SetsOK, NEW d \in Deliveries, NEW n \in 1..MaxAttempts,
         NEW rest \in SUBSET pending, NEW dead \in SUBSET deadLetters, Attempt(d, n, rest, dead)
  PROVE  /\ status' \in Statuses /\ failures' \in 0..FailureLimit
         /\ circuit' \in {"none", "open", "cooled"}
         /\ pending' \subseteq Deliveries \X (2..MaxAttempts)
         /\ deadLetters' \subseteq Deliveries /\ attempted' \subseteq Deliveries
         /\ delivered' \subseteq Deliveries /\ disturbed' \subseteq Deliveries
<1> USE DEF WebhookOK, SetsOK, Statuses
<1> MaxAttempts \in Nat /\ FailureLimit \in Nat \ {0}
  BY DEF WebhookAssumption
<1> attempted' \subseteq Deliveries /\ disturbed' \subseteq Deliveries
  BY DEF Attempt
<1>1. Bump(failures) \in 0..FailureLimit /\ Bump(0) \in 0..FailureLimit /\ Reopened \in Statuses
  BY DEF Bump, Reopened
<1>2. CASE Delivered(d, rest, dead)
  BY <1>1, <1>2 DEF Delivered
<1>3. ASSUME NEW f \in {failures, 0}, NEW c \in {circuit, "none"}, NEW s \in Statuses,
             Failed(d, n, rest, dead, f, c, s)
      PROVE  /\ status' \in Statuses /\ failures' \in 0..FailureLimit
             /\ circuit' \in {"none", "open", "cooled"}
             /\ pending' \subseteq Deliveries \X (2..MaxAttempts)
             /\ deadLetters' \subseteq Deliveries /\ delivered' \subseteq Deliveries
  <2>1. failures' \in 0..FailureLimit /\ delivered' \subseteq Deliveries
    BY <1>1, <1>3 DEF Failed
  <2>2. CASE FailedForNow(d, n, rest, dead, c, s)
    <3>1. n + 1 \in 2..MaxAttempts
      BY <2>2 DEF FailedForNow, LastAttempt
    <3> QED BY <2>1, <2>2, <3>1 DEF FailedForNow
  <2>3. CASE FailedFinally(d, n, rest, dead, c, s)
    BY <2>1, <2>3 DEF FailedFinally, CheckCircuit
  <2> QED BY <1>3, <2>2, <2>3 DEF Failed
<1>4. \/ Delivered(d, rest, dead)
      \/ Failed(d, n, rest, dead, failures, circuit, status)
      \/ Failed(d, n, rest, dead, 0, "none", Reopened)
  BY DEF Attempt
<1> QED BY <1>1, <1>2, <1>3, <1>4

LEMMA DeliverTypes ==
  ASSUME WebhookAssumption, WebhookOK, SetsOK, NEW d \in Deliveries,
         NEW dead \in SUBSET deadLetters, Deliver(d, dead)
  PROVE  /\ status' \in Statuses /\ failures' \in 0..FailureLimit
         /\ circuit' \in {"none", "open", "cooled"}
         /\ pending' \subseteq Deliveries \X (2..MaxAttempts)
         /\ deadLetters' \subseteq Deliveries /\ attempted' \subseteq Deliveries
         /\ delivered' \subseteq Deliveries /\ disturbed' \subseteq Deliveries
         /\ skipped' \subseteq Deliveries
<1>1. CASE circuit = "open"
  BY <1>1 DEF Deliver, WebhookOK, SetsOK, breaker
<1>2. CASE circuit # "open"
  <2>1. Attempt(d, 1, pending, dead) /\ UNCHANGED skipped
    BY <1>2 DEF Deliver
  <2>2. 1 \in 1..MaxAttempts
    BY DEF WebhookAssumption
  <2> QED BY <2>1, <2>2, AttemptTypes DEF SetsOK
<1> QED BY <1>1, <1>2

LEMMA WebhookTypes ==
  ASSUME WebhookAssumption, StreamOK, WebhookOK, SetsOK, Next
  PROVE  WebhookOK' /\ SetsOK'
<1> USE DEF webhook, breaker, delivery, NoAttempt
<1>1. ASSUME NEW types \in Registrations, NEW filter \in Filters, NEW n \in AttemptLimits,
             Create(types, filter, n)
      PROVE  WebhookOK' /\ SetsOK'
  BY <1>1 DEF Create, WebhookOK, SetsOK, WebhookAssumption
<1>2. ASSUME NEW filter \in Filters, NEW n \in AttemptLimits, Update(filter, n)
      PROVE  WebhookOK' /\ SetsOK'
  BY <1>2 DEF Update, WebhookOK, SetsOK, WebhookAssumption
<1>3. CASE Delete
  BY <1>3 DEF Delete, WebhookOK, SetsOK
<1>4. CASE Pause
  BY <1>4 DEF Pause, WebhookOK, SetsOK, Statuses
<1>5. CASE Resume
  BY <1>5 DEF Resume, WebhookOK, SetsOK, Statuses, WebhookAssumption
<1>6. CASE Cool
  BY <1>6 DEF Cool, WebhookOK, SetsOK
<1>7. CASE Purge
  BY <1>7 DEF Purge, WebhookOK, SetsOK
<1>8. CASE StreamControl \/ \E e \in Events : Publish(e)
  BY <1>8 DEF StreamControl, Publish, WebhookOK, SetsOK
<1>9. ASSUME NEW d \in toCall, HandOver(d)
      PROVE  WebhookOK' /\ SetsOK'
  <2>1. CASE Offered(d[1]) /\ exists
    <3>1. /\ Deliver(d, deadLetters) /\ owed' = owed \union {d}
          /\ UNCHANGED <<created, exists, accepted, limit, purged, cut>>
      BY <1>9, <2>1 DEF HandOver
    <3>2. d \in Deliveries
      BY DEF StreamOK
    <3> QED BY <3>1, <3>2, DeliverTypes DEF WebhookOK, SetsOK
  <2>2. CASE ~(Offered(d[1]) /\ exists)
    BY <1>9, <2>2 DEF HandOver, WebhookOK, SetsOK
  <2> QED BY <2>1, <2>2
<1>10. ASSUME NEW d \in deadLetters, RetryDeadLetter(d)
       PROVE  WebhookOK' /\ SetsOK'
  <2>1. /\ Deliver(d, deadLetters \ {d})
        /\ UNCHANGED <<created, exists, accepted, limit, purged, owed, cut>>
    BY <1>10 DEF RetryDeadLetter
  <2>2. d \in Deliveries
    BY DEF SetsOK
  <2> QED BY <2>1, <2>2, DeliverTypes DEF WebhookOK, SetsOK
<1>11. ASSUME NEW p \in pending, RetryFires(p)
       PROVE  WebhookOK' /\ SetsOK'
  <2>1. /\ Attempt(p[1], p[2], pending \ {p}, deadLetters)
        /\ UNCHANGED <<created, exists, accepted, limit, purged, skipped, owed, cut>>
    BY <1>11 DEF RetryFires
  <2>2. p[1] \in Deliveries /\ p[2] \in 1..MaxAttempts
    BY DEF SetsOK, WebhookAssumption
  <2> QED BY <2>1, <2>2, AttemptTypes DEF WebhookOK, SetsOK
<1> QED BY <1>1, <1>2, <1>3, <1>4, <1>5, <1>6, <1>7, <1>8, <1>9, <1>10, <1>11 DEF Next

-------------------------------------------------------------------------------
(* Every variable keeps its type and its bounds: the buffer of the stream never *)
(* outgrows its limit, and no retry waits for an attempt beyond the last.       *)
THEOREM TypeCorrect == ASSUME WebhookAssumption PROVE Spec => []TypeOK
<1>1. Init => TypeOK
  <2> SUFFICES ASSUME Init PROVE TypeOK
    OBVIOUS
  <2>1. StreamOK
    <3>1. /\ streamStatus = "active" /\ buffer = <<>> /\ sequenceCounter = 0
          /\ subscribed = {} /\ toCall = {}
      BY DEF Init, Stream!Init
    <3>2. buffer \in Seq(1..sequenceCounter) /\ Len(buffer) = 0
      BY <3>1, EmptySeq
    <3>3. MaxPublished \in Nat /\ MaxBufferSize \in Nat
      BY DEF WebhookAssumption
    <3>4. Len(buffer) <= MaxBufferSize /\ sequenceCounter \in 0..MaxPublished /\ sequenceCounter \in Nat
      BY <3>1, <3>2, <3>3
    <3>5. /\ streamStatus \in Stream!StreamStatus /\ streamStatus # "backpressure"
          /\ subscribed \subseteq Types \X Closures
      BY <3>1 DEF Stream!StreamStatus
    <3> QED BY <3>1, <3>2, <3>4, <3>5 DEF StreamOK, Stream!TypeOK
  <2>2. FailureLimit \in Nat /\ MaxAttempts \in Nat
    BY DEF WebhookAssumption
  <2>3. WebhookOK
    <3>1. created \in BOOLEAN /\ exists \in BOOLEAN /\ cut \in BOOLEAN
      BY DEF Init
    <3>2. status = "active" /\ accepted = {} /\ limit = 0 /\ failures = 0 /\ circuit = "none"
      BY DEF Init
    <3>3. failures \in 0..FailureLimit /\ limit \in 0..MaxAttempts
      BY <2>2, <3>2
    <3>4. status \in Statuses /\ accepted \subseteq Events /\ circuit \in {"none", "open", "cooled"}
      BY <3>2 DEF Statuses
    <3> QED BY <3>1, <3>3, <3>4 DEF WebhookOK
  <2>4. SetsOK
    BY DEF Init, SetsOK
  <2> QED BY <2>1, <2>3, <2>4, TypeParts
<1>2. TypeOK /\ [Next]_vars => TypeOK'
  <2> SUFFICES ASSUME TypeOK, [Next]_vars PROVE TypeOK'
    OBVIOUS
  <2>1. CASE Next
    BY <2>1, TypeParts, StreamTypes, WebhookTypes, PTL
  <2>2. CASE UNCHANGED vars
    BY <2>2 DEF vars, stream, webhook, breaker, delivery, TypeOK, Stream!TypeOK
  <2> QED BY <2>1, <2>2
<1> QED BY <1>1, <1>2, PTL DEF Spec

(* Before create() there is no webhook, and it is as it was made.               *)
Fresh == ~created => ~exists /\ status = "active" /\ circuit = "none"
                     /\ pending = {} /\ deadLetters = {}

StatusInv == Fresh /\ StatusFollowsCircuit

(* An attempt on behalf of a registered webhook keeps status and circuit        *)
(* together, and one on behalf of a deleted webhook is not asked.               *)
LEMMA AttemptStatus ==
  ASSUME StatusFollowsCircuit, NEW d, NEW n, NEW rest, NEW dead, Attempt(d, n, rest, dead),
         UNCHANGED exists
  PROVE  StatusFollowsCircuit'
<1>1. CASE Delivered(d, rest, dead)
  BY <1>1 DEF Delivered, Reopened, StatusFollowsCircuit
<1>2. ASSUME NEW f, NEW c, NEW s, Failed(d, n, rest, dead, f, c, s),
             exists => (c # "none" => s # "active") /\ (s = "error" => c # "none")
      PROVE  StatusFollowsCircuit'
  BY <1>2 DEF Failed, FailedForNow, FailedFinally, CheckCircuit, StatusFollowsCircuit
<1>3. CASE Failed(d, n, rest, dead, failures, circuit, status)
  BY <1>2, <1>3 DEF StatusFollowsCircuit
<1>4. CASE Failed(d, n, rest, dead, 0, "none", Reopened)
  <2>1. exists => Reopened # "error"
    BY DEF Reopened, StatusFollowsCircuit
  <2> QED BY <1>2, <1>4, <2>1
<1> QED BY <1>1, <1>3, <1>4 DEF Attempt

LEMMA DeliverStatus ==
  ASSUME StatusFollowsCircuit, NEW d, NEW dead, Deliver(d, dead), UNCHANGED exists
  PROVE  StatusFollowsCircuit'
BY AttemptStatus DEF Deliver, StatusFollowsCircuit, breaker

LEMMA StatusStep == StatusInv /\ [Next]_vars => StatusInv'
<1> SUFFICES ASSUME StatusInv, [Next]_vars PROVE StatusInv'
  OBVIOUS
<1> USE DEF StatusInv, webhook, breaker, delivery, NoAttempt
<1>1. ASSUME NEW types \in Registrations, NEW filter \in Filters, NEW n \in AttemptLimits,
             Create(types, filter, n)
      PROVE  StatusInv'
  BY <1>1 DEF Create, Fresh, StatusFollowsCircuit
<1>2. CASE Delete \/ Pause \/ Resume \/ Cool
  BY <1>2 DEF Delete, Pause, Resume, Cool, Fresh, StatusFollowsCircuit
<1>3. CASE Purge \/ StreamControl \/ \E e \in Events : Publish(e)
  BY <1>3 DEF Purge, StreamControl, Publish, Fresh, StatusFollowsCircuit
<1>4. ASSUME NEW filter \in Filters, NEW n \in AttemptLimits, Update(filter, n)
      PROVE  StatusInv'
  BY <1>4 DEF Update, Fresh, StatusFollowsCircuit
<1>5. ASSUME NEW d \in toCall, HandOver(d)
      PROVE  StatusInv'
  <2>1. CASE Offered(d[1]) /\ exists
    <3>1. Deliver(d, deadLetters) /\ UNCHANGED exists /\ created' /\ created
      BY <1>5, <2>1 DEF HandOver, Fresh
    <3> QED BY <3>1, DeliverStatus DEF Fresh
  <2>2. CASE ~(Offered(d[1]) /\ exists)
    BY <1>5, <2>2 DEF HandOver, Fresh, StatusFollowsCircuit
  <2> QED BY <2>1, <2>2
<1>6. ASSUME NEW d \in deadLetters, RetryDeadLetter(d)
      PROVE  StatusInv'
  <2>1. Deliver(d, deadLetters \ {d}) /\ UNCHANGED exists /\ created'
    BY <1>6 DEF RetryDeadLetter, Fresh
  <2> QED BY <2>1, DeliverStatus DEF Fresh
<1>7. ASSUME NEW p \in pending, RetryFires(p)
      PROVE  StatusInv'
  <2>1. Attempt(p[1], p[2], pending \ {p}, deadLetters) /\ UNCHANGED exists /\ created'
    BY <1>7 DEF RetryFires, Fresh
  <2> QED BY <2>1, AttemptStatus DEF Fresh
<1>8. CASE UNCHANGED vars
  BY <1>8 DEF vars, Fresh, StatusFollowsCircuit
<1> QED BY <1>1, <1>2, <1>3, <1>4, <1>5, <1>6, <1>7, <1>8 DEF Next

(* While the circuit of a registered webhook is not closed the stream's events  *)
(* stay away, and "error" always has a circuit that can close again.            *)
THEOREM StatusTheorem == Spec => []StatusFollowsCircuit
<1>1. Init => StatusInv
  BY DEF Init, StatusInv, Fresh, StatusFollowsCircuit
<1>2. StatusInv => StatusFollowsCircuit
  BY DEF StatusInv
<1> QED BY <1>1, <1>2, StatusStep, PTL DEF Spec

(* What an attempt does to the ways of its delivery, whatever state the catch   *)
(* finds: exactly one of three things.                                          *)
LEMMA AttemptWays ==
  ASSUME NEW d, NEW n, NEW rest, NEW dead, Attempt(d, n, rest, dead)
  PROVE  /\ \/ delivered' = delivered \union {d} /\ pending' = rest /\ deadLetters' = dead
            \/ /\ ~LastAttempt(n)
               /\ pending' = rest \union {<<d, n + 1>>} /\ deadLetters' = dead /\ UNCHANGED delivered
            \/ /\ LastAttempt(n)
               /\ pending' = rest /\ deadLetters' = dead \union {d} /\ UNCHANGED delivered
         /\ attempted' = {d}
         /\ disturbed \subseteq disturbed' /\ disturbed' \subseteq disturbed \union {d}
<1>1. attempted' = {d} /\ disturbed \subseteq disturbed' /\ disturbed' \subseteq disturbed \union {d}
  BY DEF Attempt
<1>2. CASE Delivered(d, rest, dead)
  BY <1>1, <1>2 DEF Delivered
<1>3. ASSUME NEW f, NEW c, NEW s, Failed(d, n, rest, dead, f, c, s)
      PROVE  \/ /\ ~LastAttempt(n)
                /\ pending' = rest \union {<<d, n + 1>>} /\ deadLetters' = dead /\ UNCHANGED delivered
             \/ /\ LastAttempt(n)
                /\ pending' = rest /\ deadLetters' = dead \union {d} /\ UNCHANGED delivered
  BY <1>3 DEF Failed, FailedForNow, FailedFinally
<1> QED BY <1>1, <1>2, <1>3 DEF Attempt

(* What an attempt leaves: its own delivery on one of three ways, the others    *)
(* where they were put.                                                         *)
LEMMA AttemptKeeps ==
  ASSUME NEW d, NEW n, NEW rest, NEW dead, Attempt(d, n, rest, dead)
  PROVE  /\ d \in delivered' \union {p[1] : p \in pending'} \union deadLetters'
         /\ delivered \subseteq delivered' /\ rest \subseteq pending' /\ dead \subseteq deadLetters'
<1>1. <<d, n + 1>>[1] = d
  OBVIOUS
<1>2. CASE pending' = rest \union {<<d, n + 1>>} /\ deadLetters' = dead /\ UNCHANGED delivered
  <2>1. d \in {p[1] : p \in pending'}
    BY <1>1, <1>2
  <2> QED BY <1>2, <2>1
<1> QED BY <1>2, AttemptWays

LEMMA DeliverKeeps ==
  ASSUME NEW d, NEW dead, Deliver(d, dead)
  PROVE  /\ d \in delivered' \union {p[1] : p \in pending'} \union deadLetters' \union skipped'
         /\ delivered \subseteq delivered' /\ pending \subseteq pending' /\ dead \subseteq deadLetters'
         /\ skipped \subseteq skipped'
<1>1. CASE circuit = "open"
  BY <1>1 DEF Deliver
<1>2. CASE circuit # "open"
  BY <1>2, AttemptKeeps DEF Deliver
<1> QED BY <1>1, <1>2

(* What the stream handed over was delivered, waits for a retry, is a dead      *)
(* letter, was purged, or was skipped by an open circuit.                       *)
THEOREM LossTheorem == Spec => []NothingLostButSkipped
<1>1. Init => NothingLostButSkipped
  BY DEF Init, NothingLostButSkipped
<1>2. NothingLostButSkipped /\ [Next]_vars => NothingLostButSkipped'
  <2> SUFFICES ASSUME NothingLostButSkipped, [Next]_vars PROVE NothingLostButSkipped'
    OBVIOUS
  <2> USE DEF NothingLostButSkipped, webhook, breaker, delivery, NoAttempt
  <2>1. CASE UNCHANGED <<delivered, pending, deadLetters, purged, skipped, owed>>
    BY <2>1
  <2>2. CASE Purge
    BY <2>2 DEF Purge
  <2>3. ASSUME NEW d \in toCall, HandOver(d), Offered(d[1]) /\ exists
        PROVE  NothingLostButSkipped'
    <3>1. Deliver(d, deadLetters) /\ owed' = owed \union {d} /\ UNCHANGED purged
      BY <2>3 DEF HandOver
    <3> QED BY <3>1, DeliverKeeps
  <2>4. ASSUME NEW d \in deadLetters, RetryDeadLetter(d)
        PROVE  NothingLostButSkipped'
    <3>1. Deliver(d, deadLetters \ {d}) /\ UNCHANGED <<owed, purged>>
      BY <2>4 DEF RetryDeadLetter
    <3> QED BY <3>1, DeliverKeeps
  <2>5. ASSUME NEW p \in pending, RetryFires(p)
        PROVE  NothingLostButSkipped'
    <3>1. Attempt(p[1], p[2], pending \ {p}, deadLetters) /\ UNCHANGED <<owed, purged, skipped>>
      BY <2>5 DEF RetryFires
    <3> QED BY <3>1, AttemptKeeps
  <2>6. CASE UNCHANGED vars
    BY <2>1, <2>6 DEF vars
  <2> QED
    BY <2>1, <2>2, <2>3, <2>4, <2>5, <2>6
    DEF Next, Create, Update, Delete, Pause, Resume, Cool, StreamControl, Publish, HandOver
<1> QED BY <1>1, <1>2, PTL DEF Spec

(* A delivery is on at most one way to the webhook: once it was handed over it  *)
(* is delivered, or waits for one retry, or is a dead letter; and what the      *)
(* stream still has to hand over is new.                                        *)
Ways == {p[1] : p \in pending}
HandedOver == delivered \union Ways \union deadLetters \union purged \union skipped \union disturbed
OneWay ==
  /\ delivered \intersect Ways = {} /\ delivered \intersect deadLetters = {}
  /\ Ways \intersect deadLetters = {}
  /\ \A p, q \in pending : p[1] = q[1] => p = q
HandedOnce == \A d \in HandedOver : d[1] <= sequenceCounter /\ d \notin toCall

(* An attempt at a delivery that is on no other way keeps it on one.            *)
LEMMA AttemptOneWay ==
  ASSUME OneWay, NEW d, NEW n, NEW rest \in SUBSET pending, NEW dead \in SUBSET deadLetters,
         d \notin delivered, d \notin dead, \A p \in rest : p[1] # d,
         Attempt(d, n, rest, dead)
  PROVE  OneWay'
<1>1. /\ delivered \subseteq delivered' \union {d} /\ delivered' \subseteq delivered \union {d}
      /\ dead \subseteq deadLetters' /\ deadLetters' \subseteq dead \union {d}
      /\ pending' \subseteq rest \union {<<d, n + 1>>}
      /\ d \in delivered' => d \notin deadLetters' /\ pending' = rest
      /\ d \in deadLetters' => d \notin delivered' /\ pending' = rest
  BY AttemptWays
<1>2. \A p \in pending' : p \in rest \/ p = <<d, n + 1>>
  BY <1>1
<1>3. <<d, n + 1>>[1] = d
  OBVIOUS
<1>4. Ways' \subseteq Ways \union {d} /\ (pending' = rest => d \notin Ways')
  BY <1>2, <1>3 DEF Ways
<1>5. /\ delivered' \intersect Ways' = {} /\ delivered' \intersect deadLetters' = {}
      /\ Ways' \intersect deadLetters' = {}
  BY <1>1, <1>4 DEF OneWay
<1>6. \A p, q \in pending' : p[1] = q[1] => p = q
  BY <1>2, <1>3 DEF OneWay
<1> QED BY <1>5, <1>6 DEF OneWay

(* An attempt hands nothing over but its own delivery.                          *)
LEMMA AttemptHandedOver ==
  ASSUME NEW d, NEW n, NEW rest \in SUBSET pending, NEW dead \in SUBSET deadLetters,
         Attempt(d, n, rest, dead), UNCHANGED <<purged, skipped>>
  PROVE  HandedOver' \subseteq HandedOver \union {d}
<1>1. /\ delivered' \subseteq delivered \union {d} /\ deadLetters' \subseteq deadLetters \union {d}
      /\ disturbed' \subseteq disturbed \union {d}
      /\ pending' \subseteq rest \union {<<d, n + 1>>}
  BY AttemptWays
<1>2. <<d, n + 1>>[1] = d
  OBVIOUS
<1>3. Ways' \subseteq Ways \union {d}
  BY <1>1, <1>2 DEF Ways
<1> QED BY <1>1, <1>3 DEF HandedOver

LEMMA DeliverOneWay ==
  ASSUME OneWay, NEW d, NEW dead \in SUBSET deadLetters,
         d \notin delivered, d \notin dead, d \notin Ways, Deliver(d, dead), UNCHANGED purged
  PROVE  OneWay' /\ HandedOver' \subseteq HandedOver \union {d} /\ attempted' \subseteq {d}
<1>1. CASE circuit = "open"
  <2>1. /\ attempted' = {} /\ deadLetters' = dead /\ skipped' = skipped \union {d}
        /\ UNCHANGED <<pending, delivered, disturbed>>
    BY <1>1 DEF Deliver
  <2> QED BY <2>1 DEF OneWay, Ways, HandedOver
<1>2. CASE circuit # "open"
  <2>1. Attempt(d, 1, pending, dead) /\ UNCHANGED skipped
    BY <1>2 DEF Deliver
  <2>2. \A p \in pending : p[1] # d
    BY DEF Ways
  <2> QED BY <2>1, <2>2, AttemptOneWay, AttemptHandedOver, AttemptWays
<1> QED BY <1>1, <1>2

LEMMA OneWayStep ==
  ASSUME WebhookAssumption, TypeOK, OneWay, HandedOnce, [Next]_vars
  PROVE  /\ OneWay' /\ HandedOnce'
         /\ vars' # vars => attempted' \intersect delivered = {}
<1> USE DEF webhook, breaker, delivery, NoAttempt
<1> sequenceCounter \in Nat
  BY DEF TypeOK, Stream!TypeOK
<1>1. CASE /\ UNCHANGED <<delivered, pending, deadLetters, purged, skipped, disturbed>>
           /\ UNCHANGED <<sequenceCounter, toCall>> /\ attempted' = {}
  BY <1>1 DEF OneWay, HandedOnce, HandedOver, Ways
<1>2. CASE Purge
  BY <1>2 DEF Purge, OneWay, HandedOnce, HandedOver, Ways, stream
<1>3. ASSUME NEW e \in Events, Publish(e)
      PROVE  OneWay' /\ HandedOnce' /\ attempted' = {}
  <2>1. e = sequenceCounter + 1 /\ sequenceCounter' = e /\ toCall' \subseteq {e} \X Stream!Handlers(e)
    BY <1>3 DEF Publish, Stream!Publish
  <2>2. /\ UNCHANGED <<delivered, pending, deadLetters, purged, skipped, disturbed>>
        /\ attempted' = {}
    BY <1>3 DEF Publish
  <2>3. OneWay' /\ HandedOver' = HandedOver
    BY <2>2 DEF OneWay, HandedOver, Ways
  <2>4. ASSUME NEW d \in HandedOver PROVE d[1] <= sequenceCounter' /\ d \notin toCall'
    <3>1. d \in Deliveries
      BY DEF HandedOver, Ways, TypeOK
    <3>2. d[1] \in Nat /\ d[1] <= sequenceCounter
      BY <3>1 DEF HandedOnce, Deliveries, Events
    <3>3. d[1] # e
      BY <2>1, <3>2
    <3> QED BY <2>1, <3>2, <3>3
  <2> QED BY <2>2, <2>3, <2>4 DEF HandedOnce
<1>4. ASSUME NEW d \in toCall, HandOver(d)
      PROVE  OneWay' /\ HandedOnce' /\ attempted' \intersect delivered = {}
  <2>1. toCall' = toCall \ {d} /\ UNCHANGED <<sequenceCounter, purged>>
    BY <1>4 DEF HandOver, Stream!Call
  <2>2. d \notin HandedOver /\ d[1] <= sequenceCounter
    BY DEF HandedOnce, TypeOK, Stream!TypeOK
  <2>3. CASE Offered(d[1]) /\ exists
    <3>1. Deliver(d, deadLetters)
      BY <1>4, <2>3 DEF HandOver
    <3>2. /\ OneWay' /\ HandedOver' \subseteq HandedOver \union {d} /\ attempted' \subseteq {d}
      BY <2>1, <2>2, <3>1, DeliverOneWay DEF HandedOver
    <3> QED BY <2>1, <2>2, <3>2 DEF HandedOnce, HandedOver
  <2>4. CASE ~(Offered(d[1]) /\ exists)
    <3>1. /\ UNCHANGED <<delivered, pending, deadLetters, skipped, disturbed>>
          /\ attempted' = {}
      BY <1>4, <2>4 DEF HandOver
    <3> QED BY <2>1, <3>1 DEF OneWay, HandedOnce, HandedOver, Ways
  <2> QED BY <2>3, <2>4
<1>5. ASSUME NEW d \in deadLetters, RetryDeadLetter(d)
      PROVE  OneWay' /\ HandedOnce' /\ attempted' \intersect delivered = {}
  <2>1. Deliver(d, deadLetters \ {d}) /\ UNCHANGED <<sequenceCounter, toCall, purged>>
    BY <1>5 DEF RetryDeadLetter, stream
  <2>2. d \notin delivered /\ d \notin Ways /\ d \in HandedOver
    BY DEF OneWay, HandedOver
  <2>3. /\ OneWay' /\ HandedOver' \subseteq HandedOver \union {d} /\ attempted' \subseteq {d}
    BY <2>1, <2>2, DeliverOneWay
  <2> QED BY <2>1, <2>2, <2>3 DEF HandedOnce
<1>6. ASSUME NEW p \in pending, RetryFires(p)
      PROVE  OneWay' /\ HandedOnce' /\ attempted' \intersect delivered = {}
  <2>1. /\ Attempt(p[1], p[2], pending \ {p}, deadLetters)
        /\ UNCHANGED <<sequenceCounter, toCall, purged, skipped>>
    BY <1>6 DEF RetryFires, stream
  <2>2. p[1] \in Ways
    BY DEF Ways
  <2>3. /\ p[1] \notin delivered /\ p[1] \notin deadLetters /\ p[1] \in HandedOver
        /\ \A q \in pending \ {p} : q[1] # p[1]
    BY <2>2 DEF OneWay, HandedOver
  <2>4. OneWay' /\ HandedOver' \subseteq HandedOver \union {p[1]} /\ attempted' = {p[1]}
    BY <2>1, <2>3, AttemptOneWay, AttemptHandedOver, AttemptWays
  <2> QED BY <2>1, <2>3, <2>4 DEF HandedOnce
<1>7. CASE UNCHANGED vars
  BY <1>7 DEF vars, stream, OneWay, HandedOnce, HandedOver, Ways
<1> QED
  BY <1>1, <1>2, <1>3, <1>4, <1>5, <1>6, <1>7
  DEF Next, Create, Update, Delete, Pause, Resume, Cool, StreamControl, stream,
      Stream!Subscribe, Stream!Pause, Stream!Resume, Stream!Close

LEMMA OneWayAlways ==
  ASSUME WebhookAssumption
  PROVE  Spec => [](OneWay /\ HandedOnce) /\ [][attempted' \intersect delivered = {}]_vars
<1>1. Init => OneWay /\ HandedOnce
  BY DEF Init, OneWay, HandedOnce, HandedOver, Ways
<1>2. TypeOK /\ OneWay /\ HandedOnce /\ [Next]_vars
        => OneWay' /\ HandedOnce' /\ [attempted' \intersect delivered = {}]_vars
  BY OneWayStep
<1> QED BY <1>1, <1>2, TypeCorrect, PTL DEF Spec

(* For every closure an event was handed to, whatever mix of retries and dead   *)
(* letter retries: the endpoint is sent again what it has answered only where a *)
(* listener that threw hid the answer, and never once an answer was recorded.   *)
THEOREM OnceTheorem == ASSUME WebhookAssumption PROVE Spec => DeliveredOnce
<1>1. [attempted' \intersect delivered = {}]_vars
        => [attempted' \intersect Received \subseteq disturbed \ delivered]_vars
  BY DEF Received
<1> QED BY <1>1, OneWayAlways, PTL DEF DeliveredOnce

-------------------------------------------------------------------------------
(* The ways an attempt can end are the outcomes of the ledger.                  *)
LEMMA AttemptOutcome ==
  ASSUME WebhookAssumption, TypeOK, NEW d, NEW n \in 1..MaxAttempts, NEW rest, NEW others,
         Attempt(d, n, rest, others)
  PROVE  Ledger!Outcome(d, n, rest, others)
<1>1. limit \in Nat /\ n \in Nat
  BY DEF TypeOK, WebhookAssumption
<1>2. ~LastAttempt(n) => n < limit
  BY <1>1 DEF LastAttempt
<1>3. LastAttempt(n) => n >= limit
  BY DEF LastAttempt
<1> QED BY <1>2, <1>3, AttemptWays DEF Ledger!Outcome

(* Every step of the webhook manager is a step of the ledger or leaves it       *)
(* alone.  What the stream hands over is new and meets no open circuit; a dead  *)
(* letter is tried again, or dropped by an open circuit; create() and update()  *)
(* set the limit.                                                               *)
LEMMA LedgerStep ==
  ASSUME WebhookAssumption, TypeOK, OneWay, HandedOnce, StatusFollowsCircuit, [Next]_vars
  PROVE  Ledger!LNext \/ UNCHANGED Ledger!lvars
<1> USE DEF webhook, breaker, delivery, NoAttempt
<1>0. 1 \in 1..MaxAttempts
  BY DEF WebhookAssumption
<1>1. CASE UNCHANGED <<limit, pending, deadLetters, delivered, purged, skipped>>
  BY <1>1 DEF Ledger!lvars
<1>2. CASE Purge
  <2>1. Ledger!Purge
    BY <1>2 DEF Purge, Ledger!Purge
  <2> QED BY <2>1 DEF Ledger!LNext
<1>3. ASSUME NEW d \in toCall, HandOver(d), Offered(d[1]) /\ exists
      PROVE  Ledger!LNext
  <2>1. circuit # "open" /\ Deliver(d, deadLetters) /\ UNCHANGED <<limit, purged>>
    BY <1>3 DEF HandOver, Offered, StatusFollowsCircuit
  <2>2. Attempt(d, 1, pending, deadLetters) /\ UNCHANGED skipped
    BY <2>1 DEF Deliver
  <2>3. Ledger!Outcome(d, 1, pending, deadLetters)
    BY <1>0, <2>2, AttemptOutcome
  <2>4. d \notin HandedOver /\ d \in Deliveries
    BY DEF HandedOnce, TypeOK
  <2>5. d \notin Ledger!Known
    BY <2>4 DEF Ledger!Known, Ledger!Awaited, HandedOver, Ways
  <2>6. Ledger!Take(d)
    BY <2>1, <2>2, <2>3, <2>5 DEF Ledger!Take
  <2> QED BY <2>4, <2>6 DEF Ledger!LNext
<1>4. ASSUME NEW d \in deadLetters, RetryDeadLetter(d)
      PROVE  Ledger!LNext
  <2>1. Deliver(d, deadLetters \ {d}) /\ UNCHANGED <<limit, purged>>
    BY <1>4 DEF RetryDeadLetter
  <2>2. d \in Deliveries
    BY DEF TypeOK
  <2>3. CASE circuit = "open"
    <3>1. Ledger!Drop(d)
      BY <2>1, <2>3 DEF Deliver, Ledger!Drop
    <3> QED BY <2>2, <3>1 DEF Ledger!LNext
  <2>4. CASE circuit # "open"
    <3>1. Attempt(d, 1, pending, deadLetters \ {d}) /\ UNCHANGED skipped
      BY <2>1, <2>4 DEF Deliver
    <3>2. Ledger!Outcome(d, 1, pending, deadLetters \ {d})
      BY <1>0, <3>1, AttemptOutcome
    <3>3. Ledger!Redeliver(d)
      BY <2>1, <3>1, <3>2 DEF Ledger!Redeliver
    <3> QED BY <2>2, <3>3 DEF Ledger!LNext
  <2> QED BY <2>3, <2>4
<1>5. ASSUME NEW p \in pending, RetryFires(p)
      PROVE  Ledger!LNext
  <2>1. /\ Attempt(p[1], p[2], pending \ {p}, deadLetters)
        /\ UNCHANGED <<limit, purged, skipped>>
    BY <1>5 DEF RetryFires
  <2>2. p[2] \in 1..MaxAttempts
    BY DEF TypeOK, WebhookAssumption
  <2>3. Ledger!Outcome(p[1], p[2], pending \ {p}, deadLetters)
    BY <2>1, <2>2, AttemptOutcome
  <2>4. Ledger!Retry(p)
    BY <2>1, <2>3 DEF Ledger!Retry
  <2> QED BY <2>4 DEF Ledger!LNext
<1>6. ASSUME NEW n \in AttemptLimits, limit' = n,
             UNCHANGED <<pending, deadLetters, delivered, purged, skipped>>
      PROVE  Ledger!LNext
  <2>1. Ledger!SetLimit(n)
    BY <1>6 DEF Ledger!SetLimit
  <2> QED BY <2>1 DEF Ledger!LNext
<1>7. CASE UNCHANGED vars
  BY <1>1, <1>7 DEF vars
<1> QED
  BY <1>1, <1>2, <1>3, <1>4, <1>5, <1>6, <1>7
  DEF Next, Create, Update, Delete, Pause, Resume, Cool, StreamControl, Publish, HandOver

(* The webhook manager implements the delivery ledger: nothing is lost from it, *)
(* is tried beyond the retry limit of the day, comes back from where it ended,  *)
(* or is dropped other than as a retried dead letter, whatever listeners throw  *)
(* and however often create() subscribed.                                       *)
THEOREM LedgerTheorem == ASSUME WebhookAssumption PROVE Spec => ImplementsLedger
<1>1. Init => Ledger!LInit
  BY DEF Init, Ledger!LInit
<1>2. TypeOK /\ OneWay /\ HandedOnce /\ StatusFollowsCircuit /\ [Next]_vars
        => [Ledger!LNext]_(Ledger!lvars)
  BY LedgerStep
<1> QED
  BY <1>1, <1>2, TypeCorrect, OneWayAlways, StatusTheorem, PTL
  DEF Spec, ImplementsLedger, Ledger!LSpec

(* An outcome moves a delivery that is in no other place to one place.          *)
LEMMA OutcomePlace ==
  ASSUME Ledger!OnePlace, NEW d, NEW n, NEW rest \in SUBSET pending,
         NEW others \in SUBSET deadLetters, Ledger!Outcome(d, n, rest, others),
         \A w \in rest : w[1] # d, d \notin others,
         d \notin delivered \union purged \union skipped, UNCHANGED <<purged, skipped>>
  PROVE  Ledger!OnePlace'
<1>1. /\ delivered' \subseteq delivered \union {d} /\ deadLetters' \subseteq others \union {d}
      /\ pending' \subseteq rest \union {<<d, n + 1>>}
      /\ d \in delivered' => d \notin deadLetters' /\ pending' = rest
      /\ d \in deadLetters' => d \notin delivered' /\ pending' = rest
  BY DEF Ledger!Outcome
<1>2. \A w \in pending' : w \in rest \/ w = <<d, n + 1>>
  BY <1>1
<1>3. <<d, n + 1>>[1] = d
  OBVIOUS
<1>4. Ways' \subseteq Ways \union {d} /\ (pending' = rest => d \notin Ways')
  BY <1>2, <1>3 DEF Ways
<1>5. \A v, w \in pending' : v[1] = w[1] => v = w
  BY <1>2, <1>3 DEF Ledger!OnePlace
<1>6. /\ Ways \intersect (deadLetters \union delivered \union purged \union skipped) = {}
      /\ deadLetters \intersect (delivered \union purged \union skipped) = {}
      /\ delivered \intersect (purged \union skipped) = {} /\ purged \intersect skipped = {}
  BY DEF Ledger!OnePlace, Ledger!Awaited, Ways
<1>7. /\ Ways' \intersect (deadLetters' \union delivered' \union purged' \union skipped') = {}
      /\ deadLetters' \intersect (delivered' \union purged' \union skipped') = {}
      /\ delivered' \intersect (purged' \union skipped') = {} /\ purged' \intersect skipped' = {}
  BY <1>1, <1>4, <1>6
<1> QED BY <1>5, <1>7 DEF Ledger!OnePlace, Ledger!Awaited, Ways

(* In the ledger a delivery is in one place only.                               *)
LEMMA LedgerOnePlace == Ledger!OnePlace /\ [Ledger!LNext]_(Ledger!lvars) => Ledger!OnePlace'
<1> SUFFICES ASSUME Ledger!OnePlace, [Ledger!LNext]_(Ledger!lvars) PROVE Ledger!OnePlace'
  OBVIOUS
<1>1. ASSUME NEW d \in Deliveries, Ledger!Take(d) PROVE Ledger!OnePlace'
  <2>1. /\ \A w \in pending : w[1] # d
        /\ d \notin deadLetters /\ d \notin delivered \union purged \union skipped
    BY <1>1 DEF Ledger!Take, Ledger!Known, Ledger!Awaited
  <2>2. Ledger!Outcome(d, 1, pending, deadLetters) /\ UNCHANGED <<purged, skipped>>
    BY <1>1 DEF Ledger!Take
  <2> QED BY <2>1, <2>2, OutcomePlace
<1>2. ASSUME NEW d \in Deliveries, Ledger!Redeliver(d) PROVE Ledger!OnePlace'
  <2>1. Ledger!Outcome(d, 1, pending, deadLetters \ {d}) /\ UNCHANGED <<purged, skipped>>
    BY <1>2 DEF Ledger!Redeliver
  <2>2. d \in deadLetters
    BY <1>2 DEF Ledger!Redeliver
  <2>3. (\A w \in pending : w[1] # d) /\ d \notin delivered \union purged \union skipped
    BY <2>2 DEF Ledger!OnePlace, Ledger!Awaited
  <2> QED BY <2>1, <2>3, OutcomePlace
<1>3. ASSUME NEW w \in pending, Ledger!Retry(w) PROVE Ledger!OnePlace'
  <2>1. Ledger!Outcome(w[1], w[2], pending \ {w}, deadLetters) /\ UNCHANGED <<purged, skipped>>
    BY <1>3 DEF Ledger!Retry
  <2>2. w[1] \notin deadLetters /\ w[1] \notin delivered \union purged \union skipped
    BY DEF Ledger!OnePlace, Ledger!Awaited
  <2>3. \A v \in pending \ {w} : v[1] # w[1]
    BY DEF Ledger!OnePlace
  <2> QED BY <2>1, <2>2, <2>3, OutcomePlace
<1>4. ASSUME NEW d \in Deliveries, Ledger!Drop(d) PROVE Ledger!OnePlace'
  BY <1>4 DEF Ledger!Drop, Ledger!OnePlace, Ledger!Awaited
<1>5. CASE Ledger!Purge \/ \E n \in AttemptLimits : Ledger!SetLimit(n)
  BY <1>5 DEF Ledger!Purge, Ledger!SetLimit, Ledger!OnePlace, Ledger!Awaited
<1>6. CASE UNCHANGED Ledger!lvars
  BY <1>6 DEF Ledger!lvars, Ledger!OnePlace, Ledger!Awaited
<1> QED BY <1>1, <1>2, <1>3, <1>4, <1>5, <1>6 DEF Ledger!LNext

(* What the stream handed over is in one place only: it waits for one attempt,  *)
(* is a dead letter, was delivered, was purged or was skipped.  It holds        *)
(* because it holds of the ledger.                                              *)
THEOREM OnePlaceTheorem == ASSUME WebhookAssumption PROVE Spec => []Ledger!OnePlace
<1>1. Ledger!LInit => Ledger!OnePlace
  BY DEF Ledger!LInit, Ledger!OnePlace, Ledger!Awaited
<1> QED BY <1>1, LedgerOnePlace, LedgerTheorem, PTL DEF ImplementsLedger, Ledger!LSpec

(* A retry that waits goes on waiting, or its delivery is tried: if that fails  *)
(* too it waits for the next attempt, never again for the same or an earlier    *)
(* one.  With the bound of TypeOK this is why a chain of retries is finite.     *)
Advances ==
  \A w \in pending : w \notin pending' => \A v \in pending' : v[1] = w[1] => v[2] = w[2] + 1
RetriesAdvance == [][Advances]_vars

THEOREM RetriesAdvanceTheorem == ASSUME WebhookAssumption PROVE Spec => RetriesAdvance
<1>1. Ledger!OnePlace /\ [Ledger!LNext]_(Ledger!lvars) => Advances
  <2> SUFFICES ASSUME Ledger!OnePlace, [Ledger!LNext]_(Ledger!lvars) PROVE Advances
    OBVIOUS
  <2> USE DEF Advances
  <2>1. ASSUME NEW d \in Deliveries, Ledger!Take(d) \/ Ledger!Redeliver(d) PROVE Advances
    BY <2>1 DEF Ledger!Take, Ledger!Redeliver, Ledger!Outcome
  <2>2. ASSUME NEW p \in pending, Ledger!Retry(p) PROVE Advances
    <3> SUFFICES ASSUME NEW w \in pending, w \notin pending', NEW v \in pending', v[1] = w[1]
                 PROVE  v[2] = w[2] + 1
      OBVIOUS
    <3>1. /\ pending \ {p} \subseteq pending'
          /\ pending' \subseteq (pending \ {p}) \union {<<p[1], p[2] + 1>>}
      BY <2>2 DEF Ledger!Retry, Ledger!Outcome
    <3>2. w = p /\ v # p
      BY <3>1
    <3>3. v \notin pending \ {p}
      BY <3>2 DEF Ledger!OnePlace
    <3> QED BY <3>1, <3>2, <3>3
  <2>3. ASSUME UNCHANGED pending PROVE Advances
    BY <2>3
  <2> HIDE DEF Advances
  <2> QED
    BY <2>1, <2>2, <2>3
    DEF Ledger!LNext, Ledger!Drop, Ledger!Purge, Ledger!SetLimit, Ledger!lvars
<1> QED
  BY <1>1, OnePlaceTheorem, LedgerTheorem, PTL
  DEF RetriesAdvance, ImplementsLedger, Ledger!LSpec

(* A stream that was closed over a webhook has lost its handlers for good.      *)
Cut == cut => created /\ subscribed = {} /\ toCall = {}

(* close() cuts a webhook off for good: whatever pause() and resume() make of   *)
(* the status of the closed stream, no new event is handed over any more.       *)
THEOREM ClosedTheorem == Spec => ClosedForGood
<1>1. Init => Cut
  BY DEF Init, Cut
<1>2. Cut /\ [Next]_vars => Cut' /\ [cut => owed' = owed]_vars
  <2> SUFFICES ASSUME Cut, [Next]_vars PROVE Cut' /\ (cut => owed' = owed)
    OBVIOUS
  <2>1. ASSUME NEW e \in Events, Publish(e) PROVE Cut' /\ (cut => owed' = owed)
    <3>1. subscribed = {} => Stream!Handlers(e) = {}
      BY DEF Stream!Handlers
    <3> QED BY <2>1, <3>1 DEF Publish, Stream!Publish, Cut, webhook
  <2>2. ASSUME toCall = {}, StreamControl PROVE Cut' /\ (cut => owed' = owed)
    <3>1. Cut'
      BY <2>2 DEF StreamControl, Stream!Pause, Stream!Resume, Stream!Close, Cut, webhook
    <3> QED BY <2>2, <3>1 DEF StreamControl
  <2>3. ASSUME NEW types \in Registrations, NEW filter \in Filters, NEW n \in AttemptLimits,
               Create(types, filter, n)
        PROVE  Cut' /\ (cut => owed' = owed)
    BY <2>3 DEF Create, Cut
  <2>4. ASSUME NEW d \in toCall, HandOver(d) PROVE Cut' /\ (cut => owed' = owed)
    BY <2>4 DEF HandOver, Cut
  <2>5. CASE UNCHANGED <<cut, created, subscribed, toCall, owed>>
    BY <2>5 DEF Cut
  <2>6. CASE UNCHANGED vars
    BY <2>5, <2>6 DEF vars, stream, webhook
  <2> QED
    BY <2>1, <2>2, <2>3, <2>4, <2>5, <2>6
    DEF Next, Update, Delete, Pause, Resume, Cool, Purge, RetryDeadLetter, RetryFires, stream, webhook
<1> QED BY <1>1, <1>2, PTL DEF Spec, ClosedForGood
==============================================================================
