------------------------- MODULE KernelEventBusProofs -------------------------
(* Proofs about the event bus, for any events, subscriptions, patterns, retry    *)
(* counts, size of the dead letter queue and number of retriers.                 *)
EXTENDS KernelEventBus, SequenceTheorems, FiniteSetTheorems, TLAPS

(* What the operators on queues do.                                              *)
Distinct(s) == \A i, j \in 1..Len(s) : s[i] = s[j] => i = j

LEMMA ToSetOf ==
  ASSUME NEW S, NEW s \in Seq(S)
  PROVE  /\ ToSet(s) = {s[i] : i \in 1..Len(s)} /\ ToSet(s) \subseteq S
<1>1. DOMAIN s = 1..Len(s) /\ \A i \in 1..Len(s) : s[i] \in S
  BY LenProperties, ElementOfSeq
<1> QED BY <1>1 DEF ToSet

LEMMA EmptySet == ToSet(<<>>) = {} /\ Distinct(<<>>)
<1>1. DOMAIN <<>> = {} /\ Len(<<>>) = 0
  OBVIOUS
<1>2. 1..Len(<<>>) = {}
  BY <1>1
<1> QED BY <1>1, <1>2 DEF ToSet, Distinct

LEMMA AppendSet ==
  ASSUME NEW S, NEW s \in Seq(S), NEW x \in S
  PROVE  /\ ToSet(Append(s, x)) = ToSet(s) \union {x}
         /\ Distinct(s) /\ x \notin ToSet(s) => Distinct(Append(s, x))
<1> DEFINE a == Append(s, x)
<1>1. a \in Seq(S) /\ Len(a) = Len(s) + 1 /\ a[Len(s) + 1] = x /\ \A i \in 1..Len(s) : a[i] = s[i]
  BY AppendProperties
<1>2. Len(s) \in Nat /\ 1..Len(a) = 1..Len(s) \union {Len(s) + 1}
  BY <1>1, LenProperties
<1> HIDE DEF a
<1>3. ToSet(a) = {a[i] : i \in 1..Len(a)} /\ ToSet(s) = {s[i] : i \in 1..Len(s)}
  <2>1. a \in Seq(S)
    BY <1>1
  <2> QED BY <2>1, ToSetOf
<1>4. ToSet(a) = ToSet(s) \union {x}
  <2>1. ASSUME NEW y \in ToSet(a) PROVE y \in ToSet(s) \union {x}
    <3>1. PICK i \in 1..Len(a) : y = a[i]
      BY <1>3, <2>1
    <3>2. CASE i \in 1..Len(s)
      BY <1>1, <1>3, <3>1, <3>2
    <3>3. CASE i = Len(s) + 1
      BY <1>1, <3>1, <3>3
    <3> QED BY <1>2, <3>2, <3>3
  <2>2. ToSet(s) \subseteq ToSet(a)
    <3>1. \A i \in 1..Len(s) : i \in 1..Len(a) /\ s[i] = a[i]
      BY <1>1, <1>2
    <3> QED BY <1>3, <3>1
  <2>3. x \in ToSet(a)
    <3>1. Len(s) + 1 \in 1..Len(a)
      BY <1>2
    <3> QED BY <1>1, <1>3, <3>1
  <2> QED BY <2>1, <2>2, <2>3
<1>5. ASSUME Distinct(s), x \notin ToSet(s) PROVE Distinct(a)
  <2> SUFFICES ASSUME NEW i \in 1..Len(a), NEW j \in 1..Len(a), a[i] = a[j] PROVE i = j
    BY DEF Distinct
  <2>1. \A k \in 1..Len(s) : a[k] # x
    BY <1>1, <1>3, <1>5
  <2>2. i \in 1..Len(s) <=> j \in 1..Len(s)
    BY <1>1, <1>2, <2>1
  <2> QED BY <1>1, <1>2, <1>5, <2>2 DEF Distinct
<1> QED BY <1>4, <1>5 DEF a

LEMMA LastNProperties ==
  ASSUME NEW S, NEW s \in Seq(S), NEW n \in Nat \ {0}
  PROVE  /\ LastN(s, n) \in Seq(S) /\ Len(LastN(s, n)) <= n
         /\ ToSet(LastN(s, n)) \subseteq ToSet(s)
         /\ Distinct(s) => Distinct(LastN(s, n))
         /\ Distinct(s) /\ ToSet(s) \subseteq ToSet(LastN(s, n)) => LastN(s, n) = s
<1> DEFINE l == LastN(s, n)
           k == Len(s) - n
<1>1. Len(s) \in Nat
  BY LenProperties
<1>2. CASE Len(s) <= n
  <2>1. l = s
    BY <1>1, <1>2 DEF LastN
  <2> QED BY <1>1, <1>2, <2>1
<1>3. CASE Len(s) > n
  <2>1. l = SubSeq(s, k + 1, Len(s))
    BY <1>3 DEF LastN
  <2>2. k \in Nat \ {0} /\ k + 1 \in 1..Len(s) + 1 /\ Len(s) \in (k + 1)-1..Len(s) /\ Len(s) = k + n
    BY <1>1, <1>3
  <2> HIDE DEF l, k
  <2>3. \A i \in (k + 1)..Len(s) : s[i] \in S
    BY <2>2, ElementOfSeq
  <2>4. l \in Seq(S) /\ Len(l) = n /\ \A i \in 1..n : l[i] = s[k + i]
    <3>1. \A i \in 1..n : (k + 1) + i - 1 = k + i
      BY <2>2
    <3>2. k + 1 <= Len(s) + 1 /\ Len(s) - (k + 1) + 1 = n
      BY <2>2
    <3>3. l \in Seq(S) /\ Len(l) = n /\ \A i \in 1..n : l[i] = s[(k + 1) + i - 1]
      BY <1>1, <2>1, <2>2, <2>3, <3>2, SubSeqProperties
    <3> QED BY <3>1, <3>3
  <2>5. \A i \in 1..n : k + i \in 1..Len(s) /\ k + i # 1
    BY <2>2
  <2>6. ToSet(l) = {l[i] : i \in 1..n} /\ ToSet(s) = {s[i] : i \in 1..Len(s)}
    BY <2>4, ToSetOf
  <2>7. ToSet(l) \subseteq ToSet(s)
    BY <2>4, <2>5, <2>6
  <2>8. ASSUME Distinct(s) PROVE Distinct(l)
    <3> SUFFICES ASSUME NEW i \in 1..n, NEW j \in 1..n, l[i] = l[j] PROVE i = j
      BY <2>4 DEF Distinct
    <3>1. k + i = k + j
      BY <2>4, <2>5, <2>8 DEF Distinct
    <3> QED BY <2>2, <3>1
  <2>9. ASSUME Distinct(s) PROVE ~(ToSet(s) \subseteq ToSet(l))
    <3>1. 1 \in 1..Len(s)
      BY <2>2
    <3>2. \A i \in 1..n : l[i] # s[1]
      BY <2>4, <2>5, <2>9, <3>1 DEF Distinct
    <3> QED BY <2>6, <3>1, <3>2
  <2> QED BY <2>4, <2>7, <2>8, <2>9 DEF l
<1> QED BY <1>1, <1>2, <1>3

LEMMA LimitNat == ASSUME BusAssumption, NEW s \in Subs PROVE MaxRetries(s) \in Nat
BY DEF BusAssumption, MaxRetries

(* The tasks a delivery starts, and the next attempt of a task.                  *)
LEMMA NewTasks ==
  ASSUME BusAssumption, active \subseteq Subs, NEW o \in Retriers \union {"publish"}, NEW e \in Events,
         NEW t \in TasksFor(o, e)
  PROVE  /\ t \in Task /\ t.attempt <= MaxRetries(t.sub)
         /\ t.origin = o /\ t.event = e /\ t.sub \in Matching(e) /\ t.attempt = 0
<1>1. PICK s \in Matching(e) : t = [origin |-> o, event |-> e, sub |-> s, attempt |-> 0]
  BY DEF TasksFor
<1>2. s \in Subs
  BY DEF Matching
<1>3. MaxRetries(s) \in Nat
  BY <1>2, LimitNat
<1> QED BY <1>1, <1>2, <1>3 DEF Task

LEMMA NextAttempt ==
  ASSUME BusAssumption, NEW t \in Task, ~LastAttempt(t)
  PROVE  LET u == [t EXCEPT !.attempt = @ + 1]
         IN  /\ u \in Task /\ u.attempt <= MaxRetries(u.sub)
             /\ u.origin = t.origin /\ u.event = t.event /\ u.sub = t.sub
<1> DEFINE u == [t EXCEPT !.attempt = t.attempt + 1]
<1>1. t.attempt \in Nat /\ t.attempt + 1 \in Nat /\ t.sub \in Subs
  BY DEF Task
<1>2. u \in Task /\ u.attempt = t.attempt + 1 /\ u.origin = t.origin /\ u.event = t.event /\ u.sub = t.sub
  BY <1>1 DEF Task
<1>3. t.attempt < MaxRetries(t.sub)
  BY <1>1, LimitNat DEF LastAttempt
<1>4. t.attempt + 1 <= MaxRetries(t.sub)
  BY <1>1, <1>3, LimitNat
<1> QED BY <1>2, <1>4

(* Publishing and the history of what was handled keep their types as well.      *)
Types == TypeOK /\ handled \in [Subs -> Seq(Events)] /\ published \in Seq(Events)

LEMMA TypesStep ==
  ASSUME BusAssumption, Types, [Next]_vars
  PROVE  Types'
<1> USE DEF Types, TypeOK, counters, ghosts
<1>1. ASSUME NEW s \in Subs, Subscribe(s) \/ Unsubscribe(s) PROVE Types'
  BY <1>1 DEF Subscribe, Unsubscribe
<1>2. ASSUME NEW e \in Events, Publish(e) PROVE Types'
  <2>1. published' \in Seq(Events)
    BY <1>2, AppendProperties DEF Publish
  <2>2. tasks' \subseteq Task /\ \A t \in tasks' : t.attempt <= MaxRetries(t.sub)
    BY <1>2, NewTasks DEF Publish
  <2> QED BY <1>2, <2>1, <2>2 DEF Publish
<1>3. ASSUME NEW t \in tasks, HandlerSucceeds(t) PROVE Types'
  <2>1. t.sub \in Subs /\ t.event \in Events
    BY DEF Task
  <2>2. Append(handled[t.sub], t.event) \in Seq(Events)
    BY <2>1, AppendProperties
  <2>3. handled' \in [Subs -> Seq(Events)]
    BY <1>3, <2>1, <2>2 DEF HandlerSucceeds
  <2> QED BY <1>3, <2>3 DEF HandlerSucceeds
<1>4. ASSUME NEW t \in tasks, HandlerBacksOff(t) PROVE Types'
  <2>1. tasks' \subseteq Task /\ \A u \in tasks' : u.attempt <= MaxRetries(u.sub)
    BY <1>4, NextAttempt DEF HandlerBacksOff
  <2> QED BY <1>4, <2>1 DEF HandlerBacksOff
<1>5. ASSUME NEW t \in tasks, HandlerGivesUp(t) PROVE Types'
  <2>1. <<t.event, t.sub>> \in Pairs
    BY DEF Task, Pairs
  <2>2. deadLetters' \in Seq(Pairs) /\ Len(deadLetters') <= MaxDeadLetters
    <3>1. Append(deadLetters, <<t.event, t.sub>>) \in Seq(Pairs)
      BY <2>1, AppendProperties
    <3> QED BY <1>5, <3>1, LastNProperties DEF HandlerGivesUp, BusAssumption
  <2> QED BY <1>5, <2>2 DEF HandlerGivesUp
<1>6. ASSUME NEW r \in Retriers, RetryStart(r) PROVE Types'
  <2>1. Head(deadLetters) \in Pairs /\ <<>> \in Seq(Pairs) /\ Len(<<>>) = 0
    BY <1>6, HeadTailProperties, EmptySeq DEF RetryStart
  <2>2. Head(deadLetters)[1] \in Events
    BY <2>1 DEF Pairs
  <2>3. tasks' \subseteq Task /\ \A t \in tasks' : t.attempt <= MaxRetries(t.sub)
    BY <1>6, <2>2, NewTasks DEF RetryStart
  <2>4. deadLetters' \in Seq(Pairs) /\ Len(deadLetters') <= MaxDeadLetters
    BY <1>6, <2>1 DEF RetryStart, BusAssumption
  <2>5. pass' \in [Retriers -> Seq(Pairs)] /\ passes' \in 0..MaxPasses
    BY <1>6 DEF RetryStart, BusAssumption
  <2> QED BY <1>6, <2>3, <2>4, <2>5 DEF RetryStart
<1>7. ASSUME NEW r \in Retriers, RetryContinue(r) PROVE Types'
  <2>1. Tail(pass[r]) \in Seq(Pairs)
    BY <1>7, HeadTailProperties DEF RetryContinue
  <2>2. pass' \in [Retriers -> Seq(Pairs)]
    BY <1>7, <2>1 DEF RetryContinue
  <2>3. tasks' \subseteq Task /\ \A t \in tasks' : t.attempt <= MaxRetries(t.sub)
    <3>1. CASE Len(pass[r]) > 1
      <4>1. pass[r][2] \in Pairs
        BY <3>1, ElementOfSeq, LenProperties
      <4>2. pass[r][2][1] \in Events
        BY <4>1 DEF Pairs
      <4> QED BY <1>7, <3>1, <4>2, NewTasks DEF RetryContinue
    <3>2. CASE ~(Len(pass[r]) > 1)
      BY <1>7, <3>2 DEF RetryContinue
    <3> QED BY <3>1, <3>2
  <2> QED BY <1>7, <2>2, <2>3 DEF RetryContinue
<1>8. CASE Destroy
  BY <1>8, EmptySeq DEF Destroy, BusAssumption
<1>9. CASE UNCHANGED vars
  BY <1>9 DEF vars
<1> QED BY <1>1, <1>2, <1>3, <1>4, <1>5, <1>6, <1>7, <1>8, <1>9 DEF Next, TaskStep

LEMMA TypesAlways == ASSUME BusAssumption PROVE Spec => []Types
<1>1. Init => Types
  <2> SUFFICES ASSUME Init PROVE Types
    OBVIOUS
  <2>1. deadLetters \in Seq(Pairs) /\ Len(deadLetters) <= MaxDeadLetters
    BY EmptySeq DEF Init, BusAssumption
  <2>2. pass \in [Retriers -> Seq(Pairs)] /\ passes \in 0..MaxPasses
    BY EmptySeq DEF Init, BusAssumption
  <2>3. handled \in [Subs -> Seq(Events)] /\ published \in Seq(Events)
    BY EmptySeq DEF Init
  <2>4. /\ active \subseteq Subs /\ gone \subseteq Subs /\ tasks = {}
        /\ delivered \in Nat /\ failed \in Nat
    BY DEF Init
  <2>5. destroyed \in BOOLEAN
    BY DEF Init
  <2> QED BY <2>1, <2>2, <2>3, <2>4, <2>5 DEF Types, TypeOK
<1> QED BY <1>1, TypesStep, PTL DEF Spec

(* Every variable keeps its type and its bounds: the dead letter queue never     *)
(* outgrows its limit, and no delivery is at an attempt beyond its last.         *)
THEOREM TypeCorrect == ASSUME BusAssumption PROVE Spec => []TypeOK
BY TypesAlways, PTL DEF Types

-------------------------------------------------------------------------------
(* Where a delivery can be besides the item its retry pass is at: that item's    *)
(* event was delivered again when the pass came to it, so the task, the handled  *)
(* event or the dead letter that became of it stands for it.                     *)
Later(s) == {s[i] : i \in 2..Len(s)}
Traced(p) ==
  \/ p[1] \in ToSet(handled[p[2]])
  \/ \E t \in tasks : t.event = p[1] /\ t.sub = p[2]
  \/ p \in ToSet(deadLetters)
  \/ \E r \in Retriers : p \in Later(pass[r])
  \/ p \in trimmed
  \/ p[2] \in gone
Owed(p) == p \in Matches /\ p[2] \in active \union gone
LossInv == ~destroyed => \A p \in owed : Owed(p) /\ Traced(p)

LEMMA PairOf ==
  ASSUME BusAssumption, NEW p \in Matches
  PROVE  /\ p \in Pairs /\ p[1] \in Events /\ p[2] \in Subs /\ p = <<p[1], p[2]>>
BY DEF BusAssumption, Pairs

(* A new delivery of the event of an owed pair has a task for its subscription.  *)
LEMMA Redelivered ==
  ASSUME BusAssumption, NEW p, Owed(p), NEW o, p[2] \in active
  PROVE  \E t \in TasksFor(o, p[1]) : t.event = p[1] /\ t.sub = p[2]
<1>1. p[2] \in Matching(p[1])
  BY PairOf DEF Owed, Matching
<1> DEFINE t == [origin |-> o, event |-> p[1], sub |-> p[2], attempt |-> 0]
<1>2. t \in TasksFor(o, p[1]) /\ t.event = p[1] /\ t.sub = p[2]
  BY <1>1 DEF TasksFor
<1> QED BY <1>2

LEMMA LossStep ==
  ASSUME BusAssumption, Types, LossInv, [Next]_vars
  PROVE  LossInv'
<1> SUFFICES ASSUME ~destroyed' PROVE (\A p \in owed : Owed(p) /\ Traced(p))'
  BY DEF LossInv
<1>a. \A p \in owed : Owed(p) /\ Traced(p) /\ p[2] \in Subs
  <2>1. ~destroyed
    BY DEF Next, TaskStep, Subscribe, Unsubscribe, Publish, HandlerSucceeds, HandlerBacksOff,
           HandlerGivesUp, RetryStart, RetryContinue, Destroy, vars, counters, ghosts
  <2> QED BY <2>1, PairOf DEF LossInv, Owed
<1> USE DEF counters, ghosts
<1>b. /\ deadLetters \in Seq(Pairs) /\ pass \in [Retriers -> Seq(Pairs)] /\ tasks \subseteq Task
      /\ handled \in [Subs -> Seq(Events)] /\ active \subseteq Subs
  BY DEF Types, TypeOK
<1>1. ASSUME NEW s \in Subs, Subscribe(s) \/ Unsubscribe(s)
      PROVE  (\A p \in owed : Owed(p) /\ Traced(p))'
  BY <1>1, <1>a DEF Subscribe, Unsubscribe, Owed, Traced, Later
<1>2. ASSUME NEW e \in Events, Publish(e)
      PROVE  (\A p \in owed : Owed(p) /\ Traced(p))'
  <2> SUFFICES ASSUME NEW p \in owed' PROVE Owed(p)' /\ Traced(p)'
    OBVIOUS
  <2>1. CASE p \in owed
    BY <1>2, <1>a, <2>1 DEF Publish, Owed, Traced, Later
  <2>2. CASE p \in {e} \X Matching(e)
    <3>1. p = <<e, p[2]>> /\ p[1] = e /\ p[2] \in Matching(e)
      BY <2>2
    <3>2. Owed(p)
      BY <3>1 DEF Owed, Matching
    <3>3. \E t \in TasksFor("publish", e) : t.event = p[1] /\ t.sub = p[2]
      BY <3>1, <3>2, Redelivered DEF Matching
    <3> QED BY <1>2, <3>2, <3>3 DEF Publish, Owed, Traced
  <2> QED BY <1>2, <2>1, <2>2 DEF Publish
<1>3. ASSUME NEW t \in tasks, HandlerSucceeds(t)
      PROVE  (\A p \in owed : Owed(p) /\ Traced(p))'
  <2> SUFFICES ASSUME NEW p \in owed PROVE Owed(p)' /\ Traced(p)'
    BY <1>3 DEF HandlerSucceeds
  <2>1. t.sub \in Subs /\ t.event \in Events
    BY <1>b DEF Task
  <2>2. \A s \in Subs : ToSet(handled[s]) \subseteq ToSet(handled'[s])
    BY <1>3, <1>b, <2>1, AppendSet DEF HandlerSucceeds
  <2>3. t.event \in ToSet(handled'[t.sub])
    BY <1>3, <1>b, <2>1, AppendSet DEF HandlerSucceeds
  <2> QED BY <1>3, <1>a, <2>2, <2>3 DEF HandlerSucceeds, Owed, Traced, Later
<1>4. ASSUME NEW t \in tasks, HandlerBacksOff(t)
      PROVE  (\A p \in owed : Owed(p) /\ Traced(p))'
  <2> DEFINE u == [t EXCEPT !.attempt = @ + 1]
  <2>1. u.event = t.event /\ u.sub = t.sub
    BY <1>4, <1>b, NextAttempt DEF HandlerBacksOff
  <2> HIDE DEF u
  <2>2. tasks' = (tasks \ {t}) \union {u}
    BY <1>4 DEF HandlerBacksOff, u
  <2> QED BY <1>4, <1>a, <2>1, <2>2 DEF HandlerBacksOff, Owed, Traced, Later
<1>5. ASSUME NEW t \in tasks, HandlerGivesUp(t)
      PROVE  (\A p \in owed : Owed(p) /\ Traced(p))'
  <2> DEFINE d == <<t.event, t.sub>>
             a == Append(deadLetters, d)
  <2>1. d \in Pairs
    BY <1>b DEF Task, Pairs
  <2>2. ToSet(a) = ToSet(deadLetters) \union {d}
    <3> HIDE DEF d
    <3> QED BY <1>b, <2>1, AppendSet
  <2>3. trimmed' = trimmed \union (ToSet(a) \ ToSet(deadLetters'))
    BY <1>5 DEF HandlerGivesUp
  <2> HIDE DEF a
  <2>4. \A p \in ToSet(deadLetters) \union {d} : p \in ToSet(deadLetters') \/ p \in trimmed'
    BY <2>2, <2>3
  <2>5. trimmed \subseteq trimmed' /\ tasks' = tasks \ {t} /\ UNCHANGED <<owed, active, gone, handled, pass>>
    BY <1>5, <2>3 DEF HandlerGivesUp
  <2>6. \A p \in Matches : p[1] = t.event /\ p[2] = t.sub => p = d
    BY PairOf
  <2> HIDE DEF d
  <2> QED BY <1>a, <2>4, <2>5, <2>6 DEF Owed, Traced, Later
<1>6. ASSUME NEW r \in Retriers, RetryStart(r)
      PROVE  (\A p \in owed : Owed(p) /\ Traced(p))'
  <2> SUFFICES ASSUME NEW p \in owed PROVE Owed(p)' /\ Traced(p)'
    BY <1>6 DEF RetryStart
  <2>0. Traced(p)' <=> \/ p[1] \in ToSet(handled'[p[2]])
                       \/ \E t \in tasks' : t.event = p[1] /\ t.sub = p[2]
                       \/ p \in ToSet(deadLetters')
                       \/ \E q \in Retriers : p \in Later(pass'[q])
                       \/ p \in trimmed'
                       \/ p[2] \in gone'
    BY DEF Traced, Later, ToSet
  <2>1. Owed(p)'
    BY <1>6, <1>a DEF RetryStart, Owed
  <2>2. /\ \A q \in Retriers : Later(pass[q]) \subseteq Later(pass'[q])
        /\ \A i \in 2..Len(deadLetters) : deadLetters[i] \in Later(pass'[r])
    <3>1. Later(pass[r]) = {}
      BY <1>6, EmptySeq DEF RetryStart, Later
    <3>2. pass'[r] = deadLetters /\ \A q \in Retriers : q # r => pass'[q] = pass[q]
      BY <1>6, <1>b DEF RetryStart
    <3> QED BY <3>1, <3>2 DEF Later
  <2>3. CASE p \in ToSet(deadLetters)
    <3>1. PICK i \in 1..Len(deadLetters) : p = deadLetters[i]
      BY <1>b, <2>3, ToSetOf
    <3>2. CASE i = 1
      <4>1. Head(deadLetters) = p
        BY <3>1, <3>2
      <4>2. p[2] \in gone \/ \E t \in TasksFor(r, p[1]) : t.event = p[1] /\ t.sub = p[2]
        BY <1>a, Redelivered DEF Owed
      <4> QED BY <2>0, <2>1, <1>6, <4>1, <4>2 DEF RetryStart
    <3>3. CASE i # 1
      <4>1. i \in 2..Len(deadLetters)
        BY <1>b, <3>3, LenProperties
      <4> QED BY <2>0, <2>1, <2>2, <3>1, <4>1
    <3> QED BY <3>2, <3>3
  <2>4. CASE p \notin ToSet(deadLetters)
    BY <2>0, <2>1, <1>6, <1>a, <2>2, <2>4 DEF RetryStart, Traced
  <2> QED BY <2>1, <2>3, <2>4
<1>7. ASSUME NEW r \in Retriers, RetryContinue(r)
      PROVE  (\A p \in owed : Owed(p) /\ Traced(p))'
  <2> SUFFICES ASSUME NEW p \in owed PROVE Owed(p)' /\ Traced(p)'
    BY <1>7 DEF RetryContinue
  <2>0. Traced(p)' <=> \/ p[1] \in ToSet(handled'[p[2]])
                       \/ \E t \in tasks' : t.event = p[1] /\ t.sub = p[2]
                       \/ p \in ToSet(deadLetters')
                       \/ \E q \in Retriers : p \in Later(pass'[q])
                       \/ p \in trimmed'
                       \/ p[2] \in gone'
    BY DEF Traced, Later, ToSet
  <2>1. Owed(p)'
    BY <1>7, <1>a DEF RetryContinue, Owed
  <2> DEFINE s == pass[r]
  <2>2. /\ s \in Seq(Pairs) /\ s # <<>> /\ pass'[r] = Tail(s)
        /\ \A q \in Retriers : q # r => pass'[q] = pass[q]
    BY <1>7, <1>b DEF RetryContinue
  <2> HIDE DEF s
  <2>3. CASE p \in Later(pass[r])
    <3>1. PICK i \in 2..Len(s) : p = s[i]
      BY <2>3 DEF Later, s
    <3>2. Len(s) \in Nat /\ Len(Tail(s)) = Len(s) - 1 /\ \A j \in 1..Len(Tail(s)) : Tail(s)[j] = s[j + 1]
      BY <2>2, HeadTailProperties, LenProperties
    <3>3. CASE i = 2
      <4>1. Len(s) > 1 /\ s[2][1] = p[1]
        BY <3>1, <3>2, <3>3
      <4>2. TasksFor(r, p[1]) \subseteq tasks'
        BY <1>7, <4>1 DEF RetryContinue, s
      <4>3. p[2] \in gone \/ \E t \in TasksFor(r, p[1]) : t.event = p[1] /\ t.sub = p[2]
        BY <1>a, Redelivered DEF Owed
      <4> QED BY <2>0, <2>1, <1>7, <4>2, <4>3 DEF RetryContinue
    <3>4. CASE i # 2
      <4>1. i - 1 \in 2..Len(Tail(s)) /\ (i - 1) + 1 = i /\ i - 1 \in 1..Len(Tail(s))
        BY <3>1, <3>2, <3>4
      <4>2. p = pass'[r][i - 1] /\ i - 1 \in 2..Len(pass'[r])
        BY <2>2, <3>1, <3>2, <4>1
      <4>3. p \in Later(pass'[r])
        BY <4>2 DEF Later
      <4> QED BY <2>0, <2>1, <4>3
    <3> QED BY <3>3, <3>4
  <2>4. CASE p \notin Later(pass[r])
    <3>1. \A q \in Retriers : q # r => Later(pass'[q]) = Later(pass[q])
      BY <2>2 DEF Later
    <3>2. tasks \subseteq tasks' /\ UNCHANGED <<handled, deadLetters, trimmed, gone>>
      BY <1>7 DEF RetryContinue
    <3> QED BY <2>0, <2>1, <1>a, <2>4, <3>1, <3>2 DEF Traced
  <2> QED BY <2>1, <2>3, <2>4
<1>8. CASE UNCHANGED vars
  BY <1>8, <1>a DEF vars, Owed, Traced, Later
<1> QED BY <1>1, <1>2, <1>3, <1>4, <1>5, <1>6, <1>7, <1>8 DEF Next, TaskStep, Destroy

(* No delivery is lost without a trace: what was matched when its event was      *)
(* published has been handled, is being tried, waits in the dead letter queue    *)
(* or in a retry pass, or was trimmed; or its subscription is gone.              *)
THEOREM LossTheorem == ASSUME BusAssumption PROVE Spec => []NothingLost
<1>1. Init => LossInv
  BY DEF Init, LossInv
<1>2. Types /\ LossInv => NothingLost
  <2> SUFFICES ASSUME Types, LossInv, ~destroyed, NEW p \in owed
               PROVE  \/ Succeeded(p)
                      \/ \E t \in tasks : t.event = p[1] /\ t.sub = p[2]
                      \/ p \in ToSet(deadLetters)
                      \/ \E r \in Retriers : p \in ToSet(pass[r])
                      \/ p \in trimmed
                      \/ p[2] \in gone
    BY DEF NothingLost
  <2>1. Traced(p) /\ p[2] \in Subs
    BY PairOf DEF LossInv, Owed
  <2>2. p[1] \in ToSet(handled[p[2]]) => Succeeded(p)
    <3>1. handled[p[2]] \in Seq(Events)
      BY <2>1 DEF Types
    <3> QED BY <3>1, ToSetOf DEF Succeeded
  <2>3. \A r \in Retriers : Later(pass[r]) \subseteq ToSet(pass[r])
    <3>1. ASSUME NEW r \in Retriers PROVE Later(pass[r]) \subseteq ToSet(pass[r])
      <4>1. ToSet(pass[r]) = {pass[r][i] : i \in 1..Len(pass[r])}
        BY ToSetOf DEF Types, TypeOK
      <4>2. \A i \in 2..Len(pass[r]) : i \in 1..Len(pass[r])
        OBVIOUS
      <4> QED BY <4>1, <4>2 DEF Later
    <3> QED BY <3>1
  <2> QED BY <2>1, <2>2, <2>3 DEF Traced
<1> QED BY <1>1, <1>2, LossStep, TypesAlways, PTL DEF Spec

-------------------------------------------------------------------------------
(* Before the first retry pass every task comes from publish(), and an event     *)
(* meets a subscription once: as one task, one handled event or one dead letter. *)
Met(t) == t.event \in ToSet(handled[t.sub]) \/ <<t.event, t.sub>> \in ToSet(deadLetters)
Once ==
  /\ \A r \in Retriers : pass[r] = <<>>
  /\ \A t \in tasks : t.origin = "publish" /\ t.event \in ToSet(published) /\ ~Met(t)
  /\ \A t, u \in tasks : t.event = u.event /\ t.sub = u.sub => t = u
  /\ \A s \in Subs : Distinct(handled[s]) /\ ToSet(handled[s]) \subseteq ToSet(published)
  /\ Distinct(deadLetters) /\ \A d \in ToSet(deadLetters) : d[1] \in ToSet(published)
OnceInv == passes = 0 => Once

LEMMA OnceStep ==
  ASSUME BusAssumption, Types, OnceInv, [Next]_vars
  PROVE  OnceInv'
<1> SUFFICES ASSUME passes' = 0 PROVE Once'
  BY DEF OnceInv
<1> USE DEF counters, ghosts
<1>a. /\ deadLetters \in Seq(Pairs) /\ tasks \subseteq Task /\ published \in Seq(Events)
      /\ handled \in [Subs -> Seq(Events)] /\ passes \in Nat /\ active \subseteq Subs
  BY DEF Types, TypeOK, BusAssumption
<1>b. passes = 0 /\ Once
  <2>1. passes' = passes \/ passes' = passes + 1
    BY DEF Next, TaskStep, Subscribe, Unsubscribe, Publish, HandlerSucceeds, HandlerBacksOff,
           HandlerGivesUp, RetryStart, RetryContinue, Destroy, vars
  <2> QED BY <1>a, <2>1 DEF OnceInv
<1>1. CASE UNCHANGED <<tasks, handled, deadLetters, pass, published>>
  <2>1. \A t \in tasks : Met(t)' <=> Met(t)
    BY <1>1 DEF Met
  <2>2. Distinct(deadLetters)' /\ \A s \in Subs : Distinct(handled[s])'
    BY <1>1, <1>b DEF Once, Distinct
  <2> QED BY <1>1, <1>b, <2>1, <2>2 DEF Once
<1>2. ASSUME NEW e \in Events, Publish(e) PROVE Once'
  <2>1. ToSet(published') = ToSet(published) \union {e} /\ e \notin ToSet(published)
    BY <1>2, <1>a, AppendSet DEF Publish
  <2>2. \A t \in TasksFor("publish", e) : t.origin = "publish" /\ t.event = e /\ t.sub \in Subs
    BY <1>a, NewTasks DEF Matching
  <2>3. \A t, u \in TasksFor("publish", e) : t.sub = u.sub => t = u
    BY DEF TasksFor
  <2>4. tasks' = tasks \union TasksFor("publish", e) /\ UNCHANGED <<handled, deadLetters, pass>>
    BY <1>2 DEF Publish
  <2>5. ASSUME NEW t \in TasksFor("publish", e) PROVE ~Met(t)
    <3>1. t.event = e /\ t.sub \in Subs
      BY <2>2
    <3>2. e \notin ToSet(handled[t.sub])
      BY <2>1, <3>1, <1>b DEF Once
    <3>3. <<e, t.sub>> \notin ToSet(deadLetters)
      <4>1. <<e, t.sub>>[1] = e
        OBVIOUS
      <4> QED BY <2>1, <4>1, <1>b DEF Once
    <3> QED BY <3>1, <3>2, <3>3 DEF Met
  <2>6. \A t \in tasks' : ~Met(t)
    BY <2>4, <2>5, <1>b DEF Once
  <2>7. \A t \in tasks' : ~Met(t)'
    BY <2>4, <2>6 DEF Met
  <2>8. \A t, u \in tasks' : t.event = u.event /\ t.sub = u.sub => t = u
    BY <2>1, <2>2, <2>3, <2>4, <1>b DEF Once
  <2>9. \A t \in tasks' : t.origin = "publish" /\ t.event \in ToSet(published')
    BY <2>1, <2>2, <2>4, <1>b DEF Once
  <2> QED BY <2>1, <2>4, <2>7, <2>8, <2>9, <1>b DEF Once, Distinct
<1>3. ASSUME NEW t \in tasks, HandlerSucceeds(t) PROVE Once'
  <2>1. t.sub \in Subs /\ t.event \in Events /\ handled[t.sub] \in Seq(Events)
    BY <1>a DEF Task
  <2>2. /\ tasks' = tasks \ {t} /\ handled'[t.sub] = Append(handled[t.sub], t.event)
        /\ \A s \in Subs : s # t.sub => handled'[s] = handled[s]
        /\ UNCHANGED <<deadLetters, pass, published>>
    BY <1>3, <1>a, <2>1 DEF HandlerSucceeds
  <2>3. t.event \notin ToSet(handled[t.sub]) /\ t.event \in ToSet(published)
    BY <1>b DEF Once, Met
  <2>4. ToSet(handled'[t.sub]) = ToSet(handled[t.sub]) \union {t.event} /\ Distinct(handled'[t.sub])
    BY <2>1, <2>2, <2>3, <1>b, AppendSet DEF Once
  <2>5. \A u \in tasks' : u.sub \in Subs /\ (u.event # t.event \/ u.sub # t.sub)
    BY <1>a, <1>b, <2>2 DEF Once, Task
  <2>6. \A u \in tasks' : u.event \notin ToSet(handled'[u.sub])
    BY <2>2, <2>4, <2>5, <1>b DEF Once, Met
  <2>7. \A u \in tasks' : ~Met(u)'
    BY <2>2, <2>6, <1>b DEF Once, Met
  <2>8. \A s \in Subs : Distinct(handled'[s]) /\ ToSet(handled'[s]) \subseteq ToSet(published)
    BY <2>2, <2>3, <2>4, <1>b DEF Once
  <2>9. (\A s \in Subs : Distinct(handled[s]) /\ ToSet(handled[s]) \subseteq ToSet(published))'
    BY <2>2, <2>8
  <2> QED BY <2>2, <2>7, <2>9, <1>b DEF Once, Distinct
<1>4. ASSUME NEW t \in tasks, HandlerBacksOff(t) PROVE Once'
  <2> DEFINE u == [t EXCEPT !.attempt = @ + 1]
  <2>1. u.event = t.event /\ u.sub = t.sub /\ u.origin = t.origin
    BY <1>4, <1>a, NextAttempt DEF HandlerBacksOff
  <2>2. tasks' = (tasks \ {t}) \union {u}
    BY <1>4 DEF HandlerBacksOff
  <2> HIDE DEF u
  <2>3. UNCHANGED <<handled, deadLetters, pass, published>>
    BY <1>4 DEF HandlerBacksOff
  <2>4. \A v \in tasks' : ~Met(v)'
    BY <2>1, <2>2, <2>3, <1>b DEF Once, Met
  <2>5. \A v, w \in tasks' : v.event = w.event /\ v.sub = w.sub => v = w
    BY <2>1, <2>2, <1>b DEF Once
  <2>6. \A v \in tasks' : v.origin = "publish" /\ v.event \in ToSet(published)
    BY <2>1, <2>2, <1>b DEF Once
  <2> QED BY <2>3, <2>4, <2>5, <2>6, <1>b DEF Once, Distinct
<1>5. ASSUME NEW t \in tasks, HandlerGivesUp(t) PROVE Once'
  <2> DEFINE d == <<t.event, t.sub>>
             a == Append(deadLetters, d)
  <2>1. d \in Pairs /\ d[1] = t.event
    BY <1>a DEF Task, Pairs
  <2>2. d \notin ToSet(deadLetters) /\ t.event \in ToSet(published)
    BY <1>b DEF Once, Met
  <2>3. ToSet(a) = ToSet(deadLetters) \union {d} /\ Distinct(a) /\ a \in Seq(Pairs)
    <3>1. d \in Pairs /\ d \notin ToSet(deadLetters) /\ Distinct(deadLetters)
      BY <1>b, <2>1, <2>2 DEF Once
    <3> HIDE DEF d
    <3>2. ToSet(Append(deadLetters, d)) = ToSet(deadLetters) \union {d} /\ Distinct(Append(deadLetters, d))
      BY <1>a, <3>1, AppendSet
    <3>3. Append(deadLetters, d) \in Seq(Pairs)
      BY <1>a, <3>1, AppendProperties
    <3> QED BY <3>2, <3>3
  <2>4. deadLetters' = LastN(a, MaxDeadLetters)
    BY <1>5 DEF HandlerGivesUp
  <2> HIDE DEF a
  <2>5. ToSet(deadLetters') \subseteq ToSet(deadLetters) \union {d} /\ Distinct(deadLetters')
    BY <2>3, <2>4, LastNProperties DEF BusAssumption
  <2>6. tasks' = tasks \ {t} /\ UNCHANGED <<handled, pass, published>>
    BY <1>5 DEF HandlerGivesUp
  <2>7. \A u \in tasks' : u.event # t.event \/ u.sub # t.sub
    BY <1>b, <2>6 DEF Once
  <2>8. \A u \in tasks' : <<u.event, u.sub>> \notin ToSet(deadLetters')
    BY <2>5, <2>6, <2>7, <1>b DEF Once, Met
  <2>9. \A u \in tasks' : ~Met(u)'
    BY <2>6, <2>8, <1>b DEF Once, Met
  <2> HIDE DEF d
  <2>10. Distinct(deadLetters)'
    BY <2>5 DEF Distinct
  <2> QED BY <2>1, <2>2, <2>5, <2>6, <2>9, <2>10, <1>b DEF Once, Distinct
<1>6. CASE Destroy
  <2>1. ToSet(<<>>) = {} /\ Distinct(<<>>)
    BY EmptySet
  <2>2. deadLetters' = <<>> /\ UNCHANGED <<tasks, handled, pass, published>>
    BY <1>6 DEF Destroy
  <2> QED BY <2>1, <2>2, <1>b DEF Once, Met, Distinct
<1>7. ASSUME NEW r \in Retriers PROVE ~RetryStart(r) /\ ~RetryContinue(r)
  BY <1>a, <1>b DEF RetryStart, RetryContinue, Once
<1> QED
  BY <1>1, <1>2, <1>3, <1>4, <1>5, <1>6, <1>7
  DEF Next, TaskStep, Subscribe, Unsubscribe, vars

LEMMA OnceAlways == ASSUME BusAssumption PROVE Spec => []OnceInv
<1>1. Init => OnceInv
  <2> SUFFICES ASSUME Init PROVE Once
    BY DEF OnceInv
  <2>1. Distinct(<<>>) /\ ToSet(<<>>) = {}
    BY EmptySet
  <2>2. /\ pass = [r \in Retriers |-> <<>>] /\ tasks = {} /\ deadLetters = <<>>
        /\ published = <<>> /\ handled = [s \in Subs |-> <<>>]
    BY DEF Init
  <2> QED BY <2>1, <2>2 DEF Once
<1> QED BY <1>1, OnceStep, TypesAlways, PTL DEF Spec

(* Without a retry pass no subscription handles an event twice.                  *)
THEOREM OnceTheorem == ASSUME BusAssumption PROVE Spec => []AtMostOnceWithoutRetry
<1>1. OnceInv => AtMostOnceWithoutRetry
  BY DEF OnceInv, Once, Distinct, AtMostOnceWithoutRetry
<1> QED BY <1>1, OnceAlways, PTL

(* The handled events as a set, and the two counters: the first counts that set, *)
(* the second, while nothing was taken from the dead letter queue, its length.   *)
Successes == UNION {{s} \X DOMAIN handled[s] : s \in Subs}
CountInv ==
  /\ IsFiniteSet(Successes) /\ delivered = Cardinality(Successes)
  /\ passes = 0 /\ ~destroyed /\ trimmed = {} => failed = Len(deadLetters)

LEMMA CountStep ==
  ASSUME BusAssumption, Types, OnceInv, CountInv, [Next]_vars
  PROVE  CountInv'
<1> USE DEF counters, ghosts
<1>a. /\ deadLetters \in Seq(Pairs) /\ tasks \subseteq Task /\ handled \in [Subs -> Seq(Events)]
      /\ passes \in Nat
  BY DEF Types, TypeOK, BusAssumption
<1>1. CASE UNCHANGED <<handled, delivered, passes, failed, destroyed, deadLetters, trimmed>>
  BY <1>1 DEF CountInv, Successes
<1>2. ASSUME NEW t \in tasks, HandlerSucceeds(t) PROVE CountInv'
  <2> DEFINE h == handled[t.sub]
             new == <<t.sub, Len(h) + 1>>
  <2>1. t.sub \in Subs /\ t.event \in Events /\ h \in Seq(Events) /\ Len(h) \in Nat /\ DOMAIN h = 1..Len(h)
    BY <1>a, LenProperties DEF Task
  <2>2. DOMAIN Append(h, t.event) = 1..(Len(h) + 1)
    <3>1. Append(h, t.event) \in Seq(Events) /\ Len(Append(h, t.event)) = Len(h) + 1
      BY <2>1, AppendProperties
    <3> QED BY <3>1, LenProperties
  <2>3. handled' = [handled EXCEPT ![t.sub] = Append(h, t.event)]
    BY <1>2 DEF HandlerSucceeds
  <2>4. new \notin Successes
    <3>1. Len(h) + 1 \notin DOMAIN h
      BY <2>1
    <3> QED BY <3>1 DEF Successes
  <2>5. Successes' = Successes \union {new}
    <3>1. DOMAIN handled'[t.sub] = DOMAIN h \union {Len(h) + 1}
      <4>1. handled'[t.sub] = Append(h, t.event)
        BY <1>a, <2>1, <2>3
      <4>2. 1..(Len(h) + 1) = 1..Len(h) \union {Len(h) + 1}
        BY <2>1
      <4> QED BY <2>1, <2>2, <4>1, <4>2
    <3>2. \A s \in Subs : s # t.sub => handled'[s] = handled[s]
      BY <1>a, <2>1, <2>3
    <3> DEFINE n == Len(h) + 1
    <3> HIDE DEF n
    <3>3. ASSUME NEW s \in Subs
          PROVE  {s} \X DOMAIN handled'[s] = ({s} \X DOMAIN handled[s]) \union (IF s = t.sub THEN {<<s, n>>} ELSE {})
      <4>1. CASE s = t.sub
        BY <3>1, <4>1 DEF n
      <4>2. CASE s # t.sub
        BY <3>2, <4>2
      <4> QED BY <4>1, <4>2
    <3> QED BY <2>1, <3>3 DEF Successes, n
  <2> HIDE DEF new, h
  <2>6. IsFiniteSet(Successes') /\ Cardinality(Successes') = Cardinality(Successes) + 1
    BY <2>4, <2>5, FS_AddElement DEF CountInv
  <2>7. delivered' = delivered + 1 /\ UNCHANGED <<failed, deadLetters, passes, destroyed, trimmed>>
    BY <1>2 DEF HandlerSucceeds
  <2> QED BY <2>6, <2>7 DEF CountInv
<1>3. ASSUME NEW t \in tasks, HandlerGivesUp(t) PROVE CountInv'
  <2> DEFINE d == <<t.event, t.sub>>
             a == Append(deadLetters, d)
  <2>1. /\ failed' = failed + 1 /\ deadLetters' = LastN(a, MaxDeadLetters)
        /\ trimmed' = trimmed \union (ToSet(a) \ ToSet(deadLetters'))
        /\ UNCHANGED <<handled, delivered, passes, destroyed>>
    BY <1>3 DEF HandlerGivesUp
  <2>2. IsFiniteSet(Successes)' /\ (delivered = Cardinality(Successes))'
    BY <2>1 DEF CountInv, Successes
  <2>3. ASSUME passes = 0, ~destroyed, trimmed' = {}
        PROVE  failed' = Len(deadLetters')
    <3>1. d \in Pairs /\ d \notin ToSet(deadLetters) /\ Distinct(deadLetters)
      BY <1>a, <2>3 DEF OnceInv, Once, Met, Task, Pairs
    <3> HIDE DEF d
    <3>2. a \in Seq(Pairs) /\ Len(a) = Len(deadLetters) + 1 /\ Distinct(a)
      BY <1>a, <3>1, AppendProperties, AppendSet
    <3> HIDE DEF a
    <3>3. ToSet(a) \subseteq ToSet(deadLetters') /\ trimmed = {}
      BY <2>1, <2>3
    <3>4. deadLetters' = a
      BY <2>1, <3>2, <3>3, LastNProperties DEF BusAssumption
    <3> QED BY <2>1, <2>3, <3>2, <3>3, <3>4 DEF CountInv
  <2> QED BY <2>1, <2>2, <2>3 DEF CountInv
<1>4. ASSUME NEW r \in Retriers, RetryStart(r) PROVE CountInv'
  <2>1. passes' # 0 /\ UNCHANGED <<handled, delivered>>
    BY <1>4, <1>a DEF RetryStart
  <2> QED BY <2>1 DEF CountInv, Successes
<1>5. CASE Destroy
  BY <1>5 DEF Destroy, CountInv, Successes
<1> QED
  BY <1>1, <1>2, <1>3, <1>4, <1>5
  DEF Next, TaskStep, Subscribe, Unsubscribe, Publish, HandlerBacksOff, RetryContinue, vars

(* Every handler success and every exhausted delivery is counted once.           *)
THEOREM CountTheorem == ASSUME BusAssumption PROVE Spec => []CountsMatch
<1>1. Init => CountInv
  <2> SUFFICES ASSUME Init PROVE CountInv
    OBVIOUS
  <2>1. \A s \in Subs : DOMAIN handled[s] = {}
    BY DEF Init
  <2>2. Successes = {}
    BY <2>1 DEF Successes
  <2>3. delivered = 0 /\ failed = 0 /\ Len(deadLetters) = 0
    BY DEF Init
  <2> QED BY <2>2, <2>3, FS_EmptySet DEF CountInv
<1>2. CountInv => CountsMatch
  BY DEF CountInv, CountsMatch, Successes
<1> QED BY <1>1, <1>2, CountStep, OnceAlways, TypesAlways, PTL DEF Spec

-------------------------------------------------------------------------------
(* A delivery under way only goes on: each of its tasks was there before, or is  *)
(* the next attempt of one that was and is no more.                              *)
Follows(t) == t \in tasks \/ \E u \in tasks \ tasks' : t = [u EXCEPT !.attempt = u.attempt + 1]

(* The tasks of a published event, and those of the item a retry pass is at,     *)
(* only go on; a pass leaves its item when they are done, and never goes back.   *)
DeliveriesAdvance ==
  /\ \A t \in tasks' : t.origin = "publish" /\ t.event \in ToSet(published) => Follows(t)
  /\ \A r \in Retriers : pass[r] # <<>> =>
       \/ pass'[r] = pass[r] /\ \A t \in tasks' : t.origin = r => Follows(t)
       \/ pass'[r] = Tail(pass[r]) /\ TasksOf(r) = {}

LEMMA AdvanceStep ==
  ASSUME BusAssumption, Types, Next
  PROVE  DeliveriesAdvance
<1>1. CASE tasks' = tasks /\ pass' = pass
  BY <1>1 DEF DeliveriesAdvance, Follows
<1>2. ASSUME NEW s \in Subs, Subscribe(s) \/ Unsubscribe(s) PROVE DeliveriesAdvance
  BY <1>1, <1>2 DEF Subscribe, Unsubscribe
<1>3. ASSUME NEW e \in Events, Publish(e) PROVE DeliveriesAdvance
  <2>1. \A t \in tasks' : t \in tasks \/ (t.origin = "publish" /\ t.event = e)
    BY <1>3, NewTasks DEF Publish, Types, TypeOK
  <2>2. pass' = pass /\ e \notin ToSet(published)
    BY <1>3 DEF Publish
  <2>3. \A r \in Retriers : r # "publish"
    BY DEF BusAssumption
  <2> QED BY <2>1, <2>2, <2>3 DEF DeliveriesAdvance, Follows
<1>4. ASSUME NEW t \in tasks, TaskStep(t) PROVE DeliveriesAdvance
  <2>1. pass' = pass
    BY <1>4 DEF TaskStep, HandlerSucceeds, HandlerBacksOff, HandlerGivesUp
  <2>2. ASSUME NEW v \in tasks' PROVE Follows(v)
    <3>1. CASE HandlerSucceeds(t) \/ HandlerGivesUp(t)
      BY <2>2, <3>1 DEF HandlerSucceeds, HandlerGivesUp, Follows
    <3>2. CASE HandlerBacksOff(t)
      <4> DEFINE u == [t EXCEPT !.attempt = t.attempt + 1]
      <4>1. t \in Task /\ t.attempt \in Nat
        BY DEF Types, TypeOK, Task
      <4>2. u.attempt = t.attempt + 1 /\ t.attempt + 1 # t.attempt
        BY <4>1 DEF Task
      <4>3. u # t
        BY <4>2
      <4>4. tasks' = (tasks \ {t}) \union {u}
        BY <3>2 DEF HandlerBacksOff
      <4> HIDE DEF u
      <4>5. v \in tasks \/ (v = u /\ t \in tasks \ tasks')
        BY <2>2, <4>3, <4>4
      <4> QED BY <4>5 DEF u, Follows
    <3> QED BY <1>4, <3>1, <3>2 DEF TaskStep
  <2> QED BY <2>1, <2>2 DEF DeliveriesAdvance
<1>5. ASSUME NEW r \in Retriers, RetryStart(r) PROVE DeliveriesAdvance
  <2>1. deadLetters \in Seq(Pairs) /\ deadLetters # <<>>
    BY <1>5 DEF RetryStart, Types, TypeOK
  <2>2. Head(deadLetters)[1] \in Events
    BY <2>1, HeadTailProperties DEF Pairs
  <2>3. \A t \in tasks' : t \in tasks \/ t.origin = r
    BY <1>5, <2>2, NewTasks DEF RetryStart, Types, TypeOK
  <2>4. pass[r] = <<>> /\ \A x \in Retriers : x # r => pass'[x] = pass[x]
    BY <1>5 DEF RetryStart, Types, TypeOK
  <2>5. r # "publish"
    BY DEF BusAssumption
  <2> QED BY <2>3, <2>4, <2>5 DEF DeliveriesAdvance, Follows
<1>6. ASSUME NEW r \in Retriers, RetryContinue(r) PROVE DeliveriesAdvance
  <2>1. /\ pass'[r] = Tail(pass[r]) /\ TasksOf(r) = {}
        /\ \A x \in Retriers : x # r => pass'[x] = pass[x]
    BY <1>6 DEF RetryContinue, Types, TypeOK
  <2>2. \A t \in tasks' : t \in tasks \/ t.origin = r
    <3>1. CASE Len(pass[r]) > 1
      <4>1. pass[r] \in Seq(Pairs)
        BY DEF Types, TypeOK
      <4>2. pass[r][2] \in Pairs
        BY <3>1, <4>1, ElementOfSeq, LenProperties
      <4>3. pass[r][2][1] \in Events
        BY <4>2 DEF Pairs
      <4> QED BY <1>6, <3>1, <4>3, NewTasks DEF RetryContinue, Types, TypeOK
    <3>2. CASE ~(Len(pass[r]) > 1)
      BY <1>6, <3>2 DEF RetryContinue
    <3> QED BY <3>1, <3>2
  <2>3. r # "publish"
    BY DEF BusAssumption
  <2> QED BY <2>1, <2>2, <2>3 DEF DeliveriesAdvance, Follows
<1>7. CASE Destroy
  BY <1>1, <1>7 DEF Destroy
<1> QED BY <1>2, <1>3, <1>4, <1>5, <1>6, <1>7 DEF Next

(* What publish() and a retry pass wait for only gets less: no step adds to it,  *)
(* an attempt is replaced by its next alone, whose number TypeCorrect bounds,    *)
(* and a pass goes through what it took item by item.                            *)
THEOREM AdvanceTheorem == ASSUME BusAssumption PROVE Spec => [][DeliveriesAdvance]_vars
<1>1. Types /\ [Next]_vars => [DeliveriesAdvance]_vars
  BY AdvanceStep
<1> QED BY <1>1, TypesAlways, PTL DEF Spec

-------------------------------------------------------------------------------
(* A subscription that was removed is not in the map any more.                   *)
Removed == active \intersect gone = {}

(* What a step may do to subscriptions, tasks and dead letters: a task of a      *)
(* subscription that is gone is the next attempt of one that ends, and a new dead *)
(* letter belongs to a task that ends.                                           *)
RunsDown ==
  /\ \A t \in tasks' \ tasks : t.sub \in gone =>
       \E u \in tasks \ tasks' : t = [u EXCEPT !.attempt = u.attempt + 1]
  /\ \A p \in ToSet(deadLetters') \ ToSet(deadLetters) :
       \E u \in tasks \ tasks' : p = <<u.event, u.sub>>

LEMMA RunDownStep ==
  ASSUME BusAssumption, Types, Removed, Next
  PROVE  Removed' /\ RunsDown
<1>0. ASSUME NEW o \in Retriers \union {"publish"}, NEW e \in Events, NEW t \in TasksFor(o, e)
      PROVE  t.sub \in active
  BY <1>0, NewTasks DEF Types, TypeOK, Matching
<1>1. ASSUME UNCHANGED deadLetters, UNCHANGED <<active, gone>>,
             \A t \in tasks' : t \in tasks \/ t.sub \in active
      PROVE  Removed' /\ RunsDown
  BY <1>1 DEF Removed, RunsDown
<1>2. ASSUME NEW s \in Subs, Subscribe(s) \/ Unsubscribe(s) PROVE Removed' /\ RunsDown
  BY <1>2 DEF Subscribe, Unsubscribe, Removed, RunsDown
<1>3. ASSUME NEW e \in Events, Publish(e) PROVE Removed' /\ RunsDown
  <2>1. \A t \in tasks' : t \in tasks \/ t.sub \in active
    BY <1>0, <1>3 DEF Publish
  <2> QED BY <1>1, <1>3, <2>1 DEF Publish
<1>4. ASSUME NEW t \in tasks, TaskStep(t) PROVE Removed' /\ RunsDown
  <2>1. Removed'
    BY <1>4 DEF TaskStep, HandlerSucceeds, HandlerBacksOff, HandlerGivesUp, Removed
  <2>2. CASE HandlerSucceeds(t)
    BY <2>1, <2>2 DEF HandlerSucceeds, RunsDown
  <2>3. CASE HandlerBacksOff(t)
    <3> DEFINE u == [t EXCEPT !.attempt = t.attempt + 1]
    <3>1. t \in Task /\ t.attempt \in Nat
      BY DEF Types, TypeOK, Task
    <3>2. u.attempt = t.attempt + 1 /\ t.attempt + 1 # t.attempt
      BY <3>1 DEF Task
    <3>3. u # t
      BY <3>2
    <3>4. tasks' = (tasks \ {t}) \union {u} /\ deadLetters' = deadLetters
      BY <2>3 DEF HandlerBacksOff
    <3> HIDE DEF u
    <3>5. \A v \in tasks' \ tasks : v = u /\ t \in tasks \ tasks'
      BY <3>3, <3>4
    <3> QED BY <2>1, <3>4, <3>5 DEF u, RunsDown
  <2>4. CASE HandlerGivesUp(t)
    <3> DEFINE p == <<t.event, t.sub>>
    <3>1. p \in Pairs /\ deadLetters \in Seq(Pairs)
      BY DEF Types, TypeOK, Task, Pairs
    <3>2. deadLetters' = LastN(Append(deadLetters, p), MaxDeadLetters) /\ tasks' = tasks \ {t}
      BY <2>4 DEF HandlerGivesUp
    <3> HIDE DEF p
    <3>3. /\ Append(deadLetters, p) \in Seq(Pairs)
          /\ ToSet(Append(deadLetters, p)) = ToSet(deadLetters) \union {p}
      BY <3>1, AppendSet, AppendProperties
    <3>4. ToSet(deadLetters') \subseteq ToSet(deadLetters) \union {p}
      BY <3>2, <3>3, LastNProperties DEF BusAssumption
    <3> QED BY <2>1, <3>2, <3>4 DEF p, RunsDown
  <2> QED BY <1>4, <2>2, <2>3, <2>4 DEF TaskStep
<1>5. ASSUME NEW r \in Retriers, RetryStart(r) PROVE Removed' /\ RunsDown
  <2>1. deadLetters \in Seq(Pairs) /\ deadLetters # <<>>
    BY <1>5 DEF RetryStart, Types, TypeOK
  <2>2. Head(deadLetters)[1] \in Events
    BY <2>1, HeadTailProperties DEF Pairs
  <2>3. \A t \in tasks' : t \in tasks \/ t.sub \in active
    BY <1>0, <1>5, <2>2 DEF RetryStart
  <2>4. ToSet(deadLetters') = {} /\ UNCHANGED <<active, gone>>
    BY <1>5, EmptySet DEF RetryStart
  <2> QED BY <2>3, <2>4 DEF Removed, RunsDown
<1>6. ASSUME NEW r \in Retriers, RetryContinue(r) PROVE Removed' /\ RunsDown
  <2>1. \A t \in tasks' : t \in tasks \/ t.sub \in active
    <3>1. CASE Len(pass[r]) > 1
      <4>1. pass[r] \in Seq(Pairs)
        BY DEF Types, TypeOK
      <4>2. pass[r][2] \in Pairs
        BY <3>1, <4>1, ElementOfSeq, LenProperties
      <4>3. pass[r][2][1] \in Events
        BY <4>2 DEF Pairs
      <4> QED BY <1>0, <1>6, <3>1, <4>3 DEF RetryContinue
    <3>2. CASE ~(Len(pass[r]) > 1)
      BY <1>6, <3>2 DEF RetryContinue
    <3> QED BY <3>1, <3>2
  <2> QED BY <1>1, <1>6, <2>1 DEF RetryContinue
<1>7. CASE Destroy
  <2>1. ToSet(deadLetters') = {} /\ active' = {} /\ tasks' = tasks
    BY <1>7, EmptySet DEF Destroy
  <2> QED BY <2>1 DEF Removed, RunsDown
<1> QED BY <1>2, <1>3, <1>4, <1>5, <1>6, <1>7 DEF Next

(* A subscription that was removed, alone or by destroy(), only runs down: no     *)
(* delivery to it is begun, and a dead letter comes from one that was under way.  *)
THEOREM RunDownTheorem == ASSUME BusAssumption PROVE Spec => GoneRunsDown
<1>1. Init => Removed
  BY DEF Init, Removed
<1>2. Types /\ Removed /\ [Next]_vars => Removed' /\ [RunsDown]_vars
  BY RunDownStep DEF Removed, vars
<1> QED BY <1>1, <1>2, TypesAlways, PTL DEF Spec, GoneRunsDown, RunsDown
===============================================================================
