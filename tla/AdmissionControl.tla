--------------------------- MODULE AdmissionControl ---------------------------
(***************************************************************************)
(* What an admission controller in front of a shared resource promises,    *)
(* without its queue, its timers or its counters: at most Slots executions *)
(* at once, at most Places calls waiting, one answer per call, and no call *)
(* waiting while a slot is free.  Bulkhead (packages/kernel/src/resilience *)
(* /bulkhead.ts) implements it as long as nobody resets it.                *)
(***************************************************************************)
EXTENDS Naturals, FiniteSets

CONSTANTS Calls,   \* the calls that will ever be made
          Slots,   \* executions allowed at the same time
          Places   \* calls allowed to wait

VARIABLES running, waiting, answered   \* pairwise disjoint subsets of Calls

avars == <<running, waiting, answered>>

AInit == running = {} /\ waiting = {} /\ answered = {}

Fresh == Calls \ (running \union waiting \union answered)

(* A call that finds a free slot takes it. *)
Admit(c) ==
  /\ c \in Fresh
  /\ Cardinality(running) < Slots
  /\ running' = running \union {c}
  /\ UNCHANGED <<waiting, answered>>

(* A call that finds every slot taken waits, if a place is left. *)
Wait(c) ==
  /\ c \in Fresh
  /\ Cardinality(running) = Slots
  /\ Cardinality(waiting) < Places
  /\ waiting' = waiting \union {c}
  /\ UNCHANGED <<running, answered>>

(* A call that finds slots and places taken is refused. *)
Refuse(c) ==
  /\ c \in Fresh
  /\ Cardinality(running) = Slots
  /\ Cardinality(waiting) = Places
  /\ answered' = answered \union {c}
  /\ UNCHANGED <<running, waiting>>

(* A waiting call gives up. *)
GiveUp(c) ==
  /\ c \in waiting
  /\ waiting' = waiting \ {c}
  /\ answered' = answered \union {c}
  /\ UNCHANGED running

(* An execution ends while nobody waits. *)
Release(c) ==
  /\ c \in running
  /\ waiting = {}
  /\ running' = running \ {c}
  /\ answered' = answered \union {c}
  /\ UNCHANGED waiting

(* An execution ends and hands its slot to a waiting call in the same step. *)
HandOver(c, d) ==
  /\ c \in running
  /\ d \in waiting
  /\ running' = (running \ {c}) \union {d}
  /\ waiting' = waiting \ {d}
  /\ answered' = answered \union {c}

ANext ==
  \/ \E c \in Calls : Admit(c) \/ Wait(c) \/ Refuse(c) \/ GiveUp(c) \/ Release(c)
  \/ \E c, d \in Calls : HandOver(c, d)

ASpec == AInit /\ [][ANext]_avars
===============================================================================
