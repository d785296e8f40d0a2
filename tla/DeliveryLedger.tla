---------------------------- MODULE DeliveryLedger ----------------------------
(***************************************************************************)
(* What reliable delivery promises of everything it takes on, without the  *)
(* webhook, its circuit, its status or the stream: a delivery is in one    *)
(* place at a time, is attempted again while its attempts are below the    *)
(* limit of the day and is a dead letter when they are not, and leaves the *)
(* dead letters only by a new first attempt, a purge, or a retry that is   *)
(* dropped.  WebhookDelivery implements it.                                *)
(***************************************************************************)
EXTENDS Naturals

CONSTANTS Deliveries,  \* the deliveries that may ever be taken on
          Limits       \* the limits there may be

VARIABLES limit,      \* attempts in a row before a delivery is a dead letter
          waiting,    \* the deliveries that wait for an attempt, with its number
          dead,       \* the dead letters
          delivered, purged, dropped   \* where deliveries end

lvars == <<limit, waiting, dead, delivered, purged, dropped>>

LInit ==
  /\ limit = 0 /\ waiting = {} /\ dead = {}
  /\ delivered = {} /\ purged = {} /\ dropped = {}

Awaited == {w[1] : w \in waiting}
Known == Awaited \union dead \union delivered \union purged \union dropped

(* The outcomes of attempt n at delivery d; rest and others are what else    *)
(* waits and what else is dead.                                              *)
Outcome(d, n, rest, others) ==
  \/ /\ delivered' = delivered \union {d}
     /\ waiting' = rest /\ dead' = others
  \/ /\ n < limit
     /\ waiting' = rest \union {<<d, n + 1>>}
     /\ dead' = others
     /\ UNCHANGED delivered
  \/ /\ n >= limit
     /\ dead' = others \union {d}
     /\ waiting' = rest
     /\ UNCHANGED delivered

(* A new delivery gets its first attempt at once. *)
Take(d) ==
  /\ d \notin Known
  /\ Outcome(d, 1, waiting, dead)
  /\ UNCHANGED <<limit, purged, dropped>>

Retry(w) ==
  /\ w \in waiting
  /\ Outcome(w[1], w[2], waiting \ {w}, dead)
  /\ UNCHANGED <<limit, purged, dropped>>

Redeliver(d) ==
  /\ d \in dead
  /\ Outcome(d, 1, waiting, dead \ {d})
  /\ UNCHANGED <<limit, purged, dropped>>

(* A dead letter is taken up and given up in one step. *)
Drop(d) ==
  /\ d \in dead
  /\ dead' = dead \ {d}
  /\ dropped' = dropped \union {d}
  /\ UNCHANGED <<limit, waiting, delivered, purged>>

Purge ==
  /\ purged' = purged \union dead
  /\ dead' = {}
  /\ UNCHANGED <<limit, waiting, delivered, dropped>>

(* A new limit holds for the attempts to come, those of waiting deliveries   *)
(* included.                                                                 *)
SetLimit(n) ==
  /\ limit' = n
  /\ UNCHANGED <<waiting, dead, delivered, purged, dropped>>

LNext ==
  \/ \E d \in Deliveries : Take(d) \/ Redeliver(d) \/ Drop(d)
  \/ \E w \in waiting : Retry(w)
  \/ \E n \in Limits : SetLimit(n)
  \/ Purge

LSpec == LInit /\ [][LNext]_lvars

-------------------------------------------------------------------------------
(* A delivery is in one place only, and waits for one attempt at a time.      *)
OnePlace ==
  /\ Awaited \intersect (dead \union delivered \union purged \union dropped) = {}
  /\ dead \intersect (delivered \union purged \union dropped) = {}
  /\ delivered \intersect (purged \union dropped) = {}
  /\ purged \intersect dropped = {}
  /\ \A v, w \in waiting : v[1] = w[1] => v = w
===============================================================================
