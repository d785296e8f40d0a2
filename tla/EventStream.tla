----------------------------- MODULE EventStream -----------------------------
(***************************************************************************)
(* The event stream of packages/kernel/src/os/webhook-system.ts: a bounded *)
(* buffer of numbered events kept for replay(), a status, and the handlers *)
(* subscribed to event types, which publish() calls.  The stream is an     *)
(* object without a thread of its own: its operations are the parts of     *)
(* actions that a module which owns a stream puts together (see            *)
(* WebhookDelivery).                                                       *)
(***************************************************************************)
EXTENDS Naturals, Sequences

CONSTANTS MaxBufferSize,          \* options.maxBufferSize
          BackpressureThreshold,  \* options.backpressureThreshold
          TypeOf,                 \* the type of an event
          Wildcard                \* the type "*"

VARIABLES status,           \* this.status
          buffer,           \* this.buffer, as sequence numbers
          sequenceCounter,  \* this.sequenceCounter
          subscribers,      \* this.subscribers: pairs of a type and a handler
          toCall            \* what publish() still has to call: event and handler

vars == <<status, buffer, sequenceCounter, subscribers, toCall>>

StreamStatus == {"active", "paused", "backpressure", "closed"}

Init ==
  /\ status = "active" /\ buffer = <<>> /\ sequenceCounter = 0
  /\ subscribers = {} /\ toCall = {}

(* push(), and shift() when the buffer has grown over the limit; the mutant  *)
(* lets the buffer grow one too long.                                        *)
StoreUnbounded(b, e) == IF Len(b) > MaxBufferSize THEN Append(Tail(b), e) ELSE Append(b, e)
Store(b, e) == IF Len(b) + 1 > MaxBufferSize THEN Append(Tail(b), e) ELSE Append(b, e)

(* The handlers of the event's type and of the wildcard: each of them is     *)
(* called, a handler that subscribed to both only once.                      *)
Handlers(e) == {s[2] : s \in {t \in subscribers : t[1] \in {TypeOf[e], Wildcard}}}

(* publish() up to the handlers; it throws when the stream is closed.  A     *)
(* listener of the backpressure signal that throws ends it before the        *)
(* handlers are called.                                                      *)
Publish(e) ==
  /\ status # "closed"
  /\ e = sequenceCounter + 1
  /\ sequenceCounter' = e
  /\ buffer' = Store(buffer, e)
  /\ status' = IF Len(buffer') >= BackpressureThreshold THEN "backpressure" ELSE status
  /\ \/ toCall' = {e} \X Handlers(e)
     \/ toCall' = {} /\ status' # status
  /\ UNCHANGED subscribers

(* publish() calls one handler; what that does is the owner's business.      *)
Call(d) ==
  /\ d \in toCall
  /\ toCall' = toCall \ {d}
  /\ UNCHANGED <<status, buffer, sequenceCounter, subscribers>>

(* subscribe(), with the handlers of the pairs *)
Subscribe(pairs) ==
  /\ subscribers' = subscribers \union pairs
  /\ UNCHANGED <<status, buffer, sequenceCounter, toCall>>

Pause == status' = "paused" /\ UNCHANGED <<buffer, sequenceCounter, subscribers, toCall>>

(* resume(): active, whatever the status and the buffer *)
Resume == status' = "active" /\ UNCHANGED <<buffer, sequenceCounter, subscribers, toCall>>

(* Mutant: close() keeps the subscribers. *)
CloseKeepsSubscribers ==
  status' = "closed" /\ UNCHANGED <<buffer, sequenceCounter, subscribers, toCall>>

Close ==
  /\ status' = "closed" /\ subscribers' = {}
  /\ UNCHANGED <<buffer, sequenceCounter, toCall>>

TypeOK ==
  /\ status \in StreamStatus
  /\ buffer \in Seq(1..sequenceCounter) /\ Len(buffer) <= MaxBufferSize
  /\ sequenceCounter \in Nat
  /\ status = "backpressure" => Len(buffer) >= BackpressureThreshold
  /\ \A d \in toCall : d[1] = sequenceCounter
==============================================================================
