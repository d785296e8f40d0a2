-------------------------- MODULE MCWebhookDelivery --------------------------
(* Instances of WebhookDelivery for TLC: an order event and a user event; a    *)
(* webhook for one type and everything, or twice for the same type; and two    *)
(* filters: one lets everything through, one stops the second event.           *)
(* Listeners throw only at deliveries of the first event.                      *)
EXTENDS WebhookDelivery, TLC

CONSTANTS order, user, any
Typing == [e \in Events |-> IF e = MaxPublished THEN user ELSE order]
Lists == {<<order, any>>, <<order, order>>}
AllOrNotTwo == {Events, Events \ {2}}
OfTheOrder == {d \in Deliveries : d[1] = 1}
===============================================================================
