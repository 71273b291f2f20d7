------------------------------ MODULE Delivery ------------------------------
(***************************************************************************)
(* What the event queue promises, event by event, without files, agents or *)
(* locks: an event is pending once enqueue() has accepted it, and leaves   *)
(* that status only as sent, which takes an acknowledgement by the Events  *)
(* API, or put aside, from where it may be retried.  What was sent or put  *)
(* aside may expire; what is pending never does.                           *)
(*                                                                         *)
(* One thing the queue cannot promise: when an event is accepted under a   *)
(* name that was used before, what becomes of the events of that name is   *)
(* unclear.                                                                *)
(***************************************************************************)
CONSTANTS Events, Backlog

VARIABLES
  status,         \* status[e]: what has become of event e
  acknowledged    \* the events that the Events API acknowledged

deliveryVars == <<status, acknowledged>>

Statuses == {"new", "pending", "aside", "sent", "gone", "unclear"}

DeliveryInit ==
  /\ status = [e \in Events |-> IF e \in DOMAIN Backlog THEN "pending" ELSE "new"]
  /\ acknowledged = {}

Becomes(e, from, to) ==
  /\ status[e] = from
  /\ status' = [status EXCEPT ![e] = to]

Accept(e) == Becomes(e, "new", "pending") /\ UNCHANGED acknowledged

Confuse(e, others) ==
  /\ status[e] = "new"
  /\ others # {}
  /\ \A x \in others : status[x] # "new"
  /\ status' = [x \in Events |-> IF x \in others \cup {e} THEN "unclear" ELSE status[x]]
  /\ UNCHANGED acknowledged

Acknowledge(e) ==
  /\ status[e] # "new"
  /\ acknowledged' = acknowledged \cup {e}
  /\ UNCHANGED status

Send(e) ==
  /\ e \in acknowledged
  /\ Becomes(e, "pending", "sent")
  /\ UNCHANGED acknowledged

PutAside(e) == Becomes(e, "pending", "aside") /\ UNCHANGED acknowledged
Retry(e) == Becomes(e, "aside", "pending") /\ UNCHANGED acknowledged

Expire(e) ==
  /\ Becomes(e, "aside", "gone") \/ Becomes(e, "sent", "gone")
  /\ UNCHANGED acknowledged

DeliveryNext ==
  \E e \in Events :
    \/ Accept(e) \/ Acknowledge(e) \/ Send(e) \/ PutAside(e) \/ Retry(e) \/ Expire(e)
    \/ \E others \in SUBSET Events : Confuse(e, others)

DeliverySpec == DeliveryInit /\ [][DeliveryNext]_deliveryVars
=============================================================================
