--------------------------- MODULE StreamDelivery ---------------------------
(***************************************************************************)
(* What the consumers of bus/transport.py promise for the events of one    *)
(* stream: an event leaves the pending list of the group only when its     *)
(* handler has returned, or a copy is in the dead-letter queue, or the bot *)
(* produced it and its consumer skips those.                               *)
(***************************************************************************)
CONSTANTS Message, Own

VARIABLES
  handled,  \* a handler returned for the event
  dead,     \* a copy is in the dead-letter queue
  settled   \* acknowledged: the group never delivers it again

svars == <<handled, dead, settled>>

DeliveryInit == handled = {} /\ dead = {} /\ settled = {}

Handle(m) ==
  /\ m \notin Own \union settled
  /\ handled' = handled \union {m}
  /\ UNCHANGED <<dead, settled>>

Bury(m) ==
  /\ m \notin Own \union settled
  /\ dead' = dead \union {m}
  /\ UNCHANGED <<handled, settled>>

Settle(m) ==
  /\ m \in handled \union dead \union Own
  /\ settled' = settled \union {m}
  /\ UNCHANGED <<handled, dead>>

DeliveryNext == \E m \in Message : Handle(m) \/ Bury(m) \/ Settle(m)

DeliverySpec == DeliveryInit /\ [][DeliveryNext]_svars
=============================================================================
