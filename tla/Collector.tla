------------------------------ MODULE Collector ------------------------------
(***************************************************************************)
(* Proton's event collector, external: the queue of events between the     *)
(* protocol engine and the handlers of the clients.                        *)
(***************************************************************************)
EXTENDS Integers, Sequences

\* An event is its type and its context: 0 for the connection or the only
\* link, otherwise the number of the delivery.
Event(type, dlv) == [type |-> type, dlv |-> dlv]

ConnectionInitEvent == Event("PN_CONNECTION_INIT", 0)
LinkFlowEvent       == Event("PN_LINK_FLOW", 0)
DeliveryEvent(d)    == Event("PN_DELIVERY", d)

\* pn_collector_put: an event equal to the newest queued one is not repeated.
Put(queue, event) ==
  IF queue # <<>> /\ queue[Len(queue)] = event THEN queue ELSE Append(queue, event)

\* The event waits in the queue; it waits at most once.
Queued(event, queue) == \E i \in 1..Len(queue) : queue[i] = event
Once(event, queue)   == \A i, j \in 1..Len(queue) : queue[i] = event /\ queue[j] = event => i = j
=============================================================================
