----------------------------- MODULE ScaleSender -----------------------------
(***************************************************************************)
(* clients/scale/src/sender.c: send `limit' messages as fast as the peer   *)
(* grants credit.  With -p every message but the last is sent presettled,  *)
(* and the outcome of the last one ends the program; otherwise all         *)
(* outcomes do.  `limit - count' is data->count.  There is no signal       *)
(* handler and the body of the main loop is empty.                         *)
(***************************************************************************)
EXTENDS SendingLink

VARIABLE acked  \* outcomes still to come before the endpoints are closed

vars == <<loopVars, linkVars, acked>>

\* main(): -c is at least 1.
Init ==
  /\ LoopInit /\ LinkInit
  /\ limit > 0
  /\ acked = IF presettle THEN 1 ELSE limit

\* case PN_CONNECTION_INIT: the endpoints are opened.
ConnectionInit ==
  /\ Dispatch("PN_CONNECTION_INIT")
  /\ conn' = "open"
  /\ UNCHANGED <<turn, link, stop, armed, linkVars, acked>>

\* Of the next n messages, those sent presettled.
Presettled(n) == IF presettle THEN (count + 1 .. count + n) \ {limit} ELSE {}

\* Iterations of the send loop: until the credit or the messages run out.
Batch == IF credit <= limit - count THEN credit ELSE limit - count

\* case PN_LINK_FLOW.
FlowEvent ==
  /\ Dispatch("PN_LINK_FLOW")
  /\ count' = count + Batch
  /\ credit' = credit - Batch
  /\ settled' = settled \union Presettled(Batch)
  /\ UNCHANGED <<turn, conn, link, stop, armed, acked>>
  /\ UNCHANGED <<limit, presettle, informs, granted, written, remote>>

\* A delivery the peer settled without a state: pn_delivery_remote_state() is
\* 0 and the event is ignored.
Ignored(d) == remote[d] = "stateless" /\ UNCHANGED <<acked, settled, conn>>

\* The branches on the remote state; pn_delivery_updated() stays true.  A state
\* without a branch of its own is counted and settled like an outcome.
Received(d) == remote[d] = "received" /\ UNCHANGED <<acked, settled>>

\* Slip: only PN_ACCEPTED is counted.
Outcome_accepted_only(d) ==
  /\ remote[d] \in Outcomes
  /\ acked' = IF remote[d] = "accepted" THEN acked - 1 ELSE acked
  /\ settled' = settled \union {d}

Outcome(d) ==
  /\ remote[d] \in Outcomes
  /\ acked' = acked - 1
  /\ settled' = settled \union {d}

\* case PN_DELIVERY: with no outcome left to come the endpoints are closed.
Delivery ==
  /\ Dispatch("PN_DELIVERY")
  /\ LET d == Head(collector).dlv IN
       \/ Ignored(d)
       \/ /\ Received(d) \/ Outcome(d)
          /\ conn' = IF acked' = 0 /\ conn = "open" THEN "closing" ELSE conn
  /\ UNCHANGED <<turn, link, stop, armed>>
  /\ UNCHANGED <<limit, presettle, informs, count, credit, granted, written, remote>>

\* pn_reactor_process() and the empty loop around it.
Main == (Quiesce \/ MainLoop) /\ UNCHANGED <<linkVars, acked>>

\* External: the transport and the peer.
Write                     == LinkWrite /\ UNCHANGED acked
PeerFlow(n)               == LinkFlow(n) /\ UNCHANGED acked
PeerDisposition(d, state) == LinkDisposition(d, state) /\ UNCHANGED acked
PeerLeaves                == (PeerCloses \/ PeerDetaches) /\ UNCHANGED <<linkVars, acked>>

Client == ConnectionInit \/ FlowEvent \/ Delivery \/ Main

PeerGrants  == \E n \in 1..MaxGranted : PeerFlow(n)
PeerSettles == \E d \in Deliveries : \E state \in Outcomes : PeerDisposition(d, state)
PeerAnswers == conn = "closing" /\ PeerCloses /\ UNCHANGED <<linkVars, acked>>
PeerInforms == PeerFlow(0) \/ \E d \in Deliveries : PeerDisposition(d, "received")
PeerForgets == \E d \in Deliveries : PeerDisposition(d, "stateless")

Exited == turn = "exit" /\ UNCHANGED vars

Next == Client \/ Write \/ PeerGrants \/ PeerSettles \/ PeerInforms \/ PeerForgets \/ PeerLeaves \/ Exited

-----------------------------------------------------------------------------
\* The client closes only when every message is sent and the outcomes it
\* waits for are in: all, or the last one if the others were presettled.
\* (Of a peer that sends one disposition per delivery.)
ClosesAfterAll ==
  acked <= 0 /\ ~informs => count = limit /\ settled = 1..limit

\* Every message sent and every outcome that is due known.
Declared ==
  IF presettle THEN count = limit
  ELSE IF informs THEN settled = 1..limit ELSE acked = 0
=============================================================================
