------------------------------ MODULE Punisher ------------------------------
(***************************************************************************)
(* clients/scale/src/punisher.c: like ScaleSender, but without end if -c   *)
(* is 0, with all messages presettled if -p is given, and with a main loop *)
(* that closes the connection once everything presettled is sent.  `count' *)
(* is data->sent, `limit' is data->count.                                  *)
(***************************************************************************)
EXTENDS SendingLink

VARIABLE acked  \* outcomes received

vars == <<loopVars, linkVars, acked>>

Init == LoopInit /\ LinkInit /\ acked = 0

\* case PN_CONNECTION_INIT: the endpoints are opened.
ConnectionInit ==
  /\ Dispatch("PN_CONNECTION_INIT")
  /\ conn' = "open"
  /\ UNCHANGED <<turn, link, stop, armed, linkVars, acked>>

\* Slip: one message per event.
Batch_single == IF credit > 0 /\ WantsToSend THEN 1 ELSE 0

\* Iterations of the send loop: until the credit or the messages run out.
Batch == IF limit = 0 \/ credit <= limit - count THEN credit ELSE limit - count

\* case PN_LINK_FLOW.
FlowEvent ==
  /\ Dispatch("PN_LINK_FLOW")
  /\ Transmit(Batch, settled)
  /\ UNCHANGED <<turn, conn, link, stop, armed, acked>>
  /\ UNCHANGED <<limit, presettle, informs, granted, written, remote>>

\* A delivery the peer settled without a state: pn_delivery_remote_state() is
\* 0 and the event is ignored.
Ignored(d) == remote[d] = "stateless" /\ UNCHANGED <<acked, settled, conn>>

\* The branches on the remote state; pn_delivery_updated() stays true.
Received(d) == remote[d] = "received" /\ UNCHANGED <<acked, settled>>

Outcome(d) ==
  /\ remote[d] \in Outcomes
  /\ acked' = acked + 1
  /\ settled' = settled \union {d}

\* case default, "Unknown delivery failure": counted and left unsettled.
Unknown(d) ==
  /\ remote[d] = "unknown"
  /\ acked' = acked + 1
  /\ UNCHANGED settled

\* Slip: the number of messages to send is not looked at.
Complete_nothing_outstanding == acked' = count

Complete == limit = count /\ acked' = count

\* case PN_DELIVERY: the endpoints are closed with the last outcome.
Delivery ==
  /\ Dispatch("PN_DELIVERY")
  /\ LET d == Head(collector).dlv IN
       \/ Ignored(d)
       \/ /\ Received(d) \/ Outcome(d) \/ Unknown(d)
          /\ conn' = IF Complete /\ conn = "open" THEN "closing" ELSE conn
  /\ UNCHANGED <<turn, link, stop, armed>>
  /\ UNCHANGED <<limit, presettle, informs, count, credit, granted, written, remote>>

\* Slip: the loop has no body.
Main_empty ==
  (Quiesce \/ MainLoop) /\ UNCHANGED <<linkVars, acked>>

\* pn_reactor_process(), and the body of the loop around it: "sent everything
\* pre-settled and no disposition updates expected, so close".
Main ==
  /\ \/ Quiesce
     \/ /\ turn = "io"
        /\ turn' = "drain"
        /\ conn' = IF presettle /\ count = limit /\ conn = "open" THEN "closing" ELSE conn
        /\ UNCHANGED <<link, collector, stop, armed>>
  /\ UNCHANGED <<linkVars, acked>>

\* External: the transport and the peer.
Write                     == LinkWrite /\ UNCHANGED acked
PeerFlow(n)               == LinkFlow(n) /\ UNCHANGED acked
PeerDisposition(d, state) == LinkDisposition(d, state) /\ UNCHANGED acked
PeerLeaves                == (PeerCloses \/ PeerDetaches) /\ UNCHANGED <<linkVars, acked>>

Client == ConnectionInit \/ FlowEvent \/ Delivery \/ Main

PeerGrants  == \E n \in 1..MaxGranted : PeerFlow(n)
PeerSettles == \E d \in Deliveries : \E state \in Outcomes : PeerDisposition(d, state)
PeerAnswers == conn = "closing" /\ PeerCloses /\ UNCHANGED <<linkVars, acked>>
PeerInforms == PeerFlow(0) \/ \E d \in Deliveries : PeerDisposition(d, "received")
PeerForgets == \E d \in Deliveries : \E state \in {"stateless", "unknown"} : PeerDisposition(d, state)

Exited == turn = "exit" /\ UNCHANGED vars

Next == Client \/ Write \/ PeerGrants \/ PeerSettles \/ PeerInforms \/ PeerForgets \/ PeerLeaves \/ Exited

-----------------------------------------------------------------------------
\* The deliveries done with: settled, or left after an unknown state.
Answered ==
  settled \union {d \in Deliveries : remote[d] = "unknown" /\ ~Queued(DeliveryEvent(d), collector)}

\* The client closes of its own accord only when every message is sent and,
\* unless presettled, has its outcome.  (Of a peer that sends one disposition
\* per delivery.)
ClosesAfterAll ==
  conn = "closing" /\ ~informs => count = limit /\ Answered = 1..limit

\* Every message sent and every outcome that is due known.
Declared ==
  /\ limit > 0
  /\ IF presettle THEN count = limit
     ELSE IF informs THEN Answered = 1..limit ELSE acked = limit
=============================================================================
