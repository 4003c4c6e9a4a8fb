--------------------------- MODULE LatencySender ---------------------------
(***************************************************************************)
(* benchmarks/clients/src/latency-sender.c: send one message, wait for its *)
(* outcome, record the time between the two, send the next.                *)
(*                                                                         *)
(* The one global send_ts holds the time the newest message was sent.  The *)
(* model keeps the number of that message instead, so that a latency       *)
(* sample is a pair: the delivery whose ack ends the measurement and the   *)
(* message whose send time begins it.                                      *)
(***************************************************************************)
EXTENDS SendingLink

VARIABLES
  pending_ack,
  acked, accepted, not_accepted,
  send_ts,   \* the message whose send time the variable holds
  samples    \* <<delivery, send_ts>> of every latency recorded

ackVars  == <<acked, accepted, not_accepted, samples>>
sendVars == <<pending_ack, send_ts>>
vars == <<loopVars, linkVars, ackVars, sendVars>>

Unaffected == UNCHANGED <<linkVars, ackVars, sendVars>>

-----------------------------------------------------------------------------
Init ==
  /\ LoopInit
  /\ LinkInit
  /\ presettle = FALSE
  /\ pending_ack = FALSE
  /\ acked = 0 /\ accepted = 0 /\ not_accepted = 0
  /\ send_ts = 0
  /\ samples = {}

\* case PN_CONNECTION_INIT: the endpoints are opened.
ConnectionInit ==
  /\ Dispatch("PN_CONNECTION_INIT")
  /\ conn' = "open"
  /\ UNCHANGED <<turn, link, stop, armed>>
  /\ Unaffected

MaySend(pending) == credit > 0 /\ ~pending /\ WantsToSend

\* Slip: the clock is read for the first message only.
SendOne_first_time(pending, base) ==
  /\ MaySend(pending)
  /\ Transmit(1, base)
  /\ send_ts' = IF send_ts = 0 THEN count' ELSE send_ts
  /\ pending_ack' = TRUE

\* send_msg() sends one message.
SendOne(pending, base) ==
  /\ MaySend(pending)
  /\ Transmit(1, base)
  /\ send_ts' = count'
  /\ pending_ack' = TRUE

\* send_msg() finds no credit or nothing to do.
SendNone(pending, base) ==
  /\ ~MaySend(pending)
  /\ pending_ack' = pending
  /\ settled' = base
  /\ UNCHANGED <<count, credit, send_ts>>

send_msg(pending, base) == SendOne(pending, base) \/ SendNone(pending, base)

\* case PN_LINK_FLOW.
FlowEvent ==
  /\ Dispatch("PN_LINK_FLOW")
  /\ \/ ~stop /\ send_msg(pending_ack, settled)
     \/ stop /\ UNCHANGED <<count, credit, settled, sendVars>>
  /\ UNCHANGED <<turn, conn, link, stop, armed, ackVars>>
  /\ UNCHANGED <<limit, presettle, informs, granted, written, remote>>

\* case PN_DELIVERY, informational state: nothing.
Received(d) ==
  /\ remote[d] = "received"
  /\ UNCHANGED <<stop, ackVars, sendVars, count, credit, settled>>

\* The counters, the latency sample, and the test for the end.
Record(d) ==
  /\ acked' = acked + 1
  /\ accepted' = accepted + (IF remote[d] = "accepted" THEN 1 ELSE 0)
  /\ not_accepted' = not_accepted + (IF remote[d] = "accepted" THEN 0 ELSE 1)
  /\ samples' = samples \union {<<d, send_ts>>}
  /\ stop' = (stop \/ (~WantsToSend /\ acked' = limit))

\* The next message, if one is left.
Continue(pending, base) ==
  \/ WantsToSend /\ send_msg(pending, base)
  \/ /\ ~WantsToSend
     /\ pending_ack' = pending
     /\ settled' = base
     /\ UNCHANGED <<send_ts, count, credit>>

\* Slip: the outcome does not end the wait.
Outcome_keeps_waiting(d) ==
  remote[d] \in Outcomes /\ Record(d) /\ Continue(pending_ack, settled \union {d})

\* case PN_DELIVERY, any outcome: record the latency, then send the next
\* message or, all being sent and acked, stop.
Outcome(d) ==
  remote[d] \in Outcomes /\ Record(d) /\ Continue(FALSE, settled \union {d})

Delivery ==
  /\ Dispatch("PN_DELIVERY")
  /\ LET d == Head(collector).dlv IN Received(d) \/ Outcome(d)
  /\ UNCHANGED <<turn, conn, link, armed, limit, presettle, informs, granted, written, remote>>

\* main(): the end of a round of events, the loop body, the signal handler.
ReactorQuiesce == Quiesce /\ Unaffected
Main           == MainLoop /\ Unaffected
SignalHandler  == Signal /\ Unaffected

\* External: the transport and the peer.
Write                     == LinkWrite /\ UNCHANGED <<ackVars, sendVars>>
PeerFlow(n)               == LinkFlow(n) /\ UNCHANGED <<ackVars, sendVars>>
PeerDisposition(d, state) == LinkDisposition(d, state) /\ UNCHANGED <<ackVars, sendVars>>
PeerClose                 == PeerCloses /\ Unaffected
PeerDetach                == PeerDetaches /\ Unaffected

-----------------------------------------------------------------------------
Client == ConnectionInit \/ FlowEvent \/ Delivery \/ ReactorQuiesce \/ Main

Peer ==
  \/ Write
  \/ \E n \in 0..MaxGranted : PeerFlow(n)
  \/ \E d \in Deliveries : \E state \in {"received"} \union Outcomes : PeerDisposition(d, state)
  \/ PeerClose
  \/ PeerDetach

\* main() has returned.
Exited == turn = "exit" /\ UNCHANGED vars

Next == Client \/ SignalHandler \/ Peer \/ Exited

Spec == Init /\ [][Next]_vars

\* What fairness is stated of: the peer grants credit, settles, answers.
PeerGrants   == \E n \in 1..MaxGranted : PeerFlow(n)
PeerSettles  == \E d \in Deliveries : \E state \in Outcomes : PeerDisposition(d, state)
PeerAnswers  == conn = "closing" /\ PeerClose

-----------------------------------------------------------------------------
\* "cannot send until any outstanding messages have been acked": at most the
\* newest message is without outcome, exactly while pending_ack is set; and
\* each latency recorded is the time between a message and its own ack, one
\* for every ack counted.  (Of a peer that sends one disposition each.)
OwnLatency ==
  ~informs =>
    LET answered == IF pending_ack THEN count - 1 ELSE count IN
    /\ settled = 1..answered
    /\ acked = answered
    /\ accepted + not_accepted = acked
    /\ samples = {<<d, d>> : d \in settled}

\* A running sender with messages left that waits for the network waits for
\* an ack or for credit.
WaitsForSomething ==
  turn = "io" /\ collector = <<>> /\ WantsToSend /\ ~stop => pending_ack \/ credit = 0

\* The transfer is complete, as the client sees it; with a peer that informs,
\* whose outcomes may be counted twice, that is not held against it.
Declared == limit > 0 /\ IF informs THEN settled = 1..limit ELSE acked = limit
=============================================================================
