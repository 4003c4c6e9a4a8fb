-------------------------- MODULE ThroughputSender --------------------------
(***************************************************************************)
(* benchmarks/clients/src/throughput-sender.c: send as sender.c does, and  *)
(* report the rate over the time from the first credit to the last ack or  *)
(* to the signal.                                                          *)
(*                                                                         *)
(* Both time stamps are taken once (`if (!ts) ts = now'); the model keeps  *)
(* the order in which they are.                                            *)
(***************************************************************************)
EXTENDS SendingLink

VARIABLES
  acked, accepted, not_accepted,
  stamps   \* "start_ts" and "stop_ts", in the order they are taken

ackVars == <<acked, accepted, not_accepted>>
vars == <<loopVars, linkVars, ackVars, stamps>>

Unaffected == UNCHANGED <<linkVars, ackVars, stamps>>

Taken(ts) == \E i \in 1..Len(stamps) : stamps[i] = ts
Take(ts)  == IF Taken(ts) THEN stamps ELSE Append(stamps, ts)

-----------------------------------------------------------------------------
Init ==
  /\ LoopInit
  /\ LinkInit
  /\ presettle = FALSE
  /\ acked = 0 /\ accepted = 0 /\ not_accepted = 0
  /\ stamps = <<>>

\* case PN_CONNECTION_INIT: the endpoints are opened.
ConnectionInit ==
  /\ Dispatch("PN_CONNECTION_INIT")
  /\ conn' = "open"
  /\ UNCHANGED <<turn, link, stop, armed>>
  /\ Unaffected

\* Slip: `--credit' for `credit--'.
Batch_pre_decrement  == IF limit = 0 \/ credit - 1 <= limit - count THEN credit - 1 ELSE limit - count

\* Iterations of `while (credit-- > 0 && (limit == 0 || count < limit))'.
Batch == IF limit = 0 \/ credit <= limit - count THEN credit ELSE limit - count

\* Slip: the clock starts when the first message is acked.
LinkFlowSend_no_start ==
  /\ Dispatch("PN_LINK_FLOW")
  /\ credit >= 1
  /\ Transmit(Batch, settled)
  /\ UNCHANGED <<turn, conn, link, stop, armed, ackVars, stamps>>
  /\ UNCHANGED <<limit, presettle, informs, granted, written, remote>>

\* case PN_LINK_FLOW with credit.
LinkFlowSend ==
  /\ Dispatch("PN_LINK_FLOW")
  /\ credit >= 1
  /\ stamps' = Take("start_ts")
  /\ Transmit(Batch, settled)
  /\ UNCHANGED <<turn, conn, link, stop, armed, ackVars>>
  /\ UNCHANGED <<limit, presettle, informs, granted, written, remote>>

\* case PN_LINK_FLOW without credit.
LinkFlowIgnored ==
  /\ Dispatch("PN_LINK_FLOW")
  /\ credit < 1
  /\ UNCHANGED <<turn, conn, link, stop, armed>>
  /\ Unaffected

\* case PN_DELIVERY, informational state.
Received(d) == remote[d] = "received" /\ UNCHANGED <<ackVars, settled>>

\* Slip: an outcome other than accepted is not counted.
Outcome_accepted_only(d) ==
  /\ remote[d] \in Outcomes
  /\ settled' = settled \union {d}
  /\ IF remote[d] = "accepted"
     THEN acked' = acked + 1 /\ accepted' = accepted + 1 /\ UNCHANGED not_accepted
     ELSE UNCHANGED ackVars

\* case PN_DELIVERY, any outcome.
Outcome(d) ==
  /\ remote[d] \in Outcomes
  /\ acked' = acked + 1
  /\ accepted' = accepted + (IF remote[d] = "accepted" THEN 1 ELSE 0)
  /\ not_accepted' = not_accepted + (IF remote[d] = "accepted" THEN 0 ELSE 1)
  /\ settled' = settled \union {d}

Complete == limit > 0 /\ acked' = limit

Delivery ==
  /\ Dispatch("PN_DELIVERY")
  /\ LET d == Head(collector).dlv IN Received(d) \/ Outcome(d)
  /\ stop' = (stop \/ Complete)
  /\ stamps' = IF Complete THEN Take("stop_ts") ELSE stamps
  /\ UNCHANGED <<turn, conn, link, armed>>
  /\ UNCHANGED <<limit, presettle, informs, count, credit, granted, written, remote>>

\* signal_handler(): stop, and stop the clock.
SignalHandler ==
  /\ Signal
  /\ stamps' = Take("stop_ts")
  /\ UNCHANGED <<linkVars, ackVars>>

\* main(): the end of a round of events and the loop body.
ReactorQuiesce == Quiesce /\ Unaffected
Main           == MainLoop /\ Unaffected

\* External: the transport and the peer.
Write                     == LinkWrite /\ UNCHANGED <<ackVars, stamps>>
PeerFlow(n)               == LinkFlow(n) /\ UNCHANGED <<ackVars, stamps>>
PeerDisposition(d, state) == LinkDisposition(d, state) /\ UNCHANGED <<ackVars, stamps>>
PeerClose                 == PeerCloses /\ Unaffected
PeerDetach                == PeerDetaches /\ Unaffected

-----------------------------------------------------------------------------
Client ==
  ConnectionInit \/ LinkFlowSend \/ LinkFlowIgnored \/ Delivery \/ ReactorQuiesce \/ Main

Peer ==
  \/ Write
  \/ \E n \in 0..MaxGranted : PeerFlow(n)
  \/ \E d \in Deliveries : \E state \in {"received"} \union Outcomes : PeerDisposition(d, state)
  \/ PeerClose
  \/ PeerDetach

\* main() has returned.
Exited == turn = "exit" /\ UNCHANGED vars

Next == Client \/ SignalHandler \/ Peer \/ Exited

Spec == Init /\ [][Next]_vars

\* What fairness is stated of: the peer grants credit, settles, answers.
PeerGrants   == \E n \in 1..MaxGranted : PeerFlow(n)
PeerSettles  == \E d \in Deliveries : \E state \in Outcomes : PeerDisposition(d, state)
PeerAnswers  == conn = "closing" /\ PeerClose

-----------------------------------------------------------------------------
\* Without a signal, and with a peer that sends one disposition per delivery,
\* the measurement runs from before the first message to after the last
\* outcome: nothing that is counted falls outside it.
SpansTheTransfer ==
  armed /\ ~informs =>
    /\ count > 0 => Taken("start_ts")
    /\ Taken("stop_ts") <=> (limit > 0 /\ settled = 1..limit)
    /\ Taken("stop_ts") => stamps = <<"start_ts", "stop_ts">> /\ acked = count

\* An idle sender with messages left has no credit.
NoIdleCredit ==
  turn = "io" /\ collector = <<>> /\ WantsToSend => credit = 0

\* The transfer is complete, as the client sees it; with a peer that informs,
\* whose outcomes may be counted twice, that is not held against it.
Declared == limit > 0 /\ IF informs THEN settled = 1..limit ELSE acked = limit
=============================================================================
