--------------------------- MODULE BlockingSender ---------------------------
(***************************************************************************)
(* benchmarks/clients/src/blocking-sender.c: like sender.c, but a message  *)
(* is sent only when the outcome of the previous one is known.  Presettled *)
(* messages have none to wait for: each is sent on the flow event that the *)
(* write of its predecessor raises.                                        *)
(***************************************************************************)
EXTENDS SendingLink

VARIABLES
  pending_ack,
  acked, accepted, not_accepted,
  start_ts, stop_ts, ack_start_ts, ack_stop_ts,
  stalled, stall_count, grant_count, credit_grants

ackVars  == <<acked, accepted, not_accepted, ack_start_ts, ack_stop_ts>>
sendVars == <<pending_ack, start_ts, stop_ts, stalled, stall_count, grant_count, credit_grants>>
vars == <<loopVars, linkVars, ackVars, sendVars>>

Unaffected == UNCHANGED <<linkVars, ackVars, sendVars>>

-----------------------------------------------------------------------------
Init ==
  /\ LoopInit
  /\ LinkInit
  /\ pending_ack = FALSE
  /\ acked = 0 /\ accepted = 0 /\ not_accepted = 0
  /\ start_ts = FALSE /\ stop_ts = FALSE
  /\ ack_start_ts = FALSE /\ ack_stop_ts = FALSE
  /\ stalled = FALSE
  /\ stall_count = 0 /\ grant_count = 0 /\ credit_grants = 0

\* case PN_CONNECTION_INIT: the endpoints are opened.
ConnectionInit ==
  /\ Dispatch("PN_CONNECTION_INIT")
  /\ conn' = "open"
  /\ acked' = count
  /\ UNCHANGED <<turn, link, stop, armed, linkVars, sendVars>>
  /\ UNCHANGED <<accepted, not_accepted, ack_start_ts, ack_stop_ts>>

\* send_msg() returns at once, out of credit: a stall starts (again).
OutOfCredit(pending, base) ==
  /\ credit <= 0
  /\ stalled' = TRUE
  /\ pending_ack' = pending
  /\ settled' = base
  /\ UNCHANGED <<stop, count, credit, start_ts, stop_ts>>
  /\ UNCHANGED <<stall_count, grant_count, credit_grants>>

\* Slip: the outstanding ack is forgotten.
MaySend_not_blocking(pending) == credit > 0 /\ WantsToSend

MaySend(pending) == credit > 0 /\ ~pending /\ WantsToSend

\* send_msg() sends one message.
SendOne(pending, base) ==
  /\ MaySend(pending)
  /\ stall_count' \in {stall_count, stall_count + (IF stalled THEN 1 ELSE 0)}
  /\ stalled' = FALSE
  /\ grant_count' = grant_count + 1
  /\ credit_grants' = credit_grants + credit
  /\ start_ts' = TRUE
  /\ Transmit(1, base)
  /\ pending_ack' = ~presettle
  /\ LET done == limit > 0 /\ count' = limit IN
       /\ stop_ts' = (stop_ts \/ done)
       /\ stop' = (stop \/ (done /\ presettle))

\* send_msg() finds nothing to do.
SendNone(pending, base) ==
  /\ credit > 0 /\ ~MaySend(pending)
  /\ pending_ack' = pending
  /\ settled' = base
  /\ UNCHANGED <<stop, count, credit, start_ts, stop_ts>>
  /\ UNCHANGED <<stalled, stall_count, grant_count, credit_grants>>

send_msg(pending, base) ==
  OutOfCredit(pending, base) \/ SendOne(pending, base) \/ SendNone(pending, base)

\* case PN_LINK_FLOW.
FlowEvent ==
  /\ Dispatch("PN_LINK_FLOW")
  /\ send_msg(pending_ack, settled)
  /\ UNCHANGED <<turn, conn, link, armed, ackVars>>
  /\ UNCHANGED <<limit, presettle, informs, granted, written, remote>>

\* After the switch of case PN_DELIVERY: send the next message, keep waiting,
\* or, all messages being sent, see whether the last outcome is in.
Proceed(pending, base) ==
  \/ /\ WantsToSend /\ ~pending
     /\ send_msg(pending, base)
     /\ UNCHANGED ack_stop_ts
  \/ /\ ~(WantsToSend /\ ~pending)
     /\ pending_ack' = pending
     /\ settled' = base
     /\ LET complete == ~WantsToSend /\ acked' = limit IN
          /\ stop' = (stop \/ complete)
          /\ ack_stop_ts' = (ack_stop_ts \/ complete)
     /\ UNCHANGED <<count, credit, start_ts, stop_ts>>
     /\ UNCHANGED <<stalled, stall_count, grant_count, credit_grants>>

\* case PN_DELIVERY: the branches of the switch on the remote state.
\* pn_delivery_updated() stays true once the peer has reported anything.
Received(d) ==
  /\ remote[d] = "received"
  /\ UNCHANGED <<acked, accepted, not_accepted, ack_start_ts>>
  /\ Proceed(pending_ack, settled)

Accepted(d) ==
  /\ remote[d] = "accepted"
  /\ acked' = acked + 1
  /\ accepted' = accepted + 1
  /\ ack_start_ts' = TRUE
  /\ UNCHANGED not_accepted
  /\ Proceed(FALSE, settled \union {d})

NotAccepted(d) ==
  /\ remote[d] = "rejected"
  /\ acked' = acked + 1
  /\ not_accepted' = not_accepted + 1
  /\ ack_start_ts' = TRUE
  /\ UNCHANGED accepted
  /\ Proceed(FALSE, settled \union {d})

Delivery ==
  /\ Dispatch("PN_DELIVERY")
  /\ LET d == Head(collector).dlv IN Received(d) \/ Accepted(d) \/ NotAccepted(d)
  /\ UNCHANGED <<turn, conn, link, armed, limit, presettle, informs, granted, written, remote>>

\* main(): the end of a round of events, the loop body, the signal handler.
ReactorQuiesce == Quiesce /\ Unaffected
Main           == MainLoop /\ Unaffected
SignalHandler  == Signal /\ Unaffected

\* External: the transport and the peer.
Write                     == LinkWrite /\ UNCHANGED <<ackVars, sendVars>>
PeerFlow(n)               == LinkFlow(n) /\ UNCHANGED <<ackVars, sendVars>>
PeerDisposition(d, state) == LinkDisposition(d, state) /\ UNCHANGED <<ackVars, sendVars>>
PeerClose                 == PeerCloses /\ Unaffected
PeerDetach                == PeerDetaches /\ Unaffected

-----------------------------------------------------------------------------
Client == ConnectionInit \/ FlowEvent \/ Delivery \/ ReactorQuiesce \/ Main

Peer ==
  \/ Write
  \/ \E n \in 0..MaxGranted : PeerFlow(n)
  \/ \E d \in Deliveries : \E state \in {"received"} \union Outcomes : PeerDisposition(d, state)
  \/ PeerClose
  \/ PeerDetach

\* main() has returned.
Exited == turn = "exit" /\ UNCHANGED vars

Next == Client \/ SignalHandler \/ Peer \/ Exited

Spec == Init /\ [][Next]_vars

\* The client is one thread that is never blocked while it has work; the
\* transport writes what is buffered; a peer that is up keeps granting
\* credit, settling what it received, and answers a close.
PeerGrants   == \E n \in 1..MaxGranted : PeerFlow(n)
PeerSettles  == \E d \in Deliveries : \E state \in Outcomes : PeerDisposition(d, state)
PeerAnswers  == conn = "closing" /\ PeerClose

Fairness ==
  /\ WF_vars(Client)
  /\ WF_vars(Write)
  /\ SF_vars(PeerGrants)
  /\ SF_vars(PeerSettles)
  /\ SF_vars(PeerAnswers)

FairSpec == Spec /\ Fairness

-----------------------------------------------------------------------------
\* At most the newest message is without outcome, exactly while pending_ack
\* is set, and acked counts all the others.
Blocks ==
  ~presettle =>
    LET answered == IF pending_ack THEN count - 1 ELSE count IN
    /\ settled = 1..answered
    /\ acked = answered
    /\ accepted + not_accepted = acked

\* With a peer that sends one disposition per delivery the sender blocks on
\* each message, however credit, outcomes and write events interleave.
OneOutstanding == ~informs => Blocks

\* "sends a single message at a time, blocking until the terminal outcome is
\* received before sending the next message" (README.txt:6), of every peer:
\* when a message is sent, all those before it have their outcome.
SendsOneAtATime == ~presettle => \A d \in 1..(count - 1) : remote[d] \in Outcomes

\* A sender with messages left that waits for the network waits for
\* something: an ack, credit, or the transport writing the last message.
WaitsForSomething ==
  turn = "io" /\ collector = <<>> /\ WantsToSend
    => pending_ack \/ credit = 0 \/ written < count

\* What the time stamps declare; see Sender.
Declared ==
  \/ presettle /\ stop_ts
  \/ ~presettle /\ ~informs /\ ack_stop_ts
  \/ ~presettle /\ informs /\ limit > 0 /\ settled = 1..limit
=============================================================================
