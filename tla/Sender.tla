------------------------------- MODULE Sender -------------------------------
(***************************************************************************)
(* benchmarks/clients/src/sender.c: send `limit' messages (0: without      *)
(* end) as fast as the peer grants credit, count the outcomes the peer     *)
(* reports, close the connection when the last one is in.  Time stamps are *)
(* Booleans (taken or not): the code tests them only against zero.         *)
(***************************************************************************)
EXTENDS SendingLink

VARIABLES
  acked, accepted, not_accepted,
  start_ts, stop_ts, ack_start_ts, ack_stop_ts,
  stalled, stall_count, grant_count, credit_grants

ackVars   == <<acked, accepted, not_accepted, ack_start_ts, ack_stop_ts>>
sendVars  == <<start_ts, stop_ts, stalled, stall_count, grant_count, credit_grants>>
vars == <<loopVars, linkVars, ackVars, sendVars>>

Unaffected == UNCHANGED <<linkVars, ackVars, sendVars>>

-----------------------------------------------------------------------------
Init ==
  /\ LoopInit
  /\ LinkInit
  /\ acked = 0 /\ accepted = 0 /\ not_accepted = 0
  /\ start_ts = FALSE /\ stop_ts = FALSE
  /\ ack_start_ts = FALSE /\ ack_stop_ts = FALSE
  /\ stalled = FALSE
  /\ stall_count = 0 /\ grant_count = 0 /\ credit_grants = 0

\* case PN_CONNECTION_INIT: the endpoints are opened.
ConnectionInit ==
  /\ Dispatch("PN_CONNECTION_INIT")
  /\ conn' = "open"
  /\ acked' = count
  /\ UNCHANGED <<turn, link, stop, armed, linkVars, sendVars>>
  /\ UNCHANGED <<accepted, not_accepted, ack_start_ts, ack_stop_ts>>

\* Slips in the loop condition: the credit, or the limit, is forgotten, or
\* one message is sent per event.
Batch_no_credit_check == IF limit = 0 THEN credit ELSE limit - count
Batch_no_limit_check  == credit
Batch_single          == 1

\* Iterations of the send loop: until the credit or the messages run out.
Batch == IF limit = 0 \/ credit <= limit - count THEN credit ELSE limit - count

\* case PN_LINK_FLOW with credit and messages left: send the batch.  A stall
\* ends here; it is counted unless the clock shows no time has passed.
LinkFlowSend ==
  /\ Dispatch("PN_LINK_FLOW")
  /\ credit > 0 /\ WantsToSend
  /\ stall_count' \in {stall_count, stall_count + (IF stalled THEN 1 ELSE 0)}
  /\ grant_count' = grant_count + 1
  /\ credit_grants' = credit_grants + credit
  /\ start_ts' = TRUE
  /\ Transmit(Batch, settled)
  /\ LET done == limit > 0 /\ count' = limit IN
       /\ stop' = (stop \/ (presettle /\ done))
       /\ stop_ts' = (stop_ts \/ done)
       /\ stalled' = (~done /\ credit' = 0)
  /\ UNCHANGED <<turn, conn, link, armed, limit, presettle, informs, granted, written, remote, ackVars>>

\* Slip: the grant is recorded before the condition is tested.
LinkFlowIgnored_counts_grant ==
  /\ Dispatch("PN_LINK_FLOW")
  /\ ~(credit > 0 /\ WantsToSend)
  /\ credit_grants' = credit_grants + credit
  /\ UNCHANGED <<turn, conn, link, stop, armed, linkVars, ackVars>>
  /\ UNCHANGED <<start_ts, stop_ts, stalled, stall_count, grant_count>>

\* case PN_LINK_FLOW without credit, or with all messages sent.
LinkFlowIgnored ==
  /\ Dispatch("PN_LINK_FLOW")
  /\ ~(credit > 0 /\ WantsToSend)
  /\ UNCHANGED <<turn, conn, link, stop, armed>>
  /\ Unaffected

\* case PN_DELIVERY: the branches of the switch on the remote state.
\* pn_delivery_updated() stays true once the peer has reported anything: the
\* code never calls pn_delivery_clear().
Received(d) ==
  /\ remote[d] = "received"
  /\ UNCHANGED <<acked, accepted, not_accepted, ack_start_ts, settled>>

\* Slip: the break of the case is missing.
Accepted_falls_through(d) ==
  /\ remote[d] = "accepted"
  /\ acked' = acked + 2
  /\ accepted' = accepted + 1
  /\ not_accepted' = not_accepted + 1
  /\ settled' = settled \union {d}
  /\ ack_start_ts' = TRUE

Accepted(d) ==
  /\ remote[d] = "accepted"
  /\ acked' = acked + 1
  /\ accepted' = accepted + 1
  /\ settled' = settled \union {d}
  /\ ack_start_ts' = TRUE
  /\ UNCHANGED not_accepted

NotAccepted(d) ==
  /\ remote[d] = "rejected"
  /\ acked' = acked + 1
  /\ not_accepted' = not_accepted + 1
  /\ settled' = settled \union {d}
  /\ UNCHANGED <<accepted, ack_start_ts>>

\* Slip: compare with what was sent so far.
Complete_at_count == acked' = count

Complete == limit > 0 /\ acked' = limit

Delivery ==
  /\ Dispatch("PN_DELIVERY")
  /\ LET d == Head(collector).dlv IN Received(d) \/ Accepted(d) \/ NotAccepted(d)
  /\ stop' = (stop \/ Complete)
  /\ ack_stop_ts' = (ack_stop_ts \/ Complete)
  /\ UNCHANGED <<turn, conn, link, armed, sendVars>>
  /\ UNCHANGED <<limit, presettle, informs, count, credit, granted, written, remote>>

\* Slip: the close is inside the `count' test of the report.
Main_closes_if_sent ==
  /\ turn = "io"
  /\ turn' = "drain"
  /\ conn' = IF stop /\ count > 0 /\ conn = "open" THEN "closing" ELSE conn
  /\ UNCHANGED <<link, collector, stop, armed>>
  /\ Unaffected

\* main(): the end of a round of events, the loop body, the signal handler.
ReactorQuiesce == Quiesce /\ Unaffected
Main           == MainLoop /\ Unaffected
SignalHandler  == Signal /\ Unaffected

\* External: the transport and the peer.
Write                     == LinkWrite /\ UNCHANGED <<ackVars, sendVars>>
PeerFlow(n)               == LinkFlow(n) /\ UNCHANGED <<ackVars, sendVars>>
PeerDisposition(d, state) == LinkDisposition(d, state) /\ UNCHANGED <<ackVars, sendVars>>
PeerClose                 == PeerCloses /\ Unaffected
PeerDetach                == PeerDetaches /\ Unaffected

-----------------------------------------------------------------------------
Client ==
  \/ ConnectionInit \/ LinkFlowSend \/ LinkFlowIgnored \/ Delivery
  \/ ReactorQuiesce \/ Main

Peer ==
  \/ Write
  \/ \E n \in 0..MaxGranted : PeerFlow(n)
  \/ \E d \in Deliveries : \E state \in {"received"} \union Outcomes : PeerDisposition(d, state)
  \/ PeerClose
  \/ PeerDetach

\* main() has returned.
Exited == turn = "exit" /\ UNCHANGED vars

Next == Client \/ SignalHandler \/ Peer \/ Exited

Spec == Init /\ [][Next]_vars

\* The client is one thread that is never blocked while it has work; the
\* transport writes what is buffered.  A peer that is up keeps granting
\* credit, settling what it received, and answers a close.  Nothing is
\* assumed of signals, of detaching or of closing unasked.
PeerGrants   == \E n \in 1..MaxGranted : PeerFlow(n)
PeerSettles  == \E d \in Deliveries : \E state \in Outcomes : PeerDisposition(d, state)
PeerAnswers  == conn = "closing" /\ PeerClose

Fairness ==
  /\ WF_vars(Client)
  /\ WF_vars(Write)
  /\ SF_vars(PeerGrants)
  /\ SF_vars(PeerSettles)
  /\ SF_vars(PeerAnswers)

FairSpec == Spec /\ Fairness

-----------------------------------------------------------------------------
\* Counters, flags and queue stay in their types; a queued event names the
\* connection, the link or a delivery that exists.
TypeOK ==
  /\ LinkTypeOK
  /\ acked \in Nat /\ accepted \in Nat /\ not_accepted \in Nat
  /\ start_ts \in BOOLEAN /\ stop_ts \in BOOLEAN
  /\ ack_start_ts \in BOOLEAN /\ ack_stop_ts \in BOOLEAN
  /\ stalled \in BOOLEAN
  /\ stall_count \in Nat /\ grant_count \in Nat /\ credit_grants \in Nat

\* Each reported outcome is counted once and as what it was: the counters of
\* the final report are the numbers of deliveries settled with each outcome.
\* (A peer that informs may make the code count an outcome twice.)
OutcomesCountedOnce ==
  ~presettle /\ ~informs => /\ accepted = Cardinality(With("accepted"))
                /\ not_accepted = Cardinality(With("rejected"))
                /\ acked = Cardinality(settled)

\* When the last ack is stamped (and the shutdown started because of it)
\* every message has been sent, written and settled, and the times the
\* report subtracts have been taken.
CompleteMeansAllAcked ==
  ack_stop_ts /\ ~informs =>
    /\ settled = 1..limit /\ written = limit
    /\ start_ts /\ stop_ts /\ (accepted > 0 => ack_start_ts)
    /\ accepted + not_accepted = count

\* The credit reported as granted is credit that was granted, and counted
\* once; it is what the messages used plus, after the last one, what was left.
\* A stall is counted only between two grants.
GrantsAddUp ==
  /\ count <= credit_grants
  /\ credit_grants <= granted
  /\ count < credit_grants => stop_ts
  /\ stall_count + (IF stalled THEN 1 ELSE 0) <= grant_count

\* An idle sender with messages left has no credit: credit never sits unused
\* while the reactor waits for the network.
NoIdleCredit ==
  turn = "io" /\ collector = <<>> /\ WantsToSend => credit = 0

-----------------------------------------------------------------------------
\* The inductive invariant behind the properties above.

\* The event that opens the connection comes first and comes once.
OpensFirst ==
  /\ conn = "init" => /\ turn = "drain" /\ collector = <<ConnectionInitEvent>>
                      /\ count = 0 /\ acked = 0
  /\ conn # "init" => ~Queued(ConnectionInitEvent, collector)

\* A delivery that is reported on once has its event waiting exactly from
\* the outcome to the settlement.
EventsOnce ==
  ~informs => \A d \in Deliveries :
    /\ Once(DeliveryEvent(d), collector)
    /\ Queued(DeliveryEvent(d), collector) => remote[d] \in Outcomes /\ d \notin settled

\* Only what was written is answered, and only if not presettled.
Answered ==
  /\ \A d \in Deliveries :
       remote[d] # "none" => d <= written /\ ~presettle
  /\ presettle => settled = 1..count
  /\ ~presettle => \A d \in settled : remote[d] \in Outcomes

\* The counters are the numbers of settled deliveries, by outcome.
Counted ==
  /\ OutcomesCountedOnce
  /\ ~presettle => acked = accepted + not_accepted

\* The time stamps are taken exactly when what they stamp has happened.
Marks ==
  /\ start_ts <=> count > 0
  /\ stop_ts <=> (limit > 0 /\ count = limit)
  /\ accepted > 0 => ack_start_ts
  /\ ~informs => (ack_stop_ts <=> (~presettle /\ limit > 0 /\ settled = 1..limit))

\* Credit that can be used has an event that will use it.
CreditHasEvent == credit > 0 /\ WantsToSend => Queued(LinkFlowEvent, collector)

SenderInv ==
  /\ TypeOK /\ CreditSpent
  /\ OpensFirst /\ EventsOnce /\ NoOutcomeLost /\ Answered /\ Counted /\ Marks
  /\ GrantsAddUp /\ CreditHasEvent

-----------------------------------------------------------------------------
\* A sender with a limit ends, unless the peer detaches its link; and once
\* stopped, by a signal or by completion, it exits in any case.
Terminates ==
  /\ (limit > 0) ~> (turn = "exit" \/ link = "detached")
  /\ stop ~> (turn = "exit")

\* What the time stamps declare; with a peer that informs, whose outcomes may
\* be counted twice, the declaration is not held against the sender.
Declared ==
  \/ presettle /\ stop_ts
  \/ ~presettle /\ ~informs /\ ack_stop_ts
  \/ ~presettle /\ informs /\ limit > 0 /\ settled = 1..limit

\* The sender implements the abstract bulk transfer.
Bulk == INSTANCE BulkSend WITH
  sent <- count,
  known <- IF presettle THEN {} ELSE settled,
  done <- Declared

ImplementsBulkSend == Bulk!Spec
=============================================================================
