----------------------------- MODULE LinkSender -----------------------------
(***************************************************************************)
(* skupper-router/clients/amqp_link_scale/link-sender.c: open link_limit   *)
(* (max_links) links, send one message on each in pieces of at most        *)
(* TX_BUF_SIZE, close a link with the outcome of its message, exit when    *)
(* all links are closed.  The context of a link points to its delivery.    *)
(***************************************************************************)
EXTENDS ProactorLinks

CONSTANT MaxPieces  \* bound: pieces of a message body

VARIABLES
  pieces,        \* body_length, in pieces
  informs,       \* the peer may send PN_RECEIVED before an outcome
  context,       \* of a link: "none", "dlv", "freed" (points to a settled delivery)
  sent,          \* context of a delivery: pieces of the body sent
  outcome,       \* remote state of the delivery: "none", "received", "final"
  closed_links

ownVars == <<pieces, informs, context, sent, outcome, closed_links>>
vars == <<loopVars, linkVars, ownVars>>

\* main(): -l and -s are at least 1.  A detach by the peer is not looked at:
\* it would only end the events of its link, and is left out.
Init ==
  /\ LoopInit /\ LinksInit
  /\ unasked = FALSE
  /\ pieces \in 1..MaxPieces
  /\ informs \in BOOLEAN
  /\ context = [l \in Links |-> "none"]
  /\ sent = [l \in Links |-> 0]
  /\ outcome = [l \in Links |-> "none"]
  /\ closed_links = 0

\* case PN_CONNECTION_INIT: open the connection, the session and the links.
ConnectionInit ==
  /\ Handles({"PN_CONNECTION_INIT"}, <<>>)
  /\ conn' = "open"
  /\ OpenLinks(LinksOf(1))
  /\ UNCHANGED <<turn, interrupt, stop, armed, link_limit, unasked, credit, current, unwritten, ownVars>>

\* A delivery is created, with no octets of its body sent, and becomes the
\* context of the link.  The exits on errors are not taken: the link has no
\* delivery, and takes the header.
start_message(l) == context' = [context EXCEPT ![l] = "dlv"]

\* start_message() if the link has none, and the next piece of the body if
\* pn_delivery_writable(); with the last piece the link is advanced.
SendPiece(l) ==
  LET starts   == context[l] = "none" /\ credit[l] > 0
      writable == (current[l] \/ starts) /\ credit[l] > 0 /\ sent[l] < pieces
      last     == writable /\ sent[l] + 1 = pieces IN
  /\ IF starts THEN start_message(l) ELSE UNCHANGED context
  /\ sent' = IF writable THEN [sent EXCEPT ![l] = @ + 1] ELSE sent
  /\ current' = [current EXCEPT ![l] = (@ \/ starts) /\ ~last]
  /\ credit' = IF last THEN [credit EXCEPT ![l] = @ - 1] ELSE credit
  /\ unwritten' = IF writable THEN unwritten \union {l} ELSE unwritten
  /\ turn' \in IF context[l] = "freed" THEN {turn, "failed"} ELSE {turn}

\* case PN_LINK_FLOW.
FlowEvent ==
  /\ Handles({"PN_LINK_FLOW"}, <<>>)
  /\ LET l == Head(events).dlv IN
       IF Active(l) THEN SendPiece(l)
       ELSE UNCHANGED <<context, sent, current, credit, unwritten, turn>>
  /\ UNCHANGED <<conn, interrupt, stop, armed, link_limit, unasked, link, granted>>
  /\ UNCHANGED <<pieces, informs, outcome, closed_links>>

\* The branches on the remote state, all outcomes being treated alike;
\* pn_delivery_updated() stays true.  To settle a delivery that is not all
\* sent advances the link.
Received(l) ==
  /\ outcome[l] = "received"
  /\ UNCHANGED <<turn, link, context, current, credit, closed_links>>

Outcome(l) ==
  /\ outcome[l] = "final"
  /\ context' = [context EXCEPT ![l] = "freed"]
  /\ current' = [current EXCEPT ![l] = FALSE]
  /\ credit' = IF current[l] THEN [credit EXCEPT ![l] = @ - 1] ELSE credit
  /\ link' = [link EXCEPT ![l] = Closed(@)]
  /\ closed_links' = closed_links + 1
  /\ turn' = IF closed_links' = link_limit THEN "exit" ELSE turn

\* case PN_DELIVERY.
Delivery ==
  /\ Handles({"PN_DELIVERY"}, <<>>)
  /\ LET l == Head(events).dlv IN Received(l) \/ Outcome(l)
  /\ UNCHANGED <<conn, interrupt, stop, armed, link_limit, unasked, granted, unwritten>>
  /\ UNCHANGED <<pieces, informs, sent, outcome>>

\* The main loop, and the handlers of the proactor's own events.
Main ==
  /\ BeginBatch \/ EndBatch \/ Inactive(FALSE)
  /\ UNCHANGED <<linkVars, ownVars>>

Interrupt == Interrupted("exit") /\ UNCHANGED <<linkVars, ownVars>>

SignalHandler == Signal(FALSE) /\ UNCHANGED <<linkVars, ownVars>>

-----------------------------------------------------------------------------
\* External: the transport and the peer.
PeerFlow(l, n) == PeerCredit(l, n) /\ UNCHANGED ownVars
Write(l)       == LinkWrites(l) /\ UNCHANGED ownVars
PeerLeaves     == PeerDrops /\ UNCHANGED ownVars

\* A disposition of what the peer has got of the message.
PeerDisposition(l, state) ==
  /\ link[l] = "open" /\ context[l] = "dlv" /\ l \notin unwritten
  /\ outcome[l] \in {"none", "received"}
  /\ state = "received" => informs /\ outcome[l] = "none"
  /\ Reads(Event("PN_DELIVERY", l))
  /\ outcome' = [outcome EXCEPT ![l] = state]
  /\ UNCHANGED <<linkVars, pieces, informs, context, sent, closed_links>>

PeerSettles(l) == PeerDisposition(l, "final")

Client == ConnectionInit \/ FlowEvent \/ Delivery \/ Main

Next ==
  \/ Client \/ Interrupt \/ SignalHandler \/ PeerLeaves
  \/ \E l \in Links :
       \/ Write(l) \/ PeerSettles(l) \/ PeerDisposition(l, "received")
       \/ \E n \in 0..MaxCredit : PeerFlow(l, n)

-----------------------------------------------------------------------------
\* A settled delivery is never used again.  With a peer that sends one
\* disposition per delivery closed_links is the number of links whose message
\* has an outcome, so that the client exits of its own accord only when all
\* have one.  An informing peer's outcome may be counted twice; it is never
\* missed.
CountsRight ==
  LET freed == {l \in Links : context[l] = "freed"} IN
  /\ turn # "failed"
  /\ IF informs THEN closed_links >= Cardinality(freed) ELSE closed_links = Cardinality(freed)
=============================================================================
