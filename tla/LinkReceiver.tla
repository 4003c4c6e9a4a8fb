---------------------------- MODULE LinkReceiver ----------------------------
(***************************************************************************)
(* skupper-router/clients/amqp_link_scale/link-receiver.c: open link_limit *)
(* (max_links) links with a window of credit each; drain, accept and       *)
(* settle every message and give its credit back.  Ends by a signal or     *)
(* with its connection.                                                    *)
(***************************************************************************)
EXTENDS ProactorLinks

CONSTANTS
  Window,   \* credit of a fresh link (1000 in the code)
  MaxMsgs   \* bound: messages the peer sends on a link

VARIABLES
  fragments,  \* the peer may send a message in several frames
  arrived,    \* messages of a link that have begun to arrive
  aborted,    \* <<l, d>> of the deliveries the peer gave up half way
  settled,    \* <<l, d>> of the settled deliveries
  msg_count

ownVars == <<fragments, arrived, aborted, settled, msg_count>>
vars == <<loopVars, linkVars, ownVars>>

\* main(): -l is at least 1.  The peer may detach a link at any time.
Init ==
  /\ LoopInit /\ LinksInit
  /\ unasked = TRUE
  /\ fragments \in BOOLEAN
  /\ arrived = [l \in Links |-> 0]
  /\ aborted = {} /\ settled = {}
  /\ msg_count = 0

\* case PN_CONNECTION_BOUND: open the connection, the session and the links.
ConnectionBound ==
  /\ Handles({"PN_CONNECTION_INIT"}, <<>>)
  /\ conn' = "open"
  /\ link' = [l \in Links |-> IF l \in LinksOf(1) THEN "open" ELSE "none"]
  /\ credit' = [l \in Links |-> IF l \in LinksOf(1) THEN Window ELSE 0]
  /\ UNCHANGED <<turn, interrupt, stop, armed, link_limit, unasked, granted, current, unwritten, ownVars>>

Partial(l, d) == d = arrived[l] /\ current[l]

\* The loop that drains a delivery ends when nothing is pending, or when the
\* receive fails.  Something is always pending of an aborted delivery, and the
\* receive is from the link's current one: it fails while that is the aborted
\* one, but once it is settled and the next message has arrived in part, the
\* receive gives nothing and does not fail.
Drains(l, d) == ~(<<l, d>> \in aborted \intersect settled /\ Partial(l, d + 1))

\* `A full message has arrived (or a failure occurred)': accepted, settled and
\* counted, and its credit given back.  A second event of the same delivery
\* finds it settled, and counts it and grants credit for it all the same.
Accepts(l, d) ==
  /\ settled' = settled \union {<<l, d>>}
  /\ credit' = [credit EXCEPT ![l] = @ + 1]
  /\ msg_count' = msg_count + 1

\* case PN_DELIVERY: what has arrived is drained, in some cases for ever.
Delivery ==
  /\ Handles({"PN_DELIVERY"}, <<>>)
  /\ LET l == Head(events).dlv[1]
         d == Head(events).dlv[2] IN
       IF Drains(l, d) /\ ~Partial(l, d)
       THEN turn' = turn /\ Accepts(l, d)
       ELSE /\ turn' = IF Drains(l, d) THEN turn ELSE "spin"
            /\ UNCHANGED <<settled, credit, msg_count>>
  /\ UNCHANGED <<conn, interrupt, stop, armed, link_limit, unasked, link, granted, current, unwritten>>
  /\ UNCHANGED <<fragments, arrived, aborted>>

\* default: a detach by the peer is not looked at.
Ignored ==
  /\ Handles({"PN_LINK_REMOTE_CLOSE"}, <<>>)
  /\ UNCHANGED <<turn, conn, interrupt, stop, armed, linkVars, ownVars>>

\* The main loop, and the handlers of the proactor's own events.
Main ==
  /\ BeginBatch \/ EndBatch \/ Inactive(FALSE)
  /\ UNCHANGED <<linkVars, ownVars>>

Interrupt == Interrupted("exit") /\ UNCHANGED <<linkVars, ownVars>>

SignalHandler == Signal(FALSE) /\ UNCHANGED <<linkVars, ownVars>>

-----------------------------------------------------------------------------
\* External: the peer.  A frame begins a message, if there is credit, or is
\* the last of one that has begun, or aborts it; the end of a message uses its
\* credit up.
PeerTransfers(l, more, abort) ==
  LET d == IF current[l] THEN arrived[l] ELSE arrived[l] + 1 IN
  /\ link[l] = "open"
  /\ current[l] \/ (credit[l] > 0 /\ d <= MaxMsgs)
  /\ more => fragments /\ ~current[l]
  /\ abort => current[l]
  /\ Reads(Event("PN_DELIVERY", <<l, d>>))
  /\ arrived' = [arrived EXCEPT ![l] = d]
  /\ aborted' = IF abort THEN aborted \union {<<l, d>>} ELSE aborted
  /\ current' = [current EXCEPT ![l] = more]
  /\ credit' = IF more THEN credit ELSE [credit EXCEPT ![l] = @ - 1]
  /\ UNCHANGED <<link_limit, unasked, link, granted, unwritten, fragments, settled, msg_count>>

PeerCloses(l) == PeerDetaches(l) /\ UNCHANGED ownVars
PeerLeaves    == PeerDrops /\ UNCHANGED ownVars

Client == ConnectionBound \/ Delivery \/ Ignored \/ Main

Next ==
  \/ Client \/ Interrupt \/ SignalHandler \/ PeerLeaves
  \/ \E l \in Links : PeerCloses(l) \/ \E more, abort \in BOOLEAN : PeerTransfers(l, more, abort)

-----------------------------------------------------------------------------
\* The messages of a link that are over, aborted ones included.
Complete(l) == {l} \X (1..(IF current[l] THEN arrived[l] - 1 ELSE arrived[l]))

\* The credit of a link, and what it gets back for the messages to be settled.
Outstanding(l) == credit[l] + Cardinality(Complete(l) \ settled)

\* No message is settled before it is over (full, or aborted) and, once a batch
\* is handled, all that are over are settled.  All are counted and a link loses
\* none of the credit it was opened with.  With a peer that sends each message
\* in one frame msg_count is the number of messages received, and the credit is
\* what it was; events of several frames in one batch make both too large.
CountsRight ==
  /\ \A x \in settled : x \in Complete(x[1])
  /\ events = <<>> /\ turn # "spin" => \A l \in Links : Complete(l) \subseteq settled
  /\ IF fragments THEN msg_count >= Cardinality(settled) ELSE msg_count = Cardinality(settled)
  /\ conn # "init" => \A l \in LinksOf(1) :
       IF fragments THEN Outstanding(l) >= Window ELSE Outstanding(l) = Window
=============================================================================
