------------------------------ MODULE OomSender ------------------------------
(***************************************************************************)
(* skupper-router/oomster/oom-sender.c: on each of link_limit (links)      *)
(* links send messages with a body of UINT32_MAX bytes, a batch per        *)
(* PN_LINK_FLOW, within what the session window of the peer can hold.      *)
(* total_bytes is only printed and is left out.                            *)
(***************************************************************************)
EXTENDS ProactorLinks, Functions

CONSTANTS
  Header,      \* sizeof(msg_header)
  BodyBatch,   \* sizeof(body_batch)
  Body,        \* UINT32_MAX
  Frame,       \* the peer's maximum frame size
  MaxWindow    \* bound: frames of the peer's incoming window

VARIABLES
  tag,         \* messages begun on a link
  bytes_sent,  \* context of the current delivery of a link
  buffered,    \* bytes of a link the transport has not written
  window,      \* pn_session_remote_incoming_window()
  outcome      \* remote state of a link's newest delivery: "none", "received" or final

ownVars == <<tag, bytes_sent, buffered, window, outcome>>
vars == <<loopVars, linkVars, ownVars>>

\* main().  A detach by the peer is not looked at: it would only end the
\* events of its link, and is left out.
Init ==
  /\ LoopInit /\ LinksInit
  /\ unasked = FALSE
  /\ tag = [l \in Links |-> 0]
  /\ bytes_sent = [l \in Links |-> 0]
  /\ buffered = [l \in Links |-> 0]
  /\ window = 0
  /\ outcome = [l \in Links |-> "none"]

\* win_capacity, and ob (pn_session_outgoing_bytes()) before the header.
Capacity      == Frame * window
OutgoingBytes == SumFunction(buffered)

Least(x, y) == IF x > y THEN y ELSE x

\* case PN_CONNECTION_INIT: open the connection, the session and the links.
ConnectionInit ==
  /\ Handles({"PN_CONNECTION_INIT"}, <<>>)
  /\ conn' = "open"
  /\ OpenLinks(LinksOf(1))
  /\ UNCHANGED <<turn, interrupt, stop, armed, link_limit, unasked, credit, current, unwritten, ownVars>>

\* Slip: the window of the peer is not looked at.
ToSend_unlimited(done) == Least(BodyBatch, Body - done)

\* Bytes of the body to send now, `done' of it being sent: "Respect the
\* remotes incoming window capacity".
ToSend(done) ==
  IF Capacity > OutgoingBytes
  THEN Least(Least(BodyBatch, Body - done), Capacity - OutgoingBytes)
  ELSE 0

\* case PN_LINK_FLOW: begin a message (its header is sent whatever the window
\* is), and send a batch of the body or, if it is all sent, advance.  With
\* neither a message nor credit a null delivery is asked for its context.
FlowEvent ==
  /\ Handles({"PN_LINK_FLOW"}, <<>>)
  /\ LET l == Head(events).dlv
         starts == ~current[l] /\ credit[l] > 0
         done == IF starts THEN 0 ELSE bytes_sent[l]
         n == ToSend(done) IN
       \/ /\ ~current[l] /\ credit[l] = 0
          /\ turn' = "failed"
          /\ UNCHANGED <<tag, bytes_sent, buffered, outcome, current, credit>>
       \/ /\ current[l] \/ credit[l] > 0
          /\ tag' = IF starts THEN [tag EXCEPT ![l] = @ + 1] ELSE tag
          /\ outcome' = IF starts THEN [outcome EXCEPT ![l] = "none"] ELSE outcome
          /\ bytes_sent' = [bytes_sent EXCEPT ![l] = done + n]
          /\ buffered' = [buffered EXCEPT ![l] = @ + n + (IF starts THEN Header ELSE 0)]
          /\ current' = [current EXCEPT ![l] = done < Body]
          /\ credit' = IF done = Body THEN [credit EXCEPT ![l] = @ - 1] ELSE credit
          /\ UNCHANGED turn
  /\ UNCHANGED <<conn, interrupt, stop, armed, link_limit, unasked, link, granted, unwritten, window>>

\* case PN_DELIVERY: any outcome settles; to settle the current delivery
\* advances the link.
Delivery ==
  /\ Handles({"PN_DELIVERY"}, <<>>)
  /\ LET l == Head(events).dlv[1]
         newest == Head(events).dlv[2] = tag[l] IN
       IF newest /\ outcome[l] = "final" /\ current[l]
       THEN /\ current' = [current EXCEPT ![l] = FALSE]
            /\ credit' = [credit EXCEPT ![l] = @ - 1]
       ELSE UNCHANGED <<current, credit>>
  /\ UNCHANGED <<turn, conn, interrupt, stop, armed, link_limit, unasked, link, granted, unwritten, ownVars>>

\* The main loop, and the handlers of the proactor's own events.
Main ==
  /\ BeginBatch \/ EndBatch \/ Inactive(FALSE)
  /\ UNCHANGED <<linkVars, ownVars>>

SignalHandler == Signal(TRUE) /\ UNCHANGED <<linkVars, ownVars>>

\* PN_PROACTOR_INTERRUPT: assert(stop).
Interrupt == Interrupted(IF stop THEN "exit" ELSE "failed") /\ UNCHANGED <<linkVars, ownVars>>

-----------------------------------------------------------------------------
\* External: the transport and the peer.

\* A frame of a link's data is written, within the window.
Write(l) ==
  /\ buffered[l] > 0 /\ window > 0
  /\ link[l] \in {"open", "closing"}
  /\ Reads(FlowOn(l))
  /\ buffered' = [buffered EXCEPT ![l] = @ - Least(@, Frame)]
  /\ window' = window - 1
  /\ UNCHANGED <<linkVars, tag, bytes_sent, outcome>>

\* A flow of a link also tells the window; one of the session raises no event.
PeerFlow(l, n) ==
  /\ PeerCredit(l, n)
  /\ window' = MaxWindow
  /\ UNCHANGED <<tag, bytes_sent, buffered, outcome>>

PeerWindow ==
  /\ turn = "wait" /\ conn = "open" /\ window < MaxWindow
  /\ window' = MaxWindow
  /\ UNCHANGED <<loopVars, linkVars, tag, bytes_sent, buffered, outcome>>

\* The disposition of the newest delivery of l, of which something is written.
PeerDisposition(l, state) ==
  /\ link[l] = "open" /\ tag[l] > 0
  /\ buffered[l] < bytes_sent[l] + Header
  /\ outcome[l] = "none"
  /\ Reads(Event("PN_DELIVERY", <<l, tag[l]>>))
  /\ outcome' = [outcome EXCEPT ![l] = state]
  /\ UNCHANGED <<linkVars, tag, bytes_sent, buffered, window>>

PeerLeaves == PeerDrops /\ UNCHANGED ownVars

Client == ConnectionInit \/ FlowEvent \/ Delivery \/ Main

Next ==
  \/ Client \/ Interrupt \/ SignalHandler \/ PeerWindow \/ PeerLeaves
  \/ \E l \in Links :
       \/ Write(l) \/ \E n \in 0..MaxCredit : PeerFlow(l, n)
       \/ \E state \in {"received", "final"} : PeerDisposition(l, state)

Spec == Init /\ [][Next]_vars

-----------------------------------------------------------------------------
\* What the client keeps in memory is bounded by the window of the peer,
\* however many messages it goes through: at most a full window and, as the
\* header of a message is sent without a look at the window, a header per
\* link.
WithinWindow == OutgoingBytes <= Frame * MaxWindow + Header * link_limit

\* "Sends continually until ^C hit (SIGQUIT)" (usage): the client does not
\* come down while its connection is up.
SendsUntilStopped == turn = "failed" => stop
=============================================================================
