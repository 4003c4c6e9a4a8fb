----------------------------- MODULE LinkLoader -----------------------------
(***************************************************************************)
(* skupper-router/clients/link-loader.c: repeat_count times, open          *)
(* link_limit links on one session, begin a message on each and, when all  *)
(* are in flight, close the links with the messages unfinished.            *)
(***************************************************************************)
EXTENDS ProactorLinks

CONSTANT MaxCycles  \* bound: values of repeat_count

VARIABLES repeat_count, link_count

ownVars == <<repeat_count, link_count>>
vars == <<loopVars, linkVars, ownVars>>

\* main(): -c and -l are at least 1.
Init ==
  /\ LoopInit /\ LinksInit
  /\ repeat_count \in 1..MaxCycles
  /\ link_count = 0

\* case PN_CONNECTION_INIT: open the connection, the session and the links.
ConnectionInit ==
  /\ Handles({"PN_CONNECTION_INIT"}, <<>>)
  /\ conn' = "open"
  /\ OpenLinks(LinksOf(1))
  /\ UNCHANGED <<turn, interrupt, stop, armed, link_limit, unasked, credit, current, unwritten>>
  /\ UNCHANGED <<repeat_count, link_count>>

MayStart(l) == link_count < link_limit /\ ~current[l] /\ credit[l] > 0

\* A delivery is created and a fragment of its message sent.  The exits on
\* errors are not taken: the link has no delivery, and takes the fragment.
start_message(l) ==
  /\ current' = [current EXCEPT ![l] = TRUE]
  /\ unwritten' = unwritten \union {l}

\* case PN_LINK_FLOW: start_message() and, with the last one, every link that
\* is still open here is closed.
FlowEvent ==
  /\ Handles({"PN_LINK_FLOW"}, <<>>)
  /\ LET l == Head(events).dlv IN
       IF MayStart(l)
       THEN /\ start_message(l)
            /\ link_count' = link_count + 1
            /\ link' = IF link_count' = link_limit
                       THEN [k \in Links |-> Closed(link[k])] ELSE link
       ELSE UNCHANGED <<current, unwritten, link_count, link>>
  /\ UNCHANGED <<turn, conn, interrupt, stop, armed, link_limit, unasked, granted, credit>>
  /\ UNCHANGED repeat_count

\* pn_link_free() of l and, with the last link, the end of the cycle.
Free(l) ==
  LET left == [link EXCEPT ![l] = "none"] IN
  /\ credit' = [credit EXCEPT ![l] = 0]
  /\ current' = [current EXCEPT ![l] = FALSE]
  /\ unwritten' = unwritten \ {l}
  /\ link_count' = link_count - 1
  /\ repeat_count' = IF link_count' = 0 THEN repeat_count - 1 ELSE repeat_count
  /\ IF link_count' = 0 /\ repeat_count' > 0
     THEN /\ link' = [k \in Links |-> IF k \in LinksOf(1) THEN "open" ELSE left[k]]
          /\ granted' = [k \in Links |-> 0]
     ELSE link' = left /\ UNCHANGED granted
  /\ stop' = (stop \/ repeat_count' = 0)
  /\ interrupt' = (interrupt \/ (link_count' = 0 /\ repeat_count' = 0))
  /\ UNCHANGED turn

\* Slip: a detach by the peer alone is enough.
BothClosed_either_end(l) == link[l] \in {"detached", "closed"}

BothClosed(l) == link[l] = "closed"

\* case PN_LINK_REMOTE_CLOSE, with its two assertions.
RemoteClose ==
  /\ Handles({"PN_LINK_REMOTE_CLOSE"}, <<>>)
  /\ LET l == Head(events).dlv
         asserted == link_count > 0 /\ (link_count = 1 => repeat_count > 0) IN
       IF BothClosed(l) /\ asserted
       THEN Free(l)
       ELSE /\ turn' = IF BothClosed(l) THEN "failed" ELSE turn
            /\ UNCHANGED <<interrupt, stop, link, granted, credit, current, unwritten, ownVars>>
  /\ UNCHANGED <<conn, armed, link_limit, unasked>>

\* The main loop, and the handlers of the proactor's own events.
Main ==
  /\ BeginBatch \/ EndBatch \/ Inactive(TRUE)
  /\ UNCHANGED <<linkVars, ownVars>>

Interrupt == Interrupted(IF stop THEN "exit" ELSE "wait") /\ UNCHANGED <<linkVars, ownVars>>

SignalHandler == Signal(TRUE) /\ UNCHANGED <<linkVars, ownVars>>

-----------------------------------------------------------------------------
\* External: the transport and the peer.
PeerFlow(l, n) == PeerCredit(l, n) /\ UNCHANGED ownVars
Write(l)       == LinkWrites(l) /\ UNCHANGED ownVars
PeerCloses(l)  == PeerDetaches(l) /\ UNCHANGED ownVars
PeerLeaves     == PeerDrops /\ UNCHANGED ownVars

Client == ConnectionInit \/ FlowEvent \/ RemoteClose \/ Main

Next ==
  \/ Client \/ Interrupt \/ SignalHandler \/ PeerLeaves
  \/ \E l \in Links : Write(l) \/ PeerCloses(l) \/ \E n \in 0..MaxCredit : PeerFlow(l, n)

-----------------------------------------------------------------------------
\* "messages in flight, closing all links...": the client closes its links
\* only when each of them has an unfinished message.
ClosesInFlight == \A l \in Links : link[l] = "closing" => current[l]

\* Whatever links the peer detaches, link_count is the number of links with
\* an unfinished message, and neither assertion fails.
CountsRight ==
  /\ turn # "failed"
  /\ link_count = Cardinality({l \in Links : current[l]})
=============================================================================
