---------------------------- MODULE SessionLoader ----------------------------
(***************************************************************************)
(* skupper-router/clients/session-loader.c: session_limit times, open a    *)
(* session and link_limit links in it, begin a message on each and, when   *)
(* all are in flight, close the session with the messages unfinished.      *)
(***************************************************************************)
EXTENDS ProactorLinks

CONSTANT MaxTotalLinks  \* bound: links of all sessions

VARIABLES
  session_limit, session_count, link_count,
  session,  \* "none", "opening", "active", "closing", "ended" (by the peer), "closed", "freed"
  created   \* history: links created

ownVars == <<session_limit, session_count, link_count, session, created>>
vars == <<loopVars, linkVars, ownVars>>

\* main(): the limits are at least 1.
Init ==
  /\ LoopInit /\ LinksInit
  /\ session_limit \in Sessions /\ session_limit * link_limit <= MaxTotalLinks
  /\ session_count = 0 /\ link_count = 0
  /\ session = [s \in Sessions |-> "none"]
  /\ created = 0

LocalOpen(s)  == Event("PN_SESSION_LOCAL_OPEN", s)
LocalClose(s) == Event("PN_SESSION_LOCAL_CLOSE", s)
CloseEvents   == {"PN_SESSION_REMOTE_CLOSE", "PN_SESSION_LOCAL_CLOSE"}

\* case PN_CONNECTION_INIT: open the connection and the first session.
ConnectionInit ==
  /\ Handles({"PN_CONNECTION_INIT"}, <<LocalOpen(1)>>)
  /\ conn' = "open"
  /\ session' = [session EXCEPT ![1] = "opening"]
  /\ UNCHANGED <<turn, interrupt, stop, armed, linkVars>>
  /\ UNCHANGED <<session_limit, session_count, link_count, created>>

Opened(s) == session[s] = "active"

\* case PN_SESSION_REMOTE_OPEN, PN_SESSION_LOCAL_OPEN: create the links once
\* both ends are open.
SessionOpen ==
  /\ Handles({"PN_SESSION_REMOTE_OPEN", "PN_SESSION_LOCAL_OPEN"}, <<>>)
  /\ LET s == Head(events).dlv IN
       IF Opened(s)
       THEN OpenLinks(LinksOf(s)) /\ created' = created + link_limit
       ELSE UNCHANGED <<link, granted, created>>
  /\ UNCHANGED <<turn, conn, interrupt, stop, armed, link_limit, unasked, credit, current, unwritten>>
  /\ UNCHANGED <<session_limit, session_count, link_count, session>>

MayStart(l) == link_count < link_limit /\ ~current[l] /\ credit[l] > 0

\* A delivery is created and a fragment of its message sent.  The exits on
\* errors are not taken: the link has no delivery, and takes the fragment.
start_message(l) ==
  /\ current' = [current EXCEPT ![l] = TRUE]
  /\ unwritten' = unwritten \union {l}

\* Slip: off by one.
Last_early(l) == MayStart(l) /\ link_count + 1 >= link_limit - 1

Last(l) == MayStart(l) /\ link_count + 1 = link_limit

\* case PN_LINK_FLOW: start_message() and, with the last one, the teardown.
FlowEvent ==
  \E l \in Links :
    /\ Handles({"PN_LINK_FLOW"}, IF Last(l) THEN <<LocalClose(l[1])>> ELSE <<>>)
    /\ l = Head(events).dlv
    /\ IF MayStart(l)
       THEN start_message(l) /\ link_count' = link_count + 1
       ELSE UNCHANGED <<current, unwritten, link_count>>
    /\ session' = IF ~Last(l) THEN session
         ELSE [session EXCEPT ![l[1]] = IF @ = "ended" THEN "closed" ELSE "closing"]
    /\ UNCHANGED <<turn, conn, interrupt, stop, armed, link_limit, unasked, link, granted, credit>>
    /\ UNCHANGED <<session_limit, session_count, created>>

\* pn_session_free() with the links of s, and a new session.  Freed twice,
\* the session may bring the program down.
Renew(s) ==
  LET new == 1 + Cardinality({t \in Sessions : session[t] # "none"})
      gone(f, x) == [l \in Links |-> IF l[1] = s THEN x ELSE f[l]] IN
  /\ Handles(CloseEvents, <<LocalOpen(new)>>)
  /\ turn' \in IF session[s] = "freed" THEN {turn, "failed"} ELSE {turn}
  /\ session' = [session EXCEPT ![s] = "freed", ![new] = "opening"]
  /\ link' = gone(link, "none") /\ credit' = gone(credit, 0) /\ current' = gone(current, FALSE)
  /\ unwritten' = {l \in unwritten : l[1] # s}
  /\ link_count' = 0
  /\ UNCHANGED <<stop, interrupt>>

\* Slip: the interrupt is sent, but it will not be taken for a stop.
Complete_keeps_running ==
  /\ Handles(CloseEvents, <<>>)
  /\ interrupt' = TRUE
  /\ UNCHANGED <<turn, stop, session, link, credit, current, unwritten, link_count>>

\* The last session is closed.
Complete ==
  /\ Handles(CloseEvents, <<>>)
  /\ stop' = TRUE /\ interrupt' = TRUE
  /\ UNCHANGED <<turn, session, link, credit, current, unwritten, link_count>>

BothClosed(s) == session[s] \in {"closed", "freed"}

\* case PN_SESSION_REMOTE_CLOSE, PN_SESSION_LOCAL_CLOSE: the session counts
\* once both ends are closed; go on with a new one, or stop.
SessionClose ==
  /\ turn = "batch" /\ events # <<>> /\ Head(events).type \in CloseEvents
  /\ LET s == Head(events).dlv IN
       \/ /\ BothClosed(s)
          /\ session_count' = session_count + 1
          /\ IF session_count' < session_limit THEN Renew(s) ELSE Complete
       \/ /\ ~BothClosed(s)
          /\ Handles(CloseEvents, <<>>)
          /\ UNCHANGED <<turn, stop, interrupt, session, link, credit, current, unwritten>>
          /\ UNCHANGED <<session_count, link_count>>
  /\ UNCHANGED <<conn, armed, link_limit, unasked, granted, session_limit, created>>

\* The main loop, and the handlers of the proactor's own events.
Main ==
  /\ BeginBatch \/ EndBatch \/ Inactive(TRUE)
  /\ UNCHANGED <<linkVars, ownVars>>

Interrupt == Interrupted(IF stop THEN "exit" ELSE "wait") /\ UNCHANGED <<linkVars, ownVars>>

SignalHandler == Signal(TRUE) /\ UNCHANGED <<linkVars, ownVars>>

-----------------------------------------------------------------------------
\* External: the transport and the peer.

\* The peer answers the begin of session s.
PeerBegins(s) ==
  /\ session[s] = "opening"
  /\ Reads(Event("PN_SESSION_REMOTE_OPEN", s))
  /\ session' = [session EXCEPT ![s] = "active"]
  /\ UNCHANGED <<linkVars, session_limit, session_count, link_count, created>>

\* The peer answers the end of session s, which follows its data, or ends it.
PeerEnds(s) ==
  /\ \/ session[s] = "closing" /\ unwritten \intersect LinksOf(s) = {}
     \/ session[s] = "active" /\ unasked
  /\ Reads(Event("PN_SESSION_REMOTE_CLOSE", s))
  /\ session' = [session EXCEPT ![s] = IF @ = "active" THEN "ended" ELSE "closed"]
  /\ UNCHANGED <<linkVars, session_limit, session_count, link_count, created>>

PeerFlow(l, n) == session[l[1]] \in {"active", "closing"} /\ PeerCredit(l, n) /\ UNCHANGED ownVars
Write(l)       == session[l[1]] \in {"active", "closing"} /\ LinkWrites(l) /\ UNCHANGED ownVars
PeerLeaves     == PeerDrops /\ UNCHANGED ownVars

Client == ConnectionInit \/ SessionOpen \/ FlowEvent \/ SessionClose \/ Main

Next ==
  \/ Client \/ Interrupt \/ SignalHandler \/ PeerLeaves
  \/ \E s \in Sessions : PeerBegins(s) \/ PeerEnds(s)
  \/ \E l \in Links : Write(l) \/ \E n \in 0..MaxCredit : PeerFlow(l, n)

-----------------------------------------------------------------------------
\* "messages in flight, closing session...": the client ends a session only
\* when each of its links has an unfinished message.  (Of a peer that ends no
\* session of its own accord: one that does may have the client free a session
\* twice and go on with two.)
ClosesInFlight ==
  ~unasked => \A s \in Sessions : session[s] = "closing" => \A l \in LinksOf(s) : current[l]

\* With such a peer nothing is freed twice and session_count is the
\* number of sessions that were opened and closed at both ends, every one
\* with link_limit links, and link_count the number of messages begun in the
\* current one.
CountsRight ==
  ~unasked =>
    /\ turn # "failed"
    /\ session_count = Cardinality({s \in Sessions : session[s] = "freed"})
         + (IF session_count = session_limit THEN 1 ELSE 0)
    /\ created = link_limit * Cardinality({s \in Sessions :
         session[s] = "freed" \/ \E l \in LinksOf(s) : link[l] # "none"})
    /\ link_count = Cardinality({l \in Links : current[l]})
=============================================================================
