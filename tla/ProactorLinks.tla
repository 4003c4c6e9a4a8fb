---------------------------- MODULE ProactorLinks ----------------------------
(***************************************************************************)
(* What the proactor clients that open many links share: the main loop     *)
(* (`wait for a batch of events, handle each, leave when the handler says  *)
(* so'), the signal handler, and proton's view of a set of links.  Proton  *)
(* and the peer are external.                                              *)
(*                                                                         *)
(* Frames are read between batches and raise events; the handlers read the *)
(* state the engine has when the event is handled.                         *)
(***************************************************************************)
EXTENDS Collector, FiniteSets

CONSTANTS
  MaxSessions, MaxLinks,  \* bounds: sessions, links of a session
  MaxCredit,              \* bound: credit the peer grants to one link in all
  MaxEvents               \* bound: events raised by one read

ASSUME ProactorLinksAssumption ==
  /\ MaxSessions \in Nat \ {0} /\ MaxLinks \in Nat \ {0}
  /\ MaxCredit \in Nat /\ MaxEvents \in Nat \ {0}

VARIABLES
  turn,        \* "wait", "batch", "exit", "failed" (an assertion, a crash), "spin"
  conn,        \* "init", "open", "closed": the transport is gone
  events,      \* raised and not yet handled
  interrupt,   \* pn_proactor_interrupt() has been called
  stop, armed,
  link_limit,  \* command line -l
  unasked,     \* the peer may close a link or a session of its own accord
  link,        \* "none", "open", "closing" (by us), "detached" (by the peer), "closed"
  granted, credit,
  current,     \* pn_link_current(): a delivery is being sent or received
  unwritten    \* links with data the transport has not written

loopVars == <<turn, conn, events, interrupt, stop, armed>>
linkVars == <<link_limit, unasked, link, granted, credit, current, unwritten>>

Sessions == 1..MaxSessions
Links    == Sessions \X (1..MaxLinks)

\* The links of a session that the client opens.
LinksOf(s) == {s} \X (1..link_limit)

FlowOn(l) == Event("PN_LINK_FLOW", l)

LoopInit ==
  /\ turn = "wait" /\ conn = "init"
  /\ events = <<ConnectionInitEvent>>
  /\ interrupt = FALSE /\ stop = FALSE /\ armed = TRUE

LinksInit ==
  /\ link_limit \in 1..MaxLinks
  /\ unasked \in BOOLEAN
  /\ link = [l \in Links |-> "none"]
  /\ granted = [l \in Links |-> 0] /\ credit = [l \in Links |-> 0]
  /\ current = [l \in Links |-> FALSE]
  /\ unwritten = {}

\* Fresh links `ls' are opened.
OpenLinks(ls) ==
  /\ link' = [l \in Links |-> IF l \in ls THEN "open" ELSE link[l]]
  /\ granted' = [l \in Links |-> IF l \in ls THEN 0 ELSE granted[l]]

Active(l)      == link[l] \in {"open", "detached"}   \* PN_LOCAL_ACTIVE
Closed(state)  == IF state = "open" THEN "closing" ELSE IF state = "detached" THEN "closed" ELSE state

-----------------------------------------------------------------------------
\* The main loop.

BeginBatch ==
  /\ turn = "wait" /\ events # <<>>
  /\ turn' = "batch"
  /\ UNCHANGED <<conn, events, interrupt, stop, armed>>

EndBatch ==
  /\ turn = "batch" /\ events = <<>>
  /\ turn' = "wait"
  /\ UNCHANGED <<conn, events, interrupt, stop, armed>>

\* The oldest event is of one of these types; handling it raises others.
Handles(types, raised) ==
  /\ turn = "batch" /\ events # <<>>
  /\ Head(events).type \in types
  /\ events' = Tail(events) \o raised

\* PN_PROACTOR_INTERRUPT; `next' is what the handler makes of it.
Interrupted(next) ==
  /\ turn = "wait" /\ interrupt
  /\ interrupt' = FALSE
  /\ turn' = next
  /\ UNCHANGED <<conn, events, stop, armed>>

\* PN_PROACTOR_INACTIVE: no connection is left; some clients set `stop'.
Inactive(stops) ==
  /\ turn = "wait" /\ conn = "closed" /\ events = <<>>
  /\ turn' = "exit"
  /\ stop' = (stop \/ stops)
  /\ UNCHANGED <<conn, events, interrupt, armed>>

\* signal_handler(), at any instant; some clients set `stop'.
Signal(stops) ==
  /\ turn \in {"wait", "batch"} /\ armed
  /\ armed' = FALSE
  /\ stop' = (stop \/ stops)
  /\ interrupt' = TRUE
  /\ UNCHANGED <<turn, conn, events>>

Ended == turn \in {"exit", "failed"}

-----------------------------------------------------------------------------
\* The transport and the peer.

Reads(event) ==
  /\ turn = "wait" /\ conn = "open"
  /\ Len(events) < MaxEvents
  /\ events' = Put(events, event)
  /\ UNCHANGED <<turn, conn, interrupt, stop, armed>>

PeerDrops ==
  /\ turn = "wait" /\ conn = "open"
  /\ conn' = "closed"
  /\ UNCHANGED <<turn, events, interrupt, stop, armed, linkVars>>

\* A flow frame with n credits (0: the peer only echoes its state).
PeerCredit(l, n) ==
  /\ link[l] \in {"open", "closing"}
  /\ granted[l] + n <= MaxCredit
  /\ Reads(FlowOn(l))
  /\ granted' = [granted EXCEPT ![l] = @ + n]
  /\ credit' = [credit EXCEPT ![l] = @ + n]
  /\ UNCHANGED <<link_limit, unasked, link, current, unwritten>>

\* The transport writes a link's data, and tells the link.
LinkWrites(l) ==
  /\ l \in unwritten /\ link[l] \in {"open", "closing"}
  /\ Reads(FlowOn(l))
  /\ unwritten' = unwritten \ {l}
  /\ UNCHANGED <<link_limit, unasked, link, granted, credit, current>>

\* The peer answers a detach, which follows the link's data, or detaches.
PeerDetaches(l) ==
  /\ \/ link[l] = "closing" /\ l \notin unwritten
     \/ link[l] = "open" /\ unasked
  /\ Reads(Event("PN_LINK_REMOTE_CLOSE", l))
  /\ link' = [link EXCEPT ![l] = IF @ = "open" THEN "detached" ELSE "closed"]
  /\ UNCHANGED <<link_limit, unasked, granted, credit, current, unwritten>>
=============================================================================
