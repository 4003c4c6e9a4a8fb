------------------------- MODULE ThroughputReceiver -------------------------
(***************************************************************************)
(* benchmarks/clients/src/throughput-receiver.c: receive as receiver.c     *)
(* does, and report the rate over the time from the first message to the   *)
(* last one or to the signal.  With -S the program listens, takes the      *)
(* first connection, and waits for its peer to open a session and a link.  *)
(* With -B it reads the messages to count their bytes (which are left      *)
(* out).  The peer's messages, and what the engine knows of a delivery,    *)
(* are those of Receiver; a peer that opens a second session or link, at   *)
(* which an assertion stops the program, is left out.                      *)
(***************************************************************************)
EXTENDS ReactorLoop

CONSTANTS Limits, Windows, MaxMsgs, MayAbort,
  MaxConnects  \* bound: connections made to the listener

VARIABLES
  limit, credit_window, credit, arrived, partial, aborted, count,
  server_mode, bytes_throughput,
  connects,    \* connections made to the listener
  acceptor,    \* "none", "listening", "closed", "freed": the pointer dangles
  endpoints,   \* "none", "session" (pn_ssn is set), "link" (pn_link too)
  stamps       \* "start_ts" and "stop_ts", in the order they are taken

\* `conn' is also "none" (no connection yet) and "gone" (pn_conn dangles), and
\* `turn' also "failed" (a crash) and "spin" (the thread never returns).
optVars    == <<limit, credit_window>>
peerVars   == <<arrived, partial, aborted>>
modeVars   == <<server_mode, bytes_throughput>>
serverVars == <<connects, acceptor, endpoints>>
ownVars    == <<modeVars, serverVars, stamps>>
vars == <<loopVars, optVars, peerVars, credit, count, ownVars>>

Link == INSTANCE Receiver

Take(ts) == IF \E i \in 1..Len(stamps) : stamps[i] = ts THEN stamps ELSE Append(stamps, ts)

\* main(): connect, or listen.
Init ==
  /\ turn = "drain" /\ link = "attached" /\ stop = FALSE /\ armed = TRUE
  /\ server_mode \in BOOLEAN /\ bytes_throughput \in BOOLEAN
  /\ conn = IF server_mode THEN "none" ELSE "init"
  /\ collector = IF server_mode THEN <<>> ELSE <<ConnectionInitEvent>>
  /\ limit \in Limits /\ credit_window \in Windows
  /\ credit = 0 /\ count = 0
  /\ arrived = 0 /\ partial = FALSE /\ aborted = {}
  /\ connects = 0
  /\ acceptor = IF server_mode THEN "listening" ELSE "none"
  /\ endpoints = "none"
  /\ stamps = <<>>

-----------------------------------------------------------------------------
\* handle_delivery(), for both kinds of connection.

\* A full message: take the time, accept, settle, then stop or grant.
AcceptMessage(d) ==
  /\ bytes_throughput => d \notin aborted
  /\ Link!AcceptMessage(d)
  /\ stamps' = LET first == Take("start_ts") IN
       IF limit > 0 /\ count' = limit /\ ~(\E i \in 1..Len(first) : first[i] = "stop_ts")
       THEN Append(first, "stop_ts") ELSE first
  /\ UNCHANGED turn

\* With -B, pn_link_recv() of an aborted message never says PN_EOS.
ReadForever(d) ==
  /\ bytes_throughput /\ d \in aborted
  /\ ~Link!AtLimit /\ Link!Readable(d)
  /\ count' = count + 1
  /\ stamps' = Take("start_ts")
  /\ turn' = "spin"
  /\ UNCHANGED <<stop, credit>>

IgnoreDelivery(d) == Link!IgnoreDelivery(d) /\ UNCHANGED <<turn, stamps>>

Delivery ==
  /\ Dispatch("PN_DELIVERY")
  /\ LET d == Head(collector).dlv IN AcceptMessage(d) \/ ReadForever(d) \/ IgnoreDelivery(d)
  /\ UNCHANGED <<conn, link, armed, optVars, peerVars, modeVars, serverVars>>

\* outgoing_conn_event_handler(), PN_CONNECTION_INIT.
ConnectionInit ==
  /\ ~server_mode
  /\ Link!ConnectionInit
  /\ endpoints' = "link"
  /\ UNCHANGED <<modeVars, connects, acceptor, stamps>>

-----------------------------------------------------------------------------
\* The handlers of server mode.

\* acceptor_event_handler(): the first connection is taken, others rejected.
AcceptorInit ==
  /\ server_mode
  /\ Dispatch("PN_CONNECTION_INIT")
  /\ conn' = IF conn = "none" THEN "init" ELSE conn
  /\ UNCHANGED <<turn, link, stop, armed, ownVars>> /\ Link!Unaffected

\* incoming_conn_event_handler().
SessionRemoteOpen ==
  /\ Dispatch("PN_SESSION_REMOTE_OPEN")
  /\ endpoints' = "session"
  /\ UNCHANGED <<turn, conn, link, stop, armed, modeVars, connects, acceptor, stamps>> /\ Link!Unaffected

LinkRemoteOpen ==
  /\ Dispatch("PN_LINK_REMOTE_OPEN")
  /\ endpoints' = "link"
  /\ credit' = credit_window
  /\ UNCHANGED <<turn, conn, link, stop, armed, optVars, peerVars, count>>
  /\ UNCHANGED <<modeVars, connects, acceptor, stamps>>

\* pn_acceptor_close(); when the acceptor is freed it may do nothing or crash.
CloseAcceptor == acceptor' = IF acceptor = "listening" THEN "closed" ELSE acceptor
Outcomes(next, dangling) == IF dangling THEN {next, "failed"} ELSE {next}

ConnectionRemoteClose ==
  /\ Dispatch("PN_CONNECTION_REMOTE_CLOSE")
  /\ stamps' = Take("stop_ts")
  /\ CloseAcceptor
  /\ turn' \in Outcomes(turn, acceptor = "freed")
  /\ UNCHANGED <<conn, link, stop, armed, modeVars, connects, endpoints>> /\ Link!Unaffected

-----------------------------------------------------------------------------
\* main().

\* pn_reactor_process(): when the events are handled, what is closed is freed;
\* with neither a connection nor a listener left the loop ends.
ReactorQuiesce ==
  /\ turn = "drain" /\ collector = <<>>
  /\ turn' = IF conn \in {"none", "closed", "gone"} /\ acceptor # "listening" THEN "exit" ELSE "io"
  /\ conn' = IF server_mode /\ conn = "closed" THEN "gone" ELSE conn
  /\ acceptor' = IF acceptor = "closed" THEN "freed" ELSE acceptor
  /\ UNCHANGED <<link, collector, stop, armed, modeVars, connects, endpoints, stamps>> /\ Link!Unaffected

\* The loop body: with `stop' set, close everything there is or was.
Main ==
  /\ turn = "io"
  /\ turn' \in Outcomes("drain", stop /\ (acceptor = "freed" \/ conn = "gone"))
  /\ conn' = IF stop /\ conn \in {"init", "open"} THEN "closing" ELSE conn
  /\ IF stop THEN CloseAcceptor ELSE UNCHANGED acceptor
  /\ UNCHANGED <<link, collector, stop, armed, modeVars, connects, endpoints, stamps>> /\ Link!Unaffected

\* signal_handler(): stop, and stop the clock.  It does not help a thread that
\* never returns.
SignalHandler ==
  /\ turn # "failed"
  /\ Signal
  /\ stamps' = Take("stop_ts")
  /\ UNCHANGED <<modeVars, serverVars>> /\ Link!Unaffected

Client ==
  \/ ConnectionInit \/ Delivery \/ ReactorQuiesce \/ Main
  \/ AcceptorInit \/ SessionRemoteOpen \/ LinkRemoteOpen \/ ConnectionRemoteClose

-----------------------------------------------------------------------------
\* External: the peer.
Up == conn \in {"init", "open", "closing"}

PeerConnects ==
  /\ turn = "io" /\ acceptor = "listening" /\ connects < MaxConnects
  /\ connects' = connects + 1
  /\ collector' = Append(collector, Event("PN_CONNECTION_INIT", connects'))
  /\ UNCHANGED <<turn, conn, link, stop, armed, modeVars, acceptor, endpoints, stamps>> /\ Link!Unaffected

\* The peer's open, which the handshaker answers.
PeerOpens ==
  /\ turn = "io" /\ conn = "init"
  /\ conn' = "open"
  /\ UNCHANGED <<turn, link, collector, stop, armed, ownVars>> /\ Link!Unaffected

SessionEvent == Event("PN_SESSION_REMOTE_OPEN", 0)
LinkEvent    == Event("PN_LINK_REMOTE_OPEN", 0)

PeerBegins ==
  /\ server_mode /\ conn = "open" /\ endpoints = "none" /\ ~Queued(SessionEvent, collector)
  /\ Reads(SessionEvent)
  /\ UNCHANGED ownVars /\ Link!Unaffected

PeerAttaches ==
  /\ server_mode /\ conn = "open" /\ endpoints # "link" /\ ~Queued(LinkEvent, collector)
  /\ endpoints = "session" \/ Queued(SessionEvent, collector)
  /\ Reads(LinkEvent)
  /\ UNCHANGED ownVars /\ Link!Unaffected

\* The peer closes, or answers a close; in server mode the program is told.
PeerClosing ==
  /\ turn = "io" /\ Up
  /\ conn' = "closed"
  /\ collector' = IF server_mode THEN Append(collector, Event("PN_CONNECTION_REMOTE_CLOSE", 0)) ELSE collector
  /\ UNCHANGED <<turn, link, stop, armed, ownVars>> /\ Link!Unaffected

\* The connection is lost.
PeerDrops ==
  /\ turn = "io" /\ Up
  /\ conn' = "closed"
  /\ UNCHANGED <<turn, link, collector, stop, armed, ownVars>> /\ Link!Unaffected

PeerSends   == Up /\ Link!PeerSends /\ UNCHANGED ownVars
PeerEnds    == Up /\ Link!PeerEnds /\ UNCHANGED ownVars
PeerMore    == Up /\ Link!PeerContinue(TRUE) /\ UNCHANGED ownVars
PeerDetach  == Up /\ Link!PeerDetach /\ UNCHANGED ownVars
PeerAnswers == conn = "closing" /\ PeerClosing
PeerLeaves  == PeerClosing \/ PeerDrops \/ PeerDetach
PeerSetsUp  == PeerConnects \/ PeerOpens \/ PeerBegins \/ PeerAttaches

Ended  == turn \in {"exit", "failed"}
Exited == (Ended \/ turn = "spin") /\ UNCHANGED vars

Next == Client \/ SignalHandler \/ PeerSetsUp \/ PeerSends \/ PeerEnds \/ PeerMore \/ PeerLeaves \/ Exited

-----------------------------------------------------------------------------
\* The peer is kept within the window and, once the link is open, above half
\* of it, and no complete message is forgotten.  A transfer that ends without
\* a signal, with the last message wanted or, in server mode, with the close
\* of the peer, is measured from its first message to its end.
KeepsPace ==
  /\ Link!WindowRespected
  /\ endpoints = "link" => Link!NeverStarves
  /\ turn # "failed" => Link!NoMessageForgotten
  /\ turn = "exit" /\ count > 0 /\ armed /\ (server_mode \/ Link!AtLimit)
       => stamps = <<"start_ts", "stop_ts">>

\* The program waits for a peer whose connection was lost: it listens, but
\* takes no second connection.
Abandoned == conn = "gone" /\ acceptor = "listening"
=============================================================================
