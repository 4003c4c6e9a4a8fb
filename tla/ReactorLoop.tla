----------------------------- MODULE ReactorLoop -----------------------------
(***************************************************************************)
(* The single-threaded event loop every reactor-based benchmark client     *)
(* runs: `while (pn_reactor_process(reactor)) { ... }' in main(), the      *)
(* SIGINT/SIGQUIT handler, and the close handshake.  The reactor itself is *)
(* qpid-proton's and is external; what is stated here is what the clients  *)
(* rely on.                                                                *)
(*                                                                         *)
(* One call of pn_reactor_process() first dispatches the events left in    *)
(* the collector ("drain"), and once none is left selects and does I/O     *)
(* ("io").  All frames that arrive in one read are applied to the engine   *)
(* at once and their events are appended to the collector; only then does  *)
(* the call return true, the body of the main loop runs, and the next call *)
(* dispatches those events.  A handler therefore reads the remote state    *)
(* the engine has when the event is dispatched, not when it was raised.    *)
(***************************************************************************)
EXTENDS Collector

VARIABLES
  turn,       \* "drain" | "io": inside pn_reactor_process; "exit": it returned false
  conn,       \* "init" | "open" | "closing" (local close sent) | "closed"
  link,       \* "attached" | "detached": the peer closed the link
  collector,  \* events raised and not yet dispatched, oldest first
  stop,       \* the clients' global `stop' flag
  armed       \* the signal handler is installed (it resets itself to SIG_IGN)

loopVars == <<turn, conn, link, collector, stop, armed>>

-----------------------------------------------------------------------------
LoopInit ==
  /\ turn = "drain"
  /\ conn = "init"
  /\ link = "attached"
  /\ collector = <<ConnectionInitEvent>>
  /\ stop = FALSE
  /\ armed = TRUE

\* The oldest event is handed to event_handler() and popped.
Dispatch(type) ==
  /\ turn = "drain"
  /\ collector # <<>>
  /\ Head(collector).type = type
  /\ collector' = Tail(collector)

\* Frames are read, or state changes made, only while the reactor does I/O
\* on a transport that is still up.
Connected == turn = "io" /\ conn # "closed"

\* A frame of the peer about the link is read, raising one event.
Reads(event) ==
  /\ Connected
  /\ link = "attached"
  /\ collector' = Put(collector, event)
  /\ UNCHANGED <<turn, conn, link, stop, armed>>

\* No event left: select, or fall out of the loop once the transport is gone.
Quiesce ==
  /\ turn = "drain"
  /\ collector = <<>>
  /\ turn' = IF conn = "closed" THEN "exit" ELSE "io"
  /\ UNCHANGED <<conn, link, collector, stop, armed>>

\* pn_reactor_process() returns true (I/O done, timeout or wakeup) and the
\* body of the main loop runs: with `stop' set the endpoints are closed.
MainLoop ==
  /\ turn = "io"
  /\ turn' = "drain"
  /\ conn' = IF stop /\ conn = "open" THEN "closing" ELSE conn
  /\ UNCHANGED <<link, collector, stop, armed>>

\* signal_handler(): SIGINT or SIGQUIT, taken at any instant and only once.
Signal ==
  /\ turn # "exit"
  /\ armed
  /\ stop' = TRUE
  /\ armed' = FALSE
  /\ UNCHANGED <<turn, conn, link, collector>>

\* The peer closes the connection, or answers our close; the handshaker
\* closes the local end and the transport goes away.
PeerCloses ==
  /\ Connected
  /\ conn' = "closed"
  /\ UNCHANGED <<turn, link, collector, stop, armed>>

\* The peer detaches the link.  The handshaker detaches the local end; no
\* benchmark client handles PN_LINK_REMOTE_CLOSE.
PeerDetaches ==
  /\ Connected
  /\ link = "attached"
  /\ link' = "detached"
  /\ UNCHANGED <<turn, conn, collector, stop, armed>>

LoopTypeOK ==
  /\ turn \in {"drain", "io", "exit"}
  /\ conn \in {"init", "open", "closing", "closed"}
  /\ link \in {"attached", "detached"}
  /\ stop \in BOOLEAN
  /\ armed \in BOOLEAN
=============================================================================
