----------------------------- MODULE OomReceiver -----------------------------
(***************************************************************************)
(* skupper-router/oomster/oom-receiver.c: open link_limit (links) links    *)
(* with credit on a session with a small incoming window, and never read   *)
(* what arrives, so that the session pushes back on the router.            *)
(***************************************************************************)
EXTENDS ProactorLinks

CONSTANTS
  Word,         \* 2^32: values of a uint32_t
  FrameLimits,  \* values of per_link_session_frames (-W)
  Window        \* credit_window (-w)

VARIABLES
  per_link_session_frames,
  incoming,   \* frames the session window holds
  held        \* frames that arrived and are not read

ownVars == <<per_link_session_frames, incoming, held>>
vars == <<loopVars, linkVars, ownVars>>

\* main(): -l and -w are at least 1, -W at least 2.
Init ==
  /\ LoopInit /\ LinksInit
  /\ per_link_session_frames \in FrameLimits
  /\ incoming = 0 /\ held = 0

\* The product of two 32-bit numbers; assert(window >= 2).
SessionWindow == (per_link_session_frames * link_limit) % Word

\* case PN_CONNECTION_BOUND: open the endpoints and grant the credit.
ConnectionBound ==
  /\ Handles({"PN_CONNECTION_INIT"}, <<>>)
  /\ IF SessionWindow >= 2
     THEN /\ conn' = "open"
          /\ incoming' = SessionWindow
          /\ link' = [l \in Links |-> IF l \in LinksOf(1) THEN "open" ELSE "none"]
          /\ credit' = [l \in Links |-> IF l \in LinksOf(1) THEN Window ELSE 0]
          /\ UNCHANGED turn
     ELSE turn' = "failed" /\ UNCHANGED <<conn, incoming, link, credit>>
  /\ UNCHANGED <<interrupt, stop, armed, link_limit, unasked, granted, current, unwritten>>
  /\ UNCHANGED <<per_link_session_frames, held>>

\* Slip: what arrives is read.
Read_all == 0

\* "Do nothing!  Let link buffers fill until the session backpressures the
\* router."  What is held after a delivery event.
Read == held

\* case PN_DELIVERY; by default a detach by the peer is not looked at.
Delivery ==
  /\ Handles({"PN_DELIVERY", "PN_LINK_REMOTE_CLOSE"}, <<>>)
  /\ held' = Read
  /\ UNCHANGED <<turn, conn, interrupt, stop, armed, linkVars, per_link_session_frames, incoming>>

\* The main loop, and the handlers of the proactor's own events.
Main ==
  /\ BeginBatch \/ EndBatch \/ Inactive(FALSE)
  /\ UNCHANGED <<linkVars, ownVars>>

SignalHandler == Signal(TRUE) /\ UNCHANGED <<linkVars, ownVars>>

\* PN_PROACTOR_INTERRUPT: assert(stop).
Interrupt == Interrupted(IF stop THEN "exit" ELSE "failed") /\ UNCHANGED <<linkVars, ownVars>>

-----------------------------------------------------------------------------
\* External: the peer.  A frame, of a message that has begun or can begin.
MayTransfer(l) ==
  /\ link[l] = "open" /\ held < incoming
  /\ current[l] \/ credit[l] > 0

PeerTransfers(l, more) ==
  /\ MayTransfer(l)
  /\ Reads(Event("PN_DELIVERY", l))
  /\ held' = held + 1
  /\ current' = [current EXCEPT ![l] = more]
  /\ credit' = IF more THEN credit ELSE [credit EXCEPT ![l] = @ - 1]
  /\ UNCHANGED <<link_limit, unasked, link, granted, unwritten, per_link_session_frames, incoming>>

PeerCloses(l) == PeerDetaches(l) /\ UNCHANGED ownVars
PeerLeaves    == PeerDrops /\ UNCHANGED ownVars

Client == ConnectionBound \/ Delivery \/ Main

Next ==
  \/ Client \/ Interrupt \/ SignalHandler \/ PeerLeaves
  \/ \E l \in Links : PeerCloses(l) \/ \E more \in BOOLEAN : PeerTransfers(l, more)

-----------------------------------------------------------------------------
\* The router can send nothing more.
PushedBack == \A l \in Links : ~MayTransfer(l)
=============================================================================
