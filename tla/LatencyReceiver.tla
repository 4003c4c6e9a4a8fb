--------------------------- MODULE LatencyReceiver ---------------------------
(***************************************************************************)
(* benchmarks/clients/src/latency-receiver.c: receive as receiver.c does,  *)
(* and read from each message the time it was sent.  A message that cannot *)
(* be read, or has no plausible time stamp, ends the program.  The sums of *)
(* the latencies are left out.  The peer, and what the engine knows of a   *)
(* delivery, are those of Receiver.                                        *)
(***************************************************************************)
EXTENDS ReactorLoop

CONSTANTS Limits, Windows, MaxMsgs, MayAbort

VARIABLES limit, credit_window, credit, arrived, partial, aborted, count

optVars  == <<limit, credit_window>>
peerVars == <<arrived, partial, aborted>>
vars == <<loopVars, optVars, peerVars, credit, count>>

Link == INSTANCE Receiver

Init == Link!Init

\* case PN_CONNECTION_INIT: open the endpoints and grant the window.
ConnectionInit == Link!ConnectionInit

\* case PN_DELIVERY with a full message that is as it should be: accept and
\* settle it, then stop or grant.
AcceptMessage(d) ==
  /\ d \notin aborted
  /\ Link!AcceptMessage(d)
  /\ UNCHANGED turn

\* exit(-1): the message is too large, or pn_link_recv() says that it is
\* aborted (both before it is settled); or it cannot be decoded, or its time
\* stamp is missing or lies in the future (settled by then).
FatalMessage(d) ==
  /\ ~Link!AtLimit /\ Link!Readable(d) /\ ~Link!Partial(d)
  /\ count' = count + 1
  /\ credit' \in IF d \in aborted THEN {credit} ELSE {credit, credit - 1}
  /\ turn' = "failed"
  /\ UNCHANGED stop

\* case PN_DELIVERY otherwise: past the limit, or the message is not complete.
IgnoreDelivery(d) == Link!IgnoreDelivery(d) /\ UNCHANGED turn

Delivery ==
  /\ Dispatch("PN_DELIVERY")
  /\ LET d == Head(collector).dlv IN AcceptMessage(d) \/ FatalMessage(d) \/ IgnoreDelivery(d)
  /\ UNCHANGED <<conn, link, armed, optVars, peerVars>>

\* main(): pn_reactor_process(), the loop body, the signal handler.
Main          == (Quiesce \/ MainLoop) /\ Link!Unaffected
SignalHandler == turn # "failed" /\ Signal /\ Link!Unaffected

Client == ConnectionInit \/ Delivery \/ Main

\* External: the peer.
PeerSends   == Link!PeerSends
PeerEnds    == Link!PeerEnds
PeerMore    == Link!PeerContinue(TRUE)
PeerLeaves  == Link!PeerClose \/ Link!PeerDetach
PeerAnswers == Link!PeerAnswers

Ended  == turn \in {"exit", "failed"}
Exited == Ended /\ UNCHANGED vars

Next == Client \/ SignalHandler \/ PeerSends \/ PeerEnds \/ PeerMore \/ PeerLeaves \/ Exited

-----------------------------------------------------------------------------
\* The peer is kept within the window and above half of it, no complete
\* message is forgotten and, while the program lives, none that was aborted
\* has been counted.
KeepsPace ==
  /\ Link!WindowRespected
  /\ turn # "failed" => Link!NeverStarves /\ Link!NoMessageForgotten /\ aborted \intersect (1..count) = {}
=============================================================================
