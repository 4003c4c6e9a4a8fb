---------------------------- MODULE ScaleReceiver ----------------------------
(***************************************************************************)
(* clients/scale/src/receiver.c: grant a window of credit, accept and      *)
(* settle every full message, top the credit up when less than half the    *)
(* window is left, close after `limit' messages (0: never).  There is no   *)
(* signal handler.  The peer, and what the engine knows of a delivery, are *)
(* those of Receiver.                                                      *)
(***************************************************************************)
EXTENDS ReactorLoop

CONSTANTS Limits, Windows, MaxMsgs, MayAbort

VARIABLES limit, credit_window, credit, arrived, partial, aborted, count

optVars  == <<limit, credit_window>>
peerVars == <<arrived, partial, aborted>>
vars == <<loopVars, optVars, peerVars, credit, count>>

Link == INSTANCE Receiver

Init == Link!Init

\* case PN_CONNECTION_INIT: open the endpoints and grant the window.
ConnectionInit == Link!ConnectionInit

\* Slip: compared before the message is settled.
TopUp_before_settling(left) == IF left + 1 < credit_window \div 2 THEN credit_window ELSE left

\* The credit after settling a message that left `left' credits.
TopUp(left) == IF left < credit_window \div 2 THEN credit_window ELSE left

\* case PN_DELIVERY with a full message: accept, settle, grant and, once,
\* close.  What arrives after the close is still accepted.
AcceptMessage(d) ==
  /\ Link!Readable(d) /\ ~Link!Partial(d)
  /\ count' = count + 1
  /\ credit' = TopUp(credit - 1)
  /\ conn' = IF limit > 0 /\ count' = limit /\ conn = "open" THEN "closing" ELSE conn

IgnoreDelivery(d) ==
  /\ ~Link!Readable(d) \/ Link!Partial(d)
  /\ UNCHANGED <<count, credit, conn>>

Delivery ==
  /\ Dispatch("PN_DELIVERY")
  /\ LET d == Head(collector).dlv IN AcceptMessage(d) \/ IgnoreDelivery(d)
  /\ UNCHANGED <<turn, link, stop, armed, optVars, peerVars>>

\* pn_reactor_process() and the empty loop around it.
Main == (Quiesce \/ MainLoop) /\ Link!Unaffected

Client == ConnectionInit \/ Delivery \/ Main

\* External: the peer.
PeerSends   == Link!PeerSends
PeerEnds    == Link!PeerEnds
PeerMore    == Link!PeerContinue(TRUE)
PeerLeaves  == Link!PeerClose \/ Link!PeerDetach
PeerAnswers == Link!PeerAnswers

Exited == turn = "exit" /\ UNCHANGED vars

Next == Client \/ PeerSends \/ PeerEnds \/ PeerMore \/ PeerLeaves \/ Exited

-----------------------------------------------------------------------------
\* The peer is never given more than the window; and a receiver that has
\* handled what arrived and waits for the network has settled every complete
\* message and left the peer credit for another one, except with a window of
\* 1, which half a window of 0 never tops up.
KeepsPace ==
  /\ credit <= credit_window
  /\ turn = "io" /\ conn = "open" /\ collector = <<>> =>
       /\ arrived = count \/ (partial /\ arrived = count + 1)
       /\ credit > 0 \/ credit_window = 1
=============================================================================
