------------------------------ MODULE Receiver ------------------------------
(***************************************************************************)
(* benchmarks/clients/src/receiver.c: grant a window of credit, accept and *)
(* settle every message that is not partial, top the credit up when half   *)
(* the window is used, stop after `limit' messages (0: never).             *)
(*                                                                         *)
(* Deliveries are numbered in the order they arrive and are settled in     *)
(* that order, so 1..count are the settled ones.  The peer is external: a  *)
(* message may come in several transfer frames, and its sender may abort   *)
(* it half way.                                                            *)
(***************************************************************************)
EXTENDS ReactorLoop

CONSTANTS
  Limits,    \* the values of -c to consider
  Windows,   \* the values of -w to consider
  MaxMsgs,   \* bound: messages the peer sends in all
  MayAbort   \* the peer may abort a message it has begun

ASSUME ReceiverAssumption ==
  /\ Limits \subseteq Nat
  /\ Windows \subseteq Nat \ {0}
  /\ MaxMsgs \in Nat
  /\ MayAbort \in BOOLEAN

VARIABLES
  limit, credit_window,  \* command line: -c, -w
  credit,                \* pn_link_credit(): the queued messages included
  arrived,               \* deliveries begun by the peer
  partial,               \* the last of them is not complete
  aborted,               \* those the peer has aborted
  count                  \* messages accepted and settled

optVars  == <<limit, credit_window>>
peerVars == <<arrived, partial, aborted>>
vars == <<loopVars, optVars, peerVars, credit, count>>

Unaffected == UNCHANGED <<optVars, peerVars, credit, count>>

Messages == 1..MaxMsgs

-----------------------------------------------------------------------------
Init ==
  /\ LoopInit
  /\ limit \in Limits
  /\ credit_window \in Windows
  /\ credit = 0
  /\ arrived = 0
  /\ partial = FALSE
  /\ aborted = {}
  /\ count = 0

\* case PN_CONNECTION_INIT: open the endpoints and grant the window.
ConnectionInit ==
  /\ Dispatch("PN_CONNECTION_INIT")
  /\ conn' = "open"
  /\ credit' = credit_window
  /\ UNCHANGED <<turn, link, stop, armed, optVars, peerVars, count>>

AtLimit == limit > 0 /\ count = limit

\* Slip: looks at the link instead of at the delivery.
Partial_of_link(d) == partial

\* pn_delivery_readable: the link's current delivery.  An aborted delivery
\* is not partial.
Readable(d) == d = count + 1 /\ d <= arrived
Partial(d)  == partial /\ d = arrived

\* Slips: topped up only below half the window; the whole window is granted.
TopUp_below_half(left)  == IF left < credit_window \div 2 THEN credit_window ELSE left
TopUp_adds_window(left) == IF left <= credit_window \div 2 THEN left + credit_window ELSE left

\* The credit after settling a message that left `left' credits: at half the
\* window or less, pn_link_flow brings it back to the window.  (`grant',
\* which the code computes and clips to the messages still wanted, is never
\* zero here and is only tested.)
TopUp(left) == IF left <= credit_window \div 2 THEN credit_window ELSE left

\* Slip: the partial test is missing.
AcceptMessage_partial_too(d) ==
  /\ ~AtLimit /\ Readable(d)
  /\ count' = count + 1
  /\ LET done == limit > 0 /\ count' = limit IN
       /\ stop' = (stop \/ done)
       /\ credit' = IF done THEN credit - 1 ELSE TopUp(credit - 1)

\* Slip: the link is advanced before the delivery is settled.
AcceptMessage_advances_twice(d) ==
  /\ ~AtLimit /\ Readable(d) /\ ~Partial(d)
  /\ count' = count + 1
  /\ LET done == limit > 0 /\ count' = limit IN
       /\ stop' = (stop \/ done)
       /\ credit' = IF done THEN credit - 2 ELSE TopUp(credit - 2)

\* case PN_DELIVERY with a message that has ended, an aborted one included:
\* accept and settle it (credit goes down by one), then stop or grant.
AcceptMessage(d) ==
  /\ ~AtLimit /\ Readable(d) /\ ~Partial(d)
  /\ count' = count + 1
  /\ LET done == limit > 0 /\ count' = limit IN
       /\ stop' = (stop \/ done)
       /\ credit' = IF done THEN credit - 1 ELSE TopUp(credit - 1)

\* case PN_DELIVERY otherwise: past the limit, or the message is not complete.
IgnoreDelivery(d) ==
  /\ AtLimit \/ ~Readable(d) \/ Partial(d)
  /\ UNCHANGED <<stop, count, credit>>

Delivery ==
  /\ Dispatch("PN_DELIVERY")
  /\ LET d == Head(collector).dlv IN AcceptMessage(d) \/ IgnoreDelivery(d)
  /\ UNCHANGED <<turn, conn, link, armed, optVars, peerVars>>

\* Slip: a receiver without a limit has nothing to finish.
Main_closes_at_limit ==
  /\ turn = "io"
  /\ turn' = "drain"
  /\ conn' = IF stop /\ limit > 0 /\ conn = "open" THEN "closing" ELSE conn
  /\ UNCHANGED <<link, collector, stop, armed>>
  /\ Unaffected

\* main(): the end of a round of events, the loop body, the signal handler.
ReactorQuiesce == Quiesce /\ Unaffected
Main           == MainLoop /\ Unaffected
SignalHandler  == Signal /\ Unaffected

-----------------------------------------------------------------------------
\* External: the peer.

\* The first transfer frame of a message, using one credit; `more' to follow.
PeerTransfer(more) ==
  /\ Reads(DeliveryEvent(arrived + 1))
  /\ ~partial
  /\ arrived < MaxMsgs
  /\ arrived - count < credit
  /\ arrived' = arrived + 1
  /\ partial' = more
  /\ UNCHANGED <<optVars, aborted, credit, count>>

\* A later transfer frame of the message: not yet, or at last, the last one.
PeerContinue(more) ==
  /\ Reads(DeliveryEvent(arrived))
  /\ partial
  /\ partial' = more
  /\ UNCHANGED <<optVars, arrived, aborted, credit, count>>

\* The message is aborted.
PeerAbort ==
  /\ MayAbort
  /\ Reads(DeliveryEvent(arrived))
  /\ partial
  /\ partial' = FALSE
  /\ aborted' = aborted \union {arrived}
  /\ UNCHANGED <<optVars, arrived, credit, count>>

PeerClose  == PeerCloses /\ Unaffected
PeerDetach == PeerDetaches /\ Unaffected

-----------------------------------------------------------------------------
Client == ConnectionInit \/ Delivery \/ ReactorQuiesce \/ Main

Peer ==
  \/ \E more \in BOOLEAN : PeerTransfer(more) \/ PeerContinue(more)
  \/ PeerAbort
  \/ PeerClose
  \/ PeerDetach

\* main() has returned.
Exited == turn = "exit" /\ UNCHANGED vars

Next == Client \/ SignalHandler \/ Peer \/ Exited

Spec == Init /\ [][Next]_vars

\* The client is one thread that is never blocked while it has work.  A peer
\* that is up sends while it has credit, completes or aborts what it began,
\* and answers a close.
PeerSends    == \E more \in BOOLEAN : PeerTransfer(more)
PeerEnds     == PeerContinue(FALSE) \/ PeerAbort
PeerAnswers  == conn = "closing" /\ PeerClose

Fairness ==
  /\ WF_vars(Client)
  /\ SF_vars(PeerSends)
  /\ SF_vars(PeerEnds)
  /\ SF_vars(PeerAnswers)

FairSpec == Spec /\ Fairness

-----------------------------------------------------------------------------
Events == [type : {"PN_CONNECTION_INIT"}, dlv : {0}] \union [type : {"PN_DELIVERY"}, dlv : Messages]

\* Counters, flags and queue stay in their types.
TypeOK ==
  /\ LoopTypeOK
  /\ collector \in Seq(Events)
  /\ limit \in Limits /\ credit_window \in Windows
  /\ credit \in Nat
  /\ arrived \in 0..MaxMsgs /\ partial \in BOOLEAN /\ aborted \subseteq Messages
  /\ count \in Nat

\* The peer is never given more than the window, messages waiting to be
\* handled included, and what it sent fits the credit it has.
WindowRespected ==
  /\ credit <= credit_window
  /\ count <= arrived
  /\ arrived - count <= credit

\* A message is counted only when the peer has ended it, by its last frame or
\* by an abort, and never more than -c of them: a message in several frames
\* is not taken for one message per frame.  pn_delivery_partial is all that
\* is asked, so an aborted message is accepted and counted like a full one.
OnlyEndedMessages ==
  /\ partial => count < arrived
  /\ limit > 0 => count <= limit

\* A receiver that waits for the network while it wants messages has left
\* the peer credit to send one, for every window down to 1.
NeverStarves ==
  turn = "io" /\ conn = "open" /\ ~AtLimit => credit > credit_window \div 2

\* When the events are handled no ended message is left unsettled, unless
\* the limit is reached: each one found its event when it was current.
NoMessageForgotten ==
  (turn # "drain" /\ collector = <<>>) =>
     AtLimit \/ arrived = count \/ (partial /\ arrived = count + 1)

-----------------------------------------------------------------------------
\* The inductive invariant behind the properties above.

\* The event that opens the connection is handled before anything else.
OpensFirst == conn = "init" => turn = "drain" /\ collector = <<ConnectionInitEvent>>

\* Once the window is granted, more than half of it stays granted.
HalfWindow == conn # "init" /\ ~AtLimit => credit > credit_window \div 2

\* Delivery events wait in the order of their deliveries, all begun.
InOrder ==
  /\ \A i \in 1..Len(collector) : collector[i].dlv <= arrived
  /\ \A i, j \in 1..Len(collector) : i < j => collector[i].dlv <= collector[j].dlv

\* An ended message that is not settled has its event waiting.
HasEvent ==
  ~AtLimit => \A d \in Messages :
    count < d /\ d <= arrived /\ ~Partial(d) => Queued(DeliveryEvent(d), collector)

ReceiverInv ==
  /\ TypeOK /\ WindowRespected /\ OnlyEndedMessages
  /\ OpensFirst /\ HalfWindow /\ InOrder /\ HasEvent

-----------------------------------------------------------------------------
\* "don't grant more than we want to receive" (receiver.c): a top-up is not
\* larger than the number of messages still wanted.
GrantsOnlyWanted ==
  [][limit > 0 /\ count' = count + 1 /\ credit' >= credit
       => credit' - (credit - 1) <= limit - count']_vars

\* A receiver with a limit ends, unless the peer detaches its link; and once
\* stopped, by a signal or by the limit, it exits in any case.
Terminates ==
  /\ (limit > 0) ~> (turn = "exit" \/ link = "detached")
  /\ stop ~> (turn = "exit")
=============================================================================
