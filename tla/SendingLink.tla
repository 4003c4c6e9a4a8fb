---------------------------- MODULE SendingLink ----------------------------
(***************************************************************************)
(* The sender's end of an AMQP link, shared by the sending clients: the    *)
(* proton calls that put messages on it, and the peer (a router or a       *)
(* receiver) at its other end.  Proton and the peer are external; the peer *)
(* grants credit and reports outcomes in any order, and several frames may *)
(* be read before the client handles the first event they raise.           *)
(*                                                                         *)
(* Deliveries are numbered in the order they are sent, starting at 1.      *)
(***************************************************************************)
EXTENDS ReactorLoop, FiniteSets

CONSTANTS
  Limits,      \* the values of -c to consider
  MaxGranted,  \* bound: credit the peer grants in all
  Informs      \* whether the peer sends PN_RECEIVED before the outcome: values to consider

ASSUME SendingLinkAssumption ==
  /\ Limits \subseteq Nat
  /\ MaxGranted \in Nat

ASSUME InformsAssumption == Informs \subseteq BOOLEAN

VARIABLES
  limit,      \* command line -c: messages to send, 0: without end
  presettle,  \* command line -u: send presettled
  informs,    \* the peer may send PN_RECEIVED before the outcome
  count,      \* messages handed to the link
  credit,     \* pn_link_credit()
  granted,    \* history: credit the peer has granted so far
  written,    \* transfers the transport has written
  remote,     \* pn_delivery_remote_state() of each delivery
  settled     \* deliveries settled locally

linkVars == <<limit, presettle, informs, count, credit, granted, written, remote, settled>>

Deliveries == 1..MaxGranted

\* "rejected" stands for every outcome but PN_ACCEPTED: rejected, released and
\* modified take the same branch everywhere.  The other two ways to end a
\* delivery, settling it without a state and a state the client does not know,
\* end in that branch too in the benchmark clients (case default); for the
\* scale clients, which tell them apart, they are states of their own.
Outcomes == {"accepted", "rejected"}

\* As long as the peer has not ended the delivery.
Interim == {"none", "received"}

LinkInit ==
  /\ limit \in Limits
  /\ presettle \in BOOLEAN
  /\ informs \in Informs
  /\ count = 0
  /\ credit = 0
  /\ granted = 0
  /\ written = 0
  /\ remote = [d \in Deliveries |-> "none"]
  /\ settled = {}

WantsToSend == limit = 0 \/ count < limit

\* n times pn_delivery, pn_link_send, pn_link_advance and, if presettling,
\* pn_delivery_settle; `base' is what the handler has settled before.
Transmit(n, base) ==
  /\ count' = count + n
  /\ credit' = credit - n
  /\ settled' = IF presettle THEN base \union (count + 1 .. count + n) ELSE base

-----------------------------------------------------------------------------
\* The transport writes some of the buffered transfers, and tells the link.
\* Transfers buffered at a local close are written before the close frame.
LinkWrite ==
  /\ turn # "exit" /\ conn \in {"open", "closing"} /\ link = "attached"
  /\ written < count
  /\ written' \in written + 1 .. count
  /\ collector' = Put(collector, LinkFlowEvent)
  /\ UNCHANGED <<turn, conn, link, stop, armed>>
  /\ UNCHANGED <<limit, presettle, informs, count, credit, granted, remote, settled>>

\* A flow frame adds n credits (0: the peer only echoes its state).
LinkFlow(n) ==
  /\ Reads(LinkFlowEvent)
  /\ granted + n <= MaxGranted
  /\ credit' = credit + n
  /\ granted' = granted + n
  /\ UNCHANGED <<limit, presettle, informs, count, written, remote, settled>>

\* A disposition for a transfer the peer has received.  The engine forgets a
\* delivery that is settled locally, so later dispositions are ignored.
LinkDisposition(d, state) ==
  /\ Reads(DeliveryEvent(d))
  /\ d <= written /\ d \notin settled
  /\ state = "received" => informs
  /\ remote[d] \in Interim /\ remote[d] # state
  /\ remote' = [remote EXCEPT ![d] = state]
  /\ UNCHANGED <<limit, presettle, informs, count, credit, granted, written, settled>>

-----------------------------------------------------------------------------
Events == [type : {"PN_CONNECTION_INIT", "PN_LINK_FLOW"}, dlv : {0}]
             \union [type : {"PN_DELIVERY"}, dlv : Deliveries]

LinkTypeOK ==
  /\ LoopTypeOK
  /\ collector \in Seq(Events)
  /\ limit \in Limits /\ presettle \in BOOLEAN /\ informs \in BOOLEAN
  /\ count \in Nat /\ credit \in Nat /\ granted \in 0..MaxGranted /\ written \in Nat
  /\ remote \in [Deliveries -> Interim \union Outcomes]
  /\ settled \subseteq Deliveries

\* The sender spends exactly the credit it was given, one per message, and
\* never sends more than -c messages, however flow frames, the flow events
\* the transport raises and a stop interleave.
CreditSpent ==
  /\ count + credit = granted
  /\ written <= count
  /\ limit > 0 => count <= limit

\* An outcome the peer reported is either settled or its event is waiting.
NoOutcomeLost ==
  \A d \in Deliveries : remote[d] \in Outcomes /\ d \notin settled
     => Queued(DeliveryEvent(d), collector)

\* The deliveries settled with an outcome.
With(outcome) == {d \in settled : remote[d] = outcome}
=============================================================================
