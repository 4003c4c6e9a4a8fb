----------------------- MODULE MeasuringSenderProofs -----------------------
(***************************************************************************)
(* Proofs about the three senders that measure (latency-sender.c,          *)
(* throughput-sender.c, blocking-sender.c), for every set of limits, every *)
(* bound on the credit granted and every peer.                             *)
(*                                                                         *)
(* What the programs share is proved once: their steps are, on the link,   *)
(* the steps LinkStep, which preserve LinkInv.  Each program then has an   *)
(* invariant of its own on top of it.                                      *)
(***************************************************************************)
EXTENDS MCMeasuringSenders, CommonProofs, FiniteSetTheorems, SequenceTheorems, TLAPS

-----------------------------------------------------------------------------
\* The three kinds of event, well formed and different.
LEMMA EventTypes ==
  /\ LinkFlowEvent \in Events
  /\ ConnectionInitEvent \in Events
  /\ \A d \in Deliveries : DeliveryEvent(d) \in Events
BY DEF Events, LinkFlowEvent, ConnectionInitEvent, DeliveryEvent, Event

LEMMA EventsDiffer ==
  /\ LinkFlowEvent # ConnectionInitEvent
  /\ \A d \in Deliveries : DeliveryEvent(d) # LinkFlowEvent /\ DeliveryEvent(d) # ConnectionInitEvent
  /\ \A d, e \in Deliveries : DeliveryEvent(d) = DeliveryEvent(e) => d = e
BY DEF LinkFlowEvent, ConnectionInitEvent, DeliveryEvent, Event

\* The type of an event and its delivery determine it.
LEMMA EventByType ==
  ASSUME NEW e \in Events
  PROVE  /\ e.type = "PN_CONNECTION_INIT" => e = ConnectionInitEvent
         /\ e.type = "PN_LINK_FLOW" => e = LinkFlowEvent
         /\ e.type = "PN_DELIVERY" => e.dlv \in Deliveries /\ e = DeliveryEvent(e.dlv)
BY DEF Events, LinkFlowEvent, ConnectionInitEvent, DeliveryEvent, Event

\* What dispatching an event does to the queue.
LEMMA DispatchQueue ==
  ASSUME collector \in Seq(Events), NEW type, Dispatch(type)
  PROVE  /\ Head(collector) \in Events /\ Head(collector).type = type
         /\ Queued(Head(collector), collector)
         /\ \A f : /\ Queued(f, collector') => Queued(f, collector)
                   /\ Queued(f, collector) /\ f # Head(collector) => Queued(f, collector')
                   /\ Once(f, collector) => /\ Once(f, collector')
                                            /\ f = Head(collector) => ~Queued(f, collector')
<1>1. collector # <<>> /\ collector' = Tail(collector) /\ Head(collector).type = type
  BY DEF Dispatch
<1>2. Head(collector) \in Events /\ Head(collector) = collector[1] /\ Len(collector) \in Nat \ {0}
  BY <1>1, TailShape
<1>3. Queued(Head(collector), collector)
  BY <1>2 DEF Queued
<1>4. QED
  BY <1>1, <1>2, <1>3, TailQueued, TailOnce

-----------------------------------------------------------------------------
(***************************************************************************)
(* What a step of any of the programs does to the link.                    *)
(***************************************************************************)

\* n messages fit the credit and the limit.
Fits(n) == n \in Nat /\ n <= credit /\ (limit > 0 => count + n <= limit)

\* What no handler changes.
Fixed == UNCHANGED <<turn, conn, limit, presettle, informs, granted, written, remote>>

Opens == Dispatch("PN_CONNECTION_INIT") /\ conn' = "open" /\ UNCHANGED <<turn, linkVars>>

\* A flow event is answered with n messages.
Sends(n) == Dispatch("PN_LINK_FLOW") /\ Fits(n) /\ Transmit(n, settled) /\ Fixed

\* A delivery event is answered by settling, with an outcome, and n messages.
Hears(d, n) ==
  /\ Dispatch("PN_DELIVERY") /\ d = Head(collector).dlv /\ Fits(n) /\ Fixed
  /\ \/ remote[d] = "received" /\ Transmit(n, settled)
     \/ remote[d] \in Outcomes /\ Transmit(n, settled \union {d})

\* Neither the queue nor the link changes.
Steady ==
  /\ UNCHANGED <<collector, linkVars>>
  /\ conn = "init" => conn' = "init" /\ turn' = turn
  /\ conn' = "init" => conn = "init"

\* A disposition arrives.
Reports(d) == \E state \in {"received"} \union Outcomes : LinkDisposition(d, state)

LinkStep ==
  \/ Opens \/ Steady \/ LinkWrite
  \/ \E n \in Nat : Sends(n)
  \/ \E d \in Deliveries, n \in Nat : Hears(d, n)
  \/ \E n \in 0..MaxGranted : LinkFlow(n)
  \/ \E d \in Deliveries : Reports(d)

-----------------------------------------------------------------------------
\* The invariant of the link.

LinkTypes ==
  /\ collector \in Seq(Events)
  /\ limit \in Nat /\ limit \in Limits /\ presettle \in BOOLEAN
  /\ count \in Nat /\ credit \in Nat /\ granted \in 0..MaxGranted /\ written \in Nat
  /\ remote \in [Deliveries -> {"none", "received"} \union Outcomes]
  /\ settled \subseteq Deliveries

\* The event that opens the connection comes first and comes once.
Opening ==
  /\ conn = "init" => turn = "drain" /\ collector = <<ConnectionInitEvent>> /\ count = 0 /\ credit = 0
  /\ conn # "init" => ~Queued(ConnectionInitEvent, collector)

\* A delivery that is reported on once has its event waiting exactly from
\* the outcome to the settlement.
EventsOnce ==
  ~informs => \A d \in Deliveries :
    /\ Once(DeliveryEvent(d), collector)
    /\ Queued(DeliveryEvent(d), collector) => remote[d] \in Outcomes /\ d \notin settled

\* Only what was written is answered, and only if not presettled.
Answered ==
  /\ \A d \in Deliveries : remote[d] # "none" => d <= written /\ ~presettle
  /\ presettle => settled = 1..count
  /\ ~presettle => \A d \in settled : remote[d] \in Outcomes

LinkInv == LinkTypes /\ CreditSpent /\ Opening /\ EventsOnce /\ Answered

LEMMA LinkInitInv == LoopInit /\ LinkInit => LinkInv
<1> SUFFICES ASSUME LoopInit, LinkInit PROVE LinkInv
  OBVIOUS
<1>1. collector = <<ConnectionInitEvent>> /\ Len(collector) = 1 /\ collector[1] = ConnectionInitEvent
  BY DEF LoopInit
<1>2. LinkTypes
  BY <1>1, EventTypes, SendingLinkAssumption DEF LinkInit, LinkTypes
<1>3. CreditSpent
  BY <1>2 DEF LinkInit, LinkTypes, CreditSpent
<1>4. Opening
  BY <1>1 DEF Opening, LoopInit, LinkInit
<1>5. EventsOnce
  BY <1>1, EventsDiffer DEF EventsOnce, Once, Queued
<1>6. Answered
  BY DEF Answered, LinkInit
<1>7. QED
  BY <1>2, <1>3, <1>4, <1>5, <1>6 DEF LinkInv

LEMMA LinkOpens ==
  ASSUME LinkInv, Opens PROVE LinkInv'
<1> USE DEF Opens
<1>1. collector \in Seq(Events)
  BY DEF LinkInv, LinkTypes
<1>2. Head(collector) = ConnectionInitEvent /\ Queued(ConnectionInitEvent, collector)
  BY <1>1, DispatchQueue, EventByType
<1>3. conn = "init" /\ collector = <<ConnectionInitEvent>> /\ collector' = <<>>
  BY <1>2 DEF LinkInv, Opening, Dispatch
<1>4. \A f : ~Queued(f, collector') /\ Once(f, collector')
  BY <1>3 DEF Queued, Once
<1>5. LinkTypes' /\ CreditSpent' /\ Answered'
  BY <1>3 DEF LinkInv, LinkTypes, CreditSpent, Answered, linkVars, Events
<1>6. Opening' /\ EventsOnce'
  BY <1>4 DEF Opening, EventsOnce
<1>7. QED
  BY <1>5, <1>6 DEF LinkInv

LEMMA LinkSteady ==
  ASSUME LinkInv, Steady PROVE LinkInv'
<1>1. LinkTypes' /\ CreditSpent' /\ Answered'
  BY DEF LinkInv, LinkTypes, CreditSpent, Answered, linkVars, Steady
<1>2. Opening' /\ EventsOnce'
  BY DEF LinkInv, Opening, EventsOnce, Once, Queued, linkVars, Steady
<1>3. QED
  BY <1>1, <1>2 DEF LinkInv

LEMMA LinkSends ==
  ASSUME LinkInv, NEW n \in Nat, Sends(n) PROVE LinkInv'
<1> USE DEF Sends, Fixed
<1>1. collector \in Seq(Events)
  BY DEF LinkInv, LinkTypes
<1>2. Head(collector) = LinkFlowEvent /\ Queued(LinkFlowEvent, collector)
  BY <1>1, DispatchQueue, EventByType
<1>3. conn # "init"
  BY <1>2, EventsDiffer DEF LinkInv, Opening, Queued
<1>4. Opening'
  BY <1>1, <1>3, DispatchQueue DEF LinkInv, Opening
<1>5. CreditSpent' /\ count' \in Nat /\ credit' \in Nat /\ count + n <= MaxGranted
  BY SendingLinkAssumption DEF LinkInv, LinkTypes, CreditSpent, Fits, Transmit
<1>6. settled' \subseteq Deliveries
  BY <1>5, SendingLinkAssumption DEF LinkInv, LinkTypes, Transmit, Deliveries
<1>7. LinkTypes'
  BY <1>5, <1>6 DEF LinkInv, LinkTypes, Dispatch, Events
<1>8. \A d \in Deliveries : /\ ~informs => Once(DeliveryEvent(d), collector')
                            /\ Queued(DeliveryEvent(d), collector') <=> Queued(DeliveryEvent(d), collector)
  BY <1>1, <1>2, DispatchQueue, EventsDiffer DEF LinkInv, EventsOnce
<1>9. settled \subseteq settled' /\ (~presettle => settled' = settled)
  BY DEF Transmit
<1>10. presettle => \A d \in Deliveries : remote[d] \notin Outcomes
  BY DEF LinkInv, Answered, Outcomes
<1>11. EventsOnce'
  BY <1>8, <1>9, <1>10 DEF LinkInv, EventsOnce
<1>12. presettle => settled' = 1..count'
  BY DEF LinkInv, Answered, Transmit, LinkTypes
<1>13. Answered'
  BY <1>9, <1>12 DEF LinkInv, Answered
<1>14. QED
  BY <1>4, <1>5, <1>7, <1>11, <1>13 DEF LinkInv

\* The delivery a handled event is about: written, and new if the peer
\* reports once.
LEMMA HeardFacts ==
  ASSUME LinkInv, NEW d \in Deliveries, NEW n \in Nat, Hears(d, n)
  PROVE  /\ Head(collector) = DeliveryEvent(d) /\ Queued(DeliveryEvent(d), collector)
         /\ conn # "init" /\ ~presettle /\ d <= written /\ d \in 1..count
         /\ ~informs => d \notin settled /\ remote[d] \in Outcomes
         /\ settled \subseteq settled' /\ settled' \subseteq settled \union {d}
         /\ remote[d] \in Outcomes => settled' = settled \union {d}
         /\ remote[d] \notin Outcomes => settled' = settled
<1> USE DEF Hears, Fixed
<1>1. collector \in Seq(Events)
  BY DEF LinkInv, LinkTypes
<1>2. Head(collector) = DeliveryEvent(d) /\ Queued(DeliveryEvent(d), collector)
  BY <1>1, DispatchQueue, EventByType
<1>3. conn # "init"
  BY <1>2, EventsDiffer DEF LinkInv, Opening, Queued
<1>4. ~presettle /\ d <= written
  BY DEF LinkInv, Answered, Outcomes
<1>5. d \in 1..count
  BY <1>4, SendingLinkAssumption DEF LinkInv, CreditSpent, LinkTypes, Deliveries
<1>6. ~informs => d \notin settled /\ remote[d] \in Outcomes
  BY <1>2 DEF LinkInv, EventsOnce
<1>7. /\ settled \subseteq settled' /\ settled' \subseteq settled \union {d}
      /\ remote[d] \in Outcomes => settled' = settled \union {d}
      /\ remote[d] \notin Outcomes => settled' = settled
  BY <1>4 DEF Transmit, Outcomes
<1>8. QED
  BY <1>2, <1>3, <1>4, <1>5, <1>6, <1>7

LEMMA LinkHears ==
  ASSUME LinkInv, NEW d \in Deliveries, NEW n \in Nat, Hears(d, n) PROVE LinkInv'
<1>1. collector \in Seq(Events) /\ Dispatch("PN_DELIVERY")
  BY DEF LinkInv, LinkTypes, Hears
<1>2. /\ Head(collector) = DeliveryEvent(d) /\ Queued(DeliveryEvent(d), collector)
      /\ conn # "init" /\ ~presettle
      /\ settled \subseteq settled' /\ settled' \subseteq settled \union {d}
      /\ remote[d] \notin Outcomes => settled' = settled
  BY HeardFacts
<1> USE DEF Hears, Fixed
<1>3. Opening'
  BY <1>1, <1>2, DispatchQueue DEF LinkInv, Opening
<1>4. CreditSpent' /\ count' \in Nat /\ credit' \in Nat
  BY SendingLinkAssumption DEF LinkInv, LinkTypes, CreditSpent, Fits, Transmit
<1>5. LinkTypes'
  BY <1>2, <1>4 DEF LinkInv, LinkTypes, Dispatch, Events
<1>6. ASSUME ~informs, NEW e \in Deliveries
      PROVE  /\ Once(DeliveryEvent(e), collector')
             /\ Queued(DeliveryEvent(e), collector') => remote[e] \in Outcomes /\ e \notin settled'
  <2>1. Once(DeliveryEvent(e), collector)
    BY <1>6 DEF LinkInv, EventsOnce
  <2>2. CASE e = d
    BY <1>1, <1>2, <2>1, <2>2, DispatchQueue
  <2>3. CASE e # d
    BY <1>1, <1>2, <1>6, <2>1, <2>3, DispatchQueue, EventsDiffer DEF LinkInv, EventsOnce
  <2>4. QED
    BY <2>2, <2>3
<1>7. EventsOnce'
  BY <1>6 DEF EventsOnce
<1>8. Answered'
  BY <1>2 DEF LinkInv, Answered
<1>9. QED
  BY <1>3, <1>4, <1>5, <1>7, <1>8 DEF LinkInv

LEMMA LinkWrites ==
  ASSUME LinkInv, LinkWrite PROVE LinkInv'
<1> USE DEF LinkWrite
<1>1. collector \in Seq(Events)
  BY DEF LinkInv, LinkTypes
<1>2. \A f : Queued(f, collector') <=> Queued(f, collector) \/ f = LinkFlowEvent
  BY <1>1, PutQueued, EventTypes
<1>3. ~informs => \A e \in Deliveries : Once(DeliveryEvent(e), collector')
  BY <1>1, PutOnce, EventTypes, EventsDiffer DEF LinkInv, EventsOnce
<1>4. written' \in Nat /\ written <= written' /\ written' <= count
  BY DEF LinkInv, LinkTypes
<1>5. LinkTypes' /\ CreditSpent'
  BY <1>1, <1>4, PutType, EventTypes DEF LinkInv, LinkTypes, CreditSpent
<1>6. Opening'
  BY <1>2, EventsDiffer DEF LinkInv, Opening
<1>7. EventsOnce'
  BY <1>2, <1>3, EventsDiffer DEF LinkInv, EventsOnce
<1>8. Answered'
  <2>1. \A e \in Deliveries : e <= written => e <= written'
    BY <1>4, SendingLinkAssumption DEF LinkInv, LinkTypes, Deliveries
  <2>2. QED
    BY <2>1 DEF LinkInv, Answered
<1>9. QED
  BY <1>5, <1>6, <1>7, <1>8 DEF LinkInv

LEMMA LinkFlows ==
  ASSUME LinkInv, NEW n \in 0..MaxGranted, LinkFlow(n) PROVE LinkInv'
<1> USE DEF LinkFlow, Reads, Connected
<1>1. collector \in Seq(Events)
  BY DEF LinkInv, LinkTypes
<1>2. \A f : Queued(f, collector') <=> Queued(f, collector) \/ f = LinkFlowEvent
  BY <1>1, PutQueued, EventTypes
<1>3. ~informs => \A e \in Deliveries : Once(DeliveryEvent(e), collector')
  BY <1>1, PutOnce, EventTypes, EventsDiffer DEF LinkInv, EventsOnce
<1>4. credit' \in Nat /\ granted' \in 0..MaxGranted /\ CreditSpent'
  BY SendingLinkAssumption DEF LinkInv, LinkTypes, CreditSpent
<1>5. LinkTypes'
  BY <1>1, <1>4, PutType, EventTypes DEF LinkInv, LinkTypes
<1>6. Opening'
  BY <1>2, EventsDiffer DEF LinkInv, Opening
<1>7. EventsOnce'
  BY <1>2, <1>3, EventsDiffer DEF LinkInv, EventsOnce
<1>8. Answered'
  BY DEF LinkInv, Answered
<1>9. QED
  BY <1>4, <1>5, <1>6, <1>7, <1>8 DEF LinkInv

LEMMA LinkReports ==
  ASSUME LinkInv, NEW d \in Deliveries, Reports(d) PROVE LinkInv'
<1>0. PICK state \in {"received"} \union Outcomes : LinkDisposition(d, state)
  BY DEF Reports
<1> USE <1>0 DEF LinkDisposition, Reads, Connected
<1>1. collector \in Seq(Events) /\ (~informs => state \in Outcomes)
  BY DEF LinkInv, LinkTypes
<1>2. \A f : Queued(f, collector') <=> Queued(f, collector) \/ f = DeliveryEvent(d)
  BY <1>1, PutQueued, EventTypes
<1>3. d \notin settled /\ (~informs => ~Queued(DeliveryEvent(d), collector))
  BY DEF LinkInv, EventsOnce, Interim, Outcomes
<1>4. ~informs => \A e \in Deliveries : Once(DeliveryEvent(e), collector')
  BY <1>1, <1>3, PutOnce, EventTypes, EventsDiffer DEF LinkInv, EventsOnce
<1>5. remote'[d] = state /\ \A e \in Deliveries : e # d => remote'[e] = remote[e]
  BY DEF LinkInv, LinkTypes
<1>6. LinkTypes' /\ CreditSpent'
  BY <1>1, PutType, EventTypes DEF LinkInv, LinkTypes, CreditSpent, Outcomes
<1>7. Opening'
  BY <1>2, EventsDiffer DEF LinkInv, Opening
<1>8. EventsOnce'
  BY <1>1, <1>2, <1>3, <1>4, <1>5, EventsDiffer DEF LinkInv, EventsOnce
<1>9. ~presettle
  BY <1>3, SendingLinkAssumption DEF LinkInv, Answered, CreditSpent, LinkTypes, Deliveries
<1>10. Answered'
  BY <1>3, <1>5, <1>9 DEF LinkInv, Answered, LinkTypes
<1>11. QED
  BY <1>6, <1>7, <1>8, <1>10 DEF LinkInv

LEMMA LinkPreserved == LinkInv /\ LinkStep => LinkInv'
BY LinkOpens, LinkSteady, LinkWrites, LinkSends, LinkHears, LinkFlows, LinkReports DEF LinkStep

-----------------------------------------------------------------------------
(***************************************************************************)
(* latency-sender.c.                                                       *)
(***************************************************************************)

\* Only what was sent can be sampled, at the time it was sent; a running
\* sender with credit and nothing outstanding has an event to send on.
LatencyInv ==
  /\ ~presettle
  /\ accepted \in Nat /\ not_accepted \in Nat
  /\ send_ts = count
  /\ Latency!OwnLatency
  /\ ~stop /\ ~pending_ack /\ WantsToSend /\ credit > 0 => Queued(LinkFlowEvent, collector)

\* send_msg() on the link: one message, or none.
LEMMA LatencySend ==
  ASSUME LinkInv, ~presettle, NEW pending, NEW base, Latency!send_msg(pending, base)
  PROVE  \/ /\ Fits(1) /\ Transmit(1, base) /\ pending_ack' /\ ~pending /\ send_ts' = count'
            /\ count' = count + 1 /\ settled' = base
         \/ /\ Fits(0) /\ Transmit(0, base) /\ (pending_ack' <=> pending)
            /\ send_ts' = send_ts /\ count' = count /\ credit' = credit /\ settled' = base
            /\ pending \/ credit = 0 \/ ~WantsToSend
<1>1. CASE Latency!SendOne(pending, base)
  BY <1>1 DEF Latency!SendOne, Latency!MaySend, Latency!Transmit, Latency!WantsToSend, Transmit, Fits,
              LinkInv, LinkTypes, CreditSpent
<1>2. CASE Latency!SendNone(pending, base)
  BY <1>2 DEF Latency!SendNone, Latency!MaySend, Latency!WantsToSend, Transmit, Fits, WantsToSend,
              LinkInv, LinkTypes, CreditSpent
<1>3. QED
  BY <1>1, <1>2 DEF Latency!send_msg

LEMMA LatencyFlowEvent ==
  ASSUME LinkInv, LatencyInv, Latency!FlowEvent
  PROVE  LatencyInv' /\ \E n \in Nat : Sends(n)
<1>1. /\ Dispatch("PN_LINK_FLOW") /\ Fixed
      /\ UNCHANGED <<stop, acked, accepted, not_accepted, samples>>
  BY DEF Latency!FlowEvent, Latency!Dispatch, Dispatch, Fixed, Latency!ackVars
<1>2. \/ ~stop /\ Latency!send_msg(pending_ack, settled)
      \/ stop /\ UNCHANGED <<count, credit, settled, pending_ack, send_ts>>
  BY DEF Latency!FlowEvent, Latency!sendVars
<1>3. CASE stop /\ UNCHANGED <<count, credit, settled, pending_ack, send_ts>>
  <2>1. Sends(0)
    BY <1>1, <1>3 DEF Sends, Fits, Transmit, LinkInv, LinkTypes, CreditSpent, LatencyInv
  <2>2. LatencyInv'
    BY <1>1, <1>3 DEF LatencyInv, Latency!OwnLatency, Fixed
  <2>3. QED
    BY <2>1, <2>2
<1>4. CASE /\ Fits(1) /\ Transmit(1, settled) /\ pending_ack' /\ ~pending_ack /\ send_ts' = count'
           /\ count' = count + 1 /\ settled' = settled
  <2>1. Sends(1)
    BY <1>1, <1>4 DEF Sends
  <2>2. Latency!OwnLatency'
    BY <1>1, <1>4 DEF LatencyInv, Latency!OwnLatency, Fixed, LinkInv, LinkTypes
  <2>3. LatencyInv'
    BY <1>1, <1>4, <2>2 DEF LatencyInv, Fixed
  <2>4. QED
    BY <2>1, <2>3
<1>5. CASE /\ Fits(0) /\ Transmit(0, settled) /\ (pending_ack' <=> pending_ack)
           /\ send_ts' = send_ts /\ count' = count /\ credit' = credit /\ settled' = settled
           /\ pending_ack \/ credit = 0 \/ ~WantsToSend
  <2>1. Sends(0)
    BY <1>1, <1>5 DEF Sends
  <2>2. Latency!OwnLatency'
    BY <1>1, <1>5 DEF LatencyInv, Latency!OwnLatency, Fixed
  <2>3. LatencyInv'
    BY <1>1, <1>5, <2>2 DEF LatencyInv, Fixed, WantsToSend, LinkInv, LinkTypes
  <2>4. QED
    BY <2>1, <2>3
<1>6. QED
  BY <1>2, <1>3, <1>4, <1>5, LatencySend DEF LatencyInv

\* An outcome: of a peer that reports once it is the newest message's, the
\* one send_ts holds the time of.
LEMMA LatencyDelivery ==
  ASSUME LinkInv, LatencyInv, Latency!Delivery
  PROVE  LatencyInv' /\ \E d \in Deliveries, n \in Nat : Hears(d, n)
<1> DEFINE d == Head(collector).dlv
<1>1. Dispatch("PN_DELIVERY") /\ Fixed /\ (Latency!Received(d) \/ Latency!Outcome(d))
  BY DEF Latency!Delivery, Latency!Dispatch, Dispatch, Fixed
<1>2. d \in Deliveries /\ Head(collector) = DeliveryEvent(d) /\ collector \in Seq(Events)
  BY <1>1, DispatchQueue, EventByType DEF LinkInv, LinkTypes
<1>3. UNCHANGED <<limit, presettle, informs>>
  BY <1>1 DEF Fixed
<1>4. CASE Latency!Received(d)
  <2>1. /\ remote[d] = "received"
        /\ UNCHANGED <<stop, acked, accepted, not_accepted, samples, pending_ack, send_ts, count, credit, settled>>
    BY <1>4 DEF Latency!Received, Latency!ackVars, Latency!sendVars
  <2>2. Hears(d, 0)
    BY <1>1, <2>1 DEF Hears, Fits, Transmit, LinkInv, LinkTypes, CreditSpent, LatencyInv
  <2>3. Queued(LinkFlowEvent, collector) => Queued(LinkFlowEvent, collector')
    BY <1>1, <1>2, DispatchQueue, EventsDiffer
  <2>4. LatencyInv'
    BY <1>3, <2>1, <2>3 DEF LatencyInv, Latency!OwnLatency, WantsToSend
  <2>5. QED
    BY <1>2, <2>2, <2>4
<1>5. CASE Latency!Outcome(d)
  <2>1. /\ remote[d] \in Outcomes
        /\ acked' = acked + 1
        /\ accepted' = accepted + (IF remote[d] = "accepted" THEN 1 ELSE 0)
        /\ not_accepted' = not_accepted + (IF remote[d] = "accepted" THEN 0 ELSE 1)
        /\ samples' = samples \union {<<d, send_ts>>}
    BY <1>5 DEF Latency!Outcome, Latency!Record, Latency!Outcomes, Outcomes
  <2>2. \/ /\ Fits(1) /\ Transmit(1, settled \union {d}) /\ pending_ack' /\ send_ts' = count'
           /\ count' = count + 1 /\ settled' = settled \union {d}
        \/ /\ Fits(0) /\ Transmit(0, settled \union {d}) /\ ~pending_ack'
           /\ send_ts' = send_ts /\ count' = count /\ credit' = credit /\ settled' = settled \union {d}
           /\ credit = 0 \/ ~WantsToSend
    <3>1. CASE Latency!WantsToSend /\ Latency!send_msg(FALSE, settled \union {d})
      BY <3>1, LatencySend DEF LatencyInv
    <3>2. CASE ~Latency!WantsToSend
      <4>1. pending_ack' = FALSE /\ settled' = settled \union {d} /\ UNCHANGED <<send_ts, count, credit>>
        BY <1>5, <3>2 DEF Latency!Outcome, Latency!Continue
      <4>2. Fits(0) /\ Transmit(0, settled \union {d}) /\ ~WantsToSend
        BY <3>2, <4>1 DEF Latency!WantsToSend, WantsToSend,
                          Fits, Transmit, LinkInv, LinkTypes, CreditSpent, LatencyInv
      <4>3. QED
        BY <4>1, <4>2
    <3>3. QED
      BY <1>5, <3>1, <3>2 DEF Latency!Outcome, Latency!Continue
  <2>3. PICK n \in {0, 1} :
          /\ Fits(n) /\ Transmit(n, settled \union {d}) /\ (pending_ack' <=> n = 1)
          /\ count' = count + n /\ settled' = settled \union {d}
    BY <2>2 DEF LinkInv, LinkTypes
  <2>4. Hears(d, n)
    BY <1>1, <2>1, <2>3 DEF Hears
  <2>5. d \in 1..count /\ (~informs => d \notin settled)
    BY <1>2, <2>4, HeardFacts
  <2>6. Latency!OwnLatency'
    <3> SUFFICES ASSUME ~informs PROVE Latency!OwnLatency'
      BY <1>3 DEF Latency!OwnLatency
    <3> HIDE DEF d
    <3>1. pending_ack /\ d = count /\ count > 0
      BY <2>5 DEF LatencyInv, Latency!OwnLatency, LinkInv, LinkTypes
    <3>2. settled' = 1..count
      BY <2>3, <3>1 DEF LatencyInv, Latency!OwnLatency, LinkInv, LinkTypes
    <3>3. acked' = count
      BY <2>1, <3>1 DEF LatencyInv, Latency!OwnLatency, LinkInv, LinkTypes
    <3>4. accepted' + not_accepted' = acked'
      BY <2>1, <3>1 DEF LatencyInv, Latency!OwnLatency, LinkInv, LinkTypes
    <3>5. samples' = {<<e, e>> : e \in settled'}
      BY <2>1, <2>3, <3>1 DEF LatencyInv, Latency!OwnLatency
    <3>6. (IF pending_ack' THEN count' - 1 ELSE count') = count
      BY <2>3 DEF LinkInv, LinkTypes
    <3>7. QED
      BY <3>2, <3>3, <3>4, <3>5, <3>6 DEF Latency!OwnLatency
  <2>7. send_ts' = count' /\ accepted' \in Nat /\ not_accepted' \in Nat
    BY <2>1, <2>2 DEF LatencyInv
  <2>8. ~pending_ack' /\ WantsToSend' => ~(credit' > 0)
    BY <1>3, <2>2 DEF WantsToSend, LinkInv, LinkTypes
  <2>9. LatencyInv'
    BY <1>3, <2>6, <2>7, <2>8 DEF LatencyInv
  <2>10. QED
    BY <1>2, <2>3, <2>4, <2>9
<1>6. QED
  BY <1>1, <1>4, <1>5

\* The queue keeps its flow event, or gets one, in the steps of the peer.
LEMMA PeerKeepsFlow ==
  ASSUME LinkInv
  PROVE  /\ LinkWrite => Queued(LinkFlowEvent, collector')
         /\ \A n : LinkFlow(n) => Queued(LinkFlowEvent, collector')
         /\ \A d \in Deliveries : Reports(d) /\ Queued(LinkFlowEvent, collector)
                                   => Queued(LinkFlowEvent, collector')
<1>1. collector \in Seq(Events)
  BY DEF LinkInv, LinkTypes
<1>2. \A e \in Events : /\ Queued(e, Put(collector, e))
                       /\ \A f : Queued(f, collector) => Queued(f, Put(collector, e))
  BY <1>1, PutQueued
<1>3. QED
  BY <1>2, EventTypes DEF LinkWrite, LinkFlow, Reports, LinkDisposition, Reads

LatencyVars == <<pending_ack, acked, accepted, not_accepted, send_ts, samples>>

\* The remaining steps leave the client's own state alone.
LEMMA LatencyRest ==
  ASSUME LinkInv, Latency!Next
  PROVE  \/ Latency!FlowEvent
         \/ Latency!Delivery
         \/ UNCHANGED LatencyVars /\ (stop => stop') /\ Opens
         \/ UNCHANGED LatencyVars /\ (stop => stop') /\ Steady
         \/ UNCHANGED LatencyVars /\ (stop => stop') /\ LinkWrite
         \/ UNCHANGED LatencyVars /\ (stop => stop') /\ \E n \in 0..MaxGranted : LinkFlow(n)
         \/ UNCHANGED LatencyVars /\ (stop => stop') /\ \E d \in Deliveries : Reports(d)
<1> USE DEF LatencyVars, Latency!ackVars, Latency!sendVars, Latency!Unaffected
<1>1. CASE Latency!ConnectionInit
  BY <1>1 DEF Latency!ConnectionInit, Latency!Dispatch, Latency!linkVars, Opens, Dispatch, linkVars
<1>2. CASE Latency!ReactorQuiesce
  BY <1>2 DEF Latency!ReactorQuiesce, Latency!Quiesce, Latency!linkVars, Steady, linkVars,
              LinkInv, Opening
<1>3. CASE Latency!Main
  BY <1>3 DEF Latency!Main, Latency!MainLoop, Latency!linkVars, Steady, linkVars, LinkInv, Opening
<1>4. CASE Latency!SignalHandler
  BY <1>4 DEF Latency!SignalHandler, Latency!Signal, Latency!linkVars, Steady, linkVars
<1>5. CASE Latency!Write
  BY <1>5, Zenon DEF Latency!Write, Latency!LinkWrite, LinkWrite, Latency!Put, Put,
              Latency!LinkFlowEvent, LinkFlowEvent, Latency!Event, Event
<1>6. CASE \E n \in 0..MaxGranted : Latency!PeerFlow(n)
  <2>1. PICK n \in 0..MaxGranted : Latency!PeerFlow(n)
    BY <1>6
  <2>2. LinkFlow(n) /\ UNCHANGED LatencyVars /\ UNCHANGED stop
    BY <2>1 DEF Latency!PeerFlow, Latency!LinkFlow, Latency!Reads, Latency!Connected, LinkFlow, Reads,
                Connected, Latency!Put, Put, Latency!LinkFlowEvent, LinkFlowEvent, Latency!Event, Event
  <2>3. QED
    BY <2>2
<1>7. CASE \E d \in Latency!Deliveries : \E state \in {"received"} \union Latency!Outcomes :
             Latency!PeerDisposition(d, state)
  <2>1. PICK d \in Deliveries, state \in {"received"} \union Outcomes : Latency!PeerDisposition(d, state)
    BY <1>7 DEF Latency!Outcomes, Outcomes, Latency!Deliveries, Deliveries
  <2>2. LinkDisposition(d, state) /\ UNCHANGED LatencyVars /\ UNCHANGED stop
    BY <2>1 DEF Latency!PeerDisposition, Latency!LinkDisposition, Latency!Reads, Latency!Connected,
                LinkDisposition, Reads, Connected, Latency!Put, Put, Latency!DeliveryEvent, DeliveryEvent,
                Latency!Event, Event, Latency!Interim, Interim
  <2>3. QED
    BY <2>2 DEF Reports
<1>8. CASE Latency!PeerClose
  BY <1>8 DEF Latency!PeerClose, Latency!PeerCloses, Latency!Connected, Latency!linkVars, Steady, linkVars,
              LinkInv, Opening
<1>9. CASE Latency!PeerDetach
  BY <1>9 DEF Latency!PeerDetach, Latency!PeerDetaches, Latency!linkVars, Steady, linkVars
<1>10. CASE Latency!Exited
  BY <1>10 DEF Latency!Exited, Latency!vars, Latency!loopVars, Latency!linkVars, Steady, linkVars
<1>11. QED
  BY <1>1, <1>2, <1>3, <1>4, <1>5, <1>6, <1>7, <1>8, <1>9, <1>10
  DEF Latency!Next, Latency!Client, Latency!Peer

LEMMA LatencyStep ==
  ASSUME LinkInv, LatencyInv, Latency!Next
  PROVE  LatencyInv' /\ LinkStep
<1>1. CASE Latency!FlowEvent
  BY <1>1, LatencyFlowEvent DEF LinkStep
<1>2. CASE Latency!Delivery
  BY <1>2, LatencyDelivery DEF LinkStep
<1>3. ASSUME UNCHANGED LatencyVars, stop => stop', UNCHANGED <<limit, presettle, informs, count, settled>>,
             \/ Queued(LinkFlowEvent, collector')
             \/ UNCHANGED <<credit, collector>>
             \/ UNCHANGED credit /\ ~Queued(LinkFlowEvent, collector)
             \/ ~(credit' > 0)
      PROVE  LatencyInv'
  <2>1. Latency!OwnLatency'
    BY <1>3 DEF LatencyInv, Latency!OwnLatency, LatencyVars
  <2>2. ~stop' /\ ~pending_ack' /\ WantsToSend' /\ credit' > 0 => Queued(LinkFlowEvent, collector')
    BY <1>3 DEF LatencyInv, WantsToSend, LatencyVars, Queued
  <2>3. QED
    BY <1>3, <2>1, <2>2 DEF LatencyInv, LatencyVars
<1>4. CASE UNCHANGED LatencyVars /\ (stop => stop') /\ Opens
  <2>1. conn = "init" /\ credit = 0
    <3>1. collector \in Seq(Events)
      BY DEF LinkInv, LinkTypes
    <3>2. Queued(ConnectionInitEvent, collector)
      BY <1>4, <3>1, DispatchQueue, EventByType DEF Opens
    <3>3. QED
      BY <3>2 DEF LinkInv, Opening
  <2>2. QED
    BY <1>3, <1>4, <2>1 DEF Opens, linkVars, LinkStep
<1>5. CASE UNCHANGED LatencyVars /\ (stop => stop') /\ Steady
  BY <1>3, <1>5 DEF Steady, linkVars, LinkStep
<1>6. CASE UNCHANGED LatencyVars /\ (stop => stop') /\ LinkWrite
  <2>1. Queued(LinkFlowEvent, collector')
    BY <1>6, PeerKeepsFlow
  <2>2. QED
    BY <1>3, <1>6, <2>1 DEF LinkWrite, LinkStep
<1>7. CASE UNCHANGED LatencyVars /\ (stop => stop') /\ \E n \in 0..MaxGranted : LinkFlow(n)
  <2>1. Queued(LinkFlowEvent, collector')
    BY <1>7, PeerKeepsFlow
  <2>2. QED
    BY <1>3, <1>7, <2>1 DEF LinkFlow, LinkStep
<1>8. CASE UNCHANGED LatencyVars /\ (stop => stop') /\ \E d \in Deliveries : Reports(d)
  <2>1. Queued(LinkFlowEvent, collector) => Queued(LinkFlowEvent, collector')
    BY <1>8, PeerKeepsFlow
  <2>2. UNCHANGED <<limit, presettle, informs, count, settled, credit>>
    BY <1>8 DEF Reports, LinkDisposition
  <2>3. QED
    BY <1>3, <1>8, <2>1, <2>2 DEF LinkStep
<1>9. QED
  BY <1>1, <1>2, <1>4, <1>5, <1>6, <1>7, <1>8, LatencyRest

-----------------------------------------------------------------------------
(***************************************************************************)
(* throughput-sender.c.                                                    *)
(***************************************************************************)

\* All messages are sent and settled.
AllIn == limit > 0 /\ settled = 1..limit

\* Without a signal the stamps taken are those whose moment has come.
Stamped ==
  stamps = IF count = 0 THEN <<>>
           ELSE IF AllIn THEN <<"start_ts", "stop_ts">> ELSE <<"start_ts">>

ThroughputInv ==
  /\ ~presettle
  /\ ~informs => acked = Cardinality(settled)
  /\ ~informs /\ armed => Stamped
  /\ credit > 0 /\ WantsToSend => Queued(LinkFlowEvent, collector)

\* A set of n of the numbers 1..n is all of them.
LEMMA AllWhenAsMany ==
  ASSUME NEW n \in Nat, NEW S \in SUBSET (1..n)
  PROVE  Cardinality(S) = n <=> S = 1..n
<1>1. IsFiniteSet(1..n) /\ Cardinality(1..n) = n
  BY FS_Interval
<1>2. QED
  BY <1>1, FS_Subset

\* Only messages that were sent are settled; so none before the first.
LEMMA SettledAreSent ==
  ASSUME LinkInv, ~presettle
  PROVE  /\ settled \subseteq 1..count
         /\ limit > 0 => settled \subseteq 1..limit
         /\ count = 0 => settled = {} /\ ~AllIn
         /\ AllIn => count = limit
<1>1. \A e \in settled : e \in Deliveries /\ e <= written
  BY DEF LinkInv, LinkTypes, Answered, Outcomes
<1>2. count \in Nat /\ written \in Nat /\ limit \in Nat /\ written <= count /\ (limit > 0 => count <= limit)
  BY DEF LinkInv, LinkTypes, CreditSpent
<1>3. \A e \in Deliveries : e \in Nat /\ 1 <= e
  BY SendingLinkAssumption DEF Deliveries
<1>4. settled \subseteq 1..count /\ (limit > 0 => settled \subseteq 1..limit)
  BY <1>1, <1>2, <1>3
<1>5. count = 0 => settled = {}
  BY <1>4
<1>6. AllIn => limit \in settled
  BY <1>2 DEF AllIn
<1>7. AllIn => count = limit
  BY <1>1, <1>2, <1>6 DEF AllIn
<1>8. QED
  BY <1>4, <1>5, <1>7, <1>2 DEF AllIn

\* Appending to a sequence of one element.
LEMMA AppendPair ==
  ASSUME NEW a, NEW b
  PROVE  Append(<<a>>, b) = <<a, b>>
<1>1. <<a>> \in Seq({a, b}) /\ <<a, b>> \in Seq({a, b})
  OBVIOUS
<1>2. Append(<<a>>, b) \in Seq({a, b}) /\ Len(Append(<<a>>, b)) = 2 /\ Len(<<a, b>>) = 2
  BY <1>1
<1>3. Append(<<a>>, b)[1] = a /\ Append(<<a>>, b)[2] = b
  BY <1>1
<1>4. \A i \in 1..2 : Append(<<a>>, b)[i] = <<a, b>>[i]
  BY <1>3
<1>5. QED
  BY <1>1, <1>2, <1>4, SeqEqual

\* Which stamps the possible values of `stamps' hold.
LEMMA StampFacts ==
  /\ stamps = <<>> => /\ ~Throughput!Taken("start_ts") /\ ~Throughput!Taken("stop_ts")
                      /\ Throughput!Take("start_ts") = <<"start_ts">>
  /\ stamps = <<"start_ts">> => /\ Throughput!Taken("start_ts") /\ ~Throughput!Taken("stop_ts")
                                /\ Throughput!Take("start_ts") = stamps
                                /\ Throughput!Take("stop_ts") = <<"start_ts", "stop_ts">>
  /\ stamps = <<"start_ts", "stop_ts">> => /\ Throughput!Taken("start_ts") /\ Throughput!Taken("stop_ts")
                                           /\ Throughput!Take("start_ts") = stamps
<1>1. CASE stamps = <<>>
  BY <1>1 DEF Throughput!Taken, Throughput!Take
<1>2. CASE stamps = <<"start_ts">>
  <2>1. Len(stamps) = 1 /\ stamps[1] = "start_ts" /\ 1..1 = {1}
    BY <1>2
  <2>2. Throughput!Taken("start_ts") /\ ~Throughput!Taken("stop_ts")
    BY <2>1 DEF Throughput!Taken
  <2>3. Append(<<"start_ts">>, "stop_ts") = <<"start_ts", "stop_ts">>
    BY AppendPair
  <2>4. QED
    BY <1>2, <2>2, <2>3 DEF Throughput!Take
<1>3. CASE stamps = <<"start_ts", "stop_ts">>
  <2>1. Len(stamps) = 2 /\ stamps[1] = "start_ts" /\ stamps[2] = "stop_ts" /\ 1 \in 1..2 /\ 2 \in 1..2
    BY <1>3
  <2>2. Throughput!Taken("start_ts") /\ Throughput!Taken("stop_ts")
    BY <2>1 DEF Throughput!Taken
  <2>3. QED
    BY <1>3, <2>2 DEF Throughput!Take
<1>4. QED
  BY <1>1, <1>2, <1>3

LEMMA ThroughputFlow ==
  ASSUME LinkInv, ThroughputInv, Throughput!LinkFlowSend
  PROVE  ThroughputInv' /\ \E n \in Nat : Sends(n)
<1>1. /\ Dispatch("PN_LINK_FLOW") /\ Fixed /\ credit >= 1
      /\ stamps' = Throughput!Take("start_ts")
      /\ UNCHANGED <<armed, acked>>
  BY DEF Throughput!LinkFlowSend, Throughput!Dispatch, Dispatch, Fixed, Throughput!ackVars
<1>2. PICK n : n = Throughput!Batch
  OBVIOUS
<1>3. count' = count + n /\ credit' = credit - n /\ settled' = settled
  BY <1>2 DEF Throughput!LinkFlowSend, Throughput!Transmit, ThroughputInv
<1>4. /\ Fits(n) /\ (n = credit \/ (limit > 0 /\ count + n = limit))
      /\ count = 0 => n > 0
  BY <1>1, <1>2 DEF Throughput!Batch, Fits, LinkInv, LinkTypes, CreditSpent
<1>5. Sends(n)
  BY <1>1, <1>3, <1>4 DEF Sends, Transmit, ThroughputInv
<1>6. count \in Nat /\ n \in Nat /\ credit \in Nat /\ limit \in Nat
  BY <1>4 DEF LinkInv, LinkTypes, Fits
<1>7. UNCHANGED <<limit, presettle, informs, AllIn>>
  BY <1>1, <1>3 DEF Fixed, AllIn
<1>8. ~informs /\ armed => Stamped'
  <2> SUFFICES ASSUME ~informs, armed PROVE Stamped'
    OBVIOUS
  <2>1. count' # 0
    BY <1>3, <1>4, <1>6
  <2>2. Stamped /\ (count = 0 => ~AllIn)
    BY SettledAreSent DEF ThroughputInv
  <2>3. stamps' = IF AllIn THEN <<"start_ts", "stop_ts">> ELSE <<"start_ts">>
    BY <1>1, <2>2, StampFacts DEF Stamped
  <2>4. QED
    BY <1>7, <2>1, <2>3 DEF Stamped
<1>9. ~(credit' > 0 /\ WantsToSend')
  BY <1>3, <1>4, <1>6, <1>7 DEF WantsToSend
<1>10. ThroughputInv'
  BY <1>1, <1>3, <1>7, <1>8, <1>9 DEF ThroughputInv
<1>11. QED
  BY <1>4, <1>5, <1>10 DEF Fits

LEMMA ThroughputDelivery ==
  ASSUME LinkInv, ThroughputInv, Throughput!Delivery
  PROVE  ThroughputInv' /\ \E d \in Deliveries, n \in Nat : Hears(d, n)
<1>0. PICK d : d = Head(collector).dlv
  OBVIOUS
<1>1. /\ Dispatch("PN_DELIVERY") /\ Fixed /\ (Throughput!Received(d) \/ Throughput!Outcome(d))
      /\ stamps' = IF Throughput!Complete THEN Throughput!Take("stop_ts") ELSE stamps
      /\ UNCHANGED <<armed, count, credit>>
  BY <1>0 DEF Throughput!Delivery, Throughput!Dispatch, Dispatch, Fixed
<1>2. d \in Deliveries /\ Head(collector) = DeliveryEvent(d) /\ collector \in Seq(Events)
  BY <1>0, <1>1, DispatchQueue, EventByType DEF LinkInv, LinkTypes
<1>3. UNCHANGED <<limit, presettle, informs>>
  BY <1>1 DEF Fixed
<1>4. Hears(d, 0)
  BY <1>0, <1>1 DEF Throughput!Received, Throughput!Outcome, Throughput!Outcomes, Outcomes, Hears, Fits, Transmit,
              LinkInv, LinkTypes, CreditSpent, ThroughputInv
<1>5. Queued(LinkFlowEvent, collector) => Queued(LinkFlowEvent, collector')
  BY <1>1, <1>2, DispatchQueue, EventsDiffer
<1>6. credit' > 0 /\ WantsToSend' => Queued(LinkFlowEvent, collector')
  BY <1>1, <1>3, <1>5 DEF ThroughputInv, WantsToSend
<1>7. ASSUME ~informs
      PROVE  acked' = Cardinality(settled') /\ (armed => Stamped')
  <2>1. d \in 1..count /\ d \notin settled /\ remote[d] \in Outcomes /\ settled' = settled \union {d}
    BY <1>2, <1>4, <1>7, HeardFacts
  <2>2. acked' = acked + 1
    BY <1>1, <2>1 DEF Throughput!Received, Throughput!Outcome, Outcomes
  <2>3. count \in Nat /\ limit \in Nat /\ settled \subseteq 1..count /\ (limit > 0 => count <= limit)
    BY SettledAreSent DEF LinkInv, LinkTypes, CreditSpent, ThroughputInv
  <2>4. acked' = Cardinality(settled')
    <3>1. IsFiniteSet(settled)
      <4>1. IsFiniteSet(1..count)
        BY <2>3, FS_Interval
      <4>2. QED
        BY <2>3, <4>1, FS_Subset
    <3>2. Cardinality(settled \union {d}) = Cardinality(settled) + 1
      BY <2>1, <3>1, FS_AddElement
    <3>3. QED
      BY <1>7, <2>1, <2>2, <3>2 DEF ThroughputInv
  <2>5. limit > 0 => settled' \in SUBSET (1..limit) /\ d \in 1..limit
    BY <2>1, <2>3
  <2>6. Throughput!Complete <=> AllIn'
    BY <1>3, <2>3, <2>4, <2>5, AllWhenAsMany DEF Throughput!Complete, AllIn
  <2>7. ~AllIn /\ count # 0
    BY <2>1, <2>3, <2>5 DEF AllIn
  <2>8. armed => stamps = <<"start_ts">>
    BY <1>7, <2>7 DEF ThroughputInv, Stamped
  <2>9. armed => stamps' = IF AllIn' THEN <<"start_ts", "stop_ts">> ELSE <<"start_ts">>
    BY <1>1, <2>6, <2>8, StampFacts
  <2>10. QED
    BY <1>1, <2>4, <2>7, <2>9 DEF Stamped
<1>8. ThroughputInv'
  BY <1>1, <1>3, <1>6, <1>7 DEF ThroughputInv
<1>9. QED
  BY <1>2, <1>4, <1>8

ThroughputVars == <<acked, accepted, not_accepted>>

\* The remaining steps leave the counters alone, and all but the signal the
\* stamps.
LEMMA ThroughputRest ==
  ASSUME LinkInv, ThroughputInv, Throughput!Next
  PROVE  \/ Throughput!LinkFlowSend
         \/ Throughput!Delivery
         \/ UNCHANGED <<ThroughputVars, linkVars>> /\ Sends(0) /\ credit = 0 /\ UNCHANGED <<stamps, armed>>
         \/ UNCHANGED ThroughputVars /\ Opens /\ UNCHANGED <<stamps, armed>>
         \/ UNCHANGED ThroughputVars /\ Steady /\ (armed' => UNCHANGED <<stamps, armed>>)
         \/ UNCHANGED ThroughputVars /\ LinkWrite /\ UNCHANGED <<stamps, armed>>
         \/ UNCHANGED ThroughputVars /\ (\E n \in 0..MaxGranted : LinkFlow(n)) /\ UNCHANGED <<stamps, armed>>
         \/ UNCHANGED ThroughputVars /\ (\E d \in Deliveries : Reports(d)) /\ UNCHANGED <<stamps, armed>>
<1> USE DEF ThroughputVars, Throughput!ackVars, Throughput!Unaffected
<1>1. CASE Throughput!ConnectionInit
  BY <1>1 DEF Throughput!ConnectionInit, Throughput!Dispatch, Throughput!linkVars, Opens, Dispatch, linkVars
<1>2. CASE Throughput!ReactorQuiesce
  BY <1>2 DEF Throughput!ReactorQuiesce, Throughput!Quiesce, Throughput!linkVars, Steady, linkVars,
              LinkInv, Opening
<1>3. CASE Throughput!Main
  BY <1>3 DEF Throughput!Main, Throughput!MainLoop, Throughput!linkVars, Steady, linkVars, LinkInv, Opening
<1>4. CASE Throughput!SignalHandler
  BY <1>4 DEF Throughput!SignalHandler, Throughput!Signal, Throughput!linkVars, Steady, linkVars
<1>5. CASE Throughput!Write
  BY <1>5, Zenon DEF Throughput!Write, Throughput!LinkWrite, LinkWrite, Throughput!Put, Put,
              Throughput!LinkFlowEvent, LinkFlowEvent, Throughput!Event, Event
<1>6. CASE \E n \in 0..MaxGranted : Throughput!PeerFlow(n)
  <2>1. PICK n \in 0..MaxGranted : Throughput!PeerFlow(n)
    BY <1>6
  <2>2. LinkFlow(n) /\ UNCHANGED ThroughputVars /\ UNCHANGED <<stamps, armed>>
    BY <2>1 DEF Throughput!PeerFlow, Throughput!LinkFlow, Throughput!Reads, Throughput!Connected, LinkFlow, Reads,
                Connected, Throughput!Put, Put, Throughput!LinkFlowEvent, LinkFlowEvent, Throughput!Event, Event
  <2>3. QED
    BY <2>2
<1>7. CASE \E d \in Throughput!Deliveries : \E state \in {"received"} \union Throughput!Outcomes :
             Throughput!PeerDisposition(d, state)
  <2>1. PICK d \in Deliveries, state \in {"received"} \union Outcomes : Throughput!PeerDisposition(d, state)
    BY <1>7 DEF Throughput!Outcomes, Outcomes, Throughput!Deliveries, Deliveries
  <2>2. LinkDisposition(d, state) /\ UNCHANGED ThroughputVars /\ UNCHANGED <<stamps, armed>>
    BY <2>1 DEF Throughput!PeerDisposition, Throughput!LinkDisposition, Throughput!Reads, Throughput!Connected,
                LinkDisposition, Reads, Connected, Throughput!Put, Put, Throughput!DeliveryEvent, DeliveryEvent,
                Throughput!Event, Event, Throughput!Interim, Interim
  <2>3. QED
    BY <2>2 DEF Reports
<1>8. CASE Throughput!PeerClose
  BY <1>8 DEF Throughput!PeerClose, Throughput!PeerCloses, Throughput!Connected, Throughput!linkVars, Steady,
              linkVars, LinkInv, Opening
<1>9. CASE Throughput!PeerDetach
  BY <1>9 DEF Throughput!PeerDetach, Throughput!PeerDetaches, Throughput!linkVars, Steady, linkVars
<1>10. CASE Throughput!Exited
  BY <1>10 DEF Throughput!Exited, Throughput!vars, Throughput!loopVars, Throughput!linkVars, Steady, linkVars
<1>11. CASE Throughput!LinkFlowIgnored
  <2>1. credit = 0 /\ UNCHANGED <<linkVars, turn, conn, ThroughputVars, stamps, armed>> /\ Dispatch("PN_LINK_FLOW")
    BY <1>11 DEF Throughput!LinkFlowIgnored, Throughput!Dispatch, Throughput!linkVars, Dispatch, linkVars,
                 LinkInv, LinkTypes
  <2>2. Sends(0)
    BY <2>1 DEF Sends, Fits, Transmit, Fixed, linkVars, LinkInv, LinkTypes, CreditSpent, ThroughputInv
  <2>3. QED
    BY <2>1, <2>2
<1>12. QED
  BY <1>1, <1>2, <1>3, <1>4, <1>5, <1>6, <1>7, <1>8, <1>9, <1>10, <1>11
  DEF Throughput!Next, Throughput!Client, Throughput!Peer

\* At PN_CONNECTION_INIT there is no credit yet.
LEMMA OpensWithoutCredit ==
  ASSUME LinkInv, Opens
  PROVE  conn = "init" /\ credit = 0 /\ count = 0
<1>1. collector \in Seq(Events)
  BY DEF LinkInv, LinkTypes
<1>2. Queued(ConnectionInitEvent, collector)
  BY <1>1, DispatchQueue, EventByType DEF Opens
<1>3. QED
  BY <1>2 DEF LinkInv, Opening

LEMMA ThroughputStep ==
  ASSUME LinkInv, ThroughputInv, Throughput!Next
  PROVE  ThroughputInv' /\ LinkStep
<1>1. CASE Throughput!LinkFlowSend
  BY <1>1, ThroughputFlow DEF LinkStep
<1>2. CASE Throughput!Delivery
  BY <1>2, ThroughputDelivery DEF LinkStep
<1>3. ASSUME UNCHANGED ThroughputVars, armed' => UNCHANGED <<stamps, armed>>,
             UNCHANGED <<limit, presettle, informs, count, settled>>,
             \/ Queued(LinkFlowEvent, collector')
             \/ UNCHANGED <<credit, collector>>
             \/ UNCHANGED credit /\ ~Queued(LinkFlowEvent, collector)
             \/ UNCHANGED credit /\ credit = 0
      PROVE  ThroughputInv'
  <2>1. ~informs' /\ armed' => Stamped'
    BY <1>3 DEF ThroughputInv, Stamped, AllIn
  <2>2. credit' > 0 /\ WantsToSend' => Queued(LinkFlowEvent, collector')
    BY <1>3 DEF ThroughputInv, WantsToSend, Queued
  <2>3. QED
    BY <1>3, <2>1, <2>2 DEF ThroughputInv, ThroughputVars
<1>4. CASE UNCHANGED ThroughputVars /\ Opens /\ UNCHANGED <<stamps, armed>>
  BY <1>3, <1>4, OpensWithoutCredit DEF Opens, linkVars, LinkStep
<1>5. CASE UNCHANGED ThroughputVars /\ Steady /\ (armed' => UNCHANGED <<stamps, armed>>)
  BY <1>3, <1>5 DEF Steady, linkVars, LinkStep
<1>6. CASE UNCHANGED ThroughputVars /\ LinkWrite /\ UNCHANGED <<stamps, armed>>
  <2>1. Queued(LinkFlowEvent, collector')
    BY <1>6, PeerKeepsFlow
  <2>2. QED
    BY <1>3, <1>6, <2>1 DEF LinkWrite, LinkStep
<1>7. CASE UNCHANGED ThroughputVars /\ (\E n \in 0..MaxGranted : LinkFlow(n)) /\ UNCHANGED <<stamps, armed>>
  <2>1. Queued(LinkFlowEvent, collector')
    BY <1>7, PeerKeepsFlow
  <2>2. QED
    BY <1>3, <1>7, <2>1 DEF LinkFlow, LinkStep
<1>8. CASE UNCHANGED ThroughputVars /\ (\E d \in Deliveries : Reports(d)) /\ UNCHANGED <<stamps, armed>>
  <2>1. Queued(LinkFlowEvent, collector) => Queued(LinkFlowEvent, collector')
    BY <1>8, PeerKeepsFlow
  <2>2. UNCHANGED <<limit, presettle, informs, count, settled, credit>>
    BY <1>8 DEF Reports, LinkDisposition
  <2>3. QED
    BY <1>3, <1>8, <2>1, <2>2 DEF LinkStep
<1>9. CASE UNCHANGED <<ThroughputVars, linkVars>> /\ Sends(0) /\ credit = 0 /\ UNCHANGED <<stamps, armed>>
  BY <1>3, <1>9 DEF linkVars, LinkStep
<1>10. QED
  BY <1>1, <1>2, <1>4, <1>5, <1>6, <1>7, <1>8, <1>9, ThroughputRest

-----------------------------------------------------------------------------
(***************************************************************************)
(* blocking-sender.c.                                                      *)
(***************************************************************************)

BlockingInv ==
  /\ conn = "init" => acked = 0
  /\ accepted \in Nat /\ not_accepted \in Nat
  /\ Blocking!OneOutstanding
  /\ stop_ts <=> (limit > 0 /\ count = limit)
  /\ ~informs => (ack_stop_ts <=> (~presettle /\ AllIn))
  /\ WantsToSend /\ ~pending_ack /\ credit > 0 => Queued(LinkFlowEvent, collector) \/ written < count

\* send_msg() on the link: one message, or none.
LEMMA BlockingSend ==
  ASSUME LinkInv, NEW pending, NEW base, Blocking!send_msg(pending, base)
  PROVE  \/ /\ Fits(1) /\ Transmit(1, base) /\ ~pending /\ (pending_ack' <=> ~presettle)
            /\ count' = count + 1 /\ (stop_ts' <=> stop_ts \/ (limit > 0 /\ count' = limit))
         \/ /\ Fits(0) /\ Transmit(0, base) /\ (pending_ack' <=> pending)
            /\ count' = count /\ credit' = credit /\ settled' = base /\ (stop_ts' <=> stop_ts)
            /\ pending \/ credit = 0 \/ ~WantsToSend
<1>1. CASE Blocking!SendOne(pending, base)
  <2>1. Fits(1) /\ Transmit(1, base) /\ ~pending /\ count' = count + 1
    BY <1>1 DEF Blocking!SendOne, Blocking!MaySend, Blocking!Transmit, Blocking!WantsToSend, Transmit, Fits,
                LinkInv, LinkTypes, CreditSpent
  <2>2. pending_ack' = ~presettle
    BY <1>1 DEF Blocking!SendOne
  <2>3. stop_ts' = (stop_ts \/ (limit > 0 /\ count' = limit))
    BY <1>1 DEF Blocking!SendOne
  <2>4. QED
    BY <2>1, <2>2, <2>3
<1>2. ASSUME pending_ack' = pending, settled' = base, UNCHANGED <<count, credit, stop_ts>>,
             pending \/ credit = 0 \/ ~WantsToSend
      PROVE  /\ Fits(0) /\ Transmit(0, base) /\ (pending_ack' <=> pending)
             /\ count' = count /\ credit' = credit /\ settled' = base /\ (stop_ts' <=> stop_ts)
             /\ pending \/ credit = 0 \/ ~WantsToSend
  <2>1. Fits(0)
    BY DEF Fits, LinkInv, LinkTypes, CreditSpent
  <2>2. (count + 1)..(count + 0) = {}
    BY DEF LinkInv, LinkTypes
  <2>3. Transmit(0, base)
    BY <1>2, <2>2 DEF Transmit, LinkInv, LinkTypes
  <2>4. QED
    BY <1>2, <2>1, <2>3
<1>3. CASE Blocking!OutOfCredit(pending, base)
  BY <1>2, <1>3 DEF Blocking!OutOfCredit, LinkInv, LinkTypes
<1>4. CASE Blocking!SendNone(pending, base)
  BY <1>2, <1>4 DEF Blocking!SendNone, Blocking!MaySend, Blocking!WantsToSend, WantsToSend
<1>5. QED
  BY <1>1, <1>2, <1>3, <1>4 DEF Blocking!send_msg

\* A message sent by send_msg(), or none, with nothing else settled.
LEMMA BlockingFlowEvent ==
  ASSUME LinkInv, BlockingInv, Blocking!FlowEvent
  PROVE  BlockingInv' /\ \E n \in Nat : Sends(n)
<1>1. /\ Dispatch("PN_LINK_FLOW") /\ Fixed /\ Blocking!send_msg(pending_ack, settled)
      /\ UNCHANGED <<acked, accepted, not_accepted, ack_stop_ts>>
  BY DEF Blocking!FlowEvent, Blocking!Dispatch, Dispatch, Fixed, Blocking!ackVars
<1>2. UNCHANGED <<conn, limit, presettle, informs, written>>
  BY <1>1 DEF Fixed
<1>3. count \in Nat /\ credit \in Nat /\ limit \in Nat /\ written \in Nat /\ written <= count
  BY DEF LinkInv, LinkTypes, CreditSpent
<1>4. ~presettle => settled' = settled
  BY <1>1, BlockingSend DEF Transmit
<1>5. ~informs => (ack_stop_ts' <=> (~presettle' /\ AllIn'))
  BY <1>1, <1>2, <1>4 DEF BlockingInv, AllIn
<1>6. CASE /\ Fits(1) /\ Transmit(1, settled) /\ ~pending_ack /\ (pending_ack' <=> ~presettle)
           /\ count' = count + 1 /\ (stop_ts' <=> stop_ts \/ (limit > 0 /\ count' = limit))
  <2>1. Sends(1)
    BY <1>1, <1>6 DEF Sends
  <2>2. Blocking!OneOutstanding'
    BY <1>1, <1>2, <1>3, <1>4, <1>6 DEF BlockingInv, Blocking!OneOutstanding, Blocking!Blocks
  <2>3. stop_ts' <=> (limit' > 0 /\ count' = limit')
    BY <1>2, <1>3, <1>6 DEF BlockingInv, Fits
  <2>4. written' < count'
    BY <1>2, <1>3, <1>6
  <2>5. QED
    BY <1>1, <1>2, <1>5, <2>1, <2>2, <2>3, <2>4 DEF BlockingInv
<1>7. CASE /\ Fits(0) /\ Transmit(0, settled) /\ (pending_ack' <=> pending_ack)
           /\ count' = count /\ credit' = credit /\ settled' = settled /\ (stop_ts' <=> stop_ts)
           /\ pending_ack \/ credit = 0 \/ ~WantsToSend
  <2>1. Sends(0)
    BY <1>1, <1>7 DEF Sends
  <2>2. Blocking!OneOutstanding'
    BY <1>1, <1>2, <1>7 DEF BlockingInv, Blocking!OneOutstanding, Blocking!Blocks
  <2>3. ~(WantsToSend' /\ ~pending_ack' /\ credit' > 0)
    BY <1>2, <1>3, <1>7 DEF WantsToSend
  <2>4. stop_ts' <=> (limit' > 0 /\ count' = limit')
    BY <1>2, <1>7 DEF BlockingInv
  <2>5. QED
    BY <1>1, <1>2, <1>5, <2>1, <2>2, <2>3, <2>4 DEF BlockingInv
<1>8. QED
  BY <1>1, <1>6, <1>7, BlockingSend

\* After the switch of case PN_DELIVERY: the link, and what is declared.
LEMMA BlockingProceed ==
  ASSUME LinkInv, BlockingInv, ~presettle, UNCHANGED limit,
         NEW pending, NEW base, Blocking!Proceed(pending, base)
  PROVE  \E n \in {0, 1} :
           /\ Fits(n) /\ Transmit(n, base) /\ count' = count + n /\ settled' = base
           /\ pending_ack' <=> (n = 1 \/ pending)
           /\ stop_ts' <=> (limit > 0 /\ count' = limit)
           /\ n = 0 => /\ ack_stop_ts' <=> (ack_stop_ts \/ (~WantsToSend /\ acked' = limit))
                       /\ pending \/ credit' = 0 \/ ~WantsToSend
           /\ n = 1 => ~pending /\ WantsToSend /\ (ack_stop_ts' <=> ack_stop_ts)
<1>0. count \in Nat /\ credit \in Nat /\ limit \in Nat /\ (limit > 0 => count <= limit)
  BY DEF LinkInv, LinkTypes, CreditSpent
<1>1. CASE WantsToSend /\ ~pending /\ Blocking!send_msg(pending, base) /\ UNCHANGED ack_stop_ts
  <2>1. CASE /\ Fits(1) /\ Transmit(1, base) /\ ~pending /\ (pending_ack' <=> ~presettle)
             /\ count' = count + 1 /\ (stop_ts' <=> stop_ts \/ (limit > 0 /\ count' = limit))
    <3>1. settled' = base
      BY <2>1 DEF Transmit
    <3>2. stop_ts' <=> (limit > 0 /\ count' = limit)
      BY <1>0, <1>1, <2>1 DEF BlockingInv, Fits
    <3>3. QED
      BY <1>0, <1>1, <2>1, <3>1, <3>2
  <2>2. CASE /\ Fits(0) /\ Transmit(0, base) /\ (pending_ack' <=> pending)
             /\ count' = count /\ credit' = credit /\ settled' = base /\ (stop_ts' <=> stop_ts)
             /\ pending \/ credit = 0 \/ ~WantsToSend
    <3>1. count' = count + 0
      BY <1>0, <2>2
    <3>2. stop_ts' <=> (limit > 0 /\ count' = limit)
      BY <2>2 DEF BlockingInv
    <3>3. QED
      BY <1>1, <2>2, <3>1, <3>2
  <2>3. QED
    BY <1>1, <2>1, <2>2, BlockingSend
<1>2. CASE /\ ~(WantsToSend /\ ~pending) /\ pending_ack' = pending /\ settled' = base
           /\ ack_stop_ts' = (ack_stop_ts \/ (~WantsToSend /\ acked' = limit))
           /\ UNCHANGED <<count, credit, stop_ts>>
  <2>1. Fits(0)
    BY <1>0 DEF Fits
  <2>2. Transmit(0, base) /\ count' = count + 0
    BY <1>0, <1>2 DEF Transmit
  <2>3. stop_ts' <=> (limit > 0 /\ count' = limit)
    BY <1>2 DEF BlockingInv
  <2>4. pending_ack' <=> (0 = 1 \/ pending)
    BY <1>2
  <2>5. ack_stop_ts' <=> (ack_stop_ts \/ (~WantsToSend /\ acked' = limit))
    BY <1>2
  <2>6. pending \/ credit' = 0 \/ ~WantsToSend
    BY <1>2
  <2>7. settled' = base
    BY <1>2
  <2>8. QED
    BY <2>1, <2>2, <2>3, <2>4, <2>5, <2>6, <2>7
<1>3. QED
  BY <1>1, <1>2 DEF Blocking!Proceed, Blocking!WantsToSend, WantsToSend

\* PN_DELIVERY: of a peer that reports once it is the outcome of the newest
\* message, which was waited for.
LEMMA BlockingDelivery ==
  ASSUME LinkInv, BlockingInv, Blocking!Delivery
  PROVE  BlockingInv' /\ \E d \in Deliveries, n \in Nat : Hears(d, n)
<1>0. PICK d : d = Head(collector).dlv
  OBVIOUS
<1>1. /\ Dispatch("PN_DELIVERY") /\ Fixed
      /\ Blocking!Received(d) \/ Blocking!Accepted(d) \/ Blocking!NotAccepted(d)
  BY <1>0 DEF Blocking!Delivery, Blocking!Dispatch, Dispatch, Fixed
<1>2. d \in Deliveries /\ Head(collector) = DeliveryEvent(d) /\ collector \in Seq(Events)
  BY <1>0, <1>1, DispatchQueue, EventByType DEF LinkInv, LinkTypes
<1>3. UNCHANGED <<limit, presettle, informs, written, conn>>
  BY <1>1 DEF Fixed
<1>4. ~presettle
  BY <1>1, <1>2 DEF Blocking!Received, Blocking!Accepted, Blocking!NotAccepted, LinkInv, Answered
<1>5. count \in Nat /\ credit \in Nat /\ limit \in Nat /\ (limit > 0 => count <= limit)
  BY DEF LinkInv, LinkTypes, CreditSpent
<1>6. CASE Blocking!Received(d)
  <2>1. remote[d] = "received" /\ UNCHANGED <<acked, accepted, not_accepted>> /\ Blocking!Proceed(pending_ack, settled)
    BY <1>6 DEF Blocking!Received
  <2>2. PICK n \in {0, 1} :
           /\ Fits(n) /\ Transmit(n, settled) /\ count' = count + n /\ settled' = settled
           /\ pending_ack' <=> (n = 1 \/ pending_ack)
           /\ stop_ts' <=> (limit > 0 /\ count' = limit)
           /\ n = 0 => /\ ack_stop_ts' <=> (ack_stop_ts \/ (~WantsToSend /\ acked' = limit))
                       /\ pending_ack \/ credit' = 0 \/ ~WantsToSend
    BY <1>3, <1>4, <2>1, BlockingProceed
  <2>3. Hears(d, n)
    BY <1>0, <1>1, <2>1, <2>2 DEF Hears
  <2>4. informs /\ conn # "init"
    BY <1>2, <2>1, <2>3, HeardFacts DEF Outcomes
  <2>5. WantsToSend' /\ ~pending_ack' => ~(credit' > 0)
    BY <1>3, <1>5, <2>2 DEF WantsToSend
  <2>6. BlockingInv'
    BY <1>3, <2>1, <2>2, <2>4, <2>5 DEF BlockingInv, Blocking!OneOutstanding
  <2>7. QED
    BY <1>2, <2>3, <2>6
<1>7. CASE Blocking!Accepted(d) \/ Blocking!NotAccepted(d)
  <2>1. /\ remote[d] \in Outcomes /\ acked' = acked + 1 /\ Blocking!Proceed(FALSE, settled \union {d})
        /\ \/ accepted' = accepted + 1 /\ not_accepted' = not_accepted
           \/ accepted' = accepted /\ not_accepted' = not_accepted + 1
    BY <1>7 DEF Blocking!Accepted, Blocking!NotAccepted, Outcomes
  <2>2. PICK n \in {0, 1} :
           /\ Fits(n) /\ Transmit(n, settled \union {d}) /\ count' = count + n /\ settled' = settled \union {d}
           /\ pending_ack' <=> n = 1
           /\ stop_ts' <=> (limit > 0 /\ count' = limit)
           /\ n = 0 => /\ ack_stop_ts' <=> (ack_stop_ts \/ (~WantsToSend /\ acked' = limit))
                       /\ credit' = 0 \/ ~WantsToSend
           /\ n = 1 => WantsToSend /\ (ack_stop_ts' <=> ack_stop_ts)
    BY <1>3, <1>4, <2>1, BlockingProceed
  <2>3. Hears(d, n)
    BY <1>0, <1>1, <2>1, <2>2 DEF Hears
  <2>4. d \in 1..count /\ conn # "init" /\ (~informs => d \notin settled)
    BY <1>2, <2>3, HeardFacts
  <2>5. WantsToSend' /\ ~pending_ack' => ~(credit' > 0)
    BY <1>3, <1>5, <2>2 DEF WantsToSend
  <2>6. accepted' \in Nat /\ not_accepted' \in Nat
    BY <2>1 DEF BlockingInv
  <2>7. ASSUME ~informs
        PROVE  /\ Blocking!OneOutstanding'
               /\ ack_stop_ts' <=> (~presettle' /\ AllIn')
    <3>1. pending_ack /\ d = count /\ count > 0 /\ settled = 1..(count - 1) /\ acked = count - 1
          /\ accepted + not_accepted = acked
      BY <1>4, <1>5, <2>4, <2>7 DEF BlockingInv, Blocking!OneOutstanding, Blocking!Blocks
    <3>2. settled' = 1..count
      BY <1>5, <2>2, <3>1
    <3>3. acked' = count
      BY <1>5, <2>1, <3>1
    <3>4. accepted' + not_accepted' = acked'
      BY <2>1, <3>1 DEF BlockingInv
    <3>5. (IF pending_ack' THEN count' - 1 ELSE count') = count
      BY <1>5, <2>2
    <3>6. Blocking!OneOutstanding'
      BY <3>2, <3>3, <3>4, <3>5 DEF Blocking!OneOutstanding, Blocking!Blocks
    <3>7. ~ack_stop_ts
      <4>1. limit > 0 => d \in 1..limit
        BY <1>5, <2>4
      <4>2. QED
        BY <2>4, <2>7, <4>1 DEF BlockingInv, AllIn
    <3>8. AllIn' <=> (limit > 0 /\ count = limit)
      <4>1. limit > 0 /\ 1..count = 1..limit => limit \in 1..count
        BY <1>5
      <4>2. QED
        BY <1>3, <1>5, <3>2, <4>1 DEF AllIn
    <3>9. WantsToSend <=> ~(limit > 0 /\ count = limit)
      BY <1>5 DEF WantsToSend
    <3>10. ack_stop_ts' <=> (~presettle' /\ AllIn')
      <4>1. CASE n = 0
        BY <1>3, <1>4, <2>2, <3>3, <3>7, <3>8, <3>9, <4>1
      <4>2. CASE n = 1
        BY <1>3, <1>4, <2>2, <3>7, <3>8, <3>9, <4>2
      <4>3. QED
        BY <4>1, <4>2
    <3>11. QED
      BY <3>6, <3>10
  <2>8. stop_ts' <=> (limit' > 0 /\ count' = limit')
    BY <1>3, <2>2
  <2>9. informs => Blocking!OneOutstanding'
    BY <1>3 DEF Blocking!OneOutstanding
  <2>10. BlockingInv'
    BY <1>3, <2>4, <2>5, <2>6, <2>7, <2>8, <2>9 DEF BlockingInv
  <2>11. QED
    BY <1>2, <2>3, <2>10
<1>8. QED
  BY <1>1, <1>6, <1>7

BlockingVars == <<pending_ack, acked, accepted, not_accepted, stop_ts, ack_stop_ts>>

\* The remaining steps leave the client's own state alone.
LEMMA BlockingRest ==
  ASSUME LinkInv, BlockingInv, Blocking!Next
  PROVE  \/ Blocking!FlowEvent
         \/ Blocking!Delivery
         \/ UNCHANGED BlockingVars /\ Opens
         \/ UNCHANGED BlockingVars /\ Steady
         \/ UNCHANGED BlockingVars /\ LinkWrite
         \/ UNCHANGED BlockingVars /\ \E n \in 0..MaxGranted : LinkFlow(n)
         \/ UNCHANGED BlockingVars /\ \E d \in Deliveries : Reports(d)
<1> USE DEF BlockingVars, Blocking!ackVars, Blocking!sendVars, Blocking!Unaffected
<1>1. CASE Blocking!ConnectionInit
  <2>1. Opens /\ UNCHANGED <<pending_ack, accepted, not_accepted, stop_ts, ack_stop_ts>> /\ acked' = count
    BY <1>1 DEF Blocking!ConnectionInit, Blocking!Dispatch, Blocking!linkVars, Opens, Dispatch, linkVars
  <2>2. acked' = acked
    BY <2>1, OpensWithoutCredit DEF BlockingInv
  <2>3. QED
    BY <2>1, <2>2
<1>2. CASE Blocking!ReactorQuiesce
  BY <1>2 DEF Blocking!ReactorQuiesce, Blocking!Quiesce, Blocking!linkVars, Steady, linkVars,
              LinkInv, Opening
<1>3. CASE Blocking!Main
  BY <1>3 DEF Blocking!Main, Blocking!MainLoop, Blocking!linkVars, Steady, linkVars, LinkInv, Opening
<1>4. CASE Blocking!SignalHandler
  BY <1>4 DEF Blocking!SignalHandler, Blocking!Signal, Blocking!linkVars, Steady, linkVars
<1>5. CASE Blocking!Write
  BY <1>5, Zenon DEF Blocking!Write, Blocking!LinkWrite, LinkWrite, Blocking!Put, Put,
              Blocking!LinkFlowEvent, LinkFlowEvent, Blocking!Event, Event
<1>6. CASE \E n \in 0..MaxGranted : Blocking!PeerFlow(n)
  <2>1. PICK n \in 0..MaxGranted : Blocking!PeerFlow(n)
    BY <1>6
  <2>2. LinkFlow(n) /\ UNCHANGED BlockingVars
    BY <2>1 DEF Blocking!PeerFlow, Blocking!LinkFlow, Blocking!Reads, Blocking!Connected, LinkFlow, Reads,
                Connected, Blocking!Put, Put, Blocking!LinkFlowEvent, LinkFlowEvent, Blocking!Event, Event
  <2>3. QED
    BY <2>2
<1>7. CASE \E d \in Blocking!Deliveries : \E state \in {"received"} \union Blocking!Outcomes :
             Blocking!PeerDisposition(d, state)
  <2>1. PICK d \in Deliveries, state \in {"received"} \union Outcomes : Blocking!PeerDisposition(d, state)
    BY <1>7 DEF Blocking!Outcomes, Outcomes, Blocking!Deliveries, Deliveries
  <2>2. LinkDisposition(d, state) /\ UNCHANGED BlockingVars
    BY <2>1 DEF Blocking!PeerDisposition, Blocking!LinkDisposition, Blocking!Reads, Blocking!Connected,
                LinkDisposition, Reads, Connected, Blocking!Put, Put, Blocking!DeliveryEvent, DeliveryEvent,
                Blocking!Event, Event, Blocking!Interim, Interim
  <2>3. QED
    BY <2>2 DEF Reports
<1>8. CASE Blocking!PeerClose
  BY <1>8 DEF Blocking!PeerClose, Blocking!PeerCloses, Blocking!Connected, Blocking!linkVars, Steady, linkVars,
              LinkInv, Opening
<1>9. CASE Blocking!PeerDetach
  BY <1>9 DEF Blocking!PeerDetach, Blocking!PeerDetaches, Blocking!linkVars, Steady, linkVars
<1>10. CASE Blocking!Exited
  BY <1>10 DEF Blocking!Exited, Blocking!vars, Blocking!loopVars, Blocking!linkVars, Steady, linkVars
<1>11. QED
  BY <1>1, <1>2, <1>3, <1>4, <1>5, <1>6, <1>7, <1>8, <1>9, <1>10
  DEF Blocking!Next, Blocking!Client, Blocking!Peer

LEMMA BlockingStep ==
  ASSUME LinkInv, BlockingInv, Blocking!Next
  PROVE  BlockingInv' /\ LinkStep
<1>1. CASE Blocking!FlowEvent
  BY <1>1, BlockingFlowEvent DEF LinkStep
<1>2. CASE Blocking!Delivery
  BY <1>2, BlockingDelivery DEF LinkStep
<1>3. ASSUME UNCHANGED BlockingVars, UNCHANGED <<limit, presettle, informs, count, settled>>,
             conn' = "init" => conn = "init",
             \/ Queued(LinkFlowEvent, collector')
             \/ UNCHANGED <<credit, collector, written>>
             \/ UNCHANGED <<credit, written>> /\ ~Queued(LinkFlowEvent, collector)
             \/ ~(credit' > 0)
      PROVE  BlockingInv'
  <2>1. Blocking!OneOutstanding'
    BY <1>3 DEF BlockingInv, Blocking!OneOutstanding, Blocking!Blocks, BlockingVars
  <2>2. WantsToSend' /\ ~pending_ack' /\ credit' > 0 => Queued(LinkFlowEvent, collector') \/ written' < count'
    BY <1>3 DEF BlockingInv, WantsToSend, BlockingVars, Queued
  <2>3. ~informs' => (ack_stop_ts' <=> (~presettle' /\ AllIn'))
    BY <1>3 DEF BlockingInv, BlockingVars, AllIn
  <2>4. stop_ts' <=> (limit' > 0 /\ count' = limit')
    BY <1>3 DEF BlockingInv, BlockingVars
  <2>5. QED
    BY <1>3, <2>1, <2>2, <2>3, <2>4 DEF BlockingInv, BlockingVars
<1>4. CASE UNCHANGED BlockingVars /\ Opens
  <2>1. conn = "init" /\ credit = 0
    BY <1>4, OpensWithoutCredit
  <2>2. QED
    BY <1>3, <1>4, <2>1 DEF Opens, linkVars, LinkStep
<1>5. CASE UNCHANGED BlockingVars /\ Steady
  BY <1>3, <1>5 DEF Steady, linkVars, LinkStep
<1>6. CASE UNCHANGED BlockingVars /\ LinkWrite
  <2>1. Queued(LinkFlowEvent, collector')
    BY <1>6, PeerKeepsFlow
  <2>2. QED
    BY <1>3, <1>6, <2>1 DEF LinkWrite, LinkStep
<1>7. CASE UNCHANGED BlockingVars /\ \E n \in 0..MaxGranted : LinkFlow(n)
  <2>1. Queued(LinkFlowEvent, collector')
    BY <1>7, PeerKeepsFlow
  <2>2. QED
    BY <1>3, <1>7, <2>1 DEF LinkFlow, Reads, LinkStep
<1>8. CASE UNCHANGED BlockingVars /\ \E d \in Deliveries : Reports(d)
  <2>1. Queued(LinkFlowEvent, collector) => Queued(LinkFlowEvent, collector')
    BY <1>8, PeerKeepsFlow
  <2>2. UNCHANGED <<limit, presettle, informs, count, settled, credit, written, conn>>
    BY <1>8 DEF Reports, LinkDisposition, Reads
  <2>3. QED
    BY <1>3, <1>8, <2>1, <2>2 DEF LinkStep
<1>9. QED
  BY <1>1, <1>2, <1>4, <1>5, <1>6, <1>7, <1>8, BlockingRest

-----------------------------------------------------------------------------
(***************************************************************************)
(* The three together.                                                     *)
(***************************************************************************)

SendersInv ==
  /\ program \in {"latency-sender", "throughput-sender", "blocking-sender"}
  /\ LinkInv
  /\ program = "latency-sender" => LatencyInv
  /\ program = "throughput-sender" => ThroughputInv
  /\ program = "blocking-sender" => BlockingInv

LEMMA SendersInit == Init => SendersInv
<1> SUFFICES ASSUME Init PROVE SendersInv
  OBVIOUS
<1>1. /\ LoopInit /\ LinkInit /\ pending_ack = FALSE /\ acked = 0 /\ accepted = 0 /\ not_accepted = 0
      /\ stop_ts = FALSE /\ ack_stop_ts = FALSE
  BY DEF Init, Blocking!Init, Blocking!LoopInit, LoopInit, Blocking!LinkInit, LinkInit,
         Blocking!ConnectionInitEvent, ConnectionInitEvent, Blocking!Event, Event,
         Blocking!Deliveries, Deliveries
<1>2. LinkInv
  BY <1>1, LinkInitInv
<1>3. /\ program \in {"latency-sender", "throughput-sender", "blocking-sender"}
      /\ program # "blocking-sender" => ~presettle /\ send_ts = 0 /\ samples = {} /\ stamps = <<>>
  BY DEF Init, Latency!Init, Throughput!Init
<1>4. count = 0 /\ credit = 0 /\ settled = {} /\ limit \in Nat /\ 1..0 = {}
  BY <1>1, <1>2 DEF LinkInit, LinkInv, LinkTypes
<1>5. ~AllIn
  <2>1. limit > 0 => 1 \in 1..limit
    BY <1>4
  <2>2. QED
    BY <1>4, <2>1 DEF AllIn
<1>6. program = "latency-sender" => LatencyInv
  <2>1. samples = {} => samples = {<<d, d>> : d \in settled}
    BY <1>4
  <2>2. QED
    BY <1>1, <1>3, <1>4, <2>1 DEF LatencyInv, Latency!OwnLatency
<1>7. program = "throughput-sender" => ThroughputInv
  BY <1>1, <1>3, <1>4, <1>5, FS_EmptySet DEF ThroughputInv, Stamped
<1>8. BlockingInv
  <2>1. ~stop_ts /\ ~ack_stop_ts /\ ~pending_ack
    BY <1>1
  <2>2. Blocking!OneOutstanding
    BY <1>1, <1>4, <2>1 DEF Blocking!OneOutstanding, Blocking!Blocks
  <2>3. ~(limit > 0 /\ count = limit)
    BY <1>4
  <2>4. ~(credit > 0)
    BY <1>4
  <2>5. QED
    BY <1>1, <1>5, <2>1, <2>2, <2>3, <2>4 DEF BlockingInv
<1>9. QED
  BY <1>2, <1>3, <1>6, <1>7, <1>8 DEF SendersInv

\* Every step is one of the running program's and, on the link, a LinkStep.
LEMMA SendersStep ==
  ASSUME SendersInv, [Next]_vars
  PROVE  SendersInv' /\ LinkStep
<1>1. CASE RunsLatency /\ Latency!Next
  BY <1>1, LatencyStep, LinkPreserved DEF SendersInv, RunsLatency
<1>2. CASE RunsThroughput /\ Throughput!Next
  BY <1>2, ThroughputStep, LinkPreserved DEF SendersInv, RunsThroughput
<1>3. CASE RunsBlocking /\ Blocking!Next
  BY <1>3, BlockingStep, LinkPreserved DEF SendersInv, RunsBlocking
<1>4. CASE UNCHANGED vars
  <2> USE <1>4 DEF vars, loopVars, linkVars, latencyOnly, throughputOnly, blockingOnly
  <2>1. Steady
    BY DEF Steady
  <2>2. LinkInv'
    BY <2>1, LinkSteady DEF SendersInv
  <2>3. program = "latency-sender" => LatencyInv'
    BY DEF SendersInv, LatencyInv, Latency!OwnLatency, WantsToSend, Queued
  <2>4. program = "throughput-sender" => ThroughputInv'
    BY DEF SendersInv, ThroughputInv, Stamped, AllIn, WantsToSend, Queued
  <2>5. program = "blocking-sender" => BlockingInv'
    BY DEF SendersInv, BlockingInv, Blocking!OneOutstanding, Blocking!Blocks, AllIn, WantsToSend, Queued
  <2>6. QED
    BY <2>1, <2>2, <2>3, <2>4, <2>5 DEF SendersInv, LinkStep
<1>5. QED
  BY <1>1, <1>2, <1>3, <1>4 DEF Next

LEMMA SendersAlways == Spec => []SendersInv
<1>1. SendersInv /\ [Next]_vars => SendersInv'
  BY SendersStep
<1>2. QED
  BY SendersInit, <1>1, PTL DEF Spec

\* latency-sender.c, with a peer that sends one disposition per delivery: one
\* message outstanding, and each latency is between a message and its own ack.
\* (An informing peer makes it record a second latency of a message.)
THEOREM MeasuresOwnLatency == Spec => []OwnLatency
<1>1. SendersInv => OwnLatency
  BY DEF SendersInv, LatencyInv, OwnLatency
<1>2. QED
  BY SendersAlways, <1>1, PTL

\* throughput-sender.c, with a peer that sends one disposition per delivery and
\* until a signal comes: the time measured spans all that is counted.  (A signal
\* before the first grant stops a clock that was never started.)
THEOREM MeasuresTheTransfer == Spec => []SpansTheTransfer
<1>1. SendersInv => SpansTheTransfer
  <2> SUFFICES ASSUME SendersInv, program = "throughput-sender", armed, ~informs
               PROVE  /\ count > 0 => Throughput!Taken("start_ts")
                      /\ Throughput!Taken("stop_ts") <=> AllIn
                      /\ Throughput!Taken("stop_ts") => stamps = <<"start_ts", "stop_ts">> /\ acked = count
    BY DEF SpansTheTransfer, Throughput!SpansTheTransfer, AllIn
  <2>1. ThroughputInv /\ Stamped /\ LinkInv
    BY DEF SendersInv, ThroughputInv
  <2>2. count \in Nat /\ (count = 0 => ~AllIn) /\ (AllIn => count = limit) /\ limit \in Nat
    BY <2>1, SettledAreSent DEF ThroughputInv, LinkInv, LinkTypes
  <2>3. /\ count > 0 => Throughput!Taken("start_ts")
        /\ Throughput!Taken("stop_ts") <=> AllIn
        /\ AllIn => stamps = <<"start_ts", "stop_ts">>
    BY <2>1, <2>2, StampFacts DEF Stamped
  <2>4. AllIn => acked = count
    <3>1. AllIn => settled \in SUBSET (1..limit) /\ settled = 1..limit
      BY DEF AllIn
    <3>2. AllIn => Cardinality(settled) = limit
      BY <2>2, <3>1, AllWhenAsMany
    <3>3. QED
      BY <2>1, <2>2, <3>2 DEF ThroughputInv
  <2>5. QED
    BY <2>3, <2>4
<1>2. QED
  BY SendersAlways, <1>1, PTL

\* blocking-sender.c, with a peer that sends one disposition per delivery: only
\* the newest message is without outcome.  (SendsOneAtATime, of every peer, fails.)
THEOREM BlocksOnEachMessage == Spec => []OneOutstanding
<1>1. SendersInv => OneOutstanding
  BY DEF SendersInv, BlockingInv, OneOutstanding
<1>2. QED
  BY SendersAlways, <1>1, PTL

\* None of the three waits for the network with nothing to wait for.
THEOREM WaitsWithReason == Spec => []NeverIdle
<1>1. SendersInv => NeverIdle
  <2> SUFFICES ASSUME SendersInv, collector = <<>>, credit # 0 PROVE NeverIdle
    BY DEF NeverIdle, Latency!WaitsForSomething, Throughput!NoIdleCredit, Blocking!WaitsForSomething
  <2>1. ~Queued(LinkFlowEvent, collector) /\ credit > 0
    BY DEF Queued, SendersInv, LinkInv, LinkTypes
  <2>2. (Latency!WantsToSend <=> WantsToSend) /\ (Throughput!WantsToSend <=> WantsToSend)
        /\ (Blocking!WantsToSend <=> WantsToSend)
    BY DEF Latency!WantsToSend, Throughput!WantsToSend, Blocking!WantsToSend, WantsToSend
  <2>3. QED
    BY <2>1, <2>2
    DEF SendersInv, LatencyInv, ThroughputInv, BlockingInv,
        NeverIdle, Latency!WaitsForSomething, Throughput!NoIdleCredit, Blocking!WaitsForSomething
<1>2. QED
  BY SendersAlways, <1>1, PTL

-----------------------------------------------------------------------------
(***************************************************************************)
(* Refinement: sending is an abstract Send, handling a new outcome an      *)
(* abstract Learn, handling it and sending the next message both at once.  *)
(***************************************************************************)

\* What the running program takes for the end of the transfer.
DeclaredNow == IF program = "blocking-sender" THEN Blocking!Declared
               ELSE IF program = "latency-sender" THEN Latency!Declared
               ELSE Throughput!Declared

DeclaredRight == DeclaredNow = Bulk!Finished

LEMMA DeclaredIsFinished == SendersInv => DeclaredRight
<1> SUFFICES ASSUME SendersInv PROVE DeclaredNow = Bulk!Finished
  BY DEF DeclaredRight
<1>1. limit \in Nat /\ (limit > 0 <=> limit # 0) /\ LinkInv /\ count \in Nat
  BY DEF SendersInv, LinkInv, LinkTypes
<1>2. Bulk!Finished <=> limit > 0 /\ (IF presettle THEN count = limit ELSE AllIn)
  BY <1>1 DEF Bulk!Finished, AllIn
<1>3. CASE program = "latency-sender"
  <2>1. ~presettle /\ (~informs => Latency!OwnLatency)
    BY <1>3 DEF SendersInv, LatencyInv
  <2>2. ~informs /\ limit > 0 => (acked = limit <=> settled = 1..limit)
    <3>1. ASSUME ~informs, limit > 0, settled = 1..limit, NEW a \in Int, settled = 1..a PROVE a = limit
      <4>1. limit \in 1..a /\ 1 <= a
        BY <1>1, <3>1
      <4>2. a \in 1..limit
        BY <3>1, <4>1
      <4>3. QED
        BY <1>1, <4>1, <4>2
    <3>2. QED
      BY <1>1, <2>1, <3>1 DEF Latency!OwnLatency
  <2>3. Latency!Declared <=> AllIn
    BY <2>2 DEF Latency!Declared, AllIn
  <2>4. (Latency!Declared <=> Bulk!Finished) /\ Latency!Declared \in BOOLEAN /\ Bulk!Finished \in BOOLEAN
    BY <1>2, <2>1, <2>3 DEF Latency!Declared, Bulk!Finished, AllIn
  <2>5. QED
    BY <1>3, <2>4 DEF DeclaredNow
<1>4. CASE program = "throughput-sender"
  <2>1. ~presettle /\ (~informs => acked = Cardinality(settled))
    BY <1>4 DEF SendersInv, ThroughputInv
  <2>2. ~informs /\ limit > 0 => (acked = limit <=> settled = 1..limit)
    <3>1. limit > 0 => settled \in SUBSET (1..limit)
      BY <1>1, <2>1, SettledAreSent
    <3>2. QED
      BY <1>1, <2>1, <3>1, AllWhenAsMany
  <2>3. Throughput!Declared <=> AllIn
    BY <2>2 DEF Throughput!Declared, AllIn
  <2>4. (Throughput!Declared <=> Bulk!Finished) /\ Throughput!Declared \in BOOLEAN /\ Bulk!Finished \in BOOLEAN
    BY <1>2, <2>1, <2>3 DEF Throughput!Declared, Bulk!Finished, AllIn
  <2>5. QED
    BY <1>4, <2>4 DEF DeclaredNow
<1>5. CASE program = "blocking-sender"
  <2>1. /\ stop_ts <=> (limit > 0 /\ count = limit)
        /\ ~informs => (ack_stop_ts <=> (~presettle /\ AllIn))
    BY <1>5 DEF SendersInv, BlockingInv
  <2>2. Blocking!Declared <=> Bulk!Finished
    <3>1. CASE presettle
      BY <1>2, <2>1, <3>1 DEF Blocking!Declared
    <3>2. CASE ~presettle
      BY <1>2, <2>1, <3>2 DEF Blocking!Declared, AllIn
    <3>3. QED
      BY <3>1, <3>2
  <2>3. Blocking!Declared \in BOOLEAN /\ Bulk!Finished \in BOOLEAN
    BY DEF Blocking!Declared, Bulk!Finished
  <2>4. QED
    BY <1>5, <2>2, <2>3 DEF DeclaredNow
<1>6. QED
  BY <1>3, <1>4, <1>5 DEF SendersInv

LEMMA BulkInit == Init => Bulk!Init
<1> SUFFICES ASSUME Init PROVE Bulk!Init
  OBVIOUS
<1>1. SendersInv /\ count = 0 /\ settled = {} /\ limit \in Limits /\ presettle \in BOOLEAN
  BY SendersInit DEF Init, Blocking!Init, Blocking!LinkInit
<1>2. limit \in Nat /\ (limit > 0 => 1 \in 1..limit)
  BY <1>1 DEF SendersInv, LinkInv, LinkTypes
<1>3. Bulk!Finished = FALSE
  BY <1>1, <1>2 DEF Bulk!Finished
<1>4. DeclaredNow = FALSE
  BY <1>1, <1>3, DeclaredIsFinished DEF DeclaredRight
<1>5. QED
  BY <1>1, <1>4 DEF Bulk!Init, DeclaredNow

LEMMA BulkStep ==
  ASSUME SendersInv, SendersInv', LinkStep
  PROVE  [Bulk!Next]_(Bulk!vars)
<1> DEFINE known == IF presettle THEN {} ELSE settled
<1>1. UNCHANGED <<limit, presettle>>
  BY DEF LinkStep, Opens, Steady, LinkWrite, Sends, Hears, Fixed, LinkFlow, Reports, LinkDisposition, linkVars
<1>2. DeclaredNow = Bulk!Finished
  BY DeclaredIsFinished DEF DeclaredRight
<1>3. DeclaredNow' = Bulk!Finished'
  <2>1. DeclaredRight'
    BY DeclaredIsFinished, PTL
  <2>2. QED
    BY <2>1 DEF DeclaredRight
<1>4. LinkInv /\ limit \in Nat /\ count \in Nat
  BY DEF SendersInv, LinkInv, LinkTypes
<1>5. ASSUME UNCHANGED <<count, known>> PROVE UNCHANGED Bulk!vars
  <2>1. Bulk!Finished' = Bulk!Finished
    BY <1>1, <1>5 DEF Bulk!Finished
  <2>2. QED
    BY <1>1, <1>2, <1>3, <1>5, <2>1 DEF Bulk!vars, DeclaredNow
<1>6. ASSUME \/ Bulk!Send /\ UNCHANGED known
             \/ Bulk!Learn /\ UNCHANGED count
             \/ Bulk!Learn /\ Bulk!Send
      PROVE  Bulk!Next
  BY <1>1, <1>3, <1>6 DEF Bulk!Next, DeclaredNow
<1>7. ASSUME NEW n \in Nat, n > 0, Fits(n), count' = count + n PROVE Bulk!Send
  BY <1>4, <1>7 DEF Bulk!Send, Fits
<1>8. ASSUME NEW n \in Nat, Sends(n) PROVE [Bulk!Next]_(Bulk!vars)
  <2>1. Fits(n) /\ count' = count + n /\ (~presettle => settled' = settled)
    BY <1>8 DEF Sends, Transmit
  <2>2. UNCHANGED known
    BY <1>1, <2>1
  <2> HIDE DEF known
  <2>3. CASE n = 0
    BY <1>4, <1>5, <2>1, <2>2, <2>3
  <2>4. CASE n > 0
    BY <1>6, <1>7, <2>1, <2>2, <2>4
  <2>5. QED
    BY <2>3, <2>4
<1>9. ASSUME NEW d \in Deliveries, NEW n \in Nat, Hears(d, n) PROVE [Bulk!Next]_(Bulk!vars)
  <2>1. Fits(n) /\ count' = count + n
    BY <1>9 DEF Hears, Transmit
  <2>2. /\ ~presettle /\ d \in 1..count
        /\ settled' = settled \union {d} \/ settled' = settled
    BY <1>4, <1>9, HeardFacts
  <2>3. CASE settled' = settled
    <3>1. UNCHANGED known
      BY <1>1, <2>3
    <3> HIDE DEF known
    <3>2. CASE n = 0
      BY <1>4, <1>5, <2>1, <3>1, <3>2
    <3>3. CASE n > 0
      BY <1>6, <1>7, <2>1, <3>1, <3>3
    <3>4. QED
      BY <3>2, <3>3
  <2>4. CASE settled' # settled
    <3>1. Bulk!Learn
      BY <1>1, <2>2, <2>4 DEF Bulk!Learn
    <3> HIDE DEF known
    <3>2. CASE n = 0
      BY <1>4, <1>6, <2>1, <3>1, <3>2
    <3>3. CASE n > 0
      BY <1>6, <1>7, <2>1, <3>1, <3>3
    <3>4. QED
      BY <3>2, <3>3
  <2>5. QED
    BY <2>3, <2>4
<1>10. CASE Opens \/ Steady \/ LinkWrite \/ (\E n \in 0..MaxGranted : LinkFlow(n)) \/ (\E d \in Deliveries : Reports(d))
  <2>1. UNCHANGED <<count, settled>>
    BY <1>10 DEF Opens, Steady, LinkWrite, LinkFlow, Reports, LinkDisposition, linkVars
  <2>2. QED
    BY <1>1, <1>5, <2>1
<1>11. QED
  BY <1>8, <1>9, <1>10 DEF LinkStep

\* The three senders implement the abstract bulk transfer, whatever the
\* limit, the peer and the interleaving.
THEOREM MeasuringSendersImplementBulkSend == Spec => ImplementsBulkSend
<1>1. SendersInv /\ SendersInv' /\ [Next]_vars => [Bulk!Next]_(Bulk!vars)
  BY SendersStep, BulkStep
<1>2. QED
  BY BulkInit, SendersAlways, <1>1, PTL DEF Spec, ImplementsBulkSend, Bulk!Spec
=============================================================================
