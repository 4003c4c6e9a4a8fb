---------------------------- MODULE SenderProofs ----------------------------
(***************************************************************************)
(* Proofs about Sender (sender.c), for every set of limits and every bound *)
(* on the credit granted.                                                  *)
(***************************************************************************)
EXTENDS Sender, CommonProofs, FiniteSetTheorems, TLAPS

\* The events the link raises are well formed.
LEMMA EventTypes ==
  /\ LinkFlowEvent \in Events
  /\ ConnectionInitEvent \in Events
  /\ \A d \in Deliveries : DeliveryEvent(d) \in Events
BY DEF Events, LinkFlowEvent, ConnectionInitEvent, DeliveryEvent, Event

\* The batch sent on one flow event fits the credit and the limit.
LEMMA BatchFacts ==
  ASSUME TypeOK, CreditSpent, WantsToSend
  PROVE  /\ Batch \in Nat
         /\ Batch <= credit
         /\ limit > 0 => count + Batch <= limit
BY SendingLinkAssumption DEF TypeOK, LinkTypeOK, CreditSpent, WantsToSend, Batch

TypeInv == TypeOK /\ CreditSpent

LEMMA TypeInit == Init => TypeInv
<1> SUFFICES ASSUME Init PROVE TypeInv
  OBVIOUS
<1>1. collector \in Seq(Events)
  BY EventTypes DEF Init, LoopInit
<1>2. remote \in [Deliveries -> {"none", "received"} \union Outcomes]
  BY DEF Init, LinkInit
<1>3. LoopTypeOK
  BY DEF Init, LoopInit, LoopTypeOK
<1>4. LinkTypeOK
  BY <1>1, <1>2, <1>3, SendingLinkAssumption, InformsAssumption DEF Init, LinkInit, LinkTypeOK, Events, Interim
<1>5. CreditSpent
  BY <1>4, SendingLinkAssumption DEF Init, LinkInit, LinkTypeOK, CreditSpent
<1>6. /\ acked \in Nat /\ accepted \in Nat /\ not_accepted \in Nat
      /\ stall_count \in Nat /\ grant_count \in Nat /\ credit_grants \in Nat
  BY DEF Init
<1>7. /\ start_ts \in BOOLEAN /\ stop_ts \in BOOLEAN
      /\ ack_start_ts \in BOOLEAN /\ ack_stop_ts \in BOOLEAN /\ stalled \in BOOLEAN
  BY Zenon DEF Init
<1>8. QED
  BY <1>4, <1>5, <1>6, <1>7, Zenon DEF TypeInv, TypeOK

LEMMA TypeStep == TypeInv /\ [Next]_vars => TypeInv'
<1> SUFFICES ASSUME TypeInv, [Next]_vars PROVE TypeInv'
  OBVIOUS
<1> USE SendingLinkAssumption
  DEF TypeInv, TypeOK, LinkTypeOK, LoopTypeOK, CreditSpent, Events,
      Unaffected, vars, loopVars, linkVars, ackVars, sendVars
<1>1. CASE ConnectionInit
  BY <1>1 DEF ConnectionInit, Dispatch
<1>2. CASE LinkFlowSend
  <2>1. Batch \in Nat /\ Batch <= credit /\ (limit > 0 => count + Batch <= limit)
    BY <1>2, BatchFacts DEF LinkFlowSend
  <2>2. count + Batch <= MaxGranted
    BY <2>1
  <2>3. collector' \in Seq(Events)
    BY <1>2 DEF LinkFlowSend, Dispatch
  <2>4. /\ count' \in Nat /\ credit' \in Nat /\ count' + credit' = granted'
        /\ written' <= count' /\ (limit' > 0 => count' <= limit')
        /\ stall_count' \in Nat /\ grant_count' \in Nat /\ credit_grants' \in Nat
    BY <1>2, <2>1 DEF LinkFlowSend, Transmit
  <2>5. settled' \subseteq Deliveries
    BY <1>2, <2>1, <2>2 DEF LinkFlowSend, Transmit, Deliveries
  <2>6. /\ stop' \in BOOLEAN /\ stop_ts' \in BOOLEAN /\ stalled' \in BOOLEAN /\ start_ts' \in BOOLEAN
    BY <1>2 DEF LinkFlowSend
  <2>7. LoopTypeOK'
    BY <1>2, <2>6 DEF LinkFlowSend
  <2>8. LinkTypeOK'
    BY <1>2, <2>3, <2>4, <2>5, <2>7 DEF LinkFlowSend
  <2>9. QED
    BY <1>2, <2>4, <2>6, <2>8 DEF LinkFlowSend
<1>3. CASE LinkFlowIgnored
  BY <1>3 DEF LinkFlowIgnored, Dispatch
<1>4. CASE Delivery
  <2>1. Head(collector).dlv \in Deliveries
    BY <1>4 DEF Delivery, Dispatch
  <2>2. collector' \in Seq(Events)
    BY <1>4 DEF Delivery, Dispatch
  <2>3. /\ settled' \subseteq Deliveries
        /\ acked' \in Nat /\ accepted' \in Nat /\ not_accepted' \in Nat
    <3> DEFINE d == Head(collector).dlv
    <3>1. CASE Received(d)
      BY <3>1 DEF Received
    <3>2. CASE Accepted(d)
      BY <3>2, <2>1 DEF Accepted
    <3>3. CASE NotAccepted(d)
      BY <3>3, <2>1 DEF NotAccepted
    <3>4. QED
      BY <1>4, <3>1, <3>2, <3>3 DEF Delivery
  <2>4. stop' \in BOOLEAN /\ ack_stop_ts' \in BOOLEAN /\ ack_start_ts' \in BOOLEAN
    BY <1>4 DEF Delivery, Received, Accepted, NotAccepted
  <2>5. QED
    BY <1>4, <2>2, <2>3, <2>4 DEF Delivery
<1>5. CASE ReactorQuiesce
  BY <1>5 DEF ReactorQuiesce, Quiesce
<1>6. CASE Main
  BY <1>6 DEF Main, MainLoop
<1>7. CASE SignalHandler
  <2>1. UNCHANGED <<turn, conn, link, collector, linkVars, ackVars, sendVars>>
    BY <1>7 DEF SignalHandler, Signal
  <2>2. stop' \in BOOLEAN /\ armed' \in BOOLEAN
    BY <1>7 DEF SignalHandler, Signal
  <2>3. LinkTypeOK' /\ CreditSpent'
    BY <2>1, <2>2
  <2>4. QED
    BY <2>1, <2>3
<1>8. CASE Write
  <2>1. collector' \in Seq(Events)
    BY <1>8, PutType, EventTypes DEF Write, LinkWrite
  <2>2. QED
    BY <1>8, <2>1 DEF Write, LinkWrite
<1>9. ASSUME NEW n \in 0..MaxGranted, PeerFlow(n) PROVE TypeInv'
  <2>1. collector' \in Seq(Events)
    BY <1>9, PutType, EventTypes DEF PeerFlow, LinkFlow, Reads
  <2>2. QED
    BY <1>9, <2>1 DEF PeerFlow, LinkFlow, Reads
<1>10. ASSUME NEW d \in Deliveries, NEW state \in {"received"} \union Outcomes, PeerDisposition(d, state)
       PROVE TypeInv'
  <2>1. collector' \in Seq(Events)
    BY <1>10, PutType, EventTypes DEF PeerDisposition, LinkDisposition, Reads
  <2>2. QED
    BY <1>10, <2>1 DEF PeerDisposition, LinkDisposition, Reads, Outcomes, Interim
<1>11. CASE PeerClose
  BY <1>11 DEF PeerClose, PeerCloses
<1>12. CASE PeerDetach
  BY <1>12 DEF PeerDetach, PeerDetaches
<1>13. CASE UNCHANGED vars
  BY <1>13
<1>14. QED
  BY <1>1, <1>2, <1>3, <1>4, <1>5, <1>6, <1>7, <1>8, <1>9, <1>10, <1>11, <1>12, <1>13
  DEF Next, Client, Peer, Exited

\* The type invariant of sender.c's state holds in every reachable state.
THEOREM TypeCorrect == Spec => []TypeOK
<1>1. TypeInv => TypeOK
  BY DEF TypeInv
<1>2. QED
  BY TypeInit, TypeStep, <1>1, PTL DEF Spec

\* The sender never sends beyond the credit it was granted nor beyond -c.
THEOREM SpendsCredit == Spec => []CreditSpent
<1>1. TypeInv => CreditSpent
  BY DEF TypeInv
<1>2. QED
  BY TypeInit, TypeStep, <1>1, PTL DEF Spec

-----------------------------------------------------------------------------
(***************************************************************************)
(* The inductive invariant SenderInv, for every peer; its parts on what is *)
(* counted say something only of peers that do not inform.                 *)
(***************************************************************************)

\* The three kinds of event differ, and deliveries have events of their own.
LEMMA EventsDiffer ==
  /\ LinkFlowEvent # ConnectionInitEvent
  /\ \A d \in Deliveries : DeliveryEvent(d) # LinkFlowEvent /\ DeliveryEvent(d) # ConnectionInitEvent
  /\ \A d, e \in Deliveries : DeliveryEvent(d) = DeliveryEvent(e) => d = e
BY DEF LinkFlowEvent, ConnectionInitEvent, DeliveryEvent, Event

\* The type of an event and its delivery determine it.
LEMMA EventByType ==
  ASSUME NEW e \in Events
  PROVE  /\ e.type = "PN_CONNECTION_INIT" => e = ConnectionInitEvent
         /\ e.type = "PN_LINK_FLOW" => e = LinkFlowEvent
         /\ e.type = "PN_DELIVERY" => e.dlv \in Deliveries /\ e = DeliveryEvent(e.dlv)
BY DEF Events, LinkFlowEvent, ConnectionInitEvent, DeliveryEvent, Event

\* What dispatching an event does to the queue.
LEMMA DispatchQueue ==
  ASSUME collector \in Seq(Events), NEW type, Dispatch(type)
  PROVE  /\ Head(collector) \in Events /\ Head(collector).type = type
         /\ Queued(Head(collector), collector)
         /\ \A f : /\ Queued(f, collector') => Queued(f, collector)
                   /\ Queued(f, collector) /\ f # Head(collector) => Queued(f, collector')
                   /\ Once(f, collector) => /\ Once(f, collector')
                                            /\ f = Head(collector) => ~Queued(f, collector')
<1>1. collector # <<>> /\ collector' = Tail(collector) /\ Head(collector).type = type
  BY DEF Dispatch
<1>2. Head(collector) \in Events /\ Head(collector) = collector[1] /\ Len(collector) \in Nat \ {0}
  BY <1>1, TailShape
<1>3. Queued(Head(collector), collector)
  BY <1>2 DEF Queued
<1>4. QED
  BY <1>1, <1>2, <1>3, TailQueued, TailOnce

\* Sets of deliveries are finite.
LEMMA FiniteDeliveries ==
  ASSUME NEW S \in SUBSET Deliveries
  PROVE  IsFiniteSet(S) /\ Cardinality(S) \in Nat
<1>1. IsFiniteSet(Deliveries)
  BY FS_Interval, SendingLinkAssumption DEF Deliveries
<1>2. QED
  BY <1>1, FS_Subset, FS_CardinalityType

LEMMA InvInit == Init => SenderInv
<1> SUFFICES ASSUME Init PROVE SenderInv
  OBVIOUS
<1>1. TypeOK /\ CreditSpent
  BY TypeInit DEF TypeInv
<1>2. collector = <<ConnectionInitEvent>> /\ Len(collector) = 1 /\ collector[1] = ConnectionInitEvent
  BY DEF Init, LoopInit
<1>3. OpensFirst
  BY <1>2 DEF OpensFirst, Init, LoopInit, LinkInit
<1>4. EventsOnce /\ NoOutcomeLost
  BY <1>2, EventsDiffer DEF EventsOnce, NoOutcomeLost, Once, Queued, Init, LinkInit, Outcomes
<1>5. Answered
  BY DEF Answered, Init, LinkInit
<1>6. With("accepted") = {} /\ With("rejected") = {} /\ settled = {}
  BY DEF With, Init, LinkInit
<1>7. Counted
  BY <1>6, FS_EmptySet DEF Counted, OutcomesCountedOnce, Init
<1>8. Marks
  <2>1. limit > 0 => settled # 1..limit
    <3>1. limit \in Nat
      BY <1>1, SendingLinkAssumption DEF TypeOK, LinkTypeOK
    <3>2. limit > 0 => 1 \in 1..limit
      BY <3>1
    <3>3. QED
      BY <1>6, <3>2
  <2>2. ~start_ts /\ ~stop_ts /\ ~ack_stop_ts /\ accepted = 0 /\ count = 0
    BY Zenon DEF Init, LinkInit
  <2>3. QED
    BY <2>1, <2>2 DEF Marks
<1>9. GrantsAddUp /\ CreditHasEvent
  BY DEF GrantsAddUp, CreditHasEvent, Init, LinkInit
<1>10. QED
  BY <1>1, <1>3, <1>4, <1>5, <1>7, <1>8, <1>9 DEF SenderInv

\* Steps that touch neither the queue nor the client's state.
LEMMA InvFrame ==
  ASSUME SenderInv, TypeInv', UNCHANGED <<collector, linkVars, ackVars, sendVars>>, OpensFirst'
  PROVE  SenderInv'
<1>1. UNCHANGED <<With("accepted"), With("rejected")>>
  BY DEF With, linkVars
<1>2. EventsOnce' /\ NoOutcomeLost' /\ Answered' /\ CreditHasEvent'
  BY DEF SenderInv, EventsOnce, NoOutcomeLost, Answered, CreditHasEvent, WantsToSend, linkVars, Queued, Once
<1>3. Counted'
  BY <1>1 DEF SenderInv, Counted, OutcomesCountedOnce, linkVars, ackVars
<1>4. Marks' /\ GrantsAddUp'
  BY DEF SenderInv, Marks, GrantsAddUp, linkVars, ackVars, sendVars
<1>5. QED
  BY <1>2, <1>3, <1>4 DEF SenderInv, TypeInv

\* PN_CONNECTION_INIT: acked becomes count, which is still 0.
LEMMA InvConnectionInit ==
  ASSUME SenderInv, TypeInv', ConnectionInit
  PROVE  SenderInv'
<1> USE DEF ConnectionInit
<1>1. collector \in Seq(Events) /\ conn \in {"init", "open", "closing", "closed"}
  BY DEF SenderInv, TypeOK, LinkTypeOK, LoopTypeOK
<1>2. Head(collector) = ConnectionInitEvent /\ Queued(ConnectionInitEvent, collector)
  BY <1>1, DispatchQueue, EventByType
<1>3. conn = "init" /\ collector = <<ConnectionInitEvent>> /\ count = 0 /\ acked = 0
  BY <1>2 DEF SenderInv, OpensFirst
<1>4. collector' = <<>>
  BY <1>3 DEF Dispatch
<1>5. \A f : ~Queued(f, collector') /\ Once(f, collector')
  BY <1>4 DEF Queued, Once
<1>6. UNCHANGED <<linkVars, ackVars, sendVars>>
  BY <1>3 DEF ackVars
<1>7. credit = 0 \/ ~WantsToSend
  <2>1. ~Queued(LinkFlowEvent, collector)
    BY <1>3, EventsDiffer DEF Queued
  <2>2. QED
    BY <2>1 DEF SenderInv, CreditHasEvent, TypeOK, LinkTypeOK
<1>8. \A d \in Deliveries : ~Queued(DeliveryEvent(d), collector)
  BY <1>3, EventsDiffer DEF Queued
<1>9. OpensFirst' /\ EventsOnce' /\ NoOutcomeLost'
  BY <1>5, <1>6, <1>8 DEF OpensFirst, EventsOnce, NoOutcomeLost, SenderInv, linkVars
<1>10. CreditHasEvent'
  BY <1>6, <1>7 DEF CreditHasEvent, WantsToSend, linkVars, SenderInv, TypeOK, LinkTypeOK
<1>11. UNCHANGED <<With("accepted"), With("rejected")>>
  BY <1>6 DEF With, linkVars
<1>12. Answered' /\ Counted' /\ Marks' /\ GrantsAddUp'
  BY <1>6, <1>11 DEF SenderInv, Answered, Counted, OutcomesCountedOnce, Marks, GrantsAddUp, linkVars, ackVars, sendVars
<1>13. QED
  BY <1>9, <1>10, <1>12 DEF SenderInv, TypeInv

\* One more grant makes room for the stall that may follow it.
LEMMA NextGrant ==
  ASSUME NEW s \in Nat, NEW t \in Nat, NEW g \in Nat, NEW a \in 0..1, NEW b \in 0..1,
         t <= s + a, s + a <= g
  PROVE  t + b <= g + 1
OBVIOUS

\* PN_LINK_FLOW with credit: the batch is new, so nothing of it is reported.
LEMMA InvLinkFlowSend ==
  ASSUME SenderInv, TypeInv', LinkFlowSend
  PROVE  SenderInv'
<1> USE DEF LinkFlowSend
<1>1. collector \in Seq(Events)
  BY DEF SenderInv, TypeOK, LinkTypeOK
<1>2. Head(collector) = LinkFlowEvent /\ Queued(LinkFlowEvent, collector)
  BY <1>1, DispatchQueue, EventByType
<1>3. conn # "init"
  BY <1>2, EventsDiffer DEF SenderInv, OpensFirst, Queued
<1>4. /\ Batch \in Nat /\ Batch <= credit /\ (limit > 0 => count + Batch <= limit)
      /\ Batch > 0
      /\ Batch = credit \/ count + Batch = limit
  BY BatchFacts, SendingLinkAssumption
  DEF SenderInv, TypeOK, LinkTypeOK, CreditSpent, Batch, WantsToSend
<1>5. OpensFirst'
  BY <1>1, <1>3, DispatchQueue DEF SenderInv, OpensFirst
<1>6. \A d \in Deliveries : /\ ~informs => Once(DeliveryEvent(d), collector')
                            /\ Queued(DeliveryEvent(d), collector') <=> Queued(DeliveryEvent(d), collector)
  BY <1>1, <1>2, DispatchQueue, EventsDiffer DEF SenderInv, EventsOnce
<1>7. UNCHANGED remote /\ settled \subseteq settled' /\ (~presettle => settled' = settled)
  BY DEF Transmit
<1>8. presettle => \A d \in Deliveries : remote[d] \notin Outcomes
  BY DEF SenderInv, Answered, Outcomes
<1>9. EventsOnce' /\ NoOutcomeLost'
  BY <1>6, <1>7, <1>8 DEF SenderInv, EventsOnce, NoOutcomeLost
<1>10. Answered'
  <2>1. presettle => settled' = 1..count'
    BY <1>4 DEF SenderInv, Answered, Transmit, TypeOK, LinkTypeOK
  <2>2. QED
    BY <1>7, <2>1 DEF SenderInv, Answered
<1>11. ~presettle => UNCHANGED <<With("accepted"), With("rejected")>>
  BY <1>7 DEF With
<1>12. Counted'
  BY <1>7, <1>11 DEF SenderInv, Counted, OutcomesCountedOnce, ackVars
<1>13. count < limit \/ limit = 0
  BY DEF WantsToSend
<1>14. count' = count + Batch /\ credit' = credit - Batch
  BY DEF Transmit
<1>15. Marks'
  <2> USE DEF SenderInv, TypeOK, LinkTypeOK
  <2>1. start_ts' <=> count' > 0
    BY <1>4, <1>14
  <2>2. stop_ts' <=> (limit' > 0 /\ count' = limit')
    <3>1. stop_ts' <=> stop_ts \/ (limit > 0 /\ count' = limit)
      BY Zenon
    <3>2. ~stop_ts
      BY <1>13, SendingLinkAssumption DEF Marks
    <3>3. QED
      BY <3>1, <3>2
  <2>3. accepted' > 0 => ack_start_ts'
    BY DEF Marks, ackVars
  <2>4. ~informs' => (ack_stop_ts' <=> (~presettle' /\ limit' > 0 /\ settled' = 1..limit'))
    BY <1>7 DEF Marks, ackVars
  <2>5. QED
    BY <2>1, <2>2, <2>3, <2>4 DEF Marks
<1>16. stall_count' + (IF stalled' THEN 1 ELSE 0) <= grant_count'
  <2>1. stall_count' <= stall_count + (IF stalled THEN 1 ELSE 0) /\ grant_count' = grant_count + 1
    BY DEF SenderInv, TypeOK
  <2>2. stall_count + (IF stalled THEN 1 ELSE 0) <= grant_count
    BY DEF SenderInv, GrantsAddUp
  <2>3. stall_count \in Nat /\ grant_count \in Nat /\ stall_count' \in Nat
    BY DEF SenderInv, TypeOK, TypeInv
  <2> HIDE DEF LinkFlowSend
  <2> DEFINE a == IF stalled THEN 1 ELSE 0
             b == IF stalled' THEN 1 ELSE 0
  <2>4. a \in 0..1 /\ b \in 0..1
    OBVIOUS
  <2>5. stall_count' <= stall_count + a /\ grant_count' = grant_count + 1 /\ stall_count + a <= grant_count
    BY <2>1, <2>2
  <2>6. QED
    BY <2>3, <2>4, <2>5, NextGrant
<1>17. GrantsAddUp'
  <2> USE DEF SenderInv, TypeOK, LinkTypeOK
  <2>1. ~stop_ts /\ credit_grants = count
    BY <1>13, SendingLinkAssumption DEF Marks, GrantsAddUp
  <2>2. credit_grants' = granted' /\ count' <= credit_grants'
    BY <1>4, <1>14, <2>1 DEF CreditSpent
  <2>3. count' < credit_grants' => stop_ts'
    <3>1. count' < credit_grants' => limit > 0 /\ count' = limit
      BY <1>4, <1>14, <2>1, SendingLinkAssumption
    <3>2. QED
      BY <1>15, <3>1 DEF Marks
  <2> HIDE DEF LinkFlowSend, SenderInv, TypeOK, LinkTypeOK
  <2>4. count' <= credit_grants' /\ credit_grants' <= granted'
    <3>1. credit_grants' \in Nat
      BY DEF TypeInv, TypeOK
    <3>2. QED
      BY <2>2, <3>1
  <2>5. QED
    BY <1>16, <2>3, <2>4, Zenon DEF GrantsAddUp
<1>18. CreditHasEvent'
  BY <1>4, <1>14, SendingLinkAssumption DEF SenderInv, TypeOK, LinkTypeOK, CreditHasEvent, WantsToSend
<1>19. QED
  BY <1>5, <1>9, <1>10, <1>12, <1>15, <1>17, <1>18 DEF SenderInv, TypeInv

\* PN_LINK_FLOW without use for it: only the event goes.
LEMMA InvLinkFlowIgnored ==
  ASSUME SenderInv, TypeInv', LinkFlowIgnored
  PROVE  SenderInv'
<1> USE DEF LinkFlowIgnored, Unaffected
<1>1. collector \in Seq(Events)
  BY DEF SenderInv, TypeOK, LinkTypeOK
<1>2. Head(collector) = LinkFlowEvent /\ Queued(LinkFlowEvent, collector)
  BY <1>1, DispatchQueue, EventByType
<1>3. conn # "init"
  BY <1>2, EventsDiffer DEF SenderInv, OpensFirst, Queued
<1>4. OpensFirst'
  BY <1>1, <1>3, DispatchQueue DEF SenderInv, OpensFirst
<1>5. \A d \in Deliveries : /\ ~informs => Once(DeliveryEvent(d), collector')
                            /\ Queued(DeliveryEvent(d), collector') <=> Queued(DeliveryEvent(d), collector)
  BY <1>1, <1>2, DispatchQueue, EventsDiffer DEF SenderInv, EventsOnce
<1>6. EventsOnce' /\ NoOutcomeLost'
  BY <1>5 DEF SenderInv, EventsOnce, NoOutcomeLost, linkVars
<1>7. CreditHasEvent'
  BY DEF CreditHasEvent, WantsToSend, linkVars
<1>8. UNCHANGED <<With("accepted"), With("rejected")>>
  BY DEF With, linkVars
<1>9. Answered' /\ Counted' /\ Marks' /\ GrantsAddUp'
  BY <1>8 DEF SenderInv, Answered, Counted, OutcomesCountedOnce, Marks, GrantsAddUp, linkVars, ackVars, sendVars
<1>10. QED
  BY <1>4, <1>6, <1>7, <1>9 DEF SenderInv, TypeInv

\* Settling one more delivery adds one to the set of its outcome.
LEMMA SettleCounts ==
  ASSUME TypeOK, NEW d \in Deliveries, d \notin settled,
         settled' = settled \union {d}, remote' = remote,
         NEW outcome
  PROVE  /\ Cardinality(settled') = Cardinality(settled) + 1
         /\ remote[d] = outcome  => Cardinality(With(outcome)') = Cardinality(With(outcome)) + 1
         /\ remote[d] # outcome  => With(outcome)' = With(outcome)
<1>1. settled \in SUBSET Deliveries /\ With(outcome) \in SUBSET Deliveries
  BY DEF TypeOK, LinkTypeOK, With
<1>2. IsFiniteSet(settled) /\ IsFiniteSet(With(outcome))
  BY <1>1, FiniteDeliveries
<1>3. Cardinality(settled \union {d}) = Cardinality(settled) + 1
  BY <1>2, FS_AddElement
<1>4. d \notin With(outcome)
  BY DEF With
<1>5. Cardinality(With(outcome) \union {d}) = Cardinality(With(outcome)) + 1
  BY <1>2, <1>4, FS_AddElement
<1>6. remote[d] = outcome => With(outcome)' = With(outcome) \union {d}
  BY DEF With
<1>7. remote[d] # outcome => With(outcome)' = With(outcome)
  BY DEF With
<1>8. QED
  BY <1>3, <1>5, <1>6, <1>7

\* A set of messages within the limit is all of them when it has as many.
LEMMA AllWhenAsMany ==
  ASSUME NEW n \in Nat, NEW S \in SUBSET (1..n)
  PROVE  Cardinality(S) = n <=> S = 1..n
<1>1. IsFiniteSet(1..n) /\ Cardinality(1..n) = n
  BY FS_Interval
<1>2. QED
  BY <1>1, FS_Subset

\* PN_DELIVERY: the delivery was reported, so it is one that was written; a
\* peer that does not inform has it reported, unsettled, and counted here for
\* the only time.
LEMMA InvDelivery ==
  ASSUME SenderInv, TypeInv', Delivery
  PROVE  SenderInv'
<1> DEFINE d == Head(collector).dlv
<1> USE DEF Delivery
<1>1. collector \in Seq(Events) /\ TypeOK /\ CreditSpent
  BY DEF SenderInv, TypeOK, LinkTypeOK
<1>2. d \in Deliveries /\ Head(collector) = DeliveryEvent(d) /\ Queued(DeliveryEvent(d), collector)
  BY <1>1, DispatchQueue, EventByType
<1>3. ~informs => remote[d] \in Outcomes /\ d \notin settled /\ Once(DeliveryEvent(d), collector)
  BY <1>2 DEF SenderInv, EventsOnce
<1>4. ~presettle /\ d <= written /\ d <= count
  <2>1. remote[d] # "none"
    BY DEF Received, Accepted, NotAccepted
  <2>2. QED
    BY <1>1, <1>2, <2>1, SendingLinkAssumption
    DEF SenderInv, Answered, CreditSpent, TypeOK, LinkTypeOK, Deliveries
<1>5. \/ Received(d) /\ informs
      \/ Accepted(d)
      \/ NotAccepted(d)
  BY <1>3 DEF Received, Outcomes
<1>6. /\ UNCHANGED <<remote, informs, presettle, limit, written>>
      /\ remote[d] \in Outcomes => settled' = settled \union {d} /\ acked' = acked + 1
      /\ remote[d] \notin Outcomes => settled' = settled
  BY <1>5 DEF Received, Accepted, NotAccepted, Outcomes
<1>7. conn # "init"
  BY <1>2, EventsDiffer DEF SenderInv, OpensFirst, Queued
<1>8. OpensFirst'
  BY <1>1, <1>7, DispatchQueue DEF SenderInv, OpensFirst
<1>9. \A e \in Deliveries :
        /\ e # d /\ Queued(DeliveryEvent(e), collector) => Queued(DeliveryEvent(e), collector')
        /\ ~informs => /\ Once(DeliveryEvent(e), collector')
                       /\ Queued(DeliveryEvent(e), collector') => Queued(DeliveryEvent(e), collector) /\ e # d
  BY <1>1, <1>2, <1>3, DispatchQueue, EventsDiffer DEF SenderInv, EventsOnce
<1>10. EventsOnce' /\ NoOutcomeLost'
  <2>1. EventsOnce'
    BY <1>3, <1>6, <1>9 DEF SenderInv, EventsOnce
  <2>2. NoOutcomeLost'
    BY <1>6, <1>9 DEF SenderInv, NoOutcomeLost
  <2>3. QED
    BY <2>1, <2>2
<1>11. Answered'
  BY <1>4, <1>6 DEF SenderInv, Answered
<1>12. Counted'
  <2>1. /\ acked = accepted + not_accepted
        /\ acked \in Nat /\ accepted \in Nat /\ not_accepted \in Nat
    BY <1>1, <1>4 DEF SenderInv, Counted, TypeOK
  <2>2. acked' = accepted' + not_accepted'
    BY <1>5, <2>1 DEF Received, Accepted, NotAccepted
  <2>3. ASSUME ~informs
        PROVE  /\ accepted' = Cardinality(With("accepted")')
               /\ not_accepted' = Cardinality(With("rejected")')
               /\ acked' = Cardinality(settled')
    <3>1. /\ accepted = Cardinality(With("accepted")) /\ not_accepted = Cardinality(With("rejected"))
          /\ acked = Cardinality(settled)
      BY <1>4, <2>3 DEF SenderInv, Counted, OutcomesCountedOnce
    <3>2. d \notin settled /\ settled' = settled \union {d} /\ acked' = acked + 1 /\ remote' = remote
      BY <1>3, <1>6, <2>3
    <3>3. acked' = Cardinality(settled')
      BY <1>1, <1>2, <3>1, <3>2, SettleCounts
    <3>4. CASE Accepted(d)
      <4>1. remote[d] = "accepted" /\ remote[d] # "rejected" /\ accepted' = accepted + 1 /\ not_accepted' = not_accepted
        BY <3>4 DEF Accepted
      <4>2. /\ Cardinality(With("accepted")') = Cardinality(With("accepted")) + 1
            /\ With("rejected")' = With("rejected")
        BY <1>1, <1>2, <3>2, <4>1, SettleCounts
      <4>3. QED
        BY <3>1, <3>3, <4>1, <4>2
    <3>5. CASE NotAccepted(d)
      <4>1. remote[d] = "rejected" /\ remote[d] # "accepted" /\ accepted' = accepted /\ not_accepted' = not_accepted + 1
        BY <3>5 DEF NotAccepted
      <4>2. /\ Cardinality(With("rejected")') = Cardinality(With("rejected")) + 1
            /\ With("accepted")' = With("accepted")
        BY <1>1, <1>2, <3>2, <4>1, SettleCounts
      <4>3. QED
        BY <3>1, <3>3, <4>1, <4>2
    <3>6. QED
      BY <1>5, <2>3, <3>4, <3>5
  <2>4. QED
    BY <1>6, <2>2, <2>3 DEF Counted, OutcomesCountedOnce
<1>13. Marks'
  <2>1. start_ts' <=> count' > 0
    BY DEF SenderInv, Marks, sendVars
  <2>2. stop_ts' <=> (limit' > 0 /\ count' = limit')
    BY DEF SenderInv, Marks, sendVars
  <2>3. accepted' > 0 => ack_start_ts'
    <3>1. CASE Accepted(d)
      BY <3>1 DEF Accepted
    <3>2. CASE NotAccepted(d)
      BY <3>2 DEF NotAccepted, SenderInv, Marks
    <3>3. CASE Received(d)
      BY <3>3 DEF Received, SenderInv, Marks
    <3>4. QED
      BY <1>5, <3>1, <3>2, <3>3
  <2>4. ASSUME ~informs
        PROVE  ack_stop_ts' <=> (~presettle' /\ limit' > 0 /\ settled' = 1..limit')
    <3>1. limit \in Nat /\ count \in Nat
      BY <1>1, SendingLinkAssumption DEF TypeOK, LinkTypeOK
    <3>2. limit > 0 => d \in 1..limit /\ settled' \in SUBSET (1..limit)
      <4>1. \A e \in settled' : e \in Deliveries /\ e <= written
        BY <1>1, <1>2, <1>4, <1>6 DEF SenderInv, Answered, TypeOK, LinkTypeOK, Outcomes
      <4>2. \A e \in Deliveries : limit > 0 /\ e <= written => e \in 1..limit
        BY <1>1, <3>1, SendingLinkAssumption DEF CreditSpent, TypeOK, LinkTypeOK, Deliveries
      <4>3. QED
        BY <1>2, <1>4, <4>1, <4>2
    <3>3. ~ack_stop_ts
      BY <1>3, <2>4, <3>2 DEF SenderInv, Marks
    <3>4. limit > 0 => (acked' = limit <=> settled' = 1..limit)
      <4>1. acked' = Cardinality(settled')
        BY <1>4, <1>6, <1>12, <2>4 DEF Counted, OutcomesCountedOnce
      <4>2. QED
        BY <3>1, <3>2, <4>1, AllWhenAsMany
    <3>5. ack_stop_ts' <=> ack_stop_ts \/ Complete
      BY Zenon
    <3>6. QED
      BY <1>4, <1>6, <3>3, <3>4, <3>5 DEF Complete
  <2>5. QED
    BY <1>6, <2>1, <2>2, <2>3, <2>4 DEF Marks
<1>14. GrantsAddUp'
  BY DEF SenderInv, GrantsAddUp, sendVars
<1>15. CreditHasEvent'
  BY <1>1, <1>2, DispatchQueue, EventsDiffer DEF SenderInv, CreditHasEvent, WantsToSend
<1>16. QED
  BY <1>8, <1>10, <1>11, <1>12, <1>13, <1>14, <1>15 DEF SenderInv, TypeInv

\* The transport writes transfers: nothing but `written' and a flow event.
LEMMA InvWrite ==
  ASSUME SenderInv, TypeInv', Write
  PROVE  SenderInv'
<1> USE DEF Write, LinkWrite
<1>1. collector \in Seq(Events) /\ TypeOK /\ CreditSpent
  BY DEF SenderInv, TypeOK, LinkTypeOK
<1>2. \A f : Queued(f, collector') <=> Queued(f, collector) \/ f = LinkFlowEvent
  BY <1>1, PutQueued, EventTypes
<1>3. ~informs => \A e \in Deliveries : Once(DeliveryEvent(e), collector')
  BY <1>1, PutOnce, EventTypes, EventsDiffer DEF SenderInv, EventsOnce
<1>4. OpensFirst' /\ CreditHasEvent'
  BY <1>2, EventsDiffer DEF SenderInv, OpensFirst, CreditHasEvent
<1>5. EventsOnce' /\ NoOutcomeLost'
  BY <1>2, <1>3, EventsDiffer DEF SenderInv, EventsOnce, NoOutcomeLost
<1>6. written' >= written
  BY <1>1 DEF TypeOK, LinkTypeOK
<1>7. Answered'
  <2>1. \A e \in Deliveries : e <= written => e <= written'
    BY <1>1, <1>6, SendingLinkAssumption DEF TypeOK, LinkTypeOK, Deliveries, TypeInv
  <2>2. QED
    BY <2>1 DEF SenderInv, Answered
<1>8. UNCHANGED <<With("accepted"), With("rejected")>>
  BY DEF With
<1>9. Counted' /\ Marks' /\ GrantsAddUp'
  BY <1>8 DEF SenderInv, Counted, OutcomesCountedOnce, Marks, GrantsAddUp, ackVars, sendVars
<1>10. QED
  BY <1>4, <1>5, <1>7, <1>9 DEF SenderInv, TypeInv

\* A flow frame: more credit, and the event that will use it.
LEMMA InvPeerFlow ==
  ASSUME SenderInv, TypeInv', NEW n \in 0..MaxGranted, PeerFlow(n)
  PROVE  SenderInv'
<1> USE DEF PeerFlow, LinkFlow, Reads
<1>1. collector \in Seq(Events) /\ TypeOK /\ CreditSpent
  BY DEF SenderInv, TypeOK, LinkTypeOK
<1>2. \A f : Queued(f, collector') <=> Queued(f, collector) \/ f = LinkFlowEvent
  BY <1>1, PutQueued, EventTypes
<1>3. ~informs => \A e \in Deliveries : Once(DeliveryEvent(e), collector')
  BY <1>1, PutOnce, EventTypes, EventsDiffer DEF SenderInv, EventsOnce
<1>4. OpensFirst'
  BY <1>2, EventsDiffer DEF SenderInv, OpensFirst, Connected
<1>5. CreditHasEvent'
  BY <1>2 DEF CreditHasEvent
<1>6. EventsOnce' /\ NoOutcomeLost'
  BY <1>2, <1>3, EventsDiffer DEF SenderInv, EventsOnce, NoOutcomeLost
<1>7. UNCHANGED <<With("accepted"), With("rejected")>>
  BY DEF With
<1>8. Answered' /\ Counted' /\ Marks'
  BY <1>7 DEF SenderInv, Answered, Counted, OutcomesCountedOnce, Marks, ackVars, sendVars
<1>9. GrantsAddUp'
  BY <1>1, SendingLinkAssumption DEF SenderInv, GrantsAddUp, TypeOK, LinkTypeOK, sendVars
<1>10. QED
  BY <1>4, <1>5, <1>6, <1>8, <1>9 DEF SenderInv, TypeInv

\* A disposition: of a peer that does not inform the first for the delivery,
\* so its event is new.
LEMMA InvPeerDisposition ==
  ASSUME SenderInv, TypeInv',
         NEW d \in Deliveries, NEW state \in {"received"} \union Outcomes, PeerDisposition(d, state)
  PROVE  SenderInv'
<1> USE DEF PeerDisposition, LinkDisposition, Reads
<1>1. collector \in Seq(Events) /\ TypeOK /\ CreditSpent /\ (~informs => state \in Outcomes)
  BY DEF SenderInv, TypeOK, LinkTypeOK
<1>2. \A f : Queued(f, collector') <=> Queued(f, collector) \/ f = DeliveryEvent(d)
  BY <1>1, PutQueued, EventTypes
<1>3. d \notin settled /\ (~informs => ~Queued(DeliveryEvent(d), collector))
  BY DEF SenderInv, EventsOnce, Interim, Outcomes
<1>4. ~informs => \A e \in Deliveries : Once(DeliveryEvent(e), collector')
  BY <1>1, <1>3, PutOnce, EventTypes, EventsDiffer DEF SenderInv, EventsOnce
<1>5. remote'[d] = state /\ \A e \in Deliveries : e # d => remote'[e] = remote[e]
  BY <1>1 DEF TypeOK, LinkTypeOK
<1>6. OpensFirst' /\ CreditHasEvent'
  BY <1>2, EventsDiffer DEF SenderInv, OpensFirst, CreditHasEvent, WantsToSend, Connected
<1>7. EventsOnce'
  BY <1>1, <1>2, <1>3, <1>4, <1>5, EventsDiffer DEF SenderInv, EventsOnce
<1>8. NoOutcomeLost'
  BY <1>2, <1>5, EventsDiffer DEF SenderInv, NoOutcomeLost
<1>9. Answered'
  <2>1. ~presettle
    BY <1>1, <1>3, SendingLinkAssumption
    DEF SenderInv, Answered, CreditSpent, TypeOK, LinkTypeOK, Deliveries
  <2>2. QED
    BY <1>1, <1>3, <1>5, <2>1 DEF SenderInv, Answered, TypeOK, LinkTypeOK
<1>10. UNCHANGED <<With("accepted"), With("rejected")>>
  BY <1>1, <1>3, <1>5 DEF With, TypeOK, LinkTypeOK
<1>11. Counted' /\ Marks' /\ GrantsAddUp'
  BY <1>10 DEF SenderInv, Counted, OutcomesCountedOnce, Marks, GrantsAddUp, ackVars, sendVars
<1>12. QED
  BY <1>6, <1>7, <1>8, <1>9, <1>11 DEF SenderInv, TypeInv

LEMMA InvStep == SenderInv /\ [Next]_vars => SenderInv'
<1> SUFFICES ASSUME SenderInv, [Next]_vars PROVE SenderInv'
  OBVIOUS
<1>1. TypeInv'
  BY TypeStep DEF SenderInv, TypeInv
<1>2. CASE ReactorQuiesce
  <2>1. OpensFirst'
    BY <1>2 DEF ReactorQuiesce, Quiesce, Unaffected, linkVars, ackVars, SenderInv, OpensFirst, Queued
  <2>2. QED
    BY <1>1, <1>2, <2>1, InvFrame DEF ReactorQuiesce, Quiesce, Unaffected
<1>3. CASE Main
  <2>1. OpensFirst'
    BY <1>3 DEF Main, MainLoop, Unaffected, linkVars, ackVars, SenderInv, OpensFirst
  <2>2. QED
    BY <1>1, <1>3, <2>1, InvFrame DEF Main, MainLoop, Unaffected
<1>4. CASE SignalHandler
  <2>1. OpensFirst'
    BY <1>4 DEF SignalHandler, Signal, Unaffected, linkVars, ackVars, SenderInv, OpensFirst
  <2>2. QED
    BY <1>1, <1>4, <2>1, InvFrame DEF SignalHandler, Signal, Unaffected
<1>5. CASE PeerClose
  <2>1. OpensFirst'
    BY <1>5 DEF PeerClose, PeerCloses, Connected, Unaffected, linkVars, ackVars, SenderInv, OpensFirst
  <2>2. QED
    BY <1>1, <1>5, <2>1, InvFrame DEF PeerClose, PeerCloses, Unaffected
<1>6. CASE PeerDetach
  <2>1. OpensFirst'
    BY <1>6 DEF PeerDetach, PeerDetaches, Unaffected, linkVars, ackVars, SenderInv, OpensFirst
  <2>2. QED
    BY <1>1, <1>6, <2>1, InvFrame DEF PeerDetach, PeerDetaches, Unaffected
<1>7. CASE UNCHANGED vars
  <2>1. OpensFirst'
    BY <1>7 DEF vars, loopVars, linkVars, ackVars, SenderInv, OpensFirst
  <2>2. QED
    BY <1>1, <1>7, <2>1, InvFrame DEF vars, loopVars
<1>8. QED
  BY <1>1, <1>2, <1>3, <1>4, <1>5, <1>6, <1>7, InvConnectionInit, InvLinkFlowSend, InvLinkFlowIgnored,
     InvDelivery, InvWrite, InvPeerFlow, InvPeerDisposition
  DEF Next, Client, Peer, Exited

LEMMA InvAlways == Spec => []SenderInv
BY InvInit, InvStep, PTL DEF Spec

\* Every outcome the peer reports is counted once and as what it was.
THEOREM CountsOutcomesOnce == Spec => []OutcomesCountedOnce
<1>1. SenderInv => OutcomesCountedOnce
  BY DEF SenderInv, Counted
<1>2. QED
  BY InvAlways, <1>1, PTL

\* The shutdown on the last ack comes only when every message is sent,
\* written and settled, and the report's times are taken.
THEOREM CompletesWhenAllAcked == Spec => []CompleteMeansAllAcked
<1>1. SenderInv => CompleteMeansAllAcked
  <2> SUFFICES ASSUME SenderInv, ack_stop_ts, ~informs PROVE CompleteMeansAllAcked
    BY DEF CompleteMeansAllAcked
  <2>1. ~presettle /\ limit > 0 /\ settled = 1..limit
    BY DEF SenderInv, Marks
  <2>2. limit \in Nat /\ count \in Nat /\ written \in Nat /\ written <= count /\ count <= limit
    BY <2>1, SendingLinkAssumption DEF SenderInv, TypeOK, LinkTypeOK, CreditSpent
  <2>3. limit \in settled
    BY <2>1, <2>2
  <2>4. limit <= written
    <3>1. limit \in Deliveries /\ remote[limit] \in Outcomes
      BY <2>1, <2>3 DEF SenderInv, Answered, TypeOK, LinkTypeOK
    <3>2. QED
      BY <3>1 DEF SenderInv, Answered, Outcomes
  <2>5. count = limit /\ written = limit
    BY <2>2, <2>4
  <2>6. acked = limit
    BY <2>1, <2>2, AllWhenAsMany DEF SenderInv, Counted, OutcomesCountedOnce
  <2>7. accepted + not_accepted = count
    BY <2>1, <2>5, <2>6 DEF SenderInv, Counted
  <2>8. start_ts /\ stop_ts /\ (accepted > 0 => ack_start_ts)
    BY <2>1, <2>2, <2>5 DEF SenderInv, Marks
  <2>9. QED
    BY <2>1, <2>5, <2>7, <2>8 DEF CompleteMeansAllAcked
<1>2. QED
  BY InvAlways, <1>1, PTL

\* Credit never waits unused while the reactor waits for the network.
THEOREM UsesItsCredit == Spec => []NoIdleCredit
<1>1. SenderInv => NoIdleCredit
  BY DEF SenderInv, CreditHasEvent, NoIdleCredit, Queued, TypeOK, LinkTypeOK
<1>2. QED
  BY InvAlways, <1>1, PTL

\* No reported outcome is forgotten.
THEOREM LosesNoOutcome == Spec => []NoOutcomeLost
<1>1. SenderInv => NoOutcomeLost
  BY DEF SenderInv
<1>2. QED
  BY InvAlways, <1>1, PTL

\* The credit reported as granted is what was granted, counted once.
THEOREM GrantsAreRight == Spec => []GrantsAddUp
<1>1. SenderInv => GrantsAddUp
  BY DEF SenderInv
<1>2. QED
  BY InvAlways, <1>1, PTL

-----------------------------------------------------------------------------
(***************************************************************************)
(* Refinement: sending a batch is an abstract Send, handling an outcome an *)
(* abstract Learn, everything else a stutter.                              *)
(***************************************************************************)

\* Whether the abstract transfer is finished is what the time stamps say.
DeclaredRight == Declared = Bulk!Finished

LEMMA FinishedIsMarked == SenderInv => DeclaredRight
<1> SUFFICES ASSUME SenderInv PROVE Declared = Bulk!Finished
  BY DEF DeclaredRight
<1>1. limit \in Nat /\ (limit > 0 <=> limit # 0)
  BY SendingLinkAssumption DEF SenderInv, TypeOK, LinkTypeOK
<1>2. Declared <=> Bulk!Finished
  <2>1. CASE presettle
    BY <1>1, <2>1 DEF SenderInv, Marks, Bulk!Finished, Declared
  <2>2. CASE ~presettle
    BY <1>1, <2>2 DEF SenderInv, Marks, Bulk!Finished, Declared
  <2>3. QED
    BY <2>1, <2>2
<1>3. Declared \in BOOLEAN /\ Bulk!Finished \in BOOLEAN
  BY DEF Declared, Bulk!Finished
<1>4. QED
  BY <1>2, <1>3

LEMMA RefinesInit == Init => Bulk!Init
<1> SUFFICES ASSUME Init PROVE Bulk!Init
  OBVIOUS
<1>1. SenderInv /\ ~stop_ts /\ ~ack_stop_ts /\ settled = {} /\ count = 0
  BY InvInit, Zenon DEF Init, LinkInit
<1>2. limit \in Nat /\ (limit > 0 => 1 \in 1..limit)
  BY <1>1, SendingLinkAssumption DEF SenderInv, TypeOK, LinkTypeOK
<1>3. Declared = FALSE
  BY <1>1, <1>2 DEF Declared
<1>4. QED
  BY <1>1, <1>3 DEF Init, LinkInit, Bulk!Init

LEMMA RefinesStep ==
  ASSUME SenderInv, SenderInv', [Next]_vars
  PROVE  [Bulk!Next]_(Bulk!vars)
<1>1. UNCHANGED <<limit, presettle, informs>>
  BY DEF Next, Client, Peer, Exited, vars, linkVars, Unaffected,
         ConnectionInit, LinkFlowSend, LinkFlowIgnored, Delivery, ReactorQuiesce, Main, SignalHandler,
         Write, LinkWrite, PeerFlow, LinkFlow, PeerDisposition, LinkDisposition, PeerClose, PeerDetach
<1>2. Declared = Bulk!Finished
  BY FinishedIsMarked DEF DeclaredRight
<1>3. Declared' = Bulk!Finished'
  <2>1. DeclaredRight'
    BY FinishedIsMarked, PTL
  <2>2. QED
    BY <2>1 DEF DeclaredRight
<1>4. ASSUME UNCHANGED <<count, settled>> PROVE UNCHANGED Bulk!vars
  <2>1. Bulk!Finished' = Bulk!Finished
    BY <1>1, <1>4 DEF Bulk!Finished
  <2>2. QED
    BY <1>1, <1>2, <1>3, <1>4, <2>1 DEF Bulk!vars
<1>5. CASE LinkFlowSend
  <2>1. Batch \in Nat /\ Batch > 0 /\ (limit > 0 => count + Batch <= limit)
    BY <1>5, BatchFacts, SendingLinkAssumption
    DEF LinkFlowSend, Batch, WantsToSend, SenderInv, TypeOK, LinkTypeOK, CreditSpent
  <2>2. count' = count + Batch /\ (~presettle => settled' = settled)
    BY <1>5 DEF LinkFlowSend, Transmit
  <2>3. Bulk!Send
    BY <2>1, <2>2, SendingLinkAssumption DEF Bulk!Send, SenderInv, TypeOK, LinkTypeOK
  <2>4. (IF presettle THEN {} ELSE settled)' = IF presettle THEN {} ELSE settled
    BY <1>1, <2>2
  <2>5. QED
    BY <1>1, <1>3, <2>3, <2>4 DEF Bulk!Next
<1>6. CASE Delivery
  <2> DEFINE d == Head(collector).dlv
  <2>1. d \in Deliveries /\ Queued(DeliveryEvent(d), collector)
    BY <1>6, DispatchQueue, EventByType DEF Delivery, SenderInv, TypeOK, LinkTypeOK
  <2>2. remote[d] # "none"
    BY <1>6 DEF Delivery, Received, Accepted, NotAccepted
  <2>3. ~presettle /\ d \in 1..count
    <3>1. ~presettle /\ d <= written
      BY <2>1, <2>2 DEF SenderInv, Answered
    <3>2. written <= count /\ written \in Nat /\ count \in Nat
      BY DEF SenderInv, CreditSpent, TypeOK, LinkTypeOK
    <3> HIDE DEF d
    <3>3. QED
      BY <2>1, <3>1, <3>2, SendingLinkAssumption DEF Deliveries
  <2>4. count' = count /\ (settled' = settled \union {d} \/ settled' = settled)
    BY <1>6 DEF Delivery, Received, Accepted, NotAccepted
  <2>5. CASE settled' # settled
    <3>1. d \notin settled /\ settled' = settled \union {d}
      BY <2>4, <2>5
    <3>2. Bulk!Learn
      BY <1>1, <2>3, <3>1 DEF Bulk!Learn
    <3>3. QED
      BY <1>1, <1>3, <2>4, <3>2 DEF Bulk!Next
  <2>6. CASE settled' = settled
    BY <1>1, <1>4, <2>4, <2>6
  <2>7. QED
    BY <2>5, <2>6
<1>7. QED
  BY <1>5, <1>6, <1>4
  DEF Next, Client, Peer, Exited, vars, linkVars, ackVars, sendVars, Unaffected,
      ConnectionInit, LinkFlowIgnored, ReactorQuiesce, Main, SignalHandler,
      Write, LinkWrite, PeerFlow, LinkFlow, PeerDisposition, LinkDisposition, PeerClose, PeerDetach

\* sender.c implements the abstract bulk transfer, whatever the limit.
THEOREM SenderImplementsBulkSend == Spec => ImplementsBulkSend
<1>1. Spec => []SenderInv
  BY InvAlways
<1>2. SenderInv /\ SenderInv' /\ [Next]_vars => [Bulk!Next]_(Bulk!vars)
  BY RefinesStep
<1>3. QED
  BY RefinesInit, <1>1, <1>2, PTL DEF Spec, ImplementsBulkSend, Bulk!Spec
=============================================================================
