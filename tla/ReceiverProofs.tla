--------------------------- MODULE ReceiverProofs ---------------------------
(***************************************************************************)
(* Proofs about Receiver (receiver.c), for every credit window, every      *)
(* limit and any number of messages, whole, in pieces or aborted.          *)
(***************************************************************************)
EXTENDS Receiver, CommonProofs, TLAPS

\* The events of the receiver are well formed and differ.
LEMMA EventFacts ==
  /\ ConnectionInitEvent \in Events
  /\ \A d \in Messages : DeliveryEvent(d) \in Events /\ DeliveryEvent(d) # ConnectionInitEvent
  /\ \A d, e \in Messages : DeliveryEvent(d) = DeliveryEvent(e) => d = e
  /\ \A e \in Events : /\ e.dlv \in Nat
                       /\ e.type = "PN_CONNECTION_INIT" => e = ConnectionInitEvent
                       /\ e.type = "PN_DELIVERY" => e.dlv \in Messages /\ e = DeliveryEvent(e.dlv)
BY ReceiverAssumption DEF Events, ConnectionInitEvent, DeliveryEvent, Event, Messages

\* pn_link_flow after a message leaves the window as the limit, no less
\* credit than there was, and more than half the window.
LEMMA TopUpFacts ==
  ASSUME NEW w \in Nat \ {0}, credit_window = w, NEW left \in Nat, left <= w
  PROVE  /\ TopUp(left) \in Nat
         /\ left <= TopUp(left) /\ TopUp(left) <= w
         /\ TopUp(left) > w \div 2
BY DEF TopUp

LEMMA InvInit == Init => ReceiverInv
<1> SUFFICES ASSUME Init PROVE ReceiverInv
  OBVIOUS
<1>1. collector = <<ConnectionInitEvent>> /\ Len(collector) = 1 /\ collector[1] = ConnectionInitEvent
  BY DEF Init, LoopInit
<1>2. TypeOK
  <2>1. collector \in Seq(Events)
    BY <1>1, EventFacts
  <2>2. LoopTypeOK
    BY DEF Init, LoopInit, LoopTypeOK
  <2>3. credit \in Nat /\ arrived \in 0..MaxMsgs /\ count \in Nat
    BY ReceiverAssumption DEF Init
  <2>4. partial \in BOOLEAN /\ aborted \subseteq Messages /\ limit \in Limits /\ credit_window \in Windows
    BY Zenon DEF Init
  <2>5. QED
    BY <2>1, <2>2, <2>3, <2>4 DEF TypeOK
<1>3. WindowRespected /\ OnlyEndedMessages
  BY <1>2, ReceiverAssumption DEF Init, WindowRespected, OnlyEndedMessages, TypeOK
<1>4. OpensFirst /\ HalfWindow
  BY <1>1 DEF Init, LoopInit, OpensFirst, HalfWindow
<1>5. InOrder
  BY <1>1 DEF Init, InOrder, ConnectionInitEvent, Event
<1>6. HasEvent
  BY ReceiverAssumption DEF Init, HasEvent, Messages
<1>7. QED
  BY <1>2, <1>3, <1>4, <1>5, <1>6 DEF ReceiverInv

\* Steps that touch neither the queue nor the client's state.
LEMMA InvFrame ==
  ASSUME ReceiverInv, UNCHANGED <<collector, optVars, peerVars, credit, count>>,
         LoopTypeOK', OpensFirst', conn # "init" \/ conn' = conn
  PROVE  ReceiverInv'
<1> USE DEF ReceiverInv, optVars, peerVars
<1>1. TypeOK'
  BY DEF TypeOK
<1>2. WindowRespected' /\ OnlyEndedMessages'
  BY DEF WindowRespected, OnlyEndedMessages
<1>3. HalfWindow'
  BY DEF HalfWindow, AtLimit
<1>4. InOrder' /\ HasEvent'
  BY DEF InOrder, HasEvent, AtLimit, Partial
<1>5. QED
  BY <1>1, <1>2, <1>3, <1>4

\* PN_CONNECTION_INIT grants the window.
LEMMA InvConnectionInit ==
  ASSUME ReceiverInv, ConnectionInit
  PROVE  ReceiverInv'
<1> USE DEF ConnectionInit, Dispatch
<1>1. collector \in Seq(Events) /\ credit_window \in Nat \ {0} /\ credit \in Nat /\ count \in Nat /\ arrived \in Nat
  BY ReceiverAssumption DEF ReceiverInv, TypeOK
<1>2. /\ collector' \in Seq(Events) /\ Len(collector) \in Nat \ {0}
      /\ Len(collector') = Len(collector) - 1
      /\ \A i \in 1..Len(collector') : collector'[i] = collector[i + 1]
  BY <1>1, TailShape
<1>3. TypeOK'
  BY <1>1, <1>2 DEF ReceiverInv, TypeOK, LoopTypeOK, optVars, peerVars
<1>4. WindowRespected' /\ OnlyEndedMessages'
  BY <1>1 DEF ReceiverInv, WindowRespected, OnlyEndedMessages, optVars, peerVars
<1>5. OpensFirst' /\ HalfWindow'
  BY <1>1 DEF ReceiverInv, OpensFirst, HalfWindow, optVars
<1>6. InOrder'
  BY <1>2 DEF ReceiverInv, InOrder, peerVars
<1>7. HasEvent'
  <2>1. Head(collector) = ConnectionInitEvent
    BY <1>1, TailShape, EventFacts
  <2>2. \A d \in Messages : Queued(DeliveryEvent(d), collector) => Queued(DeliveryEvent(d), collector')
    BY <1>1, <2>1, TailQueued, EventFacts
  <2>3. QED
    BY <2>2 DEF ReceiverInv, HasEvent, AtLimit, Partial, optVars, peerVars
<1>8. QED
  BY <1>3, <1>4, <1>5, <1>6, <1>7 DEF ReceiverInv

\* The oldest event belongs to the current delivery or to an earlier one.
LEMMA HeadIsDue ==
  ASSUME ReceiverInv, collector # <<>>, ~AtLimit
  PROVE  Head(collector).dlv <= count + 1
<1> DEFINE h == Head(collector).dlv
<1>1. collector \in Seq(Events) /\ count \in Nat /\ arrived \in 0..MaxMsgs /\ count <= arrived
  BY DEF ReceiverInv, TypeOK, WindowRespected
<1>2. Head(collector) \in Events /\ Head(collector) = collector[1] /\ Len(collector) \in Nat \ {0}
  BY <1>1, TailShape
<1>3. h \in Nat /\ h <= arrived
  BY <1>2, EventFacts DEF ReceiverInv, InOrder
<1>4. SUFFICES ASSUME h > count + 1 PROVE FALSE
  BY <1>1, <1>3
<1> HIDE DEF h
<1>5. count + 1 \in Messages /\ count < count + 1 /\ count + 1 < arrived
  BY <1>1, <1>3, <1>4, ReceiverAssumption DEF Messages
<1>6. Queued(DeliveryEvent(count + 1), collector)
  BY <1>1, <1>5 DEF ReceiverInv, HasEvent, Partial
<1>7. PICK i \in 1..Len(collector) : collector[i] = DeliveryEvent(count + 1)
  BY <1>6 DEF Queued
<1>8. collector[i].dlv = count + 1
  BY <1>7 DEF DeliveryEvent, Event
<1>9. h <= collector[i].dlv
  BY <1>2, <1>3, <1>7 DEF ReceiverInv, InOrder, h
<1>10. QED
  BY <1>1, <1>3, <1>4, <1>8, <1>9

\* PN_DELIVERY.
LEMMA InvDelivery ==
  ASSUME ReceiverInv, Delivery
  PROVE  ReceiverInv'
<1> DEFINE d == Head(collector).dlv
<1>1. /\ collector \in Seq(Events) /\ collector # <<>> /\ collector' = Tail(collector)
      /\ Head(collector).type = "PN_DELIVERY"
      /\ UNCHANGED <<turn, conn, link, armed, limit, credit_window, arrived, partial, aborted>>
  BY DEF Delivery, Dispatch, ReceiverInv, TypeOK, optVars, peerVars
<1>2. /\ credit_window \in Nat \ {0} /\ credit \in Nat /\ count \in Nat /\ arrived \in 0..MaxMsgs
      /\ limit \in Nat /\ MaxMsgs \in Nat
  BY ReceiverAssumption DEF ReceiverInv, TypeOK
<1>3. /\ collector' \in Seq(Events) /\ Len(collector) \in Nat \ {0}
      /\ Head(collector) \in Events /\ Head(collector) = collector[1]
      /\ Len(collector') = Len(collector) - 1
      /\ \A i \in 1..Len(collector') : collector'[i] = collector[i + 1]
  BY <1>1, TailShape
<1>4. d \in Messages /\ Head(collector) = DeliveryEvent(d)
  BY <1>1, <1>3, EventFacts
<1>5. OpensFirst'
  <2>1. conn # "init"
    BY <1>1, <1>3, <1>4, EventFacts DEF ReceiverInv, OpensFirst
  <2>2. QED
    BY <1>1, <2>1 DEF OpensFirst
<1>6. InOrder'
  BY <1>1, <1>3 DEF ReceiverInv, InOrder
<1>7. \A e \in Messages : e # d /\ Queued(DeliveryEvent(e), collector) => Queued(DeliveryEvent(e), collector')
  BY <1>1, <1>4, TailQueued, EventFacts
<1>8. CASE AcceptMessage(d)
  <2>1. /\ d = count + 1 /\ d <= arrived /\ (partial => d # arrived) /\ ~AtLimit
        /\ count' = count + 1
        /\ credit' = IF limit > 0 /\ count' = limit THEN credit - 1 ELSE TopUp(credit - 1)
    BY <1>8 DEF AcceptMessage, Readable, Partial
  <2>2. credit - 1 \in Nat /\ arrived - count <= credit /\ credit <= credit_window
    BY <1>2, <2>1 DEF ReceiverInv, WindowRespected
  <2>3. /\ TopUp(credit - 1) \in Nat /\ credit - 1 <= TopUp(credit - 1)
        /\ TopUp(credit - 1) <= credit_window /\ TopUp(credit - 1) > credit_window \div 2
    BY <1>2, <2>2, TopUpFacts
  <2> HIDE DEF d
  <2>4. credit' \in Nat /\ credit - 1 <= credit' /\ credit' <= credit_window
    BY <1>2, <2>1, <2>2, <2>3
  <2>5. stop' \in BOOLEAN
    BY <1>8 DEF AcceptMessage, ReceiverInv, TypeOK, LoopTypeOK
  <2>6. TypeOK'
    BY <1>1, <1>2, <1>3, <2>1, <2>4, <2>5 DEF ReceiverInv, TypeOK, LoopTypeOK
  <2>7. WindowRespected'
    BY <1>1, <1>2, <2>1, <2>2, <2>4 DEF WindowRespected
  <2>8. OnlyEndedMessages'
    BY <1>1, <1>2, <2>1 DEF ReceiverInv, OnlyEndedMessages, AtLimit
  <2>9. HalfWindow'
    BY <1>1, <1>2, <2>1, <2>3 DEF HalfWindow, AtLimit
  <2>10. HasEvent'
    BY <1>1, <1>2, <1>7, <2>1, ReceiverAssumption DEF ReceiverInv, HasEvent, Partial, Messages
  <2>11. QED
    BY <1>5, <1>6, <2>6, <2>7, <2>8, <2>9, <2>10 DEF ReceiverInv
<1>9. CASE IgnoreDelivery(d)
  <2>1. /\ AtLimit \/ ~Readable(d) \/ Partial(d)
        /\ UNCHANGED <<stop, count, credit>>
    BY <1>9 DEF IgnoreDelivery
  <2>2. TypeOK'
    BY <1>1, <1>3, <2>1 DEF ReceiverInv, TypeOK, LoopTypeOK
  <2>3. WindowRespected' /\ OnlyEndedMessages' /\ HalfWindow'
    BY <1>1, <2>1 DEF ReceiverInv, WindowRespected, OnlyEndedMessages, HalfWindow, AtLimit
  <2>4. HasEvent'
    <3>1. CASE AtLimit
      BY <1>1, <2>1, <3>1 DEF HasEvent, AtLimit
    <3>2. CASE ~AtLimit
      <4>1. d <= count + 1
        BY <1>1, <3>2, HeadIsDue
      <4>2. d <= count \/ d > arrived \/ Partial(d)
        <5> HIDE DEF d
        <5>1. QED
          BY <1>2, <1>4, <2>1, <3>2, <4>1, ReceiverAssumption DEF Readable, Messages
      <4> HIDE DEF d
      <4>3. \A e \in Messages : count < e /\ e <= arrived /\ ~Partial(e) => e # d
        BY <1>2, <1>4, <4>2, ReceiverAssumption DEF Messages
      <4>4. QED
        BY <1>1, <1>7, <2>1, <3>2, <4>3 DEF ReceiverInv, HasEvent, AtLimit, Partial
    <3>3. QED
      BY <3>1, <3>2
  <2>5. QED
    BY <1>5, <1>6, <2>2, <2>3, <2>4 DEF ReceiverInv
<1>10. QED
  BY <1>8, <1>9 DEF Delivery

\* A transfer frame is read: of the next message, or of the one begun.
LEMMA InvReads ==
  ASSUME ReceiverInv, NEW n \in Messages, Reads(DeliveryEvent(n)),
         arrived = n \/ (~partial /\ arrived + 1 = n /\ arrived - count < credit),
         partial \/ arrived + 1 = n,
         arrived' = n, partial' \in BOOLEAN, aborted' \subseteq Messages,
         UNCHANGED <<optVars, credit, count>>
  PROVE  ReceiverInv'
<1>1. /\ collector \in Seq(Events) /\ collector' = Put(collector, DeliveryEvent(n))
      /\ UNCHANGED <<turn, conn, link, stop, armed, limit, credit_window>>
      /\ turn = "io"
  BY DEF Reads, Connected, ReceiverInv, TypeOK, optVars
<1>2. /\ credit_window \in Nat \ {0} /\ credit \in Nat /\ count \in Nat /\ arrived \in 0..MaxMsgs
      /\ limit \in Nat /\ MaxMsgs \in Nat /\ n \in Nat /\ n \in 0..MaxMsgs
  BY ReceiverAssumption DEF ReceiverInv, TypeOK, Messages
<1>3. DeliveryEvent(n) \in Events /\ DeliveryEvent(n).dlv = n
  BY EventFacts DEF DeliveryEvent, Event
<1>4. TypeOK'
  <2>1. collector' \in Seq(Events)
    BY <1>1, <1>3, PutType
  <2>2. LoopTypeOK'
    BY <1>1 DEF ReceiverInv, TypeOK, LoopTypeOK
  <2>3. limit' \in Limits /\ credit_window' \in Windows /\ credit' \in Nat /\ count' \in Nat /\ Messages' = Messages
    BY <1>1 DEF ReceiverInv, TypeOK, Messages
  <2>4. QED
    BY <1>2, <2>1, <2>2, <2>3 DEF TypeOK, Messages
<1>5. WindowRespected'
  BY <1>1, <1>2 DEF ReceiverInv, WindowRespected
<1>6. OnlyEndedMessages'
  <2>1. count < n
    BY <1>2 DEF ReceiverInv, OnlyEndedMessages, WindowRespected
  <2>2. limit > 0 => count <= limit
    BY DEF ReceiverInv, OnlyEndedMessages
  <2>3. QED
    BY <1>1, <2>1, <2>2 DEF OnlyEndedMessages
<1>7. OpensFirst' /\ HalfWindow'
  BY <1>1 DEF ReceiverInv, OpensFirst, HalfWindow, AtLimit
<1>8. InOrder'
  <2>1. arrived <= n
    BY <1>2
  <2>2. Len(collector) \in Nat /\ \A i \in 1..Len(collector) : collector[i] \in Events /\ collector[i].dlv \in Nat
    BY <1>1, EventFacts
  <2>3. \A i \in 1..Len(collector) : collector[i].dlv <= n
    BY <1>2, <2>1, <2>2 DEF ReceiverInv, InOrder
  <2>4. \A i, j \in 1..Len(collector) : i < j => collector[i].dlv <= collector[j].dlv
    BY DEF ReceiverInv, InOrder
  <2>5. CASE collector' = collector
    BY <2>3, <2>4, <2>5 DEF InOrder
  <2>6. CASE /\ Len(collector') = Len(collector) + 1
             /\ \A i \in 1..Len(collector) : collector'[i] = collector[i]
             /\ collector'[Len(collector) + 1] = DeliveryEvent(n)
    <3>1. \A i \in 1..Len(collector') : i \in 1..Len(collector) \/ i = Len(collector) + 1
      BY <2>2, <2>6
    <3>2. \A i \in 1..Len(collector') : collector'[i].dlv <= n
      BY <1>2, <1>3, <2>3, <2>6, <3>1
    <3>3. ASSUME NEW i \in 1..Len(collector'), NEW j \in 1..Len(collector'), i < j
          PROVE  collector'[i].dlv <= collector'[j].dlv
      <4>1. i \in 1..Len(collector)
        BY <2>2, <2>6, <3>3
      <4>2. CASE j \in 1..Len(collector)
        BY <2>4, <2>6, <3>3, <4>1, <4>2
      <4>3. CASE j = Len(collector) + 1
        BY <1>3, <2>3, <2>6, <4>1, <4>3
      <4>4. QED
        BY <3>1, <4>2, <4>3
    <3>4. QED
      BY <3>2, <3>3 DEF InOrder
  <2>7. QED
    BY <1>1, <1>3, <2>5, <2>6, PutShape
<1>9. HasEvent'
  <2>1. \A d \in Messages : Queued(DeliveryEvent(d), collector) \/ d = n => Queued(DeliveryEvent(d), collector')
    BY <1>1, <1>3, PutQueued
  <2>2. \A d \in Messages : d <= n /\ d # n => d <= arrived /\ ~Partial(d)
    BY <1>2 DEF Partial, Messages
  <2>3. QED
    BY <1>1, <2>1, <2>2 DEF ReceiverInv, HasEvent, AtLimit
<1>10. QED
  BY <1>4, <1>5, <1>6, <1>7, <1>8, <1>9 DEF ReceiverInv

\* The invariant is inductive.
LEMMA InvStep ==
  ASSUME ReceiverInv, [Next]_vars
  PROVE  ReceiverInv'
<1>0. LoopTypeOK /\ OpensFirst /\ arrived \in 0..MaxMsgs /\ MaxMsgs \in Nat /\ aborted \subseteq Messages
  BY ReceiverAssumption DEF ReceiverInv, TypeOK
<1>1. CASE ConnectionInit
  BY <1>1, InvConnectionInit
<1>2. CASE Delivery
  BY <1>2, InvDelivery
<1>3. CASE ReactorQuiesce
  BY <1>0, <1>3, InvFrame DEF ReactorQuiesce, Quiesce, Unaffected, LoopTypeOK, OpensFirst
<1>4. CASE Main
  BY <1>0, <1>4, InvFrame DEF Main, MainLoop, Unaffected, LoopTypeOK, OpensFirst
<1>5. CASE SignalHandler
  BY <1>0, <1>5, InvFrame DEF SignalHandler, Signal, Unaffected, LoopTypeOK, OpensFirst
<1>6. ASSUME NEW more \in BOOLEAN, PeerTransfer(more) PROVE ReceiverInv'
  <2>1. arrived + 1 \in Messages
    BY <1>0, <1>6 DEF PeerTransfer, Messages
  <2>2. arrived' = arrived + 1 /\ partial' \in BOOLEAN /\ aborted' \subseteq Messages
    BY <1>0, <1>6, Zenon DEF PeerTransfer
  <2>3. QED
    BY <1>6, <2>1, <2>2, InvReads DEF PeerTransfer
<1>7. ASSUME NEW more \in BOOLEAN, PeerContinue(more) PROVE ReceiverInv'
  <2>1. arrived \in Messages
    BY <1>0, <1>7, ReceiverAssumption DEF PeerContinue, ReceiverInv, TypeOK, OnlyEndedMessages, Messages
  <2>2. arrived' = arrived /\ partial' \in BOOLEAN /\ aborted' \subseteq Messages
    BY <1>0, <1>7, Zenon DEF PeerContinue
  <2>3. QED
    BY <1>7, <2>1, <2>2, InvReads DEF PeerContinue
<1>8. CASE PeerAbort
  <2>1. arrived \in Messages
    BY <1>0, <1>8, ReceiverAssumption DEF PeerAbort, ReceiverInv, TypeOK, OnlyEndedMessages, Messages
  <2>2. arrived' = arrived /\ partial' \in BOOLEAN /\ aborted' \subseteq Messages
    BY <1>0, <1>8, <2>1, Zenon DEF PeerAbort
  <2>3. QED
    BY <1>8, <2>1, <2>2, InvReads DEF PeerAbort
<1>9. CASE PeerClose
  BY <1>0, <1>9, InvFrame DEF PeerClose, PeerCloses, Connected, Unaffected, LoopTypeOK, OpensFirst
<1>10. CASE PeerDetach
  BY <1>0, <1>10, InvFrame DEF PeerDetach, PeerDetaches, Connected, Unaffected, LoopTypeOK, OpensFirst
<1>11. CASE UNCHANGED vars
  BY <1>0, <1>11, InvFrame DEF vars, loopVars, LoopTypeOK, OpensFirst
<1>12. QED
  BY <1>1, <1>2, <1>3, <1>4, <1>5, <1>6, <1>7, <1>8, <1>9, <1>10, <1>11
     DEF Next, Client, Peer, Exited

THEOREM InvAlways == Spec => []ReceiverInv
<1>1. ReceiverInv /\ [Next]_vars => ReceiverInv'
  BY InvStep
<1>2. QED
  BY InvInit, <1>1, PTL DEF Spec

-----------------------------------------------------------------------------
\* Counters, flags and queue of receiver.c keep their types: the credit is
\* never negative.
THEOREM TypeCorrect == Spec => []TypeOK
<1>1. ReceiverInv => TypeOK
  BY DEF ReceiverInv
<1>2. QED
  BY InvAlways, <1>1, PTL

\* The peer is never given more than the window by the two pn_link_flow
\* calls, and never sends more than its credit.
THEOREM KeepsTheWindow == Spec => []WindowRespected
<1>1. ReceiverInv => WindowRespected
  BY DEF ReceiverInv
<1>2. QED
  BY InvAlways, <1>1, PTL

\* receiver.c counts no message that the peer has not ended, by its last frame
\* or by an abort, and none past the limit.
THEOREM CountsEndedMessages == Spec => []OnlyEndedMessages
<1>1. ReceiverInv => OnlyEndedMessages
  BY DEF ReceiverInv
<1>2. QED
  BY InvAlways, <1>1, PTL

\* Topping up at half the window never leaves the peer without credit, for
\* any window of at least 1.
THEOREM PeerIsNeverStarved == Spec => []NeverStarves
<1>1. ReceiverInv => NeverStarves
  BY DEF ReceiverInv, HalfWindow, NeverStarves
<1>2. QED
  BY InvAlways, <1>1, PTL

\* Every complete message meets an event while it is the link's current
\* delivery, so none is left behind.
THEOREM ForgetsNoMessage == Spec => []NoMessageForgotten
<1>1. ReceiverInv => NoMessageForgotten
  <2> SUFFICES ASSUME ReceiverInv, collector = <<>>, ~AtLimit
               PROVE  arrived = count \/ (partial /\ arrived = count + 1)
    BY DEF NoMessageForgotten
  <2>1. count \in Nat /\ arrived \in 0..MaxMsgs /\ MaxMsgs \in Nat /\ count <= arrived
    BY ReceiverAssumption DEF ReceiverInv, TypeOK, WindowRespected
  <2>2. \A d \in Messages : ~Queued(DeliveryEvent(d), collector)
    BY DEF Queued
  <2>3. \A d \in Messages : count < d /\ d <= arrived => partial /\ d = arrived
    BY <2>2 DEF ReceiverInv, HasEvent, Partial
  <2>4. CASE count < arrived
    <3>1. count + 1 \in Messages /\ count < count + 1 /\ count + 1 <= arrived
      BY <2>1, <2>4 DEF Messages
    <3>2. QED
      BY <2>3, <3>1
  <2>5. QED
    BY <2>1, <2>4
<1>2. QED
  BY InvAlways, <1>1, PTL
=============================================================================
