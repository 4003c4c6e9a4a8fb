------------------------ MODULE ReactorClientProofs ------------------------
(***************************************************************************)
(* Proofs about the scale clients, latency-receiver.c,                     *)
(* throughput-receiver.c and chunked-sender.c, for every value of the      *)
(* constants.  What programs share is proved once, of steps that say what  *)
(* a handler does to the link; each program then adds its own part.        *)
(***************************************************************************)
EXTENDS MCReactorClients, CommonProofs, FiniteSetTheorems, SequenceTheorems, TLAPS

-----------------------------------------------------------------------------
\* The three kinds of event of a sender, well formed and different.
LEMMA EventTypes ==
  /\ LinkFlowEvent \in Events
  /\ ConnectionInitEvent \in Events
  /\ \A d \in Deliveries : DeliveryEvent(d) \in Events
BY DEF Events, LinkFlowEvent, ConnectionInitEvent, DeliveryEvent, Event

LEMMA EventsDiffer ==
  /\ LinkFlowEvent # ConnectionInitEvent
  /\ \A d \in Deliveries : DeliveryEvent(d) # LinkFlowEvent /\ DeliveryEvent(d) # ConnectionInitEvent
  /\ \A d, e \in Deliveries : DeliveryEvent(d) = DeliveryEvent(e) => d = e
BY DEF LinkFlowEvent, ConnectionInitEvent, DeliveryEvent, Event

\* The type of an event and its delivery determine it.
LEMMA EventByType ==
  ASSUME NEW e \in Events
  PROVE  /\ e.type = "PN_CONNECTION_INIT" => e = ConnectionInitEvent
         /\ e.type = "PN_LINK_FLOW" => e = LinkFlowEvent
         /\ e.type = "PN_DELIVERY" => e.dlv \in Deliveries /\ e = DeliveryEvent(e.dlv)
BY DEF Events, LinkFlowEvent, ConnectionInitEvent, DeliveryEvent, Event

\* What dispatching an event does to a queue of events of the set S.
LEMMA DispatchQueue ==
  ASSUME NEW S, collector \in Seq(S), NEW type, Dispatch(type)
  PROVE  /\ collector' \in Seq(S) /\ collector # <<>> /\ collector' = Tail(collector)
         /\ Head(collector) \in S /\ Head(collector).type = type
         /\ Queued(Head(collector), collector)
         /\ \A f : /\ Queued(f, collector') => Queued(f, collector)
                   /\ Queued(f, collector) /\ f # Head(collector) => Queued(f, collector')
                   /\ Once(f, collector) => /\ Once(f, collector')
                                            /\ f = Head(collector) => ~Queued(f, collector')
<1>1. collector # <<>> /\ collector' = Tail(collector) /\ Head(collector).type = type
  BY DEF Dispatch
<1>2. /\ collector' \in Seq(S)
      /\ Head(collector) \in S /\ Head(collector) = collector[1] /\ Len(collector) \in Nat \ {0}
  BY <1>1, TailShape
<1>3. Queued(Head(collector), collector)
  BY <1>2 DEF Queued
<1>4. QED
  BY <1>1, <1>2, <1>3, TailQueued, TailOnce

\* A set of n of the numbers 1..n is all of them.
LEMMA AllWhenAsMany ==
  ASSUME NEW n \in Nat, NEW S \in SUBSET (1..n)
  PROVE  /\ IsFiniteSet(S) /\ Cardinality(S) \in Nat /\ Cardinality(S) <= n
         /\ Cardinality(S) = n <=> S = 1..n
<1>1. IsFiniteSet(1..n) /\ Cardinality(1..n) = n
  BY FS_Interval
<1>2. QED
  BY <1>1, FS_Subset, FS_CardinalityType

-----------------------------------------------------------------------------
(***************************************************************************)
(* sender.c and punisher.c of clients/scale.                               *)
(***************************************************************************)

\* Of the first n messages, those sent presettled: with -p all, except that
\* sender.c waits for the outcome of the last one.
Early(n) == IF presettle THEN IF program = "sender" THEN (1..n) \ {limit} ELSE 1..n ELSE {}

\* The ways the peer may end a delivery: with an outcome, without a state, and
\* with a state that punisher.c does not know, and counts without settling.
Final == Outcomes \union {"stateless", "unknown"}

\* The deliveries left unsettled after such a state, and all that are counted.
Left  == {d \in Deliveries : remote[d] = "unknown" /\ ~Queued(DeliveryEvent(d), collector)}
Heard == (settled \union Left) \ Early(count)

SenderTypes ==
  /\ collector \in Seq(Events)
  /\ limit \in Nat /\ limit \in Limits /\ presettle \in BOOLEAN
  /\ count \in Nat /\ credit \in Nat /\ granted \in 0..MaxGranted /\ written \in Nat
  /\ remote \in [Deliveries -> Interim \union Final]
  /\ settled \subseteq Deliveries
  /\ program = "sender" => \A d \in Deliveries : remote[d] # "unknown"

\* The event that opens the connection comes first and comes once.
Opening ==
  /\ conn = "init" => turn = "drain" /\ collector = <<ConnectionInitEvent>> /\ credit = 0
  /\ conn # "init" => ~Queued(ConnectionInitEvent, collector)

\* A delivery that is reported on once has its event waiting only after the
\* peer has ended it, and until it is handled.
EventsOnce ==
  ~informs => \A d \in Deliveries :
    /\ Once(DeliveryEvent(d), collector)
    /\ Queued(DeliveryEvent(d), collector) => remote[d] \in Final /\ d \notin settled

\* Only what was written, and not presettled, is answered.
Answered ==
  /\ \A d \in Deliveries : remote[d] # "none" => d <= written /\ d \notin Early(count)
  /\ Early(count) \subseteq settled
  /\ \A d \in Heard : remote[d] \in Final

\* Credit that can be used has an event that will use it.
CreditHasEvent == credit > 0 /\ WantsToSend => Queued(LinkFlowEvent, collector)

SenderInv == SenderTypes /\ CreditSpent /\ Opening /\ EventsOnce /\ Answered /\ CreditHasEvent

-----------------------------------------------------------------------------
\* The steps of the two programs, as far as the link is concerned.

\* What no step changes.
Same == UNCHANGED <<program, limit, presettle, informs>>

\* What no handler changes.
Fixed == Same /\ UNCHANGED <<turn, granted, written, remote>>

Opens == Dispatch("PN_CONNECTION_INIT") /\ conn' = "open" /\ UNCHANGED <<count, credit, settled>> /\ Fixed

\* A flow event is answered with n messages: until the credit or the
\* messages run out.
Sends(n) ==
  /\ Dispatch("PN_LINK_FLOW") /\ Fixed /\ UNCHANGED conn
  /\ n <= credit /\ (limit > 0 => count + n <= limit)
  /\ count' = count + n /\ credit' = credit - n
  /\ settled' = settled \union (Early(count + n) \ Early(count))
  /\ WantsToSend' => credit' = 0

\* A delivery event is answered by settling, if it brings an outcome; punisher.c
\* leaves a delivery with an unknown state as it is.
Hears(d) ==
  /\ Dispatch("PN_DELIVERY") /\ d = Head(collector).dlv /\ Fixed /\ UNCHANGED <<count, credit>>
  /\ conn' \in {conn, "closing"}
  /\ \/ remote[d] \in {"received", "stateless"} /\ UNCHANGED settled
     \/ remote[d] \in Outcomes /\ settled' = settled \union {d}
     \/ remote[d] = "unknown" /\ program = "punisher" /\ UNCHANGED settled

\* Neither the queue nor the link changes.
Steady ==
  /\ Same /\ UNCHANGED <<collector, count, credit, granted, written, remote, settled>>
  /\ conn = "init" => conn' = "init" /\ turn' = turn
  /\ conn' = "init" => conn = "init"

\* The transport writes, the peer grants, a disposition arrives.
Writes     == LinkWrite /\ UNCHANGED program
Grants(n)  == LinkFlow(n) /\ UNCHANGED program
Reports(d) ==
  /\ UNCHANGED program
  /\ \E state \in {"received"} \union Final :
       LinkDisposition(d, state) /\ (program = "sender" => state # "unknown")

LinkStep ==
  \/ Opens \/ Steady \/ Writes
  \/ \E n \in Nat : Sends(n)
  \/ \E d \in Deliveries : Hears(d)
  \/ \E n \in 0..MaxGranted : Grants(n)
  \/ \E d \in Deliveries : Reports(d)

\* Which messages are presettled does not change after the fact.
LEMMA EarlyFacts ==
  ASSUME NEW m \in Nat, NEW n \in Nat
  PROVE  /\ Early(m) \subseteq 1..m
         /\ Early(m) \subseteq Early(m + n)
         /\ Early(m + n) \ Early(m) \subseteq (m + 1)..(m + n)
         /\ Early(m + 0) = Early(m) /\ (~presettle => Early(m) = {})
BY DEF Early

\* What keeps the events of deliveries in the queue keeps what is counted.
LEMMA QueueHeard ==
  ASSUME UNCHANGED <<program, presettle, limit, count, settled, remote>>,
         \A d \in Deliveries : Queued(DeliveryEvent(d), collector') <=> Queued(DeliveryEvent(d), collector)
  PROVE  Heard' = Heard /\ Left' = Left /\ Early(count)' = Early(count)
<1>1. Early(count)' = Early(count)
  BY DEF Early
<1>2. Left' = Left
  BY DEF Left, Deliveries
<1>3. QED
  BY <1>1, <1>2 DEF Heard

LEMMA SenderInvInit ==
  ASSUME LoopInit, LinkInit PROVE SenderInv
<1>1. collector = <<ConnectionInitEvent>> /\ Len(collector) = 1 /\ collector[1] = ConnectionInitEvent
  BY DEF LoopInit
<1>2. SenderTypes
  BY <1>1, EventTypes, SendingLinkAssumption DEF LinkInit, SenderTypes, Interim, Final
<1>3. CreditSpent
  BY <1>2 DEF LinkInit, SenderTypes, CreditSpent
<1>4. Opening
  BY <1>1 DEF Opening, LoopInit, LinkInit
<1>5. EventsOnce
  BY <1>1, EventsDiffer DEF EventsOnce, Once, Queued
<1>6. Answered /\ CreditHasEvent
  <2>1. Early(0) = {}
    BY DEF Early
  <2>2. Left = {}
    BY DEF Left, LinkInit
  <2>3. QED
    BY <2>1, <2>2 DEF Answered, Heard, CreditHasEvent, LinkInit
<1>7. QED
  BY <1>2, <1>3, <1>4, <1>5, <1>6 DEF SenderInv

LEMMA SenderOpens ==
  ASSUME SenderInv, Opens PROVE SenderInv' /\ conn = "init"
<1> USE DEF Opens, Fixed, Same
<1>1. collector \in Seq(Events)
  BY DEF SenderInv, SenderTypes
<1>2. Head(collector) = ConnectionInitEvent /\ Queued(ConnectionInitEvent, collector)
  BY <1>1, DispatchQueue, EventByType
<1>3. conn = "init" /\ collector = <<ConnectionInitEvent>> /\ collector' = <<>> /\ credit = 0
  BY <1>2 DEF SenderInv, Opening, Dispatch
<1>4. \A f : ~Queued(f, collector') /\ Once(f, collector')
  BY <1>3 DEF Queued, Once
<1>5. SenderTypes' /\ CreditSpent'
  BY <1>3 DEF SenderInv, SenderTypes, CreditSpent, Events
<1>6. Answered'
  <2>1. \A d \in Deliveries : ~Queued(DeliveryEvent(d), collector)
    BY <1>3, EventsDiffer DEF Queued
  <2>2. Heard' = Heard /\ Early(count)' = Early(count)
    BY <1>4, <2>1, QueueHeard
  <2>3. QED
    BY <2>2 DEF SenderInv, Answered
<1>7. Opening' /\ EventsOnce' /\ CreditHasEvent'
  BY <1>3, <1>4 DEF Opening, EventsOnce, CreditHasEvent
<1>8. QED
  BY <1>3, <1>5, <1>6, <1>7 DEF SenderInv

LEMMA SenderSteady ==
  ASSUME SenderInv, Steady PROVE SenderInv'
<1> USE DEF Steady, Same
<1>1. SenderTypes' /\ CreditSpent'
  BY DEF SenderInv, SenderTypes, CreditSpent
<1>2. Answered'
  <2>1. Heard' = Heard /\ Early(count)' = Early(count)
    BY QueueHeard
  <2>2. QED
    BY <2>1 DEF SenderInv, Answered
<1>3. Opening' /\ EventsOnce' /\ CreditHasEvent'
  BY DEF SenderInv, Opening, EventsOnce, CreditHasEvent, WantsToSend, Once, Queued
<1>4. QED
  BY <1>1, <1>2, <1>3 DEF SenderInv

\* What is sent is new: nothing was heard of it.
LEMMA SentFacts ==
  ASSUME SenderInv, NEW n \in Nat, Sends(n)
  PROVE  /\ Early(count)' = Early(count + n) /\ Heard' = Heard /\ Left' = Left
         /\ \A d \in Deliveries : remote[d] # "none" => d \notin Early(count + n) \ Early(count)
         /\ count + n <= MaxGranted
<1>1. UNCHANGED <<limit, presettle, program>> /\ count' = count + n
  BY DEF Sends, Fixed, Same
<1>2. Early(count)' = Early(count + n)
  BY <1>1 DEF Early
<1>3. count \in Nat /\ written \in Nat /\ written <= count /\ credit \in Nat
  BY DEF SenderInv, SenderTypes, CreditSpent
<1>4. \A d \in Deliveries : remote[d] # "none" => d \notin Early(count + n) \ Early(count)
  <2>1. \A d \in Deliveries : remote[d] # "none" => d \in Nat /\ d <= count
    BY <1>3, SendingLinkAssumption DEF SenderInv, Answered, Deliveries
  <2>2. Early(count + n) \ Early(count) \subseteq (count + 1)..(count + n)
    BY <1>3, EarlyFacts
  <2>3. QED
    BY <1>3, <2>1, <2>2
<1>5. Heard' = Heard /\ Left' = Left
  <2>0. Left' = Left
    <3>1. collector \in Seq(Events) /\ Dispatch("PN_LINK_FLOW") /\ UNCHANGED remote
      BY DEF SenderInv, SenderTypes, Sends, Fixed
    <3>2. Head(collector) = LinkFlowEvent
      BY <3>1, DispatchQueue, EventByType
    <3>3. \A d \in Deliveries : Queued(DeliveryEvent(d), collector') <=> Queued(DeliveryEvent(d), collector)
      BY <3>1, <3>2, DispatchQueue, EventsDiffer
    <3>4. QED
      BY <3>1, <3>3 DEF Left, Deliveries
  <2>1. \A d \in Heard : d \notin Early(count + n) \ Early(count)
    BY <1>4 DEF SenderInv, Answered, Outcomes, Final, SenderTypes, Heard, Left
  <2>2. Heard' = (settled' \union Left) \ Early(count + n)
    BY <1>2, <2>0 DEF Heard
  <2>3. settled' = settled \union (Early(count + n) \ Early(count)) /\ Early(count) \subseteq Early(count + n)
    BY <1>3, EarlyFacts DEF Sends
  <2>4. QED
    BY <2>0, <2>1, <2>2, <2>3 DEF Heard
<1>6. count + n <= MaxGranted
  BY <1>3, SendingLinkAssumption DEF SenderInv, SenderTypes, CreditSpent, Sends
<1>7. QED
  BY <1>2, <1>4, <1>5, <1>6

LEMMA SenderSends ==
  ASSUME SenderInv, NEW n \in Nat, Sends(n) PROVE SenderInv'
<1>1. collector \in Seq(Events) /\ count \in Nat /\ Dispatch("PN_LINK_FLOW")
  BY DEF SenderInv, SenderTypes, Sends
<1>2. Head(collector) = LinkFlowEvent /\ Queued(LinkFlowEvent, collector)
  BY <1>1, DispatchQueue, EventByType
<1>3. /\ Early(count)' = Early(count + n) /\ Heard' = Heard /\ count + n <= MaxGranted
      /\ \A d \in Deliveries : remote[d] # "none" => d \notin Early(count + n) \ Early(count)
  BY SentFacts
<1>4. settled' = settled \union (Early(count + n) \ Early(count))
  BY DEF Sends
<1>5. Early(count + n) \subseteq 1..(count + n) /\ Early(count) \subseteq Early(count + n)
  <2>1. count \in Nat /\ count + n \in Nat
    BY <1>1
  <2>2. QED
    BY <2>1, EarlyFacts
<1>6. Opening'
  <2>1. conn # "init"
    BY <1>2, EventsDiffer DEF SenderInv, Opening, Queued
  <2>2. QED
    BY <1>1, <2>1, DispatchQueue DEF SenderInv, Opening, Sends
<1>7. CreditSpent' /\ count' \in Nat /\ credit' \in Nat
  BY SendingLinkAssumption DEF SenderInv, SenderTypes, CreditSpent, Sends, Fixed, Same
<1>8. settled' \subseteq Deliveries
  <2>1. 1..(count + n) \subseteq Deliveries
    BY <1>1, <1>3, SendingLinkAssumption DEF Deliveries
  <2>2. QED
    BY <1>4, <1>5, <2>1 DEF SenderInv, SenderTypes
<1>9. SenderTypes'
  <2>1. collector' \in Seq(Events)
    BY <1>1, DispatchQueue
  <2>2. QED
    BY <1>7, <1>8, <2>1 DEF SenderInv, SenderTypes, Sends, Fixed, Same, Events
<1>10. \A d \in Deliveries : /\ ~informs => Once(DeliveryEvent(d), collector')
                             /\ Queued(DeliveryEvent(d), collector') => Queued(DeliveryEvent(d), collector)
  BY <1>1, DispatchQueue DEF SenderInv, EventsOnce
<1>11. EventsOnce'
  <2>1. UNCHANGED <<informs, remote>>
    BY DEF Sends, Fixed, Same
  <2>2. QED
    BY <1>3, <1>4, <1>10, <2>1 DEF SenderInv, EventsOnce, Outcomes, Final
<1>12. Answered'
  <2>1. UNCHANGED <<written, remote>>
    BY DEF Sends, Fixed, Same
  <2>2. QED
    BY <1>3, <1>4, <1>5, <2>1 DEF SenderInv, Answered
<1>13. CreditHasEvent'
  BY <1>7 DEF CreditHasEvent, Sends
<1>14. QED
  BY <1>6, <1>7, <1>9, <1>11, <1>12, <1>13 DEF SenderInv

\* The delivery a handled event is about: written, not presettled, and new if
\* the peer reports once.
LEMMA HeardFacts ==
  ASSUME SenderInv, NEW d \in Deliveries, Hears(d)
  PROVE  /\ Head(collector) = DeliveryEvent(d) /\ Queued(DeliveryEvent(d), collector)
         /\ conn # "init" /\ d \notin Early(count) /\ d \in 1..count
         /\ ~informs => d \notin settled /\ d \notin Heard /\ ~Queued(DeliveryEvent(d), collector')
         /\ remote[d] \in Outcomes => settled' = settled \union {d} /\ Heard' = Heard \union {d} /\ Left' = Left
         /\ remote[d] \in {"received", "stateless"} => settled' = settled /\ Heard' = Heard /\ Left' = Left
         /\ remote[d] = "unknown" =>
              /\ settled' = settled
              /\ IF Queued(DeliveryEvent(d), collector')
                 THEN Heard' = Heard /\ Left' = Left
                 ELSE Heard' = Heard \union {d} /\ Left' = Left \union {d}
         /\ Early(count)' = Early(count)
<1>1. collector \in Seq(Events) /\ Dispatch("PN_DELIVERY") /\ d = Head(collector).dlv
  BY DEF SenderInv, SenderTypes, Hears
<1>2. Head(collector) = DeliveryEvent(d) /\ Queued(DeliveryEvent(d), collector)
  BY <1>1, DispatchQueue, EventByType
<1>3. conn # "init"
  BY <1>2, EventsDiffer DEF SenderInv, Opening, Queued
<1>4. d <= written /\ d \notin Early(count)
  BY DEF SenderInv, Answered, Hears, Outcomes
<1>5. d \in 1..count
  BY <1>4, SendingLinkAssumption DEF SenderInv, CreditSpent, SenderTypes, Deliveries
<1>6. ~informs => d \notin settled /\ ~Queued(DeliveryEvent(d), collector')
  BY <1>1, <1>2, DispatchQueue DEF SenderInv, EventsOnce
<1>7. Early(count)' = Early(count)
  BY DEF Hears, Fixed, Same, Early
<1>8. /\ remote[d] \in Outcomes => settled' = settled \union {d}
      /\ remote[d] \in {"received", "stateless", "unknown"} => settled' = settled
  BY DEF Hears, Outcomes
<1>9. d \notin Left
  BY <1>2 DEF Left
<1>10. Left' = IF remote[d] = "unknown" /\ ~Queued(DeliveryEvent(d), collector') THEN Left \union {d} ELSE Left
  <2>1. UNCHANGED remote
    BY DEF Hears, Fixed
  <2>2. \A e \in Deliveries : e # d =>
          (Queued(DeliveryEvent(e), collector') <=> Queued(DeliveryEvent(e), collector))
    BY <1>1, <1>2, DispatchQueue, EventsDiffer
  <2>3. Left' = {e \in Deliveries : remote[e] = "unknown" /\ ~Queued(DeliveryEvent(e), collector')}
    BY <2>1 DEF Left, Deliveries
  <2>4. QED
    BY <1>9, <2>2, <2>3 DEF Left
<1>11. QED
  BY <1>2, <1>3, <1>4, <1>5, <1>6, <1>7, <1>8, <1>9, <1>10 DEF Heard, Outcomes

LEMMA SenderHears ==
  ASSUME SenderInv, NEW d \in Deliveries, Hears(d) PROVE SenderInv'
<1>1. collector \in Seq(Events) /\ Dispatch("PN_DELIVERY")
  BY DEF SenderInv, SenderTypes, Hears
<1>2. /\ Head(collector) = DeliveryEvent(d) /\ Queued(DeliveryEvent(d), collector)
      /\ conn # "init" /\ d \notin Early(count)
      /\ Early(count)' = Early(count)
  BY HeardFacts
<1>3. /\ settled \subseteq settled' /\ settled' \subseteq settled \union {d}
      /\ Heard' = Heard \/ (remote[d] \in Final /\ Heard' = Heard \union {d})
  BY HeardFacts DEF Hears, Final, Outcomes
<1>4. Opening'
  BY <1>1, <1>2, DispatchQueue DEF SenderInv, Opening, Hears
<1>5. CreditSpent' /\ SenderTypes'
  <2>1. collector' \in Seq(Events)
    BY <1>1, DispatchQueue
  <2>2. QED
    BY <1>3, <2>1 DEF SenderInv, CreditSpent, SenderTypes, Hears, Fixed, Same
<1>6. ASSUME ~informs, NEW e \in Deliveries
      PROVE  /\ Once(DeliveryEvent(e), collector')
             /\ Queued(DeliveryEvent(e), collector') => remote[e] \in Final /\ e \notin settled'
  <2>1. Once(DeliveryEvent(e), collector)
    BY <1>6 DEF SenderInv, EventsOnce
  <2>2. CASE e = d
    BY <1>1, <1>2, <2>1, <2>2, DispatchQueue
  <2>3. CASE e # d
    BY <1>1, <1>3, <1>6, <2>1, <2>3, DispatchQueue DEF SenderInv, EventsOnce
  <2>4. QED
    BY <2>2, <2>3
<1>7. EventsOnce'
  BY <1>6 DEF EventsOnce, Hears, Fixed, Same
<1>8. Answered'
  <2>1. UNCHANGED <<written, remote>>
    BY DEF Hears, Fixed
  <2>2. QED
    BY <1>2, <1>3, <2>1 DEF SenderInv, Answered
<1>9. CreditHasEvent'
  BY <1>1, <1>2, DispatchQueue, EventsDiffer
  DEF SenderInv, CreditHasEvent, WantsToSend, Hears, Fixed, Same
<1>10. QED
  BY <1>4, <1>5, <1>7, <1>8, <1>9 DEF SenderInv

LEMMA SenderWrites ==
  ASSUME SenderInv, Writes PROVE SenderInv'
<1> USE DEF Writes, LinkWrite
<1>1. collector \in Seq(Events)
  BY DEF SenderInv, SenderTypes
<1>2. \A f : Queued(f, collector') <=> Queued(f, collector) \/ f = LinkFlowEvent
  BY <1>1, PutQueued, EventTypes
<1>3. ~informs => \A e \in Deliveries : Once(DeliveryEvent(e), collector')
  BY <1>1, PutOnce, EventTypes, EventsDiffer DEF SenderInv, EventsOnce
<1>4. written' \in Nat /\ written <= written' /\ written' <= count
  BY DEF SenderInv, SenderTypes
<1>5. SenderTypes' /\ CreditSpent'
  BY <1>1, <1>4, PutType, EventTypes DEF SenderInv, SenderTypes, CreditSpent
<1>6. Opening' /\ CreditHasEvent'
  BY <1>2, EventsDiffer DEF SenderInv, Opening, CreditHasEvent
<1>7. EventsOnce'
  BY <1>2, <1>3, EventsDiffer DEF SenderInv, EventsOnce
<1>8. Answered'
  <2>1. \A e \in Deliveries : e <= written => e <= written'
    BY <1>4, SendingLinkAssumption DEF SenderInv, SenderTypes, Deliveries
  <2>2. Early(count)' = Early(count) /\ Heard' = Heard
    BY <1>2, EventsDiffer, QueueHeard
  <2>3. QED
    BY <2>1, <2>2 DEF SenderInv, Answered
<1>9. QED
  BY <1>5, <1>6, <1>7, <1>8 DEF SenderInv

LEMMA SenderGrants ==
  ASSUME SenderInv, NEW n \in 0..MaxGranted, Grants(n) PROVE SenderInv'
<1> USE DEF Grants, LinkFlow, Reads, Connected
<1>1. collector \in Seq(Events)
  BY DEF SenderInv, SenderTypes
<1>2. \A f : Queued(f, collector') <=> Queued(f, collector) \/ f = LinkFlowEvent
  BY <1>1, PutQueued, EventTypes
<1>3. ~informs => \A e \in Deliveries : Once(DeliveryEvent(e), collector')
  BY <1>1, PutOnce, EventTypes, EventsDiffer DEF SenderInv, EventsOnce
<1>4. credit' \in Nat /\ granted' \in 0..MaxGranted /\ CreditSpent'
  BY SendingLinkAssumption DEF SenderInv, SenderTypes, CreditSpent
<1>5. SenderTypes'
  BY <1>1, <1>4, PutType, EventTypes DEF SenderInv, SenderTypes
<1>6. Opening' /\ CreditHasEvent'
  BY <1>2, EventsDiffer DEF SenderInv, Opening, CreditHasEvent
<1>7. EventsOnce'
  BY <1>2, <1>3, EventsDiffer DEF SenderInv, EventsOnce
<1>8. Answered'
  <2>1. Early(count)' = Early(count) /\ Heard' = Heard
    BY <1>2, EventsDiffer, QueueHeard
  <2>2. QED
    BY <2>1 DEF SenderInv, Answered
<1>9. QED
  BY <1>4, <1>5, <1>6, <1>7, <1>8 DEF SenderInv

\* A disposition that arrives is not counted yet.
LEMMA ReportHeard ==
  ASSUME SenderInv, NEW d \in Deliveries, Reports(d)
  PROVE  Heard' = Heard /\ Left' = Left /\ Early(count)' = Early(count) /\ d \notin Heard
<1>1. PICK state \in {"received"} \union Final : LinkDisposition(d, state)
  BY DEF Reports
<1>2. /\ remote[d] \in Interim /\ d \notin settled /\ remote' = [remote EXCEPT ![d] = state]
      /\ collector' = Put(collector, DeliveryEvent(d)) /\ collector \in Seq(Events)
      /\ UNCHANGED <<program, presettle, limit, count, settled>> /\ remote \in [Deliveries -> Interim \union Final]
  BY <1>1 DEF LinkDisposition, Reads, Reports, SenderInv, SenderTypes
<1>3. \A f : Queued(f, collector') <=> Queued(f, collector) \/ f = DeliveryEvent(d)
  BY <1>2, PutQueued, EventTypes
<1>4. d \notin Left /\ d \notin Heard
  BY <1>2 DEF Left, Interim, Heard
<1>5. Left' = {e \in Deliveries : remote'[e] = "unknown" /\ ~Queued(DeliveryEvent(e), collector')}
  BY DEF Left, Deliveries
<1>6. Left' = Left
  BY <1>2, <1>3, <1>4, <1>5, EventsDiffer DEF Left
<1>7. Early(count)' = Early(count)
  BY <1>2 DEF Early
<1>8. QED
  BY <1>2, <1>4, <1>6, <1>7 DEF Heard

LEMMA SenderReports ==
  ASSUME SenderInv, NEW d \in Deliveries, Reports(d) PROVE SenderInv'
<1>0. PICK state \in {"received"} \union Final :
             LinkDisposition(d, state) /\ (program = "sender" => state # "unknown")
  BY DEF Reports
<1> USE <1>0 DEF LinkDisposition, Reads, Connected
<1>1. collector \in Seq(Events) /\ (~informs => state \in Final)
  BY DEF SenderInv, SenderTypes
<1>2. \A f : Queued(f, collector') <=> Queued(f, collector) \/ f = DeliveryEvent(d)
  BY <1>1, PutQueued, EventTypes
<1>3. d \notin settled /\ (~informs => ~Queued(DeliveryEvent(d), collector))
  BY DEF SenderInv, EventsOnce, Interim, Final, Outcomes
<1>4. ~informs => \A e \in Deliveries : Once(DeliveryEvent(e), collector')
  BY <1>1, <1>3, PutOnce, EventTypes, EventsDiffer DEF SenderInv, EventsOnce
<1>5. remote'[d] = state /\ \A e \in Deliveries : e # d => remote'[e] = remote[e]
  BY DEF SenderInv, SenderTypes
<1>6. SenderTypes' /\ CreditSpent'
  <2>1. collector' \in Seq(Events) /\ remote' \in [Deliveries -> Interim \union Final]
    BY <1>1, PutType, EventTypes DEF SenderInv, SenderTypes, Interim
  <2>2. program' = "sender" => \A e \in Deliveries : remote'[e] # "unknown"
    BY <1>0, <1>5 DEF SenderInv, SenderTypes, Reports
  <2>3. QED
    BY <2>1, <2>2 DEF SenderInv, SenderTypes, CreditSpent, Events, Deliveries
<1>7. Opening' /\ CreditHasEvent'
  BY <1>2, EventsDiffer DEF SenderInv, Opening, CreditHasEvent, WantsToSend
<1>8. EventsOnce'
  BY <1>1, <1>2, <1>3, <1>4, <1>5, EventsDiffer DEF SenderInv, EventsOnce
<1>9. Answered'
  <2>1. Early(count)' = Early(count) /\ Heard' = Heard /\ d \notin Heard
    BY ReportHeard
  <2>2. d \notin Early(count) /\ d <= written /\ Heard \subseteq Deliveries
    BY <1>3 DEF SenderInv, Answered, SenderTypes, Heard, Left
  <2>3. QED
    BY <1>5, <2>1, <2>2 DEF SenderInv, Answered
<1>10. QED
  BY <1>6, <1>7, <1>8, <1>9 DEF SenderInv

LEMMA SenderPreserved == SenderInv /\ LinkStep => SenderInv'
BY SenderOpens, SenderSteady, SenderWrites, SenderSends, SenderHears, SenderGrants, SenderReports DEF LinkStep

-----------------------------------------------------------------------------
\* sender.c counts down the outcomes it waits for.
ScaleSenderInv ==
  /\ limit > 0 /\ acked \in Int
  /\ ~informs => acked + Cardinality(Heard) = IF presettle THEN 1 ELSE limit

\* What the send loop settles, in both programs.
LEMMA EarlyNext ==
  ASSUME NEW m \in Nat, NEW n \in Nat
  PROVE  Early(m + n) \ Early(m) = IF presettle
                                    THEN IF program = "sender" THEN ((m + 1)..(m + n)) \ {limit} ELSE (m + 1)..(m + n)
                                    ELSE {}
BY DEF Early

\* Only messages that were sent are heard of.
LEMMA HeardSent ==
  ASSUME SenderInv
  PROVE  /\ Heard \subseteq 1..count /\ settled \subseteq 1..count
         /\ settled \union Left = Heard \union Early(count)
         /\ program = "sender" => Left = {}
         /\ IsFiniteSet(Heard) /\ Cardinality(Heard) \in Nat
<1>1. count \in Nat /\ written \in Nat /\ written <= count /\ settled \subseteq Deliveries
  BY DEF SenderInv, SenderTypes, CreditSpent
<1>2. ASSUME NEW d \in Heard PROVE d \in 1..count
  <2>1. d \in Deliveries /\ remote[d] # "none"
    BY <1>1 DEF SenderInv, Answered, Heard, Outcomes, Final, Left
  <2>2. d <= written
    BY <2>1 DEF SenderInv, Answered
  <2>3. QED
    BY <1>1, <2>1, <2>2, SendingLinkAssumption DEF Deliveries
<1>3. Early(count) \subseteq 1..count /\ Early(count) \subseteq settled
  BY <1>1, EarlyFacts DEF SenderInv, Answered
<1>4. /\ settled \union Left = Heard \union Early(count)
      /\ program = "sender" => Left = {}
  BY <1>3 DEF Heard, Left, SenderInv, SenderTypes
<1>5. Heard \in SUBSET (1..count)
  BY <1>2
<1>6. IsFiniteSet(Heard) /\ Cardinality(Heard) \in Nat
  BY <1>1, <1>5, AllWhenAsMany
<1>7. QED
  BY <1>2, <1>3, <1>4, <1>6

\* A new outcome is one more.
LEMMA OneMoreHeard ==
  ASSUME SenderInv, NEW d, d \notin Heard
  PROVE  Cardinality(Heard \union {d}) = Cardinality(Heard) + 1
BY HeardSent, FS_AddElement

\* Opening, writing, reading and closing count nothing.
LEMMA QuietHeard ==
  ASSUME SenderInv,
         Opens \/ Steady \/ Writes \/ (\E n \in 0..MaxGranted : Grants(n)) \/ \E d \in Deliveries : Reports(d)
  PROVE  /\ Heard' = Heard /\ Left' = Left /\ Early(count)' = Early(count)
         /\ UNCHANGED <<program, limit, presettle, informs, count, settled>>
<1>0. collector \in Seq(Events)
  BY DEF SenderInv, SenderTypes
<1>1. UNCHANGED <<program, limit, presettle, informs, count, settled>>
  BY DEF Opens, Fixed, Steady, Same, Writes, LinkWrite, Grants, LinkFlow, Reports, LinkDisposition
<1>2. CASE \E d \in Deliveries : Reports(d)
  BY <1>1, <1>2, ReportHeard
<1>3. CASE Opens \/ Steady \/ Writes \/ \E n \in 0..MaxGranted : Grants(n)
  <2>1. UNCHANGED remote
    BY <1>3 DEF Opens, Fixed, Steady, Writes, LinkWrite, Grants, LinkFlow
  <2>2. \A d \in Deliveries : Queued(DeliveryEvent(d), collector') <=> Queued(DeliveryEvent(d), collector)
    <3>1. CASE Opens
      <4>1. Dispatch("PN_CONNECTION_INIT")
        BY <3>1 DEF Opens
      <4>2. Head(collector) = ConnectionInitEvent
        BY <1>0, <4>1, DispatchQueue, EventByType
      <4>3. QED
        BY <1>0, <4>1, <4>2, DispatchQueue, EventsDiffer
    <3>2. CASE Steady
      BY <3>2 DEF Steady
    <3>3. CASE Writes \/ \E n \in 0..MaxGranted : Grants(n)
      <4>1. collector' = Put(collector, LinkFlowEvent)
        BY <3>3 DEF Writes, LinkWrite, Grants, LinkFlow, Reads
      <4>2. QED
        BY <1>0, <4>1, PutQueued, EventTypes, EventsDiffer
    <3>4. QED
      BY <1>3, <3>1, <3>2, <3>3
  <2>3. QED
    BY <1>1, <2>1, <2>2, QueueHeard
<1>4. QED
  BY <1>2, <1>3

LEMMA SendingFlow ==
  ASSUME SenderInv, ScaleSenderInv, program = "sender", UNCHANGED program, Sending!FlowEvent
  PROVE  ScaleSenderInv' /\ LinkStep
<1>1. /\ Dispatch("PN_LINK_FLOW") /\ Fixed /\ UNCHANGED <<conn, acked>>
      /\ count' = count + Sending!Batch /\ credit' = credit - Sending!Batch
      /\ settled' = settled \union Sending!Presettled(Sending!Batch)
  BY DEF Sending!FlowEvent, Sending!Dispatch, Dispatch, Fixed, Same
<1>2. credit \in Nat /\ count \in Nat /\ limit \in Nat /\ limit > 0 /\ count <= limit
  BY DEF SenderInv, SenderTypes, CreditSpent, ScaleSenderInv
<1>3. PICK n \in Nat : /\ n = Sending!Batch /\ n <= credit /\ count + n <= limit
                       /\ n = credit \/ count + n = limit
  BY <1>2 DEF Sending!Batch
<1>4. Sending!Presettled(n) = Early(count + n) \ Early(count)
  BY <1>2, EarlyNext DEF Sending!Presettled
<1>5. WantsToSend' => credit' = 0
  BY <1>1, <1>2, <1>3 DEF WantsToSend, Fixed, Same
<1>6. Sends(n)
  BY <1>1, <1>2, <1>3, <1>4, <1>5 DEF Sends
<1>7. Heard' = Heard
  BY <1>6, SentFacts
<1>8. QED
  BY <1>1, <1>6, <1>7 DEF ScaleSenderInv, LinkStep, Fixed, Same

LEMMA SendingDelivery ==
  ASSUME SenderInv, ScaleSenderInv, UNCHANGED program, Sending!Delivery
  PROVE  ScaleSenderInv' /\ LinkStep
<1>0. PICK d : d = Head(collector).dlv
  OBVIOUS
<1>1. /\ Dispatch("PN_DELIVERY") /\ Fixed /\ UNCHANGED <<count, credit>>
      /\ Sending!Ignored(d) \/ Sending!Received(d) \/ Sending!Outcome(d)
      /\ conn' \in {conn, "closing"}
  BY <1>0 DEF Sending!Delivery, Sending!Ignored, Sending!Dispatch, Dispatch, Fixed, Same
<1>2. d \in Deliveries
  BY <1>0, <1>1, DispatchQueue, EventByType DEF SenderInv, SenderTypes
<1>3. Hears(d)
  BY <1>0, <1>1 DEF Hears, Sending!Ignored, Sending!Received, Sending!Outcome, Sending!Outcomes, Outcomes
<1>4. UNCHANGED <<limit, presettle, informs>>
  BY <1>1 DEF Fixed, Same
<1>5. CASE Sending!Ignored(d) \/ Sending!Received(d)
  <2>1. Heard' = Heard /\ UNCHANGED acked
    BY <1>2, <1>3, <1>5, HeardFacts DEF Sending!Ignored, Sending!Received
  <2>2. QED
    BY <1>2, <1>3, <1>4, <2>1 DEF ScaleSenderInv, LinkStep
<1>6. CASE Sending!Outcome(d)
  <2>1. Heard' = Heard \union {d} /\ (~informs => d \notin Heard) /\ acked' = acked - 1
    BY <1>2, <1>3, <1>6, HeardFacts DEF Sending!Outcome, Sending!Outcomes, Outcomes
  <2>2. ~informs => Cardinality(Heard') = Cardinality(Heard) + 1
    BY <2>1, OneMoreHeard
  <2>3. Cardinality(Heard) \in Nat
    BY HeardSent
  <2>4. ScaleSenderInv'
    BY <1>4, <2>1, <2>2, <2>3 DEF ScaleSenderInv
  <2>5. QED
    BY <1>2, <1>3, <2>4 DEF LinkStep
<1>7. QED
  BY <1>1, <1>5, <1>6

\* The steps of sender.c other than its two handlers leave its counter alone.
LEMMA SendingRest ==
  ASSUME SenderInv, Sending!Next, UNCHANGED program
  PROVE  \/ Sending!FlowEvent
         \/ Sending!Delivery
         \/ Sending!Main
         \/ UNCHANGED acked /\ Opens
         \/ UNCHANGED <<acked, conn>> /\ Steady
         \/ UNCHANGED acked /\ Steady /\ conn' = "closed"
         \/ UNCHANGED <<acked, conn>> /\ Writes
         \/ UNCHANGED <<acked, conn>> /\ \E n \in 0..MaxGranted : Grants(n)
         \/ UNCHANGED <<acked, conn>> /\ \E d \in Deliveries : Reports(d)
<1>0. 0 \in 0..MaxGranted /\ 1..MaxGranted \subseteq 0..MaxGranted
  BY SendingLinkAssumption
<1>1. CASE Sending!ConnectionInit
  BY <1>1 DEF Sending!ConnectionInit, Sending!Dispatch, Sending!linkVars, Opens, Dispatch, Fixed, Same
<1>2. CASE Sending!Write
  BY <1>2, Zenon DEF Sending!Write, Sending!LinkWrite, Writes, LinkWrite, Sending!Put, Put,
              Sending!LinkFlowEvent, LinkFlowEvent, Sending!Event, Event
<1>3. ASSUME NEW n \in 0..MaxGranted, Sending!PeerFlow(n) PROVE Grants(n) /\ UNCHANGED <<acked, conn>>
  BY <1>3 DEF Sending!PeerFlow, Sending!LinkFlow, Sending!Reads, Sending!Connected, Grants, LinkFlow, Reads,
              Connected, Sending!Put, Put, Sending!LinkFlowEvent, LinkFlowEvent, Sending!Event, Event
<1>4. ASSUME NEW d \in Deliveries, NEW state \in {"received", "stateless"} \union Outcomes,
             Sending!PeerDisposition(d, state)
      PROVE  Reports(d) /\ UNCHANGED <<acked, conn>>
  <2>1. LinkDisposition(d, state) /\ UNCHANGED <<acked, conn>>
    BY <1>4 DEF Sending!PeerDisposition, Sending!LinkDisposition, Sending!Reads, Sending!Connected,
                LinkDisposition, Reads, Connected, Sending!Put, Put, Sending!DeliveryEvent, DeliveryEvent,
                Sending!Event, Event, Sending!Interim, Interim
  <2>2. QED
    BY <2>1 DEF Reports, Final, Outcomes
<1>5. CASE Sending!PeerGrants \/ Sending!PeerFlow(0)
  <2>1. PICK n \in 0..MaxGranted : Sending!PeerFlow(n)
    BY <1>0, <1>5 DEF Sending!PeerGrants
  <2>2. QED
    BY <1>3, <2>1
<1>6. CASE \/ Sending!PeerSettles \/ Sending!PeerForgets
           \/ \E d \in Sending!Deliveries : Sending!PeerDisposition(d, "received")
  <2>1. PICK d \in Deliveries, state \in {"received", "stateless"} \union Outcomes : Sending!PeerDisposition(d, state)
    BY <1>6 DEF Sending!PeerSettles, Sending!PeerForgets, Sending!Outcomes, Outcomes, Sending!Deliveries, Deliveries
  <2>2. QED
    BY <1>4, <2>1
<1>7. CASE Sending!PeerLeaves
  <2>1. CASE Sending!PeerCloses
    BY <1>7, <2>1 DEF Sending!PeerLeaves, Sending!PeerCloses, Sending!Connected, Sending!linkVars, Steady, Same, SenderInv, Opening
  <2>2. CASE Sending!PeerDetaches
    BY <1>7, <2>2 DEF Sending!PeerLeaves, Sending!PeerDetaches, Sending!Connected, Sending!linkVars, Steady, Same
  <2>3. QED
    BY <1>7, <2>1, <2>2 DEF Sending!PeerLeaves
<1>8. CASE Sending!Exited
  BY <1>8 DEF Sending!Exited, Sending!vars, Sending!loopVars, Sending!linkVars, Steady, Same
<1>9. QED
  BY <1>1, <1>2, <1>5, <1>6, <1>7, <1>8 DEF Sending!Next, Sending!Client, Sending!PeerInforms

LEMMA SendingStep ==
  ASSUME SenderInv, ScaleSenderInv, program = "sender", UNCHANGED program, Sending!Next
  PROVE  ScaleSenderInv' /\ LinkStep
<1>1. CASE Sending!Main
  <2>1. Steady /\ UNCHANGED acked
    BY <1>1 DEF Sending!Main, Sending!Quiesce, Sending!MainLoop, Sending!linkVars, Steady, Same, SenderInv, Opening
  <2>2. Heard' = Heard /\ UNCHANGED <<limit, presettle, informs>>
    BY <2>1, QuietHeard
  <2>3. QED
    BY <2>1, <2>2 DEF ScaleSenderInv, LinkStep
<1>2. CASE UNCHANGED acked /\ (Opens \/ Steady \/ Writes \/ (\E n \in 0..MaxGranted : Grants(n)) \/ \E d \in Deliveries : Reports(d))
  <2>1. Heard' = Heard /\ UNCHANGED <<limit, presettle, informs>>
    BY <1>2, QuietHeard
  <2>2. QED
    BY <1>2, <2>1 DEF ScaleSenderInv, LinkStep
<1>3. QED
  BY <1>1, <1>2, SendingRest, SendingFlow, SendingDelivery

-----------------------------------------------------------------------------
\* punisher.c counts up, and closes when everything is sent and answered.
PunisherInv ==
  /\ acked \in Int
  /\ ~informs => acked = Cardinality(Heard)
  /\ conn = "closing" /\ ~informs /\ limit > 0 => count = limit /\ settled \union Left = 1..limit

\* The deliveries punisher.c is done with.
LEMMA AnsweredIsLeft == Punishing!Answered = settled \union Left
BY DEF Punishing!Answered, Left, Punishing!Queued, Queued, Punishing!DeliveryEvent, DeliveryEvent,
       Punishing!Event, Event, Punishing!Deliveries, Deliveries

LEMMA PunishingFlow ==
  ASSUME SenderInv, PunisherInv, program = "punisher", UNCHANGED program, Punishing!FlowEvent
  PROVE  PunisherInv' /\ LinkStep
<1>1. /\ Dispatch("PN_LINK_FLOW") /\ Fixed /\ UNCHANGED <<conn, acked>>
      /\ count' = count + Punishing!Batch /\ credit' = credit - Punishing!Batch
      /\ settled' = IF presettle THEN settled \union (count + 1 .. count + Punishing!Batch) ELSE settled
  BY DEF Punishing!FlowEvent, Punishing!Dispatch, Dispatch, Fixed, Same, Punishing!Transmit
<1>2. credit \in Nat /\ count \in Nat /\ limit \in Nat /\ (limit > 0 => count <= limit)
  BY DEF SenderInv, SenderTypes, CreditSpent
<1>3. PICK n \in Nat : /\ n = Punishing!Batch /\ n <= credit /\ (limit > 0 => count + n <= limit)
                       /\ n = credit \/ (limit > 0 /\ count + n = limit)
  BY <1>2 DEF Punishing!Batch
<1>4. settled' = settled \union (Early(count + n) \ Early(count))
  BY <1>1, <1>2, <1>3, EarlyNext
<1>5. WantsToSend' => credit' = 0
  BY <1>1, <1>2, <1>3 DEF WantsToSend, Fixed, Same
<1>6. Sends(n)
  BY <1>1, <1>2, <1>3, <1>4, <1>5 DEF Sends
<1>7. Heard' = Heard /\ Left' = Left
  BY <1>6, SentFacts
<1>8. conn = "closing" /\ ~informs /\ limit > 0 => count' = count /\ settled' = settled
  <2>1. conn = "closing" /\ ~informs /\ limit > 0 => n = 0
    BY <1>2, <1>3 DEF PunisherInv
  <2>2. n = 0 => count' = count /\ Early(count + n) \ Early(count) = {}
    BY <1>1, <1>2, <1>3, EarlyFacts
  <2>3. QED
    BY <1>4, <2>1, <2>2
<1>9. QED
  BY <1>1, <1>6, <1>7, <1>8 DEF PunisherInv, LinkStep, Fixed, Same

LEMMA PunishingDelivery ==
  ASSUME SenderInv, PunisherInv, program = "punisher", UNCHANGED program, Punishing!Delivery
  PROVE  PunisherInv' /\ LinkStep
<1>0. PICK d : d = Head(collector).dlv
  OBVIOUS
<1>1. /\ Dispatch("PN_DELIVERY") /\ Fixed /\ UNCHANGED <<count, credit>>
      /\ Punishing!Ignored(d) \/ Punishing!Received(d) \/ Punishing!Outcome(d) \/ Punishing!Unknown(d)
      /\ conn' \in {conn, "closing"}
      /\ conn' # conn => limit = count /\ acked' = count
  BY <1>0 DEF Punishing!Delivery, Punishing!Ignored, Punishing!Complete, Punishing!Dispatch, Dispatch, Fixed, Same
<1>2. d \in Deliveries
  BY <1>0, <1>1, DispatchQueue, EventByType DEF SenderInv, SenderTypes
<1>3. Hears(d)
  BY <1>0, <1>1 DEF Hears, Punishing!Ignored, Punishing!Received, Punishing!Outcome, Punishing!Unknown,
                    Punishing!Outcomes, Outcomes
<1>4. UNCHANGED <<limit, presettle, informs>>
  BY <1>1 DEF Fixed, Same
<1>5. count \in Nat /\ d \in 1..count /\ d \notin Early(count) /\ Cardinality(Heard) \in Nat
  BY <1>2, <1>3, HeardFacts, HeardSent DEF SenderInv, SenderTypes
<1>6. ~presettle
  BY <1>5 DEF Early
<1>7. acked' \in Int /\ (~informs => acked' = Cardinality(Heard'))
  <2>1. CASE Punishing!Ignored(d) \/ Punishing!Received(d)
    <3>1. Heard' = Heard /\ UNCHANGED acked
      BY <1>2, <1>3, <2>1, HeardFacts DEF Punishing!Ignored, Punishing!Received
    <3>2. QED
      BY <3>1 DEF PunisherInv
  <2>2. CASE Punishing!Outcome(d) \/ Punishing!Unknown(d)
    <3>1. (~informs => Heard' = Heard \union {d} /\ d \notin Heard) /\ acked' = acked + 1
      BY <1>2, <1>3, <2>2, HeardFacts DEF Punishing!Outcome, Punishing!Unknown, Punishing!Outcomes, Outcomes
    <3>2. ~informs => Cardinality(Heard') = Cardinality(Heard) + 1
      BY <3>1, OneMoreHeard
    <3>3. QED
      BY <1>5, <3>1, <3>2 DEF PunisherInv
  <2>3. QED
    BY <1>1, <2>1, <2>2
<1>8. SenderInv'
  BY <1>2, <1>3, SenderHears
<1>9. Heard \subseteq Heard' /\ Heard' \in SUBSET (1..count) /\ Heard = settled \union Left /\ Heard' = settled' \union Left'
  <2>1. Heard \subseteq 1..count /\ Early(count)' = Early(count) /\ Early(count) = {}
    BY <1>2, <1>3, <1>6, HeardSent, HeardFacts DEF Early
  <2>2. Heard \subseteq Heard' /\ Heard' \subseteq Heard \union {d}
    BY <1>2, <1>3, HeardFacts DEF Hears
  <2>3. Heard = settled \union Left /\ Heard' = settled' \union Left'
    BY <2>1 DEF Heard
  <2>4. QED
    BY <1>5, <2>1, <2>2, <2>3
<1>10. ASSUME conn' = "closing", ~informs, limit > 0 PROVE count = limit /\ settled' \union Left' = 1..limit
  <2>1. CASE conn' # conn
    BY <1>1, <1>5, <1>7, <1>9, <1>10, <2>1, AllWhenAsMany
  <2>2. CASE conn' = conn
    <3>1. count = limit /\ Heard = 1..limit
      BY <1>9, <1>10, <2>2 DEF PunisherInv
    <3>2. QED
      BY <1>9, <3>1
  <2>3. QED
    BY <2>1, <2>2
<1>11. PunisherInv'
  BY <1>1, <1>4, <1>7, <1>10 DEF PunisherInv
<1>12. QED
  BY <1>2, <1>3, <1>11 DEF LinkStep

\* The steps of punisher.c other than its two handlers leave its counter alone.
LEMMA PunishingRest ==
  ASSUME SenderInv, program = "punisher", Punishing!Next, UNCHANGED program
  PROVE  \/ Punishing!FlowEvent
         \/ Punishing!Delivery
         \/ Punishing!Main
         \/ UNCHANGED acked /\ Opens
         \/ UNCHANGED <<acked, conn>> /\ Steady
         \/ UNCHANGED acked /\ Steady /\ conn' = "closed"
         \/ UNCHANGED <<acked, conn>> /\ Writes
         \/ UNCHANGED <<acked, conn>> /\ \E n \in 0..MaxGranted : Grants(n)
         \/ UNCHANGED <<acked, conn>> /\ \E d \in Deliveries : Reports(d)
<1>0. 0 \in 0..MaxGranted /\ 1..MaxGranted \subseteq 0..MaxGranted
  BY SendingLinkAssumption
<1>1. CASE Punishing!ConnectionInit
  BY <1>1 DEF Punishing!ConnectionInit, Punishing!Dispatch, Punishing!linkVars, Opens, Dispatch, Fixed, Same
<1>2. CASE Punishing!Write
  BY <1>2, Zenon DEF Punishing!Write, Punishing!LinkWrite, Writes, LinkWrite, Punishing!Put, Put,
              Punishing!LinkFlowEvent, LinkFlowEvent, Punishing!Event, Event
<1>3. ASSUME NEW n \in 0..MaxGranted, Punishing!PeerFlow(n) PROVE Grants(n) /\ UNCHANGED <<acked, conn>>
  BY <1>3 DEF Punishing!PeerFlow, Punishing!LinkFlow, Punishing!Reads, Punishing!Connected, Grants, LinkFlow, Reads,
              Connected, Punishing!Put, Put, Punishing!LinkFlowEvent, LinkFlowEvent, Punishing!Event, Event
<1>4. ASSUME NEW d \in Deliveries, NEW state \in {"received"} \union Final, Punishing!PeerDisposition(d, state),
             program = "punisher"
      PROVE  Reports(d) /\ UNCHANGED <<acked, conn>>
  <2>1. LinkDisposition(d, state) /\ UNCHANGED <<acked, conn>>
    BY <1>4 DEF Punishing!PeerDisposition, Punishing!LinkDisposition, Punishing!Reads, Punishing!Connected,
                LinkDisposition, Reads, Connected, Punishing!Put, Put, Punishing!DeliveryEvent, DeliveryEvent,
                Punishing!Event, Event, Punishing!Interim, Interim
  <2>2. QED
    BY <1>4, <2>1 DEF Reports
<1>5. CASE Punishing!PeerGrants \/ Punishing!PeerFlow(0)
  <2>1. PICK n \in 0..MaxGranted : Punishing!PeerFlow(n)
    BY <1>0, <1>5 DEF Punishing!PeerGrants
  <2>2. QED
    BY <1>3, <2>1
<1>6. CASE \/ Punishing!PeerSettles \/ Punishing!PeerForgets
           \/ \E d \in Punishing!Deliveries : Punishing!PeerDisposition(d, "received")
  <2>1. PICK d \in Deliveries, state \in {"received"} \union Final : Punishing!PeerDisposition(d, state)
    BY <1>6 DEF Punishing!PeerSettles, Punishing!PeerForgets, Punishing!Outcomes, Outcomes, Final,
                Punishing!Deliveries, Deliveries
  <2>2. QED
    BY <1>4, <2>1
<1>7. CASE Punishing!PeerLeaves
  <2>1. CASE Punishing!PeerCloses
    BY <1>7, <2>1 DEF Punishing!PeerLeaves, Punishing!PeerCloses, Punishing!Connected, Punishing!linkVars, Steady, Same, SenderInv, Opening
  <2>2. CASE Punishing!PeerDetaches
    BY <1>7, <2>2 DEF Punishing!PeerLeaves, Punishing!PeerDetaches, Punishing!Connected, Punishing!linkVars, Steady, Same
  <2>3. QED
    BY <1>7, <2>1, <2>2 DEF Punishing!PeerLeaves
<1>8. CASE Punishing!Exited
  BY <1>8 DEF Punishing!Exited, Punishing!vars, Punishing!loopVars, Punishing!linkVars, Steady, Same
<1>9. QED
  BY <1>1, <1>2, <1>5, <1>6, <1>7, <1>8 DEF Punishing!Next, Punishing!Client, Punishing!PeerInforms

LEMMA PunishingStep ==
  ASSUME SenderInv, PunisherInv, program = "punisher", UNCHANGED program, Punishing!Next
  PROVE  PunisherInv' /\ LinkStep
<1>1. CASE Punishing!Main
  <2>1. Steady /\ UNCHANGED acked /\ (conn' = "closing" => conn = "closing" \/ (presettle /\ count = limit))
    BY <1>1 DEF Punishing!Main, Punishing!Quiesce, Punishing!linkVars, Steady, Same, SenderInv, Opening
  <2>2. UNCHANGED <<limit, presettle, informs, count, settled>>
    BY <2>1 DEF Steady, Same
  <2>3. presettle => settled \union Left = 1..count
    <3>1. presettle => Early(count) = 1..count
      BY DEF Early
    <3>2. QED
      BY <3>1, HeardSent
  <2>4. Heard' = Heard /\ Left' = Left
    BY <2>1, QuietHeard
  <2>5. QED
    BY <2>1, <2>2, <2>3, <2>4 DEF PunisherInv, LinkStep
<1>2. CASE /\ UNCHANGED acked /\ (conn' = conn \/ conn' \in {"open", "closed"})
           /\ Opens \/ Steady \/ Writes \/ (\E n \in 0..MaxGranted : Grants(n)) \/ \E d \in Deliveries : Reports(d)
  <2>1. UNCHANGED <<limit, presettle, informs, count, settled>>
    BY <1>2, QuietHeard
  <2>2. Heard' = Heard /\ Left' = Left
    BY <1>2, QuietHeard
  <2>3. QED
    BY <1>2, <2>1, <2>2 DEF PunisherInv, LinkStep
<1>3. Opens => conn' = "open"
  BY DEF Opens
<1>4. QED
  BY <1>1, <1>2, <1>3, PunishingRest, PunishingFlow, PunishingDelivery

-----------------------------------------------------------------------------
(***************************************************************************)
(* chunked-sender.c.                                                       *)
(***************************************************************************)

ChunkedEvents ==
  [type : {"PN_CONNECTION_INIT"}, dlv : {0}] \union [type : {"PN_LINK_FLOW"}, dlv : Chunked!Links]
    \union [type : {"PN_DELIVERY"}, dlv : Chunked!Deliveries]

ChunkedTypes ==
  /\ collector \in Seq(ChunkedEvents)
  /\ limit \in Nat /\ limit > 0 /\ limit \in Limits
  /\ count \in Nat /\ count <= limit
  /\ current \in [Chunked!Links -> Nat]
  /\ owner \in [Chunked!Deliveries -> 0..LinkCount]
  /\ offset \in [Chunked!Deliveries -> Nat] /\ unwritten \in [Chunked!Deliveries -> Nat]
  /\ decided \subseteq Chunked!Deliveries /\ settled \subseteq decided
  /\ presettle = FALSE /\ acked \in Int

\* Only messages that are begun have chunks, a link, or an outcome.
Begun ==
  /\ \A l \in Chunked!Links : current[l] <= count
  /\ \A d \in Chunked!Deliveries : /\ offset[d] > 0 => d <= count
                                   /\ unwritten[d] > 0 => owner[d] \in Chunked!Links
                                   /\ d \in decided => d <= count
                                   /\ d <= count => owner[d] \in Chunked!Links

\* The outcome of a delivery is queued once, until it is settled.
DecidedOnce ==
  \A d \in Chunked!Deliveries :
    /\ Once(DeliveryEvent(d), collector)
    /\ Queued(DeliveryEvent(d), collector) => d \in decided /\ d \notin settled

ChunkedInv ==
  /\ ChunkedTypes /\ Begun /\ DecidedOnce
  /\ acked = Cardinality(settled)
  /\ stop /\ armed => count = limit /\ settled = 1..limit

\* The events of chunked-sender.c.
LEMMA ChunkedEventFacts ==
  /\ ConnectionInitEvent \in ChunkedEvents
  /\ \A l \in Chunked!Links : Chunked!FlowOn(l) \in ChunkedEvents
  /\ \A d \in Chunked!Deliveries : DeliveryEvent(d) \in ChunkedEvents
  /\ \A d \in Chunked!Deliveries : \A l : DeliveryEvent(d) # Chunked!FlowOn(l)
  /\ \A d \in Chunked!Deliveries : DeliveryEvent(d) # ConnectionInitEvent
  /\ \A d, e \in Chunked!Deliveries : DeliveryEvent(d) = DeliveryEvent(e) => d = e
  /\ \A e \in ChunkedEvents : /\ e.type = "PN_LINK_FLOW" => e.dlv \in Chunked!Links
                              /\ e.type = "PN_DELIVERY" => e.dlv \in Chunked!Deliveries /\ e = DeliveryEvent(e.dlv)
BY DEF ChunkedEvents, ConnectionInitEvent, DeliveryEvent, Event, Chunked!FlowOn, Chunked!Event

LEMMA ChunkedInit ==
  ASSUME Chunked!Init, NoSender PROVE ChunkedInv
<1>1. collector = <<ConnectionInitEvent>> /\ Len(collector) = 1 /\ collector[1] = ConnectionInitEvent
  BY DEF Chunked!Init, Chunked!LoopInit, Chunked!ConnectionInitEvent, ConnectionInitEvent, Chunked!Event, Event
<1>2. /\ limit \in Limits /\ limit > 0 /\ count = 0 /\ acked = 0 /\ decided = {} /\ settled = {}
      /\ current = [l \in Chunked!Links |-> 0] /\ owner = [d \in Chunked!Deliveries |-> 0]
      /\ offset = [d \in Chunked!Deliveries |-> 0] /\ unwritten = [d \in Chunked!Deliveries |-> 0]
  BY DEF Chunked!Init
<1>3. ~stop
  BY DEF Chunked!Init, Chunked!LoopInit
<1>4. ChunkedTypes
  <2>1. presettle = FALSE
    BY DEF NoSender
  <2>2. QED
    BY <1>1, <1>2, <2>1, ChunkedEventFacts, SendingLinkAssumption, ReactorClientsAssumption DEF ChunkedTypes
<1>5. Begun
  BY <1>2, ReactorClientsAssumption DEF Begun, Chunked!Links, Chunked!Deliveries
<1>6. DecidedOnce
  BY <1>1, ChunkedEventFacts DEF DecidedOnce, Once, Queued
<1>7. QED
  BY <1>2, <1>3, <1>4, <1>5, <1>6, FS_EmptySet DEF ChunkedInv

\* Deliveries are numbered from 1, links too.
LEMMA ChunkedNumbers ==
  /\ \A d \in Chunked!Deliveries : d \in Nat /\ d > 0
  /\ \A l \in Chunked!Links : l \in 0..LinkCount /\ l \in Nat /\ l > 0
BY ReactorClientsAssumption DEF Chunked!Deliveries, Chunked!Links

\* A flow event: at most one delivery is begun, and the chunk is of that one
\* or of the link's current one.
LEMMA ChunkedFlow ==
  ASSUME ChunkedInv, Chunked!FlowEvent, UNCHANGED <<program, presettle>>
  PROVE  /\ ChunkedInv'
         /\ UNCHANGED <<limit, settled, acked>> /\ (count' = count \/ (count' = count + 1 /\ count' <= limit))
<1>0. PICK l, d : l = Head(collector).dlv /\ d = IF Chunked!Begins(l) THEN count + 1 ELSE current[l]
  OBVIOUS
<1>1. /\ Dispatch("PN_LINK_FLOW")
      /\ UNCHANGED <<turn, conn, link, stop, armed, limit, acked, decided, settled, flows>>
      /\ count' = IF Chunked!Begins(l) THEN count + 1 ELSE count
      /\ owner' = IF Chunked!Begins(l) THEN [owner EXCEPT ![d] = l] ELSE owner
      /\ \/ d # 0 /\ Chunked!SendChunk(l, d)
         \/ current' = [current EXCEPT ![l] = d] /\ UNCHANGED <<offset, unwritten>>
  BY <1>0 DEF Chunked!FlowEvent, Chunked!Dispatch, Dispatch, Chunked!stateVars
<1>2. /\ collector \in Seq(ChunkedEvents) /\ count \in Nat /\ limit \in Nat /\ count <= limit
      /\ current \in [Chunked!Links -> Nat] /\ owner \in [Chunked!Deliveries -> 0..LinkCount]
      /\ offset \in [Chunked!Deliveries -> Nat] /\ unwritten \in [Chunked!Deliveries -> Nat]
      /\ \A k \in Chunked!Links : current[k] <= count
  BY DEF ChunkedInv, ChunkedTypes, Begun
<1>3. l \in Chunked!Links
  BY <1>0, <1>1, <1>2, DispatchQueue, ChunkedEventFacts
<1>4. /\ count' \in Nat /\ count <= count' /\ count' <= limit
      /\ count' = count \/ (count' = count + 1 /\ count' <= limit)
      /\ d \in Nat /\ d <= count'
  BY <1>0, <1>1, <1>2, <1>3 DEF Chunked!Begins, Chunked!WantsToSend, ChunkedInv, ChunkedTypes
<1>5. /\ offset' \in [Chunked!Deliveries -> Nat] /\ unwritten' \in [Chunked!Deliveries -> Nat]
      /\ \A e \in Chunked!Deliveries : e # d => offset'[e] = offset[e] /\ unwritten'[e] = unwritten[e]
  <2>1. CASE UNCHANGED <<offset, unwritten>>
    BY <1>2, <2>1
  <2>2. CASE offset' = [offset EXCEPT ![d] = @ + 1] /\ unwritten' = [unwritten EXCEPT ![d] = @ + 1]
    <3>1. \A e \in Chunked!Deliveries : offset[e] + 1 \in Nat /\ unwritten[e] + 1 \in Nat
      BY <1>2
    <3>2. offset' \in [Chunked!Deliveries -> Nat]
      BY <1>2, <2>2, <3>1
    <3>3. unwritten' \in [Chunked!Deliveries -> Nat]
      BY <1>2, <2>2, <3>1
    <3>4. \A e \in Chunked!Deliveries : e # d => offset'[e] = offset[e] /\ unwritten'[e] = unwritten[e]
      BY <1>2, <2>2
    <3>5. QED
      BY <3>2, <3>3, <3>4
  <2>3. QED
    BY <1>1, <2>1, <2>2 DEF Chunked!SendChunk
<1>6. current' \in [Chunked!Links -> Nat] /\ \A k \in Chunked!Links : current'[k] <= count'
  <2>1. PICK v : v \in {0, d} /\ current' = [current EXCEPT ![l] = v]
    BY <1>1 DEF Chunked!SendChunk
  <2>2. v \in Nat /\ v <= count'
    BY <1>4, <2>1
  <2>3. \A k \in Chunked!Links : current[k] \in Nat /\ current[k] <= count'
    BY <1>2, <1>4
  <2>4. QED
    BY <1>2, <2>1, <2>2, <2>3
<1>7. /\ owner' \in [Chunked!Deliveries -> 0..LinkCount]
      /\ \A e \in Chunked!Deliveries : owner[e] \in Chunked!Links => owner'[e] \in Chunked!Links
      /\ \A e \in Chunked!Deliveries : e <= count' => owner'[e] \in Chunked!Links
  <2>1. CASE Chunked!Begins(l)
    <3>1. d = count + 1 /\ count' = count + 1 /\ owner' = [owner EXCEPT ![d] = l]
      BY <1>0, <1>1, <2>1
    <3>2. l \in 0..LinkCount
      BY <1>3, ChunkedNumbers
    <3>3. \A e \in Chunked!Deliveries : owner'[e] = IF e = d THEN l ELSE owner[e]
      BY <1>2, <3>1
    <3>4. \A e \in Chunked!Deliveries : e <= count' => e = d \/ e <= count
      BY <1>2, <3>1, ChunkedNumbers
    <3>5. owner' \in [Chunked!Deliveries -> 0..LinkCount]
      BY <1>2, <3>1, <3>2
    <3>6. QED
      BY <1>3, <3>3, <3>4, <3>5 DEF ChunkedInv, Begun
  <2>2. CASE ~Chunked!Begins(l)
    BY <1>1, <1>2, <2>2 DEF ChunkedInv, Begun
  <2>3. QED
    BY <2>1, <2>2
<1>8. ChunkedTypes'
  <2>1. collector' \in Seq(ChunkedEvents)
    BY <1>1, <1>2, DispatchQueue
  <2>2. QED
    BY <1>1, <1>4, <1>5, <1>6, <1>7, <2>1 DEF ChunkedInv, ChunkedTypes, ChunkedEvents, Chunked!Links, Chunked!Deliveries
<1>9. Begun'
  <2>1. ASSUME NEW e \in Chunked!Deliveries
        PROVE  /\ offset'[e] > 0 => e <= count'
               /\ unwritten'[e] > 0 => owner'[e] \in Chunked!Links
               /\ e \in decided => e <= count'
    <3>1. CASE e = d
      <4>1. e <= count'
        BY <1>4, <3>1
      <4>2. QED
        BY <1>7, <4>1
    <3>2. CASE e # d
      <4>1. offset'[e] = offset[e] /\ unwritten'[e] = unwritten[e]
        BY <1>5, <3>2
      <4>2. e <= count => e <= count'
        BY <1>2, <1>4, ChunkedNumbers
      <4>3. QED
        BY <1>7, <4>1, <4>2 DEF ChunkedInv, Begun
    <3>3. CASE e \in decided
      <4>1. e <= count
        BY <3>3 DEF ChunkedInv, Begun
      <4>2. QED
        BY <1>2, <1>4, <3>1, <3>2, <4>1, ChunkedNumbers
    <3>4. QED
      BY <3>1, <3>2, <3>3
  <2>2. QED
    BY <1>1, <1>6, <1>7, <2>1 DEF Begun, Chunked!Links, Chunked!Deliveries
<1>10. DecidedOnce'
  BY <1>1, <1>2, DispatchQueue DEF ChunkedInv, DecidedOnce
<1>11. stop' /\ armed' => count' = limit' /\ settled' = 1..limit'
  <2>1. stop /\ armed => count = limit /\ settled = 1..limit
    BY DEF ChunkedInv
  <2>2. count = limit => count' = count
    BY <1>2, <1>4
  <2>3. QED
    BY <1>1, <2>1, <2>2
<1>12. ChunkedInv'
  BY <1>1, <1>8, <1>9, <1>10, <1>11 DEF ChunkedInv
<1>13. QED
  BY <1>1, <1>4, <1>12

\* Only messages that were begun are decided and settled.
LEMMA ChunkedSettled ==
  ASSUME ChunkedInv
  PROVE  /\ \A d \in decided : d \in 1..count
         /\ settled \in SUBSET (1..count) /\ settled \in SUBSET (1..limit)
         /\ IsFiniteSet(settled) /\ (Cardinality(settled) = limit <=> settled = 1..limit)
<1>1. /\ count \in Nat /\ limit \in Nat /\ count <= limit
      /\ decided \subseteq Chunked!Deliveries /\ settled \subseteq decided
  BY DEF ChunkedInv, ChunkedTypes
<1>2. \A d \in decided : d \in Nat /\ d > 0 /\ d <= count
  BY <1>1, ChunkedNumbers DEF ChunkedInv, Begun
<1>3. settled \in SUBSET (1..count) /\ settled \in SUBSET (1..limit)
  BY <1>1, <1>2
<1>4. QED
  BY <1>1, <1>2, <1>3, AllWhenAsMany

\* An outcome: new, and of a message that was begun.
LEMMA ChunkedDelivery ==
  ASSUME ChunkedInv, Chunked!Delivery, UNCHANGED <<program, presettle>>
  PROVE  /\ ChunkedInv'
         /\ UNCHANGED <<limit, count>>
         /\ \E d \in 1..count : d \notin settled /\ settled' = settled \union {d}
<1>0. PICK d : d = Head(collector).dlv
  OBVIOUS
<1>1. /\ Dispatch("PN_DELIVERY")
      /\ UNCHANGED <<turn, conn, link, armed, limit, count, owner, offset, unwritten, decided, flows>>
      /\ acked' = acked + 1 /\ settled' = settled \union {d}
      /\ current' = [current EXCEPT ![owner[d]] = 0] \/ UNCHANGED current
      /\ stop' = (stop \/ (limit > 0 /\ acked' = limit))
  BY <1>0 DEF Chunked!Delivery, Chunked!Dispatch, Dispatch, Chunked!Outcome, Chunked!Complete
<1>2. collector \in Seq(ChunkedEvents) /\ current \in [Chunked!Links -> Nat] /\ limit \in Nat /\ count \in Nat
      /\ acked \in Int /\ acked = Cardinality(settled) /\ count <= limit
  BY DEF ChunkedInv, ChunkedTypes
<1>3. d \in Chunked!Deliveries /\ Head(collector) = DeliveryEvent(d) /\ Queued(DeliveryEvent(d), collector)
  BY <1>0, <1>1, <1>2, DispatchQueue, ChunkedEventFacts
<1>4. d \in decided /\ d \notin settled /\ d \in 1..count
  BY <1>3, ChunkedSettled DEF ChunkedInv, DecidedOnce
<1>5. ChunkedTypes'
  <2>1. collector' \in Seq(ChunkedEvents)
    BY <1>1, <1>2, DispatchQueue
  <2>2. current' \in [Chunked!Links -> Nat]
    BY <1>1, <1>2
  <2>3. settled' \subseteq decided' /\ acked' \in Int
    BY <1>1, <1>2, <1>4 DEF ChunkedInv, ChunkedTypes
  <2>4. QED
    BY <1>1, <2>1, <2>2, <2>3 DEF ChunkedInv, ChunkedTypes
<1>6. Begun'
  <2>1. \A k \in Chunked!Links : current'[k] <= count
    BY <1>1, <1>2 DEF ChunkedInv, Begun
  <2>2. QED
    BY <1>1, <2>1 DEF ChunkedInv, Begun
<1>7. DecidedOnce'
  <2> SUFFICES ASSUME NEW e \in Chunked!Deliveries
               PROVE  /\ Once(DeliveryEvent(e), collector')
                      /\ Queued(DeliveryEvent(e), collector') => e \in decided' /\ e \notin settled'
    BY DEF DecidedOnce
  <2>1. Once(DeliveryEvent(e), collector)
    BY DEF ChunkedInv, DecidedOnce
  <2>2. CASE e = d
    BY <1>1, <1>2, <1>3, <2>1, <2>2, DispatchQueue
  <2>3. CASE e # d
    BY <1>1, <1>2, <2>1, <2>3, DispatchQueue DEF ChunkedInv, DecidedOnce
  <2>4. QED
    BY <2>2, <2>3
<1>8. acked' = Cardinality(settled')
  <2>1. IsFiniteSet(settled)
    BY ChunkedSettled
  <2>2. QED
    BY <1>1, <1>2, <1>4, <2>1, FS_AddElement
<1>9. stop' /\ armed' => count' = limit' /\ settled' = 1..limit'
  <2>1. settled' \in SUBSET (1..limit) /\ settled' \in SUBSET (1..count)
    <3>1. settled \in SUBSET (1..limit) /\ settled \in SUBSET (1..count) /\ d \in 1..limit
      BY <1>2, <1>4, ChunkedSettled
    <3>2. QED
      BY <1>1, <1>4, <3>1
  <2>2. ASSUME limit > 0, acked' = limit PROVE count = limit /\ settled' = 1..limit
    <3>1. settled' = 1..limit
      BY <1>2, <1>8, <2>1, <2>2, AllWhenAsMany
    <3>2. limit \in 1..count
      BY <1>2, <2>1, <2>2, <3>1
    <3>3. QED
      BY <1>2, <3>1, <3>2
  <2>3. stop /\ armed => count = limit /\ settled' = 1..limit
    BY <1>1, <2>1 DEF ChunkedInv
  <2>4. QED
    BY <1>1, <2>2, <2>3
<1>10. ChunkedInv'
  BY <1>5, <1>6, <1>7, <1>8, <1>9 DEF ChunkedInv
<1>11. QED
  BY <1>1, <1>4, <1>10

\* The transport has written a delivery, a flow frame is read.
LEMMA ChunkedLinkEvent ==
  ASSUME ChunkedInv, NEW l \in Chunked!Links, collector' = Put(collector, Chunked!FlowOn(l)),
         \/ UNCHANGED unwritten
         \/ \E d \in Chunked!Deliveries : unwritten' = [unwritten EXCEPT ![d] = 0],
         UNCHANGED <<stop, armed, limit, acked, decided, settled, count, current, owner, offset, program, presettle>>
  PROVE  ChunkedInv'
<1>1. collector \in Seq(ChunkedEvents) /\ Chunked!FlowOn(l) \in ChunkedEvents
      /\ unwritten \in [Chunked!Deliveries -> Nat]
  BY ChunkedEventFacts DEF ChunkedInv, ChunkedTypes
<1>2. collector' \in Seq(ChunkedEvents)
  BY <1>1, PutType
<1>3. \A d \in Chunked!Deliveries : /\ Once(DeliveryEvent(d), collector) => Once(DeliveryEvent(d), collector')
                                    /\ Queued(DeliveryEvent(d), collector') => Queued(DeliveryEvent(d), collector)
  BY <1>1, PutOnce, PutQueued, ChunkedEventFacts
<1>4. unwritten' \in [Chunked!Deliveries -> Nat] /\ \A d \in Chunked!Deliveries : unwritten'[d] > 0 => unwritten[d] > 0
  BY <1>1
<1>5. ChunkedTypes'
  BY <1>2, <1>4 DEF ChunkedInv, ChunkedTypes
<1>6. Begun' /\ DecidedOnce'
  BY <1>3, <1>4 DEF ChunkedInv, Begun, DecidedOnce
<1>7. QED
  BY <1>5, <1>6 DEF ChunkedInv

\* An outcome is read.
LEMMA ChunkedDisposition ==
  ASSUME ChunkedInv, NEW d \in Chunked!Deliveries, offset[d] > unwritten[d], d \notin decided,
         collector' = Put(collector, DeliveryEvent(d)), decided' = decided \union {d},
         UNCHANGED <<stop, armed, limit, acked, settled, count, current, owner, offset, unwritten, program, presettle>>
  PROVE  ChunkedInv'
<1>1. /\ collector \in Seq(ChunkedEvents) /\ DeliveryEvent(d) \in ChunkedEvents
      /\ d \notin settled /\ ~Queued(DeliveryEvent(d), collector)
  BY ChunkedEventFacts DEF ChunkedInv, ChunkedTypes, DecidedOnce
<1>2. collector' \in Seq(ChunkedEvents)
  BY <1>1, PutType
<1>3. \A e \in Chunked!Deliveries : /\ Once(DeliveryEvent(e), collector')
                                    /\ Queued(DeliveryEvent(e), collector') => Queued(DeliveryEvent(e), collector) \/ e = d
  BY <1>1, PutOnce, PutQueued, ChunkedEventFacts DEF ChunkedInv, DecidedOnce
<1>4. d <= count
  <2>1. offset[d] \in Nat /\ unwritten[d] \in Nat
    BY DEF ChunkedInv, ChunkedTypes
  <2>2. offset[d] > 0
    BY <2>1
  <2>3. QED
    BY <2>2 DEF ChunkedInv, Begun
<1>5. ChunkedTypes'
  BY <1>2 DEF ChunkedInv, ChunkedTypes
<1>6. Begun'
  BY <1>4 DEF ChunkedInv, Begun
<1>7. DecidedOnce'
  BY <1>1, <1>3 DEF ChunkedInv, DecidedOnce
<1>8. QED
  BY <1>5, <1>6, <1>7 DEF ChunkedInv

LEMMA ChunkedStep ==
  ASSUME ChunkedInv, Chunked!Next, UNCHANGED <<program, presettle>>
  PROVE  /\ ChunkedInv'
         /\ UNCHANGED limit
         /\ \/ UNCHANGED <<count, settled>>
            \/ UNCHANGED settled /\ count' = count + 1 /\ count' <= limit
            \/ UNCHANGED count /\ \E d \in 1..count : d \notin settled /\ settled' = settled \union {d}
<1> DEFINE Goal == /\ ChunkedInv'
                   /\ UNCHANGED limit
                   /\ \/ UNCHANGED <<count, settled>>
                      \/ UNCHANGED settled /\ count' = count + 1 /\ count' <= limit
                      \/ UNCHANGED count /\ \E d \in 1..count : d \notin settled /\ settled' = settled \union {d}
<1> USE DEF Chunked!sendVars, Chunked!stateVars
<1>1. CASE Chunked!FlowEvent
  BY <1>1, ChunkedFlow
<1>2. CASE Chunked!Delivery
  BY <1>2, ChunkedDelivery
<1>3. ASSUME UNCHANGED <<collector, limit, acked, decided, settled, count, current, owner, offset, unwritten>>,
             stop' /\ armed' => stop /\ armed
      PROVE  Goal
  BY <1>3 DEF ChunkedInv, ChunkedTypes, Begun, DecidedOnce, Once, Queued
<1>4. CASE Chunked!ConnectionInit
  <2>1. /\ Dispatch("PN_CONNECTION_INIT") /\ collector \in Seq(ChunkedEvents)
        /\ UNCHANGED <<stop, armed, limit, acked, decided, settled, count, current, owner, offset, unwritten>>
    BY <1>4 DEF Chunked!ConnectionInit, Chunked!Dispatch, Dispatch, ChunkedInv, ChunkedTypes
  <2>2. /\ collector' \in Seq(ChunkedEvents)
        /\ \A f : /\ Queued(f, collector') => Queued(f, collector)
                  /\ Once(f, collector) => Once(f, collector')
    BY <2>1, DispatchQueue
  <2>3. QED
    BY <2>1, <2>2 DEF ChunkedInv, ChunkedTypes, Begun, DecidedOnce
<1>5. CASE Chunked!Main
  BY <1>3, <1>5 DEF Chunked!Main, Chunked!Quiesce, Chunked!MainLoop
<1>6. CASE Chunked!SignalHandler
  <2>1. armed' = FALSE
    BY <1>6 DEF Chunked!SignalHandler, Chunked!Signal
  <2>2. QED
    BY <1>3, <1>6, <2>1 DEF Chunked!SignalHandler, Chunked!Signal
<1>7. CASE Chunked!Write
  <2>1. PICK d \in Chunked!Deliveries : Chunked!WriteOf(d)
    BY <1>7 DEF Chunked!Write
  <2>2. owner[d] \in Chunked!Links
    BY <2>1 DEF Chunked!WriteOf, ChunkedInv, Begun
  <2>3. /\ collector' = Put(collector, Chunked!FlowOn(owner[d]))
        /\ unwritten' = [unwritten EXCEPT ![d] = 0]
        /\ UNCHANGED <<stop, armed, limit, acked, decided, settled, count, current, owner, offset>>
    BY <2>1 DEF Chunked!WriteOf, Chunked!Put, Put
  <2>4. ChunkedInv'
    BY <2>2, <2>3, ChunkedLinkEvent
  <2>5. QED
    BY <2>3, <2>4
<1>8. CASE Chunked!PeerGrants \/ Chunked!PeerEchoes
  <2>1. PICK l \in Chunked!Links, n \in {0, 1} : Chunked!PeerFlow(l, n)
    BY <1>8 DEF Chunked!PeerGrants, Chunked!PeerEchoes
  <2>2. /\ collector' = Put(collector, Chunked!FlowOn(l))
        /\ UNCHANGED <<stop, armed, limit, acked, decided, settled, count, current, owner, offset, unwritten>>
    BY <2>1 DEF Chunked!PeerFlow, Chunked!Reads, Chunked!Put, Put
  <2>3. ChunkedInv'
    BY <2>2, ChunkedLinkEvent
  <2>4. QED
    BY <2>2, <2>3
<1>9. CASE Chunked!PeerSettles
  <2>1. PICK d \in Chunked!Deliveries : Chunked!PeerDisposition(d)
    BY <1>9 DEF Chunked!PeerSettles
  <2>2. /\ offset[d] > unwritten[d] /\ d \notin decided
        /\ collector' = Put(collector, DeliveryEvent(d)) /\ decided' = decided \union {d}
        /\ UNCHANGED <<stop, armed, limit, acked, settled, count, current, owner, offset, unwritten>>
    BY <2>1 DEF Chunked!PeerDisposition, Chunked!Reads, Chunked!Put, Put, Chunked!DeliveryEvent, DeliveryEvent,
                Chunked!Event, Event
  <2>3. ChunkedInv'
    BY <2>2, ChunkedDisposition
  <2>4. QED
    BY <2>2, <2>3
<1>10. CASE Chunked!PeerLeaves
  BY <1>3, <1>10 DEF Chunked!PeerLeaves, Chunked!PeerCloses, Chunked!PeerDetaches
<1>11. CASE Chunked!Exited
  BY <1>3, <1>11 DEF Chunked!Exited, Chunked!vars, Chunked!loopVars
<1>12. QED
  BY <1>1, <1>2, <1>4, <1>5, <1>6, <1>7, <1>8, <1>9, <1>10, <1>11 DEF Chunked!Next, Chunked!Client

-----------------------------------------------------------------------------
(***************************************************************************)
(* chunked-sender.c is not idle: every chunk goes out at the event of a    *)
(* flow frame, or of a frame that was written, so that the events waiting  *)
(* and the chunks to be written are at most as many as the flow frames,    *)
(* and few frames never fill the session.  A link that is the only one to  *)
(* send may fill it, but then it is its own chunks that will be written.   *)
(***************************************************************************)

\* The credit of a link that its current delivery does not use.
Spare == [l \in Chunked!Links |-> IF current[l] = 0 THEN credit[l] ELSE credit[l] - 1]

\* The peer gives one credit with a flow frame, and each message takes one.
Paid ==
  /\ flows \in Nat /\ flows <= MaxFlows
  /\ credit \in [Chunked!Links -> Int] /\ Spare \in [Chunked!Links -> Nat]
  /\ SumFunction(Spare) + count <= flows

Owned ==
  /\ \A l \in Chunked!Links : current[l] # 0 => owner[current[l]] = l
  /\ \A d \in Chunked!Deliveries : unwritten[d] > 0 => d <= count

FewChunks ==
  SumFunction(unwritten) + Cardinality(EventsOf("PN_LINK_FLOW", collector)) <= flows

\* A link with a message to send or to finish has an event waiting, or will
\* have one when the transport has written what it sent: if there are few flow
\* frames, or if the link is the only one to send.
Needs(l)     == current[l] # 0 \/ (credit[l] > 0 /\ count < limit)
HasChunks(l) == \E d \in Chunked!Deliveries : owner[d] = l /\ unwritten[d] > 0
Alone(l)     == \A d \in Chunked!Deliveries : d <= count => owner[d] = l
Safe(l)      == flows <= HighWater \/ Alone(l)
EventDue     ==
  \A l \in Chunked!Links : Safe(l) /\ Needs(l) => Queued(Chunked!FlowOn(l), collector) \/ HasChunks(l)

ChunkedFed == Paid /\ Owned /\ FewChunks /\ EventDue

LEMMA ChunkedFinite == IsFiniteSet(Chunked!Links) /\ IsFiniteSet(Chunked!Deliveries)
<1>1. LinkCount \in Nat /\ MaxFlows \in Nat
  BY ReactorClientsAssumption
<1>2. QED
  BY <1>1, FS_Interval DEF Chunked!Links, Chunked!Deliveries

LEMMA FedInit ==
  ASSUME Chunked!Init
  PROVE  ChunkedFed
<1>1. /\ flows = 0 /\ count = 0 /\ collector = <<ConnectionInitEvent>>
      /\ credit = [l \in Chunked!Links |-> 0] /\ current = [l \in Chunked!Links |-> 0]
      /\ unwritten = [d \in Chunked!Deliveries |-> 0]
  BY DEF Chunked!Init, Chunked!LoopInit, Chunked!ConnectionInitEvent, ConnectionInitEvent, Chunked!Event, Event
<1>2. Spare = [l \in Chunked!Links |-> 0]
  BY <1>1 DEF Spare
<1>3. PICK zeros : zeros = Spare
  OBVIOUS
<1>4. zeros \in [Chunked!Links -> Nat] /\ \A l \in Chunked!Links : zeros[l] = 0
  BY <1>2, <1>3
<1>5. SumFunction(zeros) = 0
  BY <1>4, ChunkedFinite, SumZero
<1>6. Paid
  <2>1. MaxFlows \in Nat
    BY ReactorClientsAssumption
  <2>2. credit \in [Chunked!Links -> Int]
    BY <1>1
  <2>3. QED
    BY <1>1, <1>3, <1>4, <1>5, <2>1, <2>2 DEF Paid
<1>7. unwritten \in [Chunked!Deliveries -> Nat] /\ \A d \in Chunked!Deliveries : unwritten[d] = 0
  BY <1>1
<1>8. SumFunction(unwritten) = 0
  BY <1>7, ChunkedFinite, SumZero
<1>9. Owned
  BY <1>1, <1>7 DEF Owned
<1>10. EventsOf("PN_LINK_FLOW", collector) = {}
  BY <1>1 DEF EventsOf, ConnectionInitEvent, Event
<1>11. FewChunks
  BY <1>1, <1>8, <1>10, FS_EmptySet DEF FewChunks
<1>12. EventDue
  BY <1>1 DEF EventDue, Needs
<1>13. QED
  BY <1>6, <1>9, <1>11, <1>12 DEF ChunkedFed

\* Steps that leave the links as they are and handle no flow event.
LEMMA FedSame ==
  ASSUME ChunkedFed, UNCHANGED <<limit, count, credit, current, owner, unwritten, flows>>,
         Cardinality(EventsOf("PN_LINK_FLOW", collector')) <= Cardinality(EventsOf("PN_LINK_FLOW", collector)),
         ChunkedInv, ChunkedInv',
         \A l \in Chunked!Links :
           Queued(Chunked!FlowOn(l), collector) => Queued(Chunked!FlowOn(l), collector')
  PROVE  ChunkedFed'
<1>1. Spare' = Spare
  BY DEF Spare
<1>2. Paid' /\ Owned'
  BY <1>1 DEF ChunkedFed, Paid, Owned
<1>3. FewChunks'
  <2>1. SumFunction(unwritten) \in Nat
    BY ChunkedFinite, SumType DEF ChunkedInv, ChunkedTypes
  <2>2. /\ Cardinality(EventsOf("PN_LINK_FLOW", collector)) \in Nat
        /\ Cardinality(EventsOf("PN_LINK_FLOW", collector')) \in Nat
    BY EventsFinite DEF ChunkedInv, ChunkedTypes
  <2>3. flows \in Nat
    BY DEF ChunkedFed, Paid
  <2>4. SumFunction(unwritten') = SumFunction(unwritten)
    OBVIOUS
  <2>5. QED
    BY <2>1, <2>2, <2>3, <2>4 DEF ChunkedFed, FewChunks
<1>4. EventDue'
  BY DEF ChunkedFed, EventDue, Needs, HasChunks, Safe, Alone
<1>5. QED
  BY <1>2, <1>3, <1>4 DEF ChunkedFed

\* A frame is written: a chunk at least makes room for the link's event.
LEMMA FedWrite ==
  ASSUME ChunkedFed, ChunkedInv, NEW d \in Chunked!Deliveries, unwritten[d] > 0,
         unwritten' = [unwritten EXCEPT ![d] = 0],
         collector' = Put(collector, Chunked!FlowOn(owner[d])),
         UNCHANGED <<limit, count, credit, current, owner, flows>>
  PROVE  ChunkedFed'
<1>1. /\ collector \in Seq(ChunkedEvents) /\ unwritten \in [Chunked!Deliveries -> Nat]
      /\ owner[d] \in Chunked!Links
  BY DEF ChunkedInv, ChunkedTypes, Begun
<1>2. PICK e : e = Chunked!FlowOn(owner[d])
  OBVIOUS
<1>3. e \in ChunkedEvents /\ collector' = Put(collector, e)
  BY <1>1, <1>2, ChunkedEventFacts
<1>4. Spare' = Spare
  BY DEF Spare
<1>5. \A k \in Chunked!Deliveries : unwritten'[k] = IF k = d THEN 0 ELSE unwritten[k]
  BY <1>1
<1>6. Paid'
  BY <1>4 DEF ChunkedFed, Paid
<1>7. Owned'
  BY <1>1, <1>5 DEF ChunkedFed, Owned
<1>8. FewChunks'
  <2>1. SumFunction(unwritten') = SumFunction(unwritten) - unwritten[d] + 0
    <3>1. 0 \in Nat
      OBVIOUS
    <3>2. SumFunction([unwritten EXCEPT ![d] = 0]) = SumFunction(unwritten) - unwritten[d] + 0
      BY <1>1, <3>1, ChunkedFinite, SumExcept
    <3>3. QED
      BY <3>2
  <2>2. SumFunction(unwritten) \in Nat /\ unwritten[d] \in Nat
    BY <1>1, ChunkedFinite, SumType
  <2>3. PICK c, c1 : c = Cardinality(EventsOf("PN_LINK_FLOW", collector))
                     /\ c1 = Cardinality(EventsOf("PN_LINK_FLOW", collector'))
    OBVIOUS
  <2>4. c \in Nat /\ c1 \in Nat /\ c1 <= c + 1
    BY <1>1, <1>3, <2>3, EventsFinite, PutCount, PutType
  <2>5. flows \in Nat /\ SumFunction(unwritten) + c <= flows
    BY <2>3 DEF ChunkedFed, Paid, FewChunks
  <2>6. SumFunction(unwritten') + c1 <= flows
    BY <2>1, <2>2, <2>4, <2>5
  <2>7. QED
    BY <2>3, <2>6 DEF FewChunks
<1>9. EventDue'
  <2>1. \A f : Queued(f, collector') <=> Queued(f, collector) \/ f = e
    BY <1>1, <1>3, PutQueued
  <2>2. \A l \in Chunked!Links : HasChunks(l) => HasChunks(l)' \/ l = owner[d]
    BY <1>5 DEF HasChunks
  <2>3. \A l \in Chunked!Links : Needs(l)' => Needs(l)
    BY DEF Needs
  <2>4. \A l \in Chunked!Links : Safe(l)' => Safe(l)
    BY DEF Safe, Alone
  <2>5. QED
    BY <1>2, <2>1, <2>2, <2>3, <2>4 DEF ChunkedFed, EventDue
<1>10. QED
  BY <1>6, <1>7, <1>8, <1>9 DEF ChunkedFed

\* A flow frame brings at most one credit and one event.
LEMMA FedFrame ==
  ASSUME ChunkedFed, ChunkedInv, NEW l \in Chunked!Links, NEW n \in {0, 1}, flows < MaxFlows,
         flows' = flows + 1, credit' = [credit EXCEPT ![l] = @ + n],
         collector' = Put(collector, Chunked!FlowOn(l)),
         UNCHANGED <<limit, count, current, owner, unwritten>>
  PROVE  ChunkedFed'
<1>1. /\ collector \in Seq(ChunkedEvents) /\ unwritten \in [Chunked!Deliveries -> Nat]
      /\ credit \in [Chunked!Links -> Int] /\ Spare \in [Chunked!Links -> Nat]
      /\ flows \in Nat /\ MaxFlows \in Nat /\ count \in Nat
  BY ReactorClientsAssumption DEF ChunkedInv, ChunkedTypes, ChunkedFed, Paid
<1>2. PICK e : e = Chunked!FlowOn(l)
  OBVIOUS
<1>3. e \in ChunkedEvents /\ collector' = Put(collector, e)
  BY <1>2, ChunkedEventFacts
<1>4. credit' \in [Chunked!Links -> Int] /\ \A k \in Chunked!Links : k # l => credit'[k] = credit[k]
  BY <1>1
<1>5. credit'[l] = credit[l] + n /\ credit[l] \in Int
  BY <1>1
<1>6. PICK v : v = Spare[l] + n
  OBVIOUS
<1>7. v \in Nat
  BY <1>1, <1>6
<1>8. Spare' = [Spare EXCEPT ![l] = v]
  <2>1. \A k \in Chunked!Links : Spare[k] = IF current[k] = 0 THEN credit[k] ELSE credit[k] - 1
    BY DEF Spare
  <2>2. (IF current[l] = 0 THEN credit'[l] ELSE credit'[l] - 1) = v
    BY <1>5, <1>6, <2>1
  <2>3. Spare' = [k \in Chunked!Links |-> IF current[k] = 0 THEN credit'[k] ELSE credit'[k] - 1]
    BY DEF Spare, Chunked!Links
  <2>4. \A k \in Chunked!Links : Spare'[k] = [Spare EXCEPT ![l] = v][k]
    BY <1>1, <1>4, <2>1, <2>2, <2>3
  <2>5. QED
    BY <1>1, <2>3, <2>4
<1>9. Paid'
  <2>1. SumFunction(Spare') = SumFunction(Spare) - Spare[l] + v
    BY <1>1, <1>7, <1>8, ChunkedFinite, SumExcept
  <2>2. SumFunction(Spare) \in Nat /\ Spare[l] \in Nat
    BY <1>1, ChunkedFinite, SumType
  <2>3. SumFunction(Spare) + count <= flows
    BY DEF ChunkedFed, Paid
  <2>4. SumFunction(Spare') + count' <= flows'
    BY <1>1, <1>6, <2>1, <2>2, <2>3
  <2>5. Spare' \in [Chunked!Links -> Nat]
    BY <1>1, <1>7, <1>8
  <2>6. flows' \in Nat /\ flows' <= MaxFlows
    BY <1>1
  <2>7. QED
    BY <1>4, <2>4, <2>5, <2>6 DEF Paid, Chunked!Links
<1>10. Owned'
  BY DEF ChunkedFed, Owned
<1>11. FewChunks'
  <2>1. SumFunction(unwritten) \in Nat /\ SumFunction(unwritten') = SumFunction(unwritten)
    BY <1>1, ChunkedFinite, SumType
  <2>2. PICK c, c1 : c = Cardinality(EventsOf("PN_LINK_FLOW", collector))
                     /\ c1 = Cardinality(EventsOf("PN_LINK_FLOW", collector'))
    OBVIOUS
  <2>3. c \in Nat /\ c1 \in Nat /\ c1 <= c + 1
    BY <1>1, <1>3, <2>2, EventsFinite, PutCount, PutType
  <2>4. SumFunction(unwritten) + c <= flows
    BY <2>2 DEF ChunkedFed, FewChunks
  <2>5. SumFunction(unwritten') + c1 <= flows'
    BY <1>1, <2>1, <2>3, <2>4
  <2>6. QED
    BY <2>2, <2>5 DEF FewChunks
<1>12. EventDue'
  <2>1. \A f : Queued(f, collector') <=> Queued(f, collector) \/ f = e
    BY <1>1, <1>3, PutQueued
  <2>2. \A k \in Chunked!Links : HasChunks(k)' = HasChunks(k)
    BY DEF HasChunks
  <2>3. \A k \in Chunked!Links : k # l /\ Needs(k)' => Needs(k)
    BY <1>4 DEF Needs
  <2>4. \A k \in Chunked!Links : Safe(k)' => Safe(k)
    <3>1. flows' <= HighWater => flows <= HighWater
      BY <1>1, ReactorClientsAssumption
    <3>2. QED
      BY <3>1 DEF Safe, Alone
  <2>5. QED
    BY <1>2, <2>1, <2>2, <2>3, <2>4 DEF ChunkedFed, EventDue
<1>13. QED
  BY <1>9, <1>10, <1>11, <1>12 DEF ChunkedFed

\* An outcome: if it is that of the current delivery, the link advances, and
\* what the delivery used of the credit is gone.
LEMMA FedOutcome ==
  ASSUME ChunkedFed, ChunkedInv, ChunkedInv', Chunked!Delivery
  PROVE  ChunkedFed'
<1>0. PICK d : d = Head(collector).dlv
  OBVIOUS
<1>1. /\ Dispatch("PN_DELIVERY")
      /\ UNCHANGED <<limit, count, owner, unwritten, flows>>
      /\ IF current[owner[d]] = d
         THEN /\ current' = [current EXCEPT ![owner[d]] = 0]
              /\ credit' = [credit EXCEPT ![owner[d]] = @ - 1]
         ELSE UNCHANGED <<current, credit>>
  BY <1>0 DEF Chunked!Delivery, Chunked!Dispatch, Dispatch, Chunked!Outcome
<1>2. /\ collector \in Seq(ChunkedEvents) /\ unwritten \in [Chunked!Deliveries -> Nat]
      /\ credit \in [Chunked!Links -> Int] /\ current \in [Chunked!Links -> Nat]
      /\ flows \in Nat /\ count \in Nat
  BY DEF ChunkedInv, ChunkedTypes, ChunkedFed, Paid
<1>3. /\ collector # <<>> /\ collector' = Tail(collector) /\ Head(collector).type = "PN_DELIVERY"
      /\ Head(collector) \in ChunkedEvents /\ Queued(Head(collector), collector)
      /\ \A f : Queued(f, collector) /\ f # Head(collector) => Queued(f, collector')
  BY <1>1, <1>2, DispatchQueue
<1>4. d \in Chunked!Deliveries /\ Head(collector) = DeliveryEvent(d)
  BY <1>0, <1>3, ChunkedEventFacts
<1>5. \A l \in Chunked!Links :
        Queued(Chunked!FlowOn(l), collector) => Queued(Chunked!FlowOn(l), collector')
  BY <1>3, <1>4, ChunkedEventFacts
<1>6. Cardinality(EventsOf("PN_LINK_FLOW", collector')) <= Cardinality(EventsOf("PN_LINK_FLOW", collector))
  BY <1>2, <1>3, TailCount
<1>7. CASE current[owner[d]] # d
  BY <1>1, <1>5, <1>6, <1>7, FedSame
<1>8. CASE current[owner[d]] = d
  <2>1. PICK l : l = owner[d]
    OBVIOUS
  <2>2. l \in Chunked!Links /\ current[l] = d /\ d # 0
    BY <1>3, <1>4, <1>8, <2>1, ChunkedNumbers DEF ChunkedInv, DecidedOnce, Begun
  <2>3. current' = [current EXCEPT ![l] = 0] /\ credit' = [credit EXCEPT ![l] = @ - 1]
    BY <1>1, <1>8, <2>1
  <2>4. /\ current' \in [Chunked!Links -> Nat] /\ current'[l] = 0
        /\ \A k \in Chunked!Links : k # l => current'[k] = current[k]
    BY <1>2, <2>2, <2>3
  <2>5. /\ credit' \in [Chunked!Links -> Int] /\ credit'[l] = credit[l] - 1
        /\ \A k \in Chunked!Links : k # l => credit'[k] = credit[k]
    BY <1>2, <2>2, <2>3
  <2>6. Spare' = Spare
    <3>1. Spare' = [k \in Chunked!Links |-> IF current'[k] = 0 THEN credit'[k] ELSE credit'[k] - 1]
      BY DEF Spare, Chunked!Links
    <3>2. \A k \in Chunked!Links : (IF current'[k] = 0 THEN credit'[k] ELSE credit'[k] - 1)
                                     = IF current[k] = 0 THEN credit[k] ELSE credit[k] - 1
      BY <2>2, <2>4, <2>5
    <3>3. QED
      BY <3>1, <3>2 DEF Spare
  <2>7. Paid'
    BY <1>1, <2>5, <2>6 DEF ChunkedFed, Paid, Chunked!Links
  <2>8. Owned'
    BY <1>1, <2>4 DEF ChunkedFed, Owned
  <2>9. FewChunks'
    <3>1. SumFunction(unwritten) \in Nat /\ SumFunction(unwritten') = SumFunction(unwritten)
      BY <1>1, <1>2, ChunkedFinite, SumType
    <3>2. PICK c, c1 : c = Cardinality(EventsOf("PN_LINK_FLOW", collector))
                       /\ c1 = Cardinality(EventsOf("PN_LINK_FLOW", collector'))
      OBVIOUS
    <3>3. c \in Nat /\ c1 \in Nat /\ c1 <= c
      BY <1>2, <1>6, <3>2, EventsFinite DEF ChunkedInv, ChunkedTypes
    <3>4. SumFunction(unwritten) + c <= flows
      BY <3>2 DEF ChunkedFed, FewChunks
    <3>5. SumFunction(unwritten') + c1 <= flows'
      BY <1>1, <1>2, <3>1, <3>3, <3>4
    <3>6. QED
      BY <3>2, <3>5 DEF FewChunks
  <2>10. EventDue'
    <3>1. \A k \in Chunked!Links : Needs(k)' => Needs(k)
      BY <1>1, <2>2, <2>4, <2>5 DEF Needs
    <3>2. \A k \in Chunked!Links : HasChunks(k)' = HasChunks(k)
      BY <1>1 DEF HasChunks
    <3>3. \A k \in Chunked!Links : Safe(k)' => Safe(k)
      BY <1>1 DEF Safe, Alone
    <3>4. QED
      BY <1>1, <1>5, <3>1, <3>2, <3>3 DEF ChunkedFed, EventDue
  <2>11. QED
    BY <2>7, <2>8, <2>9, <2>10 DEF ChunkedFed
<1>9. QED
  BY <1>7, <1>8

\* A flow event: if the session has room, a link with a delivery, new or old,
\* sends a chunk of it; if it is full, a link that is the only one to send has
\* chunks to be written.
LEMMA FedFlow ==
  ASSUME ChunkedFed, ChunkedInv, ChunkedInv', Chunked!FlowEvent
  PROVE  ChunkedFed'
<1>0. PICK l, d : l = Head(collector).dlv /\ d = IF Chunked!Begins(l) THEN count + 1 ELSE current[l]
  OBVIOUS
<1>1. /\ Dispatch("PN_LINK_FLOW") /\ UNCHANGED <<limit, flows>>
      /\ count' = IF Chunked!Begins(l) THEN count + 1 ELSE count
      /\ owner' = IF Chunked!Begins(l) THEN [owner EXCEPT ![d] = l] ELSE owner
      /\ IF d # 0 /\ Chunked!OutgoingBytes < HighWater
         THEN Chunked!SendChunk(l, d)
         ELSE current' = [current EXCEPT ![l] = d] /\ UNCHANGED <<unwritten, credit>>
  BY <1>0 DEF Chunked!FlowEvent, Chunked!Dispatch, Dispatch
<1>2. /\ collector \in Seq(ChunkedEvents) /\ unwritten \in [Chunked!Deliveries -> Nat]
      /\ credit \in [Chunked!Links -> Int] /\ current \in [Chunked!Links -> Nat]
      /\ owner \in [Chunked!Deliveries -> 0..LinkCount] /\ Spare \in [Chunked!Links -> Nat]
      /\ flows \in Nat /\ flows <= MaxFlows /\ MaxFlows \in Nat /\ HighWater \in Nat
      /\ count \in Nat /\ limit \in Nat /\ SumFunction(Spare) + count <= flows
      /\ \A k \in Chunked!Links : current[k] <= count
  BY ReactorClientsAssumption DEF ChunkedInv, ChunkedTypes, Begun, ChunkedFed, Paid
<1>3. /\ collector # <<>> /\ collector' = Tail(collector) /\ Head(collector).type = "PN_LINK_FLOW"
      /\ Head(collector) \in ChunkedEvents
      /\ \A f : Queued(f, collector) /\ f # Head(collector) => Queued(f, collector')
  BY <1>1, <1>2, DispatchQueue
<1>4. l \in Chunked!Links /\ Head(collector) = Chunked!FlowOn(l)
  BY <1>0, <1>3 DEF ChunkedEvents, Chunked!FlowOn, Chunked!Event
<1>5. SumFunction(Spare) \in Nat /\ Spare[l] \in Nat /\ Spare[l] <= SumFunction(Spare)
  BY <1>2, <1>4, ChunkedFinite, SumType, SumAtLeast
<1>6. Chunked!Begins(l) => current[l] = 0 /\ Spare[l] = credit[l] /\ credit[l] > 0 /\ count < limit
  BY <1>2, <1>4 DEF Chunked!Begins, Chunked!WantsToSend, Spare, ChunkedInv, ChunkedTypes
<1>7. d \in Nat /\ d <= count' /\ count' \in Nat /\ count <= count' /\ (d # 0 => d \in Chunked!Deliveries)
  <2>1. CASE Chunked!Begins(l)
    <3>1. d = count + 1 /\ count' = count + 1
      BY <1>0, <1>1, <2>1
    <3>2. count + 1 <= flows
      BY <1>2, <1>5, <1>6, <2>1
    <3>3. QED
      BY <1>2, <3>1, <3>2 DEF Chunked!Deliveries
  <2>2. CASE ~Chunked!Begins(l)
    <3>1. d = current[l] /\ count' = count
      BY <1>0, <1>1, <2>2
    <3>2. d \in Nat /\ d <= count /\ count <= flows
      BY <1>2, <1>4, <1>5, <3>1
    <3>3. QED
      BY <1>2, <3>1, <3>2 DEF Chunked!Deliveries
  <2>3. QED
    BY <2>1, <2>2
<1>8. PICK c, k : /\ current' = [current EXCEPT ![l] = c] /\ credit' = [credit EXCEPT ![l] = k]
                  /\ \/ c = d /\ k = credit[l]
                     \/ c = 0 /\ k = credit[l] - 1 /\ d # 0
  <2>1. CASE d # 0 /\ Chunked!OutgoingBytes < HighWater
    <3>1. /\ current' = [current EXCEPT ![l] = IF offset'[d] = Chunks THEN 0 ELSE d]
          /\ credit' = [credit EXCEPT ![l] = IF offset'[d] = Chunks THEN @ - 1 ELSE @]
      BY <1>1, <2>1 DEF Chunked!SendChunk
    <3>2. QED
      BY <2>1, <3>1
  <2>2. CASE ~(d # 0 /\ Chunked!OutgoingBytes < HighWater)
    <3>1. current' = [current EXCEPT ![l] = d] /\ credit' = credit
      BY <1>1, <2>2
    <3>2. credit' = [credit EXCEPT ![l] = credit[l]]
      BY <1>2, <1>4, <3>1
    <3>3. QED
      BY <3>1, <3>2
  <2>3. QED
    BY <2>1, <2>2
<1>9. /\ c \in Nat /\ k \in Int /\ current' \in [Chunked!Links -> Nat] /\ current'[l] = c
      /\ \A j \in Chunked!Links : j # l => current'[j] = current[j]
  BY <1>2, <1>4, <1>7, <1>8
<1>10. /\ credit' \in [Chunked!Links -> Int] /\ credit'[l] = k
       /\ \A j \in Chunked!Links : j # l => credit'[j] = credit[j]
  BY <1>2, <1>4, <1>8, <1>9
<1>11. PICK v : v = IF c = 0 THEN k ELSE k - 1
  OBVIOUS
<1>12. Spare' = [Spare EXCEPT ![l] = v]
  <2>1. Spare' = [j \in Chunked!Links |-> IF current'[j] = 0 THEN credit'[j] ELSE credit'[j] - 1]
    BY DEF Spare, Chunked!Links
  <2>2. \A j \in Chunked!Links : Spare[j] = IF current[j] = 0 THEN credit[j] ELSE credit[j] - 1
    BY DEF Spare
  <2>3. \A j \in Chunked!Links : Spare'[j] = [Spare EXCEPT ![l] = v][j]
    BY <1>2, <1>4, <1>9, <1>10, <1>11, <2>1, <2>2
  <2>4. QED
    BY <1>2, <2>1, <2>3
<1>13. v \in Nat /\ v + count' = Spare[l] + count
  <2>1. Spare[l] = IF current[l] = 0 THEN credit[l] ELSE credit[l] - 1
    BY <1>4 DEF Spare
  <2>2. credit[l] \in Int /\ current[l] \in Nat
    BY <1>2, <1>4
  <2>3. CASE Chunked!Begins(l)
    <3>1. d # 0 /\ count' = count + 1
      BY <1>0, <1>1, <1>2, <2>3
    <3>2. v = credit[l] - 1
      BY <1>8, <1>11, <2>2, <3>1
    <3>3. credit[l] > 0 /\ Spare[l] = credit[l]
      BY <1>6, <2>3
    <3>4. count \in Nat
      BY <1>2
    <3>5. QED
      BY <2>2, <3>1, <3>2, <3>3, <3>4
  <2>4. CASE ~Chunked!Begins(l)
    <3>1. d = current[l] /\ count' = count
      BY <1>0, <1>1, <2>4
    <3>2. v = Spare[l]
      BY <1>8, <1>11, <2>1, <2>2, <3>1
    <3>3. QED
      BY <1>2, <1>5, <3>1, <3>2
  <2>5. QED
    BY <2>3, <2>4
<1>14. Paid'
  <2>1. SumFunction(Spare') = SumFunction(Spare) - Spare[l] + v
    BY <1>2, <1>4, <1>12, <1>13, ChunkedFinite, SumExcept
  <2>2. SumFunction(Spare') + count' <= flows'
    BY <1>1, <1>2, <1>5, <1>7, <1>13, <2>1
  <2>3. Spare' \in [Chunked!Links -> Nat]
    BY <1>2, <1>12, <1>13
  <2>4. QED
    BY <1>1, <1>2, <1>10, <2>2, <2>3 DEF Paid, Chunked!Links
<1>15. /\ d # 0 => owner'[d] = l
       /\ \A e \in Chunked!Deliveries : e <= count => owner'[e] = owner[e]
  <2>1. CASE Chunked!Begins(l)
    <3>1. d = count + 1 /\ owner' = [owner EXCEPT ![d] = l] /\ d # 0
      BY <1>0, <1>1, <1>2, <2>1
    <3>2. d \in Chunked!Deliveries /\ \A e \in Chunked!Deliveries : e <= count => e # d
      BY <1>2, <1>7, <3>1, ChunkedNumbers
    <3>3. QED
      BY <1>2, <3>1, <3>2
  <2>2. CASE ~Chunked!Begins(l)
    BY <1>0, <1>1, <1>4, <2>2 DEF ChunkedFed, Owned
  <2>3. QED
    BY <2>1, <2>2
<1>16. PICK s : s = SumFunction(unwritten)
  OBVIOUS
<1>17. s \in Nat /\ Chunked!OutgoingBytes = s
  <2>1. Chunked!OutgoingBytes = SumFunction(unwritten)
    BY DEF Chunked!OutgoingBytes, Chunked!SumFunction, Chunked!SumFunctionOnSet, Chunked!FoldFunctionOnSet,
           Chunked!MapThenFoldSet, SumFunction, SumFunctionOnSet, FoldFunctionOnSet, MapThenFoldSet
  <2>2. QED
    BY <1>2, <1>16, <2>1, ChunkedFinite, SumType
<1>18. PICK n, n1 : n = Cardinality(EventsOf("PN_LINK_FLOW", collector))
                    /\ n1 = Cardinality(EventsOf("PN_LINK_FLOW", collector'))
  OBVIOUS
<1>19. n \in Nat /\ n1 \in Nat /\ n1 + 1 <= n /\ s + n <= flows
  <2>1. n \in Nat /\ n1 \in Nat
    BY <1>2, <1>18, EventsFinite DEF ChunkedInv, ChunkedTypes
  <2>2. n1 + 1 <= n
    BY <1>2, <1>3, <1>18, TailCount
  <2>3. s + n <= flows
    BY <1>16, <1>18 DEF ChunkedFed, FewChunks
  <2>4. QED
    BY <2>1, <2>2, <2>3
<1>20. \/ unwritten' = unwritten /\ (d = 0 \/ ~(s < HighWater))
       \/ d # 0 /\ unwritten' = [unwritten EXCEPT ![d] = @ + 1]
  BY <1>1, <1>17 DEF Chunked!SendChunk
<1>21. /\ SumFunction(unwritten') \in Nat /\ SumFunction(unwritten') <= s + 1
       /\ \A e \in Chunked!Deliveries : unwritten[e] > 0 => unwritten'[e] > 0
       /\ \A e \in Chunked!Deliveries : unwritten'[e] > 0 => unwritten[e] > 0 \/ e = d
       /\ d # 0 /\ s < HighWater => unwritten'[d] > 0
  <2>1. CASE unwritten' = unwritten /\ (d = 0 \/ ~(s < HighWater))
    BY <1>16, <1>17, <2>1
  <2>2. CASE d # 0 /\ unwritten' = [unwritten EXCEPT ![d] = @ + 1]
    <3>1. d \in Chunked!Deliveries /\ unwritten[d] \in Nat /\ unwritten[d] + 1 \in Nat
      BY <1>2, <1>7, <2>2
    <3>2. PICK w : w = unwritten[d] + 1
      OBVIOUS
    <3>3. unwritten' = [unwritten EXCEPT ![d] = w] /\ w \in Nat
      BY <2>2, <3>1, <3>2
    <3>4. SumFunction(unwritten') = SumFunction(unwritten) - unwritten[d] + w
      BY <1>2, <3>1, <3>3, ChunkedFinite, SumExcept
    <3>5. SumFunction(unwritten') = s + 1
      BY <1>16, <1>17, <3>1, <3>2, <3>4
    <3>6. \A e \in Chunked!Deliveries : unwritten'[e] = IF e = d THEN w ELSE unwritten[e]
      BY <1>2, <3>1, <3>3
    <3>7. w > 0
      BY <3>1, <3>2
    <3>8. QED
      BY <1>17, <3>1, <3>5, <3>6, <3>7
  <2>3. QED
    BY <1>20, <2>1, <2>2
<1>22. Owned'
  <2>1. \A j \in Chunked!Links : current'[j] # 0 => owner'[current'[j]] = j
    <3>1. SUFFICES ASSUME NEW j \in Chunked!Links, current'[j] # 0 PROVE owner'[current'[j]] = j
      OBVIOUS
    <3>2. CASE j = l
      BY <1>8, <1>9, <1>15, <3>1, <3>2
    <3>3. CASE j # l
      <4>1. current'[j] = current[j] /\ current[j] # 0 /\ owner[current[j]] = j
        BY <1>9, <3>1, <3>3 DEF ChunkedFed, Owned
      <4>2. current[j] \in Nat /\ current[j] <= count /\ count <= flows
        BY <1>2, <1>5
      <4>3. current[j] \in Chunked!Deliveries
        BY <1>2, <4>1, <4>2 DEF Chunked!Deliveries
      <4>4. QED
        BY <1>15, <4>1, <4>2, <4>3
    <3>4. QED
      BY <3>2, <3>3
  <2>2. \A e \in Chunked!Deliveries : unwritten'[e] > 0 => e <= count'
    <3>1. \A e \in Chunked!Deliveries : e <= count => e <= count'
      BY <1>2, <1>7, ChunkedNumbers
    <3>2. QED
      BY <1>7, <1>21, <3>1 DEF ChunkedFed, Owned
  <2>3. QED
    BY <2>1, <2>2 DEF Owned, Chunked!Links, Chunked!Deliveries
<1>23. FewChunks'
  <2>1. SumFunction(unwritten') + n1 <= flows'
    BY <1>1, <1>2, <1>17, <1>19, <1>21
  <2>2. QED
    BY <1>18, <2>1 DEF FewChunks
<1>24. EventDue'
  <2>1. SUFFICES ASSUME NEW j \in Chunked!Links, Safe(j)', Needs(j)'
                 PROVE  Queued(Chunked!FlowOn(j), collector') \/ HasChunks(j)'
    BY <1>1 DEF EventDue, Chunked!Links
  <2>2. Alone(j)' => Alone(j)
    <3>1. \A e \in Chunked!Deliveries : e <= count => e <= count'
      BY <1>2, <1>7, ChunkedNumbers
    <3>2. QED
      BY <1>15, <3>1 DEF Alone, Chunked!Deliveries
  <2>3. CASE j = l /\ ~(s < HighWater)
    <3>1. Alone(l)' /\ Alone(l)
      BY <1>1, <1>2, <1>17, <1>19, <2>1, <2>2, <2>3 DEF Safe
    <3>2. s # 0
      BY <1>17, <2>3, ReactorClientsAssumption
    <3>3. PICK e \in Chunked!Deliveries : unwritten[e] # 0
      BY <1>2, <1>16, <3>2, ChunkedFinite, SumZero
    <3>4. unwritten[e] > 0 /\ e <= count
      BY <1>2, <3>3 DEF ChunkedFed, Owned
    <3>5. owner'[e] = l /\ unwritten'[e] > 0
      BY <1>15, <1>21, <3>1, <3>4 DEF Alone
    <3>6. QED
      BY <2>3, <3>5 DEF HasChunks, Chunked!Deliveries
  <2>4. CASE j = l /\ s < HighWater
    <3>1. d # 0
      <4>1. SUFFICES ASSUME d = 0 PROVE FALSE
        OBVIOUS
      <4>2. c = 0 /\ k = credit[l]
        BY <1>8, <4>1
      <4>3. credit[l] > 0 /\ count' < limit
        BY <1>1, <1>9, <1>10, <2>1, <2>4, <4>2 DEF Needs
      <4>4. ~Chunked!Begins(l)
        BY <1>0, <1>2, <4>1
      <4>5. current[l] = 0 /\ count' = count
        BY <1>0, <1>1, <4>1, <4>4
      <4>6. QED
        BY <4>3, <4>4, <4>5 DEF Chunked!Begins, Chunked!WantsToSend
    <3>2. d \in Chunked!Deliveries /\ owner'[d] = l /\ unwritten'[d] > 0
      BY <1>7, <1>15, <1>21, <2>4, <3>1
    <3>3. QED
      BY <2>4, <3>2 DEF HasChunks, Chunked!Deliveries
  <2>5. CASE j # l
    <3>1. current'[j] = current[j] /\ credit'[j] = credit[j]
      BY <1>9, <1>10, <2>5
    <3>2. count' < limit => count < limit
      BY <1>2, <1>7
    <3>3. Needs(j)
      BY <1>1, <2>1, <3>1, <3>2 DEF Needs
    <3>4. CASE Queued(Chunked!FlowOn(j), collector)
      <4>1. Chunked!FlowOn(j) # Chunked!FlowOn(l)
        BY <2>5 DEF Chunked!FlowOn, Chunked!Event
      <4>2. QED
        BY <1>3, <1>4, <3>4, <4>1
    <3>5. CASE HasChunks(j)
      <4>1. PICK e \in Chunked!Deliveries : owner[e] = j /\ unwritten[e] > 0
        BY <3>5 DEF HasChunks
      <4>2. owner'[e] = j /\ unwritten'[e] > 0
        BY <1>15, <1>21, <4>1 DEF ChunkedFed, Owned
      <4>3. QED
        BY <4>2 DEF HasChunks, Chunked!Deliveries
    <3>6. Safe(j)
      BY <1>1, <2>1, <2>2 DEF Safe
    <3>7. QED
      BY <3>3, <3>4, <3>5, <3>6 DEF ChunkedFed, EventDue
  <2>6. QED
    BY <2>3, <2>4, <2>5
<1>25. QED
  BY <1>14, <1>22, <1>23, <1>24 DEF ChunkedFed

LEMMA FedStep ==
  ASSUME ChunkedFed, ChunkedInv, ChunkedInv', Chunked!Next
  PROVE  ChunkedFed'
<1> USE DEF Chunked!sendVars, Chunked!stateVars
<1>0. collector \in Seq(ChunkedEvents)
  BY DEF ChunkedInv, ChunkedTypes
<1>1. CASE Chunked!FlowEvent
  BY <1>1, FedFlow
<1>2. CASE Chunked!Delivery
  BY <1>2, FedOutcome
<1>3. ASSUME UNCHANGED <<collector, limit, count, credit, current, owner, unwritten, flows>>
      PROVE  ChunkedFed'
  <2>1. Cardinality(EventsOf("PN_LINK_FLOW", collector)) \in Nat
    BY <1>0, EventsFinite
  <2>2. Cardinality(EventsOf("PN_LINK_FLOW", collector')) <= Cardinality(EventsOf("PN_LINK_FLOW", collector))
    BY <1>3, <2>1
  <2>3. QED
    BY <1>3, <2>2, FedSame
<1>4. CASE Chunked!ConnectionInit
  <2>1. /\ Dispatch("PN_CONNECTION_INIT")
        /\ UNCHANGED <<limit, count, credit, current, owner, unwritten, flows>>
    BY <1>4 DEF Chunked!ConnectionInit, Chunked!Dispatch, Dispatch
  <2>2. /\ collector # <<>> /\ collector' = Tail(collector) /\ Head(collector).type = "PN_CONNECTION_INIT"
        /\ \A f : Queued(f, collector) /\ f # Head(collector) => Queued(f, collector')
    BY <1>0, <2>1, DispatchQueue
  <2>3. \A l \in Chunked!Links : Chunked!FlowOn(l) # Head(collector)
    BY <2>2 DEF Chunked!FlowOn, Chunked!Event
  <2>4. Cardinality(EventsOf("PN_LINK_FLOW", collector')) <= Cardinality(EventsOf("PN_LINK_FLOW", collector))
    BY <1>0, <2>2, TailCount
  <2>5. QED
    BY <2>1, <2>2, <2>3, <2>4, FedSame
<1>5. CASE Chunked!Main \/ Chunked!SignalHandler \/ Chunked!PeerLeaves \/ Chunked!Exited
  BY <1>3, <1>5 DEF Chunked!Main, Chunked!Quiesce, Chunked!MainLoop, Chunked!SignalHandler, Chunked!Signal,
     Chunked!PeerLeaves, Chunked!PeerCloses, Chunked!PeerDetaches, Chunked!Exited, Chunked!vars, Chunked!loopVars
<1>6. CASE Chunked!Write
  <2>1. PICK d \in Chunked!Deliveries : Chunked!WriteOf(d)
    BY <1>6 DEF Chunked!Write
  <2>2. /\ collector' = Put(collector, Chunked!FlowOn(owner[d])) /\ unwritten[d] > 0
        /\ unwritten' = [unwritten EXCEPT ![d] = 0]
        /\ UNCHANGED <<limit, count, credit, current, owner, flows>>
    BY <2>1 DEF Chunked!WriteOf, Chunked!Put, Put
  <2>3. QED
    BY <2>2, FedWrite
<1>7. CASE Chunked!PeerGrants \/ Chunked!PeerEchoes
  <2>1. PICK l \in Chunked!Links, n \in {0, 1} : Chunked!PeerFlow(l, n)
    BY <1>7 DEF Chunked!PeerGrants, Chunked!PeerEchoes
  <2>2. /\ collector' = Put(collector, Chunked!FlowOn(l)) /\ flows < MaxFlows /\ flows' = flows + 1
        /\ credit' = [credit EXCEPT ![l] = @ + n]
        /\ UNCHANGED <<limit, count, current, owner, unwritten>>
    BY <2>1 DEF Chunked!PeerFlow, Chunked!Reads, Chunked!Put, Put
  <2>3. QED
    BY <2>2, FedFrame
<1>8. CASE Chunked!PeerSettles
  <2>1. PICK d \in Chunked!Deliveries : Chunked!PeerDisposition(d)
    BY <1>8 DEF Chunked!PeerSettles
  <2>2. /\ collector' = Put(collector, DeliveryEvent(d))
        /\ UNCHANGED <<limit, count, credit, current, owner, unwritten, flows>>
    BY <2>1 DEF Chunked!PeerDisposition, Chunked!Reads, Chunked!Put, Put, Chunked!DeliveryEvent, DeliveryEvent,
                Chunked!Event, Event
  <2>3. DeliveryEvent(d) \in ChunkedEvents /\ DeliveryEvent(d).type # "PN_LINK_FLOW"
    BY ChunkedEventFacts DEF DeliveryEvent, Event
  <2>4. Cardinality(EventsOf("PN_LINK_FLOW", collector')) <= Cardinality(EventsOf("PN_LINK_FLOW", collector))
    <3>1. Cardinality(EventsOf("PN_LINK_FLOW", collector)) \in Nat
      BY <1>0, EventsFinite
    <3>2. Cardinality(EventsOf("PN_LINK_FLOW", collector')) = Cardinality(EventsOf("PN_LINK_FLOW", collector))
      BY <1>0, <2>2, <2>3, PutCount
    <3>3. QED
      BY <3>1, <3>2
  <2>5. \A f : Queued(f, collector) => Queued(f, collector')
    BY <1>0, <2>2, <2>3, PutQueued
  <2>6. QED
    BY <2>2, <2>4, <2>5, FedSame
<1>9. QED
  BY <1>1, <1>2, <1>4, <1>5, <1>6, <1>7, <1>8 DEF Chunked!Next, Chunked!Client

-----------------------------------------------------------------------------
(***************************************************************************)
(* The receivers.                                                          *)
(***************************************************************************)

ReceiverEvents ==
  [type : {"PN_CONNECTION_INIT", "PN_DELIVERY", "PN_SESSION_REMOTE_OPEN", "PN_LINK_REMOTE_OPEN",
           "PN_CONNECTION_REMOTE_CLOSE"}, dlv : Nat]

ReceiverTypes ==
  /\ collector \in Seq(ReceiverEvents)
  /\ limit \in Nat /\ credit_window \in Nat \ {0}
  /\ credit \in Nat /\ arrived \in Nat /\ count \in Nat
  /\ partial \in BOOLEAN /\ aborted \subseteq 1..arrived
  /\ presettle = FALSE /\ settled = {}

AtLimit == limit > 0 /\ count = limit

\* receiver.c of clients/scale takes whatever comes; the others stop at -c.
Takes == program = "receiver" \/ ~AtLimit

Window == count <= arrived /\ arrived - count <= credit /\ credit <= credit_window

\* What is not complete is neither counted nor aborted.
Whole == partial => count < arrived /\ arrived \notin aborted

IsDelivery(e) == e.type = "PN_DELIVERY"

\* Delivery events wait in the order of their deliveries, all begun.
InOrder ==
  /\ \A i \in 1..Len(collector) : IsDelivery(collector[i]) => collector[i].dlv <= arrived
  /\ \A i, j \in 1..Len(collector) : i < j /\ IsDelivery(collector[i]) /\ IsDelivery(collector[j])
       => collector[i].dlv <= collector[j].dlv

\* A complete message that is not settled has its event waiting.
HasEvent ==
  Takes => \A d \in 1..arrived :
    count < d /\ ~(partial /\ d = arrived) => Queued(DeliveryEvent(d), collector)

ReceiverInv == ReceiverTypes /\ Window /\ Whole /\ InOrder /\ HasEvent

\* The steps of a receiver, as far as the messages are concerned.

\* What no step changes.
Kept == UNCHANGED <<program, presettle, settled, limit, credit_window>>

Pops     == collector # <<>> /\ collector' = Tail(collector)
Due(d)   == d = count + 1 /\ d <= arrived /\ ~(partial /\ d = arrived)
Unsent   == UNCHANGED <<arrived, partial, aborted>>

\* The message the oldest event is about is counted.
Accepts ==
  /\ Pops /\ IsDelivery(Head(collector)) /\ Kept /\ Unsent
  /\ Takes /\ Due(Head(collector).dlv)
  /\ count' = count + 1
  /\ credit' \in Nat /\ credit - 1 <= credit' /\ credit' <= credit_window

\* It is not, because enough have come, or it is not due.
Ignores ==
  /\ Pops /\ IsDelivery(Head(collector)) /\ Kept /\ Unsent
  /\ ~Takes \/ ~Due(Head(collector).dlv)
  /\ UNCHANGED <<count, credit>>

\* Another event is handled, perhaps by granting the window; one is raised.
Serves ==
  /\ Pops /\ ~IsDelivery(Head(collector)) /\ Kept /\ Unsent
  /\ credit' \in {credit, credit_window} /\ UNCHANGED count

Raises ==
  /\ \E e \in ReceiverEvents : ~IsDelivery(e) /\ collector' \in {Put(collector, e), Append(collector, e)}
  /\ Kept /\ Unsent /\ UNCHANGED <<count, credit>>

\* A transfer frame of message n is read, or its abort.
Transfers(n) ==
  /\ collector' = Put(collector, DeliveryEvent(n)) /\ Kept /\ UNCHANGED <<count, credit>>
  /\ arrived' = n /\ partial' \in BOOLEAN
  /\ \/ partial /\ n = arrived /\ aborted' = aborted
     \/ partial /\ n = arrived /\ aborted' = aborted \union {n} /\ ~partial'
     \/ ~partial /\ n = arrived + 1 /\ arrived - count < credit /\ aborted' = aborted

Idles == Kept /\ Unsent /\ UNCHANGED <<collector, count, credit>>

ReceiverStep == Accepts \/ Ignores \/ Serves \/ Raises \/ (\E n \in Nat : Transfers(n)) \/ Idles

LEMMA ReceiverEventFacts ==
  /\ ConnectionInitEvent \in ReceiverEvents
  /\ \A n \in Nat : /\ DeliveryEvent(n) \in ReceiverEvents
                    /\ IsDelivery(DeliveryEvent(n)) /\ DeliveryEvent(n).dlv = n
  /\ \A e \in ReceiverEvents : e.dlv \in Nat /\ (IsDelivery(e) => e = DeliveryEvent(e.dlv))
BY DEF ReceiverEvents, ConnectionInitEvent, DeliveryEvent, Event, IsDelivery

LEMMA ReceiverInvInit ==
  ASSUME collector \in {<<>>, <<ConnectionInitEvent>>},
         limit \in Nat, credit_window \in Nat \ {0}, credit = 0, arrived = 0, count = 0,
         partial = FALSE, aborted = {}, presettle = FALSE, settled = {}
  PROVE  ReceiverInv
<1>1. ReceiverTypes
  <2>1. collector \in Seq(ReceiverEvents)
    <3>1. CASE collector = <<>>
      BY <3>1
    <3>2. CASE collector = <<ConnectionInitEvent>>
      BY <3>2, ReceiverEventFacts
    <3>3. QED
      BY <3>1, <3>2
  <2>2. partial \in BOOLEAN /\ aborted \subseteq 1..arrived
    OBVIOUS
  <2>3. limit \in Nat /\ credit_window \in Nat \ {0} /\ credit \in Nat /\ arrived \in Nat /\ count \in Nat
    OBVIOUS
  <2>4. QED
    BY <2>1, <2>2, <2>3 DEF ReceiverTypes
<1>2. Window /\ Whole /\ HasEvent
  BY DEF Window, Whole, HasEvent
<1>3. InOrder
  <2>1. \A i \in 1..Len(collector) : collector[i] = ConnectionInitEvent
    OBVIOUS
  <2>2. ~IsDelivery(ConnectionInitEvent)
    BY DEF IsDelivery, ConnectionInitEvent, Event
  <2>3. QED
    BY <2>1, <2>2 DEF InOrder
<1>4. QED
  BY <1>1, <1>2, <1>3 DEF ReceiverInv

\* What popping the oldest event leaves.
LEMMA PopFacts ==
  ASSUME ReceiverInv, Pops, Kept, Unsent
  PROVE  /\ collector' \in Seq(ReceiverEvents) /\ InOrder'
         /\ Head(collector) \in ReceiverEvents
         /\ \A d \in Nat : Queued(DeliveryEvent(d), collector) /\ DeliveryEvent(d) # Head(collector)
                              => Queued(DeliveryEvent(d), collector')
         /\ \A i \in 1..Len(collector') : i + 1 \in 1..Len(collector) /\ collector'[i] = collector[i + 1]
<1>1. collector \in Seq(ReceiverEvents) /\ collector # <<>> /\ collector' = Tail(collector)
  BY DEF ReceiverInv, ReceiverTypes, Pops
<1>2. /\ collector' \in Seq(ReceiverEvents) /\ Head(collector) \in ReceiverEvents
      /\ Len(collector) \in Nat \ {0} /\ Len(collector') = Len(collector) - 1
      /\ \A i \in 1..Len(collector') : collector'[i] = collector[i + 1]
  BY <1>1, TailShape
<1>3. \A i \in 1..Len(collector') : i \in Nat /\ i + 1 \in 1..Len(collector)
  BY <1>2
<1>4. \A i, j \in 1..Len(collector') : i < j => i + 1 < j + 1
  BY <1>3
<1>5. InOrder'
  BY <1>2, <1>3, <1>4 DEF ReceiverInv, InOrder, Unsent
<1>6. QED
  BY <1>1, <1>2, <1>3, <1>5, TailQueued

\* The oldest delivery event is of the current delivery or of an earlier one.
LEMMA HeadIsDue ==
  ASSUME ReceiverInv, collector # <<>>, IsDelivery(Head(collector)), Takes
  PROVE  Head(collector).dlv <= count + 1
<1>1. collector \in Seq(ReceiverEvents) /\ count \in Nat /\ arrived \in Nat /\ count <= arrived
  BY DEF ReceiverInv, ReceiverTypes, Window
<1>2. Head(collector) \in ReceiverEvents /\ Head(collector) = collector[1] /\ Len(collector) \in Nat \ {0}
  BY <1>1, TailShape
<1>3. PICK h \in Nat : h = Head(collector).dlv /\ h <= arrived
  BY <1>2, ReceiverEventFacts DEF ReceiverInv, InOrder
<1>4. SUFFICES ASSUME h > count + 1 PROVE FALSE
  BY <1>1, <1>3
<1>5. count + 1 \in 1..arrived /\ count < count + 1 /\ count + 1 < arrived /\ count + 1 \in Nat
  BY <1>1, <1>3, <1>4
<1>6. Queued(DeliveryEvent(count + 1), collector)
  BY <1>1, <1>5 DEF ReceiverInv, HasEvent
<1>7. PICK i \in 1..Len(collector) : collector[i] = DeliveryEvent(count + 1)
  BY <1>6 DEF Queued
<1>8. collector[i].dlv = count + 1 /\ IsDelivery(collector[i])
  BY <1>5, <1>7, ReceiverEventFacts
<1>9. h <= collector[i].dlv
  BY <1>2, <1>3, <1>5, <1>7, <1>8 DEF ReceiverInv, InOrder
<1>10. QED
  BY <1>1, <1>3, <1>4, <1>8, <1>9

LEMMA ReceiverAccepts ==
  ASSUME ReceiverInv, Accepts PROVE ReceiverInv'
<1>0. PICK d : d = Head(collector).dlv
  OBVIOUS
<1>1. /\ Pops /\ Kept /\ Unsent /\ Takes /\ Due(d) /\ count' = count + 1
      /\ credit' \in Nat /\ credit - 1 <= credit' /\ credit' <= credit_window
      /\ UNCHANGED <<program, presettle, settled, limit, credit_window, arrived, partial, aborted>>
  BY <1>0 DEF Accepts, Kept, Unsent
<1>2. /\ collector' \in Seq(ReceiverEvents) /\ InOrder' /\ Head(collector) \in ReceiverEvents
      /\ \A e \in Nat : Queued(DeliveryEvent(e), collector) /\ DeliveryEvent(e) # Head(collector)
                           => Queued(DeliveryEvent(e), collector')
  BY <1>1, PopFacts
<1>3. /\ credit_window \in Nat \ {0} /\ credit \in Nat /\ count \in Nat /\ arrived \in Nat
      /\ d = count + 1 /\ d <= arrived /\ (partial => d # arrived) /\ arrived - count <= credit
  BY <1>1 DEF ReceiverInv, ReceiverTypes, Window, Due
<1>4. ReceiverTypes'
  BY <1>1, <1>2, <1>3 DEF ReceiverInv, ReceiverTypes
<1>5. Window'
  BY <1>1, <1>3 DEF Window
<1>6. Whole'
  BY <1>1, <1>3 DEF ReceiverInv, Whole
<1>7. HasEvent'
  <2> SUFFICES ASSUME NEW e \in 1..arrived, count + 1 < e, ~(partial /\ e = arrived)
               PROVE  Queued(DeliveryEvent(e), collector')
    BY <1>1 DEF HasEvent
  <2>1. e \in Nat /\ count < e /\ e # d
    BY <1>3
  <2>2. Queued(DeliveryEvent(e), collector)
    BY <1>1, <2>1 DEF ReceiverInv, HasEvent
  <2>3. DeliveryEvent(e) # Head(collector)
    BY <1>0, <2>1, ReceiverEventFacts
  <2>4. QED
    BY <1>2, <2>1, <2>2, <2>3
<1>8. QED
  BY <1>2, <1>4, <1>5, <1>6, <1>7 DEF ReceiverInv

LEMMA ReceiverIgnores ==
  ASSUME ReceiverInv, Ignores PROVE ReceiverInv'
<1>0. PICK d : d = Head(collector).dlv
  OBVIOUS
<1>1. /\ Pops /\ IsDelivery(Head(collector)) /\ Kept /\ Unsent /\ (~Takes \/ ~Due(d))
      /\ UNCHANGED <<count, credit, program, presettle, settled, limit, credit_window, arrived, partial, aborted>>
  BY <1>0 DEF Ignores, Kept, Unsent
<1>2. /\ collector' \in Seq(ReceiverEvents) /\ InOrder' /\ Head(collector) \in ReceiverEvents
      /\ \A e \in Nat : Queued(DeliveryEvent(e), collector) /\ DeliveryEvent(e) # Head(collector)
                           => Queued(DeliveryEvent(e), collector')
  BY <1>1, PopFacts
<1>3. count \in Nat /\ arrived \in Nat /\ d \in Nat
  BY <1>0, <1>2, ReceiverEventFacts DEF ReceiverInv, ReceiverTypes
<1>4. ReceiverTypes' /\ Window' /\ Whole'
  BY <1>1, <1>2 DEF ReceiverInv, ReceiverTypes, Window, Whole
<1>5. Takes' <=> Takes
  BY <1>1 DEF Takes, AtLimit
<1>6. HasEvent'
  <2> SUFFICES ASSUME Takes, NEW e \in 1..arrived, count < e, ~(partial /\ e = arrived)
               PROVE  Queued(DeliveryEvent(e), collector')
    BY <1>1, <1>5 DEF HasEvent
  <2>1. d <= count + 1
    BY <1>0, <1>1, HeadIsDue DEF Pops
  <2>2. e \in Nat /\ e # d
    BY <1>1, <1>3, <2>1 DEF Due
  <2>3. Queued(DeliveryEvent(e), collector)
    BY DEF ReceiverInv, HasEvent
  <2>4. DeliveryEvent(e) # Head(collector)
    BY <1>0, <2>2, ReceiverEventFacts
  <2>5. QED
    BY <1>2, <2>2, <2>3, <2>4
<1>7. QED
  BY <1>2, <1>4, <1>6 DEF ReceiverInv

LEMMA ReceiverServes ==
  ASSUME ReceiverInv, Serves PROVE ReceiverInv'
<1>1. /\ Pops /\ ~IsDelivery(Head(collector)) /\ Kept /\ Unsent
      /\ credit' \in {credit, credit_window}
      /\ UNCHANGED <<count, program, presettle, settled, limit, credit_window, arrived, partial, aborted>>
  BY DEF Serves, Kept, Unsent
<1>2. /\ collector' \in Seq(ReceiverEvents) /\ InOrder'
      /\ \A e \in Nat : Queued(DeliveryEvent(e), collector) /\ DeliveryEvent(e) # Head(collector)
                           => Queued(DeliveryEvent(e), collector')
  BY <1>1, PopFacts
<1>3. ReceiverTypes' /\ Window' /\ Whole'
  BY <1>1, <1>2 DEF ReceiverInv, ReceiverTypes, Window, Whole
<1>4. HasEvent'
  <2>1. \A e \in 1..arrived : e \in Nat /\ DeliveryEvent(e) # Head(collector)
    BY <1>1, ReceiverEventFacts DEF ReceiverInv, ReceiverTypes
  <2>2. QED
    BY <1>1, <1>2, <2>1 DEF ReceiverInv, HasEvent, Takes, AtLimit
<1>5. QED
  BY <1>2, <1>3, <1>4 DEF ReceiverInv

\* An event that is put into the queue comes last, or is there already.
LEMMA RaisedFacts ==
  ASSUME ReceiverInv, NEW e \in ReceiverEvents, collector' \in {Put(collector, e), Append(collector, e)}
  PROVE  /\ collector' \in Seq(ReceiverEvents)
         /\ Queued(e, collector') /\ \A f : Queued(f, collector) => Queued(f, collector')
         /\ \A i \in 1..Len(collector') : \/ i \in 1..Len(collector) /\ collector'[i] = collector[i]
                                          \/ i = Len(collector) + 1 /\ i = Len(collector') /\ collector'[i] = e
<1>1. collector \in Seq(ReceiverEvents) /\ Len(collector) \in Nat
  BY DEF ReceiverInv, ReceiverTypes
<1>2. CASE /\ collector' = collector /\ Len(collector) \in 1..Len(collector) /\ collector[Len(collector)] = e
  BY <1>1, <1>2 DEF Queued
<1>3. CASE /\ collector' \in Seq(ReceiverEvents) /\ Len(collector') = Len(collector) + 1
           /\ \A i \in 1..Len(collector) : collector'[i] = collector[i]
           /\ collector'[Len(collector) + 1] = e
  <2>1. /\ \A i \in 1..Len(collector) : i \in 1..Len(collector')
        /\ Len(collector) + 1 \in 1..Len(collector')
        /\ \A i \in 1..Len(collector') : i \in 1..Len(collector) \/ (i = Len(collector) + 1 /\ i = Len(collector'))
    BY <1>1, <1>3
  <2>2. QED
    BY <1>3, <2>1 DEF Queued
<1>4. CASE collector' = Put(collector, e)
  <2>1. collector' \in Seq(ReceiverEvents)
    BY <1>1, <1>4, PutType
  <2>2. \/ Put(collector, e) = collector /\ Len(collector) \in 1..Len(collector) /\ collector[Len(collector)] = e
        \/ /\ Len(Put(collector, e)) = Len(collector) + 1
           /\ \A i \in 1..Len(collector) : Put(collector, e)[i] = collector[i]
           /\ Put(collector, e)[Len(collector) + 1] = e
    BY <1>1, PutShape
  <2>3. CASE Put(collector, e) = collector /\ Len(collector) \in 1..Len(collector) /\ collector[Len(collector)] = e
    BY <1>2, <1>4, <2>3
  <2>4. CASE /\ Len(Put(collector, e)) = Len(collector) + 1
             /\ \A i \in 1..Len(collector) : Put(collector, e)[i] = collector[i]
             /\ Put(collector, e)[Len(collector) + 1] = e
    BY <1>3, <1>4, <2>1, <2>4
  <2>5. QED
    BY <2>2, <2>3, <2>4
<1>5. CASE collector' = Append(collector, e)
  BY <1>1, <1>3, <1>5
<1>6. QED
  BY <1>4, <1>5

LEMMA ReceiverRaises ==
  ASSUME ReceiverInv, Raises PROVE ReceiverInv'
<1>1. UNCHANGED <<count, credit, program, presettle, settled, limit, credit_window, arrived, partial, aborted>>
  BY DEF Raises, Kept, Unsent
<1>2. PICK e \in ReceiverEvents : ~IsDelivery(e) /\ collector' \in {Put(collector, e), Append(collector, e)}
  BY DEF Raises
<1>3. /\ collector' \in Seq(ReceiverEvents) /\ \A f : Queued(f, collector) => Queued(f, collector')
      /\ \A i \in 1..Len(collector') : IsDelivery(collector'[i]) => i \in 1..Len(collector) /\ collector'[i] = collector[i]
  BY <1>2, RaisedFacts
<1>4. ReceiverTypes' /\ Window' /\ Whole'
  BY <1>1, <1>3 DEF ReceiverInv, ReceiverTypes, Window, Whole
<1>5. InOrder'
  BY <1>1, <1>3 DEF ReceiverInv, InOrder
<1>6. HasEvent'
  BY <1>1, <1>3 DEF ReceiverInv, HasEvent, Takes, AtLimit
<1>7. QED
  BY <1>4, <1>5, <1>6 DEF ReceiverInv

LEMMA ReceiverTransfers ==
  ASSUME ReceiverInv, NEW n \in Nat, Transfers(n) PROVE ReceiverInv'
<1>1. /\ UNCHANGED <<count, credit, program, presettle, settled, limit, credit_window>>
      /\ arrived' = n /\ partial' \in BOOLEAN /\ collector' \in {Put(collector, DeliveryEvent(n))}
  BY DEF Transfers, Kept
<1>2. count \in Nat /\ credit \in Nat /\ arrived \in Nat
  BY DEF ReceiverInv, ReceiverTypes
<1>3. /\ collector' \in Seq(ReceiverEvents) /\ Queued(DeliveryEvent(n), collector')
      /\ \A f : Queued(f, collector) => Queued(f, collector')
      /\ \A i \in 1..Len(collector') :
           \/ i \in 1..Len(collector) /\ collector'[i] = collector[i]
           \/ i = Len(collector) + 1 /\ i = Len(collector') /\ collector'[i] = DeliveryEvent(n)
  BY <1>1, ReceiverEventFacts, RaisedFacts
<1>4. arrived <= n /\ count < n /\ n - count <= credit
  BY <1>2 DEF ReceiverInv, Window, Whole, Transfers
<1>5. /\ partial' => n \notin aborted'
      /\ aborted' \subseteq 1..n
  <2>1. aborted \subseteq 1..arrived /\ 1..arrived \subseteq 1..n /\ n \in 1..n
    BY <1>2, <1>4 DEF ReceiverInv, ReceiverTypes
  <2>2. n = arrived + 1 => n \notin 1..arrived
    BY <1>2
  <2>3. QED
    BY <2>1, <2>2 DEF ReceiverInv, Whole, Transfers
<1>6. ReceiverTypes' /\ Window' /\ Whole'
  BY <1>1, <1>2, <1>3, <1>4, <1>5 DEF ReceiverInv, ReceiverTypes, Window, Whole
<1>7. InOrder'
  <2>1. Len(collector) \in Nat /\ \A i \in 1..Len(collector) : collector[i].dlv \in Nat
    BY ReceiverEventFacts DEF ReceiverInv, ReceiverTypes
  <2>2. \A i \in 1..Len(collector) : IsDelivery(collector[i]) => collector[i].dlv <= n
    BY <1>2, <1>4, <2>1 DEF ReceiverInv, InOrder
  <2>3. \A i \in 1..Len(collector') : IsDelivery(collector'[i]) => collector'[i].dlv <= n
    BY <1>3, <2>2, ReceiverEventFacts
  <2>4. ASSUME NEW i \in 1..Len(collector'), NEW j \in 1..Len(collector'), i < j,
               IsDelivery(collector'[i]), IsDelivery(collector'[j])
        PROVE  collector'[i].dlv <= collector'[j].dlv
    <3>1. CASE j \in 1..Len(collector) /\ collector'[j] = collector[j]
      <4>1. i \in 1..Len(collector) /\ collector'[i] = collector[i]
        BY <1>3, <2>1, <2>4, <3>1
      <4>2. QED
        BY <2>4, <3>1, <4>1 DEF ReceiverInv, InOrder
    <3>2. CASE collector'[j] = DeliveryEvent(n)
      BY <2>3, <2>4, <3>2, ReceiverEventFacts
    <3>3. QED
      BY <1>3, <3>1, <3>2
  <2>5. QED
    BY <1>1, <2>3, <2>4 DEF InOrder
<1>8. HasEvent'
  <2> SUFFICES ASSUME Takes, NEW e \in 1..n, count < e PROVE Queued(DeliveryEvent(e), collector')
    BY <1>1 DEF HasEvent, Takes, AtLimit
  <2>1. CASE e = n
    BY <1>3, <2>1
  <2>2. CASE e # n
    <3>1. e \in 1..arrived /\ ~(partial /\ e = arrived)
      BY <1>2, <2>2 DEF Transfers
    <3>2. QED
      BY <1>3, <3>1 DEF ReceiverInv, HasEvent
  <2>3. QED
    BY <2>1, <2>2
<1>9. QED
  BY <1>6, <1>7, <1>8 DEF ReceiverInv

LEMMA ReceiverIdles ==
  ASSUME ReceiverInv, Idles PROVE ReceiverInv'
<1> USE DEF Idles, Kept, Unsent
<1>1. ReceiverTypes' /\ Window' /\ Whole'
  BY DEF ReceiverInv, ReceiverTypes, Window, Whole
<1>2. InOrder' /\ HasEvent'
  BY DEF ReceiverInv, InOrder, HasEvent, Takes, AtLimit, Queued
<1>3. QED
  BY <1>1, <1>2 DEF ReceiverInv

LEMMA ReceiverPreserved == ReceiverInv /\ ReceiverStep => ReceiverInv'
BY ReceiverAccepts, ReceiverIgnores, ReceiverServes, ReceiverRaises, ReceiverTransfers, ReceiverIdles DEF ReceiverStep

-----------------------------------------------------------------------------
\* receiver.c of clients/scale, and latency-receiver.c.

\* The event that opens the connection is handled before anything else.
Started == conn = "init" => turn = "drain" /\ collector = <<ConnectionInitEvent>>

\* A window of 1 is never topped up by receiver.c: half of it is 0.
ScaleReceiverInv == Started /\ (conn # "init" => credit > 0 \/ credit_window = 1)

LEMMA StartedFacts ==
  ASSUME Started, turn = "io" \/ collector = <<>> \/ Head(collector).type # "PN_CONNECTION_INIT"
  PROVE  conn # "init"
BY DEF Started, ConnectionInitEvent, Event

\* The frames receiver.c is sent.
LEMMA ReceivingPeer ==
  ASSUME ReceiverInv, UNCHANGED <<program, presettle, settled>>,
         Receiving!Link!PeerSends \/ Receiving!Link!PeerEnds \/ Receiving!Link!PeerContinue(TRUE)
  PROVE  (\E n \in Nat : Transfers(n)) /\ turn = "io" /\ UNCHANGED <<turn, conn, link, stop, armed>>
<1>0. arrived \in Nat /\ arrived + 1 \in Nat
  BY DEF ReceiverInv, ReceiverTypes
<1> USE DEF Receiving!Link!optVars, Kept
<1>1. ASSUME NEW more \in BOOLEAN, Receiving!Link!PeerTransfer(more)
      PROVE  Transfers(arrived + 1) /\ turn = "io" /\ UNCHANGED <<turn, conn, link, stop, armed>>
  <2>1. partial' \in BOOLEAN
    BY <1>1, Zenon DEF Receiving!Link!PeerTransfer
  <2>2. QED
    BY <1>1, <2>1 DEF Receiving!Link!PeerTransfer, Transfers, Receiving!Link!Reads, Receiving!Link!Connected, Receiving!Link!Put, Put, Receiving!Link!DeliveryEvent, DeliveryEvent, Receiving!Link!Event, Event
<1>2. ASSUME NEW more \in BOOLEAN, Receiving!Link!PeerContinue(more)
      PROVE  Transfers(arrived) /\ turn = "io" /\ UNCHANGED <<turn, conn, link, stop, armed>>
  <2>1. partial' \in BOOLEAN
    BY <1>2, Zenon DEF Receiving!Link!PeerContinue
  <2>2. QED
    BY <1>2, <2>1 DEF Receiving!Link!PeerContinue, Transfers, Receiving!Link!Reads, Receiving!Link!Connected, Receiving!Link!Put, Put, Receiving!Link!DeliveryEvent, DeliveryEvent, Receiving!Link!Event, Event
<1>3. CASE Receiving!Link!PeerAbort
  <2>1. partial' = FALSE
    BY <1>3 DEF Receiving!Link!PeerAbort
  <2>2. partial' \in BOOLEAN /\ ~partial'
    BY <2>1
  <2>3. Transfers(arrived) /\ turn = "io" /\ UNCHANGED <<turn, conn, link, stop, armed>>
    BY <1>3, <2>2 DEF Receiving!Link!PeerAbort, Transfers, Receiving!Link!Reads, Receiving!Link!Connected, Receiving!Link!Put, Put, Receiving!Link!DeliveryEvent, DeliveryEvent, Receiving!Link!Event, Event
  <2>4. QED
    BY <1>0, <2>3
<1>4. CASE Receiving!Link!PeerSends
  BY <1>0, <1>1, <1>4 DEF Receiving!Link!PeerSends
<1>5. CASE Receiving!Link!PeerContinue(TRUE) \/ Receiving!Link!PeerContinue(FALSE)
  BY <1>0, <1>2, <1>5
<1>6. QED
  BY <1>3, <1>4, <1>5 DEF Receiving!Link!PeerEnds

\* The credit after a message, in receiver.c.
LEMMA ScaleTopUp ==
  ASSUME NEW w \in Nat \ {0}, credit_window = w, NEW left \in Nat, left <= w
  PROVE  /\ Receiving!TopUp(left) \in Nat
         /\ left <= Receiving!TopUp(left) /\ Receiving!TopUp(left) <= w
         /\ Receiving!TopUp(left) > 0 \/ w = 1
BY DEF Receiving!TopUp

LEMMA ReceivingDelivery ==
  ASSUME ReceiverInv, ScaleReceiverInv, program = "receiver", UNCHANGED <<program, presettle, settled>>,
         Receiving!Delivery
  PROVE  ScaleReceiverInv' /\ ReceiverStep
<1>0. PICK d : d = Head(collector).dlv
  OBVIOUS
<1>1. /\ Pops /\ IsDelivery(Head(collector)) /\ Kept /\ Unsent /\ Takes
      /\ Receiving!AcceptMessage(d) \/ Receiving!IgnoreDelivery(d)
      /\ Head(collector).type = "PN_DELIVERY" /\ UNCHANGED <<turn, credit_window>>
  BY <1>0 DEF Receiving!Delivery, Receiving!Dispatch, Receiving!optVars, Receiving!peerVars,
              Pops, IsDelivery, Kept, Unsent, Takes
<1>2. conn # "init"
  BY <1>1, StartedFacts DEF ScaleReceiverInv
<1>3. (Receiving!Link!Readable(d) /\ ~Receiving!Link!Partial(d)) <=> Due(d)
  BY DEF Receiving!Link!Readable, Receiving!Link!Partial, Due
<1>4. CASE Receiving!AcceptMessage(d)
  <2>1. Due(d) /\ count' = count + 1 /\ credit' = Receiving!TopUp(credit - 1) /\ conn' \in {conn, "closing"}
    BY <1>3, <1>4 DEF Receiving!AcceptMessage
  <2>2. credit_window \in Nat \ {0} /\ credit - 1 \in Nat /\ credit - 1 <= credit_window
    BY <2>1 DEF ReceiverInv, ReceiverTypes, Window, Due
  <2>3. credit' \in Nat /\ credit - 1 <= credit' /\ credit' <= credit_window /\ (credit' > 0 \/ credit_window = 1)
    BY <2>1, <2>2, ScaleTopUp
  <2>4. Accepts
    BY <1>0, <1>1, <2>1, <2>3 DEF Accepts
  <2>5. QED
    BY <1>1, <1>2, <2>1, <2>3, <2>4 DEF ScaleReceiverInv, Started, ReceiverStep
<1>5. CASE Receiving!IgnoreDelivery(d)
  <2>1. ~Due(d) /\ UNCHANGED <<count, credit, conn>>
    BY <1>3, <1>5 DEF Receiving!IgnoreDelivery
  <2>2. Ignores
    BY <1>0, <1>1, <2>1 DEF Ignores
  <2>3. QED
    BY <1>1, <1>2, <2>1, <2>2 DEF ScaleReceiverInv, Started, ReceiverStep
<1>6. QED
  BY <1>1, <1>4, <1>5

LEMMA ReceivingStep ==
  ASSUME ReceiverInv, ScaleReceiverInv, program = "receiver", UNCHANGED <<program, presettle, settled>>,
         Receiving!Next
  PROVE  ScaleReceiverInv' /\ ReceiverStep
<1> USE DEF Receiving!Link!Unaffected, Receiving!Link!optVars, Receiving!Link!peerVars
<1>1. CASE Receiving!ConnectionInit
  <2>1. Serves /\ credit' = credit_window /\ UNCHANGED credit_window /\ conn' = "open"
    BY <1>1 DEF Receiving!ConnectionInit, Receiving!Link!ConnectionInit, Receiving!Link!Dispatch,
                Serves, Pops, IsDelivery, Kept, Unsent
  <2>2. credit_window > 0
    BY DEF ReceiverInv, ReceiverTypes
  <2>3. QED
    BY <2>1, <2>2 DEF ScaleReceiverInv, Started, ReceiverStep
<1>2. CASE Receiving!Delivery
  BY <1>2, ReceivingDelivery
<1>3. ASSUME Idles, conn' = "init" <=> conn = "init", conn # "init" \/ turn' = turn
      PROVE  ScaleReceiverInv' /\ ReceiverStep
  BY <1>3 DEF ScaleReceiverInv, Started, ReceiverStep, Idles, Kept
<1>4. CASE Receiving!Main
  <2>1. Idles
    BY <1>4 DEF Receiving!Main, Receiving!Quiesce, Receiving!MainLoop, Idles, Kept, Unsent
  <2>2. conn # "init"
    BY <1>4, StartedFacts DEF Receiving!Main, Receiving!Quiesce, Receiving!MainLoop, ScaleReceiverInv
  <2>3. conn' # "init"
    BY <1>4, <2>2 DEF Receiving!Main, Receiving!Quiesce, Receiving!MainLoop
  <2>4. QED
    BY <1>3, <2>1, <2>2, <2>3
<1>5. CASE Receiving!PeerSends \/ Receiving!PeerEnds \/ Receiving!PeerMore
  <2>1. (\E n \in Nat : Transfers(n)) /\ turn = "io" /\ UNCHANGED <<turn, conn, link, stop, armed>>
    BY <1>5, ReceivingPeer DEF Receiving!PeerSends, Receiving!PeerEnds, Receiving!PeerMore
  <2>2. UNCHANGED <<credit, credit_window>> /\ conn # "init"
    BY <2>1, StartedFacts DEF Transfers, Kept, ScaleReceiverInv
  <2>3. QED
    BY <2>1, <2>2 DEF ScaleReceiverInv, Started, ReceiverStep
<1>6. CASE Receiving!PeerLeaves
  <2>1. Idles /\ turn = "io" /\ UNCHANGED turn /\ conn' \in {conn, "closed"}
    BY <1>6 DEF Receiving!PeerLeaves, Receiving!Link!PeerClose, Receiving!Link!PeerDetach, Receiving!Link!PeerCloses,
                Receiving!Link!PeerDetaches, Receiving!Link!Connected, Idles, Kept, Unsent
  <2>2. conn # "init"
    BY <2>1, StartedFacts DEF ScaleReceiverInv
  <2>3. QED
    BY <1>3, <2>1, <2>2
<1>7. CASE Receiving!Exited
  BY <1>3, <1>7 DEF Receiving!Exited, Receiving!vars, Receiving!loopVars, Receiving!optVars, Receiving!peerVars,
                    Idles, Kept, Unsent
<1>8. QED
  BY <1>1, <1>2, <1>4, <1>5, <1>6, <1>7 DEF Receiving!Next, Receiving!Client

-----------------------------------------------------------------------------
\* latency-receiver.c, until it ends at a message it cannot read.
LatencyInv ==
  /\ Started
  /\ turn # "failed" => /\ conn # "init" /\ ~AtLimit => credit > credit_window \div 2
                        /\ aborted \intersect (1..count) = {}

\* The frames latency-receiver.c is sent.
LEMMA LatencyPeer ==
  ASSUME ReceiverInv, UNCHANGED <<program, presettle, settled>>,
         Latency!Link!PeerSends \/ Latency!Link!PeerEnds \/ Latency!Link!PeerContinue(TRUE)
  PROVE  (\E n \in Nat : Transfers(n)) /\ turn = "io" /\ UNCHANGED <<turn, conn, link, stop, armed>>
<1>0. arrived \in Nat /\ arrived + 1 \in Nat
  BY DEF ReceiverInv, ReceiverTypes
<1> USE DEF Latency!Link!optVars, Kept
<1>1. ASSUME NEW more \in BOOLEAN, Latency!Link!PeerTransfer(more)
      PROVE  Transfers(arrived + 1) /\ turn = "io" /\ UNCHANGED <<turn, conn, link, stop, armed>>
  <2>1. partial' \in BOOLEAN
    BY <1>1, Zenon DEF Latency!Link!PeerTransfer
  <2>2. QED
    BY <1>1, <2>1 DEF Latency!Link!PeerTransfer, Transfers, Latency!Link!Reads, Latency!Link!Connected, Latency!Link!Put, Put, Latency!Link!DeliveryEvent, DeliveryEvent, Latency!Link!Event, Event
<1>2. ASSUME NEW more \in BOOLEAN, Latency!Link!PeerContinue(more)
      PROVE  Transfers(arrived) /\ turn = "io" /\ UNCHANGED <<turn, conn, link, stop, armed>>
  <2>1. partial' \in BOOLEAN
    BY <1>2, Zenon DEF Latency!Link!PeerContinue
  <2>2. QED
    BY <1>2, <2>1 DEF Latency!Link!PeerContinue, Transfers, Latency!Link!Reads, Latency!Link!Connected, Latency!Link!Put, Put, Latency!Link!DeliveryEvent, DeliveryEvent, Latency!Link!Event, Event
<1>3. CASE Latency!Link!PeerAbort
  <2>1. partial' = FALSE
    BY <1>3 DEF Latency!Link!PeerAbort
  <2>2. partial' \in BOOLEAN /\ ~partial'
    BY <2>1
  <2>3. Transfers(arrived) /\ turn = "io" /\ UNCHANGED <<turn, conn, link, stop, armed>>
    BY <1>3, <2>2 DEF Latency!Link!PeerAbort, Transfers, Latency!Link!Reads, Latency!Link!Connected, Latency!Link!Put, Put, Latency!Link!DeliveryEvent, DeliveryEvent, Latency!Link!Event, Event
  <2>4. QED
    BY <1>0, <2>3
<1>4. CASE Latency!Link!PeerSends
  BY <1>0, <1>1, <1>4 DEF Latency!Link!PeerSends
<1>5. CASE Latency!Link!PeerContinue(TRUE) \/ Latency!Link!PeerContinue(FALSE)
  BY <1>0, <1>2, <1>5
<1>6. QED
  BY <1>3, <1>4, <1>5 DEF Latency!Link!PeerEnds

\* The credit after a message, in the benchmark receivers.
LEMMA HalfWindowTopUp ==
  ASSUME NEW w \in Nat \ {0}, NEW left \in Nat, left <= w,
         NEW c, c = IF left <= w \div 2 THEN w ELSE left
  PROVE  c \in Nat /\ left <= c /\ c <= w /\ c > w \div 2
OBVIOUS

LEMMA LatencyDelivery ==
  ASSUME ReceiverInv, LatencyInv, program = "latency-receiver", UNCHANGED <<program, presettle, settled>>,
         Latency!Delivery
  PROVE  LatencyInv' /\ ReceiverStep
<1>0. PICK d : d = Head(collector).dlv
  OBVIOUS
<1>1. /\ Pops /\ IsDelivery(Head(collector)) /\ Kept /\ Unsent /\ turn = "drain"
      /\ Latency!AcceptMessage(d) \/ Latency!FatalMessage(d) \/ Latency!IgnoreDelivery(d)
      /\ Head(collector).type = "PN_DELIVERY" /\ UNCHANGED <<conn, limit, credit_window, aborted>>
  BY <1>0 DEF Latency!Delivery, Latency!Dispatch, Latency!optVars, Latency!peerVars,
              Pops, IsDelivery, Kept, Unsent
<1>2. conn # "init"
  BY <1>1, StartedFacts DEF LatencyInv
<1>3. /\ (Latency!Link!Readable(d) /\ ~Latency!Link!Partial(d)) <=> Due(d)
      /\ Takes <=> ~Latency!Link!AtLimit
  BY DEF Latency!Link!Readable, Latency!Link!Partial, Due, Latency!Link!AtLimit, Takes, AtLimit
<1>4. /\ credit_window \in Nat \ {0} /\ credit \in Nat /\ count \in Nat
      /\ Due(d) => d = count + 1 /\ credit - 1 \in Nat /\ credit - 1 <= credit_window /\ credit <= credit_window
  BY DEF ReceiverInv, ReceiverTypes, Window, Due
<1>5. CASE Latency!AcceptMessage(d)
  <2>1. /\ d \notin aborted /\ Takes /\ Due(d) /\ count' = count + 1 /\ UNCHANGED turn
        /\ credit' = IF limit > 0 /\ count' = limit THEN credit - 1 ELSE Latency!Link!TopUp(credit - 1)
    BY <1>3, <1>5 DEF Latency!AcceptMessage, Latency!Link!AcceptMessage
  <2>2. PICK c : c = IF credit - 1 <= credit_window \div 2 THEN credit_window ELSE credit - 1
    OBVIOUS
  <2>3. Latency!Link!TopUp(credit - 1) = c
    BY <2>2 DEF Latency!Link!TopUp
  <2>4. c \in Nat /\ credit - 1 <= c /\ c <= credit_window /\ c > credit_window \div 2
    BY <1>4, <2>1, <2>2, HalfWindowTopUp
  <2>5. /\ credit' \in Nat /\ credit - 1 <= credit' /\ credit' <= credit_window
        /\ ~(limit > 0 /\ count' = limit) => credit' > credit_window \div 2
    BY <1>4, <2>1, <2>3, <2>4
  <2>6. Accepts
    BY <1>0, <1>1, <2>1, <2>5 DEF Accepts
  <2>7. aborted \intersect (1..(count + 1)) = {}
    <3>1. \A e \in 1..(count + 1) : e = d \/ e \in 1..count
      BY <1>4, <2>1
    <3>2. QED
      BY <1>1, <2>1, <3>1 DEF LatencyInv
  <2>8. QED
    BY <1>1, <1>2, <2>1, <2>5, <2>6, <2>7 DEF LatencyInv, Started, AtLimit, ReceiverStep
<1>6. CASE Latency!FatalMessage(d)
  <2>1. Takes /\ Due(d) /\ count' = count + 1 /\ credit' \in {credit, credit - 1} /\ turn' = "failed"
    BY <1>3, <1>6 DEF Latency!FatalMessage
  <2>2. Accepts
    BY <1>0, <1>1, <1>4, <2>1 DEF Accepts
  <2>3. QED
    BY <1>1, <1>2, <2>1, <2>2 DEF LatencyInv, Started, ReceiverStep
<1>7. CASE Latency!IgnoreDelivery(d)
  <2>1. (~Takes \/ ~Due(d)) /\ UNCHANGED <<count, credit, turn>>
    BY <1>3, <1>7 DEF Latency!IgnoreDelivery, Latency!Link!IgnoreDelivery
  <2>2. Ignores
    BY <1>0, <1>1, <2>1 DEF Ignores
  <2>3. QED
    BY <1>1, <1>2, <2>1, <2>2 DEF LatencyInv, Started, AtLimit, ReceiverStep
<1>8. QED
  BY <1>1, <1>5, <1>6, <1>7

\* Only what is not complete, and so not counted, is aborted.
LEMMA AbortsUncounted ==
  ASSUME ReceiverInv, NEW n \in Nat, Transfers(n), aborted \intersect (1..count) = {}
  PROVE  aborted' \intersect (1..count') = {}
<1>1. partial => arrived \notin 1..count
  BY DEF ReceiverInv, ReceiverTypes, Whole
<1>2. QED
  BY <1>1 DEF Transfers

LEMMA LatencyStep ==
  ASSUME ReceiverInv, LatencyInv, program = "latency-receiver", UNCHANGED <<program, presettle, settled>>,
         Latency!Next
  PROVE  LatencyInv' /\ ReceiverStep
<1> USE DEF Latency!Link!Unaffected, Latency!Link!optVars, Latency!Link!peerVars
<1>1. CASE Latency!ConnectionInit
  <2>1. /\ Serves /\ credit' = credit_window /\ conn' = "open" /\ turn = "drain"
        /\ UNCHANGED <<credit_window, aborted, count, turn>>
    BY <1>1 DEF Latency!ConnectionInit, Latency!Link!ConnectionInit, Latency!Link!Dispatch,
                Serves, Pops, IsDelivery, Kept, Unsent
  <2>2. credit_window > credit_window \div 2
    BY DEF ReceiverInv, ReceiverTypes
  <2>3. QED
    BY <2>1, <2>2 DEF LatencyInv, Started, ReceiverStep
<1>2. CASE Latency!Delivery
  BY <1>2, LatencyDelivery
<1>3. ASSUME Idles, conn' = "init" <=> conn = "init", conn # "init" \/ turn' = turn, turn = "failed" => turn' = "failed"
      PROVE  LatencyInv' /\ ReceiverStep
  BY <1>3 DEF LatencyInv, Started, AtLimit, ReceiverStep, Idles, Kept, Unsent
<1>4. CASE Latency!Main
  <2>1. Idles /\ turn # "failed"
    BY <1>4 DEF Latency!Main, Latency!Quiesce, Latency!MainLoop, Idles, Kept, Unsent
  <2>2. conn # "init"
    BY <1>4, StartedFacts DEF Latency!Main, Latency!Quiesce, Latency!MainLoop, LatencyInv
  <2>3. conn' # "init"
    BY <1>4, <2>2 DEF Latency!Main, Latency!Quiesce, Latency!MainLoop
  <2>4. QED
    BY <1>3, <2>1, <2>2, <2>3
<1>5. CASE Latency!SignalHandler
  BY <1>3, <1>5 DEF Latency!SignalHandler, Latency!Signal, Idles, Kept, Unsent
<1>6. CASE Latency!PeerSends \/ Latency!PeerEnds \/ Latency!PeerMore
  <2>1. (\E n \in Nat : Transfers(n)) /\ turn = "io" /\ UNCHANGED <<turn, conn, link, stop, armed>>
    BY <1>6, LatencyPeer DEF Latency!PeerSends, Latency!PeerEnds, Latency!PeerMore
  <2>2. UNCHANGED <<credit, credit_window, limit, count>> /\ conn # "init"
    BY <2>1, StartedFacts DEF Transfers, Kept, LatencyInv
  <2>3. aborted \intersect (1..count) = {}
    BY <2>1 DEF LatencyInv
  <2>4. aborted' \intersect (1..count') = {}
    BY <2>1, <2>3, AbortsUncounted
  <2>5. QED
    BY <2>1, <2>2, <2>4 DEF LatencyInv, Started, AtLimit, ReceiverStep
<1>7. CASE Latency!PeerLeaves
  <2>1. Idles /\ turn = "io" /\ UNCHANGED turn /\ conn' \in {conn, "closed"}
    BY <1>7 DEF Latency!PeerLeaves, Latency!Link!PeerClose, Latency!Link!PeerDetach, Latency!Link!PeerCloses,
                Latency!Link!PeerDetaches, Latency!Link!Connected, Idles, Kept, Unsent
  <2>2. conn # "init"
    BY <2>1, StartedFacts DEF LatencyInv
  <2>3. QED
    BY <1>3, <2>1, <2>2
<1>8. CASE Latency!Exited
  BY <1>3, <1>8 DEF Latency!Exited, Latency!vars, Latency!loopVars, Latency!optVars, Latency!peerVars,
                    Idles, Kept, Unsent
<1>9. QED
  BY <1>1, <1>2, <1>4, <1>5, <1>6, <1>7, <1>8 DEF Latency!Next, Latency!Client

-----------------------------------------------------------------------------
\* throughput-receiver.c.

IsClose(e) == e.type = "PN_CONNECTION_REMOTE_CLOSE"

\* The peer's connection is gone; and, in server mode, all that it sent is
\* handled.
Shut == conn \in {"closed", "gone"}
Over == server_mode /\ Shut /\ \A i \in 1..Len(collector) : ~IsDelivery(collector[i])

\* The clock has been stopped.
Stopped == stamps \in {<<"stop_ts">>, <<"start_ts", "stop_ts">>}

ThroughputTypes ==
  /\ server_mode \in BOOLEAN /\ connects \in Nat
  /\ acceptor \in {"none", "listening", "closed", "freed"} /\ (server_mode => acceptor # "none")
  /\ turn = "exit" => acceptor # "listening"

Granted == endpoints = "link" /\ ~AtLimit => credit > credit_window \div 2

\* Nothing is delivered after the peer's close, of which the program is told
\* only in server mode.
ClosedLast ==
  /\ \A i \in 1..Len(collector) : IsClose(collector[i]) => server_mode /\ Shut
  /\ \A i, j \in 1..Len(collector) : i < j /\ IsClose(collector[i]) => ~IsDelivery(collector[j])

\* Without a signal the clock starts with the first message, and stops with
\* the last one or with the close, after which no message comes.
Clock ==
  armed /\ turn # "spin" =>
    /\ stop => AtLimit
    /\ AtLimit => stamps = <<"start_ts", "stop_ts">>
    /\ stamps \in IF count = 0 THEN {<<>>, <<"stop_ts">>} ELSE {<<"start_ts">>, <<"start_ts", "stop_ts">>}
    /\ ~AtLimit /\ Stopped => Over
    /\ acceptor \in {"closed", "freed"} => Stopped

ThroughputInv == ThroughputTypes /\ Granted /\ ClosedLast /\ Clock

\* What the steps do to the events that wait.
LEMMA PopsClosed ==
  ASSUME ReceiverInv, ClosedLast, Pops, Kept, Unsent, UNCHANGED server_mode, server_mode /\ Shut => Shut'
  PROVE  ClosedLast' /\ (Over => Over')
<1>1. \A i \in 1..Len(collector') : i \in Int /\ i + 1 \in 1..Len(collector) /\ collector'[i] = collector[i + 1]
  BY PopFacts
<1>2. \A i, j \in 1..Len(collector') : i < j => i + 1 < j + 1
  BY <1>1
<1>3. QED
  BY <1>1, <1>2 DEF ClosedLast, Over

LEMMA RaisesClosed ==
  ASSUME ReceiverInv, ClosedLast, UNCHANGED server_mode, server_mode /\ Shut => Shut',
         NEW e \in ReceiverEvents, ~IsDelivery(e), IsClose(e) => server_mode /\ Shut',
         collector' \in {Put(collector, e), Append(collector, e)}
  PROVE  ClosedLast' /\ (Over => Over')
<1>1. /\ Len(collector) \in Nat
      /\ \A i \in 1..Len(collector') : \/ i \in 1..Len(collector) /\ collector'[i] = collector[i]
                                       \/ i = Len(collector) + 1 /\ i = Len(collector') /\ collector'[i] = e
  <2>1. Len(collector) \in Nat
    BY DEF ReceiverInv, ReceiverTypes
  <2>2. QED
    BY <2>1, RaisedFacts
<1>2. \A i \in 1..Len(collector') : IsClose(collector'[i]) => server_mode' /\ Shut'
  BY <1>1 DEF ClosedLast
<1>3. ASSUME NEW i \in 1..Len(collector'), NEW j \in 1..Len(collector'), i < j, IsClose(collector'[i])
      PROVE  ~IsDelivery(collector'[j])
  <2>1. CASE j \in 1..Len(collector) /\ collector'[j] = collector[j]
    <3>1. i \in 1..Len(collector) /\ collector'[i] = collector[i]
      BY <1>1, <1>3, <2>1
    <3>2. QED
      BY <1>3, <2>1, <3>1 DEF ClosedLast
  <2>2. CASE collector'[j] = e
    BY <2>2
  <2>3. QED
    BY <1>1, <2>1, <2>2
<1>4. Over => Over'
  BY <1>1 DEF Over
<1>5. QED
  BY <1>2, <1>3, <1>4 DEF ClosedLast

LEMMA TransfersClosed ==
  ASSUME ReceiverInv, ClosedLast, UNCHANGED <<server_mode, conn>>, ~Shut, NEW n \in Nat, Transfers(n)
  PROVE  ClosedLast' /\ ~Over
<1>1. \A i \in 1..Len(collector') : \/ i \in 1..Len(collector) /\ collector'[i] = collector[i]
                                   \/ collector'[i] = DeliveryEvent(n)
  <2>1. DeliveryEvent(n) \in ReceiverEvents /\ collector' \in {Put(collector, DeliveryEvent(n)), Append(collector, DeliveryEvent(n))}
    BY ReceiverEventFacts DEF Transfers
  <2>2. QED
    BY <2>1, RaisedFacts
<1>2. ~IsClose(DeliveryEvent(n))
  BY DEF IsClose, DeliveryEvent, Event
<1>3. \A i \in 1..Len(collector') : ~IsClose(collector'[i])
  BY <1>1, <1>2 DEF ClosedLast
<1>4. QED
  BY <1>3 DEF ClosedLast, Over

LEMMA IdlesClosed ==
  ASSUME ClosedLast, UNCHANGED <<collector, server_mode>>, server_mode /\ Shut => Shut'
  PROVE  ClosedLast' /\ (Over => Over')
BY DEF ClosedLast, Over

\* A step that neither counts a message nor takes the time.
LEMMA ThroughFrame ==
  ASSUME ThroughputInv, UNCHANGED <<server_mode, stamps, armed, stop, limit, count, credit_window>>,
         connects' \in Nat, credit_window \in Nat \ {0},
         \/ acceptor' = acceptor
         \/ acceptor' = "closed" /\ acceptor = "listening" /\ stop
         \/ acceptor' = "freed" /\ acceptor = "closed",
         turn = "spin" => turn' = "spin",
         turn' = "exit" => turn = "exit" \/ acceptor' # "listening",
         ClosedLast', Over => Over',
         endpoints' = "link" => credit' = credit_window \/ (endpoints = "link" /\ credit' = credit)
  PROVE  ThroughputInv'
<1>1. AtLimit' <=> AtLimit
  BY DEF AtLimit
<1>2. Granted'
  <2>1. credit_window > credit_window \div 2
    OBVIOUS
  <2>2. QED
    BY <1>1, <2>1 DEF ThroughputInv, Granted
<1>3. ThroughputTypes'
  BY DEF ThroughputInv, ThroughputTypes
<1>4. Stopped' <=> Stopped
  BY DEF Stopped
<1>5. <<"start_ts", "stop_ts">> = stamps => Stopped
  BY DEF Stopped
<1>6. Clock'
  <2> SUFFICES ASSUME armed, turn # "spin"
               PROVE  /\ stop => AtLimit
                      /\ AtLimit => stamps = <<"start_ts", "stop_ts">>
                      /\ stamps \in IF count = 0 THEN {<<>>, <<"stop_ts">>} ELSE {<<"start_ts">>, <<"start_ts", "stop_ts">>}
                      /\ ~AtLimit /\ Stopped => Over'
                      /\ acceptor' \in {"closed", "freed"} => Stopped
    BY <1>1, <1>4 DEF Clock
  <2>1. /\ stop => AtLimit
        /\ AtLimit => stamps = <<"start_ts", "stop_ts">>
        /\ stamps \in IF count = 0 THEN {<<>>, <<"stop_ts">>} ELSE {<<"start_ts">>, <<"start_ts", "stop_ts">>}
        /\ ~AtLimit /\ Stopped => Over
        /\ acceptor \in {"closed", "freed"} => Stopped
    BY DEF ThroughputInv, Clock
  <2>2. acceptor' \in {"closed", "freed"} => Stopped
    BY <1>5, <2>1
  <2>3. QED
    BY <2>1, <2>2
<1>7. QED
  BY <1>2, <1>3, <1>6 DEF ThroughputInv

\* Appending to a sequence of one element.
LEMMA AppendPair ==
  ASSUME NEW a, NEW b
  PROVE  Append(<<a>>, b) = <<a, b>>
<1>1. <<a>> \in Seq({a, b}) /\ <<a, b>> \in Seq({a, b})
  OBVIOUS
<1>2. Append(<<a>>, b) \in Seq({a, b}) /\ Len(Append(<<a>>, b)) = 2 /\ Len(<<a, b>>) = 2
  BY <1>1
<1>3. Append(<<a>>, b)[1] = a /\ Append(<<a>>, b)[2] = b
  BY <1>1
<1>4. \A i \in 1..2 : Append(<<a>>, b)[i] = <<a, b>>[i]
  BY <1>3
<1>5. QED
  BY <1>1, <1>2, <1>4, SeqEqual

\* What taking a stamp does, case by case.
LEMMA TakeFacts ==
  /\ stamps = <<>> => /\ Through!Take("start_ts") = <<"start_ts">>
                      /\ Through!Take("stop_ts") = <<"stop_ts">>
  /\ stamps = <<"start_ts">> => /\ Through!Take("start_ts") = stamps
                                /\ Through!Take("stop_ts") = <<"start_ts", "stop_ts">>
  /\ Stopped => Through!Take("stop_ts") = stamps
<1>1. Len(<<>>) = 0 /\ Append(<<>>, "start_ts") = <<"start_ts">> /\ Append(<<>>, "stop_ts") = <<"stop_ts">>
  OBVIOUS
<1>2. ASSUME stamps = <<>> PROVE Through!Take("start_ts") = <<"start_ts">> /\ Through!Take("stop_ts") = <<"stop_ts">>
  <2>1. ~\E i \in 1..Len(stamps) : stamps[i] = "start_ts" \/ stamps[i] = "stop_ts"
    BY <1>2
  <2>2. QED
    BY <1>1, <1>2, <2>1 DEF Through!Take
<1>3. ASSUME stamps = <<"start_ts">>
      PROVE  Through!Take("start_ts") = stamps /\ Through!Take("stop_ts") = <<"start_ts", "stop_ts">>
  <2>1. Len(stamps) = 1 /\ stamps[1] = "start_ts" /\ Append(stamps, "stop_ts") = <<"start_ts", "stop_ts">>
    BY <1>3, AppendPair
  <2>2. (\E i \in 1..Len(stamps) : stamps[i] = "start_ts") /\ ~\E i \in 1..Len(stamps) : stamps[i] = "stop_ts"
    BY <2>1
  <2>3. QED
    BY <2>1, <2>2 DEF Through!Take
<1>4. ASSUME Stopped PROVE Through!Take("stop_ts") = stamps
  <2>1. CASE stamps = <<"stop_ts">>
    <3>1. 1 \in 1..Len(stamps) /\ stamps[1] = "stop_ts"
      BY <2>1
    <3>2. QED
      BY <3>1 DEF Through!Take
  <2>2. CASE stamps = <<"start_ts", "stop_ts">>
    <3>1. 2 \in 1..Len(stamps) /\ stamps[2] = "stop_ts"
      BY <2>2
    <3>2. QED
      BY <3>1 DEF Through!Take
  <2>3. QED
    BY <1>4, <2>1, <2>2 DEF Stopped
<1>5. QED
  BY <1>2, <1>3, <1>4

\* The frames throughput-receiver.c is sent.
LEMMA ThroughPeer ==
  ASSUME ReceiverInv, UNCHANGED <<program, presettle, settled>>,
         Through!Link!PeerSends \/ Through!Link!PeerEnds \/ Through!Link!PeerContinue(TRUE)
  PROVE  (\E n \in Nat : Transfers(n)) /\ turn = "io" /\ UNCHANGED <<turn, conn, link, stop, armed>>
<1>0. arrived \in Nat /\ arrived + 1 \in Nat
  BY DEF ReceiverInv, ReceiverTypes
<1> USE DEF Through!Link!optVars, Kept
<1>1. ASSUME NEW more \in BOOLEAN, Through!Link!PeerTransfer(more)
      PROVE  Transfers(arrived + 1) /\ turn = "io" /\ UNCHANGED <<turn, conn, link, stop, armed>>
  <2>1. partial' \in BOOLEAN
    BY <1>1, Zenon DEF Through!Link!PeerTransfer
  <2>2. QED
    BY <1>1, <2>1 DEF Through!Link!PeerTransfer, Transfers, Through!Link!Reads, Through!Link!Connected, Through!Link!Put, Put, Through!Link!DeliveryEvent, DeliveryEvent, Through!Link!Event, Event
<1>2. ASSUME NEW more \in BOOLEAN, Through!Link!PeerContinue(more)
      PROVE  Transfers(arrived) /\ turn = "io" /\ UNCHANGED <<turn, conn, link, stop, armed>>
  <2>1. partial' \in BOOLEAN
    BY <1>2, Zenon DEF Through!Link!PeerContinue
  <2>2. QED
    BY <1>2, <2>1 DEF Through!Link!PeerContinue, Transfers, Through!Link!Reads, Through!Link!Connected, Through!Link!Put, Put, Through!Link!DeliveryEvent, DeliveryEvent, Through!Link!Event, Event
<1>3. CASE Through!Link!PeerAbort
  <2>1. partial' = FALSE
    BY <1>3 DEF Through!Link!PeerAbort
  <2>2. partial' \in BOOLEAN /\ ~partial'
    BY <2>1
  <2>3. Transfers(arrived) /\ turn = "io" /\ UNCHANGED <<turn, conn, link, stop, armed>>
    BY <1>3, <2>2 DEF Through!Link!PeerAbort, Transfers, Through!Link!Reads, Through!Link!Connected, Through!Link!Put, Put, Through!Link!DeliveryEvent, DeliveryEvent, Through!Link!Event, Event
  <2>4. QED
    BY <1>0, <2>3
<1>4. CASE Through!Link!PeerSends
  BY <1>0, <1>1, <1>4 DEF Through!Link!PeerSends
<1>5. CASE Through!Link!PeerContinue(TRUE) \/ Through!Link!PeerContinue(FALSE)
  BY <1>0, <1>2, <1>5
<1>6. QED
  BY <1>3, <1>4, <1>5 DEF Through!Link!PeerEnds

LEMMA ThroughDelivery ==
  ASSUME ReceiverInv, ThroughputInv, program = "throughput-receiver", UNCHANGED <<program, presettle, settled>>,
         Through!Delivery
  PROVE  ThroughputInv' /\ ReceiverStep
<1>0. PICK d : d = Head(collector).dlv
  OBVIOUS
<1>1. /\ Pops /\ IsDelivery(Head(collector)) /\ Kept /\ Unsent /\ turn = "drain"
      /\ Through!AcceptMessage(d) \/ Through!ReadForever(d) \/ Through!IgnoreDelivery(d)
      /\ UNCHANGED <<conn, armed, limit, credit_window, partial, aborted, server_mode, connects, acceptor, endpoints>>
  BY <1>0 DEF Through!Delivery, Through!Dispatch, Through!optVars, Through!peerVars, Through!modeVars,
              Through!serverVars, Pops, IsDelivery, Kept, Unsent
<1>2. ClosedLast' /\ (Over => Over')
  BY <1>1, PopsClosed DEF ThroughputInv, Shut
<1>3. /\ (Through!Link!Readable(d) /\ ~Through!Link!Partial(d)) <=> Due(d)
      /\ Takes <=> ~AtLimit
      /\ Through!Link!AtLimit <=> AtLimit
  BY DEF Through!Link!Readable, Through!Link!Partial, Due, Through!Link!AtLimit, Takes, AtLimit
<1>4. /\ credit_window \in Nat \ {0} /\ credit \in Nat /\ count \in Nat
      /\ Due(d) => credit - 1 \in Nat /\ credit - 1 <= credit_window /\ credit <= credit_window
  BY DEF ReceiverInv, ReceiverTypes, Window, Due
<1>5. ThroughputTypes /\ Granted /\ Clock
  BY DEF ThroughputInv
<1>6. CASE Through!AcceptMessage(d)
  <2>0. PICK done \in BOOLEAN : done <=> limit > 0 /\ count + 1 = limit
    OBVIOUS
  <2>1. /\ Takes /\ Due(d) /\ count' = count + 1 /\ UNCHANGED turn
        /\ stop' = (stop \/ done)
        /\ credit' = IF done THEN credit - 1 ELSE Through!Link!TopUp(credit - 1)
    BY <1>3, <1>6, <2>0 DEF Through!AcceptMessage, Through!Link!AcceptMessage
  <2>2. PICK c : c = IF credit - 1 <= credit_window \div 2 THEN credit_window ELSE credit - 1
    OBVIOUS
  <2>3. Through!Link!TopUp(credit - 1) = c
    BY <2>2 DEF Through!Link!TopUp
  <2>4. c \in Nat /\ credit - 1 <= c /\ c <= credit_window /\ c > credit_window \div 2
    BY <1>4, <2>1, <2>2, HalfWindowTopUp
  <2>5. /\ credit' \in Nat /\ credit - 1 <= credit' /\ credit' <= credit_window
        /\ ~done => credit' > credit_window \div 2
    BY <1>4, <2>1, <2>3, <2>4
  <2>6. Accepts
    BY <1>0, <1>1, <2>1, <2>5 DEF Accepts
  <2>7. AtLimit' <=> done
    BY <1>1, <2>0, <2>1 DEF AtLimit
  <2>8. Granted'
    BY <1>1, <2>5, <2>7 DEF Granted
  <2>9. ThroughputTypes'
    BY <1>1, <1>5, <2>1 DEF ThroughputTypes
  <2>10. Clock'
    <3> SUFFICES ASSUME armed
                 PROVE  /\ stop' => done
                        /\ done => stamps' = <<"start_ts", "stop_ts">>
                        /\ stamps' \in {<<"start_ts">>, <<"start_ts", "stop_ts">>}
                        /\ ~done => ~Stopped'
                        /\ acceptor \notin {"closed", "freed"}
      <4>1. count' # 0
        BY <1>4, <2>1
      <4>2. QED
        BY <1>1, <2>7, <4>1 DEF Clock
    <3>1. ~AtLimit /\ ~Over
      <4>1. 1 \in 1..Len(collector) /\ IsDelivery(collector[1])
        BY <1>1, TailShape DEF ReceiverInv, ReceiverTypes, Pops
      <4>2. QED
        BY <1>3, <2>1, <4>1 DEF Over
    <3>2. /\ ~stop /\ ~Stopped /\ acceptor \notin {"closed", "freed"}
          /\ stamps = <<>> \/ stamps = <<"start_ts">>
      BY <1>1, <1>5, <3>1 DEF Clock, Stopped
    <3>3. Through!Take("start_ts") = <<"start_ts">>
      BY <3>2, TakeFacts
    <3>4. ~\E i \in 1..Len(<<"start_ts">>) : <<"start_ts">>[i] = "stop_ts"
      OBVIOUS
    <3>5. stamps' = IF done THEN <<"start_ts", "stop_ts">> ELSE <<"start_ts">>
      BY <1>6, <2>0, <2>1, <3>3, <3>4, AppendPair DEF Through!AcceptMessage
    <3>6. <<"start_ts">> # <<"stop_ts">> /\ <<"start_ts">> # <<"start_ts", "stop_ts">>
      <4>1. Len(<<"start_ts">>) = 1 /\ Len(<<"start_ts", "stop_ts">>) = 2
        OBVIOUS
      <4>2. <<"start_ts">>[1] = "start_ts" /\ <<"stop_ts">>[1] = "stop_ts"
        OBVIOUS
      <4>3. QED
        BY <4>1, <4>2
    <3>7. QED
      BY <2>1, <3>2, <3>5, <3>6 DEF Stopped
  <2>11. QED
    BY <1>2, <2>6, <2>8, <2>9, <2>10 DEF ThroughputInv, ReceiverStep
<1>7. CASE Through!ReadForever(d)
  <2>1. /\ Takes /\ Through!Link!Readable(d) /\ d \in aborted /\ count' = count + 1
        /\ turn' = "spin" /\ UNCHANGED credit
    BY <1>3, <1>7 DEF Through!ReadForever
  <2>2. Due(d)
    BY <2>1 DEF Through!Link!Readable, Due, ReceiverInv, Whole
  <2>3. Accepts
    BY <1>0, <1>1, <1>4, <2>1, <2>2 DEF Accepts
  <2>4. Granted'
    BY <1>1, <1>3, <1>5, <2>1 DEF Granted
  <2>5. ThroughputTypes' /\ Clock'
    BY <1>1, <1>5, <2>1 DEF ThroughputTypes, Clock
  <2>6. QED
    BY <1>2, <2>3, <2>4, <2>5 DEF ThroughputInv, ReceiverStep
<1>8. CASE Through!IgnoreDelivery(d)
  <2>1. (~Takes \/ ~Due(d)) /\ UNCHANGED <<count, credit, turn, stop, stamps>>
    BY <1>3, <1>8 DEF Through!IgnoreDelivery, Through!Link!IgnoreDelivery
  <2>2. Ignores
    BY <1>0, <1>1, <2>1 DEF Ignores
  <2>3. connects \in Nat
    BY <1>5 DEF ThroughputTypes
  <2>4. ThroughputInv'
    BY <1>1, <1>2, <1>4, <2>1, <2>3, ThroughFrame
  <2>5. QED
    BY <2>2, <2>4 DEF ReceiverStep
<1>9. QED
  BY <1>1, <1>6, <1>7, <1>8

\* The peer's close stops the clock: no message is left.
LEMMA ThroughClose ==
  ASSUME ReceiverInv, ThroughputInv, UNCHANGED <<program, presettle, settled>>, Through!ConnectionRemoteClose
  PROVE  ThroughputInv' /\ ReceiverStep
<1>1. /\ Head(collector).type = "PN_CONNECTION_REMOTE_CLOSE" /\ stamps' = Through!Take("stop_ts")
      /\ acceptor' = IF acceptor = "listening" THEN "closed" ELSE acceptor
      /\ UNCHANGED <<conn, stop, armed, server_mode, connects, endpoints, limit, credit_window, count, credit>>
      /\ turn' \in {turn, "failed"} /\ turn = "drain"
  BY DEF Through!ConnectionRemoteClose, Through!Dispatch, Through!CloseAcceptor, Through!Outcomes, Through!modeVars,
         Through!Link!Unaffected, Through!Link!optVars
<1>2. Serves
  BY DEF Through!ConnectionRemoteClose, Through!Dispatch, Through!Link!Unaffected, Through!Link!optVars,
         Through!Link!peerVars, Serves, Pops, IsDelivery, Kept, Unsent
<1>3. ClosedLast'
  BY <1>1, <1>2, PopsClosed DEF ThroughputInv, Serves, Shut
<1>4. Over'
  <2>1. 1 \in 1..Len(collector) /\ IsClose(collector[1])
    BY <1>1, <1>2, TailShape DEF ReceiverInv, ReceiverTypes, Serves, Pops, IsClose
  <2>2. \A i \in 1..Len(collector') : i \in 1..Len(collector') /\ i + 1 \in 1..Len(collector) /\ collector'[i] = collector[i + 1]
    BY <1>2, PopFacts DEF Serves
  <2>3. \A i \in 1..Len(collector') : 1 < i + 1
    OBVIOUS
  <2>4. QED
    BY <1>1, <2>1, <2>2, <2>3 DEF ThroughputInv, ClosedLast, Over, Shut
<1>5. AtLimit' <=> AtLimit
  BY <1>1 DEF AtLimit
<1>6. Granted' /\ ThroughputTypes'
  BY <1>1, <1>5 DEF ThroughputInv, Granted, ThroughputTypes
<1>7. Clock'
  <2> SUFFICES ASSUME armed
               PROVE  /\ stop => AtLimit
                      /\ AtLimit => stamps' = <<"start_ts", "stop_ts">>
                      /\ stamps' = IF count = 0 THEN <<"stop_ts">> ELSE <<"start_ts", "stop_ts">>
    BY <1>1, <1>4, <1>5 DEF Clock, Stopped
  <2>1. /\ stop => AtLimit
        /\ AtLimit => stamps = <<"start_ts", "stop_ts">>
        /\ stamps \in IF count = 0 THEN {<<>>, <<"stop_ts">>} ELSE {<<"start_ts">>, <<"start_ts", "stop_ts">>}
    BY <1>1 DEF ThroughputInv, Clock
  <2>2. Stopped => stamps' = stamps
    BY <1>1, TakeFacts
  <2>3. AtLimit => stamps' = <<"start_ts", "stop_ts">>
    BY <2>1, <2>2 DEF Stopped
  <2>4. stamps' = IF count = 0 THEN <<"stop_ts">> ELSE <<"start_ts", "stop_ts">>
    BY <1>1, <2>1, <2>2, TakeFacts DEF Stopped
  <2>5. QED
    BY <2>1, <2>3, <2>4
<1>8. QED
  BY <1>2, <1>3, <1>6, <1>7 DEF ThroughputInv, ReceiverStep

\* The steps that neither count a message nor take the time, by what they do to
\* the collector.
LEMMA ThroughServes ==
  ASSUME ReceiverInv, ThroughputInv, Serves,
         UNCHANGED <<turn, server_mode, stamps, armed, stop, connects, acceptor>>, server_mode /\ Shut => Shut',
         endpoints' = "link" => credit' = credit_window \/ (endpoints = "link" /\ credit' = credit)
  PROVE  ThroughputInv' /\ ReceiverStep
<1>1. Pops /\ Kept /\ Unsent /\ UNCHANGED <<limit, count, credit_window>>
  BY DEF Serves, Kept
<1>2. ClosedLast' /\ (Over => Over')
  BY <1>1, PopsClosed DEF ThroughputInv
<1>3. connects \in Nat /\ credit_window \in Nat \ {0}
  BY DEF ThroughputInv, ThroughputTypes, ReceiverInv, ReceiverTypes
<1>4. turn = "exit" => acceptor # "listening"
  BY DEF ThroughputInv, ThroughputTypes
<1>5. QED
  BY <1>1, <1>2, <1>3, <1>4, ThroughFrame DEF ReceiverStep

LEMMA ThroughRaises ==
  ASSUME ReceiverInv, ThroughputInv,
         UNCHANGED <<turn, server_mode, stamps, armed, stop, acceptor, endpoints, credit, count>>, Kept, Unsent,
         connects' \in Nat, server_mode /\ Shut => Shut',
         NEW e \in ReceiverEvents, ~IsDelivery(e), IsClose(e) => server_mode /\ Shut',
         collector' \in {Put(collector, e), Append(collector, e)}
  PROVE  ThroughputInv' /\ ReceiverStep
<1>1. UNCHANGED <<limit, credit_window>>
  BY DEF Kept
<1>2. ClosedLast' /\ (Over => Over')
  BY RaisesClosed DEF ThroughputInv
<1>3. credit_window \in Nat \ {0}
  BY DEF ReceiverInv, ReceiverTypes
<1>4. ThroughputInv'
  BY <1>1, <1>2, <1>3, ThroughFrame
<1>5. Raises
  BY DEF Raises
<1>6. QED
  BY <1>4, <1>5 DEF ReceiverStep

LEMMA ThroughIdles ==
  ASSUME ReceiverInv, ThroughputInv, Idles,
         UNCHANGED <<server_mode, stamps, armed, stop, connects, endpoints>>, server_mode /\ Shut => Shut',
         \/ acceptor' = acceptor
         \/ acceptor' = "closed" /\ acceptor = "listening" /\ stop
         \/ acceptor' = "freed" /\ acceptor = "closed",
         turn = "spin" => turn' = "spin",
         turn' = "exit" => turn = "exit" \/ acceptor' # "listening"
  PROVE  ThroughputInv' /\ ReceiverStep
<1>1. UNCHANGED <<limit, credit_window, credit, count, collector>>
  BY DEF Idles, Kept
<1>2. ClosedLast' /\ (Over => Over')
  BY <1>1, IdlesClosed DEF ThroughputInv
<1>3. connects \in Nat /\ credit_window \in Nat \ {0}
  BY DEF ThroughputInv, ThroughputTypes, ReceiverInv, ReceiverTypes
<1>4. ThroughputInv'
  BY <1>1, <1>2, <1>3, ThroughFrame
<1>5. QED
  BY <1>4 DEF ReceiverStep

LEMMA ThroughHandlers ==
  ASSUME ReceiverInv, ThroughputInv, UNCHANGED <<program, presettle, settled>>,
         Through!ConnectionInit \/ Through!AcceptorInit \/ Through!SessionRemoteOpen \/ Through!LinkRemoteOpen
  PROVE  ThroughputInv' /\ ReceiverStep
<1> USE DEF Through!Dispatch, Through!modeVars, Through!serverVars, Through!ownVars, Serves, Pops, IsDelivery, Kept, Unsent
<1>1. CASE Through!ConnectionInit
  <2>1. /\ Serves /\ ~server_mode /\ credit' = credit_window
        /\ UNCHANGED <<turn, server_mode, stamps, armed, stop, connects, acceptor>>
    BY <1>1 DEF Through!ConnectionInit, Through!Link!ConnectionInit, Through!Link!Dispatch, Through!Link!optVars,
                Through!Link!peerVars
  <2>2. QED
    BY <2>1, ThroughServes
<1>2. CASE Through!AcceptorInit
  <2>1. /\ Serves /\ conn' = IF conn = "none" THEN "init" ELSE conn
        /\ UNCHANGED <<turn, server_mode, stamps, armed, stop, connects, acceptor, endpoints, credit>>
    BY <1>2 DEF Through!AcceptorInit, Through!Link!Unaffected, Through!Link!optVars, Through!Link!peerVars
  <2>2. Shut => Shut'
    BY <2>1 DEF Shut
  <2>3. QED
    BY <2>1, <2>2, ThroughServes
<1>3. CASE Through!SessionRemoteOpen
  <2>1. /\ Serves /\ endpoints' = "session"
        /\ UNCHANGED <<turn, conn, server_mode, stamps, armed, stop, connects, acceptor, credit>>
    BY <1>3 DEF Through!SessionRemoteOpen, Through!Link!Unaffected, Through!Link!optVars, Through!Link!peerVars
  <2>2. Shut => Shut'
    BY <2>1 DEF Shut
  <2>3. QED
    BY <2>1, <2>2, ThroughServes
<1>4. CASE Through!LinkRemoteOpen
  <2>1. /\ Serves /\ credit' = credit_window
        /\ UNCHANGED <<turn, conn, server_mode, stamps, armed, stop, connects, acceptor>>
    BY <1>4 DEF Through!LinkRemoteOpen, Through!optVars, Through!peerVars
  <2>2. Shut => Shut'
    BY <2>1 DEF Shut
  <2>3. QED
    BY <2>1, <2>2, ThroughServes
<1>5. QED
  BY <1>1, <1>2, <1>3, <1>4

\* main(), and the signal, after which the clock is not looked at.
LEMMA ThroughMain ==
  ASSUME ReceiverInv, ThroughputInv, UNCHANGED <<program, presettle, settled>>,
         Through!ReactorQuiesce \/ Through!Main \/ Through!SignalHandler
  PROVE  ThroughputInv' /\ ReceiverStep
<1> USE DEF Through!modeVars, Through!serverVars, Through!Link!Unaffected, Through!Link!optVars,
            Through!Link!peerVars, Idles, Kept, Unsent
<1>1. CASE Through!ReactorQuiesce
  <2>1. /\ Idles /\ turn = "drain" /\ conn' \in {conn, "gone"} /\ (turn' = "exit" => acceptor # "listening")
        /\ acceptor' = IF acceptor = "closed" THEN "freed" ELSE acceptor
        /\ UNCHANGED <<server_mode, stamps, armed, stop, connects, endpoints>>
    BY <1>1 DEF Through!ReactorQuiesce
  <2>2. Shut => Shut'
    BY <2>1 DEF Shut
  <2>3. QED
    BY <2>1, <2>2, ThroughIdles
<1>2. CASE Through!Main
  <2>1. /\ Idles /\ turn = "io" /\ turn' \in {"drain", "failed"}
        /\ conn' = conn \/ conn \in {"init", "open"}
        /\ acceptor' = acceptor \/ (acceptor' = "closed" /\ acceptor = "listening" /\ stop)
        /\ UNCHANGED <<server_mode, stamps, armed, stop, connects, endpoints>>
    BY <1>2 DEF Through!Main, Through!CloseAcceptor, Through!Outcomes
  <2>2. Shut => Shut'
    BY <2>1 DEF Shut
  <2>3. QED
    BY <2>1, <2>2, ThroughIdles
<1>3. CASE Through!SignalHandler
  <2>1. Idles /\ UNCHANGED <<turn, conn, server_mode, connects, acceptor, endpoints, limit, count, credit, credit_window, collector>>
    BY <1>3 DEF Through!SignalHandler, Through!Signal
  <2>2. ~armed'
    BY <1>3 DEF Through!SignalHandler, Through!Signal
  <2>3. ThroughputTypes' /\ Granted'
    BY <2>1 DEF ThroughputInv, ThroughputTypes, Granted, AtLimit
  <2>4. ClosedLast'
    BY <2>1, IdlesClosed DEF ThroughputInv, Shut
  <2>5. Clock'
    BY <2>2 DEF Clock
  <2>6. QED
    BY <2>1, <2>3, <2>4, <2>5 DEF ThroughputInv, ReceiverStep
<1>4. QED
  BY <1>1, <1>2, <1>3

\* The peer sets up the connection, or takes it down.
LEMMA ThroughEndpoints ==
  ASSUME ReceiverInv, ThroughputInv, UNCHANGED <<program, presettle, settled>>,
         Through!PeerSetsUp \/ Through!PeerLeaves
  PROVE  ThroughputInv' /\ ReceiverStep
<1> USE DEF Through!modeVars, Through!serverVars, Through!ownVars, Through!Link!Unaffected, Through!Link!optVars,
            Through!Link!peerVars, Idles, Kept, Unsent
<1>0. connects \in Nat
  BY DEF ThroughputInv, ThroughputTypes
<1>1. CASE Through!PeerConnects
  <2>1. PICK e : e = [type |-> "PN_CONNECTION_INIT", dlv |-> connects']
    OBVIOUS
  <2>2. /\ connects' = connects + 1 /\ collector' = Append(collector, e) /\ Kept /\ Unsent
        /\ UNCHANGED <<turn, conn, server_mode, stamps, armed, stop, acceptor, endpoints, credit, count>>
    BY <1>1, <2>1 DEF Through!PeerConnects, Through!Event
  <2>3. connects' \in Nat
    BY <1>0, <2>2
  <2>4. e \in ReceiverEvents /\ ~IsDelivery(e) /\ ~IsClose(e)
    BY <2>1, <2>3 DEF ReceiverEvents, IsDelivery, IsClose
  <2>5. Shut => Shut'
    BY <2>2 DEF Shut
  <2>6. QED
    BY <2>2, <2>3, <2>4, <2>5, ThroughRaises
<1>2. CASE Through!PeerOpens
  <2>1. /\ Idles /\ conn = "init"
        /\ UNCHANGED <<turn, server_mode, stamps, armed, stop, connects, acceptor, endpoints>>
    BY <1>2 DEF Through!PeerOpens
  <2>2. ~Shut
    BY <2>1 DEF Shut
  <2>3. QED
    BY <2>1, <2>2, ThroughIdles
<1>3. CASE Through!PeerBegins \/ Through!PeerAttaches
  <2>1. PICK e : /\ e \in {[type |-> "PN_SESSION_REMOTE_OPEN", dlv |-> 0], [type |-> "PN_LINK_REMOTE_OPEN", dlv |-> 0]}
                 /\ collector' = Put(collector, e) /\ Kept /\ Unsent
                 /\ UNCHANGED <<turn, conn, server_mode, stamps, armed, stop, connects, acceptor, endpoints, credit, count>>
    BY <1>3 DEF Through!PeerBegins, Through!PeerAttaches, Through!Reads, Through!SessionEvent, Through!LinkEvent,
                Through!Event, Through!Put, Put
  <2>2. e \in ReceiverEvents /\ ~IsDelivery(e) /\ ~IsClose(e)
    BY <2>1 DEF ReceiverEvents, IsDelivery, IsClose
  <2>3. Shut => Shut'
    BY <2>1 DEF Shut
  <2>4. QED
    BY <1>0, <2>1, <2>2, <2>3, ThroughRaises
<1>4. CASE Through!PeerClosing
  <2>1. PICK e : e = [type |-> "PN_CONNECTION_REMOTE_CLOSE", dlv |-> 0]
    OBVIOUS
  <2>2. /\ conn' = "closed" /\ Kept /\ Unsent
        /\ collector' = IF server_mode THEN Append(collector, e) ELSE collector
        /\ UNCHANGED <<turn, server_mode, stamps, armed, stop, connects, acceptor, endpoints, credit, count>>
    BY <1>4, <2>1 DEF Through!PeerClosing, Through!Event
  <2>3. e \in ReceiverEvents /\ ~IsDelivery(e)
    BY <2>1 DEF ReceiverEvents, IsDelivery
  <2>4. Shut'
    BY <2>2 DEF Shut
  <2>5. CASE server_mode
    BY <1>0, <2>2, <2>3, <2>4, <2>5, ThroughRaises
  <2>6. CASE ~server_mode
    <3>1. Idles
      BY <2>2, <2>6
    <3>2. QED
      BY <2>2, <2>4, <3>1, ThroughIdles
  <2>7. QED
    BY <2>5, <2>6
<1>5. CASE Through!PeerDrops \/ Through!PeerDetach
  <2>1. /\ Idles /\ conn' \in {"closed", conn}
        /\ UNCHANGED <<turn, server_mode, stamps, armed, stop, connects, acceptor, endpoints>>
    BY <1>5 DEF Through!PeerDrops, Through!PeerDetach, Through!Link!PeerDetach, Through!Link!PeerDetaches
  <2>2. Shut => Shut'
    BY <2>1 DEF Shut
  <2>3. QED
    BY <2>1, <2>2, ThroughIdles
<1>6. QED
  BY <1>1, <1>2, <1>3, <1>4, <1>5 DEF Through!PeerSetsUp, Through!PeerLeaves

LEMMA ThroughTransfers ==
  ASSUME ReceiverInv, ThroughputInv, UNCHANGED <<program, presettle, settled>>,
         Through!PeerSends \/ Through!PeerEnds \/ Through!PeerMore
  PROVE  ThroughputInv' /\ ReceiverStep
<1>1. /\ Through!Link!PeerSends \/ Through!Link!PeerEnds \/ Through!Link!PeerContinue(TRUE)
      /\ ~Shut /\ UNCHANGED <<server_mode, stamps, connects, acceptor, endpoints>>
  BY DEF Through!PeerSends, Through!PeerEnds, Through!PeerMore, Through!Up, Shut, Through!ownVars,
         Through!modeVars, Through!serverVars
<1>2. PICK n \in Nat : Transfers(n) /\ turn = "io" /\ UNCHANGED <<turn, conn, stop, armed>>
  BY <1>1, ThroughPeer
<1>3. ClosedLast' /\ ~Over
  BY <1>1, <1>2, TransfersClosed DEF ThroughputInv
<1>4. UNCHANGED <<limit, count, credit_window, credit>>
  BY <1>2 DEF Transfers, Kept
<1>5. connects \in Nat /\ credit_window \in Nat \ {0}
  BY DEF ThroughputInv, ThroughputTypes, ReceiverInv, ReceiverTypes
<1>6. ThroughputInv'
  BY <1>1, <1>2, <1>3, <1>4, <1>5, ThroughFrame
<1>7. QED
  BY <1>2, <1>6 DEF ReceiverStep

LEMMA ThroughStep ==
  ASSUME ReceiverInv, ThroughputInv, program = "throughput-receiver", UNCHANGED <<program, presettle, settled>>,
         Through!Next
  PROVE  ThroughputInv' /\ ReceiverStep
<1>1. CASE Through!Exited
  <2>1. /\ Idles
        /\ UNCHANGED <<turn, conn, server_mode, stamps, armed, stop, connects, acceptor, endpoints>>
    BY <1>1 DEF Through!Exited, Through!vars, Through!loopVars, Through!optVars, Through!peerVars, Through!ownVars,
                Through!modeVars, Through!serverVars, Idles, Kept, Unsent
  <2>2. Shut => Shut'
    BY <2>1 DEF Shut
  <2>3. QED
    BY <2>1, <2>2, ThroughIdles
<1>2. CASE Through!Client
  BY <1>2, ThroughHandlers, ThroughMain, ThroughDelivery, ThroughClose DEF Through!Client
<1>3. QED
  BY <1>1, <1>2, ThroughMain, ThroughEndpoints, ThroughTransfers DEF Through!Next

-----------------------------------------------------------------------------
(***************************************************************************)
(* All programs.                                                           *)
(***************************************************************************)
Programs == {"sender", "punisher", "chunked-sender"} \union Receivers

\* The inductive invariant.
ClientsInv ==
  /\ program \in Programs
  /\ program \in {"sender", "punisher"} => SenderInv
  /\ program = "sender" => ScaleSenderInv
  /\ program = "punisher" => PunisherInv
  /\ program = "chunked-sender" => ChunkedInv
  /\ program \in Receivers => ReceiverInv
  /\ program = "receiver" => ScaleReceiverInv
  /\ program = "latency-receiver" => LatencyInv
  /\ program = "throughput-receiver" => ThroughputInv

LEMMA ClientsInit == Init => ClientsInv
<1> SUFFICES ASSUME Init PROVE ClientsInv
  OBVIOUS
<1>1. CASE program \in {"sender", "punisher"}
  <2>1. LoopInit /\ LinkInit
    <3>1. Sending!Init \/ Punishing!Init
      BY <1>1 DEF Init
    <3>2. QED
      BY <3>1 DEF Sending!Init, Punishing!Init, Sending!LoopInit, Punishing!LoopInit, LoopInit, Sending!LinkInit,
                  Punishing!LinkInit, LinkInit, Sending!ConnectionInitEvent, Punishing!ConnectionInitEvent,
                  ConnectionInitEvent, Sending!Event, Punishing!Event, Event, Sending!Deliveries, Punishing!Deliveries,
                  Deliveries
  <2>2. SenderInv
    BY <2>1, SenderInvInit
  <2>3. Heard = {} /\ Cardinality(Heard) = 0
    <3>1. Heard = {}
      BY <2>1 DEF LinkInit, Heard, Left
    <3>2. QED
      BY <3>1, FS_EmptySet
  <2>4. limit \in Nat /\ conn # "closing"
    BY <2>1, <2>2 DEF LoopInit, SenderInv, SenderTypes
  <2>5. program = "sender" => ScaleSenderInv
    BY <2>3, <2>4 DEF Init, Sending!Init, ScaleSenderInv
  <2>6. program = "punisher" => PunisherInv
    BY <2>3, <2>4 DEF Init, Punishing!Init, PunisherInv
  <2>7. QED
    BY <1>1, <2>2, <2>5, <2>6 DEF ClientsInv, Programs, Receivers
<1>2. CASE program = "chunked-sender"
  <2>1. ChunkedInv
    BY <1>2, ChunkedInit DEF Init
  <2>2. QED
    BY <1>2, <2>1 DEF ClientsInv, Programs, Receivers
<1>3. CASE program \in Receivers
  <2>1. presettle = FALSE /\ settled = {}
    BY <1>3 DEF Init, NoSender, NoAcks, Receivers
  <2>2. /\ collector \in {<<>>, <<ConnectionInitEvent>>} /\ limit \in Nat /\ credit_window \in Nat \ {0}
        /\ credit = 0 /\ arrived = 0 /\ count = 0 /\ aborted = {} /\ turn = "drain"
        /\ program # "throughput-receiver" => conn = "init" /\ collector = <<ConnectionInitEvent>>
    BY <1>3, SendingLinkAssumption, ReactorClientsAssumption
    DEF Init, Receivers, Receiving!Init, Latency!Init, Through!Init, Receiving!Link!Init, Latency!Link!Init,
        Receiving!Link!LoopInit, Latency!Link!LoopInit, Receiving!Link!ConnectionInitEvent,
        Latency!Link!ConnectionInitEvent, Through!ConnectionInitEvent, ConnectionInitEvent, Receiving!Link!Event,
        Latency!Link!Event, Through!Event, Event
  <2>3. partial = FALSE
    BY <1>3 DEF Init, Receivers, Receiving!Init, Latency!Init, Through!Init, Receiving!Link!Init, Latency!Link!Init
  <2>4. ReceiverInv
    BY <2>1, <2>2, <2>3, ReceiverInvInit
  <2>5. program = "receiver" => ScaleReceiverInv
    BY <2>2 DEF ScaleReceiverInv, Started
  <2>6. program = "latency-receiver" => LatencyInv
    BY <2>2 DEF LatencyInv, Started
  <2>7. program = "throughput-receiver" => ThroughputInv
    <3> SUFFICES ASSUME Through!Init PROVE ThroughputInv
      BY DEF Init
    <3>1. server_mode \in BOOLEAN /\ stop = FALSE
      BY DEF Through!Init
    <3>2. /\ connects = 0 /\ endpoints = "none" /\ stamps = <<>>
          /\ acceptor = IF server_mode THEN "listening" ELSE "none"
      BY DEF Through!Init
    <3>3. ThroughputTypes /\ Granted
      BY <2>2, <3>1, <3>2 DEF ThroughputTypes, Granted
    <3>4. \A i \in 1..Len(collector) : ~IsClose(collector[i])
      <4>1. \A i \in 1..Len(collector) : collector[i] = ConnectionInitEvent
        BY <2>2
      <4>2. QED
        BY <4>1 DEF IsClose, ConnectionInitEvent, Event
    <3>5. ClosedLast
      BY <3>4 DEF ClosedLast
    <3>6. Clock
      <4>1. ~AtLimit /\ ~stop /\ acceptor \notin {"closed", "freed"}
        BY <2>2, <3>1, <3>2 DEF AtLimit
      <4>2. <<>> # <<"stop_ts">> /\ <<>> # <<"start_ts", "stop_ts">>
        OBVIOUS
      <4>3. ~Stopped
        BY <3>2, <4>2 DEF Stopped
      <4>4. QED
        BY <2>2, <3>2, <4>1, <4>3 DEF Clock
    <3>7. QED
      BY <3>3, <3>5, <3>6 DEF ThroughputInv
  <2>8. QED
    BY <1>3, <2>4, <2>5, <2>6, <2>7 DEF ClientsInv, Programs, Receivers
<1>4. QED
  BY <1>1, <1>2, <1>3 DEF Init, Receivers

\* What one step of the running program is.
LEMMA ClientsStep ==
  ASSUME ClientsInv, [Next]_vars
  PROVE  /\ ClientsInv' /\ UNCHANGED program
         /\ program \in {"sender", "punisher"} => LinkStep
         /\ program \in Receivers => ReceiverStep
         /\ program = "chunked-sender" =>
              /\ UNCHANGED <<limit, presettle>>
              /\ \/ UNCHANGED <<count, settled>>
                 \/ UNCHANGED settled /\ count' = count + 1 /\ count' <= limit
                 \/ UNCHANGED count /\ \E d \in 1..count : d \notin settled /\ settled' = settled \union {d}
<1> USE DEF Receivers
<1>1. CASE RunsSender /\ Sending!Next
  <2>1. program = "sender" /\ UNCHANGED program
    BY <1>1 DEF RunsSender
  <2>2. SenderInv /\ ScaleSenderInv
    BY <2>1 DEF ClientsInv
  <2>3. SenderInv' /\ ScaleSenderInv' /\ LinkStep
    BY <1>1, <2>1, <2>2, SendingStep, SenderPreserved
  <2>4. QED
    BY <2>1, <2>3 DEF ClientsInv, Programs
<1>2. CASE RunsPunisher /\ Punishing!Next
  <2>1. program = "punisher" /\ UNCHANGED program
    BY <1>2 DEF RunsPunisher
  <2>2. SenderInv /\ PunisherInv
    BY <2>1 DEF ClientsInv
  <2>3. SenderInv' /\ PunisherInv' /\ LinkStep
    BY <1>2, <2>1, <2>2, PunishingStep, SenderPreserved
  <2>4. QED
    BY <2>1, <2>3 DEF ClientsInv, Programs
<1>3. CASE RunsReceiver /\ Receiving!Next
  <2>1. program = "receiver" /\ UNCHANGED <<program, presettle, settled>>
    BY <1>3 DEF RunsReceiver, ofSenders
  <2>2. ReceiverInv /\ ScaleReceiverInv
    BY <2>1 DEF ClientsInv
  <2>3. ReceiverInv' /\ ScaleReceiverInv' /\ ReceiverStep
    BY <1>3, <2>1, <2>2, ReceivingStep, ReceiverPreserved
  <2>4. QED
    BY <2>1, <2>3 DEF ClientsInv, Programs
<1>4. CASE RunsLatency /\ Latency!Next
  <2>1. program = "latency-receiver" /\ UNCHANGED <<program, presettle, settled>>
    BY <1>4 DEF RunsLatency, ofSenders
  <2>2. ReceiverInv /\ LatencyInv
    BY <2>1 DEF ClientsInv
  <2>3. ReceiverInv' /\ LatencyInv' /\ ReceiverStep
    BY <1>4, <2>1, <2>2, LatencyStep, ReceiverPreserved
  <2>4. QED
    BY <2>1, <2>3 DEF ClientsInv, Programs
<1>5. CASE RunsThrough /\ Through!Next
  <2>1. program = "throughput-receiver" /\ UNCHANGED <<program, presettle, settled>>
    BY <1>5 DEF RunsThrough, ofSenders
  <2>2. ReceiverInv /\ ThroughputInv
    BY <2>1 DEF ClientsInv
  <2>3. ReceiverInv' /\ ThroughputInv' /\ ReceiverStep
    BY <1>5, <2>1, <2>2, ThroughStep, ReceiverPreserved
  <2>4. QED
    BY <2>1, <2>3 DEF ClientsInv, Programs
<1>6. CASE RunsChunked /\ Chunked!Next
  <2>1. program = "chunked-sender" /\ UNCHANGED <<program, presettle>>
    BY <1>6 DEF RunsChunked, ofSenders
  <2>2. ChunkedInv
    BY <2>1 DEF ClientsInv
  <2>3. /\ ChunkedInv' /\ UNCHANGED limit
        /\ \/ UNCHANGED <<count, settled>>
           \/ UNCHANGED settled /\ count' = count + 1 /\ count' <= limit
           \/ UNCHANGED count /\ \E d \in 1..count : d \notin settled /\ settled' = settled \union {d}
    BY <1>6, <2>1, <2>2, ChunkedStep
  <2>4. QED
    BY <2>1, <2>3 DEF ClientsInv, Programs
<1>7. CASE UNCHANGED vars
  <2> USE DEF vars, loopVars, ofSenders, ofReceivers, ofThroughput, ofChunked
  <2>1. UNCHANGED program /\ Steady /\ Idles
    BY <1>7 DEF Steady, Same, Idles, Kept, Unsent
  <2>2. UNCHANGED <<ScaleSenderInv, PunisherInv>>
    BY <1>7 DEF ScaleSenderInv, PunisherInv, Heard, Left, Early
  <2>3. UNCHANGED ChunkedInv
    BY <1>7 DEF ChunkedInv, ChunkedTypes, Begun, DecidedOnce
  <2>4. UNCHANGED <<ScaleReceiverInv, LatencyInv>>
    BY <1>7 DEF ScaleReceiverInv, LatencyInv, Started, AtLimit
  <2>5. UNCHANGED ThroughputInv
    BY <1>7 DEF ThroughputInv, ThroughputTypes, Granted, ClosedLast, Clock, AtLimit, Stopped, Over, Shut
  <2>6. program \in {"sender", "punisher"} => SenderInv'
    BY <2>1, SenderPreserved DEF LinkStep, ClientsInv
  <2>7. program \in Receivers => ReceiverInv'
    BY <2>1, ReceiverPreserved DEF ReceiverStep, ClientsInv
  <2>8. ClientsInv'
    BY <2>1, <2>2, <2>3, <2>4, <2>5, <2>6, <2>7 DEF ClientsInv
  <2>9. QED
    BY <1>7, <2>1, <2>8 DEF LinkStep, ReceiverStep
<1>8. QED
  BY <1>1, <1>2, <1>3, <1>4, <1>5, <1>6, <1>7 DEF Next

LEMMA ClientsAlways == Spec => []ClientsInv
<1>1. ClientsInv /\ [Next]_vars => ClientsInv'
  BY ClientsStep
<1>2. QED
  BY ClientsInit, <1>1, PTL DEF Spec

\* The outcomes sender.c waits for are in exactly when everything is settled;
\* with -p that is the outcome of the last message, which is sent last.
LEMMA SenderFinished ==
  ASSUME SenderInv, ScaleSenderInv, program = "sender", ~informs
  PROVE  /\ acked <= 0 => count = limit /\ settled = 1..limit
         /\ ~presettle => (acked = 0 <=> settled = 1..limit)
<1>1. /\ limit \in Nat /\ limit > 0 /\ count \in Nat /\ count <= limit /\ acked \in Int
      /\ acked + Cardinality(Heard) = IF presettle THEN 1 ELSE limit
  BY DEF SenderInv, SenderTypes, CreditSpent, ScaleSenderInv
<1>2. /\ Heard \subseteq 1..count /\ settled \subseteq 1..count /\ settled = Heard \union Early(count)
      /\ IsFiniteSet(Heard) /\ Cardinality(Heard) \in Nat
  BY HeardSent
<1>3. CASE ~presettle
  <2>1. settled = Heard /\ Heard \in SUBSET (1..limit)
    BY <1>1, <1>2, <1>3 DEF Early
  <2>2. Cardinality(Heard) <= limit /\ (Cardinality(Heard) = limit <=> Heard = 1..limit)
    BY <1>1, <2>1, AllWhenAsMany
  <2>3. acked <= 0 <=> Cardinality(Heard) = limit
    BY <1>1, <1>2, <1>3, <2>2
  <2>4. acked = 0 <=> Cardinality(Heard) = limit
    BY <1>1, <1>2, <1>3, <2>2
  <2>5. Heard = 1..limit => limit \in 1..count
    BY <1>1, <1>2
  <2>6. limit \in 1..count => count = limit
    BY <1>1
  <2>7. QED
    BY <2>1, <2>2, <2>3, <2>4, <2>5, <2>6
<1>4. CASE presettle
  <2> SUFFICES ASSUME acked <= 0 PROVE count = limit /\ settled = 1..limit
    BY <1>4
  <2>1. Cardinality(Heard) # 0
    BY <1>1, <1>2, <1>4
  <2>2. PICK d : d \in Heard
    BY <2>1, FS_EmptySet
  <2>3. Early(count) = (1..count) \ {limit}
    BY <1>4 DEF Early
  <2>4. d = limit /\ d \in 1..count
    BY <1>2, <2>2, <2>3 DEF Heard
  <2>5. count = limit
    BY <1>1, <2>4
  <2>6. QED
    BY <1>2, <2>2, <2>3, <2>4, <2>5
<1>5. QED
  BY <1>3, <1>4

\* A sender closes of its own accord only when every message is sent and the
\* outcomes it waits for are in, with a peer that sends one disposition per
\* delivery, and but for the presettling punisher.c without a limit.
THEOREM ClosesWhenDone == Spec => []ClosesAfterAll
<1>1. ClientsInv => ClosesAfterAll
  <2> SUFFICES ASSUME ClientsInv PROVE ClosesAfterAll
    OBVIOUS
  <2>1. program = "sender" => Sending!ClosesAfterAll
    BY SenderFinished DEF ClientsInv, Sending!ClosesAfterAll
  <2>2. program = "punisher" /\ limit > 0 => Punishing!ClosesAfterAll
    BY AnsweredIsLeft DEF ClientsInv, PunisherInv, Punishing!ClosesAfterAll
  <2>3. program = "chunked-sender" => Chunked!ClosesAfterAll
    BY DEF ClientsInv, ChunkedInv, Chunked!ClosesAfterAll
  <2>4. QED
    BY <2>1, <2>2, <2>3 DEF ClosesAfterAll
<1>2. QED
  BY ClientsAlways, <1>1, PTL

\* With no event left, no complete message is left either.
LEMMA NothingForgotten ==
  ASSUME ReceiverInv, Takes, collector = <<>>
  PROVE  arrived = count \/ (partial /\ arrived = count + 1)
<1>1. count \in Nat /\ arrived \in Nat /\ count <= arrived
  BY DEF ReceiverInv, ReceiverTypes, Window
<1>2. \A d : ~Queued(DeliveryEvent(d), collector)
  BY DEF Queued
<1>3. \A d \in 1..arrived : count < d => partial /\ d = arrived
  BY <1>2 DEF ReceiverInv, HasEvent
<1>4. CASE count < arrived
  <2>1. count + 1 \in 1..arrived /\ count < count + 1
    BY <1>1, <1>4
  <2>2. QED
    BY <1>3, <2>1
<1>5. QED
  BY <1>1, <1>4

\* A receiver keeps its peer in credit (scale/src/receiver.c with a window above
\* 1), within the window, and forgets no complete message; throughput-receiver.c
\* measures the whole transfer.
THEOREM ReceiversKeepPace == Spec => []KeepsPace
<1>1. ClientsInv => KeepsPace
  <2> SUFFICES ASSUME ClientsInv PROVE KeepsPace
    OBVIOUS
  <2>1. ASSUME program = "receiver" PROVE Receiving!KeepsPace
    <3>1. ReceiverInv /\ ScaleReceiverInv /\ Window /\ Takes
      BY <2>1 DEF ClientsInv, Receivers, ReceiverInv, Takes
    <3>2. QED
      BY <3>1, NothingForgotten DEF Receiving!KeepsPace, Window, ScaleReceiverInv
  <2>2. ASSUME program = "latency-receiver" PROVE Latency!KeepsPace
    <3>1. ReceiverInv /\ LatencyInv /\ Window /\ (Takes <=> ~AtLimit)
      BY <2>2 DEF ClientsInv, Receivers, ReceiverInv, Takes
    <3>2. QED
      BY <3>1, NothingForgotten
      DEF Latency!KeepsPace, Latency!Link!WindowRespected, Latency!Link!NeverStarves, Latency!Link!NoMessageForgotten,
          Latency!Link!AtLimit, AtLimit, Window, LatencyInv
  <2>3. ASSUME program = "throughput-receiver" PROVE Through!KeepsPace
    <3>1. ReceiverInv /\ Granted /\ Clock /\ ThroughputTypes /\ Window /\ (Takes <=> ~AtLimit)
      BY <2>3 DEF ClientsInv, Receivers, ReceiverInv, Takes, ThroughputInv
    <3>2. Through!Link!WindowRespected
      BY <3>1 DEF Through!Link!WindowRespected, Window
    <3>3. Through!Link!AtLimit <=> AtLimit
      BY DEF Through!Link!AtLimit, AtLimit
    <3>4. endpoints = "link" => Through!Link!NeverStarves
      BY <3>1, <3>3 DEF Through!Link!NeverStarves, Granted
    <3>5. Through!Link!NoMessageForgotten
      BY <3>1, <3>3, NothingForgotten DEF Through!Link!NoMessageForgotten
    <3>6. ASSUME turn = "exit", count > 0, armed, server_mode \/ AtLimit
          PROVE  stamps = <<"start_ts", "stop_ts">>
      <4>1. /\ AtLimit => stamps = <<"start_ts", "stop_ts">>
            /\ stamps \in {<<"start_ts">>, <<"start_ts", "stop_ts">>}
            /\ acceptor \in {"closed", "freed"} => Stopped
        BY <3>1, <3>6 DEF Clock
      <4>2. server_mode => acceptor \in {"closed", "freed"}
        BY <3>1, <3>6 DEF ThroughputTypes
      <4>3. <<"start_ts">> # <<"stop_ts">>
        <5>1. <<"start_ts">>[1] = "start_ts" /\ <<"stop_ts">>[1] = "stop_ts"
          OBVIOUS
        <5>2. QED
          BY <5>1
      <4>4. QED
        BY <3>6, <4>1, <4>2, <4>3 DEF Stopped
    <3>7. QED
      BY <3>2, <3>3, <3>4, <3>5, <3>6 DEF Through!KeepsPace
  <2>4. QED
    BY <2>1, <2>2, <2>3 DEF KeepsPace
<1>2. QED
  BY ClientsAlways, <1>1, PTL

LEMMA FedAlways == Spec => [](program = "chunked-sender" => ChunkedFed)
<1>1. Init => (program = "chunked-sender" => ChunkedFed)
  BY FedInit DEF Init
<1>2. ClientsInv /\ ClientsInv' /\ (program = "chunked-sender" => ChunkedFed) /\ [Next]_vars
        => (program = "chunked-sender" => ChunkedFed)'
  <2>0. SUFFICES ASSUME ClientsInv, ClientsInv', program = "chunked-sender" => ChunkedFed,
                        [Next]_vars, program' = "chunked-sender"
                 PROVE  ChunkedFed'
    BY DEF ChunkedFed
  <2>1. program = "chunked-sender"
    BY <2>0, ClientsStep
  <2>2. ChunkedInv /\ ChunkedInv' /\ ChunkedFed
    BY <2>0, <2>1 DEF ClientsInv
  <2>3. CASE Next
    <3>1. Chunked!Next
      BY <2>1, <2>3 DEF Next, RunsSender, RunsPunisher, RunsReceiver, RunsLatency, RunsThrough
    <3>2. QED
      BY <2>2, <3>1, FedStep
  <2>4. CASE UNCHANGED vars
    <3>1. UNCHANGED <<collector, limit, count, credit, current, owner, unwritten, flows>>
      BY <2>4 DEF vars, loopVars, ofChunked
    <3>2. Cardinality(EventsOf("PN_LINK_FLOW", collector)) \in Nat
      BY <2>2, EventsFinite DEF ChunkedInv, ChunkedTypes
    <3>3. Cardinality(EventsOf("PN_LINK_FLOW", collector')) <= Cardinality(EventsOf("PN_LINK_FLOW", collector))
      BY <3>1, <3>2
    <3>4. QED
      BY <2>2, <3>1, <3>3, FedSame
  <2>5. QED
    BY <2>0, <2>3, <2>4
<1>3. QED
  BY ClientsAlways, <1>1, <1>2, PTL DEF Spec

\* sender.c and punisher.c use the credit they have before they wait, and an
\* idle chunked-sender.c has something to be written of every link with a
\* message left, unless it is flooded with flow frames.
THEOREM SendersUseTheirCredit == Spec => []NoIdleCredit
<1>1. ClientsInv /\ (program = "chunked-sender" => ChunkedFed) => NoIdleCredit
  <2>0. SUFFICES ASSUME ClientsInv, program = "chunked-sender" => ChunkedFed PROVE NoIdleCredit
    OBVIOUS
  <2>1. ASSUME SenderInv, collector = <<>>, WantsToSend PROVE credit = 0
    <3>1. ~Queued(LinkFlowEvent, collector) /\ credit \in Nat
      BY <2>1 DEF Queued, SenderInv, SenderTypes
    <3>2. QED
      BY <2>1, <3>1 DEF SenderInv, CreditHasEvent
  <2>2. ASSUME program = "chunked-sender" PROVE Chunked!NoIdleCredit
    <3>1. SUFFICES ASSUME collector = <<>>, NEW l \in Chunked!Links, ~Chunked!Flooded(l),
                          current[l] # 0 \/ (credit[l] > 0 /\ Chunked!WantsToSend)
                   PROVE  HasChunks(l)
      BY DEF Chunked!NoIdleCredit, HasChunks
    <3>2. ChunkedFed /\ flows \in Nat /\ HighWater \in Nat /\ limit \in Nat /\ limit > 0
      BY <2>0, <2>2, ReactorClientsAssumption DEF ChunkedFed, Paid, ClientsInv, ChunkedInv, ChunkedTypes
    <3>3. Safe(l)
      BY <3>1, <3>2 DEF Chunked!Flooded, Safe, Alone
    <3>4. Needs(l)
      BY <3>1, <3>2 DEF Needs, Chunked!WantsToSend
    <3>5. ~Queued(Chunked!FlowOn(l), collector)
      BY <3>1 DEF Queued
    <3>6. QED
      BY <3>2, <3>3, <3>4, <3>5 DEF ChunkedFed, EventDue
  <2>3. QED
    BY <2>0, <2>1, <2>2 DEF NoIdleCredit, ClientsInv
<1>2. QED
  BY ClientsAlways, FedAlways, <1>1, PTL

-----------------------------------------------------------------------------
(***************************************************************************)
(* Refinement: the send loop is an abstract Send, beginning a chunked      *)
(* message too, and settling with a new outcome an abstract Learn.         *)
(***************************************************************************)

\* The refinement mapping.
BulkSent  == IF program \in Receivers THEN 0 ELSE count
BulkKnown == IF presettle THEN {} ELSE IF program = "punisher" THEN Punishing!Answered ELSE settled
BulkDone  == \/ program = "sender" /\ Sending!Declared
             \/ program = "punisher" /\ Punishing!Declared
             \/ program = "chunked-sender" /\ Chunked!Declared

\* Without -p the outcomes known are those that are counted.
KnownRight ==
  /\ program \in {"sender", "punisher"} => BulkKnown = IF presettle THEN {} ELSE Heard
  /\ program \notin {"sender", "punisher"} => BulkKnown = IF presettle THEN {} ELSE settled

LEMMA KnownIsHeard == ClientsInv => KnownRight
<1> SUFFICES ASSUME ClientsInv PROVE KnownRight
  OBVIOUS
<1>1. Punishing!Answered = settled \union Left
  BY AnsweredIsLeft
<1>2. program \in {"sender", "punisher"} => SenderInv
  BY DEF ClientsInv
<1>3. ~presettle => Early(count) = {}
  BY DEF Early
<1>4. QED
  BY <1>1, <1>2, <1>3, HeardSent DEF KnownRight, BulkKnown

\* What the running program takes for the end of the transfer is the end.
DeclaredRight == BulkDone = Bulk!Finished

LEMMA DeclaredIsFinished == ClientsInv => DeclaredRight
<1> SUFFICES ASSUME ClientsInv PROVE DeclaredRight
  OBVIOUS
<1> USE DEF Receivers
<1>0. BulkDone \in BOOLEAN /\ Bulk!Finished \in BOOLEAN
  BY DEF BulkDone, Bulk!Finished
<1>1. limit \in Nat /\ count \in Nat
  BY DEF ClientsInv, Programs, SenderInv, SenderTypes, ChunkedInv, ChunkedTypes, ReceiverInv, ReceiverTypes
<1>2. CASE program = "sender"
  <2>1. SenderInv /\ ScaleSenderInv /\ limit > 0
    BY <1>2 DEF ClientsInv, ScaleSenderInv
  <2>2. Bulk!Finished <=> IF presettle THEN count = limit ELSE settled = 1..limit
    BY <1>1, <1>2, <2>1 DEF Bulk!Finished
  <2>3. Sending!Declared <=> IF presettle THEN count = limit ELSE settled = 1..limit
    BY <1>2, <2>1, SenderFinished DEF Sending!Declared
  <2>4. QED
    BY <1>0, <1>2, <2>2, <2>3 DEF DeclaredRight, BulkDone
<1>3. CASE program = "punisher"
  <2>1. /\ SenderInv /\ (~informs => acked = Cardinality(Heard))
        /\ limit > 0 => count <= limit
    BY <1>3 DEF ClientsInv, PunisherInv, SenderInv, CreditSpent
  <2>2. Bulk!Finished <=> limit > 0 /\ IF presettle THEN count = limit ELSE Punishing!Answered = 1..limit
    BY <1>1, <1>3 DEF Bulk!Finished
  <2>3. ~presettle /\ limit > 0 => Punishing!Answered = Heard /\ Heard \in SUBSET (1..limit)
    <3>1. ~presettle => Early(count) = {}
      BY DEF Early
    <3>2. QED
      BY <1>1, <2>1, <3>1, HeardSent, AnsweredIsLeft
  <2>4. ~presettle /\ limit > 0 /\ ~informs => (acked = limit <=> Punishing!Answered = 1..limit)
    BY <1>1, <2>1, <2>3, AllWhenAsMany
  <2>5. Punishing!Declared <=> limit > 0 /\ IF presettle THEN count = limit ELSE Punishing!Answered = 1..limit
    BY <2>4 DEF Punishing!Declared
  <2>6. QED
    BY <1>0, <1>3, <2>2, <2>5 DEF DeclaredRight, BulkDone
<1>4. CASE program = "chunked-sender"
  <2>1. ChunkedInv /\ acked = Cardinality(settled) /\ ~presettle
    BY <1>4 DEF ClientsInv, ChunkedInv, ChunkedTypes
  <2>2. Bulk!Finished <=> limit > 0 /\ settled = 1..limit
    BY <1>1, <1>4, <2>1 DEF Bulk!Finished
  <2>3. Chunked!Declared <=> limit > 0 /\ settled = 1..limit
    BY <2>1, ChunkedSettled DEF Chunked!Declared
  <2>4. QED
    BY <1>0, <1>4, <2>2, <2>3 DEF DeclaredRight, BulkDone
<1>5. CASE program \in Receivers
  <2>1. ~presettle /\ settled = {}
    BY <1>5 DEF ClientsInv, ReceiverInv, ReceiverTypes
  <2>2. limit # 0 => 1 \in 1..limit
    BY <1>1
  <2>3. ~Bulk!Finished
    BY <1>5, <2>1, <2>2 DEF Bulk!Finished
  <2>4. QED
    BY <1>0, <1>5, <2>3 DEF DeclaredRight, BulkDone
<1>6. QED
  BY <1>2, <1>3, <1>4, <1>5 DEF ClientsInv, Programs

LEMMA BulkInit == Init => Bulk!Init
<1> SUFFICES ASSUME Init PROVE Bulk!Init
  OBVIOUS
<1>1. ClientsInv
  BY ClientsInit
<1>2. count = 0 /\ settled = {} /\ limit \in Limits
  BY DEF Init, Sending!Init, Punishing!Init, Receiving!Init, Latency!Init, Through!Init, Chunked!Init,
         Sending!LinkInit, Punishing!LinkInit, Receiving!Link!Init, Latency!Link!Init, NoAcks
<1>3. presettle \in BOOLEAN
  BY <1>1 DEF ClientsInv, Programs, SenderInv, SenderTypes, ChunkedInv, ChunkedTypes, ReceiverInv, ReceiverTypes
<1>4. limit \in Nat /\ (limit # 0 => 1 \in 1..limit)
  BY <1>2, SendingLinkAssumption
<1>5. BulkKnown = {}
  <2>1. program = "punisher" => Left = {}
    BY DEF Init, Punishing!Init, Punishing!LinkInit, Left, Deliveries, Punishing!Deliveries
  <2>2. QED
    BY <1>2, <2>1, AnsweredIsLeft DEF BulkKnown
<1>6. Bulk!Finished = FALSE
  BY <1>2, <1>4, <1>5 DEF Bulk!Finished, BulkKnown
<1>7. BulkDone = FALSE
  BY <1>1, <1>6, DeclaredIsFinished DEF DeclaredRight
<1>8. QED
  BY <1>2, <1>3, <1>5, <1>7 DEF Bulk!Init, BulkDone, BulkKnown

LEMMA BulkStep ==
  ASSUME ClientsInv, ClientsInv', [Next]_vars
  PROVE  [Bulk!Next]_(Bulk!vars)
<1>1. UNCHANGED <<program, limit, presettle>>
  BY ClientsStep DEF ClientsInv, Programs, Receivers, LinkStep, Opens, Fixed, Same, Steady, Writes, LinkWrite, Sends,
     Hears, Grants, LinkFlow, Reports, LinkDisposition, ReceiverStep, Accepts, Ignores, Serves, Raises, Transfers,
     Idles, Kept
<1>2. BulkDone = Bulk!Finished
  BY DeclaredIsFinished DEF DeclaredRight
<1>3. BulkDone' = Bulk!Finished'
  <2>1. DeclaredRight'
    BY DeclaredIsFinished, PTL
  <2>2. QED
    BY <2>1 DEF DeclaredRight
<1>0. KnownRight /\ KnownRight'
  BY KnownIsHeard, PTL
<1>4. limit \in Nat /\ count \in Nat
  BY DEF ClientsInv, Programs, SenderInv, SenderTypes, ChunkedInv, ChunkedTypes, ReceiverInv, ReceiverTypes
<1>5. ASSUME UNCHANGED <<BulkSent, BulkKnown>> PROVE UNCHANGED Bulk!vars
  <2>1. Bulk!Finished' = Bulk!Finished
    BY <1>1, <1>5 DEF Bulk!Finished, BulkSent, BulkKnown
  <2>2. QED
    BY <1>1, <1>2, <1>3, <1>5, <2>1 DEF Bulk!vars, BulkDone, BulkSent, BulkKnown
<1>6. ASSUME \/ Bulk!Send /\ UNCHANGED BulkKnown
             \/ Bulk!Learn /\ UNCHANGED BulkSent
      PROVE  Bulk!Next
  BY <1>1, <1>3, <1>6 DEF Bulk!Next, BulkDone, BulkSent, BulkKnown
<1>7. ASSUME NEW n \in Nat, n > 0, limit > 0 => count + n <= limit, count' = count + n, program \notin Receivers
      PROVE  Bulk!Send
  BY <1>1, <1>4, <1>7 DEF Bulk!Send
<1>8. CASE program \in Receivers
  <2>1. UNCHANGED settled
    BY <1>8, ClientsStep DEF ReceiverStep, Accepts, Ignores, Serves, Raises, Transfers, Idles, Kept
  <2>2. UNCHANGED <<BulkSent, BulkKnown>>
    BY <1>0, <1>1, <1>8, <2>1 DEF BulkSent, KnownRight, Receivers
  <2>3. QED
    BY <1>5, <2>2
<1>9. CASE program = "chunked-sender"
  <2>1. ChunkedInv /\ ~presettle /\ program \notin Receivers /\ program' \notin Receivers /\ ~presettle'
    BY <1>1, <1>9 DEF ClientsInv, Receivers, ChunkedInv, ChunkedTypes
  <2>2. CASE UNCHANGED <<count, settled>>
    BY <1>0, <1>1, <1>5, <1>9, <2>2 DEF BulkSent, KnownRight
  <2>3. CASE UNCHANGED settled /\ count' = count + 1 /\ count' <= limit
    <3>1. Bulk!Send
      BY <1>7, <2>1, <2>3
    <3>2. UNCHANGED BulkKnown
      BY <1>0, <1>1, <1>9, <2>3 DEF KnownRight
    <3>3. QED
      BY <1>6, <3>1, <3>2
  <2>4. ASSUME UNCHANGED count, NEW d \in 1..count, d \notin settled, settled' = settled \union {d}
        PROVE  [Bulk!Next]_(Bulk!vars)
    <3>1. Bulk!Learn
      BY <1>1, <1>9, <2>1, <2>4 DEF Bulk!Learn
    <3>2. UNCHANGED BulkSent
      BY <1>1, <2>4 DEF BulkSent
    <3>3. QED
      BY <1>6, <3>1, <3>2
  <2>5. QED
    BY <1>9, <2>2, <2>3, <2>4, ClientsStep
<1>10. CASE program \in {"sender", "punisher"}
  <2>1. SenderInv /\ LinkStep /\ program \notin Receivers /\ program' \notin Receivers
    BY <1>1, <1>10, ClientsStep DEF ClientsInv, Receivers
  <2>2. ASSUME NEW n \in Nat, Sends(n) PROVE [Bulk!Next]_(Bulk!vars)
    <3>1. /\ count' = count + n /\ (limit > 0 => count + n <= limit)
          /\ settled' = settled \union (Early(count + n) \ Early(count))
      BY <2>2 DEF Sends
    <3>2. UNCHANGED BulkKnown
      <4>1. Heard' = Heard
        BY <2>1, <2>2, SentFacts
      <4>2. QED
        BY <1>0, <1>1, <1>10, <4>1 DEF KnownRight
    <3>3. CASE n = 0
      <4>1. UNCHANGED BulkSent
        BY <1>1, <1>4, <3>1, <3>3 DEF BulkSent
      <4>2. QED
        BY <1>5, <3>2, <4>1
    <3>4. CASE n > 0
      BY <1>6, <1>7, <2>1, <3>1, <3>2, <3>4
    <3>5. QED
      BY <3>3, <3>4
  <2>3. ASSUME NEW d \in Deliveries, Hears(d) PROVE [Bulk!Next]_(Bulk!vars)
    <3>1. /\ d \in 1..count /\ (Heard' = Heard \/ Heard' = Heard \union {d})
      BY <2>1, <2>3, HeardFacts DEF Hears
    <3>2. UNCHANGED BulkSent
      BY <1>1, <2>3 DEF BulkSent, Hears
    <3>3. CASE UNCHANGED BulkKnown
      BY <1>5, <3>2, <3>3
    <3>4. CASE BulkKnown' # BulkKnown
      <4>1. ~presettle /\ d \notin BulkKnown /\ BulkKnown' = BulkKnown \union {d}
        BY <1>0, <1>1, <1>10, <3>1, <3>4 DEF KnownRight
      <4>2. Bulk!Learn
        BY <2>1, <3>1, <4>1 DEF Bulk!Learn, BulkKnown
      <4>3. QED
        BY <1>6, <3>2, <4>2
    <3>5. QED
      BY <3>3, <3>4
  <2>4. CASE Opens \/ Steady \/ Writes \/ (\E n \in 0..MaxGranted : Grants(n)) \/ (\E d \in Deliveries : Reports(d))
    <3>1. UNCHANGED count /\ Heard' = Heard
      BY <2>1, <2>4, QuietHeard
    <3>2. QED
      BY <1>0, <1>1, <1>5, <1>10, <3>1 DEF BulkSent, KnownRight
  <2>5. QED
    BY <2>1, <2>2, <2>3, <2>4 DEF LinkStep
<1>11. QED
  BY <1>8, <1>9, <1>10 DEF ClientsInv, Programs

\* sender.c, punisher.c and chunked-sender.c implement the abstract bulk
\* transfer, whatever the limit, the peer and the interleaving.
THEOREM ReactorSendersImplementBulkSend == Spec => ImplementsBulkSend
<1>1. ClientsInv /\ ClientsInv' /\ [Next]_vars => [Bulk!Next]_(Bulk!vars)
  BY BulkStep
<1>2. QED
  BY BulkInit, ClientsAlways, <1>1, PTL DEF Spec, ImplementsBulkSend, Bulk!Spec
=============================================================================
