---------------------------- MODULE CloggerProofs ----------------------------
(***************************************************************************)
(* Proofs about Clogger (clogger.c), for every limit, body length, frame   *)
(* size and amount of credit.  What is said of continuations, idle credit  *)
(* and counters holds whatever the environment does; that the program does *)
(* not abort() is proved of one that neither interrupts it, nor closes the *)
(* connection unasked, nor decides on a message it has not fully received. *)
(***************************************************************************)
EXTENDS Clogger, CommonProofs, FiniteSetTheorems, TLAPS

\* What a batch of the connection may hold.
Events ==
  [type : {"PN_CONNECTION_INIT", "PN_LINK_FLOW"}, dlv : {0}]
    \union [type : {"PN_CONNECTION_REMOTE_OPEN", "PN_DELIVERY"}, dlv : Nat]

TypeOK ==
  /\ limit \in Nat /\ presettle \in BOOLEAN
  /\ turn \in {"wait", "batch", "exit", "aborted"}
  /\ conn \in {"init", "opening", "open", "closing", "closed"}
  /\ ptrs \in {"conn", "all", "none"}
  /\ timer \in {"off", "armed", "fired"}
  /\ wake \in BOOLEAN /\ stop \in BOOLEAN
  /\ events \in Seq(Events)
  /\ sent \in Nat /\ pn_dlv \in Nat /\ credit \in Nat
  /\ acked \in Nat /\ accepted \in Nat /\ not_accepted \in Nat
  /\ remote \in [Deliveries -> {"none", "received"} \union Outcomes]

(***************************************************************************)
(* The inductive invariant, for every environment.                         *)
(***************************************************************************)

\* The pointers are set when the endpoints are opened, which the first event
\* of all is for, and cleared when they are closed.
Pointers ==
  /\ ptrs = "conn" => /\ conn = "init" /\ events = <<ConnectionInitEvent>>
                      /\ pn_dlv = 0 /\ timer = "off" /\ ~wake /\ credit = 0 /\ sent = 0
  /\ ptrs = "all" => conn # "init" /\ ~Queued(ConnectionInitEvent, events)
  /\ ptrs = "none" => conn \in {"closing", "closed"}

\* The message in process is the next one, and within the limit; the
\* deliveries the peer may decide on are those sent and that one.
InProcess ==
  /\ pn_dlv # 0 => pn_dlv = sent + 1 /\ (limit = 0 \/ sent < limit)
  /\ limit > 0 => sent <= limit
  /\ settled \subseteq 1..(sent + 1) /\ updated \subseteq 1..(sent + 1) /\ updated \subseteq Deliveries
  /\ pn_dlv = 0 => settled \subseteq 1..sent /\ updated \subseteq 1..sent

\* Its credit is kept until the link advances past it.
CreditKept == pn_dlv # 0 /\ pn_dlv \notin settled => credit > 0

\* Credit that could start a message has its flow event waiting.
CreditHasEvent ==
  ptrs = "all" /\ pn_dlv = 0 /\ WantsToSend /\ credit > 0 => Queued(LinkFlowEvent, events)

\* News is cleared when it is counted, so nothing that is settled has news.
Counted ==
  ~presettle => updated \intersect settled = {} /\ OutcomesCountedOnce

\* A peer that decides only on what it has fully received decides on what was
\* sent, and not on what was presettled.
DecidesWhatIsSent ==
  ~EarlyOutcomes => /\ settled \subseteq 1..sent /\ updated \subseteq 1..sent
                    /\ presettle => settled = 1..sent /\ updated = {}

CloggerInv ==
  /\ TypeOK
  /\ Pointers
  /\ InProcess
  /\ CreditKept
  /\ OneContinuation
  /\ CreditHasEvent
  /\ Counted
  /\ DecidesWhatIsSent

-----------------------------------------------------------------------------
LEMMA EventTypes ==
  /\ ConnectionInitEvent \in Events /\ LinkFlowEvent \in Events
  /\ \A d \in Deliveries : DeliveryEvent(d) \in Events
  /\ \A rmf \in RemoteMaxFrames : Event("PN_CONNECTION_REMOTE_OPEN", rmf) \in Events
  /\ LinkFlowEvent # ConnectionInitEvent
  /\ \A d : DeliveryEvent(d) # ConnectionInitEvent
  /\ \A rmf : Event("PN_CONNECTION_REMOTE_OPEN", rmf) # ConnectionInitEvent
BY CloggerAssumption DEF Events, Deliveries, ConnectionInitEvent, LinkFlowEvent, DeliveryEvent, Event

\* Dispatching takes the oldest event and leaves the others waiting.
LEMMA DispatchQueue ==
  ASSUME events \in Seq(Events), NEW type, Dispatch(type)
  PROVE  /\ events' \in Seq(Events)
         /\ Head(events) \in Events /\ Head(events).type = type /\ Queued(Head(events), events)
         /\ \A f : /\ Queued(f, events') => Queued(f, events)
                   /\ Queued(f, events) /\ f # Head(events) => Queued(f, events')
<1>1. events # <<>> /\ events' = Tail(events) /\ Head(events).type = type
  BY DEF Dispatch
<1>2. /\ Head(events) \in Events /\ Head(events) = events[1] /\ Len(events) \in Nat \ {0}
      /\ Tail(events) \in Seq(Events)
  BY <1>1, TailShape
<1>3. Queued(Head(events), events)
  BY <1>2 DEF Queued
<1>4. QED
  BY <1>1, <1>2, <1>3, TailQueued

\* Only the handler of the flow event takes the flow event.
LEMMA KeepsFlowEvent ==
  ASSUME events \in Seq(Events), NEW type, Dispatch(type), type # "PN_LINK_FLOW",
         Queued(LinkFlowEvent, events)
  PROVE  Queued(LinkFlowEvent, events')
<1>1. Head(events) # LinkFlowEvent
  BY DispatchQueue DEF LinkFlowEvent, Event
<1>2. QED
  BY <1>1, DispatchQueue

LEMMA FiniteSettled ==
  ASSUME NEW n \in Nat, NEW S \in SUBSET (1..n)
  PROVE  IsFiniteSet(S) /\ Cardinality(S) \in Nat /\ Cardinality(S) <= n
<1>1. IsFiniteSet(1..n) /\ Cardinality(1..n) = n
  <2>1. n = 0 => 1..n = {}
    OBVIOUS
  <2>2. QED
    BY FS_Interval, FS_EmptySet, <2>1
<1>2. QED
  BY <1>1, FS_Subset, FS_CardinalityType

LEMMA InvInit == Init => CloggerInv
<1> SUFFICES ASSUME Init PROVE CloggerInv
  OBVIOUS
<1> USE DEF Init
<1>1. limit \in Nat /\ presettle \in BOOLEAN
  BY CloggerAssumption
<1>2. events \in Seq(Events) /\ remote \in [Deliveries -> {"none", "received"} \union Outcomes]
  BY EventTypes
<1>3. wake \in BOOLEAN /\ stop \in BOOLEAN
  BY Zenon
<1>4. TypeOK
  BY <1>1, <1>2, <1>3 DEF TypeOK
<1>5. Pointers /\ OneContinuation /\ CreditHasEvent
  BY DEF Pointers, OneContinuation, CreditHasEvent
<1>6. InProcess /\ CreditKept /\ DecidesWhatIsSent
  BY <1>1 DEF InProcess, CreditKept, DecidesWhatIsSent
<1>7. Counted
  <2>1. {d \in settled : remote[d] = "accepted"} = {} /\ {d \in settled : remote[d] = "rejected"} = {}
    OBVIOUS
  <2>2. QED
    BY <2>1, FS_EmptySet DEF Counted, OutcomesCountedOnce
<1>8. QED
  BY <1>4, <1>5, <1>6, <1>7 DEF CloggerInv

-----------------------------------------------------------------------------
\* Steps that neither send nor settle anything.
LEMMA SendFrame ==
  ASSUME CloggerInv, UNCHANGED <<optVars, pn_dlv, sent, credit, ackVars, remote>>
  PROVE  InProcess' /\ CreditKept' /\ Counted' /\ DecidesWhatIsSent'
<1> USE DEF CloggerInv, optVars, ackVars
<1>1. InProcess' /\ CreditKept' /\ DecidesWhatIsSent'
  BY DEF InProcess, CreditKept, DecidesWhatIsSent
<1>2. Counted'
  BY DEF Counted, OutcomesCountedOnce
<1>3. QED
  BY <1>1, <1>2

\* main(), after a batch: the endpoints are closed with their pointers.
LEMMA AfterBatchFacts ==
  ASSUME TypeOK, Pointers, NEW next \in {"wait", "exit"}, NEW stopping, AfterBatch(next, stopping)
  PROVE  /\ turn' \in {"wait", "exit", "aborted"}
         /\ (ptrs' = "none" /\ conn' \in {"closing", "closed"}) \/ UNCHANGED <<conn, ptrs>>
         /\ turn' = "aborted" => conn = "closed" /\ ptrs # "none"
BY DEF AfterBatch, TypeOK, Pointers

LEMMA InvBeginBatch ==
  ASSUME CloggerInv, BeginBatch
  PROVE  CloggerInv'
<1> USE DEF CloggerInv, BeginBatch, connVars, sendVars, peerVars
<1>1. InProcess' /\ CreditKept' /\ Counted' /\ DecidesWhatIsSent'
  BY SendFrame
<1>2. TypeOK' /\ Pointers' /\ OneContinuation' /\ CreditHasEvent'
  BY DEF TypeOK, Pointers, OneContinuation, CreditHasEvent, WantsToSend, optVars, ackVars
<1>3. QED
  BY <1>1, <1>2

\* The steps after which main() looks at `stop'.
LEMMA InvLooksAtStop ==
  ASSUME CloggerInv, EndBatch \/ Interrupted \/ Inactive
  PROVE  CloggerInv'
<1> USE DEF CloggerInv, EndBatch, Interrupted, Inactive, sendVars, peerVars
<1>1. InProcess' /\ CreditKept' /\ Counted' /\ DecidesWhatIsSent'
  BY SendFrame
<1>2. /\ turn \in {"wait", "batch"} /\ turn' \in {"wait", "exit", "aborted"}
      /\ (ptrs' = "none" /\ conn' \in {"closing", "closed"}) \/ UNCHANGED <<conn, ptrs>>
  BY AfterBatchFacts
<1>3. UNCHANGED <<optVars, events, wake, timer, stop, sendVars, ackVars, remote>>
  OBVIOUS
<1>4. TypeOK' /\ Pointers'
  BY <1>2, <1>3 DEF TypeOK, Pointers, optVars, ackVars
<1>5. OneContinuation' /\ CreditHasEvent'
  BY <1>2, <1>3 DEF OneContinuation, CreditHasEvent, WantsToSend, optVars
<1>6. QED
  BY <1>1, <1>4, <1>5

\* PN_CONNECTION_INIT is the first event and, with its pointer set, the only
\* one: no credit has been granted and nothing is in process.
LEMMA InvConnectionInit ==
  ASSUME CloggerInv, ConnectionInit
  PROVE  CloggerInv'
<1> USE DEF CloggerInv, ConnectionInit, sendVars, peerVars
<1>1. InProcess' /\ CreditKept' /\ Counted' /\ DecidesWhatIsSent'
  BY SendFrame
<1>2. events \in Seq(Events) /\ events' \in Seq(Events) /\ Queued(ConnectionInitEvent, events)
  <2>1. events \in Seq(Events) /\ Dispatch("PN_CONNECTION_INIT")
    BY DEF TypeOK
  <2>2. Head(events) = ConnectionInitEvent
    BY <2>1, DispatchQueue DEF Events, ConnectionInitEvent, Event
  <2>3. QED
    BY <2>1, <2>2, DispatchQueue
<1>3. ptrs # "all"
  BY <1>2 DEF Pointers
<1>4. CASE ptrs = "none"
  BY <1>1, <1>2, <1>4 DEF TypeOK, Pointers, OneContinuation, CreditHasEvent, optVars, ackVars
<1>5. CASE ptrs = "conn"
  <2>1. events' = <<>> /\ pn_dlv = 0 /\ timer = "off" /\ ~wake /\ credit = 0
    BY <1>5 DEF Pointers, Dispatch
  <2>2. ~Queued(ConnectionInitEvent, events')
    BY <2>1 DEF Queued
  <2>3. TypeOK'
    BY <1>2, <1>5 DEF TypeOK, optVars, ackVars
  <2>4. Pointers' /\ OneContinuation' /\ CreditHasEvent'
    BY <1>5, <2>1, <2>2 DEF Pointers, OneContinuation, CreditHasEvent
  <2>5. QED
    BY <1>1, <2>3, <2>4
<1>6. QED
  BY <1>3, <1>4, <1>5 DEF TypeOK

\* PN_CONNECTION_REMOTE_OPEN, and PN_DELIVERY without news.
LEMMA InvOnlyDispatch ==
  ASSUME CloggerInv, RemoteOpen \/ DeliveryStale
  PROVE  CloggerInv'
<1> USE DEF CloggerInv, RemoteOpen, DeliveryStale, connVars, sendVars, peerVars
<1>1. InProcess' /\ CreditKept' /\ Counted' /\ DecidesWhatIsSent'
  BY SendFrame
<1>2. PICK type \in {"PN_CONNECTION_REMOTE_OPEN", "PN_DELIVERY"} : Dispatch(type)
  OBVIOUS
<1>3. /\ events \in Seq(Events) /\ events' \in Seq(Events)
      /\ Queued(LinkFlowEvent, events) => Queued(LinkFlowEvent, events')
      /\ Queued(ConnectionInitEvent, events') => Queued(ConnectionInitEvent, events)
  BY <1>2, DispatchQueue, KeepsFlowEvent DEF TypeOK
<1>4. ptrs # "conn"
  <2>1. Head(events) # ConnectionInitEvent
    BY <1>2, <1>3, DispatchQueue DEF ConnectionInitEvent, Event
  <2>2. QED
    BY <2>1 DEF Pointers
<1>5. TypeOK' /\ Pointers'
  BY <1>3, <1>4 DEF TypeOK, Pointers, optVars, ackVars
<1>6. OneContinuation' /\ CreditHasEvent'
  BY <1>3 DEF OneContinuation, CreditHasEvent, WantsToSend, optVars
<1>7. QED
  BY <1>1, <1>5, <1>6

\* PN_LINK_FLOW starts a message if it may, and then has used its event.
LEMMA InvLinkFlow ==
  ASSUME CloggerInv, LinkFlow
  PROVE  CloggerInv'
<1> USE DEF CloggerInv, LinkFlow, optVars, connVars, ackVars, peerVars
<1>1. events \in Seq(Events) /\ Dispatch("PN_LINK_FLOW")
  BY DEF TypeOK
<1>2. /\ events' \in Seq(Events)
      /\ Queued(ConnectionInitEvent, events') => Queued(ConnectionInitEvent, events)
  BY <1>1, DispatchQueue
<1>3. ptrs # "conn"
  <2>1. Head(events) # ConnectionInitEvent
    BY <1>1, DispatchQueue DEF ConnectionInitEvent, Event
  <2>2. QED
    BY <2>1 DEF Pointers
<1>4. Counted'
  BY DEF Counted, OutcomesCountedOnce
<1>5. CASE MayStart
  <2>1. /\ ptrs = "all" /\ pn_dlv = 0 /\ credit > 0 /\ WantsToSend
        /\ turn' = turn /\ timer' = "armed" /\ pn_dlv' = sent + 1
    BY <1>5 DEF MayStart, StartMessage
  <2>2. TypeOK' /\ Pointers'
    BY <1>2, <1>3, <2>1 DEF TypeOK, Pointers
  <2>3. InProcess' /\ CreditKept' /\ DecidesWhatIsSent' /\ CreditHasEvent'
    BY <2>1 DEF InProcess, CreditKept, DecidesWhatIsSent, CreditHasEvent, WantsToSend, TypeOK
  <2>4. OneContinuation'
    BY <2>1 DEF OneContinuation, TypeOK
  <2>5. QED
    BY <1>4, <2>2, <2>3, <2>4
<1>6. CASE ~MayStart
  <2>1. UNCHANGED <<turn, timer, pn_dlv>>
    BY <1>6
  <2>2. TypeOK' /\ Pointers'
    BY <1>2, <1>3, <2>1 DEF TypeOK, Pointers
  <2>3. InProcess' /\ CreditKept' /\ DecidesWhatIsSent'
    BY <2>1 DEF InProcess, CreditKept, DecidesWhatIsSent
  <2>4. OneContinuation' /\ CreditHasEvent'
    BY <1>6, <2>1 DEF OneContinuation, CreditHasEvent, WantsToSend, MayStart
  <2>5. QED
    BY <1>4, <2>2, <2>3, <2>4
<1>7. QED
  BY <1>5, <1>6

\* An outcome with news has not been settled, so one more is settled and
\* counted, as what it is.
LEMMA OutcomeCounts ==
  ASSUME CloggerInv, NEW d \in updated, Outcome(d), Clear(d), UNCHANGED <<presettle, remote>>
  PROVE  Counted'
<1> SUFFICES ASSUME ~presettle PROVE Counted'
  BY DEF Counted
<1>1. d \notin settled /\ d \in Deliveries /\ settled \subseteq 1..(sent + 1) /\ sent + 1 \in Nat
  BY DEF CloggerInv, Counted, InProcess, TypeOK
<1>2. updated' \intersect settled' = {}
  BY <1>1 DEF CloggerInv, Counted, Outcome, Clear
<1> DEFINE With(S, o) == {e \in S : remote[e] = o}
<1>3. /\ IsFiniteSet(settled) /\ Cardinality(settled) \in Nat
      /\ \A o : IsFiniteSet(With(settled, o)) /\ Cardinality(With(settled, o)) \in Nat
  BY <1>1, FiniteSettled
<1>4. settled' = settled \union {d} /\ acked' = acked + 1
  BY DEF Outcome
<1>5. ASSUME NEW o, remote[d] = o PROVE Cardinality(With(settled', o)) = Cardinality(With(settled, o)) + 1
  <2>1. With(settled', o) = With(settled, o) \union {d} /\ d \notin With(settled, o)
    BY <1>1, <1>4, <1>5
  <2> HIDE DEF With
  <2>2. QED
    BY <1>3, <2>1, FS_AddElement
<1>6. ASSUME NEW o, remote[d] # o PROVE With(settled', o) = With(settled, o)
  BY <1>4, <1>6
<1>7. Cardinality(settled') = Cardinality(settled) + 1
  BY <1>1, <1>3, <1>4, FS_AddElement
<1>8. /\ acked = Cardinality(settled)
      /\ accepted = Cardinality(With(settled, "accepted"))
      /\ not_accepted = Cardinality(With(settled, "rejected"))
  BY DEF CloggerInv, Counted, OutcomesCountedOnce
<1>9. /\ accepted' = Cardinality(With(settled', "accepted"))
      /\ not_accepted' = Cardinality(With(settled', "rejected"))
  <2>1. accepted \in Nat /\ not_accepted \in Nat
    BY DEF CloggerInv, TypeOK
  <2> HIDE DEF With
  <2>2. CASE remote[d] = "accepted"
    <3>1. accepted' = accepted + 1 /\ not_accepted' = not_accepted
      BY <2>1, <2>2 DEF Outcome
    <3>2. QED
      BY <1>5, <1>6, <1>8, <2>2, <3>1
  <2>3. CASE remote[d] = "rejected"
    <3>1. accepted' = accepted /\ not_accepted' = not_accepted + 1
      BY <2>1, <2>3 DEF Outcome
    <3>2. QED
      BY <1>5, <1>6, <1>8, <2>3, <3>1
  <2>4. QED
    BY <2>2, <2>3 DEF Outcome, Outcomes
<1>10. QED
  BY <1>2, <1>4, <1>7, <1>8, <1>9 DEF Counted, OutcomesCountedOnce

\* PN_DELIVERY with news.
LEMMA InvDelivery ==
  ASSUME CloggerInv, Delivery
  PROVE  CloggerInv'
<1> USE DEF CloggerInv, optVars, connVars, peerVars
<1> DEFINE d == Head(events).dlv
<1>1. /\ Dispatch("PN_DELIVERY") /\ d \in updated /\ Clear(d) /\ (Received(d) \/ Outcome(d))
      /\ UNCHANGED <<limit, presettle, turn, wake, timer, conn, ptrs, pn_dlv, sent, remote>>
      /\ stop' \in BOOLEAN
  BY DEF Delivery, TypeOK, Complete
<1>2. /\ events \in Seq(Events) /\ events' \in Seq(Events)
      /\ Queued(LinkFlowEvent, events) => Queued(LinkFlowEvent, events')
      /\ Queued(ConnectionInitEvent, events') => Queued(ConnectionInitEvent, events)
  BY <1>1, DispatchQueue, KeepsFlowEvent DEF TypeOK
<1>3. ptrs # "conn"
  <2>1. Head(events) # ConnectionInitEvent
    BY <1>1, <1>2, DispatchQueue DEF ConnectionInitEvent, Event
  <2>2. QED
    BY <2>1 DEF Pointers
<1> HIDE DEF d
<1>4. d \in 1..(sent + 1) /\ d \in Deliveries /\ (pn_dlv = 0 => d \in 1..sent) /\ sent \in Nat
  BY <1>1 DEF InProcess, TypeOK
<1>5. /\ updated' \subseteq updated /\ d \notin updated'
      /\ settled' = settled \/ settled' = settled \union {d}
  BY <1>1 DEF Clear, Received, Outcome
<1>6. credit' \in Nat /\ (credit' # credit => pn_dlv = d /\ d \in settled') /\ credit' <= credit
  <2>1. CASE Received(d)
    BY <2>1 DEF Received, TypeOK
  <2>2. CASE Outcome(d)
    BY <1>4, <2>2 DEF Outcome, TypeOK, CreditKept
  <2>3. QED
    BY <1>1, <2>1, <2>2
<1>7. acked' \in Nat /\ accepted' \in Nat /\ not_accepted' \in Nat
  BY <1>1 DEF Received, Outcome, TypeOK
<1>8. Counted'
  <2>1. CASE Received(d)
    BY <1>1, <1>5, <2>1 DEF Received, Counted, OutcomesCountedOnce
  <2>2. CASE Outcome(d)
    BY <1>1, <2>2, OutcomeCounts
  <2>3. QED
    BY <1>1, <2>1, <2>2
<1>9. TypeOK'
  BY <1>1, <1>2, <1>6, <1>7 DEF TypeOK
<1>10. Pointers'
  BY <1>1, <1>2, <1>3 DEF Pointers
<1>11. InProcess'
  BY <1>1, <1>4, <1>5 DEF InProcess, TypeOK
<1>12. CreditKept'
  BY <1>1, <1>5, <1>6 DEF CreditKept, TypeOK
<1>13. OneContinuation' /\ CreditHasEvent'
  BY <1>1, <1>2, <1>4, <1>6 DEF OneContinuation, CreditHasEvent, WantsToSend, TypeOK
<1>14. DecidesWhatIsSent'
  BY <1>1, <1>5 DEF DecidesWhatIsSent
<1>15. QED
  BY <1>8, <1>9, <1>10, <1>11, <1>12, <1>13, <1>14

\* PN_CONNECTION_WAKE, a chunk that fails or is not the last.
LEMMA InvWakeGoesOn ==
  ASSUME CloggerInv, WakeFails \/ WakeChunk
  PROVE  CloggerInv'
<1> USE DEF CloggerInv, WakeFails, WakeChunk, connVars, sendVars, peerVars
<1>1. InProcess' /\ CreditKept' /\ Counted' /\ DecidesWhatIsSent'
  BY SendFrame
<1>2. pn_dlv # 0 /\ wake
  OBVIOUS
<1>3. TypeOK' /\ Pointers'
  BY <1>2 DEF TypeOK, Pointers, optVars, ackVars
<1>4. OneContinuation' /\ CreditHasEvent'
  BY <1>2 DEF OneContinuation, CreditHasEvent, TypeOK
<1>5. QED
  BY <1>1, <1>3, <1>4

\* ... and the last one: the message is sent, its credit is spent, and the
\* next message starts with a pause of its own or nothing is in process.
LEMMA InvWakeLastChunk ==
  ASSUME CloggerInv, WakeLastChunk
  PROVE  CloggerInv'
<1> USE DEF CloggerInv, optVars, connVars, peerVars
<1>1. /\ turn = "batch" /\ wake /\ pn_dlv # 0 /\ ~wake' /\ sent' = sent + 1
      /\ credit' = IF ptrs = "all" /\ pn_dlv \notin settled THEN credit - 1 ELSE credit
      /\ settled' = IF presettle THEN settled \union {pn_dlv} ELSE settled
      /\ stop' \in BOOLEAN /\ wake' \in BOOLEAN
      /\ NextMessage(sent', credit')
      /\ UNCHANGED <<limit, presettle, events, conn, ptrs, acked, accepted, not_accepted, updated, remote>>
  BY DEF WakeLastChunk, TypeOK
<1>2. pn_dlv = sent + 1 /\ (limit = 0 \/ sent < limit) /\ ptrs # "conn"
  BY <1>1 DEF InProcess, Pointers
<1>3. sent \in Nat /\ credit \in Nat /\ credit' \in Nat /\ limit \in Nat
  BY <1>1 DEF TypeOK, CreditKept
<1>4. /\ turn' = "batch"
      /\ \/ /\ (limit = 0 \/ sent' < limit) /\ ptrs = "all" /\ credit' > 0
            /\ pn_dlv' = sent' + 1 /\ timer' = "armed"
         \/ /\ ~((limit = 0 \/ sent' < limit) /\ ptrs = "all" /\ credit' > 0)
            /\ pn_dlv' = 0 /\ timer' = timer
  BY <1>1 DEF NextMessage, StartMessage
<1>5. TypeOK' /\ Pointers'
  BY <1>1, <1>2, <1>3, <1>4 DEF TypeOK, Pointers
<1>6. settled' \subseteq 1..sent' /\ updated' \subseteq 1..sent'
  BY <1>1, <1>2, <1>3 DEF InProcess
<1>7. InProcess'
  <2>1. sent' \in Nat /\ (limit' > 0 => sent' <= limit') /\ 1..sent' \subseteq 1..(sent' + 1)
    BY <1>1, <1>2, <1>3
  <2>2. updated' \subseteq Deliveries
    BY <1>1 DEF InProcess
  <2>3. QED
    BY <1>1, <1>4, <1>6, <2>1, <2>2 DEF InProcess
<1>8. CreditKept'
  BY <1>4 DEF CreditKept
<1>9. OneContinuation'
  BY <1>1, <1>3, <1>4 DEF OneContinuation
<1>10. CreditHasEvent'
  BY <1>1, <1>3, <1>4 DEF CreditHasEvent, WantsToSend
<1>11. Counted'
  BY <1>1 DEF Counted, OutcomesCountedOnce
<1>12. DecidesWhatIsSent'
  <2>1. (1..sent) \union {sent + 1} = 1..(sent + 1)
    BY <1>3
  <2>2. QED
    BY <1>1, <1>2, <1>6, <2>1 DEF DecidesWhatIsSent
<1>13. QED
  BY <1>5, <1>7, <1>8, <1>9, <1>10, <1>11, <1>12

\* The timer's event becomes a wake, unless there is nothing left to wake.
LEMMA InvTimeout ==
  ASSUME CloggerInv, Timeout
  PROVE  CloggerInv'
<1> USE DEF CloggerInv, sendVars, peerVars
<1>1. /\ turn = "wait" /\ timer = "fired" /\ timer' = "off"
      /\ wake' = (wake \/ (ptrs # "none" /\ conn # "closed"))
      /\ UNCHANGED <<optVars, events, stop, sendVars, ackVars, remote>>
  BY DEF Timeout
<1>2. InProcess' /\ CreditKept' /\ Counted' /\ DecidesWhatIsSent'
  BY <1>1, SendFrame
<1>3. /\ turn' \in {"wait", "exit", "aborted"}
      /\ (ptrs' = "none" /\ conn' \in {"closing", "closed"}) \/ UNCHANGED <<conn, ptrs>>
  <2>1. CASE ptrs # "none" /\ conn = "closed" /\ ~stop
    BY <2>1, <1>1 DEF Timeout
  <2>2. CASE ~(ptrs # "none" /\ conn = "closed" /\ ~stop)
    BY <2>2, AfterBatchFacts DEF Timeout
  <2>3. QED
    BY <2>1, <2>2
<1>4. wake' \in BOOLEAN
  BY <1>1 DEF TypeOK
<1>5. TypeOK' /\ Pointers'
  BY <1>1, <1>3, <1>4 DEF TypeOK, Pointers, optVars, ackVars
<1>6. OneContinuation' /\ CreditHasEvent'
  BY <1>1, <1>3 DEF OneContinuation, CreditHasEvent, WantsToSend, optVars, TypeOK, Pointers
<1>7. QED
  BY <1>2, <1>5, <1>6

\* A signal, and the timer going off.
LEMMA InvSignalOrTimer ==
  ASSUME CloggerInv, SignalHandler \/ TimerFires
  PROVE  CloggerInv'
<1> USE DEF CloggerInv, SignalHandler, TimerFires, connVars, sendVars, peerVars
<1>1. InProcess' /\ CreditKept' /\ Counted' /\ DecidesWhatIsSent'
  BY SendFrame
<1>2. stop' \in BOOLEAN /\ wake' = wake
  BY DEF TypeOK
<1>3. TypeOK' /\ Pointers'
  BY <1>2 DEF TypeOK, Pointers, optVars, ackVars
<1>4. OneContinuation' /\ CreditHasEvent'
  BY DEF OneContinuation, CreditHasEvent, WantsToSend, optVars
<1>5. QED
  BY <1>1, <1>3, <1>4

\* What is read raises an event behind those that wait.
LEMMA ReadsQueue ==
  ASSUME events \in Seq(Events), NEW e \in Events, e # ConnectionInitEvent, Reads(e)
  PROVE  /\ events' \in Seq(Events)
         /\ Queued(ConnectionInitEvent, events') => Queued(ConnectionInitEvent, events)
         /\ Queued(LinkFlowEvent, events) \/ e = LinkFlowEvent => Queued(LinkFlowEvent, events')
BY PutType, PutQueued DEF Reads

LEMMA InvPeerOpen ==
  ASSUME CloggerInv, NEW rmf \in RemoteMaxFrames, PeerOpen(rmf)
  PROVE  CloggerInv'
<1> USE DEF CloggerInv, PeerOpen, optVars, ackVars, peerVars
<1> DEFINE e == Event("PN_CONNECTION_REMOTE_OPEN", rmf)
<1>1. /\ events' \in Seq(Events)
      /\ Queued(ConnectionInitEvent, events') => Queued(ConnectionInitEvent, events)
      /\ Queued(LinkFlowEvent, events) => Queued(LinkFlowEvent, events')
  BY EventTypes, ReadsQueue DEF TypeOK
<1>2. UNCHANGED <<optVars, turn, wake, timer, ptrs, stop, pn_dlv, sent, credit, ackVars, remote>>
  BY DEF Reads
<1>3. InProcess' /\ CreditKept' /\ Counted' /\ DecidesWhatIsSent'
  BY <1>2, SendFrame
<1>4. TypeOK' /\ Pointers'
  BY <1>1, <1>2 DEF TypeOK, Pointers
<1>5. OneContinuation' /\ CreditHasEvent'
  BY <1>1, <1>2 DEF OneContinuation, CreditHasEvent, WantsToSend
<1>6. QED
  BY <1>3, <1>4, <1>5

\* Credit comes with the event that will use it.
LEMMA InvPeerFlow ==
  ASSUME CloggerInv, NEW n \in 0..MaxGranted, PeerFlow(n)
  PROVE  CloggerInv'
<1> USE DEF CloggerInv, PeerFlow, optVars
<1>1. /\ events' \in Seq(Events) /\ Queued(LinkFlowEvent, events')
      /\ Queued(ConnectionInitEvent, events') => Queued(ConnectionInitEvent, events)
  BY EventTypes, ReadsQueue DEF TypeOK
<1>2. /\ UNCHANGED <<optVars, turn, wake, timer, conn, ptrs, stop, pn_dlv, sent, ackVars, remote>>
      /\ credit' = credit + n /\ conn \in {"open", "closing"}
  BY DEF Reads, ackVars
<1>3. credit' \in Nat /\ credit' >= credit
  BY <1>2, CloggerAssumption DEF TypeOK
<1>4. TypeOK' /\ Pointers'
  BY <1>1, <1>2, <1>3 DEF TypeOK, Pointers, ackVars
<1>5. InProcess' /\ CreditKept' /\ DecidesWhatIsSent'
  BY <1>2, <1>3 DEF InProcess, CreditKept, DecidesWhatIsSent, ackVars, TypeOK
<1>6. OneContinuation' /\ CreditHasEvent'
  BY <1>1, <1>2 DEF OneContinuation, CreditHasEvent
<1>7. Counted'
  BY <1>2 DEF Counted, OutcomesCountedOnce, ackVars
<1>8. QED
  BY <1>4, <1>5, <1>6, <1>7

\* A disposition is news about a delivery that is not settled.
LEMMA InvPeerDisposition ==
  ASSUME CloggerInv, NEW d \in Deliveries, NEW state \in {"received"} \union Outcomes, PeerDisposition(d, state)
  PROVE  CloggerInv'
<1> USE DEF CloggerInv, PeerDisposition, optVars
<1>1. /\ events' \in Seq(Events)
      /\ Queued(ConnectionInitEvent, events') => Queued(ConnectionInitEvent, events)
      /\ Queued(LinkFlowEvent, events) => Queued(LinkFlowEvent, events')
  BY EventTypes, ReadsQueue DEF TypeOK
<1>2. /\ UNCHANGED <<optVars, turn, wake, timer, conn, ptrs, stop, pn_dlv, sent, credit>>
      /\ UNCHANGED <<acked, accepted, not_accepted, settled>>
      /\ d \notin settled /\ updated' = updated \union {d}
      /\ remote' = [remote EXCEPT ![d] = state] /\ conn \in {"open", "closing"}
      /\ d <= sent \/ (EarlyOutcomes /\ d = pn_dlv)
  BY DEF Reads
<1>3. d \in Nat /\ d >= 1 /\ sent \in Nat
  BY DEF Deliveries, TypeOK
<1>4. remote' \in [Deliveries -> {"none", "received"} \union Outcomes]
  BY <1>2 DEF TypeOK
<1>5. TypeOK' /\ Pointers'
  BY <1>1, <1>2, <1>4 DEF TypeOK, Pointers
<1>6. InProcess' /\ CreditKept'
  BY <1>2, <1>3 DEF InProcess, CreditKept
<1>7. DecidesWhatIsSent'
  BY <1>2, <1>3 DEF DecidesWhatIsSent
<1>8. OneContinuation' /\ CreditHasEvent'
  BY <1>1, <1>2 DEF OneContinuation, CreditHasEvent, WantsToSend
<1>9. Counted'
  <2>1. CASE presettle
    BY <1>2, <2>1 DEF Counted
  <2>2. CASE ~presettle
    <3>1. ASSUME NEW o PROVE {e \in settled : remote'[e] = o} = {e \in settled : remote[e] = o}
      <4>1. \A e \in settled : remote'[e] = remote[e]
        BY <1>2 DEF TypeOK
      <4>2. QED
        BY <4>1
    <3>2. QED
      BY <1>2, <2>2, <3>1 DEF Counted, OutcomesCountedOnce
  <2>3. QED
    BY <2>1, <2>2
<1>10. QED
  BY <1>5, <1>6, <1>7, <1>8, <1>9

LEMMA InvPeerLeaves ==
  ASSUME CloggerInv, PeerClose \/ PeerDetach
  PROVE  CloggerInv'
<1> USE DEF CloggerInv, PeerClose, PeerDetach, loopVars, sendVars, peerVars
<1>1. InProcess' /\ CreditKept' /\ Counted' /\ DecidesWhatIsSent'
  BY SendFrame
<1>2. TypeOK' /\ Pointers'
  BY DEF TypeOK, Pointers, optVars, ackVars
<1>3. OneContinuation' /\ CreditHasEvent'
  BY DEF OneContinuation, CreditHasEvent, WantsToSend, optVars
<1>4. QED
  BY <1>1, <1>2, <1>3

LEMMA InvStep == CloggerInv /\ [Next]_vars => CloggerInv'
<1> SUFFICES ASSUME CloggerInv, [Next]_vars PROVE CloggerInv'
  OBVIOUS
<1>1. CASE UNCHANGED vars
  <2> USE <1>1 DEF vars, loopVars, connVars, sendVars, peerVars, CloggerInv
  <2>1. InProcess' /\ CreditKept' /\ Counted' /\ DecidesWhatIsSent'
    BY SendFrame
  <2>2. TypeOK' /\ Pointers' /\ OneContinuation' /\ CreditHasEvent'
    BY DEF TypeOK, Pointers, OneContinuation, CreditHasEvent, WantsToSend, optVars, ackVars
  <2>3. QED
    BY <2>1, <2>2
<1>2. QED
  BY <1>1, InvBeginBatch, InvLooksAtStop, InvConnectionInit, InvOnlyDispatch, InvLinkFlow, InvDelivery,
     InvWakeGoesOn, InvWakeLastChunk, InvTimeout, InvSignalOrTimer, InvPeerOpen, InvPeerFlow,
     InvPeerDisposition, InvPeerLeaves
  DEF Next, Client, Peer, Ended

LEMMA InvAlways == Spec => []CloggerInv
BY InvInit, InvStep, PTL DEF Spec

\* A message in process has exactly one continuation, the timer or the wake,
\* whatever signals and closes do.
THEOREM ContinuesOnce == Spec => []OneContinuation
<1>1. CloggerInv => OneContinuation
  BY DEF CloggerInv
<1>2. QED
  BY InvAlways, <1>1, PTL

\* An idle client with messages left has neither credit nor work.
THEOREM UsesItsCredit == Spec => []NoIdleCredit
<1>1. CloggerInv => NoIdleCredit
  <2> SUFFICES ASSUME CloggerInv, turn = "wait", conn = "open", events = <<>>, ~wake, WantsToSend, credit # 0
               PROVE  timer # "off"
    BY DEF NoIdleCredit
  <2>1. ptrs = "all" /\ credit > 0
    BY DEF CloggerInv, Pointers, TypeOK
  <2>2. pn_dlv # 0
    BY <2>1 DEF CloggerInv, CreditHasEvent, Queued
  <2>3. QED
    BY <2>1, <2>2 DEF CloggerInv, OneContinuation
<1>2. QED
  BY InvAlways, <1>1, PTL

\* Every outcome is counted once, as what it was.
THEOREM CountsOutcomesOnce == Spec => []OutcomesCountedOnce
<1>1. CloggerInv => OutcomesCountedOnce
  BY DEF CloggerInv, Counted, OutcomesCountedOnce
<1>2. QED
  BY InvAlways, <1>1, PTL

-----------------------------------------------------------------------------
(***************************************************************************)
(* In a calm environment the client stops only when everything is sent and *)
(* nothing is in process, so no timer or wake outlives the pointers.       *)
(***************************************************************************)
Calm == ~MaySignal /\ ~MayClose /\ ~EarlyOutcomes

CalmInv ==
  /\ turn # "aborted"
  /\ ptrs = "none" <=> conn \in {"closing", "closed"}
  /\ ptrs = "none" => stop /\ ~Queued(ConnectionInitEvent, events)
  /\ stop => limit > 0 /\ sent = limit
  /\ pn_dlv # 0 <=> (timer # "off" \/ wake)
  /\ ~(timer # "off" /\ wake)

LEMMA CalmInit == Init => CalmInv
BY DEF Init, CalmInv

\* main(), after a batch, while nothing is in process of a client that stops.
LEMMA CalmLooksAtStop ==
  ASSUME CloggerInv, CloggerInv', CalmInv, EndBatch \/ Interrupted \/ Inactive
  PROVE  CalmInv'
<1> USE DEF EndBatch, Interrupted, Inactive, sendVars, optVars
<1>1. /\ (ptrs' = "none" /\ conn' \in {"closing", "closed"} /\ stop) \/ UNCHANGED <<conn, ptrs>>
      /\ turn' # "aborted"
  BY DEF AfterBatch, CalmInv, CloggerInv, TypeOK, Pointers
<1>2. ptrs' = "none" => ~Queued(ConnectionInitEvent, events)
  <2>1. CASE UNCHANGED ptrs
    BY <2>1 DEF CalmInv
  <2>2. CASE ptrs = "all"
    BY <2>2 DEF CloggerInv, Pointers
  <2>3. CASE ptrs = "conn"
    <3>1. ~stop
      BY <2>3 DEF CalmInv, CloggerInv, Pointers
    <3>2. QED
      BY <1>1, <2>3, <3>1 DEF CalmInv
  <2>4. QED
    BY <2>1, <2>2, <2>3 DEF CloggerInv, TypeOK
<1>3. QED
  BY <1>1, <1>2 DEF CalmInv

\* A handler that leaves `stop' and what is in process alone.
LEMMA CalmHandlers ==
  ASSUME CloggerInv, CalmInv,
         ConnectionInit \/ RemoteOpen \/ DeliveryStale \/ LinkFlow \/ WakeChunk
  PROVE  CalmInv'
<1> USE DEF connVars, sendVars, optVars
<1>1. CASE ConnectionInit
  <2>1. events \in Seq(Events) /\ Dispatch("PN_CONNECTION_INIT")
    BY <1>1 DEF CloggerInv, TypeOK, ConnectionInit
  <2>2. Head(events) = ConnectionInitEvent
    BY <2>1, DispatchQueue DEF Events, ConnectionInitEvent, Event
  <2>3. ptrs # "none"
    BY <2>1, <2>2, DispatchQueue DEF CalmInv
  <2>4. QED
    BY <1>1, <2>3 DEF ConnectionInit, CalmInv
<1>2. CASE RemoteOpen \/ DeliveryStale
  <2>1. PICK type : Dispatch(type)
    BY <1>2 DEF RemoteOpen, DeliveryStale
  <2>2. Queued(ConnectionInitEvent, events') => Queued(ConnectionInitEvent, events)
    BY <2>1, DispatchQueue DEF CloggerInv, TypeOK
  <2>3. QED
    BY <1>2, <2>2 DEF RemoteOpen, DeliveryStale, CalmInv
<1>3. CASE LinkFlow
  <2>1. Queued(ConnectionInitEvent, events') => Queued(ConnectionInitEvent, events)
    BY <1>3, DispatchQueue DEF CloggerInv, TypeOK, LinkFlow
  <2>2. CASE MayStart
    <3>1. turn' = turn /\ timer' = "armed" /\ pn_dlv' = sent + 1 /\ pn_dlv = 0 /\ sent + 1 # 0
      BY <1>3, <2>2 DEF LinkFlow, MayStart, StartMessage, CloggerInv, TypeOK
    <3>2. QED
      BY <1>3, <2>1, <3>1 DEF LinkFlow, CalmInv
  <2>3. CASE ~MayStart
    BY <1>3, <2>1, <2>3 DEF LinkFlow, CalmInv
  <2>4. QED
    BY <2>2, <2>3
<1>4. CASE WakeChunk
  BY <1>4 DEF WakeChunk, CalmInv
<1>5. QED
  BY <1>1, <1>2, <1>3, <1>4

\* The last ack comes when everything is sent.
LEMMA CalmDelivery ==
  ASSUME CloggerInv, CloggerInv', CalmInv, Calm, Delivery
  PROVE  CalmInv'
<1>1. UNCHANGED <<limit, presettle, turn, wake, timer, conn, ptrs, pn_dlv, sent>>
  BY DEF Delivery, optVars, connVars
<1>2. Queued(ConnectionInitEvent, events') => Queued(ConnectionInitEvent, events)
  BY DispatchQueue DEF CloggerInv, TypeOK, Delivery
<1>3. ~presettle
  BY DEF Delivery, CloggerInv, DecidesWhatIsSent, Calm
<1>4. acked' <= sent'
  <2>1. ~presettle'
    BY <1>1, <1>3
  <2>2. ~EarlyOutcomes
    BY DEF Calm
  <2>3. /\ settled' \subseteq 1..sent' /\ sent' \in Nat /\ acked' = Cardinality(settled')
    BY <2>1, <2>2 DEF CloggerInv, DecidesWhatIsSent, TypeOK, Counted, OutcomesCountedOnce
  <2>4. QED
    BY <2>3, FiniteSettled
<1>5. stop' => limit > 0 /\ sent = limit
  <2>1. stop' => stop \/ (limit > 0 /\ acked' = limit)
    BY DEF Delivery, Complete
  <2>2. limit > 0 => sent <= limit
    BY DEF CloggerInv, InProcess
  <2>3. limit \in Nat /\ sent \in Nat
    BY DEF CloggerInv, TypeOK
  <2>4. QED
    BY <1>1, <1>4, <2>1, <2>2, <2>3 DEF CalmInv
<1>6. ptrs' = "none" => stop'
  BY <1>1 DEF Delivery, CalmInv
<1>7. QED
  BY <1>1, <1>2, <1>5, <1>6 DEF CalmInv

\* A chunk that is due finds its delivery: it is not settled, and the
\* pointers are set while a message is in process.
LEMMA CalmWakeWorks ==
  ASSUME CloggerInv, CalmInv, Calm
  PROVE  ~WakeFails
<1> SUFFICES ASSUME WakeFails PROVE FALSE
  OBVIOUS
<1>1. pn_dlv # 0 /\ pn_dlv = sent + 1 /\ (limit = 0 \/ sent < limit) /\ sent \in Nat /\ limit \in Nat
  BY DEF WakeFails, CloggerInv, InProcess, TypeOK
<1>2. ~stop
  BY <1>1 DEF CalmInv
<1>3. ptrs = "all"
  BY <1>1, <1>2 DEF CloggerInv, Pointers, CalmInv, TypeOK
<1>4. pn_dlv \notin settled
  BY <1>1 DEF CloggerInv, DecidesWhatIsSent, Calm
<1>5. QED
  BY <1>3, <1>4 DEF WakeFails

LEMMA CalmWakeLastChunk ==
  ASSUME CloggerInv, CalmInv, WakeLastChunk
  PROVE  CalmInv'
<1>1. /\ turn = "batch" /\ wake /\ pn_dlv # 0 /\ ~wake' /\ sent' = sent + 1
      /\ stop' => stop \/ (limit > 0 /\ sent' = limit)
      /\ stop => stop'
      /\ NextMessage(sent', credit')
      /\ UNCHANGED <<limit, events, conn, ptrs>>
  BY DEF WakeLastChunk, optVars, connVars
<1>2. pn_dlv = sent + 1 /\ (limit = 0 \/ sent < limit) /\ sent \in Nat /\ limit \in Nat
  BY <1>1 DEF CloggerInv, InProcess, TypeOK
<1>3. ~stop /\ timer = "off"
  BY <1>1, <1>2 DEF CalmInv
<1>4. /\ turn' = "batch"
      /\ (pn_dlv' = sent' + 1 /\ timer' = "armed") \/ (pn_dlv' = 0 /\ timer' = "off")
  BY <1>1, <1>3 DEF NextMessage, StartMessage
<1>5. sent' + 1 # 0
  BY <1>1, <1>2
<1>6. QED
  BY <1>1, <1>3, <1>4, <1>5 DEF CalmInv

\* A timer that is on has a message in process, so nothing is stopped yet.
LEMMA CalmTimeout ==
  ASSUME CloggerInv, CalmInv, Timeout
  PROVE  CalmInv'
<1>1. turn = "wait" /\ timer = "fired" /\ timer' = "off" /\ UNCHANGED <<limit, events, stop, pn_dlv, sent>>
  BY DEF Timeout, optVars, sendVars
<1>2. pn_dlv # 0 /\ ~wake
  BY <1>1 DEF CalmInv
<1>3. ~stop
  BY <1>2 DEF CalmInv, CloggerInv, InProcess, TypeOK
<1>4. ptrs # "none" /\ conn # "closed"
  BY <1>3 DEF CalmInv, CloggerInv, TypeOK
<1>5. wake' /\ turn' = "wait" /\ UNCHANGED <<conn, ptrs>>
  BY <1>1, <1>3, <1>4 DEF Timeout, AfterBatch
<1>6. QED
  BY <1>1, <1>2, <1>3, <1>4, <1>5 DEF CalmInv

\* What is read from the peer is not the first event.
LEMMA CalmPeer ==
  ASSUME CloggerInv, CalmInv, Calm, Peer
  PROVE  CalmInv'
<1> USE DEF optVars
<1>1. CASE PeerClose \/ PeerDetach
  BY <1>1 DEF PeerClose, PeerDetach, loopVars, sendVars, CalmInv, Calm
<1>2. ASSUME NEW rmf \in RemoteMaxFrames, PeerOpen(rmf) PROVE CalmInv'
  <2>1. Queued(ConnectionInitEvent, events') => Queued(ConnectionInitEvent, events)
    BY <1>2, EventTypes, ReadsQueue DEF PeerOpen, CloggerInv, TypeOK
  <2>2. QED
    BY <1>2, <2>1 DEF PeerOpen, Reads, CalmInv
<1>3. ASSUME NEW n \in 0..MaxGranted, PeerFlow(n) PROVE CalmInv'
  <2>1. Queued(ConnectionInitEvent, events') => Queued(ConnectionInitEvent, events)
    BY <1>3, EventTypes, ReadsQueue DEF PeerFlow, CloggerInv, TypeOK
  <2>2. QED
    BY <1>3, <2>1 DEF PeerFlow, Reads, CalmInv
<1>4. ASSUME NEW d \in Deliveries, NEW state \in {"received"} \union Outcomes, PeerDisposition(d, state)
      PROVE CalmInv'
  <2>1. Queued(ConnectionInitEvent, events') => Queued(ConnectionInitEvent, events)
    BY <1>4, EventTypes, ReadsQueue DEF PeerDisposition, CloggerInv, TypeOK
  <2>2. QED
    BY <1>4, <2>1 DEF PeerDisposition, Reads, CalmInv
<1>5. QED
  BY <1>1, <1>2, <1>3, <1>4 DEF Peer

LEMMA CalmStep ==
  ASSUME CloggerInv, CloggerInv', CalmInv, Calm, [Next]_vars
  PROVE  CalmInv'
<1>1. CASE BeginBatch
  BY <1>1 DEF BeginBatch, connVars, sendVars, optVars, CalmInv
<1>2. CASE TimerFires
  BY <1>2 DEF TimerFires, connVars, sendVars, optVars, CalmInv
<1>3. CASE UNCHANGED vars
  BY <1>3 DEF vars, loopVars, connVars, sendVars, optVars, CalmInv
<1>4. ~SignalHandler
  BY DEF SignalHandler, Calm
<1>5. QED
  BY <1>1, <1>2, <1>3, <1>4, CalmLooksAtStop, CalmHandlers, CalmDelivery, CalmWakeWorks, CalmWakeLastChunk,
     CalmTimeout, CalmPeer
  DEF Next, Client, Ended

\* In a calm environment clogger.c takes none of its abort() branches and
\* uses no pointer that is null or freed.  (With a signal it may: the run
\* that expects a violation shows it.)
THEOREM NeverAborts ==
  ASSUME Calm
  PROVE  Spec => []NoAbort
<1>1. CloggerInv /\ CloggerInv' /\ CalmInv /\ [Next]_vars => CalmInv'
  BY CalmStep
<1>2. CalmInv => NoAbort
  BY DEF CalmInv, NoAbort
<1>3. QED
  BY InvAlways, CalmInit, <1>1, <1>2, PTL DEF Spec

-----------------------------------------------------------------------------
(***************************************************************************)
(* Refinement, of a peer that decides only on what it has fully received:  *)
(* the last chunk of a message is an abstract Send, an outcome an abstract *)
(* Learn, everything else a stutter.                                       *)
(***************************************************************************)

\* As the client counts, the transfer is complete.
Completed == limit > 0 /\ (IF presettle THEN sent ELSE acked) = limit

CompletedRight == Completed = Bulk!Finished

\* A set of deliveries up to n that has n members has them all.
LEMMA AllWhenAsMany ==
  ASSUME NEW n \in Nat, NEW S \in SUBSET (1..n)
  PROVE  Cardinality(S) = n <=> S = 1..n
<1>1. IsFiniteSet(1..n) /\ Cardinality(1..n) = n
  <2>1. n = 0 => 1..n = {}
    OBVIOUS
  <2>2. QED
    BY FS_Interval, FS_EmptySet, <2>1
<1>2. QED
  BY <1>1, FS_Subset

LEMMA CompletedIsFinished ==
  ASSUME ~EarlyOutcomes
  PROVE  CloggerInv => CompletedRight
<1> SUFFICES ASSUME CloggerInv PROVE Completed = Bulk!Finished
  BY DEF CompletedRight
<1>1. limit \in Nat /\ sent \in Nat /\ (limit > 0 => sent <= limit) /\ settled \subseteq 1..sent
  BY DEF CloggerInv, TypeOK, InProcess, DecidesWhatIsSent
<1>2. CASE presettle
  BY <1>1, <1>2 DEF Completed, Bulk!Finished
<1>3. CASE ~presettle
  <2>1. acked = Cardinality(settled)
    BY <1>3 DEF CloggerInv, Counted, OutcomesCountedOnce
  <2>2. CASE limit > 0
    <3>1. settled \subseteq 1..limit
      BY <1>1, <2>2
    <3>2. Cardinality(settled) = limit <=> settled = 1..limit
      BY <1>1, <3>1, AllWhenAsMany
    <3>3. QED
      BY <1>3, <2>1, <2>2, <3>2 DEF Completed, Bulk!Finished
  <2>3. CASE ~(limit > 0)
    BY <1>1, <1>3, <2>3 DEF Completed, Bulk!Finished
  <2>4. QED
    BY <2>2, <2>3
<1>4. QED
  BY <1>2, <1>3

LEMMA RefinesInit == Init => Bulk!Init
<1> SUFFICES ASSUME Init PROVE Bulk!Init
  OBVIOUS
<1>1. (limit > 0 /\ (IF presettle THEN sent ELSE acked) = limit) = FALSE
  BY CloggerAssumption DEF Init
<1>2. QED
  BY <1>1 DEF Init, Bulk!Init

\* A step either sends one message, or settles one, or does neither.
LEMMA SendsOrSettles ==
  ASSUME [Next]_vars
  PROVE  /\ UNCHANGED <<limit, presettle>>
         /\ WakeLastChunk \/ Delivery \/ UNCHANGED <<sent, acked, settled>>
<1>1. /\ WakeLastChunk => UNCHANGED <<limit, presettle>>
      /\ Delivery => UNCHANGED <<limit, presettle>>
      /\ BeginBatch \/ EndBatch \/ ConnectionInit \/ RemoteOpen \/ LinkFlow \/ DeliveryStale
           => UNCHANGED <<limit, presettle, sent, acked, settled>>
      /\ WakeFails \/ WakeChunk \/ Timeout \/ Interrupted \/ Inactive \/ SignalHandler \/ TimerFires
           => UNCHANGED <<limit, presettle, sent, acked, settled>>
  BY DEF optVars, sendVars, ackVars, WakeLastChunk, Delivery, BeginBatch, EndBatch, ConnectionInit, RemoteOpen,
         LinkFlow, DeliveryStale, WakeFails, WakeChunk, Timeout, Interrupted, Inactive, SignalHandler, TimerFires
<1>2. Peer => UNCHANGED <<limit, presettle, sent, acked, settled>>
  BY DEF optVars, sendVars, ackVars, Peer, PeerOpen, PeerFlow, PeerDisposition, PeerClose, PeerDetach, Reads
<1>3. UNCHANGED vars => UNCHANGED <<limit, presettle, sent, acked, settled>>
  BY DEF vars, optVars, sendVars, ackVars
<1>4. QED
  BY <1>1, <1>2, <1>3 DEF Next, Client, Ended

LEMMA RefinesStep ==
  ASSUME ~EarlyOutcomes, CloggerInv, CloggerInv', [Next]_vars
  PROVE  [Bulk!Next]_(Bulk!vars)
<1>1. UNCHANGED <<limit, presettle>>
  BY SendsOrSettles
<1>2. Completed' = Bulk!Finished'
  <2>1. CompletedRight'
    BY CompletedIsFinished, PTL
  <2>2. QED
    BY <2>1 DEF CompletedRight
<1>3. CASE WakeLastChunk
  <2>1. sent' = sent + 1 /\ (~presettle => settled' = settled)
    BY <1>3 DEF WakeLastChunk
  <2>2. sent \in Nat /\ limit \in Nat /\ (limit = 0 \/ sent < limit)
    BY <1>3 DEF WakeLastChunk, CloggerInv, InProcess, TypeOK
  <2>3. Bulk!Send
    BY <2>1, <2>2 DEF Bulk!Send
  <2>4. (IF presettle THEN {} ELSE settled)' = IF presettle THEN {} ELSE settled
    BY <1>1, <2>1
  <2>5. QED
    BY <1>1, <1>2, <2>3, <2>4 DEF Bulk!Next, Completed
<1>4. CASE Delivery
  <2> DEFINE d == Head(events).dlv
  <2>1. d \in updated /\ sent' = sent /\ (Received(d) \/ Outcome(d))
    BY <1>4 DEF Delivery
  <2>2. ~presettle /\ d \in 1..sent /\ d \notin settled
    BY <2>1 DEF CloggerInv, DecidesWhatIsSent, Counted
  <2>3. CASE Outcome(d)
    <3>1. settled' = settled \union {d}
      BY <2>3 DEF Outcome
    <3>2. Bulk!Learn
      BY <1>1, <2>2, <3>1 DEF Bulk!Learn
    <3>3. QED
      BY <1>1, <1>2, <2>1, <3>2 DEF Bulk!Next, Completed
  <2>4. CASE Received(d)
    BY <1>1, <2>1, <2>4 DEF Received, Bulk!vars
  <2>5. QED
    BY <2>1, <2>3, <2>4
<1>5. CASE UNCHANGED <<sent, acked, settled>>
  BY <1>1, <1>5 DEF Bulk!vars
<1>6. QED
  BY <1>3, <1>4, <1>5, SendsOrSettles

\* clogger.c implements the abstract bulk transfer, whatever the limit and
\* the sizes, interrupted or not.
THEOREM CloggerImplementsBulkSend ==
  ASSUME ~EarlyOutcomes
  PROVE  Spec => ImplementsBulkSend
<1>1. CloggerInv /\ CloggerInv' /\ [Next]_vars => [Bulk!Next]_(Bulk!vars)
  BY RefinesStep
<1>2. QED
  BY RefinesInit, InvAlways, <1>1, PTL DEF Spec, ImplementsBulkSend, Bulk!Spec
=============================================================================
