------------------------- MODULE ProactorClientProofs -------------------------
(***************************************************************************)
(* Proofs about the proactor clients that open many links: the loaders     *)
(* close only what is in flight, the counts the clients decide by are      *)
(* right, and oom-sender.c stays within the window of its peer.            *)
(***************************************************************************)
EXTENDS MCProactorClients, CommonProofs, FiniteSetTheorems, TLAPS

-----------------------------------------------------------------------------
\* The inductive invariants, one for each program.

LinkStates == {"none", "open", "closing", "detached", "closed"}

\* What the programs share: the types of what they all have, and the event
\* queue, which holds the first event until it is handled, and never again.
LinkTypes ==
  /\ turn \in {"wait", "batch", "exit", "failed", "spin"}
  /\ link_limit \in 1..MaxLinks
  /\ link \in [Links -> LinkStates]
  /\ credit \in [Links -> Int]
  /\ current \in [Links -> BOOLEAN]

Queue(raised) ==
  \/ conn = "init" /\ events = <<ConnectionInitEvent>>
  \/ conn \in {"open", "closed"} /\ events \in Seq(raised)

\* Links with an unfinished message.
Started == {l \in Links : current[l]}

\* link-loader.c.  Before it opens its links and when it is through with all
\* cycles it has none; it begins messages with every link open here; once all
\* are in flight every link is closed here, or freed.
LLRaised == {Event(t, l) : t \in {"PN_LINK_FLOW", "PN_LINK_REMOTE_CLOSE"}, l \in Links}

NoLinks ==
  /\ link_count = 0
  /\ IF conn = "init" THEN repeat_count > 0 ELSE repeat_count = 0
  /\ \A l \in Links : link[l] = "none"

Beginning ==
  /\ conn # "init" /\ repeat_count > 0 /\ link_count < link_limit
  /\ \A l \in LinksOf(1) : Active(l)

Closing ==
  /\ conn # "init" /\ repeat_count > 0 /\ link_count > 0
  /\ \A l \in LinksOf(1) :
       IF current[l] THEN link[l] \in {"closing", "closed"} ELSE link[l] = "none"

LLInv ==
  /\ LinkTypes /\ Queue(LLRaised)
  /\ turn # "failed"
  /\ repeat_count \in Nat
  /\ Started \subseteq LinksOf(1) /\ link_count = Cardinality(Started)
  /\ \A l \in Links \ LinksOf(1) : link[l] = "none"
  /\ \A l \in Links : link[l] = "none" => credit[l] = 0
  /\ NoLinks \/ Beginning \/ Closing

\* session-loader.c with a peer that ends no session of its own accord.  The
\* sessions are used one after the other; Cur is the one in use, and the last
\* one when all are through.
RemoteOpen(s)  == Event("PN_SESSION_REMOTE_OPEN", s)
RemoteClose(s) == Event("PN_SESSION_REMOTE_CLOSE", s)
SLRaised ==
  {SL!LocalOpen(s) : s \in Sessions} \union {SL!LocalClose(s) : s \in Sessions}
    \union {RemoteOpen(s) : s \in Sessions} \union {RemoteClose(s) : s \in Sessions}
    \union {FlowOn(l) : l \in Links}

Cur == IF session_count = session_limit THEN session_limit ELSE session_count + 1

\* The links of the session in use have been created.
HasLinks ==
  session[Cur] \in {"active", "closing", "closed"} /\ ~Queued(RemoteOpen(Cur), events)

SLTypes ==
  /\ LinkTypes /\ Queue(SLRaised)
  /\ turn # "failed"
  /\ session_limit \in Sessions
  /\ session_count \in 0..session_limit
  /\ session \in [Sessions -> {"none", "opening", "active", "closing", "ended", "closed", "freed"}]

SLSessions ==
  /\ \A s \in Sessions : (s < Cur => session[s] = "freed") /\ (s > Cur => session[s] = "none")
  /\ IF conn = "init" THEN session[Cur] = "none" /\ session_count = 0
     ELSE session[Cur] \in {"opening", "active", "closing", "closed"}
  /\ session_count = session_limit => session[Cur] = "closed"

\* Events raised here are handled before the batch ends, and those of the
\* peer come once.
SLQueue ==
  \A s \in Sessions :
    /\ Queued(SL!LocalOpen(s), events) => turn = "batch" /\ s = Cur /\ session[s] = "opening"
    /\ Queued(SL!LocalClose(s), events) => turn = "batch" /\ s = Cur /\ session[s] = "closing"
    /\ Queued(RemoteOpen(s), events) => s = Cur /\ session[s] = "active"
    /\ Queued(RemoteClose(s), events) =>
         s = Cur /\ session[s] = "closed" /\ session_count < session_limit
    /\ Once(RemoteOpen(s), events) /\ Once(RemoteClose(s), events)

SLLinks ==
  /\ \A l \in Links : link[l] = IF HasLinks /\ l \in LinksOf(Cur) THEN "open" ELSE "none"
  /\ \A l \in Links : link[l] = "none" => credit[l] = 0
  /\ \A l \in Started : link[l] # "none"
  /\ link_count = Cardinality(Started)
  /\ link_count = link_limit <=> session[Cur] \in {"closing", "closed"}
  /\ created = link_limit * (IF HasLinks THEN Cur ELSE Cur - 1)

SLCore == SLTypes /\ SLSessions /\ SLQueue /\ SLLinks
SLInv  == unasked \in BOOLEAN /\ (~unasked => SLCore)

\* link-sender.c.  A link whose delivery is settled is closed here; with a
\* peer that sends one disposition, an outcome is handled once.
LSRaised == {Event(t, l) : t \in {"PN_LINK_FLOW", "PN_DELIVERY"}, l \in Links}
Freed    == {l \in Links : context[l] = "freed"}

LSOutcomes ==
  /\ closed_links = Cardinality(Freed)
  /\ \A l \in Links :
       /\ outcome[l] # "received"
       /\ Queued(DeliveryEvent(l), events) => outcome[l] = "final" /\ context[l] = "dlv"
       /\ Once(DeliveryEvent(l), events)

LSInv ==
  /\ LinkTypes /\ Queue(LSRaised)
  /\ turn # "failed"
  /\ context \in [Links -> {"none", "dlv", "freed"}]
  /\ outcome \in [Links -> {"none", "received", "final"}]
  /\ conn = "init" => Freed = {}
  /\ \A l \in Freed : ~Active(l)
  /\ closed_links \in Nat /\ Cardinality(Freed) <= closed_links
  /\ ~informs => LSOutcomes

\* link-receiver.c.  A message that is over is settled, or its event waits, or
\* the client is caught in its loop; what is settled is counted, and its credit
\* given back.  With a peer that sends each message in one frame the event of a
\* settled message does not wait, and that of another waits once.
LRRaised ==
  {DeliveryEvent(x) : x \in Links \X Nat} \union {Event("PN_LINK_REMOTE_CLOSE", l) : l \in Links}

LRTypes ==
  /\ LinkTypes /\ Queue(LRRaised)
  /\ arrived \in [Links -> Nat]
  /\ settled \subseteq Links \X Nat

LRDeliveries ==
  /\ \A x \in Links \X Nat :
       /\ x \in settled => x \in LR!Complete(x[1])
       /\ Queued(DeliveryEvent(x), events) => x[2] \in 1..arrived[x[1]]
       /\ x \in LR!Complete(x[1]) => x \in settled \/ Queued(DeliveryEvent(x), events) \/ turn = "spin"
  /\ \A l \in Links : current[l] => arrived[l] > 0

LROutstanding(l) == credit[l] + Cardinality(LR!Complete(l) \ settled)

LRCounted ==
  /\ IsFiniteSet(settled) /\ msg_count \in Nat /\ Cardinality(settled) <= msg_count
  /\ conn = "init" => \A l \in Links : arrived[l] = 0
  /\ conn # "init" => \A l \in LinksOf(1) : LROutstanding(l) >= Window

LRWhole ==
  /\ \A l \in Links : ~current[l]
  /\ \A x \in Links \X Nat :
       /\ Queued(DeliveryEvent(x), events) => x \notin settled
       /\ Once(DeliveryEvent(x), events)
  /\ msg_count = Cardinality(settled)
  /\ conn # "init" => \A l \in LinksOf(1) : LROutstanding(l) = Window

LRInv == LRTypes /\ LRDeliveries /\ LRCounted /\ (~fragments => LRWhole)

\* oom-sender.c.  Beyond the window there are only headers, at most one of a
\* link: that of its current message, none of which has been written.
OSRaised == {FlowOn(l) : l \in Links} \union {DeliveryEvent(x) : x \in Links \X Nat}

Unwritten(l) ==
  /\ current[l] /\ bytes_sent[l] < Body /\ outcome[l] = "none"
  /\ buffered[l] >= bytes_sent[l] + Header

OSTypes ==
  /\ LinkTypes
  /\ tag \in [Links -> Nat]
  /\ bytes_sent \in [Links -> 0..Body]
  /\ buffered \in [Links -> Nat]
  /\ outcome \in [Links -> {"none", "received", "final"}]
  /\ window \in 0..MaxWindow

OSUnused == \A l \in Links \ LinksOf(1) : link[l] = "none" /\ credit[l] <= 0 /\ ~current[l]

\* The headers of the links of P are what goes beyond the window.
OSBound(P) ==
  /\ P \in SUBSET LinksOf(1)
  /\ \A l \in P : Unwritten(l)
  /\ OS!OutgoingBytes <= Frame * MaxWindow + Header * Cardinality(P)

OSInv ==
  /\ OSTypes /\ Queue(OSRaised) /\ OSUnused
  /\ \E P \in SUBSET LinksOf(1) : OSBound(P)

\* The invariant of the program that runs.
ClientsInv ==
  /\ program = "session-loader" => SLInv
  /\ program = "link-loader" => LLInv
  /\ program = "link-sender" => LSInv
  /\ program = "link-receiver" => LRInv
  /\ program = "oom-sender" => OSInv

-----------------------------------------------------------------------------
\* Facts about the links and the queue.

\* The links are finitely many, and link_limit of them belong to a session.
LEMMA LinkSets ==
  ASSUME link_limit \in 1..MaxLinks, NEW s \in Sessions
  PROVE  /\ IsFiniteSet(Links) /\ LinksOf(s) \subseteq Links
         /\ IsFiniteSet(LinksOf(s)) /\ Cardinality(LinksOf(s)) = link_limit
<1>1. MaxSessions \in Nat /\ MaxLinks \in Nat /\ link_limit \in Nat
  BY ProactorLinksAssumption
<1>2. IsFiniteSet(1..MaxSessions) /\ IsFiniteSet(1..MaxLinks)
  BY <1>1, FS_Interval
<1>3. IsFiniteSet({s}) /\ Cardinality({s}) = 1
  BY FS_Singleton
<1>4. IsFiniteSet(1..link_limit) /\ Cardinality(1..link_limit) = link_limit
  BY <1>1, FS_Interval
<1>5. IsFiniteSet({s} \X (1..link_limit))
      /\ Cardinality({s} \X (1..link_limit)) = 1 * link_limit
  BY <1>3, <1>4, FS_Product
<1>6. IsFiniteSet((1..MaxSessions) \X (1..MaxLinks))
  BY <1>2, FS_Product
<1>7. QED
  BY <1>1, <1>5, <1>6 DEF Links, LinksOf, Sessions

\* Sets of links: what one more or one less does to their number.
LEMMA LinkSubset ==
  ASSUME link_limit \in 1..MaxLinks, NEW S \in SUBSET Links
  PROVE  /\ IsFiniteSet(S) /\ Cardinality(S) \in Nat
         /\ \A l : l \notin S => Cardinality(S \union {l}) = Cardinality(S) + 1
         /\ \A l : l \in S => Cardinality(S \ {l}) = Cardinality(S) - 1
         /\ Cardinality(S) = 0 <=> S = {}
<1>1. 1 \in Sessions
  BY ProactorLinksAssumption DEF Sessions
<1>2. IsFiniteSet(S)
  BY <1>1, LinkSets, FS_Subset
<1>3. QED
  BY <1>2, FS_AddElement, FS_RemoveElement, FS_CardinalityType, FS_EmptySet

\* link_limit links of a session are all of them.
LEMMA LinkAll ==
  ASSUME link_limit \in 1..MaxLinks, NEW s \in Sessions, NEW S \in SUBSET LinksOf(s)
  PROVE  /\ Cardinality(S) <= link_limit
         /\ Cardinality(S) = link_limit => S = LinksOf(s)
<1>1. IsFiniteSet(LinksOf(s)) /\ Cardinality(LinksOf(s)) = link_limit
  BY LinkSets
<1>2. /\ Cardinality(S) <= Cardinality(LinksOf(s))
      /\ Cardinality(LinksOf(s)) = Cardinality(S) => LinksOf(s) = S
  BY <1>1, FS_Subset
<1>3. QED
  BY <1>1, <1>2

\* The first event is that of the connection, and comes once.
LEMMA FirstEvent ==
  ASSUME NEW raised, Queue(raised), \A e \in raised : e.type # "PN_CONNECTION_INIT",
         events # <<>>, Head(events).type \in {"PN_CONNECTION_INIT"}
  PROVE  /\ conn = "init" /\ events = <<ConnectionInitEvent>>
         /\ Tail(events) \o <<>> = <<>>
         /\ \A e : Tail(events) \o <<e>> = <<e>>
<1>1. CASE conn = "init" /\ events = <<ConnectionInitEvent>>
  <2>1. Tail(events) = <<>>
    BY <1>1
  <2>2. <<>> \o <<>> = <<>> /\ \A e : <<>> \o <<e>> = <<e>>
    OBVIOUS
  <2>3. QED
    BY <1>1, <2>1, <2>2
<1>2. CASE conn \in {"open", "closed"} /\ events \in Seq(raised)
  <2>1. Head(events) \in raised
    BY <1>2, TailShape
  <2>2. QED
    BY <2>1
<1>3. QED
  BY <1>1, <1>2 DEF Queue

\* Any other event is handled with the connection open, or gone.
LEMMA LaterEvent ==
  ASSUME NEW raised, Queue(raised),
         events # <<>>, Head(events).type # "PN_CONNECTION_INIT"
  PROVE  /\ conn \in {"open", "closed"} /\ events \in Seq(raised)
         /\ Head(events) \in raised /\ Tail(events) \in Seq(raised)
         /\ Tail(events) \o <<>> = Tail(events)
         /\ \A e : Tail(events) \o <<e>> = Append(Tail(events), e)
         /\ Queued(Head(events), events)
<1>1. conn \in {"open", "closed"} /\ events \in Seq(raised)
  BY DEF Queue, ConnectionInitEvent, Event
<1>2. Head(events) \in raised /\ Tail(events) \in Seq(raised) /\ Head(events) = events[1] /\ Len(events) \in Nat \ {0}
  BY <1>1, TailShape
<1>3. Queued(Head(events), events)
  BY <1>2 DEF Queued
<1>4. Tail(events) \o <<>> = Tail(events) /\ \A e : Tail(events) \o <<e>> = Append(Tail(events), e)
  BY <1>2
<1>5. QED
  BY <1>1, <1>2, <1>3, <1>4

\* What a handled event leaves, and what a read raises.
LEMMA PopQueue ==
  ASSUME NEW raised, Queue(raised), events # <<>>, Head(events).type # "PN_CONNECTION_INIT",
         events' = Tail(events) \o <<>>, UNCHANGED conn
  PROVE  Queue(raised)' /\ events' = Tail(events)
BY LaterEvent DEF Queue

LEMMA ReadQueue ==
  ASSUME NEW raised, Queue(raised), conn = "open", NEW e \in raised,
         events' = Put(events, e), UNCHANGED conn
  PROVE  Queue(raised)' /\ events \in Seq(raised)
BY PutType DEF Queue

\* A step of the main loop, the signal handler, or the end of the connection.
Quiet ==
  /\ UNCHANGED events
  /\ \/ turn' = turn
     \/ turn = "wait" /\ turn' \in {"wait", "batch", "exit"}
     \/ turn = "batch" /\ events = <<>> /\ turn' = "wait"
  /\ conn' = conn \/ (conn = "open" /\ conn' = "closed")

LEMMA QuietQueue ==
  ASSUME NEW raised, Queue(raised), Quiet
  PROVE  Queue(raised)'
BY DEF Queue, Quiet

-----------------------------------------------------------------------------
(***************************************************************************)
(* link-loader.c                                                           *)
(***************************************************************************)

LEMMA LLEvents ==
  \A e \in LLRaised : e.type # "PN_CONNECTION_INIT" /\ e.dlv \in Links
BY DEF LLRaised, Event

LEMMA LLInitially ==
  ASSUME LL!Init
  PROVE  LLInv
<1>1. /\ turn = "wait" /\ conn = "init" /\ events = <<ConnectionInitEvent>>
      /\ link_limit \in 1..MaxLinks /\ repeat_count \in 1..MaxCycles /\ link_count = 0
      /\ link = [l \in Links |-> "none"] /\ credit = [l \in Links |-> 0]
      /\ current = [l \in Links |-> FALSE]
  BY DEF LL!Init, LL!LoopInit, LL!LinksInit, LL!ConnectionInitEvent, ConnectionInitEvent,
         LL!Event, Event, LL!Links, Links, LL!Sessions, Sessions
<1>2. Started = {}
  BY <1>1 DEF Started
<1>3. Cardinality(Started) = 0
  BY <1>2, FS_EmptySet
<1>4. LinkTypes /\ Queue(LLRaised)
  BY <1>1 DEF LinkTypes, Queue, LinkStates
<1>5. NoLinks
  BY <1>1 DEF NoLinks
<1>6. QED
  BY <1>1, <1>2, <1>3, <1>4, <1>5 DEF LLInv

\* Steps that leave the links as they are.
LEMMA LLQuiet ==
  ASSUME LLInv, Quiet, UNCHANGED <<linkVars, repeat_count, link_count>>
  PROVE  LLInv'
<1>1. Queue(LLRaised)'
  BY QuietQueue DEF LLInv
<1>2. LinkTypes' /\ turn' # "failed"
  BY DEF LLInv, LinkTypes, Quiet, linkVars
<1>3. UNCHANGED <<link, link_limit, current, credit>>
  BY DEF linkVars
<1>4. Started' = Started /\ LinksOf(1)' = LinksOf(1)
  BY <1>3 DEF Started, LinksOf
<1>5. (NoLinks \/ Beginning \/ Closing)'
  BY <1>3, <1>4 DEF LLInv, Quiet, NoLinks, Beginning, Closing, Active
<1>6. QED
  BY <1>1, <1>2, <1>3, <1>4, <1>5 DEF LLInv

\* The connection, the session and the links are opened.
LEMMA LLConnectionInit ==
  ASSUME LLInv, LL!ConnectionInit
  PROVE  LLInv'
<1>1. /\ events # <<>> /\ Head(events).type \in {"PN_CONNECTION_INIT"}
      /\ events' = Tail(events) \o <<>> /\ conn' = "open"
      /\ link' = [l \in Links |-> IF l \in LinksOf(1) THEN "open" ELSE link[l]]
      /\ UNCHANGED <<turn, link_limit, credit, current, repeat_count, link_count>>
  BY DEF LL!ConnectionInit, LL!Handles, LL!OpenLinks, LL!Links, Links, LL!Sessions, Sessions,
         LL!LinksOf, LinksOf
<1>2. conn = "init" /\ events' = <<>>
  BY <1>1, FirstEvent, LLEvents DEF LLInv
<1>3. Queue(LLRaised)'
  <2>1. <<>> \in Seq(LLRaised)
    OBVIOUS
  <2>2. QED
    BY <1>1, <1>2, <2>1 DEF Queue
<1>4. LinkTypes'
  BY <1>1 DEF LLInv, LinkTypes, LinkStates
<1>5. LinksOf(1)' = LinksOf(1) /\ Started' = Started
  BY <1>1 DEF Started, LinksOf
<1>6. NoLinks
  BY <1>2 DEF LLInv, Beginning, Closing
<1>7. 1 \in Sessions
  BY ProactorLinksAssumption DEF Sessions
<1>8. link_limit \in 1..MaxLinks
  BY DEF LLInv, LinkTypes
<1>9. LinksOf(1) \subseteq Links
  BY <1>7, <1>8, LinkSets
<1>10. \A l \in Links : credit[l] = 0 /\ (l \notin LinksOf(1) => link'[l] = "none")
  BY <1>1, <1>6 DEF LLInv, NoLinks
<1>11. Beginning'
  BY <1>1, <1>2, <1>5, <1>6, <1>8, <1>9 DEF NoLinks, Beginning, Active
<1>12. QED
  BY <1>1, <1>3, <1>4, <1>5, <1>9, <1>10, <1>11 DEF LLInv

\* A message is begun and, with the last one, the links are closed.
LEMMA LLStarts ==
  ASSUME LLInv, conn # "init", Queue(LLRaised)', UNCHANGED <<turn, conn, link_limit, credit, repeat_count>>,
         NEW l \in Links, LL!MayStart(l),
         current' = [current EXCEPT ![l] = TRUE], link_count' = link_count + 1,
         link' = IF link_count' = link_limit THEN [k \in Links |-> Closed(link[k])] ELSE link
  PROVE  LLInv'
<1>1. link_count < link_limit /\ ~current[l] /\ credit[l] > 0
  BY DEF LL!MayStart
<1>2. link_limit \in 1..MaxLinks /\ link \in [Links -> LinkStates] /\ current \in [Links -> BOOLEAN]
  BY DEF LLInv, LinkTypes
<1>3. 1 \in Sessions
  BY ProactorLinksAssumption DEF Sessions
<1>4. link[l] # "none" /\ l \in LinksOf(1)
  BY <1>1 DEF LLInv
<1>5. Beginning
  BY <1>1, <1>4 DEF LLInv, NoLinks, Closing
<1>6. Started' = Started \union {l} /\ l \notin Started /\ Started \in SUBSET Links
  BY <1>1, <1>2 DEF Started
<1>7. LinksOf(1)' = LinksOf(1) /\ LinksOf(1) \subseteq Links
  BY <1>2, <1>3, LinkSets DEF LinksOf
<1>8. Started' \subseteq LinksOf(1) /\ link_count' = Cardinality(Started') /\ link_count \in Nat
  BY <1>2, <1>4, <1>6, LinkSubset DEF LLInv
<1>9. current' \in [Links -> BOOLEAN] /\ link' \in [Links -> LinkStates]
  BY <1>2 DEF LinkStates, Closed
<1>10. LinkTypes'
  BY <1>9 DEF LLInv, LinkTypes
<1>11. \A k \in Links : link'[k] = "none" <=> link[k] = "none"
  BY <1>2 DEF Closed, LinkStates
<1>12. CASE link_count' = link_limit
  <2>1. Started' = LinksOf(1)
    BY <1>2, <1>3, <1>8, <1>12, LinkAll
  <2>2. \A k \in LinksOf(1) : current'[k]
    BY <2>1 DEF Started
  <2>3. \A k \in LinksOf(1) : link'[k] \in {"closing", "closed"}
    BY <1>5, <1>7, <1>12 DEF Beginning, Active, Closed
  <2>4. Closing'
    BY <1>2, <1>5, <1>7, <1>12, <2>2, <2>3 DEF Closing, Beginning
  <2>5. QED
    BY <1>7, <1>8, <1>10, <1>11, <2>4 DEF LLInv
<1>13. CASE link_count' # link_limit
  <2>1. link_count' < link_limit
    BY <1>1, <1>2, <1>8, <1>13
  <2>2. Beginning'
    BY <1>5, <1>7, <1>13, <2>1 DEF Beginning, Active
  <2>3. QED
    BY <1>7, <1>8, <1>10, <1>11, <2>2 DEF LLInv
<1>14. QED
  BY <1>12, <1>13

LEMMA LLFlowEvent ==
  ASSUME LLInv, LL!FlowEvent
  PROVE  LLInv'
<1>0. PICK l : l = Head(events).dlv
  OBVIOUS
<1>1. /\ events # <<>> /\ Head(events).type \in {"PN_LINK_FLOW"} /\ events' = Tail(events) \o <<>>
      /\ UNCHANGED <<turn, conn, link_limit, credit, repeat_count>>
  BY DEF LL!FlowEvent, LL!Handles
<1>2. conn # "init" /\ l \in Links
  BY <1>0, <1>1, LaterEvent, LLEvents DEF LLInv
<1>3. Queue(LLRaised)'
  BY <1>1, PopQueue DEF LLInv
<1>4. CASE LL!MayStart(l)
  <2>1. /\ current' = [current EXCEPT ![l] = TRUE] /\ link_count' = link_count + 1
        /\ link' = IF link_count' = link_limit THEN [k \in Links |-> Closed(link[k])] ELSE link
    BY <1>0, <1>4 DEF LL!FlowEvent, LL!start_message, LL!Closed, Closed, LL!Links, Links,
       LL!Sessions, Sessions
  <2>2. QED
    BY <1>1, <1>2, <1>3, <1>4, <2>1, LLStarts
<1>5. CASE ~LL!MayStart(l)
  <2>1. UNCHANGED <<current, link_count, link>>
    BY <1>0, <1>5 DEF LL!FlowEvent
  <2>2. Started' = Started /\ LinksOf(1)' = LinksOf(1) /\ LinkTypes'
    BY <1>1, <2>1 DEF Started, LinksOf, LLInv, LinkTypes
  <2>3. (NoLinks \/ Beginning \/ Closing)'
    BY <1>1, <2>1, <2>2 DEF LLInv, NoLinks, Beginning, Closing, Active
  <2>4. QED
    BY <1>1, <1>3, <2>1, <2>2, <2>3 DEF LLInv
<1>6. QED
  BY <1>4, <1>5

\* A link that is closed at both ends is freed: its message was in flight, so
\* that both assertions hold.
LEMMA LLFree ==
  ASSUME LLInv, conn # "init", Queue(LLRaised)', UNCHANGED <<conn, link_limit>>,
         NEW l \in Links, link[l] = "closed", LL!Free(l)
  PROVE  LLInv'
<1>1. /\ credit' = [credit EXCEPT ![l] = 0] /\ current' = [current EXCEPT ![l] = FALSE]
      /\ link_count' = link_count - 1 /\ turn' = turn
      /\ repeat_count' = IF link_count' = 0 THEN repeat_count - 1 ELSE repeat_count
      /\ link' = IF link_count' = 0 /\ repeat_count' > 0
                 THEN [k \in Links |-> IF k \in LinksOf(1) THEN "open" ELSE [link EXCEPT ![l] = "none"][k]]
                 ELSE [link EXCEPT ![l] = "none"]
  BY DEF LL!Free, LL!Links, Links, LL!Sessions, Sessions, LL!LinksOf, LinksOf
<1>2. link_limit \in 1..MaxLinks /\ link \in [Links -> LinkStates] /\ current \in [Links -> BOOLEAN]
      /\ credit \in [Links -> Int]
  BY DEF LLInv, LinkTypes
<1>3. 1 \in Sessions
  BY ProactorLinksAssumption DEF Sessions
<1>4. l \in LinksOf(1)
  BY DEF LLInv
<1>5. Closing
  BY <1>4 DEF LLInv, NoLinks, Beginning, Active
<1>6. current[l]
  BY <1>4, <1>5 DEF Closing
<1>7. Started' = Started \ {l} /\ l \in Started /\ Started \in SUBSET Links
  BY <1>1, <1>2, <1>6 DEF Started
<1>8. LinksOf(1)' = LinksOf(1) /\ LinksOf(1) \subseteq Links
  BY <1>2, <1>3, LinkSets DEF LinksOf
<1>9. Started' \subseteq LinksOf(1) /\ link_count' = Cardinality(Started') /\ link_count' \in Nat
      /\ (link_count' = 0 => Started' = {})
  <2>1. Started' \in SUBSET Links
    BY <1>7
  <2>2. link_count' = Cardinality(Started')
    BY <1>1, <1>2, <1>7, LinkSubset DEF LLInv
  <2>3. Cardinality(Started') \in Nat /\ (Cardinality(Started') = 0 <=> Started' = {})
    BY <1>2, <2>1, LinkSubset
  <2>4. QED
    BY <1>7, <2>2, <2>3 DEF LLInv
<1>10. /\ current' \in [Links -> BOOLEAN] /\ credit' \in [Links -> Int]
       /\ link' \in [Links -> LinkStates]
  <2>1. current' \in [Links -> BOOLEAN]
    BY <1>1, <1>2
  <2>2. credit' \in [Links -> Int]
    BY <1>1, <1>2
  <2>3. link' \in [Links -> LinkStates]
    BY <1>1, <1>2 DEF LinkStates
  <2>4. QED
    BY <2>1, <2>2, <2>3
<1>11. LinkTypes'
  BY <1>1, <1>2, <1>10 DEF LLInv, LinkTypes
<1>12. repeat_count' \in Nat
  BY <1>1, <1>5 DEF LLInv, Closing
<1>13. \A k \in Links : ~current'[k] <=> (k = l \/ ~current[k])
  BY <1>1, <1>2
<1>14. \A k \in Links : ~current'[k] => (k = l \/ link[k] = "none") /\ credit'[k] = 0
  <2>1. \A k \in Links : ~current[k] => link[k] = "none"
    BY <1>5 DEF Closing, LLInv
  <2>2. \A k \in Links : ~current[k] => credit[k] = 0
    BY <2>1 DEF LLInv
  <2>3. QED
    BY <1>1, <1>2, <1>13, <2>1, <2>2
<1>15. \A k \in Links : link'[k] = "none" => ~current'[k]
  BY <1>1, <1>2, <1>5, <1>8, <1>13 DEF Closing, LLInv, Started
<1>16. CASE link_count' # 0
  <2>1. link' = [link EXCEPT ![l] = "none"] /\ repeat_count' = repeat_count /\ link_count' > 0
    <3>0. link_count' > 0
      BY <1>9, <1>16
    <3>1. repeat_count' = repeat_count
      BY <1>1, <1>16, Zenon
    <3>2. ~(link_count' = 0 /\ repeat_count' > 0)
      BY <1>16
    <3>3. QED
      BY <1>1, <3>0, <3>1, <3>2, Zenon
  <2>2. \A k \in LinksOf(1) : IF current'[k] THEN link'[k] \in {"closing", "closed"} ELSE link'[k] = "none"
    BY <1>2, <1>5, <1>8, <1>13, <2>1 DEF Closing
  <2>3. Closing'
    BY <1>5, <1>8, <2>1, <2>2 DEF Closing
  <2>4. \A k \in Links \ LinksOf(1) : link'[k] = "none"
    BY <1>2, <2>1 DEF LLInv
  <2>5. QED
    BY <1>1, <1>8, <1>9, <1>11, <1>12, <1>14, <1>15, <2>3, <2>4 DEF LLInv
<1>17. CASE link_count' = 0 /\ repeat_count' > 0
  <2>1. link' = [k \in Links |-> IF k \in LinksOf(1) THEN "open" ELSE [link EXCEPT ![l] = "none"][k]]
    BY <1>1, <1>17
  <2>2. \A k \in LinksOf(1) : link'[k] = "open"
    BY <1>8, <2>1
  <2>3. Beginning'
    BY <1>2, <1>8, <1>17, <2>2 DEF Beginning, Active
  <2>4. \A k \in Links \ LinksOf(1) : link'[k] = "none"
    BY <1>2, <1>4, <2>1 DEF LLInv
  <2>5. QED
    BY <1>1, <1>8, <1>9, <1>11, <1>12, <1>14, <1>15, <2>3, <2>4 DEF LLInv
<1>18. CASE link_count' = 0 /\ ~(repeat_count' > 0)
  <2>1. link' = [link EXCEPT ![l] = "none"] /\ repeat_count' = 0
    <3>1. repeat_count' = 0
      BY <1>12, <1>18
    <3>2. ~(link_count' = 0 /\ repeat_count' > 0)
      BY <1>18
    <3>3. QED
      BY <1>1, <3>1, <3>2, Zenon
  <2>2. \A k \in Links : ~current'[k]
    BY <1>9, <1>18 DEF Started
  <2>3. \A k \in Links : link'[k] = "none"
    BY <1>2, <1>14, <2>1, <2>2
  <2>4. NoLinks'
    BY <1>18, <2>1, <2>3 DEF NoLinks
  <2>5. QED
    BY <1>1, <1>8, <1>9, <1>11, <1>12, <1>14, <1>15, <2>3, <2>4 DEF LLInv
<1>19. QED
  BY <1>16, <1>17, <1>18

LEMMA LLRemoteClose ==
  ASSUME LLInv, LL!RemoteClose
  PROVE  LLInv'
<1>0. PICK l : l = Head(events).dlv
  OBVIOUS
<1>1. /\ events # <<>> /\ Head(events).type \in {"PN_LINK_REMOTE_CLOSE"}
      /\ events' = Tail(events) \o <<>> /\ UNCHANGED <<conn, link_limit>>
  BY DEF LL!RemoteClose, LL!Handles
<1>2. conn # "init" /\ l \in Links
  BY <1>0, <1>1, LaterEvent, LLEvents DEF LLInv
<1>3. Queue(LLRaised)'
  BY <1>1, PopQueue DEF LLInv
<1>4. CASE link[l] = "closed"
  <2>1. l \in LinksOf(1)
    BY <1>2, <1>4 DEF LLInv
  <2>2. Closing
    BY <1>2, <1>4, <2>1 DEF LLInv, NoLinks, Beginning, Active
  <2>3. LL!Free(l)
    BY <1>0, <1>4, <2>2 DEF LL!RemoteClose, LL!BothClosed, Closing
  <2>4. QED
    BY <1>1, <1>2, <1>3, <1>4, <2>3, LLFree
<1>5. CASE link[l] # "closed"
  <2>1. UNCHANGED <<turn, link, credit, current, repeat_count, link_count>>
    BY <1>0, <1>5 DEF LL!RemoteClose, LL!BothClosed, LL!ownVars
  <2>2. Started' = Started /\ LinksOf(1)' = LinksOf(1) /\ LinkTypes'
    BY <1>1, <2>1 DEF Started, LinksOf, LLInv, LinkTypes
  <2>3. (NoLinks \/ Beginning \/ Closing)'
    BY <1>1, <2>1, <2>2 DEF LLInv, NoLinks, Beginning, Closing, Active
  <2>4. QED
    BY <1>1, <1>3, <2>1, <2>2, <2>3 DEF LLInv
<1>6. QED
  BY <1>4, <1>5

\* What the peer and the transport do to a link.
LEMMA LLPeer ==
  ASSUME LLInv, NEW l \in Links, LL!Write(l) \/ LL!PeerCloses(l) \/ \E n \in 0..MaxCredit : LL!PeerFlow(l, n)
  PROVE  LLInv'
<1>1. /\ conn = "open" /\ UNCHANGED <<turn, conn, link_limit, current, repeat_count, link_count>>
      /\ \E e \in LLRaised : events' = Put(events, e)
      /\ \/ UNCHANGED <<link, credit>>
         \/ /\ link[l] \in {"open", "closing"} /\ UNCHANGED credit
            /\ link' = [link EXCEPT ![l] = IF @ = "open" THEN "detached" ELSE "closed"]
         \/ /\ link[l] \in {"open", "closing"} /\ UNCHANGED link
            /\ \E n \in 0..MaxCredit : credit' = [credit EXCEPT ![l] = @ + n]
  <2>1. /\ LL!FlowOn(l) \in LLRaised /\ LL!Event("PN_LINK_REMOTE_CLOSE", l) \in LLRaised
    BY DEF LL!FlowOn, LL!Event, Event, LLRaised
  <2>2. CASE LL!Write(l)
    BY <2>1, <2>2 DEF LL!Write, LL!LinkWrites, LL!Reads, LL!Put, Put, LL!ownVars
  <2>3. CASE LL!PeerCloses(l)
    BY <2>1, <2>3 DEF LL!PeerCloses, LL!PeerDetaches, LL!Reads, LL!Put, Put, LL!ownVars
  <2>4. CASE \E n \in 0..MaxCredit : LL!PeerFlow(l, n)
    BY <2>1, <2>4 DEF LL!PeerFlow, LL!PeerCredit, LL!Reads, LL!Put, Put, LL!ownVars
  <2>5. QED
    BY <2>2, <2>3, <2>4
<1>2. Queue(LLRaised)'
  BY <1>1, ReadQueue DEF LLInv
<1>3. Started' = Started /\ LinksOf(1)' = LinksOf(1)
  BY <1>1 DEF Started, LinksOf
<1>4. link \in [Links -> LinkStates] /\ credit \in [Links -> Int] /\ MaxCredit \in Nat
  BY ProactorLinksAssumption DEF LLInv, LinkTypes
<1>5. CASE UNCHANGED <<link, credit>>
  <2>1. LinkTypes'
    BY <1>1, <1>5 DEF LLInv, LinkTypes
  <2>2. (NoLinks \/ Beginning \/ Closing)'
    BY <1>1, <1>3, <1>5 DEF LLInv, NoLinks, Beginning, Closing, Active
  <2>3. QED
    BY <1>1, <1>2, <1>3, <1>5, <2>1, <2>2 DEF LLInv
<1>6. CASE /\ link[l] \in {"open", "closing"} /\ UNCHANGED credit
           /\ link' = [link EXCEPT ![l] = IF @ = "open" THEN "detached" ELSE "closed"]
  <2>1. LinkTypes'
    BY <1>1, <1>4, <1>6 DEF LLInv, LinkTypes, LinkStates
  <2>2. (NoLinks \/ Beginning \/ Closing)'
    BY <1>1, <1>3, <1>4, <1>6 DEF LLInv, NoLinks, Beginning, Closing, Active
  <2>3. \A k \in Links : link'[k] = "none" <=> link[k] = "none"
    BY <1>4, <1>6
  <2>4. QED
    BY <1>1, <1>2, <1>3, <1>6, <2>1, <2>2, <2>3 DEF LLInv
<1>7. ASSUME NEW n \in 0..MaxCredit, credit' = [credit EXCEPT ![l] = @ + n],
             link[l] \in {"open", "closing"}, UNCHANGED link
      PROVE  LLInv'
  <2>1. LinkTypes'
    BY <1>1, <1>4, <1>7 DEF LLInv, LinkTypes
  <2>2. (NoLinks \/ Beginning \/ Closing)'
    BY <1>1, <1>3, <1>7 DEF LLInv, NoLinks, Beginning, Closing, Active
  <2>3. \A k \in Links : link'[k] = "none" => credit'[k] = 0
    BY <1>4, <1>7 DEF LLInv
  <2>4. QED
    BY <1>1, <1>2, <1>3, <1>7, <2>1, <2>2, <2>3 DEF LLInv
<1>8. QED
  BY <1>1, <1>5, <1>6, <1>7

LEMMA LLStep ==
  ASSUME LLInv, LL!Next
  PROVE  LLInv'
<1>1. CASE LL!ConnectionInit \/ LL!FlowEvent \/ LL!RemoteClose
  BY <1>1, LLConnectionInit, LLFlowEvent, LLRemoteClose
<1>2. CASE LL!Main \/ LL!Interrupt \/ LL!SignalHandler \/ LL!PeerLeaves
  <2>1. Quiet
    BY <1>2 DEF LL!Main, LL!Interrupt, LL!SignalHandler, LL!PeerLeaves, LL!BeginBatch, LL!EndBatch,
       LL!Inactive, LL!Interrupted, LL!Signal, LL!PeerDrops, Quiet
  <2>2. UNCHANGED <<linkVars, repeat_count, link_count>>
    BY <1>2 DEF LL!Main, LL!Interrupt, LL!SignalHandler, LL!PeerLeaves, LL!PeerDrops,
       LL!linkVars, linkVars, LL!ownVars
  <2>3. QED
    BY <2>1, <2>2, LLQuiet
<1>3. CASE \E l \in LL!Links : LL!Write(l) \/ LL!PeerCloses(l) \/ \E n \in 0..MaxCredit : LL!PeerFlow(l, n)
  BY <1>3, LLPeer DEF LL!Links, Links, LL!Sessions, Sessions
<1>4. QED
  BY <1>1, <1>2, <1>3 DEF LL!Next, LL!Client

\* What the invariant says of the counters and of the links closed.
LEMMA LLCounts ==
  ASSUME LLInv
  PROVE  LL!ClosesInFlight /\ LL!CountsRight
<1>1. \A l \in Links : link[l] = "closing" => current[l]
  BY DEF LLInv, NoLinks, Beginning, Closing, Active
<1>2. LL!Links = Links
  BY DEF LL!Links, Links, LL!Sessions, Sessions
<1>3. LL!Cardinality({l \in LL!Links : current[l]}) = Cardinality(Started)
  BY <1>2 DEF Started, LL!Cardinality, Cardinality
<1>4. QED
  BY <1>1, <1>2, <1>3 DEF LLInv, LL!ClosesInFlight, LL!CountsRight

-----------------------------------------------------------------------------
(***************************************************************************)
(* link-sender.c                                                           *)
(***************************************************************************)

LEMMA LSEvents ==
  \A e \in LSRaised :
    /\ e.type # "PN_CONNECTION_INIT" /\ e.dlv \in Links
    /\ e.type = "PN_DELIVERY" => e = DeliveryEvent(e.dlv)
    /\ e.type = "PN_LINK_FLOW" => \A l \in Links : e # DeliveryEvent(l)
BY DEF LSRaised, DeliveryEvent, Event

LEMMA LSInitially ==
  ASSUME LS!Init
  PROVE  LSInv
<1>1. /\ turn = "wait" /\ conn = "init" /\ events = <<ConnectionInitEvent>>
      /\ link_limit \in 1..MaxLinks /\ closed_links = 0
      /\ link = [l \in Links |-> "none"] /\ credit = [l \in Links |-> 0]
      /\ current = [l \in Links |-> FALSE] /\ context = [l \in Links |-> "none"]
      /\ outcome = [l \in Links |-> "none"]
  BY DEF LS!Init, LS!LoopInit, LS!LinksInit, LS!ConnectionInitEvent, ConnectionInitEvent,
         LS!Event, Event, LS!Links, Links, LS!Sessions, Sessions
<1>2. Freed = {}
  BY <1>1 DEF Freed
<1>3. Cardinality(Freed) = 0
  BY <1>2, FS_EmptySet
<1>4. LinkTypes /\ Queue(LSRaised)
  BY <1>1 DEF LinkTypes, Queue, LinkStates
<1>5. \A l \in Links : ~Queued(DeliveryEvent(l), events) /\ Once(DeliveryEvent(l), events)
  BY <1>1 DEF Queued, Once, ConnectionInitEvent, DeliveryEvent, Event
<1>6. LSOutcomes
  BY <1>1, <1>3, <1>5 DEF LSOutcomes
<1>7. /\ context \in [Links -> {"none", "dlv", "freed"}]
      /\ outcome \in [Links -> {"none", "received", "final"}]
  BY <1>1
<1>8. QED
  BY <1>1, <1>2, <1>3, <1>4, <1>6, <1>7 DEF LSInv

\* Steps that leave the links and the deliveries as they are.
LEMMA LSQuiet ==
  ASSUME LSInv, Quiet, UNCHANGED <<linkVars, informs, context, outcome, closed_links>>
  PROVE  LSInv'
<1>1. Queue(LSRaised)'
  BY QuietQueue DEF LSInv
<1>2. LinkTypes' /\ turn' # "failed"
  BY DEF LSInv, LinkTypes, Quiet, linkVars
<1>3. UNCHANGED <<link, events>> /\ (conn' = "init" => conn = "init")
  BY DEF linkVars, Quiet
<1>4. Freed' = Freed
  BY DEF Freed
<1>5. LSOutcomes => LSOutcomes'
  BY <1>3, <1>4 DEF LSOutcomes
<1>6. QED
  BY <1>1, <1>2, <1>3, <1>4, <1>5 DEF LSInv, Active

LEMMA LSConnectionInit ==
  ASSUME LSInv, LS!ConnectionInit
  PROVE  LSInv'
<1>1. /\ events # <<>> /\ Head(events).type \in {"PN_CONNECTION_INIT"}
      /\ events' = Tail(events) \o <<>> /\ conn' = "open"
      /\ link' = [l \in Links |-> IF l \in LinksOf(1) THEN "open" ELSE link[l]]
      /\ UNCHANGED <<turn, link_limit, credit, current, informs, context, outcome, closed_links>>
  BY DEF LS!ConnectionInit, LS!Handles, LS!OpenLinks, LS!Links, Links, LS!Sessions, Sessions,
         LS!LinksOf, LinksOf, LS!ownVars
<1>2. conn = "init" /\ events' = <<>>
  BY <1>1, FirstEvent, LSEvents DEF LSInv
<1>3. Queue(LSRaised)'
  <2>1. <<>> \in Seq(LSRaised)
    OBVIOUS
  <2>2. QED
    BY <1>1, <1>2, <2>1 DEF Queue
<1>4. LinkTypes'
  BY <1>1 DEF LSInv, LinkTypes, LinkStates
<1>5. Freed' = Freed /\ Freed = {}
  BY <1>1, <1>2 DEF Freed, LSInv
<1>6. \A l \in Links : ~Queued(DeliveryEvent(l), events') /\ Once(DeliveryEvent(l), events')
  BY <1>2 DEF Queued, Once
<1>7. LSOutcomes => LSOutcomes'
  BY <1>1, <1>5, <1>6 DEF LSOutcomes
<1>8. QED
  BY <1>1, <1>3, <1>4, <1>5, <1>7 DEF LSInv

\* A piece is sent, which may begin a message: of a link that is open here, so
\* that its context is not a settled delivery.
LEMMA LSFlowEvent ==
  ASSUME LSInv, LS!FlowEvent
  PROVE  LSInv'
<1>0. PICK l : l = Head(events).dlv
  OBVIOUS
<1>1. /\ events # <<>> /\ Head(events).type \in {"PN_LINK_FLOW"} /\ events' = Tail(events) \o <<>>
      /\ UNCHANGED <<conn, link_limit, link, informs, outcome, closed_links>>
  BY DEF LS!FlowEvent, LS!Handles
<1>2. /\ conn # "init" /\ l \in Links /\ events \in Seq(LSRaised)
      /\ \A k \in Links : Head(events) # DeliveryEvent(k)
  BY <1>0, <1>1, LaterEvent, LSEvents DEF LSInv
<1>3. Queue(LSRaised)' /\ events' = Tail(events)
  BY <1>1, PopQueue DEF LSInv
<1>4. \A k \in Links : /\ Queued(DeliveryEvent(k), events') => Queued(DeliveryEvent(k), events)
                       /\ Once(DeliveryEvent(k), events) => Once(DeliveryEvent(k), events')
  BY <1>1, <1>2, <1>3, TailQueued, TailOnce
<1>5. /\ context \in [Links -> {"none", "dlv", "freed"}] /\ current \in [Links -> BOOLEAN]
      /\ credit \in [Links -> Int]
  BY DEF LSInv, LinkTypes
<1>6. /\ turn' = turn
      /\ context' = context \/ (context[l] = "none" /\ context' = [context EXCEPT ![l] = "dlv"])
      /\ current' \in [Links -> BOOLEAN] /\ credit' \in [Links -> Int]
  <2>1. CASE Active(l)
    <3>1. LS!SendPiece(l)
      BY <1>0, <2>1 DEF LS!FlowEvent, LS!Active, Active
    <3>2. context[l] # "freed"
      BY <1>2, <2>1 DEF LSInv, Freed
    <3>3. turn' = turn
      BY <3>1, <3>2 DEF LS!SendPiece
    <3>4. context' = context \/ (context[l] = "none" /\ context' = [context EXCEPT ![l] = "dlv"])
      BY <3>1 DEF LS!SendPiece, LS!start_message
    <3>5. credit' \in [Links -> Int]
      BY <1>2, <1>5, <3>1 DEF LS!SendPiece
    <3>6. \E b \in BOOLEAN : current' = [current EXCEPT ![l] = b]
      BY <1>2, <1>5, <3>1 DEF LS!SendPiece
    <3>7. current' \in [Links -> BOOLEAN]
      BY <1>5, <3>6
    <3>8. QED
      BY <3>3, <3>4, <3>5, <3>7
  <2>2. CASE ~Active(l)
    <3>1. UNCHANGED <<turn, context, current, credit>>
      BY <1>0, <2>2 DEF LS!FlowEvent, LS!Active, Active
    <3>2. QED
      BY <1>5, <3>1
  <2>3. QED
    BY <2>1, <2>2
<1>7. LinkTypes'
  BY <1>1, <1>6 DEF LSInv, LinkTypes
<1>8. Freed' = Freed /\ context' \in [Links -> {"none", "dlv", "freed"}]
      /\ \A k \in Links : context[k] = "dlv" => context'[k] = "dlv"
  BY <1>2, <1>5, <1>6 DEF Freed
<1>9. LSOutcomes => LSOutcomes'
  BY <1>1, <1>4, <1>8 DEF LSOutcomes
<1>10. QED
  BY <1>1, <1>2, <1>3, <1>6, <1>7, <1>8, <1>9 DEF LSInv, Active

\* The delivery is settled and its link closed.
LEMMA LSOutcome ==
  ASSUME LSInv, conn # "init", UNCHANGED <<conn, link_limit, informs, outcome>>, Queue(LSRaised)',
         NEW l \in Links, LS!Outcome(l), Queued(DeliveryEvent(l), events),
         \A k \in Links : /\ Queued(DeliveryEvent(k), events') => Queued(DeliveryEvent(k), events)
                          /\ Once(DeliveryEvent(k), events) => Once(DeliveryEvent(k), events'),
         Once(DeliveryEvent(l), events) => ~Queued(DeliveryEvent(l), events')
  PROVE  LSInv'
<1>1. /\ context' = [context EXCEPT ![l] = "freed"] /\ current' = [current EXCEPT ![l] = FALSE]
      /\ credit' = IF current[l] THEN [credit EXCEPT ![l] = @ - 1] ELSE credit
      /\ link' = [link EXCEPT ![l] = Closed(@)] /\ closed_links' = closed_links + 1
      /\ turn' = IF closed_links' = link_limit THEN "exit" ELSE turn
  BY DEF LS!Outcome, LS!Closed, Closed
<1>2. /\ context \in [Links -> {"none", "dlv", "freed"}] /\ current \in [Links -> BOOLEAN]
      /\ credit \in [Links -> Int] /\ link \in [Links -> LinkStates] /\ link_limit \in 1..MaxLinks
  BY DEF LSInv, LinkTypes
<1>3. current' \in [Links -> BOOLEAN]
  BY <1>1, <1>2
<1>4. credit' \in [Links -> Int]
  BY <1>1, <1>2
<1>5. link' \in [Links -> LinkStates] /\ link'[l] \notin {"open", "detached"}
  BY <1>1, <1>2 DEF LinkStates, Closed
<1>6. turn' \in {"wait", "batch", "exit", "spin"}
  BY <1>1 DEF LSInv, LinkTypes
<1>7. LinkTypes'
  BY <1>2, <1>3, <1>4, <1>5, <1>6 DEF LinkTypes
<1>8. Freed' = Freed \union {l} /\ Freed \in SUBSET Links
      /\ context' \in [Links -> {"none", "dlv", "freed"}]
  BY <1>1, <1>2 DEF Freed
<1>9. \A k \in Freed' : ~Active(k)'
  BY <1>1, <1>2, <1>5, <1>8 DEF LSInv, Active
<1>10. closed_links' \in Nat /\ Cardinality(Freed') <= closed_links'
  <2>1. Cardinality(Freed) \in Nat /\ Cardinality(Freed') \in {Cardinality(Freed), Cardinality(Freed) + 1}
    <3>1. CASE l \in Freed
      BY <1>2, <1>8, <3>1, LinkSubset
    <3>2. CASE l \notin Freed
      BY <1>2, <1>8, <3>2, LinkSubset
    <3>3. QED
      BY <3>1, <3>2
  <2>2. QED
    BY <1>1, <2>1 DEF LSInv
<1>11. ASSUME LSOutcomes PROVE LSOutcomes'
  <2>1. l \notin Freed
    BY <1>11 DEF LSOutcomes, Freed
  <2>2. closed_links' = Cardinality(Freed')
    BY <1>1, <1>2, <1>8, <1>11, <2>1, LinkSubset DEF LSOutcomes
  <2>3. ~Queued(DeliveryEvent(l), events')
    BY <1>11 DEF LSOutcomes
  <2>4. \A k \in Links : Queued(DeliveryEvent(k), events') => outcome[k] = "final" /\ context'[k] = "dlv"
    BY <1>1, <1>2, <1>11, <2>3 DEF LSOutcomes
  <2>5. QED
    BY <1>11, <2>2, <2>4 DEF LSOutcomes
<1>12. QED
  BY <1>6, <1>7, <1>8, <1>9, <1>10, <1>11 DEF LSInv

LEMMA LSDelivery ==
  ASSUME LSInv, LS!Delivery
  PROVE  LSInv'
<1>0. PICK l : l = Head(events).dlv
  OBVIOUS
<1>1. /\ events # <<>> /\ Head(events).type \in {"PN_DELIVERY"} /\ events' = Tail(events) \o <<>>
      /\ UNCHANGED <<conn, link_limit, informs, outcome>>
      /\ LS!Received(l) \/ LS!Outcome(l)
  BY <1>0 DEF LS!Delivery, LS!Handles
<1>2. /\ conn # "init" /\ l \in Links /\ events \in Seq(LSRaised)
      /\ Head(events) = DeliveryEvent(l) /\ Queued(DeliveryEvent(l), events)
  BY <1>0, <1>1, LaterEvent, LSEvents DEF LSInv
<1>3. Queue(LSRaised)' /\ events' = Tail(events)
  BY <1>1, PopQueue DEF LSInv
<1>4. \A k \in Links : /\ Queued(DeliveryEvent(k), events') => Queued(DeliveryEvent(k), events)
                       /\ Once(DeliveryEvent(k), events) => Once(DeliveryEvent(k), events')
  BY <1>1, <1>2, <1>3, TailQueued, TailOnce
<1>5. Once(DeliveryEvent(l), events) => ~Queued(DeliveryEvent(l), events')
  BY <1>1, <1>2, <1>3, TailOnce
<1>6. CASE LS!Outcome(l)
  BY <1>1, <1>2, <1>3, <1>4, <1>5, <1>6, LSOutcome
<1>7. CASE LS!Received(l)
  <2>1. outcome[l] = "received" /\ UNCHANGED <<turn, link, context, current, credit, closed_links>>
    BY <1>7 DEF LS!Received
  <2>2. Freed' = Freed /\ LinkTypes'
    BY <1>1, <2>1 DEF Freed, LSInv, LinkTypes
  <2>3. LSOutcomes => LSOutcomes'
    BY <1>2, <2>1 DEF LSOutcomes
  <2>4. QED
    BY <1>1, <1>2, <1>3, <2>1, <2>2, <2>3 DEF LSInv, Active
<1>8. QED
  BY <1>1, <1>6, <1>7

\* What the transport and the peer do: only a disposition is new.
LEMMA LSPeer ==
  ASSUME LSInv, NEW l \in Links,
         \/ LS!Write(l) \/ LS!PeerSettles(l) \/ LS!PeerDisposition(l, "received")
         \/ \E n \in 0..MaxCredit : LS!PeerFlow(l, n)
  PROVE  LSInv'
<1>1. /\ FlowOn(l) \in LSRaised /\ DeliveryEvent(l) \in LSRaised
      /\ \A k \in Links : DeliveryEvent(k) # FlowOn(l) /\ (DeliveryEvent(k) = DeliveryEvent(l) => k = l)
  BY DEF FlowOn, DeliveryEvent, Event, LSRaised
<1>2. context \in [Links -> {"none", "dlv", "freed"}] /\ credit \in [Links -> Int] /\ MaxCredit \in Nat
      /\ outcome \in [Links -> {"none", "received", "final"}]
  BY ProactorLinksAssumption DEF LSInv, LinkTypes
<1>3. CASE LS!Write(l) \/ \E n \in 0..MaxCredit : LS!PeerFlow(l, n)
  <2>1. /\ conn = "open" /\ events' = Put(events, FlowOn(l)) /\ credit' \in [Links -> Int]
        /\ UNCHANGED <<turn, conn, link_limit, link, current, informs, context, outcome, closed_links>>
    <3>1. CASE LS!Write(l)
      BY <1>2, <3>1 DEF LS!Write, LS!LinkWrites, LS!Reads, LS!Put, Put, LS!ownVars, LS!FlowOn, FlowOn,
         LS!Event, Event
    <3>2. CASE \E n \in 0..MaxCredit : LS!PeerFlow(l, n)
      <4>1. \E n \in 0..MaxCredit : credit' = [credit EXCEPT ![l] = @ + n]
        BY <3>2 DEF LS!PeerFlow, LS!PeerCredit
      <4>2. credit' \in [Links -> Int]
        BY <1>2, <4>1
      <4>3. QED
        BY <3>2, <4>2 DEF LS!PeerFlow, LS!PeerCredit, LS!Reads, LS!Put, Put, LS!ownVars, LS!FlowOn, FlowOn,
           LS!Event, Event
    <3>3. QED
      BY <1>3, <3>1, <3>2
  <2>2. Queue(LSRaised)' /\ events \in Seq(LSRaised)
    BY <1>1, <2>1, ReadQueue DEF LSInv
  <2>3. \A k \in Links : /\ Queued(DeliveryEvent(k), events') => Queued(DeliveryEvent(k), events)
                         /\ Once(DeliveryEvent(k), events) => Once(DeliveryEvent(k), events')
    BY <1>1, <2>1, <2>2, PutQueued, PutOnce
  <2>4. Freed' = Freed /\ LinkTypes'
    BY <2>1 DEF Freed, LSInv, LinkTypes
  <2>5. LSOutcomes => LSOutcomes'
    BY <2>1, <2>3, <2>4 DEF LSOutcomes
  <2>6. QED
    BY <2>1, <2>2, <2>4, <2>5 DEF LSInv, Active
<1>4. ASSUME NEW state \in {"received", "final"}, LS!PeerDisposition(l, state)
      PROVE  LSInv'
  <2>1. /\ conn = "open" /\ events' = Put(events, DeliveryEvent(l)) /\ context[l] = "dlv"
        /\ outcome[l] \in {"none", "received"} /\ (state = "received" => informs)
        /\ outcome' = [outcome EXCEPT ![l] = state]
        /\ UNCHANGED <<turn, conn, link_limit, link, current, credit, informs, context, closed_links>>
    BY <1>4 DEF LS!PeerDisposition, LS!Reads, LS!Put, Put, LS!linkVars, DeliveryEvent, LS!Event, Event
  <2>2. Queue(LSRaised)' /\ events \in Seq(LSRaised)
    BY <1>1, <2>1, ReadQueue DEF LSInv
  <2>3. Freed' = Freed /\ LinkTypes' /\ outcome' \in [Links -> {"none", "received", "final"}]
    BY <1>2, <2>1 DEF Freed, LSInv, LinkTypes
  <2>4. ASSUME ~informs, LSOutcomes PROVE LSOutcomes'
    <3>1. ~Queued(DeliveryEvent(l), events)
      BY <2>1, <2>4 DEF LSOutcomes
    <3>2. \A k \in Links : Queued(DeliveryEvent(k), events') => k = l \/ Queued(DeliveryEvent(k), events)
      BY <1>1, <2>1, <2>2, PutQueued
    <3>3. \A k \in Links : Once(DeliveryEvent(k), events')
      BY <1>1, <2>1, <2>2, <2>4, <3>1, PutOnce DEF LSOutcomes
    <3>4. state = "final"
      BY <2>1, <2>4
    <3>5. QED
      BY <1>2, <2>1, <2>3, <2>4, <3>2, <3>3, <3>4 DEF LSOutcomes
  <2>5. QED
    BY <2>1, <2>2, <2>3, <2>4 DEF LSInv, Active
<1>5. QED
  BY <1>3, <1>4 DEF LS!PeerSettles

LEMMA LSStep ==
  ASSUME LSInv, LS!Next
  PROVE  LSInv'
<1>1. CASE LS!ConnectionInit \/ LS!FlowEvent \/ LS!Delivery
  BY <1>1, LSConnectionInit, LSFlowEvent, LSDelivery
<1>2. CASE LS!Main \/ LS!Interrupt \/ LS!SignalHandler \/ LS!PeerLeaves
  <2>1. Quiet
    BY <1>2 DEF LS!Main, LS!Interrupt, LS!SignalHandler, LS!PeerLeaves, LS!BeginBatch, LS!EndBatch,
       LS!Inactive, LS!Interrupted, LS!Signal, LS!PeerDrops, Quiet
  <2>2. UNCHANGED <<linkVars, informs, context, outcome, closed_links>>
    BY <1>2 DEF LS!Main, LS!Interrupt, LS!SignalHandler, LS!PeerLeaves, LS!PeerDrops,
       LS!linkVars, linkVars, LS!ownVars
  <2>3. QED
    BY <2>1, <2>2, LSQuiet
<1>3. CASE \E l \in LS!Links :
             \/ LS!Write(l) \/ LS!PeerSettles(l) \/ LS!PeerDisposition(l, "received")
             \/ \E n \in 0..MaxCredit : LS!PeerFlow(l, n)
  BY <1>3, LSPeer DEF LS!Links, Links, LS!Sessions, Sessions
<1>4. QED
  BY <1>1, <1>2, <1>3 DEF LS!Next, LS!Client

LEMMA LSCounts ==
  ASSUME LSInv
  PROVE  LS!CountsRight
<1>1. LS!Links = Links
  BY DEF LS!Links, Links, LS!Sessions, Sessions
<1>2. LS!Cardinality({l \in LS!Links : context[l] = "freed"}) = Cardinality(Freed)
  BY <1>1 DEF Freed, LS!Cardinality, Cardinality
<1>3. QED
  BY <1>2 DEF LSInv, LSOutcomes, LS!CountsRight

-----------------------------------------------------------------------------
(***************************************************************************)
(* link-receiver.c                                                         *)
(***************************************************************************)

LEMMA LREvents ==
  /\ \A e \in LRRaised :
       /\ e.type # "PN_CONNECTION_INIT"
       /\ e.type = "PN_DELIVERY" => e.dlv \in Links \X Nat /\ e = DeliveryEvent(e.dlv)
       /\ e.type = "PN_LINK_REMOTE_CLOSE" => \A x \in Links \X Nat : e # DeliveryEvent(x)
  /\ \A x \in Links \X Nat : DeliveryEvent(x) \in LRRaised
  /\ \A l \in Links : Event("PN_LINK_REMOTE_CLOSE", l) \in LRRaised
  /\ \A x, y \in Links \X Nat : DeliveryEvent(x) = DeliveryEvent(y) => x = y
  /\ \A x \in Links \X Nat, l \in Links : DeliveryEvent(x) # Event("PN_LINK_REMOTE_CLOSE", l)
<1>1. \A x : /\ DeliveryEvent(x).type = "PN_DELIVERY" /\ DeliveryEvent(x).dlv = x
             /\ Event("PN_LINK_REMOTE_CLOSE", x).type = "PN_LINK_REMOTE_CLOSE"
  BY DEF DeliveryEvent, Event
<1>2. \A e \in LRRaised : \/ \E x \in Links \X Nat : e = DeliveryEvent(x)
                          \/ \E l \in Links : e = Event("PN_LINK_REMOTE_CLOSE", l)
  BY DEF LRRaised
<1>3. /\ \A x \in Links \X Nat : DeliveryEvent(x) \in LRRaised
      /\ \A l \in Links : Event("PN_LINK_REMOTE_CLOSE", l) \in LRRaised
  BY DEF LRRaised
<1>4. QED
  BY <1>1, <1>2, <1>3

\* The messages of a link that have arrived in full.
LEMMA LRComplete ==
  ASSUME NEW l \in Links
  PROVE  /\ \A x \in Links \X Nat :
              x \in LR!Complete(l) <=> x[1] = l /\ x[2] \in 1..(IF current[l] THEN arrived[l] - 1 ELSE arrived[l])
         /\ arrived \in [Links -> Nat] => IsFiniteSet(LR!Complete(l)) /\ LR!Complete(l) \subseteq Links \X Nat
<1>1. \A x \in Links \X Nat :
        x \in LR!Complete(l) <=> x[1] = l /\ x[2] \in 1..(IF current[l] THEN arrived[l] - 1 ELSE arrived[l])
  BY DEF LR!Complete
<1>2. ASSUME arrived \in [Links -> Nat]
      PROVE  IsFiniteSet(LR!Complete(l)) /\ LR!Complete(l) \subseteq Links \X Nat
  <2>1. PICK n \in Int : n = IF current[l] THEN arrived[l] - 1 ELSE arrived[l]
    BY <1>2
  <2>2. LR!Complete(l) = {l} \X (1..n) /\ 1..n \subseteq Nat
    BY <2>1 DEF LR!Complete
  <2>3. IsFiniteSet({l}) /\ IsFiniteSet(1..n)
    <3>1. 1 \in Int /\ n \in Int
      BY <2>1
    <3>2. IsFiniteSet(1..n)
      BY <3>1, FS_Interval
    <3>3. QED
      BY <3>2, FS_Singleton
  <2>4. IsFiniteSet({l} \X (1..n))
    BY <2>3, FS_Product
  <2>5. {l} \X (1..n) \subseteq Links \X Nat
    BY <2>2
  <2>6. QED
    BY <2>2, <2>4, <2>5
<1>3. QED
  BY <1>1, <1>2

LEMMA LRInitially ==
  ASSUME LR!Init
  PROVE  LRInv
<1>1. /\ turn = "wait" /\ conn = "init" /\ events = <<ConnectionInitEvent>>
      /\ link_limit \in 1..MaxLinks /\ msg_count = 0 /\ settled = {}
      /\ link = [l \in Links |-> "none"] /\ credit = [l \in Links |-> 0]
      /\ current = [l \in Links |-> FALSE] /\ arrived = [l \in Links |-> 0]
  BY DEF LR!Init, LR!LoopInit, LR!LinksInit, LR!ConnectionInitEvent, ConnectionInitEvent,
         LR!Event, Event, LR!Links, Links, LR!Sessions, Sessions
<1>2. LinkTypes /\ Queue(LRRaised)
  BY <1>1 DEF LinkTypes, Queue, LinkStates
<1>3. \A x \in Links \X Nat : ~Queued(DeliveryEvent(x), events) /\ Once(DeliveryEvent(x), events)
  BY <1>1 DEF Queued, Once, ConnectionInitEvent, DeliveryEvent, Event
<1>4. \A x \in Links \X Nat : x \notin LR!Complete(x[1])
  BY <1>1, LRComplete
<1>5. LRTypes
  BY <1>1, <1>2 DEF LRTypes
<1>6. LRDeliveries
  BY <1>1, <1>3, <1>4 DEF LRDeliveries
<1>7. LRCounted
  BY <1>1, FS_EmptySet DEF LRCounted
<1>8. LRWhole
  BY <1>1, <1>3, FS_EmptySet DEF LRWhole
<1>9. QED
  BY <1>5, <1>6, <1>7, <1>8 DEF LRInv

\* Steps that leave what has arrived and what is settled as it is.
LEMMA LRSame ==
  ASSUME LRInv, LinkTypes', Queue(LRRaised)', conn' = "init" <=> conn = "init",
         turn = "spin" => turn' = "spin",
         UNCHANGED <<fragments, arrived, settled, msg_count, current, credit, link_limit>>,
         \A x \in Links \X Nat :
           /\ Queued(DeliveryEvent(x), events') <=> Queued(DeliveryEvent(x), events)
           /\ Once(DeliveryEvent(x), events) => Once(DeliveryEvent(x), events')
  PROVE  LRInv'
<1>1. LRTypes'
  BY DEF LRInv, LRTypes
<1>2. \A l : LR!Complete(l)' = LR!Complete(l) /\ LinksOf(1)' = LinksOf(1)
  BY DEF LR!Complete, LinksOf
<1>3. LRDeliveries'
  BY <1>2 DEF LRInv, LRDeliveries
<1>4. \A l : LROutstanding(l)' = LROutstanding(l)
  BY <1>2 DEF LROutstanding
<1>5. LRCounted'
  BY <1>2, <1>4 DEF LRInv, LRCounted
<1>6. LRWhole => LRWhole'
  BY <1>2, <1>4 DEF LRWhole
<1>7. QED
  BY <1>1, <1>3, <1>5, <1>6 DEF LRInv

LEMMA LRQuiet ==
  ASSUME LRInv, Quiet, UNCHANGED <<linkVars, fragments, arrived, settled, msg_count>>
  PROVE  LRInv'
<1>1. Queue(LRRaised)'
  BY QuietQueue DEF LRInv, LRTypes
<1>2. LinkTypes'
  BY DEF LRInv, LRTypes, LinkTypes, Quiet, linkVars
<1>3. /\ UNCHANGED <<events, current, credit, link_limit>> /\ (conn' = "init" <=> conn = "init")
      /\ turn = "spin" => turn' = "spin"
  BY DEF linkVars, Quiet
<1>4. QED
  BY <1>1, <1>2, <1>3, LRSame

\* The links are opened with a window of credit each.
LEMMA LRConnectionBound ==
  ASSUME LRInv, LR!ConnectionBound
  PROVE  LRInv'
<1>1. /\ events # <<>> /\ Head(events).type \in {"PN_CONNECTION_INIT"}
      /\ events' = Tail(events) \o <<>> /\ conn' = "open"
      /\ link' = [l \in Links |-> IF l \in LinksOf(1) THEN "open" ELSE "none"]
      /\ credit' = [l \in Links |-> IF l \in LinksOf(1) THEN Window ELSE 0]
      /\ UNCHANGED <<turn, link_limit, current, fragments, arrived, settled, msg_count>>
  BY DEF LR!ConnectionBound, LR!Handles, LR!Links, Links, LR!Sessions, Sessions,
         LR!LinksOf, LinksOf, LR!ownVars
<1>2. conn = "init" /\ events' = <<>> /\ events = <<ConnectionInitEvent>>
  BY <1>1, FirstEvent, LREvents DEF LRInv, LRTypes
<1>3. Queue(LRRaised)'
  <2>1. <<>> \in Seq(LRRaised)
    OBVIOUS
  <2>2. QED
    BY <1>1, <1>2, <2>1 DEF Queue
<1>4. LinkTypes'
  <2>1. credit' \in [Links -> Int]
    BY <1>1, ProactorClientsAssumption
  <2>2. QED
    BY <1>1, <2>1 DEF LRInv, LRTypes, LinkTypes, LinkStates
<1>5. \A x \in Links \X Nat : /\ ~Queued(DeliveryEvent(x), events) /\ ~Queued(DeliveryEvent(x), events')
                              /\ Once(DeliveryEvent(x), events')
  BY <1>2 DEF Queued, Once, ConnectionInitEvent, DeliveryEvent, Event
<1>6. \A l : LR!Complete(l)' = LR!Complete(l) /\ LinksOf(1)' = LinksOf(1)
  BY <1>1 DEF LR!Complete, LinksOf
<1>7. LRTypes'
  BY <1>1, <1>3, <1>4 DEF LRInv, LRTypes
<1>8. LRDeliveries'
  BY <1>1, <1>5, <1>6 DEF LRInv, LRDeliveries
<1>9. \A l \in LinksOf(1) : LROutstanding(l)' = Window
  <2>1. 1 \in Sessions /\ link_limit \in 1..MaxLinks
    BY ProactorLinksAssumption DEF Sessions, LRInv, LRTypes, LinkTypes
  <2>2. LinksOf(1) \subseteq Links
    BY <2>1, LinkSets
  <2>3. \A l \in Links : LR!Complete(l) = {}
    BY <1>2 DEF LRInv, LRCounted, LR!Complete
  <2>4. \A l \in LinksOf(1) : LR!Complete(l) \ settled = {} /\ credit'[l] = Window
    BY <1>1, <2>2, <2>3
  <2>5. \A l \in LinksOf(1) : credit'[l] + Cardinality(LR!Complete(l) \ settled) = Window
    BY <2>4, FS_EmptySet, ProactorClientsAssumption
  <2>6. QED
    BY <1>1, <1>6, <2>5 DEF LROutstanding
<1>10. LRCounted'
  BY <1>1, <1>6, <1>9, ProactorClientsAssumption DEF LRInv, LRCounted
<1>11. LRWhole => LRWhole'
  BY <1>1, <1>2, <1>5, <1>6, <1>9 DEF LRWhole
<1>12. QED
  BY <1>1, <1>7, <1>8, <1>10, <1>11 DEF LRInv

\* A message that is over is settled, and its credit given back, once or more
\* often.
LEMMA LRSettles ==
  ASSUME LRInv, conn # "init", LinkTypes', Queue(LRRaised)',
         UNCHANGED <<turn, conn, link_limit, current, fragments, arrived>>,
         NEW x \in Links \X Nat, Queued(DeliveryEvent(x), events), ~LR!Partial(x[1], x[2]),
         settled' = settled \union {x}, credit' = [credit EXCEPT ![x[1]] = @ + 1],
         msg_count' = msg_count + 1,
         \A y \in Links \X Nat :
           /\ Queued(DeliveryEvent(y), events') => Queued(DeliveryEvent(y), events)
           /\ Queued(DeliveryEvent(y), events) /\ y # x => Queued(DeliveryEvent(y), events')
           /\ Once(DeliveryEvent(y), events) => Once(DeliveryEvent(y), events'),
         Once(DeliveryEvent(x), events) => ~Queued(DeliveryEvent(x), events')
  PROVE  LRInv'
<1>1. arrived \in [Links -> Nat] /\ credit \in [Links -> Int] /\ x[1] \in Links /\ x[2] \in Nat
  BY DEF LRInv, LRTypes, LinkTypes
<1>2. x \in LR!Complete(x[1])
  <2>1. x[2] \in 1..arrived[x[1]]
    BY DEF LRInv, LRDeliveries
  <2>2. x[2] \in 1..(IF current[x[1]] THEN arrived[x[1]] - 1 ELSE arrived[x[1]])
    BY <1>1, <2>1 DEF LR!Partial
  <2>3. QED
    BY <1>1, <2>2, LRComplete
<1>3. \A l : LR!Complete(l)' = LR!Complete(l) /\ LinksOf(1)' = LinksOf(1)
  BY DEF LR!Complete, LinksOf
<1>4. LRTypes'
  BY DEF LRInv, LRTypes
<1>5. LRDeliveries'
  BY <1>2, <1>3 DEF LRInv, LRDeliveries
<1>6. IsFiniteSet(settled) /\ msg_count \in Nat /\ Cardinality(settled) <= msg_count /\ Cardinality(settled) \in Nat
  BY FS_CardinalityType DEF LRInv, LRCounted
<1>7. /\ IsFiniteSet(settled')
      /\ Cardinality(settled') = IF x \in settled THEN Cardinality(settled) ELSE Cardinality(settled) + 1
  <2>1. CASE x \in settled
    BY <1>6, <2>1
  <2>2. CASE x \notin settled
    BY <1>6, <2>2, FS_AddElement
  <2>3. QED
    BY <2>1, <2>2
<1>8. ASSUME NEW l \in LinksOf(1)
      PROVE  /\ LROutstanding(l) \in Int
             /\ LROutstanding(l)' = IF l = x[1] /\ x \in settled THEN LROutstanding(l) + 1 ELSE LROutstanding(l)
  <2>1. l \in Links
    BY ProactorLinksAssumption, LinkSets DEF Sessions, LRInv, LRTypes, LinkTypes
  <2>2. IsFiniteSet(LR!Complete(l) \ settled)
    BY <1>1, <2>1, LRComplete, FS_Subset
  <2>3. PICK c \in Nat : c = Cardinality(LR!Complete(l) \ settled)
    BY <2>2, FS_CardinalityType
  <2>4. /\ credit[l] \in Int /\ LROutstanding(l) = credit[l] + c
        /\ LROutstanding(l)' = credit'[l] + Cardinality(LR!Complete(l) \ settled')
    BY <1>1, <1>3, <2>1, <2>3 DEF LROutstanding
  <2>5. credit'[l] = IF l = x[1] THEN credit[l] + 1 ELSE credit[l]
    BY <1>1, <2>1
  <2>6. CASE l = x[1] /\ x \notin settled
    <3>1. x \in LR!Complete(l) \ settled
      BY <1>2, <2>6
    <3>2. LR!Complete(l) \ settled' = (LR!Complete(l) \ settled) \ {x}
      OBVIOUS
    <3>3. Cardinality(LR!Complete(l) \ settled') = c - 1
      BY <2>2, <2>3, <3>1, <3>2, FS_RemoveElement
    <3>4. QED
      BY <2>4, <2>5, <2>6, <3>3
  <2>7. CASE l # x[1] \/ x \in settled
    <3>1. x \notin LR!Complete(l) \/ x \in settled
      BY <2>1, <2>7, LRComplete
    <3>2. LR!Complete(l) \ settled' = LR!Complete(l) \ settled
      BY <3>1
    <3>3. Cardinality(LR!Complete(l) \ settled') = c
      BY <2>3, <3>2
    <3>4. CASE l # x[1]
      BY <2>4, <2>5, <3>3, <3>4
    <3>5. CASE l = x[1] /\ x \in settled
      BY <2>4, <2>5, <3>3, <3>5
    <3>6. QED
      BY <2>7, <3>4, <3>5
  <2>8. QED
    BY <2>6, <2>7
<1>9. LRCounted'
  <2>1. Cardinality(settled') <= msg_count' /\ msg_count' \in Nat
    BY <1>6, <1>7
  <2>2. \A l \in LinksOf(1) : LROutstanding(l)' >= Window
    BY <1>8, ProactorClientsAssumption DEF LRInv, LRCounted
  <2>3. QED
    BY <1>3, <1>7, <2>1, <2>2 DEF LRInv, LRCounted
<1>10. ASSUME LRWhole PROVE LRWhole'
  <2>1. x \notin settled /\ ~Queued(DeliveryEvent(x), events')
    BY <1>10 DEF LRWhole
  <2>2. msg_count' = Cardinality(settled')
    BY <1>7, <1>10, <2>1 DEF LRWhole
  <2>3. \A y \in Links \X Nat : Queued(DeliveryEvent(y), events') => y \notin settled'
    BY <1>10, <2>1 DEF LRWhole
  <2>4. \A l \in LinksOf(1) : LROutstanding(l)' = Window
    BY <1>8, <1>10, <2>1 DEF LRWhole
  <2>5. QED
    BY <1>3, <1>10, <2>2, <2>3, <2>4 DEF LRWhole
<1>11. QED
  BY <1>4, <1>5, <1>9, <1>10 DEF LRInv

LEMMA LRDelivery ==
  ASSUME LRInv, LR!Delivery
  PROVE  LRInv'
<1>0. PICK x : x = Head(events).dlv
  OBVIOUS
<1>1. /\ events # <<>> /\ Head(events).type \in {"PN_DELIVERY"} /\ events' = Tail(events) \o <<>>
      /\ turn = "batch" /\ UNCHANGED <<conn, link_limit, link, current, fragments, arrived>>
      /\ IF LR!Drains(x[1], x[2]) /\ ~LR!Partial(x[1], x[2])
         THEN /\ turn' = turn /\ settled' = settled \union {<<x[1], x[2]>>}
              /\ credit' = [credit EXCEPT ![x[1]] = @ + 1] /\ msg_count' = msg_count + 1
         ELSE /\ turn' = IF LR!Drains(x[1], x[2]) THEN turn ELSE "spin"
              /\ UNCHANGED <<settled, credit, msg_count>>
  BY <1>0 DEF LR!Delivery, LR!Handles, LR!Accepts
<1>2. /\ conn # "init" /\ x \in Links \X Nat /\ events \in Seq(LRRaised)
      /\ Head(events) = DeliveryEvent(x) /\ Queued(DeliveryEvent(x), events)
  BY <1>0, <1>1, LaterEvent, LREvents DEF LRInv, LRTypes
<1>3. Queue(LRRaised)' /\ events' = Tail(events)
  BY <1>1, PopQueue DEF LRInv, LRTypes
<1>4. \A y \in Links \X Nat :
        /\ Queued(DeliveryEvent(y), events') => Queued(DeliveryEvent(y), events)
        /\ Queued(DeliveryEvent(y), events) /\ y # x => Queued(DeliveryEvent(y), events')
        /\ Once(DeliveryEvent(y), events) => Once(DeliveryEvent(y), events')
  <2>1. \A y \in Links \X Nat : y # x => DeliveryEvent(y) # Head(events)
    BY <1>2, LREvents
  <2>2. QED
    BY <1>1, <1>2, <1>3, <2>1, TailQueued, TailOnce
<1>5. Once(DeliveryEvent(x), events) => ~Queued(DeliveryEvent(x), events')
  BY <1>1, <1>2, <1>3, TailOnce
<1>6. x = <<x[1], x[2]>> /\ x[1] \in Links /\ credit \in [Links -> Int]
  BY <1>2 DEF LRInv, LRTypes, LinkTypes
<1>7. CASE LR!Drains(x[1], x[2]) /\ ~LR!Partial(x[1], x[2])
  <2>1. credit' \in [Links -> Int]
    BY <1>1, <1>6, <1>7
  <2>2. LinkTypes'
    BY <1>1, <2>1 DEF LRInv, LRTypes, LinkTypes
  <2>3. settled' = settled \union {x} /\ credit' = [credit EXCEPT ![x[1]] = @ + 1] /\ msg_count' = msg_count + 1
    BY <1>1, <1>6, <1>7
  <2>4. QED
    BY <1>1, <1>2, <1>3, <1>4, <1>5, <1>7, <2>2, <2>3, LRSettles
<1>8. CASE ~(LR!Drains(x[1], x[2]) /\ ~LR!Partial(x[1], x[2]))
  <2>1. UNCHANGED <<settled, credit, msg_count>> /\ turn' = IF LR!Drains(x[1], x[2]) THEN turn ELSE "spin"
    BY <1>1, <1>8
  <2>2. LRTypes'
    BY <1>1, <1>3, <2>1 DEF LRInv, LRTypes, LinkTypes
  <2>3. \A l : LR!Complete(l)' = LR!Complete(l) /\ LROutstanding(l)' = LROutstanding(l) /\ LinksOf(1)' = LinksOf(1)
    BY <1>1, <2>1 DEF LR!Complete, LROutstanding, LinksOf
  <2>4. current[x[1]]
    BY <1>8 DEF LR!Drains, LR!Partial
  <2>5. LR!Drains(x[1], x[2]) => x \notin LR!Complete(x[1])
    <3>1. SUFFICES ASSUME LR!Drains(x[1], x[2]) PROVE x \notin LR!Complete(x[1])
      OBVIOUS
    <3>2. arrived[x[1]] \in Nat /\ x[2] = arrived[x[1]]
      BY <1>6, <1>8, <3>1 DEF LRInv, LRTypes, LR!Partial
    <3>3. x[2] \notin 1..(arrived[x[1]] - 1)
      BY <3>2
    <3>4. QED
      BY <1>2, <1>6, <2>4, <3>3, LRComplete
  <2>6. LRDeliveries'
    BY <1>1, <1>4, <2>1, <2>3, <2>5 DEF LRInv, LRDeliveries
  <2>7. LRCounted'
    BY <1>1, <2>1, <2>3 DEF LRInv, LRCounted
  <2>8. ~LRWhole
    BY <1>6, <2>4 DEF LRWhole
  <2>9. QED
    BY <1>1, <2>2, <2>6, <2>7, <2>8 DEF LRInv
<1>9. QED
  BY <1>7, <1>8

LEMMA LRIgnored ==
  ASSUME LRInv, LR!Ignored
  PROVE  LRInv'
<1>1. /\ events # <<>> /\ Head(events).type \in {"PN_LINK_REMOTE_CLOSE"} /\ events' = Tail(events) \o <<>>
      /\ UNCHANGED <<turn, conn, linkVars, fragments, arrived, settled, msg_count>>
  BY DEF LR!Ignored, LR!Handles, LR!linkVars, linkVars, LR!ownVars
<1>2. /\ events \in Seq(LRRaised) /\ \A x \in Links \X Nat : DeliveryEvent(x) # Head(events)
  BY <1>1, LaterEvent, LREvents DEF LRInv, LRTypes
<1>3. Queue(LRRaised)' /\ events' = Tail(events)
  BY <1>1, PopQueue DEF LRInv, LRTypes
<1>4. \A x \in Links \X Nat :
        /\ Queued(DeliveryEvent(x), events') <=> Queued(DeliveryEvent(x), events)
        /\ Once(DeliveryEvent(x), events) => Once(DeliveryEvent(x), events')
  BY <1>1, <1>2, <1>3, TailQueued, TailOnce
<1>5. LinkTypes' /\ UNCHANGED <<current, credit, link_limit>>
  BY <1>1 DEF LRInv, LRTypes, LinkTypes, linkVars
<1>6. QED
  BY <1>1, <1>3, <1>4, <1>5, LRSame

LEMMA LRPeerCloses ==
  ASSUME LRInv, NEW l \in Links, LR!PeerCloses(l)
  PROVE  LRInv'
<1>1. /\ conn = "open" /\ events' = Put(events, Event("PN_LINK_REMOTE_CLOSE", l))
      /\ link' = [link EXCEPT ![l] = IF @ = "open" THEN "detached" ELSE "closed"]
      /\ UNCHANGED <<turn, conn, link_limit, current, credit, fragments, arrived, settled, msg_count>>
  BY DEF LR!PeerCloses, LR!PeerDetaches, LR!Reads, LR!Put, Put, LR!Event, Event, LR!ownVars
<1>2. Queue(LRRaised)' /\ events \in Seq(LRRaised) /\ Event("PN_LINK_REMOTE_CLOSE", l) \in LRRaised
  BY <1>1, ReadQueue, LREvents DEF LRInv, LRTypes
<1>3. \A x \in Links \X Nat :
        /\ Queued(DeliveryEvent(x), events') <=> Queued(DeliveryEvent(x), events)
        /\ Once(DeliveryEvent(x), events) => Once(DeliveryEvent(x), events')
  BY <1>1, <1>2, PutQueued, PutOnce, LREvents
<1>4. LinkTypes'
  BY <1>1 DEF LRInv, LRTypes, LinkTypes, LinkStates
<1>5. QED
  BY <1>1, <1>2, <1>3, <1>4, LRSame

\* A frame arrives: the first of a message, or the last of one that began, or
\* one that aborts it.
LEMMA LRPeerTransfers ==
  ASSUME LRInv, NEW l \in Links, NEW more \in BOOLEAN, NEW abort \in BOOLEAN, LR!PeerTransfers(l, more, abort)
  PROVE  LRInv'
<1>0. PICK d : d = IF current[l] THEN arrived[l] ELSE arrived[l] + 1
  OBVIOUS
<1>1. /\ turn = "wait" /\ conn = "open" /\ events' = Put(events, DeliveryEvent(<<l, d>>))
      /\ arrived' = [arrived EXCEPT ![l] = d] /\ current' = [current EXCEPT ![l] = more]
      /\ credit' = IF more THEN credit ELSE [credit EXCEPT ![l] = @ - 1]
      /\ UNCHANGED <<turn, conn, link_limit, link, fragments, settled, msg_count>>
  BY <1>0 DEF LR!PeerTransfers, LR!Reads, LR!Put, Put, LR!Event, Event, DeliveryEvent
<1>2. more => fragments /\ ~current[l]
  BY DEF LR!PeerTransfers
<1>3. /\ arrived \in [Links -> Nat] /\ current \in [Links -> BOOLEAN] /\ credit \in [Links -> Int]
      /\ \A k \in Links : current[k] => arrived[k] > 0
  BY DEF LRInv, LRTypes, LinkTypes, LRDeliveries
<1>4. d \in Nat /\ d >= 1 /\ arrived[l] <= d
  BY <1>0, <1>3
<1>5. <<l, d>> \in Links \X Nat /\ DeliveryEvent(<<l, d>>) \in LRRaised
  BY <1>4, LREvents
<1>6. Queue(LRRaised)' /\ events \in Seq(LRRaised)
  BY <1>1, <1>5, ReadQueue DEF LRInv, LRTypes
<1>7. arrived' \in [Links -> Nat]
  BY <1>1, <1>3, <1>4
<1>8. current' \in [Links -> BOOLEAN]
  BY <1>1, <1>3
<1>9. credit' \in [Links -> Int]
  BY <1>1, <1>3
<1>10. LRTypes'
  BY <1>1, <1>6, <1>7, <1>8, <1>9 DEF LRInv, LRTypes, LinkTypes
<1>11. \A y \in Links \X Nat :
         /\ Queued(DeliveryEvent(y), events') <=> Queued(DeliveryEvent(y), events) \/ y = <<l, d>>
         /\ Once(DeliveryEvent(y), events) /\ (y = <<l, d>> => ~Queued(DeliveryEvent(y), events))
              => Once(DeliveryEvent(y), events')
  BY <1>1, <1>5, <1>6, PutQueued, PutOnce, LREvents
<1>12. \A k \in Links : k # l => arrived'[k] = arrived[k] /\ current'[k] = current[k] /\ credit'[k] = credit[k]
  BY <1>1, <1>3
<1>13. arrived'[l] = d /\ current'[l] = more
  BY <1>1, <1>3
<1>14. \A y \in Links \X Nat : y[1] \in Links /\ y[2] \in Nat /\ y = <<y[1], y[2]>>
  OBVIOUS
<1>15. \A k \in Links : \A y \in Links \X Nat :
         y \in LR!Complete(k)' <=>
           y[1] = k /\ y[2] \in 1..(IF current'[k] THEN arrived'[k] - 1 ELSE arrived'[k])
  BY DEF LR!Complete
<1>16. \A y \in Links \X Nat : y \in LR!Complete(y[1]) => y \in LR!Complete(y[1])'
  <2>1. ASSUME NEW y \in Links \X Nat, y \in LR!Complete(y[1]) PROVE y \in LR!Complete(y[1])'
    <3>1. y[1] \in Links /\ y[2] \in Nat
      OBVIOUS
    <3>2. y[2] \in 1..(IF current[y[1]] THEN arrived[y[1]] - 1 ELSE arrived[y[1]])
      BY <2>1, <3>1, LRComplete
    <3>3. CASE y[1] # l
      BY <1>12, <1>15, <3>1, <3>2, <3>3
    <3>4. CASE y[1] = l
      <4>1. y[2] \in 1..(IF more THEN d - 1 ELSE d)
        BY <1>0, <1>2, <1>3, <3>1, <3>2, <3>4
      <4>2. QED
        BY <1>13, <1>15, <3>1, <3>4, <4>1
    <3>5. QED
      BY <3>3, <3>4
  <2>2. QED
    BY <2>1
<1>17. \A y \in Links \X Nat : y \in LR!Complete(y[1])' => y \in LR!Complete(y[1]) \/ y = <<l, d>>
  <2>1. ASSUME NEW y \in Links \X Nat, y \in LR!Complete(y[1])', y # <<l, d>> PROVE y \in LR!Complete(y[1])
    <3>1. y[1] \in Links /\ y[2] \in Nat /\ y = <<y[1], y[2]>>
      OBVIOUS
    <3>2. y[2] \in 1..(IF current'[y[1]] THEN arrived'[y[1]] - 1 ELSE arrived'[y[1]])
      BY <1>15, <2>1, <3>1
    <3>3. CASE y[1] # l
      BY <1>12, <3>1, <3>2, <3>3, LRComplete
    <3>4. CASE y[1] = l
      <4>1. y[2] # d
        BY <2>1, <3>1, <3>4
      <4>2. y[2] \in 1..(IF more THEN d - 1 ELSE d)
        BY <1>13, <3>2, <3>4
      <4>3. y[2] \in 1..(IF current[l] THEN arrived[l] - 1 ELSE arrived[l])
        BY <1>0, <1>2, <1>3, <3>1, <4>1, <4>2
      <4>4. QED
        BY <3>1, <3>4, <4>3, LRComplete
    <3>5. QED
      BY <3>3, <3>4
  <2>2. QED
    BY <2>1
<1>18. LRDeliveries'
  <2>1. \A y \in Links \X Nat : y \in settled' => y \in LR!Complete(y[1])'
    BY <1>1, <1>16 DEF LRInv, LRDeliveries
  <2>2. \A y \in Links \X Nat : y \in LR!Complete(y[1])' => y \in settled' \/ Queued(DeliveryEvent(y), events')
    BY <1>1, <1>11, <1>17 DEF LRInv, LRDeliveries
  <2>3. ASSUME NEW y \in Links \X Nat, Queued(DeliveryEvent(y), events') PROVE y[2] \in 1..arrived'[y[1]]
    <3>1. CASE y = <<l, d>>
      BY <1>4, <1>13, <3>1
    <3>2. CASE y # <<l, d>>
      <4>1. y[2] \in 1..arrived[y[1]] /\ y[1] \in Links
        BY <1>11, <2>3, <3>2 DEF LRInv, LRDeliveries
      <4>2. arrived[y[1]] \in Nat /\ arrived'[y[1]] \in Nat /\ arrived[y[1]] <= arrived'[y[1]]
        BY <1>3, <1>4, <1>7, <1>12, <1>13, <4>1
      <4>3. QED
        BY <4>1, <4>2
    <3>3. QED
      BY <3>1, <3>2
  <2>4. \A k \in Links : current'[k] => arrived'[k] > 0
    BY <1>3, <1>4, <1>12, <1>13
  <2>5. QED
    BY <2>1, <2>2, <2>3, <2>4 DEF LRDeliveries
<1>19. <<l, d>> \notin LR!Complete(l) /\ <<l, d>> \notin settled
  <2>1. d \notin 1..(IF current[l] THEN arrived[l] - 1 ELSE arrived[l])
    BY <1>0, <1>3
  <2>2. <<l, d>>[1] = l /\ <<l, d>>[2] = d
    OBVIOUS
  <2>3. <<l, d>> \notin LR!Complete(l)
    BY <1>5, <2>1, <2>2, LRComplete
  <2>4. QED
    BY <1>5, <2>2, <2>3 DEF LRInv, LRDeliveries
<1>20. LinksOf(1)' = LinksOf(1)
  BY <1>1 DEF LinksOf
<1>21. ASSUME NEW k \in LinksOf(1)
       PROVE  LROutstanding(k)' = LROutstanding(k)
  <2>1. k \in Links
    BY ProactorLinksAssumption, LinkSets DEF Sessions, LRInv, LRTypes, LinkTypes
  <2>2. LROutstanding(k)' = credit'[k] + Cardinality(LR!Complete(k)' \ settled)
    BY <1>1 DEF LROutstanding
  <2>3. CASE k = l /\ ~more
    <3>1. IsFiniteSet(LR!Complete(l) \ settled)
      BY <1>3, LRComplete, FS_Subset
    <3>2. LR!Complete(l)' = LR!Complete(l) \union {<<l, d>>}
      <4>1. LR!Complete(l)' = {l} \X (1..d) /\ LR!Complete(l) = {l} \X (1..(d - 1))
        BY <1>0, <1>3, <1>13, <2>3 DEF LR!Complete
      <4>2. 1..d = 1..(d - 1) \union {d}
        BY <1>4
      <4>3. QED
        BY <4>1, <4>2
    <3>3. LR!Complete(l)' \ settled = (LR!Complete(l) \ settled) \union {<<l, d>>}
      BY <1>19, <3>2
    <3>4. PICK c \in Nat : c = Cardinality(LR!Complete(l) \ settled)
      BY <3>1, FS_CardinalityType
    <3>5. Cardinality(LR!Complete(l)' \ settled) = c + 1
      BY <1>19, <3>1, <3>3, <3>4, FS_AddElement
    <3>6. credit'[l] = credit[l] - 1 /\ credit[l] \in Int
      BY <1>1, <1>3, <2>3
    <3>7. QED
      BY <2>2, <2>3, <3>4, <3>5, <3>6 DEF LROutstanding
  <2>4. CASE k = l /\ more
    <3>1. LR!Complete(l)' = {l} \X (1..(d - 1)) /\ LR!Complete(l) = {l} \X (1..arrived[l]) /\ d - 1 = arrived[l]
      BY <1>0, <1>2, <1>3, <1>13, <2>4 DEF LR!Complete
    <3>2. credit' = credit
      BY <1>1, <2>4
    <3>3. QED
      BY <2>2, <2>4, <3>1, <3>2 DEF LROutstanding
  <2>5. CASE k # l
    <3>1. LR!Complete(k)' = LR!Complete(k) /\ credit'[k] = credit[k]
      BY <1>12, <2>1, <2>5 DEF LR!Complete
    <3>2. QED
      BY <2>2, <3>1 DEF LROutstanding
  <2>6. QED
    BY <2>3, <2>4, <2>5
<1>22. LRCounted'
  BY <1>1, <1>20, <1>21 DEF LRInv, LRCounted
<1>23. ASSUME ~fragments, LRWhole PROVE LRWhole'
  <2>1. ~more /\ ~current[l] /\ d = arrived[l] + 1
    BY <1>0, <1>2, <1>23 DEF LRWhole
  <2>2. \A k \in Links : ~current'[k]
    BY <1>12, <1>13, <1>23, <2>1 DEF LRWhole
  <2>3. ~Queued(DeliveryEvent(<<l, d>>), events)
    <3>1. d \notin 1..arrived[l]
      BY <1>3, <2>1
    <3>2. <<l, d>>[2] = d /\ <<l, d>>[1] = l
      OBVIOUS
    <3>3. QED
      BY <1>5, <3>1, <3>2 DEF LRInv, LRDeliveries
  <2>4. \A y \in Links \X Nat : /\ Queued(DeliveryEvent(y), events') => y \notin settled'
                                /\ Once(DeliveryEvent(y), events')
    BY <1>1, <1>11, <1>19, <1>23, <2>3 DEF LRWhole
  <2>5. QED
    BY <1>1, <1>20, <1>21, <1>23, <2>2, <2>4 DEF LRWhole
<1>24. QED
  BY <1>1, <1>10, <1>18, <1>22, <1>23 DEF LRInv

LEMMA LRStep ==
  ASSUME LRInv, LR!Next
  PROVE  LRInv'
<1>1. CASE LR!ConnectionBound \/ LR!Delivery \/ LR!Ignored
  BY <1>1, LRConnectionBound, LRDelivery, LRIgnored
<1>2. CASE LR!Main \/ LR!Interrupt \/ LR!SignalHandler \/ LR!PeerLeaves
  <2>1. Quiet
    BY <1>2 DEF LR!Main, LR!Interrupt, LR!SignalHandler, LR!PeerLeaves, LR!BeginBatch, LR!EndBatch,
       LR!Inactive, LR!Interrupted, LR!Signal, LR!PeerDrops, Quiet
  <2>2. UNCHANGED <<linkVars, fragments, arrived, settled, msg_count>>
    BY <1>2 DEF LR!Main, LR!Interrupt, LR!SignalHandler, LR!PeerLeaves, LR!PeerDrops,
       LR!linkVars, linkVars, LR!ownVars
  <2>3. QED
    BY <2>1, <2>2, LRQuiet
<1>3. CASE \E l \in LR!Links : LR!PeerCloses(l) \/ \E more, abort \in BOOLEAN : LR!PeerTransfers(l, more, abort)
  BY <1>3, LRPeerCloses, LRPeerTransfers DEF LR!Links, Links, LR!Sessions, Sessions
<1>4. QED
  BY <1>1, <1>2, <1>3 DEF LR!Next, LR!Client

LEMMA LRCounts ==
  ASSUME LRInv
  PROVE  LR!CountsRight
<1>1. LR!Links = Links /\ LR!LinksOf(1) = LinksOf(1)
  BY DEF LR!Links, Links, LR!Sessions, Sessions, LR!LinksOf, LinksOf
<1>2. \A S : LR!Cardinality(S) = Cardinality(S)
  BY DEF LR!Cardinality, Cardinality
<1>3. \A x \in settled : x \in LR!Complete(x[1])
  BY DEF LRInv, LRTypes, LRDeliveries
<1>4. ASSUME events = <<>>, turn # "spin", NEW l \in Links, NEW x \in LR!Complete(l) PROVE x \in settled
  <2>1. x \in Links \X Nat
    BY <1>4, LRComplete DEF LRInv, LRTypes
  <2>2. x \in LR!Complete(x[1])
    BY <1>4, <2>1, LRComplete
  <2>3. ~Queued(DeliveryEvent(x), events)
    BY <1>4 DEF Queued
  <2>4. QED
    BY <1>4, <2>1, <2>2, <2>3 DEF LRInv, LRDeliveries
<1>5. \A l : LR!Outstanding(l) = LROutstanding(l)
  BY <1>2 DEF LR!Outstanding, LROutstanding
<1>6. Cardinality(settled) \in Nat /\ msg_count \in Nat
  BY FS_CardinalityType DEF LRInv, LRCounted
<1>7. QED
  BY <1>1, <1>2, <1>3, <1>4, <1>5, <1>6 DEF LRInv, LRCounted, LRWhole, LR!CountsRight

-----------------------------------------------------------------------------
(***************************************************************************)
(* oom-sender.c                                                            *)
(***************************************************************************)

LEMMA OSEvents ==
  /\ \A e \in OSRaised :
       /\ e.type # "PN_CONNECTION_INIT"
       /\ e.type = "PN_LINK_FLOW" => e.dlv \in Links
       /\ e.type = "PN_DELIVERY" => e.dlv \in Links \X Nat
  /\ \A l \in Links : FlowOn(l) \in OSRaised
  /\ \A x \in Links \X Nat : DeliveryEvent(x) \in OSRaised
<1>1. \A x : /\ DeliveryEvent(x).type = "PN_DELIVERY" /\ DeliveryEvent(x).dlv = x
             /\ FlowOn(x).type = "PN_LINK_FLOW" /\ FlowOn(x).dlv = x
  BY DEF DeliveryEvent, FlowOn, Event
<1>2. \A e \in OSRaised : \/ \E x \in Links \X Nat : e = DeliveryEvent(x)
                          \/ \E l \in Links : e = FlowOn(l)
  BY DEF OSRaised
<1>3. /\ \A l \in Links : FlowOn(l) \in OSRaised
      /\ \A x \in Links \X Nat : DeliveryEvent(x) \in OSRaised
  BY DEF OSRaised
<1>4. QED
  BY <1>1, <1>2, <1>3

\* A product grows with a factor.
LEMMA Grows ==
  ASSUME NEW a \in Nat, NEW b \in Nat, NEW c \in Nat, b <= c
  PROVE  a * b \in Nat /\ a * b <= a * c
<1>1. PICK d \in Nat : c = b + d
  <2>1. c - b \in Nat /\ c = b + (c - b)
    OBVIOUS
  <2>2. QED
    BY <2>1
<1>2. a * b \in Nat /\ a * d \in Nat
  OBVIOUS
<1>3. a * c = a * b + a * d
  BY <1>1
<1>4. QED
  BY <1>2, <1>3

\* What is in the buffers: a natural number that follows each of them.
LEMMA OSOutgoing ==
  ASSUME link_limit \in 1..MaxLinks, buffered \in [Links -> Nat]
  PROVE  /\ OS!OutgoingBytes \in Nat
         /\ \A l \in Links : buffered[l] <= OS!OutgoingBytes
         /\ \A l \in Links, v \in Nat : buffered' = [buffered EXCEPT ![l] = v] =>
              OS!OutgoingBytes' = OS!OutgoingBytes - buffered[l] + v
         /\ (\A l \in Links : buffered[l] = 0) => OS!OutgoingBytes = 0
<1>1. OS!OutgoingBytes = SumFunction(buffered) /\ OS!OutgoingBytes' = SumFunction(buffered')
  BY DEF OS!OutgoingBytes, OS!SumFunction, OS!SumFunctionOnSet, OS!FoldFunctionOnSet, OS!MapThenFoldSet,
         SumFunction, SumFunctionOnSet, FoldFunctionOnSet, MapThenFoldSet
<1>2. IsFiniteSet(Links)
  BY ProactorLinksAssumption, LinkSets DEF Sessions
<1>3. SumFunction(buffered) \in Nat
  BY <1>2, SumType
<1>4. \A l \in Links : buffered[l] <= SumFunction(buffered)
  BY <1>2, SumAtLeast
<1>5. \A l \in Links, v \in Nat :
        SumFunction([buffered EXCEPT ![l] = v]) = SumFunction(buffered) - buffered[l] + v
  BY <1>2, SumExcept
<1>6. (\A l \in Links : buffered[l] = 0) => SumFunction(buffered) = 0
  BY <1>2, SumZero
<1>7. QED
  BY <1>1, <1>3, <1>4, <1>5, <1>6

LEMMA OSInitially ==
  ASSUME OS!Init
  PROVE  OSInv
<1>1. /\ turn = "wait" /\ conn = "init" /\ events = <<ConnectionInitEvent>>
      /\ link_limit \in 1..MaxLinks
      /\ link = [l \in Links |-> "none"] /\ credit = [l \in Links |-> 0]
      /\ current = [l \in Links |-> FALSE] /\ tag = [l \in Links |-> 0]
      /\ bytes_sent = [l \in Links |-> 0] /\ buffered = [l \in Links |-> 0]
      /\ window = 0 /\ outcome = [l \in Links |-> "none"]
  BY DEF OS!Init, OS!LoopInit, OS!LinksInit, OS!ConnectionInitEvent, ConnectionInitEvent,
         OS!Event, Event, OS!Links, Links, OS!Sessions, Sessions
<1>2. LinkTypes /\ Queue(OSRaised)
  BY <1>1 DEF LinkTypes, Queue, LinkStates
<1>3. buffered \in [Links -> Nat]
  BY <1>1
<1>4. tag \in [Links -> Nat] /\ bytes_sent \in [Links -> 0..Body] /\ window \in 0..MaxWindow
  BY <1>1, ProactorClientsAssumption
<1>5. outcome \in [Links -> {"none", "received", "final"}]
  BY <1>1
<1>6. OSTypes
  BY <1>2, <1>3, <1>4, <1>5 DEF OSTypes
<1>7. OSUnused
  BY <1>1 DEF OSUnused
<1>8. OS!OutgoingBytes = 0
  BY <1>1, <1>3, OSOutgoing
<1>9. 0 <= Frame * MaxWindow + Header * 0
  <2>1. Frame * 0 \in Nat /\ Frame * 0 <= Frame * MaxWindow
    BY Grows, ProactorClientsAssumption
  <2>2. QED
    BY <2>1, ProactorClientsAssumption
<1>10. OSBound({})
  BY <1>8, <1>9, FS_EmptySet DEF OSBound
<1>11. QED
  BY <1>2, <1>6, <1>7, <1>10 DEF OSInv

\* Steps that leave the links and the buffers as they are.
LEMMA OSQuiet ==
  ASSUME OSInv, turn' \in {"wait", "batch", "exit", "failed", "spin"}, Queue(OSRaised)', window' \in 0..MaxWindow,
         UNCHANGED <<link_limit, link, credit, current, tag, bytes_sent, buffered, outcome>>
  PROVE  OSInv'
<1>1. OSTypes'
  BY DEF OSInv, OSTypes, LinkTypes
<1>2. LinksOf(1)' = LinksOf(1) /\ OS!OutgoingBytes' = OS!OutgoingBytes /\ \A l : Unwritten(l)' = Unwritten(l)
  BY DEF LinksOf, OS!OutgoingBytes, OS!SumFunction, OS!SumFunctionOnSet, OS!FoldFunctionOnSet,
         OS!MapThenFoldSet, Unwritten
<1>3. OSUnused'
  BY <1>2 DEF OSInv, OSUnused
<1>4. PICK P \in SUBSET LinksOf(1) : OSBound(P)
  BY DEF OSInv
<1>5. OSBound(P)'
  BY <1>2, <1>4 DEF OSBound
<1>6. QED
  BY <1>1, <1>2, <1>3, <1>5 DEF OSInv

LEMMA OSConnectionInit ==
  ASSUME OSInv, OS!ConnectionInit
  PROVE  OSInv'
<1>1. /\ events # <<>> /\ Head(events).type \in {"PN_CONNECTION_INIT"}
      /\ events' = Tail(events) \o <<>> /\ conn' = "open"
      /\ link' = [l \in Links |-> IF l \in LinksOf(1) THEN "open" ELSE link[l]]
      /\ UNCHANGED <<turn, link_limit, credit, current, tag, bytes_sent, buffered, window, outcome>>
  BY DEF OS!ConnectionInit, OS!Handles, OS!OpenLinks, OS!Links, Links, OS!Sessions, Sessions,
         OS!LinksOf, LinksOf, OS!ownVars
<1>2. events' = <<>>
  BY <1>1, FirstEvent, OSEvents DEF OSInv
<1>3. Queue(OSRaised)'
  <2>1. <<>> \in Seq(OSRaised)
    OBVIOUS
  <2>2. QED
    BY <1>1, <1>2, <2>1 DEF Queue
<1>4. OSTypes'
  BY <1>1 DEF OSInv, OSTypes, LinkTypes, LinkStates
<1>5. LinksOf(1)' = LinksOf(1) /\ OS!OutgoingBytes' = OS!OutgoingBytes /\ \A l : Unwritten(l)' = Unwritten(l)
  BY <1>1 DEF LinksOf, OS!OutgoingBytes, OS!SumFunction, OS!SumFunctionOnSet, OS!FoldFunctionOnSet,
     OS!MapThenFoldSet, Unwritten
<1>6. OSUnused'
  BY <1>1, <1>5 DEF OSInv, OSUnused
<1>7. PICK P \in SUBSET LinksOf(1) : OSBound(P)
  BY DEF OSInv
<1>8. OSBound(P)'
  BY <1>5, <1>7 DEF OSBound
<1>9. QED
  BY <1>3, <1>4, <1>5, <1>6, <1>8 DEF OSInv

\* The body bytes sent now: no more than are left of the body, than a batch
\* or, if any, than the window can take.
LEMMA OSToSend ==
  ASSUME OSTypes, NEW done \in 0..Body
  PROVE  /\ OS!ToSend(done) \in Nat /\ OS!ToSend(done) <= BodyBatch /\ done + OS!ToSend(done) <= Body
         /\ OS!ToSend(done) > 0 => OS!OutgoingBytes + OS!ToSend(done) <= Frame * MaxWindow
<1>1. PICK out \in Nat : out = OS!OutgoingBytes
  BY OSOutgoing DEF OSTypes, LinkTypes
<1>2. window \in Nat /\ window <= MaxWindow
  BY ProactorClientsAssumption DEF OSTypes
<1>3. PICK cap \in Nat : cap = Frame * window
  BY <1>2, Grows, ProactorClientsAssumption
<1>4. PICK full \in Nat : full = Frame * MaxWindow
  BY <1>2, Grows, ProactorClientsAssumption
<1>5. cap <= full
  BY <1>2, <1>3, <1>4, Grows, ProactorClientsAssumption
<1>6. OS!ToSend(done) = IF cap > out THEN OS!Least(OS!Least(BodyBatch, Body - done), cap - out) ELSE 0
  BY <1>1, <1>3 DEF OS!ToSend, OS!Capacity
<1>7. PICK n : n = OS!ToSend(done)
  OBVIOUS
<1>8. n \in Nat /\ n <= BodyBatch /\ done + n <= Body /\ (n > 0 => out + n <= cap)
  BY <1>6, <1>7, ProactorClientsAssumption DEF OS!Least
<1>9. n > 0 => out + n <= full
  BY <1>5, <1>8
<1>10. QED
  BY <1>1, <1>4, <1>7, <1>8, <1>9

\* A message is begun with its header and what the window takes of its body;
\* or more of the body is sent; or, all of it being sent, the link advances.
LEMMA OSSends ==
  ASSUME OSInv, Queue(OSRaised)', UNCHANGED <<turn, link_limit, link, window>>,
         NEW l \in Links, NEW starts \in BOOLEAN, starts = (~current[l] /\ credit[l] > 0),
         current[l] \/ credit[l] > 0,
         NEW done \in 0..Body, done = IF starts THEN 0 ELSE bytes_sent[l],
         NEW n \in Nat, n = OS!ToSend(done),
         tag' = IF starts THEN [tag EXCEPT ![l] = @ + 1] ELSE tag,
         outcome' = IF starts THEN [outcome EXCEPT ![l] = "none"] ELSE outcome,
         bytes_sent' = [bytes_sent EXCEPT ![l] = done + n],
         buffered' = [buffered EXCEPT ![l] = @ + n + (IF starts THEN Header ELSE 0)],
         current' = [current EXCEPT ![l] = done < Body],
         credit' = IF done = Body THEN [credit EXCEPT ![l] = @ - 1] ELSE credit
  PROVE  OSInv'
<1>1. /\ link_limit \in 1..MaxLinks /\ link \in [Links -> LinkStates] /\ credit \in [Links -> Int]
      /\ current \in [Links -> BOOLEAN] /\ tag \in [Links -> Nat] /\ bytes_sent \in [Links -> 0..Body]
      /\ buffered \in [Links -> Nat] /\ outcome \in [Links -> {"none", "received", "final"}]
  BY DEF OSInv, OSTypes, LinkTypes
<1>2. /\ Header \in Nat /\ Body \in Nat /\ BodyBatch \in Nat /\ BodyBatch < Body /\ Frame \in Nat /\ MaxWindow \in Nat
  BY ProactorClientsAssumption
<1>3. n <= BodyBatch /\ done + n <= Body /\ (n > 0 => OS!OutgoingBytes + n <= Frame * MaxWindow)
  BY OSToSend DEF OSInv
<1>4. l \in LinksOf(1)
  <2>1. l \notin LinksOf(1) => ~current[l] /\ credit[l] <= 0
    BY DEF OSInv, OSUnused
  <2>2. credit[l] \in Int
    BY <1>1
  <2>3. QED
    BY <2>1, <2>2
<1>5. LinksOf(1)' = LinksOf(1) /\ LinksOf(1) \subseteq Links
  <2>1. 1 \in Sessions
    BY ProactorLinksAssumption DEF Sessions
  <2>2. LinksOf(1) \subseteq Links
    BY <1>1, <2>1, LinkSets
  <2>3. QED
    BY <2>2 DEF LinksOf
<1>6. OSTypes'
  <2>1. tag' \in [Links -> Nat]
    BY <1>1
  <2>2. outcome' \in [Links -> {"none", "received", "final"}]
    BY <1>1
  <2>3. bytes_sent' \in [Links -> 0..Body]
    <3>1. done + n \in 0..Body
      BY <1>2, <1>3
    <3>2. QED
      BY <1>1, <3>1
  <2>4. buffered' \in [Links -> Nat]
    BY <1>1, <1>2
  <2>5. current' \in [Links -> BOOLEAN]
    BY <1>1
  <2>6. credit' \in [Links -> Int]
    BY <1>1
  <2>7. QED
    BY <1>1, <2>1, <2>2, <2>3, <2>4, <2>5, <2>6 DEF OSInv, OSTypes, LinkTypes
<1>7. OSUnused'
  BY <1>1, <1>4, <1>5 DEF OSInv, OSUnused
<1>8. PICK P \in SUBSET LinksOf(1) : OSBound(P)
  BY DEF OSInv
<1>9. PICK out \in Nat : out = OS!OutgoingBytes
  BY <1>1, OSOutgoing
<1>10. PICK full \in Nat : full = Frame * MaxWindow
  BY <1>2, Grows
<1>11. OS!OutgoingBytes' = out + n + (IF starts THEN Header ELSE 0)
  <2>1. PICK v \in Nat : v = buffered[l] + n + (IF starts THEN Header ELSE 0)
    BY <1>1, <1>2
  <2>2. OS!OutgoingBytes' = out - buffered[l] + v
    BY <1>1, <1>9, <2>1, OSOutgoing
  <2>3. buffered[l] \in Nat
    BY <1>1
  <2>4. QED
    BY <1>2, <2>1, <2>2, <2>3
<1>12. \A k \in Links : k # l => Unwritten(k)' = Unwritten(k)
  BY <1>1 DEF Unwritten
<1>13. starts => Unwritten(l)'
  <2>1. ASSUME starts PROVE Unwritten(l)'
    <3>1. done = 0 /\ done < Body
      BY <1>2, <2>1
    <3>2. bytes_sent'[l] = n /\ outcome'[l] = "none" /\ buffered'[l] = buffered[l] + n + Header
      BY <1>1, <2>1, <3>1
    <3>3. current'[l]
      BY <1>1, <3>1
    <3>4. n < Body /\ buffered[l] + n + Header >= n + Header
      BY <1>1, <1>2, <1>3
    <3>5. QED
      BY <3>2, <3>3, <3>4 DEF Unwritten
  <2>2. QED
    BY <2>1
<1>14. CASE starts /\ n = 0
  <2>1. l \notin P
    BY <1>8, <1>14 DEF OSBound, Unwritten
  <2>2. P \in SUBSET Links /\ Cardinality(P \union {l}) = Cardinality(P) + 1 /\ Cardinality(P) \in Nat
    BY <1>1, <1>5, <2>1, LinkSubset
  <2>3. PICK c \in Nat : c = Cardinality(P)
    BY <2>2
  <2>4. out <= full + Header * c
    BY <1>8, <1>9, <1>10, <2>3 DEF OSBound
  <2>5. PICK h \in Nat : h = Header * c
    BY <1>2
  <2>6. Header * (c + 1) = h + Header
    BY <1>2, <2>5
  <2>7. OS!OutgoingBytes' <= full + Header * (c + 1)
    BY <1>2, <1>11, <1>14, <2>4, <2>5, <2>6
  <2>8. OSBound(P \union {l})'
    BY <1>4, <1>5, <1>8, <1>10, <1>12, <1>13, <1>14, <2>2, <2>3, <2>7 DEF OSBound
  <2>9. QED
    BY <1>4, <1>5, <1>6, <1>7, <2>8 DEF OSInv
<1>15. CASE starts /\ n > 0
  <2>1. OS!OutgoingBytes' <= full + Header * 1
    BY <1>2, <1>3, <1>9, <1>10, <1>11, <1>15
  <2>2. Cardinality({l}) = 1
    BY FS_Singleton
  <2>3. OSBound({l})'
    BY <1>4, <1>5, <1>10, <1>13, <1>15, <2>1, <2>2 DEF OSBound
  <2>4. QED
    BY <1>4, <1>5, <1>6, <1>7, <2>3 DEF OSInv
<1>16. CASE ~starts /\ n > 0
  <2>1. OS!OutgoingBytes' <= full + Header * 0
    BY <1>2, <1>3, <1>9, <1>10, <1>11, <1>16
  <2>2. OSBound({})'
    BY <1>10, <2>1, FS_EmptySet DEF OSBound
  <2>3. QED
    BY <1>5, <1>6, <1>7, <2>2 DEF OSInv
<1>17. CASE ~starts /\ n = 0
  <2>1. done = bytes_sent[l] /\ bytes_sent' = bytes_sent /\ buffered' = buffered /\ outcome' = outcome
    BY <1>1, <1>17
  <2>2. OS!OutgoingBytes' = out
    BY <1>9, <1>11, <1>17
  <2>3. \A k \in P : Unwritten(k)'
    <3>1. ASSUME NEW k \in P PROVE Unwritten(k)'
      <4>1. Unwritten(k) /\ k \in Links
        BY <1>5, <1>8 DEF OSBound
      <4>2. current'[k]
        <5>1. CASE k = l
          <6>1. done < Body
            BY <2>1, <4>1, <5>1 DEF Unwritten
          <6>2. QED
            BY <1>1, <5>1, <6>1
        <5>2. CASE k # l
          BY <1>1, <4>1, <5>2 DEF Unwritten
        <5>3. QED
          BY <5>1, <5>2
      <4>3. QED
        BY <2>1, <4>1, <4>2 DEF Unwritten
    <3>2. QED
      BY <3>1
  <2>4. OSBound(P)'
    BY <1>5, <1>8, <1>9, <2>2, <2>3 DEF OSBound
  <2>5. QED
    BY <1>5, <1>6, <1>7, <2>4 DEF OSInv
<1>18. QED
  BY <1>14, <1>15, <1>16, <1>17

LEMMA OSFlowEvent ==
  ASSUME OSInv, OS!FlowEvent
  PROVE  OSInv'
<1>0. PICK l : l = Head(events).dlv
  OBVIOUS
<1>1. /\ events # <<>> /\ Head(events).type \in {"PN_LINK_FLOW"} /\ events' = Tail(events) \o <<>>
      /\ UNCHANGED <<conn, link_limit, link, window>>
  BY DEF OS!FlowEvent, OS!Handles
<1>2. l \in Links
  BY <1>0, <1>1, LaterEvent, OSEvents DEF OSInv
<1>3. Queue(OSRaised)'
  BY <1>1, PopQueue DEF OSInv
<1>4. PICK starts : starts = (~current[l] /\ credit[l] > 0)
  OBVIOUS
<1>5. PICK done : done = IF starts THEN 0 ELSE bytes_sent[l]
  OBVIOUS
<1>6. PICK n : n = OS!ToSend(done)
  OBVIOUS
<1>7. starts \in BOOLEAN /\ done \in 0..Body
  BY <1>2, <1>4, <1>5, ProactorClientsAssumption DEF OSInv, OSTypes
<1>8. n \in Nat
  BY <1>6, <1>7, OSToSend DEF OSInv
<1>9. \/ /\ turn' = "failed"
         /\ UNCHANGED <<tag, bytes_sent, buffered, outcome, current, credit>>
      \/ /\ current[l] \/ credit[l] > 0
         /\ tag' = IF starts THEN [tag EXCEPT ![l] = @ + 1] ELSE tag
         /\ outcome' = IF starts THEN [outcome EXCEPT ![l] = "none"] ELSE outcome
         /\ bytes_sent' = [bytes_sent EXCEPT ![l] = done + n]
         /\ buffered' = [buffered EXCEPT ![l] = @ + n + (IF starts THEN Header ELSE 0)]
         /\ current' = [current EXCEPT ![l] = done < Body]
         /\ credit' = IF done = Body THEN [credit EXCEPT ![l] = @ - 1] ELSE credit
         /\ UNCHANGED turn
  BY <1>0, <1>4, <1>5, <1>6, Zenon DEF OS!FlowEvent
<1>10. CASE turn' = "failed" /\ UNCHANGED <<tag, bytes_sent, buffered, outcome, current, credit>>
  <2>1. window' \in 0..MaxWindow
    BY <1>1 DEF OSInv, OSTypes
  <2>2. QED
    BY <1>1, <1>3, <1>10, <2>1, OSQuiet
<1>11. CASE /\ current[l] \/ credit[l] > 0
            /\ tag' = IF starts THEN [tag EXCEPT ![l] = @ + 1] ELSE tag
            /\ outcome' = IF starts THEN [outcome EXCEPT ![l] = "none"] ELSE outcome
            /\ bytes_sent' = [bytes_sent EXCEPT ![l] = done + n]
            /\ buffered' = [buffered EXCEPT ![l] = @ + n + (IF starts THEN Header ELSE 0)]
            /\ current' = [current EXCEPT ![l] = done < Body]
            /\ credit' = IF done = Body THEN [credit EXCEPT ![l] = @ - 1] ELSE credit
            /\ UNCHANGED turn
  BY <1>1, <1>2, <1>3, <1>4, <1>5, <1>6, <1>7, <1>8, <1>11, OSSends, Zenon
<1>12. QED
  BY <1>9, <1>10, <1>11

\* An outcome settles a delivery: not one whose data is all unwritten.
LEMMA OSDelivery ==
  ASSUME OSInv, OS!Delivery
  PROVE  OSInv'
<1>0. PICK l : l = Head(events).dlv[1]
  OBVIOUS
<1>1. /\ events # <<>> /\ Head(events).type \in {"PN_DELIVERY"} /\ events' = Tail(events) \o <<>>
      /\ UNCHANGED <<turn, conn, link_limit, link, tag, bytes_sent, buffered, window, outcome>>
      /\ \/ UNCHANGED <<current, credit>>
         \/ /\ outcome[l] = "final" /\ current[l]
            /\ current' = [current EXCEPT ![l] = FALSE] /\ credit' = [credit EXCEPT ![l] = @ - 1]
  BY <1>0 DEF OS!Delivery, OS!Handles, OS!ownVars
<1>2. l \in Links
  <2>1. Head(events).dlv \in Links \X Nat
    BY <1>1, LaterEvent, OSEvents DEF OSInv
  <2>2. QED
    BY <1>0, <2>1
<1>3. Queue(OSRaised)'
  BY <1>1, PopQueue DEF OSInv
<1>4. /\ credit \in [Links -> Int] /\ current \in [Links -> BOOLEAN]
      /\ turn \in {"wait", "batch", "exit", "failed", "spin"} /\ window \in 0..MaxWindow
  BY DEF OSInv, OSTypes, LinkTypes
<1>5. CASE UNCHANGED <<current, credit>>
  BY <1>1, <1>3, <1>4, <1>5, OSQuiet
<1>6. CASE /\ outcome[l] = "final" /\ current[l]
           /\ current' = [current EXCEPT ![l] = FALSE] /\ credit' = [credit EXCEPT ![l] = @ - 1]
  <2>1. current' \in [Links -> BOOLEAN]
    BY <1>4, <1>6
  <2>2. credit' \in [Links -> Int]
    BY <1>2, <1>4, <1>6
  <2>3. OSTypes'
    BY <1>1, <2>1, <2>2 DEF OSInv, OSTypes, LinkTypes
  <2>4. LinksOf(1)' = LinksOf(1) /\ OS!OutgoingBytes' = OS!OutgoingBytes
    BY <1>1 DEF LinksOf, OS!OutgoingBytes, OS!SumFunction, OS!SumFunctionOnSet, OS!FoldFunctionOnSet,
       OS!MapThenFoldSet
  <2>5. l \in LinksOf(1)
    BY <1>2, <1>6 DEF OSInv, OSUnused
  <2>6. OSUnused'
    BY <1>1, <1>4, <1>6, <2>4, <2>5 DEF OSInv, OSUnused
  <2>7. PICK P \in SUBSET LinksOf(1) : OSBound(P)
    BY DEF OSInv
  <2>8. 1 \in Sessions /\ link_limit \in 1..MaxLinks
    BY ProactorLinksAssumption DEF Sessions, OSInv, OSTypes, LinkTypes
  <2>9. LinksOf(1) \subseteq Links
    BY <2>8, LinkSets
  <2>10. \A k \in P : Unwritten(k)'
    <3>1. \A k \in P : k \in Links /\ k # l
      BY <1>6, <2>7, <2>9 DEF OSBound, Unwritten
    <3>2. \A k \in P : current'[k] = current[k]
      BY <1>4, <1>6, <3>1
    <3>3. QED
      BY <1>1, <2>7, <3>2 DEF OSBound, Unwritten
  <2>11. OSBound(P)'
    BY <2>4, <2>7, <2>10 DEF OSBound
  <2>12. QED
    BY <1>3, <2>3, <2>4, <2>6, <2>11 DEF OSInv
<1>7. QED
  BY <1>1, <1>5, <1>6

\* A frame of a link's data is written: its header, if it was beyond the
\* window, is not any more.
LEMMA OSWrite ==
  ASSUME OSInv, NEW l \in Links, OS!Write(l)
  PROVE  OSInv'
<1>1. /\ conn = "open" /\ events' = Put(events, FlowOn(l)) /\ buffered[l] > 0 /\ window > 0
      /\ buffered' = [buffered EXCEPT ![l] = @ - OS!Least(@, Frame)] /\ window' = window - 1
      /\ UNCHANGED <<turn, conn, link_limit, link, credit, current, tag, bytes_sent, outcome>>
  BY DEF OS!Write, OS!Reads, OS!Put, Put, OS!FlowOn, FlowOn, OS!Event, Event, OS!linkVars
<1>2. Queue(OSRaised)'
  BY <1>1, ReadQueue, OSEvents DEF OSInv
<1>3. /\ buffered \in [Links -> Nat] /\ link_limit \in 1..MaxLinks /\ bytes_sent \in [Links -> 0..Body]
      /\ window \in 0..MaxWindow
  BY DEF OSInv, OSTypes, LinkTypes
<1>4. /\ Header \in Nat /\ Frame \in Nat /\ Header <= Frame /\ MaxWindow \in Nat /\ Body \in Nat
  BY ProactorClientsAssumption
<1>5. PICK w \in Nat : w = OS!Least(buffered[l], Frame) /\ w <= buffered[l] /\ (buffered[l] >= Header => w >= Header)
  BY <1>3, <1>4 DEF OS!Least
<1>6. PICK v \in Nat : v = buffered[l] - w
  BY <1>3, <1>5
<1>7. buffered' = [buffered EXCEPT ![l] = v]
  BY <1>1, <1>5, <1>6
<1>8. buffered' \in [Links -> Nat] /\ window' \in 0..MaxWindow
  BY <1>1, <1>3, <1>4, <1>6, <1>7
<1>9. OSTypes'
  BY <1>1, <1>8 DEF OSInv, OSTypes, LinkTypes
<1>10. LinksOf(1)' = LinksOf(1)
  BY <1>1 DEF LinksOf
<1>11. OSUnused'
  BY <1>1, <1>10 DEF OSInv, OSUnused
<1>12. PICK P \in SUBSET LinksOf(1) : OSBound(P)
  BY DEF OSInv
<1>13. PICK out \in Nat : out = OS!OutgoingBytes
  BY <1>3, OSOutgoing
<1>14. OS!OutgoingBytes' = out - w
  <2>1. OS!OutgoingBytes' = out - buffered[l] + v
    BY <1>3, <1>6, <1>7, <1>13, OSOutgoing
  <2>2. buffered[l] \in Nat
    BY <1>3
  <2>3. QED
    BY <1>5, <1>6, <2>1, <2>2
<1>15. LinksOf(1) \subseteq Links
  <2>1. 1 \in Sessions
    BY ProactorLinksAssumption DEF Sessions
  <2>2. QED
    BY <1>3, <2>1, LinkSets
<1>16. \A k \in P \ {l} : Unwritten(k)'
  BY <1>1, <1>3, <1>7, <1>12, <1>15 DEF OSBound, Unwritten
<1>17. P \in SUBSET Links
  BY <1>15
<1>18. PICK full \in Nat : full = Frame * MaxWindow
  BY <1>4, Grows
<1>19. PICK c \in Nat : c = Cardinality(P)
  BY <1>3, <1>17, LinkSubset
<1>20. out <= full + Header * c
  BY <1>12, <1>13, <1>18, <1>19 DEF OSBound
<1>21. PICK h \in Nat : h = Header * c
  BY <1>4
<1>22. CASE l \in P
  <2>1. buffered[l] >= Header
    BY <1>3, <1>4, <1>12, <1>15, <1>22 DEF OSBound, Unwritten
  <2>2. Cardinality(P \ {l}) = c - 1
    BY <1>3, <1>17, <1>19, <1>22, LinkSubset
  <2>3. Header * (c - 1) = h - Header
    BY <1>4, <1>21
  <2>4. OS!OutgoingBytes' <= full + Header * (c - 1)
    BY <1>4, <1>5, <1>14, <1>20, <1>21, <2>1, <2>3
  <2>5. OSBound(P \ {l})'
    BY <1>10, <1>12, <1>16, <1>18, <2>2, <2>4 DEF OSBound
  <2>6. QED
    BY <1>2, <1>9, <1>10, <1>11, <2>5 DEF OSInv
<1>23. CASE l \notin P
  <2>1. OS!OutgoingBytes' <= full + Header * c
    BY <1>5, <1>14, <1>20, <1>21
  <2>2. OSBound(P)'
    BY <1>10, <1>12, <1>16, <1>18, <1>19, <1>23, <2>1 DEF OSBound
  <2>3. QED
    BY <1>2, <1>9, <1>10, <1>11, <2>2 DEF OSInv
<1>24. QED
  BY <1>22, <1>23

LEMMA OSPeerFlow ==
  ASSUME OSInv, NEW l \in Links, NEW n \in 0..MaxCredit, OS!PeerFlow(l, n)
  PROVE  OSInv'
<1>1. /\ conn = "open" /\ events' = Put(events, FlowOn(l)) /\ link[l] \in {"open", "closing"}
      /\ credit' = [credit EXCEPT ![l] = @ + n] /\ window' = MaxWindow
      /\ UNCHANGED <<turn, conn, link_limit, link, current, tag, bytes_sent, buffered, outcome>>
  BY DEF OS!PeerFlow, OS!PeerCredit, OS!Reads, OS!Put, Put, OS!FlowOn, FlowOn, OS!Event, Event
<1>2. Queue(OSRaised)'
  BY <1>1, ReadQueue, OSEvents DEF OSInv
<1>3. credit \in [Links -> Int] /\ MaxCredit \in Nat /\ MaxWindow \in Nat
  BY ProactorLinksAssumption, ProactorClientsAssumption DEF OSInv, OSTypes, LinkTypes
<1>4. credit' \in [Links -> Int] /\ window' \in 0..MaxWindow
  BY <1>1, <1>3
<1>5. OSTypes'
  BY <1>1, <1>4 DEF OSInv, OSTypes, LinkTypes
<1>6. LinksOf(1)' = LinksOf(1) /\ OS!OutgoingBytes' = OS!OutgoingBytes /\ \A k : Unwritten(k)' = Unwritten(k)
  BY <1>1 DEF LinksOf, OS!OutgoingBytes, OS!SumFunction, OS!SumFunctionOnSet, OS!FoldFunctionOnSet,
     OS!MapThenFoldSet, Unwritten
<1>7. OSUnused'
  BY <1>1, <1>3, <1>6 DEF OSInv, OSUnused
<1>8. PICK P \in SUBSET LinksOf(1) : OSBound(P)
  BY DEF OSInv
<1>9. OSBound(P)'
  BY <1>6, <1>8 DEF OSBound
<1>10. QED
  BY <1>2, <1>5, <1>6, <1>7, <1>9 DEF OSInv

LEMMA OSPeerDisposition ==
  ASSUME OSInv, NEW l \in Links, NEW state \in {"received", "final"}, OS!PeerDisposition(l, state)
  PROVE  OSInv'
<1>1. /\ conn = "open" /\ events' = Put(events, DeliveryEvent(<<l, tag[l]>>))
      /\ buffered[l] < bytes_sent[l] + Header
      /\ outcome' = [outcome EXCEPT ![l] = state]
      /\ UNCHANGED <<turn, conn, link_limit, link, credit, current, tag, bytes_sent, buffered, window>>
  BY DEF OS!PeerDisposition, OS!Reads, OS!Put, Put, DeliveryEvent, OS!Event, Event, OS!linkVars
<1>2. /\ tag \in [Links -> Nat] /\ bytes_sent \in [Links -> 0..Body] /\ buffered \in [Links -> Nat]
      /\ outcome \in [Links -> {"none", "received", "final"}]
      /\ Header \in Nat /\ Body \in Nat
  BY ProactorClientsAssumption DEF OSInv, OSTypes
<1>3. <<l, tag[l]>> \in Links \X Nat
  BY <1>2
<1>4. Queue(OSRaised)'
  BY <1>1, <1>3, ReadQueue, OSEvents DEF OSInv
<1>5. OSTypes'
  BY <1>1, <1>2 DEF OSInv, OSTypes, LinkTypes
<1>6. LinksOf(1)' = LinksOf(1) /\ OS!OutgoingBytes' = OS!OutgoingBytes
  BY <1>1 DEF LinksOf, OS!OutgoingBytes, OS!SumFunction, OS!SumFunctionOnSet, OS!FoldFunctionOnSet,
     OS!MapThenFoldSet
<1>7. OSUnused'
  BY <1>1, <1>6 DEF OSInv, OSUnused
<1>8. PICK P \in SUBSET LinksOf(1) : OSBound(P)
  BY DEF OSInv
<1>9. l \notin P
  <2>1. ~(buffered[l] >= bytes_sent[l] + Header)
    BY <1>1, <1>2
  <2>2. QED
    BY <1>8, <2>1 DEF OSBound, Unwritten
<1>10. \A k \in P : Unwritten(k)'
  BY <1>1, <1>2, <1>8, <1>9 DEF OSBound, Unwritten
<1>11. OSBound(P)'
  BY <1>6, <1>8, <1>10 DEF OSBound
<1>12. QED
  BY <1>4, <1>5, <1>6, <1>7, <1>11 DEF OSInv

LEMMA OSStep ==
  ASSUME OSInv, OS!Next
  PROVE  OSInv'
<1>1. CASE OS!ConnectionInit \/ OS!FlowEvent \/ OS!Delivery
  BY <1>1, OSConnectionInit, OSFlowEvent, OSDelivery
<1>2. CASE OS!Main \/ OS!Interrupt \/ OS!SignalHandler \/ OS!PeerLeaves \/ OS!PeerWindow
  <2>1. /\ UNCHANGED <<events, link_limit, link, credit, current, tag, bytes_sent, buffered, outcome>>
        /\ conn' = conn \/ (conn = "open" /\ conn' = "closed")
        /\ turn' = turn \/ turn' \in {"wait", "batch", "exit", "failed", "spin"}
        /\ window' = window \/ window' = MaxWindow
    BY <1>2 DEF OS!Main, OS!Interrupt, OS!SignalHandler, OS!PeerLeaves, OS!PeerWindow, OS!BeginBatch,
       OS!EndBatch, OS!Inactive, OS!Interrupted, OS!Signal, OS!PeerDrops, OS!linkVars, OS!loopVars, OS!ownVars
  <2>2. Queue(OSRaised)'
    BY <2>1 DEF OSInv, Queue
  <2>3. window' \in 0..MaxWindow /\ turn' \in {"wait", "batch", "exit", "failed", "spin"}
    BY <2>1, ProactorClientsAssumption DEF OSInv, OSTypes, LinkTypes
  <2>4. QED
    BY <2>1, <2>2, <2>3, OSQuiet
<1>3. CASE \E l \in OS!Links :
             \/ OS!Write(l) \/ \E n \in 0..MaxCredit : OS!PeerFlow(l, n)
             \/ \E state \in {"received", "final"} : OS!PeerDisposition(l, state)
  BY <1>3, OSWrite, OSPeerFlow, OSPeerDisposition DEF OS!Links, Links, OS!Sessions, Sessions
<1>4. QED
  BY <1>1, <1>2, <1>3 DEF OS!Next, OS!Client

LEMMA OSWithinWindow ==
  ASSUME OSInv
  PROVE  OS!WithinWindow
<1>1. PICK P \in SUBSET LinksOf(1) : OSBound(P)
  BY DEF OSInv
<1>2. link_limit \in 1..MaxLinks /\ buffered \in [Links -> Nat] /\ link_limit \in Nat
  BY ProactorLinksAssumption DEF OSInv, OSTypes, LinkTypes
<1>3. 1 \in Sessions
  BY ProactorLinksAssumption DEF Sessions
<1>4. LinksOf(1) \subseteq Links
  BY <1>2, <1>3, LinkSets
<1>5. PICK c \in Nat : c = Cardinality(P)
  BY <1>2, <1>4, LinkSubset
<1>6. c <= link_limit
  BY <1>2, <1>3, <1>5, LinkAll
<1>7. Header * c \in Nat /\ Header * c <= Header * link_limit
  BY <1>2, <1>6, Grows, ProactorClientsAssumption
<1>8. PICK full \in Nat : full = Frame * MaxWindow
  BY Grows, ProactorClientsAssumption
<1>9. PICK m \in Nat : m = Header * link_limit
  BY <1>2, Grows, ProactorClientsAssumption
<1>10. OS!OutgoingBytes \in Nat
  BY <1>2, OSOutgoing
<1>11. OS!OutgoingBytes <= full + Header * c
  BY <1>1, <1>5, <1>8 DEF OSBound
<1>12. OS!OutgoingBytes <= full + m
  BY <1>7, <1>9, <1>10, <1>11
<1>13. QED
  BY <1>8, <1>9, <1>12 DEF OS!WithinWindow

-----------------------------------------------------------------------------
(***************************************************************************)
(* session-loader.c                                                        *)
(***************************************************************************)

LEMMA SLKinds ==
  \A x : /\ SL!LocalOpen(x).type = "PN_SESSION_LOCAL_OPEN" /\ SL!LocalOpen(x).dlv = x
         /\ SL!LocalClose(x).type = "PN_SESSION_LOCAL_CLOSE" /\ SL!LocalClose(x).dlv = x
         /\ RemoteOpen(x).type = "PN_SESSION_REMOTE_OPEN" /\ RemoteOpen(x).dlv = x
         /\ RemoteClose(x).type = "PN_SESSION_REMOTE_CLOSE" /\ RemoteClose(x).dlv = x
         /\ FlowOn(x).type = "PN_LINK_FLOW" /\ FlowOn(x).dlv = x
BY DEF SL!LocalOpen, SL!LocalClose, SL!Event, RemoteOpen, RemoteClose, FlowOn, Event

LEMMA SLEvents ==
  /\ \A s \in Sessions : /\ SL!LocalOpen(s) \in SLRaised /\ SL!LocalClose(s) \in SLRaised
                         /\ RemoteOpen(s) \in SLRaised /\ RemoteClose(s) \in SLRaised
  /\ \A l \in Links : FlowOn(l) \in SLRaised
  /\ \A e \in SLRaised :
       /\ e.type # "PN_CONNECTION_INIT"
       /\ e.type = "PN_SESSION_LOCAL_OPEN" => e.dlv \in Sessions /\ e = SL!LocalOpen(e.dlv)
       /\ e.type = "PN_SESSION_LOCAL_CLOSE" => e.dlv \in Sessions /\ e = SL!LocalClose(e.dlv)
       /\ e.type = "PN_SESSION_REMOTE_OPEN" => e.dlv \in Sessions /\ e = RemoteOpen(e.dlv)
       /\ e.type = "PN_SESSION_REMOTE_CLOSE" => e.dlv \in Sessions /\ e = RemoteClose(e.dlv)
       /\ e.type = "PN_LINK_FLOW" => e.dlv \in Links /\ e = FlowOn(e.dlv)
<1>1. \A e \in SLRaised :
        \/ \E s \in Sessions : e \in {SL!LocalOpen(s), SL!LocalClose(s), RemoteOpen(s), RemoteClose(s)}
        \/ \E l \in Links : e = FlowOn(l)
  BY DEF SLRaised
<1>2. /\ \A s \in Sessions : /\ SL!LocalOpen(s) \in SLRaised /\ SL!LocalClose(s) \in SLRaised
                             /\ RemoteOpen(s) \in SLRaised /\ RemoteClose(s) \in SLRaised
      /\ \A l \in Links : FlowOn(l) \in SLRaised
  BY DEF SLRaised
<1>3. QED
  BY <1>1, <1>2, SLKinds

\* The session in use is one of the sessions, and the only one in use.
LEMMA SLCur ==
  ASSUME SLTypes
  PROVE  /\ MaxSessions \in Nat /\ session_limit \in Nat /\ session_count \in Nat
         /\ Cur \in Sessions /\ Cur \in Nat /\ Cur >= 1 /\ Cur <= session_limit
         /\ session_count < session_limit => Cur = session_count + 1
         /\ session_count = session_limit => Cur = session_limit
<1>1. MaxSessions \in Nat /\ session_limit \in 1..MaxSessions /\ session_count \in 0..session_limit
  BY ProactorLinksAssumption DEF SLTypes, Sessions
<1>2. QED
  BY <1>1 DEF Cur, Sessions

LEMMA SLInUse ==
  ASSUME SLTypes, SLSessions, NEW s \in Sessions, session[s] \in {"opening", "active", "closing", "closed"}
  PROVE  s = Cur /\ conn # "init"
<1>1. s \in Nat /\ Cur \in Nat
  BY SLCur DEF Sessions
<1>2. s = Cur
  BY <1>1 DEF SLSessions
<1>3. QED
  BY <1>2 DEF SLSessions

LEMMA SLInitially ==
  ASSUME SL!Init
  PROVE  SLInv
<1>1. /\ turn = "wait" /\ conn = "init" /\ events = <<ConnectionInitEvent>>
      /\ link_limit \in 1..MaxLinks /\ unasked \in BOOLEAN
      /\ link = [l \in Links |-> "none"] /\ credit = [l \in Links |-> 0]
      /\ current = [l \in Links |-> FALSE]
      /\ session_limit \in Sessions /\ session_count = 0 /\ link_count = 0 /\ created = 0
      /\ session = [s \in Sessions |-> "none"]
  BY DEF SL!Init, SL!LoopInit, SL!LinksInit, SL!ConnectionInitEvent, ConnectionInitEvent,
         SL!Event, Event, SL!Links, Links, SL!Sessions, Sessions
<1>2. LinkTypes /\ Queue(SLRaised)
  BY <1>1 DEF LinkTypes, Queue, LinkStates
<1>3. MaxSessions \in Nat /\ session_limit \in 1..MaxSessions /\ 0 \in 0..session_limit
  BY <1>1, ProactorLinksAssumption DEF Sessions
<1>4. SLTypes
  BY <1>1, <1>2, <1>3 DEF SLTypes
<1>5. Cur = 1 /\ Cur \in Sessions
  BY <1>1, <1>3, <1>4, SLCur DEF Cur
<1>6. \A s \in Sessions : s \in Nat /\ s >= 1 /\ session[s] = "none"
  BY <1>1 DEF Sessions
<1>7. SLSessions
  BY <1>1, <1>3, <1>5, <1>6 DEF SLSessions
<1>8. \A x : /\ ~Queued(SL!LocalOpen(x), events) /\ ~Queued(SL!LocalClose(x), events)
             /\ ~Queued(RemoteOpen(x), events) /\ ~Queued(RemoteClose(x), events)
             /\ Once(RemoteOpen(x), events) /\ Once(RemoteClose(x), events)
  BY <1>1, SLKinds DEF Queued, Once, ConnectionInitEvent, Event
<1>9. SLQueue
  BY <1>8 DEF SLQueue
<1>10. Started = {} /\ Cardinality(Started) = 0
  BY <1>1, FS_EmptySet DEF Started
<1>11. ~HasLinks
  BY <1>5, <1>6 DEF HasLinks
<1>12. link_limit \in Nat /\ link_limit # 0 /\ link_limit * 0 = 0
  BY <1>1, ProactorLinksAssumption
<1>13. SLLinks
  <2>1. link_count = link_limit <=> session[Cur] \in {"closing", "closed"}
    BY <1>1, <1>5, <1>6, <1>12
  <2>2. created = link_limit * (IF HasLinks THEN Cur ELSE Cur - 1)
    BY <1>1, <1>5, <1>11, <1>12
  <2>3. QED
    BY <1>1, <1>10, <1>11, <2>1, <2>2 DEF SLLinks
<1>14. QED
  BY <1>1, <1>4, <1>7, <1>9, <1>13 DEF SLInv, SLCore

\* Steps that leave the sessions and the links as they are, and of the
\* session's events at most handle one that has no effect.
LEMMA SLSame ==
  ASSUME SLCore, LinkTypes', turn' # "failed", Queue(SLRaised)', conn' = "init" <=> conn = "init",
         UNCHANGED <<session_limit, session_count, session, link_limit, link, current, link_count, created>>,
         \A l \in Links : link[l] = "none" => credit'[l] = credit[l],
         \A s \in Sessions :
           /\ Queued(SL!LocalOpen(s), events') => Queued(SL!LocalOpen(s), events) /\ turn' = turn
           /\ Queued(SL!LocalClose(s), events') => Queued(SL!LocalClose(s), events) /\ turn' = turn
           /\ Queued(RemoteOpen(s), events') <=> Queued(RemoteOpen(s), events)
           /\ Queued(RemoteClose(s), events') => Queued(RemoteClose(s), events)
           /\ Once(RemoteOpen(s), events) => Once(RemoteOpen(s), events')
           /\ Once(RemoteClose(s), events) => Once(RemoteClose(s), events')
  PROVE  SLCore'
<1>1. SLTypes'
  BY DEF SLCore, SLTypes
<1>2. Cur' = Cur /\ Cur \in Sessions
  BY SLCur DEF SLCore, Cur
<1>3. HasLinks' = HasLinks
  BY <1>2 DEF HasLinks
<1>4. LinksOf(Cur)' = LinksOf(Cur) /\ Started' = Started
  BY <1>2 DEF LinksOf, Started
<1>5. SLSessions'
  BY <1>2 DEF SLCore, SLSessions
<1>6. SLQueue'
  BY <1>2 DEF SLCore, SLQueue
<1>7. SLLinks'
  BY <1>2, <1>3, <1>4 DEF SLCore, SLLinks
<1>8. QED
  BY <1>1, <1>5, <1>6, <1>7 DEF SLCore

\* What is waiting after an event of a session or a link has been handled.
LEMMA SLPop ==
  ASSUME SLCore, events # <<>>, Head(events).type # "PN_CONNECTION_INIT",
         events' = Tail(events) \o <<>>, UNCHANGED conn
  PROVE  /\ Queue(SLRaised)' /\ conn # "init" /\ Head(events) \in SLRaised
         /\ Queued(Head(events), events)
         /\ \A f : /\ Queued(f, events') => Queued(f, events)
                   /\ Queued(f, events) /\ f # Head(events) => Queued(f, events')
                   /\ Once(f, events) => Once(f, events')
                   /\ Once(f, events) /\ f = Head(events) => ~Queued(f, events')
<1>1. Queue(SLRaised)
  BY DEF SLCore, SLTypes
<1>2. Queue(SLRaised)' /\ events' = Tail(events)
  BY <1>1, PopQueue
<1>3. /\ conn \in {"open", "closed"} /\ events \in Seq(SLRaised)
      /\ Head(events) \in SLRaised /\ Queued(Head(events), events)
  BY <1>1, LaterEvent
<1>4. QED
  BY <1>2, <1>3, TailQueued, TailOnce

\* The connection and the first session are opened.
LEMMA SLConnectionInit ==
  ASSUME SLCore, SL!ConnectionInit
  PROVE  SLCore'
<1>1. /\ turn = "batch" /\ events # <<>> /\ Head(events).type \in {"PN_CONNECTION_INIT"}
      /\ events' = Tail(events) \o <<SL!LocalOpen(1)>> /\ conn' = "open"
      /\ session' = [session EXCEPT ![1] = "opening"]
      /\ UNCHANGED <<turn, link_limit, link, credit, current,
                     session_limit, session_count, link_count, created>>
  BY DEF SL!ConnectionInit, SL!Handles, SL!linkVars
<1>2. conn = "init" /\ events' = <<SL!LocalOpen(1)>>
  BY <1>1, FirstEvent, SLEvents DEF SLCore, SLTypes
<1>3. 1 \in Sessions
  BY ProactorLinksAssumption DEF Sessions
<1>4. session_count = 0 /\ session[Cur] = "none"
  BY <1>2 DEF SLCore, SLSessions
<1>5. session_limit \in Nat /\ session_limit >= 1 /\ Cur \in Sessions
  BY SLCur DEF SLCore
<1>6. Cur = 1 /\ Cur' = 1
  BY <1>1, <1>4, <1>5 DEF Cur
<1>7. Queue(SLRaised)'
  <2>1. SL!LocalOpen(1) \in SLRaised
    BY <1>3, SLEvents
  <2>2. <<SL!LocalOpen(1)>> \in Seq(SLRaised)
    BY <2>1
  <2>3. QED
    BY <1>1, <1>2, <2>2 DEF Queue
<1>8. SLTypes'
  <2>1. session' \in [Sessions -> {"none", "opening", "active", "closing", "ended", "closed", "freed"}]
    BY <1>1, <1>3 DEF SLCore, SLTypes
  <2>2. QED
    BY <1>1, <1>7, <2>1 DEF SLCore, SLTypes, LinkTypes
<1>9. session'[1] = "opening" /\ \A s \in Sessions : s # 1 => session'[s] = session[s]
  BY <1>1, <1>3 DEF SLCore, SLTypes
<1>10. SLSessions'
  <2>1. \A s \in Sessions : s \in Nat /\ s >= 1
    BY DEF Sessions
  <2>2. session_limit # 0
    BY <1>5
  <2>3. \A s \in Sessions : (s < 1 => session'[s] = "freed") /\ (s > 1 => session'[s] = "none")
    BY <1>6, <1>9, <2>1 DEF SLCore, SLSessions
  <2>4. QED
    BY <1>1, <1>4, <1>6, <1>9, <2>2, <2>3 DEF SLSessions
<1>11. \A x : /\ Queued(SL!LocalOpen(x), events') => x = 1
              /\ ~Queued(SL!LocalClose(x), events')
              /\ ~Queued(RemoteOpen(x), events') /\ ~Queued(RemoteClose(x), events')
              /\ Once(RemoteOpen(x), events') /\ Once(RemoteClose(x), events')
  BY <1>2, SLKinds DEF Queued, Once
<1>12. SLQueue'
  BY <1>1, <1>6, <1>9, <1>11 DEF SLQueue
<1>13. ~HasLinks /\ ~HasLinks'
  BY <1>4, <1>6, <1>9 DEF HasLinks
<1>14. Started' = Started
  BY <1>1 DEF Started
<1>15. SLLinks'
  BY <1>1, <1>4, <1>6, <1>9, <1>13, <1>14 DEF SLCore, SLLinks
<1>16. QED
  BY <1>8, <1>10, <1>12, <1>15 DEF SLCore

\* A session is open at both ends: its links are opened.
LEMMA SLOpens ==
  ASSUME SLCore, Queued(RemoteOpen(Cur), events), ~Queued(RemoteOpen(Cur), events'),
         Queue(SLRaised)', conn # "init",
         UNCHANGED <<turn, conn, link_limit, credit, current, session_limit, session_count, link_count, session>>,
         \A f : Queued(f, events') => Queued(f, events),
         \A f : Once(f, events) => Once(f, events'),
         link' = [l \in Links |-> IF l \in LinksOf(Cur) THEN "open" ELSE link[l]],
         created' = created + link_limit
  PROVE  SLCore'
<1>1. Cur \in Sessions /\ Cur' = Cur /\ Cur \in Nat /\ link_limit \in 1..MaxLinks /\ MaxLinks \in Nat
  BY SLCur, ProactorLinksAssumption DEF SLCore, Cur, SLTypes, LinkTypes
<1>2. session[Cur] = "active"
  BY <1>1 DEF SLCore, SLQueue
<1>3. ~HasLinks /\ HasLinks'
  BY <1>1, <1>2 DEF HasLinks
<1>4. LinksOf(Cur)' = LinksOf(Cur) /\ LinksOf(Cur) \subseteq Links /\ Started' = Started
  BY <1>1, LinkSets DEF LinksOf, Started
<1>5. link' \in [Links -> LinkStates]
  BY DEF SLCore, SLTypes, LinkTypes, LinkStates
<1>6. SLTypes'
  BY <1>5 DEF SLCore, SLTypes, LinkTypes
<1>7. SLSessions'
  BY <1>1 DEF SLCore, SLSessions
<1>8. SLQueue'
  BY <1>1 DEF SLCore, SLQueue
<1>9. created' = link_limit * Cur
  <2>1. created = link_limit * (Cur - 1)
    BY <1>3 DEF SLCore, SLLinks
  <2>2. QED
    BY <1>1, <2>1
<1>10. \A l \in Links : link[l] = "none" /\ link'[l] = IF l \in LinksOf(Cur) THEN "open" ELSE "none"
  BY <1>3 DEF SLCore, SLLinks
<1>11. Started = {}
  BY <1>10 DEF SLCore, SLLinks, Started
<1>12. SLLinks'
  BY <1>1, <1>3, <1>4, <1>9, <1>10, <1>11 DEF SLCore, SLLinks
<1>13. QED
  BY <1>6, <1>7, <1>8, <1>12 DEF SLCore

LEMMA SLSessionOpen ==
  ASSUME SLCore, SL!SessionOpen
  PROVE  SLCore'
<1>0. PICK s : s = Head(events).dlv
  OBVIOUS
<1>1. /\ events # <<>> /\ Head(events).type \in {"PN_SESSION_REMOTE_OPEN", "PN_SESSION_LOCAL_OPEN"}
      /\ events' = Tail(events) \o <<>>
      /\ UNCHANGED <<turn, conn, link_limit, credit, current, session_limit, session_count, link_count, session>>
      /\ IF session[s] = "active"
         THEN /\ link' = [l \in Links |-> IF l \in LinksOf(s) THEN "open" ELSE link[l]]
              /\ created' = created + link_limit
         ELSE UNCHANGED <<link, created>>
  BY <1>0 DEF SL!SessionOpen, SL!Handles, SL!Opened, SL!OpenLinks, SL!Links, Links, SL!Sessions, Sessions,
     SL!LinksOf, LinksOf
<1>2. /\ Queue(SLRaised)' /\ conn # "init" /\ Head(events) \in SLRaised /\ Queued(Head(events), events)
      /\ \A f : /\ Queued(f, events') => Queued(f, events)
                /\ Queued(f, events) /\ f # Head(events) => Queued(f, events')
                /\ Once(f, events) => Once(f, events')
                /\ Once(f, events) /\ f = Head(events) => ~Queued(f, events')
  BY <1>1, SLPop
<1>3. CASE Head(events).type = "PN_SESSION_LOCAL_OPEN"
  <2>1. s \in Sessions /\ Head(events) = SL!LocalOpen(s)
    BY <1>0, <1>2, <1>3, SLEvents
  <2>2. session[s] = "opening"
    BY <1>2, <2>1 DEF SLCore, SLQueue
  <2>3. UNCHANGED <<link, created>>
    BY <1>1, <2>2
  <2>4. LinkTypes' /\ turn' # "failed"
    BY <1>1, <2>3 DEF SLCore, SLTypes, LinkTypes
  <2>5. \A x : RemoteOpen(x) # Head(events)
    BY <2>1, SLKinds
  <2>6. QED
    BY <1>1, <1>2, <2>3, <2>4, <2>5, SLSame
<1>4. CASE Head(events).type = "PN_SESSION_REMOTE_OPEN"
  <2>1. s \in Sessions /\ Head(events) = RemoteOpen(s)
    BY <1>0, <1>2, <1>4, SLEvents
  <2>2. s = Cur /\ session[s] = "active" /\ Once(RemoteOpen(s), events)
    BY <1>2, <2>1 DEF SLCore, SLQueue
  <2>3. Queued(RemoteOpen(Cur), events) /\ ~Queued(RemoteOpen(Cur), events')
    BY <1>2, <2>1, <2>2
  <2>4. /\ link' = [l \in Links |-> IF l \in LinksOf(Cur) THEN "open" ELSE link[l]]
        /\ created' = created + link_limit
    BY <1>1, <2>2
  <2>5. QED
    BY <1>1, <1>2, <2>3, <2>4, SLOpens
<1>5. QED
  BY <1>1, <1>3, <1>4

\* A message is begun on a link of the session in use and, with the last one,
\* the session is closed.
LEMMA SLStarts ==
  ASSUME SLCore, conn # "init", turn = "batch", Queue(SLRaised)',
         UNCHANGED <<turn, conn, link_limit, link, credit, session_limit, session_count, created>>,
         NEW l \in LinksOf(Cur), HasLinks, link_count < link_limit, ~current[l],
         current' = [current EXCEPT ![l] = TRUE], link_count' = link_count + 1,
         session' = IF link_count' = link_limit THEN [session EXCEPT ![Cur] = "closing"] ELSE session,
         \A f : Queued(f, events') =>
                  Queued(f, events) \/ (link_count' = link_limit /\ f = SL!LocalClose(Cur)),
         \A s \in Sessions : Queued(RemoteOpen(s), events) => Queued(RemoteOpen(s), events'),
         \A s \in Sessions : Once(RemoteOpen(s), events') /\ Once(RemoteClose(s), events')
  PROVE  SLCore'
<1>1. Cur \in Sessions /\ Cur' = Cur /\ Cur \in Nat /\ link_limit \in 1..MaxLinks /\ MaxLinks \in Nat
  BY SLCur, ProactorLinksAssumption DEF SLCore, Cur, SLTypes, LinkTypes
<1>2. session[Cur] = "active" /\ session_count # session_limit
  <2>1. session[Cur] \notin {"closing", "closed"}
    BY <1>1 DEF SLCore, SLLinks
  <2>2. QED
    BY <2>1 DEF HasLinks, SLCore, SLSessions
<1>3. LinksOf(Cur)' = LinksOf(Cur) /\ LinksOf(Cur) \subseteq Links /\ l \in Links
  BY <1>1, LinkSets DEF LinksOf
<1>4. /\ current \in [Links -> BOOLEAN]
      /\ session \in [Sessions -> {"none", "opening", "active", "closing", "ended", "closed", "freed"}]
  BY DEF SLCore, SLTypes, LinkTypes
<1>5. current' \in [Links -> BOOLEAN] /\ \A k \in Links : current'[k] <=> current[k] \/ k = l
  BY <1>3, <1>4
<1>6. /\ session' \in [Sessions -> {"none", "opening", "active", "closing", "ended", "closed", "freed"}]
      /\ \A s \in Sessions : s # Cur => session'[s] = session[s]
      /\ session'[Cur] = IF link_count' = link_limit THEN "closing" ELSE "active"
  BY <1>1, <1>2, <1>4
<1>7. SLTypes'
  BY <1>5, <1>6 DEF SLCore, SLTypes, LinkTypes
<1>8. SLSessions'
  <2>1. \A s \in Sessions : s \in Nat
    BY DEF Sessions
  <2>2. \A s \in Sessions : (s < Cur => s # Cur) /\ (s > Cur => s # Cur)
    BY <1>1, <2>1
  <2>3. QED
    BY <1>1, <1>2, <1>6, <2>2 DEF SLCore, SLSessions
<1>9. /\ \A s \in Sessions :
           /\ Queued(SL!LocalOpen(s), events') => Queued(SL!LocalOpen(s), events)
           /\ Queued(RemoteOpen(s), events') => Queued(RemoteOpen(s), events)
           /\ Queued(RemoteClose(s), events') => Queued(RemoteClose(s), events)
           /\ Queued(SL!LocalClose(s), events') =>
                Queued(SL!LocalClose(s), events) \/ (link_count' = link_limit /\ s = Cur)
  BY SLKinds
<1>10. /\ ~Queued(RemoteOpen(Cur), events)
       /\ \A s \in Sessions :
            /\ ~Queued(SL!LocalOpen(s), events) /\ ~Queued(SL!LocalClose(s), events)
            /\ ~Queued(RemoteClose(s), events)
            /\ Queued(RemoteOpen(s), events) => s = Cur
  BY <1>2 DEF SLCore, SLQueue, HasLinks
<1>11. SLQueue'
  BY <1>1, <1>6, <1>9, <1>10 DEF SLQueue
<1>12. HasLinks'
  BY <1>1, <1>6, <1>9, <1>10 DEF HasLinks
<1>13. Started' = Started \union {l} /\ l \notin Started /\ Started \in SUBSET Links
  BY <1>3, <1>5 DEF Started
<1>14. link_count = Cardinality(Started) /\ link_count \in Nat /\ link_count' = Cardinality(Started')
  BY <1>1, <1>13, LinkSubset DEF SLCore, SLLinks
<1>15. link_count' = link_limit <=> session'[Cur] \in {"closing", "closed"}
  BY <1>6
<1>16. \A k \in Links : link[k] = IF k \in LinksOf(Cur) THEN "open" ELSE "none"
  BY DEF SLCore, SLLinks
<1>17. \A k \in Started' : link[k] # "none"
  BY <1>3, <1>13, <1>16 DEF SLCore, SLLinks
<1>18. SLLinks'
  <2>1. created = link_limit * Cur
    BY DEF SLCore, SLLinks
  <2>2. \A k \in Links : link[k] = "none" => credit[k] = 0
    BY DEF SLCore, SLLinks
  <2>3. QED
    BY <1>1, <1>3, <1>12, <1>14, <1>15, <1>16, <1>17, <2>1, <2>2 DEF SLLinks
<1>19. QED
  BY <1>7, <1>8, <1>11, <1>18 DEF SLCore

LEMMA SLFlowEvent ==
  ASSUME SLCore, SL!FlowEvent
  PROVE  SLCore'
<1>0. PICK l : l = Head(events).dlv
  OBVIOUS
<1>1. /\ events # <<>> /\ Head(events).type = "PN_LINK_FLOW" /\ turn = "batch"
      /\ events' = Tail(events) \o (IF SL!Last(l) THEN <<SL!LocalClose(l[1])>> ELSE <<>>)
      /\ IF SL!MayStart(l)
         THEN current' = [current EXCEPT ![l] = TRUE] /\ link_count' = link_count + 1
         ELSE UNCHANGED <<current, link_count>>
      /\ session' = IF ~SL!Last(l) THEN session
           ELSE [session EXCEPT ![l[1]] = IF @ = "ended" THEN "closed" ELSE "closing"]
      /\ UNCHANGED <<turn, conn, link_limit, link, credit, session_limit, session_count, created>>
  BY <1>0 DEF SL!FlowEvent, SL!Handles, SL!start_message
<1>2. /\ conn \in {"open", "closed"} /\ events \in Seq(SLRaised)
      /\ Head(events) \in SLRaised /\ Tail(events) \in Seq(SLRaised)
      /\ Tail(events) \o <<>> = Tail(events)
      /\ \A e : Tail(events) \o <<e>> = Append(Tail(events), e)
  BY <1>1, LaterEvent DEF SLCore, SLTypes
<1>3. l \in Links /\ Head(events) = FlowOn(l)
  BY <1>0, <1>1, <1>2, SLEvents
<1>4. \A f : /\ Queued(f, Tail(events)) => Queued(f, events)
             /\ Queued(f, events) /\ f # FlowOn(l) => Queued(f, Tail(events))
             /\ Once(f, events) => Once(f, Tail(events))
  BY <1>1, <1>2, <1>3, TailQueued, TailOnce
<1>5. \A x : /\ SL!LocalOpen(x) # FlowOn(l) /\ SL!LocalClose(x) # FlowOn(l)
             /\ RemoteOpen(x) # FlowOn(l) /\ RemoteClose(x) # FlowOn(l)
  BY SLKinds
<1>6. CASE ~SL!MayStart(l)
  <2>1. UNCHANGED <<current, link_count, session>> /\ events' = Tail(events)
    BY <1>1, <1>2, <1>6 DEF SL!Last
  <2>2. LinkTypes' /\ turn' # "failed" /\ Queue(SLRaised)'
    BY <1>1, <1>2, <2>1 DEF SLCore, SLTypes, LinkTypes, Queue
  <2>3. QED
    BY <1>1, <1>4, <1>5, <2>1, <2>2, SLSame
<1>7. CASE SL!MayStart(l)
  <2>1. link_count < link_limit /\ ~current[l] /\ credit[l] > 0
    BY <1>7 DEF SL!MayStart
  <2>2. current' = [current EXCEPT ![l] = TRUE] /\ link_count' = link_count + 1
    BY <1>1, <1>7
  <2>3. link[l] # "none"
    BY <1>3, <2>1 DEF SLCore, SLLinks
  <2>4. HasLinks /\ l \in LinksOf(Cur)
    BY <1>3, <2>3 DEF SLCore, SLLinks
  <2>5. Cur \in Sessions /\ l[1] = Cur
    BY <2>4, SLCur DEF SLCore, LinksOf
  <2>6. SL!Last(l) <=> link_count' = link_limit
    BY <1>7, <2>2 DEF SL!Last
  <2>7. session[Cur] # "ended"
    BY DEF SLCore, SLSessions
  <2>8. session' = IF link_count' = link_limit THEN [session EXCEPT ![Cur] = "closing"] ELSE session
    BY <1>1, <2>5, <2>6, <2>7
  <2>9. \A s \in Sessions : Once(RemoteOpen(s), events) /\ Once(RemoteClose(s), events)
    BY DEF SLCore, SLQueue
  <2>10. /\ Queue(SLRaised)'
         /\ \A f : Queued(f, events') =>
              Queued(f, events) \/ (link_count' = link_limit /\ f = SL!LocalClose(Cur))
         /\ \A s \in Sessions : Queued(RemoteOpen(s), events) => Queued(RemoteOpen(s), events')
         /\ \A s \in Sessions : Once(RemoteOpen(s), events') /\ Once(RemoteClose(s), events')
    <3>1. CASE link_count' # link_limit
      <4>1. events' = Tail(events)
        BY <1>1, <1>2, <2>6, <3>1
      <4>2. QED
        BY <1>1, <1>2, <1>4, <1>5, <2>9, <4>1 DEF Queue
    <3>2. CASE link_count' = link_limit
      <4>1. events' = Append(Tail(events), SL!LocalClose(Cur))
        BY <1>1, <1>2, <2>5, <2>6, <3>2
      <4>2. SL!LocalClose(Cur) \in SLRaised
        BY <2>5, SLEvents
      <4>3. /\ events' \in Seq(SLRaised)
            /\ \A f : /\ Queued(f, events') <=> Queued(f, Tail(events)) \/ f = SL!LocalClose(Cur)
                      /\ Once(f, Tail(events)) /\ f # SL!LocalClose(Cur) => Once(f, events')
        BY <1>2, <4>1, <4>2, AppendQueued
      <4>4. \A s \in Sessions : RemoteOpen(s) # SL!LocalClose(Cur) /\ RemoteClose(s) # SL!LocalClose(Cur)
        BY SLKinds
      <4>5. Queue(SLRaised)'
        BY <1>1, <1>2, <4>3 DEF Queue
      <4>6. QED
        BY <1>4, <1>5, <2>9, <3>2, <4>3, <4>4, <4>5
    <3>3. QED
      BY <3>1, <3>2
  <2>11. QED
    BY <1>1, <1>2, <2>1, <2>2, <2>4, <2>8, <2>10, SLStarts
<1>8. QED
  BY <1>6, <1>7

\* The sessions before the one in use, and up to it.
LEMMA SLUsed ==
  ASSUME SLTypes, SLSessions, conn # "init"
  PROVE  /\ {t \in Sessions : session[t] # "none"} = 1..Cur
         /\ {t \in Sessions : session[t] = "freed"} = 1..(Cur - 1)
         /\ Cardinality(1..Cur) = Cur /\ Cardinality(1..(Cur - 1)) = Cur - 1
<1>1. MaxSessions \in Nat /\ Cur \in Nat /\ Cur >= 1 /\ Cur <= MaxSessions
  BY SLCur DEF Sessions
<1>2. \A t \in Sessions : t \in Nat /\ t >= 1
  BY DEF Sessions
<1>3. \A t \in 1..Cur : t \in Sessions
  BY <1>1 DEF Sessions
<1>4. session[Cur] \in {"opening", "active", "closing", "closed"}
  BY DEF SLSessions
<1>5. \A t \in Sessions : /\ t \in 1..(Cur - 1) => session[t] = "freed"
                          /\ t \notin 1..Cur => session[t] = "none"
                          /\ t \in 1..Cur /\ t \notin 1..(Cur - 1) => t = Cur
                          /\ t \in 1..(Cur - 1) => t \in 1..Cur
  BY <1>1, <1>2 DEF SLSessions
<1>6. {t \in Sessions : session[t] # "none"} = 1..Cur
  BY <1>3, <1>4, <1>5
<1>7. {t \in Sessions : session[t] = "freed"} = 1..(Cur - 1)
  <2>1. \A t \in 1..(Cur - 1) : t \in 1..Cur
    BY <1>1
  <2>2. QED
    BY <1>3, <1>4, <1>5, <2>1
<1>8. Cur - 1 \in Nat /\ 1 \in Int /\ Cur \in Int /\ Cur - 1 \in Int
  BY <1>1
<1>9. Cardinality(1..Cur) = IF 1 > Cur THEN 0 ELSE Cur - 1 + 1
  BY <1>8, FS_Interval
<1>10. Cardinality(1..(Cur - 1)) = IF 1 > Cur - 1 THEN 0 ELSE (Cur - 1) - 1 + 1
  BY <1>8, FS_Interval
<1>11. Cardinality(1..Cur) = Cur /\ Cardinality(1..(Cur - 1)) = Cur - 1
  BY <1>1, <1>9, <1>10
<1>12. QED
  BY <1>6, <1>7, <1>11

\* The session in use is freed with its links, and the next one opened.
LEMMA SLRenews ==
  ASSUME SLCore, conn # "init", turn = "batch", Queue(SLRaised)', session[Cur] = "closed",
         UNCHANGED <<turn, conn, link_limit, session_limit, created>>,
         session_count' = session_count + 1, session_count' < session_limit,
         session' = [session EXCEPT ![Cur] = "freed", ![Cur + 1] = "opening"],
         link' = [l \in Links |-> IF l[1] = Cur THEN "none" ELSE link[l]],
         credit' = [l \in Links |-> IF l[1] = Cur THEN 0 ELSE credit[l]],
         current' = [l \in Links |-> IF l[1] = Cur THEN FALSE ELSE current[l]],
         link_count' = 0,
         \A f : Queued(f, events') => Queued(f, events) \/ f = SL!LocalOpen(Cur + 1),
         ~Queued(RemoteClose(Cur), events'),
         \A s \in Sessions : Once(RemoteOpen(s), events') /\ Once(RemoteClose(s), events')
  PROVE  SLCore'
<1>1. /\ MaxSessions \in Nat /\ session_limit \in Nat /\ session_count \in Nat
      /\ session_limit \in 1..MaxSessions /\ link_limit \in 1..MaxLinks /\ MaxLinks \in Nat
  BY SLCur, ProactorLinksAssumption DEF SLCore, SLTypes, LinkTypes, Sessions
<1>2. session_count < session_limit
  BY <1>1
<1>3. Cur = session_count + 1 /\ Cur \in Sessions /\ Cur \in Nat /\ Cur >= 1
  BY <1>2, SLCur DEF SLCore
<1>4. Cur' = Cur + 1
  <2>1. session_count' # session_limit
    BY <1>1
  <2>2. Cur' = session_count' + 1
    BY <2>1 DEF Cur
  <2>3. QED
    BY <1>3, <2>2
<1>5. Cur + 1 \in Sessions /\ Cur + 1 # Cur
  BY <1>1, <1>3 DEF Sessions
<1>6. session \in [Sessions -> {"none", "opening", "active", "closing", "ended", "closed", "freed"}]
  BY DEF SLCore, SLTypes
<1>7. /\ session' \in [Sessions -> {"none", "opening", "active", "closing", "ended", "closed", "freed"}]
      /\ session'[Cur] = "freed" /\ session'[Cur + 1] = "opening"
      /\ \A s \in Sessions : s # Cur /\ s # Cur + 1 => session'[s] = session[s]
  BY <1>3, <1>5, <1>6
<1>8. HasLinks
  BY <1>3 DEF SLCore, SLQueue, HasLinks
<1>9. \A l \in Links : l[1] # Cur => link[l] = "none" /\ credit[l] = 0 /\ ~current[l]
  <2>1. \A l \in Links : l \in LinksOf(Cur) => l[1] = Cur
    BY DEF LinksOf
  <2>2. \A l \in Links : l[1] # Cur => link[l] = "none"
    BY <2>1 DEF SLCore, SLLinks
  <2>3. QED
    BY <2>2 DEF SLCore, SLLinks, Started
<1>10. \A l \in Links : link'[l] = "none" /\ credit'[l] = 0 /\ ~current'[l]
  BY <1>9
<1>11. LinkTypes'
  <2>1. link' \in [Links -> LinkStates]
    BY DEF SLCore, SLTypes, LinkTypes, LinkStates
  <2>2. credit' \in [Links -> Int]
    BY DEF SLCore, SLTypes, LinkTypes
  <2>3. current' \in [Links -> BOOLEAN]
    BY DEF SLCore, SLTypes, LinkTypes
  <2>4. QED
    BY <2>1, <2>2, <2>3 DEF SLCore, SLTypes, LinkTypes
<1>12. SLTypes'
  <2>1. session_count' \in 0..session_limit
    BY <1>1
  <2>2. QED
    BY <1>7, <1>11, <2>1 DEF SLCore, SLTypes
<1>13. SLSessions'
  <2>1. \A s \in Sessions : s \in Nat
    BY DEF Sessions
  <2>2. \A s \in Sessions : /\ s < Cur + 1 => s < Cur \/ s = Cur
                            /\ s > Cur + 1 => s > Cur /\ s # Cur /\ s # Cur + 1
                            /\ s < Cur => s # Cur /\ s # Cur + 1
    BY <1>3, <2>1
  <2>3. \A s \in Sessions : /\ s < Cur + 1 => session'[s] = "freed"
                            /\ s > Cur + 1 => session'[s] = "none"
    BY <1>7, <2>2 DEF SLCore, SLSessions
  <2>4. session_count' # session_limit
    BY <1>1
  <2>5. QED
    BY <1>4, <1>7, <2>3, <2>4 DEF SLSessions
<1>14. \A s \in Sessions :
         /\ Queued(SL!LocalOpen(s), events') => Queued(SL!LocalOpen(s), events) \/ s = Cur + 1
         /\ Queued(SL!LocalClose(s), events') => Queued(SL!LocalClose(s), events)
         /\ Queued(RemoteOpen(s), events') => Queued(RemoteOpen(s), events)
         /\ Queued(RemoteClose(s), events') => Queued(RemoteClose(s), events)
  BY SLKinds
<1>15. \A s \in Sessions :
         /\ ~Queued(SL!LocalOpen(s), events) /\ ~Queued(SL!LocalClose(s), events)
         /\ ~Queued(RemoteOpen(s), events) /\ (Queued(RemoteClose(s), events) => s = Cur)
  BY DEF SLCore, SLQueue
<1>16. SLQueue'
  BY <1>4, <1>7, <1>14, <1>15 DEF SLQueue
<1>17. ~HasLinks'
  BY <1>4, <1>7 DEF HasLinks
<1>18. Started' = {} /\ Cardinality(Started') = 0
  <2>1. Started' = {}
    BY <1>10 DEF Started
  <2>2. QED
    BY <2>1, FS_EmptySet
<1>19. created' = link_limit * (Cur' - 1)
  <2>1. created = link_limit * Cur
    BY <1>8 DEF SLCore, SLLinks
  <2>2. Cur' - 1 = Cur
    BY <1>3, <1>4
  <2>3. QED
    BY <2>1, <2>2
<1>20. SLLinks'
  <2>1. link_limit # 0
    BY <1>1
  <2>2. QED
    BY <1>4, <1>7, <1>10, <1>17, <1>18, <1>19, <2>1 DEF SLLinks
<1>21. QED
  BY <1>12, <1>13, <1>16, <1>20 DEF SLCore

\* The last session is closed: the links stay as they are.
LEMMA SLCompletes ==
  ASSUME SLCore, conn # "init", Queue(SLRaised)', session[Cur] = "closed",
         UNCHANGED <<turn, conn, link_limit, session_limit, created, session, link, credit, current, link_count>>,
         session_count < session_limit, session_count' = session_count + 1, ~(session_count' < session_limit),
         \A f : Queued(f, events') => Queued(f, events),
         ~Queued(RemoteClose(Cur), events'),
         \A s \in Sessions : Once(RemoteOpen(s), events') /\ Once(RemoteClose(s), events')
  PROVE  SLCore'
<1>1. session_limit \in Nat /\ session_count \in Nat /\ Cur = session_count + 1 /\ Cur \in Sessions
  BY SLCur DEF SLCore
<1>2. session_count' = session_limit /\ session_count' \in 0..session_limit
  BY <1>1
<1>3. Cur' = Cur
  BY <1>1, <1>2 DEF Cur
<1>4. SLTypes'
  BY <1>2 DEF SLCore, SLTypes, LinkTypes
<1>5. SLSessions'
  BY <1>3 DEF SLCore, SLSessions
<1>6. \A s \in Sessions :
         /\ ~Queued(SL!LocalOpen(s), events) /\ ~Queued(SL!LocalClose(s), events)
         /\ ~Queued(RemoteOpen(s), events) /\ (Queued(RemoteClose(s), events) => s = Cur)
  BY DEF SLCore, SLQueue
<1>7. SLQueue'
  BY <1>3, <1>6 DEF SLQueue
<1>8. HasLinks /\ HasLinks' /\ LinksOf(Cur)' = LinksOf(Cur) /\ Started' = Started
  BY <1>1, <1>3, <1>6 DEF HasLinks, LinksOf, Started
<1>9. SLLinks'
  BY <1>3, <1>8 DEF SLCore, SLLinks
<1>10. QED
  BY <1>4, <1>5, <1>7, <1>9 DEF SLCore

LEMMA SLSessionClose ==
  ASSUME SLCore, SL!SessionClose
  PROVE  SLCore'
<1>0. PICK s : s = Head(events).dlv
  OBVIOUS
<1>1. /\ events # <<>> /\ turn = "batch"
      /\ Head(events).type \in {"PN_SESSION_REMOTE_CLOSE", "PN_SESSION_LOCAL_CLOSE"}
      /\ UNCHANGED <<conn, link_limit, session_limit, created>>
  BY DEF SL!SessionClose, SL!CloseEvents
<1>2. /\ conn \in {"open", "closed"} /\ events \in Seq(SLRaised)
      /\ Head(events) \in SLRaised /\ Tail(events) \in Seq(SLRaised)
      /\ Tail(events) \o <<>> = Tail(events)
      /\ \A e : Tail(events) \o <<e>> = Append(Tail(events), e)
      /\ Queued(Head(events), events)
  BY <1>1, LaterEvent DEF SLCore, SLTypes
<1>3. \A f : /\ Queued(f, Tail(events)) => Queued(f, events)
             /\ Queued(f, events) /\ f # Head(events) => Queued(f, Tail(events))
             /\ Once(f, events) => Once(f, Tail(events))
             /\ Once(f, events) /\ f = Head(events) => ~Queued(f, Tail(events))
  BY <1>1, <1>2, TailQueued, TailOnce
<1>4. CASE ~SL!BothClosed(s)
  <2>1. /\ events' = Tail(events) \o <<>>
        /\ UNCHANGED <<turn, session, link, credit, current, session_count, link_count>>
    BY <1>0, <1>4 DEF SL!SessionClose, SL!Handles
  <2>2. events' = Tail(events)
    BY <1>2, <2>1
  <2>3. LinkTypes' /\ turn' # "failed" /\ Queue(SLRaised)'
    BY <1>1, <1>2, <2>1, <2>2 DEF SLCore, SLTypes, LinkTypes, Queue
  <2>4. \A x : RemoteOpen(x) # Head(events)
    BY <1>1, SLKinds
  <2>5. QED
    BY <1>1, <1>3, <2>1, <2>2, <2>3, <2>4, SLSame
<1>5. CASE SL!BothClosed(s)
  <2>1. session[s] \in {"closed", "freed"}
    BY <1>5 DEF SL!BothClosed
  <2>2. Head(events).type = "PN_SESSION_LOCAL_CLOSE" => session[s] = "closing"
    BY <1>0, <1>2, SLEvents DEF SLCore, SLQueue
  <2>3. s \in Sessions /\ Head(events) = RemoteClose(s)
    BY <1>0, <1>1, <1>2, <2>1, <2>2, SLEvents
  <2>4. s = Cur /\ session[Cur] = "closed" /\ session_count < session_limit
    BY <1>2, <2>3 DEF SLCore, SLQueue
  <2>5. \A t \in Sessions : Once(RemoteOpen(t), events) /\ Once(RemoteClose(t), events)
    BY DEF SLCore, SLQueue
  <2>6. ~Queued(RemoteClose(Cur), Tail(events))
    BY <1>3, <2>3, <2>4, <2>5
  <2>7. /\ session_count' = session_count + 1
        /\ IF session_count' < session_limit THEN SL!Renew(Cur) ELSE SL!Complete
    BY <1>0, <1>5, <2>4 DEF SL!SessionClose
  <2>8. CASE session_count' < session_limit
    <3>1. SL!Renew(Cur)
      BY <2>7, <2>8
    <3>2. 1 + SL!Cardinality({t \in SL!Sessions : session[t] # "none"}) = Cur + 1
      <4>1. SL!Cardinality({t \in SL!Sessions : session[t] # "none"})
              = Cardinality({t \in Sessions : session[t] # "none"})
        BY DEF SL!Cardinality, Cardinality, SL!Sessions, Sessions
      <4>2. Cardinality({t \in Sessions : session[t] # "none"}) = Cur
        BY <1>2, SLUsed DEF SLCore
      <4>3. Cur \in Nat
        BY SLCur DEF SLCore
      <4>4. QED
        BY <4>1, <4>2, <4>3
    <3>3. /\ events' = Tail(events) \o <<SL!LocalOpen(Cur + 1)>>
          /\ session' = [session EXCEPT ![Cur] = "freed", ![Cur + 1] = "opening"]
      BY <3>1, <3>2 DEF SL!Renew, SL!Handles
    <3>4. /\ link' = [l \in Links |-> IF l[1] = Cur THEN "none" ELSE link[l]]
          /\ credit' = [l \in Links |-> IF l[1] = Cur THEN 0 ELSE credit[l]]
          /\ current' = [l \in Links |-> IF l[1] = Cur THEN FALSE ELSE current[l]]
      BY <3>1 DEF SL!Renew, SL!Links, Links, SL!Sessions, Sessions
    <3>5. turn' = turn /\ link_count' = 0
      BY <2>4, <3>1 DEF SL!Renew
    <3>6. Cur + 1 \in Sessions
      <4>1. /\ MaxSessions \in Nat /\ session_limit \in 1..MaxSessions /\ session_count \in Nat
            /\ Cur = session_count + 1
        BY <2>4, SLCur DEF SLCore, SLTypes, Sessions
      <4>2. QED
        BY <2>7, <2>8, <4>1 DEF Sessions
    <3>7. PICK e : e = SL!LocalOpen(Cur + 1)
      OBVIOUS
    <3>8. /\ events' \in Seq(SLRaised)
          /\ \A f : /\ Queued(f, events') <=> Queued(f, Tail(events)) \/ f = SL!LocalOpen(Cur + 1)
                    /\ Once(f, Tail(events)) /\ f # SL!LocalOpen(Cur + 1) => Once(f, events')
      <4>1. events' = Append(Tail(events), e) /\ e \in SLRaised
        BY <1>2, <3>3, <3>6, <3>7, SLEvents
      <4>2. /\ events' \in Seq(SLRaised)
            /\ \A f : /\ Queued(f, events') <=> Queued(f, Tail(events)) \/ f = e
                      /\ Once(f, Tail(events)) /\ f # e => Once(f, events')
        BY <1>2, <4>1, AppendQueued
      <4>3. QED
        BY <3>7, <4>2
    <3>9. \A t \in Sessions : RemoteOpen(t) # SL!LocalOpen(Cur + 1) /\ RemoteClose(t) # SL!LocalOpen(Cur + 1)
      BY SLKinds
    <3>10. /\ Queue(SLRaised)'
           /\ \A f : Queued(f, events') => Queued(f, events) \/ f = SL!LocalOpen(Cur + 1)
           /\ ~Queued(RemoteClose(Cur), events')
           /\ \A t \in Sessions : Once(RemoteOpen(t), events') /\ Once(RemoteClose(t), events')
      <4>1. Queue(SLRaised)'
        BY <1>1, <1>2, <3>8 DEF Queue
      <4>2. QED
        BY <1>3, <2>3, <2>4, <2>5, <2>6, <3>8, <3>9, <4>1
    <3>11. QED
      BY <1>1, <1>2, <2>4, <2>7, <2>8, <3>3, <3>4, <3>5, <3>10, SLRenews
  <2>9. CASE ~(session_count' < session_limit)
    <3>1. /\ events' = Tail(events) \o <<>>
          /\ UNCHANGED <<turn, session, link, credit, current, link_count>>
      BY <2>7, <2>9 DEF SL!Complete, SL!Handles
    <3>2. events' = Tail(events) /\ Queue(SLRaised)'
      BY <1>1, <1>2, <3>1 DEF Queue
    <3>3. QED
      BY <1>1, <1>2, <1>3, <2>4, <2>5, <2>6, <2>7, <2>9, <3>1, <3>2, SLCompletes
  <2>10. QED
    BY <2>8, <2>9
<1>6. QED
  BY <1>4, <1>5

\* Steps of the main loop, and the end of the connection.
LEMMA SLQuiet ==
  ASSUME SLCore, Quiet, turn' # "failed",
         UNCHANGED <<linkVars, session_limit, session_count, session, link_count, created>>
  PROVE  SLCore'
<1>1. Queue(SLRaised)'
  BY QuietQueue DEF SLCore, SLTypes
<1>2. LinkTypes' /\ UNCHANGED <<link_limit, link, credit, current, events>>
  BY DEF SLCore, SLTypes, LinkTypes, Quiet, linkVars
<1>3. conn' = "init" <=> conn = "init"
  BY DEF Quiet
<1>4. \A s \in Sessions :
        /\ Queued(SL!LocalOpen(s), events) => turn' = turn
        /\ Queued(SL!LocalClose(s), events) => turn' = turn
  <2>1. CASE turn = "wait" \/ turn' = turn
    BY <2>1 DEF SLCore, SLQueue
  <2>2. CASE events = <<>>
    <3>1. \A f : ~Queued(f, events)
      BY <2>2 DEF Queued
    <3>2. QED
      BY <3>1
  <2>3. QED
    BY <2>1, <2>2 DEF Quiet
<1>5. QED
  BY <1>1, <1>2, <1>3, <1>4, SLSame

\* The peer answers the begin of a session, or its end.
LEMMA SLPeerSession ==
  ASSUME SLCore, ~unasked, NEW s \in Sessions, SL!PeerBegins(s) \/ SL!PeerEnds(s)
  PROVE  SLCore'
<1>0. PICK now \in {"active", "closed"}, e \in {RemoteOpen(s), RemoteClose(s)} :
        /\ session[s] = (IF now = "active" THEN "opening" ELSE "closing")
        /\ e = (IF now = "active" THEN RemoteOpen(s) ELSE RemoteClose(s))
        /\ turn = "wait" /\ conn = "open" /\ events' = Put(events, e)
        /\ session' = [session EXCEPT ![s] = now]
        /\ UNCHANGED <<turn, conn, link_limit, link, credit, current,
                       session_limit, session_count, link_count, created>>
  <2>1. CASE SL!PeerBegins(s)
    <3>1. /\ session[s] = "opening"
          /\ turn = "wait" /\ conn = "open" /\ events' = Put(events, RemoteOpen(s))
          /\ session' = [session EXCEPT ![s] = "active"]
          /\ UNCHANGED <<turn, conn, link_limit, link, credit, current,
                         session_limit, session_count, link_count, created>>
      BY <2>1 DEF SL!PeerBegins, SL!Reads, SL!Put, Put, SL!Event, RemoteOpen, Event, SL!linkVars
    <3>2. QED
      BY <3>1
  <2>2. CASE SL!PeerEnds(s)
    <3>1. /\ session[s] = "closing"
          /\ turn = "wait" /\ conn = "open" /\ events' = Put(events, RemoteClose(s))
          /\ session' = [session EXCEPT ![s] = IF @ = "active" THEN "ended" ELSE "closed"]
          /\ UNCHANGED <<turn, conn, link_limit, link, credit, current,
                         session_limit, session_count, link_count, created>>
      BY <2>2 DEF SL!PeerEnds, SL!Reads, SL!Put, Put, SL!Event, RemoteClose, Event, SL!linkVars
    <3>2. session' = [session EXCEPT ![s] = "closed"]
      BY <3>1
    <3>3. QED
      BY <3>1, <3>2
  <2>3. QED
    BY <2>1, <2>2
<1>1. s = Cur /\ Cur' = Cur /\ Cur \in Nat
  BY <1>0, SLInUse, SLCur DEF SLCore, Cur
<1>2. e \in SLRaised
  BY <1>0, SLEvents
<1>3. Queue(SLRaised)' /\ events \in Seq(SLRaised)
  BY <1>0, <1>2, ReadQueue DEF SLCore, SLTypes
<1>4. \A f : /\ Queued(f, events') <=> Queued(f, events) \/ f = e
             /\ Once(f, events) /\ (f = e => ~Queued(f, events)) => Once(f, events')
  BY <1>0, <1>2, <1>3, PutQueued, PutOnce
<1>5. session \in [Sessions -> {"none", "opening", "active", "closing", "ended", "closed", "freed"}]
  BY DEF SLCore, SLTypes
<1>6. /\ session' \in [Sessions -> {"none", "opening", "active", "closing", "ended", "closed", "freed"}]
      /\ session'[Cur] = now /\ \A t \in Sessions : t # Cur => session'[t] = session[t]
  BY <1>0, <1>1, <1>5
<1>7. SLTypes'
  BY <1>0, <1>3, <1>6 DEF SLCore, SLTypes, LinkTypes
<1>8. session_count # session_limit /\ session_count < session_limit
  <2>1. session_count # session_limit
    BY <1>0, <1>1 DEF SLCore, SLSessions
  <2>2. QED
    BY <2>1, SLCur DEF SLCore, SLTypes
<1>9. SLSessions'
  <2>1. \A t \in Sessions : t \in Nat
    BY DEF Sessions
  <2>2. \A t \in Sessions : (t < Cur => t # Cur) /\ (t > Cur => t # Cur)
    BY <1>1, <2>1
  <2>3. QED
    BY <1>0, <1>1, <1>6, <1>8, <2>2 DEF SLCore, SLSessions
<1>10. \A t \in Sessions :
         /\ ~Queued(SL!LocalOpen(t), events) /\ ~Queued(SL!LocalClose(t), events)
         /\ ~Queued(RemoteOpen(t), events) /\ ~Queued(RemoteClose(t), events)
         /\ Once(RemoteOpen(t), events) /\ Once(RemoteClose(t), events)
  BY <1>0, <1>1 DEF SLCore, SLQueue
<1>11. \A t \in Sessions :
         /\ ~Queued(SL!LocalOpen(t), events') /\ ~Queued(SL!LocalClose(t), events')
         /\ Queued(RemoteOpen(t), events') <=> t = Cur /\ now = "active"
         /\ Queued(RemoteClose(t), events') <=> t = Cur /\ now = "closed"
         /\ Once(RemoteOpen(t), events') /\ Once(RemoteClose(t), events')
  <2>1. \A t \in Sessions :
          /\ SL!LocalOpen(t) # e /\ SL!LocalClose(t) # e
          /\ RemoteOpen(t) = e <=> t = Cur /\ now = "active"
          /\ RemoteClose(t) = e <=> t = Cur /\ now = "closed"
    BY <1>0, <1>1, SLKinds
  <2>2. QED
    BY <1>4, <1>10, <2>1
<1>12. SLQueue'
  BY <1>0, <1>1, <1>6, <1>8, <1>11 DEF SLQueue
<1>13. HasLinks <=> HasLinks'
  BY <1>0, <1>1, <1>6, <1>10, <1>11 DEF HasLinks
<1>14. LinksOf(Cur)' = LinksOf(Cur) /\ Started' = Started
  BY <1>0, <1>1 DEF LinksOf, Started
<1>15. session'[Cur] \in {"closing", "closed"} <=> session[Cur] \in {"closing", "closed"}
  BY <1>0, <1>1, <1>6
<1>16. SLLinks'
  BY <1>0, <1>1, <1>13, <1>14, <1>15 DEF SLCore, SLLinks
<1>17. QED
  BY <1>7, <1>9, <1>12, <1>16 DEF SLCore

\* The peer gives credit, and the transport writes.
LEMMA SLPeerLink ==
  ASSUME SLCore, NEW l \in Links, SL!Write(l) \/ \E n \in 0..MaxCredit : SL!PeerFlow(l, n)
  PROVE  SLCore'
<1>1. /\ turn = "wait" /\ conn = "open" /\ events' = Put(events, FlowOn(l))
      /\ UNCHANGED <<turn, conn, link_limit, link, current, session_limit, session_count,
                     session, link_count, created>>
      /\ link[l] # "none"
      /\ UNCHANGED credit \/ \E n \in 0..MaxCredit : credit' = [credit EXCEPT ![l] = @ + n]
  <2>1. CASE SL!Write(l)
    BY <2>1 DEF SL!Write, SL!LinkWrites, SL!Reads, SL!Put, Put, SL!FlowOn, FlowOn, SL!Event, Event, SL!ownVars
  <2>2. CASE \E n \in 0..MaxCredit : SL!PeerFlow(l, n)
    BY <2>2 DEF SL!PeerFlow, SL!PeerCredit, SL!Reads, SL!Put, Put, SL!FlowOn, FlowOn, SL!Event, Event, SL!ownVars
  <2>3. QED
    BY <2>1, <2>2
<1>2. FlowOn(l) \in SLRaised
  BY SLEvents
<1>3. Queue(SLRaised)' /\ events \in Seq(SLRaised)
  BY <1>1, <1>2, ReadQueue DEF SLCore, SLTypes
<1>4. \A f : /\ Queued(f, events') <=> Queued(f, events) \/ f = FlowOn(l)
             /\ Once(f, events) /\ f # FlowOn(l) => Once(f, events')
  BY <1>1, <1>2, <1>3, PutQueued, PutOnce
<1>5. \A x : /\ SL!LocalOpen(x) # FlowOn(l) /\ SL!LocalClose(x) # FlowOn(l)
             /\ RemoteOpen(x) # FlowOn(l) /\ RemoteClose(x) # FlowOn(l)
  BY SLKinds
<1>6. credit \in [Links -> Int] /\ MaxCredit \in Nat
  BY ProactorLinksAssumption DEF SLCore, SLTypes, LinkTypes
<1>7. credit' \in [Links -> Int] /\ \A k \in Links : k # l => credit'[k] = credit[k]
  BY <1>1, <1>6
<1>8. LinkTypes' /\ turn' # "failed"
  BY <1>1, <1>7 DEF SLCore, SLTypes, LinkTypes
<1>9. QED
  BY <1>1, <1>3, <1>4, <1>5, <1>7, <1>8, SLSame

LEMMA SLStep ==
  ASSUME SLInv, SL!Next
  PROVE  SLInv'
<1>1. unasked' = unasked
  <2>1. CASE SL!ConnectionInit \/ SL!SessionOpen \/ SL!FlowEvent \/ SL!SessionClose
    BY <2>1 DEF SL!ConnectionInit, SL!SessionOpen, SL!FlowEvent, SL!SessionClose, SL!linkVars
  <2>2. CASE SL!Main \/ SL!Interrupt \/ SL!SignalHandler \/ SL!PeerLeaves
    BY <2>2 DEF SL!Main, SL!Interrupt, SL!SignalHandler, SL!PeerLeaves, SL!PeerDrops, SL!linkVars
  <2>3. CASE \E s \in SL!Sessions : SL!PeerBegins(s) \/ SL!PeerEnds(s)
    BY <2>3 DEF SL!PeerBegins, SL!PeerEnds, SL!linkVars
  <2>4. CASE \E l \in SL!Links : SL!Write(l) \/ \E n \in 0..MaxCredit : SL!PeerFlow(l, n)
    BY <2>4 DEF SL!Write, SL!PeerFlow, SL!LinkWrites, SL!PeerCredit
  <2>5. QED
    BY <2>1, <2>2, <2>3, <2>4 DEF SL!Next, SL!Client
<1>2. SUFFICES ASSUME ~unasked PROVE SLCore'
  BY <1>1 DEF SLInv
<1>3. SLCore
  BY <1>2 DEF SLInv
<1>4. CASE SL!ConnectionInit \/ SL!SessionOpen \/ SL!FlowEvent \/ SL!SessionClose
  BY <1>3, <1>4, SLConnectionInit, SLSessionOpen, SLFlowEvent, SLSessionClose
<1>5. CASE SL!Main \/ SL!Interrupt \/ SL!SignalHandler \/ SL!PeerLeaves
  <2>1. Quiet /\ (turn' = turn \/ turn' \in {"batch", "wait", "exit"})
    BY <1>5 DEF SL!Main, SL!Interrupt, SL!SignalHandler, SL!PeerLeaves, SL!BeginBatch, SL!EndBatch,
       SL!Inactive, SL!Interrupted, SL!Signal, SL!PeerDrops, Quiet
  <2>2. turn' # "failed"
    BY <1>3, <2>1 DEF SLCore, SLTypes
  <2>3. UNCHANGED <<linkVars, session_limit, session_count, session, link_count, created>>
    BY <1>5 DEF SL!Main, SL!Interrupt, SL!SignalHandler, SL!PeerLeaves, SL!PeerDrops,
       SL!linkVars, linkVars, SL!ownVars
  <2>4. QED
    BY <1>3, <2>1, <2>2, <2>3, SLQuiet
<1>6. CASE \E s \in SL!Sessions : SL!PeerBegins(s) \/ SL!PeerEnds(s)
  BY <1>2, <1>3, <1>6, SLPeerSession DEF SL!Sessions, Sessions
<1>7. CASE \E l \in SL!Links : SL!Write(l) \/ \E n \in 0..MaxCredit : SL!PeerFlow(l, n)
  BY <1>3, <1>7, SLPeerLink DEF SL!Links, Links, SL!Sessions, Sessions
<1>8. QED
  BY <1>4, <1>5, <1>6, <1>7 DEF SL!Next, SL!Client

\* What the invariant says of the counters and of the sessions closed.
LEMMA SLCounts ==
  ASSUME SLInv
  PROVE  SL!ClosesInFlight /\ SL!CountsRight
<1>1. SUFFICES ASSUME ~unasked PROVE SL!ClosesInFlight /\ SL!CountsRight
  BY DEF SL!ClosesInFlight, SL!CountsRight
<1>2. SLCore
  BY <1>1 DEF SLInv
<1>3. /\ session_limit \in Nat /\ session_count \in Nat /\ Cur \in Sessions /\ Cur \in Nat /\ Cur >= 1
      /\ session_count < session_limit => Cur = session_count + 1
      /\ session_count = session_limit => Cur = session_limit
      /\ session_count < session_limit \/ session_count = session_limit
      /\ link_limit \in 1..MaxLinks
  BY <1>2, SLCur DEF SLCore, SLTypes, LinkTypes
<1>4. SL!Links = Links /\ SL!Sessions = Sessions /\ \A s : SL!LinksOf(s) = LinksOf(s)
  BY DEF SL!Links, Links, SL!Sessions, Sessions, SL!LinksOf, LinksOf
<1>5. \A S : SL!Cardinality(S) = Cardinality(S)
  BY DEF SL!Cardinality, Cardinality
<1>6. SL!ClosesInFlight
  <2>1. SUFFICES ASSUME NEW s \in Sessions, session[s] = "closing" PROVE \A l \in LinksOf(s) : current[l]
    BY <1>4 DEF SL!ClosesInFlight
  <2>2. s = Cur
    BY <1>2, <2>1, SLInUse DEF SLCore
  <2>3. Cardinality(Started) = link_limit
    BY <1>2, <2>1, <2>2 DEF SLCore, SLLinks
  <2>4. Started \in SUBSET LinksOf(Cur)
    BY <1>2 DEF SLCore, SLLinks, Started
  <2>5. Started = LinksOf(Cur)
    BY <1>3, <2>3, <2>4, LinkAll
  <2>6. QED
    BY <2>2, <2>5 DEF Started
<1>7. SL!CountsRight
  <2>1. session_count = Cardinality({s \in Sessions : session[s] = "freed"})
          + (IF session_count = session_limit THEN 1 ELSE 0)
    <3>1. CASE conn = "init"
      <4>1. session_count = 0 /\ session_limit # 0 /\ \A s \in Sessions : session[s] = "none"
        <5>1. session_count = 0 /\ session[Cur] = "none"
          BY <1>2, <3>1 DEF SLCore, SLSessions
        <5>2. session_limit \in Nat /\ session_limit >= 1
          BY <1>2 DEF SLCore, SLTypes, Sessions
        <5>3. Cur = 1
          BY <1>3, <5>1, <5>2
        <5>4. \A s \in Sessions : s = 1 \/ s > 1
          BY DEF Sessions
        <5>5. QED
          BY <1>2, <5>1, <5>2, <5>3, <5>4 DEF SLCore, SLSessions
      <4>2. {s \in Sessions : session[s] = "freed"} = {}
        BY <4>1
      <4>3. QED
        BY <4>1, <4>2, FS_EmptySet
    <3>2. CASE conn # "init"
      <4>1. Cardinality({s \in Sessions : session[s] = "freed"}) = Cur - 1
        BY <1>2, <3>2, SLUsed DEF SLCore
      <4>2. QED
        BY <1>3, <4>1
    <3>3. QED
      BY <3>1, <3>2
  <2>2. created = link_limit * Cardinality({s \in Sessions :
          session[s] = "freed" \/ \E l \in LinksOf(s) : link[l] # "none"})
    <3>0. PICK U : U = {s \in Sessions : session[s] = "freed" \/ \E l \in LinksOf(s) : link[l] # "none"}
      OBVIOUS
    <3>1. \A s \in Sessions : (\E l \in LinksOf(s) : link[l] # "none") <=> HasLinks /\ s = Cur
      <4>1. \A s \in Sessions : LinksOf(s) \subseteq Links
        BY <1>3, LinkSets
      <4>2. <<Cur, 1>> \in LinksOf(Cur)
        BY <1>3, ProactorLinksAssumption DEF LinksOf
      <4>3. \A s \in Sessions : \A l \in LinksOf(s) : l \in LinksOf(Cur) <=> s = Cur
        BY DEF LinksOf
      <4>4. \A l \in Links : link[l] # "none" <=> HasLinks /\ l \in LinksOf(Cur)
        BY <1>2 DEF SLCore, SLLinks
      <4>5. QED
        BY <1>3, <4>1, <4>2, <4>3, <4>4
    <3>2. U = {s \in Sessions : session[s] = "freed" \/ (HasLinks /\ s = Cur)}
      BY <3>0, <3>1
    <3>3. CASE HasLinks
      <4>1. conn # "init"
        BY <1>2, <3>3 DEF SLCore, SLSessions, HasLinks
      <4>2. U = {s \in Sessions : session[s] = "freed"} \union {Cur}
        BY <1>3, <3>2, <3>3
      <4>3. U = 1..Cur /\ Cardinality(1..Cur) = Cur
        <5>1. {s \in Sessions : session[s] = "freed"} = 1..(Cur - 1) /\ Cardinality(1..Cur) = Cur
          BY <1>2, <4>1, SLUsed DEF SLCore
        <5>2. (1..(Cur - 1)) \union {Cur} = 1..Cur
          BY <1>3
        <5>3. QED
          BY <4>2, <5>1, <5>2
      <4>4. created = link_limit * Cur
        BY <1>2, <3>3 DEF SLCore, SLLinks
      <4>5. QED
        BY <3>0, <4>3, <4>4
    <3>4. CASE ~HasLinks
      <4>1. U = {s \in Sessions : session[s] = "freed"}
        BY <3>2, <3>4
      <4>2. created = link_limit * (Cur - 1)
        BY <1>2, <3>4 DEF SLCore, SLLinks
      <4>3. Cardinality(U) = Cur - 1
        <5>1. session_count = session_limit => HasLinks
          BY <1>2, <1>3 DEF SLCore, SLSessions, SLQueue, HasLinks
        <5>2. Cardinality(U) \in Nat
          <6>1. MaxSessions \in Nat /\ 1 \in Int /\ MaxSessions \in Int
            BY ProactorLinksAssumption
          <6>2. IsFiniteSet(Sessions)
            BY <6>1, FS_Interval DEF Sessions
          <6>3. IsFiniteSet(U)
            BY <4>1, <6>2, FS_Subset
          <6>4. QED
            BY <6>3, FS_CardinalityType
        <5>3. session_count = Cardinality(U) + 0 /\ Cur = session_count + 1
          BY <1>3, <2>1, <3>4, <4>1, <5>1
        <5>4. QED
          BY <1>3, <5>2, <5>3
      <4>4. QED
        BY <3>0, <4>2, <4>3
    <3>5. QED
      BY <3>3, <3>4
  <2>3. link_count = Cardinality({l \in Links : current[l]})
    BY <1>2 DEF SLCore, SLLinks, Started
  <2>4. turn # "failed"
    BY <1>2 DEF SLCore, SLTypes
  <2>5. QED
    BY <1>1, <1>4, <1>5, <2>1, <2>2, <2>3, <2>4 DEF SL!CountsRight
<1>8. QED
  BY <1>6, <1>7

-----------------------------------------------------------------------------
(***************************************************************************)
(* The programs together.                                                  *)
(***************************************************************************)

LEMMA ClientsInit == Init => ClientsInv
<1>1. CASE program = "session-loader" /\ SL!Init
  BY <1>1, SLInitially DEF ClientsInv
<1>2. CASE program = "link-loader" /\ LL!Init
  BY <1>2, LLInitially DEF ClientsInv
<1>3. CASE program = "link-sender" /\ LS!Init
  BY <1>3, LSInitially DEF ClientsInv
<1>4. CASE program = "link-receiver" /\ LR!Init
  BY <1>4, LRInitially DEF ClientsInv
<1>5. CASE program = "oom-sender" /\ OS!Init
  BY <1>5, OSInitially DEF ClientsInv
<1>6. CASE program = "oom-receiver"
  BY <1>6 DEF ClientsInv
<1>7. QED
  BY <1>1, <1>2, <1>3, <1>4, <1>5, <1>6 DEF Init

\* A step that changes nothing.
LEMMA ClientsStutter ==
  ASSUME ClientsInv, UNCHANGED vars
  PROVE  ClientsInv'
<1>1. /\ Quiet /\ UNCHANGED <<linkVars, program, turn, unasked>>
      /\ UNCHANGED <<session_limit, session_count, session, created, repeat_count, link_count>>
      /\ UNCHANGED <<informs, context, outcome, closed_links>>
      /\ UNCHANGED <<fragments, arrived, settled, msg_count>>
      /\ UNCHANGED <<tag, bytes_sent, buffered, window>>
  BY DEF vars, loopVars, linkVars, ofSessionLoader, ofLinkSender, ofLinkReceiver, ofOomSender, Quiet
<1>2. SLInv => SLInv'
  <2>1. unasked /\ SLInv => SLInv'
    BY <1>1 DEF SLInv
  <2>2. ~unasked /\ SLInv => SLInv'
    <3>1. SLCore => turn' # "failed"
      BY <1>1 DEF SLCore, SLTypes
    <3>2. SLCore => SLCore'
      BY <1>1, <3>1, SLQuiet
    <3>3. QED
      BY <1>1, <3>2 DEF SLInv
  <2>3. QED
    BY <2>1, <2>2
<1>3. LLInv => LLInv'
  BY <1>1, LLQuiet
<1>4. LSInv => LSInv'
  BY <1>1, LSQuiet
<1>5. LRInv => LRInv'
  BY <1>1, LRQuiet
<1>6. OSInv => OSInv'
  <2>1. SUFFICES ASSUME OSInv PROVE OSInv'
    OBVIOUS
  <2>2. Queue(OSRaised)'
    BY <1>1, <2>1, QuietQueue DEF OSInv
  <2>3. turn' \in {"wait", "batch", "exit", "failed", "spin"} /\ window' \in 0..MaxWindow
    BY <1>1, <2>1 DEF OSInv, OSTypes, LinkTypes
  <2>4. UNCHANGED <<link_limit, link, credit, current>>
    BY <1>1 DEF linkVars
  <2>5. QED
    BY <1>1, <2>1, <2>2, <2>3, <2>4, OSQuiet
<1>7. QED
  BY <1>1, <1>2, <1>3, <1>4, <1>5, <1>6 DEF ClientsInv

LEMMA ClientsStep == ClientsInv /\ [Next]_vars => ClientsInv'
<1>0. SUFFICES ASSUME ClientsInv, [Next]_vars PROVE ClientsInv'
  OBVIOUS
<1>1. CASE RunsSL /\ SL!Next
  BY <1>0, <1>1, SLStep DEF ClientsInv, RunsSL
<1>2. CASE RunsLL /\ LL!Next
  BY <1>0, <1>2, LLStep DEF ClientsInv, RunsLL
<1>3. CASE RunsLS /\ LS!Next
  BY <1>0, <1>3, LSStep DEF ClientsInv, RunsLS
<1>4. CASE RunsLR /\ LR!Next
  BY <1>0, <1>4, LRStep DEF ClientsInv, RunsLR
<1>5. CASE RunsOS /\ OS!Next
  BY <1>0, <1>5, OSStep DEF ClientsInv, RunsOS
<1>6. CASE RunsOR /\ OR!Next
  BY <1>6 DEF ClientsInv, RunsOR
<1>7. CASE UNCHANGED vars
  BY <1>0, <1>7, ClientsStutter
<1>8. QED
  BY <1>0, <1>1, <1>2, <1>3, <1>4, <1>5, <1>6, <1>7 DEF Next, Done

\* The invariant of each program holds for any number of links, sessions and
\* cycles and any peer.
THEOREM ClientsAlways == Spec => []ClientsInv
BY ClientsInit, ClientsStep, PTL DEF Spec

\* session-loader.c closes a session, and link-loader.c its links, only with
\* an unfinished message in flight on every link of it.
THEOREM LoadersCloseInFlight == Spec => []ClosesInFlight
<1>1. ClientsInv => ClosesInFlight
  BY SLCounts, LLCounts DEF ClientsInv, ClosesInFlight
<1>2. QED
  BY ClientsAlways, <1>1, PTL

\* The counters of the loaders, link-sender.c and link-receiver.c: sessions closed
\* (of a peer that ends none unasked); messages in flight, of every peer; links
\* closed with an outcome and messages over (full or aborted) settled, never
\* too few, and exactly as many with one disposition per delivery and one frame
\* per message.
THEOREM ClientCountsRight == Spec => []CountsRight
<1>1. ClientsInv => CountsRight
  BY SLCounts, LLCounts, LSCounts, LRCounts DEF ClientsInv, CountsRight
<1>2. QED
  BY ClientsAlways, <1>1, PTL

\* oom-sender.c never holds more than the window of its peer and one header
\* for each link, however the deliveries of its links interleave.
THEOREM OomSenderWithinWindow == Spec => []WithinWindow
<1>1. ClientsInv => WithinWindow
  BY OSWithinWindow DEF ClientsInv, WithinWindow
<1>2. QED
  BY ClientsAlways, <1>1, PTL
=============================================================================
