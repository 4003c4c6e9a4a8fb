---------------------------- MODULE ChunkedSender ----------------------------
(***************************************************************************)
(* benchmarks/clients/src/chunked-sender.c: send `limit' messages over     *)
(* several links of one session, each in chunks of write_size, a chunk per *)
(* PN_LINK_FLOW and only while the session has little to write.  The next  *)
(* event of a link comes from the transport, when it has written something *)
(* of that link, or from the peer.  All messages have the same length,     *)
(* counted in chunks.  The transport and the peer are external; the peer   *)
(* sends one disposition per delivery, its outcome, but perhaps before it  *)
(* has the whole message.                                                  *)
(***************************************************************************)
EXTENDS ReactorLoop, FiniteSets, Functions

CONSTANTS
  Limits,     \* the values of -c to consider
  LinkCount,  \* LINK_COUNT
  Chunks,     \* chunks of a message
  HighWater,  \* 1024, in chunks
  MaxFlows,   \* bound: flow frames the peer sends
  MaxEvents   \* bound: events raised by one read

VARIABLES
  limit,
  count, acked,
  credit,      \* of each link
  current,     \* pn_link_current() of each link: the number of its delivery, or 0
  owner,       \* of each delivery: its link, or 0
  offset,      \* of each delivery: the chunks sent
  unwritten,   \* of each delivery: the chunks sent and not written
  decided,     \* deliveries whose outcome has been read
  settled,
  flows        \* history: flow frames read

sendVars  == <<count, credit, current, owner, offset, unwritten>>
stateVars == <<decided, settled>>
vars == <<loopVars, limit, sendVars, acked, stateVars, flows>>

Links      == 1..LinkCount
Deliveries == 1..MaxFlows

FlowOn(l) == Event("PN_LINK_FLOW", l)

\* main().  -c 0, without end, is left out.
Init ==
  /\ LoopInit
  /\ limit \in Limits /\ limit > 0
  /\ count = 0 /\ acked = 0
  /\ credit = [l \in Links |-> 0] /\ current = [l \in Links |-> 0]
  /\ owner = [d \in Deliveries |-> 0]
  /\ offset = [d \in Deliveries |-> 0] /\ unwritten = [d \in Deliveries |-> 0]
  /\ decided = {} /\ settled = {}
  /\ flows = 0

\* case PN_CONNECTION_INIT: the endpoints are opened.
ConnectionInit ==
  /\ Dispatch("PN_CONNECTION_INIT")
  /\ conn' = "open"
  /\ UNCHANGED <<turn, link, stop, armed, limit, sendVars, acked, stateVars, flows>>

WantsToSend   == limit = 0 \/ count < limit
OutgoingBytes == SumFunction(unwritten)  \* pn_session_outgoing_bytes()

\* A link without a delivery begins one, if it may.
Begins(l) == current[l] = 0 /\ credit[l] > 0 /\ WantsToSend

\* A chunk of delivery d goes out on l; with the last one the link advances.
SendChunk(l, d) ==
  /\ offset' = [offset EXCEPT ![d] = @ + 1]
  /\ unwritten' = [unwritten EXCEPT ![d] = @ + 1]
  /\ LET last == offset'[d] = Chunks IN
       /\ current' = [current EXCEPT ![l] = IF last THEN 0 ELSE d]
       /\ credit' = [credit EXCEPT ![l] = IF last THEN @ - 1 ELSE @]

\* case PN_LINK_FLOW: begin a delivery; send a chunk unless too much waits to
\* be written.
FlowEvent ==
  /\ Dispatch("PN_LINK_FLOW")
  /\ LET l == Head(collector).dlv
         d == IF Begins(l) THEN count + 1 ELSE current[l] IN
       /\ count' = IF Begins(l) THEN count + 1 ELSE count
       /\ owner' = IF Begins(l) THEN [owner EXCEPT ![d] = l] ELSE owner
       /\ IF d # 0 /\ OutgoingBytes < HighWater
          THEN SendChunk(l, d)
          ELSE current' = [current EXCEPT ![l] = d] /\ UNCHANGED <<offset, unwritten, credit>>
  /\ UNCHANGED <<turn, conn, link, stop, armed, limit, acked, stateVars, flows>>

\* Any outcome is counted and settled, which advances the link if the delivery
\* is still its current one.
Outcome(d) ==
  /\ acked' = acked + 1
  /\ settled' = settled \union {d}
  /\ LET l == owner[d] IN
       IF current[l] = d
       THEN current' = [current EXCEPT ![l] = 0] /\ credit' = [credit EXCEPT ![l] = @ - 1]
       ELSE UNCHANGED <<current, credit>>

Complete == limit > 0 /\ acked' = limit

\* case PN_DELIVERY.
Delivery ==
  /\ Dispatch("PN_DELIVERY")
  /\ Outcome(Head(collector).dlv)
  /\ stop' = (stop \/ Complete)
  /\ UNCHANGED <<turn, conn, link, armed, limit, count, owner, offset, unwritten, decided, flows>>

\* main(): pn_reactor_process(), the loop body, the signal handler.
Main          == (Quiesce \/ MainLoop) /\ UNCHANGED <<limit, sendVars, acked, stateVars, flows>>
SignalHandler == Signal /\ UNCHANGED <<limit, sendVars, acked, stateVars, flows>>

Client == ConnectionInit \/ FlowEvent \/ Delivery \/ Main

-----------------------------------------------------------------------------
\* External: the transport and the peer.

Room == Len(collector) < MaxEvents

\* All that is sent of a delivery is written in a frame, in the order of the
\* deliveries of a link, and the link is told.
WriteOf(d) ==
  /\ turn = "io" /\ Room /\ conn \in {"open", "closing"} /\ link = "attached"
  /\ unwritten[d] > 0
  /\ \A e \in Deliveries : e < d /\ owner[e] = owner[d] => unwritten[e] = 0
  /\ unwritten' = [unwritten EXCEPT ![d] = 0]
  /\ collector' = Put(collector, FlowOn(owner[d]))
  /\ UNCHANGED <<turn, conn, link, stop, armed, limit, acked, stateVars, flows>>
  /\ UNCHANGED <<count, credit, current, owner, offset>>

\* A flow frame of link l adds n credits (0: the peer only echoes its state).
PeerFlow(l, n) ==
  /\ flows < MaxFlows
  /\ Room /\ Reads(FlowOn(l))
  /\ flows' = flows + 1
  /\ credit' = [credit EXCEPT ![l] = @ + n]
  /\ UNCHANGED <<limit, count, current, owner, offset, unwritten, acked, stateVars>>

\* The peer decides on a message of which it has received something.
PeerDisposition(d) ==
  /\ offset[d] > unwritten[d] /\ d \notin decided
  /\ Room /\ Reads(DeliveryEvent(d))
  /\ decided' = decided \union {d}
  /\ UNCHANGED <<limit, sendVars, acked, settled, flows>>

\* The peer closes the connection, or ends the session and so all links.
PeerLeaves == (PeerCloses \/ PeerDetaches) /\ UNCHANGED <<limit, sendVars, acked, stateVars, flows>>

Write       == \E d \in Deliveries : WriteOf(d)
PeerGrants  == \E l \in Links : PeerFlow(l, 1)
PeerSettles == \E d \in Deliveries : PeerDisposition(d)
PeerAnswers == conn = "closing" /\ PeerLeaves /\ conn' = "closed"
PeerEchoes  == \E l \in Links : PeerFlow(l, 0)

Exited == turn = "exit" /\ UNCHANGED vars

Next == Client \/ SignalHandler \/ Write \/ PeerGrants \/ PeerSettles \/ PeerEchoes \/ PeerLeaves \/ Exited

-----------------------------------------------------------------------------
\* The client stops by itself only when every message has its outcome.
ClosesAfterAll == stop /\ armed => count = limit /\ settled = 1..limit

\* After more flow frames than fit the session their events may find it filled
\* by other links, and leave link l, which has nothing to be written, without a
\* further event.
Flooded(l) == flows > HighWater /\ \E d \in Deliveries : d <= count /\ owner[d] # l

\* An idle client has something to be written of every link with a message
\* left to send or to finish, so that the link's next event is due.  A link
\* that shares the session with no other stays so even when its own chunks
\* have filled the session and its events are refused.
NoIdleCredit ==
  turn = "io" /\ conn = "open" /\ collector = <<>> =>
    \A l \in Links :
      ~Flooded(l) /\ (current[l] # 0 \/ (credit[l] > 0 /\ WantsToSend))
        => \E d \in Deliveries : owner[d] = l /\ unwritten[d] > 0

\* The flow frames of the model are used up, on frames that grant nothing.
Starved == flows = MaxFlows /\ WantsToSend /\ \A l \in Links : credit[l] = 0

\* Every message sent and every outcome known.
Declared == limit > 0 /\ acked = limit
=============================================================================
