------------------------- MODULE MCMeasuringSenders -------------------------
(***************************************************************************)
(* The three senders that measure, latency-sender.c, throughput-sender.c   *)
(* and blocking-sender.c, checked together: `program' says which of them   *)
(* runs.  The variables the running program does not have keep their first *)
(* value.                                                                  *)
(***************************************************************************)
EXTENDS SendingLink

VARIABLES
  program,                        \* the client that was started
  acked, accepted, not_accepted,  \* all three
  pending_ack,                    \* LatencySender, BlockingSender
  send_ts, samples,               \* LatencySender
  stamps,                         \* ThroughputSender
  start_ts, stop_ts, ack_start_ts, ack_stop_ts,       \* BlockingSender
  stalled, stall_count, grant_count, credit_grants    \* BlockingSender

latencyOnly    == <<send_ts, samples>>
throughputOnly == <<stamps>>
blockingOnly   == <<start_ts, stop_ts, ack_start_ts, ack_stop_ts,
                    stalled, stall_count, grant_count, credit_grants>>
vars == <<loopVars, linkVars, acked, accepted, not_accepted, pending_ack, program,
          latencyOnly, throughputOnly, blockingOnly>>

Latency    == INSTANCE LatencySender
Throughput == INSTANCE ThroughputSender
Blocking   == INSTANCE BlockingSender

RunsLatency ==
  program = "latency-sender" /\ UNCHANGED <<program, throughputOnly, blockingOnly>>
RunsThroughput ==
  program = "throughput-sender" /\ UNCHANGED <<program, pending_ack, latencyOnly, blockingOnly>>
RunsBlocking ==
  program = "blocking-sender" /\ UNCHANGED <<program, latencyOnly, throughputOnly>>

\* Only blocking-sender.c can send presettled messages.
Init ==
  /\ program \in {"latency-sender", "throughput-sender", "blocking-sender"}
  /\ Blocking!Init
  /\ IF program = "blocking-sender"
     THEN send_ts = 0 /\ samples = {} /\ stamps = <<>>
     ELSE Latency!Init /\ Throughput!Init

Client ==
  \/ RunsLatency /\ Latency!Client
  \/ RunsThroughput /\ Throughput!Client
  \/ RunsBlocking /\ Blocking!Client

Next ==
  \/ RunsLatency /\ Latency!Next
  \/ RunsThroughput /\ Throughput!Next
  \/ RunsBlocking /\ Blocking!Next

Spec == Init /\ [][Next]_vars

\* As for the other senders: one thread, a transport that writes, and a peer
\* that grants credit, settles and answers a close while it is up.
Write ==
  \/ RunsLatency /\ Latency!Write
  \/ RunsThroughput /\ Throughput!Write
  \/ RunsBlocking /\ Blocking!Write

PeerGrants ==
  \/ RunsLatency /\ Latency!PeerGrants
  \/ RunsThroughput /\ Throughput!PeerGrants
  \/ RunsBlocking /\ Blocking!PeerGrants

PeerSettles ==
  \/ RunsLatency /\ Latency!PeerSettles
  \/ RunsThroughput /\ Throughput!PeerSettles
  \/ RunsBlocking /\ Blocking!PeerSettles

PeerAnswers ==
  \/ RunsLatency /\ Latency!PeerAnswers
  \/ RunsThroughput /\ Throughput!PeerAnswers
  \/ RunsBlocking /\ Blocking!PeerAnswers

Fairness ==
  /\ WF_vars(Client)
  /\ WF_vars(Write)
  /\ SF_vars(PeerGrants)
  /\ SF_vars(PeerSettles)
  /\ SF_vars(PeerAnswers)

FairSpec == Spec /\ Fairness

-----------------------------------------------------------------------------
\* latency-sender.c has one message outstanding, and each latency it records
\* is the time between a message and its own ack, with a peer that sends one
\* disposition per delivery.
OwnLatency == program = "latency-sender" => Latency!OwnLatency

\* throughput-sender.c measures from before the first message to after the
\* last outcome, with such a peer and unless a signal stops the clock.
SpansTheTransfer == program = "throughput-sender" => Throughput!SpansTheTransfer

\* blocking-sender.c never has more than the newest message without outcome,
\* with such a peer.
OneOutstanding == program = "blocking-sender" => Blocking!OneOutstanding

\* A sender that waits for the network waits for something: credit or, in
\* latency-sender.c and blocking-sender.c, the outstanding ack or the write of
\* the last message.
NeverIdle ==
  /\ program = "latency-sender" => Latency!WaitsForSomething
  /\ program = "throughput-sender" => Throughput!NoIdleCredit
  /\ program = "blocking-sender" => Blocking!WaitsForSomething

\* All three implement the abstract bulk transfer.
Bulk == INSTANCE BulkSend WITH
  sent <- count,
  known <- IF presettle THEN {} ELSE settled,
  done <- IF program = "blocking-sender" THEN Blocking!Declared
          ELSE IF program = "latency-sender" THEN Latency!Declared
          ELSE Throughput!Declared

ImplementsBulkSend == Bulk!Spec

\* A sender with a limit ends, unless the peer detaches its link (or may
\* make it count an outcome twice); once stopped it exits in any case.
Terminates ==
  /\ (limit > 0 /\ ~informs) ~> (turn = "exit" \/ link = "detached")
  /\ stop ~> (turn = "exit")
=============================================================================
