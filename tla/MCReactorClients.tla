-------------------------- MODULE MCReactorClients --------------------------
(***************************************************************************)
(* The scale clients (sender.c, punisher.c and receiver.c of clients/scale)*)
(* and the benchmark clients latency-receiver.c, throughput-receiver.c and *)
(* chunked-sender.c, checked together: `program' says which of them runs.  *)
(* The variables the running program does not have keep their first value. *)
(***************************************************************************)
EXTENDS SendingLink

CONSTANTS
  Windows, MaxMsgs, MayAbort,                            \* the receivers
  FewWindows, FewMsgs, MaxConnects,                      \* ThroughputReceiver
  LinkCount, Chunks, HighWater, MaxFlows, MaxEvents      \* ChunkedSender

ASSUME ReactorClientsAssumption ==
  /\ Windows \subseteq Nat \ {0} /\ FewWindows \subseteq Nat \ {0}
  /\ MaxMsgs \in Nat /\ FewMsgs \in Nat
  /\ LinkCount \in Nat \ {0} /\ Chunks \in Nat \ {0} /\ MaxFlows \in Nat /\ HighWater \in Nat \ {0}

VARIABLES
  program,
  acked,                                                 \* the senders
  credit_window, arrived, partial, aborted,              \* the receivers
  server_mode, bytes_throughput,
  connects, acceptor, endpoints, stamps,                 \* ThroughputReceiver
  current, owner, offset, unwritten, decided, flows      \* ChunkedSender

ofSenders    == <<presettle, informs, granted, written, remote>>
ofReceivers  == <<credit_window, arrived, partial, aborted>>
ofThroughput == <<server_mode, bytes_throughput, connects, acceptor, endpoints, stamps>>
ofChunked    == <<current, owner, offset, unwritten, decided, flows>>
vars == <<loopVars, limit, count, credit, settled, program, ofSenders, acked, ofReceivers, ofThroughput, ofChunked>>

Sending   == INSTANCE ScaleSender
Punishing == INSTANCE Punisher
Receiving == INSTANCE ScaleReceiver
Latency   == INSTANCE LatencyReceiver
Through   == INSTANCE ThroughputReceiver WITH Windows <- FewWindows, MaxMsgs <- FewMsgs
Chunked   == INSTANCE ChunkedSender

Receivers == {"receiver", "latency-receiver", "throughput-receiver"}

RunsSender ==
  program = "sender" /\ UNCHANGED <<program, ofReceivers, ofThroughput, ofChunked>>
RunsPunisher ==
  program = "punisher" /\ UNCHANGED <<program, ofReceivers, ofThroughput, ofChunked>>
RunsReceiver ==
  program = "receiver" /\ UNCHANGED <<program, ofSenders, acked, settled, ofThroughput, ofChunked>>
RunsLatency ==
  program = "latency-receiver" /\ UNCHANGED <<program, ofSenders, acked, settled, ofThroughput, ofChunked>>
RunsThrough ==
  program = "throughput-receiver" /\ UNCHANGED <<program, ofSenders, acked, settled, ofChunked>>
RunsChunked ==
  program = "chunked-sender" /\ UNCHANGED <<program, ofSenders, ofReceivers, ofThroughput>>

\* The values of the variables a program does not have.
NoSender ==
  /\ presettle = FALSE /\ informs = FALSE /\ granted = 0 /\ written = 0
  /\ remote = [d \in Deliveries |-> "none"]
NoAcks       == acked = 0 /\ settled = {}
NoReceiver   == credit_window = 0 /\ arrived = 0 /\ partial = FALSE /\ aborted = {}
NoThroughput ==
  /\ server_mode = FALSE /\ bytes_throughput = FALSE
  /\ connects = 0 /\ acceptor = "none" /\ endpoints = "none" /\ stamps = <<>>
NoChunked ==
  /\ current = <<>> /\ owner = <<>> /\ offset = <<>> /\ unwritten = <<>>
  /\ decided = {} /\ flows = 0

Init ==
  \/ program = "sender" /\ Sending!Init /\ NoReceiver /\ NoThroughput /\ NoChunked
  \/ program = "punisher" /\ Punishing!Init /\ NoReceiver /\ NoThroughput /\ NoChunked
  \/ program = "receiver" /\ Receiving!Init /\ NoSender /\ NoAcks /\ NoThroughput /\ NoChunked
  \/ program = "latency-receiver" /\ Latency!Init /\ NoSender /\ NoAcks /\ NoThroughput /\ NoChunked
  \/ program = "throughput-receiver" /\ Through!Init /\ NoSender /\ NoAcks /\ NoChunked
  \/ program = "chunked-sender" /\ Chunked!Init /\ NoSender /\ NoReceiver /\ NoThroughput

Client ==
  \/ RunsSender /\ Sending!Client
  \/ RunsPunisher /\ Punishing!Client
  \/ RunsReceiver /\ Receiving!Client
  \/ RunsLatency /\ Latency!Client
  \/ RunsThrough /\ Through!Client
  \/ RunsChunked /\ Chunked!Client

Next ==
  \/ RunsSender /\ Sending!Next
  \/ RunsPunisher /\ Punishing!Next
  \/ RunsReceiver /\ Receiving!Next
  \/ RunsLatency /\ Latency!Next
  \/ RunsThrough /\ Through!Next
  \/ RunsChunked /\ Chunked!Next

Spec == Init /\ [][Next]_vars

\* One thread; a transport that writes; a peer that, while it is up, grants
\* credit and settles, or connects where it is waited for, sends and completes
\* its messages, and answers a close.
Write ==
  \/ RunsSender /\ Sending!Write
  \/ RunsPunisher /\ Punishing!Write
  \/ RunsChunked /\ Chunked!Write

PeerFeeds ==
  \/ RunsSender /\ Sending!PeerGrants
  \/ RunsPunisher /\ Punishing!PeerGrants
  \/ RunsReceiver /\ Receiving!PeerSends
  \/ RunsLatency /\ Latency!PeerSends
  \/ RunsThrough /\ (Through!PeerSetsUp \/ Through!PeerSends)
  \/ RunsChunked /\ Chunked!PeerGrants

PeerFinishes ==
  \/ RunsSender /\ Sending!PeerSettles
  \/ RunsPunisher /\ Punishing!PeerSettles
  \/ RunsReceiver /\ Receiving!PeerEnds
  \/ RunsLatency /\ Latency!PeerEnds
  \/ RunsThrough /\ Through!PeerEnds
  \/ RunsChunked /\ Chunked!PeerSettles

PeerAnswers ==
  \/ RunsSender /\ Sending!PeerAnswers
  \/ RunsPunisher /\ Punishing!PeerAnswers
  \/ RunsReceiver /\ Receiving!PeerAnswers
  \/ RunsLatency /\ Latency!PeerAnswers
  \/ RunsThrough /\ Through!PeerAnswers
  \/ RunsChunked /\ Chunked!PeerAnswers

Fairness ==
  /\ WF_vars(Client)
  /\ WF_vars(Write)
  /\ SF_vars(PeerFeeds)
  /\ SF_vars(PeerFinishes)
  /\ SF_vars(PeerAnswers)

FairSpec == Spec /\ Fairness

-----------------------------------------------------------------------------
\* A sender closes of its own accord only when every message is sent and the
\* outcomes it waits for are in.  (The presettling punisher without a limit is
\* left out: it closes before it has sent anything.)
ClosesAfterAll ==
  /\ program = "sender" => Sending!ClosesAfterAll
  /\ program = "punisher" /\ limit > 0 => Punishing!ClosesAfterAll
  /\ program = "chunked-sender" => Chunked!ClosesAfterAll

\* A receiver keeps the peer in credit, within the window, and forgets no
\* complete message; a throughput is measured over the whole transfer.
KeepsPace ==
  /\ program = "receiver" => Receiving!KeepsPace
  /\ program = "latency-receiver" => Latency!KeepsPace
  /\ program = "throughput-receiver" => Through!KeepsPace

\* An idle sender with messages left has no credit, or something to write that
\* will make it use the credit.
NoIdleCredit ==
  /\ program \in {"sender", "punisher"} /\ turn = "io" /\ collector = <<>> /\ WantsToSend => credit = 0
  /\ program = "chunked-sender" => Chunked!NoIdleCredit

\* All senders implement the abstract bulk transfer.
Bulk == INSTANCE BulkSend WITH
  sent <- IF program \in Receivers THEN 0 ELSE count,
  known <- IF presettle THEN {} ELSE IF program = "punisher" THEN Punishing!Answered ELSE settled,
  done <- \/ program = "sender" /\ Sending!Declared
          \/ program = "punisher" /\ Punishing!Declared
          \/ program = "chunked-sender" /\ Chunked!Declared

ImplementsBulkSend == Bulk!Spec

\* With a limit every client ends (latency-receiver.c perhaps at a message it
\* cannot read), unless the peer detaches its link, or may make a sender count
\* an outcome twice, or settles a delivery without a state, which the scale
\* clients ignore and then wait for ever.  Further: receiver.c needs a window
\* of more than 1 to be sent more than one message; throughput-receiver.c must
\* not count the bytes of an aborted message, nor lose its connection while it
\* listens; chunked-sender.c must not be flooded with flow frames of several
\* links, and needs credit among the MaxFlows frames of the model.
Ended == turn \in {"exit", "failed"}
Spins == turn = "spin" /\ bytes_throughput /\ aborted # {}

Terminates ==
  /\ limit > 0 /\ ~informs /\ (program = "receiver" /\ limit > 1 => credit_window > 1)
       ~> \/ Ended \/ link = "detached" \/ Spins
          \/ \E d \in Deliveries : remote[d] = "stateless"
          \/ program = "throughput-receiver" /\ Through!Abandoned
          \/ program = "chunked-sender" /\ (Chunked!Starved \/ \E l \in Chunked!Links : Chunked!Flooded(l))
  /\ ~armed ~> Ended \/ Spins
=============================================================================
