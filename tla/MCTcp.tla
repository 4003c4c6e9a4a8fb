-------------------------------- MODULE MCTcp --------------------------------
(***************************************************************************)
(* The clients that move a byte stream to a TCP server, checked together:  *)
(* `program' says which system runs, the bridge or the spout clients with  *)
(* the drain server.  The variables of the other keep their first value.   *)
(***************************************************************************)
EXTENDS Integers

CONSTANTS
  SlotCount, WriteMax, MaxData,                          \* TcpBridge
  Clients, Counts, Scales, Word, BUFFER_SIZE, InFlight   \* TcpDrain

ASSUME TcpAssumption ==
  /\ SlotCount \in Nat \ {0} /\ WriteMax \in Nat /\ MaxData \in Nat
  /\ Counts \subseteq Nat /\ Scales \subseteq Nat /\ Word \in Nat \ {0}
  /\ BUFFER_SIZE \in Nat /\ InFlight \in Nat

VARIABLES
  program,
  turn, stop, armed, prompt, amqp_conn, amqp_link, raw_conn, freed, delivery, arrived, taken,
  producer_slot, consumer_slot, buffers, given, written, out, events,
  server, socket, client, amount, remaining, flight, rx_octets, printed

ofBridge == <<turn, stop, armed, prompt, amqp_conn, amqp_link, raw_conn, freed, delivery, arrived, taken,
              producer_slot, consumer_slot, buffers, given, written, out, events>>
ofDrain  == <<server, socket, client, amount, remaining, flight, rx_octets, printed>>
vars == <<program, ofBridge, ofDrain>>

B == INSTANCE TcpBridge
D == INSTANCE TcpDrain

RunsBridge == program = "bridge" /\ UNCHANGED <<program, ofDrain>>
RunsDrain  == program = "drain" /\ UNCHANGED <<program, ofBridge>>

Init ==
  \/ /\ program = "bridge" /\ B!Init
     /\ server = "exited" /\ socket = [c \in Clients |-> "none"] /\ client = socket
     /\ amount = <<>> /\ remaining = <<>>
     /\ flight = <<>> /\ rx_octets = <<>> /\ printed = <<>>
  \/ program = "drain" /\ D!Init /\ B!Init /\ ~prompt

Idle ==
  /\ (program = "bridge" /\ turn # "run") \/ (program = "drain" /\ server = "exited")
  /\ UNCHANGED vars

Next ==
  \/ RunsBridge /\ B!Next
  \/ RunsDrain /\ D!Next
  \/ Idle

Spec == Init /\ [][Next]_vars

\* The bridge's thread handles its events, the raw connection writes; client
\* processes and server threads run, connections are accepted.
Fairness ==
  /\ WF_vars(RunsBridge /\ B!Bridge)
  /\ SF_vars(RunsBridge /\ B!RawEvent)
  /\ WF_vars(RunsBridge /\ B!RawWrites)
  /\ \A c \in Clients :
       /\ WF_vars(RunsDrain /\ D!Client(c))
       /\ WF_vars(RunsDrain /\ D!Thread(c))
       /\ WF_vars(RunsDrain /\ D!AcceptConnection(c))

FairSpec == Spec /\ Fairness

-----------------------------------------------------------------------------
\* The bridge sends the server the stream, given a prompt transport.
StreamIntact == program = "bridge" => B!StreamIntact

\* What the drain server reports of a client is what that has sent.
ReportsAll == program = "drain" => D!ReportsAll

\* The bridge takes what its ring holds and forwards all that it has taken.
Forwards == program = "bridge" => B!Forwards

\* Every client of the drain server ends and is reported.
EveryoneReported == program = "drain" => D!EveryoneReported
=============================================================================
