------------------------------ MODULE TcpDrain ------------------------------
(***************************************************************************)
(* skupper-router/clients/spout-client.c and drain-server.c: clients that  *)
(* send an amount of octets over TCP and close, and the server that gives  *)
(* every connection a thread which reads to the end and reports what it    *)
(* got.  Octets are counted in units; clocks and rates are left out, and   *)
(* so is half_close, which shuts the direction nobody uses.  TCP is        *)
(* external.                                                               *)
(***************************************************************************)
EXTENDS Integers, FiniteSets

CONSTANTS
  Clients,
  Counts, Scales,  \* of -c: the number, and what K, M or G stand for
  Word,            \* 2^64: values of an unsigned long
  BUFFER_SIZE,     \* octets of one send() or recv(), at most
  InFlight         \* bound: octets TCP holds

VARIABLES
  server,     \* "accepting", "exited"
  socket,     \* of a client: "none", "connected", "accepted"; what its thread
              \* holds later: "reported", "error", "leaked"
  client,     \* "start", "sending", "done", "failed"
  amount, remaining,
  flight,     \* octets sent and not received
  rx_octets,
  printed     \* octets the server reports of the client

serverVars == <<server, rx_octets, printed>>
clientVars == <<client, amount, remaining>>
vars == <<serverVars, clientVars, socket, flight>>

\* main() of the server: the socket listens.
ServerInit ==
  /\ server = "accepting"
  /\ rx_octets = [c \in Clients |-> 0]
  /\ printed = [c \in Clients |-> 0]

\* main() of a client: -c is scaled in an unsigned long.
ClientInit ==
  /\ client = [c \in Clients |-> "start"]
  /\ \E count \in [Clients -> Counts], scale \in [Clients -> Scales] :
       amount = [c \in Clients |-> (count[c] * scale[c]) % Word]
  /\ remaining = amount

Init ==
  /\ ServerInit /\ ClientInit
  /\ socket = [c \in Clients |-> "none"]
  /\ flight = [c \in Clients |-> 0]

-----------------------------------------------------------------------------
\* spout-client.c.

\* connect(), or the way out.
Connect(c) ==
  /\ client[c] = "start"
  /\ IF server = "accepting"
     THEN /\ client' = [client EXCEPT ![c] = "sending"]
          /\ socket' = [socket EXCEPT ![c] = "connected"]
     ELSE client' = [client EXCEPT ![c] = "failed"] /\ UNCHANGED socket
  /\ UNCHANGED <<amount, remaining, serverVars, flight>>

\* Slip: a short send() is taken for a full one.
Sent_all(c, sent) == IF remaining[c] > BUFFER_SIZE THEN BUFFER_SIZE ELSE remaining[c]

\* What send() returned is subtracted from what remains.
Sent(c, sent) == sent

\* An iteration of run_sender(): send() blocks while TCP is full, and may take
\* less than it is offered.
Send(c) ==
  /\ client[c] = "sending" /\ remaining[c] > 0
  /\ \E sent \in 1..BUFFER_SIZE :
       /\ sent <= remaining[c] /\ flight[c] + sent <= InFlight
       /\ flight' = [flight EXCEPT ![c] = @ + sent]
       /\ remaining' = [remaining EXCEPT ![c] = @ - Sent(c, sent)]
  /\ UNCHANGED <<client, amount, serverVars, socket>>

\* send() fails once the other end is gone.
SendFails(c) ==
  /\ client[c] = "sending" /\ remaining[c] > 0
  /\ socket[c] = "error" \/ server = "exited"
  /\ client' = [client EXCEPT ![c] = "failed"]
  /\ UNCHANGED <<amount, remaining, serverVars, socket, flight>>

\* clock_gettime() fails before or after the loop.
ClockFails(c) ==
  /\ client[c] = "sending" /\ remaining[c] \in {0, amount[c]}
  /\ client' = [client EXCEPT ![c] = "failed"]
  /\ UNCHANGED <<amount, remaining, serverVars, socket, flight>>

\* All is sent; the socket is closed at exit.
Finish(c) ==
  /\ client[c] = "sending" /\ remaining[c] = 0
  /\ client' = [client EXCEPT ![c] = "done"]
  /\ UNCHANGED <<amount, remaining, serverVars, socket, flight>>

-----------------------------------------------------------------------------
\* drain-server.c.

\* What run() comes to before it reads: it returns at once, with its socket
\* open, when setsockopt() or the clock fails.
Starts == {"accepted", "leaked"}

\* accept() and pthread_create().
AcceptConnection(c) ==
  /\ server = "accepting" /\ socket[c] = "connected"
  /\ \E start \in Starts : socket' = [socket EXCEPT ![c] = start]
  /\ UNCHANGED <<server, rx_octets, printed, clientVars, flight>>

\* accept() fails: main() returns, and takes the threads with it.
AcceptFails ==
  /\ server = "accepting"
  /\ server' = "exited"
  /\ UNCHANGED <<rx_octets, printed, clientVars, socket, flight>>

\* An iteration of the loop of run() that received something.
Receive(c) ==
  /\ server = "accepting" /\ socket[c] = "accepted"
  /\ \E received \in 1..BUFFER_SIZE :
       /\ received <= flight[c]
       /\ flight' = [flight EXCEPT ![c] = @ - received]
       /\ rx_octets' = [rx_octets EXCEPT ![c] = @ + received]
  /\ UNCHANGED <<server, printed, clientVars, socket>>

Ended(c) == client[c] \in {"done", "failed"}

\* Slip: the loop goes on after recv() returned 0.
AtEnd_unseen(c) == FALSE

\* recv() returns 0: the client has closed and everything is received.
AtEnd(c) == Ended(c) /\ flight[c] = 0

\* The end of run(): the report, and close().
Report(c) ==
  /\ server = "accepting" /\ socket[c] = "accepted"
  /\ AtEnd(c)
  /\ printed' = [printed EXCEPT ![c] = rx_octets[c]]
  /\ socket' = [socket EXCEPT ![c] = "reported"]
  /\ UNCHANGED <<server, rx_octets, clientVars, flight>>

\* recv() fails, or the clock at the end: the error is printed, and close().
ReceiveFails(c) ==
  /\ server = "accepting" /\ socket[c] = "accepted"
  /\ socket' = [socket EXCEPT ![c] = "error"]
  /\ UNCHANGED <<server, rx_octets, printed, clientVars, flight>>

Client(c) == Connect(c) \/ Send(c) \/ SendFails(c) \/ Finish(c)

Thread(c) == Receive(c) \/ Report(c)

Next ==
  \/ AcceptFails
  \/ \E c \in Clients : Client(c) \/ ClockFails(c) \/ Thread(c) \/ AcceptConnection(c) \/ ReceiveFails(c)

-----------------------------------------------------------------------------
\* What the server reports of a client is what the client has sent, and never
\* more than it was to send; of a client that finished, it is all of it.
ReportsAll ==
  \A c \in Clients :
    /\ rx_octets[c] + flight[c] + remaining[c] = amount[c]
    /\ socket[c] = "reported" =>
         /\ printed[c] = amount[c] - remaining[c]
         /\ client[c] = "done" => printed[c] = amount[c]

\* Every client ends and is reported, unless the server ends or the thread of
\* the client failed: one that failed at the start leaves its socket open and
\* the client waits for it without end.
EveryoneReported ==
  \A c \in Clients :
    <>(\/ Ended(c) /\ socket[c] = "reported"
       \/ server = "exited" \/ socket[c] \in {"error", "leaked"})
=============================================================================
