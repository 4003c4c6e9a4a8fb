# A TLA+ verification of the dispatch-tester clients

dispatch-tester is a collection of AMQP load generators, sinks and fake
servers used to exercise the qpid-dispatch and skupper routers. Each program
is, with few exceptions, one event loop around qpid-proton: it grants or spends link credit, counts
messages and outcomes, and decides from its counters when to stop. What can go
wrong is in that bookkeeping: credit and outcomes arrive in any order, several
frames are read before the first event is handled, a signal arrives at any
instant, and the decision to stop compares counters for equality. This
directory models those programs in TLA+, checks them with TLC and proves the
main results with TLAPS.

Paths below are relative to the repository (`src/` in PROJECT.json).

## Inventory

| Component | State | Operations | Hard part | Module |
|---|---|---|---|---|
| `benchmarks/clients/src/sender.c` | `count`, `acked`, `accepted`, `not_accepted`, stall and grant statistics, time stamps, `stop` | send a batch per flow event, count outcomes, stop on the last | several events per delivery, flow events without credit, equality test | `Sender` |
| `benchmarks/clients/src/blocking-sender.c` | the same and `pending_ack` | `send_msg` from flow and from outcome | who triggers the next message; a stale event clears `pending_ack` | `BlockingSender` |
| `benchmarks/clients/src/latency-sender.c` | `pending_ack`, `send_ts`, latency sums | `send_msg`, record a latency per outcome | one global `send_ts` for all messages | `LatencySender` |
| `benchmarks/clients/src/throughput-sender.c` | counters, `start_ts`, `stop_ts` | batches, stop clock on last outcome or signal | the signal handler stops a clock the loop starts | `ThroughputSender` |
| `benchmarks/clients/src/receiver.c` | `count`, credit window | accept a complete message, top up credit at half the window | events handled after later frames were applied; aborted messages; small windows | `Receiver` |
| `clients/chaos/clogger.c` | `pn_dlv`, `bytes_sent`, endpoint pointers, timer, wake | start a message, one chunk per timer, stop | proactor batches in any order; pointers nulled by a stop | `Clogger` |
| `clients/scale/src/sender.c`, `punisher.c`, `receiver.c` | messages left, outcomes awaited, credit | batches per flow event, the last message unsettled, top up below half the window | which event closes; the loop's own end test; integer halves of small windows | `ScaleSender`, `Punisher`, `ScaleReceiver` |
| `skupper-router/clients/session-loader.c`, `link-loader.c` | limits, `session_count`, `link_count`, cycles | open in bulk, begin a message on each link, close with the messages unfinished | credit in any order; local and remote close events handled by one case; who detaches first | `SessionLoader`, `LinkLoader` |
| `skupper-router/clients/amqp_link_scale/*.c` | per link contexts, `closed_links`, message count | a message per link in pieces, close with its outcome; drain, settle, give credit back | several events per delivery; frames read before events are handled | `LinkSender`, `LinkReceiver` |
| `skupper-router/oomster/*.c` | per link deliveries, bytes sent, session windows | huge messages within the peer's window; credit and never reading | null deliveries; several links in one window; products of 32-bit numbers | `OomSender`, `OomReceiver` |
| `skupper-router/clients/amqp-tcp-bridge.c` | ring of buffers, two connections, a context | fill, give to the raw connection, take back, wake | order of slots, wakes that carry no link, who frees the context | `TcpBridge` |
| `skupper-router/clients/drain-server.c`, `spout-client.c` | a thread and its byte count per connection; bytes left to send | accept, receive to the end, report; send in a loop | short sends, failing calls, threads, wrap of a scaled count | `TcpDrain` |
| `benchmarks/clients/src/latency-receiver.c` | as `receiver.c`, latency sums | as `receiver.c`; decode a time stamp; fatal exits | unreadable and aborted messages | `LatencyReceiver` |
| `benchmarks/clients/src/throughput-receiver.c` | as `receiver.c`; time stamps; listener, connection and endpoint pointers | as `receiver.c`; in server mode take one connection, session and link | lost connections, freed pointers, reading aborted messages | `ThroughputReceiver` |
| `benchmarks/clients/src/chunked-sender.c` | four links with an offset each, counters | a chunk per flow event while the session has little to write | which event comes next when one is spent on nothing | `ChunkedSender` |
| `benchmarks/clients/src/server.c` | a fake broker's links | grant, accept, send | | not modelled |
| `benchmarks/clients/src/multi-flow-sender.c` | | | unfinished | not modelled |
| `clients/*.py`, smoke tests, scripts, router configurations, certificates, stress scripts | | | | not modelled |

The programs interact only through AMQP: a sender's peer is a router or a
receiver that grants credit and reports dispositions; a receiver's peer is a
router or a sender. Within a program everything runs on one thread, except
that a signal handler may run between any two instructions. The concurrency is
therefore between the program, the signal, proton's transport (which writes
buffered transfers and raises flow events of its own) and the peer. The drain
server is different: it has a thread per connection.

What makes each part correct:

- a sender spends exactly the credit it is given, uses credit it has, counts
  each outcome once and as what it was, and stops exactly when it is done;
- a blocking or latency sender has one message outstanding, and measures the
  message it means to measure;
- a receiver keeps its peer within the window and never without credit, counts
  no message before it is over and forgets none;
- a loader closes sessions and links with a message in flight on each, and
  counts each close once;
- the out-of-memory clients stay within the peer's window, and bring it to a
  stand;
- a bridge forwards the stream it accepted, in order and nothing twice; a sink
  reports what was sent;
- every client ends: when its work is done, and whenever it is told to stop.

## The event machinery

`Collector` is proton's event queue: `Put` drops an event equal to the newest
one queued, which is what `pn_collector_put` does and why a delivery may or may
not have two events waiting.

`ReactorLoop` is `while (pn_reactor_process(reactor)) {...}`. `turn` says where
the thread is: `"drain"` dispatches queued events one at a time (`Dispatch`),
`"io"` lets the transport and the peer act, then `MainLoop` runs the body of
the loop, which closes the endpoints if `stop` is set. All frames of one `"io"`
phase are applied before the first of their events is handled; a handler thus
sees the state of the moment and not of the event. `Signal` is the handler of
SIGINT and SIGQUIT, enabled at any time until it has run once (it then sets
both to `SIG_IGN`). The handshaker answers the peer's close and detach.

`SendingLink` adds the sending end of a link and its peer: grants (also of
nothing, as an echo), transport writes, dispositions. `informs` says whether
the peer may send an informational disposition (PN_RECEIVED) before the outcome;
it is chosen at the start and most runs consider both kinds of peer. With an
informing peer a delivery may have two events in the queue that both find the
outcome, and the reactor clients, which never clear `pn_delivery_updated()`,
count it twice (see the observations below); the properties about counting say
`~informs`, the other invariants and the refinements hold of every peer.
`"rejected"` stands for every outcome that is not accepted, because every client
treats them alike. A delivery settled without a state takes the same branch in
the benchmark senders. The scale clients first ask for a state: `Ignored` in
`ScaleSender` and `Punisher` is a settlement without one (`"stateless"`), which they
leave alone, and `Unknown` in `Punisher` is a state the code has no name for, which
it counts and does not settle. `PeerForgets` is the peer that sends these.

`Clogger` uses the proactor instead: a batch belongs to the connection or is a
single timer, interrupt or inactive event, and any ready batch may come next.

`ProactorLinks` is the same for the proactor clients that open many links. It
has the batch loop, the interrupt a signal raises, and for every link its
state at both ends, its credit, its current delivery and what the transport has
not written. Between two batches the peer may act several times (`MaxEvents`
bounds the events of one read), so handlers again see the state of the moment.
`session-loader.c` and the others extend it, each with its own variables.
What a peer may do is chosen at the start, and properties name the kind of peer
they speak of: `unasked` (it may close a link or a session of its own accord),
`informs` (as above) and `fragments` (it may send a message in several frames).
A message may also be aborted by its sender (`aborted` in `LinkReceiver`).

`TcpBridge` has one context of the bridge: the AMQP connection, its link with one
delivery that carries the stream, the ring, and the raw connection, which takes
up to 16 buffers (`WriteMax`), writes them and gives them back. A wake of the
AMQP connection makes the handler go on with the raw connection, but receives nothing: it is
a connection event, which has no link to receive from. `prompt` says
whether it writes what it is given before its next event; which of the handlers
runs next is free. `TcpDrain` has the server, its threads and several clients,
TCP connections of a bounded capacity, and the failure of each call that the
code tests.

`BulkSend` is the abstract specification: messages are sent, outcomes become
known, and the transfer is declared done exactly when all messages are sent
and every outcome that is due is known.

In every module an action is one `case` of `event_handler()` with the calls it
makes (`send_msg`, `start_message`, `send_message_data`, the settling, the final
comparison), split only where the code branches; PROJECT.json's `map` gives the
lines. Operators named `X_slip`, introduced by a comment that begins `Slip`, are
wrong variants of the operator `X`: each property is shown to fail under one of
them.

Abstracted: message contents and encoding (a delivery is a number), the values
of clocks (a time stamp is taken or not, or its place in the order; a latency
sample is the pair of messages it relates), debug output, option parsing
(the options are chosen by `Init` from given sets) and the printed reports.

## Runs

The reactor senders are checked with limits 0 (no end) to 2, up to 2 credits
granted in any split, and both kinds of peer: two messages can be in flight with
their outcomes out of order, a batch can be split over two grants with a stall
between them, a limit of 1 makes the first message the last one, and 2 credits
for 1 message leave credit over. Two deliveries are also what the informing
peer needs: the event of the second one between the two of the first defeats
the collector's removal of repeated events. The runs whose module begins with
`MC` check several programs in one state space: a variable `program` says which
of them was started, and the variables of the others keep their first value.

| Run | Module | Shows |
|---|---|---|
| `sender` | `Sender` | credit is spent exactly (`CreditSpent`) and never idle (`NoIdleCredit`); outcomes are counted once (`OutcomesCountedOnce`); the shutdown comes when all is acked (`CompleteMeansAllAcked`); the grant and stall statistics are right (`GrantsAddUp`); it implements `BulkSend`; it ends when done and after every stop (`Terminates`) |
| `measuring_senders` | `MCMeasuringSenders` of `LatencySender`, `ThroughputSender`, `BlockingSender` | with a peer that sends one disposition per delivery, each latency is of the message's own send and ack (`OwnLatency`), the measured span covers the transfer unless a signal stops the clock (`SpansTheTransfer`), and the blocking sender has one message outstanding (`OneOutstanding`); with every peer, no needless waiting (`NeverIdle`) and `BulkSend`; all end |
| `receiver` | `Receiver` | windows 1 to 3, limits 0 to 3, four messages in one or more frames, some aborted: window respected (`WindowRespected`) and never starved (`NeverStarves`), none counted before its peer has ended it, by the last frame or by an abort (`OnlyEndedMessages`), none forgotten (`NoMessageForgotten`), it ends at the limit and after every stop |
| `clogger` | `Clogger` | bodies of 0, 1 and several chunks (frame sizes 2 and 3), several dispositions per delivery: no abort (`NoAbort`), exactly one continuation of the message in process (`OneContinuation`), credit used, outcomes counted once, `BulkSend` |
| `clogger_stop` | `Clogger` | it ends when done and after a signal at any instant, by exit or by abort |
| `reactor_clients` | `MCReactorClients` of `ScaleSender`, `Punisher`, `ScaleReceiver`, `LatencyReceiver`, `ThroughputReceiver`, `ChunkedSender` | the senders close only when everything is sent and the outcomes they wait for are in (`ClosesAfterAll`); the receivers settle every full message, keep their peers in credit and within the window, count no aborted message where they read it, and measure the whole transfer (`KeepsPace`); credit is used (`NoIdleCredit`); `BulkSend`; all end, with the exceptions the property names (`Terminates`) |
| `proactor_clients` | `MCProactorClients` of the two loaders, `LinkSender`, `LinkReceiver`, `OomSender`, `OomReceiver` | sessions and links are closed with a message in flight on each link (`ClosesInFlight`); what each client counts is what happened, the link scale clients never less and, with one event per delivery, never more (`CountsRight`); the buffered octets stay within the peer's window (`WithinWindow`); the clients that should end do, and a signal ends every one (`Terminates`); the router is brought to a stand (`PushesBack`) |
| `tcp` | `MCTcp` of `TcpBridge`, `TcpDrain` | the server behind the bridge gets the stream in order and whole, and the context goes with the last connection (`StreamIntact`); as much as the ring holds is taken from the link, and all that is taken is forwarded (`Forwards`); the drain server reports what a client sent (`ReportsAll`), and every client unless the server or its thread fails (`EveryoneReported`) |

The liveness of the clogger has a run of its own, with one message of two
chunks, because the signal multiplies the states and breaks `NoAbort`. More
messages and larger windows make no difference to the code beyond these bounds:
a batch loop, a half-window test and a chunk loop each meet their zero, one,
exact and off-by-one cases. For the sender and the receiver the proofs below
remove the bounds altogether.

`Clogger*.cfg` turn deadlock checking off because the program really may wait
for ever: it has no case for a detached link, and after an inactive event that
found `stop` unset there is nothing left to wait for. `OomSenderCrash.cfg` turns
it off because the process may have ended. In the other runs deadlock is checked
(a process that has exited stutters).

The bounds of the later runs:

- `reactor_clients`: as the reactor senders and the receiver above, with three
  messages for the receivers. `throughput-receiver.c` has a window of 2, two
  messages, and two connections to its listener, the second of which is
  rejected. `chunked-sender.c` has 2 links, messages of 2 chunks, at most 2 events
  per read, and 3 flow frames with a high-water mark of 2 chunks (1024 bytes are
  16 chunks): one frame more than the mark is what it takes for an event to
  find the session full. The frames may be used up on echoes, which grant
  nothing; `Terminates` excepts a client left without credit this way
  (`Starved`), which is the model's bound and not the program's.
- `proactor_clients`: 1 or 2 links per session; up to 3 sessions, 4 links in all
  (`session-loader.c` opens the next session from the close of the one before,
  and so meets its first, middle and last); 2 cycles of the link loader; one
  credit per link, for one message each; up to 3 events per read (2 for
  `oom-sender.c`, 4 for `link-receiver.c`), so that both close events, or two events of one delivery,
  are raised together; messages of 1 or 2 pieces; 2 messages per link with a
  window of 2 credits. Four events are the two of an aborted delivery of
  `link-receiver.c`, kept apart by one of another link, and the first of the next message. For `oom-sender.c` a body of 3 octets in batches of 2
  (the last one short), a header of 1, frames of 2 and windows of 0 and 1 frame:
  the window is smaller than, equal to and larger than what is to be sent. For
  `oom-receiver.c` `-W` 2 or 3 and words of 4 values, which makes the product of
  `-W` and `-l` wrap.
- `tcp`: a ring of 4 slots, of which 3 are usable, a raw connection that takes 2,
  5 buffers of data: the ring wraps, is full and is empty, and the raw
  connection takes less than there is. Two clients of 1 or 3 units times 1 or 2
  in a word of 5 values (6 wraps to 1), 2 units per send and per receive and 2
  in flight.

### Violations

These runs state what a comment, an assertion or a document says, and TLC
shows the code doing otherwise. Details and quotations are in PROJECT.json.

| Run | What happens |
|---|---|
| `blocking_sender_interim` | the second event of a delivery clears `pending_ack` for another message, and a third message is sent (3 credits) while the second has no outcome |
| `receiver_grants` | the clipped grant is computed and the unclipped one given |
| `clogger_signal` | a stop in the middle of a message, or before the connection is initialised, ends in `abort()` or a null pointer |
| `oom_sender_crash` | a flow event that finds neither a message in process nor credit makes `oom-sender.c` ask a null delivery for its context |

### Observations

Met while modelling, and the reason for conditions in the properties or for
constants of the modules:

- With an informing peer `sender.c` and `throughput-sender.c` count an outcome
  twice and so stop before the last one is in; `latency-sender.c` records a
  second latency against another message's send time; `latency-sender.c` and
  `blocking-sender.c` may carry `acked` past `limit` before they test the
  equality, and then never stop. Dropping `~informs` from the properties shows
  each of these.
- `clients/scale/src/sender.c` (line 125) and `punisher.c` (line 116) ignore a settlement that
  carries no state and go on waiting for an outcome; the client ends only when
  the peer closes. `Terminates` excepts this peer. The benchmark senders count it.
- `punisher.c` counts a state it does not know without settling the delivery
  (lines 134 to 137); `sender.c` of the same directory settles it.
- `blocking-sender.c` adds the remaining credit to its grant total once per
  message (line 306), so "average credit grant" is not over what was granted.
- `latency-sender.c:387` and `throughput-sender.c:360` print `acked`, which
  includes the messages not accepted, as "Accepted".
- A signal before the first grant stops the clock of `throughput-sender.c`
  before it is started; the difference it reports then wraps. Dropping `armed`
  from `SpansTheTransfer` shows it.
- `receiver.c` counts and accepts a message its sender aborted: an aborted
  delivery is not partial, and the code never asks `pn_delivery_aborted()`. Its
  comment "A full message has arrived" is not true of it, and
  `OnlyEndedMessages` claims no more than that the message is over.
- `clogger.c` settles a message on its outcome also while still sending it, and
  the next chunk ends in `abort()` (`EarlyOutcomes = TRUE` breaks `NoAbort`).
- When the peer closes first, the clogger's only inactive event is spent before
  `stop` is set, and a later signal no longer ends the loop (`MayClose = TRUE`
  breaks `Terminates`).
- `clogger.c`'s `if (!pn_dlv) return true` (line 168) is never taken: a wake
  always finds a message in process. The model has no action for it, and
  `OneContinuation` states why.
- `sender.c` subtracts an `ack_start_ts` that was never taken if no message is
  accepted; `latency-sender.c` divides by `count`, which is 0 if a signal comes
  before the first message and one too many if it comes while an ack is due.
- `punisher.c -c 0 -p`: its usage says of `-c` "0=forever" (line 160), but the
  main loop's test `sent == count` (line 270) holds at once, and the client
  closes without having sent anything. `ClosesAfterAll` leaves this case out.
- `chunked-sender.c` skips a flow event when 1024 bytes wait in the session (line
  249). If the link has nothing of its own to be written, no further event
  comes, and a message that was already counted is never finished. There are
  never more chunks waiting and flow events queued than flow frames were read, so
  this takes more frames than the mark holds chunks, and another link whose chunks
  fill the session (`Flooded(l)`). A link that has the session to itself may find it
  full too, but then its own chunks will raise its next event: `NoIdleCredit`
  covers that case.
- `chunked-sender.c` announces a timer started "before sending the first message"
  (line 23) but never sets `start_ts`; its duration is the time since the epoch.
- `throughput-receiver.c -B` reads until PN_EOS, which an aborted message never
  gives: the loop does not end, and a signal does not end it (`Spins`).
  `latency-receiver.c` exits at such a message; `receiver.c` counts it.
- `throughput-receiver.c -S` ends on the peer's close frame only. If the
  connection is lost it goes on listening, rejects every other connection, and
  waits for a signal (`Abandoned`), upon which it uses endpoints that are freed.
  Every round of the loop after a stop closes the acceptor again, freed or not.
- Without -S, `throughput-receiver.c` takes no `stop_ts` when the peer closes
  before the limit, and the duration it reports wraps.
- `clients/scale/src/receiver.c` with a window of 1 never gives its credit back
  (0 < 0), and its peer is starved after one message; `KeepsPace` and
  `Terminates` speak of windows above 1.
- `session-loader.c` handles the local and the remote close of a session in one
  case. If the peer ends a session while it is being closed, both events find it
  closed at both ends: it is counted twice and freed twice.
- `link-loader.c` never frees a link the peer detaches first: the detach event
  comes before the link is closed here. `link_count` then never comes back to 0,
  or never reaches the limit, and the cycle does not end.
- `link-sender.c` counts a link as closed once per delivery event that finds the
  outcome; with an informing peer it may exit with messages in flight.
- `link-receiver.c` settles, counts and gives credit for a message twice if its
  last frame is read before the event of the first one is handled.
- `link-receiver.c` accepts, counts and gives credit for an aborted message like a full
  one ("or a failure occurred", line 121). If the aborted delivery has a second
  event, which finds it settled, and the next message of the link has begun to
  arrive, the loop that drains it (line 109) has always something pending and never a
  failure: it does not end, nor does a signal end it (`Spins`).
- `oom-sender.c` sends the header of a message outside the window it computes;
  `WithinWindow` allows one header per link.
- `oom-receiver.c` multiplies two 32-bit numbers for the session window; the
  product may wrap, and then the assertion `window >= 2` fails or the window is
  smaller than meant.
- `amqp-tcp-bridge.c` does not compile as it stands (members under two names, a
  brace too many). Read as it evidently means: a wake or a delivery event handled
  after the delivery was settled finds no current delivery (an assertion, or a
  null pointer); the raw handler gives the raw connection again the slots it has
  given and not got back, unless the transport is prompt; the raw connection
  stays open if the AMQP connection goes without detaching its link; a link too
  many is rejected and then used all the same. A wake passes `pn_event_link()` of a
  connection event, a null pointer, to `link_receive()` (line 279), and so receives
  nothing: data that found the ring full stays on the link until another frame of
  the message comes, and for good if that was the last. `Forwards` therefore speaks of
  what is taken, and of as much data as the ring holds.
- `drain-server.c`: a failing `accept()` ends `main()` and all threads with it; a
  thread that returns early (clock or socket option) leaves its socket open, and
  its client blocks when TCP is full.
- `spout-client.c` scales its count in an unsigned long without a test; what it
  sends and reports is the wrapped amount.

## Fairness

- Weak fairness of the client: one thread, which the kernel schedules and
  which never blocks while it has an event.
- Weak fairness of the transport's write: the reactor writes whenever the
  socket takes data.
- Strong fairness of the peer's grants, outcomes and answer to a close: they
  are enabled again and again, between two rounds of event handling, by a peer
  that is up and willing. A router that stops granting credit does stop a
  sender, and the properties do not claim otherwise.
- For the proactor, strong fairness of returning each kind of batch: a timer
  that has fired is not passed over for ever in favour of a busy connection.
- In `proactor_clients`, weak fairness of the client's thread, and strong
  fairness of the interrupt's batch and of what a willing peer and a working
  transport do (write, answer a begin, an end and a detach, grant, settle, send
  when there is credit). Each of these happens finitely often within the bounds,
  so that one condition on their union suffices.
- In `tcp`, weak fairness of the bridge's handlers, of the raw connection's
  writing, of every client, of every thread of the server and of the accept of
  every connection; strong fairness of the raw connection's event, which the
  other connection's events may keep disabling.
- Nothing is assumed of signals, of detaching or of a close nobody asked for.
  `Terminates` excepts a detached link, because no client handles it, and what the
  observations tell of: settlements without a state, the receivers' endless loops, a
  flooded `chunked-sender.c`, a lost connection of `throughput-receiver.c -S`.

## Proofs

What TLC showed on small instances is proved here for every value of the constants:
every set of limits and windows, every bound on credit and on messages.

`CommonProofs` has the facts about the queue: what `Put` and `Tail` do to
membership (`Queued`), to uniqueness (`Once`), to order and to the number of events of
a type (`EventsOf`); and the facts about sums of a function over a finite set (`SumType`,
`SumAtLeast`, `SumExcept`). The latter are proved from the fold that defines the
sum, by induction on the size of a set of elements (`NatStep` turns the induction
into a statement about a set of numbers, which the provers can use).

`SenderProofs` proves for `sender.c`

- `TypeCorrect` and `SpendsCredit`, by the induction `TypeOK /\ CreditSpent`: a
  batch fits the credit and the limit;
- `UsesItsCredit`, `LosesNoOutcome` and `GrantsAreRight`, for every peer;
- `CountsOutcomesOnce` and `CompletesWhenAllAcked`, whose statements are about
  peers that do not inform;
- the refinement `SenderImplementsBulkSend`, for every peer (with an informing
  one `done` is mapped to what is settled and not to the time stamp).

The inductive invariant is `SenderInv`. Its heart is `EventsOnce` with
`NoOutcomeLost`: of a peer that does not inform the event of a delivery waits in the queue exactly once and
exactly from the outcome to the settlement, so a handled event is the first
and the last of its delivery. `Counted` then follows by adding one element to a
finite set, and `Marks` (the time stamps say exactly which sets are complete)
because a subset of `1..limit` with `limit` elements is `1..limit`.
`CreditHasEvent` is the reason credit is not left idle. The refinement maps
`LinkFlowSend` to `Send`, `Delivery` to `Learn` and the rest to stuttering.

`ReceiverProofs` proves `TypeCorrect`, `KeepsTheWindow`, `CountsEndedMessages`,
`PeerIsNeverStarved` and `ForgetsNoMessage` from `ReceiverInv`: `HalfWindow`
(more than half the window stays granted, by integer division, for every window
of at least 1), `InOrder` (delivery events wait in the order of deliveries) and
`HasEvent` (a complete message has its event waiting), which together mean that
a complete message is current when its event is handled.

`MeasuringSenderProofs` proves for the latency, throughput and blocking senders
`MeasuresOwnLatency`, `MeasuresTheTransfer`, `BlocksOnEachMessage`,
`WaitsWithReason` and the refinement `MeasuringSendersImplementBulkSend`. The first
three are about peers that send one disposition per delivery, the second also
about a transfer that no signal stops; with an informing peer each of them fails, as the
observations say. What the
programs share is proved once: `LinkStep` lists what a handler, the transport or
the peer can do to the link (open, send n messages, settle one and send, write,
grant, report), and it preserves `LinkInv`, again with `EventsOnce` at its heart.
Each program's actions are then shown to be such steps, and to preserve a part of
their own: `LatencyInv` (the time of sending is that of the newest message, which
is the only one without an outcome), `ThroughputInv` (`Stamped`: the stamps are a
function of what is sent and settled), `BlockingInv` (the two stop times say
exactly which sets are complete, and a sender that may send has an event or
something to write that will make it send).

`CloggerProofs` proves `ContinuesOnce`, `UsesItsCredit` and `CountsOutcomesOnce`
for every environment, from `CloggerInv`: what the pointers, the message in
process, the timer and the wake say of each other, and which events wait. Two
theorems have a hypothesis on the environment. `NeverAborts` assumes `Calm`: no
signal, no unasked close, no decision on a message that is not fully sent, because
each of these breaks `NoAbort` by itself (run `clogger_signal` shows the first,
`MayClose` or `EarlyOutcomes` set to TRUE in `Clogger.cfg` the others); the argument, `CalmInv`, is that a
client left alone stops only with nothing in process, so that no timer outlives
the pointers. `CloggerImplementsBulkSend` assumes `~EarlyOutcomes`: the abstract
transfer learns no outcome of what is not sent.

`ReactorClientProofs` proves for the scale clients, the latency and throughput
receivers and the chunked sender `ClosesWhenDone`, `ReceiversKeepPace`,
`SendersUseTheirCredit` and `ReactorSendersImplementBulkSend`. The inductive
invariant `ClientsInv` has a part for each family and one for each program:

- `SenderInv` for `sender.c` and `punisher.c`, along the lines of `LinkInv`;
  `Early` are the messages sent presettled, `Heard` those settled with an outcome.
  `ScaleSenderInv` adds that the outcomes counted down and those heard of make up
  what is waited for, `PunisherInv` that a client that closes is complete. With
  `-p` only the last message of `sender.c` can be heard of, hence it was sent.
- `ChunkedInv`: only deliveries that are begun have chunks, a link or an outcome,
  and the outcome of each is queued once. `ChunkedFed`, proved on top of it, is why a
  link of `chunked-sender.c` is not forgotten: its event is due (`EventDue`), in the
  queue or when a chunk of it has been written. An event could be lost only by
  finding the session full. That takes more than `HighWater` chunks, and every event
  waiting and every chunk unwritten goes back to a flow frame of its own
  (`FewChunks`), as a message in turn does (`Paid`); so it needs a peer that floods
  the client with flow frames, and chunks of another link, the case `NoIdleCredit`
  excepts (`Flooded(l)`): if all that fills the session is of the link itself, writing
  it raises the event.
- `ReceiverInv` for the receivers: `Window`, `Whole` (an incomplete message is
  neither counted nor aborted), `InOrder` and `HasEvent`, preserved by the steps
  `Accepts`, `Ignores`, `Serves`, `Raises`, `Transfers` and `Idles`. On top of it
  `ScaleReceiverInv` (a window of 1 is the only one that can run dry),
  `LatencyInv` (half the window, no aborted message counted) and `ThroughputInv`:
  no delivery waits behind the peer's close (`ClosedLast`), hence the clock that the
  close stops has seen every message (`Clock`).

`ProactorClientProofs` proves for the loaders, the link scale clients and
`oom-sender.c` `LoadersCloseInFlight`, `ClientCountsRight` and `OomSenderWithinWindow`,
for any number of sessions, links and messages. `ClientsInv` is the invariant of
the program that runs:

- `LLInv`: `link-loader.c` is in one of three phases, `NoLinks`, `Beginning` (every
  link is open here, and not all have a message) and `Closing` (every link is closed
  here or freed), whatever the peer detaches in the meantime. Between `Beginning` and
  `Closing` there is nothing, because the handler that begins the last message closes all
  links.
- `SLInv`: with a peer that ends no session unasked, the sessions are used one
  after the other. Only `Cur` is in use, every event waiting is of it and tells its
  state (`SLQueue`), and the links in existence are those of the sessions up to it
  (`SLLinks`).
- `LSInv`: `link-sender.c` frees a delivery with its link closed, and with a peer that
  sends one disposition (`LSOutcomes`) the event of an outcome finds the delivery
  unfreed and is the only one, so that `closed_links` counts links; with any other
  peer it is never less than their number.
- `LRInv`: a message of `link-receiver.c` that is over, full or aborted, is settled or its
  event waits, so that none is missed: `LRCounted` and `LROutstanding` bound the count
  and the credit from below, for every peer. With a peer that sends each
  message in one frame (`LRWhole`) it is never both, so that each is
  counted, and paid for with a credit, once, and the bounds are equalities.
- `OSInv`: what `oom-sender.c` holds is a sum over its links, and headers are added to
  it without a look at the window. `OSBound` names the links whose header went beyond the
  window. Nothing of their message has been written, so the peer cannot settle it and
  the link begins no other, that is, it adds one header only; and a piece of a body is sent only with
  the total back within the window. The sum itself changes at one link per step
  (`SumExcept`).

`TcpProofs` proves `DrainReportsAll` for any number of clients and any sizes: every
octet is still to be sent, in flight or received (`DrainInv`), and a report is made
when the client has ended and nothing is in flight. `BridgeKeepsTheStream` holds
for every size of the ring. The invariant `RingInv` says which stream position each
slot holds, counted back from the producer (`SlotsHoldNewest`), that what was
handed to the raw connection are the oldest slots in order (`HandedInOrder`), and
that the server has the rest (`ServerHasTheRest`); most of the work is in
arithmetic modulo the number of slots. That the stream is intact is claimed, here
as in the model, of a transport that is prompt; `FreedLast` needs no such thing.

The assumptions are those of the modules, which TLC evaluates: limits and bounds
are natural numbers; a window, the number of slots, of links and of chunks, and the
range of an integer are at least 1 (`SendingLinkAssumption`, `ReceiverAssumption`,
`ReactorClientsAssumption`, `TcpAssumption`). `ProactorClientsAssumption` adds two
facts of `oom-sender.c` and of AMQP: the body of a message is larger than a batch of
it, which is what the program is for, and a frame of the peer takes a message header,
a few octets (no peer may ask for frames of less than 512). TLC checked every inductive invariant
on the instances of the runs, and `ClientsInv` also with limits up to 3, windows up
to 4 and 3 credits (5 million states), before it was proved.

Only model-checked:

- the liveness properties (fairness and ENABLED are outside the prover's reach);
  `Terminates` of every program, `Forwards`, `EveryoneReported`, and `PushesBack` of
  `oom-receiver.c`, of which `ProactorClientProofs` therefore says nothing.

Every invariant and every refinement that a passing run checks is proved.

## Not modelled

- `server.c`: its links are independent of each other. The receiving ones top up
  their window as `receiver.c` does, the sending ones spend all credit as
  `sender.c` does without a limit, and a signal ends the loop; both halves are
  modelled and proved about in those programs.
- Peers of `throughput-receiver.c -S` that open a second session or link: the
  code excludes them by assertions (lines 204 and 212).
- Peers of `chunked-sender.c` that send informational dispositions; the effect on
  `acked` is that on `throughput-sender.c`.
- `multi-flow-sender.c`: unfinished, does not compile.
- Of `amqp-tcp-bridge.c` (component status `partly`): a second link on a
  connection and more than one delivery.
- The python clients are callbacks of pyngus, which is not in the repository;
  the stress scripts are socket loops without shared state; smoke tests, router
  configurations and certificates are data and shell.

## Plan

1. Done: `Collector`, `ReactorLoop`, `SendingLink`, `BulkSend`, the benchmark
   senders and receivers, `Clogger`, the scale clients, `ProactorLinks` with the
   loaders, the link scale and the out-of-memory clients, `TcpBridge`, `TcpDrain`;
   `CommonProofs`, `SenderProofs`, `ReceiverProofs`, `MeasuringSenderProofs`,
   `CloggerProofs`, `ReactorClientProofs`, `ProactorClientProofs`, `TcpProofs`.
2. `Bench`: a sender and a receiver joined by a link, end to end, implementing
   an abstract reliable transfer.
3. Several deliveries of the bridge; `server.c`.
