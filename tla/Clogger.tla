------------------------------- MODULE Clogger -------------------------------
(***************************************************************************)
(* clients/chaos/clogger.c: send very long messages in chunks, with a pause*)
(* after each.  It runs on proton's proactor: pn_proactor_wait() returns a *)
(* batch of events, of the connection or of the proactor itself (timer,    *)
(* interrupt, inactive), in whatever order they are ready.                 *)
(*                                                                         *)
(* A pause is a proactor timer; its event wakes the connection, and the    *)
(* wake event, in a batch of the connection, sends the next chunk.  After  *)
(* every batch the main loop looks at `stop'.                              *)
(*                                                                         *)
(* Proton frees the connection when its transport is gone.  The program    *)
(* keeps its pointers, so a later call through them may do anything: here, *)
(* nothing or a crash.                                                     *)
(***************************************************************************)
EXTENDS Collector, FiniteSets

CONSTANTS
  Limits,             \* the values of -c to consider
  BodyLengths,        \* the values of -s to consider
  RemoteMaxFrames,    \* max-frame-size the peer may announce, 0: none
  DEFAULT_MAX_FRAME,
  MaxGranted,         \* bound: credit the peer grants in all
  MaySignal,          \* SIGINT or SIGQUIT may arrive
  MayClose,           \* the peer may close the connection unasked
  EarlyOutcomes       \* the peer may decide on a message it has not fully received

ASSUME CloggerAssumption ==
  /\ Limits \subseteq Nat
  /\ BodyLengths \subseteq Nat
  /\ RemoteMaxFrames \subseteq Nat
  /\ DEFAULT_MAX_FRAME \in Nat \ {0}
  /\ MaxGranted \in Nat
  /\ MaySignal \in BOOLEAN /\ MayClose \in BOOLEAN /\ EarlyOutcomes \in BOOLEAN

VARIABLES
  limit, presettle, body_length,  \* command line
  turn,        \* "wait", "batch" (of the connection), "exit", "aborted"
  conn,        \* "init", "opening", "open", "closing", "closed"
  link,        \* "attached", "detached": the peer closed the link
  ptrs,        \* "conn": pn_conn is set; "all": pn_ssn and pn_link too; "none"
  events,      \* the connection's events
  wake,        \* pn_connection_wake() has been called
  timer,       \* "off", "armed", "fired"
  interrupt,   \* pn_proactor_interrupt() has been called
  inactive,    \* PN_PROACTOR_INACTIVE has been handled
  stop, armed,
  remote_max_frame,
  pn_dlv,      \* 0, or the number of the delivery being sent
  bytes_sent,
  sent, acked, accepted, not_accepted,
  credit, granted,
  remote,      \* remote state of each delivery
  updated,     \* pn_delivery_updated()
  settled

optVars  == <<limit, presettle, body_length>>
loopVars == <<turn, events, wake, timer, interrupt, inactive>>
connVars == <<conn, link, ptrs, remote_max_frame>>
sendVars == <<pn_dlv, bytes_sent, sent, credit>>
ackVars  == <<acked, accepted, not_accepted, updated, settled>>
peerVars == <<granted, remote>>
vars == <<optVars, loopVars, connVars, stop, armed, sendVars, ackVars, peerVars>>

Deliveries == 1..MaxGranted
Outcomes   == {"accepted", "rejected"}

Min2(a, b) == IF a < b THEN a ELSE b

-----------------------------------------------------------------------------
Init ==
  /\ limit \in Limits /\ presettle \in BOOLEAN /\ body_length \in BodyLengths
  /\ turn = "wait" /\ conn = "init" /\ link = "attached" /\ ptrs = "conn"
  /\ events = <<ConnectionInitEvent>>
  /\ wake = FALSE /\ timer = "off" /\ interrupt = FALSE /\ inactive = FALSE
  /\ stop = FALSE /\ armed = TRUE
  /\ remote_max_frame = DEFAULT_MAX_FRAME
  /\ pn_dlv = 0 /\ bytes_sent = 0
  /\ sent = 0 /\ acked = 0 /\ accepted = 0 /\ not_accepted = 0
  /\ credit = 0 /\ granted = 0
  /\ remote = [d \in Deliveries |-> "none"]
  /\ updated = {} /\ settled = {}

WantsToSend == limit = 0 \/ sent < limit

\* main(), after a batch: with `stop' set the endpoints are closed, once.
\* `next' is the turn if nothing goes wrong.
AfterBatch(next, stopping) ==
  IF stopping /\ ptrs # "none"
  THEN /\ ptrs' = "none"
       /\ conn' = IF conn \in {"init", "opening", "open"} THEN "closing" ELSE conn
       /\ turn' \in IF conn = "closed" THEN {next, "aborted"} ELSE {next}
  ELSE turn' = next /\ UNCHANGED <<conn, ptrs>>

\* start_message() and the pause, with the turn for when it works: it needs
\* the pointers, and there must be no message in process.
StartMessage(dlv, count, bytes) ==
  /\ turn' = IF ptrs = "all" /\ dlv # 0 THEN "aborted" ELSE turn
  /\ timer' = "armed"
  /\ inactive' = FALSE
  /\ IF ptrs = "all" /\ dlv = 0
     THEN pn_dlv' = count + 1 /\ bytes_sent' = 0
     ELSE pn_dlv' = dlv /\ bytes_sent' = bytes

-----------------------------------------------------------------------------
\* pn_proactor_wait() returns the connection's batch; later it is done.
BeginBatch ==
  /\ turn = "wait"
  /\ events # <<>> \/ (wake /\ conn # "closed")
  /\ turn' = "batch"
  /\ UNCHANGED <<optVars, connVars, events, wake, timer, interrupt, inactive>>
  /\ UNCHANGED <<stop, armed, sendVars, ackVars, peerVars>>

EndBatch ==
  /\ turn = "batch" /\ events = <<>> /\ (~wake \/ conn = "closed")
  /\ AfterBatch("wait", stop)
  /\ UNCHANGED <<optVars, events, wake, timer, interrupt, inactive, link, remote_max_frame>>
  /\ UNCHANGED <<stop, armed, sendVars, ackVars, peerVars>>

Dispatch(type) ==
  /\ turn = "batch"
  /\ events # <<>>
  /\ Head(events).type = type
  /\ events' = Tail(events)

\* case PN_CONNECTION_INIT: open the endpoints, through a pointer that a
\* signal may have cleared.
ConnectionInit ==
  /\ Dispatch("PN_CONNECTION_INIT")
  /\ IF ptrs = "none"
     THEN turn' = "aborted" /\ UNCHANGED <<conn, ptrs>>
     ELSE conn' = "opening" /\ ptrs' = "all" /\ UNCHANGED turn
  /\ UNCHANGED <<optVars, wake, timer, interrupt, inactive, link, remote_max_frame>>
  /\ UNCHANGED <<stop, armed, sendVars, ackVars, peerVars>>

\* case PN_CONNECTION_REMOTE_OPEN; the event carries what the peer announced.
RemoteOpen ==
  /\ Dispatch("PN_CONNECTION_REMOTE_OPEN")
  /\ LET rmf == Head(events).dlv IN
       remote_max_frame' = IF rmf # 0 THEN rmf ELSE DEFAULT_MAX_FRAME
  /\ UNCHANGED <<optVars, turn, wake, timer, interrupt, inactive, conn, link, ptrs>>
  /\ UNCHANGED <<stop, armed, sendVars, ackVars, peerVars>>

\* Slip: the test for a message in process is missing.
MayStart_in_process == WantsToSend /\ ptrs = "all" /\ credit > 0

\* The conditions of case PN_LINK_FLOW (a null link has no credit).
MayStart == WantsToSend /\ ptrs = "all" /\ credit > 0 /\ pn_dlv = 0

LinkFlow ==
  /\ Dispatch("PN_LINK_FLOW")
  /\ IF MayStart
     THEN StartMessage(pn_dlv, sent, bytes_sent)
     ELSE UNCHANGED <<turn, timer, inactive, pn_dlv, bytes_sent>>
  /\ UNCHANGED <<optVars, wake, interrupt, connVars, stop, armed>>
  /\ UNCHANGED <<sent, credit, ackVars, peerVars>>

\* Slip: the update is not cleared (as in the other senders).
Clear_forgotten(d) == UNCHANGED updated

Clear(d) == updated' = updated \ {d}

\* case PN_DELIVERY without news.
DeliveryStale ==
  /\ Dispatch("PN_DELIVERY")
  /\ Head(events).dlv \notin updated
  /\ UNCHANGED <<optVars, turn, wake, timer, interrupt, inactive, connVars, stop, armed>>
  /\ UNCHANGED <<sendVars, ackVars, peerVars>>

\* case PN_DELIVERY.  Settling the delivery that is being sent also advances
\* the link past it.
Received(d) ==
  /\ remote[d] = "received"
  /\ UNCHANGED <<acked, accepted, not_accepted, settled, credit>>

Outcome(d) ==
  /\ remote[d] \in Outcomes
  /\ acked' = acked + 1
  /\ accepted' = accepted + (IF remote[d] = "accepted" THEN 1 ELSE 0)
  /\ not_accepted' = not_accepted + (IF remote[d] = "accepted" THEN 0 ELSE 1)
  /\ settled' = settled \union {d}
  /\ credit' = IF d = pn_dlv /\ d \notin settled THEN credit - 1 ELSE credit

Complete == limit > 0 /\ acked' = limit

Delivery ==
  /\ Dispatch("PN_DELIVERY")
  /\ LET d == Head(events).dlv IN
       d \in updated /\ Clear(d) /\ (Received(d) \/ Outcome(d))
  /\ stop' = (stop \/ Complete)
  /\ interrupt' = (interrupt \/ Complete)
  /\ UNCHANGED <<optVars, turn, wake, timer, inactive, connVars, armed>>
  /\ UNCHANGED <<pn_dlv, bytes_sent, sent, peerVars>>

\* send_message_data(): the size of the next chunk.
Amount == Min2(Min2(body_length - bytes_sent, remote_max_frame), DEFAULT_MAX_FRAME)

\* case PN_CONNECTION_WAKE when a chunk is due but the link has no current
\* delivery to send it on: pn_link_send() fails.
WakeFails ==
  /\ turn = "batch" /\ wake
  /\ pn_dlv # 0 /\ bytes_sent < body_length
  /\ ptrs # "all" \/ pn_dlv \in settled
  /\ turn' = "aborted"
  /\ wake' = FALSE
  /\ UNCHANGED <<optVars, events, timer, interrupt, inactive, connVars>>
  /\ UNCHANGED <<stop, armed, sendVars, ackVars, peerVars>>

\* ... when the chunk is not the last one: pause again.
WakeChunk ==
  /\ turn = "batch" /\ wake
  /\ pn_dlv # 0 /\ ptrs = "all" /\ pn_dlv \notin settled
  /\ bytes_sent + Amount # body_length
  /\ bytes_sent' = bytes_sent + Amount
  /\ wake' = FALSE
  /\ timer' = "armed"
  /\ inactive' = FALSE
  /\ UNCHANGED <<optVars, turn, events, interrupt, connVars, stop, armed>>
  /\ UNCHANGED <<pn_dlv, sent, credit, ackVars, peerVars>>

\* Slip: the next message waits for a flow event.
NextMessage_on_flow_only(count, left) ==
  pn_dlv' = 0 /\ bytes_sent' = 0 /\ UNCHANGED <<turn, timer, inactive>>

\* Slip: the pause is requested although no message was started.
NextMessage_pause_always(count, left) ==
  IF (limit = 0 \/ count < limit) /\ ptrs = "all" /\ left > 0
  THEN StartMessage(0, count, 0)
  ELSE /\ pn_dlv' = 0 /\ bytes_sent' = 0
       /\ timer' = "armed" /\ inactive' = FALSE /\ UNCHANGED turn

\* The next message, if it may start: `count' and `left' are the messages
\* sent and the credit by then.
NextMessage(count, left) ==
  IF (limit = 0 \/ count < limit) /\ ptrs = "all" /\ left > 0
  THEN StartMessage(0, count, 0)
  ELSE /\ pn_dlv' = 0 /\ bytes_sent' = 0
       /\ UNCHANGED <<turn, timer, inactive>>

\* ... when it is the last chunk: advance the link, start the next message.
WakeLastChunk ==
  /\ turn = "batch" /\ wake
  /\ pn_dlv # 0
  /\ bytes_sent = body_length \/ (ptrs = "all" /\ pn_dlv \notin settled)
  /\ bytes_sent + Amount = body_length
  /\ wake' = FALSE
  /\ sent' = sent + 1
  /\ credit' = IF ptrs = "all" /\ pn_dlv \notin settled THEN credit - 1 ELSE credit
  /\ settled' = IF presettle THEN settled \union {pn_dlv} ELSE settled
  /\ LET done == presettle /\ limit > 0 /\ sent' = limit IN
       /\ stop' = (stop \/ done)
       /\ interrupt' = (interrupt \/ done)
  /\ NextMessage(sent', credit')
  /\ UNCHANGED <<optVars, events, connVars, armed>>
  /\ UNCHANGED <<acked, accepted, not_accepted, updated, peerVars>>

\* case PN_PROACTOR_TIMEOUT: wake the connection, if the pointer is set.
Timeout ==
  /\ turn = "wait" /\ timer = "fired"
  /\ timer' = "off"
  /\ wake' = (wake \/ (ptrs # "none" /\ conn # "closed"))
  /\ IF ptrs # "none" /\ conn = "closed" /\ ~stop
     THEN turn' \in {turn, "aborted"} /\ UNCHANGED <<conn, ptrs>>
     ELSE AfterBatch("wait", stop)
  /\ UNCHANGED <<optVars, events, interrupt, inactive, link, remote_max_frame>>
  /\ UNCHANGED <<stop, armed, sendVars, ackVars, peerVars>>

\* PN_PROACTOR_INTERRUPT: nothing but the look at `stop'.
Interrupted ==
  /\ turn = "wait" /\ interrupt
  /\ interrupt' = FALSE
  /\ AfterBatch("wait", stop)
  /\ UNCHANGED <<optVars, events, wake, timer, inactive, link, remote_max_frame>>
  /\ UNCHANGED <<stop, armed, sendVars, ackVars, peerVars>>

\* Slip: the main loop is left only when the program still had its pointers.
Leaves_first_time == stop /\ ptrs # "none"

\* What event_handler() returns for PN_PROACTOR_INACTIVE.
Leaves == stop

\* case PN_PROACTOR_INACTIVE: the only way out of the main loop.
Inactive ==
  /\ turn = "wait" /\ conn = "closed" /\ events = <<>> /\ timer = "off" /\ ~inactive
  /\ inactive' = TRUE
  /\ AfterBatch(IF Leaves THEN "exit" ELSE "wait", stop)
  /\ UNCHANGED <<optVars, events, wake, timer, interrupt, link, remote_max_frame>>
  /\ UNCHANGED <<stop, armed, sendVars, ackVars, peerVars>>

\* signal_handler(): at any instant, once.
SignalHandler ==
  /\ MaySignal
  /\ turn \in {"wait", "batch"} /\ armed
  /\ stop' = TRUE /\ armed' = FALSE /\ interrupt' = TRUE
  /\ UNCHANGED <<optVars, turn, events, wake, timer, inactive, connVars>>
  /\ UNCHANGED <<sendVars, ackVars, peerVars>>

-----------------------------------------------------------------------------
\* External: the timer, the transport and the peer.  What is read raises its
\* event for the next batch.
TimerFires ==
  /\ turn \in {"wait", "batch"} /\ timer = "armed"
  /\ timer' = "fired"
  /\ UNCHANGED <<optVars, turn, events, wake, interrupt, inactive, connVars>>
  /\ UNCHANGED <<stop, armed, sendVars, ackVars, peerVars>>

Reads(event) ==
  /\ turn = "wait"
  /\ events' = Put(events, event)
  /\ UNCHANGED <<optVars, turn, wake, timer, interrupt, inactive>>
  /\ UNCHANGED <<ptrs, remote_max_frame, stop, armed, pn_dlv, bytes_sent, sent>>
  /\ UNCHANGED <<acked, accepted, not_accepted, settled>>

PeerOpen(rmf) ==
  /\ conn = "opening"
  /\ Reads(Event("PN_CONNECTION_REMOTE_OPEN", rmf))
  /\ conn' = "open"
  /\ UNCHANGED <<link, credit, updated, peerVars>>

\* Credit, or (n = 0) a flow frame or a write that changes nothing.
PeerFlow(n) ==
  /\ conn \in {"open", "closing"} /\ link = "attached"
  /\ granted + n <= MaxGranted
  /\ Reads(LinkFlowEvent)
  /\ credit' = credit + n
  /\ granted' = granted + n
  /\ UNCHANGED <<conn, link, updated, remote>>

PeerDisposition(d, state) ==
  /\ conn \in {"open", "closing"} /\ link = "attached"
  /\ d <= sent \/ (EarlyOutcomes /\ d = pn_dlv)
  /\ d \notin settled /\ remote[d] \notin Outcomes /\ remote[d] # state
  /\ Reads(DeliveryEvent(d))
  /\ remote' = [remote EXCEPT ![d] = state]
  /\ updated' = updated \union {d}
  /\ UNCHANGED <<conn, link, credit, granted>>

PeerClose ==
  /\ turn = "wait"
  /\ conn = "closing" \/ (MayClose /\ conn \in {"opening", "open"})
  /\ conn' = "closed"
  /\ UNCHANGED <<optVars, loopVars, link, ptrs, remote_max_frame>>
  /\ UNCHANGED <<stop, armed, sendVars, ackVars, peerVars>>

PeerDetach ==
  /\ turn = "wait" /\ conn = "open" /\ link = "attached"
  /\ link' = "detached"
  /\ UNCHANGED <<optVars, loopVars, conn, ptrs, remote_max_frame>>
  /\ UNCHANGED <<stop, armed, sendVars, ackVars, peerVars>>

-----------------------------------------------------------------------------
Client ==
  \/ BeginBatch \/ EndBatch
  \/ ConnectionInit \/ RemoteOpen \/ LinkFlow \/ DeliveryStale \/ Delivery
  \/ WakeFails \/ WakeChunk \/ WakeLastChunk
  \/ Timeout \/ Interrupted \/ Inactive

Peer ==
  \/ \E rmf \in RemoteMaxFrames : PeerOpen(rmf)
  \/ \E n \in 0..MaxGranted : PeerFlow(n)
  \/ \E d \in Deliveries : \E state \in {"received"} \union Outcomes : PeerDisposition(d, state)
  \/ PeerClose
  \/ PeerDetach

\* The process is gone.
Ended == turn \in {"exit", "aborted"} /\ UNCHANGED vars

Next == Client \/ SignalHandler \/ TimerFires \/ Peer \/ Ended

Spec == Init /\ [][Next]_vars

\* One thread that is never blocked while a batch is ready, a proactor that
\* returns every ready batch in the end (the timer's and the interrupt's too,
\* however busy the connection), a timer that fires, and a peer that opens,
\* grants credit, settles and answers a close.
PeerOpens   == \E rmf \in RemoteMaxFrames : PeerOpen(rmf)
PeerGrants  == \E n \in 1..MaxGranted : PeerFlow(n)
PeerSettles == \E d \in Deliveries : \E state \in Outcomes : PeerDisposition(d, state)
PeerAnswers == conn = "closing" /\ PeerClose

Fairness ==
  /\ WF_vars(Client)
  /\ SF_vars(BeginBatch)
  /\ SF_vars(Timeout)
  /\ SF_vars(Interrupted)
  /\ WF_vars(TimerFires)
  /\ SF_vars(PeerOpens)
  /\ SF_vars(PeerGrants)
  /\ SF_vars(PeerSettles)
  /\ SF_vars(PeerAnswers)

FairSpec == Spec /\ Fairness

-----------------------------------------------------------------------------
\* The program never takes one of its abort() branches (start_message() with
\* a message in process, send_message_data() when the link refuses the chunk)
\* and never crashes on a pointer that is null or freed.
NoAbort == turn # "aborted"

\* A message in process has exactly one continuation on its way, the timer
\* or the wake it caused, and without a message there is none.  A wake always
\* finds a message in process: send_message_data() never takes its early
\* return `if (!pn_dlv) return true', which has no action here.
OneContinuation ==
  /\ wake => pn_dlv # 0
  /\ turn \in {"wait", "batch"} /\ ptrs = "all" /\ conn # "closed" =>
       /\ pn_dlv # 0 <=> (timer # "off" \/ wake)
       /\ ~(timer # "off" /\ wake)

\* An idle client with messages left has neither credit nor work.
NoIdleCredit ==
  turn = "wait" /\ conn = "open" /\ events = <<>> /\ ~wake /\ WantsToSend /\ ~stop
    => credit = 0 \/ timer # "off"

\* Each outcome is counted once although a delivery may raise several events.
OutcomesCountedOnce ==
  ~presettle => /\ accepted = Cardinality({d \in settled : remote[d] = "accepted"})
                /\ not_accepted = Cardinality({d \in settled : remote[d] = "rejected"})
                /\ acked = Cardinality(settled)

\* A client with a limit ends, unless the peer detaches its link; and once
\* stopped it ends in any case: "close the endpoints this will cause
\* pn_reactor_process() to eventually break the loop" (main).  An abort()
\* ends it too.
Terminates ==
  /\ (limit > 0) ~> (turn \in {"exit", "aborted"} \/ link = "detached")
  /\ stop ~> (turn \in {"exit", "aborted"})

\* The clogger implements the abstract bulk transfer.
Bulk == INSTANCE BulkSend WITH
  sent <- sent,
  known <- IF presettle THEN {} ELSE settled,
  done <- limit > 0 /\ (IF presettle THEN sent ELSE acked) = limit

ImplementsBulkSend == Bulk!Spec
=============================================================================
