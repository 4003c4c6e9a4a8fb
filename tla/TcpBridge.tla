------------------------------ MODULE TcpBridge ------------------------------
(***************************************************************************)
(* skupper-router/clients/amqp-tcp-bridge.c: what arrives on the link of   *)
(* an AMQP connection is put into a ring of buffers and written to a raw   *)
(* (TCP) connection.  One context is modelled: a connection, its link, a   *)
(* delivery that carries the stream, and the raw connection.  The data of  *)
(* the stream is numbered, a number for what one buffer holds.             *)
(*                                                                         *)
(* The file does not compile as it stands (members and variables under     *)
(* two names, a brace too many); the module follows what it evidently      *)
(* means.  Proton, the peer and the TCP server are external.               *)
(***************************************************************************)
EXTENDS Integers, Sequences

CONSTANTS
  SlotCount,  \* SLOT_COUNT
  WriteMax,   \* write buffers a raw connection takes (16)
  MaxData     \* bound: buffers full of data the peer sends

VARIABLES
  turn,       \* "run", "exit"; "assert": raw_write_drain() failed; "nodelivery"
  stop, armed,
  prompt,     \* the transport writes what it is given before the next raw event
  amqp_conn,  \* "null", "open", "closing" (by us); "null" again when it is closed
  amqp_link,  \* "null", "open"; "null" again when it is closed
  raw_conn,   \* "null", "up", "closing", "gone" (null again)
  freed,      \* the context is freed
  delivery,   \* "none", "partial", "complete", "settled"
  arrived,    \* data arrived at the link
  taken,      \* data of it read from the link
  producer_slot, consumer_slot, buffers,
  given,      \* slots in the hands of the raw connection
  written,    \* slots it has written and not given back
  out,        \* the data written to the server
  events      \* events to be handled: "delivery", "wake", "raw"

bridgeLoop == <<turn, stop, armed, prompt>>
ends       == <<amqp_conn, amqp_link, raw_conn, freed>>
input      == <<delivery, arrived, taken>>
ring       == <<producer_slot, consumer_slot, buffers>>
output     == <<given, written, out>>
vars == <<bridgeLoop, ends, input, ring, output, events>>

Slots == 0..(SlotCount - 1)

\* main(): nothing is connected yet.
Init ==
  /\ turn = "run" /\ stop = FALSE /\ armed = TRUE
  /\ prompt \in BOOLEAN
  /\ amqp_conn = "null" /\ amqp_link = "null" /\ raw_conn = "null" /\ freed = FALSE
  /\ delivery = "none" /\ arrived = 0 /\ taken = 0
  /\ producer_slot = 0 /\ consumer_slot = 0
  /\ buffers = [s \in Slots |-> 0]
  /\ given = <<>> /\ written = <<>> /\ out = <<>>
  /\ events = {}

next_slot(slot) == (slot + 1) % SlotCount

\* Slips: a full ring is not recognised; a ring is full with two slots left.
slots_full_never(producer, consumer) == FALSE
slots_full_early(producer, consumer) == next_slot(next_slot(producer)) = consumer

slots_full(producer, consumer) == next_slot(producer) = consumer

slots_empty(producer, consumer) == producer = consumer

RawUp == raw_conn \in {"up", "closing"}

\* Slots in use, and n slots from `slot' on, in the order of the ring.
Used(producer, consumer) == (producer - consumer) % SlotCount
From(slot, n)            == [i \in 1..n |-> (slot + i - 1) % SlotCount]

\* raw_write_drain(): the written buffers come back in the order of the ring,
\* or its assertion fails.
InOrder == written = From(consumer_slot, Len(written))
Drained == (consumer_slot + Len(written)) % SlotCount

-----------------------------------------------------------------------------
\* The handlers; each leaves `stop' and `armed' alone.

\* PN_LISTENER_ACCEPT, and the open of the connection and its session.
Accept ==
  /\ turn = "run" /\ amqp_conn = "null" /\ raw_conn = "null" /\ ~freed
  /\ amqp_conn' = "open"
  /\ UNCHANGED <<bridgeLoop, amqp_link, raw_conn, freed, input, ring, output, events>>

connect_raw == raw_conn' = "up" /\ events' = {"raw"}

\* PN_LINK_REMOTE_OPEN: credit for the link, and connect_raw().
LinkRemoteOpen ==
  /\ turn = "run" /\ amqp_conn = "open" /\ amqp_link = "null" /\ raw_conn = "null" /\ delivery = "none"
  /\ amqp_link' = "open"
  /\ connect_raw
  /\ UNCHANGED <<bridgeLoop, amqp_conn, freed, input, ring, output>>

\* link_receive(): data is moved to the ring until one of them runs out.
\* `consumer' is the consumer slot after draining.
Receive(consumer) ==
  LET fits(k) == \A i \in 0..(k - 1) : ~slots_full((producer_slot + i) % SlotCount, consumer)
      n == CHOOSE k \in 0..(arrived - taken) :
             fits(k) /\ (k = arrived - taken \/ ~fits(k + 1)) IN
  /\ taken' = taken + n
  /\ producer_slot' = (producer_slot + n) % SlotCount
  /\ buffers' = [s \in Slots |->
       IF \E i \in 1..n : From(producer_slot, n)[i] = s
       THEN taken + (CHOOSE i \in 1..n : From(producer_slot, n)[i] = s /\
                       \A j \in i + 1..n : From(producer_slot, n)[j] # s)
       ELSE buffers[s]]

\* The common part of PN_DELIVERY and PN_CONNECTION_WAKE.  The delivery may be
\* settled already: the assertion of the one fails, the other uses a null
\* delivery.  A wake has no link, from which therefore nothing is received:
\* it makes room in the ring, and the data stays on the link.
TakeDelivery(e) ==
  /\ turn = "run" /\ e \in events /\ amqp_link = "open"
  /\ LET drains == arrived > taken /\ RawUp IN
     \/ /\ delivery = "settled"
        /\ turn' = "nodelivery"
        /\ events' = events \ {e}
        /\ UNCHANGED <<taken, delivery, ring, written>>
     \/ /\ delivery \in {"partial", "complete"}
        /\ consumer_slot' = IF drains THEN Drained ELSE consumer_slot
        /\ written' = IF drains THEN <<>> ELSE written
        /\ turn' = IF drains /\ ~InOrder THEN "assert" ELSE turn
        /\ \/ e = "delivery" /\ Receive(consumer_slot')
           \/ e = "wake" /\ UNCHANGED <<taken, producer_slot, buffers>>
        /\ events' = (events \ {e}) \union (IF taken' > taken /\ RawUp THEN {"raw"} ELSE {})
        /\ delivery' = IF delivery = "complete" /\ taken' = arrived THEN "settled" ELSE delivery
  /\ UNCHANGED <<stop, armed, prompt, ends, arrived, given, out>>

Delivery == TakeDelivery("delivery")

\* PN_CONNECTION_WAKE: nothing is done for a link that is closed.
Wake ==
  \/ TakeDelivery("wake")
  \/ /\ turn = "run" /\ "wake" \in events /\ amqp_link = "null"
     /\ events' = events \ {"wake"}
     /\ UNCHANGED <<bridgeLoop, ends, input, ring, output>>

WasFull == slots_full(producer_slot, consumer_slot)

\* raw_send(): every slot from the consumer's on, as many as the raw
\* connection takes; also those it has been given before and not given back.
Sends ==
  LET used  == Used(producer_slot, consumer_slot')
      avail == WriteMax - Len(given) IN
  From(consumer_slot', IF used <= avail THEN used ELSE avail)

\* Any event of the raw connection but the last.
RawEvent ==
  /\ turn = "run" /\ "raw" \in events /\ RawUp
  /\ prompt => given = <<>>
  /\ turn' = IF InOrder THEN turn ELSE "assert"
  /\ consumer_slot' = Drained
  /\ written' = <<>>
  /\ given' = given \o Sends
  /\ LET closes == slots_empty(producer_slot, consumer_slot') /\ amqp_link = "null"
         wakes  == ~closes /\ WasFull /\ ~slots_full(producer_slot, consumer_slot') IN
       /\ raw_conn' = IF closes THEN "closing" ELSE raw_conn
       /\ events' = (events \ {"raw"}) \union
                      (IF wakes /\ amqp_conn # "null" THEN {"wake"} ELSE {})
  /\ UNCHANGED <<stop, armed, prompt, amqp_conn, amqp_link, freed, input, producer_slot, buffers, out>>

\* PN_RAW_CONNECTION_DISCONNECTED, by the server or after our close: the other
\* connection is closed; the context is freed with the last of the two.
RawDisconnected ==
  /\ turn = "run" /\ RawUp
  /\ raw_conn' = "gone"
  /\ events' = events \ {"raw"}
  /\ freed' = (amqp_conn = "null")
  /\ amqp_conn' = IF amqp_conn = "open" THEN "closing" ELSE amqp_conn
  /\ UNCHANGED <<bridgeLoop, amqp_link, input, ring, output>>

\* PN_LINK_REMOTE_CLOSE: data that was not read goes with the link.
LinkRemoteClose ==
  /\ turn = "run" /\ amqp_conn # "null" /\ amqp_link = "open"
  /\ "delivery" \notin events
  /\ amqp_link' = "null"
  /\ UNCHANGED <<bridgeLoop, amqp_conn, raw_conn, freed, input, ring, output, events>>

\* PN_CONNECTION_REMOTE_CLOSE, after the events raised before it.
ConnectionRemoteClose ==
  /\ turn = "run" /\ amqp_conn # "null"
  /\ events \subseteq {"raw"}
  /\ amqp_conn' = "null"
  /\ freed' = ~RawUp
  /\ UNCHANGED <<bridgeLoop, amqp_link, raw_conn, input, ring, output, events>>

\* signal_handler(), and the loop that looks at `stop' after each batch.
SignalHandler ==
  /\ turn = "run" /\ armed
  /\ armed' = FALSE /\ stop' = TRUE
  /\ UNCHANGED <<turn, prompt, ends, input, ring, output, events>>

MainLoop ==
  /\ turn = "run" /\ stop
  /\ turn' = "exit"
  /\ UNCHANGED <<stop, armed, prompt, ends, input, ring, output, events>>

Bridge == Delivery \/ Wake \/ RawEvent \/ MainLoop

-----------------------------------------------------------------------------
\* External: the peer sends a frame, with data or only to end the message.
PeerTransfers(data, more) ==
  /\ turn = "run" /\ amqp_conn # "null" /\ amqp_link = "open"
  /\ delivery \in {"none", "partial"}
  /\ data = 0 => ~more
  /\ arrived + data <= MaxData
  /\ arrived' = arrived + data
  /\ delivery' = IF more THEN "partial" ELSE "complete"
  /\ events' = events \union {"delivery"}
  /\ UNCHANGED <<bridgeLoop, ends, taken, ring, output>>

\* External: the raw connection writes its oldest buffer.
RawWrites ==
  /\ turn = "run" /\ RawUp /\ given # <<>>
  /\ out' = Append(out, buffers[Head(given)])
  /\ written' = Append(written, Head(given))
  /\ given' = Tail(given)
  /\ events' = events \union {"raw"}
  /\ UNCHANGED <<bridgeLoop, ends, input, ring>>

Next ==
  \/ Accept \/ LinkRemoteOpen \/ Bridge \/ RawDisconnected \/ LinkRemoteClose
  \/ ConnectionRemoteClose \/ SignalHandler \/ RawWrites
  \/ \E data \in 0..1, more \in BOOLEAN : PeerTransfers(data, more)

-----------------------------------------------------------------------------
\* With a prompt transport the server gets the stream, in order, nothing
\* twice, nothing overwritten, and the buffers come back in the order of the
\* ring (the assertion of raw_write_drain() holds).  The context, with the
\* buffers, is freed when both connections are gone and not before.
StreamIntact ==
  /\ prompt => turn # "assert" /\ \A i \in 1..Len(out) : out[i] = i
  /\ freed => amqp_conn = "null" /\ ~RawUp
  /\ amqp_conn = "null" /\ raw_conn = "gone" => freed

\* With a prompt transport everything the bridge has taken from the link is in
\* the end written to the server, and as much as the ring holds is taken,
\* unless the server disconnects, the peer closes, or the bridge is stopped or
\* comes down.  (Data that finds the ring full stays on the link until another
\* frame of the message comes, and for good if none does.)
Forwards ==
  /\ \A k \in 1..MaxData :
       (prompt /\ taken >= k) ~> (Len(out) >= k \/ raw_conn = "gone" \/ turn # "run")
  /\ \A k \in 1..(SlotCount - 1) :
       (prompt /\ arrived >= k) ~>
         (taken >= k \/ amqp_link = "null" \/ amqp_conn = "null" \/ raw_conn = "gone" \/ turn # "run")
=============================================================================
