------------------------------ MODULE TcpProofs ------------------------------
(***************************************************************************)
(* Proofs about the clients of a TCP server: what the drain server reports *)
(* (TcpDrain), and the stream that goes through the ring of the bridge     *)
(* (TcpBridge), for every number of clients, every size of the ring and of *)
(* the buffers, and every amount of data.                                  *)
(***************************************************************************)
EXTENDS MCTcp, Sequences, TLAPS

(***************************************************************************)
(* The drain server.  Every octet of a client is still to be sent, in      *)
(* flight or received; a report is made once nothing is in flight and the  *)
(* client, being at its end, sends no more.                                *)
(***************************************************************************)
DrainTypeOK ==
  /\ socket \in [Clients -> {"none", "connected", "accepted", "reported", "error", "leaked"}]
  /\ client \in [Clients -> {"start", "sending", "done", "failed"}]
  /\ amount \in [Clients -> Nat] /\ remaining \in [Clients -> Nat]
  /\ flight \in [Clients -> Nat] /\ rx_octets \in [Clients -> Nat] /\ printed \in [Clients -> Nat]

DrainInv ==
  /\ DrainTypeOK
  /\ \A c \in Clients :
       /\ rx_octets[c] + flight[c] + remaining[c] = amount[c]
       /\ client[c] = "done" => remaining[c] = 0
       /\ socket[c] = "reported" =>
            D!Ended(c) /\ flight[c] = 0 /\ printed[c] = rx_octets[c]

LEMMA DrainInvInit == D!Init => DrainInv
<1> SUFFICES ASSUME D!Init PROVE DrainInv
  OBVIOUS
<1> USE DEF D!Init, D!ServerInit, D!ClientInit
<1>1. PICK count \in [Clients -> Counts], scale \in [Clients -> Scales] :
        amount = [c \in Clients |-> (count[c] * scale[c]) % Word]
  OBVIOUS
<1>2. ASSUME NEW c \in Clients PROVE (count[c] * scale[c]) % Word \in Nat
  <2>1. count[c] \in Nat /\ scale[c] \in Nat
    BY TcpAssumption
  <2>2. count[c] * scale[c] \in Nat
    BY <2>1
  <2>3. QED
    BY <2>2, TcpAssumption
<1>3. amount \in [Clients -> Nat]
  BY <1>1, <1>2
<1>4. QED
  BY <1>3 DEF DrainInv, DrainTypeOK

LEMMA DrainInvStep == DrainInv /\ D!Next => DrainInv'
<1> SUFFICES ASSUME DrainInv, D!Next PROVE DrainInv'
  OBVIOUS
<1> USE DEF DrainInv, DrainTypeOK, D!Ended, D!serverVars, D!clientVars
<1>1. CASE D!AcceptFails
  BY <1>1 DEF D!AcceptFails
<1>2. ASSUME NEW c \in Clients, D!Connect(c) PROVE DrainInv'
  BY <1>2 DEF D!Connect
<1>3. ASSUME NEW c \in Clients, D!Send(c) PROVE DrainInv'
  BY <1>3, TcpAssumption DEF D!Send, D!Sent
<1>4. ASSUME NEW c \in Clients, D!SendFails(c) PROVE DrainInv'
  BY <1>4 DEF D!SendFails
<1>5. ASSUME NEW c \in Clients, D!ClockFails(c) PROVE DrainInv'
  BY <1>5 DEF D!ClockFails
<1>6. ASSUME NEW c \in Clients, D!Finish(c) PROVE DrainInv'
  BY <1>6 DEF D!Finish
<1>7. ASSUME NEW c \in Clients, D!AcceptConnection(c) PROVE DrainInv'
  BY <1>7 DEF D!AcceptConnection, D!Starts
<1>8. ASSUME NEW c \in Clients, D!Receive(c) PROVE DrainInv'
  BY <1>8, TcpAssumption DEF D!Receive
<1>9. ASSUME NEW c \in Clients, D!Report(c) PROVE DrainInv'
  BY <1>9 DEF D!Report, D!AtEnd
<1>10. ASSUME NEW c \in Clients, D!ReceiveFails(c) PROVE DrainInv'
  BY <1>10 DEF D!ReceiveFails
<1>11. QED
  BY <1>1, <1>2, <1>3, <1>4, <1>5, <1>6, <1>7, <1>8, <1>9, <1>10
  DEF D!Next, D!Client, D!Thread

\* What the drain server reports of a client is what the client sent: the
\* invariant ReportsAll of drain-server.c and spout-client.c.
THEOREM DrainReportsAll == Spec => []ReportsAll
<1> DEFINE Inv == program = "drain" => DrainInv
<1>1. Init => Inv
  BY DrainInvInit DEF Init
<1>2. Inv /\ [Next]_vars => Inv'
  <2> SUFFICES ASSUME Inv, [Next]_vars PROVE Inv'
    OBVIOUS
  <2>1. CASE RunsBridge /\ B!Next
    BY <2>1 DEF RunsBridge
  <2>2. CASE RunsDrain /\ D!Next
    BY <2>2, DrainInvStep DEF RunsDrain
  <2>3. CASE UNCHANGED vars
    BY <2>3 DEF vars, ofDrain, DrainInv, DrainTypeOK, D!Ended
  <2>4. QED
    BY <2>1, <2>2, <2>3 DEF Next, Idle
<1>3. Inv => ReportsAll
  BY DEF ReportsAll, D!ReportsAll, DrainInv, DrainTypeOK, D!Ended
<1>4. QED
  BY <1>1, <1>2, <1>3, PTL DEF Spec

-----------------------------------------------------------------------------
(***************************************************************************)
(* The bridge.  Slots of the ring are counted from the consumer's: slot i  *)
(* of it is At(consumer_slot, i).                                          *)
(***************************************************************************)
At(slot, i) == (slot + i) % SlotCount

LEMMA AtType ==
  ASSUME NEW slot \in B!Slots, NEW i \in Nat
  PROVE  At(slot, i) \in B!Slots
BY TcpAssumption DEF At, B!Slots

\* The remainder as a case distinction, within one turn of the ring.
LEMMA AtCases ==
  ASSUME NEW slot \in B!Slots, NEW i \in 0..SlotCount
  PROVE  At(slot, i) = IF slot + i < SlotCount THEN slot + i ELSE slot + i - SlotCount
<1>1. SlotCount \in Nat \ {0} /\ slot \in 0..SlotCount - 1
  BY TcpAssumption DEF B!Slots
<1>2. CASE slot + i < SlotCount
  BY <1>1, <1>2 DEF At
<1>3. CASE ~(slot + i < SlotCount)
  <2>1. slot + i \in SlotCount..(2 * SlotCount - 1)
    BY <1>1, <1>3
  <2>2. (slot + i) % SlotCount = slot + i - SlotCount
    BY <1>1, <2>1
  <2>3. QED
    BY <1>3, <2>2 DEF At
<1>4. QED
  BY <1>2, <1>3

\* Within one turn the slots differ, and two advances add up.
LEMMA AtDiffer ==
  ASSUME NEW slot \in B!Slots, NEW i \in 0..(SlotCount - 1), NEW j \in 0..(SlotCount - 1),
         At(slot, i) = At(slot, j)
  PROVE  i = j
BY AtCases, TcpAssumption DEF B!Slots

LEMMA AtAdd ==
  ASSUME NEW slot \in B!Slots, NEW i \in Nat, NEW j \in Nat, i + j <= SlotCount
  PROVE  At(At(slot, i), j) = At(slot, i + j)
<1>1. SlotCount \in Nat \ {0} /\ slot \in 0..SlotCount - 1
  BY TcpAssumption DEF B!Slots
<1>2. i \in 0..SlotCount /\ j \in 0..SlotCount /\ i + j \in 0..SlotCount
  BY <1>1
<1>3. At(slot, i) \in B!Slots
  BY AtType
<1>4. QED
  BY <1>1, <1>2, <1>3, AtCases

\* Used() is the distance from the consumer to the producer.
LEMMA UsedFacts ==
  ASSUME NEW p \in B!Slots, NEW c \in B!Slots
  PROVE  B!Used(p, c) \in 0..(SlotCount - 1) /\ p = At(c, B!Used(p, c))
<1>1. SlotCount \in Nat \ {0} /\ p \in 0..SlotCount - 1 /\ c \in 0..SlotCount - 1
  BY TcpAssumption DEF B!Slots
<1>2. CASE p >= c
  <2>1. p - c \in 0..SlotCount - 1
    BY <1>1, <1>2
  <2>2. (p - c) % SlotCount = p - c
    BY <1>1, <2>1
  <2>3. At(c, p - c) = p
    <3>1. p - c \in 0..SlotCount /\ c + (p - c) = p
      BY <1>1, <2>1
    <3>2. At(c, p - c) = IF c + (p - c) < SlotCount THEN c + (p - c) ELSE c + (p - c) - SlotCount
      BY <3>1, AtCases
    <3>3. QED
      BY <1>1, <3>1, <3>2
  <2>4. QED
    BY <2>1, <2>2, <2>3 DEF B!Used
<1>3. CASE p < c
  <2>1. p - c \in (-SlotCount)..(-1)
    BY <1>1, <1>3
  <2>2. (p - c) % SlotCount = p - c + SlotCount
    BY <1>1, <2>1
  <2>3. p - c + SlotCount \in 0..(SlotCount - 1)
    BY <1>1, <1>3
  <2>4. PICK u \in 0..(SlotCount - 1) : u = p - c + SlotCount
    BY <2>3
  <2>5. At(c, u) = p
    <3>1. u \in 0..SlotCount /\ c + u = p + SlotCount
      BY <1>1, <2>4
    <3>2. At(c, u) = IF c + u < SlotCount THEN c + u ELSE c + u - SlotCount
      BY <3>1, AtCases
    <3>3. QED
      BY <1>1, <3>1, <3>2
  <2>6. QED
    BY <2>2, <2>4, <2>5 DEF B!Used
<1>4. QED
  BY <1>1, <1>2, <1>3

LEMMA UsedAt ==
  ASSUME NEW c \in B!Slots, NEW i \in 0..(SlotCount - 1)
  PROVE  B!Used(At(c, i), c) = i
<1>1. At(c, i) \in B!Slots
  BY AtType
<1>2. B!Used(At(c, i), c) \in 0..(SlotCount - 1) /\ At(c, i) = At(c, B!Used(At(c, i), c))
  BY <1>1, UsedFacts
<1>3. QED
  BY <1>2, AtDiffer

-----------------------------------------------------------------------------
(***************************************************************************)
(* The inductive invariant of a bridge with a prompt transport.  The slots *)
(* in use hold the newest data that was taken, in order; the first of them *)
(* are written or in the hands of the raw connection, in order; and what   *)
(* the server has is all that was taken before, with what is written.      *)
(***************************************************************************)
InUse == B!Used(producer_slot, consumer_slot)

RingTypeOK ==
  /\ arrived \in Nat /\ taken \in Nat /\ taken <= arrived
  /\ producer_slot \in B!Slots /\ consumer_slot \in B!Slots
  /\ given \in Seq(B!Slots) /\ written \in Seq(B!Slots)
  /\ out \in Seq(Nat)

SlotsHoldNewest ==
  \A i \in 0..(InUse - 1) : buffers[At(consumer_slot, i)] = taken - InUse + i + 1

HandedInOrder ==
  /\ Len(written) + Len(given) <= InUse
  /\ \A i \in 1..Len(written) : written[i] = At(consumer_slot, i - 1)
  /\ \A i \in 1..Len(given) : given[i] = At(consumer_slot, Len(written) + i - 1)

ServerHasTheRest ==
  /\ Len(out) = taken - InUse + Len(written)
  /\ \A i \in 1..Len(out) : out[i] = i

RingInv ==
  /\ turn # "assert"
  /\ RingTypeOK
  /\ SlotsHoldNewest
  /\ HandedInOrder
  /\ ServerHasTheRest

\* The life of the context, for every transport.
FreedLast ==
  /\ freed => amqp_conn = "null" /\ ~B!RawUp
  /\ amqp_conn = "null" /\ raw_conn = "gone" => freed

BridgeInv == FreedLast /\ (prompt => RingInv)

-----------------------------------------------------------------------------
\* The slot i places on from the producer is the last free one exactly when
\* one more would close the ring.
LEMMA FullAt ==
  ASSUME NEW p \in B!Slots, NEW c \in B!Slots, NEW i \in Nat, B!Used(p, c) + i + 1 <= SlotCount
  PROVE  B!slots_full((p + i) % SlotCount, c) <=> B!Used(p, c) + i + 1 = SlotCount
<1> DEFINE u == B!Used(p, c)
<1>1. u \in Nat /\ u \in 0..(SlotCount - 1) /\ p = At(c, u) /\ SlotCount \in Nat \ {0}
  BY UsedFacts, TcpAssumption
<1>2. At(p, i) = At(c, u + i) /\ At(p, i) \in B!Slots
  <2>1. u + i <= SlotCount
    BY <1>1
  <2>2. QED
    BY <1>1, <2>1, AtAdd, AtType
<1>3. At(At(p, i), 1) = At(c, u + i + 1)
  BY <1>1, <1>2, AtAdd
<1>4. B!slots_full((p + i) % SlotCount, c) <=> At(c, u + i + 1) = c
  BY <1>3 DEF B!slots_full, B!next_slot, At
<1>5. At(c, SlotCount) = c /\ At(c, 0) = c
  BY <1>1, AtCases DEF B!Slots
<1>6. u + i + 1 < SlotCount => At(c, u + i + 1) # At(c, 0)
  <2>1. SUFFICES ASSUME u + i + 1 < SlotCount, At(c, u + i + 1) = At(c, 0) PROVE FALSE
    OBVIOUS
  <2>2. u + i + 1 \in 0..(SlotCount - 1) /\ 0 \in 0..(SlotCount - 1)
    BY <1>1, <2>1
  <2>3. u + i + 1 = 0
    BY <2>1, <2>2, AtDiffer
  <2>4. QED
    BY <1>1, <2>3
<1>7. QED
  BY <1>1, <1>4, <1>5, <1>6

\* link_receive(): the slots from the producer's on that are free and needed
\* are filled with the next data, the others keep theirs.
LEMMA ReceiveFacts ==
  ASSUME RingTypeOK, NEW c \in B!Slots, B!Receive(c)
  PROVE  \E n \in 0..(arrived - taken) :
           /\ B!Used(producer_slot, c) + n <= SlotCount - 1
           /\ taken' = taken + n
           /\ producer_slot' = At(producer_slot, n)
           /\ \A i \in 1..n : buffers'[At(producer_slot, i - 1)] = taken + i
           /\ \A s \in B!Slots : (\A i \in 1..n : At(producer_slot, i - 1) # s) => buffers'[s] = buffers[s]
<1> DEFINE p == producer_slot
           room == arrived - taken
           u == B!Used(p, c)
           free == SlotCount - 1 - u
           fits(k) == \A i \in 0..(k - 1) : ~B!slots_full((p + i) % SlotCount, c)
           most(k) == fits(k) /\ (k = room \/ ~fits(k + 1))
           n == CHOOSE k \in 0..room : most(k)
<1>1. p \in B!Slots /\ room \in Nat /\ taken \in Nat /\ SlotCount \in Nat \ {0}
  BY TcpAssumption DEF RingTypeOK
<1>2. u \in 0..(SlotCount - 1) /\ u \in Nat /\ free \in Nat
  BY <1>1, UsedFacts
<1>3. \A k \in Nat : fits(k) <=> k <= free
  <2>1. ASSUME NEW k \in Nat, k <= free, NEW i \in 0..(k - 1)
        PROVE  ~B!slots_full((p + i) % SlotCount, c)
    <3>1. u + i + 1 < SlotCount /\ i \in Nat
      BY <1>1, <1>2, <2>1
    <3>2. QED
      BY <1>1, <1>2, <3>1, FullAt
  <2>2. ASSUME NEW k \in Nat, ~(k <= free) PROVE ~fits(k)
    <3>1. free \in 0..(k - 1) /\ u + free + 1 = SlotCount
      BY <1>1, <1>2, <2>2
    <3>2. B!slots_full((p + free) % SlotCount, c)
      BY <1>1, <1>2, <3>1, FullAt
    <3>3. QED
      BY <3>1, <3>2
  <2>3. QED
    BY <2>1, <2>2
<1> HIDE DEF fits
<1>4. \E k \in 0..room : most(k)
  <2>1. CASE room <= free
    BY <1>1, <1>3, <2>1
  <2>2. CASE ~(room <= free)
    BY <1>1, <1>2, <1>3, <2>2
  <2>3. QED
    BY <2>1, <2>2
<1>5. n \in 0..room /\ most(n)
  BY <1>4
<1>6. u + n <= SlotCount - 1
  BY <1>1, <1>2, <1>3, <1>5
<1>7. /\ taken' = taken + n
      /\ producer_slot' = At(p, n)
      /\ buffers' = [s \in B!Slots |->
           IF \E i \in 1..n : B!From(p, n)[i] = s
           THEN taken + (CHOOSE i \in 1..n : B!From(p, n)[i] = s /\
                           \A j \in i + 1..n : B!From(p, n)[j] # s)
           ELSE buffers[s]]
  BY DEF B!Receive, At, fits
<1> HIDE DEF n
<1>8. \A i \in 1..n : B!From(p, n)[i] = At(p, i - 1) /\ i - 1 \in 0..(SlotCount - 1) /\ At(p, i - 1) \in B!Slots
  <2> TAKE i \in 1..n
  <2>1. i - 1 \in 0..(SlotCount - 1) /\ i - 1 \in Nat
    BY <1>1, <1>2, <1>5, <1>6
  <2>2. p + i - 1 = p + (i - 1)
    BY <1>1, <1>5 DEF B!Slots
  <2>3. QED
    BY <1>1, <2>1, <2>2, AtType DEF B!From, At
<1>9. \A i, j \in 1..n : B!From(p, n)[i] = B!From(p, n)[j] => i = j
  <2> TAKE i, j \in 1..n
  <2> HAVE B!From(p, n)[i] = B!From(p, n)[j]
  <2>1. i - 1 = j - 1
    BY <1>1, <1>8, AtDiffer
  <2>2. QED
    BY <1>5, <2>1
<1>10. ASSUME NEW i \in 1..n PROVE buffers'[At(p, i - 1)] = taken + i
  <2> DEFINE s == At(p, i - 1)
             last(k) == B!From(p, n)[k] = s /\ \A j \in k + 1..n : B!From(p, n)[j] # s
  <2>1. s \in B!Slots /\ B!From(p, n)[i] = s
    BY <1>8
  <2>2. \A k \in 1..n : last(k) => k = i
    BY <1>9, <2>1
  <2>3. last(i)
    <3>1. ASSUME NEW j \in i + 1..n, B!From(p, n)[j] = s PROVE FALSE
      <4>1. j \in 1..n /\ j # i
        BY <1>5
      <4>2. QED
        BY <1>9, <2>1, <3>1, <4>1
    <3>2. QED
      BY <2>1, <3>1
  <2>4. (CHOOSE k \in 1..n : last(k)) = i
    BY <2>2, <2>3
  <2>5. buffers'[s] = taken + (CHOOSE k \in 1..n : last(k))
    BY <1>7, <2>1
  <2>6. QED
    BY <2>4, <2>5
<1>11. ASSUME NEW s \in B!Slots, \A i \in 1..n : At(p, i - 1) # s PROVE buffers'[s] = buffers[s]
  BY <1>7, <1>8, <1>11
<1>12. QED
  BY <1>5, <1>6, <1>7, <1>10, <1>11

-----------------------------------------------------------------------------
\* Steps that leave the ring and what goes through it alone.
LEMMA RingFrame ==
  ASSUME RingInv, UNCHANGED <<taken, producer_slot, consumer_slot, buffers, given, written, out>>,
         turn' # "assert", arrived' \in Nat, arrived <= arrived'
  PROVE  RingInv'
BY DEF RingInv, RingTypeOK, SlotsHoldNewest, HandedInOrder, ServerHasTheRest, InUse

\* raw_write_drain(): the assertion holds, and the consumer advances by the
\* number of slots that came back.
LEMMA DrainFacts ==
  ASSUME RingInv
  PROVE  /\ B!InOrder
         /\ B!Drained = At(consumer_slot, Len(written)) /\ B!Drained \in B!Slots
         /\ InUse \in 0..(SlotCount - 1) /\ producer_slot = At(consumer_slot, InUse)
         /\ B!Used(producer_slot, B!Drained) = InUse - Len(written)
<1>1. /\ Len(written) \in Nat /\ Len(given) \in Nat
      /\ producer_slot \in B!Slots /\ consumer_slot \in B!Slots
      /\ SlotCount \in Nat \ {0}
  BY TcpAssumption DEF RingInv, RingTypeOK
<1>2. InUse \in 0..(SlotCount - 1) /\ producer_slot = At(consumer_slot, InUse)
  BY <1>1, UsedFacts DEF InUse
<1>3. Len(written) <= InUse
  BY <1>1, <1>2 DEF RingInv, HandedInOrder
<1>4. B!InOrder
  <2>1. \A i \in 1..Len(written) : written[i] = B!From(consumer_slot, Len(written))[i]
    <3> TAKE i \in 1..Len(written)
    <3>1. consumer_slot + i - 1 = consumer_slot + (i - 1)
      BY <1>1 DEF B!Slots
    <3>2. QED
      BY <3>1 DEF RingInv, HandedInOrder, B!From, At
  <2>2. written = [i \in 1..Len(written) |-> written[i]]
    BY DEF RingInv, RingTypeOK
  <2>3. QED
    BY <2>1, <2>2 DEF B!InOrder, B!From
<1>5. B!Drained = At(consumer_slot, Len(written)) /\ B!Drained \in B!Slots
  BY <1>1, AtType DEF B!Drained, At
<1>6. B!Used(producer_slot, B!Drained) = InUse - Len(written)
  <2>1. InUse - Len(written) \in 0..(SlotCount - 1) /\ InUse - Len(written) \in Nat
    BY <1>1, <1>2, <1>3
  <2>2. Len(written) + (InUse - Len(written)) <= SlotCount /\ Len(written) + (InUse - Len(written)) = InUse
    BY <1>1, <1>2
  <2>3. producer_slot = At(B!Drained, InUse - Len(written))
    BY <1>1, <1>2, <1>5, <2>1, <2>2, AtAdd
  <2>4. QED
    BY <1>5, <2>1, <2>3, UsedAt
<1>7. QED
  BY <1>2, <1>4, <1>5, <1>6

\* link_receive() after a drain of `back' slots: all that are written, or none.
\* At a wake nothing is received.
LEMMA RingReceive ==
  ASSUME RingInv, NEW back \in Nat, back <= Len(written),
         consumer_slot' = At(consumer_slot, back),
         written' \in Seq(B!Slots), Len(written') = Len(written) - back,
         \A i \in 1..Len(written') : written'[i] = At(consumer_slot', i - 1),
         B!Receive(consumer_slot') \/ UNCHANGED <<taken, producer_slot, buffers>>,
         UNCHANGED <<arrived, given, out>>, turn' # "assert"
  PROVE  RingInv'
<1> DEFINE c == consumer_slot
<1>1. /\ Len(written) \in Nat /\ Len(given) \in Nat /\ Len(out) \in Nat
      /\ taken \in Nat /\ arrived \in Nat /\ taken <= arrived
      /\ c \in B!Slots /\ c' \in B!Slots /\ producer_slot \in B!Slots
      /\ SlotCount \in Nat \ {0}
  BY AtType, TcpAssumption DEF RingInv, RingTypeOK
<1>2. PICK u \in 0..(SlotCount - 1) :
        u = InUse /\ producer_slot = At(c, u) /\ Len(written) + Len(given) <= u
  BY DrainFacts DEF RingInv, HandedInOrder
<1>3. PICK v \in 0..(SlotCount - 1) : v \in Nat /\ back + v = u /\ u <= SlotCount
  <2>1. u - back \in 0..(SlotCount - 1) /\ u - back \in Nat /\ back + (u - back) = u /\ u <= SlotCount
    BY <1>1, <1>2
  <2>2. QED
    BY <2>1
<1>4. \A i \in Nat : back + i <= SlotCount => At(c', i) = At(c, back + i)
  BY <1>1, AtAdd
<1>5. producer_slot = At(c', v) /\ B!Used(producer_slot, c') = v
  BY <1>1, <1>2, <1>3, <1>4, UsedAt
<1>6. RingTypeOK
  BY DEF RingInv
<1>7. PICK n \in 0..(arrived - taken) :
        /\ v + n <= SlotCount - 1
        /\ taken' = taken + n
        /\ producer_slot' = At(producer_slot, n)
        /\ \A i \in 1..n : buffers'[At(producer_slot, i - 1)] = taken + i
        /\ \A s \in B!Slots : (\A i \in 1..n : At(producer_slot, i - 1) # s) => buffers'[s] = buffers[s]
  <2>1. CASE B!Receive(consumer_slot')
    BY <1>1, <1>5, <1>6, <2>1, ReceiveFacts
  <2>2. CASE UNCHANGED <<taken, producer_slot, buffers>>
    <3>1. At(producer_slot, 0) = producer_slot
      BY <1>1, AtCases DEF B!Slots
    <3>2. 0 \in 0..(arrived - taken) /\ v + 0 <= SlotCount - 1 /\ taken = taken + 0 /\ 1..0 = {}
      BY <1>1, <1>3
    <3>3. QED
      BY <2>2, <3>1, <3>2
  <2>3. QED
    BY <2>1, <2>2
<1>8. n \in Nat /\ v + n \in 0..(SlotCount - 1) /\ taken' = taken + n
  BY <1>1, <1>3, <1>7
<1>9. \A i \in 0..n : At(producer_slot, i) = At(c', v + i)
  <2> TAKE i \in 0..n
  <2>1. i \in Nat /\ v + i <= SlotCount
    BY <1>1, <1>3, <1>8
  <2>2. QED
    BY <1>1, <1>3, <1>5, <2>1, AtAdd
<1>10. producer_slot' = At(c', v + n) /\ InUse' = v + n /\ producer_slot' \in B!Slots
  <2>1. producer_slot' = At(c', v + n)
    BY <1>7, <1>8, <1>9
  <2>2. QED
    BY <1>1, <1>8, <2>1, UsedAt, AtType DEF InUse
<1>11. RingTypeOK'
  BY <1>1, <1>7, <1>8, <1>10 DEF RingInv, RingTypeOK
<1>12. SlotsHoldNewest'
  <2>1. ASSUME NEW i \in 0..(v + n - 1) PROVE buffers'[At(c', i)] = taken' - (v + n) + i + 1
    <3>1. i \in Nat /\ i \in 0..(SlotCount - 1) /\ At(c', i) \in B!Slots
      BY <1>1, <1>3, <1>7, <1>8, AtType
    <3>2. CASE i < v
      <4>1. At(c', i) = At(c, back + i) /\ back + i \in 0..(u - 1)
        BY <1>1, <1>2, <1>3, <1>4, <3>1, <3>2
      <4>2. buffers[At(c', i)] = taken - u + (back + i) + 1
        BY <1>2, <4>1 DEF RingInv, SlotsHoldNewest
      <4>3. ASSUME NEW j \in 1..n, At(producer_slot, j - 1) = At(c', i) PROVE FALSE
        <5>1. j - 1 \in 0..n /\ v + (j - 1) \in 0..(SlotCount - 1) /\ v + (j - 1) # i
          BY <1>1, <1>3, <1>8, <3>1, <3>2
        <5>2. At(c', v + (j - 1)) = At(c', i)
          BY <1>9, <4>3, <5>1
        <5>3. QED
          BY <1>1, <3>1, <5>1, <5>2, AtDiffer
      <4>4. buffers'[At(c', i)] = buffers[At(c', i)]
        BY <1>7, <3>1, <4>3
      <4>5. QED
        BY <1>1, <1>2, <1>3, <1>8, <3>1, <4>2, <4>4
    <3>3. CASE ~(i < v)
      <4>1. i - v + 1 \in 1..n /\ i - v \in 0..n /\ (i - v + 1) - 1 = i - v /\ v + (i - v) = i
        BY <1>3, <1>8, <3>1, <3>3
      <4>2. At(producer_slot, i - v) = At(c', i)
        BY <1>9, <4>1
      <4>3. buffers'[At(producer_slot, (i - v + 1) - 1)] = taken + (i - v + 1)
        BY <1>7, <4>1
      <4>4. taken + (i - v + 1) = taken' - (v + n) + i + 1
        BY <1>1, <1>3, <1>8, <3>1
      <4>5. QED
        BY <4>1, <4>2, <4>3, <4>4
    <3>4. QED
      BY <3>2, <3>3
  <2>2. QED
    BY <1>10, <2>1 DEF SlotsHoldNewest
<1>13. HandedInOrder'
  <2>1. Len(written') + Len(given') <= InUse'
    BY <1>1, <1>2, <1>3, <1>8, <1>10
  <2>2. ASSUME NEW i \in 1..Len(given) PROVE given[i] = At(c', Len(written') + i - 1)
    <3>1. given[i] = At(c, Len(written) + i - 1)
      BY DEF RingInv, HandedInOrder
    <3>2. /\ Len(written') + i - 1 \in Nat
          /\ back + (Len(written') + i - 1) = Len(written) + i - 1
          /\ Len(written) + i - 1 <= SlotCount
      BY <1>1, <1>2
    <3>3. QED
      BY <1>4, <3>1, <3>2
  <2>3. QED
    BY <2>1, <2>2 DEF HandedInOrder
<1>14. ServerHasTheRest'
  <2>1. Len(out) = taken - InUse + Len(written) /\ \A i \in 1..Len(out) : out[i] = i
    BY DEF RingInv, ServerHasTheRest
  <2>2. Len(out) = taken' - InUse' + Len(written')
    <3>1. Len(out) = taken - u + Len(written) /\ u = back + v
      BY <1>2, <1>3, <2>1
    <3>2. taken - (back + v) + Len(written) = (taken + n) - (v + n) + (Len(written) - back)
      BY <1>1, <1>3, <1>8
    <3>3. QED
      BY <1>8, <1>10, <3>1, <3>2
  <2>3. QED
    BY <2>1, <2>2 DEF ServerHasTheRest
<1>15. QED
  BY <1>11, <1>12, <1>13, <1>14 DEF RingInv

\* PN_DELIVERY and PN_CONNECTION_WAKE: drained or not, data is taken or not.
LEMMA RingTakeDelivery ==
  ASSUME RingInv, NEW e, B!TakeDelivery(e)
  PROVE  RingInv'
<1> USE DEF B!TakeDelivery, B!ends
<1>1. CASE delivery = "settled"
  <2>1. /\ UNCHANGED <<taken, producer_slot, consumer_slot, buffers, given, written, out, arrived>>
        /\ turn' = "nodelivery"
    BY <1>1 DEF B!ring
  <2>2. QED
    BY <2>1, RingFrame DEF RingInv, RingTypeOK
<1>2. CASE delivery # "settled"
  <2> DEFINE drains == arrived > taken /\ B!RawUp
  <2>1. /\ consumer_slot' = IF drains THEN B!Drained ELSE consumer_slot
        /\ written' = IF drains THEN <<>> ELSE written
        /\ turn' = IF drains /\ ~B!InOrder THEN "assert" ELSE turn
        /\ B!Receive(consumer_slot') \/ UNCHANGED <<taken, producer_slot, buffers>>
        /\ UNCHANGED <<arrived, given, out>>
    BY <1>2
  <2>2. turn' # "assert" /\ B!Drained = At(consumer_slot, Len(written)) /\ Len(written) \in Nat
    BY <2>1, DrainFacts DEF RingInv, RingTypeOK
  <2>3. CASE drains
    <3>1. Len(written') = 0 /\ written' \in Seq(B!Slots) /\ Len(written') = Len(written) - Len(written)
      BY <2>1, <2>2, <2>3
    <3>2. QED
      BY <2>1, <2>2, <2>3, <3>1, RingReceive
  <2>4. CASE ~drains
    <3>1. At(consumer_slot, 0) = consumer_slot
      BY AtCases, TcpAssumption DEF RingInv, RingTypeOK, B!Slots
    <3>2. /\ written' \in Seq(B!Slots) /\ Len(written') = Len(written) - 0
          /\ \A i \in 1..Len(written') : written'[i] = At(consumer_slot', i - 1)
      BY <2>1, <2>2, <2>4 DEF RingInv, RingTypeOK, HandedInOrder
    <3>3. QED
      BY <2>1, <2>2, <2>4, <3>1, <3>2, RingReceive
  <2>5. QED
    BY <2>3, <2>4
<1>3. QED
  BY <1>1, <1>2

\* An event of the raw connection, which has written all it was given: the
\* ring is drained and the slots still in use are handed over anew.
LEMMA RingRawEvent ==
  ASSUME RingInv, prompt, B!RawEvent
  PROVE  RingInv'
<1> DEFINE w == Len(written)
<1>1. /\ given = <<>> /\ turn' = IF B!InOrder THEN turn ELSE "assert"
      /\ consumer_slot' = B!Drained /\ written' = <<>> /\ given' = given \o B!Sends
      /\ UNCHANGED <<arrived, taken, producer_slot, buffers, out>>
  BY DEF B!RawEvent, B!input
<1>2. /\ w \in Nat /\ Len(given) = 0 /\ Len(written') = 0 /\ written' \in Seq(B!Slots)
      /\ consumer_slot \in B!Slots /\ taken \in Nat /\ Len(out) \in Nat
      /\ SlotCount \in Nat \ {0} /\ WriteMax \in Nat
  BY <1>1, TcpAssumption DEF RingInv, RingTypeOK
<1>3. PICK u \in 0..(SlotCount - 1) : u = InUse /\ w <= u
  BY <1>2, DrainFacts DEF RingInv, HandedInOrder
<1>4. /\ turn' # "assert"
      /\ consumer_slot' = At(consumer_slot, w) /\ consumer_slot' \in B!Slots
      /\ InUse' = u - w /\ u - w \in Nat
  BY <1>1, <1>2, <1>3, DrainFacts DEF InUse, RingInv
<1>5. PICK n \in Nat : n <= u - w /\ B!Sends = B!From(consumer_slot', n)
  <2>1. B!Used(producer_slot, consumer_slot') = u - w
    BY <1>1, <1>3, DrainFacts
  <2>2. WriteMax - Len(given) = WriteMax
    BY <1>2
  <2>3. QED
    BY <1>2, <1>4, <2>1, <2>2 DEF B!Sends
<1>6. /\ Len(given') = n /\ given' \in Seq(B!Slots)
      /\ \A i \in 1..n : given'[i] = At(consumer_slot', Len(written') + i - 1)
  <2>1. \A i \in 1..n : /\ B!From(consumer_slot', n)[i] = At(consumer_slot', 0 + i - 1)
                        /\ B!From(consumer_slot', n)[i] \in B!Slots
    <3> TAKE i \in 1..n
    <3>1. consumer_slot' + i - 1 = consumer_slot' + (0 + i - 1) /\ 0 + i - 1 \in Nat
      BY <1>4, <1>5 DEF B!Slots
    <3>2. QED
      BY <1>4, <3>1, AtType DEF B!From, At
  <2>2. B!From(consumer_slot', n) \in Seq(B!Slots) /\ Len(B!From(consumer_slot', n)) = n
    BY <1>5, <2>1 DEF B!From
  <2>3. given' = B!From(consumer_slot', n)
    BY <1>1, <1>5, <2>2
  <2>4. QED
    BY <1>2, <2>1, <2>2, <2>3
<1>7. RingTypeOK'
  BY <1>1, <1>2, <1>4, <1>6 DEF RingInv, RingTypeOK
<1>8. SlotsHoldNewest'
  <2>1. ASSUME NEW i \in 0..(u - w - 1) PROVE buffers[At(consumer_slot', i)] = taken - (u - w) + i + 1
    <3>1. i \in Nat /\ w + i \in 0..(u - 1) /\ w + i <= SlotCount
      BY <1>2, <1>3
    <3>2. At(consumer_slot', i) = At(consumer_slot, w + i)
      BY <1>2, <1>4, <3>1, AtAdd
    <3>3. buffers[At(consumer_slot, w + i)] = taken - u + (w + i) + 1
      BY <1>3, <3>1 DEF RingInv, SlotsHoldNewest
    <3>4. taken - u + (w + i) + 1 = taken - (u - w) + i + 1
      BY <1>2, <1>3, <3>1
    <3>5. QED
      BY <3>2, <3>3, <3>4
  <2>2. QED
    BY <1>1, <1>4, <2>1 DEF SlotsHoldNewest
<1>9. HandedInOrder'
  BY <1>2, <1>4, <1>5, <1>6 DEF HandedInOrder
<1>10. ServerHasTheRest'
  <2>1. Len(out) = taken - u + w /\ \A i \in 1..Len(out) : out[i] = i
    BY <1>3 DEF RingInv, ServerHasTheRest
  <2>2. taken - u + w = taken - (u - w) + 0
    BY <1>2, <1>3
  <2>3. QED
    BY <1>1, <1>2, <1>4, <2>1, <2>2 DEF ServerHasTheRest
<1>11. QED
  BY <1>4, <1>7, <1>8, <1>9, <1>10 DEF RingInv

\* The raw connection writes the oldest slot it was given: the next data.
LEMMA RingRawWrites ==
  ASSUME RingInv, B!RawWrites
  PROVE  RingInv'
<1> DEFINE w == Len(written)
<1>1. /\ given # <<>> /\ out' = Append(out, buffers[Head(given)])
      /\ written' = Append(written, Head(given)) /\ given' = Tail(given)
      /\ UNCHANGED <<turn, arrived, taken, producer_slot, consumer_slot, buffers>>
  BY DEF B!RawWrites, B!bridgeLoop, B!input, B!ring
<1>2. /\ w \in Nat /\ Len(given) \in Nat \ {0} /\ given \in Seq(B!Slots) /\ written \in Seq(B!Slots)
      /\ taken \in Nat /\ Len(out) \in Nat /\ out \in Seq(Nat) /\ SlotCount \in Nat \ {0}
  BY <1>1, TcpAssumption DEF RingInv, RingTypeOK
<1>3. PICK u \in 0..(SlotCount - 1) : u = InUse /\ w + Len(given) <= u
  BY DrainFacts DEF RingInv, HandedInOrder
<1>4. InUse' = u
  BY <1>1, <1>3 DEF InUse
<1>5. Head(given) \in B!Slots /\ Head(given) = At(consumer_slot, w)
  <2>1. Head(given) = given[1] /\ Head(given) \in B!Slots /\ 1 \in 1..Len(given)
    BY <1>1, <1>2
  <2>2. given[1] = At(consumer_slot, w + 1 - 1) /\ w + 1 - 1 = w
    BY <1>2, <2>1 DEF RingInv, HandedInOrder
  <2>3. QED
    BY <2>1, <2>2
<1>6. buffers[Head(given)] = Len(out) + 1
  <2>1. w \in 0..(u - 1)
    BY <1>2, <1>3
  <2>2. buffers[At(consumer_slot, w)] = taken - u + w + 1
    BY <1>3, <2>1 DEF RingInv, SlotsHoldNewest
  <2>3. Len(out) = taken - u + w
    BY <1>3 DEF RingInv, ServerHasTheRest
  <2>4. QED
    BY <1>5, <2>2, <2>3
<1>7. /\ Len(written') = w + 1 /\ written' \in Seq(B!Slots)
      /\ \A i \in 1..w : written'[i] = written[i]
      /\ written'[w + 1] = Head(given)
  BY <1>1, <1>2, <1>5
<1>8. /\ Len(given') = Len(given) - 1 /\ given' \in Seq(B!Slots)
      /\ \A i \in 1..Len(given') : given'[i] = given[i + 1]
  BY <1>1, <1>2
<1>9. /\ Len(out') = Len(out) + 1 /\ out' \in Seq(Nat)
      /\ \A i \in 1..Len(out) : out'[i] = out[i]
      /\ out'[Len(out) + 1] = Len(out) + 1
  BY <1>1, <1>2, <1>6
<1>10. RingTypeOK' /\ turn' # "assert"
  BY <1>1, <1>7, <1>8, <1>9 DEF RingInv, RingTypeOK
<1>11. SlotsHoldNewest'
  BY <1>1, <1>3, <1>4 DEF RingInv, SlotsHoldNewest
<1>12. HandedInOrder'
  <2>1. \A i \in 1..(w + 1) : written'[i] = At(consumer_slot, i - 1)
    <3> TAKE i \in 1..(w + 1)
    <3>1. CASE i \in 1..w
      BY <1>7, <3>1 DEF RingInv, HandedInOrder
    <3>2. CASE i = w + 1
      BY <1>2, <1>5, <1>7, <3>2
    <3>3. QED
      BY <1>2, <3>1, <3>2
  <2>2. \A i \in 1..Len(given') : given'[i] = At(consumer_slot, (w + 1) + i - 1)
    <3> TAKE i \in 1..Len(given')
    <3>1. i + 1 \in 1..Len(given) /\ w + (i + 1) - 1 = (w + 1) + i - 1
      BY <1>2, <1>8
    <3>2. given[i + 1] = At(consumer_slot, w + (i + 1) - 1)
      BY <3>1 DEF RingInv, HandedInOrder
    <3>3. QED
      BY <1>8, <3>1, <3>2
  <2>3. Len(written') + Len(given') <= u
    BY <1>2, <1>3, <1>7, <1>8
  <2>4. QED
    BY <1>1, <1>4, <1>7, <2>1, <2>2, <2>3 DEF HandedInOrder
<1>13. ServerHasTheRest'
  <2>1. Len(out') = taken - u + (w + 1)
    BY <1>2, <1>3, <1>9 DEF RingInv, ServerHasTheRest
  <2>2. \A i \in 1..(Len(out) + 1) : out'[i] = i
    <3> TAKE i \in 1..(Len(out) + 1)
    <3>1. i \in 1..Len(out) \/ i = Len(out) + 1
      BY <1>2
    <3>2. QED
      BY <1>9, <3>1 DEF RingInv, ServerHasTheRest
  <2>3. QED
    BY <1>1, <1>4, <1>7, <1>9, <2>1, <2>2 DEF ServerHasTheRest
<1>14. QED
  BY <1>10, <1>11, <1>12, <1>13 DEF RingInv

-----------------------------------------------------------------------------
LEMMA BridgeInvInit == B!Init => BridgeInv
<1> SUFFICES ASSUME B!Init PROVE BridgeInv
  OBVIOUS
<1> USE DEF B!Init
<1>1. 0 \in B!Slots
  BY TcpAssumption DEF B!Slots
<1>2. InUse = 0
  <2>1. At(0, 0) = 0 /\ 0 \in 0..(SlotCount - 1)
    BY <1>1, AtCases, TcpAssumption DEF B!Slots
  <2>2. QED
    BY <1>1, <2>1, UsedAt DEF InUse
<1>3. RingInv
  BY <1>1, <1>2 DEF RingInv, RingTypeOK, SlotsHoldNewest, HandedInOrder, ServerHasTheRest
<1>4. FreedLast
  BY DEF FreedLast, B!RawUp
<1>5. QED
  BY <1>3, <1>4 DEF BridgeInv

\* Every step keeps the ring in order, given that raw events wait until the
\* raw connection has written what it holds.
LEMMA RingInvStep == prompt /\ RingInv /\ B!Next => RingInv'
<1> SUFFICES ASSUME prompt, RingInv, B!Next PROVE RingInv'
  OBVIOUS
<1> USE DEF B!bridgeLoop, B!ends, B!input, B!ring, B!output
<1>1. CASE B!Accept \/ B!LinkRemoteOpen \/ B!RawDisconnected \/ B!LinkRemoteClose
           \/ B!ConnectionRemoteClose \/ B!SignalHandler \/ B!MainLoop
  <2>1. UNCHANGED <<arrived, taken, producer_slot, consumer_slot, buffers, given, written, out>>
    BY <1>1 DEF B!Accept, B!LinkRemoteOpen, B!RawDisconnected, B!LinkRemoteClose,
                B!ConnectionRemoteClose, B!SignalHandler, B!MainLoop
  <2>2. turn' = turn \/ turn' = "exit"
    BY <1>1 DEF B!Accept, B!LinkRemoteOpen, B!RawDisconnected, B!LinkRemoteClose,
                B!ConnectionRemoteClose, B!SignalHandler, B!MainLoop
  <2>3. turn # "assert" /\ arrived' \in Nat /\ arrived <= arrived'
    BY <2>1 DEF RingInv, RingTypeOK
  <2>4. QED
    BY <2>1, <2>2, <2>3, RingFrame
<1>2. CASE B!Delivery
  BY <1>2, RingTakeDelivery DEF B!Delivery
<1>3. CASE B!Wake
  <2>1. CASE B!TakeDelivery("wake")
    BY <2>1, RingTakeDelivery
  <2>2. CASE UNCHANGED <<turn, arrived, taken, producer_slot, consumer_slot, buffers, given, written, out>>
    BY <2>2, RingFrame DEF RingInv, RingTypeOK
  <2>3. QED
    BY <1>3, <2>1, <2>2 DEF B!Wake
<1>4. CASE B!RawEvent
  BY <1>4, RingRawEvent
<1>5. CASE B!RawWrites
  BY <1>5, RingRawWrites
<1>6. ASSUME NEW data \in 0..1, NEW more \in BOOLEAN, B!PeerTransfers(data, more) PROVE RingInv'
  <2>1. UNCHANGED <<turn, taken, producer_slot, consumer_slot, buffers, given, written, out>>
    BY <1>6 DEF B!PeerTransfers
  <2>2. arrived' \in Nat /\ arrived <= arrived'
    BY <1>6 DEF B!PeerTransfers, RingInv, RingTypeOK
  <2>3. turn' # "assert"
    BY <2>1 DEF RingInv
  <2>4. QED
    BY <2>1, <2>2, <2>3, RingFrame
<1>7. QED
  BY <1>1, <1>2, <1>3, <1>4, <1>5, <1>6 DEF B!Next, B!Bridge

\* The context is freed with the last of its two connections.
LEMMA FreedLastStep == FreedLast /\ B!Next => FreedLast'
<1> SUFFICES ASSUME FreedLast, B!Next PROVE FreedLast'
  OBVIOUS
<1> USE DEF FreedLast, B!RawUp, B!bridgeLoop, B!ends
<1>1. CASE B!Accept
  BY <1>1 DEF B!Accept
<1>2. CASE B!LinkRemoteOpen
  BY <1>2 DEF B!LinkRemoteOpen, B!connect_raw
<1>3. CASE B!RawDisconnected
  BY <1>3 DEF B!RawDisconnected
<1>4. CASE B!ConnectionRemoteClose
  BY <1>4 DEF B!ConnectionRemoteClose
<1>5. CASE B!RawEvent
  BY <1>5 DEF B!RawEvent
<1>6. CASE B!LinkRemoteClose
  BY <1>6 DEF B!LinkRemoteClose
<1>7. CASE UNCHANGED <<amqp_conn, raw_conn, freed>>
  BY <1>7
<1>8. B!Delivery \/ B!Wake \/ B!MainLoop \/ B!SignalHandler \/ B!RawWrites
        => UNCHANGED <<amqp_conn, raw_conn, freed>>
  BY DEF B!Delivery, B!Wake, B!TakeDelivery, B!MainLoop, B!SignalHandler, B!RawWrites
<1>9. ASSUME NEW data \in 0..1, NEW more \in BOOLEAN, B!PeerTransfers(data, more)
      PROVE UNCHANGED <<amqp_conn, raw_conn, freed>>
  BY <1>9 DEF B!PeerTransfers
<1>10. QED
  BY <1>1, <1>2, <1>3, <1>4, <1>5, <1>6, <1>7, <1>8, <1>9 DEF B!Next, B!Bridge

\* No step of the bridge changes what kind of transport it has.
LEMMA PromptStep == B!Next => prompt' = prompt
<1> SUFFICES ASSUME B!Next PROVE prompt' = prompt
  OBVIOUS
<1> USE DEF B!bridgeLoop
<1>1. ASSUME NEW data \in 0..1, NEW more \in BOOLEAN, B!PeerTransfers(data, more) PROVE prompt' = prompt
  BY <1>1 DEF B!PeerTransfers
<1>2. QED
  BY <1>1 DEF B!Next, B!Bridge, B!Accept, B!LinkRemoteOpen, B!Delivery, B!Wake, B!TakeDelivery, B!RawEvent,
    B!MainLoop, B!RawDisconnected, B!LinkRemoteClose, B!ConnectionRemoteClose, B!SignalHandler, B!RawWrites

\* amqp-tcp-bridge.c: with a prompt transport the assertion of
\* raw_write_drain() holds and the server gets the stream in order, whatever
\* the size of the ring; and the context is freed with the last connection.
THEOREM BridgeKeepsTheStream == Spec => []StreamIntact
<1> DEFINE Inv == program = "bridge" => BridgeInv
<1>1. Init => Inv
  BY BridgeInvInit DEF Init
<1>2. Inv /\ [Next]_vars => Inv'
  <2> SUFFICES ASSUME Inv, [Next]_vars PROVE Inv'
    OBVIOUS
  <2>1. CASE RunsBridge /\ B!Next
    BY <2>1, RingInvStep, FreedLastStep, PromptStep DEF RunsBridge, BridgeInv
  <2>2. CASE RunsDrain /\ D!Next
    BY <2>2 DEF RunsDrain
  <2>3. CASE UNCHANGED vars
    BY <2>3 DEF vars, ofBridge, BridgeInv, FreedLast, B!RawUp, RingInv, RingTypeOK, SlotsHoldNewest,
                HandedInOrder, ServerHasTheRest, InUse
  <2>4. QED
    BY <2>1, <2>2, <2>3 DEF Next, Idle
<1>3. Inv => StreamIntact
  BY DEF StreamIntact, B!StreamIntact, BridgeInv, FreedLast, RingInv, ServerHasTheRest
<1>4. QED
  BY <1>1, <1>2, <1>3, PTL DEF Spec
=============================================================================
