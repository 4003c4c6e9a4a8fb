------------------------------ MODULE BulkSend ------------------------------
(***************************************************************************)
(* What a benchmark sender promises, whatever the order in which credit    *)
(* and outcomes arrive: it sends at most `limit' messages, learns the      *)
(* outcome of each at most once, and declares the transfer done exactly    *)
(* when every message is sent and, unless messages are presettled, every   *)
(* outcome is known.                                                       *)
(***************************************************************************)
EXTENDS Integers

CONSTANT Limits

VARIABLES
  limit,      \* messages to send, 0: no end
  presettle,  \* no outcome is expected
  sent,       \* messages 1..sent are sent
  known,      \* the messages whose outcome is known
  done        \* the transfer is declared complete

vars == <<limit, presettle, sent, known, done>>

Init ==
  /\ limit \in Limits
  /\ presettle \in BOOLEAN
  /\ sent = 0
  /\ known = {}
  /\ done = FALSE

\* Every message is sent and every outcome that is due is known.
Finished == limit # 0 /\ IF presettle THEN sent = limit ELSE known = 1..limit

\* Some more messages are sent.
Send ==
  /\ sent' \in Nat /\ sent' > sent
  /\ limit = 0 \/ sent' <= limit

\* The outcome of a message in flight becomes known.
Learn ==
  /\ ~presettle
  /\ \E m \in 1..sent : m \notin known /\ known' = known \union {m}

\* One step may do either, or react to an outcome by sending.
Next ==
  /\ \/ Send /\ UNCHANGED known
     \/ Learn /\ UNCHANGED sent
     \/ Learn /\ Send
  /\ done' = Finished'
  /\ UNCHANGED <<limit, presettle>>

Spec == Init /\ [][Next]_vars
=============================================================================
