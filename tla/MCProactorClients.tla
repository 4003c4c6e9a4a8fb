-------------------------- MODULE MCProactorClients --------------------------
(***************************************************************************)
(* The proactor clients that open many links, checked together: `program'  *)
(* says which of them runs.  The variables the running program does not    *)
(* have keep their first value.                                            *)
(***************************************************************************)
EXTENDS ProactorLinks

CONSTANTS
  ShortBatch, LongBatch,                      \* bounds: MaxEvents of OomSender, LinkReceiver
  MaxTotalLinks, MaxCycles,                   \* SessionLoader, LinkLoader
  MaxPieces,                                  \* LinkSender
  Window, MaxMsgs,                            \* LinkReceiver, OomReceiver
  Header, BodyBatch, Body, Frame, MaxWindow,  \* OomSender
  Word, FrameLimits                           \* OomReceiver

\* The body of a message of oom-sender.c is larger than one batch of it
\* (UINT32_MAX), and a frame of the peer takes its header.
ASSUME ProactorClientsAssumption ==
  /\ Window \in Nat /\ MaxWindow \in Nat
  /\ Header \in Nat /\ Frame \in Nat /\ Header <= Frame
  /\ BodyBatch \in Nat /\ Body \in Nat /\ BodyBatch < Body

VARIABLES
  program,
  session_limit, session_count, session, created,    \* SessionLoader
  repeat_count,                                      \* LinkLoader
  link_count,                                        \* both loaders
  pieces, informs, context, sent, closed_links,      \* LinkSender
  outcome,                                           \* both senders
  fragments, arrived, aborted, settled, msg_count,   \* LinkReceiver
  tag, bytes_sent, buffered, window,                 \* OomSender
  per_link_session_frames, incoming, held            \* OomReceiver

ofSessionLoader == <<session_limit, session_count, session, created>>
ofLinkSender    == <<pieces, informs, context, sent, closed_links>>
ofLinkReceiver  == <<fragments, arrived, aborted, settled, msg_count>>
ofOomSender     == <<tag, bytes_sent, buffered, window>>
ofOomReceiver   == <<per_link_session_frames, incoming, held>>
vars == <<loopVars, linkVars, program, ofSessionLoader, repeat_count, link_count,
          ofLinkSender, outcome, ofLinkReceiver, ofOomSender, ofOomReceiver>>

SL == INSTANCE SessionLoader
LL == INSTANCE LinkLoader
LS == INSTANCE LinkSender
LR == INSTANCE LinkReceiver WITH MaxEvents <- LongBatch
OS == INSTANCE OomSender WITH MaxEvents <- ShortBatch
OR == INSTANCE OomReceiver

\* The values of the variables a program does not have.
NoLoader ==
  /\ session_limit = 0 /\ session_count = 0 /\ session = <<>> /\ created = 0
  /\ repeat_count = 0 /\ link_count = 0
NoLinkSender   == pieces = 0 /\ informs = FALSE /\ context = <<>> /\ sent = <<>> /\ closed_links = 0
NoOutcome      == outcome = <<>>
NoLinkReceiver == fragments = FALSE /\ arrived = <<>> /\ aborted = {} /\ settled = {} /\ msg_count = 0
NoOomSender    == tag = <<>> /\ bytes_sent = <<>> /\ buffered = <<>> /\ window = 0
NoOomReceiver  == per_link_session_frames = 0 /\ incoming = 0 /\ held = 0

Init ==
  \/ /\ program = "session-loader" /\ SL!Init /\ repeat_count = 0
     /\ NoLinkSender /\ NoOutcome /\ NoLinkReceiver /\ NoOomSender /\ NoOomReceiver
  \/ /\ program = "link-loader" /\ LL!Init
     /\ session_limit = 0 /\ session_count = 0 /\ session = <<>> /\ created = 0
     /\ NoLinkSender /\ NoOutcome /\ NoLinkReceiver /\ NoOomSender /\ NoOomReceiver
  \/ /\ program = "link-sender" /\ LS!Init
     /\ NoLoader /\ NoLinkReceiver /\ NoOomSender /\ NoOomReceiver
  \/ /\ program = "link-receiver" /\ LR!Init
     /\ NoLoader /\ NoLinkSender /\ NoOutcome /\ NoOomSender /\ NoOomReceiver
  \/ /\ program = "oom-sender" /\ OS!Init
     /\ NoLoader /\ NoLinkSender /\ NoLinkReceiver /\ NoOomReceiver
  \/ /\ program = "oom-receiver" /\ OR!Init
     /\ NoLoader /\ NoLinkSender /\ NoOutcome /\ NoLinkReceiver /\ NoOomSender

RunsSL ==
  /\ program = "session-loader"
  /\ UNCHANGED <<program, repeat_count, ofLinkSender, outcome, ofLinkReceiver, ofOomSender, ofOomReceiver>>
RunsLL ==
  /\ program = "link-loader"
  /\ UNCHANGED <<program, ofSessionLoader, ofLinkSender, outcome, ofLinkReceiver, ofOomSender, ofOomReceiver>>
RunsLS ==
  /\ program = "link-sender"
  /\ UNCHANGED <<program, ofSessionLoader, repeat_count, link_count, ofLinkReceiver, ofOomSender, ofOomReceiver>>
RunsLR ==
  /\ program = "link-receiver"
  /\ UNCHANGED <<program, ofSessionLoader, repeat_count, link_count, ofLinkSender, outcome, ofOomSender, ofOomReceiver>>
RunsOS ==
  /\ program = "oom-sender"
  /\ UNCHANGED <<program, ofSessionLoader, repeat_count, link_count, ofLinkSender, ofLinkReceiver, ofOomReceiver>>
RunsOR ==
  /\ program = "oom-receiver"
  /\ UNCHANGED <<program, ofSessionLoader, repeat_count, link_count, ofLinkSender, outcome, ofLinkReceiver, ofOomSender>>

Client ==
  \/ RunsSL /\ SL!Client
  \/ RunsLL /\ LL!Client
  \/ RunsLS /\ LS!Client
  \/ RunsLR /\ LR!Client
  \/ RunsOS /\ OS!Client
  \/ RunsOR /\ OR!Client

\* link-receiver.c may be caught in its loop over a delivery.
Spins == program = "link-receiver" /\ turn = "spin"

Done == (Ended \/ Spins) /\ UNCHANGED vars

Next ==
  \/ RunsSL /\ SL!Next
  \/ RunsLL /\ LL!Next
  \/ RunsLS /\ LS!Next
  \/ RunsLR /\ LR!Next
  \/ RunsOS /\ OS!Next
  \/ RunsOR /\ OR!Next
  \/ Done

Spec == Init /\ [][Next]_vars

\* One thread, which comes back to the proactor and is told of an interrupt;
\* a transport that writes; a peer that, while it is up, answers a begin, an
\* end and a detach, gives credit to every link, settles what it gets, and
\* uses the credit it is given.
Interrupt ==
  \/ RunsSL /\ SL!Interrupt
  \/ RunsLL /\ LL!Interrupt
  \/ RunsLS /\ LS!Interrupt
  \/ RunsLR /\ LR!Interrupt
  \/ RunsOS /\ OS!Interrupt
  \/ RunsOR /\ OR!Interrupt

Serves ==
  \/ RunsSL /\ \E l \in Links : SL!Write(l) \/ SL!PeerFlow(l, 1)
  \/ RunsSL /\ \E s \in Sessions : session[s] # "active" /\ (SL!PeerBegins(s) \/ SL!PeerEnds(s))
  \/ RunsLL /\ \E l \in Links : LL!Write(l) \/ LL!PeerFlow(l, 1)
  \/ RunsLL /\ \E l \in Links : link[l] = "closing" /\ LL!PeerCloses(l)
  \/ RunsLS /\ \E l \in Links : LS!Write(l) \/ LS!PeerFlow(l, 1) \/ LS!PeerSettles(l)
  \/ RunsOR /\ \E l \in Links, more \in BOOLEAN : OR!PeerTransfers(l, more)

\* Each of the services above happens finitely often, so that fairness to all
\* of them together is enough.
Fairness ==
  /\ WF_vars(Client)
  /\ SF_vars(Interrupt)
  /\ SF_vars(Serves)

FairSpec == Spec /\ Fairness

-----------------------------------------------------------------------------
\* The loaders close a session, or links, only with an unfinished message in
\* flight on every link.
ClosesInFlight ==
  /\ program = "session-loader" => SL!ClosesInFlight
  /\ program = "link-loader" => LL!ClosesInFlight

\* What each client counts, and decides by, is what happened: sessions closed,
\* messages in flight, links closed with an outcome, messages received or
\* aborted.  link-sender.c and link-receiver.c may count some twice, but miss none,
\* when a delivery has several events; session-loader.c is spoken of with a peer
\* that ends no session unasked.
CountsRight ==
  /\ program = "session-loader" => SL!CountsRight
  /\ program = "link-loader" => LL!CountsRight
  /\ program = "link-sender" => LS!CountsRight
  /\ program = "link-receiver" => LR!CountsRight

\* oom-sender.c holds no more than the window of the peer, and headers.
WithinWindow == program = "oom-sender" => OS!WithinWindow

\* Unless the peer closes a link or a session of its own accord (or may make
\* link-sender.c count an outcome twice), the loaders and link-sender.c end;
\* a signal ends every client but a link-receiver.c that drains an aborted
\* delivery for ever.
Terminates ==
  /\ (program \in {"session-loader", "link-loader", "link-sender"} /\ ~unasked /\ ~informs) ~> Ended
  /\ ~armed ~> Ended \/ (Spins /\ aborted # {})

\* oom-receiver.c brings the router to a stand: from some time on it can send
\* nothing more, whatever the lengths of its messages.
PushesBack ==
  program = "oom-receiver" => <>[](Ended \/ conn = "closed" \/ OR!PushedBack)
=============================================================================
