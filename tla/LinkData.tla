------------------------------ MODULE LinkData ------------------------------
(***************************************************************************)
(* Messages over one link: the transmit queue (lg_core.c), the frame that  *)
(* is staged for the next event and the bookkeeping that releases a        *)
(* message (lg_link.c), and the suppression of duplicates (lg_route.c).    *)
(*                                                                         *)
(* A node has a single record, evst, of what has happened in a link event, *)
(* whichever of its links the event belonged to.  An event starts with     *)
(* the initiator's frame; the responder replies; then each end settles the *)
(* event on its work queue and stages the next frame.                      *)
(*                                                                         *)
(* The messages are those whose next hop is the other end.  What is        *)
(* received is handled as it arrives.  An event is settled before the next *)
(* one starts (Sched.tla shows when that fails), and the link stays up.    *)
(***************************************************************************)
EXTENDS Naturals, Sequences, FiniteSets

CONSTANTS
  QueueSize,    \* LOCKGRID_TX_QUEUE_SIZE
  DupSize,      \* LG_DUP_CACHE_SIZE
  MaxMsgs,      \* bound: messages given to each end
  MaxForeign,   \* bound: messages of other origins each end receives
  Troubles,     \* bound: the kinds of trouble there may be, each once
  MaxTroubles   \* bound: how many there are in all

ASSUME LinkDataAssumption ==
  /\ QueueSize \in Nat \ {0} /\ DupSize \in Nat \ {0}
  /\ MaxMsgs \in Nat /\ MaxForeign \in Nat
  /\ Troubles \subseteq {"loss", "reply", "refused", "ctrl", "full", "reroute"}
  /\ MaxTroubles \in Nat

VARIABLES
  queue,    \* messages waiting at each end, the oldest first
  staged,   \* the frame each end sends next
  needsAck, \* tx_needs_ack of the link at each end
  evst,     \* each node's record of its latest link event
  phase,    \* where each end is in the link's current event
  dup,      \* each node's latest entries in the duplicate cache
  given,    \* how many messages the applications have given to each end
  arrived,  \* the messages of each end that were delivered at the other
  freed,    \* the messages each end has released
  foreign,  \* messages of other origins seen by each end
  had       \* the troubles there have been

vars == <<queue, staged, needsAck, evst, phase, dup, given, arrived, freed,
          foreign, had>>

Initiator == "initiator"
Responder == "responder"
Ends == {Initiator, Responder}
Peer(e) == IF e = Initiator THEN Responder ELSE Initiator

\* Messages are numbered in the order they were given.  NoMsg is a control
\* frame, an advertisement or a keepalive, and in the duplicate cache a message
\* of another origin.
NoMsg == 0

Init ==
  /\ queue = [e \in Ends |-> <<>>]
  /\ staged = [e \in Ends |-> NoMsg]
  /\ needsAck = [e \in Ends |-> FALSE]
  /\ evst = [e \in Ends |-> [got |-> FALSE, sent |-> FALSE]]
  /\ phase = [e \in Ends |-> "idle"]
  /\ dup = [e \in Ends |-> <<>>]
  /\ given = [e \in Ends |-> 0]
  /\ arrived = [e \in Ends |-> <<>>]
  /\ freed = [e \in Ends |-> {}]
  /\ foreign = [e \in Ends |-> 0]
  /\ had = {}

----------------------------------------------------------------------------
Trouble(kind) ==
  /\ kind \in Troubles \ had /\ Cardinality(had) < MaxTroubles
  /\ had' = had \cup {kind}

\* Nothing goes wrong, or only that.
MayTrouble(kind, does) == IF does THEN Trouble(kind) ELSE UNCHANGED had

\* Slip: dup_next is not taken modulo the size.
RecordedPastEnd(d, k) == Append(d, k)

\* Slip: dup_next stays where it is.
RecordedInPlace(d, k) == <<k>>

\* What lg_route_is_duplicate leaves in the cache.
Recorded(d, k) == IF Len(d) < DupSize THEN Append(d, k) ELSE Append(Tail(d), k)

InCache(d, k) == \E i \in 1 .. Len(d) : d[i] = k

\* handle_data at e, for the frame the peer sent.
Receive(e) ==
  LET k == staged[Peer(e)] IN
  IF k = NoMsg \/ InCache(dup[e], k)
  THEN UNCHANGED <<dup, arrived>>
  ELSE /\ dup' = [dup EXCEPT ![e] = Recorded(@, k)]
       /\ arrived' = [arrived EXCEPT ![Peer(e)] = Append(@, k)]

\* lg_rx_post at e: the frame is handled, or the ring is full.
Post(e) ==
  \/ Receive(e) /\ UNCHANGED had
  \/ Trouble("full") /\ UNCHANGED <<dup, arrived>>

\* lg_send, for a message whose next hop is the other end.
Send(e) ==
  /\ given[e] < MaxMsgs /\ Len(queue[e]) < QueueSize
  /\ given' = [given EXCEPT ![e] = @ + 1]
  /\ queue' = [queue EXCEPT ![e] = Append(@, given'[e])]
  /\ UNCHANGED <<staged, needsAck, evst, phase, dup, arrived, freed, foreign, had>>

\* A message of another origin is received over another link.
Overhear(e) ==
  /\ foreign[e] < MaxForeign
  /\ foreign' = [foreign EXCEPT ![e] = @ + 1]
  /\ dup' = [dup EXCEPT ![e] = Recorded(@, NoMsg)]
  /\ UNCHANGED <<queue, staged, needsAck, evst, phase, given, arrived, freed, had>>

\* The oldest message's next hop becomes another neighbour.
Reroute(e) ==
  /\ queue[e] # <<>>
  /\ Trouble("reroute")
  /\ queue' = [queue EXCEPT ![e] = Tail(@)]
  /\ UNCHANGED <<staged, needsAck, evst, phase, dup, given, arrived, freed, foreign>>

----------------------------------------------------------------------------
(* An event of the link.                                                    *)

Idle == \A e \in Ends : phase[e] = "idle"

\* link_start at both ends; the first frame arrives.
Request ==
  /\ Idle
  /\ evst' = [e \in Ends |-> [got |-> e = Responder, sent |-> e = Initiator]]
  /\ phase' = [e \in Ends |-> IF e = Responder THEN "reply" ELSE "listen"]
  /\ Post(Responder)
  /\ UNCHANGED <<queue, staged, needsAck, given, freed, foreign>>

\* The first frame is lost: the responder hears nothing and does not reply.
RequestLost ==
  /\ Idle
  /\ Trouble("loss")
  /\ evst' = [e \in Ends |-> [got |-> FALSE, sent |-> e = Initiator]]
  /\ phase' = [e \in Ends |-> "over"]
  /\ UNCHANGED <<queue, staged, needsAck, dup, given, arrived, freed, foreign>>

\* The reply, link_tx_done at the responder, link_rx_done at the initiator.
Reply ==
  /\ phase[Responder] = "reply"
  /\ evst' = [e \in Ends |-> [got |-> TRUE, sent |-> TRUE]]
  /\ phase' = [e \in Ends |-> "over"]
  /\ Post(Initiator)
  /\ UNCHANGED <<queue, staged, needsAck, given, freed, foreign>>

\* The reply is lost (link_rx_fail).
ReplyLost ==
  /\ phase[Responder] = "reply"
  /\ Trouble("reply")
  /\ evst' = [evst EXCEPT ![Responder].sent = TRUE]
  /\ phase' = [e \in Ends |-> "over"]
  /\ UNCHANGED <<queue, staged, needsAck, dup, given, arrived, freed, foreign>>

\* What an event leaves in evst at an end that had the radio for it.
Outcomes == {o \in [got : BOOLEAN, sent : BOOLEAN] : o.got => o.sent}

\* The radio time of e is refused, so link_start does not run there
\* (link_aborted) and evst is still that of the node's latest link event: of
\* this link, or of another since.  The other end has its event alone.
Refused(e) ==
  /\ Idle
  /\ Trouble("refused")
  /\ \E latest \in {evst[e]} \cup Outcomes :
       evst' = [x \in Ends |-> IF x = e THEN latest
                               ELSE [got |-> FALSE, sent |-> x = Initiator]]
  /\ phase' = [x \in Ends |-> "over"]
  /\ UNCHANGED <<queue, staged, needsAck, dup, given, arrived, freed, foreign>>

\* Slip: whether or not anything was received.
ConfirmsUnheard(e) == needsAck[e] /\ evst[e].sent

\* Whether lg_link_event_finish takes the event for a delivery.
Confirms(e) == evst[e].got /\ needsAck[e] /\ evst[e].sent

\* Slip: the message is released but stays in the queue.
RemainingAll(e) == queue[e]

\* The queue when the oldest message (lg_txq_peek) is released.
Remaining(e) == IF queue[e] = <<>> THEN <<>> ELSE Tail(queue[e])

\* lg_txq_peek
Oldest(q) == Head(q)

\* lg_link_event_finish with lg_link_stage_tx: a control frame first, then
\* the oldest message, else a keepalive.
Finish(e) ==
  /\ phase[e] = "over"
  /\ phase' = [phase EXCEPT ![e] = "idle"]
  /\ queue' = IF Confirms(e) THEN [queue EXCEPT ![e] = Remaining(e)] ELSE queue
  /\ freed' = IF Confirms(e) /\ queue[e] # <<>>
              THEN [freed EXCEPT ![e] = @ \cup {Oldest(queue[e])}] ELSE freed
  /\ \E ctrl \in BOOLEAN :
       /\ MayTrouble("ctrl", ctrl)
       /\ staged' = [staged EXCEPT ![e] =
            IF ctrl \/ queue'[e] = <<>> THEN NoMsg ELSE Oldest(queue'[e])]
       /\ needsAck' = [needsAck EXCEPT ![e] =
            IF ctrl THEN @ /\ ~Confirms(e) ELSE queue'[e] # <<>>]
  /\ UNCHANGED <<evst, dup, given, arrived, foreign>>

Next ==
  \/ \E e \in Ends : Send(e) \/ Overhear(e) \/ Reroute(e)
  \/ Request \/ RequestLost \/ Reply \/ ReplyLost
  \/ \E e \in Ends : Refused(e) \/ Finish(e)

Spec == Init /\ [][Next]_vars

\* Events come round at every interval, a reply follows the first frame, and
\* the work queue settles what is over.
Fairness ==
  /\ WF_vars(Request) /\ WF_vars(Reply)
  /\ \A e \in Ends : WF_vars(Finish(e))

FairSpec == Spec /\ Fairness

----------------------------------------------------------------------------
(* Properties.                                                              *)

Numbers == 1 .. MaxMsgs

\* Every variable holds a value of its kind, a queue holds each message once,
\* and no more than fit.
TypeOK ==
  /\ queue \in [Ends -> Seq(Numbers)]
  /\ \A e \in Ends : Len(queue[e]) <= QueueSize
  /\ staged \in [Ends -> Numbers \cup {NoMsg}]
  /\ needsAck \in [Ends -> BOOLEAN]
  /\ evst \in [Ends -> [got : BOOLEAN, sent : BOOLEAN]]
  /\ phase \in [Ends -> {"idle", "reply", "listen", "over"}]
  /\ dup \in [Ends -> Seq(Numbers \cup {NoMsg})]
  /\ \A e \in Ends : Len(dup[e]) <= DupSize
  /\ given \in [Ends -> 0 .. MaxMsgs]
  /\ arrived \in [Ends -> Seq(Numbers)]
  /\ freed \in [Ends -> SUBSET Numbers]
  /\ foreign \in [Ends -> 0 .. MaxForeign]
  /\ had \subseteq Troubles

\* What may lead to a message of e being released before the other end has
\* it: a refused slot is settled with the record of an earlier event, a
\* control frame is sent in place of a message that still waits for its
\* confirmation, the message released is not the one that was sent, the frame
\* is dropped after it was received, and the responder does not learn that
\* its reply is lost.
Excuses(e) ==
  {"refused", "ctrl", "reroute", "full"} \cup (IF e = Responder THEN {"reply"} ELSE {})

Arrived(e) == {arrived[e][i] : i \in 1 .. Len(arrived[e])}

\* Whatever frames are lost, a message is released only when it has been
\* delivered, the excuses apart (lg_link_event_finish).
FreedWasDelivered ==
  \A e \in Ends : had \cap Excuses(e) = {} => freed[e] \subseteq Arrived(e)

Abs == INSTANCE OrderedDelivery WITH Ends <- Ends, given <- given, arrived <- arrived

\* Whatever goes wrong, the messages of an end arrive in order and at most
\* once each: those sent again are recognised (lg_route_is_duplicate), as long
\* as fewer messages than the cache holds come in between.
DeliversInOrder == Abs!Spec

\* The queues drain when no more messages are given: no message is left
\* behind, and none is sent for ever.
QueuesDrain == <>[](\A e \in Ends : queue[e] = <<>>)
=============================================================================
