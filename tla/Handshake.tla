----------------------------- MODULE Handshake -----------------------------
(***************************************************************************)
(* The authentication handshake of lg_join.c between one joiner and one    *)
(* router, over a radio that loses fragments and a scheduler that does not *)
(* always give a slot: the full exchange JOIN_REQ, JOIN_RSP, JOIN_CFM,     *)
(* JOIN_ACK and the short one RESUME_REQ, RESUME_RSP, with the ends' link  *)
(* coming up (lg_link_establish) and going down (lg_link_down).            *)
(*                                                                         *)
(* Both ends count slots of LG_JOIN_SLOT_US from an origin of their own.   *)
(* In a slot an end transmits the message it owes, or listens; its radio   *)
(* may be refused, its event may be planned too late, or the slot may go   *)
(* by while it does something else.  Cryptography is abstracted to what it *)
(* distinguishes: a key is the number of the derivation that made it, and  *)
(* a signature holds when everything signed comes from one exchange.       *)
(*                                                                         *)
(* The other neighbours, the back-off between attempts (an attempt starts  *)
(* at any time) and the neighbour table's capacity (a router that has no   *)
(* room is one that does not listen) are left out.                         *)
(***************************************************************************)
EXTENDS Naturals, Sequences

CONSTANTS
  ReqFrags,         \* fragments of a JOIN_REQ
  RspFrags,         \* fragments of a JOIN_RSP
  IdleLimit,        \* LG_JOIN_IDLE_LIMIT
  ResumeIdleLimit,  \* LG_JOIN_IDLE_LIMIT_RESUME
  SlotLimit,        \* slot_limit of a full handshake
  ResumeSlotLimit,  \* slot_limit of a resumption
  LastSlot,         \* where the slot index saturates: 255
  MaxAttempts,      \* bound: handshakes the joiner starts
  MaxLosses,        \* bound: fragments the air loses
  MaxDrops,         \* bound: slots an end does not get
  MaxOutages        \* bound: times an end loses a peer that is still linked

ASSUME HandshakeAssumption ==
  /\ ReqFrags \in Nat \ {0} /\ RspFrags \in Nat \ {0}
  /\ IdleLimit \in Nat \ {0} /\ ResumeIdleLimit \in Nat \ {0}
  /\ SlotLimit \in Nat \ {0} /\ ResumeSlotLimit \in Nat \ {0}
  /\ LastSlot \in Nat /\ SlotLimit <= LastSlot /\ ResumeSlotLimit <= LastSlot
  /\ MaxAttempts \in Nat /\ MaxLosses \in Nat /\ MaxDrops \in Nat /\ MaxOutages \in Nat

VARIABLES
  node,      \* what each end holds about the other: its lg_neigh and its hs
  sub,       \* how far each end is in the current slot
  air,       \* fragments on their way to each end, oldest first
  derived,   \* number of keys derived so far
  attempts,  \* handshakes the joiner has started
  losses,    \* fragments lost
  drops,     \* slots not given
  outages,   \* links lost at one end only
  missed     \* whether the router was deaf to a request

vars == <<node, sub, air, derived, attempts, losses, drops, outages, missed>>
counters == <<derived, attempts, losses, drops, outages, missed>>

Joiner == "joiner"
Router == "router"
Ends == {Joiner, Router}
Other(e) == IF e = Joiner THEN Router ELSE Joiner

Requests == {"JOIN_REQ", "RESUME_REQ"}
Parameters == {"JOIN_ACK", "RESUME_RSP"}       \* carry the link parameters
Secured == {"JOIN_CFM"} \cup Parameters        \* sent under the link key
Types == Requests \cup {"JOIN_RSP"} \cup Secured

NoKey == 0

\* A message: the key it establishes or is sealed with, and the attempt of the
\* joiner it answers or opens.
Message == [type : Types, key : Nat, attempt : Nat]

Frags(type) ==
  CASE type = "JOIN_REQ" -> ReqFrags
    [] type = "JOIN_RSP" -> RspFrags
    [] OTHER -> 1

\* The handshake context when no handshake is under way.
NoHs == [live |-> FALSE]

\* ... and as a handshake finds it: nothing staged, nothing received.  skip is
\* the number of fragments that start before this end's slots do, and aligned
\* whether its slots fall on the joiner's at all.
NewHs(resuming, skip) ==
  [live |-> TRUE, resuming |-> resuming, age |-> 0, idle |-> 0,
   staged |-> {}, owe_tx |-> FALSE, was_tx |-> FALSE,
   progressed |-> FALSE, slot_refused |-> FALSE,
   rx |-> [type |-> "JOIN_REQ", parts |-> <<>>],
   skip |-> skip, aligned |-> TRUE]

Fresh == [state |-> "HEARD", key |-> NoKey, has_ltk |-> FALSE, hs |-> NoHs]

Init ==
  /\ node = [e \in Ends |-> Fresh]
  /\ sub = [e \in Ends |-> "wait"]
  /\ air = [e \in Ends |-> <<>>]
  /\ derived = 0 /\ attempts = 0
  /\ losses = 0 /\ drops = 0 /\ outages = 0
  /\ missed = FALSE

----------------------------------------------------------------------------
(* What happens to one end's record n.                                      *)

\* Slip: the handshake context is not cleared.
FailKeepingContext(n) == [n EXCEPT !.key = NoKey, !.state = IF n.has_ltk THEN "LOST" ELSE "HEARD"]

\* join_fail
Fail(n) ==
  [n EXCEPT !.key = NoKey,
            !.state = IF n.has_ltk THEN "LOST" ELSE "HEARD",
            !.hs = NoHs]

\* lg_link_establish, and the context is cleared.
Establish(n) == [n EXCEPT !.state = "LINKED", !.hs = NoHs]

\* lg_link_down: the session key becomes the long term key.
TearDown(n) == [n EXCEPT !.state = "LOST", !.key = NoKey, !.has_ltk = TRUE]

\* Slip: the message is built but the debt is not taken.
StageQuietly(hs, msg) == [hs EXCEPT !.staged = {msg}]

\* stage_message
Stage(hs, msg) == [hs EXCEPT !.staged = {msg}, !.owe_tx = TRUE]

\* A step that consumed a message and answers it under key.
Answer(n, key, type, attempt) ==
  LET hs == Stage(n.hs, [type |-> type, key |-> key, attempt |-> attempt])
  IN [n EXCEPT !.key = key, !.hs = [hs EXCEPT !.progressed = TRUE, !.rx.parts = <<>>]]

\* A message reassembled from the fragments of one transmission.
Whole(rx) == \A i \in DOMAIN rx.parts : rx.parts[i] = rx.parts[0]

\* The handler of a complete message.  The nonce and the ephemeral key of a
\* JOIN_REQ are in its first fragment and the certificate is always the same;
\* the signature of a JOIN_RSP covers all of it and the joiner's own nonce.
Handle(n, rx) ==
  LET msg == rx.parts[0]
  IN CASE rx.type = "JOIN_REQ" ->
            [Answer(n, derived + 1, "JOIN_RSP", msg.attempt) EXCEPT !.has_ltk = TRUE]
       [] rx.type = "JOIN_RSP" ->
            IF Whole(rx) /\ msg.attempt = attempts
            THEN [Answer(n, msg.key, "JOIN_CFM", attempts) EXCEPT !.has_ltk = TRUE]
            ELSE Fail(n)
       [] rx.type = "JOIN_CFM" -> Answer(n, n.key, "JOIN_ACK", msg.attempt)
       [] rx.type = "RESUME_REQ" ->
            IF n.has_ltk THEN Answer(n, derived + 1, "RESUME_RSP", msg.attempt) ELSE Fail(n)
       [] rx.type \in Parameters -> Establish(n)

\* reassemble: a first fragment, or one of another type, starts afresh.
Reassemble(rx, f) ==
  LET kept == IF rx.type # f.msg.type \/ f.idx = 0 THEN <<>> ELSE rx.parts
  IN [type |-> f.msg.type,
      parts |-> [i \in DOMAIN kept \cup {f.idx} |-> IF i = f.idx THEN f.msg ELSE kept[i]]]

Complete(rx) == DOMAIN rx.parts = 0..(Frags(rx.type) - 1)

\* Slip: a secured fragment is taken for what it claims to be.
ReadableAnyway(n, msg) == TRUE

\* lg_sec_decrypt
Readable(n, msg) == msg.type \in Secured => n.key = msg.key

\* lg_join_rx_pdu finds a handshake with the sender, or opens one for a request
\* with this fragment's arrival as its origin.
Opened(n, f) ==
  IF ~n.hs.live /\ f.msg.type \in Requests
  THEN [n EXCEPT !.hs = NewHs(f.msg.type = "RESUME_REQ", f.idx), !.state = "JOINING"]
  ELSE n

\* lg_join_rx_pdu
Dispatch(n, f) ==
  LET m == Opened(n, f)
      rx == Reassemble(m.hs.rx, f)
  IN IF ~m.hs.live \/ ~Readable(m, f.msg) THEN m
     ELSE IF Complete(rx) THEN Handle(m, rx)
     ELSE [m EXCEPT !.hs.rx = rx]

\* Whether the dispatch of f derives a key.
Derives(n, f) ==
  /\ f.msg.type = "JOIN_REQ" \/ (f.msg.type = "RESUME_REQ" /\ n.has_ltk)
  /\ Complete(Reassemble(Opened(n, f).hs.rx, f))

\* Slip: an end that has transmitted goes on owing the message.
DebtKept(hs) == hs.owe_tx \/ (~hs.progressed /\ hs.staged # {})

\* What lg_join_event_finish makes of the debt: having transmitted, listen
\* next; having waited for nothing, send again whatever was sent last.
Debt(hs) ==
  IF hs.was_tx THEN FALSE
  ELSE IF hs.progressed THEN hs.owe_tx
  ELSE hs.staged # {}

\* ... and of the slots in a row that produced nothing.
Idle(hs) ==
  IF hs.progressed THEN 0
  ELSE IF hs.slot_refused THEN hs.idle
  ELSE hs.idle + 1

\* Slip: one slot too many.
SpentLate(hs) ==
  \/ Idle(hs) > (IF hs.resuming THEN ResumeIdleLimit ELSE IdleLimit)
  \/ hs.age + 1 > (IF hs.resuming THEN ResumeSlotLimit ELSE SlotLimit)

\* The attempt is over: too many idle slots, or the deadline of all slots.
Spent(hs) ==
  \/ Idle(hs) >= (IF hs.resuming THEN ResumeIdleLimit ELSE IdleLimit)
  \/ hs.age + 1 >= (IF hs.resuming THEN ResumeSlotLimit ELSE SlotLimit)

\* Slip: the router waits for the joiner to be heard on the link.
NeverSent(e, hs) == FALSE

\* The router has transmitted the link parameters, or tried to.
SentParameters(e, hs) ==
  e = Router /\ hs.was_tx /\ \E msg \in hs.staged : msg.type \in Parameters

\* lg_join_event_finish.  Nothing can be owed that is not staged.
Finish(e, n) ==
  IF ~n.hs.live THEN n
  ELSE IF SentParameters(e, n.hs) THEN Establish(n)
  ELSE IF Spent(n.hs) THEN Fail(n)
  ELSE [n EXCEPT !.hs = [@ EXCEPT !.owe_tx = Debt(n.hs), !.idle = Idle(n.hs),
                                  !.slot_refused = FALSE, !.progressed = FALSE]]

----------------------------------------------------------------------------
(* Slots.                                                                   *)

Put(e, n) == node' = [node EXCEPT ![e] = n]
Mark(e, how) == sub' = [sub EXCEPT ![e] = how]

\* Neither end has begun the current slot.
Between == \A e \in Ends : sub[e] = "wait"

\* End e has a slot to run.
Due(e) == sub[e] = "wait" /\ node[e].hs.live

\* The fragments of a message, as build_fragment makes them.
Fragments(msg) == [i \in 1..Frags(msg.type) |-> [msg |-> msg, idx |-> i - 1]]

\* The joiner hears a beacon that offers a window, and starts (lg_join_start).
\* A handshake the router still has open is on other slots from now on.
Start ==
  /\ Between
  /\ attempts < MaxAttempts
  /\ node[Joiner].state \in {"HEARD", "LOST"}
  /\ attempts' = attempts + 1
  /\ LET n == node[Joiner]
         first == [type |-> IF n.has_ltk THEN "RESUME_REQ" ELSE "JOIN_REQ",
                   key |-> NoKey, attempt |-> attempts + 1]
     IN node' = [node EXCEPT
                   ![Joiner] = [n EXCEPT !.state = "JOINING",
                                         !.hs = Stage(NewHs(n.has_ltk, 0), first)],
                   ![Router] = IF @.hs.live THEN [@ EXCEPT !.hs.aligned = FALSE] ELSE @]
  /\ UNCHANGED <<sub, air, derived, losses, drops, outages, missed>>

\* A slot in which the end owes a message: every fragment goes on air, from
\* join_tx_start to the last join_tx_done, and the event is settled.
Transmit(e) ==
  /\ Due(e)
  /\ node[e].hs.owe_tx
  /\ \E msg \in node[e].hs.staged :
       air' = [air EXCEPT ![Other(e)] = Fragments(msg)]
  /\ Put(e, Finish(e, [node[e] EXCEPT !.hs.was_tx = TRUE]))
  /\ Mark(e, "done")
  /\ UNCHANGED counters

\* A slot in which the end owes nothing: join_rx_start.
Listen(e) ==
  /\ Due(e)
  /\ ~node[e].hs.owe_tx
  /\ Put(e, [node[e] EXCEPT !.hs.was_tx = FALSE])
  /\ Mark(e, "listen")
  /\ UNCHANGED air
  /\ UNCHANGED counters

\* A router with no handshake opens its join window, or scans.
OpenWindow ==
  /\ sub[Router] = "wait"
  /\ ~node[Router].hs.live
  /\ node[Joiner].hs.live
  /\ Mark(Router, "listen")
  /\ UNCHANGED <<node, air>>
  /\ UNCHANGED counters

\* A fragment that starts before the listener's slot does is not heard.
TooEarly(e, f) == node[e].hs.live /\ node[e].hs.aligned /\ f.idx < node[e].hs.skip

\* The ends' slots do not fall together: what is heard is a matter of luck.
Misaligned == node[Router].hs.live /\ ~node[Router].hs.aligned

\* The radio receives a fragment, and the work queue dispatches it.
Hear(e) ==
  /\ sub[e] = "listen"
  /\ air[e] # <<>>
  /\ LET f == Head(air[e])
     IN /\ ~TooEarly(e, f)
        /\ Put(e, Dispatch(node[e], f))
        /\ derived' = IF Derives(node[e], f) THEN derived + 1 ELSE derived
  /\ air' = [air EXCEPT ![e] = Tail(@)]
  /\ UNCHANGED <<sub, attempts, losses, drops, outages, missed>>

\* The air loses it, or the listener's window does not cover it.
Miss(e) ==
  /\ sub[e] = "listen"
  /\ air[e] # <<>>
  /\ \/ (Misaligned \/ TooEarly(e, Head(air[e]))) /\ UNCHANGED losses
     \/ losses < MaxLosses /\ losses' = losses + 1
  /\ air' = [air EXCEPT ![e] = Tail(@)]
  /\ UNCHANGED <<node, sub, derived, attempts, drops, outages, missed>>

\* The receive window closes and the event is settled.  A request the router
\* heard while scanning is settled as a scan, so its slot is not.
Close(e) ==
  /\ sub[e] = "listen"
  /\ air[e] = <<>>
  /\ Due(Other(e)) => ~node[Other(e)].hs.owe_tx
  /\ \/ Put(e, Finish(e, node[e]))
     \/ e = Router /\ node[e].hs.live /\ node[e].hs.age = 0 /\ UNCHANGED node
  /\ Mark(e, "done")
  /\ UNCHANGED air
  /\ UNCHANGED counters

\* The arbiter refuses the slot's radio time: join_aborted, and settled.
Refused(e) ==
  /\ Due(e)
  /\ drops < MaxDrops
  /\ Put(e, Finish(e, [node[e] EXCEPT !.hs.was_tx = FALSE, !.hs.progressed = FALSE,
                                      !.hs.slot_refused = TRUE]))
  /\ Mark(e, "done")
  /\ drops' = drops + 1
  /\ UNCHANGED <<air, derived, attempts, losses, outages, missed>>

\* sched_pick finds the slot's event already late: settled as it stands.
Late(e) ==
  /\ Due(e)
  /\ drops < MaxDrops
  /\ Put(e, Finish(e, node[e]))
  /\ Mark(e, "done")
  /\ drops' = drops + 1
  /\ UNCHANGED <<air, derived, attempts, losses, outages, missed>>

\* The slot goes by while the work queue is busy or another event runs.
Displaced(e) ==
  /\ Due(e)
  /\ drops < MaxDrops
  /\ Mark(e, "done")
  /\ drops' = drops + 1
  /\ UNCHANGED <<node, air, derived, attempts, losses, outages, missed>>

\* slot_next_from_clock
NextIndex(age) == IF age < LastSlot THEN age + 1 ELSE LastSlot

\* The clock reaches the next slot: what nobody listened to is gone.
NextSlot ==
  /\ ~Between
  /\ \A e \in Ends : sub[e] = "done" \/ (sub[e] = "wait" /\ ~node[e].hs.live)
  /\ sub' = [e \in Ends |-> "wait"]
  /\ air' = [e \in Ends |-> <<>>]
  /\ node' = [e \in Ends |->
                IF node[e].hs.live THEN [node[e] EXCEPT !.hs.age = NextIndex(@)] ELSE node[e]]
  /\ missed' = (missed \/ (air[Router] # <<>> /\ sub[Router] = "wait"))
  /\ UNCHANGED <<derived, attempts, losses, drops, outages>>

\* Supervision: an end takes its link down, because the other is not on it or
\* because nothing gets through for long enough.
LinkDown(e) ==
  /\ Between
  /\ node[e].state = "LINKED"
  /\ \/ node[Other(e)].state # "LINKED" /\ UNCHANGED outages
     \/ outages < MaxOutages /\ outages' = outages + 1
  /\ Put(e, TearDown(node[e]))
  /\ UNCHANGED <<sub, air, derived, attempts, losses, drops, missed>>

\* The radio gave the slot and something comes of it, or the slot goes by.
Slot(e) == Transmit(e) \/ Listen(e) \/ Hear(e) \/ Close(e)
Trouble(e) == Miss(e) \/ Refused(e) \/ Late(e) \/ Displaced(e)

Next ==
  \/ Start
  \/ OpenWindow
  \/ NextSlot
  \/ \E e \in Ends : Slot(e) \/ Trouble(e) \/ LinkDown(e)

Spec == Init /\ [][Next]_vars

\* Time passes and the scheduler comes round to every handshake slot; a
\* handshake is of the highest priority class.
Fairness ==
  /\ WF_vars(NextSlot)
  /\ \A e \in Ends : WF_vars(Slot(e) \/ Trouble(e))

FairSpec == Spec /\ Fairness

----------------------------------------------------------------------------
(* Properties.                                                              *)

HsOK(hs) ==
  /\ hs.resuming \in BOOLEAN
  /\ hs.idle < (IF hs.resuming THEN ResumeIdleLimit ELSE IdleLimit)
  /\ hs.age <= (IF hs.resuming THEN ResumeSlotLimit ELSE SlotLimit) + MaxDrops
  /\ hs.staged \subseteq Message
  /\ hs.owe_tx => hs.staged # {}
  /\ \A i \in DOMAIN hs.rx.parts : hs.rx.parts[i].type = hs.rx.type

\* The idle count and the slot index stay under their limits, what is owed is
\* staged, and a node is joining exactly while it has a handshake.
TypeOK ==
  /\ \A e \in Ends :
       /\ node[e].state \in {"HEARD", "JOINING", "LINKED", "LOST"}
       /\ node[e].key \in 0..derived
       /\ node[e].has_ltk \in BOOLEAN
       /\ node[e].hs.live <=> node[e].state = "JOINING"
       /\ node[e].hs.live => HsOK(node[e].hs)
  /\ sub \in [Ends -> {"wait", "listen", "done"}]
  /\ derived \in Nat
  /\ attempts \in 0..MaxAttempts
  /\ losses \in 0..MaxLosses
  /\ drops \in 0..MaxDrops
  /\ outages \in 0..MaxOutages
  /\ missed \in BOOLEAN

Linked(e) == node[e].state = "LINKED"

\* Two ends that both believe in the link hold the same session key.
KeysAgree == Linked(Joiner) /\ Linked(Router) => node[Joiner].key = node[Router].key

\* The joiner never comes up alone: at the moment it is linked the router is
\* linked to it already, under the same key.
JoinsTogether ==
  [][~Linked(Joiner) /\ Linked(Joiner)' =>
       Linked(Router) /\ node[Router].key = node'[Joiner].key]_vars

Owes(e) == node[e].hs.live /\ node[e].hs.owe_tx

\* lg_join.c keeps turns without slot parity: as long as both ends get every
\* slot, whatever the air loses, they never both owe a message at once.
TurnsKept ==
  drops = 0 /\ ~Misaligned => ~(Owes(Joiner) /\ Owes(Router))

\* A first attempt that loses nothing, with the router listening, is not given
\* up: the idle limit and the deadline leave room for the whole exchange.
CleanAttemptSucceeds ==
  attempts = 1 /\ losses = 0 /\ drops = 0 /\ outages = 0 /\ ~missed =>
    node[Joiner].state \in {"JOINING", "LINKED"}

\* No handshake hangs: each end is linked or has given up in the end, so the
\* one handshake context is free again.
HandshakeEnds == \A e \in Ends : node[e].hs.live ~> ~node[e].hs.live

\* Re-attaching by resumption takes one round trip (lg_join.c, file comment):
\* with nothing lost or dropped and the router listening, it is not given up.
ResumptionSucceeds ==
  [][node[Joiner].hs.live /\ node[Joiner].hs.resuming /\ losses = 0 /\ drops = 0 /\ ~missed =>
       node'[Joiner].state \in {"JOINING", "LINKED"}]_vars
=============================================================================
