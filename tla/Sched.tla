------------------------------- MODULE Sched -------------------------------
(***************************************************************************)
(* The radio scheduler of one LockGrid node: lg_sched.c with the arbiter   *)
(* it asks for radio time (lg_ts_direct.c), the PHY operation it starts    *)
(* (lg_phy_nrf.c) and the work queue its handlers run on.                  *)
(*                                                                         *)
(* Three contexts share lg.ev.  Interrupt handlers (the grant timer and    *)
(* the radio) are one step each.  The single work queue thread runs one    *)
(* work item at a time and can be interrupted between any two of the       *)
(* steps that pc names.  Application threads only submit sched_work.       *)
(*                                                                         *)
(* Time is abstracted: which client wants the radio, whether its slot has  *)
(* already gone by and how long an event lasts are free choices, and so is *)
(* everything a client's handler does except the work it submits.          *)
(***************************************************************************)
EXTENDS Naturals, Sequences

CONSTANTS
  Neighbours,   \* entries of the neighbour table that may hold a link
  NoNeigh,      \* the NULL neighbour pointer
  RxRingSize    \* LG_RX_RING_SIZE

ASSUME SchedAssumption ==
  /\ NoNeigh \notin Neighbours
  /\ RxRingSize \in Nat \ {0}

VARIABLES
  ev,        \* lg.ev: the kind and neighbour of the one planned event
  finish,    \* finish_kind and finish_neigh: the event sched_finish settles
  req,       \* ts.req_pending: a request the arbiter has not answered
  granted,   \* ts.granted
  phy,       \* whether a PHY operation is armed or on air
  idle,      \* whether idle_work is scheduled
  rx,        \* number of frames in the receive ring
  wq,        \* the work queue: submitted items, oldest first
  pc,        \* what the work queue thread is about to do
  choice     \* sched_pick's local "best" between choosing and planning

vars == <<ev, finish, req, granted, phy, idle, rx, wq, pc, choice>>
interruptVars == <<idle, pc, choice>>   \* what no interrupt handler touches
radioVars == <<ev, finish, req, granted, phy>>

NeighKinds == {"LINK", "JOIN_TX", "JOIN_RX", "TRACK"}
NodeKinds == {"JOIN_RX", "BEACON", "SCAN", "CHAN_EVAL"}
RxKinds == {"LINK", "JOIN_RX", "SCAN", "TRACK"}  \* kinds that can receive

NoEvent == [kind |-> "NONE", neigh |-> NoNeigh]

Candidates ==
  [kind : NeighKinds, neigh : Neighbours] \cup [kind : NodeKinds, neigh : {NoNeigh}]

Events == Candidates \cup {NoEvent}

Items == {"sched", "finish", "idle", "rx"}

Steps == {"wait", "pick", "plan", "request", "settle", "clear",
          "rx", "abort", "release", "done", "kick"}

\* k_work_submit_to_queue: an item already queued is not queued again.
Queued(item, q) == \E i \in 1..Len(q) : q[i] = item

Submit(item, q) == IF Queued(item, q) THEN q ELSE Append(q, item)

\* The queues a handler may leave that kicks the scheduler on some paths.
MaybeKick(q) == {q, Submit("sched", q)}

TypeOK ==
  /\ ev \in Events
  /\ finish \in Events
  /\ req \in BOOLEAN
  /\ granted \in BOOLEAN
  /\ phy \in {"idle", "busy"}
  /\ idle \in BOOLEAN
  /\ rx \in 0..RxRingSize
  /\ wq \in Seq(Items)
  /\ pc \in Steps
  /\ choice \in Events

\* lg_start has initialised the scheduler and kicked it once.
Init ==
  /\ ev = NoEvent
  /\ finish = NoEvent
  /\ req = FALSE
  /\ granted = FALSE
  /\ phy = "idle"
  /\ idle = FALSE
  /\ rx = 0
  /\ wq = <<"sched">>
  /\ pc = "wait"
  /\ choice = NoEvent

----------------------------------------------------------------------------
(* Completion, from an interrupt: lg_sched_event_done is then one step.     *)

\* Slip: the radio time is not handed back.
EventDoneHolding(q) ==
  /\ phy' = "idle"
  /\ granted' = granted
  /\ finish' = ev
  /\ ev' = NoEvent
  /\ wq' = Submit("finish", q)

\* q is the queue as the handler left it before calling event_done.
EventDone(q) ==
  /\ phy' = "idle"
  /\ granted' = FALSE
  /\ finish' = ev
  /\ ev' = NoEvent
  /\ wq' = Submit("finish", q)

\* Slip: the ring is never found full.
RxPostUnchecked == rx' = rx + 1 /\ wq' = Submit("rx", wq)

\* lg_rx_post: a full ring drops the frame.
RxPost ==
  IF rx < RxRingSize
  THEN rx' = rx + 1 /\ wq' = Submit("rx", wq)
  ELSE UNCHANGED <<rx, wq>>

----------------------------------------------------------------------------
(* The arbiter's timer, in interrupt context.                               *)

\* grant_handler refuses: ts_failed runs the aborted handler and ends the
\* event.  Only a link's handler can kick: the supervision timeout it may
\* find takes the link down from here.
Refused ==
  /\ req
  /\ req' = FALSE
  /\ IF ev.kind = "NONE"
     THEN UNCHANGED <<ev, finish, granted, phy, wq>>
     ELSE \E q \in IF ev.kind = "LINK" THEN MaybeKick(wq) ELSE {wq} : EventDone(q)
  /\ UNCHANGED rx
  /\ UNCHANGED interruptVars

\* grant_handler grants, but nothing is planned: ts_granted releases at once.
GrantedNothing ==
  /\ req
  /\ ev.kind = "NONE"
  /\ req' = FALSE
  /\ granted' = FALSE
  /\ UNCHANGED <<ev, finish, phy, rx, wq>>
  /\ UNCHANGED interruptVars

\* The event's start handler arms the PHY.
GrantedStart ==
  /\ req
  /\ ev.kind \notin {"NONE", "CHAN_EVAL"}
  /\ req' = FALSE
  /\ granted' = TRUE
  /\ phy' = "busy"
  /\ UNCHANGED <<ev, finish, rx, wq>>
  /\ UNCHANGED interruptVars

\* The start handler could not arm the PHY in time, or it is the noise
\* measurement, which runs to completion where it stands.
GrantedDone ==
  /\ req
  /\ ev.kind # "NONE"
  /\ req' = FALSE
  /\ EventDone(wq)
  /\ UNCHANGED rx
  /\ UNCHANGED interruptVars

Grant == GrantedNothing \/ GrantedStart \/ GrantedDone

----------------------------------------------------------------------------
(* PHY callbacks, in interrupt context.                                     *)

\* The handler re-arms: a link turns round from transmit to receive or back,
\* a beacon or handshake sends its next copy or fragment, a receive window
\* stays open.
PhyContinue ==
  /\ phy = "busy"
  /\ ev.kind \notin {"NONE", "CHAN_EVAL"}
  /\ \/ ev.kind \in RxKinds /\ RxPost
     \/ UNCHANGED <<rx, wq>>
  /\ UNCHANGED radioVars
  /\ UNCHANGED interruptVars

\* The last operation of the event ends, with or without a frame to post.
\* With no event planned the callback ends it all the same.
PhyFinish ==
  /\ phy = "busy"
  /\ \/ /\ ev.kind \in RxKinds
        /\ rx < RxRingSize
        /\ rx' = rx + 1
        /\ EventDone(Submit("rx", wq))
     \/ /\ rx' = rx
        /\ EventDone(wq)
  /\ UNCHANGED req
  /\ UNCHANGED interruptVars

----------------------------------------------------------------------------
(* The work queue thread.                                                   *)

\* The thread takes the oldest item; a running item may be submitted again.
TakeWork ==
  /\ pc = "wait"
  /\ wq # <<>>
  /\ wq' = Tail(wq)
  /\ pc' = CASE Head(wq) = "finish" -> "settle"
             [] Head(wq) = "rx" -> "rx"
             [] OTHER -> "pick"
  /\ UNCHANGED <<idle, rx, choice>>
  /\ UNCHANGED radioVars

\* Slip: the guard forgets that the PHY may still be running.
SlotFreeWhateverPhy == ev.kind = "NONE" /\ ~granted

SlotFree == ev.kind = "NONE" /\ ~granted /\ phy = "idle"

\* sched_pick finds the slot owned and leaves it alone.
PickBusy ==
  /\ pc = "pick"
  /\ ~SlotFree
  /\ pc' = "wait"
  /\ UNCHANGED <<idle, rx, wq, choice>>
  /\ UNCHANGED radioVars

\* Slip: nothing brings the scheduler back.
PickNothingForGood ==
  /\ pc = "pick"
  /\ SlotFree
  /\ pc' = "wait"
  /\ UNCHANGED <<idle, rx, wq, choice>>
  /\ UNCHANGED radioVars

\* sched_pick finds no candidate and comes back in LG_SCHED_IDLE_POLL_US.
PickNothing ==
  /\ pc = "pick"
  /\ SlotFree
  /\ idle' = TRUE
  /\ pc' = "wait"
  /\ UNCHANGED <<rx, wq, choice>>
  /\ UNCHANGED radioVars

\* sched_pick chooses a link whose frame cannot be staged, and skips it.
PickUnstageable ==
  /\ pc = "pick"
  /\ SlotFree
  /\ wq' = Submit("sched", wq)
  /\ pc' = "wait"
  /\ UNCHANGED <<idle, rx, choice>>
  /\ UNCHANGED radioVars

\* sched_pick chooses a candidate, staging the frame if it is a link.
PickCandidate ==
  /\ pc = "pick"
  /\ SlotFree
  /\ choice' \in Candidates
  /\ pc' = "plan"
  /\ UNCHANGED <<idle, rx, wq>>
  /\ UNCHANGED radioVars

\* event_plan fills in lg.ev.
Plan ==
  /\ pc = "plan"
  /\ ev' = choice
  /\ choice' = NoEvent
  /\ pc' = "request"
  /\ UNCHANGED <<finish, req, granted, phy, idle, rx, wq>>

\* Slip: the event is dropped but its slot is not released.
DropHoldingSlot ==
  /\ pc = "request"
  /\ wq' = Submit("sched", wq)
  /\ pc' = "wait"
  /\ UNCHANGED <<ev, finish, req, granted, phy, idle, rx, choice>>

\* Slip: the event is dropped and nobody looks for another.
DropQuietly ==
  /\ pc = "request"
  /\ ev' = NoEvent
  /\ pc' = "wait"
  /\ UNCHANGED <<finish, req, granted, phy, idle, rx, wq, choice>>

\* The slot has gone by, or the arbiter would not take the request: release
\* the event and look again.  An older request may survive: only an arbiter
\* that cannot set its timer forgets it.
Drop ==
  /\ pc = "request"
  /\ req' \in {req, FALSE}
  /\ ev' = NoEvent
  /\ wq' = Submit("sched", wq)
  /\ pc' = "wait"
  /\ UNCHANGED <<finish, granted, phy, idle, rx, choice>>

\* Slip: the arbiter's answer to the request is not checked.
RequestUnchecked ==
  /\ pc = "request"
  /\ req' \in BOOLEAN
  /\ pc' = "wait"
  /\ UNCHANGED <<ev, finish, granted, phy, idle, rx, wq, choice>>

\* lg_ts_request replaces whatever request was pending.
Request ==
  /\ pc = "request"
  /\ req' = TRUE
  /\ pc' = "wait"
  /\ UNCHANGED <<ev, finish, granted, phy, idle, rx, wq, choice>>

\* sched_finish settles the event that ended; a link going down or a role
\* review may kick the scheduler.
Settle ==
  /\ pc = "settle"
  /\ wq' \in MaybeKick(wq)
  /\ pc' = "clear"
  /\ UNCHANGED <<idle, rx, choice>>
  /\ UNCHANGED radioVars

\* ... then forgets it and goes on into sched_pick.
ClearFinish ==
  /\ pc = "clear"
  /\ finish' = NoEvent
  /\ pc' = "pick"
  /\ UNCHANGED <<ev, req, granted, phy, idle, rx, wq, choice>>

\* rx_handler is done when the ring is empty.
RxEmpty ==
  /\ pc = "rx"
  /\ rx = 0
  /\ pc' = "wait"
  /\ UNCHANGED <<idle, rx, wq, choice>>
  /\ UNCHANGED radioVars

\* rx_handler dispatches a frame, which may kick; or it is a beacon worth a
\* handshake, which first gives up the scan it was heard in.  The frame keeps
\* its place in the ring until its handler returns.
RxDispatch ==
  /\ pc = "rx"
  /\ rx > 0
  /\ \/ rx' = rx - 1 /\ wq' \in MaybeKick(wq) /\ pc' = "rx"
     \/ UNCHANGED <<rx, wq>> /\ pc' = IF ev.kind = "SCAN" THEN "abort" ELSE "kick"
  /\ UNCHANGED <<idle, choice>>
  /\ UNCHANGED radioVars

\* lg_sched_abort calls lg_sched_event_done on the thread, where an interrupt
\* may come between the PHY stop, the release and the rest.
AbortStop ==
  /\ pc = "abort"
  /\ phy' = "idle"
  /\ pc' = "release"
  /\ UNCHANGED <<ev, finish, req, granted, idle, rx, wq, choice>>

AbortRelease ==
  /\ pc = "release"
  /\ granted' = FALSE
  /\ pc' = "done"
  /\ UNCHANGED <<ev, finish, req, phy, idle, rx, wq, choice>>

AbortDone ==
  /\ pc = "done"
  /\ finish' = ev
  /\ ev' = NoEvent
  /\ wq' = Submit("finish", wq)
  /\ pc' = "kick"
  /\ UNCHANGED <<req, granted, phy, idle, rx, choice>>

\* The kick that follows a handshake's start, and the frame is dealt with.
RxKick ==
  /\ pc = "kick"
  /\ wq' = Submit("sched", wq)
  /\ rx' = rx - 1
  /\ pc' = "rx"
  /\ UNCHANGED <<idle, choice>>
  /\ UNCHANGED radioVars

Pick == PickBusy \/ PickNothing \/ PickUnstageable \/ PickCandidate
RxHandler == RxEmpty \/ RxDispatch \/ AbortStop \/ AbortRelease \/ AbortDone \/ RxKick

Thread == TakeWork \/ Pick \/ Plan \/ Drop \/ Request \/ Settle \/ ClearFinish \/ RxHandler

----------------------------------------------------------------------------
(* The timers and threads around it.                                        *)

\* idle_work expires and is submitted.
IdleExpire ==
  /\ idle
  /\ idle' = FALSE
  /\ wq' = Submit("idle", wq)
  /\ UNCHANGED <<rx, pc, choice>>
  /\ UNCHANGED radioVars

\* lg_sched_kick from an application thread: lg_send, a new uplink, tuning.
AppKick ==
  /\ wq' = Submit("sched", wq)
  /\ UNCHANGED <<idle, rx, pc, choice>>
  /\ UNCHANGED radioVars

Next ==
  \/ Refused
  \/ Grant
  \/ PhyContinue
  \/ PhyFinish
  \/ Thread
  \/ IdleExpire
  \/ AppKick

Spec == Init /\ [][Next]_vars

\* The work queue thread is cooperative and never blocks, armed timers expire,
\* and a PHY operation ends: a transmission by itself, a reception when its
\* window closes.
Fairness ==
  /\ WF_vars(Thread)
  /\ WF_vars(Refused \/ Grant)
  /\ WF_vars(PhyFinish)
  /\ WF_vars(IdleExpire)

FairSpec == Spec /\ Fairness

----------------------------------------------------------------------------
(* Properties.                                                              *)

\* sched_pick plans an event only while no radio time is held and the PHY is
\* quiet, whatever interrupt came between its guard and event_plan.
PlansOnQuietRadio ==
  [][ev.kind = "NONE" /\ ev'.kind # "NONE" => ~granted /\ phy = "idle"]_vars

\* Radio time is never held with nothing using it: sched_pick refuses to look
\* while it is, so a leaked grant would silence the node for good.
NoLeakedGrant == granted => phy = "busy" \/ pc = "release"

\* A planned event is always on its way to an end: the arbiter owes an answer,
\* the PHY owes a callback, or the thread is about to request or to end it.
EventDriven ==
  ev.kind # "NONE" => req \/ phy = "busy" \/ pc \in {"request", "release", "done"}

\* An item in the queue that makes the thread look for work.
WillPick(q) == Queued("sched", q) \/ Queued("finish", q) \/ Queued("idle", q)

\* The strengthening behind NeverStalls: someone will always look again.
LookAhead ==
  \/ pc \in {"pick", "plan", "settle", "clear", "abort", "release", "done", "kick"}
  \/ ev.kind # "NONE"
  \/ phy = "busy"
  \/ idle
  \/ WillPick(wq)

\* Nothing disturbs the slot between sched_pick's guard and event_plan.
PlanQuiet ==
  pc = "plan" => ev.kind = "NONE" /\ ~granted /\ phy = "idle" /\ choice.kind # "NONE"

\* A frame stays in the ring while its handler runs.
RxHeld == pc \in {"abort", "release", "done", "kick"} => rx > 0

IInv == TypeOK /\ NoLeakedGrant /\ EventDriven /\ LookAhead /\ PlanQuiet /\ RxHeld

\* Whenever the thread has nothing queued and the radio nothing to do, the
\* idle timer is running, so the node cannot fall asleep for good.
NeverStalls ==
  pc = "wait" /\ wq = <<>> /\ ev.kind = "NONE" /\ phy = "idle" => idle

\* Every planned event ends: it is dropped, refused, aborted or completed.
EventEnds == ev.kind # "NONE" ~> ev.kind = "NONE"

\* The scheduler looks for work again and again.
KeepsLooking == []<>(pc = "pick")
=============================================================================
