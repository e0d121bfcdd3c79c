---------------------------- MODULE SchedProofs ----------------------------
(***************************************************************************)
(* Theorems about Sched, for any neighbour table and any ring size, and    *)
(* about the choice among the candidates, SchedSelect, for any number of   *)
(* clients, any anchors and any contention window.                         *)
(***************************************************************************)
EXTENDS Sched, SchedSelect, SequenceTheorems, TLAPS

USE SchedAssumption

----------------------------------------------------------------------------
(* The work queue.                                                          *)

LEMMA SubmitType ==
  ASSUME NEW q \in Seq(Items), NEW item \in Items
  PROVE  Submit(item, q) \in Seq(Items)
BY DEF Submit

\* What was submitted is in the queue, and nothing queued is lost.
LEMMA SubmitQueues ==
  ASSUME NEW q \in Seq(Items), NEW item \in Items
  PROVE  /\ Queued(item, Submit(item, q))
         /\ \A other \in Items : Queued(other, q) => Queued(other, Submit(item, q))
<1>1. CASE Queued(item, q)
  BY <1>1 DEF Submit
<1>2. CASE ~Queued(item, q)
  <2>1. Submit(item, q) = Append(q, item)
    BY <1>2 DEF Submit
  <2>2. /\ Append(q, item) \in Seq(Items)
        /\ Len(Append(q, item)) = Len(q) + 1
        /\ \A k \in 1..Len(q) : Append(q, item)[k] = q[k]
        /\ Append(q, item)[Len(q) + 1] = item
    OBVIOUS
  <2>3. QED
    BY <2>1, <2>2 DEF Queued
<1>3. QED
  BY <1>1, <1>2

LEMMA SubmitWillPick ==
  ASSUME NEW q \in Seq(Items), NEW item \in Items
  PROVE  /\ WillPick(q) => WillPick(Submit(item, q))
         /\ item # "rx" => WillPick(Submit(item, q))
BY SubmitQueues DEF WillPick, Items

\* Taking the oldest item leaves the others queued.
LEMMA TailKeeps ==
  ASSUME NEW q \in Seq(Items), q # <<>>, NEW item \in Items,
         Queued(item, q), Head(q) # item
  PROVE  Queued(item, Tail(q))
<1>1. PICK k \in 1..Len(q) : q[k] = item
  BY DEF Queued
<1>2. k # 1
  BY <1>1
<1>3. /\ k - 1 \in 1..Len(Tail(q))
      /\ Tail(q)[k - 1] = q[k]
  BY <1>2
<1>4. QED
  BY <1>1, <1>3 DEF Queued

LEMMA TailWillPick ==
  ASSUME NEW q \in Seq(Items), q # <<>>, WillPick(q)
  PROVE  Head(q) \in {"sched", "finish", "idle"} \/ WillPick(Tail(q))
<1>1. Head(q) \in Items
  OBVIOUS
<1>2. CASE Head(q) = "rx"
  BY <1>2, TailKeeps DEF WillPick, Items
<1>3. QED
  BY <1>1, <1>2 DEF Items

LEMMA EmptyWontPick == ~WillPick(<<>>)
BY DEF WillPick, Queued

LEMMA MaybeKickType ==
  ASSUME NEW q \in Seq(Items), NEW r \in MaybeKick(q)
  PROVE  r \in Seq(Items) /\ (WillPick(q) => WillPick(r))
BY SubmitType, SubmitWillPick DEF MaybeKick, Items

----------------------------------------------------------------------------
(* The inductive invariant.                                                 *)

LEMMA NoEventType == NoEvent \in Events /\ NoEvent.kind = "NONE"
BY DEF NoEvent, Events

LEMMA InitIInv == Init => IInv
<1> SUFFICES ASSUME Init PROVE IInv
  OBVIOUS
<1>b. req \in BOOLEAN /\ granted \in BOOLEAN /\ idle \in BOOLEAN
  BY DEF Init
<1>w. wq \in Seq(Items)
  BY DEF Init, Items
<1>1. TypeOK
  BY <1>b, <1>w, NoEventType DEF Init, TypeOK, Steps
<1>2. WillPick(wq)
  BY DEF Init, WillPick, Queued
<1>3. QED
  BY <1>1, <1>2 DEF Init, IInv, NoLeakedGrant, EventDriven, LookAhead, PlanQuiet,
     RxHeld, NoEvent

\* What lg_sched_event_done leaves behind when an interrupt handler calls it.
LEMMA EventDoneIInv ==
  ASSUME IInv, NEW q \in Seq(Items), EventDone(q),
         req' \in BOOLEAN, rx' \in rx..RxRingSize, UNCHANGED interruptVars
  PROVE  IInv'
<1>1. /\ wq' \in Seq(Items)
      /\ WillPick(wq')
  BY SubmitType, SubmitWillPick DEF EventDone, Items
<1>b. granted' \in BOOLEAN
  BY DEF EventDone
<1>2. TypeOK'
  BY <1>1, <1>b, NoEventType DEF IInv, TypeOK, EventDone, interruptVars
<1>3. NoLeakedGrant' /\ EventDriven' /\ PlanQuiet'
  BY DEF IInv, EventDone, NoLeakedGrant, EventDriven, PlanQuiet, interruptVars, NoEvent
<1>4. LookAhead'
  BY <1>1 DEF LookAhead
<1>5. RxHeld'
  BY DEF IInv, TypeOK, RxHeld, interruptVars
<1>6. QED
  BY <1>2, <1>3, <1>4, <1>5 DEF IInv

\* A step that only submits work keeps the invariant.
LEMMA SubmitIInv ==
  ASSUME IInv, wq' \in Seq(Items), WillPick(wq) => WillPick(wq'),
         UNCHANGED <<radioVars, idle, pc, choice>>, rx' \in rx..RxRingSize
  PROVE  IInv'
<1>1. TypeOK'
  BY DEF IInv, TypeOK, radioVars
<1>2. NoLeakedGrant' /\ EventDriven' /\ PlanQuiet'
  BY DEF IInv, NoLeakedGrant, EventDriven, PlanQuiet, radioVars
<1>3. LookAhead'
  BY DEF IInv, LookAhead, radioVars
<1>4. RxHeld'
  BY DEF IInv, TypeOK, RxHeld
<1>5. QED
  BY <1>1, <1>2, <1>3, <1>4 DEF IInv

LEMMA GrantIInv == IInv /\ (Refused \/ Grant) => IInv'
<1> SUFFICES ASSUME IInv, Refused \/ Grant PROVE IInv'
  OBVIOUS
<1>t. TypeOK
  BY DEF IInv
<1>1. CASE Refused
  <2>1. CASE ev.kind = "NONE"
    <3>b. req' \in BOOLEAN
      BY <1>1 DEF Refused
    <3>1. TypeOK'
      BY <1>1, <1>t, <2>1, <3>b DEF Refused, TypeOK, interruptVars
    <3>2. NoLeakedGrant' /\ EventDriven' /\ LookAhead' /\ PlanQuiet' /\ RxHeld'
      BY <1>1, <2>1 DEF Refused, interruptVars, IInv, NoLeakedGrant, EventDriven,
         LookAhead, PlanQuiet, RxHeld
    <3>3. QED
      BY <3>1, <3>2 DEF IInv
  <2>2. CASE ev.kind # "NONE"
    <3>1. PICK q \in MaybeKick(wq) : EventDone(q)
      BY <1>1, <2>2 DEF Refused, MaybeKick
    <3>2. q \in Seq(Items)
      BY <1>t, <3>1, MaybeKickType DEF TypeOK
    <3>3. rx' \in rx..RxRingSize /\ UNCHANGED interruptVars
      BY <1>1, <1>t DEF Refused, TypeOK
    <3>4. req' \in BOOLEAN
      BY <1>1 DEF Refused
    <3>5. QED
      BY <3>1, <3>2, <3>3, <3>4, EventDoneIInv
  <2>3. QED
    BY <2>1, <2>2
<1>2. CASE GrantedNothing
  <2>b. req' \in BOOLEAN /\ granted' \in BOOLEAN
    BY <1>2 DEF GrantedNothing
  <2>1. TypeOK'
    BY <1>2, <1>t, <2>b DEF GrantedNothing, TypeOK, interruptVars
  <2>2. NoLeakedGrant' /\ EventDriven' /\ LookAhead' /\ PlanQuiet' /\ RxHeld'
    BY <1>2 DEF GrantedNothing, interruptVars, IInv, NoLeakedGrant, EventDriven,
       LookAhead, PlanQuiet, RxHeld
  <2>3. QED
    BY <2>1, <2>2 DEF IInv
<1>3. CASE GrantedStart
  <2>b. req' \in BOOLEAN /\ granted' \in BOOLEAN
    BY <1>3 DEF GrantedStart
  <2>1. TypeOK'
    BY <1>3, <1>t, <2>b DEF GrantedStart, TypeOK, interruptVars
  <2>2. NoLeakedGrant' /\ EventDriven' /\ LookAhead' /\ PlanQuiet' /\ RxHeld'
    BY <1>3 DEF GrantedStart, interruptVars, IInv, NoLeakedGrant, EventDriven,
       LookAhead, PlanQuiet, RxHeld
  <2>3. QED
    BY <2>1, <2>2 DEF IInv
<1>4. CASE GrantedDone
  <2>1. /\ wq \in Seq(Items) /\ EventDone(wq)
        /\ rx' \in rx..RxRingSize /\ UNCHANGED interruptVars
    BY <1>4, <1>t DEF GrantedDone, TypeOK
  <2>2. req' \in BOOLEAN
    BY <1>4 DEF GrantedDone
  <2>3. QED
    BY <2>1, <2>2, EventDoneIInv
<1>5. QED
  BY <1>1, <1>2, <1>3, <1>4 DEF Grant

LEMMA PhyIInv == IInv /\ (PhyContinue \/ PhyFinish) => IInv'
<1> SUFFICES ASSUME IInv, PhyContinue \/ PhyFinish PROVE IInv'
  OBVIOUS
<1>t. TypeOK
  BY DEF IInv
<1>s. /\ Submit("rx", wq) \in Seq(Items)
      /\ WillPick(wq) => WillPick(Submit("rx", wq))
  BY <1>t, SubmitType, SubmitWillPick DEF TypeOK, Items
<1>1. CASE PhyContinue
  <2>1. /\ wq' \in Seq(Items)
        /\ WillPick(wq) => WillPick(wq')
        /\ rx' \in rx..RxRingSize
    BY <1>1, <1>s, <1>t DEF PhyContinue, RxPost, TypeOK
  <2>2. UNCHANGED <<radioVars, idle, pc, choice>>
    BY <1>1 DEF PhyContinue, interruptVars
  <2>3. QED
    BY <2>1, <2>2, SubmitIInv
<1>2. CASE PhyFinish
  <2>1. PICK q \in {wq, Submit("rx", wq)} : EventDone(q)
    BY <1>2 DEF PhyFinish
  <2>2. q \in Seq(Items)
    BY <1>s, <1>t DEF TypeOK
  <2>3. req' \in BOOLEAN /\ rx' \in rx..RxRingSize /\ UNCHANGED interruptVars
    BY <1>2, <1>t DEF PhyFinish, TypeOK
  <2>4. QED
    BY <2>1, <2>2, <2>3, EventDoneIInv
<1>3. QED
  BY <1>1, <1>2

LEMMA PickIInv == IInv /\ (TakeWork \/ Pick) => IInv'
<1> SUFFICES ASSUME IInv, TakeWork \/ Pick PROVE IInv'
  OBVIOUS
<1>t. TypeOK
  BY DEF IInv
<1>1. CASE TakeWork
  <2>1. Head(wq) \in Items /\ wq' \in Seq(Items)
    BY <1>1, <1>t DEF TakeWork, TypeOK
  <2>2. TypeOK'
    BY <1>1, <1>t, <2>1 DEF TakeWork, TypeOK, radioVars, Steps, Items
  <2>3. pc' \in {"pick", "settle", "rx"}
    BY <1>1 DEF TakeWork
  <2>4. NoLeakedGrant' /\ EventDriven' /\ PlanQuiet' /\ RxHeld'
    BY <1>1, <2>3 DEF TakeWork, radioVars, IInv, NoLeakedGrant, EventDriven, PlanQuiet,
       RxHeld
  <2>5. LookAhead'
    <3>1. CASE WillPick(wq)
      <4>1. Head(wq) \in {"sched", "finish", "idle"} \/ WillPick(Tail(wq))
        BY <1>1, <1>t, <3>1, TailWillPick DEF TakeWork, TypeOK
      <4>2. QED
        BY <1>1, <4>1 DEF TakeWork, LookAhead
    <3>2. CASE ~WillPick(wq)
      BY <1>1, <3>2 DEF TakeWork, LookAhead, IInv, radioVars
    <3>3. QED
      BY <3>1, <3>2
  <2>6. QED
    BY <2>2, <2>4, <2>5 DEF IInv
<1>2. CASE PickBusy
  <2>1. TypeOK'
    BY <1>2, <1>t DEF PickBusy, TypeOK, radioVars, Steps
  <2>f. ev.kind # "NONE" \/ phy = "busy"
    BY <1>2, <1>t DEF PickBusy, SlotFree, IInv, NoLeakedGrant, TypeOK
  <2>2. NoLeakedGrant' /\ EventDriven' /\ LookAhead' /\ PlanQuiet' /\ RxHeld'
    BY <1>2, <2>f DEF PickBusy, radioVars, IInv, NoLeakedGrant, EventDriven,
       LookAhead, PlanQuiet, RxHeld
  <2>3. QED
    BY <2>1, <2>2 DEF IInv
<1>3. CASE PickNothing
  <2>b. idle' \in BOOLEAN
    BY <1>3 DEF PickNothing
  <2>1. TypeOK'
    BY <1>3, <1>t, <2>b DEF PickNothing, TypeOK, radioVars, Steps
  <2>2. NoLeakedGrant' /\ EventDriven' /\ LookAhead' /\ PlanQuiet' /\ RxHeld'
    BY <1>3 DEF PickNothing, SlotFree, radioVars, IInv, NoLeakedGrant, EventDriven,
       LookAhead, PlanQuiet, RxHeld
  <2>3. QED
    BY <2>1, <2>2 DEF IInv
<1>4. CASE PickUnstageable
  <2>1. wq' \in Seq(Items) /\ WillPick(wq')
    BY <1>4, <1>t, SubmitType, SubmitWillPick DEF PickUnstageable, TypeOK, Items
  <2>2. TypeOK'
    BY <1>4, <1>t, <2>1 DEF PickUnstageable, TypeOK, radioVars, Steps
  <2>3. NoLeakedGrant' /\ EventDriven' /\ LookAhead' /\ PlanQuiet' /\ RxHeld'
    BY <1>4, <2>1 DEF PickUnstageable, SlotFree, radioVars, IInv, NoLeakedGrant,
       EventDriven, LookAhead, PlanQuiet, RxHeld
  <2>4. QED
    BY <2>2, <2>3 DEF IInv
<1>5. CASE PickCandidate
  <2>1. choice' \in Events /\ choice'.kind # "NONE"
    BY <1>5 DEF PickCandidate, Events, Candidates, NeighKinds, NodeKinds
  <2>2. TypeOK'
    BY <1>5, <1>t, <2>1 DEF PickCandidate, TypeOK, radioVars, Steps
  <2>3. NoLeakedGrant' /\ EventDriven' /\ LookAhead' /\ PlanQuiet' /\ RxHeld'
    BY <1>5, <2>1 DEF PickCandidate, SlotFree, radioVars, IInv, NoLeakedGrant,
       EventDriven, LookAhead, PlanQuiet, RxHeld
  <2>4. QED
    BY <2>2, <2>3 DEF IInv
<1>6. QED
  BY <1>1, <1>2, <1>3, <1>4, <1>5 DEF Pick

LEMMA RequestIInv == IInv /\ (Plan \/ Drop \/ Request) => IInv'
<1> SUFFICES ASSUME IInv, Plan \/ Drop \/ Request PROVE IInv'
  OBVIOUS
<1>t. TypeOK
  BY DEF IInv
<1>1. CASE Plan
  <2>1. TypeOK'
    BY <1>1, <1>t, NoEventType DEF Plan, TypeOK, Steps
  <2>2. NoLeakedGrant' /\ EventDriven' /\ LookAhead' /\ PlanQuiet' /\ RxHeld'
    BY <1>1 DEF Plan, IInv, NoLeakedGrant, EventDriven, LookAhead, PlanQuiet, RxHeld
  <2>3. QED
    BY <2>1, <2>2 DEF IInv
<1>2. CASE Drop
  <2>1. wq' \in Seq(Items) /\ WillPick(wq')
    BY <1>2, <1>t, SubmitType, SubmitWillPick DEF Drop, TypeOK, Items
  <2>2. req' \in BOOLEAN
    BY <1>2, <1>t DEF Drop, TypeOK
  <2>3. TypeOK'
    BY <1>2, <1>t, <2>1, <2>2, NoEventType DEF Drop, TypeOK, Steps
  <2>4. NoLeakedGrant' /\ EventDriven' /\ LookAhead' /\ PlanQuiet' /\ RxHeld'
    BY <1>2, <2>1, NoEventType DEF Drop, IInv, NoLeakedGrant, EventDriven, LookAhead,
       PlanQuiet, RxHeld
  <2>5. QED
    BY <2>3, <2>4 DEF IInv
<1>3. CASE Request
  <2>1. req' \in BOOLEAN
    BY <1>3 DEF Request
  <2>2. TypeOK'
    BY <1>3, <1>t, <2>1 DEF Request, TypeOK, Steps
  <2>3. NoLeakedGrant' /\ EventDriven' /\ LookAhead' /\ PlanQuiet' /\ RxHeld'
    BY <1>3 DEF Request, IInv, NoLeakedGrant, EventDriven, LookAhead, PlanQuiet, RxHeld
  <2>4. QED
    BY <2>2, <2>3 DEF IInv
<1>4. QED
  BY <1>1, <1>2, <1>3

LEMMA FinishIInv == IInv /\ (Settle \/ ClearFinish) => IInv'
<1> SUFFICES ASSUME IInv, Settle \/ ClearFinish PROVE IInv'
  OBVIOUS
<1>t. TypeOK
  BY DEF IInv
<1>1. CASE Settle
  <2>1. wq' \in Seq(Items)
    BY <1>1, <1>t, MaybeKickType DEF Settle, TypeOK
  <2>2. TypeOK'
    BY <1>1, <1>t, <2>1 DEF Settle, TypeOK, radioVars, Steps
  <2>3. NoLeakedGrant' /\ EventDriven' /\ LookAhead' /\ PlanQuiet' /\ RxHeld'
    BY <1>1 DEF Settle, radioVars, IInv, NoLeakedGrant, EventDriven, LookAhead,
       PlanQuiet, RxHeld
  <2>4. QED
    BY <2>2, <2>3 DEF IInv
<1>2. CASE ClearFinish
  <2>1. TypeOK'
    BY <1>2, <1>t, NoEventType DEF ClearFinish, TypeOK, Steps
  <2>2. NoLeakedGrant' /\ EventDriven' /\ LookAhead' /\ PlanQuiet' /\ RxHeld'
    BY <1>2 DEF ClearFinish, IInv, NoLeakedGrant, EventDriven, LookAhead, PlanQuiet,
       RxHeld
  <2>3. QED
    BY <2>1, <2>2 DEF IInv
<1>3. QED
  BY <1>1, <1>2

LEMMA RxIInv == IInv /\ RxHandler => IInv'
<1> SUFFICES ASSUME IInv, RxHandler PROVE IInv'
  OBVIOUS
<1>t. TypeOK
  BY DEF IInv
<1>1. CASE RxEmpty
  <2>1. TypeOK'
    BY <1>1, <1>t DEF RxEmpty, TypeOK, radioVars, Steps
  <2>2. NoLeakedGrant' /\ EventDriven' /\ LookAhead' /\ PlanQuiet' /\ RxHeld'
    BY <1>1 DEF RxEmpty, radioVars, IInv, NoLeakedGrant, EventDriven, LookAhead,
       PlanQuiet, RxHeld
  <2>3. QED
    BY <2>1, <2>2 DEF IInv
<1>2. CASE RxDispatch
  <2>1. /\ wq' \in Seq(Items) /\ (WillPick(wq) => WillPick(wq'))
        /\ rx' \in 0..RxRingSize /\ pc' \in {"rx", "abort", "kick"}
        /\ pc' = "abort" => rx' > 0
        /\ pc' = "kick" => rx' > 0
    BY <1>2, <1>t, MaybeKickType DEF RxDispatch, TypeOK
  <2>2. TypeOK'
    BY <1>2, <1>t, <2>1 DEF RxDispatch, TypeOK, radioVars, Steps
  <2>3. NoLeakedGrant' /\ EventDriven' /\ LookAhead' /\ PlanQuiet' /\ RxHeld'
    BY <1>2, <2>1 DEF RxDispatch, radioVars, IInv, NoLeakedGrant, EventDriven,
       LookAhead, PlanQuiet, RxHeld
  <2>4. QED
    BY <2>2, <2>3 DEF IInv
<1>3. CASE AbortStop
  <2>1. TypeOK'
    BY <1>3, <1>t DEF AbortStop, TypeOK, Steps
  <2>2. NoLeakedGrant' /\ EventDriven' /\ LookAhead' /\ PlanQuiet' /\ RxHeld'
    BY <1>3 DEF AbortStop, IInv, NoLeakedGrant, EventDriven, LookAhead, PlanQuiet,
       RxHeld
  <2>3. QED
    BY <2>1, <2>2 DEF IInv
<1>4. CASE AbortRelease
  <2>1. granted' \in BOOLEAN
    BY <1>4 DEF AbortRelease
  <2>2. TypeOK'
    BY <1>4, <1>t, <2>1 DEF AbortRelease, TypeOK, Steps
  <2>3. NoLeakedGrant' /\ EventDriven' /\ LookAhead' /\ PlanQuiet' /\ RxHeld'
    BY <1>4 DEF AbortRelease, IInv, NoLeakedGrant, EventDriven, LookAhead, PlanQuiet,
       RxHeld
  <2>4. QED
    BY <2>2, <2>3 DEF IInv
<1>5. CASE AbortDone
  <2>1. wq' \in Seq(Items)
    BY <1>5, <1>t, SubmitType DEF AbortDone, TypeOK, Items
  <2>2. TypeOK'
    BY <1>5, <1>t, <2>1, NoEventType DEF AbortDone, TypeOK, Steps
  <2>3. NoLeakedGrant' /\ EventDriven' /\ LookAhead' /\ PlanQuiet' /\ RxHeld'
    BY <1>5, NoEventType DEF AbortDone, IInv, NoLeakedGrant, EventDriven, LookAhead,
       PlanQuiet, RxHeld
  <2>4. QED
    BY <2>2, <2>3 DEF IInv
<1>6. CASE RxKick
  <2>1. wq' \in Seq(Items) /\ WillPick(wq')
    BY <1>6, <1>t, SubmitType, SubmitWillPick DEF RxKick, TypeOK, Items
  <2>2. rx' \in 0..RxRingSize
    BY <1>6, <1>t DEF RxKick, IInv, RxHeld, TypeOK
  <2>3. TypeOK'
    BY <1>6, <1>t, <2>1, <2>2 DEF RxKick, TypeOK, radioVars, Steps
  <2>4. NoLeakedGrant' /\ EventDriven' /\ LookAhead' /\ PlanQuiet' /\ RxHeld'
    BY <1>6, <2>1 DEF RxKick, radioVars, IInv, NoLeakedGrant, EventDriven, LookAhead,
       PlanQuiet, RxHeld
  <2>5. QED
    BY <2>3, <2>4 DEF IInv
<1>7. QED
  BY <1>1, <1>2, <1>3, <1>4, <1>5, <1>6 DEF RxHandler

LEMMA KickIInv == IInv /\ (IdleExpire \/ AppKick) => IInv'
<1> SUFFICES ASSUME IInv, IdleExpire \/ AppKick PROVE IInv'
  OBVIOUS
<1>t. TypeOK
  BY DEF IInv
<1>1. CASE IdleExpire
  <2>1. wq' \in Seq(Items) /\ WillPick(wq')
    BY <1>1, <1>t, SubmitType, SubmitWillPick DEF IdleExpire, TypeOK, Items
  <2>2. idle' \in BOOLEAN
    BY <1>1 DEF IdleExpire
  <2>3. TypeOK'
    BY <1>1, <1>t, <2>1, <2>2 DEF IdleExpire, TypeOK, radioVars
  <2>4. NoLeakedGrant' /\ EventDriven' /\ LookAhead' /\ PlanQuiet' /\ RxHeld'
    BY <1>1, <2>1 DEF IdleExpire, radioVars, IInv, NoLeakedGrant, EventDriven,
       LookAhead, PlanQuiet, RxHeld
  <2>5. QED
    BY <2>3, <2>4 DEF IInv
<1>2. CASE AppKick
  <2>1. wq' \in Seq(Items) /\ WillPick(wq')
    BY <1>2, <1>t, SubmitType, SubmitWillPick DEF AppKick, TypeOK, Items
  <2>2. UNCHANGED <<radioVars, idle, pc, choice>> /\ rx' \in rx..RxRingSize
    BY <1>2, <1>t DEF AppKick, TypeOK
  <2>3. QED
    BY <2>1, <2>2, SubmitIInv
<1>3. QED
  BY <1>1, <1>2

LEMMA StutterIInv == IInv /\ UNCHANGED vars => IInv'
<1> SUFFICES ASSUME IInv, UNCHANGED vars PROVE IInv'
  OBVIOUS
<1>1. /\ wq' \in Seq(Items) /\ (WillPick(wq) => WillPick(wq'))
      /\ UNCHANGED <<radioVars, idle, pc, choice>> /\ rx' \in rx..RxRingSize
  BY DEF vars, radioVars, IInv, TypeOK
<1>2. QED
  BY <1>1, SubmitIInv

LEMMA NextIInv == IInv /\ [Next]_vars => IInv'
BY GrantIInv, PhyIInv, PickIInv, RequestIInv, FinishIInv, RxIInv, KickIInv, StutterIInv
   DEF Next, Thread

THEOREM SchedInvariant == Spec => []IInv
BY InitIInv, NextIInv, PTL DEF Spec

----------------------------------------------------------------------------
(* What follows from it.                                                    *)

\* Every variable keeps its type, the work queue and the receive ring within
\* their bounds included.
THEOREM TypeCorrect == Spec => []TypeOK
BY SchedInvariant, PTL DEF IInv

\* A leaked grant would make sched_pick's guard refuse to look for ever.
THEOREM GrantsAreUsed == Spec => []NoLeakedGrant
BY SchedInvariant, PTL DEF IInv

\* lg.ev is never planned with nobody left to finish it.
THEOREM EventsAreDriven == Spec => []EventDriven
BY SchedInvariant, PTL DEF IInv

\* The node never sleeps with neither work queued, nor an event, nor the idle
\* timer running.
THEOREM SchedulerNeverStalls == Spec => []NeverStalls
<1>1. IInv => NeverStalls
  BY EmptyWontPick DEF IInv, LookAhead, NeverStalls
<1>2. QED
  BY <1>1, SchedInvariant, PTL

\* event_plan writes lg.ev only while the radio is quiet.
THEOREM PlanningIsExclusive == Spec => PlansOnQuietRadio
<1>1. IInv /\ [Next]_vars
        => [ev.kind = "NONE" /\ ev'.kind # "NONE" => ~granted /\ phy = "idle"]_vars
  BY NoEventType DEF IInv, PlanQuiet, Next, Refused, Grant, GrantedNothing, GrantedStart,
     GrantedDone, EventDone, PhyContinue, PhyFinish, Thread, TakeWork, Pick, PickBusy,
     PickNothing, PickUnstageable, PickCandidate, Plan, Drop, Request, Settle,
     ClearFinish, RxHandler, RxEmpty, RxDispatch, AbortStop, AbortRelease, AbortDone,
     RxKick, IdleExpire, AppKick, radioVars, interruptVars, vars
<1>2. QED
  BY <1>1, SchedInvariant, PTL DEF Spec, PlansOnQuietRadio

----------------------------------------------------------------------------
(* The choice among the candidates (SchedSelect).  First the arithmetic of  *)
(* one step of the second scan: e, b and c are the anchors of the earliest  *)
(* candidate, the choice so far and the one looked at, ep, bp and cp their  *)
(* classes.                                                                 *)

USE SelectAssumption

LEMMA WindowTimes ==
  ASSUME NEW w \in Nat, NEW k \in 0..3
  PROVE  w * k \in Nat /\ (k < 3 => w * (k + 1) = w * k + w)
<1>1. k \in {0, 1, 2, 3}
  OBVIOUS
<1>2. w * 0 = 0 /\ w * 1 = w /\ w * 2 = w + w /\ w * 3 = w + w + w
  OBVIOUS
<1>3. QED
  BY <1>1, <1>2

\* More classes are worth at least as many contention windows.
LEMMA WindowMonotone ==
  ASSUME NEW w \in Nat, NEW low \in 0..3, NEW high \in 0..3, low < high
  PROVE  w * low + w <= w * high
<1>1. low \in {0, 1, 2} /\ high \in {1, 2, 3}
  OBVIOUS
<1>2. w * 0 = 0 /\ w * 1 = w /\ w * 2 = w + w /\ w * 3 = w + w + w
  OBVIOUS
<1>3. QED
  BY <1>1, <1>2

\* A contender of a higher class keeps the delay bound.
LEMMA HigherKeepsBound ==
  ASSUME NEW w \in Nat, NEW e \in Nat, NEW b \in Nat, NEW c \in Nat,
         NEW ep \in 0..3, NEW bp \in 0..3, NEW cp \in 0..3,
         ep <= bp, bp < cp, b <= e + w * (bp - ep), c <= b + w
  PROVE  ep <= cp /\ c <= e + w * (cp - ep)
<1> DEFINE low == bp - ep
           high == cp - ep
<1>1. low \in 0..3 /\ high \in 0..3 /\ low < high
  OBVIOUS
<1>2. w * low + w <= w * high /\ w * low \in Nat /\ w * high \in Nat
  BY <1>1, WindowMonotone, WindowTimes
<1>3. b <= e + w * low
  OBVIOUS
<1> HIDE DEF low, high
<1>4. c <= e + w * high
  BY <1>2, <1>3
<1>5. QED
  BY <1>4 DEF high

\* A contender of the same class that is earlier keeps it too.
LEMMA EarlierKeepsBound ==
  ASSUME NEW w \in Nat, NEW e \in Nat, NEW b \in Nat, NEW c \in Nat,
         NEW ep \in 0..3, NEW bp \in 0..3,
         ep <= bp, b <= e + w * (bp - ep), c < b
  PROVE  c <= e + w * (bp - ep)
<1>1. bp - ep \in 0..3
  OBVIOUS
<1>2. w * (bp - ep) \in Nat
  BY <1>1, WindowTimes
<1>3. QED
  BY <1>2

----------------------------------------------------------------------------
(* What the two scans maintain.                                             *)

\* A candidate's fields.
LEMMA CandidateType ==
  ASSUME SelectTypeOK, NEW j \in 1..Len(list)
  PROVE  list[j].at \in Nat /\ list[j].prio \in 0..3
<1>1. list[j] \in Candidate
  BY DEF SelectTypeOK
<1>2. list[j].at \in Times /\ list[j].prio \in 0..3
  BY <1>1 DEF Candidate, Classes, SCAN, HANDSHAKE
<1>3. QED
  BY <1>2

LEMMA SelectInitIInv == SelectInit => SelectIInv
BY DEF SelectInit, SelectIInv, SelectTypeOK, EarliestSoFar, EarliestKnown, DelaySoFar,
   BeatenSoFar, ScannedAll, Decided

\* The class of one of the node's own clients.
LEMMA OtherClass ==
  ASSUME NEW client \in Nat, ~(client <= NeighCount)
  PROVE  ClassesOf(client) = {Others[client - NeighCount]}
BY DEF ClassesOf

LEMMA AskIInv == SelectIInv /\ Ask => SelectIInv'
<1> SUFFICES ASSUME SelectIInv, Ask PROVE SelectIInv'
  OBVIOUS
<1>1. \/ list' = list
      \/ \E c \in Candidate : list' = Append(list, c)
  <2>1. ASSUME NEW at \in Times, NEW prio \in ClassesOf(asked + 1)
        PROVE  [at |-> at, prio |-> prio] \in Candidate
    <3>1. CASE asked + 1 <= NeighCount
      BY <3>1 DEF ClassesOf, Candidate, Classes, SCAN, NORMAL, PARENT, HANDSHAKE
    <3>2. CASE ~(asked + 1 <= NeighCount)
      <4>1. asked + 1 - NeighCount \in 1..Len(Others)
        BY <3>2 DEF Ask, SelectIInv, SelectTypeOK
      <4>2. Others[asked + 1 - NeighCount] \in Classes
        BY <4>1
      <4>3. prio = Others[asked + 1 - NeighCount]
        <5>1. ClassesOf(asked + 1) = {Others[asked + 1 - NeighCount]}
          BY <3>2, OtherClass DEF SelectIInv, SelectTypeOK
        <5>2. QED
          BY <5>1
      <4>4. QED
        BY <4>2, <4>3 DEF Candidate
    <3>3. QED
      BY <3>1, <3>2
  <2>2. QED
    BY <2>1 DEF Ask
<1>2. /\ list' \in Seq(Candidate)
      /\ Len(list') \in Len(list)..(Len(list) + 1)
      /\ \A j \in 1..Len(list) : list'[j] = list[j]
  <2>1. list \in Seq(Candidate)
    BY DEF SelectIInv, SelectTypeOK
  <2>2. CASE list' = list
    BY <2>1, <2>2
  <2>3. ASSUME NEW c \in Candidate, list' = Append(list, c)
        PROVE  /\ list' \in Seq(Candidate)
               /\ Len(list') = Len(list) + 1
               /\ \A j \in 1..Len(list) : list'[j] = list[j]
    BY <2>1, <2>3
  <2>4. QED
    BY <1>1, <2>1, <2>2, <2>3
<1>3. SelectTypeOK'
  BY <1>2 DEF Ask, SelectIInv, SelectTypeOK
<1>4. EarliestSoFar'
  BY <1>2 DEF Ask, SelectIInv, SelectTypeOK, EarliestSoFar
<1>5. QED
  BY <1>3, <1>4 DEF Ask, SelectIInv, EarliestKnown, DelaySoFar, BeatenSoFar,
     ScannedAll, Decided

LEMMA CollectedIInv == SelectIInv /\ Collected => SelectIInv'
BY DEF Collected, SelectIInv, SelectTypeOK, EarliestSoFar, EarliestKnown, DelaySoFar,
   BeatenSoFar, ScannedAll, Decided

LEMMA ScanEarliestIInv == SelectIInv /\ ScanEarliest => SelectIInv'
<1> SUFFICES ASSUME SelectIInv, ScanEarliest PROVE SelectIInv'
  OBVIOUS
<1>1. SelectTypeOK'
  BY DEF ScanEarliest, SelectIInv, SelectTypeOK
<1>2. i \in 1..Len(list) /\ best' \in {i, best} /\ best' # 0 /\ best' \in 1..Len(list)
  BY DEF ScanEarliest, SelectIInv, SelectTypeOK, EarliestSoFar, Earlier
<1>3. \A j \in 1..Len(list) : list[j].at \in Nat
  BY CandidateType DEF SelectIInv
<1>4. ASSUME NEW j \in 1..i PROVE list[best'].at <= list[j].at
  <2>1. CASE best = 0
    BY <1>2, <1>3, <2>1 DEF ScanEarliest, SelectIInv, SelectTypeOK, EarliestSoFar,
       Earlier
  <2>2. CASE best # 0
    <3>1. best \in 1..Len(list) /\ (j # i => list[best].at <= list[j].at)
      BY <2>2 DEF ScanEarliest, SelectIInv, SelectTypeOK, EarliestSoFar
    <3>2. QED
      <4>1. best' = IF list[i].at < list[best].at THEN i ELSE best
        BY <2>2 DEF ScanEarliest, Earlier
      <4>2. list[i].at \in Nat /\ list[best].at \in Nat /\ list[j].at \in Nat
        BY <1>2, <1>3, <3>1
      <4>3. QED
        BY <3>1, <4>1, <4>2
  <2>3. QED
    BY <2>1, <2>2
<1>5. EarliestSoFar'
  BY <1>1, <1>2, <1>4 DEF ScanEarliest, EarliestSoFar, SelectIInv, SelectTypeOK
<1>6. QED
  BY <1>1, <1>5 DEF ScanEarliest, SelectIInv, EarliestKnown, DelaySoFar, BeatenSoFar,
     ScannedAll, Decided

LEMMA EarliestFoundIInv == SelectIInv /\ EarliestFound => SelectIInv'
<1> SUFFICES ASSUME SelectIInv, EarliestFound PROVE SelectIInv'
  OBVIOUS
<1>1. SelectTypeOK'
  BY DEF EarliestFound, SelectIInv, SelectTypeOK
<1>2. CASE best = 0
  BY <1>1, <1>2 DEF EarliestFound, SelectIInv, EarliestSoFar, EarliestKnown,
     DelaySoFar, BeatenSoFar, ScannedAll, Decided
<1>3. CASE best # 0
  <2>1. best \in 1..Len(list) /\ i = Len(list) + 1
    BY <1>3 DEF EarliestFound, SelectIInv, SelectTypeOK
  <2>2. EarliestKnown'
    BY <1>3, <2>1 DEF EarliestFound, SelectIInv, EarliestSoFar, EarliestKnown
  <2>3. DelaySoFar'
    <3>1. list[best].at \in Nat /\ list[best].prio \in 0..3
      BY <2>1, CandidateType DEF SelectIInv
    <3>2. Contend * (list[best].prio - list[best].prio) = 0
      BY <3>1
    <3>3. QED
      BY <3>1, <3>2 DEF EarliestFound, DelaySoFar
  <2>4. QED
    BY <1>1, <1>3, <2>2, <2>3 DEF EarliestFound, SelectIInv, EarliestSoFar,
       BeatenSoFar, ScannedAll, Decided
<1>4. QED
  BY <1>2, <1>3

LEMMA ScanContendIInv == SelectIInv /\ ScanContend => SelectIInv'
<1> SUFFICES ASSUME SelectIInv, ScanContend PROVE SelectIInv'
  OBVIOUS
<1>1. SelectTypeOK'
  BY DEF ScanContend, SelectIInv, SelectTypeOK
<1>2. /\ i \in 1..Len(list)
      /\ best \in 1..Len(list)
      /\ earliest \in 1..Len(list)
      /\ best' \in 1..Len(list)
  BY DEF ScanContend, SelectIInv, SelectTypeOK, EarliestKnown
<1>3. \A j \in 1..Len(list) : list[j].at \in Nat /\ list[j].prio \in 0..3
  BY CandidateType DEF SelectIInv
<1>4. EarliestKnown'
  BY <1>2 DEF ScanContend, SelectIInv, EarliestKnown
<1> DEFINE At(k) == list[k].at
           Prio(k) == list[k].prio
<1>5. /\ At(i) \in Nat /\ At(best) \in Nat /\ At(earliest) \in Nat
      /\ Prio(i) \in 0..3 /\ Prio(best) \in 0..3 /\ Prio(earliest) \in 0..3
      /\ \A j \in 1..i : At(j) \in Nat /\ Prio(j) \in 0..3
  BY <1>2, <1>3
<1>6. DelaySoFar'
  <2>1. /\ Prio(earliest) <= Prio(best)
        /\ At(best) <= At(earliest) + Contend * (Prio(best) - Prio(earliest))
    BY DEF ScanContend, SelectIInv, DelaySoFar
  <2>2. ASSUME Beats(i), Prio(best) < Prio(i)
        PROVE  /\ Prio(earliest) <= Prio(i)
               /\ At(i) <= At(earliest) + Contend * (Prio(i) - Prio(earliest))
    <3>1. At(i) <= At(best) + Contend
      BY <2>2 DEF Beats
    <3> HIDE DEF At, Prio
    <3>2. QED
      BY <1>5, <2>1, <2>2, <3>1, HigherKeepsBound
  <2>3. ASSUME Beats(i), Prio(best) = Prio(i)
        PROVE  /\ Prio(earliest) <= Prio(i)
               /\ At(i) <= At(earliest) + Contend * (Prio(i) - Prio(earliest))
    <3>1. At(i) < At(best)
      BY <1>5, <2>3 DEF Beats
    <3> HIDE DEF At, Prio
    <3>2. QED
      BY <1>5, <2>1, <2>3, <3>1, EarlierKeepsBound
  <2>4. CASE Beats(i)
    <3>1. Prio(best) < Prio(i) \/ Prio(best) = Prio(i)
      BY <1>5, <2>4 DEF Beats
    <3>2. best' = i /\ list' = list /\ earliest' = earliest
      BY <2>4 DEF ScanContend
    <3>3. QED
      BY <2>2, <2>3, <2>4, <3>1, <3>2 DEF DelaySoFar
  <2>5. CASE ~Beats(i)
    BY <2>1, <2>5 DEF ScanContend, DelaySoFar
  <2>6. QED
    BY <2>4, <2>5
<1>7. BeatenSoFar'
  <2> SUFFICES ASSUME NEW j \in 1..i, At(j) <= At(earliest) + Contend
      PROVE  \/ Prio(j) < Prio(best')
             \/ Prio(j) = Prio(best') /\ At(best') <= At(j)
    BY DEF ScanContend, BeatenSoFar, Loses, SelectIInv, SelectTypeOK
  <2>1. At(earliest) <= At(best)
    BY <1>2 DEF ScanContend, SelectIInv, EarliestKnown
  <2>2. Beats(i) <=>
          /\ At(i) <= At(best) + Contend
          /\ Prio(i) > Prio(best) \/ (Prio(i) = Prio(best) /\ At(i) < At(best))
    BY DEF Beats
  <2>3. best' = IF Beats(i) THEN i ELSE best
    BY DEF ScanContend
  <2>4. CASE j = i
    <3> HIDE DEF At, Prio
    <3>1. CASE Beats(i)
      BY <1>5, <2>3, <2>4, <3>1
    <3>2. CASE ~Beats(i)
      BY <1>5, <2>1, <2>2, <2>3, <2>4, <3>2
    <3>3. QED
      BY <3>1, <3>2
  <2>5. CASE j # i
    <3>1. \/ Prio(j) < Prio(best)
          \/ Prio(j) = Prio(best) /\ At(best) <= At(j)
      BY <1>2, <2>5 DEF ScanContend, SelectIInv, BeatenSoFar, Loses
    <3> HIDE DEF At, Prio
    <3>2. CASE Beats(i)
      BY <1>5, <2>2, <2>3, <3>1, <3>2
    <3>3. CASE ~Beats(i)
      BY <2>3, <3>1, <3>3
    <3>4. QED
      BY <3>2, <3>3
  <2>6. QED
    BY <2>4, <2>5
<1>8. QED
  BY <1>1, <1>4, <1>6, <1>7 DEF ScanContend, SelectIInv, EarliestSoFar, ScannedAll,
     Decided

LEMMA ChosenIInv == SelectIInv /\ Chosen => SelectIInv'
<1> SUFFICES ASSUME SelectIInv, Chosen PROVE SelectIInv'
  OBVIOUS
<1>1. SelectTypeOK'
  BY DEF Chosen, SelectIInv, SelectTypeOK
<1>2. i = Len(list) + 1
  BY DEF Chosen, SelectIInv, SelectTypeOK
<1>3. EarliestKnown' /\ ScannedAll' /\ EarliestSoFar'
  BY <1>2 DEF Chosen, SelectIInv, EarliestKnown, ScannedAll, EarliestSoFar
<1>4. DelaySoFar' /\ BeatenSoFar'
  BY Zenon DEF Chosen, SelectIInv, DelaySoFar, BeatenSoFar, Loses
<1>5. QED
  BY <1>1, <1>3, <1>4 DEF SelectIInv

LEMMA SelectNextIInv == SelectIInv /\ [SelectNext]_selectVars => SelectIInv'
<1> SUFFICES ASSUME SelectIInv, [SelectNext]_selectVars PROVE SelectIInv'
  OBVIOUS
<1>1. CASE UNCHANGED selectVars
  BY <1>1 DEF selectVars, SelectIInv, SelectTypeOK, EarliestSoFar, EarliestKnown,
     DelaySoFar, BeatenSoFar, ScannedAll, Decided, Loses
<1>2. QED
  BY <1>1, AskIInv, CollectedIInv, ScanEarliestIInv, EarliestFoundIInv,
     ScanContendIInv, ChosenIInv DEF SelectNext

THEOREM SelectInvariant == SelectSpec => []SelectIInv
BY SelectInitIInv, SelectNextIInv, PTL DEF SelectSpec

----------------------------------------------------------------------------
(* What follows from it.                                                    *)

\* add_candidate's array is large enough for every client, and both scans stay
\* inside the list.
THEOREM SelectTypeCorrect == SelectSpec => []SelectTypeOK
BY SelectInvariant, PTL DEF SelectIInv

\* Priority costs whoever was earliest at most one contention window for every
\* class the winner is above it.
THEOREM PriorityDelayIsBounded == SelectSpec => []DelayBounded
<1>1. SelectIInv => DelayBounded
  BY DEF SelectIInv, DelaySoFar, DelayBounded
<1>2. QED
  BY <1>1, SelectInvariant, PTL

\* select_candidate takes the best of those that contend with the earliest.
THEOREM ContendersLose == SelectSpec => []ContendersBeaten
<1>1. SelectIInv => ContendersBeaten
  BY DEF SelectIInv, SelectTypeOK, BeatenSoFar, ScannedAll, ContendersBeaten
<1>2. QED
  BY <1>1, SelectInvariant, PTL
=============================================================================
