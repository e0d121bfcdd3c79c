----------------------------- MODULE LinkParams -----------------------------
(***************************************************************************)
(* The schedule of one link and the changes of its parameters (lg_link.c): *)
(* both ends number the link's events from a common epoch, use only those  *)
(* that are multiples of the subrate, and change the channel map and the   *)
(* subrate at an event number, the instant, carried by a control frame.    *)
(*                                                                         *)
(* Time is the number of the event whose moment has come.  An end whose    *)
(* anchor is that event runs it, unless its radio or its work queue has    *)
(* something better to do.  An event and the bookkeeping after it are one  *)
(* step.  Ends on different maps may be on different channels, or by       *)
(* chance on the same one.                                                 *)
(* The supervision timeout is longer than the horizon, and clock drift,    *)
(* which moves epoch and anchor together, is left out.                     *)
(***************************************************************************)
EXTENDS Naturals

CONSTANTS
  CounterMod,   \* event numbers are uint16_t: 65536
  Lead,         \* how far ahead an instant is placed: 6
  SubrateMax,   \* subrate_max of the link
  Horizon,      \* bound: number of the last event
  MaxLosses,    \* bound: frames the air loses
  MaxSpills,    \* bound: frames the responder answers and then drops
  MaxDrops,     \* bound: events an end does not get the radio for
  MaxMaps,      \* bound: channel maps the initiator adopts
  MaxUrgent     \* bound: urgent sends that expedite an event

ASSUME LinkAssumption ==
  /\ CounterMod \in Nat \ {0} /\ Lead \in Nat \ {0} /\ SubrateMax \in Nat \ {0}
  /\ Horizon \in Nat
  /\ MaxLosses \in Nat /\ MaxSpills \in Nat /\ MaxDrops \in Nat
  /\ MaxMaps \in Nat /\ MaxUrgent \in Nat

VARIABLES
  now,      \* the event whose moment has come
  gone,     \* the ends for which that moment is over
  node,     \* each end's record of the link
  maps,     \* channel maps adopted so far
  losses,   \* frames lost
  spills,   \* frames the responder answered and then dropped
  drops,    \* events not given
  urgent    \* events expedited

vars == <<now, gone, node, maps, losses, spills, drops, urgent>>

Initiator == "initiator"
Responder == "responder"
Ends == {Initiator, Responder}
Other(e) == IF e = Initiator THEN Responder ELSE Initiator

Changes == {"MAP", "SUBRATE"}

\* What an end has staged for its next event: a parameter change or, as
\* "PLAIN", anything else.
Plain == [kind |-> "PLAIN", value |-> 0, instant |-> 0]

\* lg_link_establish.  Maps are numbered in the order they are adopted.
Fresh(e) ==
  [initiator |-> e = Initiator, anchor |-> 0, subrate |-> 1, map |-> 0,
   pending |-> {}, newMap |-> 0, newSubrate |-> 1, instant |-> 0,
   acked |-> FALSE, missing |-> FALSE, staged |-> Plain]

Init ==
  /\ now = 0 /\ gone = {}
  /\ node = [e \in Ends |-> Fresh(e)]
  /\ maps = 0 /\ losses = 0 /\ spills = 0 /\ drops = 0 /\ urgent = 0

----------------------------------------------------------------------------
(* What happens to one end's record n.                                      *)

\* Slip: rounded down, the event is the one the anchor is at.
NextActiveDown(n) == ((n.anchor \div n.subrate) * n.subrate) % CounterMod

\* next_active
NextActive(n) == ((n.anchor \div n.subrate + 1) * n.subrate) % CounterMod

\* Slip: the initiator does not wait for a reply.
AgreedUnconfirmed(n) == TRUE

\* Whether a change that is due may take effect.
Agreed(n) == ~n.initiator \/ n.acked

\* The change an end has pending takes effect, or is abandoned.
Apply(n) ==
  [n EXCEPT !.map = IF Agreed(n) /\ "MAP" \in n.pending THEN n.newMap ELSE @,
            !.subrate = IF Agreed(n) /\ "SUBRATE" \in n.pending THEN n.newSubrate ELSE @,
            !.pending = {}, !.acked = FALSE]

\* lg_link_advance
Advance(n) ==
  LET m == [n EXCEPT !.anchor = NextActive(n)]
  IN IF m.pending # {} /\ m.anchor >= m.instant THEN Apply(m) ELSE m

\* A change of n's own, to be carried by its next frames.
Propose(n, kind, value) ==
  [n EXCEPT !.newMap = IF kind = "MAP" THEN value ELSE @,
            !.newSubrate = IF kind = "SUBRATE" THEN value ELSE @,
            !.instant = (n.anchor + Lead) % CounterMod,
            !.acked = FALSE,
            !.pending = @ \cup {kind}]

\* Slip: the ceiling only bounds the factor before it is doubled.
WantedUncapped(n, busy) ==
  IF busy \/ n.pending # {} \/ n.missing THEN 1
  ELSE IF n.subrate <= SubrateMax THEN 2 * n.subrate ELSE SubrateMax

\* What the initiator would like: every event when there is traffic or
\* trouble, and half as many as now when there is none.
Wanted(n, busy) ==
  IF busy \/ n.pending # {} \/ n.missing THEN 1
  ELSE IF 2 * n.subrate <= SubrateMax THEN 2 * n.subrate ELSE SubrateMax

\* subrate_update
SubrateUpdate(n, busy) ==
  IF n.initiator /\ SubrateMax > 1 /\ n.pending = {} /\ Wanted(n, busy) # n.subrate
  THEN Propose(n, "SUBRATE", Wanted(n, busy))
  ELSE n

\* lg_link_stage_tx
Stage(n) ==
  [n EXCEPT !.staged =
     IF "MAP" \in n.pending
     THEN [kind |-> "MAP", value |-> n.newMap, instant |-> n.instant]
     ELSE IF "SUBRATE" \in n.pending
     THEN [kind |-> "SUBRATE", value |-> n.newSubrate, instant |-> n.instant]
     ELSE Plain]

\* lg_link_event_finish, after an event that brought a frame or did not.
Finish(n, heard, busy) ==
  Stage(SubrateUpdate(Advance([n EXCEPT !.missing = ~heard]), busy))

\* link_rx_done and handle_ctrl.  The reply to a control frame confirms it,
\* whatever it holds.
Receive(n, f) ==
  LET m == [n EXCEPT !.acked = @ \/ (n.initiator /\ n.staged.kind \in Changes)]
  IN IF f.kind \in Changes
     THEN [m EXCEPT !.newMap = IF f.kind = "MAP" THEN f.value ELSE @,
                    !.newSubrate = IF f.kind = "SUBRATE" THEN f.value ELSE @,
                    !.instant = f.instant,
                    !.pending = @ \cup {f.kind}]
     ELSE m

----------------------------------------------------------------------------
(* Events.                                                                  *)

Aligned(n) == n.anchor % n.subrate = 0

\* The anchor is an event that is past or that the subrate leaves out.
Behind(e) ==
  \/ node[e].anchor < now
  \/ node[e].anchor = now /\ e \in gone
  \/ ~Aligned(node[e])

Due(e) == node[e].anchor = now /\ e \notin gone /\ Aligned(node[e])

Together == \A e \in Ends : Due(e)
SameMap == node[Initiator].map = node[Responder].map

\* One turn of anchor_catch_up, which sched_pick runs for every link.
CatchUp(e) ==
  /\ Behind(e)
  /\ node' = [node EXCEPT ![e].anchor = NextActive(node[e])]
  /\ UNCHANGED <<now, gone, maps, losses, spills, drops, urgent>>

\* What an end that has heard a frame reads of it.  The frame is answered for
\* in the event: the responder replies and the initiator is confirmed.  Its
\* content waits in the receive ring for the work queue, and is lost when the
\* ring is full or the frame fails its tag.
Read(frame, kept) == IF kept THEN frame ELSE Plain

\* The event, as far as its frames get: the initiator's, then the reply.
\* kept are the ends at which a frame that is heard is read as well.
Meet ==
  /\ Together
  /\ \E there, back, busy \in BOOLEAN, kept \in SUBSET Ends :
       /\ back => there
       /\ ~back => losses < MaxLosses
       /\ losses' = IF back THEN losses ELSE losses + 1
       /\ there /\ Responder \notin kept => spills < MaxSpills
       /\ spills' = IF there /\ Responder \notin kept THEN spills + 1 ELSE spills
       /\ node' = [e \in Ends |->
            LET heard == IF e = Initiator THEN back ELSE there
                got == IF heard THEN Receive(node[e], Read(node[Other(e)].staged, e \in kept))
                       ELSE node[e]
            IN Finish(got, heard, busy)]
  /\ gone' = Ends
  /\ UNCHANGED <<now, maps, drops, urgent>>

\* An end runs the event and the other is not there, or is on another channel.
Alone(e) ==
  /\ Due(e)
  /\ ~Together \/ ~SameMap
  /\ \E busy \in BOOLEAN : node' = [node EXCEPT ![e] = Finish(@, FALSE, busy)]
  /\ gone' = gone \cup {e}
  /\ UNCHANGED <<now, maps, losses, spills, drops, urgent>>

\* The arbiter refuses the radio: link_aborted, and settled as a miss.
Refused(e) ==
  /\ Due(e)
  /\ drops < MaxDrops
  /\ drops' = drops + 1
  /\ \E busy \in BOOLEAN : node' = [node EXCEPT ![e] = Finish(@, FALSE, busy)]
  /\ gone' = gone \cup {e}
  /\ UNCHANGED <<now, maps, losses, spills, urgent>>

\* sched_pick finds the event late: it advances, and nothing is staged anew.
Late(e) ==
  /\ Due(e)
  /\ drops < MaxDrops
  /\ drops' = drops + 1
  /\ node' = [node EXCEPT ![e] = Advance(@)]
  /\ gone' = gone \cup {e}
  /\ UNCHANGED <<now, maps, losses, spills, urgent>>

\* Another event of the node's runs instead: this one is caught up later.
Displaced(e) ==
  /\ Due(e)
  /\ drops < MaxDrops
  /\ drops' = drops + 1
  /\ node' = [node EXCEPT ![e].anchor = NextActive(node[e])]
  /\ gone' = gone \cup {e}
  /\ UNCHANGED <<now, maps, losses, spills, urgent>>

Tick ==
  /\ now < Horizon
  /\ \A e \in Ends : ~Behind(e) /\ ~Due(e)
  /\ now' = now + 1 /\ gone' = {}
  /\ UNCHANGED <<node, maps, losses, spills, drops, urgent>>

\* sched_finish adopts a new channel map, of which the initiator tells.
AdoptMap ==
  /\ node[Initiator].pending = {}
  /\ maps < MaxMaps
  /\ maps' = maps + 1
  /\ node' = [node EXCEPT ![Initiator] = Propose(@, "MAP", maps')]
  /\ UNCHANGED <<now, gone, losses, spills, drops, urgent>>

\* An urgent or broadcast send moves the initiator's next event to a moment
\* of its own (lg_sched_expedite), counted as the nearest event, at which the
\* responder does not listen; it is then settled as any other.
Expedite ==
  /\ urgent < MaxUrgent
  /\ node[Initiator].anchor > now
  /\ urgent' = urgent + 1
  /\ \E nearest \in {now, now + 1}, busy \in BOOLEAN :
       node' = [node EXCEPT ![Initiator] =
                  Finish([@ EXCEPT !.anchor = nearest, !.subrate = 1], FALSE, busy)]
  /\ gone' = gone \cup {Initiator}
  /\ UNCHANGED <<now, maps, losses, spills, drops>>

Next ==
  \/ Meet
  \/ Tick
  \/ AdoptMap
  \/ Expedite
  \/ \E e \in Ends : CatchUp(e) \/ Alone(e) \/ Refused(e) \/ Late(e) \/ Displaced(e)

Spec == Init /\ [][Next]_vars

\* anchor_catch_up is a loop on the work queue: nothing interrupts it for good.
FairSpec == Spec /\ \A e \in Ends : WF_vars(CatchUp(e))

----------------------------------------------------------------------------
(* Properties.                                                              *)

Subrates == 1..SubrateMax
Counters == 0..(CounterMod - 1)
Frames == [kind : Changes \cup {"PLAIN"}, value : 0..MaxMaps \cup Subrates, instant : Counters]
Nodes ==
  [initiator : BOOLEAN, anchor : Counters, subrate : Subrates, map : 0..MaxMaps,
   pending : SUBSET Changes, newMap : 0..MaxMaps, newSubrate : Subrates,
   instant : Counters, acked : BOOLEAN, missing : BOOLEAN, staged : Frames]

\* Every variable has its type: event numbers stay within uint16_t and the
\* subrate between 1 and the link's ceiling (struct lg_neigh).
TypeOK ==
  /\ now \in 0..Horizon /\ gone \subseteq Ends
  /\ node \in [Ends -> Nodes]
  /\ maps \in 0..MaxMaps /\ losses \in 0..MaxLosses /\ spills \in 0..MaxSpills
  /\ drops \in 0..MaxDrops /\ urgent \in 0..MaxUrgent

Undisturbed == losses = 0 /\ spills = 0 /\ drops = 0 /\ urgent = 0

\* As long as every frame arrives, every frame the responder answers is read and
\* every event is given, the two ends look at the same event, with the same map and the same subrate: the modulus
\* leaves neither on events the other sleeps through (next_active), and the
\* instant makes both take a change at one event (lg_link_advance).
CleanChangesAgree ==
  (Undisturbed /\ \A e \in Ends : ~Behind(e)) =>
    LET i == node[Initiator]
        r == node[Responder]
    IN i.anchor = r.anchor /\ i.map = r.map /\ i.subrate = r.subrate

Knows(n, map) == n.map = map \/ ("MAP" \in n.pending /\ n.newMap = map)

\* While every event is run at its own moment, and the responder reads every
\* frame it answers, the initiator never moves to a channel map that the
\* responder neither is on nor has pending, whatever frames are lost: the reply
\* that licenses the change is the reply to it (link_rx_done).  It holds no
\* further.  A frame that the full ring drops, or that fails its tag, has been
\* answered, and the answer licenses a change of which nothing was read (Read).
\* An event that is late leaves an old control frame staged (Late), whose reply
\* then licenses a change made since; and of events moved to moments of the
\* initiator's own (Expedite) the responder hears nothing, so that it can still
\* answer with a change the initiator has given up, which then passes for an
\* answer to a newer one.
InitiatorConfirmed ==
  [][(spills' = 0 /\ drops' = 0 /\ urgent' = 0 /\ node'[Initiator].map # node[Initiator].map) =>
       Knows(node'[Responder], node'[Initiator].map)]_vars

\* Passing over the events that are gone comes to an end (anchor_catch_up).
CatchUpEnds == \A e \in Ends : Behind(e) ~> ~Behind(e)
=============================================================================
