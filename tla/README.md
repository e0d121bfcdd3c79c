# LockGrid in TLA+

LockGrid is a time-slotted mesh protocol for nRF54L radios, written in C for
Zephyr.  This directory holds specifications of its core, the TLC
configurations that check them on small instances, and TLAPS proofs of the
results that should hold for every instance.  Paths are relative to
`src/subsys/lockgrid/` unless they say otherwise.

## 1. Inventory

### How the system runs

A node has one radio.  Everything that uses it (a link event, a beacon, a scan,
a tracked beacon, a handshake slot, a channel evaluation) is an *event*, and
there is a single slot for the event that is planned or running (`lg.ev`).
Code runs in three contexts:

- **interrupts**: the time-slot source's grant or refusal, and the PHY's
  completion callbacks.  They may interrupt the work queue anywhere;
- **the work queue**: one cooperative FIFO thread.  `sched_work`,
  `finish_work`, `idle_work`, `rx_work` and `notify_work` run on it one at a
  time, and an item that is queued already is not queued again;
- **application threads**: `lg_send`, `lg_backhaul_set`, `lg_stop`.

An event ends in an interrupt (`lg_sched_event_done`), which frees the slot and
queues `finish_work`; received frames are put into a ring and dispatched by
`rx_work`.  Interrupts and thread share the slot, the ring and the neighbour
table without locks beyond short atomic operations.

### Components

| component | state | operations | what makes it correct |
|---|---|---|---|
| scheduler: `lg_sched.c`, `lg_ts_direct.c`, `lg_phy_nrf.c` | event slot, finish slot, pending request, grant, PHY state, work queue, idle timer | pick, plan, request, grant, refuse, complete, settle, kick, abort | the slot is always freed, radio time never leaks, an event is never planned over a running one, the node never falls asleep for good |
| selection: `lg_sched.c:75-153` | list of candidates | add, two scans | priority delays nobody beyond its bound; who contends is beaten fairly |
| handshake: `lg_join.c` | handshake context `hs`, neighbour state and keys | start, transmit, listen, receive a fragment, settle a slot, refuse, fail, establish | both ends end with the same key; one end talks while the other listens; a dropped slot is survived; every attempt ends |
| link schedule: `lg_link.c` | epoch, anchor, subrate, map, pending change | event, advance, catch up, propose, receive, expedite | both ends use the same events, channels and parameters |
| link data: `lg_link.c`, `lg_core.c` | staged frame, transmit queue | stage, send, receive, free | a message is neither lost after an acknowledgement nor delivered twice |
| routing: `lg_route.c` | rank, parent set, routes, duplicates | recompute, advertise, register | no loops; a lost backhaul is noticed |
| neighbour table: `lg_neigh.c` | slots and their life cycle | find, allocate, make room, free | nobody keeps a pointer to a freed slot; limits hold |
| discovery: `lg_disc.c` | beacon, scan and tracking timers | beacon, scan, track, join window | a promised window is opened; an isolated node finds its grid |
| roles: `lg_role.c` | role, hold times | evaluate, uplink up and down | one router more or less does not rock a role; a parentless region gets a router |
| channel map: `lg_chan.c` | per-channel statistics, map | result, retire, probe | never fewer channels than the minimum |
| frame security: `lg_sec.c` | counters, replay mask, keys | encrypt, decrypt, install, forget | each counter accepted once |
| core: `lg_core.c` | rings, start and stop | post, dispatch, notify | bounded rings, order kept, nothing runs after stop |
| `lg_ts_mpsl.c` | MPSL session | request, extend, close | as `lg_ts_direct.c`, on a radio shared with Bluetooth |
| `lg_power.c`, `lg_stats.c`, `lg_trace.c`, `lg_frame.*`, `lg_provision_sim.c`, samples, tests, tools | counters, layout, test data | - | nothing the protocol reads back |

Interactions: `sched_pick` asks every component for its next time and calls the
operations table of the chosen event from interrupts, then the component's
finish function from the work queue.  `dispatch` hands a frame to discovery,
handshake or link.  A beacon starts a handshake, a handshake establishes a
link, a link going down changes routes, roles and discovery; all of them kick
the scheduler.

The hard behaviours are interrupts between the two halves of an event, kicks
from anywhere at any time, slots refused or found late at one end only, lost
frames and lost replies, retries that the other end does not know of, and
16-bit event numbers.  `PROJECT.json` lists each at its line under `hazards`.

## 2. Plan

The modules were written in the order in which the system depends on its parts:
everything waits for the scheduler, nothing happens before a handshake, a link
carries the messages, and ranks, tables and discovery move over links.

| part | modules | proofs |
|---|---|---|
| scheduler and its interrupts | `Sched` | `SchedProofs` |
| the choice among candidates | `SchedSelect` | `SchedProofs` |
| joining and resuming | `Handshake` | `HandshakeProofs` |
| link parameters and event numbers | `LinkParams` | `LinkParamsProofs` |
| messages over a link | `LinkData`, which implements the abstract `OrderedDelivery` | `LinkDataProofs` |
| frame counters and the replay window | `Replay` | `ReplayProofs` |
| one node's neighbour table, with its handshake, links and routes | `Neighbours` | `NeighboursProofs` |
| ranks and parents across a grid | `Route` | `RouteProofs` |
| how a grid forms: beacons, windows, roles | `Discovery` | `DiscoveryProofs` |

Each module keeps the whole control of its part and takes from the others only
what they promise:

- `Handshake`, `LinkParams` and `LinkData` take from `Sched` that an event runs,
  is refused, is late or is displaced.  `Sched` shows that nothing else can
  happen to one.
- `Handshake` and `LinkData` take from `Replay` that a frame is accepted once,
  and that one which is merely late is not refused.
- `Neighbours`, `Route` and `Discovery` take from `Handshake` that a handshake
  ends, and that its two ends do not come up on different keys.
- `Discovery` takes the ranks from `Route`: they come to rest on distances.
- `Route` and `Discovery` take the table from `Neighbours` as having room.

What is left, the most useful first: the state of the notification ring and of
`lg_start` and `lg_stop` (`lg_core.c`); the gossip that tells unlinked nodes of a
backhaul (`lg_route.c:379-451`); several links sharing one radio, so that
`LinkData` and `LinkParams` could be composed with `Sched`; the channel map's
retiring and probing.  Every safety property that a run finds to hold is proved;
of the liveness properties `RolesHold` is.

## 3. The modules and the code

Definitions whose comment begins with `Slip` are plausible mistakes, used to
show that a property notices them; no specification refers to them.

**`Sched`** has one action per critical section of the code: an interrupt
handler is one action; the thread's functions are split where an interrupt
changes what they do next.  `pc` is the place of the work-queue thread.

| module | code |
|---|---|
| `ev`, `finish` | `lg.ev`, `finish_kind` and `finish_neigh` |
| `req`, `granted` | the pending request and the grant of `lg_ts_direct.c` |
| `phy` | the state machine of `lg_phy_nrf.c` |
| `idle`, `wq`, `rx` | the idle timer, the FIFO of the work queue, the ring's occupancy |
| `Pick*`, `Plan`, `Drop`, `Request` | `sched_pick`, from its guard to `lg_ts_request` |
| `Refused`, `Grant*` | `ts_failed`, `ts_granted` with the event's start function |
| `PhyContinue`, `PhyFinish` | completion callbacks that continue or end the event |
| `Settle`, `ClearFinish` | `sched_finish` |
| `RxDispatch`, `Abort*`, `RxKick` | `rx_handler` and the beacon that aborts a scan |
| `AppKick`, `IdleExpire` | `lg_sched_kick` from anywhere, `sched_idle` |

Which component wants the radio is a choice, so every sequence of kinds is
covered.  Left out: `lg_sched_stop` and re-initialisation.

**`SchedSelect`** adds the candidates in the code's order, each of any time and
of a class its kind can have, and then makes one step per candidate of the two
scans.  `list` is an array of records and `best`, `earliest` are indices.  Its
specification is `SelectSpec`, its types `SelectTypeOK`, so that `SchedProofs` can
extend it beside `Sched`.

**`Handshake`** has a record per end: the neighbour's state, key and whether a
long term key is kept, and the context `hs` (staged message, debt `owe_tx`,
idle slots, slot number `age`, reassembly).  A message carries the attempt it
belongs to and the key that seals it, instead of bytes.  Time is a sequence of
slots; in each an end transmits its message (all fragments), listens and hears
any part of what is sent, or does not get its slot: refused (`join_aborted`,
then settled), late (settled as it stands) or displaced (not run at all).
`NextSlot` closes a slot.  Not modelled: certificates that fail, the back-off
between attempts, and three branches of the code that no state of one joiner
and one router reaches (a finished event of a neighbour that is no longer
joining, a staged length of zero for an owed slot, the end of a join window
that heard nothing, which has no state here).

**`LinkParams`** has a record per end with `anchor` (the event number of
`anchor_us`), `subrate`, `map`, the pending changes, their instant, whether they
are confirmed, and the frame that is staged.  `now` is the event whose moment
has come and `gone` the ends for which that moment is over.  `Meet` is an event
both ends run, with the loss of either frame.  A frame that is heard is answered
in the event, but it is read on the work queue: `Read` lets it vanish between the
two, as when the receive ring is full (`lg_core.c:110`) or its tag is wrong
(`lg_sec.c:26-29`), and `spills` counts the frames the responder has answered and
not read.  `Alone` is an event that only one end runs;
`Refused`, `Late`, `Displaced` the events an end does not get; `AdoptMap` the
channel evaluation; `Expedite` an urgent send.  A frame is staged when the
event before it is settled, as in the code, so what is sent at an event is what
was pending one event earlier.  Maps are numbered instead of listed, and two
ends on different maps may or may not find themselves on the same channel.
Left out: clock drift and windows (the responder moves epoch and anchor
together, which changes no event number), and `LG_CTRL_INTERVAL`, which nothing
sends.

**`LinkData`** has, at each end, the transmit queue (`queue`), what
`lg_link_stage_tx` left for the next event (`staged`, `needsAck`), the node's
record of its last event (`evst`, which the code has once per node and not per
link) and the duplicate cache (`dup`).  `Request` and `Reply` are the two frames
of an event and call `handle_data` at the end that receives them; `Finish` is
`lg_link_event_finish`, which releases a message if the record says it was
answered, and stages the next.  `Refused` settles an event that never ran with
the record of another.  `Overhear` is traffic of other origins that takes places
in the duplicate cache; `Reroute` a message whose next hop changes.
`OrderedDelivery` is the abstract specification: messages are given, and each
arrives at most once and in order.  `DeliversInOrder` is `Abs!Spec`, where `Abs`
is `INSTANCE OrderedDelivery WITH` the ends, `given` and `arrived` of `LinkData`.

**`Replay`** is one direction of a link: `Encrypt`, `Accept` (`replay_check`
with its window and mask), `Install*` and `Forget*` for either end's key.  A
frame that has been sent stays in `sent` and may be accepted at any later time,
which covers delay, duplication, reordering and loss.  The mask is a set of
distances instead of a word; a shift is an addition.

**`Neighbours`** is one router's table of records (`node.neigh`), its rank, its
sequence of live routes and the handshake's slot.  Its peers beacon, ask to
join, advertise, register and fall silent in any order.  `Roomed` is
`lg_neigh_make_room`, `Placed` an allocation, `Recomputed` `lg_route_recompute`,
`Down` `lg_link_down`.  Where the code walks the table in one work item, a step
walks it at once.  Signal and quality averages are the constant `CostOf`.

**`Route`** has a record per node: rank, parents, what each neighbour last
advertised, and what is staged for each link.  `Exchange` is an event of a link
at both ends; an advertisement carries the rank its sender had one event ago.
`Supervise` is the supervision timeout, `UplinkDown` and `UplinkUp` are
`lg_backhaul_set`, `Cut` takes two nodes out of each other's range.  A
recomputation happens, as in the code, inside the step that calls for it.

**`Discovery`** has a record per node: its role, whether it beacons (`armed`),
the beacon that is staged, what the neighbour table says of each other node, and
whom it is joining.  A beacon says what its sender was one interval earlier.
Beacon event, reception and settling are one step: `Beacon(n, H, ...)` is heard
by the nodes in `H`, and a beacon that is suppressed, refused or late is one that
nobody hears.  Timers have no clocks: whether a window is due, whether the dwell
time has passed and whether children are registered are choices (`held`), made
anew at each review of a role.  Ranks are distances over the links there are.  A
pair in `spoiled` has a long term key at one end, so it tries to resume, which
never succeeds (see `handshake_resume`).

## 4. The runs

| run | bounds | shows |
|---|---|---|
| `sched` | 2 neighbours, a ring of 2 | the slot is always driven, freed and looked at again, no radio time leaks, nothing is planned over a running event |
| `select` | 2 neighbours and a node's own clients, times 0..6, window 2 | `DelayBounded`, `ContendersBeaten` |
| `handshake` | 2 attempts, 2 losses, 1 slot not given, 1 outage, 2 fragments per long message | key agreement, turns, termination |
| `handshake_resume` | the limits of the code, 1 outage, nothing lost | *violated*: `ResumptionSucceeds` |
| `link_params` | 14 events, 2 losses, 1 frame answered and not read, 1 event not given, 2 maps, 1 urgent send, subrate up to 4, instants 3 ahead | both ends stay together, catching up ends |
| `link_wrap` | event numbers modulo 8 | *violated*: `CatchUpEnds` |
| `link_data` | 2 messages each way, queue and cache of 2, 1 foreign message, 3 of 6 kinds of trouble | `DeliversInOrder`, `FreedWasDelivered`, `QueuesDrain` |
| `replay` | 6 frames under each of 2 keys, a mask of 3 bits, a window of 4 | `NeverAgain`, `LateAdmitted` |
| `neigh` | 3 peers for 2 slots, 1 parent, 1 route | the table under a handshake, links and routes |
| `route` | 3 nodes, ranks up to 12, 2 of 4 kinds of disturbance | `QuietIsTrue`, `ComesToRest`, `SinkLossNoticed` |
| `route_loop` | as `route`, undisturbed | *violated*: `NoForwardingLoop` |
| `discovery` | 3 nodes in a row, an uplink at one end, targets of 2 links and 1 router, 1 trouble | `GridForms`, `RolesHold`, `InitiatorUnambiguous` |

Why the bounds suffice.

- `sched`: the slot holds one event and the thread runs one item, so a second
  neighbour only matters as a different value in the slot; a ring of two can be
  empty, in use and full.
- `select`: with a window of 2 and 7 times a chain of three classes, each just
  inside the last one's window, fits, which is the longest the classes allow.
- `handshake`: two attempts are needed for a message of one to be heard in the
  other; two losses reach both a lost fragment and a lost reply; idle and slot
  limits are scaled down (from 8 and 48) so that both are reached.
- `link_params`: 14 events hold several proposals in a row, each with its
  instant, and one event more or less at either end.  The frames that are lost and
  the one that is not read are enough to keep a change from the responder until
  its instant while the initiator has it confirmed: without `spills' = 0` in its
  hypothesis `InitiatorConfirmed` is violated within these bounds.
- `link_data`: two messages are enough for the wrong one to be released or for
  one to overtake another.  A cache of two with one foreign message is at its
  limit: with two foreign messages the same message is delivered twice, which
  is why the theorem assumes `MaxForeign < DupSize`.  Three kinds of trouble at
  once include every pair in which one hides the other.
- `replay`: six frames are twice the width of the mask, so bits are shifted out
  and jumps beyond the mask occur; the window of 4 is wider than the mask, as
  the configuration allows, and the smaller of the two counts.
- `neigh`: three peers for two slots make every allocation displace somebody.
  One of the peers is poor (`Tolerable` is exceeded), the others are
  interchangeable (`SYMMETRY`, and no liveness property is checked there).
- `route`: three nodes hold the smallest loop and a path of two links; the
  ceiling of 12 is several times the longest path, so that climbing ranks can be
  told from true ones.
- `discovery`: in a row the far node is out of the backhaul's range, so that the
  middle one has to become a router; `MaxLinks` is the largest degree, so a full
  node does not keep out one that has nobody else.  Roles that chase each other
  take four nodes, which are too many to let a grid grow from nothing.  So
  `RolesHold` says of one node what is true beside any number of others, and is
  proved for all of them (`RolesAreHeld`); in the row it shows that thresholds
  which meet would make the middle node change for ever.

`CHECK_DEADLOCK FALSE` is said only where a bound ends the behaviour (attempts,
events, a choice made, the last key forgotten, a grid without its only sink).

**Fairness.**

- `Sched`: the thread is cooperative and never blocks (weak fairness on its
  steps), a request is answered, a PHY operation ends by itself or by its
  window, an armed timer expires.
- `Handshake`: time passes, and an end that has a slot runs it, is refused it or
  lets it go by.
- `LinkParams`: the loop of `anchor_catch_up` is not interrupted for good.
- `LinkData`: events come round at every interval, a reply follows a request,
  the work queue settles what is over.  Messages being given, troubles and
  foreign traffic have none.
- `Route`: links have events, and a silent link times out.  Nobody has to link.
- `Discovery`: a handshake fails in the end if it does not succeed (weak), and
  one that can succeed again and again does (strong).  `Hears(n, m)` is strongly
  fair for nodes in range: a beacon period is jittered, the back-off between
  attempts ends, and a node that has a route offers a window at least once in a
  fixed time (`lg_disc.c:467-472`), so nothing can meet every one of its beacons.

Except for `Discovery`, which needs a beacon to get through at all, no fairness
is put on the air: the liveness properties hold under any losses the bound
allows.

### What the code does otherwise than its comments say

Shown by runs that expect the violation, and listed as findings:

- *Resumption* (`handshake_resume`): the joiner never derives the resumed key,
  so a `RESUME_RSP` cannot be read; every resumption fails and is retried.  One
  full handshake that fails after `lg_join.c:223` has the same effect, since the
  long term key is kept.
- *Wrap* (`link_wrap`): after event 65535 the anchor jumps back to the epoch
  and `anchor_catch_up` loops for ever on the work queue.
- *Forwarding loops* (`route_loop`): the test that is to exclude children
  compares a rank with itself plus a cost, and the parent that is used is the
  first in the table, not the best.

Met while modelling; the properties are stated so as to allow for them:

- *Settling order*: a queued `sched_work` runs before `finish_work`, so the next
  event can be picked, and can even end, before the last one has been settled.
- *Contention*: the window moves with the best candidate found so far, and a
  candidate already passed over is not looked at again, so a higher class may
  lose to a lower one (`DelayBounded` is what remains true).
- *Dropped slots*: a refused slot returns the debt to the end that should have
  listened, and both then transmit in the same slots (`TurnsKept` has
  `drops = 0`).
- *Slot origin*: the router's origin is the first fragment it hears, not the
  first that was sent.
- *Split maps*: replies lost until the instant leave the responder on the new
  map and the initiator on the old one (`CleanChangesAgree` excepts losses).
- *Unsent maps*: with a subrate above 6 a new map is abandoned before it is sent.
- *Stale confirmations*: the comment at `lg_link.c:195-201` has the initiator apply a
  change "only once the peer has replied to the frame that carried it", but
  `tx_was_ctrl` does not say which frame that was.  A late event leaves an old
  control frame staged, and the reply to that confirms whatever change has been
  made since.  And while the initiator's events are expedited, twice in a row, it
  can give up one change and propose another at moments at which the responder
  does not listen; when they meet, the responder answers the new change with the
  old one, which it still has pending, and the initiator takes that for the
  confirmation and the old map for the agreed one, while the responder takes the
  new.  (One urgent send, the bound of `link_params`, is not enough to show that.)
  Nor does the reply say that the frame was read: `link_rx_done` posts
  it and replies whatever becomes of it, so that a frame the full ring has dropped
  (`lg_core.c:110`), or that fails its tag later (`lg_sec.c:26-29`), still sets
  `ctrl_acked` (`lg_link.c:586`).  If the frames that repeat it are lost as well,
  the initiator moves to a map of which the responder has read nothing, with no
  event late or expedited.  `InitiatorConfirmed` is stated for links on
  which every event is run at its own moment and the responder reads what it
  answers.
- *Released messages* (`LinkData!Excuses`): a refused slot is settled with the
  flags of an earlier event; the responder frees on transmission; `needs_ack`
  outlives a control frame; the message freed is the oldest, not the one that was
  staged; and a full receive ring drops what has been acknowledged.
- *Reopened links* (`reopened` in `Neighbours`): a join request from a neighbour
  that is still linked takes nothing down, so that until the next recomputation
  `lg_has_route` is true while `lg_parent` finds nobody.
- *Displaced handshakes*: `lg_neigh_make_room` may take the slot of a neighbour
  that is joining.  `lg_join_event_finish` then forgets the handshake if one of its
  events is running or planned.  If none is, none follows: `lg_join_next_us`
  (`lg_join.c:710`) has no further slot, and with `hs.n` set `lg_join_win_next_us`
  (`lg_join.c:731`) opens no window.  The context stays occupied until the slot's
  new owner comes to a handshake with this node, or has its request rejected.
  `JoinAbandoned` allows the handshake to be forgotten and does not require it.
- *Number of links*: `LOCKGRID_MAX_LINKS` is tested where a node is asked to be
  the router, and not where it joins.
- *Unspread news*: the timer of a node's own advertisements is restarted by
  hearing the peer's, so that one end of a link may stop sending; a node that
  becomes a backhaul leaves `lg_route_recompute` (`lg_route.c:123`) before its
  rank of 0 is made urgent.  `QuietIsTrue` excepts `up` and `loss` for this.
- *Mute leaves*: whether a node beacons is reviewed at links, roles and tuning.
  A leaf that loses its route while its links stay (its parent's advertisement
  says so, `lg_route.c:449`) does not start to beacon.  In a row of four in which
  the last two keep each other, they can stay apart from a grid within their
  range.  `GridForms` excepts such nodes.
- *Windows without a route*: the hint of a joiner (`lg_disc.c:443`) is tested
  before the node's own route, so a router without one may offer a window; and a
  beacon may be suppressed by routers that the newcomer does not hear.
- *Roles that chase each other*: the thresholds of promotion and demotion are one
  apart on either side of the target "so the two decisions cannot chase each other"
  (`lg_role.c:201-203`), and `README.md:313-315` of the repository adds that a node
  on the boundary cannot oscillate.  That is so of one node (`RolesHold`) and not
  of several.  Take four nodes in range of one another and all linked (which takes
  a `LOCKGRID_MIN_LINKS_TARGET` above the default), the default target of 2
  routers, one backhaul and three routers.  Each of the three counts 3 others and
  becomes a leaf before it hears that the others have; once it has heard it counts
  1, and each becomes a router before it hears of the others; and so on.  The dwell
  time slows this down and does not end it.
- The comment at `lg_disc.c:417-423` has it that leaves do not beacon; `should_beacon`
  lets a leaf without a route.

## 5. What is proved

Proved with TLAPS for every value of the constants that their assumptions allow:

- **`SchedProofs`**: `TypeCorrect`, `GrantsAreUsed`, `EventsAreDriven`,
  `SchedulerNeverStalls`, `PlanningIsExclusive`.  The inductive invariant
  `Sched!IInv` adds three facts to the properties.  `LookAhead` is what makes
  `NeverStalls` inductive: not only an idle node has its timer armed, but in
  every state *something* will lead to a pick (the thread is on its way to one,
  an event or the PHY is active, an item is queued, or the timer runs).
  `PlanQuiet` carries the guard of `sched_pick` over to `event_plan`, across
  the interrupts that may come between them: none can occur, because nothing is
  requested, granted or busy.  `RxHeld` keeps the frame in the ring while its
  handler runs.
  Of `SchedSelect` the same module has `SelectTypeCorrect`,
  `PriorityDelayIsBounded` and `ContendersLose`.  The invariant says what each scan
  has established of the candidates it has seen; the delay bound is carried as "at
  most one window for every class the best is above the earliest", which each
  replacement keeps because it moves by at most a window and up at least a class.
- **`ReplayProofs`**: `TypeCorrect`, `NeverAcceptedAgain`, `LateFramesAdmitted`,
  for masks and windows of any size.  The two properties need each other's facts:
  the invariant says that the frames accepted under the current key are
  remembered (they are at most as new as the highest, and within the mask their
  bit is set) and that the mask is exact (a bit that is set stands for a frame
  that was accepted).  The first gives `NeverAgain`, the second `LateAdmitted`.
- **`HandshakeProofs`**: `TypeCorrect`, `SameKeys`, `RouterFirst`, `TurnsAlwaysKept`,
  `CleanAttempt`, for fragments, limits, losses and missed slots of any number.
  `SameKeys` is not inductive: it says nothing of the states just before a link
  comes up.  The invariant adds
  that an end stages link parameters only under the key it has; that link
  parameters are on air only in the slot in which the router sent them, which
  linked it, and under its key; that nothing is on its way to the router unless
  the joiner's slot is over; and that a linked joiner has a router with no
  handshake and nothing on its way to it.  So the parameters that link the joiner
  find both ends with one key, and afterwards nothing is left that could derive
  another.  The limit on the slot index counts the slots that were not given: an
  end is behind its deadline by at most those, and by one less once it has had
  the current slot.
  `TurnsKept` speaks of debts, which are settled at the end of a slot from what
  was heard in it.  The invariant (`Turns`) therefore speaks of the debts to come
  as well: `OwesNext` is whether an end will owe a message in the next slot if it
  hears nothing more in this one.  The two ends never both do; and once the router
  has something to say one of them does, or the idle ends could both begin to
  repeat themselves in one slot.  What is on its way to an end was sent by one
  whose slot is over and who owes nothing any more, so that hearing it makes only
  the hearer owe.
  `CleanAttempt` needs the whole course of an attempt: `Course` has one case for
  each slot from the request to the confirmation, with the fragments that are
  still on the air, and every step leads from a case to itself or the next.  Its
  hypothesis, `Roomy`, is that the idle limit is above 1 and the deadline above 3
  slots; the code has 8 and 48.
- **`LinkParamsProofs`**: `TypeCorrect` and `CleanChanges`, for every modulus of
  the event number, lead of the instant and ceiling of the subrate, the wrap
  included; and `ChangesAreConfirmed`.  `CleanChangesAgree` is not inductive for
  two reasons.  It says nothing of changes that are pending: the invariant adds that the responder has
  pending nothing or just what the initiator has, which then has it confirmed,
  and that what an end has staged is what it has pending, so both apply a change
  at one event or the initiator abandons it.  And it says nothing of ends that
  are behind, which pass over events one at a time and independently: the
  invariant adds that both are on one walk.  That is stated without counting
  steps, as an induction over them would need: no set of events that is neither
  entered nor left by passing over an event holds one anchor and not the other.
  When both have stopped, the set of the events that lead to one of them holds
  that one and no other event at which a walk stops, so the anchors are equal.
  `ChangesAreConfirmed` (`InitiatorConfirmed`) allows every loss on the air, and of
  frames the initiator has heard, but not of frames the responder has answered.
  With losses the
  responder may have a change pending that the initiator has given up and followed
  by another.  That its answer does not confirm the wrong one is a matter of time:
  the initiator gives up a change only where its next event is past the instant,
  and the responder drops it only there too.  So the invariant has, for a change
  the responder has pending, that both have the same one or that the initiator is
  past its instant (`Pact`), and that the responder's own next event is before it
  (`Comes`): they cannot meet until the responder has dealt with it.  This compares
  event numbers, so the theorem assumes that they do not wrap (`Roomy`: the
  horizon and two subrates are below the modulus); after the wrap the code does
  not get on in any case (`link_wrap`).
- **`NeighboursProofs`**: `TypeCorrect`, `JoiningAlwaysDriven`,
  `RankAlwaysHasParent`, `RoutesAlwaysFollow`, `UplinkAlwaysStays`, for peers,
  slots, parents, routes and costs of any number.  They share one invariant,
  `Sound`, since they need each other: that a link's end leaves no route behind
  needs the table to have every address once, and a join that ends in a link needs
  the slot of the handshake to be the one that is joining.  Every
  helper of the model has a lemma that says what it does to a sound node, and every
  action is a composition of them.  Of the rank, `Sound` says only what
  `Recomputed` does not restore, so that a step may leave it wrong until then.
- **`RouteProofs`**: `RouteTypeCorrect` and `RestingRanksAreTrue` (`QuietIsTrue`),
  for any grid, costs, hysteresis and number of parents.  `QuietIsTrue` says that
  once nothing is left to be told no rank is below the cost of the best path to a
  sink, nor above it by more than the hysteresis adds up to.  The invariant, also
  called `Sound`, has two parts.  `Elect` relates the rank of a node to what it has
  heard: it is what some neighbour offers, within the hysteresis of the best offer.
  `KnowsOf` relates what a node has heard of a neighbour to the rank that one has,
  in one of five ways: it has heard that rank; the rank is staged for it; it has yet
  to be told; the neighbour is a sink whose uplink came up, which is not pushed; or
  the link is new and nothing has been said on it.  Until an advertisement is lost
  there is no sixth.  A quiet grid leaves the first, the fourth and, of the fifth,
  neighbours that the node is not above anyway.  Ranks are then not too low, by
  induction on the number of nodes that are nearer to a sink, and not too high, by
  induction on the cost of the best path.
- **`DiscoveryProofs`**: `TypeCorrect`, which includes that ranks are the
  distances over the links there are and that a handshake is with a node in range
  and not linked, in a grid of any size; `OneJoiner`; and `RolesAreHeld`.  The last
  is a temporal property that needs no fairness: it is enough that a step which
  changes the role of a node without an uplink, none of whose neighbours lacks a
  route, either promotes it with fewer routers than the target heard, or demotes it
  with more (`StepRole`, which goes through every action); a node that changes its
  role for ever is promoted for ever and demoted for ever.
- **`LinkDataProofs`**: `TypeCorrect`; `ImplementsOrderedDelivery`, the
  refinement of `OrderedDelivery`, for queues and caches of any size with
  `MaxForeign < DupSize`; and `ReleasedAfterDelivery`.  The invariant of the
  refinement is about order (what waits is in order, what is staged comes before
  it, what has arrived last is not after either) and about the cache at the other
  end (it still has the message that arrived last, with at most the foreign
  messages counted after it): together they say that a staged frame is either the
  message that arrived last, which the cache knows, or a later one.  That of the
  release follows a frame through its event: once an end has heard an answer, the
  frame it staged is with the other end, and a message that needs its
  confirmation is that frame and the oldest in the queue.

Assumptions: those on the constants, named in the modules, and the three hypotheses
named above, each of which the configurations satisfy: `MaxForeign < DupSize`, and
`Roomy` of the handshake's limits and of the event numbers.

The refinement is the temporal theorem `ImplementsOrderedDelivery`: the initial
states of `LinkData` are initial states of `OrderedDelivery`, and each of its steps is
one of the abstract steps or leaves `given` and `arrived` as they are.

Recursive functions (the walk over the routes and an advertised list in
`Neighbours`, the cost of a best path in `Route`) need two things that the library
states with operators as parameters, which cannot be instantiated here.  That the
function defined is one that satisfies its equation is proved by building it
(`Recursion`, from functions on initial segments); and induction is had from
`NatLessThanWellFounded` and `WFMin`, which speak of sets: a set of numbers that is
not empty has a least element (`LeastNatural`).

Only model-checked: the liveness properties `EventEnds`, `KeepsLooking`,
`HandshakeEnds`, `CatchUpEnds`, `QueuesDrain`, `ComesToRest`, `SinkLossNoticed`
and `GridForms`, since liveness under fairness and ENABLED are beyond the prover;
and the violations.

## Not modelled

- The notification ring, `lg_start` and `lg_stop` (`lg_core.c`): nothing in the
  protocol reads the ring back, and every module starts from a started node.
- The gossip and seeking of `lg_route.c:379-451`, which tell nodes that are not
  linked of a backhaul; in `Discovery` they hear beacons instead.
- When beacons, scans and windows happen, and the prediction and tracking of a
  neighbour's next beacon (`lg_disc.c`): `Discovery` lets them happen in any order.
- Retiring and probing channels (`lg_chan.c`): arithmetic on local counters;
  `LinkParams` has the adoption of the map that results.
- The MPSL time-slot source (`lg_ts_mpsl.c`): its refusals are an action of
  `Sched`, its session is the vendor library's.
- Signal and quality averages: the quality of a link is an input.
- Cryptography, certificates and frame layout: a key is the number of the
  derivation that made it, a frame its type and what the protocol reads of it.
- Power accounting, statistics, traces, simulated provisioning, samples, tests
  and tools: nothing in the protocol reads them back.

`PROJECT.json` has the status of each part under `components`, and under
`hazards` what is hard to test in the code, at its line, with the properties that
would notice it going wrong.
