------------------------------- MODULE Route -------------------------------
(***************************************************************************)
(* Rank and parent selection across a grid (lg_route.c), with the          *)
(* advertisements that carry ranks over links (lg_link.c), the links that  *)
(* come and go, and uplinks that a node gains or loses while it runs       *)
(* (lg_role.c).                                                            *)
(*                                                                         *)
(* An event of a link is one step of both its ends: neither has time for   *)
(* another link meanwhile.  Each sends the frame it staged after the       *)
(* previous event and then stages the next, so an advertisement carries    *)
(* the rank its sender had one event ago.  Of the frames only              *)
(* advertisements matter here.  Every node is a router or a backhaul, and  *)
(* the cost of a link does not change.                                     *)
(***************************************************************************)
EXTENDS Integers, FiniteSets

CONSTANTS
  Nodes,        \* the addresses of the grid's nodes
  Cost,         \* Cost[n][m]: what n has measured its link to m to cost
  Slot,         \* Slot[n][m]: where m is in the neighbour table of n
  Seeds,        \* nodes whose uplink is up when they start
  MaxRank,      \* LOCKGRID_MAX_RANK: a path this expensive is no path
  Hysteresis,   \* LG_RANK_HYSTERESIS
  MaxParents,   \* LOCKGRID_MAX_PARENTS
  LinksTarget,  \* LOCKGRID_MIN_LINKS_TARGET
  Margin,       \* how much better a further router has to be to be joined
  AdvPeriod,    \* the 30 s between advertisements, in link events
  Repeats,      \* bound: whether those 30 s pass while the grid is watched
  Troubles,     \* bound: the kinds of disturbance that may happen, each once
  MaxTroubles   \* bound: how many happen in all

ASSUME RouteAssumption ==
  /\ Nodes \subseteq Nat /\ IsFiniteSet(Nodes)
  /\ Cost \in [Nodes -> [Nodes -> Nat \ {0}]]
  /\ Slot \in [Nodes -> [Nodes -> Nat]]
  /\ \A n, m, o \in Nodes : Slot[n][m] = Slot[n][o] => m = o
  /\ Seeds \subseteq Nodes
  /\ MaxRank \in Nat \ {0} /\ Hysteresis \in Nat /\ MaxParents \in Nat \ {0}
  /\ LinksTarget \in Nat /\ Margin \in Nat /\ AdvPeriod \in Nat \ {0}
  /\ Repeats \in BOOLEAN
  /\ Troubles \subseteq {"down", "up", "cut", "loss"} /\ MaxTroubles \in Nat

VARIABLES
  node,     \* each node's role, rank, neighbours and staged advertisements
  inRange,  \* the pairs that can hear each other
  had       \* the disturbances there have been

vars == <<node, inRange, had>>

\* Finite ranks are below the ceiling, so the ceiling can stand for
\* LG_RANK_INFINITE.
Infinite == MaxRank
Ranks == 0 .. Infinite
NoAdv == Infinite + 1

Pair(n, m) == {n, m}
Pairs == {{n, m} : n, m \in Nodes} \ {{n} : n \in Nodes}

\* A node that has just been started.
Fresh(n) ==
  [backhaul |-> n \in Seeds,
   rank |-> IF n \in Seeds THEN 0 ELSE Infinite,
   linked |-> {}, parents |-> {},
   heard |-> [m \in Nodes |-> Infinite],
   urgent |-> FALSE, told |-> {},
   staged |-> [m \in Nodes |-> NoAdv],
   age |-> [m \in Nodes |-> AdvPeriod]]

\* Any two nodes with a place in each other's tables may be in range.
Init ==
  /\ node = [n \in Nodes |-> Fresh(n)]
  /\ inRange = Pairs
  /\ had = {}

----------------------------------------------------------------------------
(* Rank and parents of node n, whose record is s.                           *)

\* Slip: whatever has become of the link.
RankUnlinked(n, s, m) ==
  IF s.heard[m] = Infinite \/ s.heard[m] + Cost[n][m] >= MaxRank THEN Infinite
  ELSE s.heard[m] + Cost[n][m]

\* rank_through
RankThrough(n, s, m) ==
  IF \/ m \notin s.linked
     \/ s.heard[m] = Infinite
     \/ s.heard[m] + Cost[n][m] >= MaxRank
  THEN Infinite
  ELSE s.heard[m] + Cost[n][m]

\* The insertion sort keeps the table's order among equals.  Here and below
\* via[m] is the rank n would have through m.
Before(n, via, m, o) ==
  \/ via[m] < via[o]
  \/ via[m] = via[o] /\ Slot[n][m] < Slot[n][o]

\* The parent set of lg_route_recompute.
Parents(n, via, heard) ==
  LET candidates == {m \in Nodes : via[m] < Infinite /\ heard[m] < via[m]}
  IN {m \in candidates :
        Cardinality({o \in candidates : Before(n, via, o, m)}) < MaxParents}

\* lg_parent: the parent that comes first in the table, if there is one.
ForwardsTo(n, s) ==
  LET up == s.parents \cap s.linked
  IN {m \in up : \A o \in up : Slot[n][m] <= Slot[n][o]}

\* The rank that n takes from its parents: from the cheapest, unless the one
\* it has been using is among them and within the hysteresis of it.
NewRank(n, via, parents, using) ==
  IF parents = {} THEN Infinite
  ELSE LET best == CHOOSE m \in parents : \A o \in parents : ~Before(n, via, o, m)
           kept == {m \in using \cap parents : via[m] <= via[best] + Hysteresis}
       IN via[IF kept = {} THEN best ELSE CHOOSE m \in kept : TRUE]

\* The element of a set that has one.  What is bound in a set constructor is
\* evaluated once; the recomputation is too long to be evaluated at each use.
The(S) == CHOOSE x \in S : TRUE

\* Slip: neighbours are told again whatever the outcome.
ElectedAloud(s, parents, rank) ==
  [s EXCEPT !.rank = rank, !.parents = parents, !.urgent = TRUE, !.told = {}]

Elected(s, parents, rank) ==
  [s EXCEPT !.rank = rank, !.parents = parents,
            !.urgent = @ \/ rank # s.rank,
            !.told = IF rank # s.rank THEN {} ELSE @]

\* lg_route_recompute
Recompute(n, s) ==
  IF s.backhaul THEN [s EXCEPT !.rank = 0, !.parents = {}]
  ELSE LET Via == {[m \in Nodes |-> RankThrough(n, s, m)]}
       IN The({The({Elected(s, parents, NewRank(n, via, parents, ForwardsTo(n, s))) :
                      parents \in {Parents(n, via, s.heard)}}) : via \in Via})

----------------------------------------------------------------------------
(* What one end does with a neighbour.                                      *)

\* lg_route_handle_adv
HandleAdv(n, s, m, r) ==
  IF r = NoAdv THEN s
  ELSE The({Recompute(n, h) : h \in {[s EXCEPT !.heard[m] = r, !.age[m] = 0]}})

\* Slip: the flag clears once one neighbour has been told.
StageForOne(s, m) ==
  IF (s.urgent /\ m \notin s.told) \/ s.age[m] = AdvPeriod
  THEN [s EXCEPT !.staged[m] = s.rank, !.age[m] = 0, !.urgent = FALSE]
  ELSE [s EXCEPT !.staged[m] = NoAdv]

\* The part of lg_link_stage_tx that concerns advertisements.
Stage(s, m) ==
  IF (s.urgent /\ m \notin s.told) \/ s.age[m] = AdvPeriod
  THEN [s EXCEPT !.staged[m] = s.rank, !.age[m] = 0,
                 !.told = @ \cup {m},
                 !.urgent = \E o \in s.linked : o \notin s.told \cup {m}]
  ELSE [s EXCEPT !.staged[m] = NoAdv]

Aged(s, m) == [s EXCEPT !.age[m] = IF Repeats /\ @ < AdvPeriod THEN @ + 1 ELSE @]

\* One end's share of an event in which it received r.
AfterEvent(n, m, r) ==
  The({Stage(h, m) : h \in {HandleAdv(n, s, m, r) : s \in {Aged(node[n], m)}}})

\* lg_link_establish.  Both ends take the rank from the parameters that the
\* router wrote.
Establish(n, m, r) ==
  Recompute(n, [node[n] EXCEPT !.linked = @ \cup {m}, !.heard[m] = r])

\* lg_link_down
Dropped(n, m) ==
  Recompute(n, [node[n] EXCEPT !.linked = @ \ {m}, !.parents = @ \ {m},
                               !.staged[m] = NoAdv])

\* candidate_is_useful, for a router of rank r; higher says whose address is.
Useful(n, r, higher) ==
  /\ r # Infinite /\ ~node[n].backhaul
  /\ \/ node[n].rank = Infinite
     \/ /\ Cardinality(node[n].linked) < LinksTarget
        /\ \/ r < node[n].rank
           \/ r = node[n].rank /\ higher
     \/ /\ Cardinality(node[n].linked) >= LinksTarget
        /\ r + Margin < node[n].rank

----------------------------------------------------------------------------
(* Steps.                                                                   *)

\* A disturbance that the grid did not bring about.
Disturb(kind) ==
  /\ kind \in Troubles \ had /\ Cardinality(had) < MaxTroubles
  /\ had' = had \cup {kind}

\* A handshake in which n joins the router m has run to its end.
LinkUp(n, m) ==
  /\ Pair(n, m) \in inRange
  /\ m \notin node[n].linked /\ n \notin node[m].linked
  /\ Useful(n, node[m].rank, n > m)
  /\ node' = [node EXCEPT ![n] = Establish(n, m, node[m].rank),
                          ![m] = Establish(m, n, node[m].rank)]
  /\ UNCHANGED <<inRange, had>>

Live(n, m) == m \in node[n].linked /\ n \in node[m].linked /\ Pair(n, m) \in inRange

\* An event of the link in which both frames arrive.
Exchange(n, m) ==
  /\ Live(n, m)
  /\ node' = [node EXCEPT ![n] = AfterEvent(n, m, node[m].staged[n]),
                          ![m] = AfterEvent(m, n, node[n].staged[m])]
  /\ UNCHANGED <<inRange, had>>

\* The first frame is lost and so nobody replies, or the reply is lost and
\* only the responder m has received anything.
ExchangeLost(n, m) ==
  /\ Live(n, m)
  /\ Disturb("loss")
  /\ \E r \in {NoAdv, node[n].staged[m]} :
       node' = [node EXCEPT ![n] = AfterEvent(n, m, NoAdv), ![m] = AfterEvent(m, n, r)]
  /\ UNCHANGED inRange

\* Two nodes go out of range of each other.
Cut(p) ==
  /\ Disturb("cut")
  /\ inRange' = inRange \ {p}
  /\ UNCHANGED node

\* The supervision timeout of n for a link on which nothing is heard.
Supervise(n, m) ==
  /\ m \in node[n].linked /\ ~Live(n, m)
  /\ node' = [node EXCEPT ![n] = Dropped(n, m)]
  /\ UNCHANGED <<inRange, had>>

\* Slip: the rank is set before lg_route_recompute compares with it.
LostUplink(n) == Recompute(n, [node[n] EXCEPT !.backhaul = FALSE, !.rank = Infinite])

\* apply, for a node that stops being a backhaul
StopsBeingSink(n) == Recompute(n, [node[n] EXCEPT !.backhaul = FALSE])

\* lg_backhaul_set(false)
UplinkDown(n) ==
  /\ node[n].backhaul
  /\ Disturb("down")
  /\ node' = [node EXCEPT ![n] = StopsBeingSink(n)]
  /\ UNCHANGED inRange

\* lg_backhaul_set(true)
UplinkUp(n) ==
  /\ ~node[n].backhaul
  /\ Disturb("up")
  /\ node' = [node EXCEPT ![n] = Recompute(n, [@ EXCEPT !.backhaul = TRUE])]
  /\ UNCHANGED inRange

Next ==
  \/ \E n, m \in Nodes : LinkUp(n, m)
  \/ \E n, m \in Nodes : Exchange(n, m)
  \/ \E n, m \in Nodes : ExchangeLost(n, m)
  \/ \E p \in inRange : Cut(p)
  \/ \E n, m \in Nodes : Supervise(n, m)
  \/ \E n \in Nodes : UplinkDown(n)
  \/ \E n \in Nodes : UplinkUp(n)

Spec == Init /\ [][Next]_vars

\* Links have events at every interval, and a silent one times out.
Fairness ==
  /\ \A n, m \in Nodes : n < m => WF_vars(Exchange(n, m))
  /\ \A n, m \in Nodes : WF_vars(Supervise(n, m))

FairSpec == Spec /\ Fairness

----------------------------------------------------------------------------
(* Properties.                                                              *)

NodeRecords ==
  [backhaul : BOOLEAN, rank : Ranks, linked : SUBSET Nodes,
   parents : SUBSET Nodes, heard : [Nodes -> Ranks], urgent : BOOLEAN,
   told : SUBSET Nodes, staged : [Nodes -> Ranks \cup {NoAdv}],
   age : [Nodes -> 0 .. AdvPeriod]]

\* Every variable holds a value of its kind, and parents are neighbours that
\* a node has a link to (rank_through).
TypeOK ==
  /\ node \in [Nodes -> NodeRecords]
  /\ \A n \in Nodes : node[n].parents \subseteq node[n].linked
  /\ inRange \subseteq Pairs
  /\ had \subseteq Troubles

\* The cost of the cheapest path of at most k links to a backhaul.
PathCost[k \in 0 .. Cardinality(Nodes)] ==
  [n \in Nodes |->
     IF node[n].backhaul THEN 0
     ELSE IF k = 0 THEN Infinite
     ELSE LET costs == {PathCost[k - 1][m] + Cost[n][m] : m \in {o \in Nodes : Live(n, o)}}
              least == {c \in costs : c < Infinite /\ \A d \in costs : c <= d}
          IN IF least = {} THEN Infinite ELSE CHOOSE c \in least : TRUE]

Distance(n) == PathCost[Cardinality(Nodes)][n]

\* What hysteresis may add along a path.
Slack == Hysteresis * (Cardinality(Nodes) - 1)

\* The rank n has is the cost of a path that n really has, or more.
NotTooLow(n) == node[n].rank < Infinite => Distance(n) <= node[n].rank

\* It is hardly more than the best path costs, and infinite only if that
\* path, with what hysteresis may add, reaches the ceiling.
NotTooHigh(n) ==
  IF node[n].rank < Infinite THEN node[n].rank <= Distance(n) + Slack
  ELSE Distance(n) + Slack >= MaxRank

\* No link is about to be dropped and no node has anything to tell.
Quiet ==
  \A n \in Nodes :
    /\ \A m \in node[n].linked : Live(n, m) /\ node[n].staged[m] = NoAdv
    /\ node[n].urgent => node[n].linked \subseteq node[n].told

\* When nothing more is on its way every rank is true: a grid does not come
\* to rest while a node believes in a sink that is gone, or before all
\* neighbours have been told of a change (lg_route_recompute sets the flag
\* for every one, lg_link_stage_tx clears it after the last).  A lost
\* advertisement is not repeated, and a rank that falls to zero when an uplink
\* comes up is not pushed.
QuietIsTrue ==
  Quiet /\ "loss" \notin had =>
    \A n \in Nodes : NotTooLow(n) /\ ("up" \notin had => NotTooHigh(n))

\* When uplinks and links stop changing the grid comes to rest: no two nodes
\* keep each other's ranks climbing (LOCKGRID_MAX_RANK), or telling each other
\* what they know.
ComesToRest == <>[]Quiet

NoSink == \A n \in Nodes : ~node[n].backhaul

\* A grid that loses its last sink learns it, if no advertisement is lost: the
\* ranks of nodes that route through each other climb to the ceiling and become
\* infinite.
SinkLossNoticed ==
  NoSink ~> \/ \A n \in Nodes : node[n].rank = Infinite
            \/ ~NoSink \/ "loss" \in had

\* Where a message that goes up is after k hops from n.
UpFrom(n) ==
  LET up[k \in 0 .. Cardinality(Nodes)] ==
        IF k = 0 THEN {n}
        ELSE UNION {ForwardsTo(m, node[m]) : m \in up[k - 1]}
  IN up

\* In a quiet grid traffic to the backhaul does not come back to a node it
\* has left.  The rule of lg_route.c:19-21 and the test of lg_route_recompute
\* are meant to ensure it.
NoForwardingLoop ==
  Quiet => \A n \in Nodes : \A k \in 1 .. Cardinality(Nodes) : n \notin UpFrom(n)[k]
=============================================================================
