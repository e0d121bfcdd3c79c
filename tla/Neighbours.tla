----------------------------- MODULE Neighbours -----------------------------
(***************************************************************************)
(* One router's neighbour table (lg_neigh.c) and what hangs on it: the     *)
(* handshake under way (lg_join.c), the links, the rank that the node      *)
(* takes from its parents and the downward routes it has learned           *)
(* (lg_route.c).  Its peers are the environment: they beacon, ask to join, *)
(* advertise and fall silent at any time.  The steps of a handshake are    *)
(* in Handshake and ranks across a grid in Route; here a handshake starts  *)
(* and ends, and the table moves under it.  The node stays a router.       *)
(***************************************************************************)
EXTENDS Integers, FiniteSets, Sequences, Functions

CONSTANTS
  Peers,         \* the nodes it can hear
  Lower,         \* those of them with a lower address than its own
  CostOf,        \* what a peer's link is measured to cost
  Offers,        \* the ranks that peers advertise
  Lists,         \* the destinations that advertisements name
  None,          \* LG_ADDR_INVALID, and no slot
  MaxNeighbors,  \* LOCKGRID_MAX_NEIGHBORS
  MaxLinks,      \* LOCKGRID_MAX_LINKS
  MaxParents,    \* LOCKGRID_MAX_PARENTS
  MaxRoutes,     \* LOCKGRID_MAX_ROUTES
  LinksTarget,   \* LOCKGRID_MIN_LINKS_TARGET
  Margin,        \* how much better a further router has to be to be joined
  Hysteresis,    \* LG_RANK_HYSTERESIS
  Tolerable,     \* twice LG_ETX_ONE: a link that costs more may be displaced
  MaxRank        \* LOCKGRID_MAX_RANK: a path this expensive is no path

Infinite == MaxRank
Named == UNION {Range(list) : list \in Lists}

ASSUME NeighboursAssumption ==
  /\ None \notin Peers \cup (1 .. MaxNeighbors) /\ Lower \subseteq Peers
  /\ CostOf \in [Peers -> 1 .. MaxRank]
  /\ Offers \subseteq 0 .. Infinite /\ Lists \subseteq Seq(Named)
  /\ MaxNeighbors \in Nat \ {0} /\ MaxLinks \in Nat \ {0} /\ MaxParents \in Nat \ {0}
  /\ MaxRoutes \in Nat \ {0} /\ MaxRank \in Nat \ {0}
  /\ LinksTarget \in Nat /\ Margin \in Nat /\ Hysteresis \in Nat
  /\ Tolerable \in 0 .. MaxRank - 1

VARIABLES
  node,     \* the table, the rank, the routes and the handshake's place
  reopened  \* peers whose link a handshake has replaced and nothing taken down

vars == <<node, reopened>>

Slots == 1 .. MaxNeighbors

Free ==
  [state |-> "free", addr |-> None, cost |-> Infinite, heard |-> Infinite,
   parent |-> FALSE, ltk |-> FALSE]

\* What lg_neigh_alloc puts in a slot.  Of a peer's rank only that of a link
\* is kept: the node's own rank follows from no other.
Heard(p) == [Free EXCEPT !.state = "heard", !.addr = p]

\* A route that has expired is as good as none, and all live equally long:
\* the table is the sequence of its live routes, the oldest first.
Init ==
  /\ node = [neigh |-> [i \in Slots |-> Free], rank |-> Infinite, routes |-> <<>>,
             hs |-> [slot |-> None, joiner |-> FALSE]]
  /\ reopened = {}

----------------------------------------------------------------------------
(* The table, in the record s of a node.                                    *)

\* lg_neigh_find
SlotsOf(s, p) == {i \in Slots : s.neigh[i].addr = p}
SlotOf(s, p) == CHOOSE i \in Slots : s.neigh[i].addr = p

Linked(s) == {i \in Slots : s.neigh[i].state = "linked"}
First(S) == CHOOSE i \in S : \A j \in S : i <= j

\* lg_parent, as a set of at most one slot
Using(s) == {i \in Linked(s) : s.neigh[i].parent /\ \A j \in Linked(s) : s.neigh[j].parent => i <= j}

\* rank_through
Through(s, i) ==
  LET n == s.neigh[i]
  IN IF n.state = "linked" /\ n.heard # Infinite /\ n.heard + n.cost < MaxRank
     THEN n.heard + n.cost ELSE Infinite

\* The insertion sort keeps the table's order among equals.
Before(s, i, j) ==
  \/ Through(s, i) < Through(s, j)
  \/ Through(s, i) = Through(s, j) /\ i < j

\* The parents of lg_route_recompute; every cost is above 0, so that the test
\* of the neighbour's own rank passes.
Parents(s) ==
  LET candidates == {i \in Slots : Through(s, i) < Infinite}
  IN {i \in candidates : Cardinality({j \in candidates : Before(s, j, i)}) < MaxParents}

NewRank(s) ==
  IF Parents(s) = {} THEN Infinite
  ELSE LET best == CHOOSE i \in Parents(s) : \A j \in Parents(s) : ~Before(s, j, i)
           kept == {i \in Using(s) \cap Parents(s) : Through(s, i) <= Through(s, best) + Hysteresis}
       IN Through(s, IF kept = {} THEN best ELSE First(kept))

\* lg_route_recompute
Recomputed(s) ==
  [s EXCEPT !.rank = NewRank(s),
            !.neigh = [i \in Slots |-> [s.neigh[i] EXCEPT !.parent = i \in Parents(s)]]]

\* The routes that are not in S, in their order.
Without(routes, S) ==
  LET kept[k \in 0 .. Len(routes)] ==
        IF k = 0 THEN <<>>
        ELSE IF routes[k] \in S THEN kept[k - 1] ELSE Append(kept[k - 1], routes[k])
  IN kept[Len(routes)]

\* lg_route_flush_via
Flushed(s, p) == [s EXCEPT !.routes = Without(@, {r \in Range(@) : r.via = p})]

\* lg_link_down without what follows it: the neighbour is kept, with its key.
Unlinked(s, i) ==
  [s EXCEPT !.neigh[i] = [@ EXCEPT !.state = "lost", !.ltk = TRUE, !.parent = FALSE, !.heard = Infinite]]

\* Slip: the routes over the link are kept.
DownUnflushed(s, i) ==
  IF s.neigh[i].state = "linked" THEN Recomputed(Unlinked(s, i)) ELSE s

\* Slip: the rank is left as it was.
DownUnranked(s, i) ==
  IF s.neigh[i].state = "linked" THEN Flushed(Unlinked(s, i), s.neigh[i].addr) ELSE s

\* lg_link_down
Down(s, i) ==
  IF s.neigh[i].state = "linked"
  THEN Recomputed(Flushed(Unlinked(s, i), s.neigh[i].addr)) ELSE s

\* The first of the most expensive slots of S.
Worst(s, S) ==
  CHOOSE i \in S : \A j \in S \ {i} :
    s.neigh[j].cost < s.neigh[i].cost \/ (s.neigh[j].cost = s.neigh[i].cost /\ i < j)

\* Slip: a parent may go too.
DisplaceableAll(s) == {i \in Slots : s.neigh[i].cost > Tolerable}

\* When every slot is linked or joining: those make_room may take.
Displaceable(s) == {i \in Slots : ~s.neigh[i].parent /\ s.neigh[i].cost > Tolerable}

\* lg_neigh_make_room, as the set of its outcomes
Roomed(s) ==
  LET idle == {i \in Slots : s.neigh[i].state \in {"heard", "lost"}}
      freed(q, i) == [q EXCEPT !.neigh[i] = Free]
  IN IF SlotsOf(s, None) # {} THEN {s}
     ELSE IF idle # {} THEN {freed(s, Worst(s, idle))}
     ELSE {freed(Down(s, i), i) : i \in {j \in Displaceable(s) : j = Worst(s, Displaceable(s))}}

\* Slip: the table is not searched first.
PlacedTwice(s, p) ==
  {[q EXCEPT !.neigh[First(SlotsOf(q, None))] = Heard(p)] : q \in Roomed(s)}

\* The node once p has a slot, if it can have one: lg_neigh_alloc, after
\* lg_neigh_make_room if the table is full.
Placed(s, p) ==
  IF SlotsOf(s, p) # {} THEN {s}
  ELSE {[q EXCEPT !.neigh[First(SlotsOf(q, None))] = Heard(p)] : q \in Roomed(s)}

----------------------------------------------------------------------------
(* Handshakes.                                                              *)

\* candidate_is_useful, for a router that has room
Useful(s, p, r) ==
  /\ r # Infinite
  /\ \/ s.rank = Infinite
     \/ /\ Cardinality(Linked(s)) < LinksTarget
        /\ r < s.rank \/ (r = s.rank /\ p \in Lower)
     \/ Cardinality(Linked(s)) >= LinksTarget /\ r + Margin < s.rank

\* The handshake slot i is given, with the node as joiner or as router.
Opened(s, i, joiner) ==
  [s EXCEPT !.hs = [slot |-> i, joiner |-> joiner],
            !.neigh[i] = [@ EXCEPT !.state = "joining", !.heard = Infinite]]

\* Slip: a handshake with another neighbour is forgotten.
JoinStartsOver(s, i) == {s, Opened(s, i, TRUE)}

\* The outcomes of lg_join_start.  After failures it refuses until a backoff
\* has been served, which is a matter of time.
JoinStart(s, i) == IF s.hs.slot \in {None, i} THEN {s, Opened(s, i, TRUE)} ELSE {s}

\* lg_disc_beacon_rx: p announces its rank, and perhaps a join window.
Beacon(p, r, window) ==
  /\ \E s \in IF SlotsOf(node, p) = {} /\ ~Useful(node, p, r) THEN {} ELSE Placed(node, p) :
       LET i == SlotOf(s, p)
           q == [s EXCEPT !.neigh[i].cost = CostOf[p],
                          !.neigh[i].heard = IF i \in Linked(s) THEN r ELSE @]
       IN node' \in IF q.neigh[i].state \in {"linked", "joining"} \/ ~Useful(q, p, r) \/ ~window
                    THEN {q} ELSE JoinStart(q, i)
  /\ UNCHANGED reopened

\* join_fail, for the neighbour in slot i
Failed(s, i) ==
  [s EXCEPT !.hs = [slot |-> None, joiner |-> FALSE],
            !.neigh[i] = [@ EXCEPT !.state = IF s.neigh[i].ltk THEN "lost" ELSE "heard"]]

\* Whether a join request is taken up.
HasRoom(s) == Cardinality(Linked(s)) < MaxLinks

\* lg_join_rx_pdu, for the request that opens a handshake.  The node takes it
\* up even if it still holds a link to p; a resumption without a long term
\* key fails at once.
Request(p, resume) ==
  /\ node.hs.slot = None
  /\ \E s \in Placed(node, p) :
       LET i == SlotOf(s, p)
           q == Opened(s, i, FALSE)
       IN IF HasRoom(s)
          THEN /\ node' = IF resume /\ ~s.neigh[i].ltk THEN Failed(q, i) ELSE q
               /\ reopened' = IF s.neigh[i].state = "linked" THEN reopened \cup {p} ELSE reopened
          ELSE /\ node' = s
               /\ UNCHANGED reopened

\* The handshake ends without a link: a message is rejected, too many slots
\* bring nothing, or the deadline passes (join_fail).
JoinFails ==
  /\ node.hs.slot # None
  /\ node.neigh[node.hs.slot].state = "joining"
  /\ node' = Failed(node, node.hs.slot)
  /\ UNCHANGED reopened

\* The slot has been taken from the handshake.  lg_join_event_finish forgets it
\* if an event of the handshake is running or planned.  If not, none is planned
\* any more (lg_join_next_us) and no window is opened (lg_join_win_next_us): the
\* handshake stays until the slot's new owner becomes its neighbour or is
\* rejected (join_fail), so that this step need never be taken.
JoinAbandoned ==
  /\ node.hs.slot # None
  /\ node.neigh[node.hs.slot].state # "joining"
  /\ node' = [node EXCEPT !.hs = [slot |-> None, joiner |-> FALSE]]
  /\ UNCHANGED reopened

\* lg_link_establish, with rank r in the link parameters.  The router fills
\* them in and keeps its own rank as its peer's; the joiner has the router's.
Joins(r) ==
  LET i == node.hs.slot
      s == [node EXCEPT !.hs = [slot |-> None, joiner |-> FALSE],
              !.neigh[i] = [@ EXCEPT !.state = "linked", !.cost = CostOf[node.neigh[i].addr],
                              !.heard = IF node.hs.joiner THEN r ELSE node.rank]]
  IN /\ i # None
     /\ node.neigh[i].state = "joining"
     /\ node' = Recomputed(s)
     /\ UNCHANGED reopened

----------------------------------------------------------------------------
(* Links and routes.                                                        *)

\* lg_route_add, for destinations other than the node itself: a longer way to
\* one only keeps the shorter alive, and a full table gives up the route that
\* would have expired first.
WithRoute(routes, r) ==
  LET known == {k \in DOMAIN routes : routes[k].dst = r.dst}
      others == Without(routes, {routes[k] : k \in known})
      shorter == {k \in known : routes[k].hops < r.hops}
  IN IF shorter # {} THEN Append(others, routes[First(shorter)])
     ELSE IF known = {} /\ Len(routes) = MaxRoutes THEN Append(Tail(routes), r)
     ELSE Append(others, r)

WithRoutes(routes, list, p, hops) ==
  LET added[k \in 0 .. Len(list)] ==
        IF k = 0 THEN routes
        ELSE WithRoute(added[k - 1], [dst |-> list[k], via |-> p, hops |-> hops])
  IN added[Len(list)]

\* lg_route_handle_adv: p advertises its rank and whom it is linked to.
Advertised(p, r, list) ==
  /\ \E i \in SlotsOf(node, p) \cap Linked(node) :
       LET below == r > node.rank /\ node.rank # Infinite
           s == [node EXCEPT !.neigh[i].heard = r,
                             !.routes = IF below THEN WithRoutes(@, list, p, 2) ELSE @]
       IN node' = Recomputed(s)
  /\ UNCHANGED reopened

\* lg_route_handle_reg: p registers destinations below it.
Registered(p, list) ==
  /\ SlotsOf(node, p) \cap Linked(node) # {}
  /\ node' = [node EXCEPT !.routes = WithRoutes(@, list, p, 1)]
  /\ UNCHANGED reopened

\* The link to p times out, or p tears it down.
LinkLost(p) ==
  /\ \E i \in SlotsOf(node, p) \cap Linked(node) : node' = Down(node, i)
  /\ reopened' = reopened \ {p}

\* What lg_route_next_hop does to the table when a message for d comes by:
\* a route over a neighbour that is not linked is dropped.
Lookup(d) ==
  /\ SlotsOf(node, d) \cap Linked(node) = {}
  /\ \E k \in DOMAIN node.routes :
       /\ node.routes[k].dst = d
       /\ SlotsOf(node, node.routes[k].via) \cap Linked(node) = {}
       /\ node' = [node EXCEPT !.routes = Without(@, {@[k]})]
  /\ UNCHANGED reopened

\* LG_ROUTE_LIFETIME_US has passed since a route was last refreshed.
Expires ==
  /\ node.routes # <<>>
  /\ node' = [node EXCEPT !.routes = Tail(@)]
  /\ UNCHANGED reopened

Next ==
  \/ \E p \in Peers, r \in Offers, window \in BOOLEAN : Beacon(p, r, window)
  \/ \E p \in Peers, resume \in BOOLEAN : Request(p, resume)
  \/ JoinFails \/ JoinAbandoned \/ Expires
  \/ \E r \in Offers : Joins(r)
  \/ \E p \in Peers, r \in Offers, list \in Lists : Advertised(p, r, list)
  \/ \E p \in Peers, list \in Lists : Registered(p, list)
  \/ \E p \in Peers : LinkLost(p)
  \/ \E d \in {node.routes[k].dst : k \in DOMAIN node.routes} : Lookup(d)

Spec == Init /\ [][Next]_vars

----------------------------------------------------------------------------
(* Properties.                                                              *)

\* Every field holds a value of its kind; no address has two slots, no
\* destination two routes, and the routes fit their table.
TypeOK ==
  /\ node.neigh \in
       [Slots -> [state : {"free", "heard", "joining", "linked", "lost"},
                  addr : Peers \cup {None}, cost : 1 .. Infinite, heard : 0 .. Infinite,
                  parent : BOOLEAN, ltk : BOOLEAN]]
  /\ \A i, j \in Slots : node.neigh[i].addr = node.neigh[j].addr => i = j \/ node.neigh[i].addr = None
  /\ node.rank \in 1 .. Infinite
  /\ node.hs \in [slot : Slots \cup {None}, joiner : BOOLEAN]
  /\ Len(node.routes) <= MaxRoutes
  /\ \A k, l \in DOMAIN node.routes : node.routes[k].dst = node.routes[l].dst => k = l
  /\ reopened \subseteq Peers

\* A neighbour that is joining is the one the handshake is with.  Any other
\* would stay so for ever: its beacons are only noted (lg_disc_beacon_rx) and
\* nothing times it out.
JoiningIsDriven ==
  \A i \in Slots : node.neigh[i].state = "joining" => node.hs.slot = i

\* A node that has a rank has a linked parent to send to (lg_has_route,
\* lg_parent), and its routes are over linked neighbours (lg_route_flush_via),
\* unless a join request has taken over a link: that takes nothing down.
RankHasParent ==
  reopened = {} /\ node.rank # Infinite => Using(node) # {}

RoutesFollowLinks ==
  \A k \in DOMAIN node.routes :
    LET via == node.routes[k].via
    IN via \in reopened \/ SlotsOf(node, via) \cap Linked(node) # {}

\* No single step makes the node forget the neighbour it sends to
\* (lg_neigh_make_room): a better one heard, or another's request, does not
\* cost the uplink.
UplinkStays ==
  [][\A i \in Using(node) : node'.neigh[i].addr = node.neigh[i].addr]_vars
=============================================================================
