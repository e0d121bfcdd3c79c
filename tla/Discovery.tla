----------------------------- MODULE Discovery -----------------------------
(***************************************************************************)
(* How a grid forms: beacons and the join windows they offer (lg_disc.c),  *)
(* the role each node elects (lg_role.c), and the links that follow        *)
(* (lg_join.c and lg_link.c, which Handshake has in detail).               *)
(*                                                                         *)
(* A beacon is staged when the one before has been settled, so it says     *)
(* what its sender was one interval earlier.  A beacon event, its          *)
(* reception by whoever listens and the settling that stages the next are  *)
(* one step; an event that is suppressed, refused or late is one that      *)
(* nobody hears.  Timers run without clocks: what is recent may stop being *)
(* recent at any moment, and whether a window is due is a choice.  Ranks   *)
(* are taken to be the distances to a backhaul over the links there are;   *)
(* how they get there is Route.                                            *)
(***************************************************************************)
EXTENDS Integers, FiniteSets

CONSTANTS
  Nodes,        \* the addresses of the nodes
  InRange,      \* the pairs of nodes that can hear each other
  Capable,      \* the nodes that have an uplink
  LinksTarget,  \* LOCKGRID_MIN_LINKS_TARGET
  MaxLinks,     \* LOCKGRID_MAX_LINKS
  Density,      \* LOCKGRID_ROUTER_DENSITY_TARGET
  Margin,       \* how much better a further router has to be to be joined
  MaxTroubles   \* bound: links lost, keys spoiled and uplinks gone

ASSUME DiscoveryAssumption ==
  /\ Nodes \subseteq Nat \ {0} /\ IsFiniteSet(Nodes)
  /\ InRange \subseteq {{n, m} : n, m \in Nodes} \ {{n} : n \in Nodes}
  /\ Capable \subseteq Nodes
  /\ LinksTarget \in Nat /\ MaxLinks \in Nat /\ Density \in Nat /\ Margin \in Nat
  /\ MaxTroubles \in Nat

VARIABLES
  rank,      \* the distance of each node from a backhaul
  node,      \* each node's role, timers, staged beacon, table and handshake
  links,     \* the pairs that are linked
  spoiled,   \* <<n, m>>: n has a long term key for m, so it tries to resume
  troubles   \* how many there have been

vars == <<rank, node, links, spoiled, troubles>>

Infinite == Cardinality(Nodes)
Roles == {"LEAF", "ROUTER", "BACKHAUL"}
Hearers(n) == {m \in Nodes : {n, m} \in InRange}

\* The distance of every node from sinks over the links ls.
Distances(sinks, ls) ==
  LET within[k \in 0 .. Infinite] ==
        IF k = 0 THEN sinks
        ELSE within[k - 1] \cup {n \in Nodes : \E m \in within[k - 1] : {n, m} \in ls}
  IN  [n \in Nodes |-> Cardinality({k \in 0 .. (Infinite - 1) : n \notin within[k]})]

Backhauls == {n \in Nodes : node[n].role = "BACKHAUL"}
Routed(n) == rank[n] # Infinite
Linked(n, m) == {n, m} \in links
LinkCount(n, ls) == Cardinality({l \in ls : n \in l})

-----------------------------------------------------------------------------
(* What one node does.  A node is a record v; r is its rank.               *)

NoJoin == 0

\* Whether the neighbour table has an entry, and whether that counts as a router
\* with a route.
Classes == {"ABSENT", "OTHER", "ROUTER"}
Class(role, r) == IF role = "LEAF" \/ r = Infinite THEN "OTHER" ELSE "ROUTER"

RoutersHeard(v) == Cardinality({m \in Nodes : v.table[m] = "ROUTER"})

\* Slip: only routers advertise.
RoutersBeacon(v, r) == v.role # "LEAF"

\* A leaf with a route has no reason to advertise.
ShouldBeacon(v, r) == v.role # "LEAF" \/ r = Infinite

Retuned(v, r) == [v EXCEPT !.armed = ShouldBeacon(v, r)]

\* A node takes a role: rank apart, what changes is whether it beacons.
Applied(v, role, r) ==
  IF role = v.role THEN v ELSE Retuned([v EXCEPT !.role = role], r)

\* What holds a node to its role while it is reviewed: the last change is too
\* recent, or a route through it is registered, which lags behind the links
\* either way.
Holds == {"dwell", "children", "nothing"}

\* Slip: the thresholds for taking and for giving back the role meet.
EvaluatedAtTarget(v, r, held) ==
  CASE v.role = "LEAF" /\ held # "dwell" /\ r # Infinite
         /\ (v.unrouted \/ RoutersHeard(v) <= Density) -> Applied(v, "ROUTER", r)
    [] v.role = "ROUTER" /\ held = "nothing"
         /\ ~v.unrouted /\ RoutersHeard(v) >= Density -> Applied(v, "LEAF", r)
    [] OTHER -> v

\* lg_role_evaluate, the uplink apart.
Evaluated(v, r, held) ==
  CASE v.role = "LEAF" /\ held # "dwell" /\ r # Infinite
         /\ (v.unrouted \/ RoutersHeard(v) < Density) -> Applied(v, "ROUTER", r)
    [] v.role = "ROUTER" /\ held = "nothing"
         /\ ~v.unrouted /\ RoutersHeard(v) > Density -> Applied(v, "LEAF", r)
    [] OTHER -> v

\* beacon_stage: what a node says of itself, in the beacon its next event sends.
Said(v, r, count) == [role |-> v.role, rank |-> r, full |-> count >= MaxLinks]
Staged(v, r, count) == [v EXCEPT !.staged = Said(v, r, count)]

\* n has an entry in the neighbour table; the handshake is over.
Noted(v, n, class) == [v EXCEPT !.table[n] = class]
Idle(v) == [v EXCEPT !.hs = NoJoin]

\* A link has come or gone.
LinkChanged(v, r, held) == Retuned(Evaluated(v, r, held), r)

-----------------------------------------------------------------------------
Started(n) ==
  LET role == IF n \in Capable THEN "BACKHAUL" ELSE "LEAF"
  IN  [role |-> role, unrouted |-> FALSE, armed |-> TRUE,
       staged |-> [role |-> role, rank |-> IF n \in Capable THEN 0 ELSE Infinite,
                   full |-> MaxLinks = 0],
       table |-> [m \in Nodes |-> "ABSENT"], hs |-> NoJoin]

\* Every node is started with its uplink, if it has one, up.
Init ==
  /\ node = [n \in Nodes |-> Started(n)]
  /\ links = {}
  /\ rank = Distances(Capable, {})
  /\ spoiled = {}
  /\ troubles = 0

-----------------------------------------------------------------------------
(* Beacons. *)

\* Slip: any neighbour is an improvement on nothing.
UsefulToLost(m, v, n, b) ==
  /\ b.role # "LEAF" /\ ~b.full
  /\ v.role # "BACKHAUL"
  /\ \/ ~Routed(m)
     \/ /\ LinkCount(m, links) < LinksTarget
        /\ b.rank < rank[m] \/ (b.rank = rank[m] /\ m > n)
     \/ LinkCount(m, links) >= LinksTarget /\ b.rank + Margin < rank[m]

\* candidate_is_useful: whether m, now v, would link to n, which says b.
Useful(m, v, n, b) ==
  /\ b.role # "LEAF" /\ ~b.full
  /\ b.rank # Infinite
  /\ v.role # "BACKHAUL"
  /\ \/ ~Routed(m)
     \/ /\ LinkCount(m, links) < LinksTarget
        /\ b.rank < rank[m] \/ (b.rank = rank[m] /\ m > n)
     \/ LinkCount(m, links) >= LinksTarget /\ b.rank + Margin < rank[m]

\* What m makes of n's beacon: a beacon without a route may make it a router,
\* and one that offers a window may start a handshake.  ready is FALSE while m
\* backs off from n.
BeaconRx(m, n, offer, ready, held) ==
  LET b == node[n].staged
      v == IF b.rank = Infinite
             THEN Evaluated([node[m] EXCEPT !.unrouted = TRUE], rank[m], held)
             ELSE node[m]
      useful == Useful(m, v, n, b)
      known == IF v.table[n] # "ABSENT" \/ useful
                 THEN Noted(v, n, Class(b.role, b.rank)) ELSE v
  IN  IF /\ useful /\ offer /\ ready
         /\ ~Linked(m, n) /\ v.hs = NoJoin
        THEN [known EXCEPT !.hs = n]
        ELSE known

\* n's beacon event: heard by those in H; it is settled by staging the next and
\* by reviewing the role.  Whether the beacon offers a window was decided when
\* it was staged: it had to have room, and the rest depends on what had been
\* heard and when, which only shows now.
Beacon(n, H, offer, ready, held) ==
  /\ node[n].armed /\ ShouldBeacon(node[n], rank[n])
  /\ offer => ~node[n].staged.full
  /\ node' = [m \in Nodes |->
       CASE m = n -> Evaluated(Staged(node[n], rank[n], LinkCount(n, links)), rank[n], held)
         [] m \in H -> BeaconRx(m, n, offer, ready, held)
         [] OTHER -> node[m]]
  /\ UNCHANGED <<rank, links, spoiled, troubles>>

\* The end of a scan is when a role is reviewed, whether or not beacons flow.
Scan(n) ==
  /\ \E held \in Holds : node' = [node EXCEPT ![n] = Evaluated(@, rank[n], held)]
  /\ UNCHANGED <<rank, links, spoiled, troubles>>

-----------------------------------------------------------------------------
(* Handshakes and links. *)

\* The links are ls and the backhauls sinks from now on; the nodes of changed
\* notice at once.
Relink(ls, sinks, changed, upd) ==
  LET r == Distances(sinks, ls)
  IN  /\ links' = ls
      /\ rank' = r
      /\ \E held \in [changed -> Holds] :
           node' = [n \in Nodes |-> IF n \in changed THEN LinkChanged(upd[n], r[n], held[n])
                                    ELSE upd[n]]

\* Slip: the handshake's context is not cleared.
JoinedStillBusy(m) ==
  LET n == node[m].hs
  IN  /\ node[m].hs # NoJoin
      /\ node[n].hs = NoJoin
      /\ LinkCount(n, links) < MaxLinks
      /\ <<m, n>> \notin spoiled
      /\ Relink(links \cup {{m, n}}, Backhauls, {m, n}, node)
      /\ UNCHANGED <<spoiled, troubles>>

\* m's handshake with n succeeds.  Both record the parameters that n filled
\* in, so n records itself in m's entry.
Joined(m) ==
  LET n == node[m].hs
      class == Class(node[n].role, rank[n])
  IN  /\ node[m].hs # NoJoin
      /\ node[n].hs = NoJoin
      /\ LinkCount(n, links) < MaxLinks
      /\ <<m, n>> \notin spoiled
      /\ Relink(links \cup {{m, n}}, Backhauls, {m, n},
                [node EXCEPT ![m] = Noted(Idle(@), n, class), ![n] = Noted(@, m, class)])
      /\ UNCHANGED <<spoiled, troubles>>

\* m's handshake with n fails, perhaps after m has derived keys, and perhaps
\* after n has given m a place in its table.
JoinFails(m) ==
  LET n == node[m].hs
  IN  /\ node[m].hs # NoJoin
      /\ \E noticed \in BOOLEAN :
           node' = [node EXCEPT ![m] = Idle(@),
                      ![n] = IF noticed /\ @.table[m] = "ABSENT" THEN Noted(@, m, "OTHER")
                             ELSE @]
      /\ \/ UNCHANGED <<spoiled, troubles>>
         \/ /\ <<m, n>> \notin spoiled /\ troubles < MaxTroubles
            /\ spoiled' = spoiled \cup {<<m, n>>}
            /\ troubles' = troubles + 1
      /\ UNCHANGED <<rank, links>>

\* A link is lost, and both ends keep its key for resuming it.
LinkLost(l) ==
  /\ l \in links /\ troubles < MaxTroubles
  /\ Relink(links \ {l}, Backhauls, l, node)
  /\ spoiled' = spoiled \cup {<<n, m>> : n, m \in l}
  /\ troubles' = troubles + 1

\* A route advertisement tells m of n's role and rank.
Advertise(n, m) ==
  /\ Linked(n, m)
  /\ node' = [node EXCEPT ![m] = Noted(@, n, Class(node[n].role, rank[n]))]
  /\ UNCHANGED <<rank, links, spoiled, troubles>>

\* n's uplink goes, or comes back: the role follows without delay.
UplinkDown(n) ==
  /\ node[n].role = "BACKHAUL" /\ troubles < MaxTroubles
  /\ LET r == Distances(Backhauls \ {n}, links)
     IN  rank' = r /\ node' = [node EXCEPT ![n] = Applied(@, "ROUTER", r[n])]
  /\ troubles' = troubles + 1
  /\ UNCHANGED <<links, spoiled>>

UplinkUp(n) ==
  /\ n \in Capable /\ node[n].role # "BACKHAUL"
  /\ LET r == Distances(Backhauls \cup {n}, links)
     IN  rank' = r /\ node' = [node EXCEPT ![n] = Applied(@, "BACKHAUL", r[n])]
  /\ UNCHANGED <<links, spoiled, troubles>>

\* Time passes.
UnroutedForgotten(n) ==
  /\ node[n].unrouted
  /\ node' = [node EXCEPT ![n].unrouted = FALSE]
  /\ UNCHANGED <<rank, links, spoiled, troubles>>

Next ==
  \/ \E n \in Nodes :
       \/ \E H \in SUBSET Hearers(n), offer, ready \in BOOLEAN, held \in Holds :
            Beacon(n, H, offer, ready, held)
       \/ Scan(n) \/ Joined(n) \/ JoinFails(n)
       \/ UplinkDown(n) \/ UplinkUp(n)
       \/ UnroutedForgotten(n)
       \/ \E m \in Hearers(n) : Advertise(n, m)
  \/ \E l \in InRange : LinkLost(l)

Spec == Init /\ [][Next]_vars

-----------------------------------------------------------------------------
(* Fairness.  Periods are jittered and back-offs end, so neither suppression *)
(* nor refusals nor somebody else's handshake meets every beacon of a node;  *)
(* and a node with a route offers a window at least once in a while.         *)

Hears(n, m) ==
  /\ node[n].hs = NoJoin /\ node[m].hs = NoJoin
  /\ Beacon(n, {m}, ~node[n].staged.full, TRUE, "nothing")

Fairness ==
  /\ \A n \in Nodes : WF_vars(JoinFails(n)) /\ SF_vars(Joined(n))
  /\ \A n, m \in Nodes : {n, m} \in InRange => SF_vars(Hears(n, m))

FairSpec == Spec /\ Fairness

-----------------------------------------------------------------------------
(* Properties. *)

NodeType ==
  [role : Roles, unrouted : BOOLEAN, armed : BOOLEAN,
   staged : [role : Roles, rank : 0 .. Infinite, full : BOOLEAN],
   table : [Nodes -> Classes], hs : Nodes \cup {NoJoin}]

\* The types of the variables: only a node with an uplink is a backhaul, and a
\* handshake is with somebody in range and not linked.
TypeOK ==
  /\ rank = Distances(Backhauls, links)
  /\ node \in [Nodes -> NodeType]
  /\ links \subseteq InRange
  /\ spoiled \subseteq Nodes \X Nodes
  /\ troubles \in 0 .. MaxTroubles
  /\ Backhauls \subseteq Capable
  /\ \A n \in Nodes : node[n].hs # NoJoin => {n, node[n].hs} \in InRange \ links

\* Of two nodes that know what the other says of itself now, at most one is the
\* joiner ("makes the choice unambiguous from information both sides already
\* have", candidate_is_useful): there is one handshake context per node, so two
\* joiners would both fail.
InitiatorUnambiguous ==
  \A n, m \in Nodes :
    ~ /\ Useful(m, node[m], n, Said(node[n], rank[n], LinkCount(n, links)))
      /\ Useful(n, node[n], m, Said(node[m], rank[m], LinkCount(m, links)))

\* A leaf that has lost its route while its links stayed: lg_disc_retune has
\* not run since, so it does not ask for a parent.
Mute(n) == ~node[n].armed /\ ShouldBeacon(node[n], rank[n])

\* The nodes that links, or handshakes that still can succeed, connect to a
\* backhaul.
Reachable ==
  LET usable == links \cup {l \in InRange : \A n, m \in l : <<n, m>> \notin spoiled}
  IN  {n \in Nodes : Distances(Backhauls, usable)[n] # Infinite}

\* A grid forms: every node that can be reached from a backhaul has a route in
\* the end, leaves having become routers where that takes one, unless a leaf
\* is mute (should_beacon, lg_role_evaluate, beacon_stage).
GridForms == <>[]((\E n \in Nodes : Mute(n)) \/ \A n \in Reachable : Routed(n))

\* A node without an uplink that has no unrouted neighbour any more, and still
\* goes on changing its role, hears fewer routers than the target and more of
\* them, over and over: one router more or less does not rock it ("a node sitting
\* exactly at the boundary does not oscillate", lg_role_evaluate).  That roles
\* come to rest would be more than is so: nodes that count each other can change
\* together for ever.
RolesHold ==
  \A n \in Nodes \ Capable :
    <>[]~node[n].unrouted =>
      \/ <>[][node'[n].role = node[n].role]_vars
      \/ []<>(RoutersHeard(node[n]) < Density) /\ []<>(RoutersHeard(node[n]) > Density)
=============================================================================
