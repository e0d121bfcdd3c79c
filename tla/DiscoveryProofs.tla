-------------------------- MODULE DiscoveryProofs --------------------------
(***************************************************************************)
(* Proofs about Discovery for any set of nodes, whoever is in range of     *)
(* whom: its type invariant, which says among other things that a          *)
(* handshake is never with somebody already linked, that at most one of    *)
(* two nodes is the joiner, and what a node that goes on changing its role *)
(* must hear.                                                              *)
(***************************************************************************)
EXTENDS Discovery, FiniteSetTheorems, TLAPS

\* There is a number of nodes, and it is the rank of a node without a route
\* (LG_RANK_INFINITE).
LEMMA InfiniteType == Infinite \in Nat
  BY DiscoveryAssumption, FS_CardinalityType DEF Infinite

\* A distance is at most that.
LEMMA DistancesType ==
  ASSUME NEW sinks, NEW ls
  PROVE  Distances(sinks, ls) \in [Nodes -> 0 .. Infinite]
<1> DEFINE within[k \in 0 .. Infinite] ==
             IF k = 0 THEN sinks
             ELSE within[k - 1] \cup {n \in Nodes : \E m \in within[k - 1] : {n, m} \in ls}
           Outside(n) == {k \in 0 .. (Infinite - 1) : n \notin within[k]}
<1>1. ASSUME NEW n \in Nodes PROVE Cardinality(Outside(n)) \in 0 .. Infinite
  <2> HIDE DEF within
  <2>1. Outside(n) \subseteq 0 .. (Infinite - 1)
    OBVIOUS
  <2>2. /\ IsFiniteSet(0 .. (Infinite - 1))
        /\ Cardinality(0 .. (Infinite - 1)) = Infinite
    BY InfiniteType, FS_Interval
  <2>3. /\ IsFiniteSet(Outside(n))
        /\ Cardinality(Outside(n)) <= Infinite
    BY <2>1, <2>2, FS_Subset
  <2>4. Cardinality(Outside(n)) \in Nat
    BY <2>3, FS_CardinalityType
  <2> QED
    BY <2>3, <2>4, InfiniteType
<1>2. Distances(sinks, ls) = [n \in Nodes |-> Cardinality(Outside(n))]
  BY DEF Distances
<1> HIDE DEF Outside
<1> QED
  BY <1>1, <1>2

\* Reviews, beacons and what is heard keep the fields of a node in their sets
\* (apply, lg_role_evaluate, lg_disc_beacon_rx), and none of them makes or
\* unmakes a backhaul ("a fact about the uplink").
LEMMA AppliedType ==
  ASSUME NEW v \in NodeType, NEW role \in Roles, NEW r
  PROVE  /\ Applied(v, role, r) \in NodeType
         /\ Applied(v, role, r).role = role
         /\ Applied(v, role, r).hs = v.hs
  BY DEF Applied, Retuned, ShouldBeacon, NodeType

LEMMA EvaluatedType ==
  ASSUME NEW v \in NodeType, NEW r, NEW held
  PROVE  /\ Evaluated(v, r, held) \in NodeType
         /\ Evaluated(v, r, held).role = "BACKHAUL" <=> v.role = "BACKHAUL"
         /\ Evaluated(v, r, held).hs = v.hs
<1>1. /\ "ROUTER" \in Roles /\ "LEAF" \in Roles
      /\ "ROUTER" # "BACKHAUL" /\ "LEAF" # "BACKHAUL" /\ "LEAF" # "ROUTER"
  BY DEF Roles
<1>2. Evaluated(v, r, held) \in {v, Applied(v, "ROUTER", r), Applied(v, "LEAF", r)}
  BY DEF Evaluated
<1>3. Evaluated(v, r, held) # v => v.role # "BACKHAUL"
  BY <1>1 DEF Evaluated
<1> QED
  BY <1>1, <1>2, <1>3, AppliedType

LEMMA LinkChangedType ==
  ASSUME NEW v \in NodeType, NEW r, NEW held
  PROVE  /\ LinkChanged(v, r, held) \in NodeType
         /\ LinkChanged(v, r, held).role = "BACKHAUL" <=> v.role = "BACKHAUL"
         /\ LinkChanged(v, r, held).hs = v.hs
<1> DEFINE w == Evaluated(v, r, held)
<1>1. /\ w \in NodeType /\ w.hs = v.hs
      /\ w.role = "BACKHAUL" <=> v.role = "BACKHAUL"
  BY EvaluatedType
<1>2. ShouldBeacon(w, r) \in BOOLEAN
  BY DEF ShouldBeacon
<1>3. LinkChanged(v, r, held) = [w EXCEPT !.armed = ShouldBeacon(w, r)]
  BY DEF LinkChanged, Retuned
<1> HIDE DEF w
<1> QED
  BY <1>1, <1>2, <1>3 DEF NodeType

\* What a node says has a rank and a role in their sets (beacon_stage).
LEMMA SaidType ==
  ASSUME NEW v \in NodeType, NEW r \in 0 .. Infinite, NEW count
  PROVE  Said(v, r, count) \in [role : Roles, rank : 0 .. Infinite, full : BOOLEAN]
<1>1. (count >= MaxLinks) \in BOOLEAN
  OBVIOUS
<1> DEFINE full == count >= MaxLinks
<1>2. full \in BOOLEAN /\ Said(v, r, count) = [role |-> v.role, rank |-> r, full |-> full]
  BY <1>1 DEF Said
<1> HIDE DEF full
<1>3. v.role \in Roles
  BY DEF NodeType
<1> QED
  BY <1>2, <1>3

LEMMA StagedType ==
  ASSUME NEW v \in NodeType, NEW r \in 0 .. Infinite, NEW count
  PROVE  /\ Staged(v, r, count) \in NodeType
         /\ Staged(v, r, count).role = v.role
         /\ Staged(v, r, count).hs = v.hs
<1>1. PICK s \in [role : Roles, rank : 0 .. Infinite, full : BOOLEAN] :
        Said(v, r, count) = s
  BY SaidType
<1>2. Staged(v, r, count) = [v EXCEPT !.staged = s]
  BY <1>1 DEF Staged
<1> QED
  BY <1>2 DEF NodeType

\* An entry, or the end of a handshake, changes nothing else.
LEMMA NotedType ==
  ASSUME NEW v \in NodeType, NEW n \in Nodes, NEW class \in Classes
  PROVE  /\ Noted(v, n, class) \in NodeType
         /\ Noted(v, n, class).role = v.role
         /\ Noted(v, n, class).hs = v.hs
  BY DEF Noted, NodeType

LEMMA IdleType ==
  ASSUME NEW v \in NodeType
  PROVE  /\ Idle(v) \in NodeType
         /\ Idle(v).role = v.role
         /\ Idle(v).hs = NoJoin
  BY DEF Idle, NodeType, NoJoin

\* A received beacon may start a handshake, with its sender and if they are not
\* linked.
LEMMA BeaconRxType ==
  ASSUME NEW m \in Nodes, NEW n \in Nodes,
         NEW offer \in BOOLEAN, NEW ready \in BOOLEAN, NEW held,
         node \in [Nodes -> NodeType]
  PROVE  /\ BeaconRx(m, n, offer, ready, held) \in NodeType
         /\ BeaconRx(m, n, offer, ready, held).role = "BACKHAUL" <=> node[m].role = "BACKHAUL"
         /\ BeaconRx(m, n, offer, ready, held).hs \in {node[m].hs, n}
         /\ Linked(m, n) => BeaconRx(m, n, offer, ready, held).hs = node[m].hs
<1> DEFINE b == node[n].staged
           v == IF b.rank = Infinite
                  THEN Evaluated([node[m] EXCEPT !.unrouted = TRUE], rank[m], held)
                  ELSE node[m]
           useful == Useful(m, v, n, b)
           known == IF v.table[n] # "ABSENT" \/ useful
                      THEN Noted(v, n, Class(b.role, b.rank)) ELSE v
           heard == [node[m] EXCEPT !.unrouted = TRUE]
<1>1. heard \in NodeType /\ heard.role = node[m].role /\ heard.hs = node[m].hs
  BY DEF NodeType
<1>2. /\ v \in NodeType /\ v.hs = node[m].hs
      /\ v.role = "BACKHAUL" <=> node[m].role = "BACKHAUL"
  <2> HIDE DEF heard
  <2>1. CASE b.rank = Infinite
    <3>1. v = Evaluated(heard, rank[m], held)
      BY <2>1 DEF heard
    <3> QED
      BY <1>1, <3>1, EvaluatedType
  <2>2. CASE b.rank # Infinite
    <3>1. v = node[m]
      BY <2>2
    <3> QED
      BY <3>1
  <2> QED
    BY <2>1, <2>2
<1>3. Class(b.role, b.rank) \in Classes
  BY DEF Class, Classes
<1>4. /\ known \in NodeType /\ known.hs = v.hs /\ known.role = v.role
  <2> DEFINE c == Class(b.role, b.rank)
  <2>1. c \in Classes
    BY <1>3
  <2>2. known \in {v, Noted(v, n, c)}
    OBVIOUS
  <2> HIDE DEF c, known, v
  <2> QED
    BY <1>2, <2>1, <2>2, NotedType
<1>5. \/ BeaconRx(m, n, offer, ready, held) = known
      \/ /\ ~Linked(m, n)
         /\ BeaconRx(m, n, offer, ready, held) = [known EXCEPT !.hs = n]
  BY DEF BeaconRx
<1> HIDE DEF known, v
<1> QED
  BY <1>2, <1>4, <1>5 DEF NodeType

\* A node's review, or any other change that is not of the uplink, leaves the
\* backhauls, and with them the ranks, as they are.
LEMMA SameBackhauls ==
  ASSUME node' \in [Nodes -> NodeType],
         \A n \in Nodes : node'[n].role = "BACKHAUL" <=> node[n].role = "BACKHAUL"
  PROVE  Backhauls' = Backhauls
  BY DEF Backhauls

\* A step in which each node keeps its handshake, or starts one with a node in
\* range that it has no link to, preserves the invariant if ranks and links stay.
LEMMA LocalStep ==
  ASSUME TypeOK, UNCHANGED <<rank, links>>,
         spoiled' \subseteq Nodes \X Nodes, troubles' \in 0 .. MaxTroubles,
         node' \in [Nodes -> NodeType],
         \A n \in Nodes :
           /\ node'[n].role = "BACKHAUL" <=> node[n].role = "BACKHAUL"
           /\ node'[n].hs \in {node[n].hs, NoJoin} \/ {n, node'[n].hs} \in InRange \ links
  PROVE  TypeOK'
<1>1. Backhauls' = Backhauls
  BY SameBackhauls
<1>2. rank' = Distances(Backhauls, links)'
  BY <1>1 DEF TypeOK, Distances
<1>3. \A n \in Nodes : node'[n].hs # NoJoin => {n, node'[n].hs} \in InRange \ links'
  BY DEF TypeOK
<1> QED
  BY <1>1, <1>2, <1>3 DEF TypeOK

\* Links that come or go with the ranks of the backhauls as they are, where upd
\* is what the handshake has left.
LEMMA RelinkStep ==
  ASSUME TypeOK, NEW ls \in SUBSET InRange, NEW changed, NEW upd \in [Nodes -> NodeType],
         Relink(ls, Backhauls, changed, upd),
         spoiled' \subseteq Nodes \X Nodes, troubles' \in 0 .. MaxTroubles,
         \A n \in Nodes : /\ upd[n].role = node[n].role
                          /\ upd[n].hs # NoJoin => {n, upd[n].hs} \in InRange \ ls
  PROVE  TypeOK'
<1>1. /\ links' = ls
      /\ rank' = Distances(Backhauls, ls)
  BY DEF Relink
<1>2. PICK held \in [changed -> Holds] :
        node' = [n \in Nodes |-> IF n \in changed THEN LinkChanged(upd[n], rank'[n], held[n])
                                 ELSE upd[n]]
  BY DEF Relink
<1>3. ASSUME NEW n \in Nodes
      PROVE  /\ node'[n] \in NodeType
             /\ node'[n].role = "BACKHAUL" <=> node[n].role = "BACKHAUL"
             /\ node'[n].hs = upd[n].hs
  <2>1. upd[n] \in NodeType /\ upd[n].role = node[n].role
    OBVIOUS
  <2>2. CASE n \in changed
    <3>1. node'[n] = LinkChanged(upd[n], rank'[n], held[n])
      BY <1>2, <2>2
    <3> QED
      BY <2>1, <3>1, LinkChangedType
  <2>3. CASE n \notin changed
    <3>1. node'[n] = upd[n]
      BY <1>2, <2>3
    <3> QED
      BY <2>1, <3>1
  <2> QED
    BY <2>2, <2>3
<1>4. node' \in [Nodes -> NodeType]
  <2>1. /\ DOMAIN node' = Nodes
        /\ node' = [n \in Nodes |-> node'[n]]
    BY <1>2
  <2> QED
    BY <1>3, <2>1
<1>5. Backhauls' = Backhauls
  BY <1>3, <1>4, SameBackhauls
<1>6. rank' = Distances(Backhauls, links)'
  BY <1>1, <1>5 DEF Distances
<1> QED
  BY <1>1, <1>3, <1>4, <1>5, <1>6 DEF TypeOK

-----------------------------------------------------------------------------
(* The type invariant: one lemma per action, or per kind of action. *)

\* At the start nobody has a handshake (lg_start).
LEMMA InitType == Init => TypeOK
<1> SUFFICES ASSUME Init PROVE TypeOK
  OBVIOUS
<1>1. 0 \in 0 .. Infinite /\ Infinite \in 0 .. Infinite
  BY InfiniteType
<1>2. ASSUME NEW n \in Nodes
      PROVE  /\ Started(n) \in NodeType
             /\ Started(n).hs = NoJoin
             /\ Started(n).role = "BACKHAUL" <=> n \in Capable
  <2>1. (MaxLinks = 0) \in BOOLEAN
    OBVIOUS
  <2> DEFINE role == IF n \in Capable THEN "BACKHAUL" ELSE "LEAF"
             distance == IF n \in Capable THEN 0 ELSE Infinite
             full == MaxLinks = 0
  <2>2. Started(n) = [role |-> role, unrouted |-> FALSE, armed |-> TRUE,
                      staged |-> [role |-> role, rank |-> distance, full |-> full],
                      table |-> [m \in Nodes |-> "ABSENT"], hs |-> NoJoin]
    BY DEF Started
  <2>3. role \in Roles /\ distance \in 0 .. Infinite /\ full \in BOOLEAN
    BY <1>1 DEF Roles
  <2>4. role = "BACKHAUL" <=> n \in Capable
    OBVIOUS
  <2> HIDE DEF role, distance, full
  <2>5. [role |-> role, rank |-> distance, full |-> full]
          \in [role : Roles, rank : 0 .. Infinite, full : BOOLEAN]
    BY <2>3
  <2> QED
    BY <2>2, <2>3, <2>4, <2>5 DEF NodeType, Classes
<1>3. /\ node = [n \in Nodes |-> Started(n)]
      /\ links = {} /\ spoiled = {} /\ troubles = 0
      /\ rank = Distances(Capable, {})
  BY DEF Init
<1>4. \A n \in Nodes : node[n] = Started(n)
  BY <1>3
<1>5. /\ node \in [Nodes -> NodeType]
      /\ \A n \in Nodes : node[n].hs = NoJoin
  BY <1>2, <1>3, <1>4
<1>6. Backhauls = Capable
  <2>1. \A n \in Nodes : n \in Backhauls <=> n \in Capable
    BY <1>2, <1>4 DEF Backhauls
  <2>2. Backhauls \subseteq Nodes /\ Capable \subseteq Nodes
    BY DiscoveryAssumption DEF Backhauls
  <2> QED
    BY <2>1, <2>2, Zenon
<1> QED
  BY <1>3, <1>5, <1>6, DiscoveryAssumption DEF TypeOK

\* A beacon is heard in range only, and the joiner it makes is not linked to
\* its sender.
LEMMA BeaconStep ==
  ASSUME TypeOK, NEW n \in Nodes, NEW H \in SUBSET Hearers(n),
         NEW offer \in BOOLEAN, NEW ready \in BOOLEAN, NEW held, Beacon(n, H, offer, ready, held)
  PROVE  TypeOK'
<1>1. rank \in [Nodes -> 0 .. Infinite] /\ node \in [Nodes -> NodeType]
  BY DistancesType DEF TypeOK
<1> DEFINE count == LinkCount(n, links)
           next == [m \in Nodes |->
             CASE m = n -> Evaluated(Staged(node[n], rank[n], count), rank[n], held)
               [] m \in H -> BeaconRx(m, n, offer, ready, held)
               [] OTHER -> node[m]]
<1>2. node' = next
  BY DEF Beacon
<1> n \notin H
  <2>1. {n, n} \notin InRange
    <3>1. {n, n} = {n} /\ {n} \in {{k} : k \in Nodes}
      OBVIOUS
    <3>2. \A p \in InRange : p \notin {{k} : k \in Nodes}
      BY DiscoveryAssumption
    <3> QED
      BY <3>1, <3>2
  <2> QED
    BY <2>1 DEF Hearers
<1>3. ASSUME NEW m \in Nodes
      PROVE  /\ next[m] \in NodeType
             /\ next[m].role = "BACKHAUL" <=> node[m].role = "BACKHAUL"
             /\ next[m].hs \in {node[m].hs, NoJoin} \/ {m, next[m].hs} \in InRange \ links
  <2>1. CASE m = n
    <3> DEFINE s == Staged(node[n], rank[n], count)
    <3>1. s \in NodeType /\ s.role = node[n].role /\ s.hs = node[n].hs
      BY <1>1, StagedType
    <3>2. next[m] = Evaluated(s, rank[n], held)
      BY <2>1
    <3> HIDE DEF s, next
    <3>3. /\ next[m] \in NodeType /\ next[m].hs = node[m].hs
          /\ next[m].role = "BACKHAUL" <=> node[m].role = "BACKHAUL"
      BY <2>1, <3>1, <3>2, EvaluatedType
    <3> QED
      BY <3>3
  <2>2. CASE m # n /\ m \in H
    <3>1. next[m] = BeaconRx(m, n, offer, ready, held)
      BY <2>2, Zenon
    <3>2. {m, n} \in InRange
      <4>1. {n, m} \in InRange
        BY <2>2 DEF Hearers
      <4> QED
        BY <4>1, {m, n} = {n, m}
    <3> DEFINE w == BeaconRx(m, n, offer, ready, held)
    <3>3. /\ w \in NodeType
          /\ w.role = "BACKHAUL" <=> node[m].role = "BACKHAUL"
          /\ w.hs \in {node[m].hs, n}
          /\ Linked(m, n) => w.hs = node[m].hs
      BY <1>1, BeaconRxType
    <3>4. next[m] = w
      BY <3>1
    <3> HIDE DEF next, w
    <3>5. CASE w.hs = node[m].hs
      BY <3>3, <3>4, <3>5
    <3>6. CASE w.hs # node[m].hs
      <4>1. {m, w.hs} \in InRange \ links
        BY <3>2, <3>3, <3>6 DEF Linked
      <4> QED
        BY <3>3, <3>4, <4>1
    <3> QED
      BY <3>5, <3>6
  <2>3. CASE m # n /\ m \notin H
    <3>1. next[m] = node[m]
      BY <2>3
    <3> QED
      BY <1>1, <3>1
  <2> QED
    BY <2>1, <2>2, <2>3
<1>4. next \in [Nodes -> NodeType]
  <2>1. next = [m \in Nodes |-> next[m]]
    OBVIOUS
  <2> HIDE DEF next
  <2> QED
    BY <1>3, <2>1
<1>5. UNCHANGED <<rank, links>> /\ spoiled' = spoiled /\ troubles' = troubles
  BY DEF Beacon
<1> HIDE DEF next
<1> QED
  BY <1>2, <1>3, <1>4, <1>5, LocalStep DEF TypeOK

\* A handshake that succeeds is over at both ends before they are linked
\* (lg_join_event_finish).
LEMMA JoinedStep ==
  ASSUME TypeOK, NEW m \in Nodes, Joined(m)
  PROVE  TypeOK'
<1> DEFINE n == node[m].hs
           class == Class(node[n].role, rank[n])
           upd == [node EXCEPT ![m] = Noted(Idle(@), n, class), ![n] = Noted(@, m, class)]
           ls == links \cup {{m, n}}
<1>1. n # NoJoin /\ node[n].hs = NoJoin /\ Relink(ls, Backhauls, {m, n}, upd)
  BY DEF Joined
<1>2. /\ node \in [Nodes -> NodeType] /\ links \subseteq InRange
      /\ \A k \in Nodes : node[k].hs # NoJoin => {k, node[k].hs} \in InRange \ links
  BY DEF TypeOK
<1>3. node[m] \in NodeType /\ n \in Nodes
  <2>1. node[m] \in NodeType
    BY <1>2
  <2> QED
    BY <1>1, <2>1 DEF NodeType
<1>4. class \in Classes /\ NoJoin \notin Nodes /\ m # n
  BY <1>1, <1>3, DiscoveryAssumption DEF Class, Classes, NoJoin
<1>5. ls \in SUBSET InRange
  <2>1. {m, n} \in InRange
    BY <1>1, <1>2
  <2> QED
    BY <1>2, <2>1
<1>6. /\ upd \in [Nodes -> NodeType]
      /\ \A k \in Nodes : /\ upd[k].role = node[k].role
                          /\ upd[k].hs = IF k = m THEN NoJoin ELSE node[k].hs
  <2> HIDE DEF n, class
  <2>1. /\ upd[m] = Noted(Idle(node[m]), n, class)
        /\ upd[n] = Noted(node[n], m, class)
        /\ \A k \in Nodes \ {m, n} : upd[k] = node[k]
        /\ upd = [k \in Nodes |-> upd[k]]
    BY <1>2, <1>3, <1>4
  <2>2. node[m] \in NodeType /\ node[n] \in NodeType
    BY <1>2, <1>3
  <2> HIDE DEF upd
  <2>3. /\ upd[m] \in NodeType /\ upd[m].role = node[m].role /\ upd[m].hs = NoJoin
        /\ upd[n] \in NodeType /\ upd[n].role = node[n].role /\ upd[n].hs = node[n].hs
    <3>1. Idle(node[m]) \in NodeType /\ class \in Classes
      BY <1>4, <2>2, IdleType
    <3>2. /\ upd[m] \in NodeType /\ upd[m].role = Idle(node[m]).role
          /\ upd[m].hs = Idle(node[m]).hs
      BY <1>3, <2>1, <3>1, NotedType
    <3>3. Idle(node[m]).role = node[m].role /\ Idle(node[m]).hs = NoJoin
      BY <2>2, IdleType
    <3>4. /\ upd[n] \in NodeType /\ upd[n].role = node[n].role /\ upd[n].hs = node[n].hs
      BY <2>1, <2>2, <3>1, NotedType
    <3> QED
      BY <3>2, <3>3, <3>4
  <2>4. ASSUME NEW k \in Nodes
        PROVE  /\ upd[k] \in NodeType /\ upd[k].role = node[k].role
               /\ upd[k].hs = IF k = m THEN NoJoin ELSE node[k].hs
    <3>1. CASE k = m
      BY <2>3, <3>1
    <3>2. CASE k = n /\ k # m
      BY <2>3, <3>2
    <3>3. CASE k \notin {m, n}
      BY <1>2, <2>1, <3>3
    <3> QED
      BY <3>1, <3>2, <3>3
  <2> QED
    BY <2>1, <2>4
<1>7. ASSUME NEW k \in Nodes, upd[k].hs # NoJoin
      PROVE  {k, upd[k].hs} \in InRange \ ls
  <2> HIDE DEF n, upd
  <2>1. k # m /\ k # n /\ upd[k].hs = node[k].hs /\ node[k].hs # NoJoin
    BY <1>1, <1>6, <1>7
  <2>2. {k, node[k].hs} \in InRange \ links
    BY <1>2, <2>1
  <2>3. {k, node[k].hs} \notin {{m, n}}
    <3>1. k \in {k, node[k].hs} /\ k \notin {m, n}
      BY <2>1
    <3> QED
      BY <3>1
  <2>4. {k, node[k].hs} \in InRange \ ls
    BY <2>2, <2>3
  <2> QED
    BY <2>1, <2>4
<1>8. spoiled' \subseteq Nodes \X Nodes /\ troubles' \in 0 .. MaxTroubles
  BY DEF Joined, TypeOK
<1> HIDE DEF upd, ls, n
<1> QED
  BY <1>1, <1>5, <1>6, <1>7, <1>8, RelinkStep

\* One that fails is over as well (join_fail).
LEMMA JoinFailsStep ==
  ASSUME TypeOK, NEW m \in Nodes, JoinFails(m)
  PROVE  TypeOK'
<1> DEFINE n == node[m].hs
<1>1. PICK noticed \in BOOLEAN :
        node' = [node EXCEPT ![m] = Idle(@),
                   ![n] = IF noticed /\ @.table[m] = "ABSENT" THEN Noted(@, m, "OTHER")
                          ELSE @]
  BY DEF JoinFails
<1>2. node \in [Nodes -> NodeType] /\ n # NoJoin
  BY DEF JoinFails, TypeOK
<1>3. node[m] \in NodeType /\ n \in Nodes
  <2>1. node[m] \in NodeType
    BY <1>2
  <2> QED
    BY <1>2, <2>1 DEF NodeType
<1>4. m # n
  <2>1. {m, n} \in InRange
    BY <1>2 DEF TypeOK
  <2>2. {m, m} = {m} /\ {m} \in {{k} : k \in Nodes}
    OBVIOUS
  <2>3. \A p \in InRange : p \notin {{k} : k \in Nodes}
    BY DiscoveryAssumption
  <2> QED
    BY <2>1, <2>2, <2>3
<1>5. node[n] \in NodeType
  BY <1>2, <1>3
<1> HIDE DEF n
<1>6. /\ node'[m] = Idle(node[m])
      /\ node'[n] \in {node[n], Noted(node[n], m, "OTHER")}
      /\ \A k \in Nodes \ {m, n} : node'[k] = node[k]
      /\ node' = [k \in Nodes |-> node'[k]]
  BY <1>1, <1>2, <1>3, <1>4
<1>7. /\ node' \in [Nodes -> NodeType]
      /\ \A k \in Nodes : /\ node'[k].role = node[k].role
                          /\ node'[k].hs \in {node[k].hs, NoJoin}
  <2>1. /\ node'[m] \in NodeType /\ node'[m].role = node[m].role /\ node'[m].hs = NoJoin
        /\ node'[n] \in NodeType /\ node'[n].role = node[n].role /\ node'[n].hs = node[n].hs
    <3>1. /\ Noted(node[n], m, "OTHER") \in NodeType
          /\ Noted(node[n], m, "OTHER").role = node[n].role
          /\ Noted(node[n], m, "OTHER").hs = node[n].hs
      BY <1>3, <1>5, NotedType, "OTHER" \in Classes DEF Classes
    <3>2. /\ Idle(node[m]) \in NodeType
          /\ Idle(node[m]).role = node[m].role /\ Idle(node[m]).hs = NoJoin
      BY <1>3, IdleType
    <3> QED
      BY <1>5, <1>6, <3>1, <3>2
  <2> QED
    BY <1>2, <1>3, <1>6, <2>1
<1>8. /\ UNCHANGED <<rank, links>>
      /\ spoiled' \subseteq Nodes \X Nodes /\ troubles' \in 0 .. MaxTroubles
  BY <1>3, DiscoveryAssumption DEF JoinFails, TypeOK, n
<1> QED
  BY <1>7, <1>8, LocalStep

\* A link that is lost was nobody's handshake (lg_link_down).
LEMMA LinkLostStep ==
  ASSUME TypeOK, NEW l \in InRange, LinkLost(l)
  PROVE  TypeOK'
<1>1. /\ node \in [Nodes -> NodeType] /\ links \subseteq InRange
      /\ spoiled \subseteq Nodes \X Nodes /\ troubles \in 0 .. MaxTroubles
      /\ \A n \in Nodes : node[n].hs # NoJoin => {n, node[n].hs} \in InRange \ links
  BY DEF TypeOK
<1>2. Relink(links \ {l}, Backhauls, l, node)
  BY DEF LinkLost
<1>3. troubles' \in 0 .. MaxTroubles
  BY <1>1, DiscoveryAssumption DEF LinkLost
<1>4. spoiled' \subseteq Nodes \X Nodes
  <2>1. l \subseteq Nodes
    BY DiscoveryAssumption
  <2>2. spoiled' = spoiled \cup {<<n, m>> : n, m \in l}
    BY DEF LinkLost
  <2> QED
    BY <1>1, <2>1, <2>2
<1>5. links \ {l} \in SUBSET InRange
  BY <1>1
<1>6. \A n \in Nodes : node[n].hs # NoJoin => {n, node[n].hs} \in InRange \ (links \ {l})
  BY <1>1
<1> QED
  BY <1>1, <1>2, <1>3, <1>4, <1>5, <1>6, RelinkStep

\* What only changes one node's record, its handshake apart: reviews,
\* advertisements, time passing (lg_disc_scan_finish, lg_route_handle_adv).
LEMMA OneNodeStep ==
  ASSUME TypeOK, NEW n \in Nodes, NEW v \in NodeType,
         v.role = "BACKHAUL" <=> node[n].role = "BACKHAUL",
         v.hs = node[n].hs,
         node' = [node EXCEPT ![n] = v],
         UNCHANGED <<rank, links, spoiled, troubles>>
  PROVE  TypeOK'
<1>1. node \in [Nodes -> NodeType]
  BY DEF TypeOK
<1>2. node' \in [Nodes -> NodeType]
  BY <1>1
<1>3. \A k \in Nodes : /\ node'[k].role = "BACKHAUL" <=> node[k].role = "BACKHAUL"
                       /\ node'[k].hs = node[k].hs
  BY <1>1
<1>4. spoiled' \subseteq Nodes \X Nodes /\ troubles' \in 0 .. MaxTroubles
  BY DEF TypeOK
<1>5. UNCHANGED <<rank, links>>
  OBVIOUS
<1> QED
  BY <1>2, <1>3, <1>4, <1>5, LocalStep

LEMMA ScanStep ==
  ASSUME TypeOK, NEW n \in Nodes, Scan(n)
  PROVE  TypeOK'
<1>1. PICK held \in Holds : node' = [node EXCEPT ![n] = Evaluated(@, rank[n], held)]
  BY DEF Scan
<1> DEFINE v == Evaluated(node[n], rank[n], held)
<1>2. node[n] \in NodeType
  BY DEF TypeOK
<1>3. /\ v \in NodeType /\ v.hs = node[n].hs
      /\ v.role = "BACKHAUL" <=> node[n].role = "BACKHAUL"
  BY <1>2, EvaluatedType
<1>4. node' = [node EXCEPT ![n] = v]
  BY <1>1
<1>5. UNCHANGED <<rank, links, spoiled, troubles>>
  BY DEF Scan
<1> HIDE DEF v
<1> QED
  BY <1>3, <1>4, <1>5, OneNodeStep

LEMMA AdvertiseStep ==
  ASSUME TypeOK, NEW n \in Nodes, NEW m \in Nodes, Advertise(n, m)
  PROVE  TypeOK'
<1> DEFINE class == Class(node[n].role, rank[n])
           v == Noted(node[m], n, class)
<1>1. class \in Classes
  BY DEF Class, Classes
<1>2. node[m] \in NodeType
  BY DEF TypeOK
<1> HIDE DEF class
<1>3. v \in NodeType /\ v.hs = node[m].hs /\ v.role = node[m].role
  BY <1>1, <1>2, NotedType
<1>4. node' = [node EXCEPT ![m] = v] /\ UNCHANGED <<rank, links, spoiled, troubles>>
  BY DEF Advertise, class
<1> HIDE DEF v
<1> QED
  BY <1>3, <1>4, OneNodeStep

LEMMA UnroutedForgottenStep ==
  ASSUME TypeOK, NEW n \in Nodes, UnroutedForgotten(n)
  PROVE  TypeOK'
<1> DEFINE v == [node[n] EXCEPT !.unrouted = FALSE]
<1>1. node \in [Nodes -> NodeType] /\ node[n] \in NodeType
  BY DEF TypeOK
<1>2. v \in NodeType /\ v.hs = node[n].hs /\ v.role = node[n].role
  BY <1>1 DEF NodeType
<1>3. node' = [node EXCEPT ![n] = v] /\ UNCHANGED <<rank, links, spoiled, troubles>>
  BY <1>1 DEF UnroutedForgotten
<1> HIDE DEF v
<1> QED
  BY <1>2, <1>3, OneNodeStep

\* An uplink that goes or comes makes or unmakes a backhaul, and the ranks are
\* those of the new backhauls (lg_backhaul_set).
LEMMA UplinkStep ==
  ASSUME TypeOK, NEW n \in Nodes, NEW role \in Roles, NEW sinks, NEW r,
         role = "BACKHAUL" => n \in Capable,
         sinks = IF role = "BACKHAUL" THEN Backhauls \cup {n} ELSE Backhauls \ {n},
         rank' = Distances(sinks, links),
         node' = [node EXCEPT ![n] = Applied(@, role, r)],
         UNCHANGED <<links, spoiled>>, troubles' \in 0 .. MaxTroubles
  PROVE  TypeOK'
<1>1. node \in [Nodes -> NodeType] /\ node[n] \in NodeType
  BY DEF TypeOK
<1>2. PICK v \in NodeType : v.role = role /\ v.hs = node[n].hs /\ node' = [node EXCEPT ![n] = v]
  <2> DEFINE v == Applied(node[n], role, r)
  <2>1. v \in NodeType /\ v.role = role /\ v.hs = node[n].hs
    BY <1>1, AppliedType
  <2>2. node' = [node EXCEPT ![n] = v]
    OBVIOUS
  <2> HIDE DEF v
  <2> QED
    BY <2>1, <2>2
<1>3. /\ node' \in [Nodes -> NodeType]
      /\ node'[n].role = role
      /\ \A k \in Nodes \ {n} : node'[k].role = node[k].role
      /\ \A k \in Nodes : node'[k].hs = node[k].hs
  BY <1>1, <1>2
<1>4. Backhauls' = sinks /\ Backhauls' \subseteq Capable
  <2>1. \A k \in Nodes : k \in Backhauls' <=> k \in sinks
    <3>1. CASE role = "BACKHAUL"
      BY <1>3, <3>1 DEF Backhauls
    <3>2. CASE role # "BACKHAUL"
      BY <1>3, <3>2 DEF Backhauls
    <3> QED
      BY <3>1, <3>2
  <2>2. Backhauls \subseteq Nodes /\ Backhauls' \subseteq Nodes
    BY DEF Backhauls
  <2>3. sinks \subseteq Nodes
    BY <2>2
  <2>4. Backhauls' = sinks
    BY <2>1, <2>2, <2>3, Zenon
  <2>5. Backhauls \subseteq Capable
    BY DEF TypeOK
  <2> QED
    BY <2>4, <2>5
<1>5. rank' = Distances(Backhauls, links)'
  BY <1>4 DEF Distances
<1> QED
  BY <1>3, <1>4, <1>5 DEF TypeOK

\* Every variable keeps its type: a handshake is with somebody in range and not
\* linked, and the ranks are the distances from the backhauls there are.
THEOREM TypeCorrect == Spec => []TypeOK
<1>1. ASSUME TypeOK, Next PROVE TypeOK'
  <2>1. CASE \E n \in Nodes : \E H \in SUBSET Hearers(n), offer, ready \in BOOLEAN, held \in Holds :
               Beacon(n, H, offer, ready, held)
    BY <1>1, <2>1, BeaconStep
  <2>2. CASE \E n \in Nodes : Scan(n)
    BY <1>1, <2>2, ScanStep
  <2>3. CASE \E n \in Nodes : Joined(n)
    BY <1>1, <2>3, JoinedStep
  <2>4. CASE \E n \in Nodes : JoinFails(n)
    BY <1>1, <2>4, JoinFailsStep
  <2>5. ASSUME NEW n \in Nodes, UplinkDown(n) PROVE TypeOK'
    <3> DEFINE sinks == Backhauls \ {n}
               r == Distances(sinks, links)[n]
    <3>1. /\ rank' = Distances(sinks, links)
          /\ node' = [node EXCEPT ![n] = Applied(@, "ROUTER", r)]
          /\ UNCHANGED <<links, spoiled>>
      BY <2>5 DEF UplinkDown
    <3>2. troubles' \in 0 .. MaxTroubles
      BY <1>1, <2>5, DiscoveryAssumption DEF UplinkDown, TypeOK
    <3>3. /\ "ROUTER" \in Roles /\ "ROUTER" # "BACKHAUL"
          /\ sinks = Backhauls \ {n}
      BY DEF Roles
    <3> HIDE DEF sinks, r
    <3> QED
      BY <1>1, <3>1, <3>2, <3>3, UplinkStep
  <2>6. ASSUME NEW n \in Nodes, UplinkUp(n) PROVE TypeOK'
    <3> DEFINE sinks == Backhauls \cup {n}
               r == Distances(sinks, links)[n]
    <3>1. /\ rank' = Distances(sinks, links)
          /\ node' = [node EXCEPT ![n] = Applied(@, "BACKHAUL", r)]
          /\ UNCHANGED <<links, spoiled>> /\ n \in Capable
      BY <2>6 DEF UplinkUp
    <3>2. troubles' \in 0 .. MaxTroubles
      BY <1>1, <2>6 DEF UplinkUp, TypeOK
    <3>3. /\ "BACKHAUL" \in Roles
          /\ sinks = Backhauls \cup {n}
      BY DEF Roles
    <3> HIDE DEF sinks, r
    <3> QED
      BY <1>1, <3>1, <3>2, <3>3, UplinkStep
  <2>7. CASE \E n \in Nodes : UnroutedForgotten(n)
    BY <1>1, <2>7, UnroutedForgottenStep
  <2>8. CASE \E n \in Nodes : \E m \in Hearers(n) : Advertise(n, m)
    BY <1>1, <2>8, AdvertiseStep DEF Hearers
  <2>9. CASE \E l \in InRange : LinkLost(l)
    BY <1>1, <2>9, LinkLostStep
  <2> QED
    BY <1>1, <2>1, <2>2, <2>3, <2>4, <2>5, <2>6, <2>7, <2>8, <2>9 DEF Next
<1>2. ASSUME TypeOK, UNCHANGED vars PROVE TypeOK'
  BY <1>2 DEF vars, TypeOK, Backhauls, Distances
<1>3. TypeOK /\ [Next]_vars => TypeOK'
  BY <1>1, <1>2
<1> QED
  BY InitType, <1>3, PTL DEF Spec

-----------------------------------------------------------------------------
\* Rank decides who joins whom, and the address when ranks are equal: at most
\* one of two nodes that know what the other says (candidate_is_useful).
THEOREM OneJoiner == Spec => []InitiatorUnambiguous
<1>1. ASSUME TypeOK PROVE InitiatorUnambiguous
  <2>1. rank \in [Nodes -> Nat]
    BY <1>1, InfiniteType, DistancesType DEF TypeOK
  <2>2. ASSUME NEW n \in Nodes, NEW m \in Nodes,
               Useful(m, node[m], n, Said(node[n], rank[n], LinkCount(n, links)))
        PROVE  /\ rank[n] # Infinite
               /\ Routed(m) => rank[n] < rank[m] \/ (rank[n] = rank[m] /\ m > n)
    <3>1. /\ rank[n] \in Nat /\ rank[m] \in Nat /\ Margin \in Nat
          /\ n \in Nat /\ m \in Nat
      BY <2>1, DiscoveryAssumption
    <3>2. Said(node[n], rank[n], LinkCount(n, links)).rank = rank[n]
      BY DEF Said
    <3> QED
      BY <2>2, <3>1, <3>2 DEF Useful
  <2>3. ASSUME NEW n \in Nodes, NEW m \in Nodes,
               Useful(m, node[m], n, Said(node[n], rank[n], LinkCount(n, links))),
               Useful(n, node[n], m, Said(node[m], rank[m], LinkCount(m, links)))
        PROVE  FALSE
    <3>1. /\ rank[n] < rank[m] \/ (rank[n] = rank[m] /\ m > n)
          /\ rank[m] < rank[n] \/ (rank[m] = rank[n] /\ n > m)
      BY <2>2, <2>3 DEF Routed
    <3> QED
      BY <2>1, <3>1, DiscoveryAssumption
  <2> QED
    BY <2>3 DEF InitiatorUnambiguous
<1> QED
  BY <1>1, TypeCorrect, PTL

-----------------------------------------------------------------------------
(* What makes a node that has no unrouted neighbour change its role. *)

Sparse(v) == RoutersHeard(v) < Density
Crowded(v) == RoutersHeard(v) > Density

\* The record v becomes w without a change of role, or because of the routers
\* that one of them has heard, if none of the nodes heard lacks a route.
Reviewed(v, w) ==
  ~v.unrouted /\ ~w.unrouted =>
    \/ w.role = v.role
    \/ v.role = "LEAF" /\ w.role = "ROUTER" /\ (Sparse(v) \/ Sparse(w))
    \/ v.role = "ROUTER" /\ w.role = "LEAF" /\ (Crowded(v) \/ Crowded(w))

\* Taking a role leaves the table of neighbours as it is (apply).
LEMMA AppliedRole ==
  ASSUME NEW v \in NodeType, NEW role \in Roles, NEW r
  PROVE  /\ Applied(v, role, r).role = role
         /\ Applied(v, role, r).unrouted = v.unrouted
         /\ Applied(v, role, r).table = v.table
  BY DEF Applied, Retuned, ShouldBeacon, NodeType

\* A review goes by the routers heard (lg_role_evaluate).
LEMMA EvaluatedRole ==
  ASSUME NEW v \in NodeType, NEW r, NEW held
  PROVE  /\ Evaluated(v, r, held).unrouted = v.unrouted
         /\ Evaluated(v, r, held).table = v.table
         /\ \/ Evaluated(v, r, held).role = v.role
            \/ /\ v.role = "LEAF" /\ Evaluated(v, r, held).role = "ROUTER"
               /\ v.unrouted \/ Sparse(v)
            \/ /\ v.role = "ROUTER" /\ Evaluated(v, r, held).role = "LEAF"
               /\ Crowded(v)
<1>1. CASE /\ v.role = "LEAF"
           /\ v.unrouted \/ RoutersHeard(v) < Density
           /\ Evaluated(v, r, held) = Applied(v, "ROUTER", r)
  BY <1>1, AppliedRole DEF Roles, Sparse
<1>2. CASE /\ v.role = "ROUTER" /\ RoutersHeard(v) > Density
           /\ Evaluated(v, r, held) = Applied(v, "LEAF", r)
  BY <1>2, AppliedRole DEF Roles, Crowded
<1>3. CASE Evaluated(v, r, held) = v
  BY <1>3
<1> QED
  BY <1>1, <1>2, <1>3 DEF Evaluated

\* So does one when a link has come or gone, of a node u that may have learnt
\* something of its neighbour by that.
LEMMA LinkChangedRole ==
  ASSUME NEW v \in NodeType, NEW r, NEW held, NEW u,
         u.role = v.role, u.unrouted = v.unrouted
  PROVE  Reviewed(u, LinkChanged(v, r, held))
<1> DEFINE w == Evaluated(v, r, held)
<1>1. w \in NodeType
  BY EvaluatedType
<1>2. /\ w.table = v.table /\ w.unrouted = v.unrouted
      /\ \/ w.role = v.role
         \/ v.role = "LEAF" /\ w.role = "ROUTER" /\ (v.unrouted \/ Sparse(v))
         \/ v.role = "ROUTER" /\ w.role = "LEAF" /\ Crowded(v)
  BY EvaluatedRole
<1> HIDE DEF w
<1>3. /\ LinkChanged(v, r, held).role = w.role
      /\ LinkChanged(v, r, held).unrouted = w.unrouted
      /\ LinkChanged(v, r, held).table = w.table
  <2>1. LinkChanged(v, r, held) = [w EXCEPT !.armed = ShouldBeacon(w, r)]
    BY DEF LinkChanged, Retuned, w
  <2> QED
    BY <1>1, <2>1 DEF NodeType
<1> QED
  BY <1>2, <1>3 DEF Reviewed, Sparse, Crowded, RoutersHeard

\* Links that come or go review the ends they concern, and nobody else.
LEMMA RelinkRole ==
  ASSUME NEW ls, NEW changed, NEW upd \in [Nodes -> NodeType],
         Relink(ls, Backhauls, changed, upd),
         NEW n \in Nodes, upd[n].role = node[n].role, upd[n].unrouted = node[n].unrouted
  PROVE  Reviewed(node[n], node'[n])
<1>1. PICK held \in [changed -> Holds] :
        node' = [k \in Nodes |-> IF k \in changed THEN LinkChanged(upd[k], rank'[k], held[k])
                                 ELSE upd[k]]
  BY DEF Relink
<1>2. CASE n \in changed
  <2>1. node'[n] = LinkChanged(upd[n], rank'[n], held[n])
    BY <1>1, <1>2
  <2> QED
    BY <2>1, LinkChangedRole
<1>3. CASE n \notin changed
  <2>1. node'[n] = upd[n]
    BY <1>1, <1>3
  <2> QED
    BY <2>1 DEF Reviewed
<1> QED
  BY <1>2, <1>3

\* What a node hears in a beacon changes its role only if the sender has no route,
\* which the node then remembers (lg_disc_beacon_rx).
LEMMA BeaconRxRole ==
  ASSUME NEW m \in Nodes, NEW n \in Nodes, NEW offer, NEW ready, NEW held,
         node \in [Nodes -> NodeType]
  PROVE  Reviewed(node[m], BeaconRx(m, n, offer, ready, held))
<1> DEFINE b == node[n].staged
           heard == [node[m] EXCEPT !.unrouted = TRUE]
           v == IF b.rank = Infinite THEN Evaluated(heard, rank[m], held) ELSE node[m]
           useful == Useful(m, v, n, b)
           known == IF v.table[n] # "ABSENT" \/ useful
                      THEN Noted(v, n, Class(b.role, b.rank)) ELSE v
<1>1. heard \in NodeType /\ heard.unrouted
  BY DEF NodeType
<1>2. v \in NodeType /\ (v.unrouted \/ v.role = node[m].role)
  <2> HIDE DEF heard
  <2>1. CASE b.rank = Infinite
    BY <1>1, <2>1, EvaluatedType, EvaluatedRole
  <2>2. CASE b.rank # Infinite
    BY <2>2
  <2> QED
    BY <2>1, <2>2
<1>3. BeaconRx(m, n, offer, ready, held) \in {known, [known EXCEPT !.hs = n]}
  BY DEF BeaconRx
<1>4. known \in {v, Noted(v, n, Class(b.role, b.rank))}
  OBVIOUS
<1> HIDE DEF known, v
<1> QED
  BY <1>2, <1>3, <1>4 DEF Reviewed, Noted, NodeType

\* What a step makes of the role of a node without an uplink.
LEMMA StepRole ==
  ASSUME TypeOK, [Next]_vars, NEW n \in Nodes \ Capable
  PROVE  Reviewed(node[n], node'[n])
<1>1. /\ node \in [Nodes -> NodeType] /\ node[n] \in NodeType
      /\ node[n].role # "BACKHAUL"
  BY DEF TypeOK, Backhauls
<1>2. ASSUME NEW k \in Nodes, NEW H \in SUBSET Hearers(k), NEW offer \in BOOLEAN,
             NEW ready \in BOOLEAN, NEW held \in Holds, Beacon(k, H, offer, ready, held)
      PROVE  Reviewed(node[n], node'[n])
  <2>1. CASE n = k
    <3>1. node'[n] = Evaluated(Staged(node[n], rank[n], LinkCount(n, links)), rank[n], held)
      <4> DEFINE settled == Evaluated(Staged(node[k], rank[k], LinkCount(k, links)), rank[k], held)
                 heard(m) == BeaconRx(m, k, offer, ready, held)
      <4>1. node' = [m \in Nodes |-> CASE m = k -> settled
                                      [] m \in H -> heard(m)
                                      [] OTHER -> node[m]]
        BY <1>2 DEF Beacon
      <4>2. k \notin H
        <5>1. {k, k} = {k} /\ {k} \in {{m} : m \in Nodes}
          OBVIOUS
        <5>2. \A p \in InRange : p \notin {{m} : m \in Nodes}
          BY DiscoveryAssumption
        <5> QED
          BY <5>1, <5>2 DEF Hearers
      <4> HIDE DEF settled, heard
      <4>3. node'[k] = settled
        BY <4>1, <4>2
      <4> QED
        BY <2>1, <4>3 DEF settled
    <3>2. rank[n] \in 0 .. Infinite
      BY DistancesType DEF TypeOK
    <3> DEFINE v == Staged(node[n], rank[n], LinkCount(n, links))
    <3>3. v \in NodeType
      BY <1>1, <3>2, StagedType
    <3>4. v.role = node[n].role /\ v.unrouted = node[n].unrouted /\ v.table = node[n].table
      BY <1>1 DEF Staged, NodeType
    <3>5. node'[n] = Evaluated(v, rank[n], held)
      BY <3>1
    <3> HIDE DEF v
    <3> QED
      BY <3>3, <3>4, <3>5, EvaluatedRole DEF Reviewed, Sparse, Crowded, RoutersHeard
  <2>2. CASE n # k /\ n \in H
    <3>1. node'[n] = BeaconRx(n, k, offer, ready, held)
      BY <1>2, <2>2 DEF Beacon
    <3> QED
      BY <1>1, <3>1, BeaconRxRole
  <2>3. CASE n # k /\ n \notin H
    <3>1. node'[n] = node[n]
      BY <1>2, <2>3 DEF Beacon
    <3> QED
      BY <3>1 DEF Reviewed
  <2> QED
    BY <2>1, <2>2, <2>3
<1>3. ASSUME NEW k \in Nodes, Scan(k) PROVE Reviewed(node[n], node'[n])
  <2>1. PICK held \in Holds : node' = [node EXCEPT ![k] = Evaluated(@, rank[k], held)]
    BY <1>3 DEF Scan
  <2>2. node'[n] \in {node[n], Evaluated(node[n], rank[n], held)}
    BY <1>1, <2>1
  <2> QED
    BY <1>1, <2>2, EvaluatedRole DEF Reviewed
<1>4. ASSUME NEW k \in Nodes, Joined(k) PROVE Reviewed(node[n], node'[n])
  <2> DEFINE p == node[k].hs
             class == Class(node[p].role, rank[p])
             upd == [node EXCEPT ![k] = Noted(Idle(@), p, class), ![p] = Noted(@, k, class)]
  <2>1. Relink(links \cup {{k, p}}, Backhauls, {k, p}, upd)
    BY <1>4 DEF Joined
  <2>2. p \in Nodes /\ k # p /\ class \in Classes
    <3>1. p # NoJoin /\ node[p].hs = NoJoin
      BY <1>4 DEF Joined
    <3>2. node[k] \in NodeType
      BY <1>1
    <3> QED
      BY <3>1, <3>2 DEF NodeType, Class, Classes
  <2> HIDE DEF p, class
  <2>3. upd[k] = Noted(Idle(node[k]), p, class) /\ upd[p] = Noted(node[p], k, class)
    BY <1>1, <2>2
  <2>4. upd \in [Nodes -> NodeType]
    <3>1. upd[k] \in NodeType /\ upd[p] \in NodeType
      BY <1>1, <2>2, <2>3, IdleType, NotedType
    <3> QED
      BY <1>1, <2>2, <3>1
  <2>5. upd[n].role = node[n].role /\ upd[n].unrouted = node[n].unrouted
    <3>1. upd[n] \in {node[n], Noted(Idle(node[n]), p, class), Noted(node[n], k, class)}
      BY <1>1, <2>2
    <3> HIDE DEF upd
    <3> QED
      BY <1>1, <3>1 DEF Noted, Idle, NodeType
  <2> HIDE DEF upd
  <2> QED
    BY <2>1, <2>4, <2>5, RelinkRole
<1>5. ASSUME NEW k \in Nodes, JoinFails(k) PROVE Reviewed(node[n], node'[n])
  <2>1. PICK noticed \in BOOLEAN :
          node' = [node EXCEPT ![k] = Idle(@),
                     ![node[k].hs] = IF noticed /\ @.table[k] = "ABSENT"
                                     THEN Noted(@, k, "OTHER") ELSE @]
    BY <1>5 DEF JoinFails
  <2>2. node'[n] \in {node[n], Idle(node[n]), Noted(node[n], k, "OTHER"),
                      Noted(Idle(node[n]), k, "OTHER")}
    BY <1>1, <2>1
  <2> QED
    BY <1>1, <2>2 DEF Reviewed, Idle, Noted, NodeType
<1>6. ASSUME NEW k \in Nodes, UplinkDown(k) \/ UplinkUp(k) PROVE Reviewed(node[n], node'[n])
  <2>1. k \in Capable
    BY <1>6 DEF UplinkDown, UplinkUp, TypeOK, Backhauls
  <2>2. node'[n] = node[n]
    BY <1>1, <1>6, <2>1 DEF UplinkDown, UplinkUp
  <2> QED
    BY <2>2 DEF Reviewed
<1>7. ASSUME NEW k \in Nodes, UnroutedForgotten(k) PROVE Reviewed(node[n], node'[n])
  <2>1. node'[n].role = node[n].role
    BY <1>1, <1>7 DEF UnroutedForgotten, NodeType
  <2> QED
    BY <2>1 DEF Reviewed
<1>8. ASSUME NEW k \in Nodes, NEW m \in Hearers(k), Advertise(k, m)
      PROVE  Reviewed(node[n], node'[n])
  <2>1. node'[n].role = node[n].role
    BY <1>1, <1>8 DEF Advertise, Noted, NodeType
  <2> QED
    BY <2>1 DEF Reviewed
<1>9. ASSUME NEW l \in InRange, LinkLost(l) PROVE Reviewed(node[n], node'[n])
  <2>1. Relink(links \ {l}, Backhauls, l, node)
    BY <1>9 DEF LinkLost
  <2> QED
    BY <1>1, <2>1, RelinkRole
<1>10. CASE UNCHANGED vars
  BY <1>10 DEF vars, Reviewed
<1> QED
  BY <1>2, <1>3, <1>4, <1>5, <1>6, <1>7, <1>8, <1>9, <1>10 DEF Next

\* Whatever the other nodes do, a node without an uplink that has no unrouted
\* neighbour any more keeps its role in the end, or hears fewer routers than the
\* target and more of them, over and over: the threshold of promotion and that of
\* demotion are not met by one number of routers (lg_role_evaluate).
THEOREM RolesAreHeld == Spec => RolesHold
<1> SUFFICES ASSUME NEW n \in Nodes \ Capable
             PROVE  Spec =>
                      (<>[]~node[n].unrouted =>
                         \/ <>[][node'[n].role = node[n].role]_vars
                         \/ /\ []<>(RoutersHeard(node[n]) < Density)
                            /\ []<>(RoutersHeard(node[n]) > Density))
  BY DEF RolesHold
<1>1. TypeOK /\ [Next]_vars /\ ~node[n].unrouted /\ (~node[n].unrouted)' =>
        \/ [node'[n].role = node[n].role]_vars
        \/ /\ node[n].role = "LEAF" /\ ~(node[n].role = "LEAF")'
           /\ (RoutersHeard(node[n]) < Density) \/ (RoutersHeard(node[n]) < Density)'
        \/ /\ ~(node[n].role = "LEAF") /\ (node[n].role = "LEAF")'
           /\ (RoutersHeard(node[n]) > Density) \/ (RoutersHeard(node[n]) > Density)'
  BY StepRole DEF Reviewed, Sparse, Crowded
<1>2. [node'[n].role = node[n].role]_vars =>
        ((node[n].role = "LEAF") <=> (node[n].role = "LEAF")')
  BY DEF vars
<1> QED
  BY <1>1, <1>2, TypeCorrect, PTL DEF Spec
=============================================================================
