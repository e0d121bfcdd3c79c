---------------------------- MODULE RouteProofs ----------------------------
(***************************************************************************)
(* Proofs about Route, for any grid, costs, tables, hysteresis, number of  *)
(* parents and advertising period, and any disturbances: its types, and    *)
(* that the ranks of a quiet grid are true.                                *)
(*                                                                         *)
(* The inductive invariant, Sound, relates each rank to what its node has  *)
(* heard (Elect), and what a node has heard to the rank that its neighbour *)
(* has: until an advertisement is lost the neighbour knows it, or has it   *)
(* staged, or has yet to tell it (KnowsOf).  In a quiet grid the last two  *)
(* are excluded.  Ranks then cannot be too low, by induction on the number *)
(* of nodes that are nearer to a sink, nor too high, by induction on the   *)
(* cost of a node's best path.                                             *)
(***************************************************************************)
EXTENDS Route, FiniteSetTheorems, WellFoundedInduction, TLAPS

----------------------------------------------------------------------------
(* Induction and recursion on numbers.                                      *)

\* Any set of numbers that is not empty has a least element.
LEMMA LeastNatural ==
  ASSUME NEW T \in SUBSET Nat, T # {}
  PROVE  \E x \in T : \A y \in T : x <= y
<1> DEFINE R == {ss \in Nat \X Nat : ss[1] < ss[2]}
<1>1. IsWellFoundedOn(R, Nat)
  BY NatLessThanWellFounded DEF OpToRel
<1>2. \A x, y \in Nat : y < x => <<y, x>> \in R
  OBVIOUS
<1> HIDE DEF R
<1>3. PICK x \in T : \A y \in T : ~ (<<y, x>> \in R)
  BY <1>1, WFMin
<1>4. \A y \in T : ~ (y < x)
  BY <1>2, <1>3
<1> QED
  BY <1>3, <1>4

\* A set that has 0 and the successor of each of its numbers has them all.
LEMMA NatSets ==
  ASSUME NEW S, 0 \in S, \A n \in Nat : n \in S => n + 1 \in S
  PROVE  Nat \subseteq S
<1> SUFFICES ASSUME Nat \ S # {} PROVE FALSE
  OBVIOUS
<1>1. PICK x \in Nat \ S : \A y \in Nat \ S : x <= y
  BY LeastNatural
<1>2. x # 0 /\ x - 1 \in Nat
  BY <1>1
<1>3. x - 1 \in S
  BY <1>1, <1>2
<1>4. x \in S
  BY <1>2, <1>3
<1> QED
  BY <1>1, <1>4

\* f is the sequence of values that g yields from b on, up to m.
Iterates(f, m, V, b, g) ==
  /\ f \in [0 .. m -> V] /\ f[0] = b
  /\ \A k \in 1 .. m : f[k] = g[<<f[k - 1], k>>]

\* The sequence up to 0, and from one up to m the one up to m + 1.
LEMMA IteratesFirst ==
  ASSUME NEW V, NEW b \in V, NEW g
  PROVE  Iterates([k \in 0 .. 0 |-> b], 0, V, b, g)
BY DEF Iterates

LEMMA IteratesNext ==
  ASSUME NEW V, NEW b \in V, NEW n \in Nat, NEW g \in [V \X (1 .. n) -> V],
         NEW m \in Nat, m + 1 <= n, NEW f, Iterates(f, m, V, b, g)
  PROVE  Iterates([k \in 0 .. m + 1 |-> IF k = m + 1 THEN g[<<f[m], m + 1>>] ELSE f[k]],
                  m + 1, V, b, g)
<1> DEFINE h == [k \in 0 .. m + 1 |-> IF k = m + 1 THEN g[<<f[m], m + 1>>] ELSE f[k]]
<1>1. f \in [0 .. m -> V] /\ f[0] = b /\ \A k \in 1 .. m : f[k] = g[<<f[k - 1], k>>]
  BY DEF Iterates
<1>2. f[m] \in V /\ m + 1 \in 1 .. n
  BY <1>1
<1>3. g[<<f[m], m + 1>>] \in V
  BY <1>2
<1>4. \A k \in 0 .. m + 1 : h[k] \in V
  BY <1>1, <1>3
<1>5. h \in [0 .. m + 1 -> V]
  BY <1>4
<1>6. h[0] = b
  BY <1>1
<1>7. ASSUME NEW k \in 1 .. m + 1 PROVE h[k] = g[<<h[k - 1], k>>]
  <2>1. k - 1 \in 0 .. m /\ k - 1 # m + 1
    OBVIOUS
  <2>2. h[k - 1] = f[k - 1]
    BY <2>1
  <2>3. CASE k = m + 1
    <3>1. h[k] = g[<<f[m], m + 1>>] /\ k - 1 = m
      BY <2>3
    <3> QED
      BY <2>2, <2>3, <3>1
  <2>4. CASE k # m + 1
    <3>1. k \in 1 .. m /\ h[k] = f[k]
      BY <2>4
    <3>2. f[k] = g[<<f[k - 1], k>>]
      BY <1>1, <3>1
    <3> QED
      BY <2>2, <3>1, <3>2
  <2> QED
    BY <2>3, <2>4
<1> HIDE DEF h
<1>8. Iterates(h, m + 1, V, b, g)
  BY <1>5, <1>6, <1>7 DEF Iterates
<1> QED
  BY <1>8 DEF h

\* So there is one up to any number.
LEMMA Recursion ==
  ASSUME NEW V, NEW b \in V, NEW n \in Nat, NEW g \in [V \X (1 .. n) -> V]
  PROVE  \E f : Iterates(f, n, V, b, g)
<1> DEFINE S == {m \in Nat : m <= n => \E f : Iterates(f, m, V, b, g)}
<1>1. 0 \in S
  BY IteratesFirst
<1>2. ASSUME NEW m \in Nat, m \in S PROVE m + 1 \in S
  <2> SUFFICES ASSUME m + 1 <= n PROVE \E f : Iterates(f, m + 1, V, b, g)
    OBVIOUS
  <2>1. PICK f : Iterates(f, m, V, b, g)
    BY <1>2
  <2> QED
    BY <2>1, IteratesNext
<1> HIDE DEF S
<1>3. n \in S
  BY <1>1, <1>2, NatSets
<1> QED
  BY <1>3 DEF S

\* The element of a set that has one.
LEMMA TheOne == ASSUME NEW x PROVE The({x}) = x
<1>1. \A y \in {x} : y = x
  OBVIOUS
<1>2. (CHOOSE y \in {x} : TRUE) \in {x}
  OBVIOUS
<1> QED
  BY <1>2 DEF The

----------------------------------------------------------------------------
(* Electing parents and a rank.                                             *)

\* Ranks through neighbours are ranks.
LEMMA ViaType ==
  ASSUME NEW n \in Nodes, NEW s \in NodeRecords, NEW m \in Nodes
  PROVE  /\ RankThrough(n, s, m) \in Ranks
         /\ RankThrough(n, s, m) < Infinite =>
              /\ m \in s.linked /\ s.heard[m] < Infinite
              /\ RankThrough(n, s, m) = s.heard[m] + Cost[n][m]
              /\ s.heard[m] < RankThrough(n, s, m)
         /\ RankThrough(n, s, m) = Infinite \/ RankThrough(n, s, m) < Infinite
<1>1. Cost[n][m] \in Nat \ {0} /\ MaxRank \in Nat \ {0}
  BY RouteAssumption
<1>2. s.heard[m] \in 0 .. MaxRank
  BY DEF NodeRecords, Ranks, Infinite
<1>3. CASE m \notin s.linked \/ s.heard[m] = Infinite \/ s.heard[m] + Cost[n][m] >= MaxRank
  <2>1. RankThrough(n, s, m) = Infinite
    BY <1>3 DEF RankThrough
  <2> QED
    BY <1>1, <2>1 DEF Ranks, Infinite
<1>4. CASE ~(m \notin s.linked \/ s.heard[m] = Infinite \/ s.heard[m] + Cost[n][m] >= MaxRank)
  <2>1. RankThrough(n, s, m) = s.heard[m] + Cost[n][m]
    BY <1>4 DEF RankThrough
  <2> QED
    BY <1>1, <1>2, <1>4, <2>1 DEF Ranks, Infinite
<1> QED
  BY <1>3, <1>4

\* Some candidate comes before all others.
LEMMA FirstCandidate ==
  ASSUME NEW n \in Nodes, NEW via \in [Nodes -> Ranks], NEW C \in SUBSET Nodes, C # {}
  PROVE  \E m \in C : \A o \in C : ~Before(n, via, o, m)
<1>1. \A m \in Nodes : via[m] \in Nat /\ Slot[n][m] \in Nat
  BY RouteAssumption DEF Ranks, Infinite
<1> DEFINE V == {via[m] : m \in C}
<1>2. PICK v \in V : \A w \in V : v <= w
  <2>1. V \in SUBSET Nat /\ V # {}
    BY <1>1
  <2> HIDE DEF V
  <2> QED
    BY <2>1, LeastNatural
<1> DEFINE S == {Slot[n][m] : m \in {o \in C : via[o] = v}}
<1>3. PICK x \in S : \A y \in S : x <= y
  <2>1. S \in SUBSET Nat /\ S # {}
    BY <1>1, <1>2
  <2> HIDE DEF S
  <2> QED
    BY <2>1, LeastNatural
<1>4. PICK m \in C : via[m] = v /\ Slot[n][m] = x
  BY <1>3
<1>5. ASSUME NEW o \in C PROVE ~Before(n, via, o, m)
  <2>1. via[o] \in V /\ v <= via[o]
    BY <1>2
  <2>2. via[o] = v => x <= Slot[n][o]
    BY <1>3
  <2> QED
    BY <1>1, <1>4, <2>1, <2>2 DEF Before
<1> QED
  BY <1>5

\* The set that Parents takes the first of.
Candidates(via, heard) == {m \in Nodes : via[m] < Infinite /\ heard[m] < via[m]}

\* There are parents if there are candidates, and the first parent is the
\* cheapest candidate.
LEMMA ParentsFacts ==
  ASSUME NEW n \in Nodes, NEW via \in [Nodes -> Ranks], NEW heard
  PROVE  LET C == Candidates(via, heard)
             P == Parents(n, via, heard)
         IN /\ P \subseteq C
            /\ P = {} => C = {}
            /\ P # {} => \E m \in P : \A o \in P : ~Before(n, via, o, m)
            /\ \A m \in P : (\A o \in P : ~Before(n, via, o, m)) =>
                 \A o \in C : via[m] <= via[o]
<1> DEFINE C == Candidates(via, heard)
           P == Parents(n, via, heard)
           B(m) == {o \in C : Before(n, via, o, m)}
<1>1. P = {m \in C : Cardinality(B(m)) < MaxParents}
  BY DEF Parents, Candidates
<1>2. P \subseteq C /\ C \subseteq Nodes
  BY <1>1 DEF Candidates
<1>3. ASSUME C # {}
      PROVE  \E m \in P : \A o \in C : ~Before(n, via, o, m)
  <2>1. PICK m \in C : \A o \in C : ~Before(n, via, o, m)
    BY <1>2, <1>3, FirstCandidate
  <2>2. B(m) = {}
    BY <2>1
  <2>3. Cardinality(B(m)) = 0 /\ 0 < MaxParents
    BY <2>2, FS_EmptySet, RouteAssumption
  <2>4. m \in P
    BY <1>1, <2>3
  <2> QED
    BY <2>1, <2>4
<1>4. ASSUME NEW m \in P, \A o \in P : ~Before(n, via, o, m)
      PROVE  \A o \in C : via[m] <= via[o]
  <2>0. C # {}
    BY <1>2
  <2>1. PICK c \in P : \A o \in C : ~Before(n, via, o, c)
    BY <1>3, <2>0
  <2>2. \A o \in C : via[o] \in Nat
    <3>1. \A o \in Nodes : via[o] \in Nat
      BY RouteAssumption DEF Ranks, Infinite
    <3> HIDE DEF C
    <3> QED
      BY <1>2, <3>1
  <2>3. ~(via[c] < via[m]) /\ \A o \in C : ~(via[o] < via[c])
    BY <1>4, <2>1 DEF Before
  <2> HIDE DEF C, P
  <2>4. c \in C /\ m \in C
    BY <1>2
  <2> QED
    BY <2>2, <2>3, <2>4
<1> QED
  BY <1>2, <1>3, <1>4

\* The rank that is elected is that through a parent, and within the hysteresis
\* of any other.
LEMMA NewRankFacts ==
  ASSUME NEW n \in Nodes, NEW via \in [Nodes -> Ranks], NEW heard, NEW using
  PROVE  LET C == Candidates(via, heard)
             P == Parents(n, via, heard)
             r == NewRank(n, via, P, using)
         IN \/ P = {} /\ C = {} /\ r = Infinite
            \/ \E m \in P : r = via[m] /\ \A o \in C : via[m] <= via[o] + Hysteresis
<1> DEFINE C == Candidates(via, heard)
           P == Parents(n, via, heard)
           best == CHOOSE m \in P : \A o \in P : ~Before(n, via, o, m)
           kept == {m \in using \cap P : via[m] <= via[best] + Hysteresis}
           r == NewRank(n, via, P, using)
<1>1. CASE P = {}
  BY <1>1, ParentsFacts DEF NewRank
<1>2. CASE P # {}
  <2>1. best \in P /\ \A o \in P : ~Before(n, via, o, best)
    BY <1>2, ParentsFacts
  <2>2. P \subseteq C /\ \A o \in C : via[best] <= via[o]
    BY <2>1, ParentsFacts
  <2>3. \A o \in C : via[o] \in Nat /\ Hysteresis \in Nat
    BY RouteAssumption DEF Candidates, Ranks, Infinite
  <2>4. r = via[IF kept = {} THEN best ELSE CHOOSE m \in kept : TRUE]
    BY <1>2 DEF NewRank
  <2> HIDE DEF best, C, P, r
  <2>5. CASE kept = {}
    <3>1. r = via[best]
      BY <2>4, <2>5
    <3>2. \A o \in C : via[best] <= via[o] + Hysteresis
      BY <2>1, <2>2, <2>3
    <3> QED
      BY <2>1, <3>1, <3>2 DEF C, P, r
  <2>6. CASE kept # {}
    <3>1. PICK m \in kept : r = via[m]
      BY <2>4, <2>6
    <3>2. m \in P /\ via[m] <= via[best] + Hysteresis
      OBVIOUS
    <3>3. \A o \in C : via[m] <= via[o] + Hysteresis
      BY <2>1, <2>2, <2>3, <3>2
    <3> QED
      BY <3>1, <3>2, <3>3 DEF C, P, r
  <2> QED
    BY <2>5, <2>6
<1> QED
  BY <1>1, <1>2

\* What the rank of n says of what it has heard: it is zero at a sink, infinite
\* if no neighbour offers less, and otherwise that through some neighbour and
\* within the hysteresis of any other.
Elect(n, s) ==
  \/ s.backhaul /\ s.rank = 0
  \/ ~s.backhaul /\ s.rank = Infinite /\ \A m \in Nodes : RankThrough(n, s, m) = Infinite
  \/ /\ ~s.backhaul /\ s.rank < Infinite
     /\ \E m \in Nodes : RankThrough(n, s, m) = s.rank
     /\ \A m \in Nodes : s.rank <= RankThrough(n, s, m) + Hysteresis

\* A record and what an election makes of it.
SameLinks(s, q) ==
  /\ q.linked = s.linked /\ q.heard = s.heard /\ q.staged = s.staged
  /\ q.age = s.age /\ (q.backhaul <=> s.backhaul)

SameNews(s, q) == (q.urgent <=> s.urgent) /\ q.told = s.told

Announced(s, q) ==
  \/ q.rank = s.rank /\ SameNews(s, q)
  \/ q.urgent /\ q.told = {}
  \/ q.backhaul /\ q.rank = 0 /\ SameNews(s, q)

Good(q) == q \in NodeRecords /\ q.parents \subseteq q.linked

\* It is said of no other fields.
LEMMA ElectSame ==
  ASSUME NEW n \in Nodes, NEW s \in NodeRecords, NEW q \in NodeRecords, Elect(n, s),
         q.linked = s.linked, q.heard = s.heard, q.backhaul <=> s.backhaul, q.rank = s.rank
  PROVE  Elect(n, q)
<1>1. \A m \in Nodes : RankThrough(n, q, m) = RankThrough(n, s, m)
  BY DEF RankThrough
<1> QED
  BY <1>1 DEF Elect

\* The nested constructors of Recompute name their elements.
LEMMA RecomputeIs ==
  ASSUME NEW n, NEW s, ~s.backhaul
  PROVE  LET via == [m \in Nodes |-> RankThrough(n, s, m)]
             parents == Parents(n, via, s.heard)
         IN Recompute(n, s) = Elected(s, parents, NewRank(n, via, parents, ForwardsTo(n, s)))
<1> DEFINE via == [m \in Nodes |-> RankThrough(n, s, m)]
           E(v, parents) == Elected(s, parents, NewRank(n, v, parents, ForwardsTo(n, s)))
           I(v) == The({E(v, parents) : parents \in {Parents(n, v, s.heard)}})
<1>1. Recompute(n, s) = The({I(v) : v \in {via}})
  BY Zenon DEF Recompute
<1> HIDE DEF E
<1>2. ASSUME NEW v PROVE I(v) = E(v, Parents(n, v, s.heard))
  <2>1. {E(v, parents) : parents \in {Parents(n, v, s.heard)}} = {E(v, Parents(n, v, s.heard))}
    BY Zenon
  <2> QED
    BY <2>1, TheOne
<1> HIDE DEF I, via
<1>3. {I(v) : v \in {via}} = {I(via)}
  BY Zenon
<1>4. Recompute(n, s) = E(via, Parents(n, via, s.heard))
  BY <1>1, <1>2, <1>3, TheOne
<1> QED
  BY <1>4 DEF E, via

\* lg_route_recompute elects, leaves the links alone and announces a new rank,
\* but for a sink's.
LEMMA RecomputeFacts ==
  ASSUME NEW n \in Nodes, NEW s \in NodeRecords
  PROVE  LET q == Recompute(n, s)
         IN Good(q) /\ SameLinks(s, q) /\ Announced(s, q) /\ Elect(n, q)
<1> DEFINE q == Recompute(n, s)
<1>1. CASE s.backhaul
  <2>1. q = [s EXCEPT !.rank = 0, !.parents = {}]
    BY <1>1 DEF Recompute
  <2>2. 0 \in Ranks
    BY RouteAssumption DEF Ranks, Infinite
  <2> HIDE DEF q
  <2>3. q \in NodeRecords /\ q.parents = {} /\ q.backhaul = s.backhaul /\ q.rank = 0
    BY <2>1, <2>2 DEF NodeRecords
  <2>4. SameLinks(s, q) /\ SameNews(s, q)
    BY <2>1 DEF NodeRecords, SameLinks, SameNews
  <2> QED
    BY <1>1, <2>3, <2>4 DEF q, Good, Announced, Elect
<1>2. CASE ~s.backhaul
  <2> DEFINE via == [m \in Nodes |-> RankThrough(n, s, m)]
             P == Parents(n, via, s.heard)
             C == Candidates(via, s.heard)
             r == NewRank(n, via, P, ForwardsTo(n, s))
  <2>1. q = Elected(s, P, r)
    BY <1>2, RecomputeIs
  <2>2. via \in [Nodes -> Ranks]
    BY ViaType
  <2>3. \/ P = {} /\ C = {} /\ r = Infinite
        \/ \E m \in P : r = via[m] /\ \A o \in C : via[m] <= via[o] + Hysteresis
    BY <2>2, NewRankFacts
  <2>4. P \subseteq C
    BY <2>2, ParentsFacts
  <2>5. \A m \in Nodes : via[m] = RankThrough(n, s, m)
    OBVIOUS
  <2>6. \A m \in C : m \in Nodes /\ m \in s.linked /\ via[m] < Infinite
    BY <2>5, ViaType DEF Candidates
  <2>7. \A m \in Nodes \ C : via[m] = Infinite
    BY <2>5, ViaType DEF Candidates
  <2> HIDE DEF via, P, C, r, q
  <2>8. r \in Ranks /\ P \in SUBSET Nodes /\ P \subseteq s.linked
    <3>1. Infinite \in Ranks
      BY RouteAssumption DEF Ranks, Infinite
    <3> QED
      BY <2>2, <2>3, <2>4, <2>6, <3>1
  <2>9. /\ q \in NodeRecords /\ q.parents = P /\ q.rank = r
        /\ q.linked = s.linked /\ q.heard = s.heard /\ q.staged = s.staged /\ q.age = s.age
        /\ (q.backhaul <=> s.backhaul)
    BY <2>1, <2>8 DEF Elected, NodeRecords
  <2>10. r = s.rank => SameNews(s, q)
    BY <2>1 DEF Elected, NodeRecords, SameNews
  <2>11. r # s.rank => q.urgent /\ q.told = {}
    BY <2>1 DEF Elected, NodeRecords
  <2>12. Elect(n, q)
    <3>1. \A m \in Nodes : RankThrough(n, q, m) = via[m]
      BY <2>5, <2>9 DEF RankThrough
    <3>2. Hysteresis \in Nat /\ Infinite \in Nat /\ \A m \in Nodes : via[m] \in 0 .. Infinite
      BY <2>2, RouteAssumption DEF Ranks, Infinite
    <3>3. CASE P = {} /\ C = {} /\ r = Infinite
      BY <1>2, <2>7, <2>9, <3>1, <3>3 DEF Elect
    <3>4. ASSUME NEW m \in P, r = via[m], \A o \in C : via[m] <= via[o] + Hysteresis
          PROVE  Elect(n, q)
      <4>1. m \in Nodes /\ via[m] < Infinite
        BY <2>4, <2>6
      <4>2. \A o \in Nodes : via[m] <= via[o] + Hysteresis
        BY <2>7, <3>2, <3>4, <4>1
      <4>3. ~q.backhaul
        BY <1>2, <2>9
      <4> QED
        BY <2>9, <3>1, <3>4, <4>1, <4>2, <4>3 DEF Elect
    <3> QED
      BY <2>3, <3>3, <3>4
  <2>13. Good(q) /\ SameLinks(s, q)
    BY <2>8, <2>9 DEF Good, SameLinks
  <2>14. Announced(s, q)
    BY <2>9, <2>10, <2>11 DEF Announced
  <2> QED
    BY <2>12, <2>13, <2>14 DEF q
<1> QED
  BY <1>1, <1>2

----------------------------------------------------------------------------
(* One end of an event.                                                     *)

\* s has news that m has not been told.
Pending(s, m) == s.urgent /\ m \notin s.told

\* A record and what it becomes without touching its links.
Keeps(s, q) == q.linked = s.linked /\ (q.backhaul <=> s.backhaul)

\* The rank has not moved, or all neighbours will be told.
Moved(s, q) == (q.rank = s.rank /\ SameNews(s, q)) \/ (q.urgent /\ q.told = {})

\* The steps of AfterEvent in turn: time passes, an advertisement is heard, a
\* frame is staged.
LEMMA AgedFacts ==
  ASSUME NEW n \in Nodes, NEW m \in Nodes, NEW s, Good(s), Elect(n, s)
  PROVE  LET q == Aged(s, m)
         IN /\ Good(q) /\ Elect(n, q) /\ Keeps(s, q) /\ SameNews(s, q)
            /\ q.rank = s.rank /\ q.heard = s.heard /\ q.staged = s.staged
            /\ \A o \in Nodes : o # m => q.age[o] = s.age[o]
            /\ s.age[m] = AdvPeriod => q.age[m] = AdvPeriod
<1> DEFINE a == IF Repeats /\ s.age[m] < AdvPeriod THEN s.age[m] + 1 ELSE s.age[m]
           q == Aged(s, m)
<1>1. q = [s EXCEPT !.age[m] = a]
  BY DEF Aged
<1>2. s \in NodeRecords /\ s.parents \subseteq s.linked
  BY DEF Good
<1>3. s.age[m] \in 0 .. AdvPeriod /\ AdvPeriod \in Nat
  BY <1>2, RouteAssumption DEF NodeRecords
<1>4. a \in 0 .. AdvPeriod /\ (s.age[m] = AdvPeriod => a = AdvPeriod)
  BY <1>3
<1> HIDE DEF a, q
<1>5. /\ q \in NodeRecords /\ q.parents = s.parents
      /\ q.linked = s.linked /\ q.heard = s.heard /\ q.rank = s.rank /\ q.staged = s.staged
      /\ (q.backhaul <=> s.backhaul) /\ SameNews(s, q)
  BY <1>1, <1>2, <1>4 DEF NodeRecords, SameNews
<1>6. q.age[m] = a /\ \A o \in Nodes : o # m => q.age[o] = s.age[o]
  BY <1>1, <1>2 DEF NodeRecords
<1>7. Elect(n, q)
  BY <1>2, <1>5, ElectSame
<1> QED
  BY <1>2, <1>4, <1>5, <1>6, <1>7 DEF Good, Keeps, q

LEMMA HandleAdvFacts ==
  ASSUME NEW n \in Nodes, NEW m \in Nodes, NEW s, Good(s), Elect(n, s),
         NEW r \in Ranks \cup {NoAdv}
  PROVE  LET q == HandleAdv(n, s, m, r)
         IN /\ Good(q) /\ Elect(n, q) /\ Keeps(s, q) /\ Moved(s, q)
            /\ q.staged = s.staged
            /\ \A o \in Nodes : o # m => q.heard[o] = s.heard[o] /\ q.age[o] = s.age[o]
            /\ r = NoAdv => q = s
            /\ r # NoAdv => q.heard[m] = r
<1> DEFINE q == HandleAdv(n, s, m, r)
<1>1. CASE r = NoAdv
  BY <1>1 DEF HandleAdv, Keeps, Moved, SameNews
<1>2. CASE r # NoAdv
  <2> DEFINE h == [s EXCEPT !.heard[m] = r, !.age[m] = 0]
  <2>1. q = The({Recompute(n, x) : x \in {h}})
    BY <1>2 DEF HandleAdv
  <2>2. s \in NodeRecords /\ r \in Ranks /\ 0 \in 0 .. AdvPeriod
    BY <1>2, RouteAssumption DEF Good
  <2>3. h \in NodeRecords
    BY <2>2 DEF NodeRecords
  <2>4. /\ h.linked = s.linked /\ h.staged = s.staged /\ h.rank = s.rank
        /\ (h.backhaul <=> s.backhaul) /\ SameNews(s, h) /\ h.heard[m] = r
        /\ \A o \in Nodes : o # m => h.heard[o] = s.heard[o] /\ h.age[o] = s.age[o]
    BY <2>2 DEF NodeRecords, SameNews
  <2> HIDE DEF h, q
  <2>5. q = Recompute(n, h)
    <3>1. {Recompute(n, x) : x \in {h}} = {Recompute(n, h)}
      BY Zenon
    <3> QED
      BY <2>1, <3>1, TheOne
  <2>6. Good(q) /\ SameLinks(h, q) /\ Announced(h, q) /\ Elect(n, q)
    BY <2>3, <2>5, RecomputeFacts
  <2>7. Moved(s, q)
    <3>1. s.backhaul => s.rank = 0
      BY RouteAssumption, <2>2 DEF Elect
    <3>2. q.backhaul => s.backhaul
      BY <2>4, <2>6 DEF SameLinks
    <3>3. SameNews(h, q) => SameNews(s, q)
      BY <2>4 DEF SameNews
    <3> QED
      BY <2>4, <2>6, <3>1, <3>2, <3>3 DEF Announced, Moved
  <2> QED
    BY <1>2, <2>4, <2>6, <2>7 DEF SameLinks, Keeps, q
<1> QED
  BY <1>1, <1>2

\* What staging for m makes of s.
StagedFor(m, s, q) ==
  /\ q.rank = s.rank /\ q.heard = s.heard
  /\ \A o \in Nodes : o # m =>
       /\ q.staged[o] = s.staged[o] /\ q.age[o] = s.age[o]
       /\ o \in s.linked /\ Pending(s, o) => Pending(q, o)
  /\ \/ q.staged[m] = q.rank
     \/ q.staged[m] = NoAdv /\ ~Pending(s, m) /\ s.age[m] # AdvPeriod

LEMMA StageFacts ==
  ASSUME NEW n \in Nodes, NEW m \in Nodes, NEW s, Good(s), Elect(n, s)
  PROVE  LET q == Stage(s, m)
         IN Good(q) /\ Elect(n, q) /\ Keeps(s, q) /\ StagedFor(m, s, q)
<1> DEFINE q == Stage(s, m)
           u == \E o \in s.linked : o \notin s.told \cup {m}
<1>1. s \in NodeRecords /\ s.parents \subseteq s.linked
  BY DEF Good
<1>2. CASE Pending(s, m) \/ s.age[m] = AdvPeriod
  <2>1. q = [s EXCEPT !.staged[m] = s.rank, !.age[m] = 0, !.told = s.told \cup {m}, !.urgent = u]
    BY <1>2 DEF Stage, Pending
  <2>2. s.told \cup {m} \in SUBSET Nodes /\ 0 \in 0 .. AdvPeriod /\ u \in BOOLEAN
    BY <1>1, RouteAssumption DEF NodeRecords
  <2>3. u <=> \E o \in s.linked : o \notin s.told \cup {m}
    OBVIOUS
  <2> HIDE DEF q, u
  <2>4. /\ q \in NodeRecords /\ q.parents = s.parents /\ q.linked = s.linked
        /\ q.heard = s.heard /\ q.rank = s.rank /\ (q.backhaul <=> s.backhaul)
        /\ q.told = s.told \cup {m} /\ q.urgent = u
    BY <1>1, <2>1, <2>2 DEF NodeRecords
  <2>5. /\ q.staged[m] = s.rank
        /\ \A o \in Nodes : o # m => q.staged[o] = s.staged[o] /\ q.age[o] = s.age[o]
    BY <1>1, <2>1 DEF NodeRecords
  <2>6. Elect(n, q)
    BY <1>1, <2>4, ElectSame
  <2>7. \A o \in Nodes : o # m /\ o \in s.linked /\ Pending(s, o) => Pending(q, o)
    BY <2>3, <2>4, Zenon DEF Pending
  <2>8. StagedFor(m, s, q)
    BY <2>4, <2>5, <2>7 DEF StagedFor
  <2> QED
    BY <1>1, <2>4, <2>6, <2>8 DEF Good, Keeps, q
<1>3. CASE ~(Pending(s, m) \/ s.age[m] = AdvPeriod)
  <2>1. q = [s EXCEPT !.staged[m] = NoAdv]
    BY <1>3 DEF Stage, Pending
  <2> HIDE DEF q
  <2>2. /\ q \in NodeRecords /\ q.parents = s.parents /\ q.linked = s.linked
        /\ q.heard = s.heard /\ q.rank = s.rank /\ (q.backhaul <=> s.backhaul)
        /\ q.told = s.told /\ (q.urgent <=> s.urgent) /\ q.age = s.age
    BY <1>1, <2>1 DEF NodeRecords
  <2>3. q.staged[m] = NoAdv /\ \A o \in Nodes : o # m => q.staged[o] = s.staged[o]
    BY <1>1, <2>1 DEF NodeRecords
  <2>4. Elect(n, q)
    BY <1>1, <2>2, ElectSame
  <2>5. \A o \in Nodes : Pending(s, o) => Pending(q, o)
    BY <2>2 DEF Pending
  <2>6. StagedFor(m, s, q)
    BY <1>3, <2>2, <2>3, <2>5 DEF StagedFor
  <2> QED
    BY <1>1, <2>2, <2>4, <2>6 DEF Good, Keeps, q
<1> QED
  BY <1>2, <1>3

\* What is left of what s was telling its other neighbours: nothing is lost.
StillTold(s, q, o) ==
  Pending(q, o) \/ (q.rank = s.rank /\ (Pending(s, o) => Pending(q, o)))

\* What an end knows, stages and has yet to tell after an event in which it
\* received r.
LEMMA AfterEventFacts ==
  ASSUME NEW n \in Nodes, NEW m \in Nodes, Good(node[n]), Elect(n, node[n]),
         NEW r \in Ranks \cup {NoAdv}
  PROVE  LET s == node[n]
             q == AfterEvent(n, m, r)
         IN /\ Good(q) /\ Elect(n, q) /\ Keeps(s, q)
            /\ \A o \in Nodes : o # m =>
                 /\ q.heard[o] = s.heard[o] /\ q.staged[o] = s.staged[o]
                 /\ q.age[o] = s.age[o] /\ (o \in s.linked => StillTold(s, q, o))
            /\ r = NoAdv => q.heard[m] = s.heard[m]
            /\ r # NoAdv => q.heard[m] = r
            /\ \/ q.staged[m] = q.rank
               \/ /\ q.staged[m] = NoAdv /\ q.rank = s.rank /\ ~Pending(s, m)
                  /\ ~(s.age[m] = AdvPeriod /\ r = NoAdv)
<1> DEFINE s == node[n]
           a == Aged(s, m)
           h == HandleAdv(n, a, m, r)
           q == AfterEvent(n, m, r)
<1>1. q = Stage(h, m)
  <2>1. {HandleAdv(n, x, m, r) : x \in {a}} = {h}
    BY Zenon
  <2>2. {Stage(x, m) : x \in {h}} = {Stage(h, m)}
    BY Zenon
  <2>3. q = The({Stage(x, m) : x \in {HandleAdv(n, y, m, r) : y \in {a}}})
    BY Zenon DEF AfterEvent
  <2> HIDE DEF a, h, q
  <2> QED
    BY <2>1, <2>2, <2>3, TheOne
<1> HIDE DEF q, h, a, s
<1>2. /\ Good(a) /\ Elect(n, a) /\ Keeps(s, a) /\ SameNews(s, a)
      /\ a.rank = s.rank /\ a.heard = s.heard /\ a.staged = s.staged
      /\ \A o \in Nodes : o # m => a.age[o] = s.age[o]
      /\ s.age[m] = AdvPeriod => a.age[m] = AdvPeriod
  BY AgedFacts DEF a, s
<1>3. /\ Good(h) /\ Elect(n, h) /\ Keeps(a, h) /\ Moved(a, h)
      /\ h.staged = a.staged
      /\ \A o \in Nodes : o # m => h.heard[o] = a.heard[o] /\ h.age[o] = a.age[o]
      /\ r = NoAdv => h = a
      /\ r # NoAdv => h.heard[m] = r
  BY <1>2, HandleAdvFacts DEF h
<1>4. Good(q) /\ Elect(n, q) /\ Keeps(h, q) /\ StagedFor(m, h, q)
  BY <1>1, <1>3, StageFacts
<1>5. Keeps(s, q) /\ h.linked = s.linked
  BY <1>2, <1>3, <1>4 DEF Keeps
<1>6. \A o : \/ Pending(h, o)
             \/ h.rank = s.rank /\ (Pending(s, o) <=> Pending(h, o))
  BY <1>2, <1>3 DEF Moved, SameNews, Pending
<1>7. \A o \in Nodes : o # m /\ o \in s.linked => StillTold(s, q, o)
  BY <1>4, <1>5, <1>6 DEF StillTold, StagedFor
<1>8. (r = NoAdv => q.heard[m] = s.heard[m]) /\ (r # NoAdv => q.heard[m] = r)
  BY <1>2, <1>3, <1>4 DEF StagedFor
<1>9. \/ q.staged[m] = q.rank
      \/ /\ q.staged[m] = NoAdv /\ q.rank = s.rank /\ ~Pending(s, m)
         /\ ~(s.age[m] = AdvPeriod /\ r = NoAdv)
  BY <1>2, <1>3, <1>4, <1>6 DEF StagedFor
<1> QED
  BY <1>2, <1>3, <1>4, <1>5, <1>7, <1>8, <1>9 DEF StagedFor, s, q

----------------------------------------------------------------------------
(* The inductive invariant.                                                 *)

\* What m, whose record is t, knows of the rank of n, whose record is s: it has
\* heard it, or it will, for n has staged it or has yet to tell m.  An uplink
\* that comes up is not pushed.  On a link that has not carried an advertisement
\* m believes of n what lg_link_establish made it believe, its own rank, which n
\* is not below.
KnowsOf(s, t, n, m, up) ==
  \/ t.heard[n] = s.rank /\ s.staged[m] = NoAdv
  \/ s.staged[m] = s.rank
  \/ Pending(s, m)
  \/ up /\ s.rank = 0
  \/ /\ s.age[m] = AdvPeriod /\ t.staged[n] = NoAdv
     /\ \/ Pending(t, n)
        \/ t.rank <= t.heard[n] /\ t.heard[n] <= s.rank

Up == "up" \in had

AllElected == \A n \in Nodes : Good(node[n]) /\ Elect(n, node[n])

\* A link within range has two ends.
BothEnds ==
  \A n, m \in Nodes :
    Pair(n, m) \in inRange => (m \in node[n].linked <=> n \in node[m].linked)

\* Nothing has been staged for, or sent to, a node there has been no link to.
Unused ==
  \A n, m \in Nodes :
    Pair(n, m) \in inRange /\ m \notin node[n].linked =>
      node[n].staged[m] = NoAdv /\ node[n].age[m] = AdvPeriod

Linked(n, m) == n # m /\ m \in node[n].linked /\ n \in node[m].linked

Known ==
  "loss" \notin had =>
    \A n, m \in Nodes : Linked(n, m) => KnowsOf(node[n], node[m], n, m, Up)

Sound ==
  /\ TypeOK
  /\ AllElected
  /\ BothEnds
  /\ Unused
  /\ Known

\* What changes at one end of a link of which nothing is heard meanwhile.
Kept(s, q, m, up) ==
  /\ q.heard[m] = s.heard[m] /\ q.staged[m] = s.staged[m] /\ q.age[m] = s.age[m]
  /\ \/ StillTold(s, q, m)
     \/ up /\ q.rank = 0 /\ (Pending(s, m) => Pending(q, m))

\* Then each still knows of the other what it knew.
LEMMA KnowsKept ==
  ASSUME NEW n \in Nodes, NEW m \in Nodes, NEW s, NEW t, NEW q, NEW p, NEW up, NEW vp,
         Good(t), KnowsOf(s, t, n, m, up), up => vp, Kept(s, q, m, vp), Kept(t, p, n, vp)
  PROVE  KnowsOf(q, p, n, m, vp)
<1>1. t.heard[n] \in Nat
  BY RouteAssumption DEF Good, NodeRecords, Ranks, Infinite
<1>2. /\ q.staged[m] = s.staged[m] /\ q.age[m] = s.age[m]
      /\ p.staged[n] = t.staged[n] /\ p.heard[n] = t.heard[n]
  BY DEF Kept
<1>3. CASE Pending(q, m) \/ (vp /\ q.rank = 0)
  BY <1>3 DEF KnowsOf
<1>4. CASE ~(Pending(q, m) \/ (vp /\ q.rank = 0))
  <2>1. q.rank = s.rank /\ ~Pending(s, m) /\ ~(up /\ s.rank = 0)
    BY <1>4 DEF Kept, StillTold
  <2>2. CASE t.heard[n] = s.rank /\ s.staged[m] = NoAdv
    BY <1>2, <2>1, <2>2 DEF KnowsOf
  <2>3. CASE s.staged[m] = s.rank
    BY <1>2, <2>1, <2>3 DEF KnowsOf
  <2>4. ASSUME s.age[m] = AdvPeriod, t.staged[n] = NoAdv,
               Pending(t, n) \/ (t.rank <= t.heard[n] /\ t.heard[n] <= s.rank)
        PROVE  KnowsOf(q, p, n, m, vp)
    <3>1. Pending(p, n) \/ p.rank = t.rank \/ p.rank = 0
      BY DEF Kept, StillTold
    <3>2. Pending(t, n) => Pending(p, n)
      BY DEF Kept, StillTold
    <3>3. Pending(p, n) \/ (p.rank <= p.heard[n] /\ p.heard[n] <= q.rank)
      BY <1>1, <1>2, <2>1, <2>4, <3>1, <3>2
    <3> QED
      BY <1>2, <2>4, <3>3 DEF KnowsOf
  <2> QED
    BY <2>1, <2>2, <2>3, <2>4 DEF KnowsOf
<1> QED
  BY <1>3, <1>4

\* The two records after an event at which both frames arrived.
LEMMA KnowsExchanged ==
  ASSUME NEW n \in Nodes, NEW m \in Nodes, NEW s, NEW t, NEW q, NEW p, NEW up,
         Good(s), KnowsOf(s, t, n, m, up),
         s.staged[m] = NoAdv => p.heard[n] = t.heard[n],
         s.staged[m] # NoAdv => p.heard[n] = s.staged[m],
         \/ q.staged[m] = q.rank
         \/ /\ q.staged[m] = NoAdv /\ q.rank = s.rank /\ ~Pending(s, m)
            /\ ~(s.age[m] = AdvPeriod /\ t.staged[n] = NoAdv)
  PROVE  KnowsOf(q, p, n, m, up)
<1>1. s.rank # NoAdv
  BY RouteAssumption DEF Good, NodeRecords, Ranks, Infinite, NoAdv
<1>2. CASE q.staged[m] = q.rank
  BY <1>2 DEF KnowsOf
<1>3. CASE q.staged[m] # q.rank
  <2>1. /\ q.staged[m] = NoAdv /\ q.rank = s.rank /\ ~Pending(s, m)
        /\ ~(s.age[m] = AdvPeriod /\ t.staged[n] = NoAdv)
    BY <1>3
  <2>2. \/ t.heard[n] = s.rank /\ s.staged[m] = NoAdv
        \/ s.staged[m] = s.rank
        \/ up /\ s.rank = 0
    BY <2>1 DEF KnowsOf
  <2>3. p.heard[n] = s.rank \/ (up /\ s.rank = 0)
    BY <1>1, <2>2
  <2> QED
    BY <2>1, <2>3 DEF KnowsOf
<1> QED
  BY <1>2, <1>3

\* An election after something else about the node's record has changed.
Shifted(s, q, up) ==
  Moved(s, q) \/ (up /\ q.rank = 0 /\ SameNews(s, q))

LEMMA ShiftedKept ==
  ASSUME NEW s, NEW q, NEW m, NEW up, Shifted(s, q, up),
         q.heard[m] = s.heard[m], q.staged[m] = s.staged[m], q.age[m] = s.age[m]
  PROVE  Kept(s, q, m, up)
BY DEF Shifted, Moved, SameNews, Kept, StillTold, Pending

\* What is left of a node's news when it elects with a changed record h.
LEMMA RecomputeShifted ==
  ASSUME NEW n \in Nodes, NEW s, Good(s), Elect(n, s), NEW h \in NodeRecords,
         h.rank = s.rank, SameNews(s, h), NEW up, h.backhaul => s.backhaul \/ up
  PROVE  LET q == Recompute(n, h)
         IN Good(q) /\ SameLinks(h, q) /\ Elect(n, q) /\ Shifted(s, q, up)
<1> DEFINE q == Recompute(n, h)
<1>1. Good(q) /\ SameLinks(h, q) /\ Announced(h, q) /\ Elect(n, q)
  BY RecomputeFacts
<1> HIDE DEF q
<1>2. SameNews(h, q) => SameNews(s, q)
  BY DEF SameNews
<1>3. s.backhaul => s.rank = 0
  BY RouteAssumption DEF Elect, Good, NodeRecords
<1>4. q.backhaul => h.backhaul
  BY <1>1 DEF SameLinks
<1>5. Shifted(s, q, up)
  BY <1>1, <1>2, <1>3, <1>4 DEF Announced, Shifted, Moved
<1> QED
  BY <1>1, <1>5 DEF q

\* A record s with a link to m more.
WithLink(m, r, s, q) ==
  /\ q.linked = s.linked \cup {m} /\ q.staged = s.staged /\ q.age = s.age
  /\ q.heard[m] = r /\ \A o \in Nodes : o # m => q.heard[o] = s.heard[o]

\* lg_link_establish and lg_link_down change one link and elect.
LEMMA EstablishFacts ==
  ASSUME NEW n \in Nodes, NEW m \in Nodes, NEW r \in Ranks, Good(node[n]), Elect(n, node[n])
  PROVE  LET q == Establish(n, m, r)
         IN Good(q) /\ Elect(n, q) /\ Shifted(node[n], q, FALSE) /\ WithLink(m, r, node[n], q)
<1> DEFINE s == node[n]
           h == [s EXCEPT !.linked = s.linked \cup {m}, !.heard[m] = r]
           q == Establish(n, m, r)
<1>1. s \in NodeRecords
  BY DEF Good
<1>2. q = Recompute(n, h)
  BY DEF Establish
<1> HIDE DEF s, q
<1>3. h \in NodeRecords
  BY <1>1 DEF NodeRecords
<1>4. /\ h.linked = s.linked \cup {m} /\ h.staged = s.staged /\ h.age = s.age
      /\ h.rank = s.rank /\ SameNews(s, h) /\ (h.backhaul <=> s.backhaul)
      /\ h.heard[m] = r /\ \A o \in Nodes : o # m => h.heard[o] = s.heard[o]
  BY <1>1 DEF NodeRecords, SameNews
<1> HIDE DEF h
<1>5. Good(q) /\ SameLinks(h, q) /\ Elect(n, q) /\ Shifted(s, q, FALSE)
  <2>1. Good(s) /\ Elect(n, s)
    BY DEF s
  <2> QED
    BY <1>2, <1>3, <1>4, <2>1, RecomputeShifted
<1> QED
  BY <1>4, <1>5 DEF SameLinks, WithLink, s, q

LEMMA DroppedFacts ==
  ASSUME NEW n \in Nodes, NEW m \in Nodes, Good(node[n]), Elect(n, node[n])
  PROVE  LET s == node[n]
             q == Dropped(n, m)
         IN /\ Good(q) /\ Elect(n, q) /\ Shifted(s, q, FALSE)
            /\ q.linked = s.linked \ {m} /\ q.heard = s.heard /\ q.age = s.age
            /\ \A o \in Nodes : o # m => q.staged[o] = s.staged[o]
<1> DEFINE s == node[n]
           h == [s EXCEPT !.linked = s.linked \ {m}, !.parents = s.parents \ {m},
                          !.staged[m] = NoAdv]
           q == Dropped(n, m)
<1>1. s \in NodeRecords
  BY DEF Good
<1>2. q = Recompute(n, h)
  BY DEF Dropped
<1> HIDE DEF s, q
<1>3. h \in NodeRecords
  BY <1>1 DEF NodeRecords
<1>4. /\ h.linked = s.linked \ {m} /\ h.heard = s.heard /\ h.age = s.age
      /\ h.rank = s.rank /\ SameNews(s, h) /\ (h.backhaul <=> s.backhaul)
      /\ \A o \in Nodes : o # m => h.staged[o] = s.staged[o]
  BY <1>1 DEF NodeRecords, SameNews
<1> HIDE DEF h
<1>5. Good(q) /\ SameLinks(h, q) /\ Elect(n, q) /\ Shifted(s, q, FALSE)
  <2>1. Good(s) /\ Elect(n, s)
    BY DEF s
  <2> QED
    BY <1>2, <1>3, <1>4, <2>1, RecomputeShifted
<1> QED
  BY <1>4, <1>5 DEF SameLinks, s, q

\* A node's uplink, of which its neighbours learn only through its rank.
LEMMA UplinkFacts ==
  ASSUME NEW n \in Nodes, NEW up \in BOOLEAN, Good(node[n]), Elect(n, node[n])
  PROVE  LET s == node[n]
             q == Recompute(n, [s EXCEPT !.backhaul = up])
         IN /\ Good(q) /\ Elect(n, q) /\ Shifted(s, q, up)
            /\ q.linked = s.linked /\ q.heard = s.heard /\ q.age = s.age
            /\ q.staged = s.staged
<1> DEFINE s == node[n]
           h == [s EXCEPT !.backhaul = up]
           q == Recompute(n, h)
<1>1. s \in NodeRecords
  BY DEF Good
<1> HIDE DEF s
<1>2. h \in NodeRecords
  BY <1>1 DEF NodeRecords
<1>3. /\ h.linked = s.linked /\ h.heard = s.heard /\ h.age = s.age /\ h.staged = s.staged
      /\ h.rank = s.rank /\ SameNews(s, h) /\ (h.backhaul <=> up)
  BY <1>1 DEF NodeRecords, SameNews
<1> HIDE DEF h
<1>4. Good(q) /\ SameLinks(h, q) /\ Elect(n, q) /\ Shifted(s, q, up)
  <2>1. Good(s) /\ Elect(n, s)
    BY DEF s
  <2> QED
    BY <1>2, <1>3, <2>1, RecomputeShifted
<1> HIDE DEF q
<1>5. /\ Good(q) /\ Elect(n, q) /\ Shifted(s, q, up)
      /\ q.linked = s.linked /\ q.heard = s.heard /\ q.age = s.age /\ q.staged = s.staged
  BY <1>3, <1>4 DEF SameLinks
<1> QED
  BY <1>5 DEF s, q, h

----------------------------------------------------------------------------
(* Every step keeps it.                                                     *)

LEMMA InitSound == Init => Sound
<1> SUFFICES ASSUME Init PROVE Sound
  OBVIOUS
<1>1. AdvPeriod \in Nat /\ MaxRank \in Nat \ {0}
  BY RouteAssumption
<1>2. ASSUME NEW n \in Nodes PROVE Good(Fresh(n)) /\ Elect(n, Fresh(n))
  <2>1. /\ Infinite \in Ranks /\ 0 \in Ranks /\ NoAdv \in Ranks \cup {NoAdv}
        /\ AdvPeriod \in 0 .. AdvPeriod
    BY <1>1 DEF Ranks, Infinite
  <2>2. Fresh(n) \in NodeRecords /\ Fresh(n).parents \subseteq Fresh(n).linked
    BY <2>1 DEF NodeRecords, Fresh
  <2>3. \A m \in Nodes : RankThrough(n, Fresh(n), m) = Infinite
    BY DEF RankThrough, Fresh
  <2>4. /\ n \in Seeds => Fresh(n).backhaul /\ Fresh(n).rank = 0
        /\ n \notin Seeds => ~Fresh(n).backhaul /\ Fresh(n).rank = Infinite
    BY DEF Fresh
  <2> QED
    BY <2>2, <2>3, <2>4 DEF Good, Elect
<1>3. \A n \in Nodes : node[n] = Fresh(n)
  BY DEF Init
<1>4. AllElected
  BY <1>2, <1>3 DEF AllElected
<1>5. TypeOK
  BY <1>2, <1>3 DEF Init, TypeOK, Good
<1>6. /\ \A n \in Nodes : node[n].linked = {}
      /\ \A n, m \in Nodes : node[n].staged[m] = NoAdv /\ node[n].age[m] = AdvPeriod
  <2>1. \A n \in Nodes : Fresh(n).linked = {}
    BY DEF Fresh
  <2>2. \A n, m \in Nodes : Fresh(n).staged[m] = NoAdv /\ Fresh(n).age[m] = AdvPeriod
    BY DEF Fresh
  <2> QED
    BY <1>3, <2>1, <2>2
<1>7. BothEnds /\ Known
  BY <1>6 DEF BothEnds, Known, Linked
<1>8. Unused
  BY <1>6 DEF Unused
<1> QED
  BY <1>4, <1>5, <1>7, <1>8 DEF Sound

\* The two ends of each link know of each other what they did, or what the step
\* has told them.
LEMMA KnownNext ==
  ASSUME Sound, Up => Up', "loss" \notin had' => "loss" \notin had,
         \A x, y \in Nodes : Linked(x, y)' =>
           \/ "loss" \notin had' => KnowsOf(node'[x], node'[y], x, y, Up')
           \/ /\ Linked(x, y)
              /\ Kept(node[x], node'[x], y, Up') /\ Kept(node[y], node'[y], x, Up')
  PROVE  Known'
<1> SUFFICES ASSUME "loss" \notin had', NEW x \in Nodes, NEW y \in Nodes, Linked(x, y)'
             PROVE  KnowsOf(node'[x], node'[y], x, y, Up')
  BY Zenon DEF Known
<1>1. CASE /\ Linked(x, y)
           /\ Kept(node[x], node'[x], y, Up') /\ Kept(node[y], node'[y], x, Up')
  <2>1. KnowsOf(node[x], node[y], x, y, Up) /\ Good(node[y])
    BY <1>1 DEF Sound, Known, AllElected
  <2> QED
    BY <1>1, <2>1, KnowsKept
<1> QED
  BY <1>1

LEMMA KeptSame == ASSUME NEW s, NEW m, NEW up PROVE Kept(s, s, m, up)
BY DEF Kept, StillTold

LEMMA PairSame == ASSUME NEW n, NEW m PROVE Pair(n, m) = Pair(m, n)
BY DEF Pair

\* One node's record changes and it has no new link.
LEMMA OneChanges ==
  ASSUME Sound, NEW n \in Nodes, NEW q, Good(q), Elect(n, q), node' = [node EXCEPT ![n] = q],
         inRange' = inRange, had \subseteq had', had' \subseteq Troubles,
         \A o \in Nodes : o \in q.linked => o \in node[n].linked,
         \A o \in Nodes : Pair(n, o) \in inRange => (o \in q.linked <=> o \in node[n].linked),
         Shifted(node[n], q, Up'),
         \A o \in Nodes : (o \in q.linked \/ Pair(n, o) \in inRange) =>
           q.heard[o] = node[n].heard[o] /\ q.staged[o] = node[n].staged[o]
             /\ q.age[o] = node[n].age[o]
  PROVE  Sound'
<1>1. node \in [Nodes -> NodeRecords] /\ q \in NodeRecords
  BY DEF Sound, TypeOK, Good
<1>2. node'[n] = q /\ \A o \in Nodes : o # n => node'[o] = node[o]
  BY <1>1
<1>3. AllElected'
  BY <1>2 DEF Sound, AllElected
<1>4. TypeOK'
  <2>1. node' \in [Nodes -> NodeRecords]
    BY <1>1
  <2> QED
    BY <1>3, <2>1 DEF Sound, TypeOK, AllElected, Good
<1>5. BothEnds'
  <2> SUFFICES ASSUME NEW x \in Nodes, NEW y \in Nodes, Pair(x, y) \in inRange
               PROVE  x \in node'[y].linked <=> y \in node'[x].linked
    BY Zenon DEF BothEnds
  <2>1. /\ x \in node[y].linked <=> y \in node[x].linked
        /\ Pair(y, x) \in inRange
    BY PairSame DEF Sound, BothEnds
  <2>2. y \in node'[x].linked <=> y \in node[x].linked
    BY <1>2
  <2>3. x \in node'[y].linked <=> x \in node[y].linked
    BY <1>2, <2>1
  <2> QED
    BY <2>1, <2>2, <2>3
<1>6. Unused'
  BY <1>2 DEF Sound, Unused
<1>7. ASSUME NEW x \in Nodes, NEW y \in Nodes, Linked(x, y)'
      PROVE  Linked(x, y) /\ Kept(node[x], node'[x], y, Up') /\ Kept(node[y], node'[y], x, Up')
  <2>1. \A o \in Nodes : o \in q.linked => Kept(node[n], q, o, Up')
    BY ShiftedKept
  <2>2. x # y /\ y \in node'[x].linked /\ x \in node'[y].linked
    BY <1>7 DEF Linked
  <2>3. Kept(node[x], node'[x], y, Up')
    BY <1>2, <2>1, <2>2, KeptSame
  <2>4. Kept(node[y], node'[y], x, Up')
    BY <1>2, <2>1, <2>2, KeptSame
  <2> QED
    BY <1>2, <2>2, <2>3, <2>4 DEF Linked
<1>8. Known'
  BY <1>7, KnownNext DEF Up
<1> QED
  BY <1>3, <1>4, <1>5, <1>6, <1>8 DEF Sound

\* An end of a link whose event, or whose coming up, is one of the node's steps.
EndChanges(n, m, s, q) ==
  /\ Good(q) /\ Elect(n, q)
  /\ q.linked = s.linked \cup {m}
  /\ \A o \in Nodes : o # m =>
       /\ q.staged[o] = s.staged[o] /\ q.age[o] = s.age[o]
       /\ o \in s.linked => Kept(s, q, o, FALSE)

\* Two nodes' records change.
LEMMA TwoChange ==
  ASSUME Sound, NEW n \in Nodes, NEW m \in Nodes, n # m, NEW q, NEW p,
         node' = [node EXCEPT ![n] = q, ![m] = p],
         inRange' = inRange, had \subseteq had', had' \subseteq Troubles,
         EndChanges(n, m, node[n], q), EndChanges(m, n, node[m], p),
         "loss" \notin had' => KnowsOf(q, p, n, m, Up') /\ KnowsOf(p, q, m, n, Up')
  PROVE  Sound'
<1>1. node \in [Nodes -> NodeRecords] /\ q \in NodeRecords /\ p \in NodeRecords
  BY DEF Sound, TypeOK, EndChanges, Good
<1>2. node'[n] = q /\ node'[m] = p /\ \A o \in Nodes : o # n /\ o # m => node'[o] = node[o]
  BY <1>1
<1>3. AllElected'
  BY <1>2 DEF Sound, AllElected, EndChanges
<1>4. TypeOK'
  <2>1. node' \in [Nodes -> NodeRecords]
    BY <1>1
  <2> QED
    BY <1>3, <2>1 DEF Sound, TypeOK, AllElected, Good
<1>5. q.linked = node[n].linked \cup {m} /\ p.linked = node[m].linked \cup {n}
  BY DEF EndChanges
<1>6. BothEnds'
  <2> SUFFICES ASSUME NEW x \in Nodes, NEW y \in Nodes, Pair(x, y) \in inRange
               PROVE  y \in node'[x].linked <=> x \in node'[y].linked
    BY Zenon DEF BothEnds
  <2>1. y \in node[x].linked <=> x \in node[y].linked
    BY DEF Sound, BothEnds
  <2>2. CASE (x = n /\ y = m) \/ (x = m /\ y = n)
    BY <1>2, <1>5, <2>2
  <2>3. CASE ~((x = n /\ y = m) \/ (x = m /\ y = n))
    <3>1. y \in node'[x].linked <=> y \in node[x].linked
      BY <1>2, <1>5, <2>3
    <3>2. x \in node'[y].linked <=> x \in node[y].linked
      BY <1>2, <1>5, <2>3
    <3> QED
      BY <2>1, <3>1, <3>2
  <2> QED
    BY <2>2, <2>3
<1>7. Unused'
  <2> SUFFICES ASSUME NEW x \in Nodes, NEW y \in Nodes, Pair(x, y) \in inRange,
                      y \notin node'[x].linked
               PROVE  node'[x].staged[y] = NoAdv /\ node'[x].age[y] = AdvPeriod
    BY Zenon DEF Unused
  <2>1. y \notin node[x].linked
    BY <1>2, <1>5
  <2>2. node[x].staged[y] = NoAdv /\ node[x].age[y] = AdvPeriod
    BY <2>1 DEF Sound, Unused
  <2>3. node'[x].staged[y] = node[x].staged[y] /\ node'[x].age[y] = node[x].age[y]
    BY <1>2, <1>5 DEF EndChanges
  <2> QED
    BY <2>2, <2>3
<1>8. ASSUME NEW x \in Nodes, NEW y \in Nodes, Linked(x, y)'
      PROVE  \/ "loss" \notin had' => KnowsOf(node'[x], node'[y], x, y, Up')
             \/ /\ Linked(x, y)
                /\ Kept(node[x], node'[x], y, Up') /\ Kept(node[y], node'[y], x, Up')
  <2>1. x # y /\ y \in node'[x].linked /\ x \in node'[y].linked
    BY <1>8 DEF Linked
  <2>2. CASE (x = n /\ y = m) \/ (x = m /\ y = n)
    BY <1>2, <2>2
  <2>3. CASE ~((x = n /\ y = m) \/ (x = m /\ y = n))
    <3>1. y \in node[x].linked /\ x \in node[y].linked
      BY <1>2, <1>5, <2>1, <2>3
    <3>2. \A s, t, o : Kept(s, t, o, FALSE) => Kept(s, t, o, Up')
      BY DEF Kept
    <3>3. \A o \in Nodes : /\ o # m /\ o \in node[n].linked => Kept(node[n], q, o, Up')
                           /\ o # n /\ o \in node[m].linked => Kept(node[m], p, o, Up')
      BY <3>2 DEF EndChanges
    <3>4. Kept(node[x], node'[x], y, Up')
      BY <1>2, <2>1, <2>3, <3>1, <3>3, KeptSame
    <3>5. Kept(node[y], node'[y], x, Up')
      BY <1>2, <2>1, <2>3, <3>1, <3>3, KeptSame
    <3> QED
      BY <2>1, <3>1, <3>4, <3>5 DEF Linked
  <2> QED
    BY <2>2, <2>3
<1>9. Known'
  BY <1>8, KnownNext DEF Up
<1> QED
  BY <1>3, <1>4, <1>6, <1>7, <1>9 DEF Sound

\* Nobody is in range of itself.
LEMMA InRangeDiffer ==
  ASSUME Sound, NEW n \in Nodes, NEW m \in Nodes, Pair(n, m) \in inRange
  PROVE  n # m
BY DEF Sound, TypeOK, Pairs, Pair

\* What an event makes of one end.
LEMMA EventEnd ==
  ASSUME Sound, NEW n \in Nodes, NEW m \in Nodes, m \in node[n].linked,
         NEW r \in Ranks \cup {NoAdv}
  PROVE  EndChanges(n, m, node[n], AfterEvent(n, m, r))
<1> DEFINE s == node[n]
           q == AfterEvent(n, m, r)
<1>1. Good(s) /\ Elect(n, s)
  BY DEF Sound, AllElected
<1>2. /\ Good(q) /\ Elect(n, q) /\ Keeps(s, q)
      /\ \A o \in Nodes : o # m =>
           /\ q.heard[o] = s.heard[o] /\ q.staged[o] = s.staged[o]
           /\ q.age[o] = s.age[o] /\ (o \in s.linked => StillTold(s, q, o))
  BY <1>1, AfterEventFacts
<1> HIDE DEF q
<1>3. \A o \in Nodes : o # m /\ o \in s.linked => Kept(s, q, o, FALSE)
  BY <1>2 DEF Kept
<1>4. q.linked = s.linked \cup {m}
  BY <1>2 DEF Keeps
<1> HIDE DEF s
<1>5. EndChanges(n, m, s, q)
  BY <1>2, <1>3, <1>4 DEF EndChanges
<1> QED
  BY <1>5 DEF s, q

LEMMA StagedType ==
  ASSUME Sound, NEW n \in Nodes, NEW m \in Nodes
  PROVE  node[n].staged[m] \in Ranks \cup {NoAdv}
BY DEF Sound, TypeOK, NodeRecords

\* Each step, in the order of Next.
LEMMA ExchangeSound ==
  ASSUME Sound, NEW n \in Nodes, NEW m \in Nodes, Exchange(n, m) PROVE Sound'
<1> DEFINE s == node[n]
           t == node[m]
           q == AfterEvent(n, m, t.staged[n])
           p == AfterEvent(m, n, s.staged[m])
<1>1. /\ m \in s.linked /\ n \in t.linked /\ Pair(n, m) \in inRange
      /\ node' = [node EXCEPT ![n] = q, ![m] = p] /\ inRange' = inRange /\ had' = had
  BY DEF Exchange, Live
<1>2. n # m
  BY <1>1, InRangeDiffer
<1>3. s.staged[m] \in Ranks \cup {NoAdv} /\ t.staged[n] \in Ranks \cup {NoAdv}
  BY StagedType
<1>4. EndChanges(n, m, s, q) /\ EndChanges(m, n, t, p)
  BY <1>1, <1>3, EventEnd
<1>5. Good(s) /\ Elect(n, s) /\ Good(t) /\ Elect(m, t)
  BY DEF Sound, AllElected
<1>6. /\ t.staged[n] = NoAdv => q.heard[m] = s.heard[m]
      /\ t.staged[n] # NoAdv => q.heard[m] = t.staged[n]
      /\ \/ q.staged[m] = q.rank
         \/ /\ q.staged[m] = NoAdv /\ q.rank = s.rank /\ ~Pending(s, m)
            /\ ~(s.age[m] = AdvPeriod /\ t.staged[n] = NoAdv)
  BY <1>3, <1>5, AfterEventFacts
<1>7. /\ s.staged[m] = NoAdv => p.heard[n] = t.heard[n]
      /\ s.staged[m] # NoAdv => p.heard[n] = s.staged[m]
      /\ \/ p.staged[n] = p.rank
         \/ /\ p.staged[n] = NoAdv /\ p.rank = t.rank /\ ~Pending(t, n)
            /\ ~(t.age[n] = AdvPeriod /\ s.staged[m] = NoAdv)
  BY <1>3, <1>5, AfterEventFacts
<1> HIDE DEF q, p
<1>8. ASSUME "loss" \notin had
      PROVE  KnowsOf(q, p, n, m, Up) /\ KnowsOf(p, q, m, n, Up)
  <2>1. KnowsOf(s, t, n, m, Up) /\ KnowsOf(t, s, m, n, Up)
    BY <1>1, <1>2, <1>8 DEF Sound, Known, Linked
  <2> HIDE DEF s, t
  <2>2. KnowsOf(q, p, n, m, Up)
    BY <1>5, <1>6, <1>7, <2>1, KnowsExchanged
  <2>3. KnowsOf(p, q, m, n, Up)
    BY <1>5, <1>6, <1>7, <2>1, KnowsExchanged
  <2> QED
    BY <2>2, <2>3
<1>9. had \subseteq had' /\ had' \subseteq Troubles /\ Up' = Up
  BY <1>1 DEF Sound, TypeOK, Up
<1>10. "loss" \notin had' => KnowsOf(q, p, n, m, Up') /\ KnowsOf(p, q, m, n, Up')
  BY <1>1, <1>8, <1>9
<1> QED
  BY <1>1, <1>2, <1>4, <1>9, <1>10, TwoChange

LEMMA ExchangeLostSound ==
  ASSUME Sound, NEW n \in Nodes, NEW m \in Nodes, ExchangeLost(n, m) PROVE Sound'
<1>1. PICK r \in {NoAdv, node[n].staged[m]} :
        node' = [node EXCEPT ![n] = AfterEvent(n, m, NoAdv), ![m] = AfterEvent(m, n, r)]
  BY DEF ExchangeLost
<1> DEFINE q == AfterEvent(n, m, NoAdv)
           p == AfterEvent(m, n, r)
<1>2. /\ m \in node[n].linked /\ n \in node[m].linked /\ Pair(n, m) \in inRange
      /\ inRange' = inRange /\ "loss" \in had' /\ had \subseteq had' /\ had' \subseteq Troubles
  BY DEF ExchangeLost, Live, Disturb, Sound, TypeOK
<1>3. r \in Ranks \cup {NoAdv} /\ NoAdv \in Ranks \cup {NoAdv}
  BY StagedType
<1>4. EndChanges(n, m, node[n], q) /\ EndChanges(m, n, node[m], p)
  BY <1>2, <1>3, EventEnd
<1>5. n # m
  BY <1>2, InRangeDiffer
<1> HIDE DEF q, p
<1>6. node' = [node EXCEPT ![n] = q, ![m] = p]
  BY <1>1 DEF q, p
<1> QED
  BY <1>2, <1>4, <1>5, <1>6, TwoChange

\* An end of a new link, of which both believe that the other has rank r.
LEMMA NewEnd ==
  ASSUME Sound, NEW n \in Nodes, NEW m \in Nodes, m \notin node[n].linked,
         Pair(n, m) \in inRange, NEW r \in Ranks
  PROVE  LET s == node[n]
             q == Establish(n, m, r)
         IN /\ EndChanges(n, m, s, q)
            /\ q.heard[m] = r /\ q.staged[m] = NoAdv /\ q.age[m] = AdvPeriod
            /\ Pending(q, m) \/ q.rank = s.rank
<1> DEFINE s == node[n]
           q == Establish(n, m, r)
<1>1. Good(s) /\ Elect(n, s)
  BY DEF Sound, AllElected
<1>2. Good(q) /\ Elect(n, q) /\ Shifted(s, q, FALSE) /\ WithLink(m, r, s, q)
  BY <1>1, EstablishFacts
<1>3. s.staged[m] = NoAdv /\ s.age[m] = AdvPeriod
  BY DEF Sound, Unused
<1> HIDE DEF q, s
<1>4. \A o \in Nodes : o # m => Kept(s, q, o, FALSE)
  BY <1>2, ShiftedKept DEF WithLink
<1>5. EndChanges(n, m, s, q)
  BY <1>2, <1>4 DEF EndChanges, WithLink
<1>6. Pending(q, m) \/ q.rank = s.rank
  BY <1>2 DEF Shifted, Moved, Pending
<1> QED
  BY <1>2, <1>3, <1>5, <1>6 DEF WithLink, q, s

LEMMA LinkUpSound ==
  ASSUME Sound, NEW n \in Nodes, NEW m \in Nodes, LinkUp(n, m) PROVE Sound'
<1> DEFINE r == node[m].rank
           q == Establish(n, m, r)
           p == Establish(m, n, r)
<1>1. /\ m \notin node[n].linked /\ n \notin node[m].linked /\ Pair(n, m) \in inRange
      /\ Useful(n, r, n > m) /\ node' = [node EXCEPT ![n] = q, ![m] = p]
      /\ inRange' = inRange /\ had' = had
  BY DEF LinkUp
<1>2. n # m
  BY <1>1, InRangeDiffer
<1>3. node[n].rank \in Ranks /\ r \in Ranks
  BY DEF Sound, TypeOK, NodeRecords
<1>4. r <= node[n].rank
  BY <1>1, <1>3, RouteAssumption DEF Useful, Ranks, Infinite
<1>5. Pair(m, n) \in inRange
  BY <1>1, PairSame
<1>6. /\ EndChanges(n, m, node[n], q)
      /\ q.heard[m] = r /\ q.staged[m] = NoAdv /\ q.age[m] = AdvPeriod
      /\ Pending(q, m) \/ q.rank = node[n].rank
  BY <1>1, <1>3, NewEnd
<1>7. /\ EndChanges(m, n, node[m], p)
      /\ p.heard[n] = r /\ p.staged[n] = NoAdv /\ p.age[n] = AdvPeriod
      /\ Pending(p, n) \/ p.rank = r
  BY <1>1, <1>3, <1>5, NewEnd
<1> HIDE DEF q, p
<1>8. KnowsOf(q, p, n, m, Up')
  <2>1. Pending(p, n) \/ p.rank <= p.heard[n]
    BY <1>3, <1>7 DEF Ranks, Infinite
  <2>2. Pending(q, m) \/ p.heard[n] <= q.rank
    BY <1>4, <1>6, <1>7
  <2> QED
    BY <1>6, <1>7, <2>1, <2>2 DEF KnowsOf
<1>9. KnowsOf(p, q, m, n, Up')
  BY <1>6, <1>7 DEF KnowsOf
<1>10. had \subseteq had' /\ had' \subseteq Troubles
  BY <1>1 DEF Sound, TypeOK
<1> QED
  BY <1>1, <1>2, <1>6, <1>7, <1>8, <1>9, <1>10, TwoChange

LEMMA CutSound ==
  ASSUME Sound, NEW p \in inRange, Cut(p) PROVE Sound'
<1>1. /\ node' = node /\ inRange' \subseteq inRange
      /\ had \subseteq had' /\ had' \subseteq Troubles
  BY DEF Cut, Disturb, Sound, TypeOK
<1>2. TypeOK' /\ AllElected' /\ BothEnds' /\ Unused'
  BY <1>1 DEF Sound, TypeOK, AllElected, BothEnds, Unused
<1>3. Known'
  <2>1. \A x, y \in Nodes : Linked(x, y)' =>
          /\ Linked(x, y)
          /\ Kept(node[x], node'[x], y, Up') /\ Kept(node[y], node'[y], x, Up')
    BY <1>1, KeptSame DEF Linked
  <2> QED
    BY <1>1, <2>1, KnownNext DEF Up
<1> QED
  BY <1>2, <1>3 DEF Sound

LEMMA SuperviseSound ==
  ASSUME Sound, NEW n \in Nodes, NEW m \in Nodes, Supervise(n, m) PROVE Sound'
<1> DEFINE s == node[n]
           q == Dropped(n, m)
<1>1. /\ m \in s.linked /\ ~Live(n, m) /\ node' = [node EXCEPT ![n] = q]
      /\ inRange' = inRange /\ had' = had /\ had \subseteq Troubles
  BY DEF Supervise, Sound, TypeOK
<1>2. Pair(n, m) \notin inRange
  BY <1>1 DEF Live, Sound, BothEnds
<1>3. Good(s) /\ Elect(n, s)
  BY DEF Sound, AllElected
<1>4. /\ Good(q) /\ Elect(n, q) /\ Shifted(s, q, FALSE)
      /\ q.linked = s.linked \ {m} /\ q.heard = s.heard /\ q.age = s.age
      /\ \A o \in Nodes : o # m => q.staged[o] = s.staged[o]
  BY <1>3, DroppedFacts
<1> HIDE DEF q
<1>5. Shifted(s, q, Up')
  BY <1>4 DEF Shifted
<1> QED
  BY <1>1, <1>2, <1>4, <1>5, OneChanges

LEMMA UplinkSound ==
  ASSUME Sound, NEW n \in Nodes, NEW up \in BOOLEAN,
         node' = [node EXCEPT ![n] = Recompute(n, [node[n] EXCEPT !.backhaul = up])],
         inRange' = inRange, had \subseteq had', had' \subseteq Troubles, up => Up'
  PROVE  Sound'
<1> DEFINE s == node[n]
           q == Recompute(n, [s EXCEPT !.backhaul = up])
<1>1. Good(s) /\ Elect(n, s)
  BY DEF Sound, AllElected
<1>2. /\ Good(q) /\ Elect(n, q) /\ Shifted(s, q, up)
      /\ q.linked = s.linked /\ q.heard = s.heard /\ q.age = s.age /\ q.staged = s.staged
  BY <1>1, UplinkFacts
<1>3. node' = [node EXCEPT ![n] = q]
  OBVIOUS
<1> HIDE DEF q
<1>4. Shifted(s, q, Up')
  BY <1>2 DEF Shifted
<1> QED
  BY <1>2, <1>3, <1>4, OneChanges

LEMMA NextSound == Sound /\ [Next]_vars => Sound'
<1> SUFFICES ASSUME Sound, [Next]_vars PROVE Sound'
  OBVIOUS
<1>1. CASE UNCHANGED vars
  BY <1>1 DEF vars, Sound, TypeOK, AllElected, BothEnds, Unused, Known, Linked, Up
<1>2. ASSUME NEW n \in Nodes, UplinkDown(n) PROVE Sound'
  BY <1>2, UplinkSound DEF UplinkDown, StopsBeingSink, Disturb, Sound, TypeOK
<1>3. ASSUME NEW n \in Nodes, UplinkUp(n) PROVE Sound'
  BY <1>3, UplinkSound DEF UplinkUp, Disturb, Sound, TypeOK, Up
<1> QED
  BY <1>1, <1>2, <1>3, ExchangeSound, ExchangeLostSound, LinkUpSound, CutSound,
     SuperviseSound DEF Next

THEOREM RouteInvariant == Spec => []Sound
BY InitSound, NextSound, PTL DEF Spec

\* Every node's record stays one: ranks are below the ceiling or infinite, and
\* lg_route_recompute takes as parents only neighbours that there is a link to.
THEOREM RouteTypeCorrect == Spec => []TypeOK
BY RouteInvariant, PTL DEF Sound

----------------------------------------------------------------------------
(* The costs of the best paths.                                             *)

K == Cardinality(Nodes)

\* The best that a first hop can make of the costs c.
FirstHops(c, n) == {c[m] + Cost[n][m] : m \in {o \in Nodes : Live(n, o)}}

Cheapest(costs) ==
  LET least == {c \in costs : c < Infinite /\ \A d \in costs : c <= d}
  IN IF least = {} THEN Infinite ELSE CHOOSE c \in least : TRUE

\* The equation that defines PathCost.
CostStep(f) ==
  f = [k \in 0 .. Cardinality(Nodes) |->
        [n \in Nodes |->
           IF node[n].backhaul THEN 0
           ELSE IF k = 0 THEN Infinite
           ELSE Cheapest(FirstHops(f[k - 1], n))]]

LEMMA NodesCount == K \in Nat
BY RouteAssumption, FS_CardinalityType DEF K

\* The choice of the least finite cost.
LEMMA CheapestFacts ==
  ASSUME NEW costs \in SUBSET Nat
  PROVE  /\ Cheapest(costs) \in Ranks
         /\ \A d \in costs : d < Infinite => Cheapest(costs) <= d
         /\ Cheapest(costs) < Infinite => Cheapest(costs) \in costs
<1> DEFINE least == {c \in costs : c < Infinite /\ \A d \in costs : c <= d}
<1>0. Infinite \in Nat
  BY RouteAssumption DEF Infinite
<1>1. CASE least = {}
  <2>1. Cheapest(costs) = Infinite
    BY <1>1 DEF Cheapest
  <2>2. ASSUME NEW d \in costs PROVE ~(d < Infinite)
    <3>1. PICK c \in costs : \A e \in costs : c <= e
      BY LeastNatural
    <3>2. ~(c < Infinite) /\ c <= d
      BY <1>1, <3>1
    <3> QED
      BY <1>0, <3>2
  <2> QED
    BY <1>0, <2>1, <2>2 DEF Ranks
<1>2. CASE least # {}
  <2>1. Cheapest(costs) = CHOOSE c \in least : TRUE
    BY <1>2 DEF Cheapest
  <2>2. Cheapest(costs) \in least
    BY <1>2, <2>1
  <2> DEFINE x == Cheapest(costs)
  <2>3. x \in costs /\ x < Infinite /\ \A d \in costs : x <= d
    BY <2>2
  <2> HIDE DEF x
  <2>4. x \in Ranks
    BY <1>0, <2>3 DEF Ranks
  <2> QED
    BY <2>3, <2>4 DEF x
<1> QED
  BY <1>1, <1>2

LEMMA FirstHopsType ==
  ASSUME NEW c \in [Nodes -> Ranks], NEW n \in Nodes
  PROVE  FirstHops(c, n) \in SUBSET Nat
<1>1. \A m \in Nodes : c[m] + Cost[n][m] \in Nat
  BY RouteAssumption DEF Ranks, Infinite
<1> QED
  BY <1>1 DEF FirstHops

\* A function satisfies it, and therefore PathCost does.
LEMMA CostExists == \E h : CostStep(h)
<1> DEFINE V == [Nodes -> Ranks]
           b == [n \in Nodes |-> IF node[n].backhaul THEN 0 ELSE Infinite]
           S(c) == [n \in Nodes |->
                      IF node[n].backhaul THEN 0 ELSE Cheapest(FirstHops(c, n))]
           g == [x \in V \X (1 .. K) |-> S(x[1])]
<1>1. 0 \in Ranks /\ Infinite \in Ranks
  BY RouteAssumption DEF Ranks, Infinite
<1>2. b \in V
  BY <1>1
<1>3. ASSUME NEW c \in V PROVE S(c) \in V
  BY <1>1, CheapestFacts, FirstHopsType
<1>4. g \in [V \X (1 .. K) -> V] /\ \A v \in V, k \in 1 .. K : g[<<v, k>>] = S(v)
  <2> HIDE DEF S, V
  <2> QED
    BY <1>3
<1>5. PICK h : Iterates(h, K, V, b, g)
  <2> HIDE DEF g, V, b
  <2> QED
    BY <1>2, <1>4, NodesCount, Recursion
<1>6. h \in [0 .. K -> V] /\ h[0] = b /\ \A k \in 1 .. K : h[k] = S(h[k - 1])
  <2> HIDE DEF g, V, b, S
  <2>1. h \in [0 .. K -> V] /\ h[0] = b /\ \A k \in 1 .. K : h[k] = g[<<h[k - 1], k>>]
    BY <1>5 DEF Iterates
  <2>2. \A k \in 1 .. K : k - 1 \in 0 .. K
    BY NodesCount
  <2> QED
    BY <1>4, <2>1, <2>2
<1> DEFINE E(k) == [n \in Nodes |->
                      IF node[n].backhaul THEN 0
                      ELSE IF k = 0 THEN Infinite
                      ELSE Cheapest(FirstHops(h[k - 1], n))]
<1>7. ASSUME NEW k \in 0 .. K PROVE h[k] = E(k)
  <2>1. CASE k = 0
    <3>1. E(0) = b
      OBVIOUS
    <3> QED
      BY <1>6, <2>1, <3>1
  <2>2. CASE k # 0
    <3>1. k \in 1 .. K
      BY <2>2, NodesCount
    <3>2. E(k) = S(h[k - 1])
      BY <2>2
    <3> QED
      BY <1>6, <3>1, <3>2
  <2> QED
    BY <2>1, <2>2
<1>8. h = [k \in 0 .. K |-> E(k)]
  <2> HIDE DEF E, V
  <2> QED
    BY <1>6, <1>7
<1> QED
  BY <1>8 DEF CostStep, K

LEMMA PathCostStep == CostStep(PathCost)
<1>1. PathCost = CHOOSE h : CostStep(h)
  BY Zenon DEF PathCost, CostStep, Cheapest, FirstHops
<1>2. \E h : CostStep(h)
  BY CostExists, NodesCount
<1> QED
  BY <1>1, <1>2, Zenon

\* PathCost extends paths by one link at a time.
LEMMA PathCostFacts ==
  /\ \A k \in 0 .. K : PathCost[k] \in [Nodes -> Ranks]
  /\ \A n \in Nodes :
       /\ PathCost[0][n] = IF node[n].backhaul THEN 0 ELSE Infinite
       /\ \A k \in 1 .. K :
            /\ node[n].backhaul => PathCost[k][n] = 0
            /\ ~node[n].backhaul /\ PathCost[k][n] < Infinite =>
                 \E m \in Nodes : Live(n, m) /\ PathCost[k][n] = PathCost[k - 1][m] + Cost[n][m]
            /\ ~node[n].backhaul =>
                 \A m \in Nodes :
                   Live(n, m) /\ PathCost[k - 1][m] + Cost[n][m] < Infinite =>
                     PathCost[k][n] <= PathCost[k - 1][m] + Cost[n][m]
<1> DEFINE f == PathCost
           E(k, n) == IF node[n].backhaul THEN 0
                      ELSE IF k = 0 THEN Infinite
                      ELSE Cheapest(FirstHops(f[k - 1], n))
           S == {k \in Nat : k <= K => f[k] \in [Nodes -> Ranks]}
<1>0. K \in Nat /\ 0 \in Ranks /\ Infinite \in Ranks
  BY NodesCount, RouteAssumption DEF Ranks, Infinite
<1>1. \A k \in 0 .. K : f[k] = [n \in Nodes |-> E(k, n)]
  BY PathCostStep, Zenon DEF CostStep, K
<1> HIDE DEF f
<1>2. \A k \in 0 .. K, n \in Nodes : f[k][n] = E(k, n)
  BY <1>1
<1>3. 0 \in S
  <2>1. 0 \in 0 .. K /\ \A n \in Nodes : E(0, n) \in Ranks
    BY <1>0
  <2> HIDE DEF E
  <2>2. f[0] \in [Nodes -> Ranks]
    BY <1>1, <2>1
  <2> QED
    BY <2>2
<1>4. ASSUME NEW k \in Nat, k \in S PROVE k + 1 \in S
  <2> SUFFICES ASSUME k + 1 <= K PROVE f[k + 1] \in [Nodes -> Ranks]
    OBVIOUS
  <2>1. k + 1 \in 0 .. K /\ (k + 1) - 1 = k /\ f[k] \in [Nodes -> Ranks]
    BY <1>0, <1>4
  <2>2. \A n \in Nodes : Cheapest(FirstHops(f[k], n)) \in Ranks
    BY <2>1, FirstHopsType, CheapestFacts
  <2>3. \A n \in Nodes : E(k + 1, n) \in Ranks
    BY <1>0, <2>1, <2>2
  <2> HIDE DEF E
  <2> QED
    BY <1>1, <2>1, <2>3
<1> HIDE DEF E
<1>5. \A k \in 0 .. K : f[k] \in [Nodes -> Ranks]
  <2>1. Nat \subseteq S
    <3> HIDE DEF S
    <3> QED
      BY <1>3, <1>4, NatSets
  <2> QED
    BY <1>0, <2>1
<1>6. ASSUME NEW n \in Nodes PROVE f[0][n] = IF node[n].backhaul THEN 0 ELSE Infinite
  BY <1>0, <1>2 DEF E
<1>7. ASSUME NEW n \in Nodes, NEW k \in 1 .. K
      PROVE  /\ node[n].backhaul => f[k][n] = 0
             /\ ~node[n].backhaul /\ f[k][n] < Infinite =>
                  \E m \in Nodes : Live(n, m) /\ f[k][n] = f[k - 1][m] + Cost[n][m]
             /\ ~node[n].backhaul =>
                  \A m \in Nodes :
                    Live(n, m) /\ f[k - 1][m] + Cost[n][m] < Infinite =>
                      f[k][n] <= f[k - 1][m] + Cost[n][m]
  <2>1. k \in 0 .. K /\ k - 1 \in 0 .. K /\ k # 0
    BY <1>0
  <2>2. FirstHops(f[k - 1], n) \in SUBSET Nat
    BY <1>5, <2>1, FirstHopsType
  <2>3. node[n].backhaul => f[k][n] = 0
    BY <1>2, <2>1 DEF E
  <2>4. ASSUME ~node[n].backhaul
        PROVE  /\ f[k][n] < Infinite => f[k][n] \in FirstHops(f[k - 1], n)
               /\ \A d \in FirstHops(f[k - 1], n) : d < Infinite => f[k][n] <= d
    <3>1. f[k][n] = Cheapest(FirstHops(f[k - 1], n))
      BY <1>2, <2>1, <2>4 DEF E
    <3> QED
      BY <2>2, <3>1, CheapestFacts
  <2> QED
    BY <2>3, <2>4 DEF FirstHops
<1> QED
  BY <1>5, <1>6, <1>7, Zenon DEF f

----------------------------------------------------------------------------
(* A quiet grid.                                                            *)

Settled == Sound /\ Quiet /\ "loss" \notin had

\* Whoever n has a link to has told it its rank, but for an uplink that came up
\* and for a neighbour that n is not above anyway.
LEMMA QuietKnows ==
  ASSUME Settled, NEW n \in Nodes, NEW m \in Nodes, Live(n, m)
  PROVE  LET h == node[n].heard[m]
         IN \/ h = node[m].rank
            \/ Up /\ node[m].rank = 0
            \/ node[n].rank <= h /\ h <= node[m].rank
<1>1. m \in node[n].linked /\ n \in node[m].linked /\ n # m
  BY InRangeDiffer DEF Live, Settled
<1>2. KnowsOf(node[m], node[n], m, n, Up)
  BY <1>1 DEF Settled, Sound, Known, Linked
<1>3. node[m].staged[n] = NoAdv
  BY <1>1 DEF Settled, Quiet
<1>4. ~Pending(node[m], n) /\ ~Pending(node[n], m)
  BY <1>1 DEF Settled, Quiet, Pending
<1>5. node[m].rank # NoAdv
  BY RouteAssumption DEF Settled, Sound, TypeOK, NodeRecords, Ranks, Infinite, NoAdv
<1> QED
  BY <1>2, <1>3, <1>4, <1>5 DEF KnowsOf

LEMMA QuietLive ==
  ASSUME Settled, NEW n \in Nodes, NEW m \in Nodes, m \in node[n].linked
  PROVE  Live(n, m)
BY DEF Settled, Quiet

\* A proper subset has fewer elements.
LEMMA SubsetsOfNodes ==
  ASSUME NEW S \in SUBSET Nodes, NEW T \in SUBSET S, NEW x \in S, x \notin T
  PROVE  /\ Cardinality(S) \in Nat /\ Cardinality(T) \in Nat
         /\ Cardinality(T) + 1 <= Cardinality(S) /\ Cardinality(S) <= K
<1>1. IsFiniteSet(Nodes) /\ IsFiniteSet(S) /\ IsFiniteSet(T)
  BY RouteAssumption, FS_Subset
<1>2. T # S
  OBVIOUS
<1> QED
  BY <1>1, <1>2, FS_Subset, FS_CardinalityType DEF K

\* The nodes that are nearer to a sink than a rank r.
Nearer(r) == {x \in Nodes : node[x].rank < r}

\* Whoever has a finite rank has it from a node that is nearer.
LEMMA RankSource ==
  ASSUME Settled, NEW n \in Nodes, ~node[n].backhaul, node[n].rank < Infinite
  PROVE  \E m \in Nodes :
           /\ Live(n, m) /\ node[m].rank + Cost[n][m] <= node[n].rank
           /\ node[m].rank < node[n].rank
<1>1. \A x \in Nodes : Good(node[x]) /\ Elect(x, node[x])
  BY DEF Settled, Sound, AllElected
<1>2. \A x \in Nodes : node[x] \in NodeRecords /\ node[x].rank \in Nat
  BY <1>1, RouteAssumption DEF Good, NodeRecords, Ranks, Infinite
<1>3. PICK m \in Nodes : RankThrough(n, node[n], m) = node[n].rank
  BY <1>1, <1>2, RouteAssumption DEF Elect, Infinite
<1>4. /\ m \in node[n].linked
      /\ node[n].rank = node[n].heard[m] + Cost[n][m]
  BY <1>2, <1>3, ViaType
<1>5. Live(n, m)
  BY <1>4, QuietLive
<1>6. node[n].heard[m] \in Nat /\ Cost[n][m] \in Nat \ {0}
  BY <1>2, RouteAssumption DEF NodeRecords, Ranks, Infinite
<1>7. node[m].rank <= node[n].heard[m]
  BY <1>2, <1>4, <1>5, <1>6, QuietKnows
<1> QED
  BY <1>2, <1>4, <1>5, <1>6, <1>7

\* By induction on how many nodes are nearer.
LEMMA QuietNotTooLow ==
  ASSUME Settled, NEW n \in Nodes PROVE NotTooLow(n)
<1> DEFINE Low(k) == \A x \in Nodes :
             node[x].rank < Infinite /\ Cardinality(Nearer(node[x].rank)) <= k =>
               PathCost[k][x] <= node[x].rank
           S == {k \in Nat : k <= K => Low(k)}
<1>0. /\ K \in Nat /\ Infinite \in Nat
      /\ \A x \in Nodes : node[x].rank \in Nat
      /\ \A x, y \in Nodes : Cost[x][y] \in Nat
  BY NodesCount, RouteAssumption DEF Settled, Sound, TypeOK, NodeRecords, Ranks, Infinite
<1>1. \A x \in Nodes : node[x].backhaul => node[x].rank = 0
  BY <1>0 DEF Settled, Sound, AllElected, Elect
<1>2. ASSUME NEW x \in Nodes, NEW m \in Nodes, node[m].rank < node[x].rank
      PROVE  /\ Cardinality(Nearer(node[x].rank)) \in Nat
             /\ Cardinality(Nearer(node[m].rank)) \in Nat
             /\ Cardinality(Nearer(node[m].rank)) + 1 <= Cardinality(Nearer(node[x].rank))
  <2>1. /\ Nearer(node[x].rank) \in SUBSET Nodes
        /\ Nearer(node[m].rank) \in SUBSET Nearer(node[x].rank)
        /\ m \in Nearer(node[x].rank) /\ m \notin Nearer(node[m].rank)
    BY <1>0, <1>2 DEF Nearer
  <2> QED
    BY <2>1, SubsetsOfNodes
<1>3. 0 \in S
  <2> SUFFICES ASSUME NEW x \in Nodes, node[x].rank < Infinite,
                      Cardinality(Nearer(node[x].rank)) <= 0
               PROVE  PathCost[0][x] <= node[x].rank
    OBVIOUS
  <2>1. node[x].backhaul
    <3> SUFFICES ASSUME ~node[x].backhaul PROVE FALSE
      OBVIOUS
    <3>1. PICK m \in Nodes : node[m].rank < node[x].rank
      BY RankSource
    <3> QED
      BY <1>2, <3>1
  <2> QED
    BY <1>1, <2>1, PathCostFacts
<1>4. ASSUME NEW k \in Nat, k \in S PROVE k + 1 \in S
  <2> SUFFICES ASSUME k + 1 <= K, NEW x \in Nodes, node[x].rank < Infinite,
                      Cardinality(Nearer(node[x].rank)) <= k + 1
               PROVE  PathCost[k + 1][x] <= node[x].rank
    OBVIOUS
  <2>1. k + 1 \in 1 .. K /\ k \in 0 .. K /\ (k + 1) - 1 = k /\ Low(k)
    BY <1>0, <1>4
  <2>2. CASE node[x].backhaul
    BY <1>0, <1>1, <2>1, <2>2, PathCostFacts
  <2>3. CASE ~node[x].backhaul
    <3>1. PICK m \in Nodes :
            /\ Live(x, m) /\ node[m].rank + Cost[x][m] <= node[x].rank
            /\ node[m].rank < node[x].rank
      BY <2>3, RankSource
    <3>2. node[m].rank < Infinite /\ Cardinality(Nearer(node[m].rank)) <= k
      BY <1>0, <1>2, <3>1
    <3>3. PathCost[k][m] <= node[m].rank
      BY <2>1, <3>2
    <3>4. PathCost[k][m] \in Nat
      BY <2>1, PathCostFacts, RouteAssumption DEF Ranks, Infinite
    <3>5. PathCost[k][m] + Cost[x][m] < Infinite
      BY <1>0, <3>1, <3>3, <3>4
    <3>6. PathCost[k + 1][x] <= PathCost[k][m] + Cost[x][m]
      BY <2>1, <2>3, <3>1, <3>5, PathCostFacts
    <3>7. PathCost[k + 1][x] \in Nat
      BY <2>1, PathCostFacts, <1>0 DEF Ranks
    <3> QED
      BY <1>0, <3>1, <3>3, <3>4, <3>6, <3>7
  <2> QED
    BY <2>2, <2>3
<1>5. Low(K)
  <2>1. Nat \subseteq S
    <3> HIDE DEF S
    <3> QED
      BY <1>3, <1>4, NatSets
  <2> QED
    BY <1>0, <2>1
<1>6. Cardinality(Nearer(node[n].rank)) <= K
  <2>1. Nearer(node[n].rank) \in SUBSET Nodes /\ n \notin Nearer(node[n].rank)
    BY <1>0 DEF Nearer
  <2>2. Cardinality(Nearer(node[n].rank)) + 1 <= K /\ Cardinality(Nearer(node[n].rank)) \in Nat
    BY <2>1, SubsetsOfNodes DEF K
  <2> QED
    BY <1>0, <2>2
<1> QED
  BY <1>5, <1>6 DEF NotTooLow, Distance, K

\* v is the cost of a path from n to a sink.
Reach(n, v) == v < Infinite /\ \E j \in 0 .. K : PathCost[j][n] = v

\* The nodes that can reach a sink for less than v.
Below(v) == {x \in Nodes : \E w \in Nat : Reach(x, w) /\ w < v}

\* v is the cost of n's best path.
Best(n, v) == Reach(n, v) /\ \A w \in Nat : Reach(n, w) => v <= w

LEMMA ReachType ==
  ASSUME NEW n \in Nodes, NEW v, Reach(n, v) PROVE v \in Nat
BY PathCostFacts, RouteAssumption DEF Reach, Ranks, Infinite

LEMMA BestExists ==
  ASSUME NEW n \in Nodes, NEW v \in Nat, Reach(n, v)
  PROVE  \E w \in Nat : Best(n, w) /\ w <= v
<1> DEFINE T == {w \in Nat : Reach(n, w)}
<1>1. T \in SUBSET Nat /\ v \in T
  OBVIOUS
<1>2. PICK w \in T : \A u \in T : w <= u
  <2> HIDE DEF T
  <2> QED
    BY <1>1, LeastNatural
<1> QED
  BY <1>1, <1>2 DEF Best

\* Hysteresis adds up to so much.
LEMMA SlackGrows ==
  ASSUME NEW h \in Nat, NEW a \in Nat, NEW b \in Nat, a + 1 <= b
  PROVE  h * a + h <= h * b /\ h * a \in Nat /\ h * b \in Nat
<1>1. PICK d \in Nat : b = a + 1 + d
  <2>1. b - (a + 1) \in Nat /\ b = a + 1 + (b - (a + 1))
    OBVIOUS
  <2> QED
    BY <2>1
<1>2. h * (a + 1 + d) = h * a + h + h * d
  OBVIOUS
<1>3. h * d \in Nat /\ h * a \in Nat /\ h * b \in Nat
  OBVIOUS
<1> QED
  BY <1>1, <1>2, <1>3

\* A node is above a linked neighbour by what the link costs and hysteresis.
LEMMA RankStep ==
  ASSUME Settled, ~Up, NEW n \in Nodes, NEW m \in Nodes, ~node[n].backhaul, Live(n, m)
  PROVE  node[n].rank <= node[m].rank + Cost[n][m] + Hysteresis
<1>1. node[n] \in NodeRecords /\ Elect(n, node[n]) /\ node[m] \in NodeRecords
  BY DEF Settled, Sound, AllElected, Good
<1>2. /\ node[n].rank \in 0 .. Infinite /\ node[m].rank \in 0 .. Infinite
      /\ node[n].heard[m] \in 0 .. Infinite /\ Cost[n][m] \in Nat /\ Hysteresis \in Nat
      /\ Infinite \in Nat /\ Infinite = MaxRank
  BY <1>1, RouteAssumption DEF NodeRecords, Ranks, Infinite
<1>3. node[n].heard[m] = node[m].rank \/ node[n].rank <= node[m].rank
  <2> DEFINE h == node[n].heard[m]
  <2>1. \/ h = node[m].rank
        \/ Up /\ node[m].rank = 0
        \/ node[n].rank <= h /\ h <= node[m].rank
    BY QuietKnows
  <2> QED
    BY <1>2, <2>1
<1>4. CASE node[n].rank <= node[m].rank
  BY <1>2, <1>4
<1>5. CASE node[n].heard[m] = node[m].rank
  <2>1. m \in node[n].linked
    BY DEF Live
  <2>2. \/ RankThrough(n, node[n], m) = Infinite /\ node[m].rank + Cost[n][m] >= Infinite
        \/ RankThrough(n, node[n], m) = node[m].rank + Cost[n][m]
    BY <1>2, <1>5, <2>1 DEF RankThrough
  <2>3. \/ RankThrough(n, node[n], m) = Infinite
        \/ node[n].rank <= RankThrough(n, node[n], m) + Hysteresis
    BY <1>1, <1>2 DEF Elect
  <2> QED
    BY <1>2, <2>2, <2>3
<1> QED
  BY <1>3, <1>4, <1>5

\* By induction on the cost of the best path: along it hysteresis adds up once
\* for every node that is nearer.
LEMMA QuietNotTooHigh ==
  ASSUME Settled, ~Up, NEW n \in Nodes PROVE NotTooHigh(n)
<1> DEFINE High(v) == \A x \in Nodes :
             Best(x, v) => node[x].rank <= v + Hysteresis * Cardinality(Below(v))
           T == {v \in Nat : ~High(v)}
<1>0. /\ K \in Nat /\ Infinite \in Nat /\ Hysteresis \in Nat
      /\ \A x \in Nodes : node[x].rank \in 0 .. Infinite
      /\ \A x, y \in Nodes : Cost[x][y] \in Nat \ {0}
  BY NodesCount, RouteAssumption DEF Settled, Sound, TypeOK, NodeRecords, Ranks, Infinite
<1>1. \A v \in Nat : Cardinality(Below(v)) \in Nat
  <2>1. \A v : IsFiniteSet(Below(v))
    BY RouteAssumption, FS_Subset DEF Below
  <2> QED
    BY <2>1, FS_CardinalityType
<1>2. ASSUME NEW x \in Nodes, NEW v \in Nat, Best(x, v)
      PROVE  Cardinality(Below(v)) + 1 <= K
  <2>1. Below(v) \in SUBSET Nodes /\ x \notin Below(v)
    BY <1>2 DEF Below, Best
  <2> QED
    BY <2>1, SubsetsOfNodes DEF K
<1>3. ASSUME NEW v \in Nat, \A u \in Nat : u < v => High(u) PROVE High(v)
  <2> SUFFICES ASSUME NEW x \in Nodes, Best(x, v)
               PROVE  node[x].rank <= v + Hysteresis * Cardinality(Below(v))
    OBVIOUS
  <2>1. Hysteresis * Cardinality(Below(v)) \in Nat
    BY <1>0, <1>1
  <2>2. CASE node[x].backhaul
    <3>1. node[x].rank = 0
      BY <1>0, <2>2 DEF Settled, Sound, AllElected, Elect
    <3> QED
      BY <2>1, <3>1
  <2>3. CASE ~node[x].backhaul
    <3>1. PICK j \in 0 .. K : PathCost[j][x] = v
      BY DEF Best, Reach
    <3>2. v < Infinite
      BY DEF Best, Reach
    <3>3. j # 0
      BY <1>0, <2>3, <3>1, <3>2, PathCostFacts
    <3>4. j \in 1 .. K /\ j - 1 \in 0 .. K
      BY <1>0, <3>3
    <3>5. PICK m \in Nodes : Live(x, m) /\ v = PathCost[j - 1][m] + Cost[x][m]
      BY <2>3, <3>1, <3>2, <3>4, PathCostFacts
    <3> DEFINE u == PathCost[j - 1][m]
    <3>6. u \in Nat /\ u < v
      <4>1. u \in Ranks
        BY <3>4, PathCostFacts
      <4> HIDE DEF u
      <4>2. v = u + Cost[x][m]
        BY <3>5 DEF u
      <4> QED
        BY <1>0, <4>1, <4>2 DEF Ranks
    <3>7. Reach(m, u)
      BY <1>0, <3>2, <3>4, <3>6 DEF Reach
    <3>8. v = u + Cost[x][m]
      BY <3>5
    <3> HIDE DEF u
    <3>9. PICK w \in Nat : Best(m, w) /\ w <= u
      BY <3>6, <3>7, BestExists
    <3>10. node[m].rank <= w + Hysteresis * Cardinality(Below(w))
      BY <1>3, <3>6, <3>9
    <3>11. Cardinality(Below(w)) + 1 <= Cardinality(Below(v))
      <4>1. /\ Below(v) \in SUBSET Nodes /\ Below(w) \in SUBSET Below(v)
            /\ m \in Below(v) /\ m \notin Below(w)
        BY <3>6, <3>9 DEF Below, Best
      <4> QED
        BY <4>1, SubsetsOfNodes
    <3>12. /\ Hysteresis * Cardinality(Below(w)) + Hysteresis
                <= Hysteresis * Cardinality(Below(v))
           /\ Hysteresis * Cardinality(Below(w)) \in Nat
      BY <1>0, <1>1, <3>9, <3>11, SlackGrows
    <3>13. node[x].rank <= node[m].rank + Cost[x][m] + Hysteresis
      BY <2>3, <3>5, RankStep
    <3>14. Cost[x][m] \in Nat /\ node[x].rank \in Nat /\ node[m].rank \in Nat
      BY <1>0
    <3> DEFINE a == Hysteresis * Cardinality(Below(w))
               b == Hysteresis * Cardinality(Below(v))
    <3>15. a \in Nat /\ b \in Nat /\ a + Hysteresis <= b /\ node[m].rank <= w + a
      BY <2>1, <3>10, <3>12
    <3> HIDE DEF a, b
    <3>16. node[x].rank <= v + b
      BY <1>0, <3>6, <3>8, <3>9, <3>13, <3>14, <3>15
    <3> QED
      BY <3>16 DEF b
  <2> QED
    BY <2>2, <2>3
<1>4. \A v \in Nat : High(v)
  <2> HIDE DEF High
  <2> SUFFICES ASSUME T # {} PROVE FALSE
    OBVIOUS
  <2>1. PICK v \in T : \A u \in T : v <= u
    BY LeastNatural
  <2>2. \A u \in Nat : u < v => High(u)
    BY <2>1
  <2> QED
    BY <1>3, <2>1, <2>2
<1>5. K - 1 \in Nat /\ Slack = Hysteresis * (K - 1) /\ Slack \in Nat
  <2>1. K # 0
    BY RouteAssumption, FS_EmptySet DEF K
  <2>2. K - 1 \in Nat
    BY <1>0, <2>1
  <2>3. Slack = Hysteresis * (K - 1)
    BY DEF Slack, K
  <2> QED
    BY <1>0, <2>2, <2>3
<1>6. Distance(n) \in 0 .. Infinite /\ (Distance(n) < Infinite => Reach(n, Distance(n)))
  <2>1. Distance(n) = PathCost[K][n] /\ K \in 0 .. K
    BY <1>0 DEF Distance, K
  <2>2. PathCost[K][n] \in Ranks
    BY <2>1, PathCostFacts
  <2> QED
    BY <2>1, <2>2 DEF Ranks, Reach
<1>7. node[n].rank <= Distance(n) + Slack
  <2>1. CASE Distance(n) = Infinite
    BY <1>0, <1>5, <2>1
  <2>2. CASE Distance(n) # Infinite
    <3>1. Distance(n) \in Nat /\ Reach(n, Distance(n))
      BY <1>0, <1>6, <2>2
    <3>2. PICK v \in Nat : Best(n, v) /\ v <= Distance(n)
      BY <3>1, BestExists
    <3> DEFINE c == Cardinality(Below(v))
    <3>3. c \in Nat /\ c + 1 <= K
      BY <1>1, <1>2, <3>2
    <3>4. node[n].rank <= v + Hysteresis * c
      BY <1>4, <3>2
    <3> HIDE DEF c
    <3>5. Hysteresis * c <= Hysteresis * (K - 1) /\ Hysteresis * c \in Nat
      <4>1. CASE c = K - 1
        BY <1>0, <4>1, <3>3
      <4>2. CASE c # K - 1
        <5>1. c + 1 <= K - 1
          BY <1>0, <3>3, <4>2
        <5>2. /\ Hysteresis * c + Hysteresis <= Hysteresis * (K - 1)
              /\ Hysteresis * c \in Nat /\ Hysteresis * (K - 1) \in Nat
          BY <1>0, <1>5, <3>3, <5>1, SlackGrows
        <5> QED
          BY <1>0, <5>2
      <4> QED
        BY <4>1, <4>2
    <3> DEFINE a == Hysteresis * c
    <3>6. a \in Nat /\ a <= Slack /\ node[n].rank <= v + a
      BY <1>5, <3>4, <3>5
    <3> HIDE DEF a
    <3> QED
      BY <1>0, <1>5, <3>1, <3>2, <3>6
  <2> QED
    BY <2>1, <2>2
<1> QED
  BY <1>0, <1>5, <1>6, <1>7 DEF NotTooHigh, Infinite

\* A grid does not come to rest while a node believes in a sink that is gone, or
\* before the neighbours have been told of a change of rank: unless an
\* advertisement was lost every rank is then the cost of a real path, and within
\* hysteresis of the best (lg_route_recompute, lg_link_stage_tx).
THEOREM RestingRanksAreTrue == Spec => []QuietIsTrue
<1>1. Sound => QuietIsTrue
  BY QuietNotTooLow, QuietNotTooHigh DEF QuietIsTrue, Settled, Up
<1> QED
  BY <1>1, RouteInvariant, PTL
=============================================================================
