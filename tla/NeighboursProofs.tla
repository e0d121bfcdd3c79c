-------------------------- MODULE NeighboursProofs --------------------------
(***************************************************************************)
(* Proofs about Neighbours, for any number of peers, slots, parents and    *)
(* routes and any costs: all five of its properties.  They follow from one *)
(* inductive invariant, Sound: the table is well formed, the handshake is  *)
(* with whoever is joining, the routes are over linked neighbours and the  *)
(* rank comes from a linked parent, the last two up to the links that a    *)
(* join request has taken over.                                            *)
(*                                                                         *)
(* The walk over the routes and the recursion over an advertised list are  *)
(* functions defined by recursion.  What they return is proved by          *)
(* induction, which is had from the well-foundedness of < on Nat, as are   *)
(* the choices of a least element.                                         *)
(***************************************************************************)
EXTENDS Neighbours, TLAPS, WellFoundedInduction

----------------------------------------------------------------------------
(* Induction and recursion on numbers.                                      *)

\* Any set of numbers that is not empty has a least element.

LEMMA LeastNatural ==
  ASSUME NEW T \in SUBSET Nat, T # {}
  PROVE  \E x \in T : \A y \in T : x <= y
<1> DEFINE R == {ss \in Nat \X Nat : ss[1] < ss[2]}
<1>1. IsWellFoundedOn(R, Nat)
  BY NatLessThanWellFounded DEF OpToRel
<1>2. \A x, y \in Nat : y < x => <<y, x>> \in R
  OBVIOUS
<1> HIDE DEF R
<1>3. PICK x \in T : \A y \in T : ~ (<<y, x>> \in R)
  BY <1>1, WFMin
<1>4. \A y \in T : ~ (y < x)
  BY <1>2, <1>3
<1> QED
  BY <1>3, <1>4

\* A set that has 0 and the successor of each of its numbers has them all.
LEMMA NatSets ==
  ASSUME NEW S, 0 \in S, \A n \in Nat : n \in S => n + 1 \in S
  PROVE  Nat \subseteq S
<1> SUFFICES ASSUME Nat \ S # {} PROVE FALSE
  OBVIOUS
<1>1. PICK x \in Nat \ S : \A y \in Nat \ S : x <= y
  BY LeastNatural
<1>2. x # 0 /\ x - 1 \in Nat
  BY <1>1
<1>3. x - 1 \in S
  BY <1>1, <1>2
<1>4. x \in S
  BY <1>2, <1>3
<1> QED
  BY <1>1, <1>4

\* f is the sequence of values that g yields from b on, up to m.
Iterates(f, m, V, b, g) ==
  /\ f \in [0 .. m -> V] /\ f[0] = b
  /\ \A k \in 1 .. m : f[k] = g[<<f[k - 1], k>>]

\* The sequence up to 0, and from one up to m the one up to m + 1.
LEMMA IteratesFirst ==
  ASSUME NEW V, NEW b \in V, NEW g
  PROVE  Iterates([k \in 0 .. 0 |-> b], 0, V, b, g)
BY DEF Iterates

LEMMA IteratesNext ==
  ASSUME NEW V, NEW b \in V, NEW n \in Nat, NEW g \in [V \X (1 .. n) -> V],
         NEW m \in Nat, m + 1 <= n, NEW f, Iterates(f, m, V, b, g)
  PROVE  Iterates([k \in 0 .. m + 1 |-> IF k = m + 1 THEN g[<<f[m], m + 1>>] ELSE f[k]], m + 1, V, b, g)
<1> DEFINE h == [k \in 0 .. m + 1 |-> IF k = m + 1 THEN g[<<f[m], m + 1>>] ELSE f[k]]
<1>1. f \in [0 .. m -> V] /\ f[0] = b /\ \A k \in 1 .. m : f[k] = g[<<f[k - 1], k>>]
  BY DEF Iterates
<1>2. f[m] \in V /\ m + 1 \in 1 .. n
  BY <1>1
<1>3. g[<<f[m], m + 1>>] \in V
  BY <1>2
<1>4. \A k \in 0 .. m + 1 : h[k] \in V
  BY <1>1, <1>3
<1>5. h \in [0 .. m + 1 -> V]
  BY <1>4
<1>6. h[0] = b
  BY <1>1
<1>7. ASSUME NEW k \in 1 .. m + 1 PROVE h[k] = g[<<h[k - 1], k>>]
  <2>1. k - 1 \in 0 .. m /\ k - 1 # m + 1
    OBVIOUS
  <2>2. h[k - 1] = f[k - 1]
    BY <2>1
  <2>3. CASE k = m + 1
    <3>1. h[k] = g[<<f[m], m + 1>>] /\ k - 1 = m
      BY <2>3
    <3> QED
      BY <2>2, <2>3, <3>1
  <2>4. CASE k # m + 1
    <3>1. k \in 1 .. m /\ h[k] = f[k]
      BY <2>4
    <3>2. f[k] = g[<<f[k - 1], k>>]
      BY <1>1, <3>1
    <3> QED
      BY <2>2, <3>1, <3>2
  <2> QED
    BY <2>3, <2>4
<1> HIDE DEF h
<1>8. Iterates(h, m + 1, V, b, g)
  BY <1>5, <1>6, <1>7 DEF Iterates
<1> QED
  BY <1>8 DEF h

\* So there is one up to any number.
LEMMA Recursion ==
  ASSUME NEW V, NEW b \in V, NEW n \in Nat, NEW g \in [V \X (1 .. n) -> V]
  PROVE  \E f : Iterates(f, n, V, b, g)
<1> DEFINE S == {m \in Nat : m <= n => \E f : Iterates(f, m, V, b, g)}
<1>1. 0 \in S
  BY IteratesFirst
<1>2. ASSUME NEW m \in Nat, m \in S PROVE m + 1 \in S
  <2> SUFFICES ASSUME m + 1 <= n PROVE \E f : Iterates(f, m + 1, V, b, g)
    OBVIOUS
  <2>1. PICK f : Iterates(f, m, V, b, g)
    BY <1>2
  <2> QED
    BY <2>1, IteratesNext
<1> HIDE DEF S
<1>3. n \in S
  BY <1>1, <1>2, NatSets
<1> QED
  BY <1>3 DEF S

----------------------------------------------------------------------------
(* Tables of routes.                                                        *)

\* The equation that defines the function in Without.
KeptStep(f, routes, S) ==
  f = [k \in 0 .. Len(routes) |->
        IF k = 0 THEN <<>>
        ELSE IF routes[k] \in S THEN f[k - 1] ELSE Append(f[k - 1], routes[k])]

\* A function satisfies it, and therefore Without is the last value of one.
LEMMA KeptExists ==
  ASSUME NEW R, NEW routes \in Seq(R), NEW S
  PROVE  \E f : KeptStep(f, routes, S)
<1> DEFINE n == Len(routes)
           V == Seq(R)
           g == [x \in V \X (1 .. n) |->
                    IF routes[x[2]] \in S THEN x[1] ELSE Append(x[1], routes[x[2]])]
<1>1. n \in Nat /\ <<>> \in V
  OBVIOUS
<1>2. g \in [V \X (1 .. n) -> V]
  OBVIOUS
<1>3. \A v \in V, k \in 1 .. n : g[<<v, k>>] = IF routes[k] \in S THEN v ELSE Append(v, routes[k])
  OBVIOUS
<1>4. \E f : Iterates(f, n, V, <<>>, g)
  <2> HIDE DEF g, V, n
  <2> QED
    BY <1>1, <1>2, Recursion
<1> HIDE DEF g, V
<1>5. PICK f : Iterates(f, n, V, <<>>, g)
  BY <1>4
<1>6. f \in [0 .. n -> V] /\ f[0] = <<>> /\ \A k \in 1 .. n : f[k] = g[<<f[k - 1], k>>]
  BY <1>5 DEF Iterates
<1>7. ASSUME NEW k \in 1 .. n
      PROVE  f[k] = IF routes[k] \in S THEN f[k - 1] ELSE Append(f[k - 1], routes[k])
  <2>1. k - 1 \in 0 .. n
    OBVIOUS
  <2> QED
    BY <1>3, <1>6, <2>1
<1>8. \A k \in 0 .. n : f[k] = IF k = 0 THEN <<>>
        ELSE IF routes[k] \in S THEN f[k - 1] ELSE Append(f[k - 1], routes[k])
  <2> SUFFICES ASSUME NEW k \in 0 .. n, k # 0
               PROVE  f[k] = IF routes[k] \in S THEN f[k - 1] ELSE Append(f[k - 1], routes[k])
    BY <1>6, Zenon
  <2>1. k \in 1 .. n
    BY <1>1
  <2> QED
    BY <1>7, <2>1, Zenon
<1> QED
  BY <1>6, <1>8 DEF KeptStep

LEMMA KeptIs ==
  ASSUME NEW R, NEW routes \in Seq(R), NEW S
  PROVE  \E f : KeptStep(f, routes, S) /\ Without(routes, S) = f[Len(routes)]
<1> DEFINE f == CHOOSE f : KeptStep(f, routes, S)
<1>1. KeptStep(f, routes, S)
  BY KeptExists, Zenon
<1>2. Without(routes, S) = f[Len(routes)]
  BY DEF KeptStep, Without
<1> QED
  BY <1>1, <1>2

\* The tables whose routes are over the peers in W.
RoutesOver(W) == [dst : Named, via : W, hops : Nat]
DstUnique(t) == \A k, l \in DOMAIN t : t[k].dst = t[l].dst => k = l
TablesOver(W) == {t \in Seq(RoutesOver(W)) : Len(t) <= MaxRoutes /\ DstUnique(t)}

\* What is left of the first m routes.
KeptSound(g, m, routes, S) ==
  /\ Len(g) <= m
  /\ \A i \in 1 .. Len(g) : \E l \in 1 .. m : g[i] = routes[l] /\ routes[l] \notin S
  /\ DstUnique(routes) => DstUnique(g)
  /\ \A l \in 1 .. m : routes[l] \in S => Len(g) < m

\* The walk keeps what it has to from one route to the next.
LEMMA KeptNext ==
  ASSUME NEW R, NEW routes \in Seq(R), NEW S, NEW m \in Nat, m + 1 <= Len(routes),
         NEW g \in Seq(R), KeptSound(g, m, routes, S)
  PROVE  IF routes[m + 1] \in S THEN KeptSound(g, m + 1, routes, S)
         ELSE KeptSound(Append(g, routes[m + 1]), m + 1, routes, S)
<1>1. CASE routes[m + 1] \in S
  BY <1>1 DEF KeptSound
<1>2. CASE routes[m + 1] \notin S
  <2> DEFINE h == Append(g, routes[m + 1])
             r == routes[m + 1]
  <2>1. /\ h \in Seq(R) /\ Len(h) = Len(g) + 1 /\ h[Len(g) + 1] = r
        /\ \A i \in 1 .. Len(g) : h[i] = g[i]
    OBVIOUS
  <2>2. Len(g) \in Nat /\ DOMAIN h = 1 .. Len(g) + 1 /\ DOMAIN g = 1 .. Len(g)
    BY <2>1
  <2> HIDE DEF h
  <2>3. Len(h) <= m + 1
    BY <2>1, <2>2 DEF KeptSound
  <2>4. ASSUME NEW i \in 1 .. Len(h) PROVE \E l \in 1 .. m + 1 : h[i] = routes[l] /\ routes[l] \notin S
    <3>1. CASE i = Len(g) + 1
      BY <1>2, <2>1, <3>1
    <3>2. CASE i # Len(g) + 1
      <4>1. i \in 1 .. Len(g)
        BY <2>1, <2>2, <3>2
      <4>2. PICK l \in 1 .. m : g[i] = routes[l] /\ routes[l] \notin S
        BY <4>1 DEF KeptSound
      <4> QED
        BY <2>1, <4>1, <4>2
    <3> QED
      BY <3>1, <3>2
  <2>5. ASSUME DstUnique(routes) PROVE DstUnique(h)
    <3> SUFFICES ASSUME NEW i \in 1 .. Len(g) + 1, NEW j \in 1 .. Len(g) + 1, h[i].dst = h[j].dst, i < j
                 PROVE  FALSE
      BY <2>2 DEF DstUnique
    <3>1. i \in 1 .. Len(g)
      BY <2>2
    <3>2. CASE j = Len(g) + 1
      <4>1. PICK l \in 1 .. m : g[i] = routes[l]
        BY <3>1 DEF KeptSound
      <4>2. routes[l].dst = routes[m + 1].dst /\ l # m + 1
        BY <2>1, <3>1, <3>2, <4>1
      <4>3. l \in DOMAIN routes /\ m + 1 \in DOMAIN routes
        OBVIOUS
      <4> QED
        BY <2>5, <4>2, <4>3 DEF DstUnique
    <3>3. CASE j # Len(g) + 1
      <4>1. j \in 1 .. Len(g)
        BY <2>2, <3>3
      <4>2. g[i].dst = g[j].dst
        BY <2>1, <3>1, <4>1
      <4>3. DstUnique(g)
        BY <2>5 DEF KeptSound
      <4> QED
        BY <2>2, <3>1, <4>1, <4>2, <4>3 DEF DstUnique
    <3> QED
      BY <3>2, <3>3
  <2>6. ASSUME NEW l \in 1 .. m + 1, routes[l] \in S PROVE Len(h) < m + 1
    BY <1>2, <2>1, <2>2, <2>6 DEF KeptSound
  <2>7. KeptSound(h, m + 1, routes, S)
    BY <2>3, <2>4, <2>5, <2>6 DEF KeptSound
  <2> QED
    BY <1>2, <2>7 DEF h
<1> QED
  BY <1>1, <1>2

\* Without returns routes of the table, none of them in S, in a table that
\* shrinks if any were.
LEMMA WithoutSound ==
  ASSUME NEW R, NEW routes \in Seq(R), NEW S
  PROVE  Without(routes, S) \in Seq(R) /\ KeptSound(Without(routes, S), Len(routes), routes, S)
<1> DEFINE n == Len(routes)
<1>1. PICK f : KeptStep(f, routes, S) /\ Without(routes, S) = f[n]
  BY KeptIs
<1>2. /\ f[0] = <<>>
      /\ \A k \in 1 .. n : f[k] = IF routes[k] \in S THEN f[k - 1] ELSE Append(f[k - 1], routes[k])
  <2>1. \A k \in 0 .. n : f[k] = IF k = 0 THEN <<>>
          ELSE IF routes[k] \in S THEN f[k - 1] ELSE Append(f[k - 1], routes[k])
    BY <1>1, Zenon DEF KeptStep
  <2>2. n \in Nat
    OBVIOUS
  <2>3. \A k \in 1 .. n : k \in 0 .. n /\ k # 0
    BY <2>2
  <2>4. 0 \in 0 .. n
    BY <2>2
  <2> QED
    BY <2>1, <2>3, <2>4, Zenon
<1> DEFINE M == {m \in Nat : m <= n => f[m] \in Seq(R) /\ KeptSound(f[m], m, routes, S)}
<1>3. 0 \in M
  <2>1. <<>> \in Seq(R) /\ KeptSound(<<>>, 0, routes, S)
    BY DEF KeptSound, DstUnique
  <2> QED
    BY <1>2, <2>1
<1>4. ASSUME NEW m \in Nat, m \in M PROVE m + 1 \in M
  <2> SUFFICES ASSUME m + 1 <= n PROVE f[m + 1] \in Seq(R) /\ KeptSound(f[m + 1], m + 1, routes, S)
    OBVIOUS
  <2>1. f[m] \in Seq(R) /\ KeptSound(f[m], m, routes, S)
    BY <1>4
  <2>2. f[m + 1] = IF routes[m + 1] \in S THEN f[m] ELSE Append(f[m], routes[m + 1])
    BY <1>2
  <2>3. routes[m + 1] \in R
    OBVIOUS
  <2>4. IF routes[m + 1] \in S THEN KeptSound(f[m], m + 1, routes, S)
        ELSE KeptSound(Append(f[m], routes[m + 1]), m + 1, routes, S)
    BY <2>1, KeptNext
  <2> QED
    BY <2>1, <2>2, <2>3, <2>4
<1> HIDE DEF M
<1>5. n \in M
  BY <1>3, <1>4, NatSets
<1> QED
  BY <1>1, <1>5 DEF M

\* The same of a whole table: it stays one.
LEMMA WithoutRoutes ==
  ASSUME NEW W, NEW t \in TablesOver(W), NEW S
  PROVE  /\ Without(t, S) \in TablesOver(W)
         /\ \A k \in DOMAIN Without(t, S) : \E l \in DOMAIN t : Without(t, S)[k] = t[l] /\ t[l] \notin S
         /\ \A l \in DOMAIN t : t[l] \in S => Len(Without(t, S)) < Len(t)
<1> DEFINE g == Without(t, S)
<1>1. t \in Seq(RoutesOver(W)) /\ Len(t) <= MaxRoutes /\ DstUnique(t)
  BY DEF TablesOver
<1>2. g \in Seq(RoutesOver(W)) /\ KeptSound(g, Len(t), t, S)
  BY <1>1, WithoutSound
<1>3. DOMAIN t = 1 .. Len(t) /\ DOMAIN g = 1 .. Len(g) /\ Len(t) \in Nat /\ Len(g) \in Nat
  BY <1>1, <1>2
<1> HIDE DEF g
<1>4. g \in TablesOver(W)
  BY <1>1, <1>2, <1>3, NeighboursAssumption DEF KeptSound, TablesOver
<1> QED
  BY <1>2, <1>3, <1>4 DEF KeptSound, g

\* A table that names no destination but once more.
LEMMA Appended ==
  ASSUME NEW W, NEW t \in TablesOver(W), NEW r \in RoutesOver(W), Len(t) < MaxRoutes,
         \A k \in DOMAIN t : t[k].dst # r.dst
  PROVE  Append(t, r) \in TablesOver(W)
<1> DEFINE h == Append(t, r)
<1>1. t \in Seq(RoutesOver(W)) /\ Len(t) \in Nat /\ DstUnique(t) /\ DOMAIN t = 1 .. Len(t)
  BY DEF TablesOver
<1>2. /\ h \in Seq(RoutesOver(W)) /\ Len(h) = Len(t) + 1 /\ h[Len(t) + 1] = r
      /\ \A i \in 1 .. Len(t) : h[i] = t[i]
  BY <1>1
<1>3. DOMAIN h = 1 .. Len(t) + 1
  BY <1>2
<1> HIDE DEF h
<1>4. Len(h) <= MaxRoutes
  BY <1>1, <1>2, NeighboursAssumption
<1>5. DstUnique(h)
  <2> SUFFICES ASSUME NEW i \in 1 .. Len(t) + 1, NEW j \in 1 .. Len(t) + 1, h[i].dst = h[j].dst, i < j
               PROVE  FALSE
    BY <1>1, <1>3 DEF DstUnique
  <2>1. i \in 1 .. Len(t) /\ h[i] = t[i]
    BY <1>1, <1>2
  <2>2. CASE j = Len(t) + 1
    BY <1>1, <1>2, <2>1, <2>2
  <2>3. CASE j # Len(t) + 1
    <3>1. j \in 1 .. Len(t) /\ h[j] = t[j]
      BY <1>1, <1>2, <2>3
    <3> QED
      BY <1>1, <2>1, <3>1 DEF DstUnique
  <2> QED
    BY <2>2, <2>3
<1> QED
  BY <1>2, <1>4, <1>5 DEF TablesOver, h

\* A table that has lost its oldest route.
LEMMA Tailed ==
  ASSUME NEW W, NEW t \in TablesOver(W), t # <<>>
  PROVE  /\ Tail(t) \in TablesOver(W) /\ Len(Tail(t)) = Len(t) - 1
         /\ \A k \in DOMAIN Tail(t) : Tail(t)[k] = t[k + 1] /\ k + 1 \in DOMAIN t
<1> DEFINE h == Tail(t)
<1>1. t \in Seq(RoutesOver(W)) /\ Len(t) \in Nat /\ Len(t) <= MaxRoutes /\ DstUnique(t)
      /\ DOMAIN t = 1 .. Len(t)
  BY DEF TablesOver
<1>2. h \in Seq(RoutesOver(W)) /\ Len(h) = Len(t) - 1 /\ Len(t) # 0
  BY <1>1
<1>3. \A k \in 1 .. Len(t) - 1 : h[k] = t[k + 1]
  BY <1>1
<1>4. DOMAIN h = 1 .. Len(t) - 1
  BY <1>2
<1> HIDE DEF h
<1>5. \A k \in DOMAIN h : h[k] = t[k + 1] /\ k + 1 \in DOMAIN t
  BY <1>1, <1>3, <1>4
<1>6. DstUnique(h)
  BY <1>1, <1>4, <1>5 DEF DstUnique
<1>7. Len(h) <= MaxRoutes
  BY <1>1, <1>2, NeighboursAssumption
<1> QED
  BY <1>2, <1>5, <1>6, <1>7 DEF TablesOver, h

\* First finds the least.
LEMMA FirstIn ==
  ASSUME NEW T \in SUBSET Nat, T # {}
  PROVE  First(T) \in T /\ \A j \in T : First(T) <= j
BY LeastNatural DEF First

\* lg_route_add leaves a table that fits, with one route to a destination.
LEMMA WithRouteSound ==
  ASSUME NEW W, NEW t \in TablesOver(W), NEW r \in RoutesOver(W)
  PROVE  WithRoute(t, r) \in TablesOver(W)
<1> DEFINE known == {k \in DOMAIN t : t[k].dst = r.dst}
           S == {t[k] : k \in known}
           others == Without(t, S)
           shorter == {k \in known : t[k].hops < r.hops}
<1>1. t \in Seq(RoutesOver(W)) /\ Len(t) \in Nat /\ Len(t) <= MaxRoutes /\ DOMAIN t = 1 .. Len(t)
  BY DEF TablesOver
<1>2. /\ others \in TablesOver(W)
      /\ \A k \in DOMAIN others : \E l \in DOMAIN t : others[k] = t[l] /\ t[l] \notin S
      /\ \A l \in DOMAIN t : t[l] \in S => Len(others) < Len(t)
  BY WithoutRoutes
<1>3. \A k \in DOMAIN others : others[k].dst # r.dst
  BY <1>2
<1>4. known # {} => Len(others) < Len(t)
  BY <1>2
<1>5. others \in Seq(RoutesOver(W)) /\ Len(others) \in Nat /\ Len(others) <= Len(t)
  <2>1. KeptSound(others, Len(t), t, S)
    BY <1>1, WithoutSound
  <2> QED
    BY <1>2, <2>1 DEF TablesOver, KeptSound
<1>6. Len(t) \in Nat /\ Len(others) \in Nat /\ MaxRoutes \in Nat /\ Len(others) <= Len(t) /\ Len(t) <= MaxRoutes
  BY <1>1, <1>5, NeighboursAssumption
<1> HIDE DEF others
<1>7. CASE shorter # {}
  <2> DEFINE k == First(shorter)
  <2>1. shorter \in SUBSET Nat
    BY <1>1
  <2>2. k \in shorter
    BY <1>7, <2>1, FirstIn
  <2> HIDE DEF k
  <2>3. t[k] \in RoutesOver(W) /\ t[k].dst = r.dst /\ known # {}
    BY <1>1, <2>2
  <2>4. Len(others) < MaxRoutes
    BY <1>4, <1>6, <2>3
  <2>5. Append(others, t[k]) \in TablesOver(W)
    BY <1>2, <1>3, <2>3, <2>4, Appended
  <2> QED
    BY <1>7, <2>5 DEF WithRoute, others, k
<1>8. CASE shorter = {} /\ known = {} /\ Len(t) = MaxRoutes
  <2>1. t # <<>>
    BY <1>8, NeighboursAssumption
  <2>2. /\ Tail(t) \in TablesOver(W) /\ Len(Tail(t)) = Len(t) - 1
        /\ \A k \in DOMAIN Tail(t) : Tail(t)[k] = t[k + 1] /\ k + 1 \in DOMAIN t
    BY <2>1, Tailed
  <2>3. \A k \in DOMAIN Tail(t) : Tail(t)[k].dst # r.dst
    BY <1>8, <2>2
  <2>4. Append(Tail(t), r) \in TablesOver(W)
    <3>1. Len(Tail(t)) < MaxRoutes
      BY <1>8, <2>2, NeighboursAssumption
    <3> QED
      BY <2>2, <2>3, <3>1, Appended
  <2> QED
    BY <1>8, <2>4 DEF WithRoute, others
<1>9. CASE shorter = {} /\ ~(known = {} /\ Len(t) = MaxRoutes)
  <2>1. Len(others) < MaxRoutes
    <3>1. known # {} \/ Len(t) # MaxRoutes
      BY <1>9
    <3>2. CASE known # {}
      <4>1. Len(others) < Len(t)
        BY <1>4, <3>2, Zenon
      <4> QED
        BY <1>6, <4>1
    <3>3. CASE Len(t) # MaxRoutes
      BY <1>6, <3>3
    <3> QED
      BY <3>1, <3>2, <3>3
  <2>2. Append(others, r) \in TablesOver(W)
    BY <1>2, <1>3, <2>1, Appended
  <2> QED
    BY <1>9, <2>2 DEF WithRoute, others
<1> QED
  BY <1>7, <1>8, <1>9

\* The equation that defines the function in WithRoutes.
AddedStep(f, routes, list, p, hops) ==
  f = [k \in 0 .. Len(list) |->
        IF k = 0 THEN routes
        ELSE WithRoute(f[k - 1], [dst |-> list[k], via |-> p, hops |-> hops])]

\* A function satisfies it.
LEMMA AddedExists ==
  ASSUME NEW W, NEW routes \in TablesOver(W), NEW list \in Lists, NEW p \in W, NEW hops \in Nat
  PROVE  \E f : AddedStep(f, routes, list, p, hops)
<1> DEFINE n == Len(list)
           V == TablesOver(W)
           r(k) == [dst |-> list[k], via |-> p, hops |-> hops]
           g == [x \in V \X (1 .. n) |-> WithRoute(x[1], r(x[2]))]
<1>1. n \in Nat /\ \A k \in 1 .. n : r(k) \in RoutesOver(W)
  BY NeighboursAssumption DEF RoutesOver
<1> HIDE DEF r
<1>2. \A v \in V, k \in 1 .. n : WithRoute(v, r(k)) \in V
  BY <1>1, WithRouteSound
<1>3. g \in [V \X (1 .. n) -> V]
  <2> HIDE DEF V
  <2> QED
    BY <1>2
<1>4. \A v \in V, k \in 1 .. n : g[<<v, k>>] = WithRoute(v, r(k))
  OBVIOUS
<1>5. \E f : Iterates(f, n, V, routes, g)
  <2> HIDE DEF g, V, n
  <2> QED
    BY <1>1, <1>3, Recursion DEF V
<1> HIDE DEF g, V
<1>6. PICK f : Iterates(f, n, V, routes, g)
  BY <1>5
<1>7. f \in [0 .. n -> V] /\ f[0] = routes /\ \A k \in 1 .. n : f[k] = g[<<f[k - 1], k>>]
  BY <1>6 DEF Iterates
<1>8. ASSUME NEW k \in 1 .. n PROVE f[k] = WithRoute(f[k - 1], r(k))
  <2>1. k - 1 \in 0 .. n
    OBVIOUS
  <2> QED
    BY <1>4, <1>7, <2>1
<1>9. \A k \in 0 .. n : f[k] = IF k = 0 THEN routes ELSE WithRoute(f[k - 1], r(k))
  <2> SUFFICES ASSUME NEW k \in 0 .. n, k # 0 PROVE f[k] = WithRoute(f[k - 1], r(k))
    BY <1>7, Zenon
  <2>1. k \in 1 .. n
    BY <1>1
  <2> QED
    BY <1>8, <2>1, Zenon
<1> QED
  BY <1>7, <1>9 DEF AddedStep, r

\* Adding the destinations of a list leaves such a table too.
LEMMA WithRoutesSound ==
  ASSUME NEW W, NEW routes \in TablesOver(W), NEW list \in Lists, NEW p \in W, NEW hops \in Nat
  PROVE  WithRoutes(routes, list, p, hops) \in TablesOver(W)
<1> DEFINE n == Len(list)
           f == CHOOSE f : AddedStep(f, routes, list, p, hops)
<1>1. AddedStep(f, routes, list, p, hops)
  BY AddedExists, Zenon
<1>2. WithRoutes(routes, list, p, hops) = f[n]
  BY DEF AddedStep, WithRoutes
<1> HIDE DEF f
<1> DEFINE r(k) == [dst |-> list[k], via |-> p, hops |-> hops]
           M == {m \in Nat : m <= n => f[m] \in TablesOver(W)}
<1>3. \A k \in 0 .. n : f[k] = IF k = 0 THEN routes ELSE WithRoute(f[k - 1], r(k))
  BY <1>1, Zenon DEF AddedStep
<1>4. n \in Nat /\ \A k \in 1 .. n : r(k) \in RoutesOver(W)
  BY NeighboursAssumption DEF RoutesOver
<1> HIDE DEF n, r
<1>5. 0 \in M
  <2>1. 0 \in 0 .. n
    BY <1>4
  <2> QED
    BY <1>3, <2>1
<1>6. ASSUME NEW m \in Nat, m \in M PROVE m + 1 \in M
  <2> SUFFICES ASSUME m + 1 <= n PROVE f[m + 1] \in TablesOver(W)
    OBVIOUS
  <2>1. m + 1 \in 0 .. n /\ m + 1 \in 1 .. n /\ m + 1 # 0 /\ m + 1 - 1 = m /\ f[m] \in TablesOver(W)
    BY <1>4, <1>6
  <2>2. f[m + 1] = WithRoute(f[m], r(m + 1))
    BY <1>3, <2>1
  <2> QED
    BY <1>4, <2>1, <2>2, WithRouteSound
<1> HIDE DEF M
<1>7. n \in M
  BY <1>4, <1>5, <1>6, NatSets
<1> QED
  BY <1>2, <1>4, <1>7 DEF M

----------------------------------------------------------------------------
(* The node.                                                                *)

Entries ==
  [state : {"free", "heard", "joining", "linked", "lost"}, addr : Peers \cup {None},
   cost : 1 .. Infinite, heard : 0 .. Infinite, parent : BOOLEAN, ltk : BOOLEAN]

Nodes ==
  [neigh : [Slots -> Entries], rank : 1 .. Infinite, routes : TablesOver(Peers),
   hs : [slot : Slots \cup {None}, joiner : BOOLEAN]]

\* A slot has an address unless it is free, and no address has two.
Addressed(s) ==
  /\ \A i, j \in Slots : s.neigh[i].addr = s.neigh[j].addr => i = j \/ s.neigh[i].addr = None
  /\ \A i \in Slots : s.neigh[i].addr = None <=> s.neigh[i].state = "free"

\* Whoever is joining is the one the handshake is with.
Driven(s) == \A i \in Slots : s.neigh[i].state = "joining" => s.hs.slot = i

\* The peers it has links to, and that a rank has a linked parent.
LinkedTo(s) == {s.neigh[i].addr : i \in Linked(s)}
Parented(s) == s.rank # Infinite => \E i \in Linked(s) : s.neigh[i].parent

\* What holds of a node between its steps, and R are the peers of links that
\* were reopened; of its rank, only what Recomputed does not restore.
Steady(s, R) ==
  /\ s \in Nodes /\ Addressed(s) /\ Driven(s)
  /\ s.routes \in TablesOver(R \cup LinkedTo(s))
Sound(s, R) == Steady(s, R) /\ (R = {} => Parented(s))

\* A sequence whose elements are all in B.
LEMMA SeqOver ==
  ASSUME NEW A, NEW B, NEW g \in Seq(A), \A k \in 1 .. Len(g) : g[k] \in B
  PROVE  g \in Seq(B)
<1>1. g \in [1 .. Len(g) -> A] /\ Len(g) \in Nat
  OBVIOUS
<1>2. g \in [1 .. Len(g) -> B]
  BY <1>1
<1> QED
  BY <1>1, <1>2

\* What is over the peers in W is over those of a larger set.
LEMMA WiderTables ==
  ASSUME NEW W, NEW V, W \subseteq V, NEW t \in TablesOver(W)
  PROVE  t \in TablesOver(V)
<1>1. RoutesOver(W) \subseteq RoutesOver(V)
  BY DEF RoutesOver
<1>2. t \in Seq(RoutesOver(W))
  BY DEF TablesOver
<1>3. t \in Seq(RoutesOver(V))
  BY <1>1, <1>2
<1> QED
  BY <1>3 DEF TablesOver

\* The peers linked to depend on the linked slots' addresses only.
LEMMA LinkedToSame ==
  ASSUME NEW s, NEW t, Linked(t) = Linked(s), \A j \in Linked(s) : t.neigh[j].addr = s.neigh[j].addr
  PROVE  LinkedTo(t) = LinkedTo(s)
BY DEF LinkedTo

\* The ceiling is a cost and a rank; a free slot and one just heard hold what
\* they should.
LEMMA InfiniteIs == Infinite \in Nat \ {0} /\ Infinite \in 1 .. Infinite /\ Infinite \in 0 .. Infinite
  BY NeighboursAssumption DEF Infinite

LEMMA FreeIs == Free \in Entries /\ Free.state = "free" /\ Free.addr = None
  BY InfiniteIs DEF Free, Entries

LEMMA HeardIs ==
  ASSUME NEW p \in Peers
  PROVE  Heard(p) \in Entries /\ Heard(p).state = "heard" /\ Heard(p).addr = p
BY FreeIs DEF Heard, Entries

\* A node with one slot rewritten.
WithSlot(s, i, e) == [s EXCEPT !.neigh[i] = e]

\* Its fields.
LEMMA SlotSet ==
  ASSUME NEW s \in Nodes, NEW i \in Slots, NEW e \in Entries
  PROVE  LET t == WithSlot(s, i, e)
         IN /\ t \in Nodes /\ t.neigh[i] = e
            /\ \A j \in Slots : j # i => t.neigh[j] = s.neigh[j]
            /\ t.rank = s.rank /\ t.routes = s.routes /\ t.hs = s.hs
<1> DEFINE t == WithSlot(s, i, e)
<1>1. s.neigh \in [Slots -> Entries]
  BY DEF Nodes
<1>2. t.neigh = [s.neigh EXCEPT ![i] = e] /\ t.rank = s.rank /\ t.routes = s.routes /\ t.hs = s.hs
  BY DEF Nodes, WithSlot
<1>3. t.neigh \in [Slots -> Entries]
  BY <1>1, <1>2
<1>4. t \in Nodes
  BY <1>2, <1>3 DEF Nodes, WithSlot
<1> QED
  BY <1>1, <1>2, <1>4

\* A slot that is not linked may be cleared.
LEMMA FreeSlot ==
  ASSUME NEW s, NEW R, Sound(s, R), NEW i \in Slots \ Linked(s),
         NEW t, t = WithSlot(s, i, Free)
  PROVE  /\ Sound(t, R) /\ i \in SlotsOf(t, None) /\ t.hs = s.hs
         /\ \A j \in Slots : j # i => t.neigh[j] = s.neigh[j]
<1>1. s \in Nodes /\ Addressed(s) /\ Driven(s) /\ s.routes \in TablesOver(R \cup LinkedTo(s))
  BY DEF Sound, Steady
<1>2. Free \in Entries /\ i \in Slots
  BY FreeIs
<1>3. /\ t \in Nodes /\ t.neigh[i] = Free
      /\ \A j \in Slots : j # i => t.neigh[j] = s.neigh[j]
      /\ t.rank = s.rank /\ t.routes = s.routes /\ t.hs = s.hs
  BY <1>1, <1>2, SlotSet
<1>4. Free.state = "free" /\ Free.addr = None
  BY FreeIs
<1>5. Linked(t) = Linked(s) /\ \A j \in Linked(s) : j # i /\ j \in Slots
  BY <1>3, <1>4 DEF Linked
<1>6. LinkedTo(t) = LinkedTo(s)
  BY <1>3, <1>5, LinkedToSame
<1>7. Addressed(t)
  BY <1>1, <1>3, <1>4 DEF Addressed
<1>8. Driven(t)
  BY <1>1, <1>3, <1>4 DEF Driven
<1>9. Steady(t, R)
  BY <1>1, <1>3, <1>6, <1>7, <1>8 DEF Steady
<1>10. ASSUME R = {} PROVE Parented(t)
  BY <1>3, <1>5, <1>10 DEF Sound, Parented
<1> QED
  BY <1>3, <1>4, <1>9, <1>10 DEF Sound, SlotsOf

\* A free slot may be given to a peer that has none.
LEMMA HeardSlot ==
  ASSUME NEW s, NEW R, Sound(s, R), NEW i \in SlotsOf(s, None), NEW p \in Peers, SlotsOf(s, p) = {},
         NEW t, t = WithSlot(s, i, Heard(p))
  PROVE  /\ Sound(t, R) /\ i \in SlotsOf(t, p) /\ t.hs = s.hs /\ i \notin Linked(s)
         /\ \A j \in Slots : j # i => t.neigh[j] = s.neigh[j]
<1>1. s \in Nodes /\ Addressed(s) /\ Driven(s) /\ s.routes \in TablesOver(R \cup LinkedTo(s))
  BY DEF Sound, Steady
<1>2. Heard(p) \in Entries
  BY HeardIs
<1>3. i \in Slots /\ s.neigh[i].addr = None /\ s.neigh[i].state = "free"
  BY <1>1 DEF SlotsOf, Addressed
<1>4. /\ t \in Nodes /\ t.neigh[i] = Heard(p)
      /\ \A j \in Slots : j # i => t.neigh[j] = s.neigh[j]
      /\ t.rank = s.rank /\ t.routes = s.routes /\ t.hs = s.hs
  BY <1>1, <1>2, <1>3, SlotSet
<1>5. Heard(p).state = "heard" /\ Heard(p).addr = p /\ p # None
  BY HeardIs, NeighboursAssumption
<1>6. Linked(t) = Linked(s) /\ \A j \in Linked(s) : j # i /\ j \in Slots
  BY <1>3, <1>4, <1>5 DEF Linked
<1>7. LinkedTo(t) = LinkedTo(s)
  BY <1>4, <1>6, LinkedToSame
<1>8. Addressed(t)
  <2>1. \A j \in Slots : s.neigh[j].addr # p
    BY DEF SlotsOf
  <2> QED
    BY <1>1, <1>4, <1>5, <2>1 DEF Addressed
<1>9. Driven(t)
  BY <1>1, <1>4, <1>5 DEF Driven
<1>10. Steady(t, R)
  BY <1>1, <1>4, <1>7, <1>8, <1>9 DEF Steady
<1>11. ASSUME R = {} PROVE Parented(t)
  BY <1>4, <1>6, <1>11 DEF Sound, Parented
<1>12. i \in SlotsOf(t, p) /\ i \notin Linked(s)
  BY <1>3, <1>4, <1>5 DEF SlotsOf, Linked
<1>13. Sound(t, R)
  BY <1>10, <1>11 DEF Sound
<1> QED
  BY <1>4, <1>12, <1>13

----------------------------------------------------------------------------
(* Rank and parents.                                                        *)

\* The cost of the way through a slot.
LEMMA ThroughIs ==
  ASSUME NEW s \in Nodes, NEW i \in Slots
  PROVE  Through(s, i) \in 1 .. Infinite /\ (Through(s, i) < Infinite => i \in Linked(s))
<1> DEFINE n == s.neigh[i]
<1>1. n \in Entries
  BY DEF Nodes
<1>2. n.heard \in 0 .. Infinite /\ n.cost \in 1 .. Infinite
  BY <1>1 DEF Entries
<1> HIDE DEF n
<1>3. CASE n.state = "linked" /\ n.heard # Infinite /\ n.heard + n.cost < MaxRank
  <2>1. Through(s, i) = n.heard + n.cost
    BY <1>3 DEF Through, n
  <2>2. i \in Linked(s)
    BY <1>3 DEF Linked, n
  <2>3. n.heard + n.cost \in 1 .. Infinite
    BY <1>2, <1>3, InfiniteIs DEF Infinite
  <2> QED
    BY <2>1, <2>2, <2>3
<1>4. CASE ~(n.state = "linked" /\ n.heard # Infinite /\ n.heard + n.cost < MaxRank)
  <2>1. Through(s, i) = Infinite
    BY <1>4, Zenon DEF Through, n
  <2> QED
    BY <2>1, InfiniteIs
<1> QED
  BY <1>3, <1>4

\* Of the slots that number n or none, one is best.
LEMMA BestIn ==
  ASSUME NEW s \in Nodes, NEW S \in SUBSET Slots, S # {}
  PROVE  \E i \in S : \A j \in S : ~ Before(s, j, i)
<1>1. S \subseteq Nat /\ \A i \in S : Through(s, i) \in Nat
  BY ThroughIs, InfiniteIs, NeighboursAssumption DEF Slots
<1> DEFINE C == {Through(s, i) : i \in S}
<1>2. C \in SUBSET Nat /\ C # {}
  BY <1>1
<1>3. PICK c \in C : \A d \in C : c <= d
  BY <1>2, LeastNatural
<1> DEFINE L == {i \in S : Through(s, i) = c}
<1>4. L \in SUBSET Nat /\ L # {}
  BY <1>1, <1>3
<1>5. PICK i \in L : \A j \in L : i <= j
  BY <1>4, LeastNatural
<1>6. ASSUME NEW j \in S, Before(s, j, i) PROVE FALSE
  <2>1. Through(s, i) = c /\ Through(s, j) \in C /\ c \in Nat /\ Through(s, j) \in Nat
    BY <1>1, <1>2
  <2>2. c <= Through(s, j)
    BY <1>3, <2>1
  <2>3. Through(s, j) = c /\ j < i
    <3> HIDE DEF C, L
    <3> QED
      BY <1>6, <2>1, <2>2 DEF Before
  <2>4. i <= j
    BY <1>5, <2>3
  <2> QED
    BY <1>1, <2>3, <2>4
<1> QED
  BY <1>6

\* The rank is in range, and finite only if there is a parent; every parent is
\* linked.
LEMMA NewRankIs ==
  ASSUME NEW s \in Nodes
  PROVE  /\ NewRank(s) \in 1 .. Infinite
         /\ Parents(s) \subseteq Linked(s)
         /\ NewRank(s) # Infinite => Parents(s) # {}
<1> DEFINE best == CHOOSE i \in Parents(s) : \A j \in Parents(s) : ~Before(s, j, i)
           kept == {i \in Using(s) \cap Parents(s) : Through(s, i) <= Through(s, best) + Hysteresis}
<1>1. Parents(s) \subseteq Slots
  BY DEF Parents
<1>2. Parents(s) \subseteq Linked(s)
  BY ThroughIs DEF Parents
<1>3. CASE Parents(s) = {}
  <2>1. NewRank(s) = Infinite
    BY <1>3, Zenon DEF NewRank
  <2> QED
    BY <1>2, <2>1, InfiniteIs
<1>4. CASE Parents(s) # {}
  <2>1. best \in Parents(s)
    <3>1. \E i \in Parents(s) : \A j \in Parents(s) : ~Before(s, j, i)
      BY <1>1, <1>4, BestIn
    <3> QED
      BY <3>1, Zenon
  <2>2. kept # {} => First(kept) \in kept
    <3>1. kept \in SUBSET Nat
      BY <1>1, NeighboursAssumption DEF Slots
    <3> HIDE DEF kept
    <3> QED
      BY <3>1, FirstIn
  <2>3. NewRank(s) = Through(s, IF kept = {} THEN best ELSE First(kept))
    BY <1>4, Zenon DEF NewRank
  <2>4. (IF kept = {} THEN best ELSE First(kept)) \in Slots
    <3>1. kept \subseteq Slots
      BY <1>1
    <3> HIDE DEF best, kept
    <3> QED
      BY <1>1, <2>1, <2>2, <3>1
  <2> HIDE DEF best, kept
  <2> QED
    BY <1>2, <1>4, <2>3, <2>4, ThroughIs
<1> QED
  BY <1>3, <1>4

\* A neighbour's record once recomputation has set its flag.
WithParent(n, j, P) == [n EXCEPT !.parent = j \in P]
FlaggedAs(e, n, j, P) ==
  e \in Entries /\ e.addr = n.addr /\ e.state = n.state /\ (j \in P => e.parent)

\* It is the same neighbour's, and the flag is set for the parents.
LEMMA FlaggedIf ==
  ASSUME NEW n \in Entries, NEW j, NEW P
  PROVE  FlaggedAs(WithParent(n, j, P), n, j, P)
<1>1. CASE j \in P
  <2>1. WithParent(n, j, P) = [n EXCEPT !.parent = TRUE]
    BY <1>1, Zenon DEF WithParent
  <2>2. FlaggedAs([n EXCEPT !.parent = TRUE], n, j, P)
    BY DEF FlaggedAs, Entries
  <2> QED
    BY <2>1, <2>2
<1>2. CASE j \notin P
  <2>1. WithParent(n, j, P) = [n EXCEPT !.parent = FALSE]
    <3>1. (j \in P) = FALSE
      BY <1>2
    <3> QED
      BY <3>1, Zenon DEF WithParent
  <2>2. FlaggedAs([n EXCEPT !.parent = FALSE], n, j, P)
    BY <1>2 DEF FlaggedAs, Entries
  <2> QED
    BY <2>1, <2>2
<1> QED
  BY <1>1, <1>2

\* A node with another rank and other neighbours.
WithRank(s, r, f) == [s EXCEPT !.rank = r, !.neigh = f]

\* Its fields.
LEMMA RankSet ==
  ASSUME NEW s \in Nodes, NEW r \in 1 .. Infinite, NEW f \in [Slots -> Entries]
  PROVE  LET t == WithRank(s, r, f)
         IN t \in Nodes /\ t.rank = r /\ t.neigh = f /\ t.routes = s.routes /\ t.hs = s.hs
BY DEF Nodes, WithRank

\* lg_route_recompute keeps addresses, states and routes, and gives a rank a
\* linked parent whatever the flags were.
LEMMA RecomputedSound ==
  ASSUME NEW s, NEW R, Steady(s, R)
  PROVE  LET t == Recomputed(s)
         IN /\ Steady(t, R) /\ Parented(t) /\ t.hs = s.hs /\ t.routes = s.routes
            /\ \A j \in Slots : t.neigh[j].addr = s.neigh[j].addr /\ t.neigh[j].state = s.neigh[j].state
<1> DEFINE t == Recomputed(s)
           e(j) == WithParent(s.neigh[j], j, Parents(s))
<1>1. s \in Nodes /\ Addressed(s) /\ Driven(s) /\ s.routes \in TablesOver(R \cup LinkedTo(s))
  BY DEF Steady
<1>2. s.neigh \in [Slots -> Entries] /\ s.hs \in [slot : Slots \cup {None}, joiner : BOOLEAN]
      /\ s.routes \in TablesOver(Peers)
  BY <1>1 DEF Nodes
<1>3. \A j \in Slots : FlaggedAs(e(j), s.neigh[j], j, Parents(s))
  <2>1. \A j \in Slots : s.neigh[j] \in Entries
    BY <1>2
  <2> QED
    BY <2>1, FlaggedIf
<1>4. t = WithRank(s, NewRank(s), [j \in Slots |-> e(j)])
  BY DEF Recomputed, WithRank, WithParent
<1> HIDE DEF e
<1> DEFINE g == [j \in Slots |-> e(j)]
<1>5. g \in [Slots -> Entries] /\ \A j \in Slots : g[j] = e(j)
  BY <1>3 DEF FlaggedAs
<1> HIDE DEF g
<1>6. t \in Nodes /\ t.rank = NewRank(s) /\ t.neigh = g /\ t.routes = s.routes /\ t.hs = s.hs
  BY <1>1, <1>4, <1>5, NewRankIs, RankSet DEF g
<1>7. \A j \in Slots : t.neigh[j] = e(j)
  BY <1>5, <1>6
<1> HIDE DEF t
<1>8. \A j \in Slots : t.neigh[j].addr = s.neigh[j].addr /\ t.neigh[j].state = s.neigh[j].state
  BY <1>3, <1>7 DEF FlaggedAs
<1>9. Linked(t) = Linked(s)
  BY <1>8 DEF Linked
<1>10. LinkedTo(t) = LinkedTo(s)
  BY <1>8, <1>9, LinkedToSame DEF Linked
<1>11. Addressed(t) /\ Driven(t)
  BY <1>1, <1>6, <1>8 DEF Addressed, Driven
<1>12. Parented(t)
  <2> SUFFICES ASSUME NewRank(s) # Infinite PROVE \E i \in Linked(t) : t.neigh[i].parent
    BY <1>6 DEF Parented
  <2>1. PICK i : i \in Parents(s)
    BY <1>1, NewRankIs
  <2>2. i \in Linked(s) /\ i \in Slots
    BY <1>1, <2>1, NewRankIs DEF Linked
  <2>3. t.neigh[i].parent
    BY <1>3, <1>7, <2>1, <2>2 DEF FlaggedAs
  <2> QED
    BY <1>9, <2>2, <2>3
<1>13. Steady(t, R)
  BY <1>1, <1>6, <1>10, <1>11 DEF Steady
<1> QED
  BY <1>6, <1>8, <1>12, <1>13 DEF t

\* Taking the link to p down also lifts what p's handshake had left behind.
LEMMA DownSound ==
  ASSUME NEW s, NEW R, Steady(s, R), NEW i \in Linked(s)
  PROVE  LET t == Down(s, i)
         IN /\ Steady(t, R \ {s.neigh[i].addr}) /\ Parented(t) /\ t.hs = s.hs /\ i \notin Linked(t)
            /\ \A j \in Slots : t.neigh[j].addr = s.neigh[j].addr
<1> DEFINE p == s.neigh[i].addr
           e == [s.neigh[i] EXCEPT !.state = "lost", !.ltk = TRUE, !.parent = FALSE, !.heard = Infinite]
           u == Unlinked(s, i)
           f == Flushed(u, p)
           S == {r \in Range(s.routes) : r.via = p}
           W == R \cup LinkedTo(s)
<1>1. s \in Nodes /\ Addressed(s) /\ Driven(s) /\ s.routes \in TablesOver(W)
  BY DEF Steady
<1>2. i \in Slots /\ s.neigh[i].state = "linked" /\ s.neigh[i] \in Entries
  BY <1>1 DEF Linked, Nodes
<1>3. e \in Entries /\ e.addr = p /\ e.state = "lost"
  BY <1>2, InfiniteIs DEF Entries
<1>4. u = WithSlot(s, i, e)
  BY DEF Unlinked, WithSlot
<1> HIDE DEF e, u
<1>5. /\ u \in Nodes /\ u.neigh[i] = e
      /\ \A j \in Slots : j # i => u.neigh[j] = s.neigh[j]
      /\ u.rank = s.rank /\ u.routes = s.routes /\ u.hs = s.hs
  BY <1>1, <1>2, <1>3, <1>4, SlotSet
<1>6. /\ f = [neigh |-> u.neigh, rank |-> u.rank, routes |-> Without(s.routes, S), hs |-> u.hs]
  BY <1>5 DEF Nodes, Flushed
<1>7. Without(s.routes, S) \in TablesOver(W \ {p})
  <2> DEFINE g == Without(s.routes, S)
  <2>1. /\ g \in TablesOver(W)
        /\ \A k \in DOMAIN g : \E l \in DOMAIN s.routes : g[k] = s.routes[l] /\ s.routes[l] \notin S
    BY <1>1, WithoutRoutes
  <2>2. \A k \in DOMAIN g : g[k].via # p
    BY <2>1 DEF Range
  <2>3. g \in Seq(RoutesOver(W)) /\ DOMAIN g = 1 .. Len(g) /\ Len(g) \in Nat
    BY <2>1 DEF TablesOver
  <2> HIDE DEF g
  <2>4. \A k \in 1 .. Len(g) : g[k] \in RoutesOver(W)
    BY <2>3
  <2>5. \A k \in 1 .. Len(g) : g[k] \in RoutesOver(W \ {p})
    <3> HIDE DEF W, p
    <3> QED
      BY <2>2, <2>3, <2>4 DEF RoutesOver
  <2>6. g \in Seq(RoutesOver(W \ {p}))
    BY <2>3, <2>5, SeqOver
  <2> QED
    BY <2>1, <2>6 DEF TablesOver, g
<1>8. Without(s.routes, S) \in TablesOver(Peers)
  BY <1>1, WithoutRoutes DEF Nodes
<1> HIDE DEF f
<1>9. f \in Nodes /\ f.neigh = u.neigh /\ f.hs = s.hs /\ f.routes = Without(s.routes, S)
  BY <1>5, <1>6, <1>8 DEF Nodes
<1>10. \A j \in Slots : f.neigh[j].addr = s.neigh[j].addr /\ (j # i => f.neigh[j] = s.neigh[j])
  BY <1>3, <1>5, <1>9
<1>11. f.neigh[i].state = "lost"
  BY <1>3, <1>5, <1>9
<1>12. Linked(f) = Linked(s) \ {i}
  BY <1>10, <1>11 DEF Linked
<1>13. p # None
  BY <1>1, <1>2 DEF Addressed
<1>14. W \ {p} \subseteq (R \ {p}) \cup LinkedTo(f)
  <2> SUFFICES ASSUME NEW j \in Linked(s), s.neigh[j].addr # p PROVE s.neigh[j].addr \in LinkedTo(f)
    BY DEF LinkedTo
  <2>1. j \in Linked(f) /\ j \in Slots
    BY <1>12 DEF Linked
  <2>2. f.neigh[j].addr = s.neigh[j].addr
    BY <1>10, <2>1
  <2> QED
    BY <2>1, <2>2 DEF LinkedTo
<1>15. f.routes \in TablesOver((R \ {p}) \cup LinkedTo(f))
  BY <1>7, <1>9, <1>14, WiderTables
<1>16. Addressed(f)
  BY <1>1, <1>2, <1>10, <1>11, <1>13 DEF Addressed
<1>17. Driven(f)
  BY <1>1, <1>9, <1>10, <1>11 DEF Driven
<1>18. Steady(f, R \ {p})
  BY <1>9, <1>15, <1>16, <1>17 DEF Steady
<1> DEFINE t == Recomputed(f)
<1>19. /\ Steady(t, R \ {p}) /\ Parented(t) /\ t.hs = f.hs
       /\ \A j \in Slots : t.neigh[j].addr = f.neigh[j].addr /\ t.neigh[j].state = f.neigh[j].state
  BY <1>18, RecomputedSound
<1>20. Down(s, i) = t
  BY <1>2 DEF Down, f, u
<1> HIDE DEF t
<1>21. i \notin Linked(t) /\ \A j \in Slots : t.neigh[j].addr = s.neigh[j].addr
  BY <1>10, <1>11, <1>19 DEF Linked
<1> QED
  BY <1>9, <1>19, <1>20, <1>21

----------------------------------------------------------------------------
(* Making room.                                                             *)

\* Of neighbours that cost something, one is the first of the most expensive.
LEMMA WorstIn ==
  ASSUME NEW s \in Nodes, NEW S \in SUBSET Slots, S # {}
  PROVE  Worst(s, S) \in S
<1>1. S \subseteq Nat /\ \A i \in S : s.neigh[i].cost \in 0 .. Infinite
  BY NeighboursAssumption DEF Slots, Nodes, Entries
<1> DEFINE left(i) == Infinite - s.neigh[i].cost
           C == {left(i) : i \in S}
<1>2. C \in SUBSET Nat /\ C # {}
  <2>1. \A i \in S : left(i) \in Nat
    BY <1>1, InfiniteIs
  <2> HIDE DEF left
  <2> QED
    BY <2>1
<1>3. PICK c \in C : \A d \in C : c <= d
  BY <1>2, LeastNatural
<1> DEFINE L == {i \in S : left(i) = c}
<1>4. L \in SUBSET Nat /\ L # {}
  BY <1>1, <1>3
<1>5. PICK i \in L : \A j \in L : i <= j
  BY <1>4, LeastNatural
<1>6. ASSUME NEW j \in S \ {i}
      PROVE  s.neigh[j].cost < s.neigh[i].cost \/ (s.neigh[j].cost = s.neigh[i].cost /\ i < j)
  <2>1. /\ left(i) = c /\ left(j) \in C /\ i \in S
        /\ s.neigh[i].cost \in Nat /\ s.neigh[j].cost \in Nat /\ i \in Nat /\ j \in Nat /\ i # j
    <3>1. i \in S /\ j \in S /\ i # j /\ left(i) = c
      BY <1>5
    <3>2. left(j) \in C
      BY <3>1
    <3>3. i \in Nat /\ j \in Nat /\ s.neigh[i].cost \in 0 .. Infinite /\ s.neigh[j].cost \in 0 .. Infinite
      BY <1>1, <3>1
    <3> HIDE DEF left, C
    <3> QED
      BY <3>1, <3>2, <3>3, InfiniteIs
  <2>2. c <= left(j)
    BY <1>3, <2>1
  <2>3. s.neigh[j].cost <= s.neigh[i].cost
    BY <2>1, <2>2, InfiniteIs
  <2>4. CASE s.neigh[j].cost = s.neigh[i].cost
    <3>1. j \in L
      BY <2>1, <2>4
    <3> QED
      BY <1>5, <2>1, <2>4, <3>1
  <2> QED
    BY <2>1, <2>3, <2>4
<1>7. \E k \in S : \A j \in S \ {k} :
        s.neigh[j].cost < s.neigh[k].cost \/ (s.neigh[j].cost = s.neigh[k].cost /\ k < j)
  BY <1>5, <1>6
<1> QED
  BY <1>7, Zenon DEF Worst

\* Between s and t no neighbour has come, and no link to a parent has gone.
Spares(s, t) ==
  /\ t.hs = s.hs
  /\ \A i \in Slots : /\ t.neigh[i].addr \in {s.neigh[i].addr, None}
                      /\ i \in Linked(s) /\ s.neigh[i].parent => t.neigh[i].addr = s.neigh[i].addr

\* lg_neigh_make_room leaves a free slot; whoever had a slot has it still or
\* none, and parents keep theirs.
LEMMA RoomedSound ==
  ASSUME NEW s, NEW R, Sound(s, R), NEW t \in Roomed(s)
  PROVE  Sound(t, R) /\ Spares(s, t) /\ SlotsOf(t, None) # {}
<1> DEFINE idle == {i \in Slots : s.neigh[i].state \in {"heard", "lost"}}
           freed(q, i) == WithSlot(q, i, Free)
<1>1. s \in Nodes /\ Addressed(s) /\ Steady(s, R)
  BY DEF Sound, Steady
<1>2. CASE SlotsOf(s, None) # {}
  <2>1. t = s
    BY <1>2 DEF Roomed
  <2> QED
    BY <1>2, <2>1 DEF Spares
<1>3. CASE SlotsOf(s, None) = {} /\ idle # {}
  <2> DEFINE i == Worst(s, idle)
  <2>1. t = freed(s, i)
    BY <1>3 DEF Roomed, WithSlot
  <2>2. i \in idle
    <3>1. idle \in SUBSET Slots
      OBVIOUS
    <3> HIDE DEF idle
    <3> QED
      BY <1>1, <1>3, <3>1, WorstIn
  <2> HIDE DEF i
  <2>3. i \in Slots \ Linked(s)
    BY <2>2 DEF Linked
  <2>4. /\ Sound(t, R) /\ i \in SlotsOf(t, None) /\ t.hs = s.hs
        /\ \A j \in Slots : j # i => t.neigh[j] = s.neigh[j]
    BY <2>1, <2>3, FreeSlot
  <2> QED
    BY <2>3, <2>4 DEF Spares, SlotsOf
<1>4. CASE SlotsOf(s, None) = {} /\ idle = {}
  <2>1. PICK i \in Displaceable(s) : t = freed(Down(s, i), i)
    BY <1>4 DEF Roomed, WithSlot
  <2>2. i \in Slots /\ ~ s.neigh[i].parent
    BY <2>1 DEF Displaceable
  <2>3. /\ Sound(Down(s, i), R) /\ i \notin Linked(Down(s, i)) /\ Down(s, i).hs = s.hs
        /\ \A j \in Slots : Down(s, i).neigh[j].addr = s.neigh[j].addr
    <3>1. CASE i \in Linked(s)
      <4> DEFINE q == Down(s, i)
                 p == s.neigh[i].addr
      <4>1. /\ Steady(q, R \ {p}) /\ Parented(q) /\ q.hs = s.hs /\ i \notin Linked(q)
            /\ \A j \in Slots : q.neigh[j].addr = s.neigh[j].addr
        BY <1>1, <3>1, DownSound
      <4> HIDE DEF q, p
      <4>2. (R \ {p}) \cup LinkedTo(q) \subseteq R \cup LinkedTo(q)
        OBVIOUS
      <4>3. Steady(q, R)
        BY <4>1, <4>2, WiderTables DEF Steady
      <4> QED
        BY <4>1, <4>3 DEF Sound, q
    <3>2. CASE i \notin Linked(s)
      <4>1. Down(s, i) = s
        BY <2>2, <3>2 DEF Down, Linked
      <4> QED
        BY <3>2, <4>1
    <3> QED
      BY <3>1, <3>2
  <2>4. /\ Sound(t, R) /\ i \in SlotsOf(t, None) /\ t.hs = s.hs
        /\ \A j \in Slots : j # i => t.neigh[j] = Down(s, i).neigh[j]
    BY <2>1, <2>2, <2>3, FreeSlot
  <2>5. SlotsOf(t, None) # {} /\ t.neigh[i].addr = None
    BY <2>4 DEF SlotsOf
  <2> QED
    BY <2>2, <2>3, <2>4, <2>5 DEF Spares
<1> QED
  BY <1>2, <1>3, <1>4

\* So does lg_neigh_alloc, which gives the peer a slot.
LEMMA PlacedSound ==
  ASSUME NEW s, NEW R, Sound(s, R), NEW p \in Peers, NEW t \in Placed(s, p)
  PROVE  /\ Sound(t, R) /\ t.hs = s.hs /\ SlotsOf(t, p) # {}
         /\ \A i \in Linked(s) : s.neigh[i].parent => t.neigh[i].addr = s.neigh[i].addr
<1>1. CASE SlotsOf(s, p) # {}
  BY <1>1 DEF Placed
<1>2. CASE SlotsOf(s, p) = {}
  <2>1. PICK q \in Roomed(s) : t = WithSlot(q, First(SlotsOf(q, None)), Heard(p))
    BY <1>2 DEF Placed, WithSlot
  <2>2. Sound(q, R) /\ Spares(s, q) /\ SlotsOf(q, None) # {}
    BY <2>1, RoomedSound
  <2> DEFINE i == First(SlotsOf(q, None))
  <2>3. i \in SlotsOf(q, None)
    <3>1. SlotsOf(q, None) \in SUBSET Nat
      BY NeighboursAssumption DEF SlotsOf, Slots
    <3> QED
      BY <2>2, <3>1, FirstIn
  <2>4. SlotsOf(q, p) = {}
    BY <1>2, <2>2, NeighboursAssumption DEF SlotsOf, Spares
  <2>5. /\ Sound(t, R) /\ i \in SlotsOf(t, p) /\ t.hs = q.hs /\ i \notin Linked(q)
        /\ \A j \in Slots : j # i => t.neigh[j] = q.neigh[j]
    BY <2>1, <2>2, <2>3, <2>4, HeardSlot
  <2> HIDE DEF i
  <2>6. ASSUME NEW j \in Linked(s), s.neigh[j].parent PROVE t.neigh[j].addr = s.neigh[j].addr
    <3>1. j \in Slots /\ q.neigh[j].addr = s.neigh[j].addr
      BY <2>2, <2>6 DEF Spares, Linked
    <3>2. s.neigh[j].addr # None
      BY <2>6, <3>1 DEF Sound, Steady, Addressed, Linked
    <3>3. j # i
      BY <2>3, <3>1, <3>2 DEF SlotsOf
    <3> QED
      BY <2>5, <3>1, <3>3
  <2> QED
    BY <2>2, <2>5, <2>6 DEF Spares
<1> QED
  BY <1>1, <1>2

----------------------------------------------------------------------------
(* Handshakes, and the other ways a node is rewritten.                      *)

\* A node with its handshake and one slot rewritten.
Handshakes == [slot : Slots \cup {None}, joiner : BOOLEAN]
WithHandshake(s, h, i, e) == [s EXCEPT !.hs = h, !.neigh[i] = e]

\* Its fields.
LEMMA HandshakeSet ==
  ASSUME NEW s \in Nodes, NEW h \in Handshakes, NEW i \in Slots, NEW e \in Entries
  PROVE  LET t == WithHandshake(s, h, i, e)
         IN /\ t \in Nodes /\ t.neigh[i] = e
            /\ \A j \in Slots : j # i => t.neigh[j] = s.neigh[j]
            /\ t.rank = s.rank /\ t.routes = s.routes /\ t.hs = h
<1> DEFINE t == WithHandshake(s, h, i, e)
<1>1. s.neigh \in [Slots -> Entries]
  BY DEF Nodes
<1>2. t.neigh = [s.neigh EXCEPT ![i] = e] /\ t.rank = s.rank /\ t.routes = s.routes /\ t.hs = h
  BY DEF Nodes, WithHandshake
<1>3. t.neigh \in [Slots -> Entries]
  BY <1>1, <1>2
<1>4. t \in Nodes
  BY <1>2, <1>3 DEF Nodes, Handshakes, WithHandshake
<1> QED
  BY <1>1, <1>2, <1>4

\* The neighbour in a slot is the one it was.
Alike(e, f) == e \in Entries /\ e.addr = f.addr /\ e.state = f.state /\ (f.parent => e.parent)

\* Rewriting it so disturbs nothing.
LEMMA AlikeSound ==
  ASSUME NEW s, NEW R, Sound(s, R), NEW i \in Slots, NEW e, Alike(e, s.neigh[i])
  PROVE  /\ Sound(WithSlot(s, i, e), R)
         /\ WithSlot(s, i, e).hs = s.hs /\ WithSlot(s, i, e).neigh[i] = e
         /\ WithSlot(s, i, e).rank = s.rank /\ WithSlot(s, i, e).routes = s.routes
         /\ \A j \in Slots : /\ WithSlot(s, i, e).neigh[j].addr = s.neigh[j].addr
                             /\ WithSlot(s, i, e).neigh[j].state = s.neigh[j].state
<1> DEFINE t == WithSlot(s, i, e)
<1>1. s \in Nodes /\ Addressed(s) /\ Driven(s) /\ s.routes \in TablesOver(R \cup LinkedTo(s))
  BY DEF Sound, Steady
<1>2. e \in Entries
  BY DEF Alike
<1>3. /\ t \in Nodes /\ t.neigh[i] = e
      /\ \A j \in Slots : j # i => t.neigh[j] = s.neigh[j]
      /\ t.rank = s.rank /\ t.routes = s.routes /\ t.hs = s.hs
  BY <1>1, <1>2, SlotSet
<1> HIDE DEF t
<1>4. \A j \in Slots : t.neigh[j].addr = s.neigh[j].addr /\ t.neigh[j].state = s.neigh[j].state
  BY <1>3 DEF Alike
<1>5. \A j \in Slots : s.neigh[j].parent => t.neigh[j].parent
  BY <1>3 DEF Alike
<1>6. Linked(t) = Linked(s) /\ Linked(s) \subseteq Slots
  BY <1>4 DEF Linked
<1>7. LinkedTo(t) = LinkedTo(s)
  BY <1>4, <1>6, LinkedToSame
<1>8. Addressed(t) /\ Driven(t)
  BY <1>1, <1>3, <1>4 DEF Addressed, Driven
<1>9. Steady(t, R)
  BY <1>1, <1>3, <1>7, <1>8 DEF Steady
<1>10. ASSUME R = {} PROVE Parented(t)
  BY <1>3, <1>5, <1>6, <1>10 DEF Sound, Parented
<1> QED
  BY <1>3, <1>4, <1>9, <1>10 DEF Sound, t

\* A handshake begins with the neighbour in slot i.
LEMMA OpenedSound ==
  ASSUME NEW s, NEW R, Sound(s, R), NEW i \in Slots, s.neigh[i].state # "free",
         s.hs.slot \in {None, i}, NEW b \in BOOLEAN
  PROVE  LET t == Opened(s, i, b)
         IN /\ Sound(t, IF s.neigh[i].state = "linked" THEN R \cup {s.neigh[i].addr} ELSE R)
            /\ t.neigh[i].state = "joining"
            /\ \A j \in Slots : t.neigh[j].addr = s.neigh[j].addr
<1> DEFINE t == Opened(s, i, b)
           p == s.neigh[i].addr
           Q == IF s.neigh[i].state = "linked" THEN R \cup {p} ELSE R
           e == [s.neigh[i] EXCEPT !.state = "joining", !.heard = Infinite]
           h == [slot |-> i, joiner |-> b]
<1>1. s \in Nodes /\ Addressed(s) /\ Driven(s) /\ s.routes \in TablesOver(R \cup LinkedTo(s))
  BY DEF Sound, Steady
<1>2. s.neigh[i] \in Entries
  BY <1>1 DEF Nodes
<1>3. e \in Entries /\ e.addr = p /\ e.state = "joining"
  BY <1>2, InfiniteIs DEF Entries
<1>4. h \in Handshakes /\ h.slot = i
  BY DEF Handshakes
<1>5. t = WithHandshake(s, h, i, e)
  BY DEF Opened, WithHandshake
<1> HIDE DEF e, h, t
<1>6. /\ t \in Nodes /\ t.neigh[i] = e
      /\ \A j \in Slots : j # i => t.neigh[j] = s.neigh[j]
      /\ t.rank = s.rank /\ t.routes = s.routes /\ t.hs = h
  BY <1>1, <1>3, <1>4, <1>5, HandshakeSet
<1>7. \A j \in Slots : t.neigh[j].addr = s.neigh[j].addr
  BY <1>3, <1>6
<1>8. Linked(t) = Linked(s) \ {i} /\ Linked(s) \subseteq Slots
  BY <1>3, <1>6 DEF Linked
<1>9. Addressed(t)
  BY <1>1, <1>3, <1>6, <1>7 DEF Addressed
<1>10. Driven(t)
  BY <1>1, <1>3, <1>4, <1>6, NeighboursAssumption DEF Driven, Slots
<1>11. R \cup LinkedTo(s) \subseteq Q \cup LinkedTo(t)
  <2> SUFFICES ASSUME NEW j \in Linked(s), s.neigh[j].addr \notin Q PROVE s.neigh[j].addr \in LinkedTo(t)
    BY DEF LinkedTo
  <2>1. j # i
    BY DEF Linked
  <2>2. j \in Linked(t) /\ t.neigh[j].addr = s.neigh[j].addr
    BY <1>7, <1>8, <2>1
  <2> QED
    BY <2>2 DEF LinkedTo
<1>12. t.routes \in TablesOver(Q \cup LinkedTo(t))
  BY <1>1, <1>6, <1>11, WiderTables
<1>13. ASSUME Q = {} PROVE Parented(t)
  <2>1. s.neigh[i].state # "linked" /\ R = {}
    BY <1>13
  <2>2. Linked(t) = Linked(s) /\ i \notin Linked(s)
    BY <1>8, <2>1 DEF Linked
  <2> QED
    BY <1>6, <1>8, <2>1, <2>2 DEF Sound, Parented
<1>14. Sound(t, Q)
  <2> HIDE DEF Q
  <2> QED
    BY <1>6, <1>9, <1>10, <1>12, <1>13 DEF Sound, Steady
<1> QED
  BY <1>3, <1>6, <1>7, <1>14 DEF t

\* It ends without a link.
LEMMA FailedSound ==
  ASSUME NEW s, NEW R, Sound(s, R), NEW i \in Slots, s.neigh[i].state = "joining"
  PROVE  LET t == Failed(s, i)
         IN Sound(t, R) /\ \A j \in Slots : t.neigh[j].addr = s.neigh[j].addr
<1> DEFINE t == Failed(s, i)
           e == [s.neigh[i] EXCEPT !.state = IF s.neigh[i].ltk THEN "lost" ELSE "heard"]
           h == [slot |-> None, joiner |-> FALSE]
<1>1. s \in Nodes /\ Addressed(s) /\ Driven(s) /\ s.routes \in TablesOver(R \cup LinkedTo(s))
  BY DEF Sound, Steady
<1>2. s.neigh[i] \in Entries
  BY <1>1 DEF Nodes
<1>3. e \in Entries /\ e.addr = s.neigh[i].addr /\ e.state \in {"lost", "heard"}
  <2> DEFINE st == IF s.neigh[i].ltk THEN "lost" ELSE "heard"
  <2>1. st \in {"lost", "heard"}
    OBVIOUS
  <2> HIDE DEF st
  <2> QED
    BY <1>2, <2>1 DEF Entries
<1>4. h \in Handshakes
  BY DEF Handshakes
<1>5. t = WithHandshake(s, h, i, e)
  BY DEF Failed, WithHandshake
<1> HIDE DEF e, h, t
<1>6. /\ t \in Nodes /\ t.neigh[i] = e
      /\ \A j \in Slots : j # i => t.neigh[j] = s.neigh[j]
      /\ t.rank = s.rank /\ t.routes = s.routes /\ t.hs = h
  BY <1>1, <1>3, <1>4, <1>5, HandshakeSet
<1>7. \A j \in Slots : t.neigh[j].addr = s.neigh[j].addr
  BY <1>3, <1>6
<1>8. Linked(t) = Linked(s) /\ i \notin Linked(s) /\ Linked(s) \subseteq Slots
  BY <1>3, <1>6 DEF Linked
<1>9. LinkedTo(t) = LinkedTo(s)
  BY <1>7, <1>8, LinkedToSame
<1>10. Addressed(t)
  BY <1>1, <1>3, <1>6, <1>7 DEF Addressed
<1>11. Driven(t)
  BY <1>1, <1>3, <1>6 DEF Driven
<1>12. Steady(t, R)
  BY <1>1, <1>6, <1>9, <1>10, <1>11 DEF Steady
<1>13. ASSUME R = {} PROVE Parented(t)
  BY <1>6, <1>8, <1>13 DEF Sound, Parented
<1> QED
  BY <1>7, <1>12, <1>13 DEF Sound, t

\* Another table of routes.
WithTable(s, g) == [s EXCEPT !.routes = g]

\* Routes over linked and reopened peers may be replaced by other such.
LEMMA TableSound ==
  ASSUME NEW s, NEW R \in SUBSET Peers, Sound(s, R), NEW g \in TablesOver(R \cup LinkedTo(s))
  PROVE  Sound(WithTable(s, g), R) /\ WithTable(s, g).neigh = s.neigh
<1> DEFINE t == WithTable(s, g)
<1>1. s \in Nodes /\ Addressed(s) /\ Driven(s)
  BY DEF Sound, Steady
<1>2. LinkedTo(s) \subseteq Peers
  <2> SUFFICES ASSUME NEW i \in Linked(s) PROVE s.neigh[i].addr \in Peers
    BY DEF LinkedTo
  <2>1. i \in Slots /\ s.neigh[i].state = "linked"
    BY DEF Linked
  <2>2. s.neigh[i] \in Entries /\ s.neigh[i].addr # None
    BY <1>1, <2>1 DEF Nodes, Addressed
  <2> QED
    BY <2>2 DEF Entries
<1>3. R \cup LinkedTo(s) \subseteq Peers
  BY <1>2
<1>4. g \in TablesOver(Peers)
  BY <1>3, WiderTables
<1>5. t \in Nodes /\ t.neigh = s.neigh /\ t.rank = s.rank /\ t.hs = s.hs /\ t.routes = g
  BY <1>1, <1>4 DEF Nodes, WithTable
<1> HIDE DEF t
<1>6. Linked(t) = Linked(s)
  BY <1>5 DEF Linked
<1>7. LinkedTo(t) = LinkedTo(s)
  BY <1>5, <1>6 DEF LinkedTo
<1>8. Steady(t, R)
  BY <1>1, <1>5, <1>7 DEF Steady, Addressed, Driven
<1>9. Parented(s) => Parented(t)
  BY <1>5, <1>6 DEF Parented
<1> QED
  BY <1>5, <1>8, <1>9 DEF Sound, t

----------------------------------------------------------------------------
(* The actions.                                                             *)

\* The inductive invariant.
IInv == Sound(node, reopened) /\ reopened \subseteq Peers

\* No link to a parent gives its slot to another neighbour.
Stays ==
  \A i \in Linked(node) : node.neigh[i].parent => node'.neigh[i].addr = node.neigh[i].addr

\* What every action but the end of a link leaves behind.
Preserves == Sound(node', reopened') /\ reopened' \subseteq Peers /\ Stays

\* lg_neigh_find, for a peer that has a slot.
LEMMA SlotOfIn ==
  ASSUME NEW s, NEW p, SlotsOf(s, p) # {}
  PROVE  SlotOf(s, p) \in Slots /\ s.neigh[SlotOf(s, p)].addr = p
<1>1. \E i \in Slots : s.neigh[i].addr = p
  BY DEF SlotsOf
<1> QED
  BY <1>1, Zenon DEF SlotOf

\* A node that has just started is sound.
LEMMA InitSound == Init => IInv
<1> SUFFICES ASSUME Init PROVE IInv
  OBVIOUS
<1>1. /\ node = [neigh |-> [i \in Slots |-> Free], rank |-> Infinite, routes |-> <<>>,
                 hs |-> [slot |-> None, joiner |-> FALSE]]
      /\ reopened = {}
  BY DEF Init
<1>2. <<>> \in TablesOver({})
  <2>1. <<>> \in Seq(RoutesOver({})) /\ Len(<<>>) = 0 /\ DstUnique(<<>>)
    BY DEF DstUnique
  <2> QED
    BY <2>1, NeighboursAssumption DEF TablesOver
<1>3. <<>> \in TablesOver(Peers) /\ <<>> \in TablesOver(reopened \cup LinkedTo(node))
  BY <1>2, WiderTables
<1>4. node.neigh \in [Slots -> Entries] /\ \A i \in Slots : node.neigh[i] = Free
  BY <1>1, FreeIs
<1>5. node \in Nodes
  <2>1. [slot |-> None, joiner |-> FALSE] \in [slot : Slots \cup {None}, joiner : BOOLEAN]
    OBVIOUS
  <2> HIDE DEF Slots
  <2> QED
    BY <1>1, <1>3, <1>4, <2>1, InfiniteIs DEF Nodes
<1>6. Addressed(node) /\ Driven(node)
  BY <1>4, FreeIs DEF Addressed, Driven
<1>7. Parented(node)
  BY <1>1 DEF Parented
<1> QED
  BY <1>1, <1>3, <1>5, <1>6, <1>7 DEF IInv, Sound, Steady

\* One lemma for each action: what it leaves is sound, and no link to a parent
\* has lost its slot.  First lg_disc_beacon_rx.
LEMMA BeaconSound ==
  ASSUME IInv, NEW p \in Peers, NEW r \in Offers, NEW window \in BOOLEAN, Beacon(p, r, window)
  PROVE  Preserves
<1> DEFINE e(s, i) == [s.neigh[i] EXCEPT !.cost = CostOf[p], !.heard = IF i \in Linked(s) THEN r ELSE @]
           q(s, i) == [s EXCEPT !.neigh[i].cost = CostOf[p],
                                !.neigh[i].heard = IF i \in Linked(s) THEN r ELSE @]
<1>1. PICK s \in Placed(node, p) :
        LET i == SlotOf(s, p)
        IN node' \in IF q(s, i).neigh[i].state \in {"linked", "joining"} \/ ~Useful(q(s, i), p, r) \/ ~window
                     THEN {q(s, i)} ELSE JoinStart(q(s, i), i)
  BY Zenon DEF Beacon
<1>2. reopened' = reopened
  BY DEF Beacon
<1>3. /\ Sound(s, reopened) /\ SlotsOf(s, p) # {}
      /\ \A i \in Linked(node) : node.neigh[i].parent => s.neigh[i].addr = node.neigh[i].addr
  BY PlacedSound DEF IInv
<1> DEFINE i == SlotOf(s, p)
<1>4. i \in Slots /\ s.neigh[i].addr = p
  BY <1>3, SlotOfIn
<1>5. s.neigh[i] \in Entries
  BY <1>3, <1>4 DEF Sound, Steady, Nodes
<1>6. Alike(e(s, i), s.neigh[i])
  <2> DEFINE hd == IF i \in Linked(s) THEN r ELSE s.neigh[i].heard
  <2>1. CostOf[p] \in 1 .. Infinite /\ hd \in 0 .. Infinite
    BY <1>5, NeighboursAssumption DEF Entries, Infinite
  <2>2. e(s, i) = [s.neigh[i] EXCEPT !.cost = CostOf[p], !.heard = hd]
    BY <1>5 DEF Entries
  <2> HIDE DEF hd, i
  <2> QED
    BY <1>5, <2>1, <2>2 DEF Alike, Entries
<1> DEFINE u == q(s, i)
<1>7. u = WithSlot(s, i, e(s, i))
  <2>1. s \in Nodes
    BY <1>3 DEF Sound, Steady
  <2> HIDE DEF i
  <2> QED
    BY <1>4, <1>5, <2>1 DEF WithSlot, Nodes, Entries
<1>8. /\ Sound(u, reopened) /\ \A j \in Slots : u.neigh[j].addr = s.neigh[j].addr
  <2> HIDE DEF e, i, u
  <2> QED
    BY <1>3, <1>4, <1>6, <1>7, AlikeSound
<1>9. node' = u \/ (u.neigh[i].state # "linked" /\ node' \in JoinStart(u, i))
  BY <1>1
<1> HIDE DEF u, i, e
<1>10. Sound(node', reopened) /\ \A j \in Slots : node'.neigh[j].addr = u.neigh[j].addr
  <2>1. CASE node' = u
    BY <1>8, <2>1
  <2>2. CASE u.neigh[i].state # "linked" /\ node' = Opened(u, i, TRUE) /\ u.hs.slot \in {None, i}
    <3>1. u.neigh[i].state # "free"
      BY <1>4, <1>8, NeighboursAssumption DEF Sound, Steady, Addressed
    <3>2. TRUE \in BOOLEAN
      OBVIOUS
    <3> QED
      BY <1>4, <1>8, <2>2, <3>1, <3>2, OpenedSound
  <2> QED
    BY <1>9, <2>1, <2>2 DEF JoinStart
<1>11. Stays
  <2> SUFFICES ASSUME NEW j \in Linked(node), node.neigh[j].parent
               PROVE  node'.neigh[j].addr = node.neigh[j].addr
    BY DEF Stays
  <2>1. j \in Slots
    BY DEF Linked
  <2> QED
    BY <1>3, <1>8, <1>10, <2>1
<1> QED
  BY <1>2, <1>10, <1>11 DEF IInv, Preserves

\* lg_join_rx_pdu: a link that is opened again is counted as reopened.
LEMMA RequestSound ==
  ASSUME IInv, NEW p \in Peers, NEW resume \in BOOLEAN, Request(p, resume)
  PROVE  Preserves
<1>1. PICK s \in Placed(node, p) :
        LET i == SlotOf(s, p)
            q == Opened(s, i, FALSE)
        IN IF HasRoom(s)
           THEN /\ node' = IF resume /\ ~s.neigh[i].ltk THEN Failed(q, i) ELSE q
                /\ reopened' = IF s.neigh[i].state = "linked" THEN reopened \cup {p} ELSE reopened
           ELSE node' = s /\ reopened' = reopened
  BY DEF Request
<1>2. /\ Sound(s, reopened) /\ SlotsOf(s, p) # {} /\ s.hs.slot = None
      /\ \A i \in Linked(node) : node.neigh[i].parent => s.neigh[i].addr = node.neigh[i].addr
  BY PlacedSound DEF IInv, Request
<1> DEFINE i == SlotOf(s, p)
           q == Opened(s, i, FALSE)
           Q == IF s.neigh[i].state = "linked" THEN reopened \cup {p} ELSE reopened
<1>3. i \in Slots /\ s.neigh[i].addr = p
  BY <1>2, SlotOfIn
<1>4. (node' = s /\ reopened' = reopened) \/ (reopened' = Q /\ (node' = q \/ node' = Failed(q, i)))
  BY <1>1
<1> HIDE DEF i
<1>5. Sound(q, Q) /\ q.neigh[i].state = "joining" /\ \A j \in Slots : q.neigh[j].addr = s.neigh[j].addr
  <2>1. s.neigh[i].state # "free"
    BY <1>2, <1>3, NeighboursAssumption DEF Sound, Steady, Addressed
  <2>2. FALSE \in BOOLEAN
    OBVIOUS
  <2> QED
    BY <1>2, <1>3, <2>1, <2>2, OpenedSound
<1>6. Q \subseteq Peers
  BY DEF IInv
<1> HIDE DEF q, Q
<1>7. Sound(Failed(q, i), Q) /\ \A j \in Slots : Failed(q, i).neigh[j].addr = q.neigh[j].addr
  BY <1>3, <1>5, FailedSound
<1>8. /\ Sound(node', reopened') /\ reopened' \subseteq Peers
      /\ \A j \in Slots : node'.neigh[j].addr = s.neigh[j].addr
  BY <1>2, <1>4, <1>5, <1>6, <1>7 DEF IInv
<1>9. Stays
  BY <1>2, <1>8 DEF Stays, Linked
<1> QED
  BY <1>8, <1>9 DEF Preserves

\* join_fail
LEMMA JoinFailsSound ==
  ASSUME IInv, JoinFails
  PROVE  Preserves
<1> DEFINE i == node.hs.slot
<1>1. /\ i # None /\ node.neigh[i].state = "joining" /\ node' = Failed(node, i)
      /\ reopened' = reopened /\ Sound(node, reopened) /\ reopened \subseteq Peers
  BY DEF JoinFails, IInv
<1>2. i \in Slots
  BY <1>1 DEF Sound, Steady, Nodes
<1> HIDE DEF i
<1>3. Sound(node', reopened) /\ \A j \in Slots : node'.neigh[j].addr = node.neigh[j].addr
  BY <1>1, <1>2, FailedSound
<1> QED
  BY <1>1, <1>3 DEF Preserves, Stays, Linked

\* lg_join_event_finish without its slot
LEMMA JoinAbandonedSound ==
  ASSUME IInv, JoinAbandoned
  PROVE  Preserves
<1>1. /\ node.neigh[node.hs.slot].state # "joining" /\ reopened' = reopened
      /\ node' = [node EXCEPT !.hs = [slot |-> None, joiner |-> FALSE]]
      /\ Sound(node, reopened) /\ reopened \subseteq Peers /\ node \in Nodes
  BY DEF JoinAbandoned, IInv, Sound, Steady
<1>2. [slot |-> None, joiner |-> FALSE] \in [slot : Slots \cup {None}, joiner : BOOLEAN]
  OBVIOUS
<1>3. node' \in Nodes /\ node'.neigh = node.neigh /\ node'.rank = node.rank /\ node'.routes = node.routes
  BY <1>1, <1>2 DEF Nodes
<1>4. Linked(node') = Linked(node)
  BY <1>3 DEF Linked
<1>5. LinkedTo(node') = LinkedTo(node)
  BY <1>3, <1>4, LinkedToSame
<1>6. Addressed(node') /\ Driven(node')
  BY <1>1, <1>3 DEF Sound, Steady, Addressed, Driven
<1>7. Parented(node) => Parented(node')
  BY <1>3, <1>4 DEF Parented
<1>8. Sound(node', reopened)
  BY <1>1, <1>3, <1>5, <1>6, <1>7 DEF Sound, Steady
<1> QED
  BY <1>1, <1>3, <1>8 DEF Preserves, Stays

\* lg_link_establish
LEMMA JoinsSound ==
  ASSUME IInv, NEW r \in Offers, Joins(r)
  PROVE  Preserves
<1> DEFINE i == node.hs.slot
           hd == IF node.hs.joiner THEN r ELSE node.rank
           e == [node.neigh[i] EXCEPT !.state = "linked", !.cost = CostOf[node.neigh[i].addr], !.heard = hd]
           h == [slot |-> None, joiner |-> FALSE]
           s == WithHandshake(node, h, i, e)
<1>1. /\ i # None /\ node.neigh[i].state = "joining" /\ node' = Recomputed(s) /\ reopened' = reopened
      /\ Sound(node, reopened) /\ reopened \subseteq Peers
  BY DEF Joins, IInv, WithHandshake
<1>2. node \in Nodes /\ Addressed(node) /\ Driven(node)
      /\ node.routes \in TablesOver(reopened \cup LinkedTo(node))
  BY <1>1 DEF Sound, Steady
<1>3. i \in Slots /\ node.neigh[i] \in Entries /\ node.rank \in 1 .. Infinite
  BY <1>1, <1>2 DEF Nodes
<1>4. node.neigh[i].addr \in Peers
  BY <1>1, <1>2, <1>3 DEF Addressed, Entries
<1>5. CostOf[node.neigh[i].addr] \in 1 .. Infinite /\ hd \in 0 .. Infinite
  BY <1>3, <1>4, NeighboursAssumption DEF Infinite
<1>6. e \in Entries /\ e.addr = node.neigh[i].addr /\ e.state = "linked"
  <2> HIDE DEF hd, i
  <2> QED
    BY <1>3, <1>5 DEF Entries
<1>7. h \in Handshakes
  BY DEF Handshakes
<1> HIDE DEF e, h, i
<1>8. /\ s \in Nodes /\ s.neigh[i] = e
      /\ \A j \in Slots : j # i => s.neigh[j] = node.neigh[j]
      /\ s.routes = node.routes /\ s.hs = h
  BY <1>2, <1>3, <1>6, <1>7, HandshakeSet
<1> HIDE DEF s
<1>9. \A j \in Slots : s.neigh[j].addr = node.neigh[j].addr
  BY <1>6, <1>8
<1>10. LinkedTo(node) \subseteq LinkedTo(s)
  <2> SUFFICES ASSUME NEW j \in Linked(node) PROVE node.neigh[j].addr \in LinkedTo(s)
    BY DEF LinkedTo
  <2>1. j \in Linked(s) /\ s.neigh[j].addr = node.neigh[j].addr
    BY <1>6, <1>8, <1>9 DEF Linked
  <2> QED
    BY <2>1 DEF LinkedTo
<1>11. reopened \cup LinkedTo(node) \subseteq reopened \cup LinkedTo(s)
  BY <1>10
<1>12. s.routes \in TablesOver(reopened \cup LinkedTo(s))
  BY <1>2, <1>8, <1>11, WiderTables
<1>13. Addressed(s)
  BY <1>1, <1>2, <1>6, <1>8, <1>9 DEF Addressed
<1>14. Driven(s)
  BY <1>2, <1>6, <1>8 DEF Driven, i
<1>15. Steady(s, reopened)
  BY <1>8, <1>12, <1>13, <1>14 DEF Steady
<1>16. /\ Steady(node', reopened) /\ Parented(node')
       /\ \A j \in Slots : node'.neigh[j].addr = s.neigh[j].addr
  BY <1>1, <1>15, RecomputedSound
<1> QED
  BY <1>1, <1>9, <1>16 DEF Preserves, Sound, Stays, Linked

\* A route expires.
LEMMA ExpiresSound ==
  ASSUME IInv, Expires
  PROVE  Preserves
<1>1. /\ node.routes # <<>> /\ node' = WithTable(node, Tail(node.routes)) /\ reopened' = reopened
      /\ Sound(node, reopened) /\ reopened \in SUBSET Peers
  BY DEF Expires, IInv, WithTable
<1>2. Tail(node.routes) \in TablesOver(reopened \cup LinkedTo(node))
  BY <1>1, Tailed DEF Sound, Steady
<1>3. Sound(node', reopened) /\ node'.neigh = node.neigh
  BY <1>1, <1>2, TableSound
<1> QED
  BY <1>1, <1>3 DEF Preserves, Stays

\* lg_route_next_hop
LEMMA LookupSound ==
  ASSUME IInv, NEW d, Lookup(d)
  PROVE  Preserves
<1>1. PICK k \in DOMAIN node.routes : node' = WithTable(node, Without(node.routes, {node.routes[k]}))
  BY DEF Lookup, WithTable
<1>2. reopened' = reopened /\ Sound(node, reopened) /\ reopened \in SUBSET Peers
  BY DEF Lookup, IInv
<1>3. Without(node.routes, {node.routes[k]}) \in TablesOver(reopened \cup LinkedTo(node))
  BY <1>2, WithoutRoutes DEF Sound, Steady
<1>4. Sound(node', reopened) /\ node'.neigh = node.neigh
  BY <1>1, <1>2, <1>3, TableSound
<1> QED
  BY <1>2, <1>4 DEF Preserves, Stays

\* lg_route_handle_reg: the registering peer is linked.
LEMMA RegisteredSound ==
  ASSUME IInv, NEW p \in Peers, NEW list \in Lists, Registered(p, list)
  PROVE  Preserves
<1> DEFINE W == reopened \cup LinkedTo(node)
           g == WithRoutes(node.routes, list, p, 1)
<1>1. /\ SlotsOf(node, p) \cap Linked(node) # {} /\ node' = WithTable(node, g) /\ reopened' = reopened
      /\ Sound(node, reopened) /\ reopened \in SUBSET Peers
  BY DEF Registered, IInv, WithTable
<1>2. p \in W
  BY <1>1 DEF SlotsOf, LinkedTo
<1>3. g \in TablesOver(W)
  <2> HIDE DEF W
  <2>1. node.routes \in TablesOver(W)
    BY <1>1 DEF Sound, Steady, W
  <2> QED
    BY <1>2, <2>1, WithRoutesSound
<1>4. Sound(node', reopened) /\ node'.neigh = node.neigh
  BY <1>1, <1>3, TableSound
<1> QED
  BY <1>1, <1>4 DEF Preserves, Stays

\* lg_route_handle_adv
LEMMA AdvertisedSound ==
  ASSUME IInv, NEW p \in Peers, NEW r \in Offers, NEW list \in Lists, Advertised(p, r, list)
  PROVE  Preserves
<1> DEFINE W == reopened \cup LinkedTo(node)
           g == IF r > node.rank /\ node.rank # Infinite THEN WithRoutes(node.routes, list, p, 2)
                ELSE node.routes
           e(i) == [node.neigh[i] EXCEPT !.heard = r]
<1>1. /\ reopened' = reopened /\ Sound(node, reopened) /\ reopened \in SUBSET Peers /\ node \in Nodes
  BY DEF Advertised, IInv, Sound, Steady
<1>2. PICK i \in SlotsOf(node, p) \cap Linked(node) :
        node' = Recomputed([node EXCEPT !.neigh[i].heard = r, !.routes =
                  IF r > node.rank /\ node.rank # Infinite THEN WithRoutes(@, list, p, 2) ELSE @])
  BY Zenon DEF Advertised
<1>3. i \in Slots /\ node.neigh[i] \in Entries /\ node.neigh[i].addr = p
  BY <1>1, <1>2 DEF Nodes, SlotsOf
<1>4. Alike(e(i), node.neigh[i])
  BY <1>3, NeighboursAssumption DEF Alike, Entries, Infinite
<1> DEFINE u == WithSlot(node, i, e(i))
<1>5. node' = Recomputed(WithTable(u, g))
  BY <1>1, <1>2, <1>3 DEF WithSlot, WithTable, Nodes, Entries
<1> HIDE DEF e, u, g
<1>6. /\ Sound(u, reopened) /\ u.routes = node.routes
      /\ \A j \in Slots : u.neigh[j].addr = node.neigh[j].addr /\ u.neigh[j].state = node.neigh[j].state
  BY <1>1, <1>3, <1>4, AlikeSound DEF u
<1>7. Linked(u) = Linked(node) /\ Linked(node) \subseteq Slots
  BY <1>6 DEF Linked
<1>8. LinkedTo(u) = LinkedTo(node)
  BY <1>6, <1>7, LinkedToSame
<1>9. g \in TablesOver(reopened \cup LinkedTo(u))
  <2>1. p \in W
    BY <1>2 DEF SlotsOf, LinkedTo
  <2>2. node.routes \in TablesOver(W)
    BY <1>1 DEF Sound, Steady
  <2> HIDE DEF W
  <2>3. WithRoutes(node.routes, list, p, 2) \in TablesOver(W)
    BY <2>1, <2>2, WithRoutesSound
  <2>4. g \in TablesOver(W)
    BY <2>2, <2>3, Zenon DEF g
  <2> QED
    BY <1>8, <2>4 DEF W
<1>10. Sound(WithTable(u, g), reopened) /\ WithTable(u, g).neigh = u.neigh
  BY <1>1, <1>6, <1>9, TableSound
<1> DEFINE v == WithTable(u, g)
<1> HIDE DEF v
<1>11. /\ Steady(node', reopened) /\ Parented(node')
       /\ \A j \in Slots : node'.neigh[j].addr = v.neigh[j].addr
  BY <1>5, <1>10, RecomputedSound DEF v, Sound
<1>12. \A j \in Slots : node'.neigh[j].addr = node.neigh[j].addr
  BY <1>6, <1>10, <1>11 DEF v
<1> QED
  BY <1>1, <1>11, <1>12 DEF Preserves, Sound, Stays, Linked

\* lg_link_down, which also settles what a reopened link had left.
LEMMA LinkLostSound ==
  ASSUME IInv, NEW p \in Peers, LinkLost(p)
  PROVE  Preserves
<1>1. PICK i \in SlotsOf(node, p) \cap Linked(node) : node' = Down(node, i)
  BY DEF LinkLost
<1>2. /\ reopened' = reopened \ {p} /\ reopened \subseteq Peers /\ Steady(node, reopened)
      /\ node.neigh[i].addr = p /\ i \in Linked(node)
  BY <1>1 DEF LinkLost, IInv, Sound, SlotsOf
<1>3. /\ Steady(node', reopened \ {p}) /\ Parented(node')
      /\ \A j \in Slots : node'.neigh[j].addr = node.neigh[j].addr
  BY <1>1, <1>2, DownSound
<1> QED
  BY <1>2, <1>3 DEF Preserves, Sound, Stays, Linked

\* Every step, and the invariant is inductive.
LEMMA NextSound == IInv /\ Next => Preserves
BY BeaconSound, RequestSound, JoinFailsSound, JoinAbandonedSound, ExpiresSound, JoinsSound,
   AdvertisedSound, RegisteredSound, LinkLostSound, LookupSound DEF Next

LEMMA IInvInductive == IInv /\ [Next]_vars => IInv'
<1> SUFFICES ASSUME IInv, [Next]_vars PROVE IInv'
  OBVIOUS
<1>1. CASE Next
  BY <1>1, NextSound DEF Preserves, IInv
<1>2. CASE UNCHANGED vars
  BY <1>2 DEF vars, IInv
<1> QED
  BY <1>1, <1>2

----------------------------------------------------------------------------
(* The theorems.                                                            *)

\* The invariant holds always.
THEOREM NodeInvariant == Spec => []IInv
<1>1. Init => IInv
  BY InitSound
<1>2. IInv /\ [Next]_vars => IInv'
  BY IInvInductive
<1> QED
  BY <1>1, <1>2, PTL DEF Spec

\* The table is well formed, with one slot to an address and one route to a
\* destination, and never more routes than fit (lg_neigh_alloc, lg_route_add).
THEOREM TypeCorrect == Spec => []TypeOK
<1>1. IInv => TypeOK
  <2> SUFFICES ASSUME IInv PROVE TypeOK
    OBVIOUS
  <2>1. node \in Nodes /\ Addressed(node) /\ reopened \subseteq Peers
    BY DEF IInv, Sound, Steady
  <2>2. node.routes \in TablesOver(Peers)
    BY <2>1 DEF Nodes
  <2>3. Len(node.routes) <= MaxRoutes /\ DstUnique(node.routes)
    BY <2>2 DEF TablesOver
  <2>4. /\ node.neigh \in [Slots -> Entries] /\ node.rank \in 1 .. Infinite
        /\ node.hs \in [slot : Slots \cup {None}, joiner : BOOLEAN]
    BY <2>1 DEF Nodes
  <2> QED
    BY <2>1, <2>3, <2>4 DEF TypeOK, Entries, Addressed, DstUnique
<1> QED
  BY <1>1, NodeInvariant, PTL

\* No neighbour is left joining without the handshake that would end it
\* (lg_join_start, join_fail, lg_link_establish).
THEOREM JoiningAlwaysDriven == Spec => []JoiningIsDriven
<1>1. IInv => JoiningIsDriven
  BY DEF IInv, Sound, Steady, Driven, JoiningIsDriven
<1> QED
  BY <1>1, NodeInvariant, PTL

\* A node that has a rank has a linked parent to send to, unless a join request
\* has taken over a link (lg_route_recompute, lg_link_down).
THEOREM RankAlwaysHasParent == Spec => []RankHasParent
<1>1. IInv => RankHasParent
  <2> SUFFICES ASSUME IInv, reopened = {}, node.rank # Infinite PROVE Using(node) # {}
    BY DEF RankHasParent
  <2> DEFINE T == {i \in Linked(node) : node.neigh[i].parent}
  <2>1. T # {}
    BY DEF IInv, Sound, Parented
  <2>2. T \in SUBSET Nat
    BY NeighboursAssumption DEF Linked, Slots
  <2>3. PICK i \in T : \A j \in T : i <= j
    BY <2>1, <2>2, LeastNatural
  <2>4. i \in Using(node)
    BY <2>3 DEF Using
  <2> QED
    BY <2>4
<1> QED
  BY <1>1, NodeInvariant, PTL

\* Every route is over a linked neighbour, with the same exception
\* (lg_route_flush_via, lg_route_add).
THEOREM RoutesAlwaysFollow == Spec => []RoutesFollowLinks
<1>1. IInv => RoutesFollowLinks
  <2> SUFFICES ASSUME IInv, NEW k \in DOMAIN node.routes, node.routes[k].via \notin reopened
               PROVE  SlotsOf(node, node.routes[k].via) \cap Linked(node) # {}
    BY DEF RoutesFollowLinks
  <2> DEFINE W == reopened \cup LinkedTo(node)
  <2>1. node.routes \in Seq(RoutesOver(W))
    BY DEF IInv, Sound, Steady, TablesOver
  <2>2. node.routes[k] \in RoutesOver(W)
    <3> HIDE DEF W
    <3> QED
      BY <2>1
  <2>3. node.routes[k].via \in LinkedTo(node)
    BY <2>2 DEF RoutesOver
  <2>4. PICK i \in Linked(node) : node.neigh[i].addr = node.routes[k].via
    BY <2>3 DEF LinkedTo
  <2>5. i \in SlotsOf(node, node.routes[k].via)
    BY <2>4 DEF SlotsOf, Linked
  <2> QED
    BY <2>4, <2>5
<1> QED
  BY <1>1, NodeInvariant, PTL

\* No step takes the slot of the neighbour that the node sends to
\* (lg_neigh_make_room).
THEOREM UplinkAlwaysStays == Spec => UplinkStays
<1>1. IInv /\ [Next]_vars => [\A i \in Using(node) : node'.neigh[i].addr = node.neigh[i].addr]_vars
  BY NextSound DEF Preserves, Stays, Using
<1> QED
  BY <1>1, NodeInvariant, PTL DEF Spec, UplinkStays
=============================================================================
