--------------------------- MODULE LinkDataProofs ---------------------------
(***************************************************************************)
(* Proofs about LinkData: its types for all values of the constants, that  *)
(* it implements OrderedDelivery if the duplicate cache has room for every *)
(* message of other origins that comes in between, and that no message is  *)
(* released before it was delivered.                                       *)
(***************************************************************************)
EXTENDS LinkData, SequenceTheorems, TLAPS

\* The other end is an end, and its other end is this one.
LEMMA PeerType ==
  ASSUME NEW e \in Ends
  PROVE  /\ Peer(e) \in Ends /\ Peer(Peer(e)) = e /\ Peer(e) # e
         /\ \A x \in Ends : x # e => x = Peer(e)
  BY DEF Peer, Ends, Initiator, Responder

\* A sequence that has lost its first element.
LEMMA TailFacts ==
  ASSUME NEW S, NEW s \in Seq(S), s # <<>>
  PROVE  /\ Tail(s) \in Seq(S) /\ Len(Tail(s)) = Len(s) - 1
         /\ \A i \in 1 .. Len(Tail(s)) : Tail(s)[i] = s[i + 1]
         /\ Len(s) \in Nat \ {0}
  BY HeadTailProperties, LenProperties, EmptySeq

\* A sequence that has gained a last one.
LEMMA AppendFacts ==
  ASSUME NEW S, NEW s \in Seq(S), NEW x \in S
  PROVE  /\ Append(s, x) \in Seq(S) /\ Len(Append(s, x)) = Len(s) + 1
         /\ \A i \in 1 .. Len(s) : Append(s, x)[i] = s[i]
         /\ Append(s, x)[Len(s) + 1] = x
         /\ Len(s) \in Nat
         /\ Append(s, x) # <<>>
  BY AppendProperties, LenProperties

\* What the cache d held is in r: in place, or moved down by one.
Keeps(d, r) ==
  \/ Len(r) = Len(d) + 1 /\ \A i \in 1 .. Len(d) : r[i] = d[i]
  \/ /\ Len(r) = Len(d) /\ Len(d) = DupSize
     /\ \A i \in 2 .. Len(d) : r[i - 1] = d[i]

\* The duplicate cache never holds more than it has room for
\* (lg_route_is_duplicate): what was recorded is last, and everything else but
\* the oldest is still there.
LEMMA RecordedFacts ==
  ASSUME NEW S, NEW d \in Seq(S), NEW k \in S, Len(d) <= DupSize
  PROVE  /\ Recorded(d, k) \in Seq(S) /\ Recorded(d, k) # <<>>
         /\ Len(Recorded(d, k)) <= DupSize /\ Len(Recorded(d, k)) \in Nat \ {0}
         /\ Recorded(d, k)[Len(Recorded(d, k))] = k
         /\ Keeps(d, Recorded(d, k))
<1>1. Len(d) \in Nat /\ DupSize \in Nat \ {0}
  BY LenProperties, LinkDataAssumption
<1>2. CASE Len(d) < DupSize
  <2>1. Recorded(d, k) = Append(d, k)
    BY <1>2 DEF Recorded
  <2> QED
    BY <1>1, <1>2, <2>1, AppendFacts DEF Keeps
<1>3. CASE Len(d) = DupSize
  <2>1. Recorded(d, k) = Append(Tail(d), k)
    BY <1>1, <1>3 DEF Recorded
  <2>2. d # <<>>
    BY <1>1, <1>3, EmptySeq, LenProperties
  <2>3. /\ Tail(d) \in Seq(S) /\ Len(Tail(d)) = Len(d) - 1
        /\ \A i \in 1 .. Len(Tail(d)) : Tail(d)[i] = d[i + 1]
    BY <2>2, TailFacts
  <2>4. /\ Append(Tail(d), k) \in Seq(S) /\ Append(Tail(d), k) # <<>>
        /\ Len(Append(Tail(d), k)) = Len(d)
        /\ \A i \in 1 .. Len(Tail(d)) : Append(Tail(d), k)[i] = Tail(d)[i]
        /\ Append(Tail(d), k)[Len(d)] = k
    <3>1. PICK t \in Seq(S) : t = Tail(d)
      BY <2>3
    <3>2. Len(t) = Len(d) - 1
      BY <2>3, <3>1
    <3>3. /\ Append(t, k) \in Seq(S) /\ Append(t, k) # <<>>
          /\ Len(Append(t, k)) = Len(d)
          /\ \A i \in 1 .. Len(t) : Append(t, k)[i] = t[i]
          /\ Append(t, k)[Len(d)] = k
      BY <1>1, <3>2, AppendFacts
    <3> QED
      BY <3>1, <3>3, Zenon
  <2>5. ASSUME NEW i \in 2 .. Len(d) PROVE Append(Tail(d), k)[i - 1] = d[i]
    <3>1. i - 1 \in 1 .. Len(Tail(d)) /\ (i - 1) + 1 = i
      BY <1>1, <2>3
    <3> QED
      BY <2>3, <2>4, <3>1
  <2>6. PICK r : r = Append(Tail(d), k)
    OBVIOUS
  <2>7. /\ r \in Seq(S) /\ r # <<>> /\ Len(r) = DupSize /\ r[DupSize] = k
        /\ \A i \in 2 .. Len(d) : r[i - 1] = d[i]
    BY <1>3, <2>4, <2>5, <2>6
  <2>8. Recorded(d, k) = r
    BY <2>1, <2>6
  <2> QED
    BY <1>1, <1>3, <2>7, <2>8 DEF Keeps
<1> QED
  BY <1>1, <1>2, <1>3
----------------------------------------------------------------------------
(* Types.                                                                   *)

\* The sets of TypeOK, named.
Frames == Numbers \cup {NoMsg}

\* Message numbers are naturals, and NoMsg is not one of them.
LEMMA NumberFacts ==
  /\ Numbers \subseteq Frames /\ NoMsg \in Frames
  /\ \A k \in Frames : k # NoMsg => k \in Numbers
  /\ Frames \subseteq Nat /\ Numbers \subseteq Nat
  BY LinkDataAssumption DEF Frames, Numbers, NoMsg

\* Handling what was received keeps the cache and the deliveries in their
\* types.
LEMMA ReceiveType ==
  ASSUME TypeOK, NEW e \in Ends, Receive(e)
  PROVE  /\ dup' \in [Ends -> Seq(Frames)]
         /\ \A x \in Ends : Len(dup'[x]) <= DupSize
         /\ arrived' \in [Ends -> Seq(Numbers)]
<1>1. /\ dup \in [Ends -> Seq(Frames)] /\ arrived \in [Ends -> Seq(Numbers)]
      /\ \A x \in Ends : Len(dup[x]) <= DupSize
      /\ staged \in [Ends -> Frames]
  BY DEF TypeOK, Frames
<1>2. Peer(e) \in Ends
  BY PeerType
<1>3. PICK k \in Frames : k = staged[Peer(e)]
  BY <1>1, <1>2
<1>4. CASE UNCHANGED <<dup, arrived>>
  BY <1>1, <1>4
<1>5. CASE /\ k # NoMsg
           /\ dup' = [dup EXCEPT ![e] = Recorded(dup[e], k)]
           /\ arrived' = [arrived EXCEPT ![Peer(e)] = Append(arrived[Peer(e)], k)]
  <2>1. PICK d \in Seq(Frames) : d = dup[e] /\ Len(d) <= DupSize
    BY <1>1
  <2>2. PICK r \in Seq(Frames) : r = Recorded(d, k) /\ Len(r) <= DupSize
    BY <2>1, RecordedFacts
  <2>3. dup' = [dup EXCEPT ![e] = r]
    BY <1>5, <2>1, <2>2
  <2>4. k \in Numbers
    BY <1>3, <1>5, NumberFacts
  <2>5. PICK a \in Seq(Numbers) : a = arrived[Peer(e)]
    BY <1>1, <1>2
  <2>6. PICK b \in Seq(Numbers) : b = Append(a, k)
    BY <2>4, <2>5, AppendFacts
  <2>7. arrived' = [arrived EXCEPT ![Peer(e)] = b]
    BY <1>5, <2>5, <2>6
  <2> QED
    BY <1>1, <1>2, <2>2, <2>3, <2>7
<1> QED
  BY <1>3, <1>4, <1>5 DEF Receive

\* So does posting it, to a ring that may be full.
LEMMA PostType ==
  ASSUME TypeOK, NEW e \in Ends, Post(e)
  PROVE  /\ dup' \in [Ends -> Seq(Frames)]
         /\ \A x \in Ends : Len(dup'[x]) <= DupSize
         /\ arrived' \in [Ends -> Seq(Numbers)]
         /\ had' \subseteq Troubles
<1>1. CASE Receive(e) /\ UNCHANGED had
  BY <1>1, ReceiveType DEF TypeOK
<1>2. CASE Trouble("full") /\ UNCHANGED <<dup, arrived>>
  BY <1>2 DEF TypeOK, Trouble, Frames
<1> QED
  BY <1>1, <1>2 DEF Post

\* A message given to an end finds room in its queue.
LEMMA SendType ==
  ASSUME TypeOK, NEW e \in Ends, Send(e)
  PROVE  TypeOK'
<1>1. PICK q \in Seq(Numbers) : q = queue[e] /\ Len(q) < QueueSize
  BY DEF TypeOK, Send
<1>2. PICK g \in 0 .. MaxMsgs : g = given[e] /\ g < MaxMsgs
  BY DEF TypeOK, Send
<1>3. g + 1 \in Numbers /\ g + 1 \in 0 .. MaxMsgs
  BY <1>2, LinkDataAssumption DEF Numbers
<1>4. given' = [given EXCEPT ![e] = g + 1] /\ given'[e] = g + 1
  BY <1>2 DEF TypeOK, Send
<1>5. PICK r \in Seq(Numbers) : r = Append(q, g + 1) /\ Len(r) = Len(q) + 1 /\ Len(q) \in Nat
  BY <1>3, AppendFacts
<1>6. queue' = [queue EXCEPT ![e] = r]
  BY <1>1, <1>4, <1>5 DEF Send
<1>7. /\ queue' \in [Ends -> Seq(Numbers)]
      /\ \A x \in Ends : Len(queue'[x]) <= QueueSize
  <2>1. Len(r) <= QueueSize
    BY <1>1, <1>5, LinkDataAssumption
  <2> QED
    BY <1>6, <2>1 DEF TypeOK
<1>8. given' \in [Ends -> 0 .. MaxMsgs]
  BY <1>3, <1>4 DEF TypeOK
<1> QED
  BY <1>7, <1>8 DEF TypeOK, Send

\* A queue that loses its oldest message, whoever takes it.
LEMMA TailType ==
  ASSUME TypeOK, NEW e \in Ends, queue[e] # <<>>,
         queue' = [queue EXCEPT ![e] = Tail(queue[e])]
  PROVE  /\ queue' \in [Ends -> Seq(Numbers)]
         /\ \A x \in Ends : Len(queue'[x]) <= QueueSize
<1>1. PICK q \in Seq(Numbers) : q = queue[e] /\ Len(q) <= QueueSize
  BY DEF TypeOK
<1>2. PICK r \in Seq(Numbers) : r = Tail(q) /\ Len(r) = Len(q) - 1 /\ Len(q) \in Nat \ {0}
  BY <1>1, TailFacts
<1>3. queue' = [queue EXCEPT ![e] = r]
  BY <1>1, <1>2
<1>4. Len(r) <= QueueSize
  BY <1>1, <1>2, LinkDataAssumption
<1> QED
  BY <1>3, <1>4 DEF TypeOK

\* A message of another origin takes a place in the cache.
LEMMA OverhearType ==
  ASSUME TypeOK, NEW e \in Ends, Overhear(e)
  PROVE  TypeOK'
<1>1. PICK d \in Seq(Frames) : d = dup[e] /\ Len(d) <= DupSize
  BY DEF TypeOK, Frames
<1>2. PICK r \in Seq(Frames) : r = Recorded(d, NoMsg) /\ Len(r) <= DupSize
  BY <1>1, NumberFacts, RecordedFacts
<1>3. dup' = [dup EXCEPT ![e] = r]
  BY <1>1, <1>2 DEF Overhear
<1>4. /\ dup' \in [Ends -> Seq(Frames)]
      /\ \A x \in Ends : Len(dup'[x]) <= DupSize
  BY <1>2, <1>3 DEF TypeOK, Frames
<1>5. foreign' \in [Ends -> 0 .. MaxForeign]
  BY LinkDataAssumption DEF TypeOK, Overhear
<1> QED
  BY <1>4, <1>5 DEF TypeOK, Overhear, Frames

\* What an event leaves at an end after it is settled.
LEMMA FinishType ==
  ASSUME TypeOK, NEW e \in Ends, Finish(e)
  PROVE  TypeOK'
<1>1. /\ queue' \in [Ends -> Seq(Numbers)]
      /\ \A x \in Ends : Len(queue'[x]) <= QueueSize
  <2>1. CASE UNCHANGED queue
    BY <2>1 DEF TypeOK
  <2>2. CASE queue' = [queue EXCEPT ![e] = Remaining(e)] /\ queue[e] = <<>>
    BY <2>2 DEF TypeOK, Remaining
  <2>3. CASE queue' = [queue EXCEPT ![e] = Remaining(e)] /\ queue[e] # <<>>
    BY <2>3, TailType DEF Remaining
  <2> QED
    BY <2>1, <2>2, <2>3 DEF Finish
<1>2. \A q \in Seq(Numbers) : q # <<>> => Oldest(q) \in Numbers
  BY HeadTailProperties DEF Oldest
<1>3. freed' \in [Ends -> SUBSET Numbers]
  <2>1. CASE UNCHANGED freed
    BY <2>1 DEF TypeOK
  <2>2. CASE /\ queue[e] # <<>>
             /\ freed' = [freed EXCEPT ![e] = freed[e] \cup {Oldest(queue[e])}]
    <3>1. Oldest(queue[e]) \in Numbers
      BY <1>2, <2>2 DEF TypeOK
    <3>2. freed[e] \cup {Oldest(queue[e])} \in SUBSET Numbers
      BY <3>1 DEF TypeOK
    <3> QED
      BY <2>2, <3>2 DEF TypeOK
  <2> QED
    BY <2>1, <2>2 DEF Finish
<1>4. PICK ctrl \in BOOLEAN :
        /\ MayTrouble("ctrl", ctrl)
        /\ staged' = [staged EXCEPT ![e] =
             IF ctrl \/ queue'[e] = <<>> THEN NoMsg ELSE Oldest(queue'[e])]
        /\ needsAck' = [needsAck EXCEPT ![e] =
             IF ctrl THEN needsAck[e] /\ ~Confirms(e) ELSE queue'[e] # <<>>]
  BY DEF Finish
<1>5. had' \subseteq Troubles
  BY <1>4 DEF MayTrouble, Trouble, TypeOK
<1>6. staged' \in [Ends -> Frames]
  <2>1. (IF ctrl \/ queue'[e] = <<>> THEN NoMsg ELSE Oldest(queue'[e])) \in Frames
    BY <1>1, <1>2, NumberFacts
  <2> QED
    BY <1>4, <2>1 DEF TypeOK, Frames
<1>7. needsAck' \in [Ends -> BOOLEAN]
  <2>1. (IF ctrl THEN needsAck[e] /\ ~Confirms(e) ELSE queue'[e] # <<>>) \in BOOLEAN
    BY Zenon
  <2> QED
    BY <1>4, <2>1 DEF TypeOK
<1>8. phase' \in [Ends -> {"idle", "reply", "listen", "over"}]
  BY DEF TypeOK, Finish
<1> QED
  BY <1>1, <1>3, <1>5, <1>6, <1>7, <1>8 DEF TypeOK, Finish, Frames

\* The steps of an event.
LEMMA EventType ==
  ASSUME TypeOK,
         \/ Request \/ RequestLost \/ Reply \/ ReplyLost
         \/ \E e \in Ends : Refused(e)
  PROVE  TypeOK'
<1> DEFINE Phases == {"idle", "reply", "listen", "over"}
           Records == [got : BOOLEAN, sent : BOOLEAN]
<1>1. Responder \in Ends /\ Initiator \in Ends
  BY DEF Ends
<1>2. CASE Request
  <2>1. evst' \in [Ends -> Records]
    BY <1>2 DEF Request
  <2>2. phase' \in [Ends -> Phases]
    BY <1>2 DEF Request
  <2> QED
    BY <1>1, <1>2, <2>1, <2>2, PostType DEF Request, TypeOK, Frames
<1>3. CASE RequestLost
  <2>1. evst' \in [Ends -> Records]
    BY <1>3 DEF RequestLost
  <2>2. phase' \in [Ends -> Phases]
    BY <1>3 DEF RequestLost
  <2> QED
    BY <1>3, <2>1, <2>2 DEF RequestLost, Trouble, TypeOK
<1>4. CASE Reply
  <2>1. evst' \in [Ends -> Records]
    BY <1>4 DEF Reply
  <2>2. phase' \in [Ends -> Phases]
    BY <1>4 DEF Reply
  <2> QED
    BY <1>1, <1>4, <2>1, <2>2, PostType DEF Reply, TypeOK, Frames
<1>5. CASE ReplyLost
  <2>1. evst' \in [Ends -> Records]
    BY <1>5 DEF ReplyLost, TypeOK
  <2>2. phase' \in [Ends -> Phases]
    BY <1>5 DEF ReplyLost
  <2> QED
    BY <1>5, <2>1, <2>2 DEF ReplyLost, Trouble, TypeOK
<1>6. ASSUME NEW e \in Ends, Refused(e) PROVE TypeOK'
  <2>1. PICK latest \in {evst[e]} \cup Outcomes :
          evst' = [x \in Ends |-> IF x = e THEN latest
                                  ELSE [got |-> FALSE, sent |-> x = Initiator]]
    BY <1>6 DEF Refused
  <2>2. latest \in Records
    BY <2>1 DEF TypeOK, Outcomes
  <2>3. evst' \in [Ends -> Records]
    BY <2>1, <2>2
  <2>4. phase' \in [Ends -> Phases]
    BY <1>6 DEF Refused
  <2> QED
    BY <1>6, <2>3, <2>4 DEF Refused, Trouble, TypeOK
<1> QED
  BY <1>2, <1>3, <1>4, <1>5, <1>6

\* No step leaves the types.
LEMMA NextType ==
  ASSUME TypeOK, [Next]_vars
  PROVE  TypeOK'
<1>1. CASE UNCHANGED vars
  BY <1>1 DEF vars, TypeOK
<1>2. ASSUME NEW e \in Ends, Reroute(e) PROVE TypeOK'
  <2>1. had' \subseteq Troubles
    BY <1>2 DEF Reroute, Trouble, TypeOK
  <2> QED
    BY <1>2, <2>1, TailType DEF Reroute, TypeOK
<1> QED
  BY <1>1, <1>2, SendType, OverhearType, FinishType, EventType DEF Next

\* Whatever the sizes of the queue and of the cache, neither overflows and
\* every variable keeps a value of its kind (lg_send, lg_txq_free,
\* lg_route_is_duplicate).
THEOREM TypeCorrect == Spec => []TypeOK
<1>1. Init => TypeOK
  BY LinkDataAssumption, EmptySeq DEF Init, TypeOK, Ends, Numbers, NoMsg
<1>2. TypeOK /\ [Next]_vars => TypeOK'
  BY NextType
<1> QED
  BY <1>1, <1>2, PTL DEF Spec
----------------------------------------------------------------------------
(* The order of delivery.                                                   *)

\* The latest message of a sequence of deliveries.
Latest(a) == a[Len(a)]

\* Of the messages an end has given (g of them), those that wait (q) are in
\* order, the one staged (s) comes before them, and none of them before the
\* latest that has arrived (a).
InOrder(q, s, g, a) ==
  /\ \A i, j \in 1 .. Len(q) : i < j => q[i] < q[j]
  /\ \A i \in 1 .. Len(q) : q[i] <= g
  /\ s # NoMsg => s <= g /\ \A i \in 1 .. Len(q) : s <= q[i]
  /\ a # <<>> => /\ Latest(a) <= g
                 /\ s # NoMsg => Latest(a) <= s
                 /\ \A i \in 1 .. Len(q) : Latest(a) <= q[i]

\* The latest that has arrived is still in the cache (d) of the end it came
\* to, with at most the messages of other origins (f of them) after it.
Cached(a, d, f) ==
  a # <<>> => \E i \in 1 .. Len(d) : d[i] = Latest(a) /\ Len(d) - i <= f

\* The inductive invariant.  That the staged frame was never delivered before
\* depends on the queues at its own end and on the cache at the other.
Inv ==
  /\ TypeOK
  /\ \A e \in Ends : InOrder(queue[e], staged[e], given[e], arrived[e])
  /\ \A e \in Ends : Cached(arrived[e], dup[Peer(e)], foreign[Peer(e)])

\* Message numbers are naturals.
LEMMA ElementFacts ==
  ASSUME NEW s \in Seq(Numbers)
  PROVE  /\ Len(s) \in Nat
         /\ \A i \in 1 .. Len(s) : s[i] \in Nat
         /\ s # <<>> => Latest(s) \in Nat /\ Len(s) \in 1 .. Len(s)
<1>1. Len(s) \in Nat
  BY LenProperties
<1>2. ASSUME NEW i \in 1 .. Len(s) PROVE s[i] \in Nat
  <2>1. s[i] \in Numbers
    BY ElementOfSeq
  <2> QED
    BY <2>1, NumberFacts
<1>3. ASSUME s # <<>> PROVE Latest(s) \in Nat /\ Len(s) \in 1 .. Len(s)
  <2>1. Len(s) \in 1 .. Len(s)
    BY <1>1, <1>3, EmptySeq
  <2> QED
    BY <1>2, <2>1 DEF Latest
<1> QED
  BY <1>1, <1>2, <1>3

\* A new message comes after all others.
LEMMA InOrderGive ==
  ASSUME NEW q \in Seq(Numbers), NEW s \in Frames, NEW g \in Nat,
         NEW a \in Seq(Numbers), InOrder(q, s, g, a), g + 1 \in Numbers
  PROVE  InOrder(Append(q, g + 1), s, g + 1, a)
<1>1. PICK r \in Seq(Numbers) :
        /\ r = Append(q, g + 1) /\ Len(r) = Len(q) + 1 /\ Len(q) \in Nat
        /\ \A i \in 1 .. Len(q) : r[i] = q[i]
        /\ r[Len(q) + 1] = g + 1
  BY AppendFacts
<1>2. /\ \A i \in 1 .. Len(q) : q[i] \in Nat
      /\ s \in Nat
      /\ a # <<>> => Latest(a) \in Nat
  BY NumberFacts, ElementFacts
<1>3. \A i \in 1 .. Len(r) : i \in 1 .. Len(q) \/ i = Len(q) + 1
  BY <1>1
<1>4. /\ \A i, j \in 1 .. Len(q) : i < j => q[i] < q[j]
      /\ \A i \in 1 .. Len(q) : q[i] <= g
      /\ s # NoMsg => s <= g /\ \A i \in 1 .. Len(q) : s <= q[i]
      /\ a # <<>> => /\ Latest(a) <= g
                     /\ s # NoMsg => Latest(a) <= s
                     /\ \A i \in 1 .. Len(q) : Latest(a) <= q[i]
  BY DEF InOrder
<1>5. \A i, j \in 1 .. Len(r) : i < j => r[i] < r[j]
  BY <1>1, <1>2, <1>3, <1>4
<1>6. \A i \in 1 .. Len(r) : r[i] <= g + 1
  BY <1>1, <1>2, <1>3, <1>4
<1>7. s # NoMsg => s <= g + 1 /\ \A i \in 1 .. Len(r) : s <= r[i]
  BY <1>1, <1>2, <1>3, <1>4
<1>8. a # <<>> => /\ Latest(a) <= g + 1
                  /\ s # NoMsg => Latest(a) <= s
                  /\ \A i \in 1 .. Len(r) : Latest(a) <= r[i]
  BY <1>1, <1>2, <1>3, <1>4
<1>9. InOrder(r, s, g + 1, a)
  BY <1>5, <1>6, <1>7, <1>8 DEF InOrder
<1> QED
  BY <1>1, <1>9

\* The queue may lose its oldest message.
LEMMA InOrderTail ==
  ASSUME NEW q \in Seq(Numbers), q # <<>>, NEW s, NEW g, NEW a,
         InOrder(q, s, g, a)
  PROVE  InOrder(Tail(q), s, g, a)
<1>1. PICK r \in Seq(Numbers) :
        /\ r = Tail(q) /\ Len(r) = Len(q) - 1 /\ Len(q) \in Nat \ {0}
        /\ \A i \in 1 .. Len(r) : r[i] = q[i + 1]
  BY TailFacts
<1>2. \A i \in 1 .. Len(r) : i + 1 \in 1 .. Len(q)
  BY <1>1
<1>3. \A i, j \in 1 .. Len(r) : i < j => r[i] < r[j]
  <2>1. ASSUME NEW i \in 1 .. Len(r), NEW j \in 1 .. Len(r), i < j
        PROVE  q[i + 1] < q[j + 1]
    BY <1>2, <2>1 DEF InOrder
  <2> QED
    BY <1>1, <2>1
<1>4. /\ \A i \in 1 .. Len(r) : r[i] <= g
      /\ s # NoMsg => s <= g /\ \A i \in 1 .. Len(r) : s <= r[i]
      /\ a # <<>> => /\ Latest(a) <= g
                     /\ s # NoMsg => Latest(a) <= s
                     /\ \A i \in 1 .. Len(r) : Latest(a) <= r[i]
  BY <1>1, <1>2 DEF InOrder
<1>5. InOrder(r, s, g, a)
  BY <1>3, <1>4 DEF InOrder
<1> QED
  BY <1>1, <1>5

\* The oldest message may be staged, or nothing.
LEMMA InOrderStage ==
  ASSUME NEW q \in Seq(Numbers), NEW s, NEW g, NEW a, InOrder(q, s, g, a)
  PROVE  /\ InOrder(q, NoMsg, g, a)
         /\ q # <<>> => InOrder(q, Oldest(q), g, a)
<1>1. InOrder(q, NoMsg, g, a)
  BY DEF InOrder
<1>2. ASSUME q # <<>> PROVE InOrder(q, Oldest(q), g, a)
  <2>1. PICK h \in Numbers : h = q[1] /\ h = Oldest(q) /\ Len(q) \in Nat \ {0}
    BY <1>2, HeadTailProperties, LenProperties, EmptySeq, ElementOfSeq DEF Oldest
  <2>2. 1 \in 1 .. Len(q) /\ \A i \in 1 .. Len(q) : i = 1 \/ 1 < i
    BY <2>1
  <2>3. ASSUME NEW i \in 1 .. Len(q) PROVE h <= q[i]
    <3>1. h \in Nat /\ q[i] \in Nat
      BY NumberFacts, ElementFacts
    <3>2. CASE i = 1
      <4>1. q[i] = h
        BY <2>1, <3>2, Zenon
      <4>2. h <= h
        BY <3>1
      <4> QED
        BY <4>1, <4>2, Zenon
    <3>3. CASE 1 < i
      <4>1. \A x, y \in 1 .. Len(q) : x < y => q[x] < q[y]
        BY DEF InOrder
      <4>2. q[1] < q[i]
        BY <2>2, <3>3, <4>1
      <4> QED
        BY <2>1, <3>1, <4>2
    <3> QED
      BY <2>2, <3>2, <3>3
  <2>4. InOrder(q, h, g, a)
    BY <2>1, <2>2, <2>3 DEF InOrder
  <2> QED
    BY <2>1, <2>4
<1> QED
  BY <1>1, <1>2

\* The staged message may arrive.
LEMMA InOrderArrive ==
  ASSUME NEW q \in Seq(Numbers), NEW s \in Numbers, NEW g, NEW a \in Seq(Numbers),
         s # NoMsg, InOrder(q, s, g, a)
  PROVE  InOrder(q, s, g, Append(a, s))
<1>1. PICK b \in Seq(Numbers) : b = Append(a, s) /\ Latest(b) = s
  <2>1. /\ Append(a, s) \in Seq(Numbers) /\ Len(Append(a, s)) = Len(a) + 1
        /\ Append(a, s)[Len(a) + 1] = s
    BY AppendFacts
  <2> QED
    BY <2>1 DEF Latest
<1>2. s \in Nat
  BY NumberFacts
<1>3. InOrder(q, s, g, b)
  BY <1>1, <1>2 DEF InOrder
<1> QED
  BY <1>1, <1>3

\* Recording a message that has arrived puts it last in the cache.
LEMMA CachedArrive ==
  ASSUME NEW a \in Seq(Numbers), NEW d \in Seq(Frames), NEW k \in Numbers,
         NEW f \in Nat, Len(d) <= DupSize
  PROVE  Cached(Append(a, k), Recorded(d, k), f)
<1>1. PICK r \in Seq(Frames) :
        r = Recorded(d, k) /\ Len(r) \in Nat \ {0} /\ r[Len(r)] = k
  BY NumberFacts, RecordedFacts
<1>2. PICK b \in Seq(Numbers) : b = Append(a, k) /\ Latest(b) = k
  <2>1. /\ Append(a, k) \in Seq(Numbers) /\ Len(Append(a, k)) = Len(a) + 1
        /\ Append(a, k)[Len(a) + 1] = k
    BY AppendFacts
  <2> QED
    BY <2>1 DEF Latest
<1>3. Cached(b, r, f)
  BY <1>1, <1>2 DEF Cached
<1> QED
  BY <1>1, <1>2, <1>3

\* Recording one of another origin moves it up by one, and as long as the
\* cache has room for more of them than there are it stays in.
LEMMA CachedOverhear ==
  ASSUME NEW a, NEW d \in Seq(Frames), NEW f \in 0 .. MaxForeign,
         f < MaxForeign, MaxForeign < DupSize, Len(d) <= DupSize,
         Cached(a, d, f)
  PROVE  Cached(a, Recorded(d, NoMsg), f + 1)
<1>1. PICK r \in Seq(Frames) : r = Recorded(d, NoMsg) /\ Keeps(d, r)
  BY NumberFacts, RecordedFacts
<1>2. Len(d) \in Nat /\ DupSize \in Nat /\ MaxForeign \in Nat
  BY LenProperties, LinkDataAssumption
<1>3. CASE a = <<>>
  BY <1>3 DEF Cached
<1>4. CASE a # <<>>
  <2>1. PICK i \in 1 .. Len(d) : d[i] = Latest(a) /\ Len(d) - i <= f
    BY <1>4 DEF Cached
  <2>2. CASE Len(r) = Len(d) + 1 /\ \A j \in 1 .. Len(d) : r[j] = d[j]
    <3>1. i \in 1 .. Len(r) /\ r[i] = Latest(a) /\ Len(r) - i <= f + 1
      BY <1>2, <2>1, <2>2
    <3>2. Cached(a, r, f + 1)
      BY <3>1 DEF Cached
    <3> QED
      BY <1>1, <3>2
  <2>3. CASE /\ Len(r) = Len(d) /\ Len(d) = DupSize
             /\ \A j \in 2 .. Len(d) : r[j - 1] = d[j]
    <3>1. i \in 2 .. Len(d)
      BY <1>2, <2>1, <2>3
    <3>2. r[i - 1] = Latest(a)
      BY <2>1, <2>3, <3>1
    <3>3. i - 1 \in 1 .. Len(r) /\ Len(r) - (i - 1) <= f + 1
      BY <1>2, <2>1, <2>3, <3>1
    <3>4. Cached(a, r, f + 1)
      BY <3>2, <3>3 DEF Cached
    <3> QED
      BY <1>1, <3>4
  <2> QED
    BY <1>1, <2>2, <2>3 DEF Keeps
<1> QED
  BY <1>3, <1>4
\* The parts of Inv, for all ends.
Orders == \A e \in Ends : InOrder(queue[e], staged[e], given[e], arrived[e])
Caches == \A e \in Ends : Cached(arrived[e], dup[Peer(e)], foreign[Peer(e)])

\* What is handled was given, and comes after what arrived before: it is
\* neither the latest, which is in the cache, nor an earlier one.
LEMMA FreshArrival ==
  ASSUME TypeOK, Orders, Caches, NEW p \in Ends, NEW k \in Numbers,
         k = staged[p], ~InCache(dup[Peer(p)], k)
  PROVE  /\ k \in 1 .. given[p]
         /\ arrived[p] = <<>> \/ arrived[p][Len(arrived[p])] < k
<1>1. PICK a \in Seq(Numbers) : a = arrived[p]
  BY DEF TypeOK
<1>2. PICK g \in Nat : g = given[p]
  BY LinkDataAssumption DEF TypeOK
<1>3. InOrder(queue[p], k, g, a)
  BY <1>1, <1>2 DEF Orders
<1>4. k # NoMsg /\ k \in Nat \ {0}
  BY LinkDataAssumption DEF Numbers, NoMsg
<1>5. k \in 1 .. g
  BY <1>2, <1>3, <1>4 DEF InOrder
<1>6. ASSUME a # <<>> PROVE a[Len(a)] < k
  <2>1. Latest(a) \in Nat /\ Latest(a) <= k
    BY <1>3, <1>4, <1>6, ElementFacts DEF InOrder
  <2>2. Cached(a, dup[Peer(p)], foreign[Peer(p)])
    BY <1>1 DEF Caches
  <2>3. \E i \in 1 .. Len(dup[Peer(p)]) : dup[Peer(p)][i] = Latest(a)
    BY <1>6, <2>2 DEF Cached
  <2>4. Latest(a) # k
    BY <2>3 DEF InCache
  <2> QED
    BY <1>4, <2>1, <2>4 DEF Latest
<1> QED
  BY <1>1, <1>2, <1>5, <1>6

\* Handling a frame delivers its message in order or leaves everything as it
\* was.
LEMMA ReceiveStep ==
  ASSUME TypeOK, Orders, Caches, NEW e \in Ends, Receive(e),
         UNCHANGED <<queue, staged, given, foreign>>
  PROVE  /\ Orders' /\ Caches'
         /\ UNCHANGED <<given, arrived>> \/ Abs!Arrive(Peer(e))
<1>1. PICK p \in Ends : p = Peer(e) /\ Peer(p) = e /\ p # e
  BY PeerType
<1>2. PICK k \in Frames : k = staged[p]
  BY <1>1 DEF TypeOK, Frames
<1>3. CASE UNCHANGED <<dup, arrived>>
  BY <1>3 DEF Orders, Caches
<1>4. CASE /\ k # NoMsg /\ ~InCache(dup[e], k)
           /\ dup' = [dup EXCEPT ![e] = Recorded(dup[e], k)]
           /\ arrived' = [arrived EXCEPT ![p] = Append(arrived[p], k)]
  <2>1. k \in Numbers
    BY <1>4, NumberFacts
  <2>2. PICK a \in Seq(Numbers) : a = arrived[p]
    BY DEF TypeOK
  <2>3. PICK d \in Seq(Frames) : d = dup[e] /\ Len(d) <= DupSize
    BY DEF TypeOK, Frames
  <2>4. foreign[e] \in Nat
    BY LinkDataAssumption DEF TypeOK
  <2>5. InOrder(queue[p], k, given[p], Append(a, k))
    <3>1. InOrder(queue[p], k, given[p], a) /\ queue[p] \in Seq(Numbers)
      BY <1>2, <2>2 DEF Orders, TypeOK
    <3> QED
      BY <1>4, <2>1, <3>1, InOrderArrive
  <2>6. Cached(Append(a, k), Recorded(d, k), foreign[e])
    BY <2>1, <2>3, <2>4, CachedArrive
  <2>7. PICK b : b = Append(a, k)
    OBVIOUS
  <2>8. PICK r : r = Recorded(d, k)
    OBVIOUS
  <2>9. /\ arrived' = [arrived EXCEPT ![p] = b] /\ dup' = [dup EXCEPT ![e] = r]
        /\ arrived'[p] = b /\ arrived'[e] = arrived[e]
        /\ dup'[e] = r /\ dup'[p] = dup[p]
    BY <1>1, <1>4, <2>2, <2>3, <2>7, <2>8 DEF TypeOK
  <2>10. \A x \in Ends : x = p \/ x = e
    BY <1>1, PeerType
  <2>11. Orders'
    <3>1. InOrder(queue[p], staged[p], given[p], b)
      BY <1>2, <2>5, <2>7
    <3> QED
      BY <2>9, <2>10, <3>1 DEF Orders
  <2>12. Caches'
    <3>1. Cached(b, r, foreign[e])
      BY <2>6, <2>7, <2>8
    <3>2. Cached(arrived[e], dup[p], foreign[p])
      BY <1>1 DEF Caches
    <3>3. ASSUME NEW x \in Ends
          PROVE  Cached(arrived'[x], dup'[Peer(x)], foreign[Peer(x)])
      BY <1>1, <2>9, <2>10, <3>1, <3>2
    <3> QED
      BY <3>3 DEF Caches, Peer
  <2>13. Abs!Arrive(p)
    <3>1. /\ k \in 1 .. given[p]
          /\ arrived[p] = <<>> \/ arrived[p][Len(arrived[p])] < k
      BY <1>1, <1>2, <1>4, <2>1, FreshArrival
    <3> QED
      BY <1>4, <3>1 DEF Abs!Arrive
  <2> QED
    BY <1>1, <2>11, <2>12, <2>13
<1> QED
  BY <1>1, <1>2, <1>3, <1>4 DEF Receive

\* So does posting it.
LEMMA PostStep ==
  ASSUME TypeOK, Orders, Caches, NEW e \in Ends, Post(e),
         UNCHANGED <<queue, staged, given, foreign>>
  PROVE  /\ Orders' /\ Caches'
         /\ UNCHANGED <<given, arrived>> \/ Abs!Arrive(Peer(e))
<1>1. CASE Receive(e)
  BY <1>1, ReceiveStep
<1>2. CASE UNCHANGED <<dup, arrived>>
  BY <1>2 DEF Orders, Caches
<1> QED
  BY <1>1, <1>2 DEF Post

\* A message is given.
LEMMA SendStep ==
  ASSUME TypeOK, Orders, Caches, NEW e \in Ends, Send(e)
  PROVE  Orders' /\ Caches' /\ Abs!Give(e)
<1>1. PICK q \in Seq(Numbers) : q = queue[e]
  BY DEF TypeOK
<1>2. PICK g \in Nat : g = given[e] /\ g + 1 \in Numbers
  BY LinkDataAssumption DEF TypeOK, Send, Numbers
<1>3. given' = [given EXCEPT ![e] = g + 1] /\ given'[e] = g + 1
  BY <1>2 DEF TypeOK, Send
<1>4. PICK r : r = Append(q, g + 1)
  OBVIOUS
<1>5. queue' = [queue EXCEPT ![e] = r] /\ queue'[e] = r
  BY <1>1, <1>3, <1>4 DEF Send, TypeOK
<1>6. InOrder(r, staged[e], g + 1, arrived[e])
  <2>1. InOrder(q, staged[e], g, arrived[e])
    BY <1>1, <1>2 DEF Orders
  <2>2. staged[e] \in Frames /\ arrived[e] \in Seq(Numbers)
    BY DEF TypeOK, Frames
  <2> QED
    BY <1>2, <1>4, <2>1, <2>2, InOrderGive
<1>7. Orders'
  <2>1. ASSUME NEW x \in Ends
        PROVE  InOrder(queue'[x], staged[x], given'[x], arrived[x])
    <3>1. CASE x = e
      BY <1>3, <1>5, <1>6, <3>1
    <3>2. CASE x # e
      BY <1>3, <1>5, <3>2 DEF Orders, TypeOK
    <3> QED
      BY <3>1, <3>2
  <2> QED
    BY <2>1 DEF Orders, Send
<1>8. Caches'
  BY DEF Caches, Send
<1> QED
  BY <1>2, <1>3, <1>7, <1>8 DEF Abs!Give, Send

\* A queue loses its oldest message.
LEMMA TailStep ==
  ASSUME TypeOK, Orders, NEW e \in Ends, queue[e] # <<>>,
         queue' = [queue EXCEPT ![e] = Tail(queue[e])]
  PROVE  \A x \in Ends : InOrder(queue'[x], staged[x], given[x], arrived[x])
<1>1. PICK q \in Seq(Numbers) : q = queue[e]
  BY DEF TypeOK
<1>2. PICK r : r = Tail(q)
  OBVIOUS
<1>3. queue'[e] = r /\ \A x \in Ends : x # e => queue'[x] = queue[x]
  BY <1>1, <1>2 DEF TypeOK
<1>4. InOrder(r, staged[e], given[e], arrived[e])
  BY <1>1, <1>2, InOrderTail DEF Orders
<1> QED
  BY <1>3, <1>4 DEF Orders

\* A message of another origin takes a place in the cache.
LEMMA OverhearStep ==
  ASSUME TypeOK, Caches, MaxForeign < DupSize, NEW e \in Ends, Overhear(e)
  PROVE  Caches'
<1>1. PICK p \in Ends : p = Peer(e) /\ Peer(p) = e /\ p # e
  BY PeerType
<1>2. PICK d \in Seq(Frames) : d = dup[e] /\ Len(d) <= DupSize
  BY DEF TypeOK, Frames
<1>3. PICK f \in 0 .. MaxForeign : f = foreign[e] /\ f < MaxForeign
  BY DEF TypeOK, Overhear
<1>4. PICK r : r = Recorded(d, NoMsg)
  OBVIOUS
<1>5. /\ dup' = [dup EXCEPT ![e] = r] /\ dup'[e] = r /\ dup'[p] = dup[p]
      /\ foreign'[e] = f + 1 /\ foreign'[p] = foreign[p]
  BY <1>1, <1>2, <1>3, <1>4 DEF Overhear, TypeOK
<1>6. Cached(arrived[p], r, f + 1)
  <2>1. Cached(arrived[p], d, f)
    BY <1>1, <1>2, <1>3 DEF Caches
  <2> QED
    BY <1>2, <1>3, <1>4, <2>1, CachedOverhear
<1>7. ASSUME NEW x \in Ends
      PROVE  Cached(arrived[x], dup'[Peer(x)], foreign'[Peer(x)])
  <2>1. CASE x = p
    BY <1>1, <1>5, <1>6, <2>1
  <2>2. CASE x = e
    BY <1>1, <1>5, <2>2 DEF Caches
  <2> QED
    BY <1>1, <2>1, <2>2, PeerType
<1> QED
  BY <1>7 DEF Caches, Overhear, Peer

\* Settling an event takes the oldest message from the queue, or none, and
\* stages the oldest of what is left, or none.
LEMMA FinishStep ==
  ASSUME TypeOK, Orders, Caches, NEW e \in Ends, Finish(e)
  PROVE  Orders' /\ Caches'
<1>1. TypeOK'
  BY FinishType
<1>2. \A x \in Ends : InOrder(queue'[x], staged[x], given[x], arrived[x])
  <2>1. CASE queue' = queue
    BY <2>1 DEF Orders
  <2>2. CASE queue' = [queue EXCEPT ![e] = Remaining(e)] /\ queue[e] = <<>>
    BY <2>2 DEF Orders, Remaining, TypeOK
  <2>3. CASE queue' = [queue EXCEPT ![e] = Remaining(e)] /\ queue[e] # <<>>
    BY <2>3, TailStep DEF Remaining
  <2> QED
    BY <2>1, <2>2, <2>3 DEF Finish
<1>3. PICK q \in Seq(Numbers) : q = queue'[e]
  BY <1>1 DEF TypeOK
<1>4. PICK s : /\ staged' = [staged EXCEPT ![e] = s]
               /\ s = NoMsg \/ (q # <<>> /\ s = Oldest(q))
  BY <1>3 DEF Finish
<1>5. InOrder(q, s, given[e], arrived[e])
  BY <1>2, <1>3, <1>4, InOrderStage
<1>6. ASSUME NEW x \in Ends
      PROVE  InOrder(queue'[x], staged'[x], given[x], arrived[x])
  BY <1>2, <1>3, <1>4, <1>5 DEF TypeOK
<1> QED
  BY <1>6 DEF Orders, Caches, Finish

\* Every step keeps the invariant, and is a step of the abstract
\* specification or changes nothing in it.
LEMMA NextStep ==
  ASSUME Inv, [Next]_vars, MaxForeign < DupSize
  PROVE  Inv' /\ [Abs!Next]_<<given, arrived>>
<1>1. TypeOK /\ Orders /\ Caches /\ TypeOK'
  BY NextType DEF Inv, Orders, Caches
<1>2. Responder \in Ends /\ Initiator \in Ends
  BY DEF Ends
<1>3. SUFFICES Orders' /\ Caches' /\ [Abs!Next]_<<given, arrived>>
  BY <1>1 DEF Inv, Orders, Caches
<1>4. CASE UNCHANGED vars
  BY <1>1, <1>4 DEF vars, Orders, Caches
<1>5. ASSUME NEW e \in Ends, Send(e) PROVE Orders' /\ Caches' /\ Abs!Next
  BY <1>1, <1>5, SendStep DEF Abs!Next
<1>6. ASSUME NEW e \in Ends, Overhear(e)
      PROVE  Orders' /\ Caches' /\ UNCHANGED <<given, arrived>>
  BY <1>1, <1>6, OverhearStep DEF Overhear, Orders
<1>7. ASSUME NEW e \in Ends, Reroute(e)
      PROVE  Orders' /\ Caches' /\ UNCHANGED <<given, arrived>>
  BY <1>1, <1>7, TailStep DEF Reroute, Orders, Caches
<1>8. CASE Request
  BY <1>1, <1>2, <1>8, PostStep, PeerType DEF Request, Abs!Next
<1>9. CASE Reply
  BY <1>1, <1>2, <1>9, PostStep, PeerType DEF Reply, Abs!Next
<1>10. CASE RequestLost \/ ReplyLost \/ \E e \in Ends : Refused(e)
  BY <1>1, <1>10 DEF RequestLost, ReplyLost, Refused, Orders, Caches
<1>11. ASSUME NEW e \in Ends, Finish(e)
       PROVE  Orders' /\ Caches' /\ UNCHANGED <<given, arrived>>
  BY <1>1, <1>11, FinishStep DEF Finish
<1> QED
  BY <1>4, <1>5, <1>6, <1>7, <1>8, <1>9, <1>10, <1>11 DEF Next

\* Whatever is lost, refused, sent again or overtaken by a control frame, the
\* messages of each end arrive in order and at most once, if the duplicate
\* cache holds more entries than there are messages of other origins to push
\* one out (lg_route_is_duplicate, handle_data).
THEOREM ImplementsOrderedDelivery ==
  ASSUME MaxForeign < DupSize
  PROVE  Spec => DeliversInOrder
<1>1. Init => Inv
  <2>1. Init => TypeOK
    BY LinkDataAssumption, EmptySeq DEF Init, TypeOK, Ends, Numbers, NoMsg
  <2>2. \A s \in {NoMsg}, g \in {0} : InOrder(<<>>, s, g, <<>>)
    BY DEF InOrder
  <2>3. \A d, f : Cached(<<>>, d, f)
    BY DEF Cached
  <2> QED
    BY <2>1, <2>2, <2>3 DEF Init, Inv
<1>2. Inv /\ [Next]_vars => Inv' /\ [Abs!Next]_<<given, arrived>>
  BY NextStep
<1>3. Init => Abs!Init
  BY DEF Init, Abs!Init
<1> QED
  BY <1>1, <1>2, <1>3, PTL DEF Spec, DeliversInOrder, Abs!Spec
----------------------------------------------------------------------------
(* What is released was delivered.                                          *)

\* Everything in the cache d but messages of other origins is in S.
HeldIn(d, S) == \A i \in 1 .. Len(d) : d[i] # NoMsg => d[i] \in S

\* The frame e sent in this event has been handled by the other end, as far as
\* e can tell.
Heard(e) ==
  \/ phase[e] = "over" /\ evst[e].got
  \/ e = Initiator /\ phase[Responder] = "reply"

\* Why the release of a message of e is right: a message that needs its
\* confirmation is the oldest and is the frame staged, and a frame that was
\* heard is now in the cache of the other end, which holds nothing that has
\* not been delivered.
Confirmed(e) ==
  /\ freed[e] \subseteq Arrived(e)
  /\ needsAck[e] => queue[e] # <<>> /\ staged[e] = Oldest(queue[e])
  /\ HeldIn(dup[Peer(e)], Arrived(e))
  /\ Heard(e) => staged[e] = NoMsg \/ staged[e] \in Arrived(e)

Excused(e) == had \cap Excuses(e) # {}

\* The inductive invariant.  It needs the phases too: the initiator settles
\* nothing while the responder has yet to reply.
ConfirmedInv ==
  /\ TypeOK
  /\ phase[Responder] = "reply" => phase[Initiator] = "listen"
  /\ \A e \in Ends : Excused(e) \/ Confirmed(e)

\* An excuse does not expire.
LEMMA ExcusedStays ==
  ASSUME had \subseteq had', NEW e \in Ends, Excused(e)
  PROVE  Excused(e)'
  BY DEF Excused, Excuses, Responder

\* What has arrived stays, and what is appended to it has arrived.
LEMMA ArrivedAppend ==
  ASSUME TypeOK, NEW p \in Ends, NEW k \in Numbers,
         arrived' = [arrived EXCEPT ![p] = Append(arrived[p], k)]
  PROVE  /\ \A x \in Ends : Arrived(x) \subseteq Arrived(x)'
         /\ k \in Arrived(p)'
<1>1. PICK a \in Seq(Numbers) : a = arrived[p]
  BY DEF TypeOK
<1>2. PICK b \in Seq(Numbers) :
        /\ b = Append(a, k) /\ Len(b) = Len(a) + 1 /\ Len(a) \in Nat
        /\ \A i \in 1 .. Len(a) : b[i] = a[i]
        /\ b[Len(a) + 1] = k
  BY AppendFacts
<1>3. arrived'[p] = b /\ \A x \in Ends : x # p => arrived'[x] = arrived[x]
  BY <1>1, <1>2 DEF TypeOK
<1>4. Arrived(p) = {a[i] : i \in 1 .. Len(a)} /\ Arrived(p)' = {b[i] : i \in 1 .. Len(b)}
  BY <1>1, <1>3 DEF Arrived
<1>5. Arrived(p) \subseteq Arrived(p)' /\ k \in Arrived(p)'
  <2>1. Len(b) \in 1 .. Len(b) /\ \A i \in 1 .. Len(a) : i \in 1 .. Len(b)
    BY <1>2
  <2>2. k \in Arrived(p)'
    BY <1>2, <1>4, <2>1
  <2>3. ASSUME NEW i \in 1 .. Len(a) PROVE a[i] \in Arrived(p)'
    BY <1>2, <1>4, <2>1
  <2> QED
    BY <1>4, <2>2, <2>3
<1>6. ASSUME NEW x \in Ends, x # p PROVE Arrived(x) \subseteq Arrived(x)'
  BY <1>3, <1>6 DEF Arrived
<1> QED
  BY <1>5, <1>6

\* Recording k in a cache adds nothing else to it.
LEMMA HeldRecorded ==
  ASSUME NEW d \in Seq(Frames), NEW k \in Frames, Len(d) <= DupSize, NEW S,
         HeldIn(d, S), k = NoMsg \/ k \in S
  PROVE  HeldIn(Recorded(d, k), S)
<1>1. PICK r \in Seq(Frames) :
        /\ r = Recorded(d, k) /\ r[Len(r)] = k /\ Len(r) \in Nat \ {0}
        /\ Keeps(d, r)
  BY RecordedFacts
<1>2. Len(d) \in Nat
  BY LenProperties
<1>3. ASSUME NEW j \in 1 .. Len(r), r[j] # NoMsg PROVE r[j] \in S
  <2>1. CASE j = Len(r)
    BY <1>1, <1>3, <2>1
  <2>2. CASE j # Len(r)
    <3>1. CASE Len(r) = Len(d) + 1 /\ \A i \in 1 .. Len(d) : r[i] = d[i]
      <4>1. j \in 1 .. Len(d)
        BY <1>2, <2>2, <3>1
      <4> QED
        BY <1>3, <3>1, <4>1 DEF HeldIn
    <3>2. CASE /\ Len(r) = Len(d) /\ Len(d) = DupSize
               /\ \A i \in 2 .. Len(d) : r[i - 1] = d[i]
      <4>1. j + 1 \in 2 .. Len(d) /\ j + 1 \in 1 .. Len(d) /\ (j + 1) - 1 = j
        BY <1>2, <2>2, <3>2
      <4>2. r[j] = d[j + 1]
        BY <3>2, <4>1
      <4> QED
        BY <1>3, <4>1, <4>2 DEF HeldIn
    <3> QED
      BY <1>1, <3>1, <3>2 DEF Keeps
  <2> QED
    BY <2>1, <2>2
<1>4. HeldIn(r, S)
  BY <1>3 DEF HeldIn
<1> QED
  BY <1>1, <1>4

\* A frame that is handled has been delivered, now or before.
LEMMA ReceiveConfirms ==
  ASSUME TypeOK, NEW e \in Ends, Receive(e), staged' = staged,
         HeldIn(dup[e], Arrived(Peer(e)))
  PROVE  /\ \A x \in Ends : Arrived(x) \subseteq Arrived(x)'
         /\ HeldIn(dup[e], Arrived(Peer(e)))'
         /\ dup'[Peer(e)] = dup[Peer(e)] /\ arrived'[e] = arrived[e]
         /\ staged[Peer(e)] = NoMsg \/ staged[Peer(e)] \in Arrived(Peer(e))'
<1>1. PICK p \in Ends : p = Peer(e) /\ Peer(p) = e /\ p # e
  BY PeerType
<1>2. PICK k \in Frames : k = staged[p]
  BY <1>1 DEF TypeOK, Frames
<1>3. CASE (k = NoMsg \/ InCache(dup[e], k)) /\ UNCHANGED <<dup, arrived>>
  <2>1. k = NoMsg \/ k \in Arrived(p)
    BY <1>1, <1>3 DEF InCache, HeldIn
  <2> QED
    BY <1>1, <1>2, <1>3, <2>1 DEF Arrived, HeldIn, Peer
<1>4. CASE /\ k # NoMsg
           /\ dup' = [dup EXCEPT ![e] = Recorded(dup[e], k)]
           /\ arrived' = [arrived EXCEPT ![p] = Append(arrived[p], k)]
  <2>1. k \in Numbers
    BY <1>4, NumberFacts
  <2>2. (\A x \in Ends : Arrived(x) \subseteq Arrived(x)') /\ k \in Arrived(p)'
    BY <1>4, <2>1, ArrivedAppend
  <2>3. PICK d \in Seq(Frames) : d = dup[e] /\ Len(d) <= DupSize
    BY DEF TypeOK, Frames
  <2>4. PICK S : S = Arrived(p)'
    OBVIOUS
  <2>5. HeldIn(d, S)
    BY <1>1, <2>2, <2>3, <2>4 DEF HeldIn
  <2>6. HeldIn(Recorded(d, k), S)
    BY <2>2, <2>3, <2>4, <2>5, HeldRecorded
  <2>7. PICK r : r = Recorded(d, k)
    OBVIOUS
  <2>8. /\ dup'[e] = r /\ dup'[p] = dup[p] /\ arrived'[e] = arrived[e]
    BY <1>1, <1>4, <2>3, <2>7 DEF TypeOK
  <2>9. HeldIn(dup'[e], Arrived(p)')
    BY <2>4, <2>6, <2>7, <2>8
  <2>10. Peer(e)' = p
    BY <1>1 DEF Peer
  <2>11. HeldIn(dup[e], Arrived(Peer(e)))'
    BY <2>9, <1>1 DEF HeldIn, Arrived, Peer
  <2> QED
    BY <1>1, <1>2, <2>2, <2>8, <2>11 DEF Arrived, Peer
<1> QED
  BY <1>1, <1>2, <1>3, <1>4 DEF Receive
\* Handling a frame touches only the cache of the end it came to, and only
\* what has arrived from the other.
LEMMA ReceiveFrame ==
  ASSUME TypeOK, NEW e \in Ends, Receive(e)
  PROVE  dup'[Peer(e)] = dup[Peer(e)] /\ arrived'[e] = arrived[e]
  BY PeerType DEF Receive, TypeOK

\* After the troubles that excuse both ends, nothing is to be shown.
LEMMA ExcusedByTrouble ==
  ASSUME NEW kind \in {"refused", "ctrl", "reroute", "full"}, Trouble(kind),
         NEW e \in Ends
  PROVE  Excused(e)'
  BY DEF Excused, Excuses, Trouble

\* A message that is given joins a queue at its end.
LEMMA SendConfirmed ==
  ASSUME ConfirmedInv, NEW e \in Ends, Send(e)
  PROVE  \A x \in Ends : Excused(x)' \/ Confirmed(x)'
<1>1. SUFFICES ASSUME NEW x \in Ends, Confirmed(x) PROVE Confirmed(x)'
  BY ExcusedStays DEF ConfirmedInv, Send
<1>2. TypeOK
  BY DEF ConfirmedInv
<1>3. needsAck[x] => queue'[x] # <<>> /\ staged[x] = Oldest(queue'[x])
  <2>1. PICK q \in Seq(Numbers) : q = queue[e]
    BY <1>2 DEF TypeOK
  <2>2. PICK k \in Numbers : k = given'[e]
    BY <1>2, LinkDataAssumption DEF TypeOK, Send, Numbers
  <2>3. PICK r \in Seq(Numbers) :
          /\ r = Append(q, k) /\ Len(r) = Len(q) + 1 /\ Len(q) \in Nat
          /\ \A i \in 1 .. Len(q) : r[i] = q[i]
    <3>1. /\ Append(q, k) \in Seq(Numbers) /\ Len(Append(q, k)) = Len(q) + 1
          /\ \A i \in 1 .. Len(q) : Append(q, k)[i] = q[i]
          /\ Len(q) \in Nat
      BY AppendFacts
    <3> QED
      BY <3>1, Zenon
  <2>4. r # <<>>
    BY <2>3, EmptySeq
  <2>5. q # <<>> => Oldest(r) = Oldest(q)
    <3>1. q # <<>> => 1 \in 1 .. Len(q)
      BY <2>3, EmptySeq
    <3> QED
      BY <2>3, <2>4, <3>1, HeadTailProperties DEF Oldest
  <2>6. queue'[e] = r /\ \A y \in Ends : y # e => queue'[y] = queue[y]
    BY <1>2, <2>1, <2>2, <2>3 DEF TypeOK, Send
  <2> QED
    BY <1>1, <2>1, <2>3, <2>4, <2>5, <2>6 DEF Confirmed
<1> QED
  BY <1>1, <1>3 DEF Confirmed, Send, Heard, HeldIn, Arrived, Peer

\* A message of another origin may push a message out of a cache, never one in.
LEMMA OverhearConfirmed ==
  ASSUME ConfirmedInv, NEW e \in Ends, Overhear(e)
  PROVE  \A x \in Ends : Excused(x)' \/ Confirmed(x)'
<1>1. SUFFICES ASSUME NEW x \in Ends, Confirmed(x) PROVE Confirmed(x)'
  BY ExcusedStays DEF ConfirmedInv, Overhear
<1>2. TypeOK
  BY DEF ConfirmedInv
<1>3. PICK p \in Ends : p = Peer(x) /\ p' = Peer(x)'
  BY PeerType DEF Peer
<1>4. PICK S : S = Arrived(x) /\ S = Arrived(x)'
  BY DEF Overhear, Arrived
<1>5. HeldIn(dup'[p], S)
  <2>1. CASE p = e
    <3>1. PICK d \in Seq(Frames) : d = dup[e] /\ Len(d) <= DupSize
      BY <1>2 DEF TypeOK, Frames
    <3>2. HeldIn(d, S)
      BY <1>1, <1>3, <1>4, <2>1, <3>1 DEF Confirmed
    <3>3. HeldIn(Recorded(d, NoMsg), S)
      BY <3>1, <3>2, NumberFacts, HeldRecorded
    <3>4. PICK r : r = Recorded(d, NoMsg)
      OBVIOUS
    <3>5. dup'[e] = r
      BY <1>2, <3>1, <3>4 DEF Overhear, TypeOK
    <3> QED
      BY <2>1, <3>3, <3>4, <3>5
  <2>2. CASE p # e
    <3>1. dup'[p] = dup[p]
      BY <1>2, <2>2 DEF Overhear, TypeOK
    <3> QED
      BY <1>1, <1>3, <1>4, <3>1 DEF Confirmed
  <2> QED
    BY <2>1, <2>2
<1>6. HeldIn(dup[Peer(x)], Arrived(x))'
  BY <1>3, <1>4, <1>5 DEF HeldIn, Peer, Arrived
<1> QED
  BY <1>1, <1>6 DEF Confirmed, Overhear, Heard, Arrived

\* The first frame: what the initiator sent is now with the responder.
LEMMA RequestConfirmed ==
  ASSUME ConfirmedInv, Request
  PROVE  \A x \in Ends : Excused(x)' \/ Confirmed(x)'
<1>1. TypeOK /\ (\A x \in Ends : Excused(x) \/ Confirmed(x))
  BY DEF ConfirmedInv
<1>2. /\ Initiator \in Ends /\ Responder \in Ends /\ Initiator # Responder
      /\ Peer(Responder) = Initiator /\ Peer(Initiator) = Responder
      /\ \A x \in Ends : x = Initiator \/ x = Responder
  BY DEF Ends, Peer, Initiator, Responder
<1>3. CASE Trouble("full")
  BY <1>3, ExcusedByTrouble
<1>4. CASE Receive(Responder) /\ UNCHANGED had
  <2>1. dup'[Initiator] = dup[Initiator] /\ arrived'[Responder] = arrived[Responder]
    BY <1>1, <1>2, <1>4, ReceiveFrame
  <2>2. phase' = [x \in Ends |-> IF x = Responder THEN "reply" ELSE "listen"]
    BY DEF Request
  <2>3. ASSUME Confirmed(Responder) PROVE Confirmed(Responder)'
    <3>1. ~Heard(Responder)'
      BY <1>2, <2>2 DEF Heard
    <3>2. Arrived(Responder)' = Arrived(Responder)
      BY <2>1 DEF Arrived
    <3>3. HeldIn(dup[Peer(Responder)], Arrived(Responder))'
      BY <1>2, <2>1, <2>3, <3>2 DEF HeldIn, Confirmed, Peer
    <3> QED
      BY <2>3, <3>1, <3>2, <3>3 DEF Confirmed, Request
  <2>4. ASSUME Confirmed(Initiator) PROVE Confirmed(Initiator)'
    <3>1. HeldIn(dup[Responder], Arrived(Peer(Responder)))
      BY <1>2, <2>4 DEF Confirmed
    <3>2. /\ Arrived(Initiator) \subseteq Arrived(Initiator)'
          /\ HeldIn(dup[Responder], Arrived(Peer(Responder)))'
          /\ staged[Initiator] = NoMsg \/ staged[Initiator] \in Arrived(Initiator)'
      BY <1>1, <1>2, <1>4, <3>1, ReceiveConfirms DEF Request
    <3>3. HeldIn(dup[Peer(Initiator)], Arrived(Initiator))'
      BY <1>2, <3>2 DEF Peer, HeldIn, Arrived
    <3> QED
      BY <2>4, <3>2, <3>3 DEF Confirmed, Request
  <2>5. \A x \in Ends : Excused(x)' \/ Confirmed(x)
    BY <1>1, <1>4, ExcusedStays
  <2> QED
    BY <1>2, <2>3, <2>4, <2>5
<1> QED
  BY <1>3, <1>4 DEF Request, Post

\* The reply: what the responder sent is now with the initiator.
LEMMA ReplyConfirmed ==
  ASSUME ConfirmedInv, Reply
  PROVE  \A x \in Ends : Excused(x)' \/ Confirmed(x)'
<1>1. TypeOK /\ (\A x \in Ends : Excused(x) \/ Confirmed(x))
  BY DEF ConfirmedInv
<1>2. /\ Initiator \in Ends /\ Responder \in Ends /\ Initiator # Responder
      /\ Peer(Responder) = Initiator /\ Peer(Initiator) = Responder
      /\ \A x \in Ends : x = Initiator \/ x = Responder
  BY DEF Ends, Peer, Initiator, Responder
<1>3. CASE Trouble("full")
  BY <1>3, ExcusedByTrouble
<1>4. CASE Receive(Initiator) /\ UNCHANGED had
  <2>1. dup'[Responder] = dup[Responder] /\ arrived'[Initiator] = arrived[Initiator]
    BY <1>1, <1>2, <1>4, ReceiveFrame
  <2>2. ASSUME Confirmed(Initiator) PROVE Confirmed(Initiator)'
    <3>1. Heard(Initiator)
      BY DEF Heard, Reply
    <3>2. Arrived(Initiator)' = Arrived(Initiator)
      BY <2>1 DEF Arrived
    <3>3. HeldIn(dup[Peer(Initiator)], Arrived(Initiator))'
      BY <1>2, <2>1, <2>2, <3>2 DEF HeldIn, Confirmed, Peer
    <3> QED
      BY <2>2, <3>1, <3>2, <3>3 DEF Confirmed, Reply
  <2>3. ASSUME Confirmed(Responder) PROVE Confirmed(Responder)'
    <3>1. HeldIn(dup[Initiator], Arrived(Peer(Initiator)))
      BY <1>2, <2>3 DEF Confirmed
    <3>2. /\ Arrived(Responder) \subseteq Arrived(Responder)'
          /\ HeldIn(dup[Initiator], Arrived(Peer(Initiator)))'
          /\ staged[Responder] = NoMsg \/ staged[Responder] \in Arrived(Responder)'
      BY <1>1, <1>2, <1>4, <3>1, ReceiveConfirms DEF Reply
    <3>3. HeldIn(dup[Peer(Responder)], Arrived(Responder))'
      BY <1>2, <3>2 DEF Peer, HeldIn, Arrived
    <3> QED
      BY <2>3, <3>2, <3>3 DEF Confirmed, Reply
  <2>4. \A x \in Ends : Excused(x)' \/ Confirmed(x)
    BY <1>1, <1>4, ExcusedStays
  <2> QED
    BY <1>2, <2>2, <2>3, <2>4
<1> QED
  BY <1>3, <1>4 DEF Reply, Post

\* The steps that lose a frame.
LEMMA LossConfirmed ==
  ASSUME ConfirmedInv, RequestLost \/ ReplyLost
  PROVE  \A x \in Ends : Excused(x)' \/ Confirmed(x)'
<1>1. had \subseteq had'
  BY DEF RequestLost, ReplyLost, Trouble
<1>2. SUFFICES ASSUME NEW x \in Ends, Confirmed(x) PROVE Excused(x)' \/ Confirmed(x)'
  BY <1>1, ExcusedStays DEF ConfirmedInv
<1>3. Arrived(x)' = Arrived(x) /\ HeldIn(dup[Peer(x)], Arrived(x))'
  BY <1>2 DEF Arrived, HeldIn, Peer, RequestLost, ReplyLost, Confirmed
<1>4. CASE RequestLost
  <2>1. evst'[x].got = FALSE /\ phase'[Responder] # "reply"
    BY <1>4 DEF RequestLost, Ends
  <2>2. ~Heard(x)'
    BY <2>1 DEF Heard
  <2> QED
    BY <1>2, <1>3, <1>4, <2>2 DEF Confirmed, RequestLost
<1>5. CASE ReplyLost /\ x = Responder
  BY <1>5 DEF ReplyLost, Trouble, Excused, Excuses
<1>6. CASE ReplyLost /\ x = Initiator
  <2>1. Heard(x)
    BY <1>6 DEF ReplyLost, Heard
  <2> QED
    BY <1>2, <1>3, <1>6, <2>1 DEF Confirmed, ReplyLost
<1> QED
  BY <1>4, <1>5, <1>6 DEF Ends

\* Settling an event: what is released is the frame that was heard.
LEMMA FinishConfirmed ==
  ASSUME ConfirmedInv, NEW e \in Ends, Finish(e)
  PROVE  \A x \in Ends : Excused(x)' \/ Confirmed(x)'
<1>1. TypeOK /\ TypeOK'
  BY FinishType DEF ConfirmedInv
<1>2. CASE Trouble("ctrl")
  BY <1>2, ExcusedByTrouble
<1>3. CASE /\ UNCHANGED had
           /\ staged' = [staged EXCEPT ![e] =
                IF queue'[e] = <<>> THEN NoMsg ELSE Oldest(queue'[e])]
           /\ needsAck' = [needsAck EXCEPT ![e] = queue'[e] # <<>>]
  <2>1. SUFFICES ASSUME NEW x \in Ends, Confirmed(x) PROVE Confirmed(x)'
    BY <1>3, ExcusedStays DEF ConfirmedInv
  <2>2. Arrived(x)' = Arrived(x) /\ HeldIn(dup[Peer(x)], Arrived(x))'
    BY <2>1 DEF Arrived, HeldIn, Peer, Finish, Confirmed
  <2>3. phase'[e] = "idle" /\ phase[e] = "over"
        /\ \A y \in Ends : y # e => phase'[y] = phase[y]
    BY <1>1 DEF Finish, TypeOK
  <2>4. CASE x = e
    <3>1. freed'[e] \subseteq Arrived(e)
      <4>1. CASE UNCHANGED freed
        BY <2>1, <2>4, <4>1 DEF Confirmed
      <4>2. CASE /\ Confirms(e) /\ queue[e] # <<>>
                 /\ freed' = [freed EXCEPT ![e] = freed[e] \cup {Oldest(queue[e])}]
        <5>1. PICK k \in Numbers : k = Oldest(queue[e])
          BY <1>1, <4>2, HeadTailProperties DEF Oldest, TypeOK
        <5>2. staged[e] = k /\ k # NoMsg
          BY <2>1, <2>4, <4>2, <5>1, LinkDataAssumption
          DEF Confirms, Confirmed, Numbers, NoMsg
        <5>3. Heard(e)
          BY <2>3, <4>2 DEF Confirms, Heard
        <5>4. k \in Arrived(e)
          BY <2>1, <2>4, <5>2, <5>3 DEF Confirmed
        <5>5. freed'[e] = freed[e] \cup {k}
          BY <1>1, <4>2, <5>1 DEF TypeOK
        <5> QED
          BY <2>1, <2>4, <5>4, <5>5 DEF Confirmed
      <4> QED
        BY <4>1, <4>2 DEF Finish
    <3>2. ~Heard(e)'
      BY <2>3 DEF Heard, ConfirmedInv, Ends
    <3>3. needsAck'[e] => queue'[e] # <<>> /\ staged'[e] = Oldest(queue'[e])
      BY <1>1, <1>3 DEF TypeOK
    <3> QED
      BY <2>2, <2>4, <3>1, <3>2, <3>3 DEF Confirmed
  <2>5. CASE x # e
    <3>1. Heard(x)' => Heard(x)
      BY <2>3, <2>5 DEF Heard, Finish, Ends
    <3>2. /\ freed'[x] = freed[x] /\ queue'[x] = queue[x]
          /\ staged'[x] = staged[x] /\ needsAck'[x] = needsAck[x]
      BY <1>1, <1>3, <2>5 DEF Finish, TypeOK
    <3> QED
      BY <2>1, <2>2, <3>1, <3>2 DEF Confirmed
  <2> QED
    BY <2>4, <2>5
<1> QED
  BY <1>2, <1>3 DEF Finish, MayTrouble

\* Every step keeps it.
LEMMA NextConfirmed ==
  ASSUME ConfirmedInv, [Next]_vars
  PROVE  ConfirmedInv'
<1>1. TypeOK /\ TypeOK'
  BY NextType DEF ConfirmedInv
<1>2. (phase[Responder] = "reply" => phase[Initiator] = "listen")'
  <2>1. Initiator \in Ends /\ Responder \in Ends /\ Initiator # Responder
    BY DEF Ends, Initiator, Responder
  <2>2. CASE UNCHANGED phase
    BY <2>2 DEF ConfirmedInv
  <2>3. CASE Request
    BY <2>1, <2>3 DEF Request
  <2>4. CASE phase' = [x \in Ends |-> "over"]
    BY <2>1, <2>4
  <2>5. ASSUME NEW e \in Ends, Finish(e)
        PROVE  (phase[Responder] = "reply" => phase[Initiator] = "listen")'
    BY <1>1, <2>1, <2>5 DEF Finish, ConfirmedInv, TypeOK
  <2> QED
    BY <2>2, <2>3, <2>4, <2>5
    DEF Next, vars, Send, Overhear, Reroute, RequestLost, Reply, ReplyLost, Refused
<1>3. \A x \in Ends : Excused(x)' \/ Confirmed(x)'
  <2>1. CASE UNCHANGED vars
    BY <2>1 DEF vars, ConfirmedInv, Excused, Excuses, Confirmed, Heard, HeldIn,
                Arrived, Peer
  <2>2. ASSUME NEW e \in Ends, Reroute(e) \/ Refused(e)
        PROVE  \A x \in Ends : Excused(x)'
    BY <2>2, ExcusedByTrouble DEF Reroute, Refused
  <2> QED
    BY <2>1, <2>2, SendConfirmed, OverhearConfirmed, RequestConfirmed,
       ReplyConfirmed, LossConfirmed, FinishConfirmed DEF Next
<1> QED
  BY <1>1, <1>2, <1>3 DEF ConfirmedInv

\* However many messages and frames there are, a message is released only
\* after it was delivered, unless one of the excuses of its end has happened
\* (lg_link_event_finish).
THEOREM ReleasedAfterDelivery == Spec => []FreedWasDelivered
<1>1. Init => ConfirmedInv
  <2>1. Init => TypeOK
    BY LinkDataAssumption, EmptySeq DEF Init, TypeOK, Ends, Numbers, NoMsg
  <2>2. ASSUME Init, NEW e \in Ends PROVE Confirmed(e)
    <3>1. HeldIn(<<>>, Arrived(e))
      BY DEF HeldIn
    <3>2. ~Heard(e)
      BY <2>2 DEF Init, Heard, Ends
    <3> QED
      BY <2>2, <3>1, <3>2, PeerType DEF Init, Confirmed
  <2> QED
    BY <2>1, <2>2 DEF ConfirmedInv, Init, Ends
<1>2. ConfirmedInv /\ [Next]_vars => ConfirmedInv'
  BY NextConfirmed
<1>3. ConfirmedInv => FreedWasDelivered
  BY DEF ConfirmedInv, FreedWasDelivered, Excused, Confirmed
<1> QED
  BY <1>1, <1>2, <1>3, PTL DEF Spec
=============================================================================
