--------------------------- MODULE HandshakeProofs ---------------------------
(***************************************************************************)
(* Proofs about Handshake for fragments, limits and troubles of any        *)
(* number: its types and limits, that two ends on a link have the same     *)
(* key, that the joiner is never linked before the router, that the ends   *)
(* take turns, and that a first attempt succeeds when nothing is lost.     *)
(*                                                                         *)
(* The invariant says of each end that its handshake is within its limits, *)
(* has nothing staged but what that end sends, and stages link parameters  *)
(* only under the key the end has. Of the two ends together it says that   *)
(* link parameters are on air only in the slot in which the router sent    *)
(* them, was linked by doing so and has their key; and that a linked       *)
(* joiner has a router with no handshake and nothing on its way to it. The *)
(* former makes the keys equal when the joiner is linked, the latter keeps *)
(* them so: nothing is left that could derive another.                     *)
(*                                                                         *)
(* On that invariant rest two more.  Turns says who will owe a message in  *)
(* the next slot, if nothing more is heard in this one: never both ends,   *)
(* and one of them once the router has something to say.  Course is the    *)
(* path of a first attempt with which nothing interferes, slot by slot and *)
(* fragment by fragment.                                                   *)
(***************************************************************************)
EXTENDS Handshake, TLAPS

----------------------------------------------------------------------------
(* What one end's record may be.                                            *)

\* Fragments that have been put together; their numbers may have gaps.
PartSets == UNION {[D -> Message] : D \in SUBSET Nat}

RxType == [type : Types, parts : PartSets]

LiveHs ==
  [live : {TRUE}, resuming : BOOLEAN, age : Nat, idle : Nat,
   staged : SUBSET Message, owe_tx : BOOLEAN, was_tx : BOOLEAN,
   progressed : BOOLEAN, slot_refused : BOOLEAN,
   rx : RxType, skip : Nat, aligned : BOOLEAN]

States == {"HEARD", "JOINING", "LINKED", "LOST"}

NodeType ==
  [state : States, key : Nat, has_ltk : BOOLEAN, hs : LiveHs \cup {NoHs}]

\* The messages each end sends.
Says(e) ==
  IF e = Joiner THEN {"JOIN_REQ", "RESUME_REQ", "JOIN_CFM"}
  ELSE {"JOIN_RSP", "JOIN_ACK", "RESUME_RSP"}

IdleMax(hs) == IF hs.resuming THEN ResumeIdleLimit ELSE IdleLimit
SlotMax(hs) == IF hs.resuming THEN ResumeSlotLimit ELSE SlotLimit

\* Put together from fragments of one type.
RxGood(rx, d) ==
  \A i \in DOMAIN rx.parts : rx.parts[i].type = rx.type /\ rx.parts[i].key <= d

\* What end e, which holds key, may have staged once d keys have been derived:
\* link parameters are sealed with that key.
StagedGood(e, staged, key, d) ==
  \A m \in staged :
    m.type \in Says(e) /\ m.key <= d /\ (m.type \in Parameters => m.key = key)

\* A handshake context of end e, at most g slots behind its deadline.
HsGood(e, hs, key, d, g) ==
  /\ hs \in LiveHs
  /\ hs.idle < IdleMax(hs)
  /\ hs.age < SlotMax(hs) + g
  /\ hs.owe_tx => hs.staged # {}
  /\ RxGood(hs.rx, d)
  /\ StagedGood(e, hs.staged, key, d)

\* What end e holds about the other.
Good(e, n, d, g) ==
  /\ n \in NodeType /\ n.key <= d
  /\ n.hs.live <=> n.state = "JOINING"
  /\ n.hs.live => HsGood(e, n.hs, n.key, d, g)

\* A record has a handshake context or the empty one.
LEMMA LiveCases ==
  ASSUME NEW n \in NodeType
  PROVE  /\ n.hs.live \in BOOLEAN
         /\ n.hs.live => n.hs \in LiveHs
         /\ ~n.hs.live => n.hs = NoHs
<1>1. n.hs \in LiveHs \/ n.hs = NoHs
  BY DEF NodeType
<1>2. ASSUME NEW hs \in LiveHs PROVE hs.live = TRUE
  BY DEF LiveHs
<1>3. NoHs.live = FALSE
  BY DEF NoHs
<1> QED
  BY <1>1, <1>2, <1>3

\* The fields of a handshake context.
LEMMA LiveFields ==
  ASSUME NEW hs \in LiveHs
  PROVE  /\ hs.live = TRUE /\ hs.resuming \in BOOLEAN
         /\ hs.age \in Nat /\ hs.idle \in Nat
         /\ hs.staged \subseteq Message /\ hs.owe_tx \in BOOLEAN
         /\ hs.was_tx \in BOOLEAN /\ hs.progressed \in BOOLEAN
         /\ hs.slot_refused \in BOOLEAN
         /\ hs.rx \in RxType /\ hs.skip \in Nat /\ hs.aligned \in BOOLEAN
         /\ IdleMax(hs) \in Nat \ {0} /\ SlotMax(hs) \in Nat \ {0}
BY HandshakeAssumption DEF LiveHs, IdleMax, SlotMax

\* More keys may have been derived, or slots lost, by the time it is looked at.
LEMMA GoodLater ==
  ASSUME NEW e, NEW n, NEW d \in Nat, NEW g \in Nat, Good(e, n, d, g),
         NEW d2 \in Nat, NEW g2 \in Nat, d <= d2, g <= g2
  PROVE  Good(e, n, d2, g2)
<1>1. ASSUME NEW k \in Nat, k <= d PROVE k <= d2
  BY <1>1
<1>2. n \in NodeType /\ n.key \in Nat /\ n.key <= d
  BY DEF Good, NodeType
<1>3. ASSUME n.hs.live PROVE HsGood(e, n.hs, n.key, d2, g2)
  <2>1. HsGood(e, n.hs, n.key, d, g) /\ n.hs \in LiveHs
    BY <1>3 DEF Good, HsGood
  <2>2. n.hs.rx \in RxType /\ n.hs.staged \in SUBSET Message
    BY <2>1, LiveFields
  <2>3. RxGood(n.hs.rx, d2)
    <3>1. PICK D \in SUBSET Nat : n.hs.rx.parts \in [D -> Message]
      BY <2>2 DEF RxType, PartSets
    <3>2. \A i \in D : n.hs.rx.parts[i].key \in Nat
      BY <3>1 DEF Message
    <3>3. DOMAIN n.hs.rx.parts = D /\ RxGood(n.hs.rx, d)
      BY <2>1, <3>1 DEF HsGood
    <3> QED
      BY <1>1, <3>2, <3>3 DEF RxGood
  <2>4. StagedGood(e, n.hs.staged, n.key, d2)
    <3>1. \A m \in n.hs.staged : m.key \in Nat
      BY <2>2 DEF Message
    <3>2. StagedGood(e, n.hs.staged, n.key, d)
      BY <2>1 DEF HsGood
    <3> QED
      BY <1>1, <3>1, <3>2 DEF StagedGood
  <2>5. n.hs.age < SlotMax(n.hs) + g2
    <3>1. n.hs.age \in Nat /\ SlotMax(n.hs) \in Nat /\ n.hs.age < SlotMax(n.hs) + g
      BY <2>1, LiveFields DEF HsGood
    <3> QED
      BY <3>1
  <2> QED
    BY <2>1, <2>3, <2>4, <2>5 DEF HsGood
<1> QED
  BY <1>1, <1>2, <1>3 DEF Good

----------------------------------------------------------------------------
(* What happens to one end's record.                                        *)

\* A record without a handshake is good whatever is lost.
LEMMA IdleGood ==
  ASSUME NEW e, NEW d \in Nat, NEW g \in Nat, NEW n \in NodeType,
         n.key <= d, n.hs = NoHs, n.state # "JOINING"
  PROVE  Good(e, n, d, g) /\ ~n.hs.live
<1>1. NoHs.live = FALSE
  BY DEF NoHs
<1> QED
  BY <1>1 DEF Good

\* A failed attempt leaves no handshake and no key (join_fail).
LEMMA FailGood ==
  ASSUME NEW e, NEW d \in Nat, NEW g \in Nat, NEW n \in NodeType
  PROVE  /\ Good(e, Fail(n), d, g) /\ ~Fail(n).hs.live
         /\ Fail(n).state \in {"HEARD", "LOST"}
<1>1. PICK st \in {"HEARD", "LOST"} : st = IF n.has_ltk THEN "LOST" ELSE "HEARD"
  OBVIOUS
<1>2. Fail(n) = [n EXCEPT !.key = NoKey, !.state = st, !.hs = NoHs]
  BY <1>1 DEF Fail
<1>3. st \in States /\ st # "JOINING" /\ NoKey \in Nat /\ NoKey <= d
  BY DEF States, NoKey
<1>4. Fail(n) \in NodeType
  BY <1>2, <1>3 DEF NodeType
<1>5. Fail(n).state = st /\ Fail(n).key = NoKey /\ Fail(n).hs = NoHs
  BY <1>2 DEF NodeType
<1> QED
  BY <1>3, <1>4, <1>5, IdleGood

\* A link keeps the handshake's key (lg_link_establish).
LEMMA EstablishGood ==
  ASSUME NEW e, NEW d \in Nat, NEW g \in Nat, NEW n \in NodeType, n.key <= d
  PROVE  /\ Good(e, Establish(n), d, g) /\ ~Establish(n).hs.live
         /\ Establish(n).state = "LINKED" /\ Establish(n).key = n.key
<1>1. Establish(n) \in NodeType
  BY DEF Establish, NodeType, States
<1>2. Establish(n).state = "LINKED" /\ Establish(n).key = n.key /\ Establish(n).hs = NoHs
  BY DEF Establish, NodeType
<1> QED
  BY <1>1, <1>2, IdleGood

\* A link that goes leaves no session key (lg_link_down).
LEMMA TearDownGood ==
  ASSUME NEW e, NEW d \in Nat, NEW g \in Nat, NEW n \in NodeType, n.hs = NoHs
  PROVE  Good(e, TearDown(n), d, g) /\ ~TearDown(n).hs.live /\ TearDown(n).state = "LOST"
<1>1. TearDown(n) \in NodeType
  BY DEF TearDown, NodeType, States, NoKey
<1>2. TearDown(n).state = "LOST" /\ TearDown(n).key = NoKey /\ TearDown(n).hs = NoHs
  BY DEF TearDown, NodeType
<1>3. NoKey <= d
  BY DEF NoKey
<1> QED
  BY <1>1, <1>2, <1>3, IdleGood

\* A message is staged and owed (stage_message).
LEMMA StageFields ==
  ASSUME NEW hs \in LiveHs, NEW msg \in Message
  PROVE  LET s == Stage(hs, msg)
         IN /\ s \in LiveHs /\ s.staged = {msg}
            /\ s.rx = hs.rx /\ s.idle = hs.idle /\ s.age = hs.age
            /\ s.resuming = hs.resuming
BY DEF Stage, LiveHs

\* A fresh context has nothing in it.
LEMMA NewHsFields ==
  ASSUME NEW resuming \in BOOLEAN, NEW skip \in Nat
  PROVE  LET h == NewHs(resuming, skip)
         IN /\ h \in LiveHs /\ h.resuming = resuming /\ h.age = 0 /\ h.idle = 0
            /\ h.staged = {} /\ h.owe_tx = FALSE /\ h.rx.parts = <<>>
<1>1. <<>> \in [{} -> Message]
  OBVIOUS
<1>2. <<>> \in PartSets
  BY <1>1 DEF PartSets
<1>3. [type |-> "JOIN_REQ", parts |-> <<>>] \in RxType
  BY <1>2 DEF RxType, Types, Requests
<1> QED
  BY <1>3 DEF NewHs, LiveHs

\* The message that was put together has been consumed.
LEMMA ConsumedFields ==
  ASSUME NEW hs \in LiveHs
  PROVE  LET c == [hs EXCEPT !.progressed = TRUE, !.rx.parts = <<>>]
         IN /\ c \in LiveHs /\ c.staged = hs.staged /\ c.idle = hs.idle
            /\ c.age = hs.age /\ c.resuming = hs.resuming /\ c.rx.parts = <<>>
<1> DEFINE rx == [hs.rx EXCEPT !.parts = <<>>]
<1>1. <<>> \in [{} -> Message]
  OBVIOUS
<1>2. <<>> \in PartSets
  BY <1>1 DEF PartSets
<1>3. rx \in RxType /\ rx.parts = <<>>
  BY <1>2, LiveFields DEF RxType
<1> HIDE DEF rx
<1>4. LET c == [hs EXCEPT !.progressed = TRUE, !.rx = rx]
      IN /\ c \in LiveHs /\ c.staged = hs.staged /\ c.idle = hs.idle
         /\ c.age = hs.age /\ c.resuming = hs.resuming /\ c.rx = rx
  BY <1>3 DEF LiveHs
<1>5. [hs EXCEPT !.progressed = TRUE, !.rx.parts = <<>>]
        = [hs EXCEPT !.progressed = TRUE, !.rx = rx]
  BY DEF rx, LiveHs
<1> QED
  BY <1>3, <1>4, <1>5

\* An answer is staged under the key it establishes or is sealed with.
LEMMA AnswerGood ==
  ASSUME NEW e, NEW d \in Nat, NEW g \in Nat, NEW n, Good(e, n, d, g), n.hs.live,
         NEW key \in Nat, key <= d, NEW type \in Types, type \in Says(e), NEW attempt \in Nat
  PROVE  LET a == Answer(n, key, type, attempt)
         IN Good(e, a, d, g) /\ a.state = "JOINING" /\ a.key = key
<1> DEFINE msg == [type |-> type, key |-> key, attempt |-> attempt]
           hs == Stage(n.hs, msg)
           c == [hs EXCEPT !.progressed = TRUE, !.rx.parts = <<>>]
           a == [n EXCEPT !.key = key, !.hs = c]
<1>1. n \in NodeType /\ n.hs \in LiveHs /\ n.state = "JOINING" /\ HsGood(e, n.hs, n.key, d, g)
  BY DEF Good, HsGood
<1>2. msg \in Message /\ msg.type = type /\ msg.key = key
  BY DEF Message
<1> HIDE DEF msg
<1>3. /\ hs \in LiveHs /\ hs.staged = {msg} /\ hs.idle = n.hs.idle
      /\ hs.age = n.hs.age /\ hs.resuming = n.hs.resuming
  BY <1>1, <1>2, StageFields
<1> HIDE DEF hs
<1>4. /\ c \in LiveHs /\ c.staged = {msg} /\ c.idle = n.hs.idle
      /\ c.age = n.hs.age /\ c.resuming = n.hs.resuming /\ c.rx.parts = <<>>
  <2>1. hs \in LiveHs
    BY <1>3
  <2>2. /\ c \in LiveHs /\ c.staged = hs.staged /\ c.idle = hs.idle
        /\ c.age = hs.age /\ c.resuming = hs.resuming /\ c.rx.parts = <<>>
    BY <2>1, ConsumedFields
  <2> HIDE DEF c
  <2> QED
    BY <1>3, <2>2
<1> HIDE DEF c
<1>5. a \in NodeType /\ a.key = key /\ a.hs = c /\ a.state = "JOINING"
  BY <1>1, <1>4 DEF NodeType
<1>6. HsGood(e, c, key, d, g)
  <2>1. c.idle < IdleMax(c) /\ c.age < SlotMax(c) + g
    BY <1>1, <1>4 DEF HsGood, IdleMax, SlotMax
  <2>2. DOMAIN c.rx.parts = {}
    BY <1>4
  <2>3. RxGood(c.rx, d)
    BY <2>2 DEF RxGood
  <2>4. StagedGood(e, c.staged, key, d)
    BY <1>2, <1>4 DEF StagedGood
  <2> QED
    BY <1>4, <2>1, <2>3, <2>4 DEF HsGood
<1>7. c.live
  BY <1>4, LiveFields
<1>8. Good(e, a, d, g)
  BY <1>5, <1>6, <1>7 DEF Good
<1>9. Answer(n, key, type, attempt) = a
  BY DEF Answer, a, c, hs, msg
<1> QED
  BY <1>5, <1>8, <1>9

\* The long term key makes no difference.
LEMMA LtkGood ==
  ASSUME NEW e, NEW d \in Nat, NEW g \in Nat, NEW n, Good(e, n, d, g)
  PROVE  LET m == [n EXCEPT !.has_ltk = TRUE]
         IN Good(e, m, d, g) /\ m.state = n.state /\ m.key = n.key
<1> DEFINE m == [n EXCEPT !.has_ltk = TRUE]
<1>1. m \in NodeType /\ m.state = n.state /\ m.key = n.key /\ m.hs = n.hs
  BY DEF Good, NodeType
<1> QED
  BY <1>1 DEF Good

----------------------------------------------------------------------------
(* Messages put together.                                                   *)

Fragment == [msg : Message, idx : Nat]

\* A context with parts replaced.
LEMMA RxFields ==
  ASSUME NEW hs \in LiveHs, NEW rx \in RxType
  PROVE  LET c == [hs EXCEPT !.rx = rx]
         IN /\ c \in LiveHs /\ c.staged = hs.staged /\ c.idle = hs.idle
            /\ c.age = hs.age /\ c.resuming = hs.resuming /\ c.rx = rx
            /\ c.owe_tx = hs.owe_tx
BY DEF LiveHs

\* Fragments put together stay of one type (reassemble).
LEMMA ReassembleGood ==
  ASSUME NEW d \in Nat, NEW rx \in RxType, RxGood(rx, d),
         NEW f \in Fragment, f.msg.key <= d
  PROVE  /\ Reassemble(rx, f) \in RxType
         /\ RxGood(Reassemble(rx, f), d)
         /\ Reassemble(rx, f).type = f.msg.type
         /\ f.idx \in DOMAIN Reassemble(rx, f).parts
         /\ Reassemble(rx, f).parts[f.idx] = f.msg
<1> DEFINE kept == IF rx.type # f.msg.type \/ f.idx = 0 THEN <<>> ELSE rx.parts
           parts == [i \in DOMAIN kept \cup {f.idx} |-> IF i = f.idx THEN f.msg ELSE kept[i]]
<1>1. f.msg \in Message /\ f.idx \in Nat
  BY DEF Fragment
<1>2. f.msg.type \in Types
  BY <1>1 DEF Message
<1>3. rx.parts \in PartSets
  BY DEF RxType
<1>4. /\ kept \in PartSets
      /\ \A i \in DOMAIN kept : kept[i].type = f.msg.type /\ kept[i].key <= d
  <2>1. CASE rx.type # f.msg.type \/ f.idx = 0
    <3>1. kept = <<>> /\ <<>> \in [{} -> Message] /\ DOMAIN <<>> = {}
      BY <2>1
    <3> HIDE DEF kept
    <3> QED
      BY <3>1 DEF PartSets
  <2>2. CASE ~(rx.type # f.msg.type \/ f.idx = 0)
    BY <1>3, <2>2 DEF RxGood
  <2> QED
    BY <2>1, <2>2
<1> HIDE DEF kept
<1>5. PICK D \in SUBSET Nat : kept \in [D -> Message]
  BY <1>4 DEF PartSets
<1>6. DOMAIN kept = D
  BY <1>5
<1>7. parts \in [D \cup {f.idx} -> Message] /\ parts[f.idx] = f.msg
  BY <1>1, <1>5, <1>6
<1>8. parts \in PartSets
  <2>1. D \cup {f.idx} \in SUBSET Nat
    BY <1>1
  <2> HIDE DEF parts
  <2> QED
    BY <1>7, <2>1 DEF PartSets
<1>9. \A i \in DOMAIN parts : parts[i].type = f.msg.type /\ parts[i].key <= d
  BY <1>4, <1>6
<1>10. Reassemble(rx, f) = [type |-> f.msg.type, parts |-> parts]
  BY DEF Reassemble, kept, parts
<1> HIDE DEF parts
<1>11. f.idx \in DOMAIN parts
  BY <1>7
<1> QED
  BY <1>2, <1>7, <1>8, <1>9, <1>10, <1>11 DEF RxType, RxGood

\* What the handler of a complete message leaves; only the link parameters
\* bring the link up, under the key the end already has.
LEMMA HandleGood ==
  ASSUME NEW e \in Ends, derived \in Nat, attempts \in Nat, NEW g \in Nat,
         NEW n, Good(e, n, derived, g), n.hs.live,
         NEW rx \in RxType, RxGood(rx, derived), rx.type \in Says(Other(e)), Complete(rx),
         NEW d \in {derived, derived + 1},
         rx.type = "JOIN_REQ" \/ (rx.type = "RESUME_REQ" /\ n.has_ltk) => d = derived + 1
  PROVE  /\ Good(e, Handle(n, rx), d, g)
         /\ Handle(n, rx).state = "LINKED" =>
              rx.type \in Parameters /\ Handle(n, rx).key = n.key
<1> DEFINE msg == rx.parts[0]
<1>1. d \in Nat /\ derived <= d /\ g <= g
  OBVIOUS
<1>2. Good(e, n, d, g)
  BY <1>1, GoodLater
<1>3. n \in NodeType /\ n.key \in Nat /\ n.key <= d /\ n.has_ltk \in BOOLEAN
  BY <1>2 DEF Good, NodeType
<1>4. msg \in Message /\ msg.key <= d
  <2>1. 0 \in DOMAIN rx.parts
    <3>1. Frags(rx.type) \in Nat \ {0}
      BY HandshakeAssumption DEF Frags
    <3> QED
      BY <3>1 DEF Complete
  <2>2. PICK D \in SUBSET Nat : rx.parts \in [D -> Message]
    BY DEF RxType, PartSets
  <2>3. msg \in Message /\ msg.key <= derived
    BY <2>1, <2>2 DEF RxGood
  <2> QED
    BY <1>1, <2>3 DEF Message
<1>5. msg.key \in Nat /\ msg.attempt \in Nat
  BY <1>4 DEF Message
<1>6. CASE rx.type = "JOIN_REQ"
  <2>1. e = Router /\ d = derived + 1
    BY <1>6 DEF Says, Other, Joiner, Router, Ends
  <2>2. "JOIN_RSP" \in Types /\ "JOIN_RSP" \in Says(e)
    BY <2>1 DEF Types, Says, Joiner, Router
  <2> DEFINE a == Answer(n, derived + 1, "JOIN_RSP", msg.attempt)
  <2>3. Good(e, a, d, g) /\ a.state = "JOINING"
    BY <1>1, <1>2, <1>5, <2>1, <2>2, AnswerGood
  <2>4. Handle(n, rx) = [a EXCEPT !.has_ltk = TRUE]
    BY <1>6 DEF Handle, Parameters
  <2> HIDE DEF a
  <2> QED
    BY <1>1, <2>3, <2>4, LtkGood
<1>7. CASE rx.type = "JOIN_RSP"
  <2>1. e = Joiner
    BY <1>7 DEF Says, Other, Joiner, Router, Ends
  <2>2. "JOIN_CFM" \in Types /\ "JOIN_CFM" \in Says(e)
    BY <2>1 DEF Types, Secured, Says
  <2>3. CASE Whole(rx) /\ msg.attempt = attempts
    <3> DEFINE a == Answer(n, msg.key, "JOIN_CFM", attempts)
    <3>1. Good(e, a, d, g) /\ a.state = "JOINING"
      BY <1>1, <1>2, <1>4, <1>5, <2>2, AnswerGood
    <3>2. Handle(n, rx) = [a EXCEPT !.has_ltk = TRUE]
      BY <1>7, <2>3 DEF Handle, Parameters
    <3> HIDE DEF a
    <3> QED
      BY <1>1, <3>1, <3>2, LtkGood
  <2>4. CASE ~(Whole(rx) /\ msg.attempt = attempts)
    <3>1. Handle(n, rx) = Fail(n)
      BY <1>7, <2>4 DEF Handle, Parameters
    <3> QED
      BY <1>1, <1>3, <3>1, FailGood
  <2> QED
    BY <2>3, <2>4
<1>8. CASE rx.type = "JOIN_CFM"
  <2>1. e = Router
    BY <1>8 DEF Says, Other, Joiner, Router, Ends
  <2>2. "JOIN_ACK" \in Types /\ "JOIN_ACK" \in Says(e)
    BY <2>1 DEF Types, Secured, Parameters, Says, Joiner, Router
  <2>3. Handle(n, rx) = Answer(n, n.key, "JOIN_ACK", msg.attempt)
    BY <1>8 DEF Handle, Parameters
  <2>4. Good(e, Handle(n, rx), d, g) /\ Handle(n, rx).state = "JOINING"
    BY <1>1, <1>2, <1>3, <1>5, <2>2, <2>3, AnswerGood
  <2> QED
    BY <2>4
<1>9. CASE rx.type = "RESUME_REQ"
  <2>1. e = Router
    BY <1>9 DEF Says, Other, Joiner, Router, Ends
  <2>2. "RESUME_RSP" \in Types /\ "RESUME_RSP" \in Says(e)
    BY <2>1 DEF Types, Secured, Parameters, Says, Joiner, Router
  <2>3. CASE n.has_ltk
    <3>1. Handle(n, rx) = Answer(n, derived + 1, "RESUME_RSP", msg.attempt)
      BY <1>9, <2>3 DEF Handle, Parameters
    <3>2. Good(e, Handle(n, rx), d, g) /\ Handle(n, rx).state = "JOINING"
      BY <1>1, <1>2, <1>5, <1>9, <2>2, <2>3, <3>1, AnswerGood
    <3> QED
      BY <3>2
  <2>4. CASE ~n.has_ltk
    <3>1. Handle(n, rx) = Fail(n)
      BY <1>9, <2>4 DEF Handle, Parameters
    <3> QED
      BY <1>1, <1>3, <3>1, FailGood
  <2> QED
    BY <2>3, <2>4
<1>10. CASE rx.type \in Parameters
  <2>1. Handle(n, rx) = Establish(n)
    BY <1>10 DEF Handle, Parameters
  <2> QED
    BY <1>1, <1>3, <1>10, <2>1, EstablishGood
<1>11. \/ rx.type = "JOIN_REQ" \/ rx.type = "JOIN_RSP" \/ rx.type = "JOIN_CFM"
       \/ rx.type = "RESUME_REQ" \/ rx.type \in Parameters
  BY DEF Says, Parameters
<1> QED
  BY <1>6, <1>7, <1>8, <1>9, <1>10, <1>11

\* A request opens a handshake where there is none.
LEMMA OpenedGood ==
  ASSUME NEW e \in Ends, NEW d \in Nat, NEW g \in Nat, NEW n, Good(e, n, d, g),
         NEW f \in Fragment
  PROVE  LET m == Opened(n, f)
         IN /\ Good(e, m, d, g) /\ m.has_ltk = n.has_ltk /\ m.key = n.key
            /\ m = n \/ (f.msg.type \in Requests /\ m.hs.live)
<1> DEFINE m == Opened(n, f)
           hs == NewHs(f.msg.type = "RESUME_REQ", f.idx)
<1>1. n \in NodeType
  BY DEF Good
<1>2. CASE ~n.hs.live /\ f.msg.type \in Requests
  <2>1. m = [n EXCEPT !.hs = hs, !.state = "JOINING"]
    BY <1>2 DEF Opened
  <2>2. (f.msg.type = "RESUME_REQ") \in BOOLEAN /\ f.idx \in Nat
    BY DEF Fragment
  <2>3. /\ hs \in LiveHs /\ hs.age = 0 /\ hs.idle = 0 /\ hs.staged = {}
        /\ hs.owe_tx = FALSE /\ hs.rx.parts = <<>>
    BY <2>2, NewHsFields
  <2> HIDE DEF hs, m
  <2>4. /\ m \in NodeType /\ m.hs = hs /\ m.state = "JOINING"
        /\ m.key = n.key /\ m.has_ltk = n.has_ltk
    BY <1>1, <2>1, <2>3 DEF NodeType, States
  <2>5. hs.live /\ IdleMax(hs) \in Nat \ {0} /\ SlotMax(hs) \in Nat \ {0}
    BY <2>3, LiveFields
  <2>6. HsGood(e, hs, n.key, d, g)
    <3>1. DOMAIN hs.rx.parts = {}
      BY <2>3
    <3>2. RxGood(hs.rx, d) /\ StagedGood(e, hs.staged, n.key, d)
      BY <2>3, <3>1 DEF RxGood, StagedGood
    <3>3. hs.idle < IdleMax(hs) /\ hs.age < SlotMax(hs) + g
      BY <2>3, <2>5
    <3> QED
      BY <2>3, <3>2, <3>3 DEF HsGood
  <2>7. Good(e, m, d, g)
    BY <2>4, <2>5, <2>6 DEF Good
  <2> QED
    BY <1>2, <2>4, <2>5, <2>7 DEF m
<1>3. CASE ~(~n.hs.live /\ f.msg.type \in Requests)
  BY <1>3 DEF Opened
<1> QED
  BY <1>2, <1>3

\* What a fragment leaves (lg_join_rx_pdu): the end is linked only by link
\* parameters sealed with the key it has.
LEMMA DispatchGood ==
  ASSUME NEW e \in Ends, derived \in Nat, attempts \in Nat, NEW g \in Nat,
         NEW n, Good(e, n, derived, g),
         NEW f \in Fragment, f.msg.key <= derived, f.msg.type \in Says(Other(e)),
         NEW d, d = IF Derives(n, f) THEN derived + 1 ELSE derived
  PROVE  /\ Good(e, Dispatch(n, f), d, g)
         /\ Dispatch(n, f).state = "LINKED" =>
              \/ Dispatch(n, f) = n
              \/ /\ f.msg.type \in Parameters /\ n.key = f.msg.key
                 /\ Dispatch(n, f).key = n.key
<1> DEFINE m == Opened(n, f)
           rx == Reassemble(m.hs.rx, f)
<1>1. /\ Good(e, m, derived, g) /\ m.has_ltk = n.has_ltk /\ m.key = n.key
      /\ m = n \/ (f.msg.type \in Requests /\ m.hs.live)
  BY OpenedGood
<1>2. d \in Nat /\ derived <= d /\ g <= g /\ d \in {derived, derived + 1}
  OBVIOUS
<1>3. Good(e, m, d, g)
  <2> HIDE DEF m
  <2> QED
    BY <1>1, <1>2, GoodLater
<1>4. m \in NodeType /\ (m.hs.live <=> m.state = "JOINING")
  <2> HIDE DEF m
  <2> QED
    BY <1>1 DEF Good
<1>5. CASE ~m.hs.live \/ ~Readable(m, f.msg)
  <2>1. Dispatch(n, f) = m
    BY <1>5 DEF Dispatch
  <2>2. m.state = "LINKED" => m = n
    <3> HIDE DEF m
    <3> QED
      BY <1>1, <1>4
  <2> QED
    BY <1>3, <2>1, <2>2
<1>6. CASE m.hs.live /\ Readable(m, f.msg)
  <2>1. HsGood(e, m.hs, m.key, derived, g) /\ m.hs \in LiveHs /\ m.state = "JOINING"
    <3> HIDE DEF m
    <3> QED
      BY <1>1, <1>6 DEF Good, HsGood
  <2>2. m.hs.rx \in RxType /\ RxGood(m.hs.rx, derived)
    <3> HIDE DEF m
    <3> QED
      BY <2>1, LiveFields DEF HsGood
  <2>3. rx \in RxType /\ RxGood(rx, derived) /\ rx.type = f.msg.type
    <3> HIDE DEF m
    <3> QED
      BY <2>2, ReassembleGood
  <2>4. CASE Complete(rx)
    <3>1. Dispatch(n, f) = Handle(m, rx)
      BY <1>6, <2>4 DEF Dispatch
    <3>2. rx.type = "JOIN_REQ" \/ (rx.type = "RESUME_REQ" /\ m.has_ltk) => d = derived + 1
      BY <1>1, <2>3, <2>4 DEF Derives
    <3> HIDE DEF m, rx
    <3>3. rx.type \in Says(Other(e))
      BY <2>3
    <3>4. /\ Good(e, Handle(m, rx), d, g)
          /\ Handle(m, rx).state = "LINKED" =>
               rx.type \in Parameters /\ Handle(m, rx).key = m.key
      BY <1>1, <1>2, <1>6, <2>3, <2>4, <3>2, <3>3, HandleGood
    <3>5. rx.type \in Parameters => m.key = f.msg.key
      BY <1>6, <2>3 DEF Readable, Secured
    <3> QED
      BY <1>1, <2>3, <3>1, <3>4, <3>5
  <2>5. CASE ~Complete(rx)
    <3> DEFINE c == [m.hs EXCEPT !.rx = rx]
               r == [m EXCEPT !.hs = c]
    <3>1. Dispatch(n, f) = r
      BY <1>6, <2>5 DEF Dispatch
    <3> HIDE DEF m, rx
    <3>2. /\ c \in LiveHs /\ c.staged = m.hs.staged /\ c.idle = m.hs.idle
          /\ c.age = m.hs.age /\ c.resuming = m.hs.resuming /\ c.rx = rx
          /\ c.owe_tx = m.hs.owe_tx
      BY <2>1, <2>3, RxFields
    <3>3. HsGood(e, c, m.key, derived, g)
      BY <2>1, <2>3, <3>2 DEF HsGood, IdleMax, SlotMax
    <3> HIDE DEF c
    <3>4. r \in NodeType /\ r.hs = c /\ r.key = m.key /\ r.state = "JOINING"
      BY <1>4, <2>1, <3>2 DEF NodeType
    <3>5. c.live /\ m.key <= derived
      BY <1>1, <3>2, LiveFields DEF Good
    <3> HIDE DEF r
    <3>6. Good(e, r, derived, g)
      BY <3>3, <3>4, <3>5 DEF Good
    <3>7. Good(e, r, d, g)
      BY <1>2, <3>6, GoodLater
    <3> QED
      BY <3>1, <3>4, <3>7
  <2> QED
    BY <2>4, <2>5
<1> QED
  BY <1>5, <1>6

\* A settled slot leaves a handshake within its limits (lg_join_event_finish);
\* only a router that sent the link parameters, or tried to, is linked by it.
LEMMA FinishGood ==
  ASSUME NEW e \in Ends, NEW d \in Nat, NEW g \in Nat, NEW n, Good(e, n, d, g)
  PROVE  LET m == Finish(e, n)
         IN /\ Good(e, m, d, 0)
            /\ m.hs.live => n.hs.live
            /\ m.state = "LINKED" => m = n \/ (e = Router /\ n.hs.live)
            /\ n.hs.live /\ SentParameters(e, n.hs) => m.state = "LINKED" /\ m.key = n.key
<1> DEFINE m == Finish(e, n)
<1>1. n \in NodeType /\ n.key <= d /\ n.key \in Nat /\ n.hs.live \in BOOLEAN
  BY LiveCases DEF Good, NodeType
<1>2. CASE ~n.hs.live
  <2>1. m = n
    BY <1>2 DEF Finish
  <2>2. n.hs = NoHs /\ n.state # "JOINING"
    BY <1>1, <1>2, LiveCases DEF Good
  <2>3. Good(e, n, d, 0)
    BY <1>1, <2>2, IdleGood
  <2> QED
    BY <1>2, <2>1, <2>3
<1>3. CASE n.hs.live /\ SentParameters(e, n.hs)
  <2>1. m = Establish(n) /\ e = Router
    BY <1>3 DEF Finish, SentParameters
  <2>2. Good(e, m, d, 0) /\ ~m.hs.live /\ m.state = "LINKED" /\ m.key = n.key
    BY <1>1, <2>1, EstablishGood
  <2> QED
    BY <1>3, <2>1, <2>2
<1>4. CASE n.hs.live /\ ~SentParameters(e, n.hs) /\ Spent(n.hs)
  <2>1. m = Fail(n)
    BY <1>4 DEF Finish
  <2>2. Good(e, m, d, 0) /\ ~m.hs.live /\ m.state # "LINKED"
    BY <1>1, <2>1, FailGood
  <2> QED
    BY <1>4, <2>2
<1>5. CASE n.hs.live /\ ~SentParameters(e, n.hs) /\ ~Spent(n.hs)
  <2> DEFINE owe == Debt(n.hs)
             idle == Idle(n.hs)
             c == [n.hs EXCEPT !.owe_tx = owe, !.idle = idle,
                               !.slot_refused = FALSE, !.progressed = FALSE]
             r == [n EXCEPT !.hs = c]
  <2>1. m = r
    BY <1>5 DEF Finish
  <2>2. HsGood(e, n.hs, n.key, d, g) /\ n.hs \in LiveHs /\ n.state = "JOINING"
    BY <1>5 DEF Good, HsGood
  <2>3. owe \in BOOLEAN /\ (owe => n.hs.staged # {})
    BY <2>2, LiveFields DEF Debt, HsGood
  <2>4. idle \in Nat
    <3>1. n.hs.idle \in Nat
      BY <2>2, LiveFields
    <3> QED
      BY <3>1 DEF Idle
  <2>5. idle < IdleMax(n.hs) /\ n.hs.age + 1 < SlotMax(n.hs)
    <3>1. IdleMax(n.hs) \in Nat /\ SlotMax(n.hs) \in Nat /\ n.hs.age \in Nat
      BY <2>2, LiveFields
    <3>2. ~(idle >= IdleMax(n.hs)) /\ ~(n.hs.age + 1 >= SlotMax(n.hs))
      BY <1>5 DEF Spent, IdleMax, SlotMax
    <3> HIDE DEF idle
    <3> QED
      BY <2>4, <3>1, <3>2
  <2> HIDE DEF owe, idle
  <2>6. /\ c \in LiveHs /\ c.staged = n.hs.staged /\ c.idle = idle /\ c.owe_tx = owe
        /\ c.age = n.hs.age /\ c.resuming = n.hs.resuming /\ c.rx = n.hs.rx
    BY <2>2, <2>3, <2>4 DEF LiveHs
  <2> HIDE DEF c
  <2>7. HsGood(e, c, n.key, d, 0)
    <3>1. c.age < SlotMax(c) + 0
      <4>1. SlotMax(c) = SlotMax(n.hs) /\ SlotMax(n.hs) \in Nat /\ n.hs.age \in Nat
        BY <2>2, <2>6, LiveFields DEF SlotMax
      <4> QED
        BY <2>5, <2>6, <4>1
    <3>2. c.idle < IdleMax(c)
      BY <2>5, <2>6 DEF IdleMax
    <3> QED
      BY <2>2, <2>3, <2>6, <3>1, <3>2 DEF HsGood
  <2>8. r \in NodeType /\ r.hs = c /\ r.key = n.key /\ r.state = "JOINING"
    BY <1>1, <2>2, <2>6 DEF NodeType
  <2>9. c.live
    BY <2>6, LiveFields
  <2> HIDE DEF r
  <2>10. Good(e, r, d, 0)
    BY <1>1, <2>7, <2>8, <2>9 DEF Good
  <2> QED
    BY <1>5, <2>1, <2>8, <2>10
<1> QED
  BY <1>1, <1>2, <1>3, <1>4, <1>5

----------------------------------------------------------------------------
(* The inductive invariant.                                                 *)

\* Slots end e may yet be late: one more while it has not had this one.
Slack(e) == IF sub[e] = "done" THEN drops ELSE drops + 1

Typed ==
  /\ node \in [Ends -> NodeType]
  /\ sub \in [Ends -> {"wait", "listen", "done"}]
  /\ air \in [Ends -> Seq(Fragment)]
  /\ derived \in Nat

Counted ==
  /\ attempts \in 0..MaxAttempts
  /\ losses \in 0..MaxLosses
  /\ drops \in 0..MaxDrops
  /\ outages \in 0..MaxOutages

\* Fragments q on their way to end e are the other end's.
Heard(e, q, d) ==
  \A i \in DOMAIN q : q[i].msg.type \in Says(Other(e)) /\ q[i].msg.key <= d

\* Link parameters in q are the router's, which is linked under their key.
From(q) ==
  \A i \in DOMAIN q :
    q[i].msg.type \in Parameters =>
      Linked(Router) /\ sub[Router] = "done" /\ q[i].msg.key = node[Router].key

\* A linked joiner has an idle router, which has its key if it is linked.
Alone ==
  Linked(Joiner) =>
    /\ ~node[Router].hs.live /\ air[Router] = <<>>
    /\ Linked(Router) => node[Joiner].key = node[Router].key

Safe ==
  /\ Typed
  /\ \A e \in Ends : Good(e, node[e], derived, Slack(e)) /\ Heard(e, air[e], derived)
  /\ From(air[Joiner])
  /\ air[Router] # <<>> => sub[Joiner] = "done"
  /\ Alone

IInv == Counted /\ missed \in BOOLEAN /\ Safe

\* The two ends.
LEMMA TwoEnds ==
  /\ Joiner \in Ends /\ Router \in Ends /\ Joiner # Router
  /\ \A e \in Ends : e = Joiner \/ e = Router
  /\ Other(Joiner) = Router /\ Other(Router) = Joiner
  /\ \A e \in Ends : Other(e) \in Ends /\ Other(e) # e
BY DEF Ends, Joiner, Router, Other

\* The rest of a queue is of the same kind.
LEMMA TailGood ==
  ASSUME NEW q \in Seq(Fragment), q # <<>>
  PROVE  /\ Head(q) \in Fragment /\ 1 \in DOMAIN q /\ Head(q) = q[1]
         /\ Tail(q) \in Seq(Fragment)
         /\ \A i \in DOMAIN Tail(q) : i + 1 \in DOMAIN q /\ Tail(q)[i] = q[i + 1]
OBVIOUS

\* The invariant holds at first.
LEMMA InitIInv == Init => IInv
<1> SUFFICES ASSUME Init PROVE IInv
  OBVIOUS
<1>1. Fresh \in NodeType /\ Fresh.key = 0 /\ Fresh.hs = NoHs /\ Fresh.state = "HEARD"
  BY DEF Fresh, NodeType, States, NoKey
<1>2. <<>> \in Seq(Fragment) /\ DOMAIN <<>> = {}
  OBVIOUS
<1>3. Typed
  <2>1. node \in [Ends -> NodeType]
    <3>1. node = [e \in Ends |-> Fresh] /\ Fresh \in NodeType
      BY <1>1 DEF Init
    <3> QED
      BY <3>1
  <2>2. air \in [Ends -> Seq(Fragment)] /\ sub \in [Ends -> {"wait", "listen", "done"}]
    BY <1>2 DEF Init
  <2>3. derived \in Nat
    BY DEF Init
  <2> QED
    BY <2>1, <2>2, <2>3 DEF Typed
<1>4. ASSUME NEW e \in Ends
      PROVE  Good(e, node[e], derived, Slack(e)) /\ Heard(e, air[e], derived)
  <2>1. Slack(e) \in Nat /\ node[e] = Fresh /\ derived = 0 /\ air[e] = <<>>
    BY DEF Init, Slack
  <2>2. Good(e, Fresh, 0, Slack(e))
    BY <1>1, <2>1, IdleGood
  <2> QED
    BY <1>2, <2>1, <2>2 DEF Heard
<1>5. /\ air[Joiner] = <<>> /\ air[Router] = <<>>
      /\ node[Joiner] = Fresh
  BY TwoEnds DEF Init
<1>6. ~Linked(Joiner)
  BY <1>1, <1>5 DEF Linked
<1>7. Counted
  <2>1. attempts = 0 /\ losses = 0 /\ drops = 0 /\ outages = 0
    BY DEF Init
  <2> QED
    BY <2>1, HandshakeAssumption DEF Counted
<1>8. missed \in BOOLEAN
  BY DEF Init
<1>9. Safe
  BY <1>2, <1>3, <1>4, <1>5, <1>6 DEF Safe, From, Alone
<1> QED
  BY <1>7, <1>8, <1>9 DEF IInv

----------------------------------------------------------------------------
(* The steps.                                                               *)

\* The counters keep to their bounds.
LEMMA CountsKept ==
  ASSUME Counted, [Next]_vars PROVE Counted'
<1>0. /\ MaxAttempts \in Nat /\ MaxLosses \in Nat /\ MaxDrops \in Nat /\ MaxOutages \in Nat
      /\ attempts \in Nat /\ losses \in Nat /\ drops \in Nat /\ outages \in Nat
  BY HandshakeAssumption DEF Counted
<1> USE <1>0 DEF Counted
<1>1. CASE Start
  BY <1>1 DEF Start
<1>2. CASE OpenWindow
  BY <1>2 DEF OpenWindow, counters
<1>3. CASE NextSlot
  BY <1>3 DEF NextSlot
<1>4. ASSUME NEW e \in Ends, Transmit(e) PROVE Counted'
  BY <1>4 DEF Transmit, counters
<1>5. ASSUME NEW e \in Ends, Listen(e) PROVE Counted'
  BY <1>5 DEF Listen, counters
<1>6. ASSUME NEW e \in Ends, Hear(e) PROVE Counted'
  BY <1>6 DEF Hear
<1>7. ASSUME NEW e \in Ends, Close(e) PROVE Counted'
  BY <1>7 DEF Close, counters
<1>8. ASSUME NEW e \in Ends, Miss(e) PROVE Counted'
  BY <1>8 DEF Miss
<1>9. ASSUME NEW e \in Ends, Refused(e) PROVE Counted'
  BY <1>9 DEF Refused
<1>10. ASSUME NEW e \in Ends, Late(e) PROVE Counted'
  BY <1>10 DEF Late
<1>11. ASSUME NEW e \in Ends, Displaced(e) PROVE Counted'
  BY <1>11 DEF Displaced
<1>12. ASSUME NEW e \in Ends, LinkDown(e) PROVE Counted'
  BY <1>12 DEF LinkDown
<1>13. CASE UNCHANGED vars
  BY <1>13 DEF vars
<1> QED
  BY <1>1, <1>2, <1>3, <1>4, <1>5, <1>6, <1>7, <1>8, <1>9, <1>10, <1>11, <1>12, <1>13
  DEF Next, Slot, Trouble

\* A flag stays one.
LEMMA MissedKept ==
  ASSUME missed \in BOOLEAN, [Next]_vars PROVE missed' \in BOOLEAN
<1>1. CASE NextSlot
  BY <1>1 DEF NextSlot
<1>2. ASSUME [Next]_vars, ~NextSlot PROVE missed' = missed
  BY <1>2
  DEF Next, Slot, Trouble, vars, counters, Start, OpenWindow, Transmit, Listen, Hear, Close,
      Miss, Refused, Late, Displaced, LinkDown
<1> QED
  BY <1>1, <1>2

\* What an end's own slot may do to the rest: its record changes, keeping its
\* key if it is linked, and nothing goes on air.
LEMMA SlotKeepsSafe ==
  ASSUME Safe, Counted, NEW e \in Ends, sub[e] # "done",
         NEW n, NEW how \in {"listen", "done"}, NEW dr \in {drops, drops + 1}, drops' = dr,
         Put(e, n), Mark(e, how), air' = air, derived' = derived,
         Good(e, n, derived, IF how = "done" THEN dr ELSE dr + 1),
         n.hs.live => node[e].hs.live,
         n.state = "LINKED" => n = node[e] \/ (e = Router /\ node[e].hs.live)
  PROVE  Safe'
<1>1. Typed /\ derived \in Nat /\ drops \in Nat /\ dr \in Nat
  BY HandshakeAssumption DEF Safe, Typed, Counted
<1>2. n \in NodeType
  BY DEF Good
<1>3. /\ node'[e] = n /\ \A o \in Ends : o # e => node'[o] = node[o]
      /\ sub'[e] = how /\ \A o \in Ends : o # e => sub'[o] = sub[o]
  BY <1>1 DEF Put, Mark, Typed
<1>4. Typed'
  BY <1>1, <1>2 DEF Put, Mark, Typed
<1>5. ASSUME NEW o \in Ends
      PROVE  (Good(o, node[o], derived, Slack(o)) /\ Heard(o, air[o], derived))'
  <2>1. Good(o, node[o], derived, Slack(o)) /\ Heard(o, air[o], derived)
    BY DEF Safe
  <2>2. CASE o = e
    <3>1. Slack(o)' = IF how = "done" THEN dr ELSE dr + 1
      BY <1>3, <2>2 DEF Slack
    <3> QED
      BY <1>3, <2>1, <2>2, <3>1
  <2>3. CASE o # e
    <3>1. Slack(o) \in Nat /\ Slack(o)' \in Nat /\ Slack(o) <= Slack(o)'
      BY <1>1, <1>3, <2>3 DEF Slack
    <3>2. Good(o, node[o], derived, Slack(o)')
      BY <1>1, <2>1, <3>1, GoodLater
    <3> QED
      BY <1>3, <2>1, <2>3, <3>2
  <2> QED
    BY <2>2, <2>3
<1>6. From(air[Joiner])'
  <2> SUFFICES ASSUME NEW i \in DOMAIN air[Joiner], air[Joiner][i].msg.type \in Parameters
               PROVE  /\ node'[Router].state = "LINKED" /\ sub'[Router] = "done"
                      /\ air[Joiner][i].msg.key = node'[Router].key
    BY DEF From, Linked
  <2>1. /\ node[Router].state = "LINKED" /\ sub[Router] = "done"
        /\ air[Joiner][i].msg.key = node[Router].key
    BY DEF Safe, From, Linked
  <2>2. e # Router
    BY <2>1
  <2> QED
    BY <1>3, <2>1, <2>2, TwoEnds
<1>7. (air[Router] # <<>> => sub[Joiner] = "done")'
  <2> SUFFICES ASSUME air[Router] # <<>> PROVE sub'[Joiner] = "done"
    OBVIOUS
  <2>1. sub[Joiner] = "done" /\ e # Joiner
    BY DEF Safe
  <2> QED
    BY <1>3, <2>1, TwoEnds
<1>8. Alone'
  <2> SUFFICES ASSUME node'[Joiner].state = "LINKED"
               PROVE  /\ ~node'[Router].hs.live /\ air[Router] = <<>>
                      /\ node'[Router].state = "LINKED" => node'[Joiner].key = node'[Router].key
    BY DEF Alone, Linked
  <2>1. node'[Joiner] = node[Joiner]
    BY <1>3, TwoEnds
  <2>2. /\ ~node[Router].hs.live /\ air[Router] = <<>>
        /\ node[Router].state = "LINKED" => node[Joiner].key = node[Router].key
    BY <2>1 DEF Safe, Alone, Linked
  <2>3. CASE e = Joiner
    BY <1>3, <2>1, <2>2, <2>3, TwoEnds
  <2>4. CASE e = Router
    BY <1>3, <2>1, <2>2, <2>4
  <2> QED
    BY <2>3, <2>4, TwoEnds
<1> QED
  BY <1>4, <1>5, <1>6, <1>7, <1>8 DEF Safe

\* A handshake is as good with another context that agrees in what matters.
LEMMA SwapGood ==
  ASSUME NEW e, NEW d \in Nat, NEW g \in Nat, NEW n, Good(e, n, d, g), n.hs.live,
         NEW c \in LiveHs, c.staged = n.hs.staged, c.idle = n.hs.idle,
         c.owe_tx = n.hs.owe_tx, c.age = n.hs.age, c.resuming = n.hs.resuming, c.rx = n.hs.rx
  PROVE  LET m == [n EXCEPT !.hs = c]
         IN Good(e, m, d, g) /\ m.state = n.state /\ m.key = n.key /\ m.hs = c /\ m.hs.live
<1> DEFINE m == [n EXCEPT !.hs = c]
<1>1. HsGood(e, n.hs, n.key, d, g) /\ n.hs \in LiveHs /\ n.state = "JOINING" /\ n \in NodeType
  BY DEF Good, HsGood
<1>2. HsGood(e, c, n.key, d, g)
  BY <1>1 DEF HsGood, IdleMax, SlotMax
<1>3. m \in NodeType /\ m.hs = c /\ m.key = n.key /\ m.state = n.state
  BY <1>1 DEF NodeType
<1>4. c.live
  BY LiveFields
<1> HIDE DEF m
<1>5. Good(e, m, d, g)
  BY <1>1, <1>2, <1>3, <1>4 DEF Good
<1> QED
  BY <1>3, <1>4, <1>5 DEF m

\* What the invariant says of one end.
LEMMA EndFacts ==
  ASSUME Safe, Counted, NEW e \in Ends
  PROVE  /\ node[e] \in NodeType /\ derived \in Nat /\ drops \in Nat /\ attempts \in Nat
         /\ Slack(e) \in Nat
         /\ sub[e] # "done" => Slack(e) = drops + 1
         /\ sub[e] = "done" => Slack(e) = drops
         /\ Good(e, node[e], derived, Slack(e)) /\ Heard(e, air[e], derived)
         /\ node[e].key \in Nat /\ air[e] \in Seq(Fragment)
<1>1. Typed /\ derived \in Nat /\ drops \in Nat /\ attempts \in Nat
  BY HandshakeAssumption DEF Safe, Typed, Counted
<1>2. Slack(e) \in Nat /\ (sub[e] # "done" => Slack(e) = drops + 1)
      /\ (sub[e] = "done" => Slack(e) = drops)
  BY <1>1 DEF Slack
<1>3. node[e] \in NodeType /\ air[e] \in Seq(Fragment)
  BY <1>1 DEF Typed
<1>4. node[e].key \in Nat
  BY <1>3 DEF NodeType
<1> QED
  BY <1>1, <1>2, <1>3, <1>4 DEF Safe

\* A slot in which the end listens (join_rx_start).
LEMMA ListenSafe ==
  ASSUME Safe, Counted, NEW e \in Ends, Listen(e) PROVE Safe'
<1> DEFINE n == node[e]
           c == [n.hs EXCEPT !.was_tx = FALSE]
           m == [n EXCEPT !.hs = c]
<1>1. /\ sub[e] = "wait" /\ n.hs.live /\ Put(e, m) /\ Mark(e, "listen")
      /\ air' = air /\ derived' = derived /\ drops' = drops
  BY DEF Listen, Due, counters
<1>2. /\ n \in NodeType /\ derived \in Nat /\ drops \in Nat
      /\ Good(e, n, derived, drops + 1)
  BY <1>1, EndFacts
<1>3. n.hs \in LiveHs
  BY <1>1, <1>2, LiveCases
<1> HIDE DEF n
<1>4. /\ c \in LiveHs /\ c.staged = n.hs.staged /\ c.idle = n.hs.idle
      /\ c.owe_tx = n.hs.owe_tx /\ c.age = n.hs.age /\ c.resuming = n.hs.resuming
      /\ c.rx = n.hs.rx
  BY <1>3 DEF LiveHs
<1> HIDE DEF c
<1>5. drops + 1 \in Nat /\ n.state # "LINKED"
  BY <1>1, <1>2 DEF Good
<1>6. Good(e, m, derived, drops + 1) /\ m.state # "LINKED"
  BY <1>1, <1>2, <1>4, <1>5, SwapGood
<1> HIDE DEF m
<1> QED
  BY <1>1, <1>6, SlotKeepsSafe DEF n

\* A settled slot in which nothing was sent.
LEMMA SettledSafe ==
  ASSUME Safe, Counted, NEW e \in Ends, sub[e] # "done",
         NEW n, Good(e, n, derived, drops + 1), n.hs.live <=> node[e].hs.live,
         n = node[e] \/ n.state # "LINKED",
         NEW dr \in {drops, drops + 1}, drops' = dr,
         Put(e, Finish(e, n)), Mark(e, "done"), air' = air, derived' = derived
  PROVE  Safe'
<1> DEFINE m == Finish(e, n)
<1>1. derived \in Nat /\ drops + 1 \in Nat /\ dr \in Nat /\ 0 \in Nat /\ 0 <= dr
  BY EndFacts
<1>2. /\ Good(e, m, derived, 0)
      /\ m.hs.live => n.hs.live
      /\ m.state = "LINKED" => m = n \/ (e = Router /\ n.hs.live)
  BY <1>1, FinishGood
<1> HIDE DEF m
<1>3. Good(e, m, derived, dr)
  BY <1>1, <1>2, GoodLater
<1>4. /\ m.hs.live => node[e].hs.live
      /\ m.state = "LINKED" => m = node[e] \/ (e = Router /\ node[e].hs.live)
  BY <1>2
<1>5. Put(e, m)
  BY DEF m
<1> QED
  BY <1>3, <1>4, <1>5, SlotKeepsSafe

\* The receive window closes.
LEMMA CloseSafe ==
  ASSUME Safe, Counted, NEW e \in Ends, Close(e) PROVE Safe'
<1>1. /\ sub[e] = "listen" /\ Mark(e, "done")
      /\ air' = air /\ derived' = derived /\ drops' = drops
  BY DEF Close, counters
<1>2. /\ node[e] \in NodeType /\ derived \in Nat /\ drops \in Nat
      /\ Good(e, node[e], derived, drops + 1)
  BY <1>1, EndFacts
<1>3. CASE Put(e, Finish(e, node[e]))
  BY <1>1, <1>2, <1>3, SettledSafe
<1>4. CASE node[e].hs.live /\ node[e].hs.age = 0 /\ UNCHANGED node
  <2> DEFINE n == node[e]
  <2>1. n.hs \in LiveHs
    BY <1>2, <1>4, LiveCases
  <2>2. SlotMax(n.hs) \in Nat \ {0}
    BY <2>1, LiveFields
  <2>3. n.hs.age < SlotMax(n.hs) + drops
    BY <1>2, <1>4, <2>2
  <2>4. Good(e, n, derived, drops)
    BY <1>2, <1>4, <2>3 DEF Good, HsGood
  <2>5. Put(e, n)
    BY <1>4 DEF Put, Safe, Typed
  <2> QED
    BY <1>1, <2>4, <2>5, SlotKeepsSafe
<1> QED
  BY <1>3, <1>4 DEF Close

\* The arbiter refuses the slot (join_aborted).
LEMMA RefusedSafe ==
  ASSUME Safe, Counted, NEW e \in Ends, Refused(e) PROVE Safe'
<1> DEFINE n == node[e]
           c == [n.hs EXCEPT !.was_tx = FALSE, !.progressed = FALSE, !.slot_refused = TRUE]
           m == [n EXCEPT !.hs = c]
<1>1. /\ sub[e] = "wait" /\ n.hs.live /\ Put(e, Finish(e, m)) /\ Mark(e, "done")
      /\ air' = air /\ derived' = derived /\ drops' = drops + 1
  BY DEF Refused, Due
<1>2. /\ n \in NodeType /\ derived \in Nat /\ drops \in Nat
      /\ Good(e, n, derived, drops + 1)
  BY <1>1, EndFacts
<1>3. n.hs \in LiveHs
  BY <1>1, <1>2, LiveCases
<1> HIDE DEF n
<1>4. /\ c \in LiveHs /\ c.staged = n.hs.staged /\ c.idle = n.hs.idle
      /\ c.owe_tx = n.hs.owe_tx /\ c.age = n.hs.age /\ c.resuming = n.hs.resuming
      /\ c.rx = n.hs.rx
  BY <1>3 DEF LiveHs
<1> HIDE DEF c
<1>5. drops + 1 \in Nat /\ n.state # "LINKED"
  BY <1>1, <1>2 DEF Good
<1>6. Good(e, m, derived, drops + 1) /\ m.state # "LINKED" /\ m.hs.live
  BY <1>1, <1>2, <1>4, <1>5, SwapGood
<1> HIDE DEF m
<1> QED
  BY <1>1, <1>6, SettledSafe DEF n

\* The slot's event is planned too late (sched_pick).
LEMMA LateSafe ==
  ASSUME Safe, Counted, NEW e \in Ends, Late(e) PROVE Safe'
<1>1. /\ sub[e] = "wait" /\ Put(e, Finish(e, node[e])) /\ Mark(e, "done")
      /\ air' = air /\ derived' = derived /\ drops' = drops + 1
  BY DEF Late, Due
<1>2. Good(e, node[e], derived, drops + 1)
  BY <1>1, EndFacts
<1> QED
  BY <1>1, <1>2, SettledSafe

\* The slot goes by.
LEMMA DisplacedSafe ==
  ASSUME Safe, Counted, NEW e \in Ends, Displaced(e) PROVE Safe'
<1>1. /\ sub[e] = "wait" /\ node' = node /\ Mark(e, "done")
      /\ air' = air /\ derived' = derived /\ drops' = drops + 1
  BY DEF Displaced, Due
<1>2. Good(e, node[e], derived, drops + 1)
  BY <1>1, EndFacts
<1>3. Put(e, node[e])
  BY <1>1 DEF Put, Safe, Typed
<1> QED
  BY <1>1, <1>2, <1>3, SlotKeepsSafe

\* A router that has no handshake listens.
LEMMA OpenWindowSafe ==
  ASSUME Safe, Counted, OpenWindow PROVE Safe'
<1>1. /\ sub[Router] = "wait" /\ node' = node /\ Mark(Router, "listen")
      /\ air' = air /\ derived' = derived /\ drops' = drops
  BY DEF OpenWindow, counters
<1>2. Good(Router, node[Router], derived, drops + 1)
  BY <1>1, EndFacts, TwoEnds
<1>3. Put(Router, node[Router])
  BY <1>1 DEF Put, Safe, Typed
<1> QED
  BY <1>1, <1>2, <1>3, SlotKeepsSafe, TwoEnds

\* The fragments of a message carry it.
LEMMA FragmentsGood ==
  ASSUME NEW msg \in Message
  PROVE  /\ Fragments(msg) \in Seq(Fragment)
         /\ \A i \in DOMAIN Fragments(msg) : Fragments(msg)[i].msg = msg
<1>1. Frags(msg.type) \in Nat \ {0}
  BY HandshakeAssumption DEF Frags
<1>2. PICK k \in Nat \ {0} : k = Frags(msg.type)
  BY <1>1
<1>3. \A i \in 1..k : [msg |-> msg, idx |-> i - 1] \in Fragment
  BY DEF Fragment
<1>4. Fragments(msg) = [i \in 1..k |-> [msg |-> msg, idx |-> i - 1]]
  BY <1>2 DEF Fragments
<1> QED
  BY <1>3, <1>4

\* A message goes on air (join_tx_start to the last join_tx_done).
LEMMA TransmitSafe ==
  ASSUME Safe, Counted, NEW e \in Ends, Transmit(e) PROVE Safe'
<1> DEFINE n == node[e]
           c == [n.hs EXCEPT !.was_tx = TRUE]
           m == [n EXCEPT !.hs = c]
           r == Finish(e, m)
<1>1. /\ sub[e] = "wait" /\ n.hs.live /\ Put(e, r) /\ Mark(e, "done")
      /\ derived' = derived /\ drops' = drops
  BY DEF Transmit, Due, counters
<1>2. PICK msg \in n.hs.staged : air' = [air EXCEPT ![Other(e)] = Fragments(msg)]
  BY DEF Transmit
<1>3. /\ n \in NodeType /\ derived \in Nat /\ drops \in Nat
      /\ Good(e, n, derived, drops + 1)
  BY <1>1, EndFacts
<1>4. n.hs \in LiveHs /\ n.state = "JOINING" /\ StagedGood(e, n.hs.staged, n.key, derived)
  BY <1>1, <1>3, LiveCases DEF Good, HsGood
<1>5. /\ msg \in Message /\ msg.type \in Says(e) /\ msg.key <= derived
      /\ msg.type \in Parameters => msg.key = n.key
  BY <1>2, <1>4, LiveFields DEF StagedGood
<1>6. /\ Fragments(msg) \in Seq(Fragment)
      /\ \A i \in DOMAIN Fragments(msg) : Fragments(msg)[i].msg = msg
  BY <1>5, FragmentsGood
<1>7. Typed
  BY DEF Safe
<1>8. /\ air'[Other(e)] = Fragments(msg) /\ air'[e] = air[e]
      /\ air' \in [Ends -> Seq(Fragment)]
  BY <1>2, <1>6, <1>7, TwoEnds DEF Typed
<1>9. /\ c \in LiveHs /\ c.staged = n.hs.staged /\ c.idle = n.hs.idle
      /\ c.owe_tx = n.hs.owe_tx /\ c.age = n.hs.age /\ c.resuming = n.hs.resuming
      /\ c.rx = n.hs.rx /\ c.was_tx = TRUE
  BY <1>4 DEF LiveHs
<1>10. /\ Good(e, m, derived, drops + 1) /\ m.state = "JOINING" /\ m.key = n.key
       /\ m.hs = c /\ m.hs.live
  <2> HIDE DEF n, c
  <2>1. drops + 1 \in Nat
    BY <1>3
  <2> QED
    BY <1>1, <1>3, <1>4, <1>9, <2>1, SwapGood
<1>11. msg.type \in Parameters => e = Router /\ SentParameters(e, m.hs)
  <2>1. msg.type \in Parameters => e = Router
    BY <1>5, TwoEnds DEF Says, Parameters
  <2> HIDE DEF n, c, m
  <2> QED
    BY <1>2, <1>9, <1>10, <2>1 DEF SentParameters
<1> HIDE DEF n, c, m
<1>12. /\ Good(e, r, derived, 0)
       /\ r.state = "LINKED" => e = Router
       /\ msg.type \in Parameters => e = Router /\ r.state = "LINKED" /\ r.key = msg.key
  <2>1. PICK g \in Nat : Good(e, m, derived, g)
    <3>1. drops + 1 \in Nat
      BY <1>3
    <3> QED
      BY <1>10, <3>1
  <2>2. derived \in Nat
    BY <1>3
  <2>3. /\ Good(e, r, derived, 0)
        /\ r.state = "LINKED" => r = m \/ (e = Router /\ m.hs.live)
        /\ m.hs.live /\ SentParameters(e, m.hs) => r.state = "LINKED" /\ r.key = m.key
    BY <2>1, <2>2, FinishGood
  <2> HIDE DEF r
  <2> QED
    BY <1>5, <1>10, <1>11, <2>3
<1> HIDE DEF r
<1>13. /\ node'[e] = r /\ \A o \in Ends : o # e => node'[o] = node[o]
       /\ sub'[e] = "done" /\ \A o \in Ends : o # e => sub'[o] = sub[o]
  BY <1>1, <1>7 DEF Put, Mark, Typed
<1>14. Typed'
  <2>1. r \in NodeType
    BY <1>12 DEF Good
  <2> QED
    BY <1>1, <1>7, <1>8, <2>1 DEF Put, Mark, Typed
<1>15. ASSUME NEW o \in Ends
       PROVE  (Good(o, node[o], derived, Slack(o)) /\ Heard(o, air[o], derived))'
  <2>1. /\ Good(o, node[o], derived, Slack(o)) /\ Heard(o, air[o], derived)
        /\ Slack(o) \in Nat
    BY EndFacts
  <2>2. CASE o = e
    <3>1. Slack(o)' \in Nat /\ 0 <= Slack(o)' /\ 0 \in Nat
      BY <1>1, <1>3, <1>13, <2>2 DEF Slack
    <3>2. Good(o, r, derived, Slack(o)')
      BY <1>3, <1>12, <2>2, <3>1, GoodLater
    <3> QED
      BY <1>1, <1>8, <1>13, <2>1, <2>2, <3>2
  <2>3. CASE o # e
    <3>1. Slack(o)' = Slack(o)
      BY <1>1, <1>13, <2>3 DEF Slack
    <3>2. o = Other(e) /\ e = Other(o)
      BY <2>3, TwoEnds
    <3>3. Heard(o, air'[o], derived)
      BY <1>5, <1>6, <1>8, <3>2 DEF Heard
    <3> QED
      BY <1>1, <1>13, <2>1, <2>3, <3>1, <3>3
  <2> QED
    BY <2>2, <2>3
<1>16. From(air[Joiner])'
  <2> SUFFICES ASSUME NEW i \in DOMAIN air'[Joiner], air'[Joiner][i].msg.type \in Parameters
               PROVE  /\ node'[Router].state = "LINKED" /\ sub'[Router] = "done"
                      /\ air'[Joiner][i].msg.key = node'[Router].key
    BY DEF From, Linked
  <2>1. CASE e = Router
    <3>1. air'[Joiner] = Fragments(msg)
      BY <1>8, <2>1, TwoEnds
    <3>2. air'[Joiner][i].msg = msg
      BY <1>6, <3>1
    <3> QED
      BY <1>12, <1>13, <2>1, <3>2
  <2>2. CASE e = Joiner
    <3>1. /\ air'[Joiner] = air[Joiner] /\ node'[Router] = node[Router]
          /\ sub'[Router] = sub[Router]
      BY <1>8, <1>13, <2>2, TwoEnds
    <3>2. /\ node[Router].state = "LINKED" /\ sub[Router] = "done"
          /\ air[Joiner][i].msg.key = node[Router].key
      BY <3>1 DEF Safe, From, Linked
    <3> QED
      BY <3>1, <3>2
  <2> QED
    BY <2>1, <2>2, TwoEnds
<1>17. (air[Router] # <<>> => sub[Joiner] = "done")'
  <2>1. CASE e = Joiner
    BY <1>13, <2>1
  <2>2. CASE e = Router
    BY <1>8, <1>13, <2>2, TwoEnds DEF Safe
  <2> QED
    BY <2>1, <2>2, TwoEnds
<1>18. Alone'
  <2> SUFFICES ASSUME node'[Joiner].state = "LINKED" PROVE FALSE
    BY DEF Alone, Linked
  <2>1. e = Router
    BY <1>12, <1>13, TwoEnds
  <2>2. node[Joiner].state = "LINKED"
    BY <1>13, <2>1, TwoEnds
  <2> QED
    BY <1>1, <2>1, <2>2 DEF Safe, Alone, Linked, n
<1> QED
  BY <1>14, <1>15, <1>16, <1>17, <1>18 DEF Safe

\* A fragment that is not heard.
LEMMA MissSafe ==
  ASSUME Safe, Counted, NEW e \in Ends, Miss(e) PROVE Safe'
<1>1. /\ air[e] # <<>> /\ air' = [air EXCEPT ![e] = Tail(air[e])]
      /\ node' = node /\ sub' = sub /\ derived' = derived /\ drops' = drops
  BY DEF Miss
<1>2. Typed /\ air[e] \in Seq(Fragment)
  BY EndFacts DEF Safe
<1>3. /\ Tail(air[e]) \in Seq(Fragment)
      /\ \A i \in DOMAIN Tail(air[e]) :
           i + 1 \in DOMAIN air[e] /\ Tail(air[e])[i] = air[e][i + 1]
  BY <1>1, <1>2, TailGood
<1>4. Typed' /\ \A o \in Ends : air'[o] = IF o = e THEN Tail(air[e]) ELSE air[o]
  BY <1>1, <1>2, <1>3 DEF Typed
<1>5. ASSUME NEW o \in Ends
      PROVE  (Good(o, node[o], derived, Slack(o)) /\ Heard(o, air[o], derived))'
  BY <1>1, <1>3, <1>4, EndFacts DEF Slack, Heard
<1>6. From(air[Joiner])'
  BY <1>1, <1>3, <1>4, TwoEnds DEF Safe, From, Linked
<1>7. (air[Router] # <<>> => sub[Joiner] = "done")'
  BY <1>1, <1>4, TwoEnds DEF Safe
<1>8. Alone'
  BY <1>1, <1>4, TwoEnds DEF Safe, Alone, Linked
<1> QED
  BY <1>4, <1>5, <1>6, <1>7, <1>8 DEF Safe

\* What a fragment that is heard is, and what it leaves.
LEMMA HearFacts ==
  ASSUME Safe, Counted, NEW e \in Ends, Hear(e)
  PROVE  LET f == Head(air[e])
             r == Dispatch(node[e], f)
         IN /\ node' = [node EXCEPT ![e] = r] /\ node'[e] = r
            /\ derived' \in Nat /\ derived <= derived'
            /\ Good(e, r, derived', drops + 1)
            /\ r.state = "LINKED" =>
                 \/ r = node[e]
                 \/ /\ e = Joiner /\ Linked(Router)
                    /\ node[Router].key = node[e].key /\ r.key = node[e].key
<1> DEFINE f == Head(air[e])
           n == node[e]
           r == Dispatch(n, f)
<1>1. /\ sub[e] = "listen" /\ air[e] # <<>> /\ Put(e, r)
      /\ derived' = IF Derives(n, f) THEN derived + 1 ELSE derived
  BY DEF Hear
<1>2. /\ derived \in Nat /\ drops \in Nat /\ attempts \in Nat
      /\ Good(e, n, derived, drops + 1) /\ Heard(e, air[e], derived)
      /\ air[e] \in Seq(Fragment)
  BY <1>1, EndFacts
<1>3. f \in Fragment /\ 1 \in DOMAIN air[e] /\ f = air[e][1]
  BY <1>1, <1>2, TailGood
<1>4. f.msg.type \in Says(Other(e)) /\ f.msg.key <= derived
  BY <1>2, <1>3 DEF Heard
<1>5. f.msg.type \in Parameters =>
        e = Joiner /\ Linked(Router) /\ f.msg.key = node[Router].key
  <2> SUFFICES ASSUME f.msg.type \in Parameters
               PROVE  e = Joiner /\ Linked(Router) /\ f.msg.key = node[Router].key
    OBVIOUS
  <2>1. e = Joiner
    BY <1>4, TwoEnds DEF Says, Parameters
  <2>2. From(air[Joiner])
    BY DEF Safe
  <2> QED
    BY <1>3, <2>1, <2>2 DEF From
<1> HIDE DEF f, n
<1>6. /\ Good(e, r, derived', drops + 1)
      /\ r.state = "LINKED" =>
           \/ r = n
           \/ f.msg.type \in Parameters /\ n.key = f.msg.key /\ r.key = n.key
  <2>1. drops + 1 \in Nat
    BY <1>2
  <2> QED
    BY <1>1, <1>2, <1>3, <1>4, <2>1, DispatchGood
<1>7. derived' \in Nat /\ derived <= derived'
  BY <1>1, <1>2
<1>8. node' = [node EXCEPT ![e] = r] /\ node'[e] = r
  BY <1>1 DEF Put, Safe, Typed
<1>9. r.state = "LINKED" =>
        \/ r = n
        \/ /\ e = Joiner /\ Linked(Router)
           /\ node[Router].key = n.key /\ r.key = n.key
  BY <1>5, <1>6
<1> QED
  BY <1>6, <1>7, <1>8, <1>9 DEF f, n

\* A fragment that is heard.
LEMMA HearSafe ==
  ASSUME Safe, Counted, NEW e \in Ends, Hear(e) PROVE Safe'
<1>1. PICK r :
        /\ node' = [node EXCEPT ![e] = r] /\ node'[e] = r
        /\ Good(e, r, derived', drops + 1)
        /\ r.state = "LINKED" =>
             \/ r = node[e]
             \/ /\ e = Joiner /\ Linked(Router)
                /\ node[Router].key = node[e].key /\ r.key = node[e].key
  BY HearFacts
<1>2. derived' \in Nat /\ derived <= derived'
  BY HearFacts
<1>3. /\ sub[e] = "listen" /\ air[e] # <<>> /\ air' = [air EXCEPT ![e] = Tail(air[e])]
      /\ sub' = sub /\ drops' = drops
  BY DEF Hear
<1>4. Typed /\ air[e] \in Seq(Fragment) /\ derived \in Nat /\ drops \in Nat
  BY EndFacts DEF Safe
<1>5. /\ Tail(air[e]) \in Seq(Fragment)
      /\ \A i \in DOMAIN Tail(air[e]) :
           i + 1 \in DOMAIN air[e] /\ Tail(air[e])[i] = air[e][i + 1]
  BY <1>3, <1>4, TailGood
<1>6. /\ \A o \in Ends : air'[o] = IF o = e THEN Tail(air[e]) ELSE air[o]
      /\ \A o \in Ends : o # e => node'[o] = node[o]
  BY <1>1, <1>3, <1>4 DEF Typed
<1>7. ASSUME NEW o \in Ends, NEW j \in DOMAIN air'[o]
       PROVE  \E i \in DOMAIN air[o] : air'[o][j] = air[o][i]
  <2>1. CASE o = e
    <3>1. j \in DOMAIN Tail(air[e]) /\ air'[o] = Tail(air[e])
      BY <1>6, <2>1
    <3> QED
      BY <1>5, <2>1, <3>1
  <2>2. CASE o # e
    BY <1>6, <2>2
  <2> QED
    BY <2>1, <2>2
<1>8. Typed'
  <2>1. r \in NodeType
    BY <1>1 DEF Good
  <2>2. node' \in [Ends -> NodeType]
    BY <1>1, <1>4, <2>1 DEF Typed
  <2>3. air' \in [Ends -> Seq(Fragment)]
    BY <1>3, <1>4, <1>5 DEF Typed
  <2> QED
    BY <1>2, <1>3, <1>4, <2>2, <2>3 DEF Typed
<1>9. ASSUME NEW o \in Ends
      PROVE  (Good(o, node[o], derived, Slack(o)) /\ Heard(o, air[o], derived))'
  <2>1. /\ Good(o, node[o], derived, Slack(o)) /\ Heard(o, air[o], derived)
        /\ Slack(o) \in Nat /\ air[o] \in Seq(Fragment)
    BY EndFacts
  <2>2. Slack(o)' = Slack(o) /\ Slack(e) = drops + 1
    BY <1>3 DEF Slack
  <2>3. Good(o, node'[o], derived', Slack(o)')
    <3>1. CASE o = e
      BY <1>1, <2>2, <3>1
    <3>2. CASE o # e
      BY <1>2, <1>4, <1>6, <2>1, <2>2, <3>2, GoodLater
    <3> QED
      BY <3>1, <3>2
  <2>4. Heard(o, air[o], derived')
    <3>1. ASSUME NEW i \in DOMAIN air[o]
          PROVE  air[o][i].msg.type \in Says(Other(o)) /\ air[o][i].msg.key <= derived'
      <4>1. air[o][i].msg.type \in Says(Other(o)) /\ air[o][i].msg.key <= derived
        BY <2>1 DEF Heard
      <4>2. air[o][i] \in Fragment
        BY <2>1
      <4>3. air[o][i].msg.key \in Nat
        BY <4>2 DEF Fragment, Message
      <4> QED
        BY <1>2, <1>4, <4>1, <4>3
    <3> QED
      BY <3>1 DEF Heard
  <2>5. Heard(o, air'[o], derived')
    BY <1>7, <2>4 DEF Heard
  <2> QED
    BY <2>3, <2>5
<1>10. From(air[Joiner])'
  <2> SUFFICES ASSUME NEW i \in DOMAIN air'[Joiner], air'[Joiner][i].msg.type \in Parameters
               PROVE  /\ node'[Router].state = "LINKED" /\ sub[Router] = "done"
                      /\ air'[Joiner][i].msg.key = node'[Router].key
    BY <1>3 DEF From, Linked
  <2>1. /\ node[Router].state = "LINKED" /\ sub[Router] = "done"
        /\ air'[Joiner][i].msg.key = node[Router].key
    <3>1. PICK j \in DOMAIN air[Joiner] : air'[Joiner][i] = air[Joiner][j]
      BY <1>7, TwoEnds
    <3> QED
      BY <3>1 DEF Safe, From, Linked
  <2>2. e # Router
    BY <1>3, <2>1
  <2> QED
    BY <1>6, <2>1, <2>2, TwoEnds
<1>11. (air[Router] # <<>> => sub[Joiner] = "done")'
  BY <1>3, <1>6, TwoEnds DEF Safe
<1>12. Alone'
  <2> SUFFICES ASSUME node'[Joiner].state = "LINKED"
               PROVE  /\ ~node'[Router].hs.live /\ air'[Router] = <<>>
                      /\ node'[Router].state = "LINKED" => node'[Joiner].key = node'[Router].key
    BY DEF Alone, Linked
  <2>1. CASE e = Router
    <3>1. node[Joiner].state = "LINKED"
      BY <1>6, <2>1, TwoEnds
    <3> QED
      BY <1>3, <2>1, <3>1 DEF Safe, Alone, Linked
  <2>2. CASE e = Joiner
    <3>1. node'[Router] = node[Router] /\ air'[Router] = air[Router] /\ node'[Joiner] = r
      BY <1>1, <1>6, <2>2, TwoEnds
    <3>2. CASE r = node[Joiner]
      BY <3>1, <3>2 DEF Safe, Alone, Linked
    <3>3. CASE r # node[Joiner]
      <4>1. node[Router].state = "LINKED" /\ node[Router].key = r.key
        BY <1>1, <2>2, <3>1, <3>3 DEF Linked
      <4>2. ~node[Router].hs.live
        BY <4>1, EndFacts, TwoEnds DEF Good
      <4>3. air[Router] = <<>>
        BY <1>3, <2>2 DEF Safe
      <4> QED
        BY <3>1, <4>1, <4>2, <4>3
    <3> QED
      BY <3>2, <3>3
  <2> QED
    BY <2>1, <2>2, TwoEnds
<1> QED
  BY <1>8, <1>9, <1>10, <1>11, <1>12 DEF Safe

\* Between slots nothing is on its way that an end could be linked by.
LEMMA NothingSealed ==
  ASSUME Safe, sub[Router] = "wait" \/ air[Joiner] = <<>>
  PROVE  \A i \in DOMAIN air[Joiner] : air[Joiner][i].msg.type \notin Parameters
<1>1. \A i \in DOMAIN air[Joiner] :
        air[Joiner][i].msg.type \in Parameters => sub[Router] = "done"
  BY DEF Safe, From
<1> QED
  BY <1>1

\* The joiner starts an attempt (lg_join_start).
LEMMA StartSafe ==
  ASSUME Safe, Counted, Start PROVE Safe'
<1> DEFINE n == node[Joiner]
           first == [type |-> IF n.has_ltk THEN "RESUME_REQ" ELSE "JOIN_REQ",
                     key |-> NoKey, attempt |-> attempts + 1]
           fresh == NewHs(n.has_ltk, 0)
           hs == Stage(fresh, first)
           j == [n EXCEPT !.state = "JOINING", !.hs = hs]
           s == node[Router]
           c == [s.hs EXCEPT !.aligned = FALSE]
           r == IF s.hs.live THEN [s EXCEPT !.hs = c] ELSE s
<1>1. Joiner \in Ends /\ Router \in Ends /\ Joiner # Router /\ Typed
  BY TwoEnds DEF Safe
<1>2. /\ sub[Joiner] = "wait" /\ sub[Router] = "wait"
      /\ sub' = sub /\ air' = air /\ derived' = derived /\ drops' = drops
  BY <1>1 DEF Start, Between
<1>3. /\ node' \in [Ends -> {node'[Joiner], node'[Router]}]
      /\ node'[Joiner] = j /\ node'[Router] = r
  <2>1. node' = [node EXCEPT ![Joiner] = j,
                             ![Router] = IF @.hs.live THEN [@ EXCEPT !.hs.aligned = FALSE] ELSE @]
    BY DEF Start
  <2> HIDE DEF j
  <2>2. node' = [e \in Ends |-> IF e = Joiner THEN j ELSE r]
    BY <1>1, <2>1, TwoEnds DEF Typed
  <2> HIDE DEF r
  <2> QED
    BY <1>1, <2>2, TwoEnds
<1>4. /\ n \in NodeType /\ derived \in Nat /\ drops \in Nat /\ attempts \in Nat
      /\ n.key <= derived /\ n.key \in Nat
  BY <1>1, EndFacts DEF Good
<1>5. n.has_ltk \in BOOLEAN
  BY <1>4 DEF NodeType
<1> HIDE DEF n
<1>6. first \in Message /\ first.type \in Requests /\ first.key = 0
  BY <1>4 DEF Message, Types, Requests, NoKey
<1> HIDE DEF first
<1>7. /\ fresh \in LiveHs /\ fresh.age = 0 /\ fresh.idle = 0 /\ fresh.rx.parts = <<>>
  BY <1>5, NewHsFields
<1> HIDE DEF fresh
<1>8. /\ hs \in LiveHs /\ hs.age = 0 /\ hs.idle = 0 /\ hs.rx.parts = <<>>
      /\ hs.staged = {first}
  BY <1>6, <1>7, StageFields
<1> HIDE DEF hs
<1>9. j \in NodeType /\ j.hs = hs /\ j.key = n.key /\ j.state = "JOINING"
  BY <1>4, <1>8 DEF NodeType, States
<1> HIDE DEF j
<1>10. Good(Joiner, j, derived, drops + 1)
  <2>1. hs.live /\ IdleMax(hs) \in Nat \ {0} /\ SlotMax(hs) \in Nat \ {0}
    BY <1>8, LiveFields
  <2>2. hs.idle < IdleMax(hs) /\ hs.age < SlotMax(hs) + (drops + 1)
    BY <1>4, <1>8, <2>1
  <2>3. DOMAIN hs.rx.parts = {}
    BY <1>8
  <2>4. RxGood(hs.rx, derived)
    BY <2>3 DEF RxGood
  <2>5. StagedGood(Joiner, hs.staged, n.key, derived)
    BY <1>4, <1>6, <1>8 DEF StagedGood, Says, Requests, Parameters
  <2>6. HsGood(Joiner, hs, n.key, derived, drops + 1)
    BY <1>8, <2>2, <2>4, <2>5 DEF HsGood
  <2> QED
    BY <1>4, <1>9, <2>1, <2>6 DEF Good
<1>11. Good(Router, r, derived, drops + 1)
  <2>1. Good(Router, s, derived, drops + 1) /\ s \in NodeType
    BY <1>1, <1>2, EndFacts
  <2>2. CASE s.hs.live
    <3>1. s.hs \in LiveHs
      BY <2>1, <2>2, LiveCases
    <3> HIDE DEF s
    <3>2. /\ c \in LiveHs /\ c.staged = s.hs.staged /\ c.idle = s.hs.idle
          /\ c.owe_tx = s.hs.owe_tx /\ c.age = s.hs.age /\ c.resuming = s.hs.resuming
          /\ c.rx = s.hs.rx
      BY <3>1 DEF LiveHs
    <3>3. drops + 1 \in Nat
      BY <1>4
    <3> HIDE DEF c
    <3>4. Good(Router, [s EXCEPT !.hs = c], derived, drops + 1)
      BY <1>4, <2>1, <2>2, <3>2, <3>3, SwapGood
    <3> QED
      BY <2>2, <3>4
  <2>3. CASE ~s.hs.live
    BY <2>1, <2>3
  <2> QED
    BY <2>2, <2>3
<1> HIDE DEF r
<1>12. Typed'
  <2>1. j \in NodeType /\ r \in NodeType
    BY <1>10, <1>11 DEF Good
  <2>2. node' \in [Ends -> NodeType]
    BY <1>3, <2>1
  <2> QED
    BY <1>1, <1>2, <2>2 DEF Typed
<1>13. ASSUME NEW o \in Ends
       PROVE  (Good(o, node[o], derived, Slack(o)) /\ Heard(o, air[o], derived))'
  <2>1. Heard(o, air[o], derived)
    BY DEF Safe
  <2>2. Slack(o)' = drops + 1
    BY <1>2, TwoEnds DEF Slack
  <2>3. Good(o, node'[o], derived, drops + 1)
    BY <1>3, <1>10, <1>11, TwoEnds
  <2> QED
    BY <1>2, <2>1, <2>2, <2>3
<1>14. From(air[Joiner])'
  BY <1>2, NothingSealed DEF From
<1>15. (air[Router] # <<>> => sub[Joiner] = "done")'
  BY <1>2 DEF Safe
<1>16. Alone'
  BY <1>3, <1>9 DEF Alone, Linked
<1> QED
  BY <1>12, <1>13, <1>14, <1>15, <1>16 DEF Safe

\* A slot of age for each handshake (slot_next_from_clock).
LEMMA NextSlotSafe ==
  ASSUME Safe, Counted, NextSlot PROVE Safe'
<1> DEFINE older(n) == IF n.hs.live THEN [n EXCEPT !.hs.age = NextIndex(n.hs.age)] ELSE n
<1>1. /\ \A e \in Ends : sub[e] = "done" \/ (sub[e] = "wait" /\ ~node[e].hs.live)
      /\ sub' = [e \in Ends |-> "wait"] /\ air' = [e \in Ends |-> <<>>]
      /\ node' = [e \in Ends |-> older(node[e])]
      /\ derived' = derived /\ drops' = drops
  BY DEF NextSlot
<1>2. derived \in Nat /\ drops \in Nat
  BY EndFacts, TwoEnds
<1>3. ASSUME NEW e \in Ends
      PROVE  /\ Good(e, older(node[e]), derived, drops + 1)
             /\ older(node[e]).state = node[e].state /\ older(node[e]).key = node[e].key
             /\ older(node[e]).hs.live <=> node[e].hs.live
  <2> DEFINE n == node[e]
             c == [n.hs EXCEPT !.age = NextIndex(n.hs.age)]
             m == [n EXCEPT !.hs = c]
  <2>1. n \in NodeType
    BY EndFacts
  <2>2. CASE ~n.hs.live
    <3>1. n.hs = NoHs /\ n.state # "JOINING" /\ n.key <= derived
      BY <2>1, <2>2, LiveCases, EndFacts DEF Good
    <3>2. Good(e, n, derived, drops + 1)
      BY <1>2, <2>1, <3>1, IdleGood
    <3> QED
      BY <2>2, <3>2
  <2>3. CASE n.hs.live
    <3>1. Good(e, n, derived, drops)
      BY <1>1, <2>3, EndFacts
    <3>2. HsGood(e, n.hs, n.key, derived, drops) /\ n.hs \in LiveHs /\ n.state = "JOINING"
      BY <2>3, <3>1 DEF Good, HsGood
    <3> HIDE DEF n
    <3>3. n.hs.age \in Nat /\ SlotMax(n.hs) \in Nat
      BY <3>2, LiveFields
    <3>4. NextIndex(n.hs.age) \in Nat /\ NextIndex(n.hs.age) <= n.hs.age + 1
      BY <3>3, HandshakeAssumption DEF NextIndex
    <3>5. /\ c \in LiveHs /\ c.staged = n.hs.staged /\ c.idle = n.hs.idle
          /\ c.owe_tx = n.hs.owe_tx /\ c.resuming = n.hs.resuming
          /\ c.rx = n.hs.rx /\ c.age = NextIndex(n.hs.age)
      BY <3>2, <3>4 DEF LiveHs
    <3> HIDE DEF c
    <3>6. HsGood(e, c, n.key, derived, drops + 1)
      <4>1. SlotMax(c) = SlotMax(n.hs) /\ IdleMax(c) = IdleMax(n.hs)
        BY <3>5 DEF SlotMax, IdleMax
      <4>2. n.hs.age < SlotMax(n.hs) + drops
        BY <3>2 DEF HsGood
      <4>3. c.age < SlotMax(c) + (drops + 1)
        BY <1>2, <3>3, <3>4, <3>5, <4>1, <4>2
      <4> QED
        BY <3>2, <3>5, <4>1, <4>3 DEF HsGood
    <3>7. m \in NodeType /\ m.hs = c /\ m.key = n.key /\ m.state = "JOINING"
      BY <2>1, <3>2, <3>5 DEF NodeType
    <3>8. c.live /\ n.key <= derived
      BY <3>1, <3>5, LiveFields DEF Good
    <3> HIDE DEF m
    <3>9. Good(e, m, derived, drops + 1)
      BY <3>6, <3>7, <3>8 DEF Good
    <3>10. older(n) = m
      BY <2>3 DEF m, c
    <3> HIDE DEF older
    <3>11. /\ Good(e, older(n), derived, drops + 1)
           /\ older(n).state = n.state /\ older(n).key = n.key
           /\ older(n).hs.live <=> n.hs.live
      BY <2>3, <3>2, <3>7, <3>8, <3>9, <3>10
    <3> QED
      BY <3>11 DEF n
  <2> QED
    BY <2>2, <2>3
<1> HIDE DEF older
<1>4. \A e \in Ends : node'[e] = older(node[e]) /\ sub'[e] = "wait" /\ air'[e] = <<>>
  BY <1>1
<1>5. Typed'
  <2>1. \A e \in Ends : older(node[e]) \in NodeType
    BY <1>3 DEF Good
  <2>2. node' \in [Ends -> NodeType]
    BY <1>1, <2>1
  <2>3. sub' \in [Ends -> {"wait", "listen", "done"}]
    BY <1>1
  <2>4. air' \in [Ends -> Seq(Fragment)]
    <3>1. <<>> \in Seq(Fragment)
      OBVIOUS
    <3> QED
      BY <1>1, <3>1
  <2> QED
    BY <1>1, <1>2, <2>2, <2>3, <2>4 DEF Typed
<1>6. DOMAIN <<>> = {}
  OBVIOUS
<1>7. ASSUME NEW o \in Ends
      PROVE  (Good(o, node[o], derived, Slack(o)) /\ Heard(o, air[o], derived))'
  <2>1. Slack(o)' = drops + 1
    BY <1>1, <1>4 DEF Slack
  <2>2. Good(o, node'[o], derived, drops + 1)
    BY <1>3, <1>4
  <2>3. Heard(o, air'[o], derived)
    BY <1>4, <1>6 DEF Heard
  <2> QED
    BY <1>1, <2>1, <2>2, <2>3
<1>8. From(air[Joiner])'
  BY <1>4, <1>6, TwoEnds DEF From
<1>9. (air[Router] # <<>> => sub[Joiner] = "done")'
  BY <1>4, TwoEnds
<1>10. Alone'
  <2> SUFFICES ASSUME node'[Joiner].state = "LINKED"
               PROVE  /\ ~node'[Router].hs.live /\ air'[Router] = <<>>
                      /\ node'[Router].state = "LINKED" => node'[Joiner].key = node'[Router].key
    BY DEF Alone, Linked
  <2>1. /\ node'[Joiner].state = node[Joiner].state /\ node'[Joiner].key = node[Joiner].key
        /\ node'[Router].state = node[Router].state /\ node'[Router].key = node[Router].key
        /\ node'[Router].hs.live <=> node[Router].hs.live
    BY <1>3, <1>4, TwoEnds
  <2> QED
    BY <1>4, <2>1, TwoEnds DEF Safe, Alone, Linked
<1> QED
  BY <1>5, <1>7, <1>8, <1>9, <1>10 DEF Safe

\* An end takes its link down (lg_link_down).
LEMMA LinkDownSafe ==
  ASSUME Safe, Counted, NEW e \in Ends, LinkDown(e) PROVE Safe'
<1> DEFINE r == TearDown(node[e])
<1>1. /\ sub[Joiner] = "wait" /\ sub[Router] = "wait" /\ node[e].state = "LINKED"
      /\ Put(e, r) /\ sub' = sub /\ air' = air /\ derived' = derived /\ drops' = drops
  BY TwoEnds DEF LinkDown, Between
<1>2. Typed /\ node[e] \in NodeType /\ derived \in Nat /\ drops \in Nat
  BY EndFacts DEF Safe
<1>3. node[e].hs = NoHs
  BY <1>1, <1>2, EndFacts, LiveCases DEF Good
<1>4. Good(e, r, derived, drops + 1) /\ ~r.hs.live /\ r.state = "LOST"
  <2>1. drops + 1 \in Nat
    BY <1>2
  <2> QED
    BY <1>2, <1>3, <2>1, TearDownGood
<1> HIDE DEF r
<1>5. /\ node'[e] = r /\ \A o \in Ends : o # e => node'[o] = node[o]
  BY <1>1, <1>2 DEF Put, Typed
<1>6. Typed'
  <2>1. r \in NodeType
    BY <1>4 DEF Good
  <2> QED
    BY <1>1, <1>2, <2>1 DEF Put, Typed
<1>7. ASSUME NEW o \in Ends
      PROVE  (Good(o, node[o], derived, Slack(o)) /\ Heard(o, air[o], derived))'
  <2>1. /\ Good(o, node[o], derived, Slack(o)) /\ Heard(o, air[o], derived)
        /\ Slack(o) = drops + 1 /\ Slack(o)' = drops + 1
    BY <1>1, EndFacts, TwoEnds DEF Slack
  <2>2. CASE o = e
    BY <1>1, <1>4, <1>5, <2>1, <2>2
  <2>3. CASE o # e
    BY <1>1, <1>5, <2>1, <2>3
  <2> QED
    BY <2>2, <2>3
<1>8. From(air[Joiner])'
  BY <1>1, NothingSealed DEF From
<1>9. (air[Router] # <<>> => sub[Joiner] = "done")'
  BY <1>1 DEF Safe
<1>10. Alone'
  <2>1. CASE e = Joiner
    BY <1>4, <1>5, <2>1 DEF Alone, Linked
  <2>2. CASE e = Router
    <3>1. node'[Joiner] = node[Joiner] /\ node'[Router] = r
      BY <1>5, <2>2, TwoEnds
    <3> QED
      BY <1>1, <1>4, <3>1 DEF Safe, Alone, Linked
  <2> QED
    BY <2>1, <2>2, TwoEnds
<1> QED
  BY <1>6, <1>7, <1>8, <1>9, <1>10 DEF Safe

----------------------------------------------------------------------------
(* The theorems.                                                            *)

\* Every step keeps the invariant.
LEMMA StepIInv == IInv /\ [Next]_vars => IInv'
<1> SUFFICES ASSUME IInv, [Next]_vars PROVE IInv'
  OBVIOUS
<1>1. Safe /\ Counted
  BY DEF IInv
<1>2. Counted' /\ missed' \in BOOLEAN
  BY CountsKept, MissedKept DEF IInv
<1> SUFFICES Safe'
  BY <1>2 DEF IInv
<1>3. CASE Start
  BY <1>1, <1>3, StartSafe
<1>4. CASE OpenWindow
  BY <1>1, <1>4, OpenWindowSafe
<1>5. CASE NextSlot
  BY <1>1, <1>5, NextSlotSafe
<1>6. ASSUME NEW e \in Ends, Slot(e) PROVE Safe'
  BY <1>1, <1>6, TransmitSafe, ListenSafe, HearSafe, CloseSafe DEF Slot
<1>7. ASSUME NEW e \in Ends, Trouble(e) PROVE Safe'
  BY <1>1, <1>7, MissSafe, RefusedSafe, LateSafe, DisplacedSafe DEF Trouble
<1>8. ASSUME NEW e \in Ends, LinkDown(e) PROVE Safe'
  BY <1>1, <1>8, LinkDownSafe
<1>9. CASE UNCHANGED vars
  <2>1. node' = node /\ sub' = sub /\ air' = air /\ derived' = derived /\ drops' = drops
    BY <1>9 DEF vars
  <2>2. \A e \in Ends : Slack(e)' = Slack(e)
    BY <2>1 DEF Slack
  <2>3. Typed' /\ From(air[Joiner])' /\ Alone'
    BY <1>1, <2>1 DEF Safe, Typed, From, Alone, Linked
  <2> QED
    BY <1>1, <2>1, <2>2, <2>3 DEF Safe
<1> QED
  BY <1>3, <1>4, <1>5, <1>6, <1>7, <1>8, <1>9 DEF Next

\* The invariant holds throughout.
LEMMA Invariance == Spec => []IInv
BY InitIInv, StepIInv, PTL DEF Spec

\* The invariant gives the types and the limits.
LEMMA IInvTypes == IInv => TypeOK
<1> SUFFICES ASSUME IInv PROVE TypeOK
  OBVIOUS
<1>1. Safe /\ Counted /\ missed \in BOOLEAN /\ Typed
  BY DEF IInv, Safe
<1>2. ASSUME NEW e \in Ends
      PROVE  /\ node[e].state \in {"HEARD", "JOINING", "LINKED", "LOST"}
             /\ node[e].key \in 0..derived
             /\ node[e].has_ltk \in BOOLEAN
             /\ node[e].hs.live <=> node[e].state = "JOINING"
             /\ node[e].hs.live => HsOK(node[e].hs)
  <2> DEFINE n == node[e]
  <2>1. /\ n \in NodeType /\ Good(e, n, derived, Slack(e)) /\ n.key \in Nat
        /\ derived \in Nat /\ Slack(e) \in Nat
    BY <1>1, EndFacts
  <2>2. Slack(e) <= MaxDrops + 1
    BY <1>1, HandshakeAssumption DEF Counted, Slack
  <2>3. /\ n.state \in {"HEARD", "JOINING", "LINKED", "LOST"}
        /\ n.has_ltk \in BOOLEAN
    BY <2>1 DEF NodeType, States
  <2>4. n.key \in 0..derived
    BY <2>1 DEF Good
  <2>5. ASSUME n.hs.live PROVE HsOK(n.hs)
    <3>1. HsGood(e, n.hs, n.key, derived, Slack(e)) /\ n.hs \in LiveHs
      BY <2>1, <2>5 DEF Good, HsGood
    <3> HIDE DEF n
    <3>2. /\ n.hs.resuming \in BOOLEAN /\ n.hs.staged \subseteq Message
          /\ n.hs.age \in Nat /\ SlotMax(n.hs) \in Nat
      BY <3>1, LiveFields
    <3>3. n.hs.age <= SlotMax(n.hs) + MaxDrops
      <4>1. n.hs.age < SlotMax(n.hs) + Slack(e)
        BY <3>1 DEF HsGood
      <4>2. MaxDrops \in Nat
        BY HandshakeAssumption
      <4> QED
        BY <2>1, <2>2, <3>2, <4>1, <4>2
    <3>4. \A i \in DOMAIN n.hs.rx.parts : n.hs.rx.parts[i].type = n.hs.rx.type
      BY <3>1 DEF HsGood, RxGood
    <3> QED
      BY <3>1, <3>2, <3>3, <3>4 DEF HsOK, HsGood, IdleMax, SlotMax
  <2> QED
    BY <2>1, <2>3, <2>4, <2>5 DEF Good
<1> QED
  BY <1>1, <1>2 DEF TypeOK, Typed, Counted

\* An end that settles a slot is not linked by it unless it is the router.
LEMMA FinishState ==
  ASSUME NEW H, NEW n \in [state : States, key : Nat, has_ltk : BOOLEAN, hs : H],
         Finish(Joiner, n).state = "LINKED"
  PROVE  n.state = "LINKED"
<1>1. ~SentParameters(Joiner, n.hs)
  BY TwoEnds DEF SentParameters
<1>2. CASE ~n.hs.live
  BY <1>2 DEF Finish
<1>3. CASE n.hs.live /\ Spent(n.hs)
  <2>1. Finish(Joiner, n) = Fail(n)
    BY <1>1, <1>3 DEF Finish
  <2>2. Fail(n).state # "LINKED"
    BY DEF Fail
  <2> QED
    BY <2>1, <2>2
<1>4. CASE n.hs.live /\ ~Spent(n.hs)
  <2> DEFINE c == [n.hs EXCEPT !.owe_tx = Debt(n.hs), !.idle = Idle(n.hs),
                               !.slot_refused = FALSE, !.progressed = FALSE]
  <2>1. Finish(Joiner, n) = [n EXCEPT !.hs = c]
    BY <1>1, <1>4 DEF Finish
  <2> HIDE DEF c
  <2> QED
    BY <2>1
<1> QED
  BY <1>2, <1>3, <1>4

\* What a step that links the joiner finds.
LEMMA StepJoins ==
  ASSUME IInv, [Next]_vars, ~Linked(Joiner), Linked(Joiner)'
  PROVE  Linked(Router) /\ node[Router].key = node'[Joiner].key
<1> DEFINE n == node[Joiner]
<1>1. Safe /\ Counted /\ Typed /\ n \in NodeType
  BY TwoEnds, EndFacts DEF IInv, Safe
<1>2. n.state # "LINKED" /\ node'[Joiner].state = "LINKED"
  BY DEF Linked
<1>3. ASSUME NEW e \in Ends, NEW r, Put(e, r)
      PROVE  e = Joiner /\ node'[Joiner] = r
  BY <1>1, <1>2, <1>3, TwoEnds DEF Put, Typed
<1>4. ASSUME NEW c PROVE ~Put(Joiner, Finish(Joiner, [n EXCEPT !.hs = c]))
  <2> DEFINE m == [n EXCEPT !.hs = c]
  <2>1. m \in [state : States, key : Nat, has_ltk : BOOLEAN, hs : {c}] /\ m.state = n.state
    BY <1>1 DEF NodeType
  <2> HIDE DEF m, n
  <2>2. Finish(Joiner, m).state # "LINKED"
    BY <1>2, <2>1, FinishState
  <2> QED
    BY <1>2, <1>3, <2>2, TwoEnds DEF m
<1>5. ~Put(Joiner, Finish(Joiner, n))
  <2>1. n \in [state : States, key : Nat, has_ltk : BOOLEAN, hs : LiveHs \cup {NoHs}]
    BY <1>1 DEF NodeType
  <2> HIDE DEF n
  <2>2. Finish(Joiner, n).state # "LINKED"
    BY <1>2, <2>1, FinishState
  <2> QED
    BY <1>2, <1>3, <2>2, TwoEnds
<1>6. ASSUME NEW e \in Ends, Hear(e)
      PROVE  Linked(Router) /\ node[Router].key = node'[Joiner].key
  <2>1. Put(e, Dispatch(node[e], Head(air[e])))
    BY <1>6 DEF Hear
  <2>2. e = Joiner /\ node'[Joiner] = Dispatch(n, Head(air[Joiner]))
    BY <1>3, <2>1
  <2> QED
    BY <1>1, <1>2, <1>6, <2>2, HearFacts
<1>7. ASSUME NEW e \in Ends, Transmit(e) PROVE FALSE
  <2> DEFINE c == [node[e].hs EXCEPT !.was_tx = TRUE]
  <2>1. Put(e, Finish(e, [node[e] EXCEPT !.hs = c]))
    BY <1>7 DEF Transmit
  <2> HIDE DEF c
  <2> QED
    BY <1>3, <1>4, <2>1
<1>8. ASSUME NEW e \in Ends, Refused(e) PROVE FALSE
  <2> DEFINE c == [node[e].hs EXCEPT !.was_tx = FALSE, !.progressed = FALSE,
                                     !.slot_refused = TRUE]
  <2>1. Put(e, Finish(e, [node[e] EXCEPT !.hs = c]))
    BY <1>8 DEF Refused
  <2> HIDE DEF c
  <2> QED
    BY <1>3, <1>4, <2>1
<1>9. ASSUME NEW e \in Ends, Listen(e) PROVE FALSE
  <2> DEFINE c == [node[e].hs EXCEPT !.was_tx = FALSE]
  <2>1. Put(e, [node[e] EXCEPT !.hs = c])
    BY <1>9 DEF Listen
  <2> HIDE DEF c
  <2>2. e = Joiner /\ node'[Joiner] = [n EXCEPT !.hs = c]
    BY <1>3, <2>1
  <2>3. [n EXCEPT !.hs = c].state = n.state
    BY <1>1 DEF NodeType
  <2> QED
    BY <1>2, <2>2, <2>3
<1>10. ASSUME NEW e \in Ends, Close(e) PROVE FALSE
  BY <1>2, <1>3, <1>5, <1>10 DEF Close
<1>11. ASSUME NEW e \in Ends, Late(e) PROVE FALSE
  BY <1>3, <1>5, <1>11 DEF Late
<1>12. ASSUME NEW e \in Ends, Miss(e) \/ Displaced(e) PROVE FALSE
  BY <1>2, <1>12 DEF Miss, Displaced
<1>13. ASSUME NEW e \in Ends, LinkDown(e) PROVE FALSE
  <2>1. node'[Joiner] = TearDown(n)
    BY <1>3, <1>13 DEF LinkDown
  <2>2. TearDown(n).state = "LOST"
    BY <1>1 DEF TearDown, NodeType
  <2> QED
    BY <1>2, <2>1, <2>2
<1>14. CASE Start
  <2> DEFINE hs == Stage(NewHs(n.has_ltk, 0),
                         [type |-> IF n.has_ltk THEN "RESUME_REQ" ELSE "JOIN_REQ",
                          key |-> NoKey, attempt |-> attempts + 1])
             j == [n EXCEPT !.state = "JOINING", !.hs = hs]
  <2>1. node' = [node EXCEPT ![Joiner] = j,
                             ![Router] = IF @.hs.live THEN [@ EXCEPT !.hs.aligned = FALSE] ELSE @]
    BY <1>14 DEF Start
  <2> HIDE DEF hs
  <2>2. j.state = "JOINING"
    BY <1>1 DEF NodeType
  <2> HIDE DEF j
  <2>3. node'[Joiner] = j
    BY <1>1, <2>1, TwoEnds DEF Typed
  <2> QED
    BY <1>2, <2>2, <2>3
<1>15. CASE NextSlot
  <2>1. node'[Joiner] = IF n.hs.live THEN [n EXCEPT !.hs.age = NextIndex(@)] ELSE n
    BY <1>15, TwoEnds DEF NextSlot
  <2>2. ASSUME NEW c PROVE [n EXCEPT !.hs = c].state = n.state
    BY <1>1 DEF NodeType
  <2>3. node'[Joiner].state = n.state
    BY <2>1, <2>2
  <2> QED
    BY <1>2, <2>3
<1>16. CASE OpenWindow \/ UNCHANGED vars
  BY <1>2, <1>16 DEF OpenWindow, vars
<1> QED
  BY <1>6, <1>7, <1>8, <1>9, <1>10, <1>11, <1>12, <1>13, <1>14, <1>15, <1>16
  DEF Next, Slot, Trouble

\* What each end holds is of its type, the idle count and the slot index of a
\* handshake keep to their limits however many slots are lost, and a node is
\* joining exactly while it has a handshake (lg_join_event_finish, join_fail).
THEOREM TypeCorrect == Spec => []TypeOK
BY Invariance, IInvTypes, PTL

\* Whatever is lost, refused or displaced, two ends that both believe in the
\* link hold the same session key (lg_join.c, lg_link_establish).
THEOREM SameKeys == Spec => []KeysAgree
<1>1. IInv => KeysAgree
  BY DEF IInv, Safe, Alone, KeysAgree
<1> QED
  BY <1>1, Invariance, PTL

\* The joiner's link comes up only when the router's is up under the same key:
\* the link parameters bring it up, and the router is linked once it sent them.
THEOREM RouterFirst == Spec => JoinsTogether
<1>1. IInv /\ [Next]_vars =>
        [~Linked(Joiner) /\ Linked(Joiner)' =>
           Linked(Router) /\ node[Router].key = node'[Joiner].key]_vars
  BY StepJoins
<1> QED
  BY <1>1, Invariance, PTL DEF Spec, JoinsTogether

----------------------------------------------------------------------------
(* Turns.                                                                   *)

\* Contexts of one attempt, slot and share of it.
Alike(h, c) ==
  /\ c.resuming = h.resuming /\ c.age = h.age /\ c.idle = h.idle
  /\ c.was_tx = h.was_tx /\ c.skip = h.skip /\ c.aligned = h.aligned

\* c is h once msg answers what was put together.
Replied(h, c, msg) ==
  /\ c \in LiveHs /\ Alike(h, c)
  /\ c.staged = {msg} /\ c.owe_tx = TRUE /\ c.progressed = TRUE

\* An answer changes nothing of the context but what it says (lg_join_rx_pdu).
LEMMA AnswerFields ==
  ASSUME NEW n \in NodeType, n.hs \in LiveHs,
         NEW key \in Nat, NEW type \in Types, NEW attempt \in Nat
  PROVE  LET a == Answer(n, key, type, attempt)
         IN /\ a \in NodeType /\ a.state = n.state /\ a.key = key
            /\ Replied(n.hs, a.hs, [type |-> type, key |-> key, attempt |-> attempt])
<1> DEFINE msg == [type |-> type, key |-> key, attempt |-> attempt]
           rx == [n.hs.rx EXCEPT !.parts = <<>>]
           c == [n.hs EXCEPT !.staged = {msg}, !.owe_tx = TRUE, !.progressed = TRUE, !.rx = rx]
           a == [n EXCEPT !.key = key, !.hs = c]
<1>1. msg \in Message
  BY DEF Message
<1>2. rx \in RxType
  <2>1. <<>> \in [{} -> Message]
    OBVIOUS
  <2>2. <<>> \in PartSets
    BY <2>1 DEF PartSets
  <2> QED
    BY <2>2, LiveFields DEF RxType
<1>3. Answer(n, key, type, attempt) = a
  <2>1. [Stage(n.hs, msg) EXCEPT !.progressed = TRUE, !.rx.parts = <<>>] = c
    BY DEF Stage, LiveHs
  <2> QED
    BY <2>1 DEF Answer
<1> HIDE DEF msg, rx
<1>4. Replied(n.hs, c, msg)
  <2>1. c \in LiveHs
    BY <1>1, <1>2 DEF LiveHs
  <2>2. c.staged = {msg} /\ c.owe_tx = TRUE /\ c.progressed = TRUE
    BY DEF LiveHs
  <2>3. Alike(n.hs, c)
    BY DEF LiveHs, Alike
  <2> QED
    BY <2>1, <2>2, <2>3 DEF Replied
<1>5. c \in LiveHs
  BY <1>4 DEF Replied
<1> HIDE DEF c
<1>6. a \in NodeType /\ a.state = n.state /\ a.key = key /\ a.hs = c
  BY <1>5 DEF NodeType
<1> QED
  BY <1>3, <1>4, <1>6 DEF msg

\* A failed attempt and a link have no handshake (join_fail, lg_link_establish).
LEMMA NoneFields ==
  ASSUME NEW n \in NodeType
  PROVE  /\ Fail(n).hs = NoHs /\ Establish(n).hs = NoHs /\ ~NoHs.live
         /\ Establish(n).state = "LINKED"
  BY DEF Fail, Establish, NodeType, NoHs

\* A complete message ends the handshake or is answered.
LEMMA HandleTurns ==
  ASSUME attempts \in Nat, derived \in Nat,
         NEW n \in NodeType, n.hs \in LiveHs,
         NEW rx \in RxType, 0 \in DOMAIN rx.parts, Handle(n, rx).hs.live
  PROVE  /\ Handle(n, rx) \in NodeType
         /\ \E msg : Replied(n.hs, Handle(n, rx).hs, msg)
<1> DEFINE msg == rx.parts[0]
<1>1. msg.key \in Nat /\ msg.attempt \in Nat /\ n.key \in Nat /\ derived + 1 \in Nat
  <2>1. PICK D \in SUBSET Nat : rx.parts \in [D -> Message]
    BY DEF RxType, PartSets
  <2>2. msg \in Message
    BY <2>1
  <2> QED
    BY <2>2 DEF Message, NodeType
<1>2. /\ "JOIN_RSP" \in Types /\ "JOIN_CFM" \in Types /\ "JOIN_ACK" \in Types
      /\ "RESUME_RSP" \in Types
  BY DEF Types, Secured, Parameters
<1>3. /\ \A a \in NodeType : [a EXCEPT !.has_ltk = TRUE] \in NodeType
      /\ \A a \in NodeType : [a EXCEPT !.has_ltk = TRUE].hs = a.hs
  BY DEF NodeType
<1>4. CASE rx.type = "JOIN_REQ"
  <2> DEFINE a == Answer(n, derived + 1, "JOIN_RSP", msg.attempt)
  <2>1. Handle(n, rx) = [a EXCEPT !.has_ltk = TRUE]
    BY <1>4 DEF Handle, Parameters
  <2>2. a \in NodeType /\ \E m : Replied(n.hs, a.hs, m)
    BY <1>1, <1>2, AnswerFields
  <2> HIDE DEF a
  <2> QED
    BY <1>3, <2>1, <2>2
<1>5. CASE rx.type = "JOIN_RSP"
  <2> DEFINE a == Answer(n, msg.key, "JOIN_CFM", attempts)
  <2>1. \/ Handle(n, rx) = [a EXCEPT !.has_ltk = TRUE]
        \/ Handle(n, rx) = Fail(n)
    BY <1>5 DEF Handle, Parameters
  <2>2. a \in NodeType /\ \E m : Replied(n.hs, a.hs, m)
    BY <1>1, <1>2, AnswerFields
  <2> HIDE DEF a
  <2> QED
    BY <1>3, <2>1, <2>2, NoneFields
<1>6. CASE rx.type = "JOIN_CFM"
  <2> DEFINE a == Answer(n, n.key, "JOIN_ACK", msg.attempt)
  <2>1. Handle(n, rx) = a
    BY <1>6 DEF Handle, Parameters
  <2>2. a \in NodeType /\ \E m : Replied(n.hs, a.hs, m)
    BY <1>1, <1>2, AnswerFields
  <2> HIDE DEF a
  <2> QED
    BY <2>1, <2>2
<1>7. CASE rx.type = "RESUME_REQ"
  <2> DEFINE a == Answer(n, derived + 1, "RESUME_RSP", msg.attempt)
  <2>1. Handle(n, rx) = a \/ Handle(n, rx) = Fail(n)
    BY <1>7 DEF Handle, Parameters
  <2>2. a \in NodeType /\ \E m : Replied(n.hs, a.hs, m)
    BY <1>1, <1>2, AnswerFields
  <2> HIDE DEF a
  <2> QED
    BY <2>1, <2>2, NoneFields
<1>8. CASE rx.type \in Parameters
  <2>1. Handle(n, rx) = Establish(n)
    BY <1>8 DEF Handle, Parameters
  <2> QED
    BY <2>1, NoneFields
<1>9. \/ rx.type = "JOIN_REQ" \/ rx.type = "JOIN_RSP" \/ rx.type = "JOIN_CFM"
      \/ rx.type = "RESUME_REQ" \/ rx.type \in Parameters
  BY DEF RxType, Types, Requests, Secured
<1> QED
  BY <1>4, <1>5, <1>6, <1>7, <1>8, <1>9

\* Fragments put together (reassemble).
LEMMA ReassembleType ==
  ASSUME NEW rx \in RxType, NEW f \in Fragment
  PROVE  Reassemble(rx, f) \in RxType /\ f.idx \in DOMAIN Reassemble(rx, f).parts
<1> DEFINE kept == IF rx.type # f.msg.type \/ f.idx = 0 THEN <<>> ELSE rx.parts
           parts == [i \in DOMAIN kept \cup {f.idx} |-> IF i = f.idx THEN f.msg ELSE kept[i]]
<1>1. f.msg \in Message /\ f.idx \in Nat /\ f.msg.type \in Types
  BY DEF Fragment, Message
<1>2. kept \in PartSets
  <2>1. <<>> \in [{} -> Message] /\ rx.parts \in PartSets
    BY DEF RxType
  <2>2. <<>> \in PartSets
    BY <2>1 DEF PartSets
  <2> QED
    BY <2>1, <2>2
<1> HIDE DEF kept
<1>3. PICK D \in SUBSET Nat : kept \in [D -> Message]
  BY <1>2 DEF PartSets
<1>4. parts \in [D \cup {f.idx} -> Message] /\ D \cup {f.idx} \in SUBSET Nat
  BY <1>1, <1>3
<1>5. Reassemble(rx, f) = [type |-> f.msg.type, parts |-> parts]
  BY DEF Reassemble, kept, parts
<1> HIDE DEF parts
<1>6. parts \in PartSets
  BY <1>4 DEF PartSets
<1> QED
  BY <1>1, <1>4, <1>5, <1>6 DEF RxType

\* A request opens a fresh context where there was none.
LEMMA OpenedFields ==
  ASSUME NEW n \in NodeType, NEW f \in Fragment, Opened(n, f).hs.live
  PROVE  LET m == Opened(n, f)
         IN /\ m \in NodeType /\ m.hs \in LiveHs
            /\ n.hs.live => m = n
            /\ ~n.hs.live => /\ m.hs = NewHs(f.msg.type = "RESUME_REQ", f.idx)
                             /\ m.has_ltk = n.has_ltk /\ m.key = n.key
<1> DEFINE m == Opened(n, f)
           hs == NewHs(f.msg.type = "RESUME_REQ", f.idx)
<1>1. CASE n.hs.live
  <2>1. m = n
    BY <1>1 DEF Opened
  <2> QED
    BY <1>1, <2>1, LiveCases
<1>2. CASE ~n.hs.live
  <2>1. m = [n EXCEPT !.hs = hs, !.state = "JOINING"]
    <3>1. m # n
      BY <1>2
    <3> QED
      BY <1>2, <3>1 DEF Opened
  <2>2. hs \in LiveHs
    BY NewHsFields DEF Fragment
  <2> HIDE DEF hs, m
  <2>3. /\ m \in NodeType /\ m.hs = hs /\ m.has_ltk = n.has_ltk /\ m.key = n.key
    BY <2>1, <2>2 DEF NodeType, States
  <2> QED
    BY <1>2, <2>2, <2>3 DEF hs, m
<1> QED
  BY <1>1, <1>2

\* What a fragment leaves of a context: all but what it put together, or an
\* answer (lg_join_rx_pdu).
LEMMA DispatchTurns ==
  ASSUME attempts \in Nat, derived \in Nat,
         NEW n \in NodeType, NEW f \in Fragment, Dispatch(n, f).hs.live
  PROVE  LET o == Opened(n, f)
             h == Dispatch(n, f).hs
         IN /\ o.hs.live /\ h \in LiveHs /\ Alike(o.hs, h)
            /\ \/ /\ h.staged = o.hs.staged /\ h.owe_tx = o.hs.owe_tx
                  /\ h.progressed = o.hs.progressed
               \/ h.staged # {} /\ h.owe_tx = TRUE /\ h.progressed = TRUE
<1> DEFINE o == Opened(n, f)
           rx == Reassemble(o.hs.rx, f)
           r == Dispatch(n, f)
<1>1. o.hs.live
  BY DEF Dispatch
<1>2. o \in NodeType /\ o.hs \in LiveHs
  BY <1>1, OpenedFields
<1>3. CASE ~Readable(o, f.msg)
  <2>1. r = o
    BY <1>3 DEF Dispatch
  <2> QED
    BY <1>1, <1>2, <2>1 DEF Alike
<1>4. CASE Readable(o, f.msg) /\ Complete(rx)
  <2>1. r = Handle(o, rx)
    BY <1>1, <1>4 DEF Dispatch
  <2>2. rx \in RxType /\ 0 \in DOMAIN rx.parts
    <3> HIDE DEF o
    <3>1. rx \in RxType
      BY <1>2, LiveFields, ReassembleType
    <3> HIDE DEF rx
    <3>2. rx.type \in Types
      BY <3>1 DEF RxType
    <3>3. Frags(rx.type) \in Nat \ {0}
      BY HandshakeAssumption DEF Frags
    <3> QED
      BY <1>4, <3>1, <3>3 DEF Complete
  <2> HIDE DEF o, rx, r
  <2>3. Handle(o, rx).hs.live
    BY <2>1 DEF r
  <2>4. PICK m : Replied(o.hs, r.hs, m)
    BY <1>2, <2>1, <2>2, <2>3, HandleTurns
  <2>5. /\ r.hs \in LiveHs /\ Alike(o.hs, r.hs)
        /\ r.hs.staged # {} /\ r.hs.owe_tx = TRUE /\ r.hs.progressed = TRUE
    BY <2>4 DEF Replied
  <2> QED
    BY <1>1, <2>5 DEF o, r
<1>5. CASE Readable(o, f.msg) /\ ~Complete(rx)
  <2> DEFINE c == [o.hs EXCEPT !.rx = rx]
  <2>1. r = [o EXCEPT !.hs = c]
    BY <1>1, <1>5 DEF Dispatch
  <2>2. rx \in RxType
    <3> HIDE DEF o
    <3> QED
      BY <1>2, LiveFields, ReassembleType
  <2> HIDE DEF o, rx, r
  <2>3. /\ c \in LiveHs /\ Alike(o.hs, c) /\ c.staged = o.hs.staged
        /\ c.owe_tx = o.hs.owe_tx /\ c.progressed = o.hs.progressed
    BY <1>2, <2>2 DEF LiveHs, Alike
  <2> HIDE DEF c
  <2>4. r.hs = c
    BY <1>2, <2>1 DEF NodeType
  <2> QED
    BY <1>1, <2>3, <2>4 DEF o, r
<1> QED
  BY <1>3, <1>4, <1>5

\* A settled slot leaves the debt, and nothing else of what happened in it
\* (lg_join_event_finish).
LEMMA FinishFields ==
  ASSUME NEW e, NEW n \in NodeType, Finish(e, n).hs.live
  PROVE  LET m == Finish(e, n)
         IN /\ n.hs.live /\ n.hs \in LiveHs /\ m.hs \in LiveHs /\ m \in NodeType
            /\ m.hs.owe_tx = Debt(n.hs) /\ m.hs.progressed = FALSE
            /\ m.hs.staged = n.hs.staged /\ m.hs.idle = Idle(n.hs)
            /\ m.hs.age = n.hs.age /\ m.hs.was_tx = n.hs.was_tx
            /\ m.hs.skip = n.hs.skip /\ m.hs.aligned = n.hs.aligned
            /\ m.hs.resuming = n.hs.resuming /\ m.key = n.key
<1> DEFINE m == Finish(e, n)
           owe == Debt(n.hs)
           idle == Idle(n.hs)
           c == [n.hs EXCEPT !.owe_tx = owe, !.idle = idle,
                             !.slot_refused = FALSE, !.progressed = FALSE]
<1>1. n.hs.live /\ m = [n EXCEPT !.hs = c]
  <2>1. m.hs # NoHs
    BY NoneFields
  <2>2. n.hs.live
    <3>1. ~n.hs.live => m = n /\ n.hs = NoHs
      BY LiveCases DEF Finish
    <3> QED
      BY <2>1, <3>1
  <2>3. m # Fail(n) /\ m # Establish(n)
    BY <2>1, NoneFields
  <2> QED
    BY <2>2, <2>3 DEF Finish
<1>2. n.hs \in LiveHs
  BY <1>1, LiveCases
<1>3. owe \in BOOLEAN /\ idle \in Nat
  <2>1. owe \in BOOLEAN
    BY <1>2, LiveFields DEF Debt
  <2>2. n.hs.idle \in Nat
    BY <1>2, LiveFields
  <2>3. idle \in Nat
    BY <2>2 DEF Idle
  <2> QED
    BY <2>1, <2>3
<1> HIDE DEF owe, idle
<1>4. /\ c \in LiveHs /\ c.owe_tx = owe /\ c.progressed = FALSE
      /\ c.staged = n.hs.staged /\ c.idle = idle
      /\ c.age = n.hs.age /\ c.was_tx = n.hs.was_tx
      /\ c.skip = n.hs.skip /\ c.aligned = n.hs.aligned /\ c.resuming = n.hs.resuming
  BY <1>2, <1>3 DEF LiveHs
<1> HIDE DEF c, m
<1>5. m.hs = c /\ m \in NodeType /\ m.key = n.key
  BY <1>1, <1>4 DEF NodeType
<1> QED
  BY <1>1, <1>2, <1>4, <1>5 DEF owe, idle, m

\* Whether an end will owe a message in the next slot, if it hears nothing more
\* in this one.  h is its context and s how far it is.
OwesNext(h, s) ==
  \/ s = "wait" /\ ~h.owe_tx /\ h.staged # {}
  \/ s = "listen" /\ (h.progressed \/ h.staged # {})
  \/ s = "done" /\ h.owe_tx

\* The context of end e: what it has to say is owed, a listener owes only what
\* it has just answered, and a router that has settled a slot before its first
\* own one has answered in it.
InTurn(e, h, s) ==
  /\ h.progressed => h.owe_tx
  /\ h.owe_tx => h.staged # {}
  /\ s = "listen" => ~h.was_tx /\ (h.owe_tx => h.progressed)
  /\ e = Joiner => h.staged # {}
  /\ e = Router =>
       /\ s = "wait" => h.age # 0
       /\ s = "listen" /\ h.age = 0 /\ h.staged # {} => h.progressed

\* The ends take turns: they do not both owe a message in this slot or in the
\* next, and one of them owes one in the next as soon as the router has one.
Alternate(j, sj, r, sr) ==
  /\ ~(j.owe_tx /\ r.owe_tx)
  /\ ~(OwesNext(j, sj) /\ OwesNext(r, sr))
  /\ OwesNext(j, sj) \/ OwesNext(r, sr) \/ r.staged = {}

EachInTurn == \A e \in Ends : node[e].hs.live => InTurn(e, node[e].hs, sub[e])

\* Whoever has something on its way to it has a peer whose slot is over.
AirInTurn ==
  \A e \in Ends : air[e] # <<>> => sub[Other(e)] = "done" /\ ~Owes(Other(e))

Alternating ==
  node[Joiner].hs.live /\ node[Router].hs.live /\ node[Router].hs.aligned =>
    Alternate(node[Joiner].hs, sub[Joiner], node[Router].hs, sub[Router])

Turns == EachInTurn /\ AirInTurn /\ Alternating

TurnsInv == drops = 0 => Turns

\* A record, an end and a mark after a step of one end.
LEMMA OneEnd ==
  ASSUME Typed, NEW e \in Ends, NEW n, NEW s,
         node' = [node EXCEPT ![e] = n], sub' = [sub EXCEPT ![e] = s]
  PROVE  /\ node'[e] = n /\ node'[Other(e)] = node[Other(e)]
         /\ sub'[e] = s /\ sub'[Other(e)] = sub[Other(e)]
         /\ \A o \in Ends : o = e \/ o = Other(e)
  BY TwoEnds DEF Typed

\* What an end does with its slot keeps turns, if its own context stays in turn
\* and alternates with the other's, and only an end that is done has sent.
LEMMA EndTurns ==
  ASSUME Typed, Turns, NEW e \in Ends, sub[e] # "done", NEW n, NEW s,
         node' = [node EXCEPT ![e] = n], sub' = [sub EXCEPT ![e] = s],
         n.hs.live => InTurn(e, n.hs, s),
         air'[e] # <<>> => air[e] # <<>>,
         air'[Other(e)] # <<>> =>
           air[Other(e)] # <<>> \/ (s = "done" /\ ~(n.hs.live /\ n.hs.owe_tx)),
         e = Joiner /\ n.hs.live /\ node[Router].hs.live /\ node[Router].hs.aligned =>
           Alternate(n.hs, s, node[Router].hs, sub[Router]),
         e = Router /\ n.hs.live /\ n.hs.aligned /\ node[Joiner].hs.live =>
           Alternate(node[Joiner].hs, sub[Joiner], n.hs, s)
  PROVE  Turns'
<1>1. /\ node'[e] = n /\ node'[Other(e)] = node[Other(e)]
      /\ sub'[e] = s /\ sub'[Other(e)] = sub[Other(e)]
      /\ \A o \in Ends : o = e \/ o = Other(e)
  BY OneEnd
<1>2. EachInTurn'
  BY <1>1, TwoEnds DEF Turns, EachInTurn
<1>3. AirInTurn'
  <2>1. air[Other(e)] = <<>>
    BY TwoEnds DEF Turns, AirInTurn
  <2>2. air'[e] # <<>> => sub'[Other(e)] = "done" /\ ~Owes(Other(e))'
    BY <1>1 DEF Turns, AirInTurn, Owes
  <2>3. air'[Other(e)] # <<>> => sub'[e] = "done" /\ ~Owes(e)'
    BY <1>1, <2>1 DEF Owes
  <2>4. Other(Other(e)) = e
    BY TwoEnds
  <2> QED
    BY <1>1, <2>2, <2>3, <2>4 DEF AirInTurn
<1>4. Alternating'
  <2>1. CASE e = Joiner
    BY <1>1, <2>1, TwoEnds DEF Alternating
  <2>2. CASE e = Router
    BY <1>1, <2>2, TwoEnds DEF Alternating
  <2> QED
    BY <2>1, <2>2, TwoEnds
<1> QED
  BY <1>2, <1>3, <1>4 DEF Turns

\* A context that owes next what it owed next before, and owes nothing now that
\* the other does, still alternates.
LEMMA StillAlternate ==
  ASSUME Turns, NEW e \in Ends, node[e].hs.live, NEW h, NEW s,
         OwesNext(h, s) <=> OwesNext(node[e].hs, sub[e]), h.staged = node[e].hs.staged,
         h.owe_tx => ~(node[Other(e)].hs.live /\ node[Other(e)].hs.owe_tx)
  PROVE  /\ e = Joiner /\ node[Router].hs.live /\ node[Router].hs.aligned =>
              Alternate(h, s, node[Router].hs, sub[Router])
         /\ e = Router /\ node[e].hs.aligned /\ node[Joiner].hs.live =>
              Alternate(node[Joiner].hs, sub[Joiner], h, s)
<1>1. CASE e = Joiner
  BY <1>1, TwoEnds DEF Turns, Alternating, Alternate
<1>2. CASE e = Router
  BY <1>2, TwoEnds DEF Turns, Alternating, Alternate
<1> QED
  BY <1>1, <1>2, TwoEnds

\* A slot in which the end listens.
LEMMA ListenTurns ==
  ASSUME Safe, Turns, NEW e \in Ends, Listen(e) PROVE Turns'
<1> DEFINE n == node[e]
           c == [n.hs EXCEPT !.was_tx = FALSE]
           m == [n EXCEPT !.hs = c]
<1>1. /\ sub[e] = "wait" /\ n.hs.live /\ ~n.hs.owe_tx /\ air' = air
      /\ node' = [node EXCEPT ![e] = m] /\ sub' = [sub EXCEPT ![e] = "listen"]
  BY DEF Listen, Due, Put, Mark
<1>2. Typed /\ n \in NodeType
  BY DEF Safe, Typed
<1>3. InTurn(e, n.hs, "wait")
  BY <1>1 DEF Turns, EachInTurn
<1> HIDE DEF n
<1>4. n.hs \in LiveHs
  BY <1>1, <1>2, LiveCases
<1>5. /\ c.staged = n.hs.staged /\ c.owe_tx = n.hs.owe_tx /\ c.progressed = n.hs.progressed
      /\ c.age = n.hs.age /\ c.aligned = n.hs.aligned /\ c.was_tx = FALSE
  BY <1>4 DEF LiveHs
<1> HIDE DEF c
<1>6. m.hs = c
  BY <1>2 DEF NodeType
<1> HIDE DEF m
<1>7. InTurn(e, m.hs, "listen")
  BY <1>1, <1>3, <1>5, <1>6 DEF InTurn
<1>8. OwesNext(m.hs, "listen") <=> OwesNext(n.hs, "wait")
  BY <1>1, <1>3, <1>5, <1>6 DEF InTurn, OwesNext
<1>9. /\ e = Joiner /\ node[Router].hs.live /\ node[Router].hs.aligned =>
           Alternate(m.hs, "listen", node[Router].hs, sub[Router])
      /\ e = Router /\ m.hs.aligned /\ node[Joiner].hs.live =>
           Alternate(node[Joiner].hs, sub[Joiner], m.hs, "listen")
  BY <1>1, <1>5, <1>6, <1>8, StillAlternate DEF n
<1> QED
  BY <1>1, <1>2, <1>7, <1>9, EndTurns

\* A router that has no handshake listens.
LEMMA OpenWindowTurns ==
  ASSUME Safe, Turns, OpenWindow PROVE Turns'
<1>1. /\ sub[Router] = "wait" /\ ~node[Router].hs.live /\ air' = air
      /\ sub' = [sub EXCEPT ![Router] = "listen"] /\ node' = node
  BY DEF OpenWindow, Mark
<1>2. Typed /\ node' = [node EXCEPT ![Router] = node[Router]]
  BY <1>1 DEF Safe, Typed
<1> QED
  BY <1>1, <1>2, EndTurns, TwoEnds

\* A message goes on air.
LEMMA TransmitTurns ==
  ASSUME Safe, Turns, NEW e \in Ends, Transmit(e) PROVE Turns'
<1> DEFINE n == node[e]
           c == [n.hs EXCEPT !.was_tx = TRUE]
           m == [n EXCEPT !.hs = c]
           r == Finish(e, m)
<1>1. /\ sub[e] = "wait" /\ n.hs.live /\ n.hs.owe_tx
      /\ node' = [node EXCEPT ![e] = r] /\ sub' = [sub EXCEPT ![e] = "done"]
  BY DEF Transmit, Due, Put, Mark
<1>2. Typed /\ n \in NodeType /\ air \in [Ends -> Seq(Fragment)]
  BY DEF Safe, Typed
<1>3. air'[e] = air[e]
  BY <1>2, TwoEnds DEF Transmit
<1>4. InTurn(e, n.hs, "wait")
  BY <1>1 DEF Turns, EachInTurn
<1> HIDE DEF n
<1>5. n.hs \in LiveHs
  BY <1>1, <1>2, LiveCases
<1>6. /\ c \in LiveHs /\ c.staged = n.hs.staged /\ c.was_tx = TRUE
      /\ c.age = n.hs.age /\ c.aligned = n.hs.aligned
  BY <1>5 DEF LiveHs
<1> HIDE DEF c
<1>7. m.hs = c /\ m \in NodeType
  BY <1>2, <1>6 DEF NodeType
<1> HIDE DEF m
<1>8. r.hs.live =>
        /\ r.hs.owe_tx = FALSE /\ r.hs.progressed = FALSE /\ r.hs.staged = n.hs.staged
        /\ r.hs.aligned = n.hs.aligned /\ r.hs.age = n.hs.age
  <2>1. Debt(m.hs) = FALSE
    BY <1>6, <1>7 DEF Debt
  <2> QED
    BY <1>6, <1>7, <2>1, FinishFields
<1> HIDE DEF r
<1>9. r.hs.live => InTurn(e, r.hs, "done")
  BY <1>4, <1>8 DEF InTurn
<1>10. r.hs.live =>
         /\ e = Joiner /\ node[Router].hs.live /\ node[Router].hs.aligned =>
              Alternate(r.hs, "done", node[Router].hs, sub[Router])
         /\ e = Router /\ r.hs.aligned /\ node[Joiner].hs.live =>
              Alternate(node[Joiner].hs, sub[Joiner], r.hs, "done")
  <2> SUFFICES ASSUME r.hs.live
               PROVE  /\ e = Joiner /\ node[Router].hs.live /\ node[Router].hs.aligned =>
                           Alternate(r.hs, "done", node[Router].hs, sub[Router])
                      /\ e = Router /\ r.hs.aligned /\ node[Joiner].hs.live =>
                           Alternate(node[Joiner].hs, sub[Joiner], r.hs, "done")
    OBVIOUS
  <2>1. OwesNext(r.hs, "done") <=> OwesNext(n.hs, "wait")
    BY <1>1, <1>8 DEF OwesNext
  <2> QED
    BY <1>1, <1>8, <2>1, StillAlternate DEF n
<1> QED
  BY <1>1, <1>2, <1>3, <1>8, <1>9, <1>10, EndTurns

\* A receive window closes.
LEMMA CloseTurns ==
  ASSUME Safe, Turns, NEW e \in Ends, Close(e) PROVE Turns'
<1> DEFINE n == node[e]
           r == Finish(e, n)
           o == node[Other(e)]
<1>1. /\ sub[e] = "listen" /\ air' = air /\ sub' = [sub EXCEPT ![e] = "done"]
      /\ sub[Other(e)] = "wait" /\ o.hs.live => ~o.hs.owe_tx
      /\ node' = [node EXCEPT ![e] = r] \/ (e = Router /\ n.hs.live /\ n.hs.age = 0 /\ node' = node)
  BY DEF Close, Due, Put, Mark
<1>2. Typed /\ n \in NodeType /\ Other(e) \in Ends /\ sub[Other(e)] \in {"wait", "listen", "done"}
  BY TwoEnds DEF Safe, Typed
<1>3. n.hs.live => InTurn(e, n.hs, "listen")
  BY <1>1 DEF Turns, EachInTurn
<1>4. o.hs.live => InTurn(Other(e), o.hs, sub[Other(e)])
  BY <1>2 DEF Turns, EachInTurn
<1>5. o.hs.live /\ o.hs.owe_tx => OwesNext(o.hs, sub[Other(e)])
  BY <1>1, <1>2, <1>4 DEF InTurn, OwesNext
<1>6. n.hs.live /\ o.hs.live /\ node[Router].hs.aligned =>
        ~(OwesNext(n.hs, "listen") /\ OwesNext(o.hs, sub[Other(e)]))
  BY <1>1, TwoEnds DEF Turns, Alternating, Alternate
<1>7. CASE node' = [node EXCEPT ![e] = r]
  <2> HIDE DEF n
  <2>1. r.hs.live =>
          /\ n.hs.live /\ r.hs.owe_tx = Debt(n.hs) /\ r.hs.progressed = FALSE
          /\ r.hs.staged = n.hs.staged /\ r.hs.aligned = n.hs.aligned
    BY <1>2, FinishFields
  <2> HIDE DEF r, o
  <2>2. r.hs.live => (r.hs.owe_tx <=> OwesNext(n.hs, "listen"))
    BY <1>3, <2>1 DEF InTurn, OwesNext, Debt
  <2>3. r.hs.live => InTurn(e, r.hs, "done")
    BY <1>3, <2>1, <2>2 DEF InTurn, OwesNext
  <2>4. r.hs.live =>
          /\ e = Joiner /\ node[Router].hs.live /\ node[Router].hs.aligned =>
               Alternate(r.hs, "done", node[Router].hs, sub[Router])
          /\ e = Router /\ r.hs.aligned /\ node[Joiner].hs.live =>
               Alternate(node[Joiner].hs, sub[Joiner], r.hs, "done")
    <3>1. CASE e = Joiner
      <4> SUFFICES ASSUME r.hs.live, o.hs.live, node[Router].hs.aligned
                   PROVE  Alternate(r.hs, "done", o.hs, sub[Other(e)])
        BY <3>1, TwoEnds DEF o
      <4>1. Alternate(n.hs, "listen", o.hs, sub[Other(e)])
        BY <1>1, <2>1, <3>1, TwoEnds DEF Turns, Alternating, n, o
      <4>2. OwesNext(r.hs, "done") <=> OwesNext(n.hs, "listen")
        BY <2>2 DEF OwesNext
      <4> QED
        BY <1>5, <1>6, <2>1, <2>2, <4>1, <4>2 DEF Alternate
    <3>2. CASE e = Router
      <4> SUFFICES ASSUME r.hs.live, o.hs.live, r.hs.aligned
                   PROVE  Alternate(o.hs, sub[Other(e)], r.hs, "done")
        BY <3>2, TwoEnds DEF o
      <4>1. Alternate(o.hs, sub[Other(e)], n.hs, "listen") /\ node[Router].hs.aligned
        BY <1>1, <2>1, <3>2, TwoEnds DEF Turns, Alternating, n, o
      <4>2. OwesNext(r.hs, "done") <=> OwesNext(n.hs, "listen")
        BY <2>2 DEF OwesNext
      <4> QED
        BY <1>5, <1>6, <2>1, <2>2, <4>1, <4>2 DEF Alternate
    <3> QED
      BY <3>1, <3>2, TwoEnds
  <2> QED
    BY <1>1, <1>2, <1>7, <2>3, <2>4, EndTurns
<1>8. CASE e = Router /\ n.hs.live /\ n.hs.age = 0 /\ node' = node
  <2>1. node' = [node EXCEPT ![e] = n]
    BY <1>2, <1>8 DEF Typed
  <2>2. OwesNext(n.hs, "done") <=> OwesNext(n.hs, "listen")
    BY <1>3, <1>8 DEF InTurn, OwesNext
  <2>3. InTurn(e, n.hs, "done")
    BY <1>3, <1>8, TwoEnds DEF InTurn
  <2>4. n.hs.aligned /\ node[Joiner].hs.live =>
          Alternate(node[Joiner].hs, sub[Joiner], n.hs, "done")
    BY <1>1, <1>8, <2>2, TwoEnds DEF Turns, Alternating, Alternate
  <2> QED
    BY <1>1, <1>2, <1>8, <2>1, <2>3, <2>4, EndTurns, TwoEnds
<1> QED
  BY <1>1, <1>7, <1>8

\* A fragment that is heard.
LEMMA HearTurns ==
  ASSUME Safe, Counted, Turns, NEW e \in Ends, Hear(e) PROVE Turns'
<1> DEFINE f == Head(air[e])
           n == node[e]
           o == Opened(n, f)
           r == Dispatch(n, f)
<1>1. /\ sub[e] = "listen" /\ air[e] # <<>>
      /\ air' = [air EXCEPT ![e] = Tail(air[e])] /\ sub' = sub
      /\ node' = [node EXCEPT ![e] = r]
  BY DEF Hear, Put
<1>2. /\ Typed /\ n \in NodeType /\ attempts \in Nat /\ derived \in Nat
      /\ air[e] \in Seq(Fragment) /\ Heard(e, air[e], derived)
  BY EndFacts DEF Safe, Typed
<1>3. f \in Fragment /\ f = air[e][1] /\ 1 \in DOMAIN air[e]
  BY <1>1, <1>2, TailGood
<1>4. f.msg.type \in Says(Other(e))
  BY <1>2, <1>3 DEF Heard
<1>5. n.hs.live => InTurn(e, n.hs, "listen")
  BY <1>1 DEF Turns, EachInTurn
<1>6. sub[Other(e)] = "done" /\ ~Owes(Other(e))
  BY <1>1 DEF Turns, AirInTurn
<1>7. sub' = [sub EXCEPT ![e] = "listen"] /\ air'[Other(e)] = air[Other(e)]
  BY <1>1, <1>2, TwoEnds DEF Typed
<1> HIDE DEF f, n
<1>8. r.hs.live =>
        /\ o.hs.live /\ r.hs \in LiveHs /\ Alike(o.hs, r.hs)
        /\ \/ /\ r.hs.staged = o.hs.staged /\ r.hs.owe_tx = o.hs.owe_tx
              /\ r.hs.progressed = o.hs.progressed
           \/ r.hs.staged # {} /\ r.hs.owe_tx = TRUE /\ r.hs.progressed = TRUE
  BY <1>2, <1>3, DispatchTurns
<1>9. o.hs.live =>
        \/ n.hs.live /\ o = n
        \/ /\ ~n.hs.live /\ e = Router
           /\ o.hs.staged = {} /\ o.hs.owe_tx = FALSE /\ o.hs.progressed = FALSE
           /\ o.hs.was_tx = FALSE /\ o.hs.age = 0
  <2>1. CASE n.hs.live
    BY <1>2, <1>3, <2>1, OpenedFields
  <2>2. CASE ~n.hs.live
    <3> SUFFICES ASSUME o.hs.live
                 PROVE  /\ e = Router
                        /\ o.hs.staged = {} /\ o.hs.owe_tx = FALSE /\ o.hs.progressed = FALSE
                        /\ o.hs.was_tx = FALSE /\ o.hs.age = 0
      BY <2>2
    <3>1. o.hs = NewHs(f.msg.type = "RESUME_REQ", f.idx)
      BY <1>2, <1>3, <2>2, OpenedFields
    <3>2. f.msg.type \in Requests
      BY <2>2 DEF Opened
    <3>3. e = Router
      BY <1>4, <3>2, TwoEnds DEF Says, Requests
    <3> QED
      BY <3>1, <3>3 DEF NewHs
  <2> QED
    BY <2>1, <2>2
<1> HIDE DEF o, r
<1>10. r.hs.live => InTurn(e, r.hs, "listen")
  <2> SUFFICES ASSUME r.hs.live PROVE InTurn(e, r.hs, "listen")
    OBVIOUS
  <2>1. r.hs.was_tx = o.hs.was_tx /\ r.hs.age = o.hs.age
    BY <1>8 DEF Alike
  <2>2. CASE n.hs.live /\ o = n
    BY <1>5, <1>8, <2>1, <2>2 DEF InTurn
  <2>3. CASE ~(n.hs.live /\ o = n)
    BY <1>8, <1>9, <2>1, <2>3, TwoEnds DEF InTurn
  <2> QED
    BY <2>2, <2>3
<1>11. e = Joiner /\ r.hs.live /\ node[Router].hs.live /\ node[Router].hs.aligned =>
         Alternate(r.hs, "listen", node[Router].hs, sub[Router])
  <2> SUFFICES ASSUME e = Joiner, r.hs.live, node[Router].hs.live
               PROVE  Alternate(r.hs, "listen", node[Router].hs, sub[Router])
    OBVIOUS
  <2>1. sub[Router] = "done" /\ ~node[Router].hs.owe_tx
    BY <1>6, TwoEnds DEF Owes
  <2>2. r.hs.staged # {}
    BY <1>10 DEF InTurn
  <2> QED
    BY <2>1, <2>2 DEF Alternate, OwesNext
<1>12. e = Router /\ r.hs.live /\ r.hs.aligned /\ node[Joiner].hs.live =>
         Alternate(node[Joiner].hs, sub[Joiner], r.hs, "listen")
  <2> SUFFICES ASSUME e = Router, r.hs.live, r.hs.aligned, node[Joiner].hs.live
               PROVE  Alternate(node[Joiner].hs, sub[Joiner], r.hs, "listen")
    OBVIOUS
  <2>1. sub[Joiner] = "done" /\ ~node[Joiner].hs.owe_tx
    BY <1>6, TwoEnds DEF Owes
  <2>2. OwesNext(r.hs, "listen") \/ r.hs.staged = {}
    BY DEF OwesNext
  <2> QED
    BY <2>1, <2>2 DEF Alternate, OwesNext
<1> QED
  BY <1>1, <1>2, <1>7, <1>10, <1>11, <1>12, EndTurns

\* A fragment that is not.
LEMMA MissTurns ==
  ASSUME Safe, Turns, NEW e \in Ends, Miss(e) PROVE Turns'
<1>1. /\ air[e] # <<>> /\ air' = [air EXCEPT ![e] = Tail(air[e])]
      /\ node' = node /\ sub' = sub /\ air \in [Ends -> Seq(Fragment)]
  BY DEF Miss, Safe, Typed
<1>2. \A o \in Ends : air'[o] # <<>> => air[o] # <<>>
  BY <1>1
<1> QED
  BY <1>1, <1>2 DEF Turns, EachInTurn, AirInTurn, Alternating, Owes

\* The next slot begins.
LEMMA NextSlotTurns ==
  ASSUME Safe, Turns, NextSlot PROVE Turns'
<1> DEFINE n(e) == node[e]
           c(e) == [n(e).hs EXCEPT !.age = NextIndex(n(e).hs.age)]
<1>1. /\ \A e \in Ends : n(e).hs.live => sub[e] = "done"
      /\ \A e \in Ends : sub'[e] = "wait" /\ air'[e] = <<>>
      /\ \A e \in Ends : node'[e] = IF n(e).hs.live THEN [n(e) EXCEPT !.hs = c(e)] ELSE n(e)
  BY DEF NextSlot
<1>2. \A e \in Ends : n(e) \in NodeType
  BY DEF Safe, Typed
<1>3. ASSUME NEW e \in Ends
      PROVE  /\ node'[e].hs.live <=> n(e).hs.live
             /\ n(e).hs.live =>
                  /\ node'[e].hs.staged = n(e).hs.staged /\ node'[e].hs.owe_tx = n(e).hs.owe_tx
                  /\ node'[e].hs.progressed = n(e).hs.progressed
                  /\ node'[e].hs.aligned = n(e).hs.aligned
                  /\ node'[e].hs.age # 0
  <2> SUFFICES ASSUME n(e).hs.live
               PROVE  /\ node'[e].hs.live = TRUE
                      /\ node'[e].hs.staged = n(e).hs.staged /\ node'[e].hs.owe_tx = n(e).hs.owe_tx
                      /\ node'[e].hs.progressed = n(e).hs.progressed
                      /\ node'[e].hs.aligned = n(e).hs.aligned
                      /\ node'[e].hs.age # 0
    BY <1>1
  <2>1. n(e).hs \in LiveHs
    BY <1>2, LiveCases
  <2>2. NextIndex(n(e).hs.age) \in Nat /\ NextIndex(n(e).hs.age) # 0
    <3>1. n(e).hs.age \in Nat
      BY <2>1, LiveFields
    <3> QED
      BY <3>1, HandshakeAssumption DEF NextIndex
  <2>3. /\ c(e) \in LiveHs /\ c(e).age = NextIndex(n(e).hs.age) /\ c(e).staged = n(e).hs.staged
        /\ c(e).owe_tx = n(e).hs.owe_tx /\ c(e).progressed = n(e).hs.progressed
        /\ c(e).aligned = n(e).hs.aligned
    <3> HIDE DEF n
    <3> QED
      BY <2>1, <2>2 DEF LiveHs
  <2>4. node'[e] = [n(e) EXCEPT !.hs = c(e)]
    BY <1>1
  <2> HIDE DEF c
  <2>5. node'[e].hs = c(e)
    BY <1>2, <2>4 DEF NodeType
  <2> QED
    BY <2>2, <2>3, <2>5, LiveFields
<1>4. EachInTurn'
  <2> SUFFICES ASSUME NEW e \in Ends, node'[e].hs.live PROVE InTurn(e, node'[e].hs, sub'[e])
    BY DEF EachInTurn
  <2>1. n(e).hs.live /\ InTurn(e, n(e).hs, "done")
    BY <1>1, <1>3 DEF Turns, EachInTurn
  <2>2. sub'[e] = "wait"
    BY <1>1
  <2> QED
    BY <1>3, <2>1, <2>2 DEF InTurn
<1>5. AirInTurn'
  BY <1>1 DEF AirInTurn
<1>6. Alternating'
  <2> SUFFICES ASSUME node'[Joiner].hs.live, node'[Router].hs.live, node'[Router].hs.aligned
               PROVE  Alternate(node'[Joiner].hs, "wait", node'[Router].hs, "wait")
    BY <1>1, TwoEnds DEF Alternating
  <2>1. n(Joiner).hs.live /\ n(Router).hs.live /\ n(Router).hs.aligned
    BY <1>3, TwoEnds
  <2>2. Alternate(n(Joiner).hs, "done", n(Router).hs, "done")
    BY <1>1, <2>1, TwoEnds DEF Turns, Alternating
  <2>3. n(Joiner).hs.staged # {}
    BY <2>1, TwoEnds DEF Turns, EachInTurn, InTurn
  <2> QED
    BY <1>3, <2>1, <2>2, <2>3, TwoEnds DEF Alternate, OwesNext
<1> QED
  BY <1>4, <1>5, <1>6 DEF Turns

\* The joiner starts an attempt.
LEMMA StartTurns ==
  ASSUME Safe, Counted, Turns, Start PROVE Turns'
<1> DEFINE n == node[Joiner]
           first == [type |-> IF n.has_ltk THEN "RESUME_REQ" ELSE "JOIN_REQ",
                     key |-> NoKey, attempt |-> attempts + 1]
           hs == Stage(NewHs(n.has_ltk, 0), first)
           r == node[Router]
           c == [r.hs EXCEPT !.aligned = FALSE]
<1>1. /\ \A e \in Ends : sub[e] = "wait"
      /\ air' = air /\ sub' = sub
      /\ node' = [node EXCEPT ![Joiner] = [n EXCEPT !.state = "JOINING", !.hs = hs],
                              ![Router] = IF r.hs.live THEN [r EXCEPT !.hs = c] ELSE r]
  BY TwoEnds DEF Start, Between
<1>2. Typed /\ n \in NodeType /\ r \in NodeType
  BY TwoEnds DEF Safe, Typed
<1>3. \A e \in Ends : air[e] = <<>>
  BY <1>1, TwoEnds DEF Turns, AirInTurn
<1>4. /\ node'[Joiner] = [n EXCEPT !.state = "JOINING", !.hs = hs]
      /\ node'[Router] = IF r.hs.live THEN [r EXCEPT !.hs = c] ELSE r
  BY <1>1, <1>2, TwoEnds DEF Typed
<1>5. hs.staged # {} /\ hs.owe_tx = TRUE
  BY DEF Stage, NewHs
<1> HIDE DEF hs
<1>6. node'[Joiner].hs = hs
  BY <1>2, <1>4 DEF NodeType
<1>7. InTurn(Joiner, hs, "wait")
  BY <1>5, TwoEnds DEF InTurn
<1>8. node'[Router].hs.live =>
        InTurn(Router, node'[Router].hs, "wait") /\ ~node'[Router].hs.aligned
  <2> SUFFICES ASSUME node'[Router].hs.live
               PROVE  InTurn(Router, node'[Router].hs, "wait") /\ ~node'[Router].hs.aligned
    OBVIOUS
  <2>1. r.hs.live
    BY <1>4
  <2>2. r.hs \in LiveHs /\ node'[Router] = [r EXCEPT !.hs = c]
    BY <1>2, <1>4, <2>1, LiveCases
  <2>3. InTurn(Router, r.hs, "wait")
    BY <1>1, <2>1, TwoEnds DEF Turns, EachInTurn
  <2> HIDE DEF r
  <2>4. /\ c.owe_tx = r.hs.owe_tx /\ c.progressed = r.hs.progressed /\ c.staged = r.hs.staged
        /\ c.age = r.hs.age /\ c.was_tx = r.hs.was_tx /\ c.aligned = FALSE
    BY <2>2 DEF LiveHs
  <2> HIDE DEF c
  <2>5. node'[Router].hs = c
    BY <1>2, <2>2 DEF NodeType
  <2> QED
    BY <2>3, <2>4, <2>5 DEF InTurn
<1>9. EachInTurn'
  BY <1>1, <1>6, <1>7, <1>8, TwoEnds DEF EachInTurn
<1>10. AirInTurn' /\ Alternating'
  BY <1>1, <1>3, <1>8 DEF AirInTurn, Alternating
<1> QED
  BY <1>9, <1>10 DEF Turns

\* A link goes down.
LEMMA LinkDownTurns ==
  ASSUME Safe, Turns, NEW e \in Ends, LinkDown(e) PROVE Turns'
<1>1. /\ \A o \in Ends : sub[o] = "wait"
      /\ node[e].state = "LINKED" /\ node' = [node EXCEPT ![e] = TearDown(node[e])]
      /\ air' = air /\ sub' = sub
  BY DEF LinkDown, Between, Put
<1>2. Typed /\ node[e] \in NodeType /\ ~node[e].hs.live
  BY <1>1, EndFacts DEF Safe, Typed, Good
<1>3. ~TearDown(node[e]).hs.live
  BY <1>2 DEF TearDown, NodeType
<1>4. sub' = [sub EXCEPT ![e] = "wait"]
  BY <1>1, <1>2 DEF Typed
<1> QED
  BY <1>1, <1>2, <1>3, <1>4, EndTurns

\* Turns are kept as long as both ends get every slot.
LEMMA StepTurns ==
  ASSUME IInv, TurnsInv, [Next]_vars PROVE TurnsInv'
<1> SUFFICES ASSUME drops' = 0 PROVE Turns'
  BY DEF TurnsInv
<1>1. Safe /\ Counted /\ drops \in Nat
  BY HandshakeAssumption DEF IInv, Counted
<1>2. drops = 0 \/ \E e \in Ends : Refused(e) \/ Late(e) \/ Displaced(e)
  BY DEF Next, Slot, Trouble, vars, counters, Start, OpenWindow, NextSlot, Transmit, Listen, Hear,
         Close, Miss, LinkDown
<1>3. ASSUME NEW e \in Ends, Refused(e) \/ Late(e) \/ Displaced(e) PROVE FALSE
  BY <1>1, <1>3 DEF Refused, Late, Displaced
<1>4. Turns
  BY <1>2, <1>3 DEF TurnsInv
<1>5. CASE UNCHANGED vars
  BY <1>4, <1>5 DEF vars, Turns, EachInTurn, AirInTurn, Alternating, Owes
<1> QED
  BY <1>1, <1>3, <1>4, <1>5, StartTurns, OpenWindowTurns, NextSlotTurns, TransmitTurns, ListenTurns,
     HearTurns, CloseTurns, MissTurns, LinkDownTurns
  DEF Next, Slot, Trouble

\* Whatever the air loses, the two ends never both owe a message, as long as
\* both get every slot (lg_join_event_finish).
THEOREM TurnsAlwaysKept == Spec => []TurnsKept
<1>1. Init => TurnsInv
  <2> SUFFICES ASSUME Init PROVE Turns
    BY DEF TurnsInv
  <2>1. \A e \in Ends : ~node[e].hs.live /\ air[e] = <<>>
    BY DEF Init, Fresh, NoHs
  <2> QED
    BY <2>1, TwoEnds DEF Turns, EachInTurn, AirInTurn, Alternating
<1>2. IInv /\ TurnsInv /\ [Next]_vars => TurnsInv'
  BY StepTurns
<1>3. TurnsInv => TurnsKept
  BY DEF TurnsInv, Turns, Alternating, Alternate, TurnsKept, Misaligned, Owes
<1> QED
  BY <1>1, <1>2, <1>3, Invariance, PTL DEF Spec

----------------------------------------------------------------------------
(* A first attempt in which nothing goes wrong.                             *)

\* Slot s of the exchange belongs to the message Said(s).
Sender(s) == IF s \in {0, 2} THEN Joiner ELSE Router
Hearer(s) == Other(Sender(s))

Said(s) ==
  [type |-> <<"JOIN_REQ", "JOIN_RSP", "JOIN_CFM", "JOIN_ACK">>[s + 1],
   key |-> IF s = 0 THEN NoKey ELSE 1, attempt |-> 1]

Length(s) == Frags(Said(s).type)

\* q is the fragments from k on.
IsRest(q, s, k) ==
  /\ q \in Seq(Fragment) /\ Len(q) = Length(s) - k
  /\ \A i \in 1 .. Len(q) : q[i] = [msg |-> Said(s), idx |-> k + i - 1]

\* rx has the fragments before k.
Part(rx, s, k) ==
  k > 0 => rx.type = Said(s).type /\ rx.parts = [i \in 0 .. k - 1 |-> Said(s)]

\* A context in slot s, whose slots are the other's.
Ctx(h, s) == h.live /\ ~h.resuming /\ h.age = s /\ h.aligned /\ h.skip = 0

IsSending(n, s, sb) ==
  /\ Ctx(n.hs, s) /\ n.hs.idle = 0 /\ n.hs.staged = {Said(s)} /\ n.hs.owe_tx
  /\ n.key = Said(s).key /\ sb = "wait"

HasSent(n, s, sb) ==
  /\ IF s = 3 THEN n.state = "LINKED"
     ELSE /\ Ctx(n.hs, s) /\ n.hs.idle <= 1 /\ n.hs.staged = {Said(s)} /\ ~n.hs.owe_tx
          /\ n.key = Said(s).key
  /\ sb = "done"

\* Nothing but the fragments before k has been heard.
Ready(n, s, k) ==
  /\ Ctx(n.hs, s) /\ n.hs.idle <= (IF s = 0 THEN 0 ELSE 1)
  /\ n.hs.staged = IF s = 0 THEN {} ELSE {Said(s - 1)}
  /\ ~n.hs.owe_tx /\ Part(n.hs.rx, s, k)
  /\ s > 0 => n.key = Said(s - 1).key

IsWaiting(n, s, k, sb) ==
  \/ s = 0 /\ k = 0 /\ n = Fresh /\ sb \in {"wait", "listen"}
  \/ /\ s > 0 \/ k > 0
     /\ Ready(n, s, k)
     /\ \/ sb = "wait" /\ k = 0
        \/ sb = "listen" /\ ~n.hs.was_tx

HasGot(n, s, sb) ==
  /\ Ctx(n.hs, s) /\ n.hs.staged = {Said(s + 1)} /\ n.hs.owe_tx
  /\ n.key = Said(s + 1).key
  /\ \/ sb = "listen" /\ n.hs.progressed /\ ~n.hs.was_tx /\ n.hs.idle <= (IF s = 0 THEN 0 ELSE 1)
     \/ sb = "done" /\ n.hs.idle = 0

Silent == \A e \in Ends : air[e] = <<>>

\* Nothing has begun; slot s before and after its message went on air, k of it
\* having been heard; the same when it is complete; and both ends are linked.
Ahead ==
  /\ attempts = 0 /\ derived = 0 /\ Silent
  /\ \A e \in Ends : node[e] = Fresh /\ sub[e] = "wait"

Before(s) ==
  LET x == Sender(s) y == Hearer(s) IN
  /\ IsSending(node[x], s, sub[x]) /\ IsWaiting(node[y], s, 0, sub[y])
  /\ Silent /\ derived = IF s = 0 THEN 0 ELSE 1

During(s, k) ==
  LET x == Sender(s) y == Hearer(s) IN
  /\ HasSent(node[x], s, sub[x]) /\ IsWaiting(node[y], s, k, sub[y])
  /\ air[x] = <<>> /\ IsRest(air[y], s, k) /\ derived = IF s = 0 THEN 0 ELSE 1

After(s) ==
  LET x == Sender(s) y == Hearer(s) IN
  /\ HasSent(node[x], s, sub[x]) /\ HasGot(node[y], s, sub[y])
  /\ Silent /\ derived = 1

Joined == Silent /\ \A e \in Ends : Linked(e)

Course ==
  \/ Ahead
  \/ /\ attempts = 1
     /\ \/ \E s \in 0 .. 3 : Before(s) \/ \E k \in 0 .. Length(s) - 1 : During(s, k)
        \/ \E s \in 0 .. 2 : After(s)
        \/ Joined

Untroubled == losses = 0 /\ drops = 0 /\ outages = 0 /\ ~missed

CourseInv == Untroubled /\ attempts <= 1 => Course

\* The limits leave room for the exchange.
Roomy == IdleLimit > 1 /\ SlotLimit > 3

\* The messages of the exchange.
LEMMA SaidFacts ==
  /\ \A s \in 0 .. 3 : /\ Said(s) \in Message /\ Said(s).attempt = 1
                       /\ Sender(s) \in Ends /\ Hearer(s) \in Ends /\ Sender(s) # Hearer(s)
                       /\ Other(Hearer(s)) = Sender(s) /\ Other(Sender(s)) = Hearer(s)
                       /\ Length(s) \in Nat \ {0}
  /\ \A s \in 0 .. 2 : /\ Sender(s + 1) = Hearer(s) /\ Hearer(s + 1) = Sender(s)
                       /\ Said(s).type \notin Parameters
  /\ Said(0).type = "JOIN_REQ" /\ Said(1).type = "JOIN_RSP" /\ Said(2).type = "JOIN_CFM"
  /\ Said(3).type = "JOIN_ACK"
  /\ Said(0).key = NoKey /\ Said(1).key = 1 /\ Said(2).key = 1 /\ Said(3).key = 1
  /\ Sender(0) = Joiner /\ Sender(1) = Router /\ Sender(2) = Joiner /\ Sender(3) = Router
<1>1. /\ Said(0) = [type |-> "JOIN_REQ", key |-> NoKey, attempt |-> 1]
      /\ Said(1) = [type |-> "JOIN_RSP", key |-> 1, attempt |-> 1]
      /\ Said(2) = [type |-> "JOIN_CFM", key |-> 1, attempt |-> 1]
      /\ Said(3) = [type |-> "JOIN_ACK", key |-> 1, attempt |-> 1]
  BY DEF Said
<1>2. {"JOIN_REQ", "JOIN_RSP", "JOIN_CFM", "JOIN_ACK"} \subseteq Types
  BY DEF Types, Requests, Secured, Parameters
<1>3. \A s \in 0 .. 3 : s = 0 \/ s = 1 \/ s = 2 \/ s = 3
  OBVIOUS
<1>4. \A s \in 0 .. 3 : Said(s) \in Message /\ Said(s).attempt = 1
  <2>1. NoKey \in Nat
    BY DEF NoKey
  <2> QED
    BY <1>1, <1>2, <1>3, <2>1 DEF Message
<1>5. Sender(0) = Joiner /\ Sender(1) = Router /\ Sender(2) = Joiner /\ Sender(3) = Router
  BY DEF Sender
<1>6. \A s \in 0 .. 3 : /\ Sender(s) \in Ends /\ Hearer(s) \in Ends /\ Sender(s) # Hearer(s)
                        /\ Other(Hearer(s)) = Sender(s) /\ Other(Sender(s)) = Hearer(s)
  BY <1>3, <1>5, TwoEnds DEF Hearer
<1>7. \A s \in 0 .. 3 : Length(s) \in Nat \ {0}
  BY <1>1, <1>3, HandshakeAssumption DEF Length, Frags
<1>8. \A s \in 0 .. 2 : Sender(s + 1) = Hearer(s) /\ Hearer(s + 1) = Sender(s)
  <2>1. \A s \in 0 .. 2 : s = 0 \/ s = 1 \/ s = 2
    OBVIOUS
  <2>2. 0 + 1 = 1 /\ 1 + 1 = 2 /\ 2 + 1 = 3
    OBVIOUS
  <2> QED
    BY <1>5, <2>1, <2>2, TwoEnds DEF Hearer
<1>9. \A s \in 0 .. 2 : Said(s).type \notin Parameters
  <2>1. \A s \in 0 .. 2 : s = 0 \/ s = 1 \/ s = 2
    OBVIOUS
  <2> QED
    BY <1>1, <2>1 DEF Parameters
<1> QED
  BY <1>1, <1>4, <1>5, <1>6, <1>7, <1>8, <1>9

\* What is left of a message on air.
LEMMA RestFacts ==
  ASSUME NEW s \in 0 .. 3
  PROVE  /\ IsRest(Fragments(Said(s)), s, 0)
         /\ \A q : IsRest(q, s, Length(s)) => q = <<>>
         /\ \A k \in 0 .. Length(s) - 1 : \A q :
              IsRest(q, s, k) =>
                /\ q # <<>> /\ Head(q) = [msg |-> Said(s), idx |-> k]
                /\ IsRest(Tail(q), s, k + 1)
<1>1. PICK l \in Nat \ {0} : l = Length(s)
  BY SaidFacts
<1>2. IsRest(Fragments(Said(s)), s, 0)
  <2>1. Fragments(Said(s)) = [i \in 1 .. l |-> [msg |-> Said(s), idx |-> i - 1]]
    BY <1>1 DEF Fragments, Length
  <2>2. Fragments(Said(s)) \in Seq(Fragment)
    BY FragmentsGood, SaidFacts
  <2>3. Len(Fragments(Said(s))) = l
    BY <2>1
  <2>4. \A i \in 1 .. l : Fragments(Said(s))[i] = [msg |-> Said(s), idx |-> 0 + i - 1]
    BY <2>1
  <2> QED
    BY <1>1, <2>2, <2>3, <2>4 DEF IsRest
<1>3. ASSUME NEW q, IsRest(q, s, l) PROVE q = <<>>
  BY <1>1, <1>3 DEF IsRest
<1>4. ASSUME NEW k \in 0 .. l - 1, NEW q, IsRest(q, s, k)
      PROVE  /\ q # <<>> /\ Head(q) = [msg |-> Said(s), idx |-> k]
             /\ IsRest(Tail(q), s, k + 1)
  <2>1. /\ q \in Seq(Fragment) /\ Len(q) = l - k /\ l - k \in Nat \ {0}
        /\ \A i \in 1 .. Len(q) : q[i] = [msg |-> Said(s), idx |-> k + i - 1]
    BY <1>1, <1>4 DEF IsRest
  <2>2. q # <<>> /\ Head(q) = q[1] /\ 1 \in 1 .. Len(q) /\ k + 1 - 1 = k
    BY <2>1
  <2>3. Tail(q) \in Seq(Fragment) /\ Len(Tail(q)) = l - (k + 1)
    BY <2>1
  <2>4. \A i \in 1 .. Len(Tail(q)) :
          /\ i + 1 \in 1 .. Len(q) /\ Tail(q)[i] = q[i + 1]
          /\ k + (i + 1) - 1 = (k + 1) + i - 1
    BY <2>1, <2>3
  <2>5. \A i \in 1 .. Len(Tail(q)) : Tail(q)[i] = [msg |-> Said(s), idx |-> (k + 1) + i - 1]
    BY <2>1, <2>4
  <2> QED
    BY <1>1, <2>1, <2>2, <2>3, <2>5 DEF IsRest
<1> QED
  BY <1>1, <1>2, <1>3, <1>4

\* Fragments of one message, heard in order.
LEMMA PartFacts ==
  ASSUME NEW s \in 0 .. 3, NEW k \in 0 .. Length(s) - 1,
         NEW rx \in RxType, Part(rx, s, k), NEW f, f = [msg |-> Said(s), idx |-> k]
  PROVE  LET g == Reassemble(rx, f)
         IN /\ f \in Fragment /\ g \in RxType /\ g.type = Said(s).type /\ Part(g, s, k + 1)
            /\ Complete(g) <=> k + 1 = Length(s)
            /\ g.parts[0] = Said(s) /\ Whole(g)
<1> DEFINE kept == IF rx.type # f.msg.type \/ f.idx = 0 THEN <<>> ELSE rx.parts
           parts == [i \in DOMAIN kept \cup {f.idx} |-> IF i = f.idx THEN f.msg ELSE kept[i]]
           g == Reassemble(rx, f)
<1>1. PICK l \in Nat \ {0} : l = Length(s)
  BY SaidFacts
<1>2. k \in Nat /\ k < l /\ f.msg = Said(s) /\ f.idx = k /\ Said(s) \in Message
  BY <1>1, SaidFacts
<1>3. f \in Fragment
  BY <1>2 DEF Fragment
<1>4. DOMAIN kept = 0 .. k - 1 /\ \A i \in 0 .. k - 1 : kept[i] = Said(s)
  <2>1. CASE k = 0
    <3>1. kept = <<>> /\ DOMAIN <<>> = {} /\ 0 .. k - 1 = {}
      BY <1>2, <2>1
    <3> HIDE DEF kept
    <3> QED
      BY <3>1
  <2>2. CASE k # 0
    <3>1. kept = [i \in 0 .. k - 1 |-> Said(s)]
      BY <1>2, <2>2 DEF Part
    <3> HIDE DEF kept
    <3> QED
      BY <3>1
  <2> QED
    BY <2>1, <2>2
<1> HIDE DEF kept
<1>5. (0 .. k - 1) \cup {k} = 0 .. k
  BY <1>2
<1>6. parts = [i \in 0 .. k |-> Said(s)]
  BY <1>2, <1>4, <1>5
<1>7. g = [type |-> Said(s).type, parts |-> parts]
  BY <1>2 DEF Reassemble, kept, parts
<1> HIDE DEF parts
<1>8. /\ g \in RxType
      /\ g.type = Said(s).type /\ g.parts = [i \in 0 .. k |-> Said(s)]
  <2>1. g \in RxType
    BY <1>3, ReassembleType
  <2> QED
    BY <1>6, <1>7, <2>1
<1> HIDE DEF g
<1>9. Part(g, s, k + 1)
  <2>1. k + 1 - 1 = k
    BY <1>2
  <2> QED
    BY <1>8, <2>1 DEF Part
<1>10. Complete(g) <=> k + 1 = l
  <2>1. Complete(g) <=> (0 .. k = 0 .. l - 1)
    BY <1>1, <1>8 DEF Complete, Length
  <2>2. (0 .. k = 0 .. l - 1) => k + 1 = l
    <3>1. l - 1 \in 0 .. l - 1 /\ (l - 1 \in 0 .. k => l - 1 <= k)
      BY <1>2
    <3> QED
      BY <1>2, <3>1
  <2>3. k + 1 = l => (0 .. k = 0 .. l - 1)
    BY <1>2
  <2> QED
    BY <2>1, <2>2, <2>3
<1>11. g.parts[0] = Said(s) /\ Whole(g)
  <2>1. 0 \in 0 .. k
    BY <1>2
  <2> QED
    BY <1>8, <2>1 DEF Whole
<1> QED
  BY <1>1, <1>3, <1>8, <1>9, <1>10, <1>11 DEF g

\* A first request finds or opens a context that is ready for its fragments.
LEMMA OpenedReady ==
  ASSUME NEW s \in 0 .. 3, NEW k \in 0 .. Length(s) - 1,
         NEW n \in NodeType, IsWaiting(n, s, k, "listen"),
         NEW f, f = [msg |-> Said(s), idx |-> k]
  PROVE  LET o == Opened(n, f)
         IN /\ o \in NodeType /\ o.hs \in LiveHs /\ o.hs.live
            /\ Ready(o, s, k) /\ ~o.hs.was_tx
<1>1. CASE s = 0 /\ k = 0 /\ n = Fresh
  <2>1. f.msg.type = "JOIN_REQ" /\ f.idx = 0 /\ f.msg.type \in Requests
    BY <1>1, SaidFacts DEF Requests
  <2> DEFINE hs == NewHs(FALSE, 0)
  <2>2. ~n.hs.live
    BY <1>1, NoneFields DEF Fresh
  <2>3. Opened(n, f) = [n EXCEPT !.hs = hs, !.state = "JOINING"]
    <3>1. (f.msg.type = "RESUME_REQ") = FALSE
      BY <2>1
    <3> QED
      BY <2>1, <2>2, <3>1 DEF Opened
  <2>4. /\ hs \in LiveHs /\ hs.resuming = FALSE /\ hs.age = 0 /\ hs.idle = 0
        /\ hs.staged = {} /\ hs.owe_tx = FALSE
    BY NewHsFields
  <2>5. hs.live = TRUE /\ hs.aligned = TRUE /\ hs.skip = 0 /\ hs.was_tx = FALSE
    BY DEF NewHs
  <2> HIDE DEF hs
  <2>6. /\ Opened(n, f) \in NodeType /\ Opened(n, f).hs = hs
    BY <2>3, <2>4 DEF NodeType, States
  <2>7. Ready(Opened(n, f), s, k)
    <3>1. Ctx(hs, s)
      BY <1>1, <2>4, <2>5 DEF Ctx
    <3>2. Part(hs.rx, s, k)
      BY <1>1 DEF Part
    <3> QED
      BY <1>1, <2>4, <2>6, <3>1, <3>2 DEF Ready
  <2> QED
    BY <2>4, <2>5, <2>6, <2>7
<1>2. CASE Ready(n, s, k) /\ ~n.hs.was_tx
  <2>1. n.hs.live
    BY <1>2 DEF Ready, Ctx
  <2>2. Opened(n, f) = n
    BY <2>1 DEF Opened
  <2> QED
    BY <1>2, <2>1, <2>2, LiveCases
<1> QED
  BY <1>1, <1>2 DEF IsWaiting

\* The slot's message is answered, or the link comes up, when all of it is there.
LEMMA HandleCourse ==
  ASSUME attempts = 1, NEW s \in 0 .. 3, derived = IF s = 0 THEN 0 ELSE 1,
         NEW o \in NodeType, o.hs \in LiveHs, NEW k, Ready(o, s, k), ~o.hs.was_tx,
         NEW rx, rx.type = Said(s).type, rx.parts[0] = Said(s), Whole(rx)
  PROVE  IF s = 3 THEN Handle(o, rx).state = "LINKED" ELSE HasGot(Handle(o, rx), s, "listen")
<1>0. /\ "JOIN_RSP" \in Types /\ "JOIN_CFM" \in Types /\ "JOIN_ACK" \in Types
      /\ s = 0 \/ s = 1 \/ s = 2 \/ s = 3
  BY DEF Types, Secured, Parameters
<1>1. ASSUME NEW a \in NodeType, s # 3, Replied(o.hs, a.hs, Said(s + 1)), a.key = Said(s + 1).key
      PROVE  HasGot(a, s, "listen")
  <2>1. /\ a.hs \in LiveHs /\ a.hs.staged = {Said(s + 1)} /\ a.hs.owe_tx = TRUE
        /\ a.hs.progressed = TRUE /\ a.hs.was_tx = o.hs.was_tx /\ a.hs.idle = o.hs.idle
    BY <1>1 DEF Replied, Alike
  <2>2. Ctx(a.hs, s)
    <3>1. a.hs.live = TRUE
      BY <2>1, LiveFields
    <3> QED
      BY <1>1, <3>1 DEF Replied, Alike, Ready, Ctx
  <2>3. o.hs.idle <= (IF s = 0 THEN 0 ELSE 1)
    BY DEF Ready
  <2> QED
    BY <1>1, <2>1, <2>2, <2>3 DEF HasGot
<1>2. \A a \in NodeType : /\ [a EXCEPT !.has_ltk = TRUE] \in NodeType
                          /\ [a EXCEPT !.has_ltk = TRUE].hs = a.hs
                          /\ [a EXCEPT !.has_ltk = TRUE].key = a.key
  BY DEF NodeType
<1>3. CASE s = 0
  <2> DEFINE a == Answer(o, 1, "JOIN_RSP", 1)
             b == [a EXCEPT !.has_ltk = TRUE]
  <2>1. Handle(o, rx) = b
    <3>1. derived + 1 = 1 /\ Said(s).attempt = 1
      BY <1>3, SaidFacts
    <3> QED
      BY <1>3, <3>1, SaidFacts DEF Handle, Parameters
  <2>2. Said(0 + 1) = [type |-> "JOIN_RSP", key |-> 1, attempt |-> 1] /\ Said(0 + 1).key = 1
    BY DEF Said
  <2>3. a \in NodeType /\ a.key = 1 /\ Replied(o.hs, a.hs, Said(0 + 1))
    BY <1>0, <2>2, AnswerFields
  <2> HIDE DEF a
  <2>4. b \in NodeType /\ b.hs = a.hs /\ b.key = a.key
    BY <1>2, <2>3
  <2> HIDE DEF b
  <2>5. s # 3 /\ Said(s + 1) = Said(0 + 1)
    BY <1>3
  <2>6. HasGot(b, s, "listen")
    BY <1>1, <2>2, <2>3, <2>4, <2>5
  <2> QED
    BY <1>3, <2>1, <2>6
<1>4. CASE s = 1
  <2> DEFINE a == Answer(o, 1, "JOIN_CFM", 1)
             b == [a EXCEPT !.has_ltk = TRUE]
  <2>1. Handle(o, rx) = b
    <3>1. Said(s).attempt = 1 /\ Said(s).key = 1
      BY <1>4, SaidFacts
    <3> QED
      BY <1>4, <3>1, SaidFacts DEF Handle, Parameters
  <2>2. Said(1 + 1) = [type |-> "JOIN_CFM", key |-> 1, attempt |-> 1] /\ Said(1 + 1).key = 1
    BY DEF Said
  <2>3. a \in NodeType /\ a.key = 1 /\ Replied(o.hs, a.hs, Said(1 + 1))
    BY <1>0, <2>2, AnswerFields
  <2> HIDE DEF a
  <2>4. b \in NodeType /\ b.hs = a.hs /\ b.key = a.key
    BY <1>2, <2>3
  <2> HIDE DEF b
  <2>5. s # 3 /\ Said(s + 1) = Said(1 + 1)
    BY <1>4
  <2>6. HasGot(b, s, "listen")
    BY <1>1, <2>2, <2>3, <2>4, <2>5
  <2> QED
    BY <1>4, <2>1, <2>6
<1>5. CASE s = 2
  <2> DEFINE a == Answer(o, 1, "JOIN_ACK", 1)
  <2>1. o.key = 1
    <3>1. o.key = Said(2 - 1).key /\ 2 - 1 = 1
      BY <1>5 DEF Ready
    <3> QED
      BY <3>1, SaidFacts
  <2>2. Handle(o, rx) = a
    BY <1>5, <2>1, SaidFacts DEF Handle, Parameters
  <2>3. Said(2 + 1) = [type |-> "JOIN_ACK", key |-> 1, attempt |-> 1] /\ Said(2 + 1).key = 1
    BY DEF Said
  <2>4. a \in NodeType /\ a.key = 1 /\ Replied(o.hs, a.hs, Said(2 + 1))
    BY <1>0, <2>3, AnswerFields
  <2> HIDE DEF a
  <2>5. HasGot(Handle(o, rx), s, "listen")
    BY <1>1, <1>5, <2>2, <2>3, <2>4
  <2> QED
    BY <1>5, <2>5
<1>6. CASE s = 3
  <2>1. Handle(o, rx) = Establish(o)
    BY <1>6, SaidFacts DEF Handle, Parameters
  <2> QED
    BY <1>6, <2>1, NoneFields
<1> QED
  BY <1>0, <1>3, <1>4, <1>5, <1>6

\* A fragment of the slot's message.
LEMMA DispatchCourse ==
  ASSUME attempts = 1, NEW s \in 0 .. 3, derived = IF s = 0 THEN 0 ELSE 1,
         NEW k \in 0 .. Length(s) - 1,
         NEW n \in NodeType, IsWaiting(n, s, k, "listen"),
         NEW f, f = [msg |-> Said(s), idx |-> k]
  PROVE  LET r == Dispatch(n, f)
         IN /\ k + 1 # Length(s) => ~Derives(n, f) /\ IsWaiting(r, s, k + 1, "listen")
            /\ k + 1 = Length(s) =>
                 /\ Derives(n, f) <=> s = 0
                 /\ IF s = 3 THEN r.state = "LINKED" ELSE HasGot(r, s, "listen")
<1> DEFINE o == Opened(n, f)
           rx == Reassemble(o.hs.rx, f)
           r == Dispatch(n, f)
<1>1. /\ o \in NodeType /\ o.hs \in LiveHs /\ o.hs.live
      /\ Ready(o, s, k) /\ ~o.hs.was_tx
  BY OpenedReady
<1>2. o.hs.rx \in RxType /\ Part(o.hs.rx, s, k)
  <2> HIDE DEF o
  <2> QED
    BY <1>1, LiveFields DEF Ready
<1>3. /\ f \in Fragment /\ rx \in RxType /\ rx.type = Said(s).type /\ Part(rx, s, k + 1)
      /\ Complete(rx) <=> k + 1 = Length(s)
      /\ rx.parts[0] = Said(s) /\ Whole(rx)
  <2> HIDE DEF o
  <2> QED
    BY <1>2, PartFacts
<1>4. f.msg = Said(s) /\ (s = 0 \/ s = 1 \/ s = 2 \/ s = 3)
  OBVIOUS
<1>5. Readable(o, f.msg)
  <2> HIDE DEF o
  <2>1. CASE s = 0 \/ s = 1
    BY <1>4, <2>1, SaidFacts DEF Readable, Secured, Parameters
  <2>2. CASE s = 2
    <3>1. 2 - 1 = 1 /\ 2 > 0
      OBVIOUS
    <3> QED
      BY <1>1, <1>4, <2>2, <3>1, SaidFacts DEF Readable, Ready
  <2>3. CASE s = 3
    <3>1. 3 - 1 = 2 /\ 3 > 0
      OBVIOUS
    <3> QED
      BY <1>1, <1>4, <2>3, <3>1, SaidFacts DEF Readable, Ready
  <2> QED
    BY <1>4, <2>1, <2>2, <2>3
<1>6. CASE k + 1 # Length(s)
  <2> DEFINE c == [o.hs EXCEPT !.rx = rx]
  <2>1. r = [o EXCEPT !.hs = c]
    BY <1>1, <1>3, <1>5, <1>6 DEF Dispatch
  <2>2. ~Derives(n, f)
    BY <1>3, <1>6 DEF Derives
  <2> HIDE DEF o, rx, r
  <2>3. /\ c \in LiveHs /\ Alike(o.hs, c) /\ c.staged = o.hs.staged
        /\ c.owe_tx = o.hs.owe_tx /\ c.rx = rx
    BY <1>1, <1>3 DEF LiveHs, Alike
  <2> HIDE DEF c
  <2>4. r.hs = c /\ r.key = o.key
    BY <1>1, <2>1, <2>3 DEF NodeType
  <2>5. Ctx(c, s) /\ ~c.was_tx /\ c.idle = o.hs.idle
    <3>1. c.live = TRUE
      BY <2>3, LiveFields
    <3> QED
      BY <1>1, <2>3, <3>1 DEF Alike, Ctx, Ready
  <2>6. Ready(r, s, k + 1)
    BY <1>1, <1>3, <2>3, <2>4, <2>5 DEF Ready
  <2>7. k + 1 > 0
    BY SaidFacts
  <2>8. IsWaiting(r, s, k + 1, "listen")
    BY <2>4, <2>5, <2>6, <2>7 DEF IsWaiting
  <2> QED
    BY <1>6, <2>2, <2>8 DEF r
<1>7. CASE k + 1 = Length(s)
  <2>1. r = Handle(o, rx)
    BY <1>1, <1>3, <1>5, <1>7 DEF Dispatch
  <2>2. Derives(n, f) <=> s = 0
    <3>1. s = 0 <=> f.msg.type = "JOIN_REQ"
      BY <1>4, SaidFacts
    <3>2. f.msg.type # "RESUME_REQ"
      BY <1>4, SaidFacts
    <3> QED
      BY <1>3, <1>7, <3>1, <3>2 DEF Derives
  <2> HIDE DEF o, rx, r
  <2>3. IF s = 3 THEN r.state = "LINKED" ELSE HasGot(r, s, "listen")
    BY <1>1, <1>3, <2>1, HandleCourse
  <2> QED
    BY <1>7, <2>2, <2>3 DEF r
<1> QED
  BY <1>6, <1>7

\* A settled slot in which the attempt is not over leaves it open.
LEMMA FinishLives ==
  ASSUME NEW e, NEW n \in NodeType, n.hs.live, ~SentParameters(e, n.hs), ~Spent(n.hs)
  PROVE  Finish(e, n).hs.live
<1> DEFINE owe == Debt(n.hs)
           idle == Idle(n.hs)
           c == [n.hs EXCEPT !.owe_tx = owe, !.idle = idle,
                             !.slot_refused = FALSE, !.progressed = FALSE]
<1>1. n.hs \in LiveHs
  BY LiveCases
<1>2. Finish(e, n) = [n EXCEPT !.hs = c]
  BY DEF Finish
<1>3. c.live = TRUE
  BY <1>1 DEF LiveHs
<1> HIDE DEF c
<1>4. Finish(e, n).hs = c
  BY <1>2 DEF NodeType
<1> QED
  BY <1>3, <1>4

\* A slot of the exchange is within the limits.
LEMMA NotSpent ==
  ASSUME Roomy, NEW s \in 0 .. 2, NEW h, Ctx(h, s), Idle(h) \in {0, 1} PROVE ~Spent(h)
<1>1. h.age = s /\ ~h.resuming
  BY DEF Ctx
<1>2. PICK i \in {0, 1} : i = Idle(h)
  OBVIOUS
<1>3. ~(i >= IdleLimit) /\ ~(s + 1 >= SlotLimit)
  BY HandshakeAssumption DEF Roomy
<1> QED
  BY <1>1, <1>2, <1>3 DEF Spent

\* What is so of a course that has begun, wherever it is.
LEMMA WaitingFacts ==
  ASSUME NEW n \in NodeType, NEW s \in 0 .. 3, NEW k, NEW sb, IsWaiting(n, s, k, sb)
  PROVE  /\ sb \in {"wait", "listen"}
         /\ n.hs.live => ~n.hs.owe_tx /\ n.hs.aligned /\ n.hs.skip = 0
         /\ ~n.hs.live => s = 0 /\ k = 0 /\ n = Fresh
         /\ sb = "wait" => k = 0
         /\ n.state # "LINKED" \/ n.hs.live
<1>1. ~Fresh.hs.live /\ Fresh.state # "LINKED"
  BY DEF Fresh, NoHs
<1> QED
  BY <1>1 DEF IsWaiting, Ready, Ctx

\* An end that owes a message in its slot is the one whose slot it is.
LEMMA CourseOwes ==
  ASSUME Safe, Course, NEW e \in Ends, Due(e), node[e].hs.owe_tx
  PROVE  attempts = 1 /\ \E s \in 0 .. 3 : Before(s) /\ e = Sender(s)
<1>1. /\ sub[e] = "wait" /\ node[e].hs.live /\ node[e] \in NodeType /\ ~Fresh.hs.live
  BY DEF Due, Safe, Typed, Fresh, NoHs
<1>2. ~Ahead
  BY <1>1 DEF Ahead
<1>3. ~Joined
  BY <1>1, EndFacts DEF Joined, Linked, Safe, Good
<1>4. ASSUME NEW s \in 0 .. 3 PROVE e = Sender(s) \/ e = Hearer(s)
  BY TwoEnds DEF Sender, Hearer
<1>5. ASSUME NEW s \in 0 .. 3, Before(s) PROVE e = Sender(s)
  <2> SUFFICES ASSUME e = Hearer(s) PROVE FALSE
    BY <1>4
  <2> QED
    BY <1>1, <1>5, WaitingFacts DEF Before
<1>6. ASSUME NEW s \in 0 .. 3, NEW k, During(s, k) PROVE FALSE
  <2>1. sub[Sender(s)] = "done"
    BY <1>6 DEF During, HasSent
  <2>2. e = Hearer(s)
    BY <1>1, <1>4, <2>1
  <2> QED
    BY <1>1, <1>6, <2>2, WaitingFacts DEF During
<1>7. ASSUME NEW s \in 0 .. 2, After(s) PROVE FALSE
  <2>1. sub[Sender(s)] = "done" /\ sub[Hearer(s)] \in {"listen", "done"}
    BY <1>7 DEF After, HasSent, HasGot
  <2>2. s \in 0 .. 3
    OBVIOUS
  <2> QED
    BY <1>1, <1>4, <2>1, <2>2
<1> QED
  BY <1>2, <1>3, <1>5, <1>6, <1>7 DEF Course

\* A listener whose air is not empty is hearing the slot's message, and one
\* that may close its window has all of it.
LEMMA CourseHears ==
  ASSUME Safe, Course, NEW e \in Ends
  PROVE  /\ air[e] # <<>> =>
              attempts = 1 /\ \E s \in 0 .. 3 : \E k \in 0 .. Length(s) - 1 :
                During(s, k) /\ e = Hearer(s)
         /\ sub[e] = "listen" /\ air[e] = <<>> /\ (Due(Other(e)) => ~node[Other(e)].hs.owe_tx)
              => \/ attempts = 1 /\ \E s \in 0 .. 2 : After(s) /\ e = Hearer(s)
                 \/ attempts = 1 /\ Joined
<1>1. ASSUME NEW s \in 0 .. 3
      PROVE  /\ e = Sender(s) \/ e = Hearer(s)
             /\ Sender(s) \in Ends /\ Hearer(s) \in Ends /\ Other(Hearer(s)) = Sender(s)
  BY SaidFacts, TwoEnds DEF Sender, Hearer
<1>2. 0 .. 2 \subseteq 0 .. 3
  OBVIOUS
<1>3. ASSUME air[e] # <<>>
      PROVE  attempts = 1 /\ \E s \in 0 .. 3 : \E k \in 0 .. Length(s) - 1 :
               During(s, k) /\ e = Hearer(s)
  <2>1. ~Silent
    BY <1>3 DEF Silent
  <2>2. PICK s \in 0 .. 3 : attempts = 1 /\ \E k \in 0 .. Length(s) - 1 : During(s, k)
    BY <2>1 DEF Course, Ahead, Before, After, Joined
  <2>3. PICK k \in 0 .. Length(s) - 1 : During(s, k)
    BY <2>2
  <2>4. e = Hearer(s)
    BY <1>1, <1>3, <2>3 DEF During
  <2> QED
    BY <2>2, <2>3, <2>4
<1>4. ASSUME sub[e] = "listen", air[e] = <<>>, Due(Other(e)) => ~node[Other(e)].hs.owe_tx
      PROVE  \/ attempts = 1 /\ \E s \in 0 .. 2 : After(s) /\ e = Hearer(s)
             \/ attempts = 1 /\ Joined
  <2>1. ~Ahead
    BY <1>4 DEF Ahead
  <2>2. ASSUME NEW s \in 0 .. 3, Before(s) PROVE FALSE
    <3>1. Due(Sender(s)) /\ node[Sender(s)].hs.owe_tx /\ sub[Sender(s)] = "wait"
      BY <2>2 DEF Before, IsSending, Due, Ctx
    <3>2. e = Hearer(s)
      BY <1>1, <1>4, <3>1
    <3> QED
      BY <1>1, <1>4, <3>1, <3>2
  <2>3. ASSUME NEW s \in 0 .. 3, NEW k \in 0 .. Length(s) - 1, During(s, k) PROVE FALSE
    <3>1. sub[Sender(s)] = "done" /\ IsRest(air[Hearer(s)], s, k)
      BY <2>3 DEF During, HasSent
    <3>2. air[Hearer(s)] # <<>>
      BY <3>1, RestFacts
    <3> QED
      BY <1>1, <1>4, <3>1, <3>2
  <2>4. ASSUME NEW s \in 0 .. 2, After(s) PROVE e = Hearer(s)
    <3>1. sub[Sender(s)] = "done"
      BY <2>4 DEF After, HasSent
    <3> QED
      BY <1>1, <1>2, <1>4, <3>1
  <2> QED
    BY <2>1, <2>2, <2>3, <2>4 DEF Course
<1> QED
  BY <1>3, <1>4

\* The slot's message goes on air.
LEMMA TransmitCourse ==
  ASSUME Safe, Roomy, Course, NEW e \in Ends, Transmit(e) PROVE Course'
<1>1. /\ Due(e) /\ node[e].hs.owe_tx /\ sub' = [sub EXCEPT ![e] = "done"]
      /\ attempts' = attempts /\ derived' = derived
  BY DEF Transmit, Mark, counters
<1>2. attempts = 1 /\ \E s \in 0 .. 3 : Before(s) /\ e = Sender(s)
  BY <1>1, CourseOwes
<1>3. PICK s \in 0 .. 3 : Before(s) /\ e = Sender(s)
  BY <1>2
<1> DEFINE y == Hearer(s)
           n == node[e]
           c == [n.hs EXCEPT !.was_tx = TRUE]
           m == [n EXCEPT !.hs = c]
           r == Finish(e, m)
<1>4. /\ y \in Ends /\ e # y /\ Other(e) = y /\ Length(s) \in Nat \ {0}
      /\ IsSending(n, s, "wait") /\ IsWaiting(node[y], s, 0, sub[y])
      /\ Silent /\ derived = IF s = 0 THEN 0 ELSE 1
  BY <1>3, SaidFacts DEF Before, IsSending
<1>5. /\ Typed /\ n \in NodeType /\ n.hs \in LiveHs
  <2>1. Typed /\ n \in NodeType
    BY DEF Safe, Typed
  <2> QED
    BY <1>1, <2>1, LiveCases DEF Due
<1>6. node' = [node EXCEPT ![e] = r] /\ air' = [air EXCEPT ![y] = Fragments(Said(s))]
  <2>1. n.hs.staged = {Said(s)}
    BY <1>4 DEF IsSending
  <2> QED
    BY <1>4, <2>1 DEF Transmit, Put
<1> HIDE DEF n
<1>7. /\ c \in LiveHs /\ c.was_tx = TRUE /\ c.staged = {Said(s)} /\ c.idle = 0 /\ Ctx(c, s)
  <2>1. /\ c \in LiveHs /\ c.was_tx = TRUE /\ c.staged = n.hs.staged /\ c.idle = n.hs.idle
        /\ c.live = TRUE /\ c.resuming = n.hs.resuming /\ c.age = n.hs.age
        /\ c.aligned = n.hs.aligned /\ c.skip = n.hs.skip
    BY <1>5 DEF LiveHs
  <2> QED
    BY <1>4, <2>1 DEF IsSending, Ctx
<1> HIDE DEF c
<1>8. m \in NodeType /\ m.hs = c /\ m.key = n.key
  BY <1>5, <1>7 DEF NodeType
<1> HIDE DEF m
<1>9. HasSent(r, s, "done")
  <2>1. CASE s = 3
    <3>1. SentParameters(e, c)
      BY <1>3, <1>7, <2>1, SaidFacts DEF SentParameters, Parameters
    <3>2. r = Establish(m)
      BY <1>7, <1>8, <3>1, LiveFields DEF Finish
    <3> QED
      BY <1>8, <2>1, <3>2, NoneFields DEF HasSent
  <2>2. CASE s # 3
    <3>1. s \in 0 .. 2
      BY <2>2
    <3>2. ~SentParameters(e, c)
      BY <1>7, <3>1, SaidFacts DEF SentParameters
    <3>3. Idle(c) \in {0, 1} /\ Debt(c) = FALSE
      BY <1>7 DEF Idle, Debt
    <3>4. ~Spent(c)
      BY <1>7, <3>1, <3>3, NotSpent
    <3>5. r.hs.live
      BY <1>7, <1>8, <3>2, <3>4, FinishLives, LiveFields
    <3>6. /\ r.hs.owe_tx = FALSE /\ r.hs.staged = c.staged /\ r.hs.idle = Idle(c)
          /\ r.hs.age = c.age /\ r.hs.skip = c.skip /\ r.hs.aligned = c.aligned
          /\ r.hs.resuming = c.resuming /\ r.key = n.key
      BY <1>8, <3>3, <3>5, FinishFields
    <3> HIDE DEF r
    <3>7. Ctx(r.hs, s)
      BY <1>7, <3>5, <3>6 DEF Ctx
    <3>8. r.hs.idle <= 1
      BY <3>3, <3>6
    <3>9. n.key = Said(s).key
      BY <1>4 DEF IsSending
    <3> QED
      BY <1>7, <2>2, <3>6, <3>7, <3>8, <3>9 DEF HasSent
  <2> QED
    BY <2>1, <2>2
<1> HIDE DEF r
<1>10. /\ node'[e] = r /\ node'[y] = node[y] /\ sub'[e] = "done" /\ sub'[y] = sub[y]
  BY <1>1, <1>4, <1>5, <1>6 DEF Typed
<1>11. air'[e] = <<>> /\ IsRest(air'[y], s, 0)
  BY <1>4, <1>5, <1>6, RestFacts DEF Typed, Silent
<1>12. During(s, 0)'
  BY <1>1, <1>3, <1>4, <1>9, <1>10, <1>11 DEF During
<1>13. 0 \in 0 .. Length(s) - 1
  BY <1>4
<1> QED
  BY <1>1, <1>2, <1>12, <1>13 DEF Course

\* Where a waiting end is, its mark alone makes no difference to the rest.
LEMMA OneMark ==
  ASSUME Safe, NEW e \in Ends, node' = node, air' = air, derived' = derived, attempts' = attempts,
         NEW how, sub' = [sub EXCEPT ![e] = how],
         NEW s \in 0 .. 3, e = Hearer(s), IsWaiting(node[e], s, 0, how), attempts = 1
  PROVE  /\ Before(s) => Course'
         /\ During(s, 0) => Course'
<1>1. sub'[e] = how /\ sub'[Sender(s)] = sub[Sender(s)] /\ 0 \in 0 .. Length(s) - 1
  BY SaidFacts DEF Safe, Typed
<1>2. ASSUME Before(s) PROVE Before(s)'
  BY <1>1, <1>2 DEF Before, Silent
<1>3. ASSUME During(s, 0) PROVE During(s, 0)'
  BY <1>1, <1>3 DEF During
<1> QED
  BY <1>1, <1>2, <1>3 DEF Course

\* The end whose slot it is not listens.
LEMMA ListenCourse ==
  ASSUME Safe, Course, NEW e \in Ends, Listen(e) PROVE Course'
<1> DEFINE n == node[e]
           c == [n.hs EXCEPT !.was_tx = FALSE]
           m == [n EXCEPT !.hs = c]
<1>1. /\ sub[e] = "wait" /\ n.hs.live /\ ~n.hs.owe_tx /\ air' = air
      /\ node' = [node EXCEPT ![e] = m] /\ sub' = [sub EXCEPT ![e] = "listen"]
      /\ attempts' = attempts /\ derived' = derived
  BY DEF Listen, Due, Put, Mark, counters
<1>2. Typed /\ n \in NodeType /\ n.hs \in LiveHs
  <2>1. Typed /\ n \in NodeType
    BY DEF Safe, Typed
  <2> QED
    BY <1>1, <2>1, LiveCases
<1>3. ~Fresh.hs.live /\ ~Ahead
  BY <1>1 DEF Ahead, Fresh, NoHs
<1>4. ~Joined
  BY <1>1, TwoEnds DEF Joined, Linked, Safe, Good
<1>5. ASSUME NEW s \in 0 .. 3 PROVE e = Sender(s) \/ e = Hearer(s)
  BY TwoEnds DEF Sender, Hearer
<1>6. PICK s \in 0 .. 3 :
        /\ e = Hearer(s) /\ attempts = 1
        /\ Before(s) \/ \E k \in 0 .. Length(s) - 1 : During(s, k)
  <2>1. ASSUME NEW s \in 0 .. 3, Before(s) PROVE e = Hearer(s)
    BY <1>1, <1>5, <2>1 DEF Before, IsSending
  <2>2. ASSUME NEW s \in 0 .. 3, NEW k, During(s, k) PROVE e = Hearer(s)
    BY <1>1, <1>5, <2>2 DEF During, HasSent
  <2>3. ASSUME NEW s \in 0 .. 2, After(s) PROVE FALSE
    <3>1. s \in 0 .. 3 /\ sub[Sender(s)] = "done" /\ sub[Hearer(s)] \in {"listen", "done"}
      BY <2>3 DEF After, HasSent, HasGot
    <3> QED
      BY <1>1, <1>5, <3>1
  <2> QED
    BY <1>3, <1>4, <2>1, <2>2, <2>3 DEF Course
<1>7. PICK k \in 0 .. Length(s) - 1 : IsWaiting(n, s, k, "wait") /\ (Before(s) \/ During(s, k))
  <2>1. CASE Before(s)
    <3>1. 0 \in 0 .. Length(s) - 1
      BY SaidFacts
    <3> QED
      BY <1>1, <1>6, <2>1, <3>1 DEF Before
  <2>2. CASE \E k \in 0 .. Length(s) - 1 : During(s, k)
    BY <1>1, <1>6, <2>2 DEF During
  <2> QED
    BY <1>6, <2>1, <2>2
<1>8. k = 0
  BY <1>2, <1>7, WaitingFacts
<1>9. Ready(n, s, 0) /\ s > 0
  BY <1>1, <1>3, <1>7, <1>8 DEF IsWaiting
<1> HIDE DEF n
<1>10. /\ c \in LiveHs /\ c.was_tx = FALSE /\ c.staged = n.hs.staged /\ c.idle = n.hs.idle
       /\ c.live = TRUE /\ c.resuming = n.hs.resuming /\ c.age = n.hs.age
       /\ c.aligned = n.hs.aligned /\ c.skip = n.hs.skip /\ c.owe_tx = n.hs.owe_tx
  BY <1>2 DEF LiveHs
<1> HIDE DEF c
<1>11. m \in NodeType /\ m.hs = c /\ m.key = n.key
  BY <1>2, <1>10 DEF NodeType
<1> HIDE DEF m
<1>12. Ready(m, s, 0)
  <2>1. Ctx(c, s)
    BY <1>9, <1>10 DEF Ready, Ctx
  <2>2. Part(c.rx, s, 0)
    BY DEF Part
  <2> QED
    BY <1>9, <1>10, <1>11, <2>1, <2>2 DEF Ready
<1>13. IsWaiting(m, s, 0, "listen")
  BY <1>9, <1>10, <1>11, <1>12 DEF IsWaiting
<1>14. /\ node'[e] = m /\ sub'[e] = "listen" /\ node'[Sender(s)] = node[Sender(s)]
       /\ sub'[Sender(s)] = sub[Sender(s)]
  BY <1>1, <1>2, <1>6, SaidFacts DEF Typed
<1>15. Before(s) => Before(s)'
  BY <1>1, <1>6, <1>13, <1>14 DEF Before, Silent
<1>16. During(s, 0) => During(s, 0)'
  BY <1>1, <1>6, <1>13, <1>14 DEF During
<1> QED
  BY <1>1, <1>6, <1>7, <1>8, <1>15, <1>16 DEF Course

\* The router, with no handshake, listens for the first message.
LEMMA OpenWindowCourse ==
  ASSUME Safe, Course, OpenWindow PROVE Course'
<1>1. /\ sub[Router] = "wait" /\ ~node[Router].hs.live /\ node[Joiner].hs.live
      /\ sub' = [sub EXCEPT ![Router] = "listen"] /\ node' = node /\ air' = air
      /\ attempts' = attempts /\ derived' = derived
      /\ Router \in Ends /\ node[Router] \in NodeType
  BY TwoEnds DEF OpenWindow, Mark, counters, Safe, Typed
<1>2. ~Ahead /\ ~Joined
  <2>1. ~Fresh.hs.live
    BY DEF Fresh, NoHs
  <2> QED
    BY <1>1, <2>1, TwoEnds DEF Ahead, Joined, Linked, Safe, Good
<1>3. ASSUME NEW s \in 0 .. 3 PROVE Router = Sender(s) \/ Router = Hearer(s)
  BY TwoEnds DEF Sender, Hearer
<1>4. ASSUME NEW s \in 0 .. 3, Before(s) PROVE Course'
  <2>1. Router = Hearer(s)
    BY <1>1, <1>3, <1>4 DEF Before, IsSending, Ctx
  <2>2. IsWaiting(node[Router], s, 0, "wait")
    BY <1>1, <1>4, <2>1 DEF Before
  <2>3. IsWaiting(node[Router], s, 0, "listen")
    BY <1>1, <2>2, WaitingFacts DEF IsWaiting
  <2>4. attempts = 1
    BY <1>2 DEF Course
  <2> QED
    BY <1>1, <1>4, <2>1, <2>3, <2>4, OneMark
<1>5. ASSUME NEW s \in 0 .. 3, NEW k \in 0 .. Length(s) - 1, During(s, k), attempts = 1
      PROVE  Course'
  <2>1. Router = Hearer(s)
    BY <1>1, <1>3, <1>5 DEF During, HasSent
  <2>2. IsWaiting(node[Router], s, k, "wait")
    BY <1>1, <1>5, <2>1 DEF During
  <2>3. k = 0 /\ IsWaiting(node[Router], s, 0, "listen")
    BY <1>1, <2>2, WaitingFacts DEF IsWaiting
  <2> QED
    BY <1>1, <1>5, <2>1, <2>3, OneMark
<1>6. ASSUME NEW s \in 0 .. 2, After(s) PROVE FALSE
  <2>1. s \in 0 .. 3 /\ sub[Sender(s)] = "done" /\ node[Hearer(s)].hs.live
    BY <1>6 DEF After, HasSent, HasGot, Ctx
  <2> QED
    BY <1>1, <1>3, <2>1
<1> QED
  BY <1>2, <1>4, <1>5, <1>6 DEF Course

\* A fragment of the slot's message is heard.
LEMMA HearCourse ==
  ASSUME Safe, Course, NEW e \in Ends, Hear(e) PROVE Course'
<1> DEFINE f == Head(air[e])
           n == node[e]
           r == Dispatch(n, f)
<1>1. /\ sub[e] = "listen" /\ air[e] # <<>> /\ sub' = sub
      /\ air' = [air EXCEPT ![e] = Tail(air[e])] /\ node' = [node EXCEPT ![e] = r]
      /\ derived' = IF Derives(n, f) THEN derived + 1 ELSE derived
      /\ attempts' = attempts
  BY DEF Hear, Put
<1>2. PICK s \in 0 .. 3 : \E k \in 0 .. Length(s) - 1 :
        attempts = 1 /\ During(s, k) /\ e = Hearer(s)
  BY <1>1, CourseHears
<1>3. PICK k \in 0 .. Length(s) - 1 : attempts = 1 /\ During(s, k) /\ e = Hearer(s)
  BY <1>2
<1> DEFINE x == Sender(s)
<1>4. Typed /\ n \in NodeType
  BY DEF Safe, Typed
<1>5. /\ HasSent(node[x], s, sub[x]) /\ IsWaiting(n, s, k, "listen")
      /\ air[x] = <<>> /\ IsRest(air[e], s, k) /\ derived = IF s = 0 THEN 0 ELSE 1
  BY <1>1, <1>3 DEF During
<1>6. f = [msg |-> Said(s), idx |-> k] /\ IsRest(Tail(air[e]), s, k + 1)
  BY <1>5, RestFacts
<1> HIDE DEF f, n
<1>7. /\ k + 1 # Length(s) => ~Derives(n, f) /\ IsWaiting(r, s, k + 1, "listen")
      /\ k + 1 = Length(s) =>
           /\ Derives(n, f) <=> s = 0
           /\ IF s = 3 THEN r.state = "LINKED" ELSE HasGot(r, s, "listen")
  BY <1>3, <1>4, <1>5, <1>6, DispatchCourse
<1> HIDE DEF r
<1>8. /\ x \in Ends /\ x # e /\ \A o \in Ends : o = x \/ o = e
      /\ node'[e] = r /\ node'[x] = node[x] /\ sub'[e] = "listen" /\ sub'[x] = sub[x]
      /\ air'[e] = Tail(air[e]) /\ air'[x] = <<>>
  <2>1. x \in Ends /\ x # e /\ \A o \in Ends : o = x \/ o = e
    BY <1>3, TwoEnds DEF Sender, Hearer
  <2> QED
    BY <1>1, <1>4, <1>5, <2>1 DEF Typed
<1>9. CASE k + 1 # Length(s)
  <2>1. k + 1 \in 0 .. Length(s) - 1
    BY <1>9, SaidFacts
  <2>2. During(s, k + 1)'
    BY <1>1, <1>3, <1>5, <1>6, <1>7, <1>8, <1>9 DEF During
  <2> QED
    BY <1>1, <1>3, <2>1, <2>2 DEF Course
<1>10. CASE k + 1 = Length(s)
  <2>1. Silent'
    <3>1. Tail(air[e]) = <<>>
      BY <1>6, <1>10, RestFacts
    <3> QED
      BY <1>8, <3>1 DEF Silent
  <2>2. CASE s = 3
    <3>1. node[x].state = "LINKED" /\ r.state = "LINKED"
      BY <1>5, <1>7, <1>10, <2>2 DEF HasSent
    <3>2. Joined'
      BY <1>8, <2>1, <3>1 DEF Joined, Linked
    <3> QED
      BY <1>1, <1>3, <3>2 DEF Course
  <2>3. CASE s # 3
    <3>1. s \in 0 .. 2 /\ HasGot(r, s, "listen")
      BY <1>7, <1>10, <2>3
    <3>2. derived' = 1
      BY <1>1, <1>5, <1>7, <1>10
    <3>3. After(s)'
      BY <1>3, <1>5, <1>8, <2>1, <3>1, <3>2 DEF After
    <3> QED
      BY <1>1, <1>3, <3>1, <3>3 DEF Course
  <2> QED
    BY <2>2, <2>3
<1> QED
  BY <1>9, <1>10

\* A fragment cannot come too early or in no slot of the hearer's.
LEMMA MissCourse ==
  ASSUME Safe, Counted, Course, NEW e \in Ends, Miss(e), Untroubled, Untroubled' PROVE FALSE
<1>1. air[e] # <<>> /\ (Misaligned \/ TooEarly(e, Head(air[e])))
  BY DEF Miss, Untroubled
<1>2. PICK s \in 0 .. 3 : \E k \in 0 .. Length(s) - 1 :
        attempts = 1 /\ During(s, k) /\ e = Hearer(s)
  BY <1>1, CourseHears
<1>3. PICK k \in 0 .. Length(s) - 1 : During(s, k) /\ e = Hearer(s)
  BY <1>2
<1>4. \A o \in Ends : node[o] \in NodeType /\ (node[o].hs.live => node[o].state # "LINKED")
  BY DEF Safe, Typed, Good
<1>5. node[e].hs.live => node[e].hs.aligned /\ node[e].hs.skip = 0
  BY <1>3, <1>4, WaitingFacts DEF During
<1>6. node[Sender(s)].hs.live => node[Sender(s)].hs.aligned
  BY <1>3, <1>4, SaidFacts DEF During, HasSent, Ctx
<1>7. \A o \in Ends : o = e \/ o = Sender(s)
  BY <1>3, TwoEnds DEF Sender, Hearer
<1>8. Head(air[e]).idx = k
  BY <1>3, RestFacts DEF During
<1>9. ~(k < 0)
  OBVIOUS
<1>10. ~TooEarly(e, Head(air[e]))
  BY <1>5, <1>8, <1>9 DEF TooEarly
<1>11. ~Misaligned
  BY <1>5, <1>6, <1>7, TwoEnds DEF Misaligned
<1> QED
  BY <1>1, <1>10, <1>11

\* The window of an end that has the whole message closes.
LEMMA CloseCourse ==
  ASSUME Safe, Roomy, Course, NEW e \in Ends, Close(e) PROVE Course'
<1> DEFINE n == node[e]
           r == Finish(e, n)
<1>1. /\ sub[e] = "listen" /\ air[e] = <<>> /\ (Due(Other(e)) => ~node[Other(e)].hs.owe_tx)
      /\ air' = air /\ sub' = [sub EXCEPT ![e] = "done"]
      /\ node' = [node EXCEPT ![e] = r] \/ (e = Router /\ n.hs.age = 0 /\ node' = node)
      /\ attempts' = attempts /\ derived' = derived
  BY DEF Close, Put, Mark, counters
<1>2. Typed /\ n \in NodeType
  BY DEF Safe, Typed
<1>3. ASSUME Joined PROVE Joined'
  <2>1. ~n.hs.live
    BY <1>3 DEF Joined, Linked, Safe, Good
  <2>2. r = n
    BY <2>1 DEF Finish
  <2>3. node' = node
    BY <1>1, <1>2, <2>2 DEF Typed
  <2> QED
    BY <1>1, <1>3, <2>3 DEF Joined, Silent, Linked
<1>4. ASSUME NEW s \in 0 .. 2, After(s), e = Hearer(s) PROVE After(s)'
  <2> DEFINE x == Sender(s)
  <2>1. x \in Ends /\ x # e /\ \A o \in Ends : o = x \/ o = e
    BY <1>4, TwoEnds DEF Sender, Hearer
  <2>2. HasSent(node[x], s, sub[x]) /\ HasGot(n, s, "listen") /\ Silent /\ derived = 1
    <3>1. sub[e] = "listen"
      BY <1>1
    <3> QED
      BY <1>4, <3>1 DEF After
  <2>3. /\ sub'[e] = "done" /\ sub'[x] = sub[x] /\ node'[x] = node[x]
        /\ node'[e] = r \/ (n.hs.age = 0 /\ node'[e] = n)
    BY <1>1, <1>2, <2>1 DEF Typed
  <2> HIDE DEF n
  <2>4. /\ n.hs.live /\ n.hs \in LiveHs /\ Ctx(n.hs, s) /\ n.hs.staged = {Said(s + 1)} /\ n.hs.owe_tx
        /\ n.key = Said(s + 1).key /\ n.hs.progressed /\ ~n.hs.was_tx
        /\ n.hs.idle <= (IF s = 0 THEN 0 ELSE 1)
    <3>1. n.hs.live
      BY <2>2 DEF HasGot, Ctx
    <3> QED
      BY <1>2, <2>2, <3>1, LiveCases DEF HasGot
  <2>5. HasGot(r, s, "done")
    <3>1. ~SentParameters(e, n.hs)
      BY <2>4 DEF SentParameters
    <3>2. Idle(n.hs) = 0 /\ (Debt(n.hs) <=> TRUE)
      BY <2>4 DEF Idle, Debt
    <3>3. ~Spent(n.hs)
      BY <2>4, <3>2, NotSpent
    <3>4. r.hs.live
      BY <1>2, <2>4, <3>1, <3>3, FinishLives
    <3>5. /\ r.hs.owe_tx = Debt(n.hs) /\ r.hs.staged = n.hs.staged /\ r.hs.idle = Idle(n.hs)
          /\ r.hs.age = n.hs.age /\ r.hs.skip = n.hs.skip /\ r.hs.aligned = n.hs.aligned
          /\ r.hs.resuming = n.hs.resuming /\ r.key = n.key
      BY <1>2, <3>4, FinishFields
    <3> HIDE DEF r
    <3>6. Ctx(r.hs, s)
      BY <2>4, <3>4, <3>5 DEF Ctx
    <3> QED
      BY <2>4, <3>2, <3>5, <3>6 DEF HasGot
  <2>6. ASSUME n.hs.age = 0 PROVE HasGot(n, s, "done")
    <3>1. s = 0
      BY <2>4, <2>6 DEF Ctx
    <3>2. n.hs.idle \in Nat
      BY <2>4, LiveFields
    <3>3. n.hs.idle = 0
      BY <2>4, <3>1, <3>2
    <3> QED
      BY <2>4, <3>3 DEF HasGot
  <2>7. HasGot(node'[e], s, "done")
    BY <2>3, <2>5, <2>6
  <2>8. Silent'
    BY <1>1, <2>2 DEF Silent
  <2> QED
    BY <1>1, <1>4, <2>2, <2>3, <2>7, <2>8 DEF After
<1>5. \/ attempts = 1 /\ \E s \in 0 .. 2 : After(s) /\ e = Hearer(s)
      \/ attempts = 1 /\ Joined
  BY <1>1, CourseHears
<1>6. attempts' = 1
  BY <1>1, <1>5
<1> QED
  BY <1>3, <1>4, <1>5, <1>6 DEF Course

\* An end that is ready waits.
LEMMA ReadyWaits ==
  ASSUME NEW n, NEW s \in 1 .. 3, Ready(n, s, 0) PROVE IsWaiting(n, s, 0, "wait")
BY DEF IsWaiting

\* The next slot is the answer's.
LEMMA NextSlotCourse ==
  ASSUME Safe, Roomy, Course, NextSlot, Untroubled, Untroubled' PROVE Course'
<1> DEFINE n(e) == node[e]
           c(e) == [n(e).hs EXCEPT !.age = NextIndex(n(e).hs.age)]
<1>1. /\ ~Between
      /\ \A e \in Ends : sub[e] = "done" \/ (sub[e] = "wait" /\ ~n(e).hs.live)
      /\ \A e \in Ends : sub'[e] = "wait" /\ air'[e] = <<>>
      /\ \A e \in Ends : node'[e] = IF n(e).hs.live THEN [n(e) EXCEPT !.hs = c(e)] ELSE n(e)
      /\ ~(air[Router] # <<>> /\ sub[Router] = "wait")
      /\ attempts' = attempts /\ derived' = derived
  BY DEF NextSlot, Untroubled
<1>2. ASSUME NEW e \in Ends, n(e).hs.live, NEW s \in 0 .. 2, Ctx(n(e).hs, s)
      PROVE  /\ Ctx(node'[e].hs, s + 1) /\ node'[e].key = n(e).key
             /\ node'[e].hs.staged = n(e).hs.staged /\ node'[e].hs.owe_tx = n(e).hs.owe_tx
             /\ node'[e].hs.idle = n(e).hs.idle
  <2>1. n(e) \in NodeType /\ n(e).hs \in LiveHs
    <3>1. n(e) \in NodeType
      BY DEF Safe, Typed
    <3> QED
      BY <1>2, <3>1, LiveCases
  <2>2. NextIndex(n(e).hs.age) = s + 1 /\ s + 1 \in Nat
    <3>1. n(e).hs.age = s /\ s < LastSlot
      BY <1>2, HandshakeAssumption DEF Ctx, Roomy
    <3> QED
      BY <3>1 DEF NextIndex
  <2>3. node'[e] = [n(e) EXCEPT !.hs = c(e)]
    BY <1>1, <1>2
  <2> HIDE DEF n
  <2>4. /\ c(e) \in LiveHs /\ c(e).age = s + 1 /\ c(e).staged = n(e).hs.staged
        /\ c(e).owe_tx = n(e).hs.owe_tx /\ c(e).idle = n(e).hs.idle /\ c(e).live = TRUE
        /\ c(e).aligned = n(e).hs.aligned /\ c(e).skip = n(e).hs.skip
        /\ c(e).resuming = n(e).hs.resuming
    BY <2>1, <2>2 DEF LiveHs
  <2> HIDE DEF c
  <2>5. node'[e].hs = c(e) /\ node'[e].key = n(e).key
    BY <2>1, <2>3, <2>4 DEF NodeType
  <2> QED
    BY <1>2, <2>4, <2>5 DEF Ctx
<1>3. ASSUME NEW s \in 0 .. 3, Before(s) PROVE FALSE
  BY <1>1, <1>3, SaidFacts DEF Before, IsSending, Ctx
<1>4. ASSUME NEW s \in 0 .. 3, NEW k \in 0 .. Length(s) - 1, During(s, k) PROVE FALSE
  <2> DEFINE y == Hearer(s)
  <2>1. /\ y \in Ends /\ IsWaiting(node[y], s, k, sub[y]) /\ node[y] \in NodeType
        /\ air[y] # <<>>
    BY <1>4, SaidFacts, RestFacts DEF During, Safe, Typed
  <2>2. sub[y] = "wait" /\ ~node[y].hs.live
    BY <1>1, <2>1, WaitingFacts
  <2>3. s = 0
    BY <2>1, <2>2, WaitingFacts
  <2>4. y = Router
    BY <2>3, SaidFacts, TwoEnds DEF Hearer
  <2> QED
    BY <1>1, <2>1, <2>2, <2>4
<1>5. ASSUME NEW s \in 0 .. 2, After(s) PROVE Before(s + 1)'
  <2> DEFINE x == Sender(s)
             y == Hearer(s)
  <2>1. /\ x \in Ends /\ y \in Ends /\ Sender(s + 1) = y /\ Hearer(s + 1) = x
        /\ s + 1 \in 1 .. 3 /\ s + 1 # 0 /\ s + 1 > 0 /\ s # 3 /\ (s + 1) - 1 = s
    BY SaidFacts
  <2>2. /\ HasSent(n(x), s, sub[x]) /\ HasGot(n(y), s, sub[y]) /\ derived = 1
    BY <1>5 DEF After
  <2> HIDE DEF n, x, y
  <2>3. IsSending(node'[y], s + 1, "wait")
    <3>1. /\ n(y).hs.live /\ Ctx(n(y).hs, s) /\ n(y).hs.staged = {Said(s + 1)} /\ n(y).hs.owe_tx
          /\ n(y).key = Said(s + 1).key /\ sub[y] = "done" /\ n(y).hs.idle = 0
      BY <1>1, <2>1, <2>2 DEF HasGot, Ctx
    <3> QED
      BY <1>2, <2>1, <3>1 DEF IsSending
  <2>4. IsWaiting(node'[x], s + 1, 0, "wait")
    <3>1. /\ n(x).hs.live /\ Ctx(n(x).hs, s) /\ n(x).hs.idle <= 1 /\ n(x).hs.staged = {Said(s)}
          /\ ~n(x).hs.owe_tx /\ n(x).key = Said(s).key
      BY <2>1, <2>2 DEF HasSent, Ctx
    <3>2. Ready(node'[x], s + 1, 0)
      <4>1. Part(node'[x].hs.rx, s + 1, 0)
        BY DEF Part
      <4> QED
        BY <1>2, <2>1, <3>1, <4>1 DEF Ready
    <3> QED
      BY <2>1, <3>2, ReadyWaits
  <2>5. Silent'
    BY <1>1 DEF Silent
  <2> QED
    BY <1>1, <2>1, <2>2, <2>3, <2>4, <2>5 DEF Before
<1>6. ASSUME Joined PROVE Joined'
  <2>1. \A e \in Ends : ~n(e).hs.live
    BY <1>6 DEF Joined, Linked, Safe, Good
  <2> QED
    BY <1>1, <1>6, <2>1 DEF Joined, Linked, Silent
<1>7. ~Ahead
  BY <1>1 DEF Ahead, Between
<1>8. attempts' = 1
  BY <1>1, <1>7 DEF Course
<1>9. \A s \in 0 .. 2 : s + 1 \in 0 .. 3
  OBVIOUS
<1> QED
  BY <1>3, <1>4, <1>5, <1>6, <1>7, <1>8, <1>9 DEF Course

\* A link does not go down.
LEMMA LinkDownCourse ==
  ASSUME Safe, Counted, Course, NEW e \in Ends, LinkDown(e), Untroubled, Untroubled' PROVE FALSE
<1>1. /\ \A o \in Ends : sub[o] = "wait"
      /\ node[e].state = "LINKED" /\ node[Other(e)].state # "LINKED" /\ Other(e) \in Ends
      /\ ~node[e].hs.live /\ node[e] \in NodeType
  BY TwoEnds DEF LinkDown, Between, Untroubled, Safe, Typed, Good
<1>2. ~Joined
  BY <1>1 DEF Joined, Linked
<1>3. ~Ahead
  BY <1>1 DEF Ahead, Fresh
<1>4. ASSUME NEW s \in 0 .. 3, Before(s) PROVE FALSE
  <2>1. node[Sender(s)].hs.live
    BY <1>4 DEF Before, IsSending, Ctx
  <2>2. e = Hearer(s)
    BY <1>1, <2>1, TwoEnds DEF Sender, Hearer
  <2> QED
    BY <1>1, <1>4, <2>2, WaitingFacts DEF Before
<1>5. ASSUME NEW s \in 0 .. 3, NEW k, During(s, k) PROVE FALSE
  BY <1>1, <1>5, SaidFacts DEF During, HasSent
<1>6. ASSUME NEW s \in 0 .. 2, After(s) PROVE FALSE
  <2>1. s \in 0 .. 3
    OBVIOUS
  <2> QED
    BY <1>1, <1>6, <2>1, SaidFacts DEF After, HasSent
<1> QED
  BY <1>2, <1>3, <1>4, <1>5, <1>6 DEF Course

\* The joiner starts its first attempt.
LEMMA StartCourse ==
  ASSUME Safe, Course, Start, attempts' \in 0 .. 1 PROVE Course'
<1> DEFINE n == node[Joiner]
           first == [type |-> IF n.has_ltk THEN "RESUME_REQ" ELSE "JOIN_REQ",
                     key |-> NoKey, attempt |-> attempts + 1]
           h == NewHs(n.has_ltk, 0)
           hs == Stage(h, first)
           m == [n EXCEPT !.state = "JOINING", !.hs = hs]
           r == node[Router]
<1>1. /\ \A e \in Ends : sub[e] = "wait"
      /\ air' = air /\ sub' = sub /\ derived' = derived /\ attempts' = attempts + 1
      /\ node' = [node EXCEPT ![Joiner] = m,
                              ![Router] = IF r.hs.live THEN [r EXCEPT !.hs.aligned = FALSE] ELSE r]
  BY TwoEnds DEF Start, Between
<1>2. Ahead
  <2>1. attempts # 1
    BY <1>1
  <2> QED
    BY <2>1 DEF Course
<1>3. /\ attempts' = 1 /\ derived = 0 /\ Silent /\ n = Fresh /\ r = Fresh
  BY <1>1, <1>2, TwoEnds DEF Ahead
<1>4. ~Fresh.hs.live /\ Fresh.has_ltk = FALSE /\ Fresh.key = NoKey
  BY DEF Fresh, NoHs
<1>5. node'[Joiner] = m /\ node'[Router] = Fresh
  BY <1>1, <1>3, <1>4, TwoEnds DEF Safe, Typed
<1>6. first = Said(0)
  <2>1. first = [type |-> "JOIN_REQ", key |-> NoKey, attempt |-> 1]
    BY <1>1, <1>3, <1>4
  <2>2. Said(0) = [type |-> "JOIN_REQ", key |-> NoKey, attempt |-> 1]
    BY DEF Said
  <2> QED
    BY <2>1, <2>2
<1>7. Ctx(hs, 0) /\ hs.idle = 0 /\ hs.staged = {Said(0)} /\ hs.owe_tx = TRUE
  <2>1. h = NewHs(FALSE, 0)
    BY <1>3, <1>4
  <2> HIDE DEF first
  <2> QED
    BY <1>6, <2>1 DEF Stage, NewHs, Ctx
<1>8. m.hs = hs /\ m.key = Said(0).key
  <2> HIDE DEF hs
  <2>1. m.hs = hs /\ m.key = n.key
    BY TwoEnds DEF Safe, Typed, NodeType
  <2> QED
    BY <1>3, <1>4, <2>1, SaidFacts
<1> HIDE DEF hs, m
<1>9. /\ Sender(0) = Joiner /\ Hearer(0) = Router /\ 0 \in 0 .. 3
      /\ sub'[Joiner] = "wait" /\ sub'[Router] = "wait"
  BY <1>1, TwoEnds, SaidFacts DEF Hearer
<1>10. IsSending(m, 0, "wait")
  BY <1>7, <1>8 DEF IsSending
<1>11. IsWaiting(Fresh, 0, 0, "wait")
  BY DEF IsWaiting
<1>12. Before(0)'
  BY <1>1, <1>3, <1>5, <1>9, <1>10, <1>11 DEF Before, Silent
<1> QED
  BY <1>3, <1>9, <1>12 DEF Course

\* Nothing that went wrong is forgotten.
LEMMA CountsGrow ==
  ASSUME attempts \in Nat, losses \in Nat, drops \in Nat, outages \in Nat, missed \in BOOLEAN, Next
  PROVE  /\ attempts <= attempts' /\ losses <= losses' /\ drops <= drops' /\ outages <= outages'
         /\ missed => missed'
         /\ {attempts', losses', drops', outages'} \subseteq Nat
<1>1. CASE Start
  BY <1>1 DEF Start
<1>2. CASE OpenWindow
  BY <1>2 DEF OpenWindow, counters
<1>3. CASE NextSlot
  BY <1>3 DEF NextSlot
<1>4. ASSUME NEW e \in Ends, Transmit(e) \/ Listen(e) \/ Close(e)
      PROVE  UNCHANGED counters
  BY <1>4 DEF Transmit, Listen, Close
<1>5. ASSUME NEW e \in Ends, Hear(e)
      PROVE  UNCHANGED <<attempts, losses, drops, outages, missed>>
  BY <1>5 DEF Hear
<1>6. ASSUME NEW e \in Ends, Miss(e)
      PROVE  /\ UNCHANGED <<attempts, drops, outages, missed>>
             /\ losses' = losses \/ losses' = losses + 1
  BY <1>6 DEF Miss
<1>7. ASSUME NEW e \in Ends, Refused(e) \/ Late(e) \/ Displaced(e)
      PROVE  UNCHANGED <<attempts, losses, outages, missed>> /\ drops' = drops + 1
  BY <1>7 DEF Refused, Late, Displaced
<1>8. ASSUME NEW e \in Ends, LinkDown(e)
      PROVE  /\ UNCHANGED <<attempts, losses, drops, missed>>
             /\ outages' = outages \/ outages' = outages + 1
  BY <1>8 DEF LinkDown
<1> QED
  BY <1>1, <1>2, <1>3, <1>4, <1>5, <1>6, <1>7, <1>8 DEF Next, Slot, Trouble, counters

\* As long as nothing goes wrong, the first attempt takes its course.
LEMMA StepCourse ==
  ASSUME IInv, Roomy, CourseInv, [Next]_vars PROVE CourseInv'
<1> SUFFICES ASSUME Untroubled', attempts' <= 1 PROVE Course'
  BY DEF CourseInv
<1>1. /\ Safe /\ Counted /\ attempts \in Nat /\ losses \in Nat /\ drops \in Nat /\ outages \in Nat
      /\ missed \in BOOLEAN
  BY HandshakeAssumption DEF IInv, Counted
<1>2. CASE UNCHANGED vars
  <2>1. Course
    BY <1>2 DEF CourseInv, Untroubled, vars
  <2> QED
    BY <1>2, <2>1 DEF vars, Course, Ahead, Before, During, After, Joined, Silent, Linked
<1>3. CASE Next
  <2>1. Untroubled /\ attempts <= 1
    BY <1>1, <1>3, CountsGrow DEF Untroubled
  <2>2. Start => attempts' \in 0 .. 1
    BY <1>1 DEF Start
  <2>3. Course
    BY <2>1 DEF CourseInv
  <2>4. ASSUME NEW e \in Ends, Refused(e) \/ Late(e) \/ Displaced(e) PROVE FALSE
    BY <1>1, <2>1, <2>4 DEF Refused, Late, Displaced, Untroubled
  <2> QED
    BY <1>1, <1>3, <2>1, <2>2, <2>3, <2>4, StartCourse, OpenWindowCourse, NextSlotCourse,
       TransmitCourse, ListenCourse, HearCourse, CloseCourse, MissCourse, LinkDownCourse
    DEF Next, Slot, Trouble
<1> QED
  BY <1>2, <1>3

\* With an idle limit of two slots and a deadline of four the first attempt is
\* not given up unless a fragment or a slot is lost (lg_join_event_finish).
THEOREM CleanAttempt == Roomy => (Spec => []CleanAttemptSucceeds)
<1> SUFFICES ASSUME Roomy PROVE Spec => []CleanAttemptSucceeds
  OBVIOUS
<1>1. Init => CourseInv
  BY TwoEnds DEF Init, CourseInv, Course, Ahead, Silent
<1>2. IInv /\ CourseInv /\ [Next]_vars => CourseInv'
  BY StepCourse
<1>3. IInv /\ CourseInv => CleanAttemptSucceeds
  <2> SUFFICES ASSUME Safe, Course, attempts = 1
               PROVE  node[Joiner].state \in {"JOINING", "LINKED"}
    BY DEF IInv, CourseInv, Untroubled, CleanAttemptSucceeds
  <2>1. node[Joiner].hs.live => node[Joiner].state = "JOINING"
    BY TwoEnds DEF Safe, Good
  <2>2. node[Joiner] \in NodeType
    BY TwoEnds DEF Safe, Typed
  <2>3. ASSUME NEW s \in 0 .. 3 PROVE Joiner = Sender(s) \/ (Joiner = Hearer(s) /\ s # 0)
    BY TwoEnds, SaidFacts DEF Sender, Hearer
  <2>4. ASSUME NEW s \in 0 .. 3, Before(s) PROVE node[Joiner].hs.live
    BY <2>2, <2>3, <2>4, WaitingFacts DEF Before, IsSending, Ctx
  <2>5. ASSUME NEW s \in 0 .. 3, NEW k, During(s, k)
        PROVE  node[Joiner].hs.live \/ node[Joiner].state = "LINKED"
    BY <2>2, <2>3, <2>5, WaitingFacts DEF During, HasSent, Ctx
  <2>6. ASSUME NEW s \in 0 .. 2, After(s)
        PROVE  node[Joiner].hs.live \/ node[Joiner].state = "LINKED"
    <3>1. s \in 0 .. 3
      OBVIOUS
    <3> QED
      BY <2>3, <2>6, <3>1 DEF After, HasSent, HasGot, Ctx
  <2> QED
    BY <2>1, <2>4, <2>5, <2>6, TwoEnds DEF Course, Ahead, Joined, Linked
<1> QED
  BY <1>1, <1>2, <1>3, Invariance, PTL DEF Spec
=============================================================================
