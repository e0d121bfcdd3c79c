-------------------------- MODULE LinkParamsProofs --------------------------
(***************************************************************************)
(* Proofs about LinkParams for any modulus, lead, ceiling and number of    *)
(* changes: its types; that while nothing is lost the two ends look at the *)
(* same event with the same map and the same subrate; and that, whatever   *)
(* is lost, a map the initiator moves to is one the responder has.         *)
(*                                                                         *)
(* The second rests on two facts.  One is about the changes: the responder *)
(* has pending either nothing or what the initiator has, in which case the *)
(* initiator has its confirmation, and what either has staged is what it   *)
(* has pending.  The other is about the anchors: once the moment is over   *)
(* each end walks the same chain of events until it meets one that is      *)
(* ahead and not left out, so both stop at the first such.  That the walks *)
(* are the same is said without counting steps: no set of events that is   *)
(* neither entered nor left by passing over an event holds one anchor and  *)
(* not the other (SameWalk).                                               *)
(*                                                                         *)
(* The third has replies lost, so that the responder may have a change     *)
(* pending that the initiator has given up.  The initiator is then past    *)
(* its instant and the responder is not (Pact, Comes): they do not meet    *)
(* before the responder has dealt with it, unless event numbers wrap.      *)
(***************************************************************************)
EXTENDS LinkParams, TLAPS

----------------------------------------------------------------------------
(* Types.                                                                   *)

\* A frame carries a value of the kind it says.
FrameOK(f) ==
  /\ f.kind = "MAP" => f.value \in 0..MaxMaps
  /\ f.kind = "SUBRATE" => f.value \in Subrates

\* A record whose anchor may be any event, as before it is advanced.
Moving ==
  [initiator : BOOLEAN, anchor : Nat, subrate : Subrates, map : 0..MaxMaps,
   pending : SUBSET Changes, newMap : 0..MaxMaps, newSubrate : Subrates,
   instant : Counters, acked : BOOLEAN, missing : BOOLEAN, staged : Frames]

\* The fields of a record.
LEMMA NodeFields ==
  ASSUME NEW n \in Nodes
  PROVE  /\ n \in Moving
         /\ n.initiator \in BOOLEAN /\ n.anchor \in Counters /\ n.anchor \in Nat
         /\ n.subrate \in Subrates /\ n.map \in 0..MaxMaps /\ n.pending \subseteq Changes
         /\ n.newMap \in 0..MaxMaps /\ n.newSubrate \in Subrates
         /\ n.instant \in Counters /\ n.acked \in BOOLEAN /\ n.missing \in BOOLEAN
         /\ n.staged \in Frames
<1>1. Counters \subseteq Nat
  BY LinkAssumption DEF Counters
<1> HIDE DEF Counters, Subrates, Frames, Changes
<1> QED
  BY <1>1 DEF Nodes, Moving

\* Event numbers wrap.
LEMMA ModCounters ==
  ASSUME NEW x \in Nat PROVE x % CounterMod \in Counters
BY LinkAssumption DEF Counters

\* The next active event is an event number.
LEMMA NextActiveCounter ==
  ASSUME NEW n \in Moving PROVE NextActive(n) \in Counters
<1>1. n.anchor \in Nat /\ n.subrate \in Nat \ {0}
  BY DEF Moving, Subrates
<1>2. PICK a \in Nat, s \in Nat \ {0} : a = n.anchor /\ s = n.subrate
  BY <1>1
<1>3. a \div s \in Nat
  BY <1>2
<1>4. PICK q \in Nat : q = a \div s
  BY <1>3
<1>5. (q + 1) * s \in Nat
  BY <1>2, <1>4
<1> QED
  BY <1>2, <1>4, <1>5, ModCounters DEF NextActive

\* What the next active event is depends on the anchor and the subrate.
LEMMA NextActiveSame ==
  ASSUME NEW m, NEW n, m.anchor = n.anchor, m.subrate = n.subrate
  PROVE  NextActive(m) = NextActive(n) /\ (Aligned(m) <=> Aligned(n))
BY DEF NextActive, Aligned

\* Zero is an event, a map, a number of changes.
LEMMA Zeros ==
  /\ 0 \in Counters /\ 0 \in 0..MaxMaps /\ 1 \in Subrates /\ SubrateMax \in Subrates
  /\ Plain \in Frames /\ FrameOK(Plain)
BY LinkAssumption DEF Counters, Subrates, Plain, Frames, Changes, FrameOK

----------------------------------------------------------------------------
(* What happens to one end's record.                                        *)

\* A change takes effect, or is abandoned.
LEMMA ApplyFields ==
  ASSUME NEW n \in Nodes
  PROVE  LET m == Apply(n)
         IN /\ m \in Nodes /\ m.pending = {} /\ m.acked = FALSE
            /\ m.anchor = n.anchor /\ m.staged = n.staged /\ m.initiator = n.initiator
            /\ m.map = IF Agreed(n) /\ "MAP" \in n.pending THEN n.newMap ELSE n.map
            /\ m.subrate = IF Agreed(n) /\ "SUBRATE" \in n.pending THEN n.newSubrate
                           ELSE n.subrate
<1> DEFINE map == IF Agreed(n) /\ "MAP" \in n.pending THEN n.newMap ELSE n.map
           subrate == IF Agreed(n) /\ "SUBRATE" \in n.pending THEN n.newSubrate ELSE n.subrate
           m == [n EXCEPT !.map = map, !.subrate = subrate, !.pending = {}, !.acked = FALSE]
<1>1. map \in 0..MaxMaps /\ subrate \in Subrates
  BY NodeFields
<1>2. Apply(n) = m
  BY DEF Apply
<1> HIDE DEF map, subrate
<1>3. /\ m \in Nodes /\ m.pending = {} /\ m.acked = FALSE /\ m.anchor = n.anchor
      /\ m.staged = n.staged /\ m.initiator = n.initiator
      /\ m.map = map /\ m.subrate = subrate
  <2> HIDE DEF Counters, Subrates, Frames, Changes
  <2> QED
    BY <1>1 DEF Nodes
<1> QED
  BY <1>2, <1>3 DEF map, subrate

\* Whether a change that is pending is due at the next active event.
ChangeDue(n) == n.pending # {} /\ NextActive(n) >= n.instant

\* The link advances (lg_link_advance).
LEMMA AdvanceFields ==
  ASSUME NEW n \in Moving
  PROVE  LET m == Advance(n)
         IN /\ m \in Nodes /\ m.anchor = NextActive(n)
            /\ m.staged = n.staged /\ m.initiator = n.initiator
            /\ ChangeDue(n) =>
                 /\ m.pending = {} /\ m.acked = FALSE
                 /\ m.map = IF Agreed(n) /\ "MAP" \in n.pending THEN n.newMap ELSE n.map
                 /\ m.subrate = IF Agreed(n) /\ "SUBRATE" \in n.pending THEN n.newSubrate
                                ELSE n.subrate
            /\ ~ChangeDue(n) =>
                 /\ m.pending = n.pending /\ m.acked = n.acked /\ m.instant = n.instant
                 /\ m.map = n.map /\ m.subrate = n.subrate
                 /\ m.newMap = n.newMap /\ m.newSubrate = n.newSubrate
<1> DEFINE a == NextActive(n)
           k == [n EXCEPT !.anchor = a]
           m == Advance(n)
<1>1. a \in Counters
  BY NextActiveCounter
<1>2. m = IF k.pending # {} /\ k.anchor >= k.instant THEN Apply(k) ELSE k
  BY DEF Advance
<1> HIDE DEF a
<1>3. /\ k \in Nodes /\ k.anchor = a /\ k.staged = n.staged /\ k.initiator = n.initiator
      /\ k.pending = n.pending /\ k.acked = n.acked /\ k.instant = n.instant
      /\ k.map = n.map /\ k.subrate = n.subrate
      /\ k.newMap = n.newMap /\ k.newSubrate = n.newSubrate
  BY <1>1 DEF Nodes, Moving
<1> HIDE DEF k
<1>4. Agreed(k) <=> Agreed(n)
  BY <1>3 DEF Agreed
<1>5. ChangeDue(n) <=> k.pending # {} /\ k.anchor >= k.instant
  BY <1>3 DEF ChangeDue, a
<1> HIDE DEF m
<1>6. CASE ChangeDue(n)
  <2>1. m = Apply(k)
    BY <1>2, <1>5, <1>6
  <2>2. /\ m \in Nodes /\ m.pending = {} /\ m.acked = FALSE
        /\ m.anchor = k.anchor /\ m.staged = k.staged /\ m.initiator = k.initiator
        /\ m.map = IF Agreed(k) /\ "MAP" \in k.pending THEN k.newMap ELSE k.map
        /\ m.subrate = IF Agreed(k) /\ "SUBRATE" \in k.pending THEN k.newSubrate
                       ELSE k.subrate
    BY <1>3, <2>1, ApplyFields
  <2> QED
    BY <1>3, <1>4, <1>6, <2>2 DEF m, a
<1>7. CASE ~ChangeDue(n)
  <2>1. m = k
    BY <1>2, <1>5, <1>7
  <2> QED
    BY <1>3, <1>7, <2>1 DEF m, a
<1> QED
  BY <1>6, <1>7

\* An end proposes a change.
LEMMA ProposeFields ==
  ASSUME NEW n \in Nodes, NEW kind \in Changes, NEW value,
         kind = "MAP" => value \in 0..MaxMaps, kind = "SUBRATE" => value \in Subrates
  PROVE  LET m == Propose(n, kind, value)
         IN /\ m \in Nodes /\ m.pending = n.pending \cup {kind} /\ m.acked = FALSE
            /\ m.anchor = n.anchor /\ m.staged = n.staged /\ m.initiator = n.initiator
            /\ m.map = n.map /\ m.subrate = n.subrate
<1> DEFINE newMap == IF kind = "MAP" THEN value ELSE n.newMap
           newSubrate == IF kind = "SUBRATE" THEN value ELSE n.newSubrate
           instant == (n.anchor + Lead) % CounterMod
           pending == n.pending \cup {kind}
           m == [n EXCEPT !.newMap = newMap, !.newSubrate = newSubrate,
                          !.instant = instant, !.acked = FALSE, !.pending = pending]
<1>1. newMap \in 0..MaxMaps /\ newSubrate \in Subrates
  BY NodeFields
<1>2. instant \in Counters
  <2>1. n.anchor + Lead \in Nat
    BY NodeFields, LinkAssumption
  <2> QED
    BY <2>1, ModCounters
<1>3. pending \in SUBSET Changes
  BY NodeFields
<1>4. Propose(n, kind, value) = m
  BY DEF Propose
<1> HIDE DEF newMap, newSubrate, instant, pending
<1>5. /\ m \in Nodes /\ m.pending = pending /\ m.acked = FALSE
      /\ m.anchor = n.anchor /\ m.staged = n.staged /\ m.initiator = n.initiator
      /\ m.map = n.map /\ m.subrate = n.subrate
  <2> HIDE DEF Counters, Subrates, Frames, Changes
  <2> QED
    BY <1>1, <1>2, <1>3 DEF Nodes
<1> QED
  BY <1>4, <1>5 DEF pending

\* Proposing a channel map.
LEMMA ProposeMap ==
  ASSUME NEW n \in Nodes, NEW map \in 0..MaxMaps
  PROVE  LET m == Propose(n, "MAP", map)
         IN /\ m \in Nodes /\ m.pending = n.pending \cup {"MAP"} /\ m.acked = FALSE
            /\ m.anchor = n.anchor /\ m.staged = n.staged /\ m.initiator = n.initiator
            /\ m.map = n.map /\ m.subrate = n.subrate
<1>1. "MAP" \in Changes /\ "MAP" # "SUBRATE"
  BY DEF Changes
<1> QED
  BY <1>1, ProposeFields, Zenon

\* What the initiator would like is a subrate of the link.
LEMMA WantedSubrate ==
  ASSUME NEW n \in Nodes, NEW busy PROVE Wanted(n, busy) \in Subrates
<1>1. n.subrate \in Nat \ {0} /\ SubrateMax \in Nat \ {0}
  BY NodeFields, LinkAssumption DEF Subrates
<1> QED
  BY <1>1 DEF Wanted, Subrates

\* The initiator may propose another subrate when nothing is pending.
LEMMA SubrateUpdateFields ==
  ASSUME NEW n \in Nodes, NEW busy
  PROVE  LET m == SubrateUpdate(n, busy)
         IN \/ m = n
            \/ /\ n.initiator /\ n.pending = {} /\ m \in Nodes
               /\ m.pending = {"SUBRATE"} /\ m.acked = FALSE
               /\ m.anchor = n.anchor /\ m.staged = n.staged /\ m.initiator = n.initiator
               /\ m.map = n.map /\ m.subrate = n.subrate
<1> DEFINE w == Wanted(n, busy)
           m == SubrateUpdate(n, busy)
           p == Propose(n, "SUBRATE", w)
<1>1. m = n \/ (n.initiator /\ n.pending = {} /\ m = p)
  BY DEF SubrateUpdate
<1>2. w \in Subrates
  BY WantedSubrate
<1> HIDE DEF w, m
<1>3. /\ p \in Nodes /\ p.pending = n.pending \cup {"SUBRATE"} /\ p.acked = FALSE
      /\ p.anchor = n.anchor /\ p.staged = n.staged /\ p.initiator = n.initiator
      /\ p.map = n.map /\ p.subrate = n.subrate
  BY <1>2, ProposeFields DEF Changes
<1> HIDE DEF p
<1> QED
  BY <1>1, <1>3 DEF m

\* What an end stages tells what it has pending (lg_link_stage_tx).
Tells(f, n) ==
  f.kind \in Changes =>
    /\ f.kind \in n.pending /\ f.instant = n.instant
    /\ f.kind = "MAP" => f.value = n.newMap
    /\ f.kind = "SUBRATE" => f.value = n.newSubrate

\* What is read of a frame is the frame, or says nothing.
LEMMA ReadFrame ==
  ASSUME NEW n, n.staged \in Frames, FrameOK(n.staged), NEW m, NEW kept
  PROVE  /\ Read(n.staged, kept) \in Frames /\ FrameOK(Read(n.staged, kept))
         /\ Tells(n.staged, m) => Tells(Read(n.staged, kept), m)
<1>1. Plain \in Frames /\ FrameOK(Plain) /\ Tells(Plain, m)
  <2>1. Plain.kind \notin Changes
    BY DEF Plain, Changes
  <2> QED
    BY <2>1, Zeros DEF Tells
<1> QED
  BY <1>1 DEF Read

\* What staging does to a record.
LEMMA StageFields ==
  ASSUME NEW n \in Nodes
  PROVE  LET m == Stage(n)
         IN /\ m \in Nodes /\ FrameOK(m.staged) /\ Tells(m.staged, m)
            /\ m.anchor = n.anchor /\ m.initiator = n.initiator
            /\ m.map = n.map /\ m.subrate = n.subrate /\ m.pending = n.pending
            /\ m.newMap = n.newMap /\ m.newSubrate = n.newSubrate
            /\ m.instant = n.instant /\ m.acked = n.acked
<1> DEFINE f == IF "MAP" \in n.pending
                THEN [kind |-> "MAP", value |-> n.newMap, instant |-> n.instant]
                ELSE IF "SUBRATE" \in n.pending
                THEN [kind |-> "SUBRATE", value |-> n.newSubrate, instant |-> n.instant]
                ELSE Plain
           m == [n EXCEPT !.staged = f]
<1>1. f \in Frames /\ FrameOK(f) /\ Tells(f, n)
  BY NodeFields, Zeros DEF Frames, FrameOK, Tells, Changes, Plain
<1>2. Stage(n) = m
  BY DEF Stage
<1> HIDE DEF f
<1>3. /\ m \in Nodes /\ m.staged = f
      /\ m.anchor = n.anchor /\ m.initiator = n.initiator
      /\ m.map = n.map /\ m.subrate = n.subrate /\ m.pending = n.pending
      /\ m.newMap = n.newMap /\ m.newSubrate = n.newSubrate
      /\ m.instant = n.instant /\ m.acked = n.acked
  <2> HIDE DEF Counters, Subrates, Frames, Changes
  <2> QED
    BY <1>1 DEF Nodes
<1> QED
  BY <1>1, <1>2, <1>3 DEF Tells

\* A frame is received (handle_ctrl).
LEMMA ReceiveFields ==
  ASSUME NEW n \in Nodes, NEW f \in Frames, FrameOK(f)
  PROVE  LET m == Receive(n, f)
         IN /\ m \in Nodes /\ m.anchor = n.anchor /\ m.map = n.map
            /\ m.subrate = n.subrate /\ m.staged = n.staged /\ m.initiator = n.initiator
            /\ m.acked <=> n.acked \/ (n.initiator /\ n.staged.kind \in Changes)
            /\ m.pending = IF f.kind \in Changes THEN n.pending \cup {f.kind} ELSE n.pending
            /\ m.instant = IF f.kind \in Changes THEN f.instant ELSE n.instant
            /\ m.newMap = IF f.kind = "MAP" THEN f.value ELSE n.newMap
            /\ m.newSubrate = IF f.kind = "SUBRATE" THEN f.value ELSE n.newSubrate
<1> DEFINE acked == n.acked \/ (n.initiator /\ n.staged.kind \in Changes)
           k == [n EXCEPT !.acked = acked]
           newMap == IF f.kind = "MAP" THEN f.value ELSE n.newMap
           newSubrate == IF f.kind = "SUBRATE" THEN f.value ELSE n.newSubrate
           pending == n.pending \cup {f.kind}
           m == [k EXCEPT !.newMap = newMap, !.newSubrate = newSubrate,
                          !.instant = f.instant, !.pending = pending]
<1>1. acked \in BOOLEAN
  BY NodeFields
<1>2. /\ newMap \in 0..MaxMaps /\ newSubrate \in Subrates /\ f.instant \in Counters
  BY NodeFields DEF FrameOK, Frames
<1>3. f.kind \in Changes => pending \in SUBSET Changes
  BY NodeFields
<1>4. f.kind = "MAP" \/ f.kind = "SUBRATE" <=> f.kind \in Changes
  BY DEF Changes
<1>5. k \in Nodes /\ k.acked = acked /\ k.newMap = n.newMap /\ k.newSubrate = n.newSubrate
      /\ k.pending = n.pending /\ k.instant = n.instant
      /\ k.anchor = n.anchor /\ k.map = n.map
      /\ k.subrate = n.subrate /\ k.staged = n.staged /\ k.initiator = n.initiator
  <2> HIDE DEF acked, Counters, Subrates, Frames, Changes
  <2> QED
    BY <1>1 DEF Nodes
<1>6. Receive(n, f) =
        IF f.kind \in Changes
        THEN [k EXCEPT !.newMap = IF f.kind = "MAP" THEN f.value ELSE @,
                       !.newSubrate = IF f.kind = "SUBRATE" THEN f.value ELSE @,
                       !.instant = f.instant, !.pending = @ \cup {f.kind}]
        ELSE k
  BY DEF Receive
<1>7. CASE f.kind \in Changes
  <2>1. Receive(n, f) = m
    <3> HIDE DEF k
    <3> QED
      BY <1>5, <1>6, <1>7
  <2> HIDE DEF k, acked, newMap, newSubrate, pending
  <2>2. /\ m \in Nodes /\ m.acked = k.acked /\ m.newMap = newMap /\ m.newSubrate = newSubrate
        /\ m.pending = pending /\ m.instant = f.instant
        /\ m.anchor = k.anchor /\ m.map = k.map
        /\ m.subrate = k.subrate /\ m.staged = k.staged /\ m.initiator = k.initiator
    <3> HIDE DEF Counters, Subrates, Frames, Changes
    <3> QED
      BY <1>2, <1>3, <1>5, <1>7 DEF Nodes
  <2> HIDE DEF m
  <2> QED
    BY <1>5, <1>7, <2>1, <2>2 DEF acked, newMap, newSubrate, pending
<1>8. CASE f.kind \notin Changes
  <2>1. Receive(n, f) = k
    BY <1>6, <1>8
  <2> HIDE DEF k
  <2> QED
    BY <1>4, <1>5, <1>8, <2>1
<1> QED
  BY <1>7, <1>8

\* The record n after an event that brought a frame or did not.
Settled(n, heard) == [n EXCEPT !.missing = ~heard]

\* An event is over (lg_link_event_finish): m is the record k, advanced to a,
\* and what is staged is what is then pending.
Finished(n, k, a, m) ==
  /\ k \in Moving /\ k.anchor = n.anchor /\ k.subrate = n.subrate
  /\ k.map = n.map /\ k.pending = n.pending /\ k.acked = n.acked
  /\ k.instant = n.instant /\ k.newMap = n.newMap /\ k.newSubrate = n.newSubrate
  /\ k.initiator = n.initiator
  /\ m \in Nodes /\ FrameOK(m.staged) /\ Tells(m.staged, m)
  /\ m.anchor = NextActive(n) /\ m.initiator = n.initiator
  /\ m.map = a.map /\ m.subrate = a.subrate
  /\ \/ /\ m.pending = a.pending /\ m.acked = a.acked
        /\ m.instant = a.instant /\ m.newMap = a.newMap
        /\ m.newSubrate = a.newSubrate
     \/ /\ n.initiator /\ a.pending = {}
        /\ m.pending = {"SUBRATE"} /\ m.acked = FALSE

\* The bookkeeping after an event does that.
LEMMA FinishFields ==
  ASSUME NEW n \in Moving, NEW heard \in BOOLEAN, NEW busy
  PROVE  Finished(n, Settled(n, heard), Advance(Settled(n, heard)), Finish(n, heard, busy))
<1> DEFINE missing == ~heard
           k == Settled(n, heard)
           a == Advance(k)
           u == SubrateUpdate(a, busy)
           m == Stage(u)
<1>1. missing \in BOOLEAN
  OBVIOUS
<1>2. /\ k \in Moving /\ k.anchor = n.anchor /\ k.subrate = n.subrate
      /\ k.map = n.map /\ k.pending = n.pending /\ k.acked = n.acked
      /\ k.instant = n.instant /\ k.newMap = n.newMap /\ k.newSubrate = n.newSubrate
      /\ k.initiator = n.initiator
  <2>1. k = [n EXCEPT !.missing = missing]
    BY DEF Settled, missing
  <2> HIDE DEF k, missing, Counters, Subrates, Frames, Changes
  <2> QED
    BY <1>1, <2>1 DEF Moving
<1>3. Finish(n, heard, busy) = m
  BY DEF Finish, Settled
<1> HIDE DEF k
<1>4. a \in Nodes /\ a.anchor = NextActive(k) /\ a.initiator = k.initiator
  BY <1>2, AdvanceFields
<1>5. NextActive(k) = NextActive(n)
  BY <1>2, NextActiveSame
<1> HIDE DEF a
<1>6. \/ u = a
      \/ /\ a.initiator /\ a.pending = {} /\ u \in Nodes
         /\ u.pending = {"SUBRATE"} /\ u.acked = FALSE
         /\ u.anchor = a.anchor /\ u.initiator = a.initiator
         /\ u.map = a.map /\ u.subrate = a.subrate
  BY <1>4, SubrateUpdateFields
<1> HIDE DEF u
<1>7. /\ m \in Nodes /\ FrameOK(m.staged) /\ Tells(m.staged, m)
      /\ m.anchor = u.anchor /\ m.initiator = u.initiator
      /\ m.map = u.map /\ m.subrate = u.subrate /\ m.pending = u.pending
      /\ m.newMap = u.newMap /\ m.newSubrate = u.newSubrate
      /\ m.instant = u.instant /\ m.acked = u.acked
  BY <1>4, <1>6, StageFields
<1> HIDE DEF m
<1>8. /\ m \in Nodes /\ FrameOK(m.staged) /\ Tells(m.staged, m)
      /\ m.anchor = NextActive(n) /\ m.initiator = n.initiator
      /\ m.map = a.map /\ m.subrate = a.subrate
  BY <1>2, <1>4, <1>5, <1>6, <1>7
<1>9. \/ /\ m.pending = a.pending /\ m.acked = a.acked
         /\ m.instant = a.instant /\ m.newMap = a.newMap
         /\ m.newSubrate = a.newSubrate
      \/ /\ n.initiator /\ a.pending = {} /\ m.pending = {"SUBRATE"} /\ m.acked = FALSE
  BY <1>2, <1>4, <1>6, <1>7
<1>10. Finished(n, k, a, m)
  BY <1>2, <1>8, <1>9 DEF Finished
<1> QED
  BY <1>3, <1>10 DEF a, k

----------------------------------------------------------------------------
(* The changes.                                                             *)

\* The initiator's record i and the responder's r: the responder has pending
\* nothing or what the initiator has, and that is confirmed.
Agree(i, r) ==
  /\ i.map = r.map /\ i.subrate = r.subrate
  /\ i.pending \in {{}, {"MAP"}, {"SUBRATE"}}
  /\ r.pending = {} \/ r.pending = i.pending
  /\ i.acked <=> r.pending # {}
  /\ r.pending # {} =>
       /\ r.instant = i.instant
       /\ "MAP" \in i.pending => r.newMap = i.newMap
       /\ "SUBRATE" \in i.pending => r.newSubrate = i.newSubrate

\* The responder hears what the initiator has staged, and the initiator a frame
\* of the responder's or nothing.
LEMMA ReceiveAgree ==
  ASSUME NEW i \in Nodes, NEW r \in Nodes, i.initiator, ~r.initiator, Agree(i, r),
         FrameOK(i.staged), Tells(i.staged, i),
         NEW f \in Frames, FrameOK(f), Tells(f, r)
  PROVE  Agree(Receive(i, f), Receive(r, i.staged))
<1> DEFINE gi == Receive(i, f)
           gr == Receive(r, i.staged)
<1>1. i.staged \in Frames
  BY NodeFields
<1>2. /\ gi.map = i.map /\ gi.subrate = i.subrate
      /\ gi.acked <=> i.acked \/ i.staged.kind \in Changes
      /\ gi.pending = IF f.kind \in Changes THEN i.pending \cup {f.kind}
                      ELSE i.pending
      /\ gi.instant = IF f.kind \in Changes THEN f.instant ELSE i.instant
      /\ gi.newMap = IF f.kind = "MAP" THEN f.value ELSE i.newMap
      /\ gi.newSubrate = IF f.kind = "SUBRATE" THEN f.value ELSE i.newSubrate
  BY <1>1, ReceiveFields
<1>3. /\ gr.map = r.map /\ gr.subrate = r.subrate
      /\ gr.pending = IF i.staged.kind \in Changes THEN r.pending \cup {i.staged.kind}
                      ELSE r.pending
      /\ gr.instant = IF i.staged.kind \in Changes THEN i.staged.instant ELSE r.instant
      /\ gr.newMap = IF i.staged.kind = "MAP" THEN i.staged.value ELSE r.newMap
      /\ gr.newSubrate = IF i.staged.kind = "SUBRATE" THEN i.staged.value ELSE r.newSubrate
  BY <1>1, ReceiveFields
<1> HIDE DEF gi, gr
\* What the initiator hears is what it has pending.
<1>4. /\ gi.pending = i.pending /\ gi.instant = i.instant
      /\ "MAP" \in i.pending => gi.newMap = i.newMap
      /\ "SUBRATE" \in i.pending => gi.newSubrate = i.newSubrate
  <2>1. CASE f.kind \in Changes
    <3>1. /\ f.kind \in r.pending /\ r.pending = i.pending
          /\ f.instant = i.instant
      BY <2>1 DEF Agree, Tells
    <3>2. f.kind = "MAP" => "MAP" \in i.pending /\ f.value = i.newMap
      BY <2>1, <3>1 DEF Agree, Tells
    <3>3. f.kind = "SUBRATE" => "SUBRATE" \in i.pending /\ f.value = i.newSubrate
      BY <2>1, <3>1 DEF Agree, Tells
    <3> QED
      BY <1>2, <2>1, <3>1, <3>2, <3>3
  <2>2. CASE f.kind \notin Changes
    BY <1>2, <2>2 DEF Changes
  <2> QED
    BY <2>1, <2>2
\* What the responder hears makes it have the same.
<1>5. CASE i.staged.kind \in Changes
  <2>1. /\ i.staged.kind \in i.pending /\ i.pending = {i.staged.kind}
        /\ i.staged.instant = i.instant
    BY <1>5 DEF Agree, Tells
  <2>2. gr.pending = i.pending /\ gr.pending # {} /\ gr.instant = i.instant
    BY <1>3, <1>5, <2>1 DEF Agree
  <2>3. /\ "MAP" \in i.pending => gr.newMap = i.newMap
        /\ "SUBRATE" \in i.pending => gr.newSubrate = i.newSubrate
    BY <1>3, <1>5, <2>1 DEF Tells
  <2>4. gi.acked
    BY <1>2, <1>5
  <2>5. gi.map = gr.map /\ gi.subrate = gr.subrate /\ i.pending \in {{}, {"MAP"}, {"SUBRATE"}}
    BY <1>2, <1>3 DEF Agree
  <2>6. Agree(gi, gr)
    BY <1>4, <2>2, <2>3, <2>4, <2>5 DEF Agree
  <2> QED
    BY <2>6 DEF gi, gr
<1>6. CASE i.staged.kind \notin Changes
  <2>1. /\ gr.pending = r.pending /\ gr.instant = r.instant
        /\ gr.newMap = r.newMap /\ gr.newSubrate = r.newSubrate
        /\ gi.acked <=> i.acked
    BY <1>2, <1>3, <1>6 DEF Changes
  <2>2. Agree(gi, gr)
    BY <1>2, <1>3, <1>4, <2>1 DEF Agree
  <2> QED
    BY <2>2 DEF gi, gr
<1> QED
  BY <1>5, <1>6

\* Both advance from the same event.
LEMMA AdvanceAgree ==
  ASSUME NEW i \in Moving, NEW r \in Moving, i.initiator, ~r.initiator, Agree(i, r),
         i.anchor = r.anchor
  PROVE  Agree(Advance(i), Advance(r))
<1> DEFINE ai == Advance(i)
           ar == Advance(r)
<1>1. NextActive(i) = NextActive(r)
  BY NextActiveSame DEF Agree
<1>2. /\ ChangeDue(i) =>
           /\ ai.pending = {} /\ ai.acked = FALSE
           /\ ai.map = IF Agreed(i) /\ "MAP" \in i.pending THEN i.newMap ELSE i.map
           /\ ai.subrate = IF Agreed(i) /\ "SUBRATE" \in i.pending THEN i.newSubrate
                           ELSE i.subrate
      /\ ~ChangeDue(i) =>
           /\ ai.pending = i.pending /\ ai.acked = i.acked /\ ai.instant = i.instant
           /\ ai.map = i.map /\ ai.subrate = i.subrate
           /\ ai.newMap = i.newMap /\ ai.newSubrate = i.newSubrate
  BY AdvanceFields
<1>3. /\ ChangeDue(r) =>
           /\ ar.pending = {}
           /\ ar.map = IF Agreed(r) /\ "MAP" \in r.pending THEN r.newMap ELSE r.map
           /\ ar.subrate = IF Agreed(r) /\ "SUBRATE" \in r.pending THEN r.newSubrate
                           ELSE r.subrate
      /\ ~ChangeDue(r) =>
           /\ ar.pending = r.pending /\ ar.instant = r.instant
           /\ ar.map = r.map /\ ar.subrate = r.subrate
           /\ ar.newMap = r.newMap /\ ar.newSubrate = r.newSubrate
  BY AdvanceFields
<1>4. (Agreed(i) <=> i.acked) /\ Agreed(r)
  BY DEF Agreed
<1> HIDE DEF ai, ar
<1>5. CASE r.pending = {}
  <2>1. ~ChangeDue(r) /\ ~i.acked
    BY <1>5 DEF ChangeDue, Agree
  <2>2. ar.pending = {} /\ ar.map = r.map /\ ar.subrate = r.subrate
    BY <1>3, <1>5, <2>1
  <2>3. ai.map = i.map /\ ai.subrate = i.subrate /\ ~ai.acked
    BY <1>2, <1>4, <2>1
  <2>4. ai.pending = {} \/ ai.pending = i.pending
    BY <1>2
  <2>5. Agree(ai, ar)
    BY <2>2, <2>3, <2>4 DEF Agree
  <2> QED
    BY <2>5 DEF ai, ar
<1>6. CASE r.pending # {}
  <2>1. r.pending = i.pending /\ r.instant = i.instant /\ i.acked
    BY <1>6 DEF Agree
  <2>2. ChangeDue(i) <=> ChangeDue(r)
    BY <1>1, <2>1 DEF ChangeDue
  <2>3. CASE ChangeDue(r)
    <3>1. ai.pending = {} /\ ~ai.acked /\ ar.pending = {}
      BY <1>2, <1>3, <2>2, <2>3
    <3>2. ai.map = ar.map /\ ai.subrate = ar.subrate
      BY <1>2, <1>3, <1>4, <1>6, <2>1, <2>2, <2>3 DEF Agree
    <3>3. Agree(ai, ar)
      BY <3>1, <3>2 DEF Agree
    <3> QED
      BY <3>3 DEF ai, ar
  <2>4. CASE ~ChangeDue(r)
    <3>1. Agree(ai, ar)
      BY <1>2, <1>3, <2>2, <2>4 DEF Agree
    <3> QED
      BY <3>1 DEF ai, ar
  <2> QED
    BY <2>3, <2>4
<1> QED
  BY <1>5, <1>6

\* Both have had the event.
LEMMA FinishAgree ==
  ASSUME NEW i \in Moving, NEW r \in Moving, i.initiator, ~r.initiator, Agree(i, r),
         i.anchor = r.anchor, NEW heard \in BOOLEAN, NEW busy
  PROVE  Agree(Finish(i, heard, busy), Finish(r, heard, busy))
<1> DEFINE ki == Settled(i, heard)
           kr == Settled(r, heard)
           ai == Advance(ki)
           ar == Advance(kr)
           fi == Finish(i, heard, busy)
           fr == Finish(r, heard, busy)
<1>1. Finished(i, ki, ai, fi) /\ Finished(r, kr, ar, fr)
  BY FinishFields, ZenonT(30)
<1> HIDE DEF ki, kr, fi, fr
<1>2. Agree(ki, kr)
  BY <1>1 DEF Agree, Finished
<1>3. Agree(ai, ar)
  <2>1. /\ ki \in Moving /\ kr \in Moving /\ ki.initiator /\ ~kr.initiator
        /\ ki.anchor = kr.anchor
    BY <1>1 DEF Finished
  <2> QED
    BY <1>2, <2>1, AdvanceAgree
<1> HIDE DEF ai, ar
<1>4. Agree(fi, fr)
  BY <1>1, <1>3 DEF Agree, Finished
<1> QED
  BY <1>4 DEF fi, fr

----------------------------------------------------------------------------
(* Every record has its type, and says which end it belongs to.             *)

Records(nodes) ==
  /\ nodes \in [Ends -> Nodes]
  /\ \A e \in Ends : FrameOK(nodes[e].staged) /\ (nodes[e].initiator <=> e = Initiator)

Types == TypeOK /\ Records(node)

\* The two ends, and their records.
LEMMA TwoEnds ==
  ASSUME Records(node)
  PROVE  /\ Initiator \in Ends /\ Responder \in Ends /\ Initiator # Responder
         /\ \A e \in Ends : e = Initiator \/ e = Responder
         /\ \A e \in Ends : node[e] \in Nodes
         /\ node[Initiator].initiator /\ ~node[Responder].initiator
         /\ Other(Initiator) = Responder /\ Other(Responder) = Initiator
         /\ \A e \in Ends : Other(e) \in Ends
BY DEF Ends, Initiator, Responder, Records, Other

\* One end's record is replaced.
LEMMA OneRecord ==
  ASSUME Records(node), NEW e \in Ends, NEW m \in Nodes, FrameOK(m.staged),
         m.initiator <=> node[e].initiator
  PROVE  Records([node EXCEPT ![e] = m])
<1> HIDE DEF Nodes, FrameOK, Ends
<1> QED
  BY DEF Records

\* The records at the start.
LEMMA FreshRecords == Records([e \in Ends |-> Fresh(e)])
<1>1. ASSUME NEW e \in Ends
      PROVE  Fresh(e) \in Nodes /\ FrameOK(Fresh(e).staged)
             /\ (Fresh(e).initiator <=> e = Initiator)
  <2> DEFINE is == e = Initiator
             n == [initiator |-> is, anchor |-> 0, subrate |-> 1, map |-> 0,
                   pending |-> {}, newMap |-> 0, newSubrate |-> 1, instant |-> 0,
                   acked |-> FALSE, missing |-> FALSE, staged |-> Plain]
  <2>1. is \in BOOLEAN
    OBVIOUS
  <2>2. Fresh(e) = n
    BY DEF Fresh
  <2> HIDE DEF is
  <2>3. n \in Nodes
    <3> HIDE DEF Counters, Subrates, Frames, Changes
    <3> QED
      BY <2>1, Zeros DEF Nodes
  <2>4. FrameOK(n.staged) /\ n.initiator = is
    BY Zeros
  <2> QED
    BY <2>2, <2>3, <2>4 DEF is
<1> HIDE DEF Nodes, FrameOK, Ends, Fresh
<1> QED
  BY <1>1 DEF Records

\* The event that catching up leads to.
LEMMA CaughtUp ==
  ASSUME NEW n \in Nodes
  PROVE  LET m == [n EXCEPT !.anchor = NextActive(n)]
         IN m \in Nodes /\ m = [n EXCEPT !.anchor = NextActive(n)]
            /\ m.anchor = NextActive(n) /\ m.staged = n.staged /\ m.initiator = n.initiator
            /\ m.map = n.map /\ m.subrate = n.subrate /\ m.pending = n.pending
            /\ m.newMap = n.newMap /\ m.newSubrate = n.newSubrate
            /\ m.instant = n.instant /\ m.acked = n.acked
<1> DEFINE a == NextActive(n)
<1>1. a \in Counters
  BY NodeFields, NextActiveCounter
<1> HIDE DEF a, Counters, Subrates, Frames, Changes
<1>2. LET m == [n EXCEPT !.anchor = a]
      IN m \in Nodes
            /\ m.anchor = a /\ m.staged = n.staged /\ m.initiator = n.initiator
            /\ m.map = n.map /\ m.subrate = n.subrate /\ m.pending = n.pending
            /\ m.newMap = n.newMap /\ m.newSubrate = n.newSubrate
            /\ m.instant = n.instant /\ m.acked = n.acked
  BY <1>1 DEF Nodes
<1> QED
  BY <1>2 DEF a

\* Every step leaves the records as they should be.
LEMMA RecordsInductive ==
  ASSUME Types, [Next]_vars PROVE Records(node)'
<1> USE DEF Types
<1>1. \A e \in Ends : node[e] \in Nodes /\ node[e] \in Moving /\ node[e].staged \in Frames
                      /\ FrameOK(node[e].staged)
  BY NodeFields DEF Records
<1>2. ASSUME Meet PROVE Records(node)'
  <2>1. PICK there \in BOOLEAN, back \in BOOLEAN, busy \in BOOLEAN, kept \in SUBSET Ends :
          node' = [e \in Ends |->
            LET heard == IF e = Initiator THEN back ELSE there
                got == IF heard THEN Receive(node[e], Read(node[Other(e)].staged, e \in kept))
                       ELSE node[e]
            IN Finish(got, heard, busy)]
    BY <1>2 DEF Meet
  <2> DEFINE heard(e) == IF e = Initiator THEN back ELSE there
             read(e) == Read(node[Other(e)].staged, e \in kept)
             got(e) == IF heard(e) THEN Receive(node[e], read(e)) ELSE node[e]
  <2>2. \A e \in Ends : node'[e] = Finish(got(e), heard(e), busy)
    BY <2>1
  <2>3. ASSUME NEW e \in Ends
        PROVE  got(e) \in Nodes /\ got(e).initiator = node[e].initiator
    <3>1. Other(e) \in Ends
      BY TwoEnds
    <3>2. read(e) \in Frames /\ FrameOK(read(e))
      BY <1>1, <3>1, ReadFrame
    <3> HIDE DEF read
    <3>3. /\ Receive(node[e], read(e)) \in Nodes
          /\ Receive(node[e], read(e)).initiator = node[e].initiator
      BY <1>1, <3>2, ReceiveFields
    <3> QED
      BY <1>1, <3>3
  <2>4. \A e \in Ends : heard(e) \in BOOLEAN
    OBVIOUS
  <2> HIDE DEF got, heard
  <2>5. ASSUME NEW e \in Ends
        PROVE  /\ node'[e] \in Nodes /\ FrameOK(node'[e].staged)
               /\ node'[e].initiator = node[e].initiator
    <3>1. got(e) \in Moving
      BY <2>3, NodeFields
    <3>2. Finished(got(e), Settled(got(e), heard(e)), Advance(Settled(got(e), heard(e))),
                   Finish(got(e), heard(e), busy))
      BY <2>4, <3>1, FinishFields
    <3> QED
      BY <2>2, <2>3, <3>2 DEF Finished
  <2>6. node' \in [Ends -> Nodes]
    <3>1. node' = [e \in Ends |-> node'[e]]
      BY <2>1
    <3> QED
      BY <2>5, <3>1
  <2> QED
    BY <2>5, <2>6 DEF Records
\* The other steps replace one record.
<1>3. ASSUME NEW e \in Ends, NEW m \in Nodes, FrameOK(m.staged),
             m.initiator <=> node[e].initiator, node' = [node EXCEPT ![e] = m]
      PROVE  Records(node)'
  <2>1. Records([node EXCEPT ![e] = m])
    BY <1>3, OneRecord
  <2> QED
    BY <1>3, <2>1 DEF Records
<1>4. ASSUME NEW e \in Ends, NEW n \in Moving, NEW heard \in BOOLEAN, NEW busy \in BOOLEAN,
             n.initiator <=> node[e].initiator,
             node' = [node EXCEPT ![e] = Finish(n, heard, busy)]
      PROVE  Records(node)'
  <2>1. Finished(n, Settled(n, heard), Advance(Settled(n, heard)), Finish(n, heard, busy))
    BY FinishFields
  <2>2. /\ Finish(n, heard, busy) \in Nodes /\ FrameOK(Finish(n, heard, busy).staged)
        /\ Finish(n, heard, busy).initiator = n.initiator
    BY <2>1 DEF Finished
  <2> QED
    BY <1>3, <1>4, <2>2
<1>5. ASSUME NEW e \in Ends,
             node' = [node EXCEPT ![e].anchor = NextActive(node[e])]
      PROVE  Records(node)'
  <2> DEFINE m == [node[e] EXCEPT !.anchor = NextActive(node[e])]
  <2>1. node' = [node EXCEPT ![e] = m]
    BY <1>5
  <2>2. m \in Nodes /\ m.staged = node[e].staged /\ m.initiator = node[e].initiator
    BY <1>1, CaughtUp
  <2> HIDE DEF m
  <2> QED
    BY <1>1, <1>3, <2>1, <2>2
<1>6. ASSUME NEW e \in Ends, node' = [node EXCEPT ![e] = Advance(node[e])]
      PROVE  Records(node)'
  <2>1. /\ Advance(node[e]) \in Nodes /\ Advance(node[e]).staged = node[e].staged
        /\ Advance(node[e]).initiator = node[e].initiator
    BY <1>1, AdvanceFields
  <2> QED
    BY <1>1, <1>3, <1>6, <2>1
<1>7. ASSUME AdoptMap PROVE Records(node)'
  <2> DEFINE m == Propose(node[Initiator], "MAP", maps')
  <2>1. maps' \in 0..MaxMaps
    <3>1. maps \in 0..MaxMaps
      BY DEF TypeOK
    <3>2. maps < MaxMaps /\ maps' = maps + 1
      BY <1>7 DEF AdoptMap
    <3> QED
      BY <3>1, <3>2, LinkAssumption
  <2>2. node' = [node EXCEPT ![Initiator] = m]
    BY <1>7 DEF AdoptMap
  <2>3. m \in Nodes /\ m.staged = node[Initiator].staged
        /\ m.initiator = node[Initiator].initiator
    <3>1. node[Initiator] \in Nodes
      BY <1>1, TwoEnds
    <3> QED
      BY <2>1, <3>1, ProposeMap, Zenon
  <2> HIDE DEF m
  <2> QED
    BY <1>1, <1>3, <2>2, <2>3, TwoEnds
<1>8. ASSUME Expedite PROVE Records(node)'
  <2>1. PICK nearest \in {now, now + 1}, busy \in BOOLEAN :
          node' = [node EXCEPT ![Initiator] =
                     Finish([@ EXCEPT !.anchor = nearest, !.subrate = 1], FALSE, busy)]
    BY <1>8 DEF Expedite
  <2> DEFINE n == [node[Initiator] EXCEPT !.anchor = nearest, !.subrate = 1]
  <2>2. nearest \in Nat
    BY LinkAssumption DEF TypeOK
  <2>3. n \in Moving /\ n.initiator = node[Initiator].initiator
    <3> HIDE DEF Counters, Subrates, Frames, Changes
    <3> QED
      BY <1>1, <2>2, TwoEnds, Zeros DEF Moving
  <2>4. node' = [node EXCEPT ![Initiator] = Finish(n, FALSE, busy)]
    BY <2>1
  <2> HIDE DEF n
  <2> QED
    BY <1>4, <2>3, <2>4, TwoEnds
<1>9. ASSUME NEW e \in Ends, Alone(e) \/ Refused(e) PROVE Records(node)'
  <2>1. PICK busy \in BOOLEAN : node' = [node EXCEPT ![e] = Finish(node[e], FALSE, busy)]
    BY <1>9 DEF Alone, Refused
  <2> QED
    BY <1>1, <1>4, <2>1
<1>10. ASSUME NEW e \in Ends, CatchUp(e) \/ Displaced(e) PROVE Records(node)'
  BY <1>5, <1>10 DEF CatchUp, Displaced
<1>11. ASSUME NEW e \in Ends, Late(e) PROVE Records(node)'
  <2>1. node' = [node EXCEPT ![e] = Advance(node[e])]
    BY <1>11 DEF Late
  <2> QED
    BY <1>6, <2>1
<1>12. CASE Tick \/ UNCHANGED vars
  <2>1. node' = node
    BY <1>12 DEF Tick, vars
  <2> QED
    BY <2>1 DEF Records
<1> QED
  BY <1>2, <1>7, <1>8, <1>9, <1>10, <1>11, <1>12 DEF Next

----------------------------------------------------------------------------
(* The types hold.                                                          *)

\* The types hold at the start,
LEMMA TypesInit == Init => Types
<1> SUFFICES ASSUME Init PROVE Types
  OBVIOUS
<1>1. Records(node)
  BY FreshRecords DEF Init
<1>2. TypeOK
  <2>1. node \in [Ends -> Nodes]
    BY <1>1 DEF Records
  <2> QED
    BY <2>1, LinkAssumption DEF Init, TypeOK
<1> QED
  BY <1>1, <1>2 DEF Types

\* and every step keeps them.
LEMMA TypesStep == Types /\ [Next]_vars => Types'
<1> SUFFICES ASSUME Types, [Next]_vars PROVE Types'
  OBVIOUS
<1>1. Records(node)'
  BY RecordsInductive
<1>2. (node \in [Ends -> Nodes])'
  BY <1>1 DEF Records
<1> HIDE DEF Nodes
<1>3. /\ now \in 0..Horizon /\ gone \subseteq Ends /\ maps \in 0..MaxMaps
      /\ losses \in 0..MaxLosses /\ spills \in 0..MaxSpills /\ drops \in 0..MaxDrops
      /\ urgent \in 0..MaxUrgent
  BY DEF Types, TypeOK
<1>4. gone' \subseteq Ends
  <2> HIDE DEF Ends
  <2>1. Initiator \in Ends
    BY DEF Ends
  <2>2. \A e \in Ends : CatchUp(e) \/ Alone(e) \/ Refused(e) \/ Late(e) \/ Displaced(e)
                        => gone' \subseteq Ends
    BY <1>3 DEF CatchUp, Alone, Refused, Late, Displaced
  <2>3. Meet \/ Tick \/ AdoptMap \/ Expedite \/ UNCHANGED vars => gone' \subseteq Ends
    BY <1>3, <2>1 DEF Meet, Tick, AdoptMap, Expedite, vars
  <2> QED
    BY <2>2, <2>3 DEF Next
<1>5. /\ now' = now \/ (now < Horizon /\ now' = now + 1)
      /\ maps' = maps \/ (maps < MaxMaps /\ maps' = maps + 1)
      /\ losses' = losses \/ (losses < MaxLosses /\ losses' = losses + 1)
      /\ spills' = spills \/ (spills < MaxSpills /\ spills' = spills + 1)
      /\ drops' = drops \/ (drops < MaxDrops /\ drops' = drops + 1)
      /\ urgent' = urgent \/ (urgent < MaxUrgent /\ urgent' = urgent + 1)
  BY DEF Next, Meet, Tick, AdoptMap, Expedite, CatchUp, Alone, Refused, Late, Displaced, vars
<1>6. /\ now' \in 0..Horizon /\ maps' \in 0..MaxMaps /\ losses' \in 0..MaxLosses
      /\ spills' \in 0..MaxSpills /\ drops' \in 0..MaxDrops /\ urgent' \in 0..MaxUrgent
  BY <1>3, <1>5, LinkAssumption
<1> QED
  BY <1>1, <1>2, <1>4, <1>6 DEF Types, TypeOK

\* Event numbers stay within the counter and subrates within the link's
\* ceiling, whatever is lost, refused, late, displaced or expedited (next_active,
\* subrate_update, handle_ctrl).
THEOREM TypeCorrect == Spec => []TypeOK
<1>1. Types => TypeOK
  BY DEF Types
<1> QED
  BY <1>1, TypesInit, TypesStep, PTL DEF Spec

----------------------------------------------------------------------------
(* The anchors.                                                             *)

\* The next active event after event a of a link whose subrate is s.
NextOf(a, s) == ((a \div s + 1) * s) % CounterMod

\* The next active event is an event number.
LEMMA NextOfCounter ==
  ASSUME NEW a \in Counters, NEW s \in Subrates PROVE NextOf(a, s) \in Counters
<1>1. a \in Nat /\ s \in Nat \ {0}
  BY LinkAssumption DEF Counters, Subrates
<1>2. PICK q \in Nat : q = a \div s
  BY <1>1
<1>3. (q + 1) * s \in Nat
  BY <1>1, <1>2
<1> QED
  BY <1>2, <1>3, ModCounters DEF NextOf

\* With moment t over, an anchor at event a is behind.
Passed(a, s, t) == a <= t \/ a % s # 0

\* From a and from b the same event is reached: no set of events that passing
\* over one neither enters nor leaves tells them apart.
SameWalk(a, b, s, t) ==
  \A T \in SUBSET Counters :
    (\A c \in Counters : Passed(c, s, t) => (c \in T <=> NextOf(c, s) \in T))
      => (a \in T <=> b \in T)

\* Passing over one event leaves the walk the same.
LEMMA WalkOn ==
  ASSUME NEW a \in Counters, NEW b, NEW s, NEW t, SameWalk(a, b, s, t), Passed(a, s, t)
  PROVE  SameWalk(NextOf(a, s), b, s, t)
<1> HIDE DEF Counters, Passed, NextOf
<1> SUFFICES ASSUME NEW T \in SUBSET Counters,
                    \A c \in Counters : Passed(c, s, t) => (c \in T <=> NextOf(c, s) \in T)
             PROVE  NextOf(a, s) \in T <=> b \in T
  BY DEF SameWalk
<1>1. a \in T <=> b \in T
  BY DEF SameWalk
<1>2. a \in T <=> NextOf(a, s) \in T
  OBVIOUS
<1> QED
  BY <1>1, <1>2

\* Either end may be named first.
LEMMA WalkBack ==
  ASSUME NEW a, NEW b, NEW s, NEW t, SameWalk(a, b, s, t) PROVE SameWalk(b, a, s, t)
<1> HIDE DEF Counters, Passed, NextOf
<1> QED
  BY DEF SameWalk

\* Two ends at one event walk the same way.
LEMMA WalkFrom == ASSUME NEW a, NEW s, NEW t PROVE SameWalk(a, a, s, t)
BY DEF SameWalk

\* Where the walk stops is one event.
LEMMA WalkMeets ==
  ASSUME NEW a \in Counters, NEW b \in Counters, NEW s \in Subrates, NEW t, SameWalk(a, b, s, t),
         ~Passed(a, s, t), ~Passed(b, s, t)
  PROVE  a = b
<1> HIDE DEF Counters, Passed, NextOf
\* Sets that are never entered, and the events that are in all of them with a.
<1> DEFINE Closed(U) == \A c \in Counters : Passed(c, s, t) /\ NextOf(c, s) \in U => c \in U
           T == {c \in Counters : \A U \in SUBSET Counters : a \in U /\ Closed(U) => c \in U}
<1>1. ASSUME NEW c \in Counters, Passed(c, s, t), NextOf(c, s) \in T PROVE c \in T
  <2> SUFFICES ASSUME NEW U \in SUBSET Counters, a \in U, Closed(U) PROVE c \in U
    OBVIOUS
  <2>1. NextOf(c, s) \in U
    BY <1>1
  <2> QED
    BY <1>1, <2>1
<1>2. ASSUME NEW c \in Counters, Passed(c, s, t), c \in T, NextOf(c, s) \in Counters
      PROVE  NextOf(c, s) \in T
  <2> SUFFICES ASSUME NEW U \in SUBSET Counters, a \in U, Closed(U),
                      NextOf(c, s) \notin U
               PROVE  FALSE
    BY <1>2
  <2> DEFINE V == U \ {c}
  <2>1. a \in V
    BY <1>2
  <2>2. Closed(V)
    OBVIOUS
  <2>3. V \in SUBSET Counters
    OBVIOUS
  <2>4. c \in V
    <3> HIDE DEF V, Closed
    <3> QED
      BY <1>2, <2>1, <2>2, <2>3
  <2> QED
    BY <2>4
<1>3. a \in T
  OBVIOUS
<1>4. T \in SUBSET Counters
  OBVIOUS
<1>5. \A c \in Counters : Passed(c, s, t) => (c \in T <=> NextOf(c, s) \in T)
  <2>1. \A c \in Counters : NextOf(c, s) \in Counters
    BY NextOfCounter
  <2> HIDE DEF T
  <2> QED
    BY <1>1, <1>2, <2>1
<1>6. b \in T
  <2> HIDE DEF T
  <2> QED
    BY <1>3, <1>4, <1>5 DEF SameWalk
\* The events passed over, and a, are never entered.
<1> DEFINE U == {c \in Counters : c = a \/ Passed(c, s, t)}
<1>7. U \in SUBSET Counters /\ a \in U /\ Closed(U)
  OBVIOUS
<1>8. b \in U
  <2> HIDE DEF U, Closed
  <2> QED
    BY <1>6, <1>7
<1> QED
  BY <1>8

----------------------------------------------------------------------------
(* While nothing is lost the ends agree.                                    *)

\* The moment of event t is ahead or there: both look at the same event.  It
\* is over: both walk the same way.
Anchored(i, r, t, g) ==
  IF g = {}
  THEN i.anchor = r.anchor /\ i.anchor >= t /\ i.anchor % i.subrate = 0
  ELSE g = Ends /\ SameWalk(i.anchor, r.anchor, i.subrate, t)

Clean(i, r, t, g) ==
  Agree(i, r) /\ Tells(i.staged, i) /\ Tells(r.staged, r) /\ Anchored(i, r, t, g)

\* The records of the two ends.
MyInitiator == node[Initiator]
MyResponder == node[Responder]

IInv == Types /\ (Undisturbed => Clean(MyInitiator, MyResponder, now, gone))

\* What the anchors say of the ends.
LEMMA WhereTheyAre ==
  ASSUME Types, Clean(MyInitiator, MyResponder, now, gone)
  PROVE  /\ gone = {} => \A e \in Ends : /\ ~Behind(e)
                                         /\ (Due(e) => Together /\ SameMap)
                                         /\ (~Due(e) => MyInitiator.anchor > now)
         /\ gone # {} => \A e \in Ends : /\ ~Due(e)
                                         /\ (Behind(e) <=> Passed(node[e].anchor,
                                                                  MyInitiator.subrate, now))
<1>1. /\ MyInitiator.subrate = MyResponder.subrate /\ MyInitiator.map = MyResponder.map
  BY DEF Clean, Agree
<1>2. \A e \in Ends : node[e].subrate = MyInitiator.subrate
  BY <1>1, TwoEnds DEF Types, MyInitiator, MyResponder
<1>3. \A e \in Ends : node[e].anchor \in Nat
  BY NodeFields DEF Types, Records
<1>4. now \in Nat
  BY LinkAssumption DEF Types, TypeOK
<1>5. SameMap
  BY <1>1 DEF SameMap, MyInitiator, MyResponder
<1>6. ASSUME gone = {}
      PROVE  \A e \in Ends : /\ ~Behind(e)
                             /\ (Due(e) => Together /\ SameMap)
                             /\ (~Due(e) => MyInitiator.anchor > now)
  <2>1. /\ MyInitiator.anchor = MyResponder.anchor /\ MyInitiator.anchor >= now
        /\ MyInitiator.anchor % MyInitiator.subrate = 0
    BY <1>6 DEF Clean, Anchored
  <2>2. \A e \in Ends : node[e].anchor = MyInitiator.anchor
    BY <2>1, TwoEnds DEF Types, MyInitiator, MyResponder
  <2>3. \A e \in Ends : Aligned(node[e])
    BY <1>2, <2>1, <2>2 DEF Aligned
  <2>4. \A e \in Ends : Due(e) <=> MyInitiator.anchor = now
    BY <1>6, <2>2, <2>3 DEF Due
  <2>5. \A e \in Ends : ~Behind(e)
    BY <1>3, <1>4, <1>6, <2>1, <2>2, <2>3 DEF Behind
  <2>6. MyInitiator.anchor \in Nat
    BY <1>3, TwoEnds DEF Types, MyInitiator
  <2>7. MyInitiator.anchor = now \/ MyInitiator.anchor > now
    BY <1>4, <2>1, <2>6
  <2> QED
    BY <1>5, <2>4, <2>5, <2>7 DEF Together
<1>7. ASSUME gone # {}
      PROVE  \A e \in Ends : /\ ~Due(e)
                             /\ (Behind(e) <=> Passed(node[e].anchor,
                                                      MyInitiator.subrate, now))
  <2>1. gone = Ends
    BY <1>7 DEF Clean, Anchored
  <2> QED
    BY <1>2, <1>3, <1>4, <2>1 DEF Due, Behind, Passed, Aligned
<1> QED
  BY <1>6, <1>7

\* The ends agree at the start,
LEMMA CleanInit == Init => Clean(MyInitiator, MyResponder, now, gone)
<1> SUFFICES ASSUME Init PROVE Clean(MyInitiator, MyResponder, now, gone)
  OBVIOUS
<1>1. MyInitiator = Fresh(Initiator) /\ MyResponder = Fresh(Responder)
  BY DEF Init, MyInitiator, MyResponder, Ends
<1>2. ASSUME NEW e
      PROVE  /\ Fresh(e).map = 0 /\ Fresh(e).subrate = 1 /\ Fresh(e).pending = {}
             /\ Fresh(e).acked = FALSE /\ Fresh(e).anchor = 0 /\ Fresh(e).staged = Plain
  BY DEF Fresh
<1>3. \A n \in {MyInitiator, MyResponder} :
        /\ n.map = 0 /\ n.subrate = 1 /\ n.pending = {} /\ n.acked = FALSE
        /\ n.anchor = 0 /\ n.staged.kind = "PLAIN"
  <2>1. Plain.kind = "PLAIN"
    BY DEF Plain
  <2> HIDE DEF MyInitiator, MyResponder
  <2> QED
    BY <1>1, <1>2, <2>1
<1> HIDE DEF MyInitiator, MyResponder
<1>4. Agree(MyInitiator, MyResponder)
  BY <1>3 DEF Agree
<1>5. Tells(MyInitiator.staged, MyInitiator) /\ Tells(MyResponder.staged, MyResponder)
  BY <1>3 DEF Tells, Changes
<1>6. Anchored(MyInitiator, MyResponder, now, gone)
  <2>1. now = 0 /\ gone = {} /\ 0 % 1 = 0
    BY DEF Init
  <2> QED
    BY <1>3, <2>1 DEF Anchored
<1> QED
  BY <1>4, <1>5, <1>6 DEF Clean

\* What hearing a frame leaves alone.
LEMMA ReceiveKeeps ==
  ASSUME NEW n \in Nodes, NEW f \in Frames, FrameOK(f)
  PROVE  /\ Receive(n, f) \in Nodes /\ Receive(n, f).anchor = n.anchor
         /\ Receive(n, f).initiator = n.initiator /\ Receive(n, f).map = n.map
<1>1. /\ Receive(n, f) \in Nodes /\ Receive(n, f).anchor = n.anchor
      /\ Receive(n, f).initiator = n.initiator
  BY ReceiveFields, Zenon
<1>2. Receive(n, f).map = n.map
  BY ReceiveFields, Zenon
<1> QED
  BY <1>1, <1>2

\* Both have had the event and the records agree.
LEMMA MetAgree ==
  ASSUME NEW i \in Nodes, NEW r \in Nodes, i.initiator, ~r.initiator, Agree(i, r),
         FrameOK(i.staged), Tells(i.staged, i), NEW f \in Frames, FrameOK(f), Tells(f, r),
         i.anchor = r.anchor, NEW heard \in BOOLEAN, NEW busy, NEW t
  PROVE  Clean(Finish(Receive(i, f), heard, busy),
               Finish(Receive(r, i.staged), heard, busy), t, Ends)
<1> DEFINE gi == Receive(i, f)
           gr == Receive(r, i.staged)
           fi == Finish(gi, heard, busy)
           fr == Finish(gr, heard, busy)
<1>1. Agree(gi, gr)
  BY ReceiveAgree
<1>2. i.staged \in Frames
  BY NodeFields
<1>3. /\ gi \in Nodes /\ gi.anchor = i.anchor /\ gi.initiator
      /\ gr \in Nodes /\ gr.anchor = r.anchor /\ ~gr.initiator
  BY <1>2, ReceiveKeeps
<1> HIDE DEF gi, gr
<1>4. gi \in Moving /\ gr \in Moving
  BY <1>3, NodeFields
<1>5. Agree(fi, fr)
  BY <1>1, <1>3, <1>4, FinishAgree
<1>6. /\ Finished(gi, Settled(gi, heard), Advance(Settled(gi, heard)), fi)
      /\ Finished(gr, Settled(gr, heard), Advance(Settled(gr, heard)), fr)
  BY <1>4, FinishFields
<1> HIDE DEF fi, fr
<1>7. /\ Tells(fi.staged, fi) /\ Tells(fr.staged, fr)
      /\ fi.anchor = NextActive(gi) /\ fr.anchor = NextActive(gr)
  BY <1>6 DEF Finished
<1>8. fi.anchor = fr.anchor
  BY <1>1, <1>3, <1>7, NextActiveSame DEF Agree
<1>9. Anchored(fi, fr, t, Ends)
  <2>1. Ends # {}
    BY DEF Ends
  <2> QED
    BY <1>8, <2>1, WalkFrom DEF Anchored
<1>10. Clean(fi, fr, t, Ends)
  BY <1>5, <1>7, <1>9 DEF Clean
<1> QED
  BY <1>10 DEF fi, fr, gi, gr

\* and every step that loses nothing keeps them agreeing.
LEMMA CleanStep ==
  ASSUME Types, Undisturbed => Clean(MyInitiator, MyResponder, now, gone),
         [Next]_vars, Undisturbed'
  PROVE  Clean(MyInitiator', MyResponder', now', gone')
<1> DEFINE i == MyInitiator
           r == MyResponder
<1>1. /\ Undisturbed /\ losses' = losses /\ spills' = spills
      /\ drops' = drops /\ urgent' = urgent
  <2>1. losses \in Nat /\ spills \in Nat /\ drops \in Nat /\ urgent \in Nat
    BY LinkAssumption DEF Types, TypeOK
  <2>2. /\ losses' = losses \/ losses' = losses + 1
        /\ spills' = spills \/ spills' = spills + 1
        /\ drops' = drops \/ drops' = drops + 1
        /\ urgent' = urgent \/ urgent' = urgent + 1
    BY DEF Next, Meet, Tick, AdoptMap, Expedite, CatchUp, Alone, Refused, Late, Displaced, vars
  <2> QED
    BY <2>1, <2>2 DEF Undisturbed
<1>2. Clean(i, r, now, gone)
  BY <1>1
<1>3. /\ i \in Nodes /\ r \in Nodes /\ i.initiator /\ ~r.initiator
      /\ FrameOK(i.staged) /\ FrameOK(r.staged)
  BY TwoEnds DEF Types, Records, MyInitiator, MyResponder
<1>4. /\ Agree(i, r) /\ Tells(i.staged, i) /\ Tells(r.staged, r) /\ Anchored(i, r, now, gone)
      /\ i.subrate = r.subrate
  BY <1>2 DEF Clean, Agree
<1>5. ASSUME Meet PROVE Clean(i', r', now', gone')
  <2>1. PICK there \in BOOLEAN, back \in BOOLEAN, busy \in BOOLEAN, kept \in SUBSET Ends :
          /\ back => there
          /\ losses' = IF back THEN losses ELSE losses + 1
          /\ spills' = IF there /\ Responder \notin kept THEN spills + 1 ELSE spills
          /\ node' = [e \in Ends |->
               LET heard == IF e = Initiator THEN back ELSE there
                   got == IF heard THEN Receive(node[e], Read(node[Other(e)].staged, e \in kept))
                          ELSE node[e]
               IN Finish(got, heard, busy)]
    BY <1>5 DEF Meet
  <2>2. losses + 1 # losses /\ spills + 1 # spills
    BY LinkAssumption DEF Types, TypeOK
  <2>3. back = TRUE /\ there = TRUE /\ Responder \in kept
    BY <1>1, <2>1, <2>2
  <2>4. PICK heard \in BOOLEAN : heard = TRUE
    OBVIOUS
  <2> DEFINE f == Read(r.staged, Initiator \in kept)
  <2>5. /\ node'[Initiator] =
             Finish(Receive(node[Initiator], Read(node[Responder].staged, Initiator \in kept)),
                    heard, busy)
        /\ node'[Responder] =
             Finish(Receive(node[Responder], Read(node[Initiator].staged, Responder \in kept)),
                    heard, busy)
    BY <2>1, <2>3, <2>4, TwoEnds DEF Types
  <2>6. /\ i' = Finish(Receive(i, f), heard, busy)
        /\ r' = Finish(Receive(r, i.staged), heard, busy)
    BY <2>3, <2>5 DEF MyInitiator, MyResponder, Read
  <2>10. f \in Frames /\ FrameOK(f) /\ Tells(f, r)
    BY <1>3, <1>4, NodeFields, ReadFrame
  <2> HIDE DEF f
  <2>7. gone' = Ends /\ Together
    BY <1>5 DEF Meet
  <2>8. i.anchor = r.anchor
    BY <2>7, TwoEnds DEF Together, Due, Types, MyInitiator, MyResponder
  <2>9. Clean(Finish(Receive(i, f), heard, busy),
              Finish(Receive(r, i.staged), heard, busy), now', Ends)
    BY <1>3, <1>4, <2>8, <2>10, MetAgree
  <2> QED
    BY <2>6, <2>7, <2>9
<1>6. ASSUME Tick PROVE Clean(i', r', now', gone')
  <2>1. /\ i' = i /\ r' = r /\ now' = now + 1 /\ gone' = {}
        /\ \A e \in Ends : ~Behind(e) /\ ~Due(e)
    BY <1>6 DEF Tick, MyInitiator, MyResponder
  <2>2. i.anchor \in Counters /\ r.anchor \in Counters /\ i.subrate \in Subrates
        /\ i.anchor \in Nat /\ now \in Nat
    BY <1>3, NodeFields, LinkAssumption DEF Types, TypeOK
  <2>3. ~Behind(Initiator) /\ ~Behind(Responder) /\ ~Due(Initiator)
    BY <2>1, TwoEnds DEF Types
  <2>4. i.anchor = r.anchor /\ i.anchor > now
    <3>1. CASE gone = {}
      <4>1. i.anchor > now
        BY <1>2, <2>3, <3>1, TwoEnds, WhereTheyAre DEF Types
      <4> QED
        BY <1>4, <3>1, <4>1 DEF Anchored
    <3>2. CASE gone # {}
      <4>1. /\ ~Passed(i.anchor, i.subrate, now) /\ ~Passed(r.anchor, i.subrate, now)
        BY <1>2, <2>3, <3>2, TwoEnds, WhereTheyAre DEF Types, MyInitiator, MyResponder
      <4>2. SameWalk(i.anchor, r.anchor, i.subrate, now)
        BY <1>4, <3>2 DEF Anchored
      <4>3. i.anchor = r.anchor
        BY <2>2, <4>1, <4>2, WalkMeets
      <4> QED
        BY <2>2, <4>1, <4>3 DEF Passed
    <3> QED
      BY <3>1, <3>2
  <2>5. i.anchor % i.subrate = 0
    BY <2>3 DEF Behind, Aligned, MyInitiator
  <2>6. Anchored(i, r, now + 1, {})
    BY <2>2, <2>4, <2>5 DEF Anchored
  <2> QED
    BY <1>4, <2>1, <2>6 DEF Clean
<1>7. ASSUME AdoptMap PROVE Clean(i', r', now', gone')
  <2>1. PICK map \in 0..MaxMaps : map = maps'
    <3>1. maps \in 0..MaxMaps
      BY DEF Types, TypeOK
    <3>2. maps < MaxMaps /\ maps' = maps + 1
      BY <1>7 DEF AdoptMap
    <3> QED
      BY <3>1, <3>2, LinkAssumption
  <2>2. /\ i' = Propose(i, "MAP", map) /\ r' = r /\ now' = now /\ gone' = gone
        /\ i.pending = {}
    <3>1. /\ node' = [node EXCEPT ![Initiator] = Propose(node[Initiator], "MAP", map)]
          /\ now' = now /\ gone' = gone /\ node[Initiator].pending = {}
      BY <1>7, <2>1 DEF AdoptMap
    <3>2. node'[Responder] = node[Responder]
      BY <3>1, TwoEnds DEF Types
    <3>3. node'[Initiator] = Propose(node[Initiator], "MAP", map)
      BY <3>1, TwoEnds DEF Types, Records
    <3> QED
      BY <3>1, <3>2, <3>3 DEF MyInitiator, MyResponder
  <2> DEFINE m == Propose(i, "MAP", map)
  <2>3. /\ m.pending = i.pending \cup {"MAP"} /\ ~m.acked /\ m.anchor = i.anchor
        /\ m.staged = i.staged /\ m.map = i.map /\ m.subrate = i.subrate
    BY <1>3, ProposeMap
  <2> HIDE DEF m
  <2>4. r.pending = {}
    BY <1>4, <2>2 DEF Agree
  <2>5. Agree(m, r)
    BY <1>4, <2>2, <2>3, <2>4 DEF Agree
  <2>6. Tells(m.staged, m)
    BY <1>4, <2>2, <2>3 DEF Tells
  <2>7. Anchored(m, r, now, gone)
    BY <1>4, <2>3 DEF Anchored
  <2>8. Clean(m, r, now, gone)
    BY <1>4, <2>5, <2>6, <2>7 DEF Clean
  <2> QED
    BY <2>2, <2>8 DEF m
<1>8. ASSUME NEW e \in Ends, CatchUp(e) PROVE Clean(i', r', now', gone')
  <2> DEFINE n == node[e]
             m == [n EXCEPT !.anchor = NextActive(n)]
  <2>1. /\ node' = [node EXCEPT ![e] = m] /\ now' = now /\ gone' = gone /\ Behind(e)
    BY <1>8 DEF CatchUp
  <2>2. n \in Nodes /\ n.anchor \in Counters
    BY NodeFields DEF Types, Records
  <2>3. /\ m.anchor = NextActive(n) /\ m.staged = n.staged /\ m.map = n.map
        /\ m.subrate = n.subrate /\ m.pending = n.pending /\ m.newMap = n.newMap
        /\ m.newSubrate = n.newSubrate /\ m.instant = n.instant /\ m.acked = n.acked
    BY <2>2, CaughtUp
  <2> HIDE DEF m
  <2>4. gone = Ends /\ gone # {} /\ Passed(n.anchor, i.subrate, now)
        /\ SameWalk(i.anchor, r.anchor, i.subrate, now)
    <3>1. gone # {}
      BY <1>2, <2>1, WhereTheyAre
    <3> QED
      BY <1>2, <1>4, <2>1, <3>1, WhereTheyAre DEF Anchored
  <2>5. CASE e = Initiator
    <3>1. i' = m /\ r' = r /\ n = i
      BY <2>1, <2>5, TwoEnds DEF Types, Records, MyInitiator, MyResponder
    <3>2. m.anchor = NextOf(i.anchor, i.subrate)
      BY <2>3, <3>1 DEF NextActive, NextOf
    <3>3. SameWalk(m.anchor, r.anchor, i.subrate, now)
      BY <2>2, <2>4, <3>1, <3>2, WalkOn
    <3>4. Anchored(m, r, now, gone)
      BY <2>3, <2>4, <3>1, <3>3 DEF Anchored
    <3>5. Agree(m, r) /\ Tells(m.staged, m)
      BY <1>4, <2>3, <3>1 DEF Agree, Tells
    <3>6. Clean(m, r, now, gone)
      BY <1>4, <3>4, <3>5 DEF Clean
    <3> QED
      BY <2>1, <3>1, <3>6
  <2>6. CASE e = Responder
    <3>1. i' = i /\ r' = m /\ n = r
      BY <2>1, <2>6, TwoEnds DEF Types, Records, MyInitiator, MyResponder
    <3>2. m.anchor = NextOf(r.anchor, i.subrate)
      BY <1>4, <2>3, <3>1 DEF NextActive, NextOf
    <3>3. SameWalk(i.anchor, m.anchor, i.subrate, now)
      <4>1. SameWalk(r.anchor, i.anchor, i.subrate, now)
        BY <2>4, WalkBack
      <4>2. SameWalk(m.anchor, i.anchor, i.subrate, now)
        BY <2>2, <2>4, <3>1, <3>2, <4>1, WalkOn
      <4> QED
        BY <4>2, WalkBack
    <3>4. Anchored(i, m, now, gone)
      BY <2>4, <3>3 DEF Anchored
    <3>5. Agree(i, m) /\ Tells(m.staged, m)
      BY <1>4, <2>3, <3>1 DEF Agree, Tells
    <3>6. Clean(i, m, now, gone)
      BY <1>4, <3>4, <3>5 DEF Clean
    <3> QED
      BY <2>1, <3>1, <3>6
  <2> QED
    BY <2>5, <2>6, TwoEnds DEF Types
<1>9. ASSUME NEW e \in Ends, Alone(e) PROVE FALSE
  BY <1>2, <1>9, WhereTheyAre DEF Alone
<1>10. ASSUME NEW e \in Ends, Refused(e) \/ Late(e) \/ Displaced(e) PROVE FALSE
  <2>1. drops' = drops + 1
    BY <1>10 DEF Refused, Late, Displaced
  <2> QED
    BY <1>1, <2>1, LinkAssumption DEF Types, TypeOK
<1>11. ASSUME Expedite PROVE FALSE
  <2>1. urgent' = urgent + 1
    BY <1>11 DEF Expedite
  <2> QED
    BY <1>1, <2>1, LinkAssumption DEF Types, TypeOK
<1>12. CASE UNCHANGED vars
  <2>1. i' = i /\ r' = r /\ now' = now /\ gone' = gone
    BY <1>12 DEF vars, MyInitiator, MyResponder
  <2> QED
    BY <1>2, <2>1
<1> QED
  BY <1>5, <1>6, <1>7, <1>8, <1>9, <1>10, <1>11, <1>12 DEF Next

\* While every frame arrives and is read and every event is given, both ends look
\* at the same event with the same map and the same subrate, for every modulus of the
\* event number, every lead of the instant and every ceiling of the subrate
\* (next_active, lg_link_advance, anchor_catch_up).
THEOREM CleanChanges == Spec => []CleanChangesAgree
<1>1. Init => IInv
  BY TypesInit, CleanInit DEF IInv
<1>2. IInv /\ [Next]_vars => IInv'
  <2> SUFFICES ASSUME IInv, [Next]_vars PROVE IInv'
    OBVIOUS
  <2>1. Types'
    BY TypesStep DEF IInv
  <2>2. Undisturbed' => Clean(MyInitiator', MyResponder', now', gone')
    BY CleanStep DEF IInv
  <2> QED
    BY <2>1, <2>2 DEF IInv
<1>3. IInv => CleanChangesAgree
  <2> SUFFICES ASSUME IInv, Undisturbed, \A e \in Ends : ~Behind(e)
               PROVE  /\ MyInitiator.anchor = MyResponder.anchor
                      /\ MyInitiator.map = MyResponder.map
                      /\ MyInitiator.subrate = MyResponder.subrate
    BY DEF CleanChangesAgree, MyInitiator, MyResponder
  <2>1. Types /\ Clean(MyInitiator, MyResponder, now, gone)
    BY DEF IInv
  <2>2. /\ MyInitiator.map = MyResponder.map /\ MyInitiator.subrate = MyResponder.subrate
        /\ Anchored(MyInitiator, MyResponder, now, gone)
    BY <2>1 DEF Clean, Agree
  <2>3. CASE gone = {}
    BY <2>2, <2>3 DEF Anchored
  <2>4. CASE gone # {}
    <3>1. MyInitiator \in Nodes /\ MyResponder \in Nodes
          /\ ~Behind(Initiator) /\ ~Behind(Responder)
      BY <2>1, TwoEnds DEF Types, MyInitiator, MyResponder
    <3>2. /\ MyInitiator.anchor \in Counters /\ MyResponder.anchor \in Counters
          /\ MyInitiator.subrate \in Subrates
      BY <3>1, NodeFields
    <3>3. /\ ~Passed(MyInitiator.anchor, MyInitiator.subrate, now)
          /\ ~Passed(MyResponder.anchor, MyInitiator.subrate, now)
      BY <2>1, <2>4, <3>1, WhereTheyAre, TwoEnds DEF Types, MyInitiator, MyResponder
    <3>4. SameWalk(MyInitiator.anchor, MyResponder.anchor, MyInitiator.subrate, now)
      BY <2>2, <2>4 DEF Anchored
    <3>5. MyInitiator.anchor = MyResponder.anchor
      BY <3>2, <3>3, <3>4, WalkMeets
    <3> QED
      BY <2>2, <3>5
  <2> QED
    BY <2>3, <2>4
<1> QED
  BY <1>1, <1>2, <1>3, PTL DEF Spec
----------------------------------------------------------------------------
(* While every event is run at its own moment, a change that takes effect   *)
(* is one the responder has.                                                *)

\* Event numbers do not wrap.
Roomy == Horizon + 2 * SubrateMax < CounterMod

\* What is divided is the quotient's multiple and the remainder.
LEMMA Division ==
  ASSUME NEW a \in Nat, NEW s \in Nat \ {0} PROVE a = (a \div s) * s + (a % s)
BY Z3

\* Nor does the next active event then.
LEMMA NextActiveAhead ==
  ASSUME NEW n \in Moving, n.anchor + n.subrate < CounterMod
  PROVE  /\ NextActive(n) > n.anchor /\ NextActive(n) <= n.anchor + n.subrate
         /\ NextActive(n) % n.subrate = 0
<1>1. n.anchor \in Nat /\ n.subrate \in Nat \ {0}
  BY DEF Moving, Subrates
<1>2. PICK a \in Nat, s \in Nat \ {0} : a = n.anchor /\ s = n.subrate
  BY <1>1
<1>3. PICK q \in Nat, r \in 0..(s - 1) : q = a \div s /\ r = a % s
  BY <1>2
<1>4. a = (a \div s) * s + (a % s)
  BY Division
<1>5. PICK x \in Nat : x = q * s
  BY <1>2, <1>3
<1>6. PICK p \in Nat : p = (q + 1) * s /\ p = x + s
  BY <1>2, <1>3, <1>5
<1>7. p > a /\ p <= a + s /\ p < CounterMod
  <2>1. a = x + r
    BY <1>3, <1>4, <1>5
  <2>2. r < s /\ 0 <= r /\ r \in Nat /\ p = x + s
    BY <1>2, <1>3, <1>6
  <2>3. a + s < CounterMod
    BY <1>2
  <2> QED
    BY <1>2, <2>1, <2>2, <2>3, <1>5, LinkAssumption
<1>8. p % CounterMod = p
  BY <1>7, LinkAssumption
<1>9. p % s = 0
  BY <1>2, <1>3, <1>6, Z3
<1>10. NextActive(n) = p
  BY <1>2, <1>3, <1>6, <1>8 DEF NextActive
<1> QED
  BY <1>2, <1>7, <1>9, <1>10

\* An anchor that leaves room for the next active event.
Within(n) ==
  /\ n.anchor <= Horizon + 2 * SubrateMax
  /\ ~Aligned(n) => n.anchor <= Horizon + SubrateMax

\* From an event within the horizon the link advances and stays within.
LEMMA AdvanceWithin ==
  ASSUME Roomy, NEW n \in Nodes, n.anchor <= Horizon + SubrateMax
  PROVE  /\ NextActive(n) > n.anchor /\ NextActive(n) <= n.anchor + SubrateMax
         /\ NextActive(n) % n.subrate = 0 /\ NextActive(n) \in Nat
<1>1. n.anchor \in Nat /\ n.subrate \in 1..SubrateMax /\ SubrateMax \in Nat
      /\ Horizon \in Nat /\ CounterMod \in Nat /\ n \in Moving
  BY NodeFields, LinkAssumption DEF Subrates
<1>2. n.anchor + n.subrate < CounterMod
  BY <1>1 DEF Roomy
<1>3. NextActive(n) \in Nat
  BY <1>1, NextActiveCounter, LinkAssumption DEF Counters
<1>4. /\ NextActive(n) > n.anchor /\ NextActive(n) <= n.anchor + n.subrate
      /\ NextActive(n) % n.subrate = 0
  BY <1>1, <1>2, NextActiveAhead
<1> QED
  BY <1>1, <1>3, <1>4

\* At most one change is pending.
Single(n) == n.pending \in {{}, {"MAP"}, {"SUBRATE"}}

\* The responder is on map x, or has it pending.
Has(r, x) == IF "MAP" \in r.pending THEN r.newMap = x ELSE r.map = x

\* Both ends have the same change pending.
Shared(i, r) ==
  /\ i.pending = r.pending /\ i.instant = r.instant
  /\ "MAP" \in r.pending => i.newMap = r.newMap

\* What the records of the initiator and the responder say of each other: a
\* change the responder has pending is the initiator's, or the initiator is past
\* its instant, and a confirmed map is one the responder has.
Pact(i, r) ==
  /\ Single(i) /\ Single(r)
  /\ r.pending # {} => i.anchor >= r.instant \/ Shared(i, r)
  /\ i.acked /\ "MAP" \in i.pending => Has(r, i.newMap)

\* Frames that are heard leave it so.
LEMMA HeardPact ==
  ASSUME NEW i \in Nodes, NEW r \in Nodes, i.initiator, ~r.initiator, Pact(i, r),
         FrameOK(i.staged), Tells(i.staged, i), NEW f \in Frames, FrameOK(f), Tells(f, r),
         i.anchor = r.anchor, r.pending # {} => r.anchor < r.instant,
         NEW there \in BOOLEAN, NEW back \in BOOLEAN, back => there
  PROVE  Pact(IF back THEN Receive(i, f) ELSE i, IF there THEN Receive(r, i.staged) ELSE r)
<1> DEFINE gi == IF back THEN Receive(i, f) ELSE i
           gr == IF there THEN Receive(r, i.staged) ELSE r
<1>1. i.staged \in Frames /\ i.anchor \in Nat /\ r.instant \in Nat
      /\ r.anchor \in Nat
  BY NodeFields, LinkAssumption DEF Counters
<1>2. /\ gi.map = i.map /\ gi.anchor = i.anchor
      /\ gi.acked <=> i.acked \/ (back /\ i.staged.kind \in Changes)
      /\ gi.pending = IF back /\ f.kind \in Changes THEN i.pending \cup {f.kind}
                      ELSE i.pending
      /\ gi.instant = IF back /\ f.kind \in Changes THEN f.instant ELSE i.instant
      /\ gi.newMap = IF back /\ f.kind = "MAP" THEN f.value ELSE i.newMap
  BY <1>1, ReceiveFields
<1>3. /\ gr.map = r.map
      /\ gr.pending = IF there /\ i.staged.kind \in Changes THEN r.pending \cup {i.staged.kind}
                      ELSE r.pending
      /\ gr.instant = IF there /\ i.staged.kind \in Changes THEN i.staged.instant ELSE r.instant
      /\ gr.newMap = IF there /\ i.staged.kind = "MAP" THEN i.staged.value ELSE r.newMap
  BY <1>1, ReceiveFields
<1> HIDE DEF gi, gr
\* A change the responder has pending is the initiator's.
<1>4. r.pending # {} => Shared(i, r)
  <2>1. r.pending # {} => ~(i.anchor >= r.instant)
    BY <1>1
  <2> QED
    BY <2>1 DEF Pact
\* What the initiator hears is what it has pending.
<1>5. gi.pending = i.pending /\ gi.instant = i.instant /\ ("MAP" \in i.pending => gi.newMap = i.newMap)
  <2>1. CASE f.kind \in Changes
    <3>1. f.kind \in r.pending /\ f.instant = r.instant
          /\ (f.kind = "MAP" => f.value = r.newMap)
      BY <2>1 DEF Tells
    <3>2. Shared(i, r)
      BY <1>4, <3>1
    <3> QED
      BY <1>2, <2>1, <3>1, <3>2 DEF Shared
  <2>2. CASE f.kind \notin Changes
    BY <1>2, <2>2 DEF Changes
  <2> QED
    BY <2>1, <2>2
<1>6. CASE there /\ i.staged.kind \in Changes
  <2>1. /\ i.staged.kind \in i.pending /\ i.pending = {i.staged.kind}
        /\ i.staged.instant = i.instant
        /\ "MAP" \in i.pending => i.staged.kind = "MAP" /\ i.staged.value = i.newMap
    BY <1>6 DEF Pact, Single, Tells
  <2>2. gr.pending = i.pending /\ gr.instant = i.instant
        /\ ("MAP" \in i.pending => gr.newMap = i.newMap)
    BY <1>3, <1>4, <1>6, <2>1 DEF Shared
  <2>3. Shared(gi, gr) /\ Single(gi) /\ Single(gr)
    BY <1>5, <2>2 DEF Shared, Pact, Single
  <2>4. "MAP" \in gi.pending => Has(gr, gi.newMap)
    BY <1>5, <2>2 DEF Has
  <2>5. Pact(gi, gr)
    BY <2>3, <2>4 DEF Pact
  <2> QED
    BY <2>5 DEF gi, gr
<1>7. CASE ~(there /\ i.staged.kind \in Changes)
  <2>1. gr.pending = r.pending /\ gr.instant = r.instant /\ gr.newMap = r.newMap
        /\ gr.map = r.map
    BY <1>3, <1>7 DEF Changes
  <2>2. gi.acked <=> i.acked
    BY <1>2, <1>7
  <2>3. gr.pending # {} => Shared(gi, gr)
    BY <1>4, <1>5, <2>1 DEF Shared
  <2>4. Single(gi) /\ Single(gr)
    BY <1>5, <2>1 DEF Pact, Single
  <2>5. gi.acked /\ "MAP" \in gi.pending => Has(gr, gi.newMap)
    BY <1>5, <2>1, <2>2 DEF Pact, Has
  <2>6. Pact(gi, gr)
    BY <2>3, <2>4, <2>5 DEF Pact
  <2> QED
    BY <2>6 DEF gi, gr
<1> QED
  BY <1>6, <1>7

\* The initiator has had an event.
InitiatorAfter(i, r, m) ==
  /\ Pact(m, r) /\ Tells(m.staged, m) /\ Within(m)
  /\ m.map # i.map => Has(r, m.map)

LEMMA FinishInitiator ==
  ASSUME Roomy, NEW i \in Nodes, NEW r \in Nodes, i.initiator, Pact(i, r), i.anchor <= Horizon,
         NEW heard \in BOOLEAN, NEW busy
  PROVE  InitiatorAfter(i, r, Finish(i, heard, busy))
<1> DEFINE k == Settled(i, heard)
           a == Advance(k)
           m == Finish(i, heard, busy)
<1>1. Finished(i, k, a, m)
  BY NodeFields, FinishFields
<1> HIDE DEF k, m
<1>2. k \in Moving
  BY <1>1 DEF Finished
<1>3. /\ ChangeDue(k) =>
           /\ a.pending = {} /\ a.acked = FALSE
           /\ a.map = IF Agreed(k) /\ "MAP" \in k.pending THEN k.newMap ELSE k.map
      /\ ~ChangeDue(k) =>
           /\ a.pending = k.pending /\ a.acked = k.acked /\ a.instant = k.instant
           /\ a.map = k.map /\ a.newMap = k.newMap
  BY <1>2, AdvanceFields
<1> HIDE DEF a
<1>4. /\ k.pending = i.pending /\ k.acked = i.acked /\ k.instant = i.instant
      /\ k.map = i.map /\ k.newMap = i.newMap /\ NextActive(k) = NextActive(i)
      /\ Agreed(k) => i.acked
  BY <1>1, NextActiveSame DEF Finished, Agreed
<1>5. /\ m.anchor = NextActive(i) /\ m.map = a.map /\ Tells(m.staged, m)
      /\ \/ /\ m.pending = a.pending /\ m.acked = a.acked
            /\ m.instant = a.instant /\ m.newMap = a.newMap
         \/ /\ a.pending = {} /\ m.pending = {"SUBRATE"} /\ m.acked = FALSE
  BY <1>1 DEF Finished
<1>6. /\ i.anchor \in Nat /\ r.instant \in Nat /\ i.instant \in Nat
      /\ Horizon \in Nat /\ SubrateMax \in Nat
  BY NodeFields, LinkAssumption DEF Counters
<1>7. NextActive(i) > i.anchor /\ NextActive(i) <= i.anchor + SubrateMax /\ NextActive(i) \in Nat
  BY <1>6, AdvanceWithin
<1>8. Within(m)
  BY <1>5, <1>6, <1>7 DEF Within
<1>9. CASE ChangeDue(k)
  <2>1. m.acked = FALSE /\ m.pending \in {{}, {"SUBRATE"}}
    BY <1>3, <1>5, <1>9
  <2>2. m.anchor >= i.instant /\ m.anchor >= i.anchor
    BY <1>4, <1>5, <1>6, <1>7, <1>9 DEF ChangeDue
  <2>3. r.pending # {} => m.anchor >= r.instant
    <3>1. Shared(i, r) => i.instant = r.instant
      BY DEF Shared
    <3>2. r.pending # {} => i.anchor >= r.instant \/ i.instant = r.instant
      BY <3>1 DEF Pact
    <3> QED
      BY <1>5, <1>6, <1>7, <2>2, <3>2
  <2>4. Pact(m, r)
    BY <2>1, <2>3 DEF Pact, Single
  <2>5. m.map # i.map => Has(r, m.map)
    BY <1>3, <1>4, <1>5, <1>9 DEF Pact
  <2>6. InitiatorAfter(i, r, m)
    BY <1>5, <1>8, <2>4, <2>5 DEF InitiatorAfter
  <2> QED
    BY <2>6 DEF m
<1>10. CASE ~ChangeDue(k)
  <2>1. m.map = i.map
    BY <1>3, <1>4, <1>5, <1>10
  <2>2. i.anchor >= r.instant => m.anchor >= r.instant
    BY <1>5, <1>6, <1>7
  <2>3. CASE /\ m.pending = i.pending /\ m.acked = i.acked
             /\ m.instant = i.instant /\ m.newMap = i.newMap
    <3>1. Pact(m, r)
      BY <2>2, <2>3 DEF Pact, Single, Shared
    <3>2. InitiatorAfter(i, r, m)
      BY <1>5, <1>8, <2>1, <3>1 DEF InitiatorAfter
    <3> QED
      BY <3>2 DEF m
  <2>4. CASE i.pending = {} /\ m.pending = {"SUBRATE"} /\ m.acked = FALSE
    <3>1. r.pending # {} => m.anchor >= r.instant
      BY <2>2, <2>4 DEF Pact, Shared
    <3>2. Pact(m, r)
      BY <2>4, <3>1 DEF Pact, Single
    <3>3. InitiatorAfter(i, r, m)
      BY <1>5, <1>8, <2>1, <3>2 DEF InitiatorAfter
    <3> QED
      BY <3>3 DEF m
  <2> QED
    BY <1>3, <1>4, <1>5, <1>10, <2>3, <2>4
<1> QED
  BY <1>9, <1>10

\* What the responder has pending, it will yet come to, after event t.
Awaits(r, t) ==
  r.pending # {} => r.anchor < r.instant /\ Aligned(r) /\ r.anchor > t

\* The responder has had an event.
ResponderAfter(i, r, m) ==
  /\ Pact(i, m) /\ Tells(m.staged, m) /\ Within(m) /\ Awaits(m, r.anchor)
  /\ \A x : Has(r, x) => Has(m, x)

LEMMA FinishResponder ==
  ASSUME Roomy, NEW i \in Nodes, NEW r \in Nodes, ~r.initiator, Pact(i, r), r.anchor <= Horizon,
         NEW heard \in BOOLEAN, NEW busy
  PROVE  ResponderAfter(i, r, Finish(r, heard, busy))
<1> DEFINE k == Settled(r, heard)
           a == Advance(k)
           m == Finish(r, heard, busy)
<1>1. Finished(r, k, a, m)
  BY NodeFields, FinishFields
<1> HIDE DEF k, m
<1>2. k \in Moving
  BY <1>1 DEF Finished
<1>3. /\ ChangeDue(k) =>
           /\ a.pending = {}
           /\ a.map = IF Agreed(k) /\ "MAP" \in k.pending THEN k.newMap ELSE k.map
      /\ ~ChangeDue(k) =>
           /\ a.pending = k.pending /\ a.instant = k.instant
           /\ a.map = k.map /\ a.newMap = k.newMap /\ a.subrate = k.subrate
  BY <1>2, AdvanceFields
<1> HIDE DEF a
<1>4. /\ k.pending = r.pending /\ k.instant = r.instant /\ k.subrate = r.subrate
      /\ k.map = r.map /\ k.newMap = r.newMap /\ NextActive(k) = NextActive(r)
      /\ Agreed(k)
  BY <1>1, NextActiveSame DEF Finished, Agreed
<1>5. /\ m.anchor = NextActive(r) /\ m.map = a.map /\ m.subrate = a.subrate
      /\ Tells(m.staged, m) /\ m.pending = a.pending
      /\ m.instant = a.instant /\ m.newMap = a.newMap
  BY <1>1 DEF Finished
<1>6. /\ r.anchor \in Nat /\ r.instant \in Nat /\ Horizon \in Nat /\ SubrateMax \in Nat
  BY NodeFields, LinkAssumption DEF Counters
<1>7. /\ NextActive(r) > r.anchor /\ NextActive(r) <= r.anchor + SubrateMax
      /\ NextActive(r) % r.subrate = 0 /\ NextActive(r) \in Nat
  BY <1>6, AdvanceWithin
<1>8. Within(m)
  BY <1>5, <1>6, <1>7 DEF Within
<1>9. CASE ChangeDue(k)
  <2>1. m.pending = {} /\ m.map = IF "MAP" \in r.pending THEN r.newMap ELSE r.map
    BY <1>3, <1>4, <1>5, <1>9
  <2>2. Pact(i, m)
    BY <2>1 DEF Pact, Single, Has
  <2>3. \A x : Has(r, x) => Has(m, x)
    BY <2>1 DEF Has
  <2>4. ResponderAfter(i, r, m)
    BY <1>5, <1>8, <2>1, <2>2, <2>3 DEF ResponderAfter, Awaits
  <2> QED
    BY <2>4 DEF m
<1>10. CASE ~ChangeDue(k)
  <2>1. /\ m.pending = r.pending /\ m.instant = r.instant /\ m.newMap = r.newMap
        /\ m.map = r.map /\ m.subrate = r.subrate
    BY <1>3, <1>4, <1>5, <1>10
  <2>2. Pact(i, m)
    BY <2>1 DEF Pact, Single, Shared, Has
  <2>3. \A x : Has(r, x) => Has(m, x)
    BY <2>1 DEF Has
  <2>4. m.pending # {} => m.anchor < m.instant
    BY <1>4, <1>5, <1>6, <1>7, <1>10, <2>1 DEF ChangeDue
  <2>5. Aligned(m)
    BY <1>5, <1>7, <2>1 DEF Aligned
  <2>6. Awaits(m, r.anchor)
    BY <1>5, <1>7, <2>4, <2>5 DEF Awaits
  <2>7. ResponderAfter(i, r, m)
    BY <1>5, <1>8, <2>2, <2>3, <2>6 DEF ResponderAfter
  <2> QED
    BY <2>7 DEF m
<1> QED
  BY <1>9, <1>10

\* What the responder has pending it will yet come to: not before event t, and
\* after it when t is over.
Comes(r, t, over) ==
  r.pending # {} =>
    /\ r.anchor < r.instant /\ Aligned(r) /\ r.anchor >= t
    /\ over => r.anchor > t

\* The records while every event is run at its own moment and what the responder
\* answers is read.
Kept(i, r, t, over) ==
  /\ Pact(i, r) /\ Tells(i.staged, i) /\ Tells(r.staged, r)
  /\ Within(i) /\ Within(r) /\ Comes(r, t, over)

OnTime == spills = 0 /\ drops = 0 /\ urgent = 0
ResponderOver == Responder \in gone

\* The records are kept, and a map the initiator moves to the responder has.
KeptAfter ==
  /\ Kept(MyInitiator', MyResponder', now', ResponderOver')
  /\ MyInitiator'.map # MyInitiator.map => Has(MyResponder', MyInitiator'.map)

\* Both ends are at an event, whatever arrives.
LEMMA MetKept ==
  ASSUME Roomy, NEW i \in Nodes, NEW r \in Nodes, i.initiator, ~r.initiator,
         FrameOK(i.staged), NEW f \in Frames, FrameOK(f), Tells(f, r), NEW t \in Nat, t <= Horizon,
         i.anchor = t, r.anchor = t, Kept(i, r, t, FALSE),
         NEW there \in BOOLEAN, NEW back \in BOOLEAN, back => there, NEW busy
  PROVE  LET gi == IF back THEN Receive(i, f) ELSE i
             gr == IF there THEN Receive(r, i.staged) ELSE r
             fi == Finish(gi, back, busy)
             fr == Finish(gr, there, busy)
         IN Kept(fi, fr, t, TRUE) /\ (fi.map # i.map => Has(fr, fi.map))
<1> DEFINE gi == IF back THEN Receive(i, f) ELSE i
           gr == IF there THEN Receive(r, i.staged) ELSE r
           fi == Finish(gi, back, busy)
           fr == Finish(gr, there, busy)
<1>1. r.pending # {} => r.anchor < r.instant
  BY DEF Kept, Comes
<1>2. Pact(gi, gr)
  BY <1>1, HeardPact DEF Kept
<1>3. i.staged \in Frames
  BY NodeFields
<1>4. /\ gi \in Nodes /\ gi.anchor = t /\ gi.initiator /\ gi.map = i.map
      /\ gr \in Nodes /\ gr.anchor = t /\ ~gr.initiator
  <2>1. /\ Receive(i, f) \in Nodes /\ Receive(i, f).anchor = i.anchor
        /\ Receive(i, f).initiator = i.initiator /\ Receive(i, f).map = i.map
    BY <1>3, ReceiveKeeps
  <2>2. /\ Receive(r, i.staged) \in Nodes /\ Receive(r, i.staged).anchor = r.anchor
        /\ Receive(r, i.staged).initiator = r.initiator
    BY <1>3, ReceiveKeeps
  <2> QED
    BY <2>1, <2>2
<1> HIDE DEF gi, gr
<1>5. InitiatorAfter(gi, gr, fi)
  BY <1>2, <1>4, FinishInitiator
<1>6. fi \in Nodes
  <2>1. Finished(gi, Settled(gi, back), Advance(Settled(gi, back)), fi)
    BY <1>4, NodeFields, FinishFields
  <2> QED
    BY <2>1 DEF Finished
<1> HIDE DEF fi
<1>7. Pact(fi, gr) /\ Tells(fi.staged, fi) /\ Within(fi)
      /\ (fi.map # i.map => Has(gr, fi.map))
  BY <1>4, <1>5 DEF InitiatorAfter
<1>8. ResponderAfter(fi, gr, fr)
  BY <1>4, <1>6, <1>7, FinishResponder
<1> HIDE DEF fr
<1>9. /\ Pact(fi, fr) /\ Tells(fr.staged, fr) /\ Within(fr) /\ Awaits(fr, t)
      /\ fi.map # i.map => Has(fr, fi.map)
  BY <1>4, <1>7, <1>8 DEF ResponderAfter
<1>10. fr \in Nodes
  <2>1. Finished(gr, Settled(gr, there), Advance(Settled(gr, there)), fr)
    BY <1>4, NodeFields, FinishFields DEF fr
  <2> QED
    BY <2>1 DEF Finished
<1>11. Comes(fr, t, TRUE)
  <2>1. fr.anchor \in Nat
    BY <1>10, NodeFields
  <2> QED
    BY <1>9, <2>1 DEF Awaits, Comes
<1>12. Kept(fi, fr, t, TRUE)
  BY <1>7, <1>9, <1>11 DEF Kept
<1> QED
  BY <1>9, <1>12 DEF fi, fr, gi, gr

\* Every step that gives up no event and no answered frame keeps the records so.
LEMMA KeptStep ==
  ASSUME Roomy, Types, OnTime => Kept(MyInitiator, MyResponder, now, ResponderOver),
         [Next]_vars, OnTime'
  PROVE  KeptAfter
<1> DEFINE i == MyInitiator
           r == MyResponder
<1>1. OnTime /\ spills' = spills /\ drops' = drops /\ urgent' = urgent
  <2>1. spills \in Nat /\ drops \in Nat /\ urgent \in Nat
    BY LinkAssumption DEF Types, TypeOK
  <2>2. /\ spills' = spills \/ spills' = spills + 1
        /\ drops' = drops \/ drops' = drops + 1
        /\ urgent' = urgent \/ urgent' = urgent + 1
    BY DEF Next, Meet, Tick, AdoptMap, Expedite, CatchUp, Alone, Refused, Late, Displaced, vars
  <2> QED
    BY <2>1, <2>2 DEF OnTime
<1>2. Kept(i, r, now, ResponderOver)
  BY <1>1
<1>3. /\ i \in Nodes /\ r \in Nodes /\ i.initiator /\ ~r.initiator
      /\ FrameOK(i.staged) /\ FrameOK(r.staged)
  BY TwoEnds DEF Types, Records, MyInitiator, MyResponder
<1>4. /\ Pact(i, r) /\ Tells(i.staged, i) /\ Tells(r.staged, r)
      /\ Within(i) /\ Within(r) /\ Comes(r, now, ResponderOver)
  BY <1>2 DEF Kept
<1>5. /\ i.anchor \in Nat /\ r.anchor \in Nat /\ i.instant \in Nat /\ r.instant \in Nat
      /\ now \in Nat /\ now <= Horizon /\ Horizon \in Nat /\ SubrateMax \in Nat
  BY <1>3, NodeFields, LinkAssumption DEF Types, TypeOK, Counters
<1>6. ASSUME Meet PROVE KeptAfter
  <2>1. PICK there \in BOOLEAN, back \in BOOLEAN, busy \in BOOLEAN, kept \in SUBSET Ends :
          /\ back => there
          /\ spills' = IF there /\ Responder \notin kept THEN spills + 1 ELSE spills
          /\ node' = [e \in Ends |->
               LET heard == IF e = Initiator THEN back ELSE there
                   got == IF heard THEN Receive(node[e], Read(node[Other(e)].staged, e \in kept))
                          ELSE node[e]
               IN Finish(got, heard, busy)]
    BY <1>6 DEF Meet
  <2>8. there => Responder \in kept
    <3>1. spills + 1 # spills
      BY LinkAssumption DEF Types, TypeOK
    <3> QED
      BY <1>1, <2>1, <3>1
  <2> DEFINE f == Read(r.staged, Initiator \in kept)
  <2>9. f \in Frames /\ FrameOK(f) /\ Tells(f, r)
    BY <1>3, <1>4, NodeFields, ReadFrame
  <2> DEFINE gi == IF back THEN Receive(i, f) ELSE i
             gr == IF there THEN Receive(r, i.staged) ELSE r
             fi == Finish(gi, back, busy)
             fr == Finish(gr, there, busy)
  <2>2. i' = fi /\ r' = fr
    BY <2>1, <2>8, TwoEnds DEF Types, MyInitiator, MyResponder, Read
  <2> HIDE DEF f
  <2>3. gone' = Ends /\ now' = now /\ Together
    BY <1>6 DEF Meet
  <2>4. i.anchor = now /\ r.anchor = now /\ ~ResponderOver
    BY <2>3, TwoEnds DEF Together, Due, Types, MyInitiator, MyResponder, ResponderOver
  <2>5. Kept(i, r, now, FALSE)
    BY <1>4 DEF Kept, Comes
  <2>6. Kept(fi, fr, now, TRUE) /\ (fi.map # i.map => Has(fr, fi.map))
    BY <1>3, <1>5, <2>1, <2>4, <2>5, <2>9, MetKept
  <2> HIDE DEF fi, fr
  <2>7. Kept(i', r', now', ResponderOver')
    <3>1. ResponderOver' = TRUE
      BY <2>3, TwoEnds DEF ResponderOver, Types
    <3> QED
      BY <2>2, <2>3, <2>6, <3>1
  <2> QED
    BY <2>2, <2>6, <2>7 DEF KeptAfter
<1>7. ASSUME Tick PROVE KeptAfter
  <2>1. /\ i' = i /\ r' = r /\ now' = now + 1 /\ ~ResponderOver'
        /\ ~Behind(Responder) /\ ~Due(Responder)
    BY <1>7, TwoEnds DEF Tick, MyInitiator, MyResponder, ResponderOver, Types
  <2>2. r.anchor > now
    BY <1>5, <2>1 DEF Behind, Due, MyResponder
  <2>3. Comes(r, now + 1, ResponderOver')
    BY <1>4, <1>5, <2>1, <2>2 DEF Comes
  <2>4. Kept(i', r', now', ResponderOver')
    BY <1>4, <2>1, <2>3 DEF Kept
  <2> QED
    BY <2>1, <2>4 DEF KeptAfter
<1>8. ASSUME AdoptMap PROVE KeptAfter
  <2>1. PICK map \in 0..MaxMaps : map = maps'
    <3>1. maps \in 0..MaxMaps
      BY DEF Types, TypeOK
    <3>2. maps < MaxMaps /\ maps' = maps + 1
      BY <1>8 DEF AdoptMap
    <3> QED
      BY <3>1, <3>2, LinkAssumption
  <2> DEFINE m == Propose(i, "MAP", map)
  <2>2. /\ i' = m /\ r' = r /\ now' = now /\ (ResponderOver' <=> ResponderOver)
        /\ i.pending = {}
    <3>1. /\ node' = [node EXCEPT ![Initiator] = Propose(node[Initiator], "MAP", map)]
          /\ now' = now /\ gone' = gone /\ node[Initiator].pending = {}
      BY <1>8, <2>1 DEF AdoptMap
    <3>2. node'[Responder] = node[Responder]
      BY <3>1, TwoEnds DEF Types
    <3>3. node'[Initiator] = Propose(node[Initiator], "MAP", map)
      BY <3>1, TwoEnds DEF Types, Records
    <3> QED
      BY <3>1, <3>2, <3>3 DEF MyInitiator, MyResponder, ResponderOver
  <2>3. /\ m.pending = i.pending \cup {"MAP"} /\ ~m.acked /\ m.anchor = i.anchor
        /\ m.staged = i.staged /\ m.map = i.map /\ m.subrate = i.subrate
    BY <1>3, ProposeMap
  <2> HIDE DEF m
  <2>4. r.pending # {} => m.anchor >= r.instant
    BY <1>4, <2>2, <2>3 DEF Pact, Shared
  <2>5. Pact(m, r)
    BY <1>4, <2>2, <2>3, <2>4 DEF Pact, Single
  <2>6. Tells(m.staged, m) /\ Within(m)
    BY <1>4, <2>2, <2>3 DEF Tells, Within, Aligned
  <2>7. Kept(i', r', now', ResponderOver')
    BY <1>4, <2>2, <2>5, <2>6 DEF Kept, Comes
  <2> QED
    BY <2>2, <2>3, <2>7 DEF KeptAfter
<1>9. ASSUME NEW e \in Ends, CatchUp(e) PROVE KeptAfter
  <2> DEFINE n == node[e]
             m == [n EXCEPT !.anchor = NextActive(n)]
  <2>1. /\ node' = [node EXCEPT ![e] = m] /\ now' = now /\ gone' = gone /\ Behind(e)
    BY <1>9 DEF CatchUp
  <2>2. n \in Nodes /\ n.anchor \in Nat /\ Within(n)
    BY <1>4, NodeFields, TwoEnds DEF Types, Records, MyInitiator, MyResponder
  <2>3. /\ m.anchor = NextActive(n) /\ m.staged = n.staged /\ m.map = n.map
        /\ m.subrate = n.subrate /\ m.pending = n.pending /\ m.newMap = n.newMap
        /\ m.newSubrate = n.newSubrate /\ m.instant = n.instant /\ m.acked = n.acked
    BY <2>2, CaughtUp
  <2> HIDE DEF m
  <2>4. n.anchor <= Horizon + SubrateMax
    BY <1>5, <2>1, <2>2 DEF Behind, Within
  <2>5. /\ NextActive(n) > n.anchor /\ NextActive(n) <= n.anchor + SubrateMax
        /\ NextActive(n) % n.subrate = 0 /\ NextActive(n) \in Nat
    BY <2>2, <2>4, AdvanceWithin
  <2>6. Within(m)
    BY <1>5, <2>2, <2>3, <2>4, <2>5 DEF Within, Aligned
  <2>7. Tells(m.staged, m)
    BY <1>4, <2>3, TwoEnds DEF Tells, Types, MyInitiator, MyResponder
  <2>8. ResponderOver' <=> ResponderOver
    BY <2>1 DEF ResponderOver
  <2>9. CASE e = Initiator
    <3>1. i' = m /\ r' = r /\ n = i
      BY <2>1, <2>9, TwoEnds DEF Types, Records, MyInitiator, MyResponder
    <3>2. i.anchor >= r.instant => m.anchor >= r.instant
      BY <1>5, <2>3, <2>5, <3>1
    <3>3. Pact(m, r)
      BY <1>4, <2>3, <3>1, <3>2 DEF Pact, Single, Shared
    <3>4. Kept(i', r', now', ResponderOver')
      BY <1>4, <2>1, <2>6, <2>7, <2>8, <3>1, <3>3 DEF Kept, Comes
    <3> QED
      BY <2>3, <3>1, <3>4 DEF KeptAfter
  <2>10. CASE e = Responder
    <3>1. i' = i /\ r' = m /\ n = r
      BY <2>1, <2>10, TwoEnds DEF Types, Records, MyInitiator, MyResponder
    <3>2. r.pending = {}
      BY <1>4, <1>5, <2>1, <2>10 DEF Behind, Comes, ResponderOver, MyResponder
    <3>3. Pact(i, m) /\ Comes(m, now, ResponderOver)
      BY <1>4, <2>3, <3>1, <3>2 DEF Pact, Single, Has, Comes
    <3>4. Kept(i', r', now', ResponderOver')
      BY <1>4, <2>1, <2>6, <2>7, <2>8, <3>1, <3>3 DEF Kept, Comes
    <3> QED
      BY <3>1, <3>4 DEF KeptAfter
  <2> QED
    BY <2>9, <2>10, TwoEnds DEF Types
<1>10. ASSUME NEW e \in Ends, Alone(e) PROVE KeptAfter
  <2>1. PICK busy \in BOOLEAN : node' = [node EXCEPT ![e] = Finish(node[e], FALSE, busy)]
    BY <1>10 DEF Alone
  <2>2. now' = now /\ gone' = gone \cup {e} /\ node[e].anchor = now
    BY <1>10 DEF Alone, Due
  <2> DEFINE m == Finish(node[e], FALSE, busy)
  <2>3. CASE e = Initiator
    <3>1. i' = m /\ r' = r /\ node[e] = i /\ (ResponderOver' <=> ResponderOver)
      BY <2>1, <2>2, <2>3, TwoEnds DEF Types, Records, MyInitiator, MyResponder, ResponderOver
    <3>2. i.anchor <= Horizon
      BY <1>5, <2>2, <3>1
    <3>3. InitiatorAfter(i, r, m)
      BY <1>3, <1>4, <3>1, <3>2, FinishInitiator
    <3> HIDE DEF m
    <3>4. Kept(i', r', now', ResponderOver')
      BY <1>4, <2>2, <3>1, <3>3 DEF InitiatorAfter, Kept, Comes
    <3> QED
      BY <3>1, <3>3, <3>4 DEF InitiatorAfter, KeptAfter
  <2>4. CASE e = Responder
    <3>1. i' = i /\ r' = m /\ node[e] = r /\ ResponderOver'
      BY <2>1, <2>2, <2>4, TwoEnds DEF Types, Records, MyInitiator, MyResponder, ResponderOver
    <3>2. r.anchor <= Horizon /\ r.anchor = now
      BY <1>5, <2>2, <3>1
    <3>3. ResponderAfter(i, r, m)
      BY <1>3, <1>4, <3>1, <3>2, FinishResponder
    <3>4. m.anchor \in Nat
      <4>1. Finished(r, Settled(r, FALSE), Advance(Settled(r, FALSE)), m)
        BY <1>3, <3>1, NodeFields, FinishFields
      <4> QED
        BY <4>1, NodeFields DEF Finished
    <3> HIDE DEF m
    <3>5. Comes(m, now, ResponderOver')
      BY <1>5, <3>2, <3>3, <3>4 DEF ResponderAfter, Awaits, Comes
    <3>6. Kept(i', r', now', ResponderOver')
      BY <1>4, <2>2, <3>1, <3>3, <3>5 DEF ResponderAfter, Kept
    <3> QED
      BY <3>1, <3>6 DEF KeptAfter
  <2> QED
    BY <2>3, <2>4, TwoEnds DEF Types
<1>11. ASSUME NEW e \in Ends, Refused(e) \/ Late(e) \/ Displaced(e) PROVE FALSE
  <2>1. drops' = drops + 1
    BY <1>11 DEF Refused, Late, Displaced
  <2> QED
    BY <1>1, <2>1, LinkAssumption DEF Types, TypeOK
<1>12. ASSUME Expedite PROVE FALSE
  <2>1. urgent' = urgent + 1
    BY <1>12 DEF Expedite
  <2> QED
    BY <1>1, <2>1, LinkAssumption DEF Types, TypeOK
<1>13. CASE UNCHANGED vars
  <2>1. i' = i /\ r' = r /\ now' = now /\ (ResponderOver' <=> ResponderOver)
    BY <1>13 DEF vars, MyInitiator, MyResponder, ResponderOver
  <2>2. Kept(i', r', now', ResponderOver')
    BY <1>4, <2>1 DEF Kept, Comes
  <2> QED
    BY <2>1, <2>2 DEF KeptAfter
<1> QED
  BY <1>6, <1>7, <1>8, <1>9, <1>10, <1>11, <1>12, <1>13 DEF Next

\* The records at the start.
LEMMA KeptInit == Init => Kept(MyInitiator, MyResponder, now, ResponderOver)
<1> SUFFICES ASSUME Init PROVE Kept(MyInitiator, MyResponder, now, ResponderOver)
  OBVIOUS
<1>1. MyInitiator = Fresh(Initiator) /\ MyResponder = Fresh(Responder)
  BY DEF Init, MyInitiator, MyResponder, Ends
<1>2. ASSUME NEW e
      PROVE  /\ Fresh(e).subrate = 1 /\ Fresh(e).pending = {}
             /\ Fresh(e).anchor = 0 /\ Fresh(e).staged = Plain
  BY DEF Fresh
<1>3. \A n \in {MyInitiator, MyResponder} :
        n.pending = {} /\ n.anchor = 0 /\ n.subrate = 1 /\ n.staged.kind = "PLAIN"
  <2>1. Plain.kind = "PLAIN"
    BY DEF Plain
  <2> HIDE DEF MyInitiator, MyResponder
  <2> QED
    BY <1>1, <1>2, <2>1
<1> HIDE DEF MyInitiator, MyResponder
<1>4. \A n \in {MyInitiator, MyResponder} : Within(n) /\ Tells(n.staged, n) /\ Single(n)
  <2>1. 0 <= Horizon + 2 * SubrateMax /\ 0 <= Horizon + SubrateMax
    BY LinkAssumption
  <2> QED
    BY <1>3, <2>1 DEF Within, Tells, Changes, Single
<1> QED
  BY <1>3, <1>4 DEF Kept, Pact, Comes

\* The invariant behind it.
KeptInv == Types /\ (OnTime => Kept(MyInitiator, MyResponder, now, ResponderOver))

\* While every event is run at its own moment and every frame the responder
\* answers is read, and until event numbers wrap, the initiator moves only to a
\* channel map that the responder is on or has pending, whatever frames the air
\* loses, for every lead of the instant and ceiling of the subrate
\* (lg_link_advance, link_rx_done, handle_ctrl).
THEOREM ChangesAreConfirmed == ASSUME Roomy PROVE Spec => InitiatorConfirmed
<1>1. Init => KeptInv
  BY TypesInit, KeptInit DEF KeptInv
<1>2. KeptInv /\ [Next]_vars => KeptInv'
  <2> SUFFICES ASSUME KeptInv, [Next]_vars PROVE KeptInv'
    OBVIOUS
  <2>1. Types'
    BY TypesStep DEF KeptInv
  <2>2. ASSUME OnTime' PROVE Kept(MyInitiator', MyResponder', now', ResponderOver')
    BY <2>2, KeptStep DEF KeptInv, KeptAfter
  <2> QED
    BY <2>1, <2>2 DEF KeptInv
<1>3. ASSUME KeptInv, [Next]_vars
      PROVE  (spills' = 0 /\ drops' = 0 /\ urgent' = 0 /\ node'[Initiator].map # node[Initiator].map)
               => Knows(node'[Responder], node'[Initiator].map)
  <2> SUFFICES ASSUME spills' = 0, drops' = 0, urgent' = 0,
                      node'[Initiator].map # node[Initiator].map
               PROVE  Knows(node'[Responder], node'[Initiator].map)
    OBVIOUS
  <2>1. OnTime'
    BY DEF OnTime
  <2>2. KeptAfter
    BY <1>3, <2>1, KeptStep DEF KeptInv
  <2>3. Has(node'[Responder], node'[Initiator].map)
    BY <2>2 DEF KeptAfter, MyInitiator, MyResponder
  <2> QED
    BY <2>3 DEF Has, Knows
<1> QED
  BY <1>1, <1>2, <1>3, PTL DEF Spec, InitiatorConfirmed
=============================================================================
