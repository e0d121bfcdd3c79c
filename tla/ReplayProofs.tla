---------------------------- MODULE ReplayProofs ----------------------------
(***************************************************************************)
(* Proofs about Replay, for every mask, window and number of frames.       *)
(***************************************************************************)
EXTENDS Replay, TLAPS

USE ReplayAssumption DEF ReplayAssumption

\* What was accepted under the receiver's key is not ahead of its counter and
\* is in the mask as long as the mask reaches it.
Remembered ==
  \A f \in accepted :
    /\ f.key <= rx.key
    /\ f.key = rx.key =>
         /\ f.ctr <= rx.ctr
         /\ rx.ctr - f.ctr < MaskBits => (rx.ctr - f.ctr) \in rx.mask

\* The mask holds nothing that was not accepted.
Exact ==
  \A f \in Frames :
    f.key = rx.key /\ f.ctr <= rx.ctr /\ (rx.ctr - f.ctr) \in rx.mask => f \in accepted

IInv == TypeOK /\ Remembered /\ Exact

----------------------------------------------------------------------------
\* The smaller of two numbers is one of them and at most the other.
LEMMA LeastBounds ==
  ASSUME NEW a \in Nat, NEW b \in Nat
  PROVE  /\ Least(a, b) \in Nat
         /\ Least(a, b) <= a
         /\ Least(a, b) <= b
BY DEF Least

\* A frame is known by its key and its counter.
LEMMA FrameEqual ==
  ASSUME NEW f \in Frames, NEW g \in Frames, f.key = g.key, f.ctr = g.ctr
  PROVE  f = g
BY DEF Frames

\* Shifting keeps the mask within its width.
LEMMA ShiftedType ==
  ASSUME NEW c \in Nat
  PROVE  Shifted(c) \subseteq 0 .. MaskBits - 1
BY DEF Shifted

LEMMA InitIInv == Init => IInv
BY DEF Init, IInv, TypeOK, Remembered, Exact, Keys, Frames

----------------------------------------------------------------------------
\* Accepting a frame keeps the types: the frame is one that was sent.
LEMMA AcceptType ==
  ASSUME TypeOK, NEW f \in sent, Accept(f)
  PROVE  TypeOK'
<1>1. f \in Frames /\ f.ctr \in 1 .. MaxCtr /\ rx.ctr \in 0 .. MaxCtr
  BY DEF TypeOK, Frames
<1>2. accepted' \subseteq sent' /\ sent' \subseteq Frames
  BY DEF Accept, TypeOK
<1>3. CASE f.ctr > rx.ctr
  <2>1. rx' = [rx EXCEPT !.ctr = f.ctr, !.mask = Shifted(f.ctr)]
    BY <1>3 DEF Accept
  <2>2. Shifted(f.ctr) \subseteq 0 .. MaskBits - 1
    BY <1>1, ShiftedType
  <2>3. rx' \in [key : Keys, has : BOOLEAN, ctr : 0 .. MaxCtr, mask : SUBSET (0 .. MaskBits - 1)]
    <3>1. f.ctr \in 0 .. MaxCtr /\ Shifted(f.ctr) \in SUBSET (0 .. MaskBits - 1)
      BY <1>1, <2>2
    <3>2. rx \in [key : Keys, has : BOOLEAN, ctr : 0 .. MaxCtr, mask : SUBSET (0 .. MaskBits - 1)]
      BY DEF TypeOK
    <3>3. \A c \in 0 .. MaxCtr : \A M \in SUBSET (0 .. MaskBits - 1) :
            [rx EXCEPT !.ctr = c, !.mask = M]
              \in [key : Keys, has : BOOLEAN, ctr : 0 .. MaxCtr, mask : SUBSET (0 .. MaskBits - 1)]
      BY <3>2
    <3> QED BY <2>1, <3>1, <3>3
  <2> QED BY <1>2, <2>3 DEF Accept, TypeOK
<1>4. CASE ~(f.ctr > rx.ctr)
  <2>1. rx' = [rx EXCEPT !.mask = @ \cup {rx.ctr - f.ctr}]
    BY <1>4 DEF Accept
  <2>2. rx.ctr - f.ctr < Least(Window, MaskBits)
    BY <1>4 DEF Accept, Admits
  <2>3. rx.ctr - f.ctr \in 0 .. MaskBits - 1
    <3>1. Least(Window, MaskBits) \in Nat /\ Least(Window, MaskBits) <= MaskBits
      BY LeastBounds
    <3>2. f.ctr \in Int /\ rx.ctr \in Int /\ ~(f.ctr > rx.ctr)
      BY <1>1, <1>4
    <3> QED BY <2>2, <3>1, <3>2
  <2>4. rx.mask \cup {rx.ctr - f.ctr} \in SUBSET (0 .. MaskBits - 1)
    BY <2>3 DEF TypeOK
  <2>5. rx' \in [key : Keys, has : BOOLEAN, ctr : 0 .. MaxCtr, mask : SUBSET (0 .. MaskBits - 1)]
    BY <2>1, <2>4 DEF TypeOK
  <2> QED BY <1>2, <2>5 DEF Accept, TypeOK
<1> QED BY <1>3, <1>4

\* What has been accepted stays remembered when another frame is accepted: a
\* bit that is shifted out belongs to a counter the mask no longer reaches.
LEMMA AcceptRemembered ==
  ASSUME IInv, NEW f \in sent, Accept(f)
  PROVE  Remembered'
<1>1. f \in Frames /\ f.ctr \in Nat /\ rx.ctr \in Nat /\ f.key = rx.key
  BY DEF IInv, TypeOK, Frames, Accept
<1>2. SUFFICES ASSUME NEW g \in accepted'
               PROVE  /\ g.key <= rx'.key
                      /\ g.key = rx'.key =>
                           /\ g.ctr <= rx'.ctr
                           /\ rx'.ctr - g.ctr < MaskBits => (rx'.ctr - g.ctr) \in rx'.mask
  BY DEF Remembered
<1>3. g = f \/ g \in accepted
  BY DEF Accept
<1>4. g \in Frames /\ g.ctr \in Nat /\ g.key \in Nat /\ rx.key \in Nat
  BY <1>1, <1>3 DEF IInv, TypeOK, Frames, Keys
<1>5. CASE f.ctr > rx.ctr
  <2>1. rx'.key = rx.key /\ rx'.ctr = f.ctr /\ rx'.mask = Shifted(f.ctr)
    BY <1>5 DEF Accept, IInv, TypeOK
  <2>2. CASE g = f
    BY <1>1, <1>4, <2>1, <2>2 DEF Shifted
  <2>3. CASE g \in accepted
    <3>1. g.key <= rx.key
      BY <2>3 DEF IInv, Remembered
    <3>2. ASSUME g.key = rx.key
          PROVE  g.ctr <= f.ctr /\ (f.ctr - g.ctr < MaskBits => (f.ctr - g.ctr) \in Shifted(f.ctr))
      <4>1. g.ctr <= rx.ctr /\ (rx.ctr - g.ctr < MaskBits => (rx.ctr - g.ctr) \in rx.mask)
        BY <2>3, <3>2 DEF IInv, Remembered
      <4>2. (f.ctr - g.ctr) - (f.ctr - rx.ctr) = rx.ctr - g.ctr
        BY <1>1, <1>4
      <4> QED BY <1>1, <1>4, <1>5, <4>1, <4>2 DEF Shifted
    <3> QED BY <2>1, <3>1, <3>2
  <2> QED BY <1>3, <2>2, <2>3
<1>6. CASE ~(f.ctr > rx.ctr)
  <2>1. rx'.key = rx.key /\ rx'.ctr = rx.ctr /\ rx'.mask = rx.mask \cup {rx.ctr - f.ctr}
    BY <1>6 DEF Accept, IInv, TypeOK
  <2>2. CASE g = f
    BY <1>1, <1>4, <1>6, <2>1, <2>2
  <2>3. CASE g \in accepted
    BY <2>1, <2>3 DEF IInv, Remembered
  <2> QED BY <1>3, <2>2, <2>3
<1> QED BY <1>5, <1>6

\* No bit is set for a counter that was not accepted.
LEMMA AcceptExact ==
  ASSUME IInv, NEW f \in sent, Accept(f)
  PROVE  Exact'
<1>1. f \in Frames /\ f.ctr \in Nat /\ rx.ctr \in Nat /\ f.key = rx.key
  BY DEF IInv, TypeOK, Frames, Accept
<1>2. SUFFICES ASSUME NEW g \in Frames, g.key = rx'.key, g.ctr <= rx'.ctr,
                      (rx'.ctr - g.ctr) \in rx'.mask
               PROVE  g \in accepted'
  BY DEF Exact
<1>3. g.ctr \in Nat /\ accepted' = accepted \cup {f}
  BY DEF Frames, Accept
<1>4. CASE f.ctr > rx.ctr
  <2>1. rx'.key = rx.key /\ rx'.ctr = f.ctr /\ rx'.mask = Shifted(f.ctr)
    BY <1>4 DEF Accept, IInv, TypeOK
  <2>2. CASE g.ctr = f.ctr
    BY <1>1, <1>2, <1>3, <2>1, <2>2, FrameEqual
  <2>3. CASE g.ctr # f.ctr
    <3>1. (f.ctr - g.ctr) - (f.ctr - rx.ctr) \in rx.mask
      BY <1>1, <1>2, <1>3, <2>1, <2>3 DEF Shifted
    <3>2. (f.ctr - g.ctr) - (f.ctr - rx.ctr) = rx.ctr - g.ctr
      BY <1>1, <1>3
    <3>3. rx.ctr - g.ctr \in 0 .. MaskBits - 1
      BY <3>1, <3>2 DEF IInv, TypeOK
    <3>4. g.ctr <= rx.ctr
      BY <1>1, <1>3, <3>3
    <3> QED BY <1>2, <1>3, <2>1, <3>1, <3>2, <3>4 DEF IInv, Exact
  <2> QED BY <2>2, <2>3
<1>5. CASE ~(f.ctr > rx.ctr)
  <2>1. rx'.key = rx.key /\ rx'.ctr = rx.ctr /\ rx'.mask = rx.mask \cup {rx.ctr - f.ctr}
    BY <1>5 DEF Accept, IInv, TypeOK
  <2>2. CASE g.ctr = f.ctr
    BY <1>1, <1>2, <1>3, <2>1, <2>2, FrameEqual
  <2>3. CASE g.ctr # f.ctr
    <3>1. rx.ctr - g.ctr # rx.ctr - f.ctr
      BY <1>1, <1>3, <2>3
    <3> QED BY <1>2, <1>3, <2>1, <3>1 DEF IInv, Exact
  <2> QED BY <2>2, <2>3
<1> QED BY <1>4, <1>5

\* A fresh key starts with an empty mask, and nothing was accepted under it.
LEMMA InstallRxIInv ==
  ASSUME IInv, InstallRx
  PROVE  IInv'
<1>1. rx' = [key |-> agreed, has |-> TRUE, ctr |-> 0, mask |-> {}]
  BY DEF InstallRx, Installed
<1>2. agreed \in Nat /\ rx.key \in Nat /\ rx.key < agreed
  BY DEF InstallRx, IInv, TypeOK, Keys
<1>3. TypeOK'
  BY <1>1 DEF InstallRx, IInv, TypeOK
<1>4. \A f \in accepted : f.key \in Nat /\ f.key <= rx.key
  BY DEF IInv, TypeOK, Frames, Keys, Remembered
<1>5. Remembered'
  BY <1>1, <1>2, <1>4 DEF InstallRx, Remembered
<1>6. Exact'
  BY <1>1 DEF Exact
<1> QED BY <1>3, <1>5, <1>6 DEF IInv

LEMMA NextIInv ==
  ASSUME IInv, [Next]_vars
  PROVE  IInv'
<1>1. CASE Agree
  BY <1>1 DEF Agree, IInv, TypeOK, Remembered, Exact, Keys
<1>2. CASE InstallTx
  BY <1>2 DEF InstallTx, IInv, TypeOK, Remembered, Exact, Keys
<1>3. CASE InstallRx
  BY <1>3, InstallRxIInv
<1>4. CASE ForgetTx
  BY <1>4 DEF ForgetTx, IInv, TypeOK, Remembered, Exact
<1>5. CASE ForgetRx
  <2>1. rx' = [rx EXCEPT !.has = FALSE]
    BY <1>5 DEF ForgetRx
  <2>2. TypeOK'
    BY <1>5, <2>1 DEF ForgetRx, IInv, TypeOK
  <2>3. rx'.key = rx.key /\ rx'.ctr = rx.ctr /\ rx'.mask = rx.mask
    BY <2>1 DEF IInv, TypeOK
  <2> QED BY <1>5, <2>2, <2>3 DEF ForgetRx, IInv, Remembered, Exact
<1>6. CASE Encrypt
  <2>1. [key |-> tx.key, ctr |-> tx.ctr + 1] \in Frames
    BY <1>6 DEF Encrypt, IInv, TypeOK, Frames
  <2>2. tx' \in [key : Keys, has : BOOLEAN, ctr : 0 .. MaxCtr]
    BY <1>6 DEF Encrypt, IInv, TypeOK
  <2> QED BY <1>6, <2>1, <2>2 DEF Encrypt, IInv, TypeOK, Remembered, Exact
<1>7. ASSUME NEW f \in sent, Accept(f) PROVE IInv'
  BY <1>7, AcceptType, AcceptRemembered, AcceptExact DEF IInv
<1>8. CASE UNCHANGED vars
  BY <1>8 DEF vars, IInv, TypeOK, Remembered, Exact
<1> QED BY <1>1, <1>2, <1>3, <1>4, <1>5, <1>6, <1>7, <1>8 DEF Next

\* The inductive invariant of the replay filter.
THEOREM ReplayInvariant == Spec => []IInv
<1>1. Init => IInv
  BY InitIInv
<1>2. IInv /\ [Next]_vars => IInv'
  BY NextIInv
<1> QED BY <1>1, <1>2, PTL DEF Spec

----------------------------------------------------------------------------
\* Type correctness.
THEOREM TypeCorrect == Spec => []TypeOK
<1>1. IInv => TypeOK
  BY DEF IInv
<1> QED BY <1>1, ReplayInvariant, PTL

\* replay_check never accepts a frame a second time.
THEOREM NeverAcceptedAgain == Spec => []NeverAgain
<1>1. IInv => NeverAgain
  <2>1. SUFFICES ASSUME IInv, NEW f \in accepted, f.key = rx.key
                 PROVE  ~Admits(f.ctr)
    BY DEF NeverAgain
  <2>2. f.ctr \in Nat /\ rx.ctr \in Nat
    BY <2>1 DEF IInv, TypeOK, Frames
  <2>3. f.ctr <= rx.ctr /\ (rx.ctr - f.ctr < MaskBits => (rx.ctr - f.ctr) \in rx.mask)
    BY <2>1 DEF IInv, Remembered
  <2>4. Least(Window, MaskBits) \in Nat /\ Least(Window, MaskBits) <= MaskBits
    BY <2>1, LeastBounds
  <2> QED BY <2>1, <2>2, <2>3, <2>4 DEF Admits
<1> QED BY <1>1, ReplayInvariant, PTL

\* A frame that is late by less than the window is still accepted.
THEOREM LateFramesAdmitted == Spec => []LateAdmitted
<1>1. IInv => LateAdmitted
  <2>1. SUFFICES ASSUME IInv, NEW f \in sent \ accepted, f.key = rx.key,
                        rx.ctr < f.ctr + Least(Window, MaskBits)
                 PROVE  Admits(f.ctr)
    BY DEF LateAdmitted
  <2>2. f \in Frames /\ f.ctr \in Nat \ {0} /\ rx.ctr \in Nat
    BY <2>1 DEF IInv, TypeOK, Frames
  <2>3. Least(Window, MaskBits) \in Nat
    BY <2>1, LeastBounds
  <2>4. f.ctr <= rx.ctr => (rx.ctr - f.ctr) \notin rx.mask
    BY <2>1, <2>2 DEF IInv, Exact
  <2> QED BY <2>1, <2>2, <2>3, <2>4 DEF Admits
<1> QED BY <1>1, ReplayInvariant, PTL
=============================================================================
