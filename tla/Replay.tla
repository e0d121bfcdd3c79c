------------------------------- MODULE Replay -------------------------------
(***************************************************************************)
(* The frame counter and the replay filter of one direction of a link      *)
(* (lg_sec.c).  The sender numbers its frames under each link key; what    *)
(* it has sent may arrive late, in any order, more than once or never.     *)
(* The receiver keeps the highest number it has accepted and, for the      *)
(* MaskBits numbers up to it, a mask of those it has accepted.             *)
(*                                                                         *)
(* A frame that was sealed under another key than the receiver has does    *)
(* not open; the cipher itself is not modelled.                            *)
(***************************************************************************)
EXTENDS Integers

CONSTANTS
  MaskBits,   \* width of replay_mask: 32
  Window,     \* LOCKGRID_REPLAY_WINDOW
  MaxCtr,     \* bound: frames sent under one key (tx_ctr itself has 32 bits)
  MaxKeys     \* bound: link keys agreed

ASSUME ReplayAssumption ==
  /\ MaskBits \in Nat \ {0} /\ Window \in Nat \ {0}
  /\ MaxCtr \in Nat /\ MaxKeys \in Nat

VARIABLES
  agreed,   \* how many link keys handshakes have derived
  tx,       \* the sender's key and counter
  rx,       \* the receiver's key, highest counter and mask
  sent,     \* every frame that was sealed
  accepted  \* every frame the receiver accepted

vars == <<agreed, tx, rx, sent, accepted>>

Keys == 0 .. MaxKeys
Frames == [key : Keys, ctr : 1 .. MaxCtr]

\* A key is the number of the handshake that derived it; bit d of the mask
\* stands for the counter d below the highest.
Init ==
  /\ agreed = 0
  /\ tx = [key |-> 0, has |-> FALSE, ctr |-> 0]
  /\ rx = [key |-> 0, has |-> FALSE, ctr |-> 0, mask |-> {}]
  /\ sent = {} /\ accepted = {}

\* A handshake derives a key, which each end then installs.
Agree ==
  /\ agreed < MaxKeys
  /\ agreed' = agreed + 1
  /\ UNCHANGED <<tx, rx, sent, accepted>>

\* lg_sec_install_key at the sender
InstallTx ==
  /\ tx.key < agreed
  /\ tx' = [key |-> agreed, has |-> TRUE, ctr |-> 0]
  /\ UNCHANGED <<agreed, rx, sent, accepted>>

\* Slip: the filter is not reset.
InstalledStale == [rx EXCEPT !.key = agreed, !.has = TRUE]

\* The receiver's state after lg_sec_install_key.
Installed == [key |-> agreed, has |-> TRUE, ctr |-> 0, mask |-> {}]

InstallRx ==
  /\ rx.key < agreed
  /\ rx' = Installed
  /\ UNCHANGED <<agreed, tx, sent, accepted>>

\* lg_sec_forget_key, when an end drops the link
ForgetTx ==
  /\ tx.has
  /\ tx' = [tx EXCEPT !.has = FALSE]
  /\ UNCHANGED <<agreed, rx, sent, accepted>>

ForgetRx ==
  /\ rx.has
  /\ rx' = [rx EXCEPT !.has = FALSE]
  /\ UNCHANGED <<agreed, tx, sent, accepted>>

\* lg_sec_encrypt
Encrypt ==
  /\ tx.has /\ tx.ctr < MaxCtr
  /\ tx' = [tx EXCEPT !.ctr = @ + 1]
  /\ sent' = sent \cup {[key |-> tx.key, ctr |-> tx.ctr + 1]}
  /\ UNCHANGED <<agreed, rx, accepted>>

Least(a, b) == IF a <= b THEN a ELSE b

\* Whether replay_check lets counter c pass.
Admits(c) ==
  /\ c # 0
  /\ \/ c > rx.ctr
     \/ rx.ctr - c < Least(Window, MaskBits) /\ (rx.ctr - c) \notin rx.mask

\* Slip: no bit is ever shifted out.
ShiftedWide(c) == {0} \cup {d + (c - rx.ctr) : d \in rx.mask}

\* Slip: the mask shifts by one whatever the distance.
ShiftedOnce(c) == {0} \cup {d \in 1 .. MaskBits - 1 : d - 1 \in rx.mask}

\* The mask once a higher counter c is the highest; bits shifted out are lost.
Shifted(c) == {0} \cup {d \in 1 .. MaskBits - 1 : d - (c - rx.ctr) \in rx.mask}

\* lg_sec_decrypt, for a frame of the sender
Accept(f) ==
  /\ rx.has /\ f.key = rx.key
  /\ Admits(f.ctr)
  /\ rx' = IF f.ctr > rx.ctr
           THEN [rx EXCEPT !.ctr = f.ctr, !.mask = Shifted(f.ctr)]
           ELSE [rx EXCEPT !.mask = @ \cup {rx.ctr - f.ctr}]
  /\ accepted' = accepted \cup {f}
  /\ UNCHANGED <<agreed, tx, sent>>

Next ==
  \/ Agree \/ InstallTx \/ InstallRx \/ ForgetTx \/ ForgetRx \/ Encrypt
  \/ \E f \in sent : Accept(f)

Spec == Init /\ [][Next]_vars

----------------------------------------------------------------------------
(* Properties.                                                              *)

\* Every variable holds a value of its kind.
TypeOK ==
  /\ agreed \in Keys
  /\ tx \in [key : Keys, has : BOOLEAN, ctr : 0 .. MaxCtr]
  /\ rx \in [key : Keys, has : BOOLEAN, ctr : 0 .. MaxCtr, mask : SUBSET (0 .. MaskBits - 1)]
  /\ sent \subseteq Frames /\ accepted \subseteq sent

\* A frame that was accepted is never accepted again, however late its copy
\* arrives and whatever has been accepted or agreed in between (replay_check,
\* lg_sec_install_key).
NeverAgain ==
  \A f \in accepted : f.key = rx.key => ~Admits(f.ctr)

\* A frame that was overtaken by fewer others than the window holds is still
\* accepted: the filter does not take reordering for a replay.
LateAdmitted ==
  \A f \in sent \ accepted :
    f.key = rx.key /\ rx.ctr < f.ctr + Least(Window, MaskBits) => Admits(f.ctr)
=============================================================================
