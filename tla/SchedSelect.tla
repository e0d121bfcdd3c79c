---------------------------- MODULE SchedSelect ----------------------------
(***************************************************************************)
(* How sched_pick (lg_sched.c) decides who gets the radio: every client    *)
(* publishes the time it next needs it, add_candidate lists those that     *)
(* want it at all in program order, and select_candidate scans the list    *)
(* twice, first for the earliest candidate and then for one of a higher    *)
(* class close enough to contend with it.                                  *)
(*                                                                         *)
(* The list and both scans are taken one candidate at a time, so that the  *)
(* loops' invariants can be stated.                                        *)
(***************************************************************************)
EXTENDS Integers, Sequences

CONSTANTS
  NeighCount,   \* CONFIG_LOCKGRID_MAX_NEIGHBORS
  Others,       \* classes of the node's own clients, in program order
  Times,        \* anchors, in units of which Contend is a few
  Contend       \* LG_SCHED_CONTEND_US

\* The priority classes, LG_PRIO_*.
SCAN == 0
NORMAL == 1
PARENT == 2
HANDSHAKE == 3
Classes == SCAN..HANDSHAKE

ASSUME SelectAssumption ==
  /\ NeighCount \in Nat
  /\ Others \in Seq(Classes)
  /\ Times \subseteq Nat
  /\ Contend \in Nat

VARIABLES
  asked,      \* clients asked so far, neighbours first
  list,       \* candidates collected
  phase,      \* "collect", then "earliest" and "contend" for the two scans, "done"
  i,          \* the next candidate a scan looks at
  best,       \* the scan's choice so far, 0 for none
  earliest    \* what the first scan chose

selectVars == <<asked, list, phase, i, best, earliest>>

Candidate == [at : Times, prio : Classes]

\* The list never outgrows its array of LG_CAND_MAX: nobody is left out of it.
SelectTypeOK ==
  /\ asked \in 0..(NeighCount + Len(Others))
  /\ list \in Seq(Candidate)
  /\ Len(list) <= asked
  /\ phase \in {"collect", "earliest", "contend", "done"}
  /\ i \in 1..(Len(list) + 1)
  /\ best \in 0..Len(list)
  /\ earliest \in 0..Len(list)

SelectInit ==
  /\ asked = 0
  /\ list = <<>>
  /\ phase = "collect"
  /\ i = 1
  /\ best = 0
  /\ earliest = 0

\* The classes the next client may have: a link is normal or a parent, and one
\* neighbour at most is in a handshake.
ClassesOf(client) ==
  IF client <= NeighCount
  THEN {NORMAL, PARENT} \cup
       {p \in {HANDSHAKE} : \A j \in 1..Len(list) : list[j].prio # HANDSHAKE}
  ELSE {Others[client - NeighCount]}

\* Slip: a client may be listed more than once.
AskAgain ==
  /\ phase = "collect"
  /\ asked < NeighCount + Len(Others)
  /\ asked' \in {asked, asked + 1}
  /\ \/ \E at \in Times, prio \in ClassesOf(asked + 1) :
          list' = Append(list, [at |-> at, prio |-> prio])
     \/ list' = list
  /\ UNCHANGED <<phase, i, best, earliest>>

\* A client that wants the radio is listed; one that does not is passed over.
Ask ==
  /\ phase = "collect"
  /\ asked < NeighCount + Len(Others)
  /\ asked' = asked + 1
  /\ \/ \E at \in Times, prio \in ClassesOf(asked + 1) :
          list' = Append(list, [at |-> at, prio |-> prio])
     \/ list' = list
  /\ UNCHANGED <<phase, i, best, earliest>>

Collected ==
  /\ phase = "collect"
  /\ asked = NeighCount + Len(Others)
  /\ phase' = "earliest"
  /\ UNCHANGED <<asked, list, i, best, earliest>>

\* The first scan: strictly earlier than the best so far.
Earlier(c) == best = 0 \/ list[c].at < list[best].at

ScanEarliest ==
  /\ phase = "earliest"
  /\ i <= Len(list)
  /\ best' = IF Earlier(i) THEN i ELSE best
  /\ i' = i + 1
  /\ UNCHANGED <<asked, list, phase, earliest>>

\* The end of the first scan; with no candidate there is nothing to choose.
EarliestFound ==
  /\ phase = "earliest"
  /\ i > Len(list)
  /\ earliest' = best
  /\ i' = 1
  /\ phase' = IF best = 0 THEN "done" ELSE "contend"
  /\ UNCHANGED <<asked, list, best>>

\* Slip: how close the two are is not looked at.
BeatsAnywhere(c) == list[c].prio > list[best].prio

\* Slip: a contender of the same class wins over an earlier one.
BeatsOnTies(c) ==
  /\ list[c].at <= list[best].at + Contend
  /\ list[c].prio >= list[best].prio

\* The second scan: close enough to the best so far, and of a higher class, or
\* of its class and earlier.
Beats(c) ==
  /\ list[c].at <= list[best].at + Contend
  /\ \/ list[c].prio > list[best].prio
     \/ list[c].prio = list[best].prio /\ list[c].at < list[best].at

ScanContend ==
  /\ phase = "contend"
  /\ i <= Len(list)
  /\ best' = IF Beats(i) THEN i ELSE best
  /\ i' = i + 1
  /\ UNCHANGED <<asked, list, phase, earliest>>

Chosen ==
  /\ phase = "contend"
  /\ i > Len(list)
  /\ phase' = "done"
  /\ UNCHANGED <<asked, list, i, best, earliest>>

SelectNext == Ask \/ Collected \/ ScanEarliest \/ EarliestFound \/ ScanContend \/ Chosen

SelectSpec == SelectInit /\ [][SelectNext]_selectVars

----------------------------------------------------------------------------
(* Properties of the choice.                                                *)

\* Candidate j loses to the choice so far.
Loses(j) ==
  \/ list[j].prio < list[best].prio
  \/ list[j].prio = list[best].prio /\ list[best].at <= list[j].at

Decided == phase = "done" /\ best # 0

\* The client that loses the most: what wins over the earliest candidate
\* starts at most one contention window later for every class it is above it,
\* so nobody of a lower class is held off for longer than that.
DelayBounded ==
  Decided =>
    list[best].at <= list[earliest].at + Contend * (list[best].prio - list[earliest].prio)

\* Whoever contends with the earliest candidate is either chosen or loses to
\* a higher class, or to an earlier candidate of its own class.
ContendersBeaten ==
  Decided =>
    \A j \in 1..Len(list) :
      list[j].at <= list[earliest].at + Contend => Loses(j)

----------------------------------------------------------------------------
(* What the two scans maintain.                                             *)

\* Before and during the first scan: the best is the earliest of those seen.
EarliestSoFar ==
  phase \in {"collect", "earliest"} =>
    /\ best = 0 => i = 1
    /\ \A j \in 1..(i - 1) : list[best].at <= list[j].at

\* From then on there is an earliest candidate and a choice.
EarliestKnown ==
  phase = "contend" \/ Decided =>
    /\ best # 0
    /\ earliest # 0
    /\ \A j \in 1..Len(list) : list[earliest].at <= list[j].at

\* The delay bound, with a choice that never falls below the earliest's class.
DelaySoFar ==
  phase = "contend" \/ Decided =>
    /\ list[earliest].prio <= list[best].prio
    /\ list[best].at <= list[earliest].at + Contend * (list[best].prio - list[earliest].prio)

\* The candidates the second scan has seen that contend with the earliest lose.
BeatenSoFar ==
  phase = "contend" \/ Decided =>
    \A j \in 1..(i - 1) : list[j].at <= list[earliest].at + Contend => Loses(j)

\* The end of a scan is the end of the list.
ScannedAll == Decided => i = Len(list) + 1

SelectIInv == SelectTypeOK /\ EarliestSoFar /\ EarliestKnown /\ DelaySoFar /\ BeatenSoFar /\ ScannedAll
=============================================================================
