------------------------------ MODULE MCSched ------------------------------
(***************************************************************************)
(* Small instances of Sched.  One neighbour is enough for every kind of    *)
(* event; a second one lets an event of one neighbour overtake another's.  *)
(***************************************************************************)
EXTENDS Sched
=============================================================================
