--------------------------- MODULE MCSchedSelect ---------------------------
(***************************************************************************)
(* Small instances of SchedSelect.  A beacon stands for the three clients  *)
(* of the normal class (join window, beacon, tracked beacon) and a scan    *)
(* for the two of the lowest class, in the order sched_pick asks them.     *)
(***************************************************************************)
EXTENDS SchedSelect

BeaconThenScan == <<NORMAL, SCAN>>
=============================================================================
