------------------------------ MODULE MCRoute ------------------------------
(* Three nodes; node 3 has two ways to node 1 that differ by less than the   *)
(* hysteresis, and node 2 has its child before its parent in its table.      *)
EXTENDS Route

MCCost == [n \in Nodes |-> [m \in Nodes |-> IF {n, m} = {1, 3} THEN 9 ELSE 4]]
MCSlot == [n \in Nodes |-> [m \in Nodes |-> 3 - m]]
=============================================================================
