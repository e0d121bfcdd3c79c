---------------------------- MODULE MCDiscovery ----------------------------
(* A row of nodes, each in range of the next, with the uplink at one end.    *)
EXTENDS Discovery

MCInRange == {{n, n + 1} : n \in Nodes} \cap {{n, m} : n, m \in Nodes}
=============================================================================
