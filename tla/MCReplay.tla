------------------------------ MODULE MCReplay ------------------------------
(* A mask of three bits and a window configured wider than that.            *)
EXTENDS Replay
=============================================================================
