---------------------------- MODULE MCHandshake ----------------------------
(***************************************************************************)
(* Small instances of Handshake: two fragments to a long message are       *)
(* enough to lose one of them, and limits of a few slots to reach them.    *)
(***************************************************************************)
EXTENDS Handshake
=============================================================================
