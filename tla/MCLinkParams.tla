---------------------------- MODULE MCLinkParams ----------------------------
(***************************************************************************)
(* LinkParams with the values its configurations give it.                  *)
(***************************************************************************)
EXTENDS LinkParams
=============================================================================
