----------------------------- MODULE MCLinkData -----------------------------
(* Two ends with room for two messages.                                      *)
EXTENDS LinkData

MCTroubles == {"loss", "reply", "refused", "ctrl", "full", "reroute"}
=============================================================================
