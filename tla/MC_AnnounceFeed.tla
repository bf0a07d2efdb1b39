-------------------------- MODULE MC_AnnounceFeed ---------------------------
(* Instances of AnnounceFeed for TLC: one packet of each kind.              *)
EXTENDS AnnounceFeed

CONSTANTS p1, p2
=============================================================================
