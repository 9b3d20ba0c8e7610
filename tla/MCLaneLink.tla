----------------------------- MODULE MCLaneLink -----------------------------
(***************************************************************************)
(* Small instances of LaneLink.                                            *)
(***************************************************************************)
EXTENDS LaneLink
=============================================================================
