--------------------------- MODULE MCTeamSharing ---------------------------
(* TeamSharingSync for TLC. *)
EXTENDS TeamSharingSync
=============================================================================
