-------------------------- MODULE MCFollowUpClient --------------------------
(* Small instances of FollowUpClient for TLC. *)
EXTENDS FollowUpClient
=============================================================================
