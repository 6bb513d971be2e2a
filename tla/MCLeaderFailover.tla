-------------------------- MODULE MCLeaderFailover --------------------------
(* The instances of MCExportPolicy, for leaders that follow one another. *)
EXTENDS LeaderFailover, MCExportPolicy
=============================================================================
