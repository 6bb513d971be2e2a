-------------------------- MODULE MCProjectClusters --------------------------
(* The instances of MCExportPolicy, for clusters that come and go. *)
EXTENDS ProjectClusters, MCExportPolicy
=============================================================================
