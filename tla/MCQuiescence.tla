----------------------------- MODULE MCQuiescence -----------------------------
(* The instances of MCExportPolicy, with the record of missed policies. *)
EXTENDS Quiescence, MCExportPolicy
=============================================================================
