-------------------------- MODULE MCOperatorStartup --------------------------
(* Server configs for TLC: every mode, with kubeconfigs of its own or not. *)
EXTENDS OperatorStartup

CONSTANTS f1, f2

MCServerConfigs ==
  [mode: Mode, discoveryPath: {Default, f1}, projectPath: {Default, f2}]
=============================================================================
