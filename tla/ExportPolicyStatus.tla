------------------------- MODULE ExportPolicyStatus -------------------------
(***************************************************************************)
(* The status of an ExportPolicy and how the reconciler recomputes it:     *)
(* reconcileExportPolicyStatus, getSinkStatus and                          *)
(* updateExportPolicyConditions of export_policy_controller.go.            *)
(*                                                                         *)
(* A condition is kept as far as SetStatusCondition compares it.  Of the   *)
(* Accepted condition of a sink that is its reason and message: "accepted" *)
(* or the error of the Secret; "unset" is a sink status with no condition, *)
(* and "missing" no status for that sink.                                  *)
(***************************************************************************)
EXTENDS VectorConfiguration

Condition == SecretError \cup {"missing", "unset", "accepted"}

(***************************************************************************)
(* The Ready condition: its status is True iff accepted = total, its       *)
(* message gives both numbers, gen is its ObservedGeneration, and gen = 0  *)
(* stands for a policy that has no Ready condition yet.                    *)
(***************************************************************************)
ReadyCondition == [accepted: Nat, total: Nat, gen: Nat]

Status == [sinks: [SinkNames -> Condition], ready: ReadyCondition]

NoSinkStatuses == [n \in SinkNames |-> "missing"]

NoStatus == [sinks |-> NoSinkStatuses,
             ready |-> [accepted |-> 0, total |-> 0, gen |-> 0]]

IsReady(status) == status.ready.gen > 0
                   /\ status.ready.accepted = status.ready.total

GetSinkStatus(status, name) ==
  IF status.sinks[name] = "missing" THEN "unset" ELSE status.sinks[name]

\* Mutant: the outcome of the validation is taken for the condition.
SinkConditionRaw(status, sink, outcome) ==
  IF sink.target.kind = "none" THEN GetSinkStatus(status, sink.name)
  ELSE outcome

\* The Accepted condition of a sink after its validation.  A sink with no
\* prometheusRemoteWrite is not validated and keeps the condition it had.
SinkCondition(status, sink, outcome) ==
  CASE sink.target.kind = "none" -> GetSinkStatus(status, sink.name)
    [] sink.target.kind \in {"open", "emptyAuth"} -> "accepted"
    [] OTHER -> IF outcome = "ok" THEN "accepted" ELSE outcome

\* Mutant: the count starts from the sinks that have not been rejected.
ReadyCountingUnset(sinks, generation) ==
  [accepted |-> Cardinality({n \in SinkNames : sinks[n] # "missing"}),
   total    |-> Cardinality({n \in SinkNames : sinks[n] # "missing"}),
   gen      |-> generation]

\* updateExportPolicyConditions: the Ready condition for these sinks.
ReadyFor(sinks, generation) ==
  [accepted |-> Cardinality({n \in SinkNames : sinks[n] = "accepted"}),
   total    |-> Cardinality({n \in SinkNames : sinks[n] # "missing"}),
   gen      |-> generation]
=============================================================================
