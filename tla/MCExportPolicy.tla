--------------------------- MODULE MCExportPolicy ---------------------------
(***************************************************************************)
(* Small instances of the ExportPolicy controller: the specs and Secrets   *)
(* users submit in each run.                                               *)
(***************************************************************************)
EXTENDS ExportPolicyInvariant, TLC

CONSTANTS m1, a, b, s1, s2, c1, c2, p1, p2, u1, u2

SinkTo(name, target) == [name |-> name, inputs |-> {m1}, target |-> target]
NoTarget == [kind |-> "none", secret |-> Absent]
Open == [kind |-> "open", secret |-> Absent]
EmptyAuth == [kind |-> "emptyAuth", secret |-> Absent]
BasicAuth(s) == [kind |-> "basicAuth", secret |-> s]

Spec1(kind, sinks) == [sources |-> [n \in SourceNames |-> kind], sinks |-> sinks]

\* The specs, named for what is particular about them.
plain      == Spec1("metricExpr", <<SinkTo(a, Open)>>)
restricted == Spec1("metricExpr", <<SinkTo(a, BasicAuth(s1))>>)
mixed      == Spec1("metricExpr", <<SinkTo(a, Open), SinkTo(b, BasicAuth(s1))>>)
aimless    == Spec1("metricExpr", <<SinkTo(a, NoTarget)>>)
silent     == Spec1("unparsable", <<SinkTo(a, Open)>>)
computed   == Spec1("notMetricExpr", <<SinkTo(a, Open)>>)
dubious    == Spec1("metricExpr", <<SinkTo(a, NoTarget), SinkTo(b, EmptyAuth)>>)

BasicAuthSecret(keys, credential) ==
  [basicAuth |-> TRUE, keys |-> keys, credential |-> credential]
Complete(credential) == BasicAuthSecret({"username", "password"}, credential)
NoPassword(credential) == BasicAuthSecret({"username"}, credential)

SafetySpecs == {mixed, dubious}
SafetySecrets == {Complete(c1)}

LiveSpecs == {mixed, plain}

QuietSpecs == {mixed, silent}
QuietSecrets == {Complete(c1), NoPassword(c2)}

SharedSpecs == {restricted, computed}

ComputedSpecs == {computed}
RetargetSpecs == {plain, aimless}
PlainSpecs == {plain}
RestrictedSpecs == {restricted}
FlappingSpecs == {plain, silent}
=============================================================================
