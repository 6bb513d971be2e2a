------------------------ MODULE VectorConfiguration ------------------------
(***************************************************************************)
(* How the operator turns the spec of an ExportPolicy and the Secrets it   *)
(* refers to into the configuration of Vector: the pure part of            *)
(* internal/controller/vector_configuration.go, with the API types of      *)
(* api/v1alpha1 it works on.                                               *)
(*                                                                         *)
(* Names, queries, endpoints and credentials are opaque.  What is kept of  *)
(* a source is what the code does with it, and of a sink target which of   *)
(* its optional parts are present.                                         *)
(***************************************************************************)
EXTENDS Naturals, Sequences, FiniteSets

CONSTANTS
  SourceNames,   \* names of telemetry sources
  SinkNames,     \* names of telemetry sinks
  Secrets,       \* names of the Secrets a policy may refer to
  Credentials,   \* contents of a Secret, each a user name with its password
  Absent         \* what a store holds for an object that does not exist

ASSUME SinkNamesAssumption == IsFiniteSet(SinkNames)

(***************************************************************************)
(* "undeclared": the spec has no source of that name.  "noMetrics": the    *)
(* source has no metrics.  "unparsable": metricsql.Parse rejects the       *)
(* query.  "notMetricExpr": it parses, but is not a plain selector.        *)
(***************************************************************************)
SourceKind ==
  {"undeclared", "noMetrics", "unparsable", "notMetricExpr", "metricExpr"}

(***************************************************************************)
(* "none": target: {}.  "open": no authentication.  "emptyAuth":           *)
(* authentication: {}.  "basicAuth": basicAuth with a secretRef.           *)
(* The CRD admits all four.                                                *)
(***************************************************************************)
TargetKind == {"none", "open", "emptyAuth", "basicAuth"}

Target == {t \in [kind: TargetKind, secret: Secrets \cup {Absent}] :
             t.secret # Absent <=> t.kind = "basicAuth"}

TelemetrySink ==
  [name: SinkNames, inputs: SUBSET SourceNames, target: Target]

\* The CRD requires at least one sink and unique names (listMapKey=name).
ExportPolicySpec ==
  {spec \in [sources: [SourceNames -> SourceKind], sinks: Seq(TelemetrySink)] :
     /\ Len(spec.sinks) > 0
     /\ \A i, j \in DOMAIN spec.sinks :
          spec.sinks[i].name = spec.sinks[j].name => i = j}

SinksOf(spec) == {spec.sinks[i] : i \in DOMAIN spec.sinks}

-----------------------------------------------------------------------------
(* Secrets *)

SecretObject == [basicAuth: BOOLEAN,
                 keys: SUBSET {"username", "password"},
                 credential: Credentials]

\* Why a referenced Secret cannot be used.  "internal" is any other Get error.
SecretError ==
  {"notFound", "internal", "wrongType", "noUsername", "noPassword"}

\* Mutant: the check of the password key is forgotten.
RetrieveWithoutPasswordCheck(secret) ==
  IF secret = Absent THEN "notFound"
  ELSE IF ~secret.basicAuth THEN "wrongType"
  ELSE IF "username" \notin secret.keys THEN "noUsername"
  ELSE "ok"

\* The outcome of retrieveBasicAuthSecret when the Get itself succeeds or
\* reports NotFound.
RetrieveBasicAuthSecret(secret) ==
  IF secret = Absent THEN "notFound"
  ELSE IF ~secret.basicAuth THEN "wrongType"
  ELSE IF "username" \notin secret.keys THEN "noUsername"
  ELSE IF "password" \notin secret.keys THEN "noPassword"
  ELSE "ok"

-----------------------------------------------------------------------------
(* The configuration *)

SinkConfig ==
  [inputs: SUBSET SourceNames, credential: Credentials \cup {Absent}]

Configuration == [sources: SUBSET SourceNames,
                  sinks: [SinkNames -> SinkConfig \cup {Absent}]]

NoSinks == [n \in SinkNames |-> Absent]

EmptyConfiguration == [sources |-> {}, sinks |-> NoSinks]

\* Sources without metrics or with a query that does not parse are skipped.
ConfiguredSources(spec) ==
  {n \in SourceNames : spec.sources[n] = "metricExpr"}

\* A query that is not a MetricExpr is logged, and its nil result used.
SourcesPanic(spec) == \E n \in SourceNames : spec.sources[n] = "notMetricExpr"

\* authentication: {} makes the code follow a nil BasicAuth.
SinkPanics(sink) == sink.target.kind = "emptyAuth"

\* The entry of a sink, Absent if it is skipped.  outcome is that of
\* retrieveBasicAuthSecret, and secret the object it returned.
SinkVectorConfig(sink, outcome, secret) ==
  IF sink.target.kind = "open"
    THEN [inputs |-> sink.inputs, credential |-> Absent]
  ELSE IF sink.target.kind = "basicAuth" /\ outcome = "ok"
    THEN [inputs |-> sink.inputs, credential |-> secret.credential]
  ELSE Absent
=============================================================================
