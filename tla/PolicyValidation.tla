--------------------------- MODULE PolicyValidation ---------------------------
(***************************************************************************)
(* The validation rules of internal/validation and the webhook that        *)
(* applies them, internal/webhook/v1alpha1, next to an API server that     *)
(* stores what the webhook admits.  cmd/main.go does not register the      *)
(* webhook at present.                                                     *)
(*                                                                         *)
(* A submission is what the validation looks at: lists of named sources    *)
(* and sinks, NoName being the empty name.  The rules do not rely on the   *)
(* CRD's schema, which refuses empty and repeated names by itself.         *)
(***************************************************************************)
EXTENDS VectorConfiguration

CONSTANTS NoName,       \* the name that is the empty string
          Submissions   \* the specs users submit

\* "forbidden": a selector with a label that must not be filtered on.
Query == {"none", "empty", "unparsable", "expression", "forbidden", "selector"}

Endpoint == {"empty", "unparsable", "url"}

TelemetrySource == [name: SourceNames \cup {NoName}, query: Query]

SubmittedSink == [name: SinkNames, endpoint: Endpoint,
                  inputs: SUBSET SourceNames, target: Target]

ASSUME SubmissionAssumption ==
  Submissions \subseteq [sources: Seq(TelemetrySource),
                          sinks: Seq(SubmittedSink)]

FieldError == [list: {"sources", "sinks"}, index: Nat,
               type: {"Required", "Duplicate", "Invalid"}]

VARIABLES
  policy,   \* the submission that is stored, or Absent
  request,  \* the submission that was last judged, or Absent
  errors    \* what the webhook answered to it

vars == <<policy, request, errors>>

Error(list, index, type) == [list |-> list, index |-> index, type |-> type]

\* Mutant: names are compared with the one before only.
RepeatsPreviousName(list, i) == i > 1 /\ list[i - 1].name = list[i].name

\* The name is in the set of names met so far.
RepeatsName(list, i) == \E j \in 1 .. i - 1 : list[j].name = list[i].name

\* Mutant: any query that parses is let through.
ValidateMetricSourceParsing(query) ==
  CASE query \in {"none", "empty"} -> {"Required"}
    [] query = "unparsable" -> {"Invalid"}
    [] OTHER -> {}

ValidateMetricSource(query) ==
  CASE query \in {"none", "empty"} -> {"Required"}
    [] query \in {"unparsable", "expression", "forbidden"} -> {"Invalid"}
    [] OTHER -> {}

ValidateSourceName(sources, i) ==
  IF sources[i].name = NoName THEN {"Required"}
  ELSE IF RepeatsName(sources, i) THEN {"Duplicate"} ELSE {}

\* The name of a sink may be empty, but not twice.  Of the target only the
\* presence of prometheusRemoteWrite and its endpoint are looked at.
ValidateTelemetrySink(sinks, i) ==
  (IF RepeatsName(sinks, i) THEN {"Duplicate"} ELSE {}) \cup
  (IF sinks[i].target.kind = "none" \/ sinks[i].endpoint = "empty"
     THEN {"Required"}
   ELSE IF sinks[i].endpoint = "unparsable" THEN {"Invalid"} ELSE {})

\* Index 0 stands for the list as a whole.
ValidateExportPolicySpec(spec) ==
  (IF spec.sources = <<>> THEN {Error("sources", 0, "Required")} ELSE {})
  \cup (UNION {{Error("sources", i, type) :
                  type \in ValidateSourceName(spec.sources, i)
                           \cup ValidateMetricSource(spec.sources[i].query)} :
               i \in DOMAIN spec.sources})
  \cup (UNION {{Error("sinks", i, type) :
                  type \in ValidateTelemetrySink(spec.sinks, i)} :
               i \in DOMAIN spec.sinks})

-----------------------------------------------------------------------------
Init == policy = Absent /\ request = Absent /\ errors = {}

Judge(spec) ==
  /\ request' = spec
  /\ errors' = ValidateExportPolicySpec(spec)
  /\ policy' = IF errors' = {} THEN spec ELSE policy

ValidateCreate(spec) == policy = Absent /\ Judge(spec)

\* Only the new object is looked at.
ValidateUpdate(spec) == policy # Absent /\ policy # spec /\ Judge(spec)

ValidateDelete ==
  /\ policy # Absent
  /\ policy' = Absent /\ request' = Absent /\ errors' = {}

Next ==
  \/ \E spec \in Submissions : ValidateCreate(spec) \/ ValidateUpdate(spec)
  \/ ValidateDelete

Spec == Init /\ [][Next]_vars

-----------------------------------------------------------------------------
(* What the builder makes of an admitted policy *)

NamesIn(list) == {list[i].name : i \in DOMAIN list}

KindOf(query) ==
  CASE query = "none" -> "noMetrics"
    [] query \in {"empty", "unparsable"} -> "unparsable"
    [] query = "expression" -> "notMetricExpr"
    [] OTHER -> "metricExpr"

\* The spec as the builder reads it.
BuilderSpec(submission) ==
  [sources |-> [n \in SourceNames |->
     IF n \notin NamesIn(submission.sources) THEN "undeclared"
     ELSE KindOf((CHOOSE s \in {submission.sources[i] :
                                  i \in DOMAIN submission.sources} :
                    s.name = n).query)],
   sinks |-> submission.sinks]

\* A policy the webhook admits is one the builder takes in full: it does not
\* panic on a source, and configures as many as there are, each of its own name
\* (vector_configuration.go, 38-89).
AdmittedSourcesConfigured ==
  policy # Absent =>
    /\ ~SourcesPanic(BuilderSpec(policy))
    /\ Cardinality(ConfiguredSources(BuilderSpec(policy)))
         = Len(policy.sources)
    /\ policy.sources # <<>>

Unflagged(list) ==
  {i \in DOMAIN request[list] :
     \A e \in errors : ~(e.list = list /\ e.index = i)}

\* The errors name everything that has to go: without the sources and sinks they
\* point at, the remaining ones have names of their own and are usable
\* (internal/validation/export_policy.go, 23-113).
ErrorsAreComplete ==
  request # Absent =>
    /\ \A i, j \in Unflagged("sources") :
         LET s == request.sources[i] IN
         /\ s.query = "selector" /\ s.name # NoName
         /\ s.name = request.sources[j].name => i = j
    /\ \A i, j \in Unflagged("sinks") :
         LET s == request.sinks[i] IN
         /\ s.target.kind # "none" /\ s.endpoint = "url"
         /\ s.name = request.sinks[j].name => i = j
=============================================================================
