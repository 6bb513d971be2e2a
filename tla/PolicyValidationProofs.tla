------------------------ MODULE PolicyValidationProofs ------------------------
(***************************************************************************)
(* What the rules of validation let through is what the builder can serve, *)
(* and what they refuse is what their errors point at: for any submissions *)
(* in any order, whatever the names and however long the lists.            *)
(***************************************************************************)
EXTENDS PolicyValidation, FiniteSetTheorems, TLAPS

-----------------------------------------------------------------------------
(* The rules, for one element of a list *)

\* No error is reported at index i of a list.
Passes(spec, list, i) ==
  \A e \in ValidateExportPolicySpec(spec) : ~(e.list = list /\ e.index = i)

\* A source that is not pointed at has a name of its own and a usable query.
LEMMA SourcePasses ==
  ASSUME NEW spec \in Submissions, NEW i \in DOMAIN spec.sources,
         Passes(spec, "sources", i)
  PROVE  /\ spec.sources[i].query = "selector"
         /\ spec.sources[i].name # NoName
         /\ ~RepeatsName(spec.sources, i)
<1>. DEFINE types == ValidateSourceName(spec.sources, i)
                     \cup ValidateMetricSource(spec.sources[i].query)
<1>. DEFINE Reported(k) ==
       {Error("sources", k, type) :
          type \in ValidateSourceName(spec.sources, k)
                   \cup ValidateMetricSource(spec.sources[k].query)}
<1>1. ASSUME NEW type \in types
      PROVE  Error("sources", i, type) \in ValidateExportPolicySpec(spec)
  <2>1. Error("sources", i, type) \in Reported(i)
    OBVIOUS
  <2>2. Reported(i) \subseteq UNION {Reported(k) : k \in DOMAIN spec.sources}
    OBVIOUS
  <2>. HIDE DEF Reported
  <2>3. Error("sources", i, type) \in UNION {Reported(k) : k \in DOMAIN spec.sources}
    BY <2>1, <2>2
  <2>. QED  BY <2>3 DEF ValidateExportPolicySpec, Reported
<1>2. types = {}
  BY <1>1 DEF Passes, Error
<1>3. spec.sources[i] \in TelemetrySource
  BY SubmissionAssumption
<1>. QED
  BY <1>2, <1>3
  DEF ValidateSourceName, ValidateMetricSource, TelemetrySource, Query

\* A sink that is not pointed at has a name of its own and a target.
LEMMA SinkPasses ==
  ASSUME NEW spec \in Submissions, NEW i \in DOMAIN spec.sinks,
         Passes(spec, "sinks", i)
  PROVE  /\ spec.sinks[i].target.kind # "none"
         /\ spec.sinks[i].endpoint = "url"
         /\ ~RepeatsName(spec.sinks, i)
<1>. DEFINE types == ValidateTelemetrySink(spec.sinks, i)
<1>. DEFINE Reported(k) ==
       {Error("sinks", k, type) : type \in ValidateTelemetrySink(spec.sinks, k)}
<1>1. ASSUME NEW type \in types
      PROVE  Error("sinks", i, type) \in ValidateExportPolicySpec(spec)
  <2>1. Error("sinks", i, type) \in Reported(i)
    OBVIOUS
  <2>2. Reported(i) \subseteq UNION {Reported(k) : k \in DOMAIN spec.sinks}
    OBVIOUS
  <2>. HIDE DEF Reported
  <2>3. Error("sinks", i, type) \in UNION {Reported(k) : k \in DOMAIN spec.sinks}
    BY <2>1, <2>2
  <2>. QED  BY <2>3 DEF ValidateExportPolicySpec, Reported
<1>2. types = {}
  BY <1>1 DEF Passes, Error
<1>3. spec.sinks[i] \in SubmittedSink
  BY SubmissionAssumption
<1>. QED
  BY <1>2, <1>3 DEF ValidateTelemetrySink, SubmittedSink, Endpoint

\* Two elements of a list with the same name: the later one repeats it.
LEMMA NoRepetition ==
  ASSUME NEW list, NEW i \in Nat \ {0}, NEW j \in Nat \ {0},
         ~RepeatsName(list, i), ~RepeatsName(list, j),
         list[i].name = list[j].name
  PROVE  i = j
BY DEF RepeatsName

\* A list without repetitions has as many names as elements.
LEMMA NamesOfDistinct ==
  ASSUME NEW S, NEW list \in Seq(S),
         \A i \in DOMAIN list : ~RepeatsName(list, i)
  PROVE  Cardinality(NamesIn(list)) = Len(list)
<1>. DEFINE n == Len(list)
            name == [i \in 1 .. n |-> list[i].name]
<1>1. n \in Nat /\ DOMAIN list = 1 .. n
  OBVIOUS
<1>2. \A i, j \in 1 .. n : list[i].name = list[j].name => i = j
  BY <1>1, NoRepetition
<1>3. name \in Bijection(1 .. n, NamesIn(list))
  BY <1>1, <1>2 DEF Bijection, Injection, IsInjective, Surjection, NamesIn
<1>4. IsFiniteSet(1 .. n) /\ Cardinality(1 .. n) = n
  BY <1>1, FS_Interval
<1>. QED  BY <1>3, <1>4, FS_Bijection DEF ExistsBijection

-----------------------------------------------------------------------------
(* The builder *)

\* A submission without errors has sources, and the builder configures each.
LEMMA AdmittedIsConfigured ==
  ASSUME NEW spec \in Submissions, ValidateExportPolicySpec(spec) = {}
  PROVE  /\ ~SourcesPanic(BuilderSpec(spec))
         /\ Cardinality(ConfiguredSources(BuilderSpec(spec))) = Len(spec.sources)
         /\ spec.sources # <<>>
<1>. DEFINE list == spec.sources
            Elements == {list[i] : i \in DOMAIN list}
            chosen(n) == CHOOSE s \in Elements : s.name = n
            kinds == BuilderSpec(spec).sources
<1>1. list \in Seq(TelemetrySource)
  BY SubmissionAssumption
<1>2. ASSUME NEW i \in DOMAIN list
      PROVE  /\ list[i].query = "selector"
             /\ list[i].name # NoName
             /\ ~RepeatsName(list, i)
  BY SourcePasses DEF Passes
<1>3. list # <<>>
  BY DEF ValidateExportPolicySpec, Error
<1>4. kinds = [n \in SourceNames |->
         IF n \notin NamesIn(list) THEN "undeclared" ELSE KindOf(chosen(n).query)]
  BY DEF BuilderSpec
<1>5. ASSUME NEW n \in NamesIn(list)
      PROVE  n \in SourceNames /\ KindOf(chosen(n).query) = "metricExpr"
  <2>1. PICK i \in DOMAIN list : n = list[i].name
    BY <1>5 DEF NamesIn
  <2>2. n \in SourceNames
    <3>1. list[i] \in TelemetrySource
      BY <1>1, <2>1
    <3>2. list[i].name # NoName
      BY <1>2, <2>1
    <3>. QED  BY <2>1, <3>1, <3>2 DEF TelemetrySource
  <2>3. chosen(n) \in Elements
    BY <2>1
  <2>4. chosen(n).query = "selector"
    BY <1>2, <2>3
  <2>. QED  BY <2>2, <2>4 DEF KindOf
<1>6. \A n \in SourceNames :
        kinds[n] = IF n \in NamesIn(list) THEN "metricExpr" ELSE "undeclared"
  BY <1>4, <1>5
<1>7. ConfiguredSources(BuilderSpec(spec)) = NamesIn(list)
  BY <1>5, <1>6 DEF ConfiguredSources
<1>8. ~SourcesPanic(BuilderSpec(spec))
  BY <1>6 DEF SourcesPanic
<1>9. Cardinality(NamesIn(list)) = Len(list)
  BY <1>1, <1>2, NamesOfDistinct
<1>. QED  BY <1>3, <1>7, <1>8, <1>9

-----------------------------------------------------------------------------
(* The theorems *)

\* What is stored was admitted, and what was answered are all the errors.
WebhookInvariant ==
  /\ policy # Absent => /\ policy \in Submissions
                        /\ ValidateExportPolicySpec(policy) = {}
  /\ request # Absent => /\ request \in Submissions
                         /\ errors = ValidateExportPolicySpec(request)

LEMMA WebhookInvariantHolds == Spec => []WebhookInvariant
<1>1. Init => WebhookInvariant
  BY DEF Init, WebhookInvariant
<1>2. WebhookInvariant /\ [Next]_vars => WebhookInvariant'
  BY DEF WebhookInvariant, Next, ValidateCreate, ValidateUpdate, Judge,
         ValidateDelete, vars
<1>. QED  BY <1>1, <1>2, PTL DEF Spec

\* The builder takes every policy the webhook admits in full: it panics on no
\* source and configures as many as are declared.
THEOREM AdmittedIsServed == Spec => []AdmittedSourcesConfigured
<1>1. WebhookInvariant => AdmittedSourcesConfigured
  BY AdmittedIsConfigured DEF WebhookInvariant, AdmittedSourcesConfigured
<1>. QED  BY <1>1, WebhookInvariantHolds, PTL

\* The errors of a submission point at everything that has to be changed.
THEOREM NothingIsOverlooked == Spec => []ErrorsAreComplete
<1>1. ASSUME WebhookInvariant, request # Absent PROVE ErrorsAreComplete
  <2>1. /\ request \in Submissions
        /\ errors = ValidateExportPolicySpec(request)
    BY <1>1 DEF WebhookInvariant
  <2>2. /\ request.sources \in Seq(TelemetrySource)
        /\ request.sinks \in Seq(SubmittedSink)
    BY <2>1, SubmissionAssumption
  <2>3. ASSUME NEW i \in Unflagged("sources")
        PROVE  /\ i \in Nat \ {0}
               /\ request.sources[i].query = "selector"
               /\ request.sources[i].name # NoName
               /\ ~RepeatsName(request.sources, i)
    <3>1. i \in DOMAIN request.sources /\ Passes(request, "sources", i)
      BY <2>1 DEF Unflagged, Passes
    <3>. QED  BY <2>1, <2>2, <3>1, SourcePasses
  <2>4. ASSUME NEW i \in Unflagged("sinks")
        PROVE  /\ i \in Nat \ {0}
               /\ request.sinks[i].target.kind # "none"
               /\ request.sinks[i].endpoint = "url"
               /\ ~RepeatsName(request.sinks, i)
    <3>1. i \in DOMAIN request.sinks /\ Passes(request, "sinks", i)
      BY <2>1 DEF Unflagged, Passes
    <3>. QED  BY <2>1, <2>2, <3>1, SinkPasses
  <2>. QED  BY <2>3, <2>4, NoRepetition DEF ErrorsAreComplete
<1>2. WebhookInvariant => ErrorsAreComplete
  BY <1>1 DEF ErrorsAreComplete
<1>. QED  BY <1>2, WebhookInvariantHolds, PTL
=============================================================================
