----------------------- MODULE ExportPolicyProperties -----------------------
(***************************************************************************)
(* What the reconciler of ExportPolicies must achieve and must never do.   *)
(* The wanted outcome is stated from the specs and Secrets the API server  *)
(* stores, without the operators the reconciler itself is built from.      *)
(***************************************************************************)
EXTENDS ExportPolicyController

StoredPolicy(p) == Stored(policies[p])
Exists(p) == StoredPolicy(p) # Absent

Usable(secret) ==
  /\ secret # Absent
  /\ secret.basicAuth
  /\ secret.keys = {"username", "password"}

Exportable(sink) ==
  \/ sink.target.kind = "open"
  \/ /\ sink.target.kind = "basicAuth"
     /\ Usable(Stored(secrets[sink.target.secret]))

\* The metrics a sink must be sent, with the credential it asks for.
WantedSink(sink) ==
  [inputs     |-> sink.inputs,
   credential |-> IF sink.target.kind = "open" THEN Absent
                  ELSE Stored(secrets[sink.target.secret]).credential]

SinkNamesOf(spec) == {sink.name : sink \in SinksOf(spec)}

ConfigMatches(spec, config) ==
  /\ config # Absent
  /\ config.sources = {n \in SourceNames : spec.sources[n] = "metricExpr"}
  /\ \A sink \in SinksOf(spec) :
       config.sinks[sink.name] =
         IF Exportable(sink) THEN WantedSink(sink) ELSE Absent
  /\ \A n \in SinkNames \ SinkNamesOf(spec) : config.sinks[n] = Absent

StatusMatches(policy) ==
  LET exportable == {sink \in SinksOf(policy.spec) : Exportable(sink)} IN
  /\ policy.status.ready = [accepted |-> Cardinality(exportable),
                            total    |-> Len(policy.spec.sinks),
                            gen      |-> policy.generation]
  /\ \A sink \in SinksOf(policy.spec) :
       policy.status.sinks[sink.name] = "accepted" <=> Exportable(sink)

\* The policy, its status and what is deployed for it agree.
Synced(p) ==
  Exists(p) =>
    /\ ~StoredPolicy(p).deleting
    /\ StatusMatches(StoredPolicy(p))
    /\ ConfigMatches(StoredPolicy(p).spec,
                     Stored(configs[StoredPolicy(p).uid]))

Quiescent ==
  /\ pc = "idle" /\ queue = {} /\ notices = {}
  /\ \A p \in Policies : UpToDate(policies[p])
  /\ \A s \in Secrets : UpToDate(secrets[s])
  /\ \A u \in UIDs : UpToDate(configs[u])

\* A spec on which createVectorConfiguration panics.
Poisoned(spec) ==
  \/ \E n \in SourceNames : spec.sources[n] = "notMetricExpr"
  \/ \E sink \in SinksOf(spec) : sink.target.kind = "emptyAuth"

-----------------------------------------------------------------------------
(* Safety *)

\* The finalizer's purpose (export_policy_controller.go, lines 38-40): no
\* Vector configuration exists downstream unless the policy it was made for
\* does, and holds the finalizer that will have it deleted.
NoOrphanConfig ==
  \A u \in UIDs : Stored(configs[u]) # Absent =>
    \E p \in Policies : /\ Exists(p)
                        /\ StoredPolicy(p).uid = u
                        /\ StoredPolicy(p).finalizer

\* The statuses listed are those of the spec's sinks, and the counts in the
\* Ready condition are the counts of that list.
Covers(policy) ==
  LET sinks == policy.status.sinks IN
  /\ {n \in SinkNames : sinks[n] # "missing"} = SinkNamesOf(policy.spec)
  /\ policy.status.ready.total = Len(policy.spec.sinks)
  /\ policy.status.ready.accepted =
       Cardinality({n \in SinkNames : sinks[n] = "accepted"})

\* A Ready condition that claims to have observed the current generation has
\* counted that very spec's sinks.
ReadyCoversSpec ==
  \A p \in Policies :
    LET policy == StoredPolicy(p) IN
    (Exists(p) /\ policy.status.ready.gen = policy.generation) => Covers(policy)

-----------------------------------------------------------------------------
(* What a step may never do *)

\* A write of the reconciler, made from a copy it read some steps before, never
\* undoes what a user did since: it changes no spec, generation or deletion
\* mark, and removes only a policy the user has deleted.
EditsKept(old, new) ==
  old # new =>
    /\ old # Absent
    /\ IF new = Absent THEN old.deleting
       ELSE /\ new.uid = old.uid
            /\ new.spec = old.spec
            /\ new.generation = old.generation
            /\ new.deleting = old.deleting

EditsSurvive ==
  [][Reconcile => \A p \in Policies :
       EditsKept(Stored(policies[p]), Stored(policies'[p]))]_vars

\* The reconciler deploys a configuration only for a version of the policy whose
\* status it has reported before (export_policy_controller.go, 178-187).
StatusBeforeExport ==
  [][Reconcile => \A u \in UIDs :
       Stored(configs'[u]) \notin {Stored(configs[u]), Absent} =>
         /\ obj.uid = u
         /\ obj.status.ready.gen = obj.generation]_vars

-----------------------------------------------------------------------------
(* Liveness *)

\* Once users stop editing, resyncs see to it that every policy gets, and keeps,
\* the status and the configuration its spec asks for, whatever failed, changed
\* downstream or went unnoticed before, and every deleted policy is gone.
EventuallySynced == <>[](\A p \in Policies : Synced(p))

\* A policy a user has deleted is released in the end.
DeletionCompletes ==
  \A p \in Policies, u \in UIDs :
    (Exists(p) /\ StoredPolicy(p).uid = u /\ StoredPolicy(p).deleting)
      ~> ~(Exists(p) /\ StoredPolicy(p).uid = u)

-----------------------------------------------------------------------------
(* What comments of the code say, and the code does not keep *)

\* "This will skip over any source or sink configurations that are not valid"
\* (export_policy_controller.go, 189-190): a policy gets a configuration of its
\* valid parts, whatever its other parts are.
EveryPolicyConfigured ==
  \A p \in Policies, u \in UIDs :
    (Exists(p) /\ StoredPolicy(p).uid = u)
      ~> \/ Stored(configs[u]) # Absent
         \/ ~Exists(p)
         \/ StoredPolicy(p).uid # u
         \/ StoredPolicy(p).deleting

\* "All sinks are configured." (export_policy_controller.go, 331): when all is
\* quiet, a policy whose current spec is Ready exports to every sink it lists.
ReadyMeansConfigured ==
  Quiescent => \A p \in Policies :
    LET policy == StoredPolicy(p) IN
    (/\ Exists(p)
     /\ IsReady(policy.status)
     /\ policy.status.ready.gen = policy.generation) =>
      \A sink \in SinksOf(policy.spec) :
        /\ Stored(configs[policy.uid]) # Absent
        /\ Stored(configs[policy.uid]).sinks[sink.name] # Absent

\* "the status of the export policy will be updated to highlight any issues"
\* (vector_configuration.go, 23-27): when all is quiet, a sink that was left out
\* of the configuration is not reported as accepted.
SkippedSinksReported ==
  Quiescent => \A p \in Policies :
    LET policy == StoredPolicy(p) IN
    (Exists(p) /\ Stored(configs[policy.uid]) # Absent) =>
      \A sink \in SinksOf(policy.spec) :
        Stored(configs[policy.uid]).sinks[sink.name] = Absent =>
          policy.status.sinks[sink.name] # "accepted"

\* "The control plane will constantly evaluate the current state of exporters
\* that are deployed and ensure it matches the expected configuration"
\* (export_policy_types.go, 75-77): when all is quiet, what is deployed for a
\* policy is what its spec asks for.
DeployedMatchesSpec ==
  Quiescent => \A p \in Policies :
    Exists(p) => ConfigMatches(StoredPolicy(p).spec,
                               Stored(configs[StoredPolicy(p).uid]))

-----------------------------------------------------------------------------
(* Refinement *)

PhaseOf(policy) ==
  IF ~policy.finalizer THEN "pending"
  ELSE IF policy.deleting THEN "retiring" ELSE "claimed"

Owners(store, u) ==
  {p \in Policies : Stored(store[p]) # Absent /\ Stored(store[p]).uid = u}

PhaseIn(store, used, u) ==
  IF u \notin used THEN "unborn"
  ELSE IF Owners(store, u) = {} THEN "gone"
  ELSE PhaseOf(Stored(store[CHOOSE p \in Owners(store, u) : TRUE]))

Phase == [u \in UIDs |-> PhaseIn(policies, usedUIDs, u)]

Exported == [u \in UIDs |-> Stored(configs[u]) # Absent]

Lifecycle == INSTANCE ExportLifecycle
  WITH Ids <- UIDs, phase <- Phase, exported <- Exported

\* Every step of the controller, of its users and of the caches is a step of
\* the life cycle of some policy, or changes nothing in it.
ImplementsLifecycle == Lifecycle!Spec
=============================================================================
