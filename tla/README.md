# A TLA+ model of the telemetry services operator

The operator turns `ExportPolicy` objects of a project into configuration
for Vector. A policy lists telemetry sources (metricsql queries) and sinks
(Prometheus remote write endpoints, with or without basic authentication). For
each policy the reconciler writes one Secret with a Vector configuration to the
cluster it is deployed in, where a sidecar of Vector picks it up.

The modules here model the reconciler between the two API servers it works on,
the clusters and leaders that come and go around it, and the process it runs in.
They check all of it with TLC on small instances, and prove its safety
properties with TLAPS for all instances.

## The system

| component | state | operations |
|---|---|---|
| Reconciler, `internal/controller/export_policy_controller.go` | none of its own: a request, a copy of the policy, and what it has computed for it | `Reconcile`, `Finalize`, `reconcileExportPolicyStatus`, the map function of the Secret watch |
| Configuration builder, `internal/controller/vector_configuration.go` | none | `createVectorConfiguration`, `getSinkVectorConfig`, `retrieveBasicAuthSecret` |
| API types, `api/v1alpha1` | the spec, generation, finalizers, deletion timestamp and status of a policy | the CRD's schema |
| Project's API server, caches and watches (external) | policies and Secrets, stored and cached; the work queue | users' writes, conditional updates, events, resyncs |
| Downstream API server (external) | the Secrets with the Vector configurations | create, update, delete; changes by others |
| Validation and webhook, `internal/validation`, `internal/webhook` | none | `ValidateCreate`, `ValidateUpdate`, `ValidateDelete`. Registration is commented out in `cmd/main.go`, so specs reach the reconciler unvalidated |
| Start-up and discovery, `cmd/main.go`, `internal/config` | the server config, a group of goroutines with one context | `main`, `initializeClusterDiscovery`, `ignoreCanceled`; start, failure and stop of the parts, signals, the exit code |
| Multicluster manager and provider (external) | which clusters are engaged | a project's cluster is engaged and disengaged |
| Leader election (external) | the lease | a leader ends or is superseded; its successor lists |
| Vector and its sidecar, `config/vector` (external) | configuration files | loads what carries the label |

What is hard in it:

- *Stale reads.* Policies, Secrets and downstream Secrets are read from caches
  that are behind the servers, and written to the servers. What protects a
  policy is the resource version of an update; nothing protects the decision
  *not* to write.
- *Interleavings.* A reconciliation is a dozen API calls. Users edit, delete
  and re-create the policy and its Secrets between any two of them.
- *Failures.* Any call can fail, or take effect and lose its reply; the operator
  can restart at any point. All it has is that it will be asked again. A map
  function that fails to list policies has not even that: its event is gone.
- *Two passes.* The Secret is read once for the status and again for the
  configuration. The two passes treat some specs differently.
- *One worker.* A policy that makes the reconciler panic is retried for ever,
  beside the others.
- *Change of surroundings.* A project's cluster goes away in the middle of a
  request and comes back with new informers. A process is superseded while it
  is still inside a request.
- *Parts that need each other.* Four goroutines wait for each other's caches, and
  any of them may fail or be canceled while others still start or stop.

What must be true of each part:

- of the finalizer: no configuration without a policy that will have it
  deleted; a deleted policy goes in the end;
- of the writes to a policy: they undo nothing a user did;
- of the status: it is about the generation it claims, and agrees with what is
  deployed when all is quiet;
- of watches and requeues: no change is forgotten but those the map function
  could not list the policies for, also none that was made while the cluster was
  away; and resyncs find those as well;
- of two leaders: neither undoes what a user did;
- of the process: it comes to serve, it does not outlive one of its parts, and
  its exit code is true.

`PROJECT.json` lists the hazards line by line with the properties that would
catch them.

## Modules

| module | what it is |
|---|---|
| `VectorConfiguration` | specs, Secrets and configurations as data; which sources and sinks are configured, skipped, or make the builder panic |
| `ExportPolicyStatus` | the status of a policy and how it is recomputed |
| `ExportPolicyController` | the state machine: users, API servers, caches, queue, and the reconciler step by step |
| `ExportLifecycle` | the abstract specification: the life of one policy and its configuration |
| `ExportPolicyProperties` | what the controller must do, stated from specs and Secrets rather than from the reconciler's operators, and the refinement mapping |
| `ExportPolicyInvariant` | the inductive invariants of the protocol and of the status |
| `Quiescence` | the controller with a record of the policies that a lost event was about; what holds when all is quiet, and the inductive invariant behind it |
| `ProjectClusters` | extends the controller: the cluster of the project comes and goes |
| `LeaderFailover` | extends the controller: a successor with an older list, and a former leader that is still at work |
| `OperatorStartup` | the process: set-up, goroutines, cancellation, exit code |
| `PolicyValidation` | the rules of `internal/validation`, and the webhook next to a store of what it admits |
| `MCPolicyValidation` | the submissions TLC checks the rules on |
| `MCExportPolicy` | the specs and Secrets of the instances TLC checks |
| `MCQuiescence`, `MCProjectClusters`, `MCLeaderFailover` | the same for the three extensions |
| `MCOperatorStartup` | the server configs TLC checks the process on |
| `ExportPolicyControllerProofs` | lemmas on logs and stores; type correctness |
| `ExportPolicySafetyProofs` | the protocol's invariant; no orphaned configuration, no undone edit |
| `ExportPolicyStatusProofs` | the status covers its spec, and is reported before anything is deployed for it |
| `ExportLifecycleProofs` | UIDs are unique, and the controller implements `ExportLifecycle` |
| `QuiescenceProofs` | what is quiet is as it should be |
| `LeaderFailoverProofs` | two leaders undo no edit |
| `PolicyValidationProofs` | the rules and the builder agree on sources, and the errors are complete |
| `OperatorStartupProofs` | the exit code of the process |

A definition whose comment begins with "Mutant:" is a variant of the one that
follows it, with a plausible bug. Nothing uses it: put in the other's place, it
must break the property `PROJECT.json` names with it.

### State and code

Every stored object is a *log*: a non-empty sequence whose head is what the
cache shows, whose last entry is what the server stores, and whose entries in
between are watch events on their way. A write appends; a delivery drops the
head. `Absent` stands for an object that does not exist. A cache can be behind
by any number of writes and shows the versions in order. One that skips versions,
after a reconnection, is one whose events are delivered without a step of the
reconciler in between.

`pc` is where the reconciler stands between two API calls. `key`, `obj`,
`cursor`, `found` and `draft` are its local variables: the request, the copy of
the policy with its finalizer list changed, the index of the loop over the
sinks, `sinkStatuses`, and the vector configuration.

| action | code (`export_policy_controller.go`) |
|---|---|
| `Dequeue` | the controller's worker takes a request |
| `GetPolicy` | `GetCluster`, `Get`, and the entry of `finalizers.Finalize`, lines 142-163 |
| `Finalize` | `vectorSecretFinalizer.Finalize`, lines 90-121 |
| `UpdatePolicy` | the update after the finalizers, and the stop for a deleted policy, lines 165-176 |
| `ValidateSink` | one iteration of `reconcileExportPolicyStatus`, lines 245-287 |
| `UpdateStatus`, `KeepStatus` | the status changed (update and requeue) or not, lines 178-191 |
| `ConfigureSink` | one iteration over the sinks in `createVectorConfiguration` |
| `Panic` | the nil pointers of `vector_configuration.go`, lines 56 and 157 |
| `CreateOrUpdate` | lines 199-235 |
| `Conflict`, `CallFails`, `ReplyLost` | the error returns of all these calls |
| `MapSecret` | the map function of the Secret watch, lines 367-405; `Referrers` are the requests it returns |
| `MapSecretFails` | its `List` fails: the error is logged and no request returned, lines 379-382 |
| `Crash` | the process ends, and its successor lists all policies |

`Return` and `Requeue` are the two ways a reconciliation ends. A request that
comes back after a backoff is back in the queue at once: time is not modelled.

Choices worth knowing:

- A finalizer list holds ours or nothing. `obj.finalizer` is what the library's
  `Finalize` leaves in the copy: added for a policy that lives, removed after
  our finalizer ran.
- A condition is kept as far as `SetStatusCondition` compares it. The Ready
  condition is the two counts and the observed generation; its status and
  message are functions of them.
- A source is what the builder makes of its query: skipped, configured, or
  fatal. A sink's target is which of its optional parts are present. The CRD's
  schema admits all of them.
- An error while a Secret is read is counted separately (`MaxReadFaults`), since
  the builder swallows it. The other call whose error is swallowed, the `List` of
  the map function, counts among the failing calls.
- All policies and Secrets are in one namespace of one project. The map function
  looks in the Secret's namespace only, and Secrets are read from the
  policy's, so namespaces do not interact.

### Clusters and leaders

`ProjectClusters` adds whether the cluster is engaged.

| action | code |
|---|---|
| `EngageCluster` | new informers for the sources of `SetupWithManager`, lines 362-406: their first list is an event for every policy and every Secret |
| `DisengageCluster` | the informers stop; their undelivered events are lost. Requests stay queued, and the one in hand goes on with the client it has |
| `ClusterNotFound` | the error return of `GetCluster`, lines 142-145 |

Users write to the project's API server all the time. Whether the multicluster
library retries a request whose cluster is not found, or drops it, is not in the
repository: `ClusterNotFound` does either. The list of a new engagement is up to
date. A request that was begun before a departure and goes on after the return
reads from the new caches, where the code would go on with the old ones.

`LeaderFailover` has the controller twice: once for the process that leads, and
once, as an `INSTANCE` with a local state of its own, for the former leader. Both
write to the same servers.

| action | code |
|---|---|
| `LeaderEnds` | the process ends and its successor begins with lists |
| `LeaderLingers` | the same, except that the former leader goes on with the request it has in hand. Leader election (`main.go`, 265-266) does not fence its calls |
| `OldStep` | a step of that request |
| `OldExits` | it exits, or one of its calls fails: its queue is served by nobody, so both leave the same behind |
| `TakeOver` | the successor's lists. That of the policies may be up to `MaxStaleness` versions older than what the former cache had shown (`past`), since an API server may serve a list from its own cache |

The two processes share caches. Those of the former leader would be behind those
of its successor or ahead of them; all it still reads from them are Secrets and
the downstream Secret, since it has its copy of the policy. It takes no other
request. The loss of a lease does not itself prevent that; the model relies on a
leader giving up before its lease runs out, as client-go's renew deadline makes it.

### Start-up

| action | code (`cmd/main.go`) |
|---|---|
| `SetUp`, `SetUpFails` | one step of `Setup`, in the order of lines 127-317, each ending in `os.Exit(1)` when it fails |
| `DiscoveryUsable`, `Runnables` | `initializeClusterDiscovery`, lines 364-431 |
| `Launch` | the `g.Go` calls, lines 322-336 |
| `Sync`, `Engage` | caches that fill while their cluster runs; in milo mode the provider engages what the discovery cluster shows, in single mode the cluster it was given |
| `Fail`, `Stop` | a part returns: `ignoreCanceled`, and what an errgroup does with the error |
| `Signal` | `ctrl.SetupSignalHandler`: the first signal cancels, the second exits |
| `Wait` | lines 338-341, and the end of `main` |

The initial states cover every mode, none and an unknown one included, every
choice of kubeconfigs, and any set of them being usable. A part returns nil or
`context.Canceled` only when it was canceled: `Start` of a cluster or a manager,
and `Run` of a provider, block until then. That leadership has been acquired is
not asked of `Serving`.

## Properties and runs

The runs of the controller use module `MCExportPolicy`, `converge` its extension
`MCQuiescence`.

| run | asks | bounds |
|---|---|---|
| `safety` | `TypeOK`, `ControllerInvariant`, `StatusInvariant`, `NoOrphanConfig`, `ReadyCoversSpec`, `EditsSurvive`, `StatusBeforeExport`, `ImplementsLifecycle` | one name, two UIDs, two specs, one of which panics, two edits each, one failing call, one restart, one change downstream, both caches lag |
| `converge` | `QuietInvariant`, `QuiescentSynced`; `SyncedUnlessMissed` and `DeletionCompletes`, under fairness | one policy, two specs, two kinds of Secret and its absence, two writes of it, one failing call, one restart |
| `resync` | `EventuallySynced`, under fairness with resyncs | one policy, two specs, a Secret and its absence, one write of it, one failing call, one change downstream, a lagging downstream cache and one failed read of a Secret |
| `clusters` | `CaughtUpAfterReturn`, under fairness | two policies, one Secret, one spec that needs it and one that panics; the cluster is engaged, goes away once and may come back |
| `failover` | `FailoverInvariant`, `NoLeaderUndoesEdits`; `EventuallySynced`, under fairness with resyncs | one name, two UIDs, two specs, one edit each, one change of leaders, both ways; a list two versions back |
| `startup` | `ExitCodeFaithful`; `ComesToServe` and `FailureEndsProcess`, under fairness | all modes, with kubeconfigs of their own or not, each usable or not |
| `validation` | `AdmittedSourcesConfigured`, `ErrorsAreComplete` | all lists of up to two sources and of up to two sinks, lists of three with fewer variants |

What they show:

- `NoOrphanConfig`: a configuration exists only while its policy does, with the
  finalizer. The dangerous moments are a deletion in mid-reconciliation, a
  restart between the two halves of a finalization, and a name that is used
  again while the cache shows its former bearer. It takes three things: that the
  downstream Secret is named after the UID, that the deletion does not consult a
  cache, and that there is one process whose cache never goes back. Without the
  last it does not hold: see `failover_orphan` below.
- `EditsSurvive`: no write made from an old copy changes a spec, a generation or
  a deletion mark. `NoLeaderUndoesEdits` is the same with two processes at work
  and a cache that has gone back; the resource version is fence enough for this.
- `ReadyCoversSpec` and `StatusBeforeExport`: a Ready condition for the current
  generation has counted the current spec's sinks, and nothing is deployed for
  a version that has not been reported on.
- `QuiescentSynced`: when no event, request or step is outstanding, status and
  configuration are what the stored spec and Secret ask for. This holds although
  the two passes read the Secret separately, because a change in between is an
  event that comes back to the policy. The exception are policies in `missed`: the
  map function failed to list the policies when one of their Secrets had changed,
  and they have had no request since. It does not hold with a downstream cache
  that lags, a read that fails in the builder or a change made downstream; these
  are the runs below, and the reason for `resync`.
- `SyncedUnlessMissed`: the loops of conflict and requeue end, and no failing call,
  lost reply or restart leaves a policy behind, with the same exception.
  `DeletionCompletes`, of the specs of its run, which do not panic, has no
  exception, since a deletion is an event of the policy itself.
- `EventuallySynced`, with resyncs, has no exception either: they repair what was
  missed. In `failover` they repair what two leaders did to the configuration of a
  policy that lives.
- `ControllerInvariant`, `StatusInvariant`, `QuietInvariant` and `FailoverInvariant`
  are the inductive invariants of the proofs below, which give their parts.
- `CaughtUpAfterReturn`: if the cluster stays in the end, every policy is as its
  spec asks and none is held by its finalizer, although requests were dropped
  and events lost while it was away, and although another policy may occupy the
  worker with panics. What carries it is that a new engagement lists, policies
  and Secrets both.
- `ImplementsLifecycle`: every behaviour is one of `ExportLifecycle`. A policy is
  `unborn`, `pending`, `claimed`, `retiring` and `gone` in that order, is
  exported only from its claim on, and goes only when it is not exported.
  `Phase` and `Exported` are the mapping.
- `ComesToServe`: a process whose set-up is done gets all of its parts running
  and a cluster engaged, unless it is canceled first: no part waits for one that
  is never started.
- `FailureEndsProcess`, `ExitCodeFaithful`: when a part fails the process ends, with
  1. It ends with 0 only after a signal and if no part failed, not even while it
  stopped. The race is between a failure, the cancellation it causes and the
  errors that causes in turn, of which the group keeps one.
- `AdmittedSourcesConfigured`: the rules and the builder agree on sources. An
  admitted policy has each of them configured, under a name of its own. (They do
  not agree on sinks: no rule looks at the authentication, so that
  `authentication: {}` would be admitted and reach the builder, which panics.)
- `ErrorsAreComplete`: the errors of a refused policy name each element that has to
  go. Three elements are needed for a repetition that is not next to the first.

### Disagreements with the code's own words

Each is a run that TLC must find violated; `PROJECT.json` quotes the lines.

| run | what happens |
|---|---|
| `computed_source` | a query that is an expression rather than a selector is logged and then dereferenced as nil: the policy never gets a configuration |
| `empty_target` | a target edited to `{}` keeps the Accepted condition of the former one, and the policy is Ready without that sink |
| `failed_read` | an API error in the second read of a Secret drops the sink without a retry |
| `stale_config` | an edit and its reversal while the downstream cache lags leave the wrong configuration deployed, until a resync |
| `failover_orphan` | a leader that was superseded in the middle of a request creates the Secret of a policy that its successor has finalized. Nothing deletes it. With `MaxStaleness = 2` and `Overlap = FALSE` a restart alone does the same, by a list that still shows the policy alive |

Others met in the code, without a run of their own:

- `authentication: {}` is reported as accepted, and `vector_configuration.go:157`
  follows its nil `BasicAuth`: the same end as `computed_source`. The spec
  `dubious` takes the `safety` run there.
- When the map function of the Secret watch cannot list the policies, it logs the
  error and returns no request (`export_policy_controller.go:379-382`): nothing
  retries, and the change of the Secret shows in no status and no configuration
  until the policy gets another request or resyncs. `QuiescentSynced` with
  `Policies` in place of `Policies \ missed` fails in `converge` for this reason.
- `internal/config/config.go:42-45` documents `single` as the default of the
  discovery mode; the defaulting function is registered with no scheme, so that a
  config without a mode ends the process (`main.go`, the default branch of
  `initializeClusterDiscovery`). The model does as the code does.
- `DownstreamResourceManagementConfig.RestConfig` is never called: the downstream
  cluster is always `ctrl.GetConfigOrDie()` (`main.go:244`), whatever
  `kubeconfigPath` says.
- A sink's inputs name sources that were skipped (`vector_configuration.go:126`),
  although the builder says it skips what is invalid (line 23). The model keeps
  them in `SinkConfig.inputs`; what Vector makes of them is not modelled.

### Bounds

`MaxGeneration` bounds edits, `MaxSecretWrites` the writes of Secrets, `MaxFaults`
failing calls (the `List` of the map function included) and lost replies,
`MaxReadFaults` failed reads of Secrets, `MaxCrashes` restarts and changes of
leaders, `MaxDrifts` changes downstream by others, `MaxDepartures` how often the
cluster is disengaged, and `MaxStaleness` how many versions a list goes back;
`Overlap` says whether a former leader may linger. `UIDs` bounds how often a policy
is created. Nothing else is bounded: logs are finite because writes are. The
reconciler keeps no memory between requests, so what one request can meet is: an old
version of the policy, an old version of a Secret, and the rest of an earlier
attempt. One edit, two writes of a Secret and one failure produce each of these
(`clusters` has no failure but departures), and two UIDs the re-use of a name. Two
sinks are needed to tell a sink from the loop over them. Two versions back, a list
can show a policy as it was before both the addition of its finalizer and its
status, or before its deletion and its removal. One departure leaves requests,
events and a deletion behind, and a process outlives its lease once before it ends.
TLC stops in states where users have used up their budget, where the cluster need
not come back, and where the process has exited, hence `CHECK_DEADLOCK FALSE`.

The process has at most four goroutines and two signals that matter; nothing in
`startup` is cut off.

### Fairness

Only the machinery is fair, and never users, faults or restarts:

- events are delivered and handlers run (`WF` of `DeliverPolicy`,
  `DeliverSecret`, `DeliverConfig`, `MapSecret`): watches reconnect and re-list.
  `MapSecretFails` takes the event instead, and is never obliged to;
- the worker finishes a request it has begun (`WF` of `Reconcile`): every call
  has a timeout, and panics are recovered by controller-runtime;
- a queued request is taken in the end (`SF` of `Dequeue`): the queue is FIFO, so
  one worker that is repeatedly busy still reaches it. Weak fairness would not
  do, since taking another request disables it;
- informers resync, where `Resyncs` says so;
- in `ProjectClusters`, all of this only while the cluster is engaged. Nothing
  obliges a cluster to be engaged or to come back: `CaughtUpAfterReturn` is about
  those behaviours in which it does and stays;
- in `LeaderFailover`, for the process that leads. The former one exits in the end
  (`WF` of `OldExits`): the loss of the lease is an error of the manager, the
  errgroup cancels the other parts, and `main` returns (`FailureEndsProcess`);
- in `OperatorStartup`, `main` goes on, parts that run fill their caches and
  engage a cluster, and parts that are canceled return: controller-runtime ends
  what does not after a grace period. `WF` of `Wait` is `main` waiting. Nothing
  obliges a part to fail or anyone to send a signal. That caches fill is
  fairness, not fact: a server that cannot be reached is a part that fails.

## Proofs

`tlapm` checks every proof. The constants are arbitrary, subject to the
assumptions in the modules: `Absent` is not any other value, specs and Secrets are
well-formed, bounds are naturals, and the set of sink names is finite.

| theorem | states |
|---|---|
| `TypeCorrect` | `Spec => []TypeOK` |
| `InvariantHolds` | `Spec => []ControllerInvariant` |
| `NoConfigIsOrphaned` | `Spec => []NoOrphanConfig` |
| `NoEditIsUndone` | `Spec => EditsSurvive` |
| `StatusInvariantHolds` | `Spec => []StatusInvariant` |
| `ReadyCoversTheSpec` | `Spec => []ReadyCoversSpec` |
| `ReportsBeforeExport` | `Spec => StatusBeforeExport` |
| `UIDsAreUnique` | `Spec => []OneOwner` |
| `LifecycleImplemented` | `Spec => ImplementsLifecycle` |
| `QuietInvariantHolds` | `Undisturbed => (QuietSpec => []QuietInvariant)` |
| `QuietMeansSynced` | `Undisturbed => (QuietSpec => []QuiescentSynced)` |
| `FailoverInvariantHolds` | `FailoverSpec => []FailoverInvariant` |
| `LeadersUndoNoEdit` | `FailoverSpec => NoLeaderUndoesEdits` |
| `AdmittedIsServed` | `Spec => []AdmittedSourcesConfigured`, of `PolicyValidation` |
| `NothingIsOverlooked` | `Spec => []ErrorsAreComplete`, of `PolicyValidation` |
| `ExitCodeIsFaithful` | `StartupSpec => []ExitCodeFaithful` |

### The protocol

`NoOrphanConfig` is not inductive: whether a write of a configuration orphans it
depends on what the reconciler has read before. `ControllerInvariant` adds

- `LogOK`, of the versions on their way to the cache: resource versions grow,
  deletion marks stay, and if the cache can still show a version that is claimed
  and not deleted, then the *server* has that policy with its finalizer. This is
  the heart of it: a policy that the cache shows as alive cannot be gone, since
  only the reconciler removes the finalizer, and only after its cache has shown
  the deletion;
- `CopyOK`, of the reconciler's copy: never newer than the server's version, and
  equal to it in what users control if its resource version is the same. So an
  update the server accepts changes none of it;
- `FinalizeOK`: while a policy is finalized the cache cannot show it as alive any
  more, and after the deletion its configuration is gone;
- `ClaimOK`: from the status on, the server has the policy with the finalizer.
  A configuration is written only then.

The lemmas about logs say what appending and delivering do to `LogOK`. Each
action of `Next` has its own step under `UserProtocol`, `InformerProtocol` and
`ReconcileProtocol`.

### The status

`ReadyCoversSpec` speaks of what the server stores, but a status is computed from a
copy and written over whatever the copy was of. `StatusInvariant` therefore asks
`StatusOK` of *every* version in a log and of the copy: a Ready condition is never
ahead of the generation, and covers the spec if it names the current one. An edit
keeps it, since it counts the generation up (`NextGeneration`); the reconciler's
other writes keep it, since they change neither. For the status itself, `LoopOK` says
that the statuses built so far are those of the sinks left behind, so that at the
end of the loop they are all, and `DistinctNames` that a spec has as many names as
sinks. `StatusBeforeExport` follows from the last part, that a configuration is made
only from a copy whose Ready condition names its own generation.

### The life cycle

The mapping picks the owner of a UID, so it is a function only if there is at most
one: `UIDsAreUnique`. With it, the phase of a UID is that of its owner's stored
version (`PhaseOfStored`), and a write of one policy moves one UID (`PolicyStep`).
Then each write is one step of `ExportLifecycle`:

| step of the life cycle | step of the controller |
|---|---|
| `Create` | `CreatePolicy` |
| `Claim` | `UpdatePolicy` of a policy that lives (or `ReplyLost` there) |
| `Abandon`, `Retire` | `DeletePolicy` without and with the finalizer |
| `Release` | `UpdatePolicy` of a deleted policy (or `ReplyLost` there): `FinalizeOK` has its configuration gone |
| `Export` | `CreateOrUpdate` (or `ReplyLost` there): `ClaimOK` has the policy claimed or retiring |
| `Withdraw` | `Finalize` (or `ReplyLost` there), and `Drift` that removes the Secret |
| stutter | edits, statuses, deliveries, the queue, all that is local to the reconciler, restarts |

### Quiescence

`Quiescent` is a state of everything at once, and says nothing of how it came about.
`QuietInvariant` speaks of each policy by itself, at any time. A policy is `Due` if
a request or an event is on its way that brings the reconciler to it: it is queued,
or a version of it is undelivered, or a Secret that the *cached* version refers to
has an event undelivered or unmapped. Serving its request ends that, and one thing
else: the event is lost because the policies could not be listed. `QuietSpec` is
`Spec` with a history variable, `missed`, of the policies that such an event was
about. `MapSecretFails` adds those whose cached version refers to the Secret; the
next request for a policy, or a restart, takes it out. (`QuietIsController`: the
history restricts no step.) A policy is `Unsettled` if it is due or missed. The
invariant says that a policy that is neither unsettled nor in hand is synced, and
that what the reconciler has in hand is right unless its policy is unsettled: the
copy is what is stored, the statuses are those the *stored* Secrets give
(`ValidatedOK`), and so are the configured sinks and the status that was kept
(`ConfiguredOK`). So a change of a Secret between the two readings cannot go
unnoticed: it unsettles the policy, and no step but serving its request ends that.
`MapSecret` and `MapSecretFails` settle only policies whose cached version has no
such reference; whoever begins to refer to the Secret later has an event of its own
on the way.

The proof needs two more facts: the server keeps no deleted policy without a
finalizer (`NoZombie`), for `Reconcile` returns from one without doing anything; and
versions of different names never share a UID (`NamesOwnUIDs`), so that the work on
one policy leaves the configuration of another alone. `LoopMatches` turns the counts
of the status into those of the spec, by a bijection from exportable sinks to
accepted names. The wanted outcome is stated with the Secrets as a parameter
(`SyncedBy`, `StatusBy`, `ConfigBy`), and depends only on those a spec refers to
(`WantedFrame`).

`Undisturbed` is the theorem's hypothesis: nobody else writes downstream and the
cache there is read up to date, reads of a Secret do not fail in passing, and no
sink has an empty target. None of its parts can be dropped: without any of them the
property is false, as the runs `stale_config`, `failed_read` and `empty_target`
show, and a change made downstream by others has no event at all. Everything else is
as in `Spec`: lagging caches of policies and Secrets, failing calls and lost
replies, events that cannot be mapped, restarts, panics, any number of policies.

### Two leaders

`LogOK` is lost when a cache goes back, and `ClaimOK` when a second process works on
the same policy. What is left is `Known`, the part of `CopyOK` that makes the resource
version a fence: a version is not newer than the stored one of the same UID, and agrees
with it in what users control if its resource version is the same.
`FailoverInvariant` asks it of every version in a cache, on its way to one or in `past`
(`VersionsKnown`), which a list may bring back, and of the copies of both processes
(`CopiesKnown`). A write keeps it for all others, since it counts the resource
version up (`StillKnown`). Nothing is claimed of configurations, which two leaders
may orphan.

### Validation

Submissions are arbitrary lists; `SubmissionAssumption` says of what. The inductive
invariant is that what is stored was admitted, and that what was answered are all the
errors of the request. The rest is about the rules: an element that no error points at
is usable and repeats no name (`SourcePasses`, `SinkPasses`), elements that repeat no
name are as many as their names (`NamesOfDistinct`), and the builder configures
each source of a submission without errors (`AdmittedIsConfigured`).

### The process

`ExitCodeFaithful` is proved from `StartupInvariant`, which adds `GroupOK`: the group
has an error exactly if a part returned one; its context is canceled only for such
an error or a signal; and no part stops before it is. It also takes
`PartsAreRoutines`: at least one part is started, so that a process whose parts have
all stopped was canceled.

### What is only model-checked

The liveness properties (`SyncedUnlessMissed`, `EventuallySynced`,
`DeletionCompletes`, `CaughtUpAfterReturn`, `ComesToServe`, `FailureEndsProcess`),
which are out of the prover's reach: they rest on fairness and `ENABLED`. All safety
properties of the passing runs are proved.

## Not modelled

- The election itself, and more than two processes at a time. The lease is
  client-go's; what matters of it here is that it passes without a fence.
- Several clusters at once: they share the worker and nothing else. A project
  that is deleted with its control plane: whether its policies are finalized
  first is the platform's affair.
- The webhook at work beside the controller: nothing registers it at present.
- Vector and its sidecar, `config/vector`: external, and only manifests here.
- Finalizers of others on a policy, and users who remove ours.
- Namespaces, labels, component IDs and the text of the configuration; batch and
  retry settings.
- TLS, metrics and health endpoints, the flags handed to controller-runtime,
  manifests, generated code.

## Plan

The reconciler comes first because everything the operator promises depends on
it; then what comes and goes around it; then the process.

1. *Done.* `VectorConfiguration`, `ExportPolicyStatus`, `ExportPolicyController` with
   their properties, the life cycle and its mapping, the invariant and its proof.
   `PolicyValidation`, the rules by themselves, against what the builder can serve.
2. *Done.* `ProjectClusters`, `LeaderFailover` and `OperatorStartup`, with the proof
   of the exit code.
3. *Done.* Proofs of all safety properties the runs check: the status, the life cycle,
   quiescence, two leaders, validation.
4. The webhook composed with the controller, to be taken up when the webhook is
   registered: `ValidateUpdate` would judge the reconciler's own updates as well.
5. `VectorExporter`: the sidecar and Vector as consumers, which load the files of
   all policies as one configuration.
