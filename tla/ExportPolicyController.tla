----------------------- MODULE ExportPolicyController -----------------------
(***************************************************************************)
(* The reconciler of ExportPolicies (internal/controller) at work between  *)
(* the project's API server, which stores the policies and the Secrets     *)
(* they refer to, and the downstream API server, which stores one Secret   *)
(* of Vector configuration per policy.                                     *)
(*                                                                         *)
(* The reconciler reads through informer caches and writes to the servers. *)
(* Each object has a log: its head is what the cache shows, its last entry *)
(* what the server stores, and those between are the watch events that are *)
(* still to be delivered.                                                  *)
(***************************************************************************)
EXTENDS ExportPolicyStatus

CONSTANTS
  Policies,        \* namespaced names of policies, in one project
  UIDs,            \* the UIDs the API server may give out
  Specs,           \* the specs users submit
  SecretObjects,   \* the Secrets users submit
  MaxGeneration,   \* bounds the edits of a policy
  MaxSecretWrites, \* bounds the writes users do on Secrets
  MaxFaults,       \* bounds the API calls that fail or whose reply is lost
  MaxReadFaults,   \* bounds the reads of a Secret that fail
  MaxCrashes,      \* bounds the restarts of the operator
  MaxDrifts,       \* bounds the changes others do to downstream Secrets
  DownstreamLags,  \* may the cache of the downstream client fall behind?
  Resyncs          \* do the informers resync periodically?

ExportPolicy == [uid: UIDs, rv: Nat, generation: Nat, spec: Specs,
                 finalizer: BOOLEAN, deleting: BOOLEAN, status: Status]

ASSUME AbsentAssumption ==
  /\ Absent \notin Policies \cup UIDs \cup Secrets \cup Credentials
  /\ Absent \notin SecretObject
  /\ Absent \notin SinkConfig
  /\ Absent \notin Configuration
  /\ Absent \notin ExportPolicy

ASSUME InputAssumption ==
  /\ Specs \subseteq ExportPolicySpec
  /\ SecretObjects \subseteq SecretObject
  /\ MaxGeneration \in Nat /\ MaxSecretWrites \in Nat /\ MaxFaults \in Nat
  /\ MaxReadFaults \in Nat /\ MaxCrashes \in Nat /\ MaxDrifts \in Nat
  /\ DownstreamLags \in BOOLEAN /\ Resyncs \in BOOLEAN

VARIABLES
  policies,  \* [Policies -> log of ExportPolicy], upstream
  secrets,   \* [Secrets -> log of Secret], upstream
  configs,   \* [UIDs -> log of the Vector configuration], downstream
  usedUIDs,  \* the UIDs given out so far
  queue,     \* the policies waiting in the work queue
  notices,   \* the Secrets whose event the watch has not mapped yet
  pc,        \* what the reconciler does next
  key,       \* the request it serves, or Absent
  obj,       \* its copy of the ExportPolicy, or Absent
  cursor,    \* the sink its loop is at
  found,     \* the sink statuses it has built
  draft,     \* the configuration it has built
  spent      \* how much of each bound the environment has used

stores == <<policies, secrets, configs, usedUIDs>>
request == <<pc, key, obj, cursor, found, draft>>
vars == <<stores, queue, notices, request, spent>>

Budget == [secretWrites: Nat, faults: Nat, readFaults: Nat, crashes: Nat,
           drifts: Nat]

Logs(S) == {log \in Seq(S \cup {Absent}) : Len(log) > 0}

Cached(log) == Head(log)
Stored(log) == log[Len(log)]
UpToDate(log) == Len(log) = 1

\* A write is stored at once; the cache learns of it from a later event.
Write(log, value) == Append(log, value)

\* Downstream the cache may also be taken to catch up before its next read.
WriteDownstream(log, value) ==
  IF DownstreamLags THEN Append(log, value) ELSE <<value>>

Spend(kind, bound) == /\ spent[kind] < bound
                      /\ spent' = [spent EXCEPT ![kind] = @ + 1]

TypeOK ==
  /\ policies \in [Policies -> Logs(ExportPolicy)]
  /\ secrets \in [Secrets -> Logs(SecretObject)]
  /\ configs \in [UIDs -> Logs(Configuration)]
  /\ usedUIDs \subseteq UIDs
  /\ queue \subseteq Policies
  /\ notices \subseteq Secrets
  /\ pc \in {"idle", "get", "finalize", "update", "status", "config"}
  /\ key \in Policies \cup {Absent}
  /\ obj \in ExportPolicy \cup {Absent}
  /\ cursor \in Nat \ {0}
  /\ found \in [SinkNames -> Condition]
  /\ draft \in Configuration
  /\ spent \in Budget

Init ==
  /\ policies = [p \in Policies |-> <<Absent>>]
  /\ secrets = [s \in Secrets |-> <<Absent>>]
  /\ configs = [u \in UIDs |-> <<Absent>>]
  /\ usedUIDs = {}
  /\ queue = {}
  /\ notices = {}
  /\ pc = "idle"
  /\ key = Absent
  /\ obj = Absent
  /\ cursor = 1
  /\ found = NoSinkStatuses
  /\ draft = EmptyConfiguration
  /\ spent = [secretWrites |-> 0, faults |-> 0, readFaults |-> 0,
              crashes |-> 0, drifts |-> 0]

-----------------------------------------------------------------------------
(* Users of the project's API server, and others in the downstream cluster *)

CreatePolicy(p, u, spec) ==
  /\ Stored(policies[p]) = Absent
  /\ u \notin usedUIDs
  /\ usedUIDs' = usedUIDs \cup {u}
  /\ policies' = [policies EXCEPT ![p] = Write(@,
       [uid |-> u, rv |-> 1, generation |-> 1, spec |-> spec,
        finalizer |-> FALSE, deleting |-> FALSE, status |-> NoStatus])]
  /\ UNCHANGED <<secrets, configs, queue, notices, request, spent>>

\* The API server counts the spec's versions in the generation.
UpdateSpec(p, spec) ==
  LET stored == Stored(policies[p]) IN
  /\ stored # Absent
  /\ stored.spec # spec
  /\ stored.generation < MaxGeneration
  /\ policies' = [policies EXCEPT ![p] = Write(@,
       [stored EXCEPT !.spec = spec, !.generation = @ + 1, !.rv = @ + 1])]
  /\ UNCHANGED <<secrets, configs, usedUIDs, queue, notices, request, spent>>

\* A policy with a finalizer is only marked; one without is removed at once.
DeletePolicy(p) ==
  LET stored == Stored(policies[p]) IN
  /\ stored # Absent
  /\ ~stored.deleting
  /\ policies' = [policies EXCEPT ![p] = Write(@,
       IF stored.finalizer
         THEN [stored EXCEPT !.deleting = TRUE, !.generation = @ + 1,
                             !.rv = @ + 1]
         ELSE Absent)]
  /\ UNCHANGED <<secrets, configs, usedUIDs, queue, notices, request, spent>>

WriteSecret(s, value) ==
  /\ value # Stored(secrets[s])
  /\ Spend("secretWrites", MaxSecretWrites)
  /\ secrets' = [secrets EXCEPT ![s] = Write(@, value)]
  /\ UNCHANGED <<policies, configs, usedUIDs, queue, notices, request>>

\* Someone else deletes or empties the Secret of a policy downstream.
Drift(u, value) ==
  /\ Stored(configs[u]) # Absent
  /\ value # Stored(configs[u])
  /\ Spend("drifts", MaxDrifts)
  /\ configs' = [configs EXCEPT ![u] = WriteDownstream(@, value)]
  /\ UNCHANGED <<policies, secrets, usedUIDs, queue, notices, request>>

-----------------------------------------------------------------------------
(* Informers: the caches, the watches, and the requests they enqueue *)

DeliverPolicy(p) ==
  /\ ~UpToDate(policies[p])
  /\ policies' = [policies EXCEPT ![p] = Tail(@)]
  /\ queue' = queue \cup {p}
  /\ UNCHANGED <<secrets, configs, usedUIDs, notices, request, spent>>

DeliverSecret(s) ==
  /\ ~UpToDate(secrets[s])
  /\ secrets' = [secrets EXCEPT ![s] = Tail(@)]
  /\ notices' = notices \cup {s}
  /\ UNCHANGED <<policies, configs, usedUIDs, queue, request, spent>>

\* Mutant: only the first sink is looked at.
FirstSinkReferencesSecret(spec, s) == spec.sinks[1].target.secret = s

ReferencesSecret(spec, s) ==
  \E sink \in SinksOf(spec) : sink.target.secret = s

\* The requests for the cached policies that refer to the Secret.
Referrers(s) == {p \in Policies : /\ Cached(policies[p]) # Absent
                                  /\ ReferencesSecret(Cached(policies[p]).spec, s)}

\* The map function of the Secret watch.
MapSecret(s) ==
  /\ s \in notices
  /\ notices' = notices \ {s}
  /\ queue' = queue \cup Referrers(s)
  /\ UNCHANGED <<stores, request, spent>>

\* Its List fails: the error is logged, and the event forgotten.
MapSecretFails(s) ==
  /\ s \in notices
  /\ notices' = notices \ {s}
  /\ Spend("faults", MaxFaults)
  /\ UNCHANGED <<stores, queue, request>>

DeliverConfig(u) ==
  /\ ~UpToDate(configs[u])
  /\ configs' = [configs EXCEPT ![u] = Tail(@)]
  /\ UNCHANGED <<policies, secrets, usedUIDs, queue, notices, request, spent>>

\* A resync hands every cached policy to the handler again.
Resync(p) ==
  /\ Resyncs
  /\ Cached(policies[p]) # Absent
  /\ queue' = queue \cup {p}
  /\ UNCHANGED <<stores, notices, request, spent>>

-----------------------------------------------------------------------------
(* The reconciler: one worker (MaxConcurrentReconciles is left at 1) *)

ForgetRequest ==
  /\ pc' = "idle"
  /\ key' = Absent
  /\ obj' = Absent
  /\ cursor' = 1
  /\ found' = NoSinkStatuses
  /\ draft' = EmptyConfiguration

\* Reconcile returns Result{}, nil.
Return == ForgetRequest /\ UNCHANGED queue

\* Reconcile returns an error or Requeue: the key comes back after a backoff.
Requeue == ForgetRequest /\ queue' = queue \cup {key}

Dequeue(p) ==
  /\ pc = "idle"
  /\ p \in queue
  /\ queue' = queue \ {p}
  /\ key' = p
  /\ pc' = "get"
  /\ UNCHANGED <<stores, notices, obj, cursor, found, draft, spent>>

\* Get the policy from the cache and enter the finalizers: a new policy gets
\* ours, a deleted one is finalized, any other goes on to its status.
GetPolicy ==
  LET cached == Cached(policies[key]) IN
  /\ pc = "get"
  /\ \/ /\ cached # Absent => (cached.deleting /\ ~cached.finalizer)
        /\ Return
     \/ /\ cached # Absent /\ (cached.deleting => cached.finalizer)
        /\ obj' = [cached EXCEPT !.finalizer = TRUE]
        /\ pc' = IF cached.deleting THEN "finalize"
                 ELSE IF cached.finalizer THEN "status" ELSE "update"
        /\ UNCHANGED <<queue, key, cursor, found, draft>>
  /\ UNCHANGED <<stores, notices, spent>>

\* Mutant: only a configuration the cache shows is deleted.
DeleteCachedConfig(u) ==
  configs' = IF Cached(configs[u]) = Absent THEN configs
             ELSE [configs EXCEPT ![u] = WriteDownstream(@, Absent)]

DeleteConfig(u) ==
  configs' = IF Stored(configs[u]) = Absent THEN configs
             ELSE [configs EXCEPT ![u] = WriteDownstream(@, Absent)]

\* Mutant: a Secret that is not found is an error.
FinalizeRequiringConfig ==
  /\ pc = "finalize"
  /\ DeleteConfig(obj.uid)
  /\ \/ /\ Stored(configs[obj.uid]) = Absent
        /\ Requeue
     \/ /\ Stored(configs[obj.uid]) # Absent
        /\ obj' = [obj EXCEPT !.finalizer = FALSE]
        /\ pc' = "update"
        /\ UNCHANGED <<queue, key, cursor, found, draft>>
  /\ UNCHANGED <<policies, secrets, usedUIDs, notices, spent>>

\* vectorSecretFinalizer.Finalize: NotFound counts as deleted.
Finalize ==
  /\ pc = "finalize"
  /\ DeleteConfig(obj.uid)
  /\ obj' = [obj EXCEPT !.finalizer = FALSE]
  /\ pc' = "update"
  /\ UNCHANGED <<policies, secrets, usedUIDs, queue, notices, key, cursor,
                 found, draft, spent>>

\* The API server accepts a write whose copy is of the stored version.
NoConflict(copy) ==
  /\ Stored(policies[key]) # Absent
  /\ Stored(policies[key]).uid = copy.uid
  /\ Stored(policies[key]).rv = copy.rv

\* The server stores the copy, or removes a policy that is being deleted and
\* has no finalizer left.
PutPolicy(copy) ==
  policies' = [policies EXCEPT ![key] = Write(@,
    IF copy.deleting /\ ~copy.finalizer THEN Absent
    ELSE [copy EXCEPT !.rv = @ + 1])]

\* Mutant: the update carries no resource version.
UpdatePolicyUnconditionally ==
  /\ pc = "update"
  /\ Stored(policies[key]) # Absent
  /\ Stored(policies[key]).uid = obj.uid
  /\ PutPolicy(obj)
  /\ \/ obj.deleting /\ Return
     \/ /\ ~obj.deleting
        /\ obj' = [obj EXCEPT !.rv = @ + 1]
        /\ pc' = "status"
        /\ UNCHANGED <<queue, key, cursor, found, draft>>
  /\ UNCHANGED <<secrets, configs, usedUIDs, notices, spent>>

\* Mutant: a policy that is marked for deletion is processed further.
UpdatePolicyAndGoOn ==
  /\ pc = "update"
  /\ NoConflict(obj)
  /\ PutPolicy(obj)
  /\ obj' = [obj EXCEPT !.rv = @ + 1]
  /\ pc' = "status"
  /\ UNCHANGED <<secrets, configs, usedUIDs, notices, spent, queue, key, cursor,
                 found, draft>>

\* Update after the finalizers changed the policy.
UpdatePolicy ==
  /\ pc = "update"
  /\ NoConflict(obj)
  /\ PutPolicy(obj)
  /\ \/ obj.deleting /\ Return
     \/ /\ ~obj.deleting
        /\ obj' = [obj EXCEPT !.rv = @ + 1]
        /\ pc' = "status"
        /\ UNCHANGED <<queue, key, cursor, found, draft>>
  /\ UNCHANGED <<secrets, configs, usedUIDs, notices, spent>>

Sink == obj.spec.sinks[cursor]
MoreSinks == cursor <= Len(obj.spec.sinks)

\* What reading the Secret of a sink may give: the cached object or an error.
ReadSecret(sink, outcome) ==
  \/ /\ outcome = RetrieveBasicAuthSecret(Cached(secrets[sink.target.secret]))
     /\ UNCHANGED spent
  \/ outcome = "internal" /\ Spend("readFaults", MaxReadFaults)

\* One iteration of reconcileExportPolicyStatus.
ValidateSink ==
  /\ pc = "status" /\ MoreSinks
  /\ \E outcome \in SecretError \cup {"ok"} :
       /\ IF Sink.target.kind = "basicAuth" THEN ReadSecret(Sink, outcome)
          ELSE outcome = "ok" /\ UNCHANGED spent
       /\ found' = [found EXCEPT ![Sink.name] =
                      SinkCondition(obj.status, Sink, outcome)]
  /\ cursor' = cursor + 1
  /\ UNCHANGED <<stores, queue, notices, pc, key, obj, draft>>

NewStatus == [sinks |-> found, ready |-> ReadyFor(found, obj.generation)]

\* Mutant: a change of the Ready condition alone does not count.
SinkStatusChanged ==
  \E sink \in SinksOf(obj.spec) :
    found[sink.name] # GetSinkStatus(obj.status, sink.name)

\* SetStatusCondition reported a change, of a sink or of the policy.
StatusChanged ==
  \/ \E sink \in SinksOf(obj.spec) :
       found[sink.name] # GetSinkStatus(obj.status, sink.name)
  \/ NewStatus.ready # obj.status.ready

\* The status subresource leaves everything else as it is.
PutStatus == PutPolicy([obj EXCEPT !.status = NewStatus])

UpdateStatus ==
  /\ pc = "status" /\ ~MoreSinks /\ StatusChanged
  /\ NoConflict(obj)
  /\ PutStatus
  /\ Requeue
  /\ UNCHANGED <<secrets, configs, usedUIDs, notices, spent>>

KeepStatus ==
  /\ pc = "status" /\ ~MoreSinks /\ ~StatusChanged
  /\ ~SourcesPanic(obj.spec)
  /\ pc' = "config"
  /\ cursor' = 1
  /\ draft' = [EmptyConfiguration EXCEPT !.sources = ConfiguredSources(obj.spec)]
  /\ UNCHANGED <<stores, queue, notices, key, obj, found, spent>>

\* One iteration over the sinks in createVectorConfiguration.  An error is
\* logged and the sink left out, whatever the error is.
ConfigureSink ==
  /\ pc = "config" /\ MoreSinks /\ ~SinkPanics(Sink)
  /\ \E outcome \in SecretError \cup {"ok"} :
       /\ IF Sink.target.kind = "basicAuth" THEN ReadSecret(Sink, outcome)
          ELSE outcome = "ok" /\ UNCHANGED spent
       /\ draft' = [draft EXCEPT !.sinks[Sink.name] =
            SinkVectorConfig(Sink, outcome,
              IF outcome = "ok" /\ Sink.target.kind = "basicAuth"
                THEN Cached(secrets[Sink.target.secret]) ELSE Absent)]
  /\ cursor' = cursor + 1
  /\ UNCHANGED <<stores, queue, notices, pc, key, obj, found>>

\* controller-runtime recovers the panic and requeues the request.
Panic ==
  /\ \/ pc = "status" /\ ~MoreSinks /\ ~StatusChanged /\ SourcesPanic(obj.spec)
     \/ pc = "config" /\ MoreSinks /\ SinkPanics(Sink)
  /\ Requeue
  /\ UNCHANGED <<stores, notices, spent>>

\* Mutant: a Secret that exists downstream is left as it is.
PutMissingConfig(u) ==
  configs' = IF Cached(configs[u]) # Absent THEN configs
             ELSE [configs EXCEPT ![u] = WriteDownstream(@, draft)]

\* The write CreateOrUpdate does when its cached read is up to date.
PutConfig(u) ==
  configs' = IF Cached(configs[u]) = draft THEN configs
             ELSE [configs EXCEPT ![u] = WriteDownstream(@, draft)]

\* On a stale read Create finds a Secret, and Update conflicts or finds none.
WriteAccepted(log) ==
  UpToDate(log) \/ (Cached(log) = Absent /\ Stored(log) = Absent)

\* Create, if the cache has no Secret; Update, if it has another; or nothing.
CreateOrUpdate ==
  LET log == configs[obj.uid] IN
  /\ pc = "config" /\ ~MoreSinks
  /\ \/ /\ Cached(log) # draft => WriteAccepted(log)
        /\ PutConfig(obj.uid)
        /\ Return
     \/ /\ Cached(log) # draft /\ ~WriteAccepted(log)
        /\ Requeue
        /\ UNCHANGED configs
  /\ UNCHANGED <<policies, secrets, usedUIDs, notices, spent>>

Conflict ==
  /\ \/ pc = "update"
     \/ pc = "status" /\ ~MoreSinks /\ StatusChanged
  /\ ~NoConflict(obj)
  /\ Requeue
  /\ UNCHANGED <<stores, notices, spent>>

\* A call fails before it has any effect, from GetCluster to CreateOrUpdate.
CallFails ==
  /\ \/ pc \in {"get", "finalize", "update"}
     \/ pc = "status" /\ ~MoreSinks /\ StatusChanged
     \/ pc = "config" /\ ~MoreSinks
  /\ Spend("faults", MaxFaults)
  /\ Requeue
  /\ UNCHANGED <<stores, notices>>

\* A write takes effect, but the reconciler gets an error instead of a reply.
ReplyLost ==
  /\ \/ pc = "finalize" /\ DeleteConfig(obj.uid) /\ UNCHANGED policies
     \/ pc = "update" /\ NoConflict(obj) /\ PutPolicy(obj) /\ UNCHANGED configs
     \/ /\ pc = "status" /\ ~MoreSinks /\ StatusChanged
        /\ NoConflict(obj) /\ PutStatus
        /\ UNCHANGED configs
     \/ /\ pc = "config" /\ ~MoreSinks
        /\ Cached(configs[obj.uid]) # draft /\ WriteAccepted(configs[obj.uid])
        /\ PutConfig(obj.uid)
        /\ UNCHANGED policies
  /\ Spend("faults", MaxFaults)
  /\ Requeue
  /\ UNCHANGED <<secrets, usedUIDs, notices>>

\* The operator restarts: the request in hand and the queue are lost, and the
\* initial list enqueues every policy.  The list is at least as recent as the
\* cache was.
Crash ==
  /\ Spend("crashes", MaxCrashes)
  /\ ForgetRequest
  /\ queue' = {p \in Policies : Cached(policies[p]) # Absent}
  /\ notices' = {}
  /\ UNCHANGED stores

-----------------------------------------------------------------------------
User ==
  \/ \E p \in Policies, u \in UIDs, spec \in Specs : CreatePolicy(p, u, spec)
  \/ \E p \in Policies, spec \in Specs : UpdateSpec(p, spec)
  \/ \E p \in Policies : DeletePolicy(p)
  \/ \E s \in Secrets, v \in SecretObjects \cup {Absent} : WriteSecret(s, v)
  \/ \E u \in UIDs, v \in {Absent, EmptyConfiguration} : Drift(u, v)

Informer ==
  \/ \E p \in Policies : DeliverPolicy(p) \/ Resync(p)
  \/ \E s \in Secrets : DeliverSecret(s) \/ MapSecret(s) \/ MapSecretFails(s)
  \/ \E u \in UIDs : DeliverConfig(u)

\* The steps of Reconcile.
Reconcile ==
  \/ GetPolicy \/ Finalize \/ UpdatePolicy
  \/ ValidateSink \/ UpdateStatus \/ KeepStatus
  \/ ConfigureSink \/ Panic \/ CreateOrUpdate
  \/ Conflict \/ CallFails \/ ReplyLost

Next ==
  \/ User
  \/ Informer
  \/ \E p \in Policies : Dequeue(p)
  \/ Reconcile
  \/ Crash

Spec == Init /\ [][Next]_vars

(***************************************************************************)
(* Watches deliver, handlers and the worker run.  The work queue is FIFO,  *)
(* so no policy waits behind another for ever: strong fairness of Dequeue. *)
(***************************************************************************)
Fairness ==
  /\ \A p \in Policies : /\ WF_vars(DeliverPolicy(p))
                         /\ WF_vars(Resync(p))
                         /\ SF_vars(Dequeue(p))
  /\ \A s \in Secrets : WF_vars(DeliverSecret(s)) /\ WF_vars(MapSecret(s))
  /\ \A u \in UIDs : WF_vars(DeliverConfig(u))
  /\ WF_vars(Reconcile)

FairSpec == Spec /\ Fairness
=============================================================================
