--------------------- MODULE ExportPolicyControllerProofs ---------------------
(***************************************************************************)
(* Theorems about the ExportPolicy controller, for any number of policies, *)
(* UIDs, Secrets and sinks, any specs, and any bounds.                     *)
(***************************************************************************)
EXTENDS ExportPolicyInvariant, FiniteSetTheorems, TLAPS

-----------------------------------------------------------------------------
(* Logs.  The set S stands for the objects with Absent. *)

\* The cache and the server show elements of the log.
LEMMA LogEnds ==
  ASSUME NEW S, NEW log \in Seq(S), Len(log) > 0
  PROVE  /\ Cached(log) = log[1]
         /\ Cached(log) \in S
         /\ Stored(log) \in S
         /\ Len(log) \in Nat \ {0}
BY DEF Cached, Stored

\* Appending keeps what the cache shows and changes what is stored.
LEMMA LogAppend ==
  ASSUME NEW S, NEW log \in Seq(S), Len(log) > 0, NEW v \in S
  PROVE  /\ Append(log, v) \in Seq(S)
         /\ Len(Append(log, v)) = Len(log) + 1
         /\ Len(Append(log, v)) > 0
         /\ Stored(Append(log, v)) = v
         /\ \A i \in 1 .. Len(log) : Append(log, v)[i] = log[i]
BY DEF Stored

\* Delivering keeps what is stored.
LEMMA LogTail ==
  ASSUME NEW S, NEW log \in Seq(S), Len(log) > 0, ~UpToDate(log)
  PROVE  /\ Tail(log) \in Seq(S)
         /\ Len(Tail(log)) = Len(log) - 1
         /\ Len(Tail(log)) > 0
         /\ Stored(Tail(log)) = Stored(log)
         /\ \A i \in 1 .. Len(log) - 1 : Tail(log)[i] = log[i + 1]
<1>1. Len(log) > 1
  BY DEF UpToDate
<1>2. /\ Tail(log) \in Seq(S)
      /\ Len(Tail(log)) = Len(log) - 1
      /\ \A i \in 1 .. Len(log) - 1 : Tail(log)[i] = log[i + 1]
  BY <1>1
<1>3. Tail(log)[Len(log) - 1] = log[Len(log)]
  BY <1>1, <1>2
<1>. QED  BY <1>1, <1>2, <1>3 DEF Stored

-----------------------------------------------------------------------------
(* Stores: functions from keys to logs *)

LEMMA StoreEnds ==
  ASSUME NEW K, NEW S, NEW f \in [K -> Logs(S)], NEW k \in K
  PROVE  /\ Cached(f[k]) \in S \cup {Absent}
         /\ Stored(f[k]) \in S \cup {Absent}
         /\ Cached(f[k]) = f[k][1]
         /\ Len(f[k]) \in Nat \ {0}
<1>1. f[k] \in Seq(S \cup {Absent}) /\ Len(f[k]) > 0
  BY DEF Logs
<1>. QED  BY <1>1, LogEnds

LEMMA StoreWrite ==
  ASSUME NEW K, NEW S, NEW f \in [K -> Logs(S)], NEW k \in K,
         NEW v \in S \cup {Absent}
  PROVE  LET g == [f EXCEPT ![k] = Write(@, v)] IN
         /\ g \in [K -> Logs(S)]
         /\ Stored(g[k]) = v
         /\ \A j \in K \ {k} : g[j] = f[j]
<1>1. f[k] \in Seq(S \cup {Absent}) /\ Len(f[k]) > 0
  BY DEF Logs
<1>2. Append(f[k], v) \in Logs(S) /\ Stored(Append(f[k], v)) = v
  BY <1>1, LogAppend DEF Logs
<1>. QED  BY <1>2 DEF Write

LEMMA StoreWriteDownstream ==
  ASSUME NEW K, NEW S, NEW f \in [K -> Logs(S)], NEW k \in K,
         NEW v \in S \cup {Absent}
  PROVE  LET g == [f EXCEPT ![k] = WriteDownstream(@, v)] IN
         /\ g \in [K -> Logs(S)]
         /\ Stored(g[k]) = v
         /\ \A j \in K \ {k} : g[j] = f[j]
<1>1. f[k] \in Seq(S \cup {Absent}) /\ Len(f[k]) > 0
  BY DEF Logs
<1>2. Append(f[k], v) \in Logs(S) /\ Stored(Append(f[k], v)) = v
  BY <1>1, LogAppend DEF Logs
<1>3. <<v>> \in Logs(S) /\ Stored(<<v>>) = v
  BY DEF Logs, Stored
<1>4. WriteDownstream(f[k], v) \in Logs(S)
      /\ Stored(WriteDownstream(f[k], v)) = v
  BY <1>2, <1>3 DEF WriteDownstream
<1>. QED  BY <1>4

LEMMA StoreDeliver ==
  ASSUME NEW K, NEW S, NEW f \in [K -> Logs(S)], NEW k \in K,
         ~UpToDate(f[k])
  PROVE  LET g == [f EXCEPT ![k] = Tail(@)] IN
         /\ g \in [K -> Logs(S)]
         /\ \A j \in K : Stored(g[j]) = Stored(f[j])
<1>1. f[k] \in Seq(S \cup {Absent}) /\ Len(f[k]) > 0
  BY DEF Logs
<1>2. Tail(f[k]) \in Logs(S) /\ Stored(Tail(f[k])) = Stored(f[k])
  BY <1>1, LogTail DEF Logs
<1>. QED  BY <1>2

-----------------------------------------------------------------------------
(* Types of what the reconciler computes *)

LEMMA ReadyForType ==
  ASSUME NEW sinks \in [SinkNames -> Condition], NEW generation \in Nat
  PROVE  ReadyFor(sinks, generation) \in ReadyCondition
<1>1. \A T \in SUBSET SinkNames : Cardinality(T) \in Nat
  BY SinkNamesAssumption, FS_Subset, FS_CardinalityType
<1>. QED  BY <1>1 DEF ReadyFor, ReadyCondition

LEMMA NoStatusType ==
  NoStatus \in Status
BY DEF NoStatus, NoSinkStatuses, Status, ReadyCondition, Condition

LEMMA EmptyConfigurationType ==
  EmptyConfiguration \in Configuration
BY DEF EmptyConfiguration, NoSinks, Configuration

LEMMA SpecType ==
  ASSUME NEW spec \in Specs
  PROVE  /\ spec.sinks \in Seq(TelemetrySink)
         /\ spec.sources \in [SourceNames -> SourceKind]
BY InputAssumption DEF ExportPolicySpec

LEMMA SinkConditionType ==
  ASSUME NEW status \in Status, NEW sink \in TelemetrySink,
         NEW outcome \in SecretError \cup {"ok"}
  PROVE  SinkCondition(status, sink, outcome) \in Condition
<1>1. GetSinkStatus(status, sink.name) \in Condition
  BY DEF GetSinkStatus, Status, Condition, TelemetrySink
<1>2. sink.target.kind \in TargetKind
  BY DEF TelemetrySink, Target
<1>. QED  BY <1>1, <1>2 DEF SinkCondition, Condition, TargetKind

LEMMA SinkVectorConfigType ==
  ASSUME NEW sink \in TelemetrySink, NEW outcome,
         NEW secret \in SecretObject \cup {Absent},
         (sink.target.kind = "basicAuth" /\ outcome = "ok") => secret # Absent
  PROVE  SinkVectorConfig(sink, outcome, secret) \in SinkConfig \cup {Absent}
BY DEF SinkVectorConfig, SinkConfig, SecretObject, TelemetrySink

\* The versions of a policy that users and the reconciler derive from another.
LEMMA PolicyVersions ==
  ASSUME NEW policy \in ExportPolicy
  PROVE  /\ \A spec \in Specs :
              [policy EXCEPT !.spec = spec, !.generation = @ + 1, !.rv = @ + 1]
                \in ExportPolicy
         /\ [policy EXCEPT !.deleting = TRUE, !.generation = @ + 1, !.rv = @ + 1]
              \in ExportPolicy
         /\ \A b \in BOOLEAN : [policy EXCEPT !.finalizer = b] \in ExportPolicy
         /\ \A status \in Status :
              [policy EXCEPT !.status = status] \in ExportPolicy
         /\ [policy EXCEPT !.rv = @ + 1] \in ExportPolicy
<1>. DEFINE Number(copy) ==
       [[copy EXCEPT !.generation = policy.generation + 1]
             EXCEPT !.rv = policy.rv + 1]
<1>0. policy.rv + 1 \in Nat /\ policy.generation + 1 \in Nat
  BY DEF ExportPolicy
<1>a. ASSUME NEW copy \in ExportPolicy, NEW n \in Nat
      PROVE  /\ [copy EXCEPT !.generation = n] \in ExportPolicy
             /\ [copy EXCEPT !.rv = n] \in ExportPolicy
  BY <1>a DEF ExportPolicy
<1>b. \A copy \in ExportPolicy : Number(copy) \in ExportPolicy
  BY <1>0, <1>a
<1>1. ASSUME NEW spec \in Specs
      PROVE  [policy EXCEPT !.spec = spec, !.generation = @ + 1, !.rv = @ + 1]
               \in ExportPolicy
  <2>1. [policy EXCEPT !.spec = spec] \in ExportPolicy
    BY DEF ExportPolicy
  <2>. QED  BY <2>1, <1>b
<1>2. [policy EXCEPT !.deleting = TRUE, !.generation = @ + 1, !.rv = @ + 1]
        \in ExportPolicy
  <2>1. [policy EXCEPT !.deleting = TRUE] \in ExportPolicy
    BY DEF ExportPolicy
  <2>. QED  BY <2>1, <1>b
<1>3. /\ \A b \in BOOLEAN : [policy EXCEPT !.finalizer = b] \in ExportPolicy
      /\ \A status \in Status : [policy EXCEPT !.status = status] \in ExportPolicy
      /\ [policy EXCEPT !.rv = @ + 1] \in ExportPolicy
  BY DEF ExportPolicy
<1>. QED  BY <1>1, <1>2, <1>3

\* What those versions keep and what they change.
LEMMA PolicyVersionFields ==
  ASSUME NEW policy \in ExportPolicy, NEW spec
  PROVE  /\ LET edited == [policy EXCEPT !.spec = spec, !.generation = @ + 1,
                                         !.rv = @ + 1] IN
            /\ edited.uid = policy.uid /\ edited.rv = policy.rv + 1
            /\ edited.deleting = policy.deleting
            /\ edited.finalizer = policy.finalizer
         /\ LET marked == [policy EXCEPT !.deleting = TRUE,
                                         !.generation = @ + 1, !.rv = @ + 1] IN
            /\ marked.uid = policy.uid /\ marked.rv = policy.rv + 1
            /\ marked.deleting
            /\ marked.finalizer = policy.finalizer
BY DEF ExportPolicy

LEMMA StoredCopyFields ==
  ASSUME NEW copy \in ExportPolicy
  PROVE  LET stored == [copy EXCEPT !.rv = @ + 1] IN
            /\ stored.uid = copy.uid /\ stored.rv = copy.rv + 1
            /\ stored.spec = copy.spec
            /\ stored.generation = copy.generation
            /\ stored.deleting = copy.deleting
            /\ stored.finalizer = copy.finalizer
BY DEF ExportPolicy

-----------------------------------------------------------------------------
(* Type correctness *)

Types == TypeOK /\ WorkerOK

LEMMA ForgetRequestType ==
  ASSUME ForgetRequest
  PROVE  /\ pc' = "idle"
         /\ key' \in Policies \cup {Absent}
         /\ obj' \in ExportPolicy \cup {Absent}
         /\ cursor' \in Nat \ {0}
         /\ found' \in [SinkNames -> Condition]
         /\ draft' \in Configuration
BY EmptyConfigurationType DEF ForgetRequest, NoSinkStatuses, Condition

LEMMA InitTypes == Init => Types
<1>. SUFFICES ASSUME Init PROVE Types
  OBVIOUS
<1>1. <<Absent>> \in Logs(ExportPolicy) /\ <<Absent>> \in Logs(SecretObject)
      /\ <<Absent>> \in Logs(Configuration)
  BY DEF Logs
<1>2. found \in [SinkNames -> Condition]
  BY DEF Init, NoSinkStatuses, Condition
<1>. QED
  BY <1>1, <1>2, EmptyConfigurationType DEF Init, Types, TypeOK, WorkerOK, Budget

LEMMA SpendType ==
  ASSUME spent \in Budget, NEW bound,
         NEW kind \in {"secretWrites", "faults", "readFaults", "crashes",
                       "drifts"},
         Spend(kind, bound)
  PROVE  spent' \in Budget
BY DEF Spend, Budget

LEMMA UserTypes ==
  ASSUME Types, User
  PROVE  Types'
<1>. USE DEF Types, TypeOK, WorkerOK, request
<1>1. ASSUME NEW p \in Policies, NEW u \in UIDs, NEW spec \in Specs,
             CreatePolicy(p, u, spec)
      PROVE  Types'
  <2>1. [uid |-> u, rv |-> 1, generation |-> 1, spec |-> spec,
         finalizer |-> FALSE, deleting |-> FALSE, status |-> NoStatus]
           \in ExportPolicy
    BY NoStatusType DEF ExportPolicy
  <2>2. policies' \in [Policies -> Logs(ExportPolicy)]
    BY <1>1, <2>1, StoreWrite DEF CreatePolicy
  <2>. QED  BY <1>1, <2>2 DEF CreatePolicy
<1>2. ASSUME NEW p \in Policies, NEW spec \in Specs, UpdateSpec(p, spec)
      PROVE  Types'
  <2>. DEFINE stored == Stored(policies[p])
  <2>1. stored \in ExportPolicy
    BY <1>2, StoreEnds DEF UpdateSpec
  <2>2. [stored EXCEPT !.spec = spec, !.generation = @ + 1, !.rv = @ + 1]
           \in ExportPolicy
    BY <2>1, PolicyVersions
  <2>3. policies' \in [Policies -> Logs(ExportPolicy)]
    BY <1>2, <2>2, StoreWrite DEF UpdateSpec
  <2>. QED  BY <1>2, <2>3 DEF UpdateSpec
<1>3. ASSUME NEW p \in Policies, DeletePolicy(p)
      PROVE  Types'
  <2>. DEFINE stored == Stored(policies[p])
              marked == [stored EXCEPT !.deleting = TRUE,
                                       !.generation = @ + 1, !.rv = @ + 1]
  <2>1. stored \in ExportPolicy
    BY <1>3, StoreEnds DEF DeletePolicy
  <2>2. marked \in ExportPolicy
    BY <2>1, PolicyVersions
  <2>3. (IF stored.finalizer THEN marked ELSE Absent)
          \in ExportPolicy \cup {Absent}
    BY <2>2
  <2>4. policies' \in [Policies -> Logs(ExportPolicy)]
    BY <1>3, <2>3, StoreWrite DEF DeletePolicy
  <2>. QED  BY <1>3, <2>4 DEF DeletePolicy
<1>4. ASSUME NEW s \in Secrets, NEW v \in SecretObjects \cup {Absent},
             WriteSecret(s, v)
      PROVE  Types'
  <2>1. secrets' \in [Secrets -> Logs(SecretObject)]
    BY <1>4, InputAssumption, StoreWrite DEF WriteSecret
  <2>2. spent' \in Budget
    BY <1>4, SpendType DEF WriteSecret
  <2>. QED  BY <1>4, <2>1, <2>2 DEF WriteSecret
<1>5. ASSUME NEW u \in UIDs, NEW v \in {Absent, EmptyConfiguration},
             Drift(u, v)
      PROVE  Types'
  <2>1. configs' \in [UIDs -> Logs(Configuration)]
    BY <1>5, EmptyConfigurationType, StoreWriteDownstream DEF Drift
  <2>2. spent' \in Budget
    BY <1>5, SpendType DEF Drift
  <2>. QED  BY <1>5, <2>1, <2>2 DEF Drift
<1>. QED  BY <1>1, <1>2, <1>3, <1>4, <1>5 DEF User

LEMMA InformerTypes ==
  ASSUME Types, Informer
  PROVE  Types'
<1>. USE DEF Types, TypeOK, WorkerOK, request
<1>1. ASSUME NEW p \in Policies, DeliverPolicy(p) PROVE Types'
  <2>1. policies' \in [Policies -> Logs(ExportPolicy)]
    BY <1>1, StoreDeliver DEF DeliverPolicy
  <2>. QED  BY <1>1, <2>1 DEF DeliverPolicy
<1>2. ASSUME NEW p \in Policies, Resync(p) PROVE Types'
  BY <1>2 DEF Resync, stores
<1>3. ASSUME NEW s \in Secrets, DeliverSecret(s) PROVE Types'
  <2>1. secrets' \in [Secrets -> Logs(SecretObject)]
    BY <1>3, StoreDeliver DEF DeliverSecret
  <2>. QED  BY <1>3, <2>1 DEF DeliverSecret
<1>4. ASSUME NEW s \in Secrets, MapSecret(s) PROVE Types'
  BY <1>4 DEF MapSecret, Referrers, stores
<1>5. ASSUME NEW u \in UIDs, DeliverConfig(u) PROVE Types'
  <2>1. configs' \in [UIDs -> Logs(Configuration)]
    BY <1>5, StoreDeliver DEF DeliverConfig
  <2>. QED  BY <1>5, <2>1 DEF DeliverConfig
<1>6. ASSUME NEW s \in Secrets, MapSecretFails(s) PROVE Types'
  BY <1>6, SpendType DEF MapSecretFails, stores
<1>. QED  BY <1>1, <1>2, <1>3, <1>4, <1>5, <1>6 DEF Informer

LEMMA SinkType ==
  ASSUME obj \in ExportPolicy, cursor \in Nat \ {0}, MoreSinks
  PROVE  Sink \in TelemetrySink
<1>1. obj.spec \in Specs
  BY DEF ExportPolicy
<1>2. obj.spec.sinks \in Seq(TelemetrySink)
  BY <1>1, SpecType
<1>. QED  BY <1>2 DEF Sink, MoreSinks

LEMMA PutPolicyTypes ==
  ASSUME policies \in [Policies -> Logs(ExportPolicy)], key \in Policies,
         NEW copy \in ExportPolicy, PutPolicy(copy)
  PROVE  LET put == IF copy.deleting /\ ~copy.finalizer THEN Absent
                    ELSE [copy EXCEPT !.rv = @ + 1] IN
         /\ policies' \in [Policies -> Logs(ExportPolicy)]
         /\ policies' = [policies EXCEPT ![key] = Write(@, put)]
         /\ put \in ExportPolicy \cup {Absent}
         /\ Stored(policies'[key]) = put
         /\ \A p \in Policies \ {key} : policies'[p] = policies[p]
<1>. DEFINE put == IF copy.deleting /\ ~copy.finalizer THEN Absent
                   ELSE [copy EXCEPT !.rv = @ + 1]
<1>1. put \in ExportPolicy \cup {Absent}
  BY PolicyVersions
<1>2. policies' = [policies EXCEPT ![key] = Write(@, put)]
  BY DEF PutPolicy
<1>. HIDE DEF put
<1>3. /\ [policies EXCEPT ![key] = Write(@, put)] \in [Policies -> Logs(ExportPolicy)]
      /\ Stored([policies EXCEPT ![key] = Write(@, put)][key]) = put
      /\ \A p \in Policies \ {key} :
           [policies EXCEPT ![key] = Write(@, put)][p] = policies[p]
  BY <1>1, StoreWrite
<1>. QED  BY <1>1, <1>2, <1>3 DEF put

\* A deletion downstream, and a write of the draft, keep the store typed and
\* touch one configuration.
LEMMA DeleteConfigTypes ==
  ASSUME configs \in [UIDs -> Logs(Configuration)], NEW u \in UIDs,
         DeleteConfig(u)
  PROVE  /\ configs' \in [UIDs -> Logs(Configuration)]
         /\ Stored(configs'[u]) = Absent
         /\ \A w \in UIDs \ {u} : configs'[w] = configs[w]
BY StoreWriteDownstream DEF DeleteConfig

LEMMA PutConfigTypes ==
  ASSUME configs \in [UIDs -> Logs(Configuration)], NEW u \in UIDs,
         draft \in Configuration, PutConfig(u)
  PROVE  /\ configs' \in [UIDs -> Logs(Configuration)]
         /\ \A w \in UIDs \ {u} : configs'[w] = configs[w]
BY StoreWriteDownstream DEF PutConfig

LEMMA NewStatusType ==
  ASSUME Types, obj \in ExportPolicy
  PROVE  /\ NewStatus \in Status
         /\ [obj EXCEPT !.status = NewStatus] \in ExportPolicy
<1>1. NewStatus \in Status
  BY ReadyForType DEF NewStatus, Status, Types, TypeOK, ExportPolicy
<1>. QED  BY <1>1, PolicyVersions

LEMMA ReadSecretType ==
  ASSUME spent \in Budget, NEW sink, NEW outcome, ReadSecret(sink, outcome)
  PROVE  spent' \in Budget
BY SpendType DEF ReadSecret

LEMMA ReconcileTypes ==
  ASSUME Types, Reconcile
  PROVE  Types'
<1>. USE DEF Types, TypeOK, WorkerOK
<1>1. CASE GetPolicy
  <2>. DEFINE cached == Cached(policies[key])
  <2>1. CASE Return
    BY <1>1, <2>1, ForgetRequestType DEF GetPolicy, Return, stores
  <2>2. CASE ~Return
    <3>1. cached \in ExportPolicy
      BY <1>1, <2>2, StoreEnds DEF GetPolicy
    <3>2. obj' \in ExportPolicy
      BY <1>1, <2>2, <3>1, PolicyVersions DEF GetPolicy
    <3>. QED  BY <1>1, <2>2, <3>2 DEF GetPolicy, stores
  <2>. QED  BY <2>1, <2>2
<1>2. CASE Finalize
  <2>1. obj.uid \in UIDs
    BY <1>2 DEF Finalize, ExportPolicy
  <2>2. configs' \in [UIDs -> Logs(Configuration)]
    BY <1>2, <2>1, DeleteConfigTypes DEF Finalize
  <2>3. obj' \in ExportPolicy
    BY <1>2, PolicyVersions DEF Finalize
  <2>. QED  BY <1>2, <2>2, <2>3 DEF Finalize
<1>3. CASE UpdatePolicy
  <2>1. policies' \in [Policies -> Logs(ExportPolicy)]
    BY <1>3, PutPolicyTypes DEF UpdatePolicy
  <2>2. CASE Return
    BY <1>3, <2>1, <2>2, ForgetRequestType DEF UpdatePolicy, Return
  <2>3. CASE ~Return
    <3>1. obj' \in ExportPolicy
      BY <1>3, <2>3, PolicyVersions DEF UpdatePolicy
    <3>. QED  BY <1>3, <2>1, <2>3, <3>1 DEF UpdatePolicy
  <2>. QED  BY <2>2, <2>3
<1>4. CASE ValidateSink
  <2>1. Sink \in TelemetrySink /\ obj \in ExportPolicy
    BY <1>4, SinkType DEF ValidateSink
  <2>2. PICK outcome \in SecretError \cup {"ok"} :
          /\ IF Sink.target.kind = "basicAuth" THEN ReadSecret(Sink, outcome)
             ELSE outcome = "ok" /\ UNCHANGED spent
          /\ found' = [found EXCEPT ![Sink.name] =
                         SinkCondition(obj.status, Sink, outcome)]
    BY <1>4 DEF ValidateSink
  <2>3. found' \in [SinkNames -> Condition]
    BY <2>1, <2>2, SinkConditionType DEF ExportPolicy
  <2>4. spent' \in Budget
    BY <2>2, ReadSecretType
  <2>. QED  BY <1>4, <2>3, <2>4 DEF ValidateSink, stores
<1>5. CASE UpdateStatus
  <2>1. policies' \in [Policies -> Logs(ExportPolicy)]
    BY <1>5, PutPolicyTypes, NewStatusType DEF UpdateStatus, PutStatus
  <2>. QED  BY <1>5, <2>1, ForgetRequestType DEF UpdateStatus, Requeue
<1>6. CASE KeepStatus
  <2>1. ConfiguredSources(obj.spec) \subseteq SourceNames
    BY DEF ConfiguredSources
  <2>2. draft' \in Configuration
    BY <1>6, <2>1, EmptyConfigurationType DEF KeepStatus, Configuration
  <2>. QED  BY <1>6, <2>2 DEF KeepStatus, stores
<1>7. CASE ConfigureSink
  <2>1. Sink \in TelemetrySink /\ obj \in ExportPolicy
    BY <1>7, SinkType DEF ConfigureSink
  <2>. DEFINE Secret(outcome) ==
         IF outcome = "ok" /\ Sink.target.kind = "basicAuth"
           THEN Cached(secrets[Sink.target.secret]) ELSE Absent
  <2>2. PICK outcome \in SecretError \cup {"ok"} :
          /\ IF Sink.target.kind = "basicAuth" THEN ReadSecret(Sink, outcome)
             ELSE outcome = "ok" /\ UNCHANGED spent
          /\ draft' = [draft EXCEPT !.sinks[Sink.name] =
                         SinkVectorConfig(Sink, outcome, Secret(outcome))]
    BY <1>7 DEF ConfigureSink
  <2>3. /\ Secret(outcome) \in SecretObject \cup {Absent}
        /\ (Sink.target.kind = "basicAuth" /\ outcome = "ok") =>
             Secret(outcome) # Absent
    <3>1. CASE Sink.target.kind = "basicAuth" /\ outcome = "ok"
      <4>1. Sink.target.secret \in Secrets
        BY <2>1, <3>1, AbsentAssumption DEF TelemetrySink, Target
      <4>2. Cached(secrets[Sink.target.secret]) \in SecretObject \cup {Absent}
        BY <4>1, StoreEnds
      <4>3. RetrieveBasicAuthSecret(Cached(secrets[Sink.target.secret])) = "ok"
        BY <2>2, <3>1 DEF ReadSecret
      <4>4. Cached(secrets[Sink.target.secret]) # Absent
        BY <4>3 DEF RetrieveBasicAuthSecret
      <4>. QED  BY <3>1, <4>2, <4>4
    <3>. QED  BY <3>1
  <2>4. SinkVectorConfig(Sink, outcome, Secret(outcome))
          \in SinkConfig \cup {Absent}
    BY <2>1, <2>3, SinkVectorConfigType
  <2>5. draft' \in Configuration
    <3>. DEFINE entry == SinkVectorConfig(Sink, outcome, Secret(outcome))
    <3>1. entry \in SinkConfig \cup {Absent} /\ Sink.name \in SinkNames
      BY <2>1, <2>4 DEF TelemetrySink
    <3>2. draft' = [draft EXCEPT !.sinks[Sink.name] = entry]
      BY <2>2
    <3>. HIDE DEF entry
    <3>. QED  BY <3>1, <3>2 DEF Configuration
  <2>6. spent' \in Budget
    BY <2>2, ReadSecretType
  <2>. QED  BY <1>7, <2>5, <2>6 DEF ConfigureSink, stores
<1>8. CASE Panic
  BY <1>8, ForgetRequestType DEF Panic, Requeue, stores
<1>9. CASE CreateOrUpdate
  <2>1. obj.uid \in UIDs
    BY <1>9 DEF CreateOrUpdate, ExportPolicy
  <2>2. configs' \in [UIDs -> Logs(Configuration)]
    BY <1>9, <2>1, PutConfigTypes DEF CreateOrUpdate
  <2>3. ForgetRequest /\ queue' \subseteq Policies
    BY <1>9 DEF CreateOrUpdate, Return, Requeue
  <2>. QED  BY <1>9, <2>2, <2>3, ForgetRequestType DEF CreateOrUpdate
<1>10. CASE Conflict
  BY <1>10, ForgetRequestType DEF Conflict, Requeue, stores
<1>11. CASE CallFails
  BY <1>11, ForgetRequestType, SpendType DEF CallFails, Requeue, stores
<1>12. CASE ReplyLost
  <2>1. obj \in ExportPolicy /\ obj.uid \in UIDs /\ key \in Policies
    BY <1>12 DEF ReplyLost, ExportPolicy
  <2>2. policies' \in [Policies -> Logs(ExportPolicy)]
    BY <1>12, <2>1, PutPolicyTypes, NewStatusType DEF ReplyLost, PutStatus
  <2>3. configs' \in [UIDs -> Logs(Configuration)]
    BY <1>12, <2>1, DeleteConfigTypes, PutConfigTypes DEF ReplyLost
  <2>4. spent' \in Budget
    BY <1>12, SpendType DEF ReplyLost
  <2>. QED  BY <1>12, <2>1, <2>2, <2>3, <2>4, ForgetRequestType DEF ReplyLost, Requeue
<1>. QED
  BY <1>1, <1>2, <1>3, <1>4, <1>5, <1>6, <1>7, <1>8, <1>9, <1>10, <1>11, <1>12
  DEF Reconcile

LEMMA NextTypes ==
  ASSUME Types, [Next]_vars
  PROVE  Types'
<1>. USE DEF Types, TypeOK, WorkerOK
<1>1. ASSUME NEW p \in Policies, Dequeue(p) PROVE Types'
  BY <1>1 DEF Dequeue, stores
<1>2. CASE Crash
  <2>1. spent' \in Budget
    BY <1>2, SpendType DEF Crash
  <2>. QED  BY <1>2, <2>1, ForgetRequestType DEF Crash, stores
<1>3. CASE UNCHANGED vars
  BY <1>3 DEF vars, stores, request
<1>. QED
  BY <1>1, <1>2, <1>3, UserTypes, InformerTypes, ReconcileTypes DEF Next

\* Every variable of the controller keeps its type, and a step of Reconcile
\* never works without a request and a copy of a policy.
THEOREM TypeCorrect == Spec => []TypeOK
<1>1. Init => Types
  BY InitTypes
<1>2. Types /\ [Next]_vars => Types'
  BY NextTypes
<1>3. Types => TypeOK
  BY DEF Types
<1>. QED  BY <1>1, <1>2, <1>3, PTL DEF Spec
=============================================================================
