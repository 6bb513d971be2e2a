----------------------- MODULE ExportPolicyStatusProofs -----------------------
(***************************************************************************)
(* The status of a policy covers the spec it claims to have observed, and  *)
(* nothing is deployed for a spec whose status has not been reported.      *)
(***************************************************************************)
EXTENDS ExportPolicySafetyProofs

-----------------------------------------------------------------------------
(* The names of the sinks of a spec *)

\* A spec has as many names as sinks.
LEMMA DistinctNames ==
  ASSUME NEW spec \in Specs
  PROVE  /\ Len(spec.sinks) \in Nat
         /\ SinkNamesOf(spec) = FirstNames(spec, Len(spec.sinks))
         /\ Cardinality(SinkNamesOf(spec)) = Len(spec.sinks)
<1>. DEFINE n == Len(spec.sinks)
            name == [i \in 1 .. n |-> spec.sinks[i].name]
            names == FirstNames(spec, n)
<1>1. /\ spec.sinks \in Seq(TelemetrySink)
      /\ \A i, j \in DOMAIN spec.sinks :
           spec.sinks[i].name = spec.sinks[j].name => i = j
  BY InputAssumption DEF ExportPolicySpec
<1>2. n \in Nat /\ DOMAIN spec.sinks = 1 .. n
  BY <1>1
<1>3. SinkNamesOf(spec) = names
  BY <1>2 DEF SinkNamesOf, SinksOf, FirstNames
<1>4. name \in Bijection(1 .. n, names)
  BY <1>1, <1>2 DEF Bijection, Injection, IsInjective, Surjection, FirstNames
<1>5. IsFiniteSet(1 .. n) /\ Cardinality(1 .. n) = n
  BY <1>2, FS_Interval
<1>6. Cardinality(names) = n
  BY <1>4, <1>5, FS_Bijection DEF ExistsBijection
<1>. QED  BY <1>2, <1>3, <1>6

\* The loop lists one name more for each sink it leaves behind.
LEMMA NextName ==
  ASSUME NEW spec, NEW n \in Nat
  PROVE  FirstNames(spec, n + 1) = FirstNames(spec, n) \cup {spec.sinks[n + 1].name}
<1>1. 1 .. n + 1 = (1 .. n) \cup {n + 1}
  OBVIOUS
<1>. QED  BY <1>1 DEF FirstNames

-----------------------------------------------------------------------------
(* Versions of a policy *)

AllStatusOK(log) == \A i \in Versions(log) : StatusOK(log[i])

\* A version with the same spec and status covers it as well.
LEMMA SameStatus ==
  ASSUME NEW old, NEW new, StatusOK(old),
         new.status = old.status, new.spec = old.spec,
         new.generation = old.generation
  PROVE  StatusOK(new)
BY DEF StatusOK, Covers

\* A status is never of a generation that is only just made.
LEMMA NextGeneration ==
  ASSUME NEW old \in ExportPolicy, NEW new, StatusOK(old),
         new.status = old.status, new.generation = old.generation + 1
  PROVE  StatusOK(new)
<1>1. old.generation \in Nat /\ old.status.ready.gen \in Nat
  BY DEF ExportPolicy, Status, ReadyCondition
<1>. QED  BY <1>1 DEF StatusOK

LEMMA VersionFieldsOfUser ==
  ASSUME NEW policy \in ExportPolicy, NEW spec
  PROVE  /\ LET edited == [policy EXCEPT !.spec = spec, !.generation = @ + 1,
                                         !.rv = @ + 1] IN
            /\ edited.status = policy.status
            /\ edited.generation = policy.generation + 1
         /\ LET marked == [policy EXCEPT !.deleting = TRUE,
                                         !.generation = @ + 1, !.rv = @ + 1] IN
            /\ marked.status = policy.status
            /\ marked.generation = policy.generation + 1
BY DEF ExportPolicy

LEMMA AllStatusOKAppend ==
  ASSUME NEW log \in Seq(PolicyOrAbsent), AllStatusOK(log), NEW v,
         v # Absent => StatusOK(v)
  PROVE  AllStatusOK(Append(log, v))
<1>1. \A i \in Versions(Append(log, v)) :
        \/ i \in Versions(log) /\ Append(log, v)[i] = log[i]
        \/ v # Absent /\ Append(log, v)[i] = v
  BY DEF Versions
<1>. QED  BY <1>1 DEF AllStatusOK

LEMMA AllStatusOKTail ==
  ASSUME NEW log \in Seq(PolicyOrAbsent), Len(log) > 0, ~UpToDate(log),
         AllStatusOK(log)
  PROVE  AllStatusOK(Tail(log))
<1>1. \A i \in Versions(Tail(log)) : /\ i + 1 \in Versions(log)
                                     /\ Tail(log)[i] = log[i + 1]
  BY LogTail DEF Versions
<1>. QED  BY <1>1 DEF AllStatusOK

-----------------------------------------------------------------------------
(* The steps *)

LogsCover == \A p \in Policies : AllStatusOK(policies[p])

RequestCovers ==
  /\ pc \notin {"idle", "get"} => StatusOK(obj)
  /\ LoopOK
  /\ pc = "config" => obj.status.ready.gen = obj.generation

LEMMA StatusInvariantParts == StatusInvariant <=> LogsCover /\ RequestCovers
BY DEF StatusInvariant, LogsCover, RequestCovers, AllStatusOK

\* A policy is written whose status covers what it claims to.
LEMMA WriteCovers ==
  ASSUME TypeOK, LogsCover, NEW p \in Policies, NEW v \in PolicyOrAbsent,
         policies' = [policies EXCEPT ![p] = Write(@, v)],
         v # Absent => StatusOK(v)
  PROVE  LogsCover'
<1>1. policies[p] \in Seq(PolicyOrAbsent)
  BY DEF TypeOK, Logs, PolicyOrAbsent
<1>2. AllStatusOK(Append(policies[p], v))
  BY <1>1, AllStatusOKAppend DEF LogsCover
<1>3. \A q \in Policies : policies'[q] = IF q = p THEN Append(policies[p], v)
                                         ELSE policies[q]
  BY DEF TypeOK, Write
<1>. QED  BY <1>2, <1>3 DEF LogsCover

LEMMA ForgetCovers ==
  ASSUME ForgetRequest
  PROVE  RequestCovers'
BY DEF ForgetRequest, RequestCovers, LoopOK

LEMMA FrameCovers ==
  ASSUME RequestCovers, UNCHANGED request
  PROVE  RequestCovers'
BY DEF request, RequestCovers, LoopOK

LEMMA UserCovers ==
  ASSUME Types, LogsCover, RequestCovers, User
  PROVE  LogsCover' /\ RequestCovers'
<1>1. ASSUME NEW p \in Policies, NEW u \in UIDs, NEW spec \in Specs,
             CreatePolicy(p, u, spec)
      PROVE  LogsCover' /\ RequestCovers'
  <2>. DEFINE new == [uid |-> u, rv |-> 1, generation |-> 1, spec |-> spec,
                      finalizer |-> FALSE, deleting |-> FALSE,
                      status |-> NoStatus]
  <2>1. new \in PolicyOrAbsent
    BY NoStatusType DEF ExportPolicy, PolicyOrAbsent
  <2>2. StatusOK(new)
    BY DEF StatusOK, NoStatus
  <2>3. policies' = [policies EXCEPT ![p] = Write(@, new)]
    BY <1>1 DEF CreatePolicy
  <2>. HIDE DEF new
  <2>. QED  BY <1>1, <2>1, <2>2, <2>3, WriteCovers, FrameCovers
            DEF CreatePolicy, Types
<1>2. ASSUME NEW p \in Policies, NEW spec \in Specs, UpdateSpec(p, spec)
      PROVE  LogsCover' /\ RequestCovers'
  <2>. DEFINE stored == StoredPolicy(p)
              new == [stored EXCEPT !.spec = spec, !.generation = @ + 1,
                                    !.rv = @ + 1]
  <2>1. stored \in ExportPolicy /\ StatusOK(stored)
    BY <1>2, StoredIsVersion
    DEF UpdateSpec, Types, LogsCover, AllStatusOK, Exists, StoredPolicy
  <2>2. new \in PolicyOrAbsent
    BY <2>1, PolicyVersions DEF PolicyOrAbsent
  <2>3. new.status = stored.status /\ new.generation = stored.generation + 1
    BY <2>1, VersionFieldsOfUser
  <2>4. policies' = [policies EXCEPT ![p] = Write(@, new)]
    BY <1>2 DEF UpdateSpec, StoredPolicy
  <2>. HIDE DEF new, stored
  <2>5. StatusOK(new)
    BY <2>1, <2>3, NextGeneration
  <2>. QED  BY <1>2, <2>2, <2>4, <2>5, WriteCovers, FrameCovers
            DEF UpdateSpec, Types
<1>3. ASSUME NEW p \in Policies, DeletePolicy(p)
      PROVE  LogsCover' /\ RequestCovers'
  <2>. DEFINE stored == StoredPolicy(p)
              marked == [stored EXCEPT !.deleting = TRUE,
                                       !.generation = @ + 1, !.rv = @ + 1]
              new == IF stored.finalizer THEN marked ELSE Absent
  <2>1. stored \in ExportPolicy /\ StatusOK(stored)
    BY <1>3, StoredIsVersion
    DEF DeletePolicy, Types, LogsCover, AllStatusOK, Exists, StoredPolicy
  <2>2. marked \in ExportPolicy
    BY <2>1, PolicyVersions
  <2>3. StatusOK(marked)
    <3>1. /\ marked.status = stored.status
          /\ marked.generation = stored.generation + 1
      BY <2>1, VersionFieldsOfUser
    <3>. HIDE DEF marked, stored
    <3>. QED  BY <2>1, <3>1, NextGeneration
  <2>4. policies' = [policies EXCEPT ![p] = Write(@, new)]
    BY <1>3 DEF DeletePolicy, StoredPolicy
  <2>. HIDE DEF marked
  <2>5. new \in PolicyOrAbsent /\ (new # Absent => StatusOK(new))
    BY <2>2, <2>3 DEF PolicyOrAbsent
  <2>. HIDE DEF new
  <2>. QED  BY <1>3, <2>4, <2>5, WriteCovers, FrameCovers
            DEF DeletePolicy, Types
<1>4. ASSUME NEW s \in Secrets, NEW v, WriteSecret(s, v)
      PROVE  LogsCover' /\ RequestCovers'
  BY <1>4, FrameCovers DEF WriteSecret, LogsCover
<1>5. ASSUME NEW u \in UIDs, NEW v, Drift(u, v)
      PROVE  LogsCover' /\ RequestCovers'
  BY <1>5, FrameCovers DEF Drift, LogsCover
<1>. QED  BY <1>1, <1>2, <1>3, <1>4, <1>5 DEF User

LEMMA InformerCovers ==
  ASSUME Types, LogsCover, RequestCovers, Informer
  PROVE  LogsCover' /\ RequestCovers'
<1>1. ASSUME NEW p \in Policies, DeliverPolicy(p)
      PROVE  LogsCover' /\ RequestCovers'
  <2>1. policies[p] \in Seq(PolicyOrAbsent) /\ Len(policies[p]) > 0
    BY DEF Types, TypeOK, Logs, PolicyOrAbsent
  <2>2. AllStatusOK(Tail(policies[p]))
    BY <1>1, <2>1, AllStatusOKTail DEF DeliverPolicy, LogsCover
  <2>3. \A q \in Policies : policies'[q] = IF q = p THEN Tail(policies[p])
                                           ELSE policies[q]
    BY <1>1 DEF DeliverPolicy, Types, TypeOK
  <2>. QED  BY <1>1, <2>2, <2>3, FrameCovers DEF DeliverPolicy, LogsCover
<1>2. CASE UNCHANGED <<policies, request>>
  BY <1>2, FrameCovers DEF LogsCover
<1>. QED
  BY <1>1, <1>2
  DEF Informer, Resync, DeliverSecret, MapSecret, MapSecretFails,
      DeliverConfig, stores

\* The write of a copy of the policy the reconciler works on.
LEMMA PutCovers ==
  ASSUME Types, LogsCover, pc # "idle",
         NEW copy \in ExportPolicy, StatusOK(copy), PutPolicy(copy)
  PROVE  LogsCover'
<1>. DEFINE next == [copy EXCEPT !.rv = @ + 1]
            put == IF copy.deleting /\ ~copy.finalizer THEN Absent ELSE next
<1>1. key \in Policies
  BY DEF Types, WorkerOK
<1>2. /\ put \in PolicyOrAbsent
      /\ policies' = [policies EXCEPT ![key] = Write(@, put)]
  BY <1>1, PutPolicyTypes DEF Types, TypeOK, PolicyOrAbsent
<1>3. StatusOK(next)
  <2>1. next.status = copy.status
    BY DEF ExportPolicy
  <2>. QED  BY <2>1, StoredCopyFields, SameStatus
<1>. HIDE DEF next
<1>4. put # Absent => StatusOK(put)
  BY <1>3
<1>. HIDE DEF put
<1>. QED  BY <1>1, <1>2, <1>4, WriteCovers DEF Types

\* When the loop is through, the new status covers the spec.
LEMMA NewStatusCovers ==
  ASSUME Types, RequestCovers, pc = "status", ~MoreSinks
  PROVE  StatusOK([obj EXCEPT !.status = NewStatus])
<1>. DEFINE new == [obj EXCEPT !.status = NewStatus]
            listed == {name \in SinkNames : found[name] # "missing"}
            n == Len(obj.spec.sinks)
<1>1. obj \in ExportPolicy /\ cursor \in Nat \ {0} /\ obj.spec \in Specs
  BY DEF Types, TypeOK, WorkerOK, ExportPolicy
<1>2. /\ new.spec = obj.spec /\ new.generation = obj.generation
      /\ new.status = NewStatus
      /\ obj.generation \in Nat
  BY <1>1 DEF ExportPolicy
<1>3. /\ n \in Nat
      /\ SinkNamesOf(obj.spec) = FirstNames(obj.spec, n)
      /\ Cardinality(SinkNamesOf(obj.spec)) = n
  BY <1>1, DistinctNames
<1>4. cursor - 1 = n
  BY <1>1, <1>3 DEF RequestCovers, LoopOK, MoreSinks
<1>5. listed = SinkNamesOf(obj.spec)
  BY <1>3, <1>4 DEF RequestCovers, LoopOK
<1>. HIDE DEF new
<1>6. /\ new.status.sinks = found
      /\ new.status.ready.gen = obj.generation
      /\ new.status.ready.total = Cardinality(listed)
      /\ new.status.ready.accepted =
           Cardinality({name \in SinkNames : found[name] = "accepted"})
  BY <1>2 DEF NewStatus, ReadyFor
<1>7. {name \in SinkNames : new.status.sinks[name] # "missing"}
        = SinkNamesOf(new.spec)
  BY <1>2, <1>5, <1>6
<1>8. /\ new.status.ready.total = Len(new.spec.sinks)
      /\ new.status.ready.accepted =
           Cardinality({name \in SinkNames : new.status.sinks[name] = "accepted"})
      /\ new.status.ready.gen <= new.generation
  <2>1. {name \in SinkNames : new.status.sinks[name] = "accepted"}
          = {name \in SinkNames : found[name] = "accepted"}
    BY <1>6
  <2>2. new.status.ready.total = Len(new.spec.sinks)
    BY <1>2, <1>3, <1>5, <1>6
  <2>3. new.status.ready.gen <= new.generation
    BY <1>2, <1>6
  <2>. QED  BY <1>6, <2>1, <2>2, <2>3
<1>9. StatusOK(new)
  BY <1>7, <1>8 DEF StatusOK, Covers
<1>. QED  BY <1>9 DEF new

LEMMA PutStatusCovers ==
  ASSUME Types, LogsCover, RequestCovers, pc = "status", ~MoreSinks, PutStatus
  PROVE  LogsCover'
<1>1. obj \in ExportPolicy
  BY DEF Types, WorkerOK
<1>. QED  BY <1>1, NewStatusType, NewStatusCovers, PutCovers DEF PutStatus

\* An iteration lists a status for its sink.
LEMMA ValidateSinkCovers ==
  ASSUME Types, RequestCovers, ValidateSink
  PROVE  LoopOK'
<1>. DEFINE done == cursor - 1
<1>1. /\ Sink \in TelemetrySink /\ obj \in ExportPolicy
      /\ cursor \in Nat \ {0} /\ found \in [SinkNames -> Condition]
      /\ done \in Nat /\ done + 1 = cursor
      /\ obj.spec \in Specs
  BY SinkType DEF ValidateSink, Types, TypeOK, WorkerOK, ExportPolicy
<1>2. PICK outcome \in SecretError \cup {"ok"} :
        found' = [found EXCEPT ![Sink.name] =
                    SinkCondition(obj.status, Sink, outcome)]
  BY DEF ValidateSink
<1>3. SinkCondition(obj.status, Sink, outcome) # "missing"
  <2>1. Sink.target.kind \in TargetKind
    BY <1>1 DEF TelemetrySink, Target
  <2>. QED  BY <1>2, <2>1
            DEF SinkCondition, GetSinkStatus, SecretError, TargetKind
<1>4. Sink.name \in SinkNames
  BY <1>1 DEF TelemetrySink
<1>5. {n \in SinkNames : found'[n] # "missing"}
        = {n \in SinkNames : found[n] # "missing"} \cup {Sink.name}
  BY <1>1, <1>2, <1>3, <1>4
<1>6. FirstNames(obj.spec, done + 1) = FirstNames(obj.spec, done) \cup {Sink.name}
  BY <1>1, NextName DEF Sink
<1>7. /\ pc = "status" /\ UNCHANGED <<pc, obj>>
      /\ cursor' = cursor + 1
      /\ cursor <= Len(obj.spec.sinks)
  BY DEF ValidateSink, MoreSinks
<1>8. cursor' - 1 = done + 1
  BY <1>1, <1>7
<1>9. {n \in SinkNames : found[n] # "missing"} = FirstNames(obj.spec, done)
  BY <1>7 DEF RequestCovers, LoopOK
<1>. QED  BY <1>1, <1>5, <1>6, <1>7, <1>8, <1>9 DEF LoopOK

LEMMA ReconcileCovers ==
  ASSUME Types, LogsCover, RequestCovers, Reconcile
  PROVE  LogsCover' /\ RequestCovers'
<1>1. CASE UNCHANGED policies /\ ForgetRequest
  BY <1>1, ForgetCovers DEF LogsCover
<1>2. CASE GetPolicy /\ ~Return
  <2>. DEFINE cached == Cached(policies[key])
  <2>1. key \in Policies /\ UNCHANGED policies
    BY <1>2 DEF GetPolicy, Types, WorkerOK, stores
  <2>2. /\ cached \in ExportPolicy /\ cached = policies[key][1]
        /\ Len(policies[key]) \in Nat \ {0}
        /\ cached # Absent
    BY <1>2, <2>1, StoreEnds DEF GetPolicy, Types, TypeOK
  <2>3. 1 \in Versions(policies[key])
    BY <2>1, <2>2 DEF Versions, Types, TypeOK, Logs
  <2>4. StatusOK(cached)
    BY <2>1, <2>2, <2>3 DEF LogsCover, AllStatusOK
  <2>5. obj' = [cached EXCEPT !.finalizer = TRUE]
    BY <1>2 DEF GetPolicy
  <2>6. StatusOK(obj')
    <3>1. /\ obj'.status = cached.status /\ obj'.spec = cached.spec
          /\ obj'.generation = cached.generation
      BY <2>2, <2>5 DEF ExportPolicy
    <3>. QED  BY <2>4, <3>1, SameStatus
  <2>7. /\ pc = "get" /\ pc' # "config"
        /\ UNCHANGED <<cursor, found>>
    BY <1>2 DEF GetPolicy
  <2>8. LoopOK'
    <3>1. cursor = 1 /\ found = NoSinkStatuses
      BY <2>7 DEF RequestCovers, LoopOK
    <3>2. Len(obj'.spec.sinks) \in Nat
      <4>1. obj'.spec = cached.spec
        BY <2>2, <2>5 DEF ExportPolicy
      <4>. QED  BY <2>2, <4>1, DistinctNames DEF ExportPolicy
    <3>3. {n \in SinkNames : found[n] # "missing"} = {}
      BY <3>1 DEF NoSinkStatuses
    <3>4. FirstNames(obj'.spec, 0) = {}
      BY DEF FirstNames
    <3>. QED  BY <2>7, <3>1, <3>2, <3>3, <3>4 DEF LoopOK
  <2>. QED  BY <2>1, <2>6, <2>7, <2>8 DEF LogsCover, RequestCovers
<1>3. CASE Finalize
  <2>1. /\ obj \in ExportPolicy /\ pc = "finalize" /\ pc' = "update"
        /\ UNCHANGED <<policies, cursor, found>>
        /\ obj' = [obj EXCEPT !.finalizer = FALSE]
    BY <1>3 DEF Finalize, Types, WorkerOK
  <2>2. StatusOK(obj')
    <3>1. /\ obj'.status = obj.status /\ obj'.spec = obj.spec
          /\ obj'.generation = obj.generation
      BY <2>1 DEF ExportPolicy
    <3>. QED  BY <2>1, <3>1, SameStatus DEF RequestCovers
  <2>. QED  BY <2>1, <2>2 DEF LogsCover, RequestCovers, LoopOK
<1>4. CASE UpdatePolicy
  <2>1. obj \in ExportPolicy /\ pc = "update" /\ StatusOK(obj)
    BY <1>4 DEF UpdatePolicy, Types, WorkerOK, RequestCovers
  <2>2. LogsCover'
    BY <1>4, <2>1, PutCovers DEF UpdatePolicy
  <2>3. CASE Return
    BY <2>2, <2>3, ForgetCovers DEF Return
  <2>4. CASE ~Return
    <3>1. /\ obj' = [obj EXCEPT !.rv = @ + 1] /\ pc' = "status"
          /\ UNCHANGED <<cursor, found>>
      BY <1>4, <2>4 DEF UpdatePolicy
    <3>2. /\ obj'.status = obj.status /\ obj'.spec = obj.spec
          /\ obj'.generation = obj.generation
      BY <2>1, <3>1 DEF ExportPolicy
    <3>3. StatusOK(obj')
      BY <2>1, <3>2, SameStatus
    <3>4. Len(obj'.spec.sinks) \in Nat
      BY <2>1, <3>2, DistinctNames DEF ExportPolicy
    <3>5. cursor = 1 /\ found = NoSinkStatuses
      BY <2>1 DEF RequestCovers, LoopOK
    <3>6. /\ {n \in SinkNames : found[n] # "missing"} = {}
          /\ FirstNames(obj'.spec, 0) = {}
      BY <3>5 DEF NoSinkStatuses, FirstNames
    <3>. QED  BY <2>2, <3>1, <3>3, <3>4, <3>5, <3>6 DEF RequestCovers, LoopOK
  <2>. QED  BY <2>3, <2>4
<1>5. CASE ValidateSink
  <2>1. UNCHANGED <<policies, pc, obj>> /\ pc = "status"
    BY <1>5 DEF ValidateSink, stores
  <2>. QED  BY <1>5, <2>1, ValidateSinkCovers DEF LogsCover, RequestCovers
<1>6. CASE UpdateStatus
  BY <1>6, PutStatusCovers, ForgetCovers DEF UpdateStatus, Requeue
<1>7. CASE KeepStatus
  <2>1. /\ pc = "status" /\ pc' = "config" /\ UNCHANGED <<policies, obj>>
        /\ NewStatus.ready = obj.status.ready
    BY <1>7 DEF KeepStatus, StatusChanged, stores
  <2>2. obj.status.ready.gen = obj.generation
    BY <2>1 DEF NewStatus, ReadyFor
  <2>. QED  BY <2>1, <2>2 DEF LogsCover, RequestCovers, LoopOK
<1>8. CASE ConfigureSink
  BY <1>8 DEF ConfigureSink, LogsCover, RequestCovers, LoopOK, stores
<1>9. CASE ReplyLost
  <2>1. ForgetRequest
    BY <1>9 DEF ReplyLost, Requeue
  <2>2. CASE pc = "update"
    BY <1>9, <2>1, <2>2, PutCovers, ForgetCovers
    DEF ReplyLost, RequestCovers, Types, WorkerOK
  <2>3. CASE pc = "status"
    BY <1>9, <2>1, <2>3, PutStatusCovers, ForgetCovers DEF ReplyLost
  <2>. QED  BY <1>1, <1>9, <2>1, <2>2, <2>3 DEF ReplyLost
<1>. QED
  BY <1>1, <1>2, <1>3, <1>4, <1>5, <1>6, <1>7, <1>8, <1>9
  DEF Reconcile, GetPolicy, Panic, CreateOrUpdate, Conflict, CallFails, Return,
      Requeue, stores

LEMMA NextCovers ==
  ASSUME Types, LogsCover, RequestCovers, [Next]_vars
  PROVE  LogsCover' /\ RequestCovers'
<1>1. ASSUME NEW p \in Policies, Dequeue(p)
      PROVE  LogsCover' /\ RequestCovers'
  BY <1>1 DEF Dequeue, stores, LogsCover, RequestCovers, LoopOK
<1>2. CASE Crash
  BY <1>2, ForgetCovers DEF Crash, stores, LogsCover
<1>3. CASE UNCHANGED vars
  BY <1>3, FrameCovers DEF vars, stores, LogsCover
<1>. QED
  BY <1>1, <1>2, <1>3, UserCovers, InformerCovers, ReconcileCovers DEF Next

-----------------------------------------------------------------------------
(* The theorems *)

\* The invariant of the status is inductive, next to the types.
THEOREM StatusInvariantHolds == Spec => []StatusInvariant
<1>. DEFINE Inv == Types /\ StatusInvariant
<1>1. Init => Inv
  <2>. SUFFICES ASSUME Init PROVE LogsCover /\ RequestCovers
    BY InitTypes, StatusInvariantParts
  <2>. QED  BY DEF Init, LogsCover, AllStatusOK, Versions, RequestCovers, LoopOK
<1>2. Inv /\ [Next]_vars => Inv'
  <2>. SUFFICES ASSUME Inv, [Next]_vars PROVE Inv'
    OBVIOUS
  <2>1. LogsCover' /\ RequestCovers'
    BY StatusInvariantParts, NextCovers
  <2>2. StatusInvariant'
    BY <2>1 DEF StatusInvariant, LogsCover, RequestCovers, AllStatusOK, LoopOK
  <2>. QED  BY <2>2, NextTypes
<1>3. Inv => StatusInvariant
  OBVIOUS
<1>. QED  BY <1>1, <1>2, <1>3, PTL DEF Spec

\* However the edits of users, the events and the reconciler's writes follow one
\* another, a Ready condition that names the current generation has counted the
\* sinks of the current spec.
THEOREM ReadyCoversTheSpec == Spec => []ReadyCoversSpec
<1>1. TypeOK /\ StatusInvariant => ReadyCoversSpec
  <2>. SUFFICES ASSUME TypeOK, StatusInvariant, NEW p \in Policies, Exists(p)
                PROVE  StatusOK(StoredPolicy(p))
    BY DEF ReadyCoversSpec, StatusOK
  <2>. QED  BY StoredIsVersion DEF StatusInvariant
<1>. QED  BY <1>1, TypeCorrect, StatusInvariantHolds, PTL

\* A configuration is deployed only by the work on its own policy, and only when
\* the status of that version has been reported.
LEMMA ReconcileExports ==
  ASSUME Types, StatusInvariant, Reconcile, NEW u \in UIDs,
         Stored(configs'[u]) \notin {Stored(configs[u]), Absent}
  PROVE  obj.uid = u /\ obj.status.ready.gen = obj.generation
<1>. USE DEF Types, TypeOK, WorkerOK
<1>1. pc \notin {"idle", "get"} => obj \in ExportPolicy /\ obj.uid \in UIDs
  BY DEF ExportPolicy
<1>2. ASSUME pc = "finalize", DeleteConfig(obj.uid) PROVE FALSE
  BY <1>1, <1>2, DeleteConfigTypes
<1>3. ASSUME pc = "config", PutConfig(obj.uid)
      PROVE  obj.uid = u /\ obj.status.ready.gen = obj.generation
  BY <1>1, <1>3, PutConfigTypes DEF StatusInvariant
<1>4. ASSUME UNCHANGED configs PROVE FALSE
  BY <1>4
<1>. QED
  BY <1>2, <1>3, <1>4
  DEF Reconcile, GetPolicy, Finalize, UpdatePolicy, ValidateSink, UpdateStatus,
      KeepStatus, ConfigureSink, Panic, CreateOrUpdate, Conflict, CallFails,
      ReplyLost, stores

\* The reconciler deploys nothing for a version of a policy whose status it has
\* not reported, whichever of its calls fail or seem to.
THEOREM ReportsBeforeExport == Spec => StatusBeforeExport
<1>1. ASSUME Types, StatusInvariant, [Next]_vars
      PROVE  [Reconcile => \A u \in UIDs :
               Stored(configs'[u]) \notin {Stored(configs[u]), Absent} =>
                 /\ obj.uid = u
                 /\ obj.status.ready.gen = obj.generation]_vars
  BY <1>1, ReconcileExports
<1>2. ControllerInvariant => Types
  BY InvariantParts
<1>. QED
  BY <1>1, <1>2, InvariantHolds, StatusInvariantHolds, PTL
  DEF Spec, StatusBeforeExport
=============================================================================
