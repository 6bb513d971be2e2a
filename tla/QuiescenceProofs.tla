--------------------------- MODULE QuiescenceProofs ---------------------------
(***************************************************************************)
(* When nothing is queued, in flight or undelivered, every policy is what  *)
(* its status says and what is deployed for it.                            *)
(***************************************************************************)
EXTENDS ExportPolicyStatusProofs, Quiescence

-----------------------------------------------------------------------------
(* Names and UIDs *)

\* The UIDs of a policy have been given out.
LEMMA UIDsAreUsed ==
  ASSUME Protocol, NEW p \in Policies
  PROVE  UIDsOf(p) \subseteq usedUIDs
BY DEF Protocol, LogOK, UIDsOf

\* What a step may do to the copy of the reconciler.
CopyMoves ==
  \/ pc' \in {"idle", "get"}
  \/ /\ pc \notin {"idle", "get"} /\ key' = key
     /\ obj'.uid = obj.uid
  \/ /\ key' = key /\ key \in Policies
     /\ obj'.uid \in UIDsOf(key)

\* Only policy p may have got a UID, and that is a new one or was its own.
LEMMA NamesKept ==
  ASSUME Protocol, NamesOwnUIDs, CopyMoves, NEW p \in Policies,
         \A q \in Policies \ {p} : UIDsOf(q)' \subseteq UIDsOf(q),
         UIDsOf(p)' \cap usedUIDs \subseteq UIDsOf(p)
  PROVE  NamesOwnUIDs'
<1>1. \A q \in Policies : UIDsOf(q) \subseteq usedUIDs
  BY UIDsAreUsed
<1>2. \A q, r \in Policies : q # r => UIDsOf(q)' \cap UIDsOf(r)' = {}
  BY <1>1 DEF NamesOwnUIDs
<1>3. ASSUME pc' \notin {"idle", "get"}
      PROVE  \A q \in Policies \ {key'} : obj'.uid \notin UIDsOf(q)'
  <2>1. CASE pc \notin {"idle", "get"} /\ key' = key /\ obj'.uid = obj.uid
    <3>1. obj.uid \in usedUIDs
      BY <2>1 DEF Protocol, CopyOK
    <3>. QED  BY <1>1, <2>1, <3>1 DEF NamesOwnUIDs
  <2>2. CASE key' = key /\ key \in Policies /\ obj'.uid \in UIDsOf(key)
    BY <1>1, <2>2 DEF NamesOwnUIDs
  <2>. QED  BY <1>3, <2>1, <2>2 DEF CopyMoves
<1>. QED  BY <1>2, <1>3 DEF NamesOwnUIDs

\* The versions of a log that is appended to, or delivered from.
LEMMA VersionsAppend ==
  ASSUME NEW log \in Seq(PolicyOrAbsent), NEW v,
         NEW i \in Versions(Append(log, v))
  PROVE  \/ i \in Versions(log) /\ Append(log, v)[i] = log[i]
         \/ v # Absent /\ Append(log, v)[i] = v
BY DEF Versions

LEMMA VersionsTail ==
  ASSUME NEW log \in Seq(PolicyOrAbsent), Len(log) > 0, ~UpToDate(log),
         NEW i \in Versions(Tail(log))
  PROVE  i + 1 \in Versions(log) /\ Tail(log)[i] = log[i + 1]
BY DEF Versions, UpToDate

Owned == NoZombie /\ NamesOwnUIDs

\* A write of a policy that is new, or whose UID was its own.
LEMMA WriteOwned ==
  ASSUME Types, Protocol, Owned, CopyMoves,
         NEW p \in Policies, NEW v \in PolicyOrAbsent,
         policies' = [policies EXCEPT ![p] = Write(@, v)],
         v # Absent => /\ v.deleting => v.finalizer
                       /\ v.uid \notin usedUIDs \/ v.uid \in UIDsOf(p)
  PROVE  Owned'
<1>1. /\ policies[p] \in Seq(PolicyOrAbsent)
      /\ policies'[p] = Append(policies[p], v)
      /\ \A q \in Policies \ {p} : policies'[q] = policies[q]
  BY DEF Types, TypeOK, Logs, PolicyOrAbsent, Write
<1>2. \A i \in Versions(policies'[p]) :
        \/ i \in Versions(policies[p]) /\ policies'[p][i] = policies[p][i]
        \/ v # Absent /\ policies'[p][i] = v
  <2>1. \A i \in Versions(Append(policies[p], v)) :
          \/ /\ i \in Versions(policies[p])
             /\ Append(policies[p], v)[i] = policies[p][i]
          \/ v # Absent /\ Append(policies[p], v)[i] = v
    BY <1>1, VersionsAppend
  <2>. QED  BY <1>1, <2>1
<1>3. NoZombie'
  BY <1>1, <1>2 DEF Owned, NoZombie
<1>4. UIDsOf(p)' \cap usedUIDs \subseteq UIDsOf(p)
  BY <1>2 DEF UIDsOf
<1>5. \A q \in Policies \ {p} : UIDsOf(q)' \subseteq UIDsOf(q)
  BY <1>1 DEF UIDsOf
<1>. QED  BY <1>3, <1>4, <1>5, NamesKept DEF Owned

\* A step that writes no policy, but may deliver one.
LEMMA FrameOwned ==
  ASSUME Types, Protocol, Owned, CopyMoves,
         \/ UNCHANGED policies
         \/ \E p \in Policies : DeliverPolicy(p)
  PROVE  Owned'
<1>1. \A q \in Policies : \A i \in Versions(policies'[q]) :
        \E j \in Versions(policies[q]) : policies'[q][i] = policies[q][j]
  <2>1. CASE UNCHANGED policies
    BY <2>1
  <2>2. ASSUME NEW p \in Policies, DeliverPolicy(p), NEW q \in Policies,
               NEW i \in Versions(policies'[q])
        PROVE  \E j \in Versions(policies[q]) : policies'[q][i] = policies[q][j]
    <3>1. /\ policies[p] \in Seq(PolicyOrAbsent) /\ Len(policies[p]) > 0
          /\ ~UpToDate(policies[p])
          /\ policies'[q] = IF q = p THEN Tail(policies[p]) ELSE policies[q]
      BY <2>2 DEF Types, TypeOK, Logs, PolicyOrAbsent, DeliverPolicy
    <3>2. \A k \in Versions(Tail(policies[p])) :
            k + 1 \in Versions(policies[p]) /\ Tail(policies[p])[k] = policies[p][k + 1]
      BY <3>1, VersionsTail
    <3>. QED  BY <2>2, <3>1, <3>2
  <2>. QED  BY <2>1, <2>2
<1>2. NoZombie'
  BY <1>1 DEF Owned, NoZombie
<1>3. \A q \in Policies : UIDsOf(q)' \subseteq UIDsOf(q)
  BY <1>1 DEF UIDsOf
<1>4. NamesOwnUIDs'
  <2>1. CASE Policies = {}
    <3>1. (key' = key /\ obj'.uid = obj.uid) \/ pc' \in {"idle", "get"}
      BY <2>1 DEF CopyMoves
    <3>. QED  BY <2>1, <3>1 DEF NamesOwnUIDs
  <2>2. CASE Policies # {}
    BY <1>3, <2>2, NamesKept DEF Owned
  <2>. QED  BY <2>1, <2>2
<1>. QED  BY <1>2, <1>4 DEF Owned

LEMMA StoredUID ==
  ASSUME TypeOK, NEW p \in Policies, Exists(p)
  PROVE  /\ StoredPolicy(p).uid \in UIDsOf(p)
         /\ NoZombie => (StoredPolicy(p).deleting => StoredPolicy(p).finalizer)
BY StoredIsVersion DEF UIDsOf, NoZombie

LEMMA UserOwned ==
  ASSUME Types, Protocol, Owned, User
  PROVE  Owned'
<1>1. ASSUME NEW p \in Policies, NEW u \in UIDs, NEW spec \in Specs,
             CreatePolicy(p, u, spec)
      PROVE  Owned'
  <2>. DEFINE new == [uid |-> u, rv |-> 1, generation |-> 1, spec |-> spec,
                      finalizer |-> FALSE, deleting |-> FALSE,
                      status |-> NoStatus]
  <2>1. new \in PolicyOrAbsent /\ new.uid = u /\ ~new.deleting
    BY NoStatusType DEF ExportPolicy, PolicyOrAbsent
  <2>2. policies' = [policies EXCEPT ![p] = Write(@, new)]
    BY <1>1 DEF CreatePolicy
  <2>3. CopyMoves /\ u \notin usedUIDs
    BY <1>1 DEF CreatePolicy, CopyMoves, request
  <2>. HIDE DEF new
  <2>. QED  BY <2>1, <2>2, <2>3, WriteOwned
<1>2. ASSUME NEW p \in Policies, NEW spec \in Specs, UpdateSpec(p, spec)
      PROVE  Owned'
  <2>. DEFINE stored == StoredPolicy(p)
              new == [stored EXCEPT !.spec = spec, !.generation = @ + 1,
                                    !.rv = @ + 1]
  <2>1. Exists(p) /\ stored \in ExportPolicy
    BY <1>2, StoredIsVersion DEF UpdateSpec, Exists, StoredPolicy, Types
  <2>2. /\ new \in PolicyOrAbsent /\ new.uid = stored.uid
        /\ new.deleting = stored.deleting /\ new.finalizer = stored.finalizer
    BY <2>1, PolicyVersions, PolicyVersionFields DEF PolicyOrAbsent
  <2>3. policies' = [policies EXCEPT ![p] = Write(@, new)]
    BY <1>2 DEF UpdateSpec, StoredPolicy
  <2>4. CopyMoves
    BY <1>2 DEF UpdateSpec, CopyMoves, request
  <2>. HIDE DEF new, stored
  <2>5. stored.uid \in UIDsOf(p) /\ (stored.deleting => stored.finalizer)
    BY <2>1, StoredUID DEF stored, Types, Owned
  <2>. QED  BY <2>2, <2>3, <2>4, <2>5, WriteOwned
<1>3. ASSUME NEW p \in Policies, DeletePolicy(p)
      PROVE  Owned'
  <2>. DEFINE stored == StoredPolicy(p)
              marked == [stored EXCEPT !.deleting = TRUE,
                                       !.generation = @ + 1, !.rv = @ + 1]
              new == IF stored.finalizer THEN marked ELSE Absent
  <2>1. Exists(p) /\ stored \in ExportPolicy
    BY <1>3, StoredIsVersion DEF DeletePolicy, Exists, StoredPolicy, Types
  <2>2. /\ marked \in ExportPolicy /\ marked.uid = stored.uid
        /\ marked.finalizer = stored.finalizer
    BY <2>1, PolicyVersions, PolicyVersionFields
  <2>3. policies' = [policies EXCEPT ![p] = Write(@, new)]
    BY <1>3 DEF DeletePolicy, StoredPolicy
  <2>4. CopyMoves
    BY <1>3 DEF DeletePolicy, CopyMoves, request
  <2>5. stored.uid \in UIDsOf(p)
    BY <2>1, StoredUID DEF Types
  <2>. HIDE DEF marked, stored
  <2>6. /\ new \in PolicyOrAbsent
        /\ new # Absent => /\ new.finalizer
                           /\ new.uid \in UIDsOf(p)
    BY <2>2, <2>5 DEF PolicyOrAbsent
  <2>. HIDE DEF new
  <2>. QED  BY <2>3, <2>4, <2>6, WriteOwned
<1>4. CASE UNCHANGED <<policies, request>>
  BY <1>4, FrameOwned DEF CopyMoves, request
<1>. QED  BY <1>1, <1>2, <1>3, <1>4 DEF User, WriteSecret, Drift

LEMMA InformerOwned ==
  ASSUME Types, Protocol, Owned, Informer
  PROVE  Owned'
<1>1. UNCHANGED request
  BY DEF Informer, DeliverPolicy, Resync, DeliverSecret, MapSecret,
         MapSecretFails, DeliverConfig
<1>2. CopyMoves
  BY <1>1 DEF CopyMoves, request
<1>3. UNCHANGED policies \/ \E p \in Policies : DeliverPolicy(p)
  BY DEF Informer, Resync, DeliverSecret, MapSecret, MapSecretFails,
         DeliverConfig, stores
<1>. QED  BY <1>2, <1>3, FrameOwned

\* The reconciler writes only where its copy is of the stored version.
LEMMA PutOwned ==
  ASSUME Types, Protocol, Owned, CopyMoves, pc \notin {"idle", "get"},
         NEW copy \in ExportPolicy, NoConflict(copy), PutPolicy(copy)
  PROVE  Owned'
<1>. DEFINE next == [copy EXCEPT !.rv = @ + 1]
            put == IF copy.deleting /\ ~copy.finalizer THEN Absent ELSE next
<1>1. key \in Policies /\ Exists(key) /\ StoredPolicy(key).uid = copy.uid
  BY DEF Types, WorkerOK, NoConflict, Exists, StoredPolicy
<1>2. copy.uid \in UIDsOf(key)
  BY <1>1, StoredUID DEF Types
<1>3. /\ next \in ExportPolicy /\ next.uid = copy.uid
      /\ next.deleting = copy.deleting /\ next.finalizer = copy.finalizer
  BY PolicyVersions, StoredCopyFields
<1>4. policies' = [policies EXCEPT ![key] = Write(@, put)]
  BY DEF PutPolicy
<1>. HIDE DEF next
<1>5. /\ put \in PolicyOrAbsent
      /\ put # Absent => /\ put.deleting => put.finalizer
                         /\ put.uid \in UIDsOf(key)
  BY <1>2, <1>3 DEF PolicyOrAbsent
<1>. HIDE DEF put
<1>. QED  BY <1>1, <1>4, <1>5, WriteOwned

LEMMA ReconcileOwned ==
  ASSUME Types, Protocol, Owned, Reconcile
  PROVE  Owned'
<1>1. CASE UNCHANGED policies /\ CopyMoves
  BY <1>1, FrameOwned
<1>2. CASE GetPolicy
  <2>. DEFINE cached == Cached(policies[key])
  <2>1. key \in Policies /\ UNCHANGED policies
    BY <1>2 DEF GetPolicy, Types, WorkerOK, stores
  <2>2. CASE Return
    BY <1>1, <2>1, <2>2 DEF Return, ForgetRequest, CopyMoves
  <2>3. CASE ~Return
    <3>1. /\ cached \in ExportPolicy /\ cached = policies[key][1]
          /\ cached # Absent /\ key' = key
          /\ obj' = [cached EXCEPT !.finalizer = TRUE]
      BY <1>2, <2>1, <2>3, StoreEnds DEF GetPolicy, Types, TypeOK
    <3>2. 1 \in Versions(policies[key])
      BY <2>1, <3>1 DEF Versions, Types, TypeOK, Logs
    <3>3. obj'.uid = cached.uid
      BY <3>1 DEF ExportPolicy
    <3>4. obj'.uid \in UIDsOf(key)
      BY <3>1, <3>2, <3>3 DEF UIDsOf
    <3>. QED  BY <1>1, <2>1, <3>1, <3>4 DEF CopyMoves
  <2>. QED  BY <2>2, <2>3
<1>3. CASE Finalize
  <2>1. obj \in ExportPolicy
    BY <1>3 DEF Finalize, Types, WorkerOK
  <2>2. obj'.uid = obj.uid
    BY <1>3, <2>1 DEF Finalize, ExportPolicy
  <2>. QED  BY <1>1, <1>3, <2>2 DEF Finalize, CopyMoves
<1>4. CASE UpdatePolicy
  <2>1. obj \in ExportPolicy
    BY <1>4 DEF UpdatePolicy, Types, WorkerOK
  <2>2. [obj EXCEPT !.rv = @ + 1].uid = obj.uid
    BY <2>1 DEF ExportPolicy
  <2>3. CopyMoves
    BY <1>4, <2>2 DEF UpdatePolicy, CopyMoves, Return, ForgetRequest
  <2>. QED  BY <1>4, <2>1, <2>3, PutOwned DEF UpdatePolicy
<1>5. ASSUME pc = "status", NoConflict(obj), PutStatus, pc' = "idle"
      PROVE  Owned'
  <2>. DEFINE copy == [obj EXCEPT !.status = NewStatus]
  <2>1. obj \in ExportPolicy
    BY <1>5 DEF Types, WorkerOK
  <2>2. copy \in ExportPolicy /\ copy.uid = obj.uid /\ copy.rv = obj.rv
    BY <2>1, NewStatusType DEF ExportPolicy
  <2>3. PutPolicy(copy)
    BY <1>5 DEF PutStatus
  <2>. HIDE DEF copy
  <2>4. NoConflict(copy)
    BY <1>5, <2>2 DEF NoConflict
  <2>. QED  BY <1>5, <2>2, <2>3, <2>4, PutOwned DEF CopyMoves
<1>6. CASE UpdateStatus
  BY <1>5, <1>6 DEF UpdateStatus, Requeue, ForgetRequest
<1>7. CASE ReplyLost
  <2>1. pc' = "idle" /\ CopyMoves
    BY <1>7 DEF ReplyLost, Requeue, ForgetRequest, CopyMoves
  <2>2. \/ UNCHANGED policies
        \/ pc = "update" /\ NoConflict(obj) /\ PutPolicy(obj)
        \/ pc = "status" /\ NoConflict(obj) /\ PutStatus
    BY <1>7 DEF ReplyLost
  <2>3. pc = "update" => obj \in ExportPolicy
    BY DEF Types, WorkerOK
  <2>. QED  BY <1>1, <1>5, <2>1, <2>2, <2>3, PutOwned
<1>8. CASE KeepStatus \/ ConfigureSink \/ ValidateSink
  <2>1. UNCHANGED <<policies, key, obj>> /\ pc \notin {"idle", "get"}
    BY <1>8 DEF KeepStatus, ConfigureSink, ValidateSink, stores
  <2>. QED  BY <1>1, <2>1 DEF CopyMoves
<1>9. CASE Panic \/ CreateOrUpdate \/ Conflict \/ CallFails
  <2>1. UNCHANGED policies /\ pc' = "idle"
    BY <1>9 DEF Panic, CreateOrUpdate, Conflict, CallFails, Return, Requeue,
                ForgetRequest, stores
  <2>. QED  BY <1>1, <2>1 DEF CopyMoves
<1>. QED
  BY <1>2, <1>3, <1>4, <1>6, <1>7, <1>8, <1>9 DEF Reconcile

LEMMA NextOwned ==
  ASSUME Types, Protocol, Owned, [Next]_vars
  PROVE  Owned'
<1>1. CASE /\ UNCHANGED policies
           /\ pc' \in {"idle", "get"} \/ UNCHANGED <<pc, key, obj>>
  BY <1>1, FrameOwned DEF CopyMoves
<1>. QED
  BY <1>1, UserOwned, InformerOwned, ReconcileOwned
  DEF Next, Dequeue, Crash, ForgetRequest, vars, stores, request

-----------------------------------------------------------------------------
(* What is wanted, for any Secrets *)

ExportableBy(vault, sink) ==
  \/ sink.target.kind = "open"
  \/ /\ sink.target.kind = "basicAuth"
     /\ Usable(Stored(vault[sink.target.secret]))

WantedBy(vault, sink) ==
  [inputs     |-> sink.inputs,
   credential |-> IF sink.target.kind = "open" THEN Absent
                  ELSE Stored(vault[sink.target.secret]).credential]

ConfigBy(vault, spec, config) ==
  /\ config # Absent
  /\ config.sources = {n \in SourceNames : spec.sources[n] = "metricExpr"}
  /\ \A sink \in SinksOf(spec) :
       config.sinks[sink.name] =
         IF ExportableBy(vault, sink) THEN WantedBy(vault, sink) ELSE Absent
  /\ \A n \in SinkNames \ SinkNamesOf(spec) : config.sinks[n] = Absent

StatusBy(vault, policy) ==
  LET exportable == {sink \in SinksOf(policy.spec) : ExportableBy(vault, sink)} IN
  /\ policy.status.ready = [accepted |-> Cardinality(exportable),
                            total    |-> Len(policy.spec.sinks),
                            gen      |-> policy.generation]
  /\ \A sink \in SinksOf(policy.spec) :
       policy.status.sinks[sink.name] = "accepted" <=> ExportableBy(vault, sink)

SyncedBy(vault, policy, deployed) ==
  policy # Absent =>
    /\ ~policy.deleting
    /\ StatusBy(vault, policy)
    /\ ConfigBy(vault, policy.spec, Stored(deployed[policy.uid]))

ValidatedBy(vault, copy, n, statuses) ==
  \A i \in DOMAIN copy.spec.sinks :
    LET sink == copy.spec.sinks[i] IN
    (i < n /\ sink.target.kind # "emptyAuth") =>
      (statuses[sink.name] = "accepted" <=> ExportableBy(vault, sink))

ConfiguredBy(vault, copy, n, made) ==
  /\ (\A sink \in SinksOf(copy.spec) : sink.target.kind # "emptyAuth")
       => StatusBy(vault, copy)
  /\ made.sources = {m \in SourceNames : copy.spec.sources[m] = "metricExpr"}
  /\ \A i \in DOMAIN copy.spec.sinks :
       LET sink == copy.spec.sinks[i] IN
       /\ i < n => sink.target.kind # "emptyAuth"
       /\ made.sinks[sink.name] =
            IF i < n /\ ExportableBy(vault, sink) THEN WantedBy(vault, sink)
            ELSE Absent
  /\ \A m \in SinkNames \ SinkNamesOf(copy.spec) : made.sinks[m] = Absent

\* The properties are those of the Secrets, now and after a step.
LEMMA SyncedNow ==
  /\ \A p : Synced(p) <=> SyncedBy(secrets, StoredPolicy(p), configs)
  /\ ValidatedOK <=> ValidatedBy(secrets, obj, cursor, found)
  /\ ConfiguredOK <=> ConfiguredBy(secrets, obj, cursor, draft)
<1>1. \A sink : /\ Exportable(sink) <=> ExportableBy(secrets, sink)
                /\ WantedSink(sink) = WantedBy(secrets, sink)
  BY DEF Exportable, ExportableBy, WantedSink, WantedBy
<1>2. \A policy : StatusMatches(policy) <=> StatusBy(secrets, policy)
  <2>1. \A spec : {sink \in SinksOf(spec) : Exportable(sink)}
                    = {sink \in SinksOf(spec) : ExportableBy(secrets, sink)}
    BY <1>1
  <2>. QED  BY <1>1, <2>1 DEF StatusMatches, StatusBy
<1>3. \A spec, config : ConfigMatches(spec, config) <=> ConfigBy(secrets, spec, config)
  BY <1>1 DEF ConfigMatches, ConfigBy
<1>4. \A p : Synced(p) <=> SyncedBy(secrets, StoredPolicy(p), configs)
  BY <1>2, <1>3 DEF Synced, SyncedBy, Exists
<1>5. ValidatedOK <=> ValidatedBy(secrets, obj, cursor, found)
  BY <1>1 DEF ValidatedOK, ValidatedBy
<1>6. ConfiguredOK <=> ConfiguredBy(secrets, obj, cursor, draft)
  BY <1>1, <1>2 DEF ConfiguredOK, ConfiguredBy
<1>. QED  BY <1>4, <1>5, <1>6

LEMMA SyncedThen ==
  /\ \A p : Synced(p)' <=> SyncedBy(secrets', Stored(policies'[p]), configs')
  /\ ValidatedOK' <=> ValidatedBy(secrets', obj', cursor', found')
  /\ ConfiguredOK' <=> ConfiguredBy(secrets', obj', cursor', draft')
<1>1. \A sink : /\ Exportable(sink)' <=> ExportableBy(secrets', sink)
                /\ WantedSink(sink)' = WantedBy(secrets', sink)
  BY DEF Exportable, ExportableBy, WantedSink, WantedBy
<1>2. \A policy : StatusMatches(policy)' <=> StatusBy(secrets', policy)
  <2>1. \A spec : {sink \in SinksOf(spec) : Exportable(sink)'}
                    = {sink \in SinksOf(spec) : ExportableBy(secrets', sink)}
    BY <1>1
  <2>. QED  BY <1>1, <2>1 DEF StatusMatches, StatusBy
<1>3. \A spec, config : ConfigMatches(spec, config)' <=> ConfigBy(secrets', spec, config)
  BY <1>1 DEF ConfigMatches, ConfigBy
<1>4. \A p : Synced(p)' <=> SyncedBy(secrets', Stored(policies'[p]), configs')
  BY DEF Synced, SyncedBy, Exists, StoredPolicy, StatusMatches, StatusBy,
         ConfigMatches, ConfigBy, Exportable, ExportableBy, WantedSink, WantedBy
<1>5. ValidatedOK' <=> ValidatedBy(secrets', obj', cursor', found')
  BY DEF ValidatedOK, ValidatedBy, Exportable, ExportableBy
<1>6. ConfiguredOK' <=> ConfiguredBy(secrets', obj', cursor', draft')
  BY DEF ConfiguredOK, ConfiguredBy, Exportable, ExportableBy, WantedSink,
         WantedBy, StatusMatches, StatusBy
<1>. QED  BY <1>4, <1>5, <1>6

\* They depend on the Secrets a spec refers to only.
SameSecrets(spec, vault, later) ==
  \A s \in Secrets : ReferencesSecret(spec, s) => Stored(later[s]) = Stored(vault[s])

LEMMA SinksFrame ==
  ASSUME NEW spec \in Specs, NEW vault, NEW later, SameSecrets(spec, vault, later),
         NEW sink \in SinksOf(spec)
  PROVE  /\ ExportableBy(later, sink) <=> ExportableBy(vault, sink)
         /\ ExportableBy(vault, sink) => WantedBy(later, sink) = WantedBy(vault, sink)
<1>1. sink \in TelemetrySink
  BY SpecType DEF SinksOf
<1>2. CASE sink.target.kind = "basicAuth"
  <2>1. sink.target.secret \in Secrets
    BY <1>1, <1>2, AbsentAssumption DEF TelemetrySink, Target
  <2>2. Stored(later[sink.target.secret]) = Stored(vault[sink.target.secret])
    BY <2>1 DEF SameSecrets, ReferencesSecret
  <2>. QED  BY <2>2 DEF ExportableBy, WantedBy
<1>3. CASE sink.target.kind # "basicAuth"
  BY <1>3 DEF ExportableBy, WantedBy
<1>. QED  BY <1>2, <1>3

LEMMA WantedFrame ==
  ASSUME NEW policy \in ExportPolicy, NEW vault, NEW later,
         SameSecrets(policy.spec, vault, later)
  PROVE  /\ StatusBy(later, policy) <=> StatusBy(vault, policy)
         /\ \A config : ConfigBy(later, policy.spec, config)
                          <=> ConfigBy(vault, policy.spec, config)
         /\ \A n, statuses : ValidatedBy(vault, policy, n, statuses)
                               => ValidatedBy(later, policy, n, statuses)
         /\ \A n, made : ConfiguredBy(vault, policy, n, made)
                           => ConfiguredBy(later, policy, n, made)
<1>. DEFINE spec == policy.spec
<1>1. spec \in Specs
  BY DEF ExportPolicy
<1>. HIDE DEF spec
<1>2. SameSecrets(spec, vault, later)
  BY DEF spec
<1>3. \A sink \in SinksOf(spec) :
        /\ ExportableBy(later, sink) <=> ExportableBy(vault, sink)
        /\ ExportableBy(vault, sink) => WantedBy(later, sink) = WantedBy(vault, sink)
  BY <1>1, <1>2, SinksFrame
<1>4. {sink \in SinksOf(spec) : ExportableBy(later, sink)}
        = {sink \in SinksOf(spec) : ExportableBy(vault, sink)}
  BY <1>3
<1>5. StatusBy(later, policy) <=> StatusBy(vault, policy)
  BY <1>3, <1>4 DEF StatusBy, spec
<1>6. \A config : ConfigBy(later, spec, config) <=> ConfigBy(vault, spec, config)
  BY <1>3 DEF ConfigBy
<1>7. \A i \in DOMAIN spec.sinks : spec.sinks[i] \in SinksOf(spec)
  BY DEF SinksOf
<1>8. \A n, statuses : ValidatedBy(vault, policy, n, statuses)
                         => ValidatedBy(later, policy, n, statuses)
  BY <1>3, <1>7 DEF ValidatedBy, spec
<1>9. \A n, made : ConfiguredBy(vault, policy, n, made)
                     => ConfiguredBy(later, policy, n, made)
  BY <1>3, <1>5, <1>7 DEF ConfiguredBy, spec
<1>. QED  BY <1>5, <1>6, <1>8, <1>9 DEF spec

-----------------------------------------------------------------------------
(* The loops over the sinks *)

\* A Secret is of use exactly if retrieveBasicAuthSecret says so.
LEMMA UsableSecret ==
  ASSUME NEW secret \in SecretObject \cup {Absent}
  PROVE  RetrieveBasicAuthSecret(secret) = "ok" <=> Usable(secret)
BY DEF RetrieveBasicAuthSecret, Usable, SecretObject

\* What a reading of a sink's Secret comes to.
Reading(sink, outcome) ==
  IF sink.target.kind = "basicAuth" THEN ReadSecret(sink, outcome)
  ELSE outcome = "ok" /\ UNCHANGED spent

\* With the cache up to date, both loops judge a sink by the stored Secret.
LEMMA JudgeSink ==
  ASSUME Types, Undisturbed, NEW sink \in TelemetrySink,
         sink.target.kind \in {"open", "basicAuth"},
         sink.target.kind = "basicAuth" => UpToDate(secrets[sink.target.secret]),
         NEW outcome, Reading(sink, outcome), NEW status
  PROVE  /\ SinkCondition(status, sink, outcome) = "accepted"
              <=> ExportableBy(secrets, sink)
         /\ SinkVectorConfig(sink, outcome,
              IF outcome = "ok" /\ sink.target.kind = "basicAuth"
                THEN Cached(secrets[sink.target.secret]) ELSE Absent)
              = IF ExportableBy(secrets, sink) THEN WantedBy(secrets, sink)
                ELSE Absent
<1>1. CASE sink.target.kind = "open"
  BY <1>1 DEF Reading, SinkCondition, ExportableBy, SinkVectorConfig, WantedBy
<1>2. CASE sink.target.kind = "basicAuth"
  <2>. DEFINE log == secrets[sink.target.secret]
  <2>1. sink.target.secret \in Secrets
    BY <1>2, AbsentAssumption DEF TelemetrySink, Target
  <2>2. /\ Cached(log) = Stored(log)
        /\ Stored(log) \in SecretObject \cup {Absent}
    BY <1>2, <2>1, StoreEnds DEF Types, TypeOK, UpToDate, Stored
  <2>3. outcome = RetrieveBasicAuthSecret(Stored(log))
    <3>1. ~Spend("readFaults", MaxReadFaults)
      BY DEF Types, TypeOK, Budget, Spend, Undisturbed
    <3>. QED  BY <1>2, <2>2, <3>1 DEF Reading, ReadSecret
  <2>4. outcome = "ok" <=> Usable(Stored(log))
    BY <2>2, <2>3, UsableSecret
  <2>5. outcome # "accepted"
    BY <2>3 DEF RetrieveBasicAuthSecret
  <2>6. ExportableBy(secrets, sink) <=> outcome = "ok"
    BY <1>2, <2>4 DEF ExportableBy
  <2>7. SinkCondition(status, sink, outcome) = "accepted" <=> outcome = "ok"
    BY <1>2, <2>5 DEF SinkCondition
  <2>8. outcome = "ok" =>
          SinkVectorConfig(sink, outcome, Cached(log)) = WantedBy(secrets, sink)
    BY <1>2, <2>2 DEF SinkVectorConfig, WantedBy
  <2>9. outcome # "ok" => SinkVectorConfig(sink, outcome, Absent) = Absent
    BY <1>2 DEF SinkVectorConfig
  <2>. QED  BY <1>2, <2>6, <2>7, <2>8, <2>9
<1>. QED  BY <1>1, <1>2

\* When the first loop has ended and changed nothing, the status is right.
LEMMA LoopMatches ==
  ASSUME Types, LoopOK, Undisturbed, pc = "status", ~MoreSinks, ~StatusChanged,
         ValidatedBy(secrets, obj, cursor, found),
         \A sink \in SinksOf(obj.spec) : sink.target.kind # "emptyAuth"
  PROVE  StatusBy(secrets, obj)
<1>. DEFINE spec == obj.spec
            n == Len(spec.sinks)
            exportable == {sink \in SinksOf(spec) : ExportableBy(secrets, sink)}
            accepted == {m \in SinkNames : found[m] = "accepted"}
            name == [sink \in exportable |-> sink.name]
<1>1. obj \in ExportPolicy /\ spec \in Specs
  BY DEF Types, WorkerOK, ExportPolicy
<1>2. /\ spec.sinks \in Seq(TelemetrySink) /\ n \in Nat
      /\ DOMAIN spec.sinks = 1 .. n
      /\ \A i, j \in DOMAIN spec.sinks :
           spec.sinks[i].name = spec.sinks[j].name => i = j
  BY <1>1, InputAssumption DEF ExportPolicySpec
<1>3. cursor = n + 1
  BY <1>2 DEF LoopOK, MoreSinks, Types, TypeOK
<1>4. {m \in SinkNames : found[m] # "missing"} = SinkNamesOf(spec)
  BY <1>1, <1>2, <1>3, DistinctNames DEF LoopOK
<1>5. \A sink \in SinksOf(spec) :
        /\ sink.name \in SinkNames
        /\ found[sink.name] = "accepted" <=> ExportableBy(secrets, sink)
        /\ obj.status.sinks[sink.name] = "accepted"
             <=> found[sink.name] = "accepted"
  <2>. TAKE sink \in SinksOf(spec)
  <2>1. PICK i \in DOMAIN spec.sinks : sink = spec.sinks[i]
    BY DEF SinksOf
  <2>2. sink \in TelemetrySink /\ i < cursor
    BY <1>2, <1>3, <2>1
  <2>3. found[sink.name] = "accepted" <=> ExportableBy(secrets, sink)
    BY <2>1, <2>2 DEF ValidatedBy
  <2>4. found[sink.name] = GetSinkStatus(obj.status, sink.name)
    BY DEF StatusChanged
  <2>. QED  BY <2>2, <2>3, <2>4 DEF TelemetrySink, GetSinkStatus
<1>6. name \in Injection(exportable, accepted)
  <2>1. \A sink, other \in SinksOf(spec) : sink.name = other.name => sink = other
    BY <1>2 DEF SinksOf
  <2>2. name \in [exportable -> accepted]
    BY <1>5
  <2>. QED  BY <2>1, <2>2 DEF Injection, IsInjective
<1>7. name \in Surjection(exportable, accepted)
  <2>1. \A m \in accepted : \E sink \in exportable : sink.name = m
    BY <1>4, <1>5 DEF SinkNamesOf
  <2>2. name \in [exportable -> accepted]
    BY <1>5
  <2>. QED  BY <2>1, <2>2 DEF Surjection
<1>8. Cardinality(exportable) = Cardinality(accepted)
  <2>1. IsFiniteSet(accepted)
    BY SinkNamesAssumption, FS_Subset
  <2>. QED  BY <1>6, <1>7, <2>1, FS_Injection
<1>9. obj.status.ready = ReadyFor(found, obj.generation)
  BY DEF StatusChanged, NewStatus
<1>10. obj.status.ready = [accepted |-> Cardinality(exportable), total |-> n,
                           gen |-> obj.generation]
  BY <1>1, <1>4, <1>8, <1>9, DistinctNames DEF ReadyFor
<1>. QED  BY <1>5, <1>10 DEF StatusBy

-----------------------------------------------------------------------------
(* A policy that stays undisturbed *)

FreshConfigs == \A u \in UIDs : UpToDate(configs[u])

AllSynced == \A p \in Policies : (~Unsettled(p) /\ key # p) => Synced(p)

Quiet ==
  /\ missed \subseteq Policies
  /\ FreshConfigs
  /\ pc = "idle" => key = Absent
  /\ RequestOK
  /\ AllSynced

LEMMA QuietParts == QuietInvariant <=> Owned /\ Quiet
BY DEF QuietInvariant, Owned, Quiet, FreshConfigs, AllSynced

\* A policy that is not due is in the cache as it is on the server, and so are
\* the Secrets it refers to.
LEMMA SettledCopy ==
  ASSUME Types, NEW p \in Policies, ~Unsettled(p)
  PROVE  /\ Cached(policies[p]) = StoredPolicy(p)
         /\ Exists(p) => \A s \in Secrets : ReferencesSecret(StoredPolicy(p).spec, s)
                           => UpToDate(secrets[s]) /\ s \notin notices
<1>1. Cached(policies[p]) = StoredPolicy(p)
  BY StoreEnds DEF Types, TypeOK, Unsettled, Due, UpToDate, StoredPolicy, Stored
<1>. QED  BY <1>1 DEF Unsettled, Due, Exists

\* What a step leaves as it is for a policy that is not due after it.
Untouched(p) ==
  /\ ~Unsettled(p)
  /\ policies'[p] = policies[p]
  /\ Exists(p) => SameSecrets(StoredPolicy(p).spec, secrets, secrets')

LEMMA UserUntouched ==
  ASSUME Types, User, NEW p \in Policies, ~Unsettled(p)',
         UNCHANGED missed
  PROVE  Untouched(p)
<1>1. ASSUME NEW q \in Policies, NEW v \in PolicyOrAbsent,
             policies' = [policies EXCEPT ![q] = Write(@, v)],
             UNCHANGED <<secrets, queue, notices>>
      PROVE  Untouched(p)
  <2>1. policies[q] \in Seq(PolicyOrAbsent) /\ Len(policies[q]) > 0
    BY DEF Types, TypeOK, Logs, PolicyOrAbsent
  <2>2. policies'[q] = Append(policies[q], v)
    BY <1>1 DEF Types, TypeOK, Write
  <2>3. ~UpToDate(policies'[q])
    BY <2>1, <2>2, LogAppend DEF UpToDate
  <2>4. q # p
    BY <2>3 DEF Unsettled, Due
  <2>5. policies'[p] = policies[p]
    BY <1>1, <2>4 DEF Types, TypeOK
  <2>. QED  BY <1>1, <2>5 DEF Untouched, Unsettled, Due, SameSecrets
<1>2. ASSUME NEW s \in Secrets, NEW v \in SecretObjects \cup {Absent},
             WriteSecret(s, v)
      PROVE  Untouched(p)
  <2>1. policies' = policies /\ queue' = queue /\ notices' = notices
    BY <1>2 DEF WriteSecret
  <2>2. secrets[s] \in Seq(SecretObject \cup {Absent}) /\ Len(secrets[s]) > 0
    BY DEF Types, TypeOK, Logs
  <2>3. secrets'[s] = Append(secrets[s], v)
        /\ \A t \in Secrets \ {s} : secrets'[t] = secrets[t]
    BY <1>2 DEF WriteSecret, Types, TypeOK, Write
  <2>4. v \in SecretObject \cup {Absent}
    BY InputAssumption
  <2>5. ~UpToDate(secrets'[s])
    BY <2>2, <2>3, <2>4, LogAppend DEF UpToDate
  <2>6. Cached(policies[p]) # Absent
          => ~ReferencesSecret(Cached(policies[p]).spec, s)
    BY <2>1, <2>5 DEF Unsettled, Due
  <2>7. ~Unsettled(p)
    BY <2>1, <2>3, <2>6 DEF Unsettled, Due
  <2>8. Exists(p) => ~ReferencesSecret(StoredPolicy(p).spec, s)
    BY <2>6, <2>7, SettledCopy DEF Exists
  <2>. QED  BY <2>1, <2>3, <2>7, <2>8 DEF Untouched, SameSecrets
<1>3. ASSUME NEW u \in UIDs, NEW v, Drift(u, v)
      PROVE  Untouched(p)
  BY <1>3 DEF Drift, Untouched, Unsettled, Due, SameSecrets
<1>4. ASSUME NEW q \in Policies, NEW u \in UIDs, NEW spec \in Specs,
             CreatePolicy(q, u, spec)
      PROVE  Untouched(p)
  <2>. DEFINE new == [uid |-> u, rv |-> 1, generation |-> 1, spec |-> spec,
                      finalizer |-> FALSE, deleting |-> FALSE,
                      status |-> NoStatus]
  <2>1. new \in PolicyOrAbsent
    BY NoStatusType DEF ExportPolicy, PolicyOrAbsent
  <2>2. policies' = [policies EXCEPT ![q] = Write(@, new)]
        /\ UNCHANGED <<secrets, queue, notices>>
    BY <1>4 DEF CreatePolicy
  <2>. HIDE DEF new
  <2>. QED  BY <1>1, <2>1, <2>2
<1>5. ASSUME NEW q \in Policies, NEW spec \in Specs, UpdateSpec(q, spec)
      PROVE  Untouched(p)
  <2>. DEFINE stored == StoredPolicy(q)
              new == [stored EXCEPT !.spec = spec, !.generation = @ + 1,
                                    !.rv = @ + 1]
  <2>1. stored \in ExportPolicy
    BY <1>5, StoredIsVersion DEF UpdateSpec, Exists, StoredPolicy, Types
  <2>2. new \in PolicyOrAbsent
    BY <2>1, PolicyVersions DEF PolicyOrAbsent
  <2>3. policies' = [policies EXCEPT ![q] = Write(@, new)]
        /\ UNCHANGED <<secrets, queue, notices>>
    BY <1>5 DEF UpdateSpec, StoredPolicy
  <2>. HIDE DEF new
  <2>. QED  BY <1>1, <2>2, <2>3
<1>6. ASSUME NEW q \in Policies, DeletePolicy(q)
      PROVE  Untouched(p)
  <2>. DEFINE stored == StoredPolicy(q)
              marked == [stored EXCEPT !.deleting = TRUE,
                                       !.generation = @ + 1, !.rv = @ + 1]
              new == IF stored.finalizer THEN marked ELSE Absent
  <2>1. stored \in ExportPolicy
    BY <1>6, StoredIsVersion DEF DeletePolicy, Exists, StoredPolicy, Types
  <2>2. marked \in ExportPolicy
    BY <2>1, PolicyVersions
  <2>3. new \in PolicyOrAbsent
    BY <2>2 DEF PolicyOrAbsent
  <2>4. policies' = [policies EXCEPT ![q] = Write(@, new)]
        /\ UNCHANGED <<secrets, queue, notices>>
    BY <1>6 DEF DeletePolicy, StoredPolicy
  <2>. HIDE DEF new
  <2>. QED  BY <1>1, <2>3, <2>4
<1>. QED  BY <1>2, <1>3, <1>4, <1>5, <1>6 DEF User

LEMMA InformerUntouched ==
  ASSUME Types, QuietInformer, NEW p \in Policies, ~Unsettled(p)'
  PROVE  Untouched(p)
<1>1. ASSUME NEW q \in Policies, DeliverPolicy(q), UNCHANGED missed
      PROVE  Untouched(p)
  <2>1. q # p
    BY <1>1 DEF DeliverPolicy, Unsettled, Due
  <2>2. policies'[p] = policies[p]
    BY <1>1, <2>1 DEF DeliverPolicy, Types, TypeOK
  <2>3. queue \subseteq queue' /\ UNCHANGED <<secrets, notices>>
    BY <1>1 DEF DeliverPolicy
  <2>. QED  BY <1>1, <2>2, <2>3 DEF Untouched, Unsettled, Due, SameSecrets
<1>2. ASSUME NEW q \in Policies, Resync(q), UNCHANGED missed
      PROVE  Untouched(p)
  BY <1>2 DEF Resync, stores, Untouched, Unsettled, Due, SameSecrets
<1>3. ASSUME NEW s \in Secrets, DeliverSecret(s), UNCHANGED missed
      PROVE  Untouched(p)
  <2>1. policies' = policies /\ queue' = queue /\ notices' = notices \cup {s}
    BY <1>3 DEF DeliverSecret
  <2>2. /\ \A t \in Secrets \ {s} : secrets'[t] = secrets[t]
        /\ \A t \in Secrets : Stored(secrets'[t]) = Stored(secrets[t])
    BY <1>3, StoreDeliver DEF DeliverSecret, Types, TypeOK
  <2>3. Cached(policies[p]) # Absent
          => ~ReferencesSecret(Cached(policies[p]).spec, s)
    BY <2>1 DEF Unsettled, Due
  <2>4. ~Unsettled(p)
    BY <1>3, <2>1, <2>2, <2>3 DEF Unsettled, Due
  <2>. QED  BY <2>1, <2>2, <2>4 DEF Untouched, SameSecrets
<1>4. ASSUME NEW s \in Secrets, MapSecret(s), UNCHANGED missed
      PROVE  Untouched(p)
  <2>1. policies' = policies /\ secrets' = secrets /\ notices' = notices \ {s}
    BY <1>4 DEF MapSecret, stores
  <2>2. p \notin queue' /\ p \notin queue
    BY <1>4 DEF Unsettled, Due, MapSecret, Referrers
  <2>3. Cached(policies[p]) # Absent
          => ~ReferencesSecret(Cached(policies[p]).spec, s)
    BY <1>4, <2>2 DEF MapSecret, Referrers
  <2>4. ~Unsettled(p)
    BY <1>4, <2>1, <2>2, <2>3 DEF Unsettled, Due
  <2>. QED  BY <2>1, <2>4 DEF Untouched, SameSecrets
<1>5. ASSUME NEW u \in UIDs, DeliverConfig(u), UNCHANGED missed
      PROVE  Untouched(p)
  BY <1>5 DEF DeliverConfig, Untouched, Unsettled, Due, SameSecrets
<1>6. ASSUME NEW s \in Secrets, MapSecretFails(s),
             missed' = missed \cup Referrers(s)
      PROVE  Untouched(p)
  <2>1. /\ policies' = policies /\ secrets' = secrets /\ queue' = queue
        /\ notices' = notices \ {s}
    BY <1>6 DEF MapSecretFails, stores
  <2>2. p \notin missed /\ p \notin Referrers(s)
    BY <1>6 DEF Unsettled
  <2>3. Cached(policies[p]) # Absent
          => ~ReferencesSecret(Cached(policies[p]).spec, s)
    BY <2>2 DEF Referrers
  <2>4. ~Unsettled(p)
    BY <2>1, <2>2, <2>3 DEF Unsettled, Due
  <2>. QED  BY <2>1, <2>4 DEF Untouched, SameSecrets
<1>. QED  BY <1>1, <1>2, <1>3, <1>4, <1>5, <1>6 DEF QuietInformer

\* What such a policy should be, it was before and still is.
LEMMA UntouchedSynced ==
  ASSUME Types, NEW p \in Policies, Untouched(p),
         Exists(p) => configs'[StoredPolicy(p).uid] = configs[StoredPolicy(p).uid],
         Synced(p)
  PROVE  Synced(p)'
<1>1. CASE ~Exists(p)
  BY <1>1, SyncedThen DEF SyncedBy, Untouched, Exists, StoredPolicy
<1>2. CASE Exists(p)
  <2>. DEFINE policy == StoredPolicy(p)
  <2>1. policy \in ExportPolicy
    BY <1>2, StoredIsVersion DEF Types
  <2>2. SyncedBy(secrets, policy, configs)
    BY SyncedNow
  <2>3. policy # Absent /\ Stored(policies'[p]) = policy
    BY <1>2 DEF Exists, Untouched, StoredPolicy
  <2>. HIDE DEF policy
  <2>4. SameSecrets(policy.spec, secrets, secrets')
        /\ configs'[policy.uid] = configs[policy.uid]
    BY <1>2 DEF Untouched, policy
  <2>5. SyncedBy(secrets', policy, configs')
    BY <2>1, <2>2, <2>3, <2>4, WantedFrame DEF SyncedBy
  <2>. QED  BY <2>3, <2>5, SyncedThen
<1>. QED  BY <1>1, <1>2

\* The request in hand, if it is left as it is.
LEMMA UntouchedRequest ==
  ASSUME Types, Protocol, RequestOK, UNCHANGED request,
         \A p \in Policies : ~Unsettled(p)' => Untouched(p)
  PROVE  RequestOK'
<1>. SUFFICES ASSUME pc' \in {"status", "config"}, ~Unsettled(key)'
              PROVE  /\ obj' = Stored(policies'[key'])
                     /\ pc' = "status" => ValidatedOK'
                     /\ pc' = "config" => ConfiguredOK'
  BY DEF RequestOK, StoredPolicy
<1>1. /\ pc \in {"status", "config"} /\ pc' = pc /\ key' = key /\ obj' = obj
      /\ cursor' = cursor /\ found' = found /\ draft' = draft
  BY DEF request
<1>2. key \in Policies /\ obj \in ExportPolicy
  BY <1>1 DEF Types, WorkerOK
<1>3. Untouched(key)
  BY <1>1, <1>2 DEF Unsettled, Due
<1>4. /\ obj = StoredPolicy(key)
      /\ pc = "status" => ValidatedBy(secrets, obj, cursor, found)
      /\ pc = "config" => ConfiguredBy(secrets, obj, cursor, draft)
  BY <1>1, <1>3, SyncedNow DEF RequestOK, Untouched
<1>5. SameSecrets(obj.spec, secrets, secrets')
  BY <1>1, <1>3, <1>4 DEF Untouched, Protocol, ClaimOK
<1>6. /\ pc = "status" => ValidatedBy(secrets', obj, cursor, found)
      /\ pc = "config" => ConfiguredBy(secrets', obj, cursor, draft)
  BY <1>2, <1>4, <1>5, WantedFrame
<1>. QED  BY <1>1, <1>3, <1>4, <1>6, SyncedThen DEF Untouched, StoredPolicy

LEMMA EnvironmentQuiet ==
  ASSUME Types, Protocol, Undisturbed, Quiet,
         (User /\ UNCHANGED missed) \/ QuietInformer
  PROVE  Quiet'
<1>1. UNCHANGED request
  BY DEF User, CreatePolicy, UpdateSpec, DeletePolicy, WriteSecret, Drift,
         QuietInformer, DeliverPolicy, Resync, DeliverSecret, MapSecret,
         MapSecretFails, DeliverConfig
<1>2. UNCHANGED configs
  <2>1. ~Spend("drifts", MaxDrifts)
    BY DEF Types, TypeOK, Budget, Spend, Undisturbed
  <2>. QED
    BY <2>1 DEF User, CreatePolicy, UpdateSpec, DeletePolicy, WriteSecret, Drift,
                QuietInformer, DeliverPolicy, Resync, DeliverSecret, MapSecret,
                MapSecretFails, DeliverConfig, stores, Quiet, FreshConfigs
<1>3. \A p \in Policies : ~Unsettled(p)' => Untouched(p)
  BY UserUntouched, InformerUntouched
<1>4. FreshConfigs'
  BY <1>2 DEF Quiet, FreshConfigs
<1>5. (pc = "idle" => key = Absent)'
  BY <1>1 DEF Quiet, request
<1>6. RequestOK'
  BY <1>1, <1>3, UntouchedRequest DEF Quiet
<1>7. ASSUME NEW p \in Policies, ~Unsettled(p)', key' # p
      PROVE  Synced(p)'
  <2>1. Untouched(p) /\ Synced(p)
    BY <1>1, <1>3, <1>7 DEF Quiet, AllSynced, Untouched, request
  <2>. QED  BY <1>2, <2>1, UntouchedSynced
<1>8. missed' \subseteq Policies
  BY DEF QuietInformer, Referrers, Quiet
<1>. QED  BY <1>4, <1>5, <1>6, <1>7, <1>8 DEF Quiet, AllSynced

-----------------------------------------------------------------------------
(* The steps of the reconciler *)

\* What a step of the reconciler does to other policies than its own.
LEMMA StepQuiet ==
  ASSUME Types, Protocol, Owned, Quiet, pc # "idle",
         UNCHANGED <<secrets, notices>>, queue \subseteq queue',
         key' \in {key, Absent}, pc' = "idle" => key' = Absent,
         \A q \in Policies \ {key} : policies'[q] = policies[q],
         \/ UNCHANGED configs
         \/ /\ pc # "get"
            /\ \A u \in UIDs \ {obj.uid} : configs'[u] = configs[u],
         FreshConfigs', RequestOK',
         \A p \in Policies : (p = key /\ key' # key /\ ~Unsettled(p)') => Synced(p)',
         UNCHANGED missed
  PROVE  Quiet'
<1>. SUFFICES ASSUME NEW p \in Policies, ~Unsettled(p)', key' # p
              PROVE  Synced(p)'
  BY DEF Quiet, AllSynced
<1>1. CASE p = key
  BY <1>1
<1>2. CASE p # key
  <2>1. Untouched(p)
    BY <1>2 DEF Untouched, Unsettled, Due, SameSecrets
  <2>2. Synced(p)
    BY <1>2, <2>1 DEF Quiet, AllSynced, Untouched
  <2>3. ASSUME Exists(p)
        PROVE  configs'[StoredPolicy(p).uid] = configs[StoredPolicy(p).uid]
    <3>1. StoredPolicy(p).uid \in UIDs
      BY <2>3, StoredIsVersion DEF Types, ExportPolicy
    <3>2. StoredPolicy(p).uid \in UIDsOf(p)
      BY <2>3, StoredUID DEF Types
    <3>3. pc # "get" => StoredPolicy(p).uid # obj.uid
      BY <1>2, <3>2 DEF Owned, NamesOwnUIDs
    <3>. QED  BY <3>1, <3>3
  <2>. QED  BY <2>1, <2>2, <2>3, UntouchedSynced
<1>. QED  BY <1>1, <1>2

LEMMA ConfigWrite ==
  ASSUME Types, Undisturbed, FreshConfigs, NEW u \in UIDs,
         DeleteConfig(u) \/ PutConfig(u)
  PROVE  /\ FreshConfigs'
         /\ \A w \in UIDs \ {u} : configs'[w] = configs[w]
<1>1. \A v : WriteDownstream(configs[u], v) = <<v>>
  BY DEF WriteDownstream, Undisturbed
<1>2. configs' = configs
      \/ \E v : configs' = [configs EXCEPT ![u] = <<v>>]
  BY <1>1 DEF DeleteConfig, PutConfig, Types, TypeOK
<1>3. \A v : UpToDate(<<v>>)
  BY DEF UpToDate
<1>. QED  BY <1>2, <1>3 DEF FreshConfigs, Types, TypeOK

\* A request that comes back, or whose policy has been written, is due.
LEMMA RequeueQuiet ==
  ASSUME Types, Protocol, Owned, Quiet, pc # "idle", Requeue,
         UNCHANGED <<secrets, notices>>,
         \A q \in Policies \ {key} : policies'[q] = policies[q],
         \/ UNCHANGED configs
         \/ /\ pc # "get"
            /\ \A u \in UIDs \ {obj.uid} : configs'[u] = configs[u],
         FreshConfigs',
         UNCHANGED missed
  PROVE  Quiet'
<1>1. pc' = "idle" /\ key' = Absent /\ queue' = queue \cup {key}
  BY DEF Requeue, ForgetRequest
<1>2. RequestOK'
  BY <1>1 DEF RequestOK
<1>3. \A p \in Policies : p = key => Unsettled(p)'
  BY <1>1 DEF Unsettled, Due
<1>. QED  BY <1>1, <1>2, <1>3, StepQuiet

LEMMA WriteUnsettles ==
  ASSUME Types, key \in Policies, NEW copy \in ExportPolicy, PutPolicy(copy)
  PROVE  /\ \A p \in Policies : p = key => Unsettled(p)'
         /\ \A q \in Policies \ {key} : policies'[q] = policies[q]
<1>. DEFINE put == IF copy.deleting /\ ~copy.finalizer THEN Absent
                   ELSE [copy EXCEPT !.rv = @ + 1]
<1>1. put \in PolicyOrAbsent
  BY PutPolicyTypes DEF Types, TypeOK, PolicyOrAbsent
<1>2. policies' = [policies EXCEPT ![key] = Write(@, put)]
  BY DEF PutPolicy
<1>. HIDE DEF put
<1>3. policies[key] \in Seq(PolicyOrAbsent) /\ Len(policies[key]) > 0
  BY DEF Types, TypeOK, Logs, PolicyOrAbsent
<1>4. policies'[key] = Append(policies[key], put)
  BY <1>2 DEF Types, TypeOK, Write
<1>5. ~UpToDate(policies'[key])
  BY <1>1, <1>3, <1>4, LogAppend DEF UpToDate
<1>. QED  BY <1>2, <1>5 DEF Unsettled, Due, Types, TypeOK

LEMMA GetPolicyQuiet ==
  ASSUME Types, Protocol, Owned, LoopOK, Undisturbed, Quiet, GetPolicy,
         UNCHANGED missed
  PROVE  Quiet'
<1>. DEFINE cached == Cached(policies[key])
<1>1. /\ key \in Policies /\ pc = "get" /\ cursor = 1
      /\ UNCHANGED <<policies, secrets, configs, notices, queue>>
  BY DEF GetPolicy, Types, WorkerOK, LoopOK, stores, Return
<1>2. FreshConfigs'
  BY <1>1 DEF Quiet, FreshConfigs
<1>3. /\ cached = policies[key][1]
      /\ cached \in ExportPolicy \cup {Absent}
  BY <1>1, StoreEnds DEF Types, TypeOK
<1>4. 1 \in DOMAIN policies[key]
  BY <1>1 DEF Types, TypeOK, Logs
<1>5. cached # Absent => (cached.deleting => cached.finalizer)
  BY <1>1, <1>3, <1>4 DEF Owned, NoZombie, Versions
<1>6. ~Unsettled(key) => cached = StoredPolicy(key)
  BY <1>1, SettledCopy
<1>7. CASE cached = Absent
  <2>1. pc' = "idle" /\ key' = Absent
    BY <1>7 DEF GetPolicy, Return, ForgetRequest
  <2>2. RequestOK'
    BY <2>1 DEF RequestOK
  <2>3. ASSUME NEW p \in Policies, p = key, ~Unsettled(p)'
        PROVE  Synced(p)'
    <3>1. ~Unsettled(key)
      BY <1>1, <2>3 DEF Unsettled, Due
    <3>2. Stored(policies'[p]) = Absent
      BY <1>1, <1>6, <1>7, <2>3, <3>1 DEF StoredPolicy
    <3>. QED  BY <3>2, SyncedThen DEF SyncedBy
  <2>. QED  BY <1>1, <1>2, <2>1, <2>2, <2>3, StepQuiet
<1>8. CASE cached # Absent
  <2>1. /\ key' = key /\ cursor' = cursor /\ found' = found
        /\ obj' = [cached EXCEPT !.finalizer = TRUE]
        /\ pc' = IF cached.deleting THEN "finalize"
                 ELSE IF cached.finalizer THEN "status" ELSE "update"
    BY <1>5, <1>8 DEF GetPolicy
  <2>2. ASSUME pc' \in {"status", "config"}, ~Unsettled(key)'
        PROVE  /\ obj' = Stored(policies'[key'])
               /\ pc' = "status" /\ ValidatedOK'
    <3>1. pc' = "status" /\ cached.finalizer
      BY <2>1, <2>2
    <3>2. obj' = cached
      BY <1>3, <1>8, <2>1, <3>1 DEF ExportPolicy
    <3>3. cached = StoredPolicy(key)
      BY <1>1, <1>6, <2>1, <2>2 DEF Unsettled, Due
    <3>4. cached.spec.sinks \in Seq(TelemetrySink)
      BY <1>3, <1>8, SpecType DEF ExportPolicy
    <3>5. ValidatedBy(secrets', obj', cursor', found')
      BY <1>1, <2>1, <3>2, <3>4 DEF ValidatedBy
    <3>. QED  BY <1>1, <2>1, <3>1, <3>2, <3>3, <3>5, SyncedThen DEF StoredPolicy
  <2>3. RequestOK'
    BY <2>2 DEF RequestOK, StoredPolicy
  <2>. QED  BY <1>1, <1>2, <2>1, <2>3, StepQuiet
<1>. QED  BY <1>7, <1>8

LEMMA FinalizeQuiet ==
  ASSUME Types, Protocol, Owned, Undisturbed, Quiet, Finalize,
         UNCHANGED missed
  PROVE  Quiet'
<1>1. /\ pc = "finalize" /\ pc' = "update" /\ key' = key
      /\ UNCHANGED <<policies, secrets, notices, queue>>
      /\ DeleteConfig(obj.uid)
  BY DEF Finalize
<1>2. obj.uid \in UIDs
  BY <1>1 DEF Types, WorkerOK, ExportPolicy
<1>3. FreshConfigs' /\ \A u \in UIDs \ {obj.uid} : configs'[u] = configs[u]
  BY <1>1, <1>2, ConfigWrite DEF Quiet
<1>4. RequestOK'
  BY <1>1 DEF RequestOK
<1>. QED  BY <1>1, <1>3, <1>4, StepQuiet

LEMMA UpdatePolicyQuiet ==
  ASSUME Types, Protocol, Owned, Quiet, UpdatePolicy,
         UNCHANGED missed
  PROVE  Quiet'
<1>1. /\ pc = "update" /\ key \in Policies /\ obj \in ExportPolicy
      /\ UNCHANGED <<secrets, configs, notices, queue>>
      /\ key' \in {key, Absent} /\ (pc' = "idle" => key' = Absent)
      /\ pc' = "idle" \/ key' = key
  BY DEF UpdatePolicy, Types, WorkerOK, Return, ForgetRequest
<1>2. /\ \A p \in Policies : p = key => Unsettled(p)'
      /\ \A q \in Policies \ {key} : policies'[q] = policies[q]
  BY <1>1, WriteUnsettles DEF UpdatePolicy
<1>3. FreshConfigs'
  BY <1>1 DEF Quiet, FreshConfigs
<1>4. pc' # "idle" => Unsettled(key)'
  BY <1>1, <1>2 DEF Unsettled, Due
<1>5. RequestOK'
  BY <1>4 DEF RequestOK
<1>. QED  BY <1>1, <1>2, <1>3, <1>5, StepQuiet

LEMMA UpdateStatusQuiet ==
  ASSUME Types, Protocol, Owned, Quiet, UpdateStatus,
         UNCHANGED missed
  PROVE  Quiet'
<1>1. /\ pc = "status" /\ key \in Policies /\ obj \in ExportPolicy
      /\ UNCHANGED <<secrets, configs, notices>> /\ Requeue
  BY DEF UpdateStatus, Types, WorkerOK
<1>2. \A q \in Policies \ {key} : policies'[q] = policies[q]
  BY <1>1, NewStatusType, WriteUnsettles DEF UpdateStatus, PutStatus
<1>3. FreshConfigs'
  BY <1>1 DEF Quiet, FreshConfigs
<1>. QED  BY <1>1, <1>2, <1>3, RequeueQuiet

LEMMA ReplyLostQuiet ==
  ASSUME Types, Protocol, Owned, Undisturbed, Quiet, ReplyLost,
         UNCHANGED missed
  PROVE  Quiet'
<1>1. /\ pc \notin {"idle", "get"} /\ key \in Policies /\ obj \in ExportPolicy
      /\ UNCHANGED <<secrets, notices>> /\ Requeue
  BY DEF ReplyLost, Types, WorkerOK
<1>2. obj.uid \in UIDs
  BY <1>1 DEF ExportPolicy
<1>3. \/ UNCHANGED policies
      \/ PutPolicy(obj)
      \/ pc = "status" /\ PutStatus
  BY DEF ReplyLost
<1>4. \A q \in Policies \ {key} : policies'[q] = policies[q]
  BY <1>1, <1>3, NewStatusType, WriteUnsettles DEF PutStatus
<1>5. UNCHANGED configs \/ DeleteConfig(obj.uid) \/ PutConfig(obj.uid)
  BY DEF ReplyLost
<1>6. FreshConfigs'
  BY <1>2, <1>5, ConfigWrite DEF Quiet, FreshConfigs
<1>7. UNCHANGED configs \/ \A u \in UIDs \ {obj.uid} : configs'[u] = configs[u]
  BY <1>2, <1>5, ConfigWrite DEF Quiet
<1>. QED  BY <1>1, <1>4, <1>6, <1>7, RequeueQuiet

\* The sink a loop is at, with its Secret as the reconciler finds it.
LEMMA SinkInHand ==
  ASSUME Types, Protocol, Undisturbed, RequestOK,
         pc \in {"status", "config"}, MoreSinks, ~Unsettled(key)
  PROVE  /\ cursor \in DOMAIN obj.spec.sinks
         /\ Sink \in TelemetrySink /\ Sink.target.kind # "none"
         /\ \A i \in DOMAIN obj.spec.sinks :
              obj.spec.sinks[i].name = Sink.name => i = cursor
         /\ Sink.target.kind = "basicAuth"
              => UpToDate(secrets[Sink.target.secret])
<1>1. key \in Policies /\ obj \in ExportPolicy /\ obj.spec \in Specs
  BY DEF Types, WorkerOK, ExportPolicy
<1>2. /\ obj.spec.sinks \in Seq(TelemetrySink)
      /\ \A i, j \in DOMAIN obj.spec.sinks :
           obj.spec.sinks[i].name = obj.spec.sinks[j].name => i = j
  BY <1>1, InputAssumption DEF ExportPolicySpec
<1>3. cursor \in DOMAIN obj.spec.sinks
  BY <1>2 DEF MoreSinks, Types, TypeOK
<1>4. Sink \in TelemetrySink /\ Sink \in SinksOf(obj.spec)
  BY <1>2, <1>3 DEF Sink, SinksOf
<1>5. Sink.target.kind # "none"
  BY <1>1, <1>4 DEF Undisturbed
<1>6. ASSUME Sink.target.kind = "basicAuth"
      PROVE  UpToDate(secrets[Sink.target.secret])
  <2>1. Sink.target.secret \in Secrets
    BY <1>4, <1>6, AbsentAssumption DEF TelemetrySink, Target
  <2>2. ReferencesSecret(obj.spec, Sink.target.secret)
    BY <1>4 DEF ReferencesSecret
  <2>3. Exists(key) /\ obj = StoredPolicy(key)
    BY DEF Protocol, ClaimOK, RequestOK
  <2>. QED  BY <1>1, <2>1, <2>2, <2>3, SettledCopy
<1>. QED  BY <1>2, <1>3, <1>4, <1>5, <1>6 DEF Sink

LEMMA ValidateSinkQuiet ==
  ASSUME Types, Protocol, Owned, Undisturbed, Quiet, ValidateSink,
         UNCHANGED missed
  PROVE  Quiet'
<1>1. /\ pc = "status" /\ pc' = "status" /\ MoreSinks
      /\ key' = key /\ obj' = obj /\ cursor' = cursor + 1
      /\ UNCHANGED <<policies, secrets, configs, notices, queue>>
  BY DEF ValidateSink, stores
<1>2. FreshConfigs'
  BY <1>1 DEF Quiet, FreshConfigs
<1>3. ASSUME ~Unsettled(key)
      PROVE  obj = StoredPolicy(key) /\ ValidatedBy(secrets', obj', cursor', found')
  <2>. DEFINE sinks == obj.spec.sinks
  <2>1. obj = StoredPolicy(key) /\ ValidatedBy(secrets, obj, cursor, found)
    BY <1>1, <1>3, SyncedNow DEF Quiet, RequestOK
  <2>2. /\ cursor \in DOMAIN sinks
        /\ Sink \in TelemetrySink /\ Sink.target.kind # "none"
        /\ \A i \in DOMAIN sinks : sinks[i].name = Sink.name => i = cursor
        /\ Sink.target.kind = "basicAuth" => UpToDate(secrets[Sink.target.secret])
    BY <1>1, <1>3, SinkInHand DEF Quiet
  <2>3. PICK outcome \in SecretError \cup {"ok"} :
          /\ Reading(Sink, outcome)
          /\ found' = [found EXCEPT ![Sink.name] =
                         SinkCondition(obj.status, Sink, outcome)]
    BY DEF ValidateSink, Reading
  <2>4. Sink.target.kind # "emptyAuth" =>
          (SinkCondition(obj.status, Sink, outcome) = "accepted"
             <=> ExportableBy(secrets, Sink))
    <3>1. Sink.target.kind # "emptyAuth"
            => Sink.target.kind \in {"open", "basicAuth"}
      BY <2>2 DEF TelemetrySink, Target, TargetKind
    <3>. QED  BY <2>2, <2>3, <3>1, JudgeSink
  <2>5. Sink.name \in SinkNames /\ sinks \in Seq(TelemetrySink)
    BY <1>1, <2>2, SpecType DEF TelemetrySink, Types, WorkerOK, ExportPolicy
  <2>6. found'[Sink.name] = SinkCondition(obj.status, Sink, outcome)
    BY <2>3, <2>5 DEF Types, TypeOK
  <2>7. ASSUME NEW i \in DOMAIN sinks, i < cursor + 1,
               sinks[i].target.kind # "emptyAuth"
        PROVE  found'[sinks[i].name] = "accepted"
                 <=> ExportableBy(secrets, sinks[i])
    <3>1. CASE i = cursor
      BY <2>4, <2>6, <2>7, <3>1 DEF Sink
    <3>2. CASE i # cursor
      <4>1. i < cursor
        BY <2>5, <2>7, <3>2 DEF Types, TypeOK
      <4>2. sinks[i].name # Sink.name /\ sinks[i].name \in SinkNames
        <5>1. sinks[i] \in TelemetrySink
          BY <2>5
        <5>2. sinks[i].name # Sink.name
          BY <2>2, <3>2
        <5>. QED  BY <5>1, <5>2 DEF TelemetrySink
      <4>3. found'[sinks[i].name] = found[sinks[i].name]
        BY <2>3, <4>2 DEF Types, TypeOK
      <4>. QED  BY <2>1, <2>7, <4>1, <4>3 DEF ValidatedBy
    <3>. QED  BY <3>1, <3>2
  <2>. QED  BY <1>1, <2>1, <2>7 DEF ValidatedBy
<1>4. RequestOK'
  <2>1. ~Unsettled(key)' => ~Unsettled(key)
    BY <1>1 DEF Unsettled, Due
  <2>2. ~Unsettled(key)' => obj' = StoredPolicy(key)' /\ ValidatedOK'
    BY <1>1, <1>3, <2>1, SyncedThen DEF StoredPolicy
  <2>. QED  BY <1>1, <2>2 DEF RequestOK
<1>. QED  BY <1>1, <1>2, <1>4, StepQuiet

LEMMA KeepStatusQuiet ==
  ASSUME Types, Protocol, LoopOK, Owned, Undisturbed, Quiet, KeepStatus,
         UNCHANGED missed
  PROVE  Quiet'
<1>1. /\ pc = "status" /\ pc' = "config" /\ ~MoreSinks /\ ~StatusChanged
      /\ key' = key /\ obj' = obj /\ cursor' = 1
      /\ draft' = [EmptyConfiguration EXCEPT
                     !.sources = ConfiguredSources(obj.spec)]
      /\ UNCHANGED <<policies, secrets, configs, notices, queue>>
  BY DEF KeepStatus, stores
<1>2. FreshConfigs'
  BY <1>1 DEF Quiet, FreshConfigs
<1>3. ASSUME ~Unsettled(key)
      PROVE  obj = StoredPolicy(key) /\ ConfiguredBy(secrets, obj, 1, draft')
  <2>1. obj = StoredPolicy(key) /\ ValidatedBy(secrets, obj, cursor, found)
    BY <1>1, <1>3, SyncedNow DEF Quiet, RequestOK
  <2>2. (\A sink \in SinksOf(obj.spec) : sink.target.kind # "emptyAuth")
          => StatusBy(secrets, obj)
    BY <1>1, <2>1, LoopMatches
  <2>3. /\ draft'.sources = {m \in SourceNames : obj.spec.sources[m] = "metricExpr"}
        /\ draft'.sinks = NoSinks
    BY <1>1 DEF EmptyConfiguration, ConfiguredSources
  <2>4. obj.spec.sinks \in Seq(TelemetrySink)
    BY <1>1, SpecType DEF Types, WorkerOK, ExportPolicy
  <2>5. ASSUME NEW i \in DOMAIN obj.spec.sinks
        PROVE  ~(i < 1) /\ draft'.sinks[obj.spec.sinks[i].name] = Absent
    <3>1. obj.spec.sinks[i] \in TelemetrySink /\ i \in Nat \ {0}
      BY <2>4
    <3>2. obj.spec.sinks[i].name \in SinkNames
      BY <3>1 DEF TelemetrySink
    <3>. QED  BY <2>3, <3>1, <3>2 DEF NoSinks
  <2>6. \A m \in SinkNames : draft'.sinks[m] = Absent
    BY <2>3 DEF NoSinks
  <2>. QED  BY <2>1, <2>2, <2>3, <2>5, <2>6 DEF ConfiguredBy
<1>4. RequestOK'
  <2>1. ~Unsettled(key)' => ~Unsettled(key)
    BY <1>1 DEF Unsettled, Due
  <2>2. ~Unsettled(key)' => obj' = StoredPolicy(key)' /\ ConfiguredOK'
    BY <1>1, <1>3, <2>1, SyncedThen DEF StoredPolicy
  <2>. QED  BY <1>1, <2>2 DEF RequestOK
<1>. QED  BY <1>1, <1>2, <1>4, StepQuiet

LEMMA ConfigureSinkQuiet ==
  ASSUME Types, Protocol, Owned, Undisturbed, Quiet, ConfigureSink,
         UNCHANGED missed
  PROVE  Quiet'
<1>1. /\ pc = "config" /\ pc' = "config" /\ MoreSinks /\ ~SinkPanics(Sink)
      /\ key' = key /\ obj' = obj /\ cursor' = cursor + 1
      /\ UNCHANGED <<policies, secrets, configs, notices, queue>>
  BY DEF ConfigureSink, stores
<1>2. FreshConfigs'
  BY <1>1 DEF Quiet, FreshConfigs
<1>3. ASSUME ~Unsettled(key)
      PROVE  obj = StoredPolicy(key) /\ ConfiguredBy(secrets', obj', cursor', draft')
  <2>. DEFINE sinks == obj.spec.sinks
  <2>1. obj = StoredPolicy(key) /\ ConfiguredBy(secrets, obj, cursor, draft)
    BY <1>1, <1>3, SyncedNow DEF Quiet, RequestOK
  <2>2. /\ cursor \in DOMAIN sinks
        /\ Sink \in TelemetrySink /\ Sink.target.kind # "none"
        /\ \A i \in DOMAIN sinks : sinks[i].name = Sink.name => i = cursor
        /\ Sink.target.kind = "basicAuth" => UpToDate(secrets[Sink.target.secret])
    BY <1>1, <1>3, SinkInHand DEF Quiet
  <2>3. Sink.target.kind \in {"open", "basicAuth"}
    BY <1>1, <2>2 DEF SinkPanics, TelemetrySink, Target, TargetKind
  <2>. DEFINE wanted == IF ExportableBy(secrets, Sink) THEN WantedBy(secrets, Sink)
                        ELSE Absent
  <2>4. draft' = [draft EXCEPT !.sinks[Sink.name] = wanted]
    <3>1. PICK outcome \in SecretError \cup {"ok"} :
            /\ Reading(Sink, outcome)
            /\ draft' = [draft EXCEPT !.sinks[Sink.name] =
                 SinkVectorConfig(Sink, outcome,
                   IF outcome = "ok" /\ Sink.target.kind = "basicAuth"
                     THEN Cached(secrets[Sink.target.secret]) ELSE Absent)]
      BY DEF ConfigureSink, Reading
    <3>2. SinkVectorConfig(Sink, outcome,
            IF outcome = "ok" /\ Sink.target.kind = "basicAuth"
              THEN Cached(secrets[Sink.target.secret]) ELSE Absent) = wanted
      BY <2>2, <2>3, <3>1, JudgeSink
    <3>. QED  BY <3>1, <3>2
  <2>. HIDE DEF wanted
  <2>5. Sink.name \in SinkNames /\ sinks \in Seq(TelemetrySink)
    BY <1>1, <2>2, SpecType DEF TelemetrySink, Types, WorkerOK, ExportPolicy
  <2>6. /\ draft'.sources = draft.sources
        /\ draft'.sinks[Sink.name] = wanted
        /\ \A m \in SinkNames \ {Sink.name} : draft'.sinks[m] = draft.sinks[m]
    BY <2>4, <2>5 DEF Types, TypeOK, Configuration
  <2>7. ASSUME NEW i \in DOMAIN sinks
        PROVE  /\ i < cursor + 1 => sinks[i].target.kind # "emptyAuth"
               /\ draft'.sinks[sinks[i].name] =
                    IF i < cursor + 1 /\ ExportableBy(secrets, sinks[i])
                      THEN WantedBy(secrets, sinks[i]) ELSE Absent
    <3>1. CASE i = cursor
      BY <2>3, <2>6, <3>1 DEF Sink, wanted, Types, TypeOK
    <3>2. CASE i # cursor
      <4>1. i < cursor + 1 <=> i < cursor
        BY <2>5, <3>2 DEF Types, TypeOK
      <4>2. sinks[i].name \in SinkNames \ {Sink.name}
        <5>1. sinks[i] \in TelemetrySink
          BY <2>5
        <5>2. sinks[i].name # Sink.name
          BY <2>2, <3>2
        <5>. QED  BY <5>1, <5>2 DEF TelemetrySink
      <4>3. draft'.sinks[sinks[i].name] = draft.sinks[sinks[i].name]
        BY <2>6, <4>2
      <4>. QED  BY <2>1, <4>1, <4>3 DEF ConfiguredBy
    <3>. QED  BY <3>1, <3>2
  <2>8. \A m \in SinkNames \ SinkNamesOf(obj.spec) : draft'.sinks[m] = Absent
    <3>1. Sink.name \in SinkNamesOf(obj.spec)
      BY <2>2 DEF Sink, SinkNamesOf, SinksOf
    <3>. QED  BY <2>1, <2>6, <3>1 DEF ConfiguredBy
  <2>. QED  BY <1>1, <2>1, <2>6, <2>7, <2>8 DEF ConfiguredBy
<1>4. RequestOK'
  <2>1. ~Unsettled(key)' => ~Unsettled(key)
    BY <1>1 DEF Unsettled, Due
  <2>2. ~Unsettled(key)' => obj' = StoredPolicy(key)' /\ ConfiguredOK'
    BY <1>1, <1>3, <2>1, SyncedThen DEF StoredPolicy
  <2>. QED  BY <1>1, <2>2 DEF RequestOK
<1>. QED  BY <1>1, <1>2, <1>4, StepQuiet

\* What the last step deploys is what the policy asks for.
LEMMA CreateOrUpdateQuiet ==
  ASSUME Types, Protocol, Owned, Undisturbed, Quiet, CreateOrUpdate,
         UNCHANGED missed
  PROVE  Quiet'
<1>1. /\ pc = "config" /\ ~MoreSinks
      /\ UNCHANGED <<policies, secrets, notices>>
      /\ key \in Policies /\ obj \in ExportPolicy /\ obj.uid \in UIDs
  BY DEF CreateOrUpdate, Types, WorkerOK, ExportPolicy
<1>2. CASE Requeue /\ UNCHANGED configs
  BY <1>1, <1>2, RequeueQuiet DEF Quiet, FreshConfigs
<1>3. CASE Return /\ PutConfig(obj.uid)
  <2>1. pc' = "idle" /\ key' = Absent /\ UNCHANGED queue
    BY <1>3 DEF Return, ForgetRequest
  <2>2. FreshConfigs' /\ \A u \in UIDs \ {obj.uid} : configs'[u] = configs[u]
    BY <1>1, <1>3, ConfigWrite DEF Quiet
  <2>3. RequestOK'
    BY <2>1 DEF RequestOK
  <2>4. Stored(configs'[obj.uid]) = draft
    <3>1. CASE Cached(configs[obj.uid]) = draft
      <4>1. Stored(configs[obj.uid]) = Cached(configs[obj.uid])
        BY <1>1, StoreEnds
        DEF Quiet, FreshConfigs, UpToDate, Types, TypeOK, Stored
      <4>. QED  BY <1>3, <3>1, <4>1 DEF PutConfig
    <3>2. CASE Cached(configs[obj.uid]) # draft
      <4>1. draft \in Configuration \cup {Absent}
        BY DEF Types, TypeOK
      <4>. QED
        BY <1>1, <1>3, <3>2, <4>1, StoreWriteDownstream DEF PutConfig, Types, TypeOK
    <3>. QED  BY <3>1, <3>2
  <2>5. ASSUME NEW p \in Policies, p = key, ~Unsettled(p)'
        PROVE  Synced(p)'
    <3>1. ~Unsettled(key)
      BY <1>1, <2>1, <2>5 DEF Unsettled, Due
    <3>2. /\ obj = StoredPolicy(key) /\ ~obj.deleting
          /\ ConfiguredBy(secrets, obj, cursor, draft)
      BY <1>1, <3>1, SyncedNow DEF Quiet, RequestOK, Protocol, ClaimOK
    <3>3. obj.spec.sinks \in Seq(TelemetrySink)
      BY <1>1, SpecType DEF ExportPolicy
    <3>4. \A i \in DOMAIN obj.spec.sinks : i < cursor
      BY <1>1, <3>3 DEF MoreSinks, Types, TypeOK
    <3>5. StatusBy(secrets, obj)
      BY <3>2, <3>4 DEF ConfiguredBy, SinksOf
    <3>6. draft # Absent
      BY AbsentAssumption DEF Types, TypeOK
    <3>7. ConfigBy(secrets, obj.spec, draft)
      BY <3>2, <3>4, <3>6 DEF ConfiguredBy, ConfigBy, SinksOf
    <3>8. SyncedBy(secrets', Stored(policies'[p]), configs')
      BY <1>1, <2>4, <2>5, <3>2, <3>5, <3>7 DEF SyncedBy, StoredPolicy
    <3>. QED  BY <3>8, SyncedThen
  <2>. QED  BY <1>1, <2>1, <2>2, <2>3, <2>5, StepQuiet
<1>. QED  BY <1>2, <1>3 DEF CreateOrUpdate

LEMMA ReconcileQuiet ==
  ASSUME Types, Protocol, LoopOK, Owned, Undisturbed, Quiet, Reconcile,
         UNCHANGED missed
  PROVE  Quiet'
<1>1. CASE Panic \/ Conflict \/ CallFails
  <2>1. /\ pc # "idle" /\ Requeue
        /\ UNCHANGED <<policies, secrets, configs, notices>>
    BY <1>1 DEF Panic, Conflict, CallFails, stores
  <2>2. FreshConfigs'
    BY <2>1 DEF Quiet, FreshConfigs
  <2>. QED  BY <2>1, <2>2, RequeueQuiet
<1>. QED
  BY <1>1, GetPolicyQuiet, FinalizeQuiet, UpdatePolicyQuiet, ValidateSinkQuiet,
     UpdateStatusQuiet, KeepStatusQuiet, ConfigureSinkQuiet,
     CreateOrUpdateQuiet, ReplyLostQuiet
  DEF Reconcile

-----------------------------------------------------------------------------
(* The work queue and restarts *)

LEMMA DequeueQuiet ==
  ASSUME Types, Protocol, Quiet, NEW q \in Policies, Dequeue(q),
         missed' = missed \ {q}
  PROVE  Quiet'
<1>1. /\ pc = "idle" /\ key = Absent /\ pc' = "get" /\ key' = q
      /\ queue' = queue \ {q}
      /\ UNCHANGED <<policies, secrets, configs, notices>>
  BY DEF Dequeue, stores, Quiet
<1>2. FreshConfigs'
  BY <1>1 DEF Quiet, FreshConfigs
<1>3. RequestOK'
  BY <1>1 DEF RequestOK
<1>4. ASSUME NEW p \in Policies, ~Unsettled(p)', key' # p
      PROVE  Synced(p)'
  <2>1. Untouched(p)
    BY <1>1, <1>4 DEF Untouched, Unsettled, Due, SameSecrets
  <2>2. Synced(p)
    BY <1>1, <2>1, AbsentAssumption DEF Quiet, AllSynced, Untouched
  <2>. QED  BY <1>1, <2>1, <2>2, UntouchedSynced
<1>. QED  BY <1>1, <1>2, <1>3, <1>4 DEF Quiet, AllSynced

LEMMA CrashQuiet ==
  ASSUME Types, Quiet, Crash, missed' = {}
  PROVE  Quiet'
<1>1. /\ pc' = "idle" /\ key' = Absent
      /\ queue' = {p \in Policies : Cached(policies[p]) # Absent}
      /\ UNCHANGED <<policies, secrets, configs>>
  BY DEF Crash, ForgetRequest, stores
<1>2. FreshConfigs'
  BY <1>1 DEF Quiet, FreshConfigs
<1>3. RequestOK'
  BY <1>1 DEF RequestOK
<1>4. ASSUME NEW p \in Policies, ~Unsettled(p)'
      PROVE  Synced(p)'
  <2>1. Cached(policies[p]) = Absent /\ UpToDate(policies[p])
    BY <1>1, <1>4 DEF Unsettled, Due
  <2>2. Stored(policies[p]) = Absent
    BY <2>1, StoreEnds DEF Types, TypeOK, UpToDate, Stored
  <2>. QED  BY <1>1, <2>2, SyncedThen DEF SyncedBy
<1>. QED  BY <1>1, <1>2, <1>3, <1>4 DEF Quiet, AllSynced

LEMMA StutterQuiet ==
  ASSUME Types, Protocol, Quiet, UNCHANGED quietVars
  PROVE  Quiet'
<1>1. /\ UNCHANGED <<policies, secrets, configs, queue, notices, missed>>
      /\ UNCHANGED request
  BY DEF quietVars, vars, stores
<1>2. \A p \in Policies : ~Unsettled(p)' => Untouched(p)
  BY <1>1 DEF Untouched, Unsettled, Due, SameSecrets
<1>3. FreshConfigs'
  BY <1>1 DEF Quiet, FreshConfigs
<1>4. (pc = "idle" => key = Absent)'
  BY <1>1 DEF Quiet, request
<1>5. RequestOK'
  BY <1>1, <1>2, UntouchedRequest DEF Quiet
<1>6. ASSUME NEW p \in Policies, ~Unsettled(p)', key' # p
      PROVE  Synced(p)'
  <2>1. Untouched(p) /\ Synced(p)
    BY <1>1, <1>2, <1>6 DEF Quiet, AllSynced, Untouched, request
  <2>. QED  BY <1>1, <2>1, UntouchedSynced
<1>. QED  BY <1>1, <1>3, <1>4, <1>5, <1>6 DEF Quiet, AllSynced

LEMMA NextQuiet ==
  ASSUME Types, Protocol, LoopOK, Owned, Undisturbed, Quiet,
         [QuietNext]_quietVars
  PROVE  Quiet'
BY EnvironmentQuiet, DequeueQuiet, ReconcileQuiet, CrashQuiet, StutterQuiet
DEF QuietNext

LEMMA InitQuiet == QuietInit => Owned /\ Quiet
<1>. SUFFICES ASSUME QuietInit
              PROVE  Owned /\ Quiet
  OBVIOUS
<1>1. /\ \A p \in Policies : policies[p] = <<Absent>>
      /\ \A u \in UIDs : configs[u] = <<Absent>>
      /\ pc = "idle" /\ key = Absent /\ missed = {}
  BY DEF QuietInit, Init
<1>2. \A p \in Policies : Versions(policies[p]) = {} /\ ~Exists(p)
  BY <1>1 DEF Versions, Exists, StoredPolicy, Stored
<1>3. \A p \in Policies : Synced(p)
  BY <1>2 DEF Synced
<1>4. FreshConfigs
  BY <1>1 DEF FreshConfigs, UpToDate
<1>5. Owned
  BY <1>1, <1>2 DEF Owned, NoZombie, NamesOwnUIDs, UIDsOf
<1>. QED  BY <1>1, <1>3, <1>4, <1>5 DEF Quiet, AllSynced, RequestOK

-----------------------------------------------------------------------------

\* The history adds nothing to what the controller does.
LEMMA QuietIsController == QuietSpec => Spec
<1>1. QuietInit => Init
  BY DEF QuietInit
<1>2. [QuietNext]_quietVars => [Next]_vars
  BY DEF QuietNext, QuietInformer, Next, Informer, quietVars
<1>. QED  BY <1>1, <1>2, PTL DEF QuietSpec, Spec

\* While the operator is undisturbed, no requeue and no second reading of a
\* Secret is forgotten, and no event but those of Secrets that the map function
\* could not list the policies for (SetupWithManager): whatever is not on its
\* way to be repaired, and had no such event, is right.
THEOREM QuietInvariantHolds == Undisturbed => (QuietSpec => []QuietInvariant)
<1>. SUFFICES ASSUME Undisturbed
              PROVE  QuietSpec => []QuietInvariant
  OBVIOUS
<1>1. QuietInit => QuietInvariant
  BY InitQuiet, QuietParts
<1>2. QuietInvariant /\ ControllerInvariant /\ StatusInvariant
      /\ [QuietNext]_quietVars => QuietInvariant'
  <2>. SUFFICES ASSUME QuietInvariant, ControllerInvariant, StatusInvariant,
                       [QuietNext]_quietVars
                PROVE  QuietInvariant'
    OBVIOUS
  <2>1. Types /\ Protocol /\ LoopOK /\ Owned /\ Quiet
    BY InvariantParts, QuietParts DEF StatusInvariant
  <2>2. [Next]_vars
    BY DEF QuietNext, QuietInformer, Next, Informer, quietVars
  <2>3. Owned' /\ Quiet'
    BY <2>1, <2>2, NextOwned, NextQuiet
  <2>. QED
    BY <2>3 DEF Owned, Quiet, QuietInvariant, FreshConfigs, AllSynced
<1>. QED
  BY <1>1, <1>2, QuietIsController, InvariantHolds, StatusInvariantHolds, PTL
  DEF QuietSpec

\* When nothing is queued, in flight or undelivered, every policy is what its
\* status says and what is deployed for it, except those whose Secret changed
\* in an event that could not be mapped.
THEOREM QuietMeansSynced == Undisturbed => (QuietSpec => []QuiescentSynced)
<1>1. QuietInvariant => QuiescentSynced
  <2>. SUFFICES ASSUME QuietInvariant, Quiescent, NEW p \in Policies \ missed
                PROVE  Synced(p)
    BY DEF QuiescentSynced
  <2>1. ~Unsettled(p)
    BY DEF Quiescent, Unsettled, Due
  <2>2. key # p
    BY AbsentAssumption DEF QuietInvariant, Quiescent
  <2>. QED  BY <2>1, <2>2 DEF QuietInvariant
<1>. QED  BY <1>1, QuietInvariantHolds, PTL
=============================================================================
