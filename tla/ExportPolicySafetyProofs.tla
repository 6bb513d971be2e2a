----------------------- MODULE ExportPolicySafetyProofs -----------------------
(***************************************************************************)
(* The inductive invariant of the ExportPolicy controller is one, and with *)
(* it: no configuration is orphaned, and the reconciler undoes no edit.    *)
(***************************************************************************)
EXTENDS ExportPolicyControllerProofs

-----------------------------------------------------------------------------
(* The log of one policy *)

PolicyOrAbsent == ExportPolicy \cup {Absent}

\* What an API server may append to the log of a policy: its removal, once the
\* cache cannot show it as claimed; a new policy; or the next version.
Removal(log, v) ==
  /\ v = Absent
  /\ \A i \in Versions(log) : log[i].finalizer => log[i].deleting

Creation(log, v, used) ==
  /\ v # Absent
  /\ Stored(log) = Absent
  /\ v.uid \notin used

NextVersion(log, v) ==
  /\ v # Absent /\ Stored(log) # Absent
  /\ v.uid = Stored(log).uid
  /\ v.rv = Stored(log).rv + 1
  /\ Stored(log).deleting => v.deleting
  /\ Stored(log).finalizer => v.finalizer

LEMMA LogOKAppend ==
  ASSUME NEW log \in Seq(PolicyOrAbsent), Len(log) > 0, NEW used,
         LogOK(log, used), NEW v \in PolicyOrAbsent,
         Removal(log, v) \/ Creation(log, v, used) \/ NextVersion(log, v),
         NEW used2, used \subseteq used2, v # Absent => v.uid \in used2
  PROVE  LogOK(Append(log, v), used2)
<1>. DEFINE new == Append(log, v)
            n == Len(log) + 1
<1>1. /\ DOMAIN log = 1 .. Len(log) /\ Len(log) \in Nat \ {0}
      /\ DOMAIN new = 1 .. n
      /\ Stored(new) = v /\ new[n] = v
      /\ \A i \in 1 .. Len(log) : new[i] = log[i] /\ log[i] \in PolicyOrAbsent
  BY LogAppend DEF Stored
<1>2. \A i \in Versions(new) : \/ i = n /\ v # Absent
                               \/ i # n /\ i \in Versions(log) /\ new[i] = log[i]
  BY <1>1 DEF Versions
<1>3. Stored(log) # Absent => Len(log) \in Versions(log)
  BY <1>1 DEF Versions, Stored
<1>. HIDE DEF new
<1>4. ASSUME NEW i \in Versions(new)
      PROVE  new[i].uid \in used2
  BY <1>1, <1>2, <1>4 DEF LogOK
<1>5. ASSUME NEW i \in Versions(new), NEW j \in Versions(new),
             i < j, new[i].uid = new[j].uid
      PROVE  new[i].rv < new[j].rv /\ (new[i].deleting => new[j].deleting)
  <2>1. i # n /\ i \in Versions(log) /\ new[i] = log[i]
    BY <1>1, <1>2, <1>5 DEF Versions
  <2>2. CASE j # n
    BY <1>2, <1>5, <2>1, <2>2 DEF LogOK
  <2>3. CASE j = n
    <3>1. NextVersion(log, v)
      BY <1>1, <1>2, <1>5, <2>1, <2>3 DEF LogOK, Removal, Creation
    <3>2. Stored(log) = log[Len(log)] /\ Len(log) \in Versions(log)
      BY <1>3, <3>1 DEF NextVersion, Stored
    <3>3. log[i].rv \in Nat /\ Stored(log).rv \in Nat
      BY <1>1, <2>1, <3>2 DEF Versions, ExportPolicy, PolicyOrAbsent
    <3>4. /\ log[i].rv <= Stored(log).rv
          /\ log[i].deleting => Stored(log).deleting
      <4>1. CASE i = Len(log)
        BY <3>2, <3>3, <4>1
      <4>2. CASE i < Len(log)
        BY <1>1, <1>5, <2>1, <2>3, <3>1, <3>2, <3>3, <4>2 DEF LogOK, NextVersion
      <4>. QED  BY <1>1, <2>1, <4>1, <4>2 DEF Versions
    <3>. QED  BY <1>1, <2>1, <2>3, <3>1, <3>3, <3>4 DEF NextVersion
  <2>. QED  BY <2>2, <2>3
<1>6. ASSUME NEW i \in Versions(new), new[i].finalizer, ~new[i].deleting
      PROVE  /\ Stored(new) # Absent
             /\ Stored(new).uid = new[i].uid
             /\ Stored(new).finalizer
  <2>1. CASE i = n
    BY <1>1, <1>2, <1>6, <2>1
  <2>2. CASE i # n
    <3>1. i \in Versions(log) /\ new[i] = log[i]
      BY <1>2, <2>2
    <3>2. NextVersion(log, v)
      BY <1>6, <3>1 DEF LogOK, Removal, Creation
    <3>. QED  BY <1>1, <1>6, <3>1, <3>2 DEF LogOK, NextVersion
  <2>. QED  BY <2>1, <2>2
<1>. QED  BY <1>4, <1>5, <1>6 DEF LogOK, new

LEMMA LogOKTail ==
  ASSUME NEW log \in Seq(PolicyOrAbsent), Len(log) > 0, ~UpToDate(log),
         NEW used, LogOK(log, used)
  PROVE  LogOK(Tail(log), used)
<1>. DEFINE new == Tail(log)
<1>1. /\ DOMAIN log = 1 .. Len(log) /\ Len(log) \in Nat
      /\ DOMAIN new = 1 .. Len(log) - 1
      /\ Stored(new) = Stored(log)
      /\ \A i \in DOMAIN new : new[i] = log[i + 1]
  BY LogTail
<1>2. \A i \in Versions(new) : /\ i \in Nat
                               /\ i + 1 \in Versions(log)
                               /\ new[i] = log[i + 1]
  BY <1>1 DEF Versions
<1>. HIDE DEF new
<1>3. ASSUME NEW i \in Versions(new), NEW j \in Versions(new),
             i < j, new[i].uid = new[j].uid
      PROVE  new[i].rv < new[j].rv /\ (new[i].deleting => new[j].deleting)
  <2>1. i + 1 < j + 1
    BY <1>2, <1>3
  <2>. QED  BY <1>2, <1>3, <2>1 DEF LogOK
<1>4. ASSUME NEW i \in Versions(new)
      PROVE  /\ new[i].uid \in used
             /\ (new[i].finalizer /\ ~new[i].deleting) =>
                  /\ Stored(new) # Absent
                  /\ Stored(new).uid = new[i].uid
                  /\ Stored(new).finalizer
  BY <1>1, <1>2, <1>4 DEF LogOK
<1>5. LogOK(new, used)
  BY <1>3, <1>4 DEF LogOK
<1>. QED  BY <1>5 DEF new

-----------------------------------------------------------------------------
(* Steps that write a policy *)

Protocol ==
  /\ \A p \in Policies : LogOK(policies[p], usedUIDs)
  /\ CopyOK
  /\ FinalizeOK
  /\ ClaimOK
  /\ NoOrphanConfig

\* A write to policy p that a user has made: nobody else adds to the used UIDs,
\* and a policy with the finalizer keeps it.
UserWrite(p, v) ==
  /\ v \in PolicyOrAbsent
  /\ \/ Creation(policies[p], v, usedUIDs)
     \/ NextVersion(policies[p], v)
     \/ v = Absent /\ Exists(p) /\ ~StoredPolicy(p).finalizer
  /\ policies' = [policies EXCEPT ![p] = Write(@, v)]
  /\ usedUIDs \subseteq usedUIDs'
  /\ v # Absent => v.uid \in usedUIDs'
  /\ UNCHANGED <<configs, request>>

\* The logs of all policies after a legitimate write to one of them.
LEMMA LogsAfterWrite ==
  ASSUME TypeOK, \A p \in Policies : LogOK(policies[p], usedUIDs),
         NEW p \in Policies, NEW v \in PolicyOrAbsent,
         \/ Removal(policies[p], v)
         \/ Creation(policies[p], v, usedUIDs)
         \/ NextVersion(policies[p], v),
         policies' = [policies EXCEPT ![p] = Write(@, v)],
         usedUIDs \subseteq usedUIDs', v # Absent => v.uid \in usedUIDs'
  PROVE  /\ \A q \in Policies : LogOK(policies'[q], usedUIDs')
         /\ Stored(policies'[p]) = v
         /\ \A q \in Policies \ {p} : policies'[q] = policies[q]
         /\ policies'[p] = Append(policies[p], v)
<1>1. policies \in [Policies -> Logs(ExportPolicy)]
  BY DEF TypeOK
<1>2. /\ policies[p] \in Seq(PolicyOrAbsent) /\ Len(policies[p]) > 0
      /\ policies'[p] = Append(policies[p], v)
      /\ \A q \in Policies \ {p} : policies'[q] = policies[q]
  BY <1>1 DEF Logs, PolicyOrAbsent, Write
<1>3. Stored(policies'[p]) = v
  <2>1. Stored(Append(policies[p], v)) = v
    BY <1>2, LogAppend
  <2>. QED  BY <1>2, <2>1
<1>4. LogOK(policies'[p], usedUIDs')
  BY <1>2, LogOKAppend
<1>5. ASSUME NEW q \in Policies \ {p} PROVE LogOK(policies'[q], usedUIDs')
  BY <1>2 DEF LogOK
<1>. QED  BY <1>2, <1>3, <1>4, <1>5

\* The stored policy is the last of its log.
LEMMA StoredIsVersion ==
  ASSUME TypeOK, NEW p \in Policies, Exists(p)
  PROVE  /\ Len(policies[p]) \in Versions(policies[p])
         /\ policies[p][Len(policies[p])] = StoredPolicy(p)
         /\ StoredPolicy(p) \in ExportPolicy
<1>1. policies[p] \in Seq(PolicyOrAbsent) /\ Len(policies[p]) > 0
  BY DEF TypeOK, Logs, PolicyOrAbsent
<1>2. StoredPolicy(p) \in ExportPolicy
  BY StoreEnds DEF TypeOK, Exists, StoredPolicy
<1>. QED  BY <1>1, <1>2 DEF Versions, Exists, StoredPolicy, Stored

LEMMA UserWriteProtocol ==
  ASSUME Types, Protocol, NEW p \in Policies, NEW v, UserWrite(p, v)
  PROVE  Protocol'
<1>. USE DEF StoredPolicy, Exists
<1>1. Removal(policies[p], v) \/ Creation(policies[p], v, usedUIDs)
        \/ NextVersion(policies[p], v)
  BY DEF UserWrite, Removal, Protocol, LogOK
<1>2. /\ \A q \in Policies : LogOK(policies'[q], usedUIDs')
      /\ Stored(policies'[p]) = v
      /\ \A q \in Policies \ {p} : policies'[q] = policies[q]
      /\ policies'[p] = Append(policies[p], v)
  BY <1>1, LogsAfterWrite DEF UserWrite, Types, Protocol
<1>3. /\ UNCHANGED <<configs, pc, key, obj>>
      /\ usedUIDs \subseteq usedUIDs'
  BY DEF UserWrite, request
<1>4. ASSUME pc \notin {"idle", "get"} PROVE key \in Policies /\ obj \in ExportPolicy
  BY <1>4 DEF Types, WorkerOK
<1>5. CopyOK'
  <2>. SUFFICES ASSUME pc \notin {"idle", "get"} PROVE CopyOK'
    BY <1>3 DEF CopyOK
  <2>1. CASE key # p
    BY <1>2, <1>3, <1>4, <2>1 DEF CopyOK, Protocol
  <2>2. CASE key = p
    <3>1. obj.uid \in usedUIDs'
      BY <1>3 DEF CopyOK, Protocol
    <3>2. ASSUME v # Absent, v.uid = obj.uid
          PROVE  obj.rv < v.rv
      <4>1. NextVersion(policies[p], v)
        BY <3>2 DEF UserWrite, Creation, CopyOK, Protocol
      <4>2. obj.rv <= Stored(policies[p]).rv
        BY <2>2, <3>2, <4>1 DEF NextVersion, CopyOK, Protocol
      <4>3. obj.rv \in Nat /\ Stored(policies[p]).rv \in Nat
        BY <1>4, <4>1, StoredIsVersion DEF NextVersion, ExportPolicy, Types
      <4>. QED  BY <4>1, <4>2, <4>3 DEF NextVersion
    <3>3. v # Absent => v.rv \in Nat
      BY DEF UserWrite, PolicyOrAbsent, ExportPolicy
    <3>4. obj.rv \in Nat
      BY <1>4 DEF ExportPolicy
    <3>5. ASSUME v # Absent, v.uid = obj.uid
          PROVE  obj.rv <= v.rv /\ obj.rv # v.rv
      BY <3>2, <3>3, <3>4, <3>5
    <3>. QED  BY <1>2, <1>3, <2>2, <3>1, <3>5 DEF CopyOK
  <2>. QED  BY <2>1, <2>2
<1>6. FinalizeOK'
  <2>. SUFFICES ASSUME pc \in {"finalize", "update"} PROVE FinalizeOK'
    BY <1>3 DEF FinalizeOK
  <2>1. ASSUME obj.deleting, NEW i \in Versions(policies'[key]),
               policies'[key][i].uid = obj.uid
        PROVE  policies'[key][i].deleting
    <3>1. CASE key # p
      BY <1>2, <1>4, <2>1, <3>1 DEF FinalizeOK, Protocol
    <3>2. CASE key = p
      <4>1. policies[p] \in Seq(PolicyOrAbsent) /\ Len(policies[p]) > 0
        BY DEF Types, TypeOK, Logs, PolicyOrAbsent
      <4>2. CASE i \in 1 .. Len(policies[p])
        <5>1. i \in Versions(policies[p]) /\ policies'[p][i] = policies[p][i]
          BY <1>2, <2>1, <3>2, <4>1, <4>2, LogAppend DEF Versions, UserWrite
        <5>. QED  BY <2>1, <3>2, <5>1 DEF FinalizeOK, Protocol
      <4>3. CASE i \notin 1 .. Len(policies[p])
        <5>1. policies'[p][i] = v /\ v # Absent
          BY <1>2, <2>1, <3>2, <4>1, <4>3 DEF Versions, UserWrite
        <5>2. NextVersion(policies[p], v)
          BY <2>1, <3>2, <5>1 DEF UserWrite, Creation, CopyOK, Protocol
        <5>3. Stored(policies[p]).deleting
          BY <2>1, <3>2, <5>1, <5>2, StoredIsVersion
          DEF NextVersion, FinalizeOK, Protocol, Types
        <5>. QED  BY <3>2, <5>1, <5>2, <5>3 DEF NextVersion
      <4>. QED  BY <4>2, <4>3
    <3>. QED  BY <3>1, <3>2
  <2>. QED  BY <1>3, <2>1 DEF FinalizeOK, Protocol
<1>7. ClaimOK'
  <2>. SUFFICES ASSUME pc \in {"status", "config"} PROVE ClaimOK'
    BY <1>3 DEF ClaimOK
  <2>1. CASE key # p
    BY <1>2, <1>3, <1>4, <2>1 DEF ClaimOK, Protocol
  <2>2. CASE key = p
    <3>1. NextVersion(policies[p], v)
      BY <2>2 DEF UserWrite, Creation, ClaimOK, Protocol
    <3>. QED  BY <1>2, <1>3, <2>2, <3>1 DEF NextVersion, ClaimOK, Protocol
  <2>. QED  BY <2>1, <2>2
<1>8. NoOrphanConfig'
  <2>. SUFFICES ASSUME NEW u \in UIDs, Stored(configs[u]) # Absent
                PROVE  \E q \in Policies : /\ Stored(policies'[q]) # Absent
                                           /\ Stored(policies'[q]).uid = u
                                           /\ Stored(policies'[q]).finalizer
    BY <1>3 DEF NoOrphanConfig
  <2>1. PICK q \in Policies : /\ Exists(q)
                              /\ StoredPolicy(q).uid = u
                              /\ StoredPolicy(q).finalizer
    BY DEF NoOrphanConfig, Protocol
  <2>2. CASE q = p
    BY <1>2, <2>1, <2>2 DEF UserWrite, Creation, NextVersion
  <2>3. CASE q # p
    BY <1>2, <2>1, <2>3
  <2>. QED  BY <2>2, <2>3
<1>. QED  BY <1>2, <1>5, <1>6, <1>7, <1>8 DEF Protocol

-----------------------------------------------------------------------------
(* Users, others downstream, and informers *)

\* A step that leaves the policies and the request alone, and makes no
\* configuration appear.
LEMMA FrameProtocol ==
  ASSUME Types, Protocol,
         UNCHANGED <<policies, usedUIDs, pc, key, obj>>,
         \A u \in UIDs : Stored(configs[u]) = Absent => Stored(configs'[u]) = Absent
  PROVE  Protocol'
<1>1. \A q \in Policies : LogOK(policies'[q], usedUIDs')
  BY DEF Protocol
<1>2. CopyOK' /\ ClaimOK'
  BY DEF Protocol, CopyOK, ClaimOK, StoredPolicy, Exists
<1>3. FinalizeOK'
  BY DEF Protocol, FinalizeOK, Types, WorkerOK, ExportPolicy
<1>4. NoOrphanConfig'
  BY DEF Protocol, NoOrphanConfig, StoredPolicy, Exists
<1>. QED  BY <1>1, <1>2, <1>3, <1>4 DEF Protocol

LEMMA UserProtocol ==
  ASSUME Types, Protocol, User
  PROVE  Protocol'
<1>1. ASSUME NEW p \in Policies, NEW u \in UIDs, NEW spec \in Specs,
             CreatePolicy(p, u, spec)
      PROVE  Protocol'
  <2>. DEFINE new == [uid |-> u, rv |-> 1, generation |-> 1, spec |-> spec,
                      finalizer |-> FALSE, deleting |-> FALSE,
                      status |-> NoStatus]
  <2>1. new \in ExportPolicy /\ new.uid = u
    BY NoStatusType DEF ExportPolicy
  <2>2. policies' = [policies EXCEPT ![p] = Write(@, new)]
    BY <1>1 DEF CreatePolicy
  <2>. HIDE DEF new
  <2>3. new # Absent
    BY <2>1, AbsentAssumption
  <2>4. UserWrite(p, new)
    BY <1>1, <2>1, <2>2, <2>3
    DEF CreatePolicy, UserWrite, Creation, PolicyOrAbsent
  <2>. QED  BY <2>4, UserWriteProtocol
<1>2. ASSUME NEW p \in Policies, NEW spec \in Specs, UpdateSpec(p, spec)
      PROVE  Protocol'
  <2>. DEFINE stored == Stored(policies[p])
              new == [stored EXCEPT !.spec = spec, !.generation = @ + 1,
                                    !.rv = @ + 1]
  <2>1. stored \in ExportPolicy /\ stored # Absent
    <3>1. stored # Absent
      BY <1>2 DEF UpdateSpec
    <3>2. policies \in [Policies -> Logs(ExportPolicy)]
      BY DEF Types, TypeOK
    <3>3. stored \in ExportPolicy \cup {Absent}
      BY <3>2, StoreEnds
    <3>. QED  BY <3>1, <3>3
  <2>2. /\ new \in ExportPolicy /\ new # Absent
        /\ new.uid = stored.uid /\ new.rv = stored.rv + 1
        /\ new.deleting = stored.deleting /\ new.finalizer = stored.finalizer
    <3>1. new \in ExportPolicy
      BY <2>1, PolicyVersions
    <3>2. /\ new.uid = stored.uid /\ new.rv = stored.rv + 1
          /\ new.deleting = stored.deleting /\ new.finalizer = stored.finalizer
      BY <2>1, PolicyVersionFields
    <3>. QED  BY <3>1, <3>2, AbsentAssumption
  <2>3. policies' = [policies EXCEPT ![p] = Write(@, new)]
    BY <1>2 DEF UpdateSpec
  <2>4. stored.uid \in usedUIDs
    BY <2>1, StoredIsVersion DEF Protocol, LogOK, Types, StoredPolicy, Exists
  <2>. HIDE DEF new
  <2>5. UserWrite(p, new)
    BY <1>2, <2>1, <2>2, <2>3, <2>4
    DEF UpdateSpec, UserWrite, NextVersion, PolicyOrAbsent
  <2>. QED  BY <2>5, UserWriteProtocol
<1>3. ASSUME NEW p \in Policies, DeletePolicy(p)
      PROVE  Protocol'
  <2>. DEFINE stored == Stored(policies[p])
              marked == [stored EXCEPT !.deleting = TRUE,
                                       !.generation = @ + 1, !.rv = @ + 1]
  <2>1. stored \in ExportPolicy /\ stored # Absent
    <3>1. stored # Absent
      BY <1>3 DEF DeletePolicy
    <3>2. policies \in [Policies -> Logs(ExportPolicy)]
      BY DEF Types, TypeOK
    <3>3. stored \in ExportPolicy \cup {Absent}
      BY <3>2, StoreEnds
    <3>. QED  BY <3>1, <3>3
  <2>2. /\ marked \in ExportPolicy /\ marked # Absent
        /\ marked.uid = stored.uid /\ marked.rv = stored.rv + 1
        /\ marked.deleting /\ marked.finalizer = stored.finalizer
    <3>1. marked \in ExportPolicy
      BY <2>1, PolicyVersions
    <3>2. /\ marked.uid = stored.uid /\ marked.rv = stored.rv + 1
          /\ marked.deleting /\ marked.finalizer = stored.finalizer
      BY <2>1, PolicyVersionFields
    <3>. QED  BY <3>1, <3>2, AbsentAssumption
  <2>3. policies' = [policies EXCEPT ![p] = Write(@,
          IF stored.finalizer THEN marked ELSE Absent)]
    BY <1>3 DEF DeletePolicy
  <2>4. stored.uid \in usedUIDs
    BY <2>1, StoredIsVersion DEF Protocol, LogOK, Types, StoredPolicy, Exists
  <2>. HIDE DEF marked
  <2>5. UserWrite(p, IF stored.finalizer THEN marked ELSE Absent)
    BY <1>3, <2>1, <2>2, <2>3, <2>4
    DEF DeletePolicy, UserWrite, NextVersion, PolicyOrAbsent, Exists, StoredPolicy
  <2>. QED  BY <2>5, UserWriteProtocol
<1>4. ASSUME NEW s \in Secrets, NEW v \in SecretObjects \cup {Absent},
             WriteSecret(s, v)
      PROVE  Protocol'
  BY <1>4, FrameProtocol DEF WriteSecret, request
<1>5. ASSUME NEW u \in UIDs, NEW v \in {Absent, EmptyConfiguration},
             Drift(u, v)
      PROVE  Protocol'
  <2>1. \A w \in UIDs \ {u} : configs'[w] = configs[w]
    BY <1>5, EmptyConfigurationType, StoreWriteDownstream DEF Drift, Types, TypeOK
  <2>2. \A w \in UIDs : Stored(configs[w]) = Absent => Stored(configs'[w]) = Absent
    BY <1>5, <2>1 DEF Drift
  <2>. QED  BY <1>5, <2>2, FrameProtocol DEF Drift, request
<1>. QED  BY <1>1, <1>2, <1>3, <1>4, <1>5 DEF User

LEMMA InformerProtocol ==
  ASSUME Types, Protocol, Informer
  PROVE  Protocol'
<1>1. ASSUME NEW p \in Policies, DeliverPolicy(p) PROVE Protocol'
  <2>1. /\ policies \in [Policies -> Logs(ExportPolicy)]
        /\ policies' = [policies EXCEPT ![p] = Tail(@)]
        /\ ~UpToDate(policies[p])
        /\ UNCHANGED <<configs, usedUIDs, pc, key, obj>>
    BY <1>1 DEF DeliverPolicy, Types, TypeOK, request
  <2>2. policies[p] \in Seq(PolicyOrAbsent) /\ Len(policies[p]) > 0
    BY <2>1 DEF Logs, PolicyOrAbsent
  <2>3. \A q \in Policies : Stored(policies'[q]) = Stored(policies[q])
    BY <2>1, StoreDeliver
  <2>4. \A q \in Policies : LogOK(policies'[q], usedUIDs')
    <3>1. LogOK(Tail(policies[p]), usedUIDs)
      BY <2>1, <2>2, LogOKTail DEF Protocol
    <3>. QED  BY <2>1, <3>1 DEF Protocol
  <2>5. CopyOK' /\ ClaimOK' /\ NoOrphanConfig'
    BY <2>1, <2>3 DEF Protocol, CopyOK, ClaimOK, NoOrphanConfig, StoredPolicy,
                      Exists, Types, WorkerOK
  <2>6. FinalizeOK'
    <3>1. ASSUME NEW i \in Versions(Tail(policies[p]))
          PROVE  /\ i + 1 \in Versions(policies[p])
                 /\ Tail(policies[p])[i] = policies[p][i + 1]
      BY <2>1, <2>2, LogTail DEF Versions
    <3>2. CASE key = p
      BY <2>1, <3>1, <3>2 DEF Protocol, FinalizeOK
    <3>3. CASE key # p
      BY <2>1, <3>3 DEF Protocol, FinalizeOK, Types, WorkerOK
    <3>. QED  BY <3>2, <3>3
  <2>. QED  BY <2>4, <2>5, <2>6 DEF Protocol
<1>2. ASSUME NEW p \in Policies, Resync(p) PROVE Protocol'
  BY <1>2, FrameProtocol DEF Resync, stores, request
<1>3. ASSUME NEW s \in Secrets, DeliverSecret(s) PROVE Protocol'
  BY <1>3, FrameProtocol DEF DeliverSecret, request
<1>4. ASSUME NEW s \in Secrets, MapSecret(s) PROVE Protocol'
  BY <1>4, FrameProtocol DEF MapSecret, stores, request
<1>5. ASSUME NEW u \in UIDs, DeliverConfig(u) PROVE Protocol'
  <2>1. \A w \in UIDs : Stored(configs'[w]) = Stored(configs[w])
    BY <1>5, StoreDeliver DEF DeliverConfig, Types, TypeOK
  <2>. QED  BY <1>5, <2>1, FrameProtocol DEF DeliverConfig, request
<1>6. ASSUME NEW s \in Secrets, MapSecretFails(s) PROVE Protocol'
  BY <1>6, FrameProtocol DEF MapSecretFails, stores, request
<1>. QED  BY <1>1, <1>2, <1>3, <1>4, <1>5, <1>6 DEF Informer

-----------------------------------------------------------------------------
(* The reconciler *)

\* When the reconciler drops its request only the stores matter.
LEMMA ForgetProtocol ==
  ASSUME ForgetRequest, NoOrphanConfig',
         \A p \in Policies : LogOK(policies'[p], usedUIDs')
  PROVE  Protocol'
BY DEF ForgetRequest, Protocol, CopyOK, FinalizeOK, ClaimOK

LEMMA ForgetFrameProtocol ==
  ASSUME Protocol, ForgetRequest, UNCHANGED <<policies, configs, usedUIDs>>
  PROVE  Protocol'
<1>1. NoOrphanConfig'
  BY DEF Protocol, NoOrphanConfig, StoredPolicy, Exists
<1>. QED  BY <1>1, ForgetProtocol DEF Protocol

\* The write of a copy that differs from the policy the reconciler has read
\* in its status only.
LEMMA PutPolicyProtocol ==
  ASSUME Types, Protocol, UNCHANGED <<configs, usedUIDs>>,
         \/ pc = "update"
         \/ pc = "status",
         NEW copy \in ExportPolicy, NoConflict(copy), PutPolicy(copy),
         copy.uid = obj.uid, copy.rv = obj.rv,
         copy.deleting = obj.deleting, copy.finalizer = obj.finalizer
  PROVE  /\ \A q \in Policies : LogOK(policies'[q], usedUIDs')
         /\ NoOrphanConfig'
         /\ ~copy.deleting => Stored(policies'[key]) = [copy EXCEPT !.rv = @ + 1]
<1>. DEFINE put == IF copy.deleting /\ ~copy.finalizer THEN Absent
                   ELSE [copy EXCEPT !.rv = @ + 1]
            next == [copy EXCEPT !.rv = @ + 1]
<1>1. key \in Policies /\ obj \in ExportPolicy
  BY DEF Types, WorkerOK
<1>2. /\ put \in PolicyOrAbsent
      /\ policies' = [policies EXCEPT ![key] = Write(@, put)]
  BY <1>1, PutPolicyTypes DEF Types, TypeOK, PolicyOrAbsent
<1>3. /\ next \in ExportPolicy /\ next # Absent
      /\ next.uid = copy.uid /\ next.rv = copy.rv + 1
      /\ next.deleting = copy.deleting /\ next.finalizer = copy.finalizer
  <2>1. next \in ExportPolicy
    BY PolicyVersions
  <2>2. next # Absent
    BY <2>1, AbsentAssumption
  <2>. QED  BY <2>1, <2>2, StoredCopyFields
<1>. DEFINE stored == StoredPolicy(key)
<1>4. /\ Exists(key) /\ stored.uid = obj.uid /\ stored.rv = obj.rv
      /\ stored.deleting = obj.deleting
  BY DEF NoConflict, Exists, StoredPolicy, Protocol, CopyOK
<1>5. stored.uid \in usedUIDs
  BY <1>4 DEF Protocol, CopyOK
<1>6. CASE copy.deleting /\ ~copy.finalizer
  <2>1. put = Absent
    BY <1>6
  <2>2. pc = "update"
    BY <1>6 DEF Protocol, ClaimOK
  <2>3. Removal(policies[key], put)
    BY <1>1, <1>4, <1>6, <2>1, <2>2
    DEF Removal, Protocol, LogOK, FinalizeOK, StoredPolicy
  <2>. HIDE DEF put
  <2>4. /\ \A q \in Policies : LogOK(policies'[q], usedUIDs')
        /\ Stored(policies'[key]) = Absent
        /\ \A q \in Policies \ {key} : policies'[q] = policies[q]
    BY <1>1, <1>2, <2>1, <2>3, LogsAfterWrite DEF Protocol, Types
  <2>5. Stored(configs[obj.uid]) = Absent
    BY <1>6, <2>2 DEF Protocol, FinalizeOK
  <2>6. NoOrphanConfig'
    BY <1>4, <2>4, <2>5 DEF Protocol, NoOrphanConfig, Exists, StoredPolicy
  <2>. QED  BY <1>6, <2>4, <2>6
<1>7. CASE ~(copy.deleting /\ ~copy.finalizer)
  <2>1. put = next
    BY <1>7
  <2>2. copy.finalizer
    BY <1>7 DEF Protocol, FinalizeOK, ClaimOK
  <2>3. NextVersion(policies[key], put)
    BY <1>3, <1>4, <2>1, <2>2 DEF NextVersion, Exists, StoredPolicy
  <2>4. put.uid \in usedUIDs /\ put.finalizer /\ put.uid = obj.uid
        /\ put # Absent
    BY <1>3, <1>4, <1>5, <2>1, <2>2
  <2>. HIDE DEF put, next
  <2>5. /\ \A q \in Policies : LogOK(policies'[q], usedUIDs')
        /\ Stored(policies'[key]) = put
        /\ \A q \in Policies \ {key} : policies'[q] = policies[q]
    BY <1>1, <1>2, <2>3, <2>4, LogsAfterWrite DEF Protocol, Types
  <2>6. NoOrphanConfig'
    BY <1>1, <1>4, <2>5, <2>4 DEF Protocol, NoOrphanConfig, Exists, StoredPolicy
  <2>. QED  BY <2>1, <2>5, <2>6 DEF next
<1>. QED  BY <1>6, <1>7

\* What a deletion or a write of the draft does downstream.
LEMMA DeleteConfigProtocol ==
  ASSUME Types, Protocol, obj \in ExportPolicy, DeleteConfig(obj.uid)
  PROVE  /\ Stored(configs'[obj.uid]) = Absent
         /\ \A u \in UIDs : Stored(configs[u]) = Absent =>
              Stored(configs'[u]) = Absent
<1>1. obj.uid \in UIDs
  BY DEF ExportPolicy
<1>. QED  BY <1>1, DeleteConfigTypes DEF Types, TypeOK

LEMMA PutConfigProtocol ==
  ASSUME Types, Protocol, pc = "config", PutConfig(obj.uid),
         UNCHANGED <<policies, usedUIDs>>
  PROVE  NoOrphanConfig'
<1>1. obj.uid \in UIDs /\ key \in Policies
  BY DEF Types, WorkerOK, ExportPolicy
<1>2. \A u \in UIDs \ {obj.uid} : configs'[u] = configs[u]
  BY <1>1, PutConfigTypes DEF Types, TypeOK
<1>3. /\ Exists(key) /\ StoredPolicy(key).uid = obj.uid
      /\ StoredPolicy(key).finalizer
  BY DEF Protocol, ClaimOK
<1>. QED  BY <1>1, <1>2, <1>3 DEF Protocol, NoOrphanConfig, Exists, StoredPolicy

LEMMA PositiveNotOne ==
  \A n \in Nat \ {0} : n # 1 => 1 < n
OBVIOUS

LEMMA GetPolicyProtocol ==
  ASSUME Types, Protocol, GetPolicy
  PROVE  Protocol'
<1>. DEFINE cached == Cached(policies[key])
            stored == StoredPolicy(key)
<1>1. key \in Policies
  BY DEF GetPolicy, Types, WorkerOK
<1>2. UNCHANGED <<policies, configs, usedUIDs>>
  BY DEF GetPolicy, stores
<1>3. CASE Return
  BY <1>2, <1>3, ForgetFrameProtocol DEF Return
<1>4. CASE ~Return
  <2>1. /\ cached \in ExportPolicy /\ cached # Absent
        /\ cached = policies[key][1]
        /\ Len(policies[key]) \in Nat \ {0}
    BY <1>1, <1>4, StoreEnds DEF GetPolicy, Types, TypeOK
  <2>2. /\ obj' = [cached EXCEPT !.finalizer = TRUE]
        /\ pc' = IF cached.deleting THEN "finalize"
                 ELSE IF cached.finalizer THEN "status" ELSE "update"
        /\ key' = key
    BY <1>4 DEF GetPolicy
  <2>3. /\ obj'.uid = cached.uid /\ obj'.rv = cached.rv
        /\ obj'.spec = cached.spec /\ obj'.generation = cached.generation
        /\ obj'.deleting = cached.deleting /\ obj'.finalizer
    BY <2>1, <2>2 DEF ExportPolicy
  <2>4. 1 \in Versions(policies[key])
    BY <1>1, <2>1 DEF Versions, Types, TypeOK, Logs
  <2>5. LogOK(policies[key], usedUIDs)
    BY <1>1 DEF Protocol
  <2>6. CopyOK'
    <3>1. cached.uid \in usedUIDs
      BY <2>1, <2>4, <2>5 DEF LogOK
    <3>2. ASSUME Exists(key), stored.uid = cached.uid
          PROVE  /\ cached.rv <= stored.rv
                 /\ cached.rv = stored.rv => stored = cached
      <4>1. /\ Len(policies[key]) \in Versions(policies[key])
            /\ policies[key][Len(policies[key])] = stored
            /\ stored \in ExportPolicy
        BY <1>1, <3>2, StoredIsVersion DEF Types
      <4>2. cached.rv \in Nat /\ stored.rv \in Nat
        BY <2>1, <4>1 DEF ExportPolicy
      <4>3. CASE Len(policies[key]) = 1
        BY <2>1, <4>1, <4>2, <4>3
      <4>4. CASE Len(policies[key]) # 1
        <5>1. 1 < Len(policies[key])
          BY <2>1, <4>4, PositiveNotOne
        <5>2. cached.rv < stored.rv
          BY <2>1, <2>4, <2>5, <3>2, <4>1, <5>1 DEF LogOK
        <5>. QED  BY <4>2, <5>2
      <4>. QED  BY <4>3, <4>4
    <3>. QED
      BY <1>2, <2>2, <2>3, <3>1, <3>2 DEF CopyOK, Exists, StoredPolicy
  <2>7. FinalizeOK'
    <3>1. ASSUME cached.deleting, NEW i \in Versions(policies[key]),
                 policies[key][i].uid = cached.uid
          PROVE  policies[key][i].deleting
      <4>1. CASE i = 1
        BY <2>1, <3>1, <4>1
      <4>2. CASE i # 1
        <5>1. i \in Nat /\ 1 < i
          BY <1>1, <2>1, <4>2 DEF Versions, Types, TypeOK, Logs
        <5>. QED  BY <2>1, <2>4, <2>5, <3>1, <5>1 DEF LogOK
      <4>. QED  BY <4>1, <4>2
    <3>. QED  BY <1>2, <2>2, <2>3, <3>1 DEF FinalizeOK
  <2>8. ClaimOK'
    BY <1>2, <2>1, <2>2, <2>3, <2>4, <2>5
    DEF ClaimOK, LogOK, Exists, StoredPolicy
  <2>9. NoOrphanConfig' /\ \A q \in Policies : LogOK(policies'[q], usedUIDs')
    BY <1>2 DEF Protocol, NoOrphanConfig, Exists, StoredPolicy
  <2>. QED  BY <2>6, <2>7, <2>8, <2>9 DEF Protocol
<1>. QED  BY <1>3, <1>4

LEMMA FinalizeProtocol ==
  ASSUME Types, Protocol, Finalize
  PROVE  Protocol'
<1>1. obj \in ExportPolicy /\ key \in Policies
  BY DEF Finalize, Types, WorkerOK
<1>2. /\ Stored(configs'[obj.uid]) = Absent
      /\ \A u \in UIDs : Stored(configs[u]) = Absent =>
           Stored(configs'[u]) = Absent
  BY <1>1, DeleteConfigProtocol DEF Finalize
<1>3. UNCHANGED <<policies, usedUIDs, key>> /\ pc = "finalize" /\ pc' = "update"
  BY DEF Finalize
<1>4. /\ obj'.uid = obj.uid /\ obj'.rv = obj.rv
      /\ obj'.spec = obj.spec /\ obj'.generation = obj.generation
      /\ obj'.deleting = obj.deleting /\ ~obj'.finalizer
  BY <1>1 DEF Finalize, ExportPolicy
<1>5. CopyOK' /\ ClaimOK'
  BY <1>3, <1>4 DEF Protocol, CopyOK, ClaimOK, Exists, StoredPolicy
<1>6. FinalizeOK'
  BY <1>2, <1>3, <1>4 DEF Protocol, FinalizeOK
<1>7. NoOrphanConfig' /\ \A q \in Policies : LogOK(policies'[q], usedUIDs')
  BY <1>2, <1>3 DEF Protocol, NoOrphanConfig, Exists, StoredPolicy
<1>. QED  BY <1>5, <1>6, <1>7 DEF Protocol

LEMMA UpdatePolicyProtocol ==
  ASSUME Types, Protocol, UpdatePolicy
  PROVE  Protocol'
<1>1. obj \in ExportPolicy /\ key \in Policies
  BY DEF UpdatePolicy, Types, WorkerOK
<1>2. /\ \A q \in Policies : LogOK(policies'[q], usedUIDs')
      /\ NoOrphanConfig'
      /\ ~obj.deleting => Stored(policies'[key]) = [obj EXCEPT !.rv = @ + 1]
  BY <1>1, PutPolicyProtocol DEF UpdatePolicy
<1>3. CASE Return
  BY <1>2, <1>3, ForgetProtocol DEF Return
<1>4. CASE ~Return
  <2>1. /\ pc = "update" /\ pc' = "status" /\ ~obj.deleting
        /\ obj' = [obj EXCEPT !.rv = @ + 1]
        /\ key' = key /\ usedUIDs' = usedUIDs
    BY <1>4 DEF UpdatePolicy
  <2>2. obj' \in ExportPolicy
    BY <1>1, <2>1, PolicyVersions
  <2>3. obj' # Absent /\ obj'.rv \in Nat
    BY <2>2, AbsentAssumption DEF ExportPolicy
  <2>4. obj'.uid = obj.uid /\ ~obj'.deleting /\ obj'.finalizer
    BY <1>1, <2>1, StoredCopyFields DEF Protocol, FinalizeOK
  <2>5. Stored(policies'[key]) = obj'
    BY <1>2, <2>1
  <2>6. CopyOK'
    BY <2>1, <2>3, <2>4, <2>5 DEF Protocol, CopyOK, Exists, StoredPolicy
  <2>7. ClaimOK' /\ FinalizeOK'
    BY <2>1, <2>3, <2>4, <2>5 DEF ClaimOK, FinalizeOK, Exists, StoredPolicy
  <2>. QED  BY <1>2, <2>6, <2>7 DEF Protocol
<1>. QED  BY <1>3, <1>4

\* Writing the new status, whether or not the reconciler learns of it.
LEMMA PutStatusProtocol ==
  ASSUME Types, Protocol, pc = "status", NoConflict(obj), PutStatus,
         UNCHANGED <<configs, usedUIDs>>
  PROVE  /\ \A q \in Policies : LogOK(policies'[q], usedUIDs')
         /\ NoOrphanConfig'
<1>. DEFINE copy == [obj EXCEPT !.status = NewStatus]
<1>1. obj \in ExportPolicy
  BY DEF Types, WorkerOK
<1>2. copy \in ExportPolicy
  BY <1>1, NewStatusType
<1>3. /\ copy.uid = obj.uid /\ copy.rv = obj.rv
      /\ copy.deleting = obj.deleting /\ copy.finalizer = obj.finalizer
  BY <1>1 DEF ExportPolicy
<1>4. PutPolicy(copy)
  BY DEF PutStatus
<1>. HIDE DEF copy
<1>5. NoConflict(copy)
  BY <1>3 DEF NoConflict
<1>. QED  BY <1>2, <1>3, <1>4, <1>5, PutPolicyProtocol

\* Steps that go on with the same copy and write nothing.
LEMMA LoopProtocol ==
  ASSUME Types, Protocol, UNCHANGED <<stores, key, obj>>,
         pc \in {"status", "config"}, pc' \in {"status", "config"}
  PROVE  Protocol'
BY DEF Protocol, CopyOK, FinalizeOK, ClaimOK, NoOrphanConfig, stores, Exists,
       StoredPolicy

LEMMA ReplyLostProtocol ==
  ASSUME Types, Protocol, ReplyLost
  PROVE  Protocol'
<1>1. ForgetRequest /\ UNCHANGED usedUIDs
  BY DEF ReplyLost, Requeue
<1>2. obj \in ExportPolicy /\ key \in Policies
  BY DEF ReplyLost, Types, WorkerOK
<1>3. CASE pc = "finalize"
  <2>1. UNCHANGED policies /\ DeleteConfig(obj.uid)
    BY <1>3 DEF ReplyLost
  <2>2. NoOrphanConfig' /\ \A q \in Policies : LogOK(policies'[q], usedUIDs')
    BY <1>1, <1>2, <2>1, DeleteConfigProtocol
    DEF Protocol, NoOrphanConfig, Exists, StoredPolicy
  <2>. QED  BY <1>1, <2>2, ForgetProtocol
<1>4. CASE pc = "update"
  BY <1>1, <1>2, <1>4, PutPolicyProtocol, ForgetProtocol DEF ReplyLost
<1>5. CASE pc = "status"
  BY <1>1, <1>5, PutStatusProtocol, ForgetProtocol DEF ReplyLost
<1>6. CASE pc = "config"
  <2>1. UNCHANGED policies /\ PutConfig(obj.uid)
    BY <1>6 DEF ReplyLost
  <2>2. NoOrphanConfig'
    BY <1>1, <1>6, <2>1, PutConfigProtocol
  <2>. QED  BY <1>1, <2>1, <2>2, ForgetProtocol DEF Protocol
<1>. QED  BY <1>3, <1>4, <1>5, <1>6 DEF ReplyLost

LEMMA ReconcileProtocol ==
  ASSUME Types, Protocol, Reconcile
  PROVE  Protocol'
<1>1. CASE ValidateSink
  BY <1>1, LoopProtocol DEF ValidateSink
<1>2. CASE UpdateStatus
  BY <1>2, PutStatusProtocol, ForgetProtocol DEF UpdateStatus, Requeue
<1>3. CASE KeepStatus
  BY <1>3, LoopProtocol DEF KeepStatus
<1>4. CASE ConfigureSink
  BY <1>4, LoopProtocol DEF ConfigureSink
<1>5. CASE Panic
  BY <1>5, ForgetFrameProtocol DEF Panic, Requeue, stores
<1>6. CASE CreateOrUpdate
  <2>1. pc = "config" /\ ForgetRequest /\ UNCHANGED <<policies, usedUIDs>>
    BY <1>6 DEF CreateOrUpdate, Return, Requeue
  <2>2. CASE PutConfig(obj.uid)
    BY <2>1, <2>2, PutConfigProtocol, ForgetProtocol DEF Protocol
  <2>3. CASE UNCHANGED configs
    BY <2>1, <2>3, ForgetFrameProtocol
  <2>. QED  BY <1>6, <2>2, <2>3 DEF CreateOrUpdate
<1>7. CASE Conflict
  BY <1>7, ForgetFrameProtocol DEF Conflict, Requeue, stores
<1>8. CASE CallFails
  BY <1>8, ForgetFrameProtocol DEF CallFails, Requeue, stores
<1>. QED
  BY <1>1, <1>2, <1>3, <1>4, <1>5, <1>6, <1>7, <1>8, GetPolicyProtocol,
     FinalizeProtocol, UpdatePolicyProtocol, ReplyLostProtocol DEF Reconcile

-----------------------------------------------------------------------------
(* What the steps of the reconciler leave to the user *)

\* An accepted write leaves to the user what is the user's.
LEMMA PutPolicyKeepsEdits ==
  ASSUME Types, Protocol, pc \in {"update", "status"},
         NEW copy \in ExportPolicy, NoConflict(copy), PutPolicy(copy),
         copy.uid = obj.uid, copy.rv = obj.rv, copy.spec = obj.spec,
         copy.generation = obj.generation, copy.deleting = obj.deleting
  PROVE  \A p \in Policies :
           EditsKept(Stored(policies[p]), Stored(policies'[p]))
<1>. DEFINE put == IF copy.deleting /\ ~copy.finalizer THEN Absent
                   ELSE [copy EXCEPT !.rv = @ + 1]
            stored == Stored(policies[key])
<1>1. key \in Policies
  BY DEF Types, WorkerOK
<1>2. /\ Stored(policies'[key]) = put
      /\ \A p \in Policies \ {key} : policies'[p] = policies[p]
  BY <1>1, PutPolicyTypes DEF Types, TypeOK
<1>3. /\ stored # Absent /\ stored.uid = copy.uid
      /\ stored.spec = copy.spec /\ stored.generation = copy.generation
      /\ stored.deleting = copy.deleting
  BY DEF NoConflict, Protocol, CopyOK, Exists, StoredPolicy
<1>4. CASE copy.deleting /\ ~copy.finalizer
  BY <1>2, <1>3, <1>4 DEF EditsKept
<1>5. CASE ~(copy.deleting /\ ~copy.finalizer)
  <2>1. /\ put.uid = copy.uid /\ put.spec = copy.spec
        /\ put.generation = copy.generation /\ put.deleting = copy.deleting
    BY <1>5, StoredCopyFields
  <2>2. put # Absent
    BY <1>5, PolicyVersions, AbsentAssumption
  <2>. HIDE DEF put
  <2>. QED  BY <1>2, <1>3, <2>1, <2>2 DEF EditsKept
<1>. QED  BY <1>4, <1>5

\* So does the write of the new status.
LEMMA PutStatusKeepsEdits ==
  ASSUME Types, Protocol, pc = "status", NoConflict(obj), PutStatus
  PROVE  \A p \in Policies :
           EditsKept(Stored(policies[p]), Stored(policies'[p]))
<1>. DEFINE copy == [obj EXCEPT !.status = NewStatus]
<1>1. obj \in ExportPolicy
  BY DEF Types, WorkerOK
<1>2. /\ copy \in ExportPolicy /\ PutPolicy(copy)
      /\ copy.uid = obj.uid /\ copy.rv = obj.rv
      /\ copy.spec = obj.spec /\ copy.generation = obj.generation
      /\ copy.deleting = obj.deleting
  BY <1>1, NewStatusType DEF ExportPolicy, PutStatus
<1>. HIDE DEF copy
<1>3. NoConflict(copy)
  BY <1>2 DEF NoConflict
<1>. QED  BY <1>2, <1>3, PutPolicyKeepsEdits

\* Every other step of the reconciler writes no policy.
LEMMA ReconcileKeepsEdits ==
  ASSUME Types, Protocol, Reconcile
  PROVE  \A p \in Policies :
           EditsKept(Stored(policies[p]), Stored(policies'[p]))
<1>1. CASE UNCHANGED policies
  BY <1>1 DEF EditsKept
<1>2. CASE UpdatePolicy
  BY <1>2, PutPolicyKeepsEdits DEF UpdatePolicy, Types, WorkerOK
<1>3. CASE UpdateStatus
  BY <1>3, PutStatusKeepsEdits DEF UpdateStatus
<1>4. CASE ReplyLost
  <2>1. \/ UNCHANGED policies
        \/ pc = "update" /\ NoConflict(obj) /\ PutPolicy(obj)
        \/ pc = "status" /\ NoConflict(obj) /\ PutStatus
    BY <1>4 DEF ReplyLost
  <2>2. pc = "update" => obj \in ExportPolicy
    BY DEF Types, WorkerOK
  <2>. QED  BY <1>1, <2>1, <2>2, PutPolicyKeepsEdits, PutStatusKeepsEdits
<1>. QED
  BY <1>1, <1>2, <1>3, <1>4
  DEF Reconcile, GetPolicy, Finalize, ValidateSink, KeepStatus, ConfigureSink,
      Panic, CreateOrUpdate, Conflict, CallFails, stores

-----------------------------------------------------------------------------
(* The theorems *)

LEMMA InitProtocol == Init => Protocol
<1>. SUFFICES ASSUME Init PROVE Protocol
  OBVIOUS
<1>1. \A p \in Policies : Versions(policies[p]) = {}
  BY DEF Init, Versions
<1>2. \A u \in UIDs : Stored(configs[u]) = Absent
  BY DEF Init, Stored
<1>. QED
  BY <1>1, <1>2 DEF Init, Protocol, LogOK, CopyOK, FinalizeOK, ClaimOK,
                    NoOrphanConfig

LEMMA NextProtocol ==
  ASSUME Types, Protocol, [Next]_vars
  PROVE  Protocol'
<1>1. ASSUME NEW p \in Policies, Dequeue(p) PROVE Protocol'
  BY <1>1 DEF Dequeue, Protocol, CopyOK, FinalizeOK, ClaimOK, NoOrphanConfig,
              stores, Exists, StoredPolicy
<1>2. CASE Crash
  BY <1>2, ForgetFrameProtocol DEF Crash, stores
<1>3. CASE UNCHANGED vars
  BY <1>3, FrameProtocol DEF vars, stores, request
<1>. QED
  BY <1>1, <1>2, <1>3, UserProtocol, InformerProtocol, ReconcileProtocol DEF Next

\* The invariant that is checked is the one that is proved inductive.
LEMMA InvariantParts == ControllerInvariant <=> (Types /\ Protocol)
BY DEF ControllerInvariant, Types, Protocol

\* The controller keeps its inductive invariant.
THEOREM InvariantHolds == Spec => []ControllerInvariant
<1>1. Init => ControllerInvariant
  BY InitTypes, InitProtocol, InvariantParts
<1>2. ControllerInvariant /\ [Next]_vars => ControllerInvariant'
  <2>. SUFFICES ASSUME ControllerInvariant, [Next]_vars
                PROVE  ControllerInvariant'
    OBVIOUS
  <2>1. Types /\ Protocol
    BY InvariantParts
  <2>2. Types' /\ Protocol'
    BY <2>1, NextTypes, NextProtocol
  <2>. QED  BY <2>2 DEF ControllerInvariant, Types, Protocol
<1>. QED  BY <1>1, <1>2, PTL DEF Spec

\* No Vector configuration outlives the policy it was made for, or the
\* finalizer that will have it deleted: however far the caches are behind,
\* whatever fails, and whenever the operator restarts.
THEOREM NoConfigIsOrphaned == Spec => []NoOrphanConfig
<1>1. ControllerInvariant => NoOrphanConfig
  BY DEF ControllerInvariant
<1>. QED  BY <1>1, InvariantHolds, PTL

\* No write of the reconciler, from however old a copy, changes what users
\* control in a policy, or removes one they have not deleted.
THEOREM NoEditIsUndone == Spec => EditsSurvive
<1>1. ASSUME ControllerInvariant, [Next]_vars
      PROVE  [Reconcile => \A p \in Policies :
               EditsKept(Stored(policies[p]), Stored(policies'[p]))]_vars
  BY <1>1, InvariantParts, ReconcileKeepsEdits
<1>. QED  BY <1>1, InvariantHolds, PTL DEF Spec, EditsSurvive
=============================================================================
