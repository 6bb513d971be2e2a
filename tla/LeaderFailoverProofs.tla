------------------------- MODULE LeaderFailoverProofs -------------------------
(***************************************************************************)
(* Leaders that follow one another undo no edit of a user, however far     *)
(* back the lists of the new one go, and while the former one goes on.     *)
(***************************************************************************)
EXTENDS LeaderFailover, ExportPolicySafetyProofs, SequenceTheorems

-----------------------------------------------------------------------------
(* Versions the server knows *)

\* Known, for any set of used UIDs.
KnownIn(version, stored, used) ==
  /\ version.uid \in used
  /\ (stored # Absent /\ stored.uid = version.uid) =>
       /\ version.rv <= stored.rv
       /\ version.rv = stored.rv => /\ stored.spec = version.spec
                                    /\ stored.generation = version.generation
                                    /\ stored.deleting = version.deleting

\* What the server may store next.
Successor(stored, v, used) ==
  \/ v = Absent
  \/ v \in ExportPolicy /\ v.uid \notin used
  \/ /\ v \in ExportPolicy /\ stored \in ExportPolicy
     /\ v.uid = stored.uid
     /\ v.rv = stored.rv + 1

\* What it knew it still knows.
LEMMA StillKnown ==
  ASSUME NEW used, NEW used2, used \subseteq used2,
         NEW version \in ExportPolicy, NEW stored \in PolicyOrAbsent, NEW v,
         KnownIn(version, stored, used), Successor(stored, v, used)
  PROVE  KnownIn(version, v, used2)
<1>1. CASE v = Absent
  BY <1>1 DEF KnownIn
<1>2. CASE v \in ExportPolicy /\ v.uid \notin used
  BY <1>2 DEF KnownIn
<1>3. CASE /\ v \in ExportPolicy /\ stored \in ExportPolicy
           /\ v.uid = stored.uid
           /\ v.rv = stored.rv + 1
  <2>1. version.rv \in Nat /\ stored.rv \in Nat /\ stored # Absent
    BY <1>3, AbsentAssumption DEF ExportPolicy
  <2>2. version.uid = v.uid => version.rv <= stored.rv
    BY <1>3, <2>1 DEF KnownIn
  <2>3. version.uid = v.uid => version.rv <= v.rv /\ version.rv # v.rv
    BY <1>3, <2>1, <2>2
  <2>. QED  BY <2>3 DEF KnownIn
<1>. QED  BY <1>1, <1>2, <1>3 DEF Successor

\* What it stores it knows.
LEMMA StoredKnown ==
  ASSUME NEW used, NEW v \in ExportPolicy, v.uid \in used
  PROVE  KnownIn(v, v, used)
<1>1. v.rv \in Nat
  BY DEF ExportPolicy
<1>. QED  BY <1>1 DEF KnownIn

\* A copy that differs in its status is known as well.
LEMMA SameKnown ==
  ASSUME NEW used, NEW stored, NEW version, NEW copy,
         KnownIn(version, stored, used),
         copy.uid = version.uid, copy.rv = version.rv, copy.spec = version.spec,
         copy.generation = version.generation, copy.deleting = version.deleting
  PROVE  KnownIn(copy, stored, used)
BY DEF KnownIn

-----------------------------------------------------------------------------
(* Writes *)

Fenced == VersionsKnown /\ CopiesKnown

StoreTypes ==
  /\ policies \in [Policies -> Logs(ExportPolicy)]
  /\ PastTypeOK

\* Policy p is written.
Stores(p, v) ==
  /\ v \in PolicyOrAbsent
  /\ Successor(StoredPolicy(p), v, usedUIDs)
  /\ usedUIDs \subseteq usedUIDs'
  /\ v # Absent => v.uid \in usedUIDs'
  /\ policies' = [policies EXCEPT ![p] = Append(@, v)]
  /\ UNCHANGED past

LEMMA ShownType ==
  ASSUME StoreTypes, NEW p \in Policies
  PROVE  /\ policies[p] \in Seq(PolicyOrAbsent) /\ Len(policies[p]) > 0
         /\ Shown(p) \subseteq PolicyOrAbsent
         /\ StoredPolicy(p) \in PolicyOrAbsent
         /\ StoredPolicy(p) \in Shown(p)
         /\ Cached(policies[p]) \in Shown(p)
<1>1. /\ policies[p] \in Seq(PolicyOrAbsent) /\ Len(policies[p]) > 0
      /\ past[p] \in Seq(PolicyOrAbsent)
  BY DEF StoreTypes, PastTypeOK, Logs, PolicyOrAbsent
<1>2. /\ Len(policies[p]) \in DOMAIN policies[p]
      /\ 1 \in DOMAIN policies[p]
      /\ Cached(policies[p]) = policies[p][1]
  BY <1>1 DEF Cached
<1>3. Shown(p) \subseteq PolicyOrAbsent
  BY <1>1 DEF Shown
<1>4. StoredPolicy(p) \in Shown(p) /\ Cached(policies[p]) \in Shown(p)
  BY <1>2 DEF Shown, StoredPolicy, Stored
<1>. QED  BY <1>1, <1>3, <1>4

\* After a write, all that was known still is, and so is what was written.
LEMMA StoresKeepsKnown ==
  ASSUME StoreTypes, VersionsKnown, NEW p \in Policies, NEW v, Stores(p, v)
  PROVE  /\ VersionsKnown'
         /\ Stored(policies'[p]) = v
         /\ \A q \in Policies \ {p} : policies'[q] = policies[q]
         /\ \A q \in Policies, version \in ExportPolicy :
              KnownIn(version, StoredPolicy(q), usedUIDs) =>
                KnownIn(version, Stored(policies'[q]), usedUIDs')
<1>1. /\ policies[p] \in Seq(PolicyOrAbsent) /\ Len(policies[p]) > 0
      /\ v \in PolicyOrAbsent
  BY ShownType DEF Stores
<1>2. /\ policies'[p] = Append(policies[p], v)
      /\ \A q \in Policies \ {p} : policies'[q] = policies[q]
  BY DEF Stores, StoreTypes
<1>3. Stored(policies'[p]) = v
  <2>1. Stored(Append(policies[p], v)) = v
    BY <1>1, LogAppend
  <2>. QED  BY <1>2, <2>1
<1>4. ASSUME NEW q \in Policies, NEW version \in ExportPolicy,
             KnownIn(version, StoredPolicy(q), usedUIDs)
      PROVE  KnownIn(version, Stored(policies'[q]), usedUIDs')
  <2>1. CASE q = p
    <3>1. StoredPolicy(p) \in PolicyOrAbsent
      BY ShownType
    <3>. QED  BY <1>3, <1>4, <2>1, <3>1, StillKnown DEF Stores
  <2>2. CASE q # p
    BY <1>2, <1>4, <2>2 DEF KnownIn, StoredPolicy, Stores
  <2>. QED  BY <2>1, <2>2
<1>5. ASSUME NEW q \in Policies, NEW version \in Shown(q)' \ {Absent}
      PROVE  KnownIn(version, Stored(policies'[q]), usedUIDs')
  <2>1. CASE version \in Shown(q)
    <3>1. KnownIn(version, StoredPolicy(q), usedUIDs)
      BY <1>5, <2>1 DEF VersionsKnown, Known, KnownIn
    <3>2. version \in ExportPolicy
      BY <1>5, <2>1, ShownType DEF PolicyOrAbsent
    <3>. QED  BY <1>4, <3>1, <3>2
  <2>2. CASE version \notin Shown(q)
    <3>1. q = p /\ version = v
      <4>1. \A i \in DOMAIN policies'[p] :
              policies'[p][i] = v \/ policies'[p][i] \in Shown(p)
        BY <1>1, <1>2 DEF Shown
      <4>2. past' = past
        BY DEF Stores
      <4>3. version \in {policies'[q][i] : i \in DOMAIN policies'[q]}
                        \cup {past[q][i] : i \in DOMAIN past[q]}
        BY <1>5, <4>2 DEF Shown
      <4>. QED  BY <1>2, <2>2, <4>1, <4>3 DEF Shown
    <3>2. v \in ExportPolicy /\ v.uid \in usedUIDs'
      BY <1>1, <1>5, <3>1 DEF Stores, PolicyOrAbsent
    <3>. QED  BY <1>3, <3>1, <3>2, StoredKnown
  <2>. QED  BY <2>1, <2>2
<1>6. VersionsKnown'
  BY <1>5 DEF VersionsKnown, Known, KnownIn, StoredPolicy
<1>. QED  BY <1>2, <1>3, <1>4, <1>6

\* The write of a copy of the stored version: it keeps users' edits.
LEMMA PutStores ==
  ASSUME StoreTypes, VersionsKnown, UNCHANGED <<usedUIDs, past>>,
         NEW k \in Policies, NEW copy \in ExportPolicy,
         KnownIn(copy, StoredPolicy(k), usedUIDs),
         Exists(k), StoredPolicy(k).uid = copy.uid, StoredPolicy(k).rv = copy.rv,
         policies' = [policies EXCEPT ![k] = Append(@,
           IF copy.deleting /\ ~copy.finalizer THEN Absent
           ELSE [copy EXCEPT !.rv = @ + 1])]
  PROVE  /\ Stores(k, IF copy.deleting /\ ~copy.finalizer THEN Absent
                      ELSE [copy EXCEPT !.rv = @ + 1])
         /\ \A p \in Policies :
              EditsKept(Stored(policies[p]), Stored(policies'[p]))
<1>. DEFINE stored == StoredPolicy(k)
            next == [copy EXCEPT !.rv = @ + 1]
            put == IF copy.deleting /\ ~copy.finalizer THEN Absent ELSE next
<1>1. /\ next \in ExportPolicy
      /\ next.uid = copy.uid /\ next.rv = copy.rv + 1
      /\ next.spec = copy.spec /\ next.generation = copy.generation
      /\ next.deleting = copy.deleting
  BY PolicyVersions, StoredCopyFields
<1>2. next # Absent
  BY <1>1, AbsentAssumption
<1>. HIDE DEF next
<1>3. stored \in ExportPolicy /\ stored # Absent
  BY ShownType DEF Exists, PolicyOrAbsent
<1>4. /\ stored.spec = copy.spec /\ stored.generation = copy.generation
      /\ stored.deleting = copy.deleting /\ copy.uid \in usedUIDs
  BY <1>3 DEF KnownIn
<1>5. put \in PolicyOrAbsent /\ (put # Absent => put.uid \in usedUIDs)
  BY <1>1, <1>4 DEF PolicyOrAbsent
<1>6. Successor(stored, put, usedUIDs)
  BY <1>1, <1>3 DEF Successor
<1>7. EditsKept(stored, put)
  BY <1>1, <1>2, <1>3, <1>4 DEF EditsKept
<1>8. policies' = [policies EXCEPT ![k] = Append(@, put)]
  BY DEF next
<1>. HIDE DEF put
<1>9. Stores(k, put)
  BY <1>5, <1>6, <1>8 DEF Stores
<1>10. /\ Stored(policies'[k]) = put
       /\ \A q \in Policies \ {k} : policies'[q] = policies[q]
  BY <1>9, StoresKeepsKnown
<1>11. ASSUME NEW p \in Policies
       PROVE  EditsKept(Stored(policies[p]), Stored(policies'[p]))
  <2>1. CASE p = k
    BY <1>7, <1>10, <2>1 DEF StoredPolicy
  <2>2. CASE p # k
    BY <1>10, <2>2 DEF EditsKept
  <2>. QED  BY <2>1, <2>2
<1>. QED  BY <1>9, <1>11 DEF put, next

\* What the reply to that write brings is known too.
LEMMA PutKnown ==
  ASSUME StoreTypes, VersionsKnown, UNCHANGED <<usedUIDs, past>>,
         NEW k \in Policies, NEW copy \in ExportPolicy,
         copy.uid \in usedUIDs,
         NEW put, put = IF copy.deleting /\ ~copy.finalizer THEN Absent
                        ELSE [copy EXCEPT !.rv = @ + 1],
         Stores(k, put)
  PROVE  /\ policies' \in [Policies -> Logs(ExportPolicy)]
         /\ ~copy.deleting =>
              KnownIn([copy EXCEPT !.rv = @ + 1], Stored(policies'[k]), usedUIDs')
<1>1. Stored(policies'[k]) = put
  BY StoresKeepsKnown
<1>2. policies' \in [Policies -> Logs(ExportPolicy)]
  <2>1. /\ put \in ExportPolicy \cup {Absent}
        /\ policies' = [policies EXCEPT ![k] = Write(@, put)]
    BY DEF Stores, PolicyOrAbsent, Write
  <2>. QED  BY <2>1, StoreWrite DEF StoreTypes
<1>3. ASSUME ~copy.deleting
      PROVE  KnownIn([copy EXCEPT !.rv = @ + 1], Stored(policies'[k]), usedUIDs')
  <2>. DEFINE next == [copy EXCEPT !.rv = @ + 1]
  <2>1. next \in ExportPolicy /\ next.uid = copy.uid
    BY PolicyVersions, StoredCopyFields
  <2>2. Stored(policies'[k]) = next
    BY <1>1, <1>3
  <2>. HIDE DEF next
  <2>3. KnownIn(next, next, usedUIDs')
    BY <2>1, StoredKnown
  <2>. QED  BY <2>2, <2>3 DEF next
<1>. QED  BY <1>2, <1>3

-----------------------------------------------------------------------------
(* What a step does to the copies in hand *)

HandTypes == Types /\ OldTypeOK /\ PastTypeOK

\* Each of the two processes drops its copy, keeps it, or has a known one.
HandsKnown ==
  /\ \/ pc' \in {"idle", "get"}
     \/ UNCHANGED <<pc, key, obj>>
     \/ KnownIn(obj', Stored(policies'[key']), usedUIDs')
  /\ \/ oldPc' = "idle"
     \/ UNCHANGED <<oldPc, oldKey, oldObj>>
     \/ KnownIn(oldObj', Stored(policies'[oldKey']), usedUIDs')

\* What is known stays known, so the copies that are kept do.
LEMMA HandsStayKnown ==
  ASSUME HandTypes, CopiesKnown, HandsKnown,
         \A q \in Policies, version \in ExportPolicy :
           KnownIn(version, StoredPolicy(q), usedUIDs) =>
             KnownIn(version, Stored(policies'[q]), usedUIDs')
  PROVE  CopiesKnown'
<1>1. ASSUME pc' \notin {"idle", "get"}
      PROVE  KnownIn(obj', Stored(policies'[key']), usedUIDs')
  <2>1. CASE UNCHANGED <<pc, key, obj>>
    <3>1. /\ key \in Policies /\ obj \in ExportPolicy
          /\ KnownIn(obj, StoredPolicy(key), usedUIDs)
      BY <1>1, <2>1 DEF HandTypes, Types, WorkerOK, CopiesKnown, Known, KnownIn
    <3>. QED  BY <2>1, <3>1
  <2>. QED  BY <1>1, <2>1 DEF HandsKnown
<1>2. ASSUME oldPc' # "idle"
      PROVE  KnownIn(oldObj', Stored(policies'[oldKey']), usedUIDs')
  <2>1. CASE UNCHANGED <<oldPc, oldKey, oldObj>>
    <3>1. /\ oldKey \in Policies /\ oldObj \in ExportPolicy
          /\ KnownIn(oldObj, StoredPolicy(oldKey), usedUIDs)
      BY <1>2, <2>1 DEF HandTypes, OldTypeOK, CopiesKnown, Known, KnownIn
    <3>. QED  BY <2>1, <3>1
  <2>. QED  BY <1>2, <2>1 DEF HandsKnown
<1>. QED  BY <1>1, <1>2 DEF CopiesKnown, Known, KnownIn, StoredPolicy

\* A step that writes a policy.
LEMMA WriteFenced ==
  ASSUME HandTypes, Fenced, HandsKnown, NEW p \in Policies, NEW v, Stores(p, v)
  PROVE  Fenced'
<1>1. StoreTypes
  BY DEF HandTypes, Types, TypeOK, StoreTypes
<1>2. /\ VersionsKnown'
      /\ \A q \in Policies, version \in ExportPolicy :
           KnownIn(version, StoredPolicy(q), usedUIDs) =>
             KnownIn(version, Stored(policies'[q]), usedUIDs')
  BY <1>1, StoresKeepsKnown DEF Fenced
<1>. QED  BY <1>2, HandsStayKnown DEF Fenced

\* A step that stores no policy, and shows no other versions.
LEMMA FrameFenced ==
  ASSUME HandTypes, Fenced, HandsKnown, UNCHANGED usedUIDs,
         \A q \in Policies : /\ Stored(policies'[q]) = StoredPolicy(q)
                             /\ Shown(q)' \subseteq Shown(q)
  PROVE  Fenced'
<1>1. VersionsKnown'
  BY DEF Fenced, VersionsKnown, Known, StoredPolicy
<1>2. CopiesKnown'
  BY HandsStayKnown DEF Fenced
<1>. QED  BY <1>1, <1>2 DEF Fenced

\* A step that leaves the policies alone.
LEMMA StillFenced ==
  ASSUME HandTypes, Fenced, HandsKnown, UNCHANGED <<policies, usedUIDs, past>>
  PROVE  Fenced'
<1>1. \A q \in Policies : /\ Stored(policies'[q]) = StoredPolicy(q)
                          /\ Shown(q)' \subseteq Shown(q)
  BY DEF StoredPolicy, Shown
<1>. QED  BY <1>1, FrameFenced

-----------------------------------------------------------------------------
(* The steps of the process that leads *)

LEMMA UserFenced ==
  ASSUME HandTypes, Fenced, User, UNCHANGED <<past, old>>
  PROVE  Fenced'
<1>1. StoreTypes
  BY DEF HandTypes, Types, TypeOK, StoreTypes
<1>2. ASSUME UNCHANGED request PROVE HandsKnown
  BY <1>2 DEF HandsKnown, old, request
<1>3. ASSUME NEW p \in Policies, NEW u \in UIDs, NEW spec \in Specs,
             CreatePolicy(p, u, spec)
      PROVE  Fenced'
  <2>. DEFINE new == [uid |-> u, rv |-> 1, generation |-> 1, spec |-> spec,
                      finalizer |-> FALSE, deleting |-> FALSE,
                      status |-> NoStatus]
  <2>1. new \in ExportPolicy /\ new.uid = u
    BY NoStatusType DEF ExportPolicy
  <2>2. policies' = [policies EXCEPT ![p] = Append(@, new)]
    BY <1>3 DEF CreatePolicy, Write
  <2>. HIDE DEF new
  <2>3. Stores(p, new)
    BY <1>3, <2>1, <2>2 DEF CreatePolicy, Stores, Successor, PolicyOrAbsent
  <2>. QED  BY <1>2, <1>3, <2>3, WriteFenced DEF CreatePolicy
<1>4. ASSUME NEW p \in Policies, NEW spec \in Specs, UpdateSpec(p, spec)
      PROVE  Fenced'
  <2>. DEFINE stored == StoredPolicy(p)
              new == [stored EXCEPT !.spec = spec, !.generation = @ + 1,
                                    !.rv = @ + 1]
  <2>1. stored \in ExportPolicy /\ stored \in Shown(p) \ {Absent}
    BY <1>1, <1>4, ShownType
    DEF UpdateSpec, StoredPolicy, PolicyOrAbsent
  <2>2. new \in ExportPolicy /\ new.uid = stored.uid /\ new.rv = stored.rv + 1
    BY <2>1, PolicyVersions, PolicyVersionFields
  <2>3. policies' = [policies EXCEPT ![p] = Append(@, new)]
    BY <1>4 DEF UpdateSpec, Write, StoredPolicy
  <2>4. stored.uid \in usedUIDs
    BY <2>1 DEF Fenced, VersionsKnown, Known
  <2>. HIDE DEF new
  <2>5. Stores(p, new)
    BY <1>4, <2>1, <2>2, <2>3, <2>4
    DEF UpdateSpec, Stores, Successor, PolicyOrAbsent
  <2>. QED  BY <1>2, <1>4, <2>5, WriteFenced DEF UpdateSpec
<1>5. ASSUME NEW p \in Policies, DeletePolicy(p)
      PROVE  Fenced'
  <2>. DEFINE stored == StoredPolicy(p)
              marked == [stored EXCEPT !.deleting = TRUE,
                                       !.generation = @ + 1, !.rv = @ + 1]
              new == IF stored.finalizer THEN marked ELSE Absent
  <2>1. stored \in ExportPolicy /\ stored \in Shown(p) \ {Absent}
    BY <1>1, <1>5, ShownType
    DEF DeletePolicy, StoredPolicy, PolicyOrAbsent
  <2>2. /\ marked \in ExportPolicy
        /\ marked.uid = stored.uid /\ marked.rv = stored.rv + 1
    BY <2>1, PolicyVersions, PolicyVersionFields
  <2>3. policies' = [policies EXCEPT ![p] = Append(@, new)]
    BY <1>5 DEF DeletePolicy, Write, StoredPolicy
  <2>4. stored.uid \in usedUIDs
    BY <2>1 DEF Fenced, VersionsKnown, Known
  <2>. HIDE DEF marked
  <2>5. /\ new \in PolicyOrAbsent
        /\ Successor(stored, new, usedUIDs)
        /\ new # Absent => new.uid \in usedUIDs
    BY <2>1, <2>2, <2>4 DEF Successor, PolicyOrAbsent
  <2>. HIDE DEF new
  <2>6. Stores(p, new)
    BY <1>5, <2>3, <2>5 DEF DeletePolicy, Stores
  <2>. QED  BY <1>2, <1>5, <2>6, WriteFenced DEF DeletePolicy
<1>6. CASE UNCHANGED <<policies, usedUIDs, request>>
  BY <1>2, <1>6, StillFenced
<1>. QED  BY <1>3, <1>4, <1>5, <1>6 DEF User, WriteSecret, Drift

\* The worker writes a copy it knows: it keeps the edits and the versions known.
LEMMA PutFenced ==
  ASSUME HandTypes, Fenced, UNCHANGED <<usedUIDs, past, old>>,
         pc \notin {"idle", "get"},
         NEW copy \in ExportPolicy, NoConflict(copy), PutPolicy(copy),
         copy.uid = obj.uid, copy.rv = obj.rv, copy.spec = obj.spec,
         copy.generation = obj.generation, copy.deleting = obj.deleting,
         \/ pc' = "idle"
         \/ /\ key' = key
            /\ obj' = [copy EXCEPT !.rv = @ + 1]
            /\ ~copy.deleting
  PROVE  /\ Fenced'
         /\ \A p \in Policies :
              EditsKept(Stored(policies[p]), Stored(policies'[p]))
<1>. DEFINE put == IF copy.deleting /\ ~copy.finalizer THEN Absent
                   ELSE [copy EXCEPT !.rv = @ + 1]
<1>1. StoreTypes
  BY DEF HandTypes, Types, TypeOK, StoreTypes
<1>2. key \in Policies /\ KnownIn(obj, StoredPolicy(key), usedUIDs)
  BY DEF HandTypes, Types, WorkerOK, Fenced, CopiesKnown, Known, KnownIn
<1>3. KnownIn(copy, StoredPolicy(key), usedUIDs)
  BY <1>2, SameKnown
<1>4. /\ Exists(key) /\ StoredPolicy(key).uid = copy.uid
      /\ StoredPolicy(key).rv = copy.rv
      /\ policies' = [policies EXCEPT ![key] = Append(@, put)]
  BY DEF NoConflict, PutPolicy, Write, Exists, StoredPolicy
<1>5. /\ Stores(key, put)
      /\ \A p \in Policies :
           EditsKept(Stored(policies[p]), Stored(policies'[p]))
  BY <1>1, <1>2, <1>3, <1>4, PutStores DEF Fenced
<1>6. ~copy.deleting =>
        KnownIn([copy EXCEPT !.rv = @ + 1], Stored(policies'[key]), usedUIDs')
  <2>1. copy.uid \in usedUIDs
    BY <1>3 DEF KnownIn
  <2>. QED  BY <1>1, <1>2, <1>5, <2>1, PutKnown DEF Fenced
<1>. HIDE DEF put
<1>7. HandsKnown
  BY <1>6 DEF HandsKnown, old
<1>. QED  BY <1>2, <1>5, <1>7, WriteFenced

\* So does the write of the new status.
LEMMA PutStatusFenced ==
  ASSUME HandTypes, Fenced, UNCHANGED <<usedUIDs, past, old>>,
         pc = "status", NoConflict(obj), PutStatus, pc' = "idle"
  PROVE  /\ Fenced'
         /\ \A p \in Policies :
              EditsKept(Stored(policies[p]), Stored(policies'[p]))
<1>. DEFINE copy == [obj EXCEPT !.status = NewStatus]
<1>1. obj \in ExportPolicy
  BY DEF HandTypes, Types, WorkerOK
<1>2. /\ copy \in ExportPolicy /\ PutPolicy(copy)
      /\ copy.uid = obj.uid /\ copy.rv = obj.rv
      /\ copy.spec = obj.spec /\ copy.generation = obj.generation
      /\ copy.deleting = obj.deleting
  BY <1>1, NewStatusType DEF ExportPolicy, PutStatus, HandTypes
<1>. HIDE DEF copy
<1>3. NoConflict(copy)
  BY <1>2 DEF NoConflict
<1>. QED  BY <1>2, <1>3, PutFenced

LEMMA ReconcileFenced ==
  ASSUME HandTypes, Fenced, Reconcile, UNCHANGED <<past, old>>
  PROVE  /\ Fenced'
         /\ \A p \in Policies :
              EditsKept(Stored(policies[p]), Stored(policies'[p]))
<1>. DEFINE Kept == \A p \in Policies :
              EditsKept(Stored(policies[p]), Stored(policies'[p]))
<1>1. StoreTypes
  BY DEF HandTypes, Types, TypeOK, StoreTypes
<1>2. UNCHANGED usedUIDs
  BY DEF Reconcile, GetPolicy, Finalize, UpdatePolicy, ValidateSink,
         UpdateStatus, KeepStatus, ConfigureSink, Panic, CreateOrUpdate,
         Conflict, CallFails, ReplyLost, stores
<1>3. ASSUME UNCHANGED policies, HandsKnown PROVE Fenced' /\ Kept
  BY <1>2, <1>3, StillFenced DEF EditsKept
<1>4. ASSUME pc' \in {"idle", "get"} \/ UNCHANGED <<pc, key, obj>>
      PROVE  HandsKnown
  BY <1>4 DEF HandsKnown, old
<1>5. CASE GetPolicy
  <2>. DEFINE cached == Cached(policies[key])
  <2>1. key \in Policies /\ UNCHANGED policies
    BY <1>5 DEF GetPolicy, HandTypes, Types, WorkerOK, stores
  <2>2. CASE Return
    BY <1>3, <1>4, <2>1, <2>2 DEF Return, ForgetRequest
  <2>3. CASE ~Return
    <3>1. cached # Absent /\ obj' = [cached EXCEPT !.finalizer = TRUE] /\ key' = key
      BY <1>5, <2>3 DEF GetPolicy
    <3>2. cached \in ExportPolicy /\ cached \in Shown(key) \ {Absent}
      BY <1>1, <2>1, <3>1, ShownType DEF PolicyOrAbsent
    <3>3. KnownIn(cached, StoredPolicy(key), usedUIDs)
      BY <2>1, <3>2 DEF Fenced, VersionsKnown, Known, KnownIn
    <3>4. /\ obj'.uid = cached.uid /\ obj'.rv = cached.rv
          /\ obj'.spec = cached.spec /\ obj'.generation = cached.generation
          /\ obj'.deleting = cached.deleting
      BY <3>1, <3>2 DEF ExportPolicy
    <3>5. KnownIn(obj', StoredPolicy(key), usedUIDs)
      BY <3>3, <3>4, SameKnown
    <3>. QED  BY <1>2, <1>3, <2>1, <3>1, <3>5 DEF HandsKnown, old, StoredPolicy
  <2>. QED  BY <2>2, <2>3
<1>6. CASE Finalize
  <2>1. /\ key \in Policies /\ obj \in ExportPolicy
        /\ KnownIn(obj, StoredPolicy(key), usedUIDs)
    BY <1>6 DEF Finalize, HandTypes, Types, WorkerOK, Fenced, CopiesKnown, Known, KnownIn
  <2>2. /\ obj'.uid = obj.uid /\ obj'.rv = obj.rv
        /\ obj'.spec = obj.spec /\ obj'.generation = obj.generation
        /\ obj'.deleting = obj.deleting
    BY <1>6, <2>1 DEF Finalize, ExportPolicy
  <2>3. KnownIn(obj', StoredPolicy(key), usedUIDs)
    BY <2>1, <2>2, SameKnown
  <2>4. UNCHANGED <<policies, key, usedUIDs>>
    BY <1>6 DEF Finalize
  <2>. QED  BY <1>3, <2>3, <2>4 DEF HandsKnown, old, StoredPolicy
<1>7. CASE UpdatePolicy
  <2>1. obj \in ExportPolicy
    BY <1>7 DEF UpdatePolicy, HandTypes, Types, WorkerOK
  <2>2. pc' = "idle" \/ (key' = key /\ obj' = [obj EXCEPT !.rv = @ + 1] /\ ~obj.deleting)
    BY <1>7 DEF UpdatePolicy, Return, ForgetRequest
  <2>. QED  BY <1>2, <1>7, <2>1, <2>2, PutFenced DEF UpdatePolicy
<1>8. CASE UpdateStatus
  BY <1>2, <1>8, PutStatusFenced DEF UpdateStatus, Requeue, ForgetRequest
<1>9. CASE ReplyLost
  <2>1. pc' = "idle"
    BY <1>9 DEF ReplyLost, Requeue, ForgetRequest
  <2>2. \/ UNCHANGED policies
        \/ pc = "update" /\ NoConflict(obj) /\ PutPolicy(obj)
        \/ pc = "status" /\ NoConflict(obj) /\ PutStatus
    BY <1>9 DEF ReplyLost
  <2>3. pc = "update" => obj \in ExportPolicy
    BY DEF HandTypes, Types, WorkerOK
  <2>. QED  BY <1>2, <1>3, <1>4, <2>1, <2>2, <2>3, PutFenced, PutStatusFenced
<1>10. CASE KeepStatus \/ ConfigureSink \/ ValidateSink
  <2>1. UNCHANGED <<policies, key, obj>>
    BY <1>10 DEF KeepStatus, ConfigureSink, ValidateSink, stores
  <2>2. pc \notin {"idle", "get"}
    BY <1>10 DEF KeepStatus, ConfigureSink, ValidateSink
  <2>3. KnownIn(obj, StoredPolicy(key), usedUIDs)
    BY <2>2 DEF Fenced, CopiesKnown, Known, KnownIn
  <2>. QED  BY <1>2, <1>3, <2>1, <2>3 DEF HandsKnown, old, StoredPolicy
<1>11. CASE Panic \/ CreateOrUpdate \/ Conflict \/ CallFails
  <2>1. UNCHANGED policies /\ pc' = "idle"
    BY <1>11 DEF Panic, CreateOrUpdate, Conflict, CallFails, Return, Requeue,
                 ForgetRequest, stores
  <2>. QED  BY <1>3, <1>4, <2>1
<1>. QED
  BY <1>5, <1>6, <1>7, <1>8, <1>9, <1>10, <1>11 DEF Reconcile

LEMMA GoOnFenced ==
  ASSUME HandTypes, Fenced, GoOn
  PROVE  /\ Fenced'
         /\ User \/ \A p \in Policies :
              EditsKept(Stored(policies[p]), Stored(policies'[p]))
<1>1. UNCHANGED <<past, old>>
  BY DEF GoOn
<1>2. CASE User
  BY <1>1, <1>2, UserFenced
<1>3. CASE Reconcile
  BY <1>1, <1>3, ReconcileFenced
<1>4. ASSUME NEW p \in Policies, Dequeue(p) \/ Resync(p)
      PROVE  /\ UNCHANGED <<policies, usedUIDs>>
             /\ pc' \in {"idle", "get"} \/ UNCHANGED <<pc, key, obj>>
  BY <1>4 DEF Dequeue, Resync, stores, request
<1>5. ASSUME NEW s \in Secrets, DeliverSecret(s) \/ MapSecret(s) \/ MapSecretFails(s)
      PROVE  UNCHANGED <<policies, usedUIDs, pc, key, obj>>
  BY <1>5 DEF DeliverSecret, MapSecret, MapSecretFails, stores, request
<1>6. ASSUME NEW u \in UIDs, DeliverConfig(u)
      PROVE  UNCHANGED <<policies, usedUIDs, pc, key, obj>>
  BY <1>6 DEF DeliverConfig, request
<1>7. ASSUME UNCHANGED <<policies, usedUIDs>>,
             pc' \in {"idle", "get"} \/ UNCHANGED <<pc, key, obj>>
      PROVE  Fenced' /\ \A p \in Policies :
               EditsKept(Stored(policies[p]), Stored(policies'[p]))
  <2>1. HandsKnown
    BY <1>1, <1>7 DEF HandsKnown, old
  <2>. QED  BY <1>1, <1>7, <2>1, StillFenced DEF EditsKept
<1>. QED  BY <1>2, <1>3, <1>4, <1>5, <1>6, <1>7 DEF GoOn

-----------------------------------------------------------------------------
(* Lists that go back *)

\* What the cache goes beyond may be shown again.
LEMMA GoBeyondFenced ==
  ASSUME HandTypes, Fenced, NEW p \in Policies, GoBeyond(p)
  PROVE  /\ Fenced'
         /\ past' \in [Policies -> Seq(PolicyOrAbsent)]
         /\ \A q \in Policies : EditsKept(Stored(policies[q]), Stored(policies'[q]))
<1>. DEFINE cached == Cached(policies[p])
            longer == Append(past[p], cached)
<1>1. StoreTypes
  BY DEF HandTypes, Types, TypeOK, StoreTypes
<1>2. /\ policies[p] \in Seq(PolicyOrAbsent) /\ Len(policies[p]) > 0
      /\ ~UpToDate(policies[p])
      /\ policies' = [policies EXCEPT ![p] = Tail(@)]
      /\ policies'[p] = Tail(policies[p])
      /\ \A q \in Policies \ {p} : policies'[q] = policies[q]
  BY <1>1, ShownType DEF GoBeyond, DeliverPolicy, StoreTypes
<1>3. /\ past[p] \in Seq(PolicyOrAbsent) /\ cached \in PolicyOrAbsent
      /\ past'[p] = Recent(longer)
      /\ \A q \in Policies \ {p} : past'[q] = past[q]
  BY <1>1, ShownType DEF GoBeyond, StoreTypes, PastTypeOK, PolicyOrAbsent
<1>. HIDE DEF cached
<1>4. /\ longer \in Seq(PolicyOrAbsent)
      /\ Len(longer) \in Nat
      /\ \A i \in DOMAIN longer : longer[i] = cached \/ longer[i] \in {past[p][j] : j \in DOMAIN past[p]}
  BY <1>3
<1>. HIDE DEF longer
<1>5. /\ Recent(longer) \in Seq(PolicyOrAbsent)
      /\ \A i \in DOMAIN Recent(longer) : \E j \in DOMAIN longer : Recent(longer)[i] = longer[j]
  <2>1. ASSUME NEW m \in {1, 2}
        PROVE  /\ SubSeq(longer, m, Len(longer)) \in Seq(PolicyOrAbsent)
               /\ \A i \in DOMAIN SubSeq(longer, m, Len(longer)) :
                    \E j \in DOMAIN longer :
                      SubSeq(longer, m, Len(longer))[i] = longer[j]
    BY <1>4
  <2>. QED  BY <2>1 DEF Recent
<1>6. \A q \in Policies : Stored(policies'[q]) = StoredPolicy(q)
  <2>1. Stored(Tail(policies[p])) = Stored(policies[p])
    BY <1>2, LogTail
  <2>. QED  BY <1>2, <2>1 DEF StoredPolicy
<1>7. Shown(p)' \subseteq Shown(p)
  <2>1. \A i \in DOMAIN policies'[p] : policies'[p][i] \in {policies[p][j] : j \in DOMAIN policies[p]}
    BY <1>2 DEF UpToDate
  <2>2. cached \in Shown(p)
    BY <1>1, ShownType DEF cached
  <2>3. \A i \in DOMAIN past'[p] : past'[p][i] \in Shown(p)
    BY <1>3, <1>4, <1>5, <2>2 DEF Shown
  <2>. QED  BY <2>1, <2>3 DEF Shown
<1>8. \A q \in Policies \ {p} : Shown(q)' \subseteq Shown(q)
  BY <1>2, <1>3 DEF Shown
<1>9. past' \in [Policies -> Seq(PolicyOrAbsent)]
  <2>1. past' = [past EXCEPT ![p] = Recent(longer)]
    BY DEF GoBeyond, longer, cached
  <2>. QED  BY <1>1, <1>5, <2>1 DEF StoreTypes, PastTypeOK, PolicyOrAbsent
<1>10. HandsKnown /\ UNCHANGED usedUIDs
  BY DEF GoBeyond, DeliverPolicy, HandsKnown, request, old
<1>. QED
  BY <1>6, <1>7, <1>8, <1>9, <1>10, FrameFenced DEF EditsKept, StoredPolicy

\* What a successor lists is what the caches showed before, in that order.
LEMMA ListedLog ==
  ASSUME StoreTypes, NEW p \in Policies, NEW n \in Nat, n <= Len(past[p])
  PROVE  /\ Listed(p, n) \in Logs(ExportPolicy)
         /\ SubSeq(past[p], 1, Len(past[p]) - n) \in Seq(PolicyOrAbsent)
         /\ Stored(Listed(p, n)) = StoredPolicy(p)
         /\ \A i \in DOMAIN Listed(p, n) : Listed(p, n)[i] \in Shown(p)
         /\ LET earlier == SubSeq(past[p], 1, Len(past[p]) - n) IN
            \A i \in DOMAIN earlier : earlier[i] \in Shown(p)
<1>. DEFINE log == policies[p]
            gone == past[p]
            back == SubSeq(gone, Len(gone) - n + 1, Len(gone))
            earlier == SubSeq(gone, 1, Len(gone) - n)
<1>1. /\ log \in Seq(PolicyOrAbsent) /\ Len(log) > 0
      /\ gone \in Seq(PolicyOrAbsent) /\ Len(gone) \in Nat /\ n <= Len(gone)
  BY ShownType DEF StoreTypes, PastTypeOK, PolicyOrAbsent
<1>2. /\ \A i \in DOMAIN log : log[i] \in Shown(p)
      /\ \A i \in DOMAIN gone : gone[i] \in Shown(p)
  BY DEF Shown
<1>3. Listed(p, n) = back \o log /\ Stored(log) = StoredPolicy(p)
  BY DEF Listed, StoredPolicy
<1>. HIDE DEF log, gone
<1>4. /\ back \in Seq(PolicyOrAbsent) /\ Len(back) = n
      /\ \A i \in DOMAIN back : back[i] \in Shown(p)
  <2>. DEFINE first == Len(gone) - n + 1
  <2>1. /\ first \in Int /\ Len(gone) \in Int /\ Len(gone) - first + 1 = n
        /\ \A i \in 1 .. n : first + i - 1 \in DOMAIN gone
        /\ \A i \in first .. Len(gone) : gone[i] \in PolicyOrAbsent
    BY <1>1
  <2>2. back = SubSeq(gone, first, Len(gone))
    OBVIOUS
  <2>. HIDE DEF first, back
  <2>3. /\ back \in Seq(PolicyOrAbsent)
        /\ Len(back) = IF first <= Len(gone) THEN Len(gone) - first + 1 ELSE 0
        /\ \A i \in 1 .. Len(gone) - first + 1 : back[i] = gone[first + i - 1]
    BY <2>1, <2>2, SubSeqProperties
  <2>4. Len(back) = n
    BY <2>1, <2>3
  <2>5. ASSUME NEW i \in DOMAIN back PROVE back[i] \in Shown(p)
    <3>1. i \in 1 .. n
      BY <2>3, <2>4
    <3>. QED  BY <1>2, <2>1, <2>3, <3>1
  <2>. QED  BY <2>3, <2>4, <2>5
<1>5. /\ earlier \in Seq(PolicyOrAbsent)
      /\ \A i \in DOMAIN earlier : earlier[i] \in Shown(p)
  BY <1>1, <1>2
<1>. HIDE DEF back
<1>6. /\ back \o log \in Seq(PolicyOrAbsent)
      /\ Len(back \o log) = n + Len(log)
      /\ (back \o log)[n + Len(log)] = log[Len(log)]
      /\ \A i \in DOMAIN (back \o log) : (back \o log)[i] \in Shown(p)
  <2>1. /\ back \o log \in Seq(PolicyOrAbsent)
        /\ Len(back \o log) = Len(back) + Len(log)
        /\ \A i \in 1 .. Len(back) + Len(log) :
             (back \o log)[i] = IF i <= Len(back) THEN back[i]
                                ELSE log[i - Len(back)]
    BY <1>1, <1>4, ConcatProperties
  <2>. QED  BY <1>1, <1>2, <1>4, <2>1
<1>7. back \o log \in Logs(ExportPolicy) /\ Stored(back \o log) = Stored(log)
  BY <1>1, <1>6 DEF Logs, PolicyOrAbsent, Stored
<1>. QED  BY <1>3, <1>5, <1>6, <1>7 DEF earlier, gone

LEMMA TakeOverFenced ==
  ASSUME HandTypes, Fenced, TakeOver,
         spent' \in Budget,
         \/ UNCHANGED old
         \/ /\ pc \notin {"idle", "get"}
            /\ oldKey' = key /\ oldObj' = obj
  PROVE  /\ Fenced'
         /\ Types'
         /\ PastTypeOK'
         /\ \A q \in Policies : EditsKept(Stored(policies[q]), Stored(policies'[q]))
<1>1. StoreTypes
  BY DEF HandTypes, Types, TypeOK, StoreTypes
<1>2. PICK back \in [Policies -> 0..MaxStaleness] :
        /\ \A p \in Policies : back[p] <= Len(past[p])
        /\ policies' = [p \in Policies |-> Listed(p, back[p])]
        /\ past' = [p \in Policies |-> SubSeq(past[p], 1, Len(past[p]) - back[p])]
        /\ queue' = {p \in Policies : Cached(Listed(p, back[p])) # Absent}
  BY DEF TakeOver
<1>3. \A p \in Policies : back[p] \in Nat
  BY FailoverAssumption
<1>4. \A p \in Policies :
        /\ policies'[p] \in Logs(ExportPolicy)
        /\ past'[p] \in Seq(PolicyOrAbsent)
        /\ Stored(policies'[p]) = StoredPolicy(p)
        /\ \A i \in DOMAIN policies'[p] : policies'[p][i] \in Shown(p)
        /\ \A i \in DOMAIN past'[p] : past'[p][i] \in Shown(p)
  BY <1>1, <1>2, <1>3, ListedLog
<1>5. \A p \in Policies : Shown(p)' \subseteq Shown(p)
  BY <1>4 DEF Shown
<1>6. HandsKnown
  <2>1. pc' = "idle"
    BY DEF TakeOver, ForgetRequest
  <2>2. CASE UNCHANGED old
    BY <2>1, <2>2 DEF HandsKnown, old
  <2>3. CASE pc \notin {"idle", "get"} /\ oldKey' = key /\ oldObj' = obj
    <3>1. key \in Policies /\ KnownIn(obj, StoredPolicy(key), usedUIDs)
      BY <2>3 DEF HandTypes, Types, WorkerOK, Fenced, CopiesKnown, Known, KnownIn
    <3>2. usedUIDs' = usedUIDs /\ Stored(policies'[oldKey']) = StoredPolicy(key)
      BY <1>4, <2>3, <3>1 DEF TakeOver
    <3>. QED  BY <2>1, <2>3, <3>1, <3>2 DEF HandsKnown
  <2>. QED  BY <2>2, <2>3
<1>7. Fenced'
  BY <1>4, <1>5, <1>6, FrameFenced DEF TakeOver
<1>8. PastTypeOK'
  <2>1. past' \in [Policies -> Seq(PolicyOrAbsent)]
    BY <1>2, <1>4
  <2>. QED  BY <2>1 DEF PastTypeOK, PolicyOrAbsent
<1>9. Types'
  <2>1. policies' \in [Policies -> Logs(ExportPolicy)]
    BY <1>2, <1>4
  <2>2. queue' \subseteq Policies /\ notices' = {}
    BY <1>2 DEF TakeOver
  <2>. QED
    BY <2>1, <2>2, ForgetRequestType DEF TakeOver, HandTypes, Types, TypeOK, WorkerOK
<1>. QED  BY <1>4, <1>7, <1>8, <1>9 DEF EditsKept, StoredPolicy

-----------------------------------------------------------------------------
(* The former leader *)

LEMMA OldForgetType ==
  ASSUME Old!ForgetRequest
  PROVE  OldTypeOK' /\ oldPc' = "idle"
<1>1. /\ oldPc' = "idle" /\ oldKey' = Absent /\ oldObj' = Absent
      /\ oldCursor' = 1
      /\ oldFound' = NoSinkStatuses /\ oldDraft' = EmptyConfiguration
  BY DEF Old!ForgetRequest, Old!NoSinkStatuses, Old!EmptyConfiguration,
         Old!NoSinks, NoSinkStatuses, EmptyConfiguration, NoSinks
<1>2. NoSinkStatuses \in [SinkNames -> Condition]
  BY DEF NoSinkStatuses, Condition
<1>. QED  BY <1>1, <1>2, EmptyConfigurationType DEF OldTypeOK

\* What the former leader computes it computes by the same code.
LEMMA SameCode ==
  /\ \A log : Old!Cached(log) = Cached(log) /\ Old!Stored(log) = Stored(log)
  /\ \A log, v : /\ Old!Write(log, v) = Write(log, v)
                 /\ Old!WriteDownstream(log, v) = WriteDownstream(log, v)
  /\ \A status, sink, outcome :
       Old!SinkCondition(status, sink, outcome)
         = SinkCondition(status, sink, outcome)
  /\ \A sink, outcome, secret :
       Old!SinkVectorConfig(sink, outcome, secret)
         = SinkVectorConfig(sink, outcome, secret)
  /\ \A secret : Old!RetrieveBasicAuthSecret(secret)
                   = RetrieveBasicAuthSecret(secret)
  /\ \A spec : Old!ConfiguredSources(spec) = ConfiguredSources(spec)
  /\ \A sinks, n : Old!ReadyFor(sinks, n) = ReadyFor(sinks, n)
  /\ Old!EmptyConfiguration = EmptyConfiguration
  /\ Old!SecretError = SecretError
  /\ \A kind, bound : Old!Spend(kind, bound) <=> Spend(kind, bound)
  /\ \A sink, outcome :
       Old!ReadSecret(sink, outcome) <=> ReadSecret(sink, outcome)
<1>1. \A log : Old!Cached(log) = Cached(log) /\ Old!Stored(log) = Stored(log)
  BY DEF Old!Cached, Cached, Old!Stored, Stored
<1>2. \A log, v : /\ Old!Write(log, v) = Write(log, v)
                  /\ Old!WriteDownstream(log, v) = WriteDownstream(log, v)
  BY DEF Old!Write, Write, Old!WriteDownstream, WriteDownstream
<1>3. \A status, sink, outcome :
       Old!SinkCondition(status, sink, outcome)
         = SinkCondition(status, sink, outcome)
  BY DEF Old!SinkCondition, SinkCondition, Old!GetSinkStatus, GetSinkStatus
<1>4. \A sink, outcome, secret :
       Old!SinkVectorConfig(sink, outcome, secret)
         = SinkVectorConfig(sink, outcome, secret)
  BY DEF Old!SinkVectorConfig, SinkVectorConfig
<1>5. \A secret : Old!RetrieveBasicAuthSecret(secret)
                   = RetrieveBasicAuthSecret(secret)
  BY DEF Old!RetrieveBasicAuthSecret, RetrieveBasicAuthSecret
<1>6. \A spec : Old!ConfiguredSources(spec) = ConfiguredSources(spec)
  BY DEF Old!ConfiguredSources, ConfiguredSources
<1>7. \A sinks, n : Old!ReadyFor(sinks, n) = ReadyFor(sinks, n)
  <2>1. \A T : Old!Cardinality(T) = Cardinality(T)
    BY DEF Old!Cardinality, Cardinality
  <2>. QED  BY <2>1 DEF Old!ReadyFor, ReadyFor
<1>8. Old!EmptyConfiguration = EmptyConfiguration /\ Old!SecretError = SecretError
  BY DEF Old!EmptyConfiguration, EmptyConfiguration, Old!NoSinks, NoSinks,
         Old!SecretError, SecretError
<1>9. \A kind, bound : Old!Spend(kind, bound) <=> Spend(kind, bound)
  BY DEF Old!Spend, Spend
<1>10. \A sink, outcome :
       Old!ReadSecret(sink, outcome) <=> ReadSecret(sink, outcome)
  BY <1>1, <1>5, <1>9 DEF Old!ReadSecret, ReadSecret
<1>. QED  BY <1>1, <1>2, <1>3, <1>4, <1>5, <1>6, <1>7, <1>8, <1>9, <1>10

\* The former leader writes a copy it knows.
LEMMA OldPutFenced ==
  ASSUME HandTypes, Fenced, UNCHANGED <<usedUIDs, past, request>>,
         oldPc # "idle",
         NEW copy \in ExportPolicy, Old!NoConflict(copy), Old!PutPolicy(copy),
         copy.uid = oldObj.uid, copy.rv = oldObj.rv, copy.spec = oldObj.spec,
         copy.generation = oldObj.generation, copy.deleting = oldObj.deleting,
         \/ oldPc' = "idle"
         \/ /\ oldKey' = oldKey
            /\ oldObj' = [copy EXCEPT !.rv = @ + 1]
            /\ ~copy.deleting
  PROVE  /\ Fenced'
         /\ policies' \in [Policies -> Logs(ExportPolicy)]
         /\ \A p \in Policies :
              EditsKept(Stored(policies[p]), Stored(policies'[p]))
<1>. DEFINE put == IF copy.deleting /\ ~copy.finalizer THEN Absent
                   ELSE [copy EXCEPT !.rv = @ + 1]
<1>1. StoreTypes
  BY DEF HandTypes, Types, TypeOK, StoreTypes
<1>2. oldKey \in Policies /\ KnownIn(oldObj, StoredPolicy(oldKey), usedUIDs)
  BY DEF HandTypes, OldTypeOK, Fenced, CopiesKnown, Known, KnownIn
<1>3. KnownIn(copy, StoredPolicy(oldKey), usedUIDs) /\ copy.uid \in usedUIDs
  BY <1>2, SameKnown DEF KnownIn
<1>4. /\ Exists(oldKey) /\ StoredPolicy(oldKey).uid = copy.uid
      /\ StoredPolicy(oldKey).rv = copy.rv
      /\ policies' = [policies EXCEPT ![oldKey] = Append(@, put)]
  BY DEF Old!NoConflict, Old!PutPolicy, Old!Write, Old!Stored, Stored, Exists,
         StoredPolicy
<1>5. /\ Stores(oldKey, put)
      /\ \A p \in Policies :
           EditsKept(Stored(policies[p]), Stored(policies'[p]))
  BY <1>1, <1>2, <1>3, <1>4, PutStores DEF Fenced
<1>6. /\ policies' \in [Policies -> Logs(ExportPolicy)]
      /\ ~copy.deleting =>
           KnownIn([copy EXCEPT !.rv = @ + 1], Stored(policies'[oldKey]), usedUIDs')
  BY <1>1, <1>2, <1>3, <1>5, PutKnown DEF Fenced
<1>. HIDE DEF put
<1>7. HandsKnown
  BY <1>6 DEF HandsKnown, request
<1>. QED  BY <1>2, <1>5, <1>6, <1>7, WriteFenced

LEMMA OldSinkType ==
  ASSUME oldObj \in ExportPolicy, oldCursor \in Nat \ {0}, Old!MoreSinks
  PROVE  Old!Sink \in TelemetrySink
<1>1. oldObj.spec \in Specs
  BY DEF ExportPolicy
<1>2. oldObj.spec.sinks \in Seq(TelemetrySink)
  BY <1>1, SpecType
<1>. QED  BY <1>2 DEF Old!Sink, Old!MoreSinks

\* The entry made for a sink from what was read for it.
LEMMA ReadSecretConfigType ==
  ASSUME TypeOK, NEW sink \in TelemetrySink, NEW outcome,
         IF sink.target.kind = "basicAuth" THEN ReadSecret(sink, outcome)
         ELSE outcome = "ok" /\ UNCHANGED spent
  PROVE  SinkVectorConfig(sink, outcome,
           IF outcome = "ok" /\ sink.target.kind = "basicAuth"
             THEN Cached(secrets[sink.target.secret]) ELSE Absent)
           \in SinkConfig \cup {Absent}
<1>. DEFINE secret == IF outcome = "ok" /\ sink.target.kind = "basicAuth"
                        THEN Cached(secrets[sink.target.secret]) ELSE Absent
<1>1. CASE sink.target.kind = "basicAuth" /\ outcome = "ok"
  <2>1. sink.target.secret \in Secrets
    BY <1>1, AbsentAssumption DEF TelemetrySink, Target
  <2>2. Cached(secrets[sink.target.secret]) \in SecretObject \cup {Absent}
    BY <2>1, StoreEnds DEF TypeOK
  <2>3. Cached(secrets[sink.target.secret]) # Absent
    BY <1>1 DEF ReadSecret, RetrieveBasicAuthSecret
  <2>. QED  BY <1>1, <2>2, <2>3, SinkVectorConfigType
<1>2. CASE ~(sink.target.kind = "basicAuth" /\ outcome = "ok")
  <2>1. secret = Absent
    BY <1>2
  <2>. HIDE DEF secret
  <2>2. SinkVectorConfig(sink, outcome, secret) \in SinkConfig \cup {Absent}
    BY <1>2, <2>1, SinkVectorConfigType
  <2>. QED  BY <2>2 DEF secret
<1>. QED  BY <1>1, <1>2

LEMMA OldNewStatusType ==
  ASSUME HandTypes, oldObj \in ExportPolicy
  PROVE  /\ Old!NewStatus \in Status
         /\ [oldObj EXCEPT !.status = Old!NewStatus] \in ExportPolicy
<1>1. Old!NewStatus = [sinks |-> oldFound,
                       ready |-> ReadyFor(oldFound, oldObj.generation)]
  BY SameCode DEF Old!NewStatus
<1>2. Old!NewStatus \in Status
  BY <1>1, ReadyForType DEF Status, HandTypes, OldTypeOK, ExportPolicy
<1>. QED  BY <1>2, PolicyVersions

LEMMA OldStepFenced ==
  ASSUME HandTypes, Fenced, OldStep
  PROVE  /\ HandTypes'
         /\ Fenced'
         /\ \A p \in Policies :
              EditsKept(Stored(policies[p]), Stored(policies'[p]))
<1>. DEFINE Kept == \A p \in Policies :
              EditsKept(Stored(policies[p]), Stored(policies'[p]))
<1>0. UNCHANGED <<queue, request, past>>
  BY DEF OldStep
<1>1. ASSUME policies' \in [Policies -> Logs(ExportPolicy)],
             configs' \in [UIDs -> Logs(Configuration)],
             UNCHANGED <<secrets, usedUIDs, notices>>, spent' \in Budget,
             OldTypeOK'
      PROVE  HandTypes'
  BY <1>0, <1>1 DEF HandTypes, Types, TypeOK, WorkerOK, request, PastTypeOK
<1>2. ASSUME UNCHANGED <<policies, secrets, usedUIDs, notices>>, spent' \in Budget,
             configs' \in [UIDs -> Logs(Configuration)],
             OldTypeOK',
             \/ oldPc' = "idle"
             \/ oldPc # "idle" /\ UNCHANGED <<oldKey, oldObj>>
             \/ KnownIn(oldObj', StoredPolicy(oldKey), usedUIDs) /\ UNCHANGED oldKey
      PROVE  HandTypes' /\ Fenced' /\ Kept
  <2>1. oldPc # "idle" => KnownIn(oldObj, StoredPolicy(oldKey), usedUIDs)
    BY DEF Fenced, CopiesKnown, Known, KnownIn
  <2>2. HandsKnown
    BY <1>0, <1>2, <2>1 DEF HandsKnown, request, StoredPolicy
  <2>3. policies' \in [Policies -> Logs(ExportPolicy)]
    BY <1>2 DEF HandTypes, Types, TypeOK
  <2>. QED  BY <1>0, <1>1, <1>2, <2>2, <2>3, StillFenced DEF EditsKept
<1>3. /\ OldTypeOK /\ TypeOK
      /\ configs \in [UIDs -> Logs(Configuration)] /\ spent \in Budget
  BY DEF HandTypes, Types, TypeOK
<1>4. CASE Old!Finalize
  <2>1. /\ oldPc = "finalize" /\ oldPc' = "update"
        /\ oldObj' = [oldObj EXCEPT !.finalizer = FALSE]
        /\ UNCHANGED <<policies, secrets, usedUIDs, notices, spent>>
        /\ UNCHANGED <<oldKey, oldCursor, oldFound, oldDraft>>
        /\ configs' = IF Stored(configs[oldObj.uid]) = Absent THEN configs
             ELSE [configs EXCEPT ![oldObj.uid] = WriteDownstream(@, Absent)]
    BY <1>4, SameCode DEF Old!Finalize, Old!DeleteConfig
  <2>2. /\ oldObj \in ExportPolicy /\ oldObj.uid \in UIDs /\ oldKey \in Policies
        /\ KnownIn(oldObj, StoredPolicy(oldKey), usedUIDs)
    BY <1>3, <2>1 DEF OldTypeOK, ExportPolicy, Fenced, CopiesKnown, Known, KnownIn
  <2>3. /\ oldObj' \in ExportPolicy
        /\ oldObj'.uid = oldObj.uid /\ oldObj'.rv = oldObj.rv
        /\ oldObj'.spec = oldObj.spec /\ oldObj'.generation = oldObj.generation
        /\ oldObj'.deleting = oldObj.deleting
    BY <2>1, <2>2 DEF ExportPolicy
  <2>4. KnownIn(oldObj', StoredPolicy(oldKey), usedUIDs)
    BY <2>2, <2>3, SameKnown
  <2>5. configs' \in [UIDs -> Logs(Configuration)]
    BY <1>3, <2>1, <2>2, StoreWriteDownstream
  <2>6. OldTypeOK'
    BY <1>3, <2>1, <2>2, <2>3 DEF OldTypeOK
  <2>. QED  BY <1>2, <1>3, <2>1, <2>4, <2>5, <2>6
<1>5. CASE Old!UpdatePolicy
  <2>1. /\ oldPc = "update" /\ Old!NoConflict(oldObj) /\ Old!PutPolicy(oldObj)
        /\ \/ Old!ForgetRequest
           \/ /\ ~oldObj.deleting /\ oldPc' = "status"
              /\ oldObj' = [oldObj EXCEPT !.rv = @ + 1]
              /\ UNCHANGED <<oldKey, oldCursor, oldFound, oldDraft>>
        /\ UNCHANGED <<secrets, configs, usedUIDs, notices, spent>>
    BY <1>5 DEF Old!UpdatePolicy, Old!Return
  <2>2. oldObj \in ExportPolicy
    BY <1>3, <2>1 DEF OldTypeOK
  <2>3. [oldObj EXCEPT !.rv = @ + 1] \in ExportPolicy
    BY <2>2, PolicyVersions
  <2>4. OldTypeOK'
    BY <1>3, <2>1, <2>3, OldForgetType DEF OldTypeOK
  <2>5. \/ oldPc' = "idle"
        \/ /\ oldKey' = oldKey
           /\ oldObj' = [oldObj EXCEPT !.rv = @ + 1]
           /\ ~oldObj.deleting
    BY <2>1, OldForgetType
  <2>6. /\ Fenced' /\ Kept
        /\ policies' \in [Policies -> Logs(ExportPolicy)]
    BY <1>0, <2>1, <2>2, <2>5, OldPutFenced
  <2>. QED  BY <1>1, <1>3, <2>1, <2>4, <2>6
<1>6. CASE Old!ValidateSink
  <2>1. /\ oldPc = "status" /\ Old!MoreSinks
        /\ oldCursor' = oldCursor + 1
        /\ UNCHANGED <<stores, notices, oldPc, oldKey, oldObj, oldDraft>>
    BY <1>6 DEF Old!ValidateSink, Old!stores, stores
  <2>2. oldObj \in ExportPolicy /\ Old!Sink \in TelemetrySink
    BY <1>3, <2>1, OldSinkType DEF OldTypeOK
  <2>3. PICK outcome \in SecretError \cup {"ok"} :
          /\ IF Old!Sink.target.kind = "basicAuth"
               THEN ReadSecret(Old!Sink, outcome)
               ELSE outcome = "ok" /\ UNCHANGED spent
          /\ oldFound' = [oldFound EXCEPT ![Old!Sink.name] =
                            SinkCondition(oldObj.status, Old!Sink, outcome)]
    BY <1>6, SameCode DEF Old!ValidateSink
  <2>4. oldFound' \in [SinkNames -> Condition]
    BY <1>3, <2>2, <2>3, SinkConditionType DEF OldTypeOK, ExportPolicy
  <2>5. spent' \in Budget
    BY <1>3, <2>3, ReadSecretType
  <2>6. OldTypeOK'
    BY <1>3, <2>1, <2>4 DEF OldTypeOK
  <2>. QED  BY <1>2, <1>3, <2>1, <2>5, <2>6 DEF stores
<1>7. CASE Old!UpdateStatus
  <2>. DEFINE copy == [oldObj EXCEPT !.status = Old!NewStatus]
  <2>1. /\ oldPc = "status" /\ Old!NoConflict(oldObj) /\ Old!PutPolicy(copy)
        /\ Old!ForgetRequest
        /\ UNCHANGED <<secrets, configs, usedUIDs, notices, spent>>
    BY <1>7 DEF Old!UpdateStatus, Old!PutStatus, Old!Requeue
  <2>2. oldObj \in ExportPolicy
    BY <1>3, <2>1 DEF OldTypeOK
  <2>3. /\ copy \in ExportPolicy
        /\ copy.uid = oldObj.uid /\ copy.rv = oldObj.rv
        /\ copy.spec = oldObj.spec /\ copy.generation = oldObj.generation
        /\ copy.deleting = oldObj.deleting
    BY <2>2, OldNewStatusType DEF ExportPolicy
  <2>. HIDE DEF copy
  <2>4. Old!NoConflict(copy)
    BY <2>1, <2>3 DEF Old!NoConflict
  <2>5. OldTypeOK' /\ oldPc' = "idle"
    BY <2>1, OldForgetType
  <2>6. /\ Fenced' /\ Kept
        /\ policies' \in [Policies -> Logs(ExportPolicy)]
    BY <1>0, <2>1, <2>3, <2>4, <2>5, OldPutFenced
  <2>. QED  BY <1>1, <1>3, <2>1, <2>5, <2>6
<1>8. CASE Old!KeepStatus
  <2>1. /\ oldPc = "status" /\ oldPc' = "config" /\ oldCursor' = 1
        /\ oldDraft' = [EmptyConfiguration EXCEPT
                          !.sources = ConfiguredSources(oldObj.spec)]
        /\ UNCHANGED <<stores, notices, oldKey, oldObj, oldFound, spent>>
    BY <1>8, SameCode DEF Old!KeepStatus, Old!stores, stores
  <2>2. ConfiguredSources(oldObj.spec) \subseteq SourceNames
    BY DEF ConfiguredSources
  <2>3. oldDraft' \in Configuration
    BY <2>1, <2>2, EmptyConfigurationType DEF Configuration
  <2>4. OldTypeOK'
    BY <1>3, <2>1, <2>3 DEF OldTypeOK
  <2>. QED  BY <1>2, <1>3, <2>1, <2>4 DEF stores
<1>9. CASE Old!ConfigureSink
  <2>. DEFINE Secret(outcome) ==
         IF outcome = "ok" /\ Old!Sink.target.kind = "basicAuth"
           THEN Cached(secrets[Old!Sink.target.secret]) ELSE Absent
  <2>1. /\ oldPc = "config" /\ Old!MoreSinks
        /\ oldCursor' = oldCursor + 1
        /\ UNCHANGED <<stores, notices, oldPc, oldKey, oldObj, oldFound>>
    BY <1>9 DEF Old!ConfigureSink, Old!stores, stores
  <2>2. oldObj \in ExportPolicy /\ Old!Sink \in TelemetrySink
    BY <1>3, <2>1, OldSinkType DEF OldTypeOK
  <2>3. PICK outcome \in SecretError \cup {"ok"} :
          /\ IF Old!Sink.target.kind = "basicAuth"
               THEN ReadSecret(Old!Sink, outcome)
               ELSE outcome = "ok" /\ UNCHANGED spent
          /\ oldDraft' = [oldDraft EXCEPT !.sinks[Old!Sink.name] =
                            SinkVectorConfig(Old!Sink, outcome, Secret(outcome))]
    BY <1>9, SameCode DEF Old!ConfigureSink
  <2>4. SinkVectorConfig(Old!Sink, outcome, Secret(outcome))
          \in SinkConfig \cup {Absent}
    BY <1>3, <2>2, <2>3, ReadSecretConfigType
  <2>5. oldDraft' \in Configuration
    <3>. DEFINE entry == SinkVectorConfig(Old!Sink, outcome, Secret(outcome))
    <3>1. entry \in SinkConfig \cup {Absent} /\ Old!Sink.name \in SinkNames
      BY <2>2, <2>4 DEF TelemetrySink
    <3>2. oldDraft' = [oldDraft EXCEPT !.sinks[Old!Sink.name] = entry]
      BY <2>3
    <3>. HIDE DEF entry
    <3>. QED  BY <1>3, <3>1, <3>2 DEF Configuration, OldTypeOK
  <2>6. spent' \in Budget
    BY <1>3, <2>3, ReadSecretType
  <2>7. OldTypeOK'
    BY <1>3, <2>1, <2>5 DEF OldTypeOK
  <2>. QED  BY <1>2, <1>3, <2>1, <2>6, <2>7 DEF stores
<1>10. CASE Old!CreateOrUpdate
  <2>1. /\ oldPc = "config" /\ Old!ForgetRequest
        /\ UNCHANGED <<policies, secrets, usedUIDs, notices, spent>>
        /\ \/ UNCHANGED configs
           \/ configs' = [configs EXCEPT ![oldObj.uid] = WriteDownstream(@, oldDraft)]
    BY <1>10, SameCode
    DEF Old!CreateOrUpdate, Old!PutConfig, Old!Return, Old!Requeue
  <2>2. oldObj.uid \in UIDs /\ oldDraft \in Configuration
    BY <1>3, <2>1 DEF OldTypeOK, ExportPolicy
  <2>3. configs' \in [UIDs -> Logs(Configuration)]
    BY <1>3, <2>1, <2>2, StoreWriteDownstream
  <2>4. OldTypeOK' /\ oldPc' = "idle"
    BY <2>1, OldForgetType
  <2>. QED  BY <1>2, <1>3, <2>1, <2>3, <2>4
<1>11. CASE Old!Conflict
  <2>1. Old!ForgetRequest /\ UNCHANGED <<stores, notices, spent>>
    BY <1>11 DEF Old!Conflict, Old!Requeue, Old!stores, stores
  <2>2. OldTypeOK' /\ oldPc' = "idle"
    BY <2>1, OldForgetType
  <2>. QED  BY <1>2, <1>3, <2>1, <2>2 DEF stores
<1>. QED
  BY <1>4, <1>5, <1>6, <1>7, <1>8, <1>9, <1>10, <1>11 DEF OldStep

LEMMA OldExitsFenced ==
  ASSUME HandTypes, Fenced, OldExits
  PROVE  HandTypes' /\ Fenced'
<1>1. UNCHANGED <<vars, past>> /\ OldTypeOK' /\ oldPc' = "idle"
  BY OldForgetType DEF OldExits
<1>2. HandTypes'
  BY <1>1 DEF HandTypes, Types, TypeOK, WorkerOK, PastTypeOK, vars, stores, request
<1>3. HandsKnown /\ UNCHANGED <<policies, usedUIDs, past>>
  BY <1>1 DEF HandsKnown, vars, stores, request
<1>. QED  BY <1>2, <1>3, StillFenced

-----------------------------------------------------------------------------
(* The theorems *)

LEMMA FailoverInvariantParts == FailoverInvariant <=> HandTypes /\ Fenced
BY DEF FailoverInvariant, HandTypes, Types, Fenced

LEMMA InitFailover == FailoverInit => FailoverInvariant
<1>. SUFFICES ASSUME FailoverInit PROVE FailoverInvariant
  OBVIOUS
<1>1. Types /\ pc = "idle"
  BY InitTypes DEF FailoverInit, Init
<1>2. OldTypeOK /\ oldPc = "idle"
  <2>1. NoSinkStatuses \in [SinkNames -> Condition]
    BY DEF NoSinkStatuses, Condition
  <2>. QED  BY <2>1, EmptyConfigurationType DEF FailoverInit, OldIsGone, OldTypeOK
<1>3. PastTypeOK
  BY DEF FailoverInit, PastTypeOK
<1>4. \A p \in Policies : Shown(p) = {Absent}
  BY DEF FailoverInit, Init, Shown
<1>5. Fenced
  BY <1>1, <1>2, <1>4 DEF Fenced, VersionsKnown, CopiesKnown
<1>. QED  BY <1>1, <1>2, <1>3, <1>5, FailoverInvariantParts DEF HandTypes

\* One step: the invariant is kept, and so is what users did.
LEMMA FailoverStep ==
  ASSUME FailoverInvariant, [FailoverNext]_failoverVars
  PROVE  /\ FailoverInvariant'
         /\ [User \/ \A p \in Policies :
               EditsKept(Stored(policies[p]), Stored(policies'[p]))]_failoverVars
<1>. DEFINE Kept == \A p \in Policies :
              EditsKept(Stored(policies[p]), Stored(policies'[p]))
<1>1. HandTypes /\ Fenced
  BY FailoverInvariantParts
<1>2. ASSUME UNCHANGED old, OldTypeOK PROVE OldTypeOK'
  BY <1>2 DEF old, OldTypeOK
<1>3. CASE GoOn
  <2>1. Next
    BY <1>3 DEF GoOn, Next, Informer
  <2>2. Types'
    BY <1>1, <2>1, NextTypes DEF HandTypes
  <2>3. HandTypes'
    BY <1>1, <1>2, <1>3, <2>2 DEF GoOn, HandTypes, PastTypeOK
  <2>. QED  BY <1>1, <1>3, <2>3, GoOnFenced DEF FailoverInvariant, HandTypes, Types, Fenced
<1>4. ASSUME NEW p \in Policies, GoBeyond(p)
      PROVE  HandTypes' /\ Fenced' /\ Kept
  <2>1. Next
    BY <1>4 DEF GoBeyond, Next, Informer
  <2>2. Types'
    BY <1>1, <2>1, NextTypes DEF HandTypes
  <2>3. PastTypeOK' /\ Fenced' /\ Kept
    BY <1>1, <1>4, GoBeyondFenced DEF PastTypeOK, PolicyOrAbsent
  <2>. QED  BY <1>1, <1>2, <1>4, <2>2, <2>3 DEF GoBeyond, HandTypes
<1>5. CASE LeaderEnds
  <2>1. spent' \in Budget
    BY <1>1, <1>5, SpendType DEF LeaderEnds, HandTypes, Types, TypeOK
  <2>2. Fenced' /\ Types' /\ PastTypeOK' /\ Kept
    BY <1>1, <1>5, <2>1, TakeOverFenced DEF LeaderEnds
  <2>. QED  BY <1>1, <1>2, <1>5, <2>2 DEF LeaderEnds, HandTypes, FailoverInvariant, Types, Fenced
<1>6. CASE LeaderLingers
  <2>1. spent' \in Budget
    BY <1>1, <1>6, SpendType DEF LeaderLingers, HandTypes, Types, TypeOK
  <2>2. Fenced' /\ Types' /\ PastTypeOK' /\ Kept
    BY <1>1, <1>6, <2>1, TakeOverFenced DEF LeaderLingers
  <2>3. OldTypeOK'
    BY <1>1, <1>6 DEF LeaderLingers, OldTypeOK, HandTypes, Types, TypeOK, WorkerOK
  <2>. QED  BY <2>2, <2>3 DEF FailoverInvariant, Types, Fenced
<1>7. CASE OldStep
  BY <1>1, <1>7, OldStepFenced DEF FailoverInvariant, HandTypes, Types, Fenced
<1>8. CASE OldExits
  <2>1. HandTypes' /\ Fenced'
    BY <1>1, <1>8, OldExitsFenced
  <2>2. Kept
    BY <1>8 DEF OldExits, vars, stores, EditsKept
  <2>. QED  BY <2>1, <2>2 DEF FailoverInvariant, HandTypes, Types, Fenced
<1>9. CASE UNCHANGED failoverVars
  <2>1. UNCHANGED <<vars, past, old>>
    BY <1>9 DEF failoverVars
  <2>2. HandTypes'
    BY <1>1, <2>1
    DEF HandTypes, Types, TypeOK, WorkerOK, OldTypeOK, PastTypeOK, vars, stores,
        request, old
  <2>3. Fenced'
    BY <1>1, <2>1, StillFenced DEF HandsKnown, vars, stores, request, old
  <2>. QED  BY <1>9, <2>2, <2>3 DEF FailoverInvariant, HandTypes, Types, Fenced
<1>10. ASSUME HandTypes', Fenced' PROVE FailoverInvariant'
  BY <1>10 DEF FailoverInvariant, HandTypes, Types, Fenced
<1>. QED
  BY <1>3, <1>4, <1>5, <1>6, <1>7, <1>8, <1>9, <1>10 DEF FailoverNext

\* Whatever a successor's lists show, and whatever copy a former leader goes on
\* with, is a version the server knows.
THEOREM FailoverInvariantHolds == FailoverSpec => []FailoverInvariant
<1>1. FailoverInit => FailoverInvariant
  BY InitFailover
<1>2. FailoverInvariant /\ [FailoverNext]_failoverVars => FailoverInvariant'
  BY FailoverStep
<1>. QED  BY <1>1, <1>2, PTL DEF FailoverSpec

\* So neither of two leaders that overlap undoes an edit or a deletion of a
\* user: the resource version is fence enough.
THEOREM LeadersUndoNoEdit == FailoverSpec => NoLeaderUndoesEdits
<1>1. FailoverInvariant /\ [FailoverNext]_failoverVars =>
        [User \/ \A p \in Policies :
           EditsKept(Stored(policies[p]), Stored(policies'[p]))]_failoverVars
  BY FailoverStep
<1>. QED  BY <1>1, FailoverInvariantHolds, PTL DEF FailoverSpec, NoLeaderUndoesEdits
=============================================================================
