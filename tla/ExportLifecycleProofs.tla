------------------------- MODULE ExportLifecycleProofs -------------------------
(***************************************************************************)
(* The controller implements the life cycle of ExportLifecycle: each of    *)
(* its steps is a step in the life of one policy, or none.                 *)
(***************************************************************************)
EXTENDS ExportPolicySafetyProofs

-----------------------------------------------------------------------------
(* The phase of a UID in a store of policies *)

Owns(store, p, u) == Stored(store[p]) # Absent /\ Stored(store[p]).uid = u

\* It depends on the policies that have this UID only.
LEMMA PhaseFrame ==
  ASSUME NEW f, NEW g, NEW used, NEW used2, NEW u,
         u \in used <=> u \in used2,
         \A p \in Policies : Owns(f, p, u) \/ Owns(g, p, u) =>
           Stored(g[p]) = Stored(f[p])
  PROVE  PhaseIn(g, used2, u) = PhaseIn(f, used, u)
<1>1. Owners(g, u) = Owners(f, u)
  BY DEF Owners, Owns
<1>2. CASE Owners(f, u) = {}
  BY <1>1, <1>2 DEF PhaseIn
<1>3. CASE Owners(f, u) # {}
  <2>. DEFINE owner == CHOOSE p \in Owners(f, u) : TRUE
  <2>1. owner \in Owners(f, u)
    BY <1>3
  <2>2. Stored(g[owner]) = Stored(f[owner])
    BY <2>1 DEF Owners, Owns
  <2>. QED  BY <1>1, <1>3, <2>2 DEF PhaseIn
<1>. QED  BY <1>2, <1>3

\* It is that of the policy that has the UID, if only one does.
LEMMA PhaseOwned ==
  ASSUME NEW f, NEW used, NEW u \in used, NEW p \in Policies, Owns(f, p, u),
         \A q \in Policies : Owns(f, q, u) => q = p
  PROVE  PhaseIn(f, used, u) = PhaseOf(Stored(f[p]))
<1>1. Owners(f, u) = {p}
  BY DEF Owners, Owns
<1>. QED  BY <1>1 DEF PhaseIn

LEMMA PhaseGone ==
  ASSUME NEW f, NEW used, NEW u \in used,
         \A q \in Policies : ~Owns(f, q, u)
  PROVE  PhaseIn(f, used, u) = "gone"
BY DEF PhaseIn, Owners, Owns

-----------------------------------------------------------------------------
(* The steps of the life cycle *)

\* What is proved of every step of the controller.
LifecycleStep == OneOwner' /\ [Lifecycle!Next]_(Lifecycle!vars)

\* The stored UIDs have been given out.
LEMMA StoredUIDs ==
  ASSUME Types, Protocol, NEW p \in Policies, Exists(p)
  PROVE  /\ StoredPolicy(p).uid \in usedUIDs
         /\ StoredPolicy(p).uid \in UIDs
         /\ StoredPolicy(p) \in ExportPolicy
<1>1. /\ Len(policies[p]) \in Versions(policies[p])
      /\ policies[p][Len(policies[p])] = StoredPolicy(p)
      /\ StoredPolicy(p) \in ExportPolicy
  BY StoredIsVersion DEF Types
<1>. QED  BY <1>1 DEF Protocol, LogOK, Types, TypeOK

LEMMA PhaseOfStored ==
  ASSUME Types, Protocol, OneOwner, NEW p \in Policies, Exists(p)
  PROVE  Phase[StoredPolicy(p).uid] = PhaseOf(StoredPolicy(p))
<1>. DEFINE u == StoredPolicy(p).uid
<1>1. u \in usedUIDs /\ u \in UIDs
  BY StoredUIDs
<1>2. PhaseIn(policies, usedUIDs, u) = PhaseOf(Stored(policies[p]))
  <2>1. \A q \in Policies : Owns(policies, q, u) => q = p
    BY DEF OneOwner, Owns, Exists, StoredPolicy
  <2>2. Owns(policies, p, u)
    BY DEF Owns, Exists, StoredPolicy
  <2>. HIDE DEF u
  <2>. QED  BY <1>1, <2>1, <2>2, PhaseOwned
<1>. QED  BY <1>1, <1>2 DEF Phase, StoredPolicy

\* A step that leaves what is stored of the policies alone.
LEMMA PoliciesStay ==
  ASSUME OneOwner, UNCHANGED usedUIDs,
         \A p \in Policies : Stored(policies'[p]) = Stored(policies[p])
  PROVE  OneOwner' /\ UNCHANGED Phase
<1>1. OneOwner'
  BY DEF OneOwner, Exists, StoredPolicy
<1>2. \A u \in UIDs : PhaseIn(policies', usedUIDs', u)
                        = PhaseIn(policies, usedUIDs, u)
  BY PhaseFrame
<1>. QED  BY <1>1, <1>2 DEF Phase

\* A step that changes the configuration of one UID at most, and has one there
\* only if the policy is claimed.
LEMMA ConfigStep ==
  ASSUME OneOwner, UNCHANGED usedUIDs,
         \A p \in Policies : Stored(policies'[p]) = Stored(policies[p]),
         NEW u \in UIDs,
         \A w \in UIDs \ {u} : Stored(configs'[w]) = Stored(configs[w]),
         Stored(configs'[u]) # Absent => Phase[u] \in {"claimed", "retiring"}
  PROVE  LifecycleStep
<1>1. OneOwner' /\ UNCHANGED Phase
  BY PoliciesStay
<1>2. Exported' = [Exported EXCEPT ![u] = Stored(configs'[u]) # Absent]
  BY DEF Exported
<1>3. CASE Stored(configs'[u]) # Absent
  BY <1>1, <1>2, <1>3
  DEF LifecycleStep, Lifecycle!Next, Lifecycle!Export
<1>4. CASE Stored(configs'[u]) = Absent /\ Stored(configs[u]) # Absent
  <2>1. Exported[u]
    BY <1>4 DEF Exported
  <2>. QED  BY <1>1, <1>2, <1>4, <2>1
            DEF LifecycleStep, Lifecycle!Next, Lifecycle!Withdraw
<1>5. CASE Stored(configs'[u]) = Absent /\ Stored(configs[u]) = Absent
  <2>1. UNCHANGED Exported
    BY <1>5 DEF Exported
  <2>. QED  BY <1>1, <2>1 DEF LifecycleStep, Lifecycle!vars
<1>. QED  BY <1>3, <1>4, <1>5

\* A step that changes nothing the life cycle knows of.
LEMMA StutterStep ==
  ASSUME OneOwner, UNCHANGED usedUIDs,
         \A p \in Policies : Stored(policies'[p]) = Stored(policies[p]),
         \A u \in UIDs : Stored(configs'[u]) = Stored(configs[u])
  PROVE  LifecycleStep
<1>1. OneOwner' /\ UNCHANGED Phase
  BY PoliciesStay
<1>2. UNCHANGED Exported
  BY DEF Exported
<1>. QED  BY <1>1, <1>2 DEF LifecycleStep, Lifecycle!vars

\* A new version of a policy, or its removal, moves that policy only.
LEMMA PolicyStep ==
  ASSUME Types, Protocol, OneOwner, NEW p \in Policies, Exists(p), NEW v,
         UNCHANGED <<usedUIDs, configs>>,
         Stored(policies'[p]) = v, v # Absent => v.uid = StoredPolicy(p).uid,
         \A q \in Policies \ {p} : policies'[q] = policies[q]
  PROVE  LET u == StoredPolicy(p).uid
             from == PhaseOf(StoredPolicy(p))
             to == IF v = Absent THEN "gone" ELSE PhaseOf(v)
         IN  /\ u \in UIDs
             /\ OneOwner'
             /\ UNCHANGED Exported
             /\ Lifecycle!Move(u, from, to)
             /\ from = to => UNCHANGED Phase
<1>. DEFINE u == StoredPolicy(p).uid
            from == PhaseOf(StoredPolicy(p))
            to == IF v = Absent THEN "gone" ELSE PhaseOf(v)
<1>1. u \in usedUIDs /\ u \in UIDs
  BY StoredUIDs
<1>2. OneOwner'
  BY DEF OneOwner, Exists, StoredPolicy
<1>3. Phase[u] = from
  BY PhaseOfStored
<1>4. PhaseIn(policies', usedUIDs', u) = to
  <2>1. CASE v = Absent
    <3>1. \A q \in Policies : ~Owns(policies', q, u)
      BY <2>1 DEF OneOwner, Owns, Exists, StoredPolicy
    <3>. HIDE DEF u
    <3>. QED  BY <1>1, <2>1, <3>1, PhaseGone
  <2>2. CASE v # Absent
    <3>1. Owns(policies', p, u)
      BY <2>2 DEF Owns
    <3>2. \A q \in Policies : Owns(policies', q, u) => q = p
      BY DEF OneOwner, Owns, Exists, StoredPolicy
    <3>. HIDE DEF u
    <3>3. PhaseIn(policies', usedUIDs', u) = PhaseOf(Stored(policies'[p]))
      BY <1>1, <3>1, <3>2, PhaseOwned
    <3>. QED  BY <2>2, <3>3
  <2>. QED  BY <2>1, <2>2
<1>5. ASSUME NEW w \in UIDs \ {u}
      PROVE  PhaseIn(policies', usedUIDs', w) = PhaseIn(policies, usedUIDs, w)
  <2>1. \A q \in Policies : Owns(policies, q, w) \/ Owns(policies', q, w) =>
          Stored(policies'[q]) = Stored(policies[q])
    BY <1>5 DEF Owns, StoredPolicy
  <2>. QED  BY <2>1, PhaseFrame
<1>6. Phase' = [Phase EXCEPT ![u] = to]
  BY <1>1, <1>4, <1>5 DEF Phase
<1>7. UNCHANGED Exported
  BY DEF Exported
<1>8. Phase = [Phase EXCEPT ![u] = from]
  BY <1>3 DEF Phase
<1>. QED  BY <1>1, <1>2, <1>3, <1>6, <1>7, <1>8 DEF Lifecycle!Move

-----------------------------------------------------------------------------
(* Users, others downstream, and informers *)

\* A policy that exists has one phase only, and a configuration one policy.
LEMMA ExportedIsClaimed ==
  ASSUME Types, Protocol, OneOwner, NEW u \in UIDs, Stored(configs[u]) # Absent
  PROVE  Phase[u] \in {"claimed", "retiring"}
<1>1. PICK p \in Policies : /\ Exists(p)
                            /\ StoredPolicy(p).uid = u
                            /\ StoredPolicy(p).finalizer
  BY DEF Protocol, NoOrphanConfig
<1>. QED  BY <1>1, PhaseOfStored DEF PhaseOf

LEMMA CreateStep ==
  ASSUME Types, Protocol, OneOwner,
         NEW p \in Policies, NEW u \in UIDs, NEW spec \in Specs,
         CreatePolicy(p, u, spec)
  PROVE  LifecycleStep
<1>. DEFINE new == [uid |-> u, rv |-> 1, generation |-> 1, spec |-> spec,
                    finalizer |-> FALSE, deleting |-> FALSE, status |-> NoStatus]
<1>1. new \in ExportPolicy /\ new.uid = u /\ PhaseOf(new) = "pending"
  BY NoStatusType DEF ExportPolicy, PhaseOf
<1>2. policies' = [policies EXCEPT ![p] = Write(@, new)]
  BY DEF CreatePolicy
<1>. HIDE DEF new
<1>3. new # Absent
  BY <1>1, AbsentAssumption
<1>4. /\ Stored(policies'[p]) = new
      /\ \A q \in Policies \ {p} : policies'[q] = policies[q]
  BY <1>1, <1>2, StoreWrite DEF Types, TypeOK
<1>5. /\ Stored(policies[p]) = Absent /\ u \notin usedUIDs
      /\ usedUIDs' = usedUIDs \cup {u} /\ UNCHANGED configs
  BY DEF CreatePolicy
<1>6. \A q \in Policies : ~Owns(policies, q, u)
  BY <1>5, StoredUIDs DEF Owns, Exists, StoredPolicy
<1>7. \A q \in Policies : Owns(policies', q, u) => q = p
  BY <1>4, <1>6 DEF Owns
<1>8. OneOwner'
  BY <1>1, <1>4, <1>6 DEF OneOwner, Owns, Exists, StoredPolicy
<1>9. Phase[u] = "unborn"
  BY <1>5 DEF Phase, PhaseIn
<1>10. PhaseIn(policies', usedUIDs', u) = "pending"
  <2>1. u \in usedUIDs' /\ Owns(policies', p, u)
    BY <1>1, <1>3, <1>4, <1>5 DEF Owns
  <2>. QED  BY <1>1, <1>4, <1>7, <2>1, PhaseOwned
<1>11. ASSUME NEW w \in UIDs \ {u}
       PROVE  PhaseIn(policies', usedUIDs', w) = PhaseIn(policies, usedUIDs, w)
  <2>1. \A q \in Policies : Owns(policies, q, w) \/ Owns(policies', q, w) =>
          Stored(policies'[q]) = Stored(policies[q])
    BY <1>1, <1>4, <1>5, <1>11 DEF Owns
  <2>. QED  BY <1>5, <1>11, <2>1, PhaseFrame
<1>12. Phase' = [Phase EXCEPT ![u] = "pending"]
  BY <1>10, <1>11 DEF Phase
<1>13. UNCHANGED Exported
  BY <1>5 DEF Exported
<1>14. Lifecycle!Create(u)
  BY <1>9, <1>12, <1>13 DEF Lifecycle!Create, Lifecycle!Move
<1>. QED  BY <1>8, <1>14 DEF LifecycleStep, Lifecycle!Next

LEMMA UserStep ==
  ASSUME Types, Protocol, OneOwner, User
  PROVE  LifecycleStep
<1>1. ASSUME NEW p \in Policies, NEW spec \in Specs, UpdateSpec(p, spec)
      PROVE  LifecycleStep
  <2>. DEFINE stored == StoredPolicy(p)
              new == [stored EXCEPT !.spec = spec, !.generation = @ + 1,
                                    !.rv = @ + 1]
  <2>1. Exists(p) /\ stored \in ExportPolicy
    BY <1>1, StoredUIDs DEF UpdateSpec, Exists, StoredPolicy
  <2>2. /\ new \in ExportPolicy /\ new # Absent
        /\ new.uid = stored.uid
        /\ PhaseOf(new) = PhaseOf(stored)
    <3>1. new \in ExportPolicy
      BY <2>1, PolicyVersions
    <3>2. new.uid = stored.uid /\ PhaseOf(new) = PhaseOf(stored)
      BY <2>1, PolicyVersionFields DEF PhaseOf
    <3>. QED  BY <3>1, <3>2, AbsentAssumption
  <2>3. policies' = [policies EXCEPT ![p] = Write(@, new)]
    BY <1>1 DEF UpdateSpec, StoredPolicy
  <2>. HIDE DEF new
  <2>4. /\ Stored(policies'[p]) = new
        /\ \A q \in Policies \ {p} : policies'[q] = policies[q]
    BY <2>2, <2>3, StoreWrite DEF Types, TypeOK
  <2>5. OneOwner' /\ UNCHANGED <<Phase, Exported>>
    BY <1>1, <2>1, <2>2, <2>4, PolicyStep DEF UpdateSpec
  <2>. QED  BY <2>5 DEF LifecycleStep, Lifecycle!vars
<1>2. ASSUME NEW p \in Policies, DeletePolicy(p)
      PROVE  LifecycleStep
  <2>. DEFINE stored == StoredPolicy(p)
              marked == [stored EXCEPT !.deleting = TRUE,
                                       !.generation = @ + 1, !.rv = @ + 1]
              new == IF stored.finalizer THEN marked ELSE Absent
  <2>1. Exists(p) /\ stored \in ExportPolicy /\ ~stored.deleting
    BY <1>2, StoredUIDs DEF DeletePolicy, Exists, StoredPolicy
  <2>2. /\ marked \in ExportPolicy /\ marked # Absent
        /\ marked.uid = stored.uid
        /\ marked.deleting /\ marked.finalizer = stored.finalizer
    <3>1. marked \in ExportPolicy
      BY <2>1, PolicyVersions
    <3>2. /\ marked.uid = stored.uid
          /\ marked.deleting /\ marked.finalizer = stored.finalizer
      BY <2>1, PolicyVersionFields
    <3>. QED  BY <3>1, <3>2, AbsentAssumption
  <2>3. policies' = [policies EXCEPT ![p] = Write(@, new)]
    BY <1>2 DEF DeletePolicy, StoredPolicy
  <2>. HIDE DEF marked
  <2>4. new \in ExportPolicy \cup {Absent}
    BY <2>2
  <2>5. /\ Stored(policies'[p]) = new
        /\ \A q \in Policies \ {p} : policies'[q] = policies[q]
    BY <2>3, <2>4, StoreWrite DEF Types, TypeOK
  <2>6. new # Absent => new.uid = stored.uid
    BY <2>2
  <2>7. UNCHANGED <<usedUIDs, configs>>
    BY <1>2 DEF DeletePolicy
  <2>8. stored.uid \in UIDs /\ OneOwner'
    BY <2>1, <2>5, <2>6, <2>7, PolicyStep
  <2>9. \/ Lifecycle!Retire(stored.uid)
        \/ Lifecycle!Abandon(stored.uid)
    <3>1. CASE stored.finalizer
      <4>1. PhaseOf(stored) = "claimed" /\ PhaseOf(new) = "retiring"
        BY <2>1, <2>2, <3>1 DEF PhaseOf
      <4>2. new # Absent
        BY <2>2, <3>1
      <4>. HIDE DEF new
      <4>. QED  BY <2>1, <2>5, <2>6, <2>7, <4>1, <4>2, PolicyStep
                DEF Lifecycle!Retire
    <3>2. CASE ~stored.finalizer
      <4>1. PhaseOf(stored) = "pending" /\ new = Absent
        BY <3>2 DEF PhaseOf
      <4>. HIDE DEF new
      <4>. QED  BY <2>1, <2>5, <2>6, <2>7, <4>1, PolicyStep
                DEF Lifecycle!Abandon
    <3>. QED  BY <3>1, <3>2
  <2>. QED  BY <2>8, <2>9 DEF LifecycleStep, Lifecycle!Next
<1>3. ASSUME NEW s \in Secrets, NEW v, WriteSecret(s, v)
      PROVE  LifecycleStep
  BY <1>3, StutterStep DEF WriteSecret
<1>4. ASSUME NEW u \in UIDs, NEW v \in {Absent, EmptyConfiguration}, Drift(u, v)
      PROVE  LifecycleStep
  <2>1. \A w \in UIDs \ {u} : configs'[w] = configs[w]
    BY <1>4, EmptyConfigurationType, StoreWriteDownstream DEF Drift, Types, TypeOK
  <2>2. Phase[u] \in {"claimed", "retiring"}
    BY <1>4, ExportedIsClaimed DEF Drift
  <2>. QED  BY <1>4, <2>1, <2>2, ConfigStep DEF Drift
<1>. QED  BY <1>1, <1>2, <1>3, <1>4, CreateStep DEF User

LEMMA InformerStep ==
  ASSUME Types, OneOwner, Informer
  PROVE  LifecycleStep
<1>1. ASSUME NEW p \in Policies, DeliverPolicy(p) PROVE LifecycleStep
  <2>1. \A q \in Policies : Stored(policies'[q]) = Stored(policies[q])
    BY <1>1, StoreDeliver DEF DeliverPolicy, Types, TypeOK
  <2>. QED  BY <1>1, <2>1, StutterStep DEF DeliverPolicy
<1>2. ASSUME NEW u \in UIDs, DeliverConfig(u) PROVE LifecycleStep
  <2>1. \A w \in UIDs : Stored(configs'[w]) = Stored(configs[w])
    BY <1>2, StoreDeliver DEF DeliverConfig, Types, TypeOK
  <2>. QED  BY <1>2, <2>1, StutterStep DEF DeliverConfig
<1>3. CASE UNCHANGED <<policies, configs, usedUIDs>>
  BY <1>3, StutterStep
<1>. QED
  BY <1>1, <1>2, <1>3
  DEF Informer, Resync, DeliverSecret, MapSecret, MapSecretFails, stores

-----------------------------------------------------------------------------
(* The reconciler *)

\* The write of a copy that differs from the policy the reconciler has read in
\* its status only.
LEMMA PutStep ==
  ASSUME Types, Protocol, OneOwner, UNCHANGED <<configs, usedUIDs>>,
         pc \in {"update", "status"},
         NEW copy \in ExportPolicy, NoConflict(copy), PutPolicy(copy),
         copy.uid = obj.uid, copy.rv = obj.rv,
         copy.deleting = obj.deleting, copy.finalizer = obj.finalizer
  PROVE  LifecycleStep
<1>. DEFINE stored == StoredPolicy(key)
            next == [copy EXCEPT !.rv = @ + 1]
            put == IF copy.deleting /\ ~copy.finalizer THEN Absent ELSE next
<1>1. key \in Policies
  BY DEF Types, WorkerOK
<1>2. /\ Stored(policies'[key]) = put
      /\ \A q \in Policies \ {key} : policies'[q] = policies[q]
  BY <1>1, PutPolicyTypes DEF Types, TypeOK
<1>3. /\ Exists(key) /\ stored.uid = obj.uid
      /\ stored.deleting = obj.deleting
  BY DEF NoConflict, Exists, StoredPolicy, Protocol, CopyOK
<1>4. /\ next \in ExportPolicy /\ next # Absent /\ next.uid = copy.uid
      /\ next.deleting = copy.deleting /\ next.finalizer = copy.finalizer
  <2>1. next \in ExportPolicy
    BY PolicyVersions
  <2>. QED  BY <2>1, StoredCopyFields, AbsentAssumption
<1>. HIDE DEF next
<1>5. put # Absent => put.uid = stored.uid
  BY <1>3, <1>4
<1>6. stored.uid \in UIDs /\ OneOwner' /\ UNCHANGED Exported
  BY <1>1, <1>2, <1>3, <1>5, PolicyStep
<1>7. CASE put = Absent
  <2>1. copy.deleting /\ ~copy.finalizer
    BY <1>4, <1>7
  <2>2. pc = "update"
    BY <2>1 DEF Protocol, ClaimOK
  <2>3. ~Exported[stored.uid]
    BY <1>3, <1>6, <2>1, <2>2 DEF Protocol, FinalizeOK, Exported
  <2>4. PhaseOf(stored) \in {"pending", "retiring"}
    BY <1>3, <2>1 DEF PhaseOf
  <2>. HIDE DEF put
  <2>5. Lifecycle!Move(stored.uid, PhaseOf(stored), "gone")
    BY <1>1, <1>2, <1>3, <1>5, <1>7, PolicyStep
  <2>. QED  BY <1>6, <2>3, <2>4, <2>5
            DEF LifecycleStep, Lifecycle!Next, Lifecycle!Abandon, Lifecycle!Release
<1>8. CASE put # Absent
  <2>1. put = next /\ copy.finalizer /\ ~copy.deleting
    BY <1>4, <1>8 DEF Protocol, FinalizeOK, ClaimOK
  <2>2. PhaseOf(put) = "claimed"
    BY <1>4, <2>1 DEF PhaseOf
  <2>3. PhaseOf(stored) \in {"pending", "claimed"}
    BY <1>3, <2>1 DEF PhaseOf
  <2>. HIDE DEF put
  <2>4. /\ Lifecycle!Move(stored.uid, PhaseOf(stored), "claimed")
        /\ PhaseOf(stored) = "claimed" => UNCHANGED Phase
    BY <1>1, <1>2, <1>3, <1>5, <1>8, <2>2, PolicyStep
  <2>5. CASE PhaseOf(stored) = "pending"
    BY <1>6, <2>4, <2>5 DEF LifecycleStep, Lifecycle!Next, Lifecycle!Claim
  <2>6. CASE PhaseOf(stored) = "claimed"
    BY <1>6, <2>4, <2>6 DEF LifecycleStep, Lifecycle!vars
  <2>. QED  BY <2>3, <2>5, <2>6
<1>. QED  BY <1>7, <1>8

LEMMA PutStatusStep ==
  ASSUME Types, Protocol, OneOwner, pc = "status", NoConflict(obj), PutStatus,
         UNCHANGED <<configs, usedUIDs>>
  PROVE  LifecycleStep
<1>. DEFINE copy == [obj EXCEPT !.status = NewStatus]
<1>1. obj \in ExportPolicy
  BY DEF Types, WorkerOK
<1>2. /\ copy \in ExportPolicy /\ PutPolicy(copy)
      /\ copy.uid = obj.uid /\ copy.rv = obj.rv
      /\ copy.deleting = obj.deleting /\ copy.finalizer = obj.finalizer
  BY <1>1, NewStatusType DEF ExportPolicy, PutStatus
<1>. HIDE DEF copy
<1>3. NoConflict(copy)
  BY <1>2 DEF NoConflict
<1>. QED  BY <1>2, <1>3, PutStep

LEMMA DeleteConfigStep ==
  ASSUME Types, OneOwner, pc = "finalize", DeleteConfig(obj.uid),
         UNCHANGED <<policies, usedUIDs>>
  PROVE  LifecycleStep
<1>1. obj.uid \in UIDs
  BY DEF Types, WorkerOK, ExportPolicy
<1>2. /\ Stored(configs'[obj.uid]) = Absent
      /\ \A w \in UIDs \ {obj.uid} : configs'[w] = configs[w]
  BY <1>1, DeleteConfigTypes DEF Types, TypeOK
<1>. QED  BY <1>1, <1>2, ConfigStep

LEMMA PutConfigStep ==
  ASSUME Types, Protocol, OneOwner, pc = "config", PutConfig(obj.uid),
         UNCHANGED <<policies, usedUIDs>>
  PROVE  LifecycleStep
<1>1. obj.uid \in UIDs /\ key \in Policies
  BY DEF Types, WorkerOK, ExportPolicy
<1>2. \A w \in UIDs \ {obj.uid} : configs'[w] = configs[w]
  BY <1>1, PutConfigTypes DEF Types, TypeOK
<1>3. /\ Exists(key) /\ StoredPolicy(key).uid = obj.uid
      /\ StoredPolicy(key).finalizer
  BY DEF Protocol, ClaimOK
<1>4. Phase[obj.uid] \in {"claimed", "retiring"}
  BY <1>1, <1>3, PhaseOfStored DEF PhaseOf
<1>. QED  BY <1>1, <1>2, <1>4, ConfigStep

LEMMA ReconcileStep ==
  ASSUME Types, Protocol, OneOwner, Reconcile
  PROVE  LifecycleStep
<1>1. CASE UNCHANGED <<policies, configs, usedUIDs>>
  BY <1>1, StutterStep
<1>2. CASE Finalize
  BY <1>2, DeleteConfigStep DEF Finalize
<1>3. CASE UpdatePolicy
  BY <1>3, PutStep DEF UpdatePolicy, Types, WorkerOK
<1>4. CASE UpdateStatus
  BY <1>4, PutStatusStep DEF UpdateStatus
<1>5. CASE CreateOrUpdate
  BY <1>1, <1>5, PutConfigStep DEF CreateOrUpdate
<1>6. CASE ReplyLost
  <2>1. UNCHANGED usedUIDs /\ pc \in {"finalize", "update", "status", "config"}
    BY <1>6 DEF ReplyLost
  <2>2. CASE pc = "finalize"
    BY <1>6, <2>1, <2>2, DeleteConfigStep DEF ReplyLost
  <2>3. CASE pc = "update"
    BY <1>6, <2>1, <2>3, PutStep DEF ReplyLost, Types, WorkerOK
  <2>4. CASE pc = "status"
    BY <1>6, <2>1, <2>4, PutStatusStep DEF ReplyLost
  <2>5. CASE pc = "config"
    BY <1>6, <2>1, <2>5, PutConfigStep DEF ReplyLost
  <2>. QED  BY <2>1, <2>2, <2>3, <2>4, <2>5
<1>. QED
  BY <1>1, <1>2, <1>3, <1>4, <1>5, <1>6
  DEF Reconcile, GetPolicy, ValidateSink, KeepStatus, ConfigureSink, Panic,
      Conflict, CallFails, stores

-----------------------------------------------------------------------------
(* The theorems *)

LEMMA NextLifecycle ==
  ASSUME Types, Protocol, OneOwner, [Next]_vars
  PROVE  LifecycleStep
<1>1. CASE UNCHANGED <<policies, configs, usedUIDs>>
  BY <1>1, StutterStep
<1>. QED
  BY <1>1, UserStep, InformerStep, ReconcileStep
  DEF Next, Dequeue, Crash, vars, stores

LEMMA InitLifecycle ==
  ASSUME Init
  PROVE  OneOwner /\ Lifecycle!Init
<1>1. \A p \in Policies : Stored(policies[p]) = Absent
  BY DEF Init, Stored
<1>2. \A u \in UIDs : Stored(configs[u]) = Absent
  BY DEF Init, Stored
<1>3. OneOwner
  BY <1>1 DEF OneOwner, Exists, StoredPolicy
<1>4. Phase = [u \in UIDs |-> "unborn"]
  BY DEF Init, Phase, PhaseIn
<1>5. Exported = [u \in UIDs |-> FALSE]
  BY <1>2 DEF Exported
<1>. QED  BY <1>3, <1>4, <1>5 DEF Lifecycle!Init

\* A UID is of one policy: none that is created gets that of another, and no
\* write of the reconciler, from however old a copy, lends one to another name.
THEOREM UIDsAreUnique == Spec => []OneOwner
<1>1. Init => OneOwner
  BY InitLifecycle
<1>2. ControllerInvariant /\ OneOwner /\ [Next]_vars => OneOwner'
  BY InvariantParts, NextLifecycle DEF LifecycleStep
<1>. QED  BY <1>1, <1>2, InvariantHolds, PTL DEF Spec

\* The controller implements the life cycle: a policy is claimed before anything
\* is exported for it, and goes only after its configuration, whatever fails,
\* whatever the caches show and whenever the operator restarts.
THEOREM LifecycleImplemented == Spec => ImplementsLifecycle
<1>1. Init => Lifecycle!Init
  BY InitLifecycle
<1>2. ControllerInvariant /\ OneOwner /\ [Next]_vars
        => [Lifecycle!Next]_(Lifecycle!vars)
  BY InvariantParts, NextLifecycle DEF LifecycleStep
<1>. QED
  BY <1>1, <1>2, InvariantHolds, UIDsAreUnique, PTL
  DEF Spec, ImplementsLifecycle, Lifecycle!Spec
=============================================================================
