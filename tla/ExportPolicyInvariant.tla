------------------------ MODULE ExportPolicyInvariant ------------------------
(***************************************************************************)
(* Why no configuration is orphaned, no edit is lost and no status counts  *)
(* another spec's sinks, although the reconciler decides by a cache that   *)
(* is behind: the inductive invariants of the ExportPolicy controller.     *)
(***************************************************************************)
EXTENDS ExportPolicyProperties

Versions(log) == {i \in DOMAIN log : log[i] # Absent}

\* The log of a policy lists ever later versions of one policy after another.
\* A deletion mark stays, and while the cache may still show a version that has
\* the finalizer and no deletion mark, the server's version has the finalizer.
LogOK(log, used) ==
  \A i \in Versions(log) :
    /\ log[i].uid \in used
    /\ \A j \in Versions(log) :
         (i < j /\ log[i].uid = log[j].uid) =>
           /\ log[i].rv < log[j].rv
           /\ log[i].deleting => log[j].deleting
    /\ (log[i].finalizer /\ ~log[i].deleting) =>
         /\ Stored(log) # Absent
         /\ Stored(log).uid = log[i].uid
         /\ Stored(log).finalizer

\* The reconciler holds a request, and past its Get a copy of the policy.
WorkerOK ==
  /\ pc # "idle" => key \in Policies
  /\ pc \notin {"idle", "get"} => obj \in ExportPolicy

\* Its copy is no newer than the server's version, and if it is of that very
\* version then what users control is the same in both.
CopyOK ==
  pc \notin {"idle", "get"} =>
    LET stored == StoredPolicy(key) IN
    /\ obj.uid \in usedUIDs
    /\ (Exists(key) /\ stored.uid = obj.uid) =>
         /\ obj.rv <= stored.rv
         /\ obj.rv = stored.rv => /\ stored.spec = obj.spec
                                  /\ stored.generation = obj.generation
                                  /\ stored.deleting = obj.deleting

\* While it finalizes a policy, the cache and the server know it as deleted,
\* and once it has done so there is no configuration to be orphaned.
FinalizeOK ==
  /\ pc = "finalize" => obj.deleting
  /\ pc \in {"finalize", "update"} =>
       /\ obj.finalizer <=> ~(pc = "update" /\ obj.deleting)
       /\ obj.deleting => \A i \in Versions(policies[key]) :
            policies[key][i].uid = obj.uid => policies[key][i].deleting
       /\ (pc = "update" /\ obj.deleting) => Stored(configs[obj.uid]) = Absent

\* While it works on the status or the configuration, the server has the
\* policy, with the finalizer: nobody but the reconciler can remove it.
ClaimOK ==
  pc \in {"status", "config"} =>
    /\ obj.finalizer /\ ~obj.deleting
    /\ Exists(key)
    /\ StoredPolicy(key).uid = obj.uid
    /\ StoredPolicy(key).finalizer

\* The inductive invariant.
ControllerInvariant ==
  /\ TypeOK
  /\ \A p \in Policies : LogOK(policies[p], usedUIDs)
  /\ WorkerOK
  /\ CopyOK
  /\ FinalizeOK
  /\ ClaimOK
  /\ NoOrphanConfig

-----------------------------------------------------------------------------
(* The status *)

\* A Ready condition is never ahead of the spec, and has counted the sinks of
\* the generation it names if that is the current one.
StatusOK(policy) ==
  /\ policy.status.ready.gen <= policy.generation
  /\ policy.status.ready.gen = policy.generation => Covers(policy)

\* The names of the first n sinks.
FirstNames(spec, n) == {spec.sinks[i].name : i \in 1 .. n}

\* The loop over the sinks starts from an empty list of statuses, and has added
\* one for each sink it has left behind.
LoopOK ==
  /\ pc \notin {"status", "config"} => cursor = 1 /\ found = NoSinkStatuses
  /\ pc = "status" =>
       /\ cursor - 1 <= Len(obj.spec.sinks)
       /\ {n \in SinkNames : found[n] # "missing"}
            = FirstNames(obj.spec, cursor - 1)

\* The second inductive invariant, next to the types: all versions of a policy,
\* and the copy of the reconciler, have a status that covers what it claims to,
\* and a configuration is made only once the status is of the copy's spec.
StatusInvariant ==
  /\ \A p \in Policies : \A i \in Versions(policies[p]) :
       StatusOK(policies[p][i])
  /\ pc \notin {"idle", "get"} => StatusOK(obj)
  /\ LoopOK
  /\ pc = "config" => obj.status.ready.gen = obj.generation

-----------------------------------------------------------------------------
(* The life cycle *)

\* No two policies have the same UID.
OneOwner ==
  \A p, q \in Policies :
    (Exists(p) /\ Exists(q) /\ StoredPolicy(p).uid = StoredPolicy(q).uid) => p = q

=============================================================================
