----------------------------- MODULE Quiescence -----------------------------
(***************************************************************************)
(* What holds when all is quiet, and why: no event, no requeue and no      *)
(* second reading of a Secret is forgotten on the way, but for one kind.   *)
(* When the map function of the Secret watch cannot list the policies, the *)
(* event is gone.  The variable missed records which policies that left    *)
(* behind.  It is history: no step of the controller depends on it.        *)
(***************************************************************************)
EXTENDS ExportPolicyInvariant

VARIABLE missed  \* the policies that such an event was about

quietVars == <<vars, missed>>

QuietInit == Init /\ missed = {}

QuietInformer ==
  \/ /\ \/ \E p \in Policies : DeliverPolicy(p) \/ Resync(p)
        \/ \E s \in Secrets : DeliverSecret(s) \/ MapSecret(s)
        \/ \E u \in UIDs : DeliverConfig(u)
     /\ UNCHANGED missed
  \/ \E s \in Secrets : MapSecretFails(s) /\ missed' = missed \cup Referrers(s)

\* Whoever takes a request for a policy, or lists all, reads the Secrets anew.
QuietNext ==
  \/ (User \/ Reconcile) /\ UNCHANGED missed
  \/ QuietInformer
  \/ \E p \in Policies : Dequeue(p) /\ missed' = missed \ {p}
  \/ Crash /\ missed' = {}

QuietSpec == QuietInit /\ [][QuietNext]_quietVars

FairQuietSpec == QuietSpec /\ Fairness

-----------------------------------------------------------------------------
\* When nothing is queued, in flight or undelivered, every policy is what its
\* status says and what is deployed for it, except those whose Secret changed
\* in an event that could not be mapped (export_policy_controller.go, 379-382).
QuiescentSynced == Quiescent => \A p \in Policies \ missed : Synced(p)

\* Once users stop editing, every policy gets, and keeps, the status and the
\* configuration its spec asks for, also without resyncs: a failed call, a lost
\* reply or a restart leaves no policy behind, but for those events.
SyncedUnlessMissed == <>[](\A p \in Policies \ missed : Synced(p))

-----------------------------------------------------------------------------
(* Why that is so *)

\* The reconciler alone writes downstream, and its cache there has caught up
\* before it reads; reads of a Secret fail for what the Secret is only; and no
\* sink has an empty target, which keeps whatever condition it had.
Undisturbed ==
  /\ ~DownstreamLags /\ MaxDrifts = 0
  /\ MaxReadFaults = 0
  /\ \A spec \in Specs : \A sink \in SinksOf(spec) : sink.target.kind # "none"

\* A request or an event is on its way that brings the reconciler to policy p.
Due(p) ==
  \/ p \in queue
  \/ ~UpToDate(policies[p])
  \/ /\ Cached(policies[p]) # Absent
     /\ \E s \in Secrets : /\ ReferencesSecret(Cached(policies[p]).spec, s)
                           /\ s \in notices \/ ~UpToDate(secrets[s])

\* It is due, or was when the event that made it so was lost.
Unsettled(p) == Due(p) \/ p \in missed

\* The server keeps no policy that is deleted and has no finalizer.
NoZombie ==
  \A p \in Policies : \A i \in Versions(policies[p]) :
    policies[p][i].deleting => policies[p][i].finalizer

UIDsOf(p) == {policies[p][i].uid : i \in Versions(policies[p])}

\* A UID belongs to one name, in every version and in the reconciler's copy.
NamesOwnUIDs ==
  /\ \A p, q \in Policies : p # q => UIDsOf(p) \cap UIDsOf(q) = {}
  /\ pc \notin {"idle", "get"} =>
       \A p \in Policies \ {key} : obj.uid \notin UIDsOf(p)

\* The loop over the sinks has judged those behind it by the stored Secrets.
ValidatedOK ==
  \A i \in DOMAIN obj.spec.sinks :
    LET sink == obj.spec.sinks[i] IN
    (i < cursor /\ sink.target.kind # "emptyAuth") =>
      (found[sink.name] = "accepted" <=> Exportable(sink))

\* The second loop has met no sink it panics on and configured those behind it.
ConfiguredOK ==
  /\ (\A sink \in SinksOf(obj.spec) : sink.target.kind # "emptyAuth")
       => StatusMatches(obj)
  /\ draft.sources = {n \in SourceNames : obj.spec.sources[n] = "metricExpr"}
  /\ \A i \in DOMAIN obj.spec.sinks :
       LET sink == obj.spec.sinks[i] IN
       /\ i < cursor => sink.target.kind # "emptyAuth"
       /\ draft.sinks[sink.name] =
            IF i < cursor /\ Exportable(sink) THEN WantedSink(sink) ELSE Absent
  /\ \A n \in SinkNames \ SinkNamesOf(obj.spec) : draft.sinks[n] = Absent

\* What the reconciler has in hand is right unless it will be back, or the event
\* that would have brought it back was lost.
RequestOK ==
  (pc \in {"status", "config"} /\ ~Unsettled(key)) =>
    /\ obj = StoredPolicy(key)
    /\ pc = "status" => ValidatedOK
    /\ pc = "config" => ConfiguredOK

\* The third inductive invariant, next to the others: a policy that is neither
\* due nor missed nor served at the moment is as it should be.
QuietInvariant ==
  /\ missed \subseteq Policies
  /\ \A u \in UIDs : UpToDate(configs[u])
  /\ pc = "idle" => key = Absent
  /\ NoZombie
  /\ NamesOwnUIDs
  /\ RequestOK
  /\ \A p \in Policies : (~Unsettled(p) /\ key # p) => Synced(p)
=============================================================================
