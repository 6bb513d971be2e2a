--------------------------- MODULE ProjectClusters ---------------------------
(***************************************************************************)
(* The ExportPolicy controller when the cluster of the project comes and   *)
(* goes: the provider engages it with the manager, and disengages it when  *)
(* the project's control plane cannot be reached or is no longer wanted.   *)
(*                                                                         *)
(* Between the two, users go on writing to the project's API server while  *)
(* its informers are stopped.  A request in hand is carried through with   *)
(* the client it has; one that is taken later finds no cluster.  A new     *)
(* engagement has new informers, which begin with a list.                  *)
(***************************************************************************)
EXTENDS ExportPolicyProperties

CONSTANT MaxDepartures  \* bounds how often the cluster is disengaged

ASSUME MaxDeparturesAssumption == MaxDepartures \in Nat

VARIABLES
  isEngaged,  \* does the manager have the cluster?
  departures  \* how often it was disengaged

membership == <<isEngaged, departures>>
clusterVars == <<vars, membership>>

ClusterInit ==
  /\ Init
  /\ isEngaged = FALSE
  /\ departures = 0

\* Mutant: the new informers hand over nothing but later changes.
EngageSilently ==
  /\ ~isEngaged
  /\ isEngaged' = TRUE
  /\ policies' = [p \in Policies |-> <<Stored(policies[p])>>]
  /\ secrets' = [s \in Secrets |-> <<Stored(secrets[s])>>]
  /\ notices' = {}
  /\ UNCHANGED <<configs, usedUIDs, queue, request, spent, departures>>

\* The first list of the new informers is an event for every object.
EngageCluster ==
  /\ ~isEngaged
  /\ isEngaged' = TRUE
  /\ policies' = [p \in Policies |-> <<Stored(policies[p])>>]
  /\ secrets' = [s \in Secrets |-> <<Stored(secrets[s])>>]
  /\ queue' = queue \cup {p \in Policies : Exists(p)}
  /\ notices' = {s \in Secrets : Stored(secrets[s]) # Absent}
  /\ UNCHANGED <<configs, usedUIDs, request, spent, departures>>

\* The events not yet handled are lost with the informers.
DisengageCluster ==
  /\ isEngaged
  /\ departures < MaxDepartures
  /\ isEngaged' = FALSE
  /\ departures' = departures + 1
  /\ notices' = {}
  /\ UNCHANGED <<stores, queue, request, spent>>

Inform ==
  /\ IF isEngaged THEN Informer ELSE \E u \in UIDs : DeliverConfig(u)
  /\ UNCHANGED membership

ServeRequest ==
  /\ pc = "get" => isEngaged
  /\ Reconcile
  /\ UNCHANGED membership

\* GetCluster has no such cluster.  The multicluster library may take the error
\* for an outcome to retry, or for the end of the request.
ClusterNotFound ==
  /\ pc = "get" /\ ~isEngaged
  /\ Return \/ Requeue
  /\ UNCHANGED <<stores, notices, spent, membership>>

ClusterNext ==
  \/ User /\ UNCHANGED membership
  \/ Inform
  \/ \E p \in Policies : Dequeue(p) /\ UNCHANGED membership
  \/ ServeRequest \/ ClusterNotFound
  \/ EngageCluster \/ DisengageCluster

While(A) == isEngaged /\ A /\ UNCHANGED membership

(***************************************************************************)
(* As in the controller, for as long as the cluster is engaged.  Nothing   *)
(* obliges a project to come back.                                         *)
(***************************************************************************)
ClusterSpec ==
  /\ ClusterInit /\ [][ClusterNext]_clusterVars
  /\ \A p \in Policies :
       /\ WF_clusterVars(While(DeliverPolicy(p)))
       /\ SF_clusterVars(Dequeue(p) /\ UNCHANGED membership)
  /\ \A s \in Secrets : /\ WF_clusterVars(While(DeliverSecret(s)))
                        /\ WF_clusterVars(While(MapSecret(s)))
  /\ \A u \in UIDs : WF_clusterVars(DeliverConfig(u) /\ UNCHANGED membership)
  /\ WF_clusterVars(ServeRequest \/ ClusterNotFound)

-----------------------------------------------------------------------------
\* No policy is being deleted, and each that does not make the reconciler panic
\* has what its spec asks for.
CaughtUp ==
  \A p \in Policies : Exists(p) =>
    /\ ~StoredPolicy(p).deleting
    /\ ~Poisoned(StoredPolicy(p).spec) => Synced(p)

\* Whatever is written or deleted while the cluster is away is caught up with
\* once it stays, also when requests for it were dropped (controller.go, lines
\* 142-145): no policy is left as it was, or kept by its finalizer for ever.
CaughtUpAfterReturn == <>[]isEngaged => <>[]CaughtUp
=============================================================================
