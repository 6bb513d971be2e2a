--------------------------- MODULE LeaderFailover ---------------------------
(***************************************************************************)
(* The ExportPolicy controller when leadership passes to another process.  *)
(*                                                                         *)
(* The new leader begins with lists, which its API servers may serve from  *)
(* a cache that is behind what the former leader had already seen.  And    *)
(* the former leader may not have noticed yet: nothing stops the API calls *)
(* of the request it has in hand before its process ends.  That it takes   *)
(* no other one is assumed: the loss of a lease does not prevent it, but a *)
(* leader gives up while its lease still runs (client-go's renew deadline).*)
(***************************************************************************)
EXTENDS ExportPolicyInvariant

CONSTANTS
  Overlap,      \* may the former leader still act?
  MaxStaleness  \* bounds the versions a list goes back

ASSUME FailoverAssumption == Overlap \in BOOLEAN /\ MaxStaleness \in Nat

VARIABLES
  past,  \* [Policies -> the versions the caches have gone beyond]
  oldPc, oldKey, oldObj, oldCursor, oldFound, oldDraft, oldQueue

old == <<oldPc, oldKey, oldObj, oldCursor, oldFound, oldDraft, oldQueue>>
failoverVars == <<vars, past, old>>

\* The former leader runs the same code on the same servers.
Old == INSTANCE ExportPolicyController WITH
  pc <- oldPc, key <- oldKey, obj <- oldObj, cursor <- oldCursor,
  found <- oldFound, draft <- oldDraft, queue <- oldQueue

OldIsGone ==
  /\ oldPc = "idle" /\ oldKey = Absent /\ oldObj = Absent /\ oldCursor = 1
  /\ oldFound = NoSinkStatuses /\ oldDraft = EmptyConfiguration
  /\ oldQueue = {}

FailoverInit ==
  /\ Init
  /\ past = [p \in Policies |-> <<>>]
  /\ OldIsGone

\* The log as a list shows it that is n versions behind the former cache.
Listed(p, n) ==
  SubSeq(past[p], Len(past[p]) - n + 1, Len(past[p])) \o policies[p]

\* The successor lists the policies, at least one version of each.
TakeOver ==
  \E back \in [Policies -> 0..MaxStaleness] :
    /\ \A p \in Policies : back[p] <= Len(past[p])
    /\ policies' = [p \in Policies |-> Listed(p, back[p])]
    /\ past' = [p \in Policies |-> SubSeq(past[p], 1, Len(past[p]) - back[p])]
    /\ queue' = {p \in Policies : Cached(Listed(p, back[p])) # Absent}
    /\ notices' = {}
    /\ ForgetRequest
    /\ UNCHANGED <<secrets, configs, usedUIDs>>

\* The former leader ends with its lease: nothing is left of it.
LeaderEnds ==
  /\ Spend("crashes", MaxCrashes)
  /\ TakeOver
  /\ UNCHANGED old

\* It goes on with the copy of the policy it has in hand.
LeaderLingers ==
  /\ Overlap /\ OldIsGone
  /\ pc \notin {"idle", "get"}
  /\ Spend("crashes", MaxCrashes)
  /\ TakeOver
  /\ oldPc' = pc /\ oldKey' = key /\ oldObj' = obj /\ oldCursor' = cursor
  /\ oldFound' = found /\ oldDraft' = draft
  /\ UNCHANGED oldQueue

\* What it would requeue is in a queue nobody serves any more.  A call of it
\* that fails, or panics, leaves as much behind as if it had exited before.
OldStep ==
  /\ \/ Old!Finalize \/ Old!UpdatePolicy
     \/ Old!ValidateSink \/ Old!UpdateStatus \/ Old!KeepStatus
     \/ Old!ConfigureSink \/ Old!CreateOrUpdate
     \/ Old!Conflict
  /\ UNCHANGED <<queue, request, past>>

\* The errgroup of main is canceled and the process exits.
OldExits ==
  /\ ~OldIsGone
  /\ Old!ForgetRequest
  /\ oldQueue' = {}
  /\ UNCHANGED <<vars, past>>

GoOn ==
  /\ \/ User \/ Reconcile
     \/ \E p \in Policies : Dequeue(p) \/ Resync(p)
     \/ \E s \in Secrets : DeliverSecret(s) \/ MapSecret(s) \/ MapSecretFails(s)
     \/ \E u \in UIDs : DeliverConfig(u)
  /\ UNCHANGED <<past, old>>

\* The last MaxStaleness of these versions.
Recent(log) == SubSeq(log, IF Len(log) > MaxStaleness THEN 2 ELSE 1, Len(log))

GoBeyond(p) ==
  /\ DeliverPolicy(p)
  /\ past' = [past EXCEPT ![p] = Recent(Append(@, Cached(policies[p])))]
  /\ UNCHANGED old

FailoverNext ==
  \/ GoOn
  \/ \E p \in Policies : GoBeyond(p)
  \/ LeaderEnds \/ LeaderLingers
  \/ OldStep \/ OldExits

FailoverSpec == FailoverInit /\ [][FailoverNext]_failoverVars

(***************************************************************************)
(* The fairness of the controller, for the process that leads.  A former   *)
(* leader's process ends: the loss of the lease cancels all of its parts.  *)
(***************************************************************************)
FairFailoverSpec ==
  /\ FailoverSpec
  /\ \A p \in Policies :
       /\ WF_failoverVars(GoBeyond(p))
       /\ WF_failoverVars(Resync(p) /\ UNCHANGED <<past, old>>)
       /\ SF_failoverVars(Dequeue(p) /\ UNCHANGED <<past, old>>)
  /\ \A s \in Secrets :
       /\ WF_failoverVars(DeliverSecret(s) /\ UNCHANGED <<past, old>>)
       /\ WF_failoverVars(MapSecret(s) /\ UNCHANGED <<past, old>>)
  /\ \A u \in UIDs : WF_failoverVars(DeliverConfig(u) /\ UNCHANGED <<past, old>>)
  /\ WF_failoverVars(Reconcile /\ UNCHANGED <<past, old>>)
  /\ WF_failoverVars(OldExits)

-----------------------------------------------------------------------------
\* Whoever of the two writes, and however old what it goes by, no write undoes
\* an edit or a deletion of a user (main.go, 260-278, has no other fence than
\* the resource version).
NoLeaderUndoesEdits ==
  [][User \/ \A p \in Policies :
       EditsKept(Stored(policies[p]), Stored(policies'[p]))]_failoverVars

-----------------------------------------------------------------------------
(* Why that is so *)

\* The former leader holds what a worker holds.
OldTypeOK ==
  /\ oldPc \in {"idle", "finalize", "update", "status", "config"}
  /\ oldKey \in Policies \cup {Absent}
  /\ oldObj \in ExportPolicy \cup {Absent}
  /\ oldCursor \in Nat \ {0}
  /\ oldFound \in [SinkNames -> Condition]
  /\ oldDraft \in Configuration
  /\ oldPc # "idle" => oldKey \in Policies /\ oldObj \in ExportPolicy

PastTypeOK == past \in [Policies -> Seq(ExportPolicy \cup {Absent})]

\* A version the server knows: not newer than what it stores, and the same in
\* what users control if it has the same resource version.
Known(version, stored) ==
  /\ version.uid \in usedUIDs
  /\ (stored # Absent /\ stored.uid = version.uid) =>
       /\ version.rv <= stored.rv
       /\ version.rv = stored.rv => /\ stored.spec = version.spec
                                    /\ stored.generation = version.generation
                                    /\ stored.deleting = version.deleting

\* What the caches show, may come to show or go back to.
Shown(p) == {policies[p][i] : i \in DOMAIN policies[p]}
            \cup {past[p][i] : i \in DOMAIN past[p]}

VersionsKnown ==
  \A p \in Policies : \A version \in Shown(p) \ {Absent} :
    Known(version, StoredPolicy(p))

CopiesKnown ==
  /\ pc \notin {"idle", "get"} => Known(obj, StoredPolicy(key))
  /\ oldPc # "idle" => Known(oldObj, StoredPolicy(oldKey))

\* The inductive invariant: neither a cache that goes back nor a leader that
\* lingers has anything but versions the server knows.
FailoverInvariant ==
  /\ TypeOK /\ WorkerOK
  /\ OldTypeOK /\ PastTypeOK
  /\ VersionsKnown
  /\ CopiesKnown
=============================================================================
