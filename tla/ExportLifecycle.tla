--------------------------- MODULE ExportLifecycle ---------------------------
(***************************************************************************)
(* What the operator promises about one ExportPolicy and its Vector        *)
(* configuration, whatever it reads, whenever it is interrupted: a         *)
(* configuration exists only while a policy that carries the finalizer     *)
(* does, and a claimed policy goes only after its configuration.           *)
(*                                                                         *)
(* An identity is the UID of a policy, and is never used twice.            *)
(***************************************************************************)
CONSTANT Ids

VARIABLES
  phase,    \* [Ids -> Phases]
  exported  \* [Ids -> BOOLEAN]: is there a configuration downstream?

vars == <<phase, exported>>

\* "pending": without, "claimed": with the finalizer.  "retiring": deleted by
\* the user and kept by the finalizer.
Phases == {"unborn", "pending", "claimed", "retiring", "gone"}

Init ==
  /\ phase = [u \in Ids |-> "unborn"]
  /\ exported = [u \in Ids |-> FALSE]

Move(u, from, to) ==
  /\ phase[u] = from
  /\ phase' = [phase EXCEPT ![u] = to]
  /\ UNCHANGED exported

Create(u)  == Move(u, "unborn", "pending")
Abandon(u) == Move(u, "pending", "gone")
Claim(u)   == Move(u, "pending", "claimed")
Retire(u)  == Move(u, "claimed", "retiring")
Release(u) == ~exported[u] /\ Move(u, "retiring", "gone")

\* A late reconciliation may still export a policy that is retiring.
Export(u) ==
  /\ phase[u] \in {"claimed", "retiring"}
  /\ exported' = [exported EXCEPT ![u] = TRUE]
  /\ UNCHANGED phase

Withdraw(u) ==
  /\ exported[u]
  /\ exported' = [exported EXCEPT ![u] = FALSE]
  /\ UNCHANGED phase

Next == \E u \in Ids :
  \/ Create(u) \/ Abandon(u) \/ Claim(u) \/ Retire(u) \/ Release(u)
  \/ Export(u) \/ Withdraw(u)

Spec == Init /\ [][Next]_vars
=============================================================================
