--------------------------- MODULE OperatorStartup ---------------------------
(***************************************************************************)
(* The life of the operator's process: cmd/main.go, and the configuration  *)
(* of internal/config it is started with.                                  *)
(*                                                                         *)
(* main sets up one thing after the other and exits at the first that      *)
(* fails.  Then it starts its parts as goroutines of one errgroup: the     *)
(* first that returns an error cancels the context of all, and so does a   *)
(* signal.  The exit code is what is left of the parts' errors.            *)
(***************************************************************************)
EXTENDS Naturals, Sequences

CONSTANTS
  Paths,         \* paths of kubeconfig files
  Default,       \* the empty path: the configuration of the own cluster
  ServerConfigs, \* what the file of --server-config may decode to
  Undecodable    \* stands for a file that is missing or does not decode

\* ProviderSingle, ProviderMilo, no mode at all, and any other mode.
Mode == {"single", "milo", "", "kind"}

TelemetryServicesOperator ==
  [mode: Mode, discoveryPath: Paths \cup {Default},
   projectPath: Paths \cup {Default}]

ASSUME ServerConfigsAssumption ==
  /\ ServerConfigs \subseteq TelemetryServicesOperator
  /\ Undecodable \notin TelemetryServicesOperator

VARIABLES
  config,   \* the server config, or Undecodable
  usable,   \* the kubeconfigs that exist and are well-formed
  step,     \* the step of the set-up, beyond the last once that is done
  routine,  \* for each goroutine what it does, or what its part returned
  synced,   \* the parts whose caches have synced
  engaged,  \* has the provider engaged a cluster with the manager?
  groupErr, \* the first error the errgroup got
  canceled, \* is the group's context canceled?
  signals,  \* the signals received
  exit      \* the exit code, or "none"

process == <<routine, synced, engaged, groupErr, canceled>>
startupVars == <<config, usable, step, process, signals, exit>>

-----------------------------------------------------------------------------
(* Set-up *)

Setup == <<"serverConfig", "certificates", "upstream", "downstream",
           "discovery", "manager", "controller", "probes">>

SetupDone == step > Len(Setup)

\* Without a path both are the own cluster's.
DiscoveryRestConfig == config.discoveryPath \in usable
ProjectRestConfig == config.projectPath \in usable

\* The default of the mode is never applied: no scheme registers it.
DiscoveryUsable ==
  \/ config.mode = "single"
  \/ config.mode = "milo" /\ DiscoveryRestConfig /\ ProjectRestConfig

\* What a step of the set-up takes, beside calls that may fail by themselves.
Passes(name) ==
  /\ name = "serverConfig" => config # Undecodable
  /\ name \in {"upstream", "downstream"} => Default \in usable
  /\ name = "discovery" => DiscoveryUsable

SetUp ==
  /\ exit = "none" /\ ~SetupDone
  /\ Passes(Setup[step])
  /\ step' = step + 1
  /\ UNCHANGED <<config, usable, process, signals, exit>>

SetUpFails ==
  /\ exit = "none" /\ ~SetupDone
  /\ exit' = "1"
  /\ UNCHANGED <<config, usable, step, process, signals>>

-----------------------------------------------------------------------------
(* The parts *)

\* Mutant: the manager of the project discovery is created, and not appended.
DeploymentClusterOnly == <<"downstream">>

Runnables == IF config.mode = "milo" THEN <<"downstream", "discovery">>
             ELSE <<"downstream">>

\* The parts in the order main starts them.
Parts == Runnables \o <<"provider", "manager">>

Routines == 1..4
Runs(part) ==
  SetupDone /\ \E i \in DOMAIN Parts : Parts[i] = part /\ routine[i] = "running"

Launch(i) ==
  /\ exit = "none" /\ SetupDone
  /\ i \in DOMAIN Parts
  /\ routine[i] = "none"
  /\ \A j \in 1..(i - 1) : routine[j] # "none"
  /\ routine' = [routine EXCEPT ![i] = "running"]
  /\ UNCHANGED <<config, usable, step, synced, engaged, groupErr, canceled,
                 signals, exit>>

\* The caches of a cluster fill while it runs.
Sync(part) ==
  /\ exit = "none" /\ part \in {"downstream", "discovery"} \ synced
  /\ Runs(part)
  /\ synced' = synced \cup {part}
  /\ UNCHANGED <<config, usable, step, routine, engaged, groupErr, canceled,
                 signals, exit>>

\* The single cluster is engaged as the provider starts, a project's as the
\* discovery finds it.
Engage ==
  /\ exit = "none" /\ ~engaged
  /\ Runs("provider")
  /\ config.mode = "milo" => "discovery" \in synced
  /\ engaged' = TRUE
  /\ UNCHANGED <<config, usable, step, routine, synced, groupErr, canceled,
                 signals, exit>>

\* Mutants: no error is ignored; every error is.
IgnoreNothing(err) == err
IgnoreEverything(err) == "nil"

IgnoreCanceled(err) == IF err = "canceled" THEN "nil" ELSE err

\* Mutant: a group without a context of its own.
ReturnToPlainGroup(i, err) ==
  /\ exit = "none"
  /\ routine[i] = "running"
  /\ routine' = [routine EXCEPT ![i] = err]
  /\ groupErr' = IF groupErr = "nil" THEN IgnoreCanceled(err) ELSE groupErr
  /\ UNCHANGED <<config, usable, step, synced, engaged, canceled, signals, exit>>

\* A part returns: the group keeps the first error and cancels the others.
ReturnToGroup(i, err) ==
  /\ exit = "none"
  /\ routine[i] = "running"
  /\ routine' = [routine EXCEPT ![i] = err]
  /\ groupErr' = IF groupErr = "nil" THEN IgnoreCanceled(err) ELSE groupErr
  /\ canceled' = (canceled \/ IgnoreCanceled(err) # "nil")
  /\ UNCHANGED <<config, usable, step, synced, engaged, signals, exit>>

\* Of itself a part ends only with an error: the loss of the lease, a cache
\* that does not sync, a cluster that cannot be engaged.
Fail(i) == ReturnToGroup(i, "error")

Stop(i) == canceled /\ \E err \in {"nil", "canceled"} : ReturnToGroup(i, err)

\* The first signal cancels, the second exits.
Signal ==
  /\ exit = "none" /\ SetupDone
  /\ signals < 2
  /\ signals' = signals + 1
  /\ canceled' = TRUE
  /\ exit' = IF signals = 1 THEN "1" ELSE exit
  /\ UNCHANGED <<config, usable, step, routine, synced, engaged, groupErr>>

Wait ==
  /\ exit = "none" /\ SetupDone
  /\ \A i \in DOMAIN Parts : routine[i] \notin {"none", "running"}
  /\ exit' = IF groupErr = "nil" THEN "0" ELSE "1"
  /\ UNCHANGED <<config, usable, step, process, signals>>

-----------------------------------------------------------------------------
StartupInit ==
  /\ config \in ServerConfigs \cup {Undecodable}
  /\ usable \in SUBSET (Paths \cup {Default})
  /\ step = 1
  /\ routine = [i \in Routines |-> "none"]
  /\ synced = {}
  /\ engaged = FALSE
  /\ groupErr = "nil"
  /\ canceled = FALSE
  /\ signals = 0
  /\ exit = "none"

StartupNext ==
  \/ SetUp \/ SetUpFails
  \/ \E i \in Routines : Launch(i) \/ Fail(i) \/ Stop(i)
  \/ \E part \in {"downstream", "discovery"} : Sync(part)
  \/ Engage
  \/ Signal
  \/ Wait

(***************************************************************************)
(* main goes on, parts that run make progress and heed the cancellation    *)
(* (controller-runtime ends what does not, after a grace period).  Nothing *)
(* obliges a part to fail or anyone to send a signal.                      *)
(***************************************************************************)
StartupSpec ==
  /\ StartupInit /\ [][StartupNext]_startupVars
  /\ WF_startupVars(SetUp \/ SetUpFails)
  /\ \A i \in Routines : /\ WF_startupVars(Launch(i))
                         /\ WF_startupVars(Stop(i))
  /\ \A part \in {"downstream", "discovery"} : WF_startupVars(Sync(part))
  /\ WF_startupVars(Engage)
  /\ WF_startupVars(Wait)

-----------------------------------------------------------------------------
Returned(i) == routine[i] \in {"nil", "canceled", "error"}

\* Whoever supervises the process can trust its exit code (main.go, 338-341):
\* 0 only after a signal, when every part was started and none failed, not even
\* while stopping; 1 only if something did fail or a second signal cut it short.
ExitCodeFaithful ==
  /\ exit = "0" => /\ signals > 0
                   /\ \A i \in DOMAIN Parts : routine[i] \in {"nil", "canceled"}
  /\ exit = "1" => \/ ~SetupDone
                   \/ \E i \in Routines : routine[i] = "error"
                   \/ signals = 2

Serving ==
  /\ engaged
  /\ "downstream" \in synced
  /\ \A i \in DOMAIN Parts : routine[i] = "running"

\* A process whose set-up is done comes to serve a cluster, with all of its
\* parts running, unless it is ended first (main.go, 322-336): no part waits for
\* one that is never started.
ComesToServe == SetupDone ~> (Serving \/ canceled)

\* No part dies alone: once one has failed, the process ends and says so
\* (main.go, 320 and 338-341).
FailureEndsProcess ==
  (\E i \in Routines : routine[i] = "error") ~> (exit = "1")
=============================================================================
