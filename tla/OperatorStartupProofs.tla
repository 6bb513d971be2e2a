------------------------ MODULE OperatorStartupProofs ------------------------
(***************************************************************************)
(* Proof that the exit code of the operator's process is true, whatever    *)
(* its configuration, the order in which its parts start and end, and what *)
(* they return.                                                            *)
(***************************************************************************)
EXTENDS OperatorStartup, SequenceTheorems, TLAPS

StartupTypeOK ==
  /\ routine \in [Routines -> {"none", "running", "nil", "canceled", "error"}]
  /\ groupErr \in {"nil", "error"}
  /\ canceled \in BOOLEAN
  /\ signals \in 0..2
  /\ exit \in {"none", "0", "1"}

\* The group has an error exactly if a part returned one, and its context is
\* canceled only for such an error or a signal; before that no part stops.
GroupOK ==
  /\ groupErr = "error" <=> \E i \in Routines : routine[i] = "error"
  /\ canceled => signals > 0 \/ groupErr = "error"
  /\ (\E i \in Routines : routine[i] \in {"nil", "canceled"}) => canceled

StartupInvariant == StartupTypeOK /\ GroupOK /\ ExitCodeFaithful

-----------------------------------------------------------------------------
\* main starts at least one part, and never more than it has goroutines for
\* (main.go, 322-336).
LEMMA PartsAreRoutines == DOMAIN Parts \subseteq Routines /\ 1 \in DOMAIN Parts
<1> DEFINE Names == {"downstream", "discovery", "provider", "manager"}
           Two == <<"downstream", "discovery">>
           One == <<"downstream">>
           Others == <<"provider", "manager">>
<1>1. Two \in Seq(Names) /\ Len(Two) = 2
  OBVIOUS
<1>2. One \in Seq(Names) /\ Len(One) = 1
  OBVIOUS
<1>3. Others \in Seq(Names) /\ Len(Others) = 2
  OBVIOUS
<1>4. Parts = Runnables \o Others /\ Runnables \in {One, Two}
  BY DEF Parts, Runnables
<1> HIDE DEF Names, One, Two, Others
<1>5. Runnables \in Seq(Names) /\ (Len(Runnables) = 1 \/ Len(Runnables) = 2)
  BY <1>1, <1>2, <1>4
<1>6. Parts \in Seq(Names) /\ Len(Parts) = Len(Runnables) + Len(Others)
  <2> SUFFICES ASSUME NEW S, NEW s \in Seq(S), NEW t \in Seq(S)
               PROVE  s \o t \in Seq(S) /\ Len(s \o t) = Len(s) + Len(t)
    BY <1>3, <1>4, <1>5
  <2> QED
    BY ConcatProperties
<1>7. DOMAIN Parts = 1..Len(Parts)
  BY <1>6, LenProperties
<1>8. Len(Parts) = 3 \/ Len(Parts) = 4
  <2>1. CASE Len(Runnables) = 1
    BY <1>3, <1>6, <2>1
  <2>2. CASE Len(Runnables) = 2
    BY <1>3, <1>6, <2>2
  <2> QED
    BY <1>5, <2>1, <2>2
<1> QED
  BY <1>7, <1>8 DEF Routines

\* What a part returns leaves the invariant as it was: the group knows of each
\* error, and a part that stops does so because the context is canceled.
LEMMA ReturnKeepsInvariant ==
  ASSUME StartupInvariant, NEW i \in Routines,
         NEW err \in {"nil", "canceled", "error"},
         err # "error" => canceled,
         ReturnToGroup(i, err)
  PROVE  StartupInvariant'
<1> USE DEF StartupInvariant, ReturnToGroup, IgnoreCanceled
<1>1. StartupTypeOK'
  BY DEF StartupTypeOK
<1>2. GroupOK'
  BY <1>1 DEF StartupTypeOK, GroupOK
<1>3. ExitCodeFaithful'
  BY <1>1 DEF StartupTypeOK, ExitCodeFaithful
<1> QED
  BY <1>1, <1>2, <1>3

LEMMA WaitKeepsInvariant ==
  ASSUME StartupInvariant, Wait
  PROVE  StartupInvariant'
<1> USE DEF StartupInvariant, Wait, process
<1>1. StartupTypeOK' /\ GroupOK'
  BY DEF StartupTypeOK, GroupOK
<1>2. CASE groupErr = "nil"
  <2>1. \A i \in DOMAIN Parts : routine[i] \in {"nil", "canceled"}
    BY <1>2, PartsAreRoutines DEF StartupTypeOK, GroupOK
  <2>2. signals > 0
    BY <1>2, <2>1, PartsAreRoutines DEF GroupOK
  <2>3. exit' = "0" /\ Parts' = Parts
    BY <1>2 DEF Parts, Runnables
  <2> QED
    BY <1>1, <2>1, <2>2, <2>3 DEF ExitCodeFaithful
<1>3. CASE groupErr = "error"
  BY <1>1, <1>3 DEF ExitCodeFaithful, GroupOK
<1> QED
  BY <1>2, <1>3 DEF StartupTypeOK

LEMMA StartupStep == StartupInvariant /\ [StartupNext]_startupVars => StartupInvariant'
<1> SUFFICES ASSUME StartupInvariant, [StartupNext]_startupVars
             PROVE  StartupInvariant'
  OBVIOUS
<1> USE DEF StartupInvariant
<1>1. CASE SetUp
  BY <1>1 DEF SetUp, process, StartupTypeOK, GroupOK, ExitCodeFaithful
<1>2. CASE SetUpFails
  BY <1>2 DEF SetUpFails, SetupDone, process, StartupTypeOK, GroupOK,
              ExitCodeFaithful
<1>3. ASSUME NEW i \in Routines, Launch(i)
      PROVE  StartupInvariant'
  BY <1>3 DEF Launch, StartupTypeOK, GroupOK, ExitCodeFaithful
<1>4. ASSUME NEW i \in Routines, Fail(i) \/ Stop(i)
      PROVE  StartupInvariant'
  BY <1>4, ReturnKeepsInvariant DEF Fail, Stop
<1>5. ASSUME NEW part \in {"downstream", "discovery"}, Sync(part)
      PROVE  StartupInvariant'
  BY <1>5 DEF Sync, StartupTypeOK, GroupOK, ExitCodeFaithful
<1>6. CASE Engage
  BY <1>6 DEF Engage, StartupTypeOK, GroupOK, ExitCodeFaithful
<1>7. CASE Signal
  BY <1>7 DEF Signal, StartupTypeOK, GroupOK, ExitCodeFaithful
<1>8. CASE Wait
  BY <1>8, WaitKeepsInvariant
<1>9. CASE UNCHANGED startupVars
  BY <1>9 DEF startupVars, process, StartupTypeOK, GroupOK, ExitCodeFaithful,
              SetupDone, Parts, Runnables
<1> QED
  BY <1>1, <1>2, <1>3, <1>4, <1>5, <1>6, <1>7, <1>8, <1>9 DEF StartupNext

\* Whoever supervises the process can trust its exit code (main.go, 338-341),
\* for every server config and every set of kubeconfigs.
THEOREM ExitCodeIsFaithful == StartupSpec => []ExitCodeFaithful
<1>1. StartupInit => StartupInvariant
  <2> SUFFICES ASSUME StartupInit PROVE StartupInvariant
    OBVIOUS
  <2>1. routine \in [Routines -> {"none", "running", "nil", "canceled", "error"}]
    BY DEF StartupInit
  <2>2. StartupTypeOK
    <3>1. canceled \in BOOLEAN
      BY DEF StartupInit
    <3>2. groupErr = "nil" /\ signals = 0 /\ exit = "none"
      BY DEF StartupInit
    <3> QED
      BY <2>1, <3>1, <3>2 DEF StartupTypeOK
  <2>3. ExitCodeFaithful
    BY DEF StartupInit, ExitCodeFaithful
  <2>4. GroupOK
    BY DEF StartupInit, GroupOK
  <2> QED
    BY <2>2, <2>3, <2>4 DEF StartupInvariant
<1>2. StartupInvariant => ExitCodeFaithful
  BY DEF StartupInvariant
<1> QED
  BY <1>1, <1>2, StartupStep, PTL DEF StartupSpec
=============================================================================
