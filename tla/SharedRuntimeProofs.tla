------------------------ MODULE SharedRuntimeProofs ------------------------
(***************************************************************************)
(* The lifecycle's safe parts for every number of plug-ins, commands and   *)
(* polls, and the shared runtime above it.                                 *)
(*                                                                         *)
(* In the lifecycle each service holds an instance exactly in the stages   *)
(* between the two host calls that put it in and take it out; what the     *)
(* workers do under a lock names only instances whose removal waits for    *)
(* that lock.                                                              *)
(*                                                                         *)
(* What is proved of the lives inside a core holds in the composition, and *)
(* the core is there exactly while somebody may use it.  The argument      *)
(* counts bridges: as long as one is open nobody holds the mutex for a     *)
(* shutdown, and when none is, the core is gone and quiet.                 *)
(***************************************************************************)
EXTENDS SharedRuntime, FiniteSetTheorems, TLAPS

-----------------------------------------------------------------------------
(* The lifecycle.                                                          *)

Before == {"none", "registered", "readable", "live"}
InRegistry == {"registered", "readable", "live", "cancelled", "inactive", "unreadable", "silent"}
InPublishers == InRegistry \cup {"removed"}
InSources == {"readable", "live", "cancelled", "inactive"}
InOutputs == {"live", "cancelled", "inactive", "unreadable"}

\* A service knows an instance only in its stages; the registry and the
\* publisher do so in all of them.
ServicesInv ==
    \A i \in Instances :
        /\ i \in registry <=> host[i] \in InRegistry
        /\ i \in publishers <=> host[i] \in InPublishers
        /\ i \in sources => host[i] \in InSources
        /\ i \in outputs => host[i] \in InOutputs

\* The gate keeps what the worker uses under it in the registry.
GateInv ==
    /\ work.stage = "gate" => work.source \in registry
    /\ work.stage \in {"publishing", "notifying"} => work.target \in registry

\* The telemetry lock keeps what a poll reads.
PollInv == poll.reads = IF poll.stage = "reading" THEN sources ELSE {}

\* ActivityAgrees holds of an instance before its registration, too.
ActivityInv ==
    \A i \in Instances : host[i] \in Before =>
        /\ i \in present <=> active = i
        /\ viewer = i <=> active = i

\* The inductive invariant: types, who knows an instance, what the two locks keep.
IInv == TypeOK /\ ServicesInv /\ GateInv /\ PollInv /\ ActivityInv

-----------------------------------------------------------------------------

\* The invariant holds at first.
LEMMA InitInv == Init => IInv
<1> SUFFICES ASSUME Init PROVE IInv
  OBVIOUS
<1> USE NoneAssumption, BoundsAssumption DEF Init
<1>1. TypeOK
  <2>1. commands \in 0..MaxCommands /\ polls \in 0..MaxPolls
    BY SMT
  <2> QED
    BY <2>1 DEF TypeOK, Stages, Work, Resting, Poll, Asleep
<1>2. ServicesInv
  BY DEF ServicesInv, InRegistry, InPublishers, InSources, InOutputs
<1>3. GateInv /\ PollInv
  BY DEF GateInv, PollInv, Resting, Asleep
<1>4. ActivityInv
  BY DEF ActivityInv
<1> QED
  BY <1>1, <1>2, <1>3, <1>4 DEF IInv

\* The calls of the host thread.
LEMMA HostStep ==
    ASSUME IInv, NEW i \in Instances, Host(i)
    PROVE  IInv'
<1> USE NoneAssumption DEF IInv, Goes, workers, InRegistry, InPublishers, InSources,
        InOutputs, Before, GateFree, TelemetryLockFree
<1>1. UNCHANGED workers /\ host \in [Instances -> Stages]
  BY DEF Host, Register, RegisterSource, RegisterOutput, FailRegistration, CancelInstance, Unregistration,
         UnregisterActivity, RemoveSource, UnregisterOutput, RemoveInstance, StopPublisher,
         Release, TypeOK
<1>2. TypeOK'
  BY DEF Host, Register, RegisterSource, RegisterOutput, FailRegistration, CancelInstance, Unregistration,
         UnregisterActivity, RemoveSource, UnregisterOutput, RemoveInstance, StopPublisher,
         Release, services, TypeOK, Stages
<1>3. ServicesInv'
  <2>1. CASE Register(i) \/ RegisterSource(i) \/ RegisterOutput(i) \/ FailRegistration(i) \/ CancelInstance(i)
    BY <1>1, <2>1 DEF ServicesInv, Register, RegisterSource, RegisterOutput, FailRegistration,
                      CancelInstance, services
  <2>2. CASE Unregistration(i) \/ Release(i)
    BY <1>1, <2>2 DEF ServicesInv, Unregistration, UnregisterActivity, RemoveSource,
                      UnregisterOutput, RemoveInstance, StopPublisher, Release, services
  <2> QED
    BY <2>1, <2>2 DEF Host
<1>4. GateInv'
  BY DEF GateInv, Host, Register, RegisterSource, RegisterOutput, FailRegistration, CancelInstance,
         Unregistration, UnregisterActivity, RemoveSource, UnregisterOutput,
         RemoveInstance, StopPublisher, Release, services
<1>5. PollInv'
  BY DEF PollInv, Host, Register, RegisterSource, RegisterOutput, FailRegistration, CancelInstance,
         Unregistration, UnregisterActivity, RemoveSource, UnregisterOutput,
         RemoveInstance, StopPublisher, Release, services
<1>6. ActivityInv'
  <2>1. CASE UnregisterActivity(i)
    BY <1>1, <2>1 DEF ActivityInv, UnregisterActivity
  <2>2. CASE RemoveSource(i)
    BY <1>1, <2>2 DEF ActivityInv, RemoveSource
  <2>3. CASE Register(i) \/ RegisterSource(i) \/ RegisterOutput(i) \/ FailRegistration(i) \/ CancelInstance(i)
             \/ UnregisterOutput(i) \/ RemoveInstance(i) \/ StopPublisher(i) \/ Release(i)
    <3>1. UNCHANGED <<present, active, viewer>>
      BY <2>3 DEF Register, RegisterSource, RegisterOutput, FailRegistration, CancelInstance,
                  UnregisterOutput, RemoveInstance, StopPublisher, Release, services
    <3>2. \A k \in Instances : host'[k] \in Before => host[k] \in Before
      BY <1>1, <2>3 DEF Register, RegisterSource, RegisterOutput, FailRegistration, CancelInstance,
                  UnregisterOutput, RemoveInstance, StopPublisher, Release
    <3> QED
      BY <3>1, <3>2 DEF ActivityInv
  <2> QED
    BY <2>1, <2>2, <2>3 DEF Host, Unregistration
<1> QED
  BY <1>2, <1>3, <1>4, <1>5, <1>6

\* The steps of the control worker.
LEMMA WorkStep ==
    ASSUME IInv, Worker \/ \E i \in Instances : Take(i)
    PROVE  IInv'
<1> USE NoneAssumption, BoundsAssumption DEF IInv
<1> DEFINE WorkFact ==
      /\ UNCHANGED workFrame
      /\ commands' \in 0..MaxCommands
      /\ work' \in Work
      /\ work'.stage # "idle" => work'.source \in Instances /\ work'.target \in Instances
      /\ present' \subseteq Instances
      /\ active' \in Instances \cup {None} /\ viewer' \in Instances \cup {None}
      /\ GateInv'
      /\ ActivityInv'
<1>1. /\ work = [stage |-> work.stage, source |-> work.source, target |-> work.target]
      /\ work.stage \in {"idle", "checked", "gate", "publishing", "notifying", "reply", "calling"}
      /\ work.source \in Instances \cup {None} /\ work.target \in Instances \cup {None}
      /\ work.stage # "idle" => work.source \in Instances /\ work.target \in Instances
      /\ commands \in 0..MaxCommands
  BY DEF TypeOK, Work
<1>2. outputs \subseteq registry /\ outputs \subseteq Instances /\ registry \subseteq Instances
  BY DEF TypeOK, ServicesInv, InOutputs, InRegistry
<1>3. ASSUME NEW i \in Instances, Take(i) PROVE WorkFact
  BY <1>1, <1>3 DEF Take, workFrame, TypeOK, GateInv, ActivityInv, Work
<1>4. ASSUME EnterGate PROVE WorkFact
  BY <1>1, <1>4 DEF EnterGate, workFrame, TypeOK, GateInv, ActivityInv, Work
<1>5. ASSUME Activate PROVE WorkFact
  BY <1>1, <1>5 DEF Activate, workFrame, TypeOK, GateInv, ActivityInv, Work
<1>6. ASSUME Deactivate PROVE WorkFact
  BY <1>1, <1>6 DEF Deactivate, workFrame, TypeOK, GateInv, ActivityInv, Work
<1>7. ASSUME NEW t \in Instances, BeginPublish(t) \/ Notify(t) PROVE WorkFact
  BY <1>1, <1>2, <1>7 DEF BeginPublish, Notify, workFrame, TypeOK, GateInv, ActivityInv, Work
<1>8. ASSUME EndPublish \/ EndNotify PROVE WorkFact
  BY <1>1, <1>8 DEF EndPublish, EndNotify, workFrame, TypeOK, GateInv, ActivityInv, Work
<1>9. ASSUME LookUp PROVE WorkFact
  BY <1>1, <1>9 DEF LookUp, workFrame, TypeOK, GateInv, ActivityInv, Work
<1>10. ASSUME CallReturns \/ NobodyToTell PROVE WorkFact
  BY <1>1, <1>10 DEF CallReturns, NobodyToTell, workFrame, TypeOK, GateInv, ActivityInv,
                     Work, Resting
<1>11. WorkFact
  BY <1>3, <1>4, <1>5, <1>6, <1>7, <1>8, <1>9, <1>10 DEF Worker
<1>12. TypeOK'
  BY <1>11 DEF TypeOK, workFrame
<1>13. ServicesInv' /\ PollInv'
  BY <1>11 DEF ServicesInv, PollInv, workFrame
<1> QED
  BY <1>11, <1>12, <1>13

\* The steps of the telemetry worker.
LEMMA PollStep ==
    ASSUME IInv, BeginPoll \/ Telemetry
    PROVE  IInv'
<1> USE NoneAssumption, BoundsAssumption DEF IInv
<1> DEFINE PollFact ==
      /\ UNCHANGED pollFrame
      /\ polls' \in 0..MaxPolls
      /\ poll' \in Poll
      /\ poll'.stage # "idle" => poll'.target \in Instances
      /\ PollInv'
<1>1. /\ poll = [stage |-> poll.stage, target |-> poll.target, reads |-> poll.reads]
      /\ poll.stage \in {"idle", "reading", "sending", "calling"}
      /\ poll.target \in Instances \cup {None} /\ poll.reads \subseteq Instances
      /\ poll.stage # "idle" => poll.target \in Instances
      /\ polls \in 0..MaxPolls
  BY DEF TypeOK, Poll
<1>2. ASSUME BeginPoll PROVE PollFact
  BY <1>1, <1>2 DEF BeginPoll, pollFrame, services, TypeOK, PollInv, Poll
<1>3. ASSUME EndPoll PROVE PollFact
  BY <1>1, <1>3 DEF EndPoll, pollFrame, services, TypeOK, PollInv, Poll
<1>4. ASSUME SendTelemetry PROVE PollFact
  BY <1>1, <1>4 DEF SendTelemetry, pollFrame, services, TypeOK, PollInv, Poll, Asleep
<1>5. ASSUME TelemetrySent PROVE PollFact
  BY <1>1, <1>5 DEF TelemetrySent, pollFrame, services, TypeOK, PollInv, Poll, Asleep
<1>6. PollFact
  BY <1>2, <1>3, <1>4, <1>5 DEF Telemetry
<1>7. TypeOK' /\ ServicesInv' /\ GateInv' /\ ActivityInv'
  BY <1>6 DEF TypeOK, ServicesInv, GateInv, ActivityInv, pollFrame, services
<1> QED
  BY <1>6, <1>7

\* New services know nobody.
LEMMA DisposeStep ==
    ASSUME IInv, Dispose
    PROVE  IInv'
  BY NoneAssumption DEF IInv, Dispose, workers, TypeOK, ServicesInv, GateInv, PollInv,
                        ActivityInv, Stages, Before

\* The invariant is inductive.
LEMMA StepInv == IInv /\ [Next]_vars => IInv'
<1>1. IInv /\ UNCHANGED vars => IInv'
  BY DEF IInv, vars, services, TypeOK, ServicesInv, GateInv, PollInv, ActivityInv
<1> QED
  BY <1>1, HostStep, WorkStep, PollStep, DisposeStep DEF Next

-----------------------------------------------------------------------------
(* Theorems.                                                               *)

\* The inductive invariant holds in every reachable state.
THEOREM Invariance == Spec => []IInv
<1> QED
  BY InitInv, StepInv, PTL DEF Spec

\* Types are kept by the host threads and both workers.
THEOREM TypeCorrect == Spec => []TypeOK
<1>1. IInv => TypeOK
  BY DEF IInv
<1> QED
  BY <1>1, Invariance, PTL

\* However many plug-ins come and go, the exchange of one that is gone is
\* neither written by a publish nor read by a telemetry poll.
THEOREM ExchangeIsReleased == Spec => []ExchangeReleased
<1>1. IInv => ExchangeReleased
  BY DEF IInv, ExchangeReleased, ServicesInv, GateInv, PollInv, InRegistry, InPublishers,
         InSources
<1> QED
  BY <1>1, Invariance, PTL

\* A callback made under the operation gate never meets a plug-in that is gone.
THEOREM GatedCallbacksAreSafe == Spec => []GatedCallbacksEnd
<1>1. IInv => GatedCallbacksEnd
  BY DEF IInv, GatedCallbacksEnd, ServicesInv, GateInv, InRegistry
<1> QED
  BY <1>1, Invariance, PTL

\* Coordinator, presentation gate and telemetry service never disagree about a
\* plug-in that is not being unregistered.
THEOREM ActivityAlwaysAgrees == Spec => []ActivityAgrees
<1>1. IInv => ActivityAgrees
  BY DEF IInv, ActivityAgrees, ActivityInv, Before
<1> QED
  BY <1>1, Invariance, PTL


-----------------------------------------------------------------------------
(* The shared runtime: the inductive invariant.                            *)

BridgeStages == {"none", "open", "entered", "ready", "mute", "dead", "closing", "gone"}

RuntimeTypes ==
    /\ bridge \in [Instances -> BridgeStages]
    /\ home \in [Instances -> Nat] /\ core \in Nat /\ created \in Nat /\ core <= created
    /\ handles \subseteq Instances
    /\ holder \in Instances \cup {None}
    /\ shutdown \in {"none", "entering", "entered", "dropped", "disposed"}

\* The bridges that activeBridgeCount counts.
Counted == {i \in Instances : bridge[i] \in {"open", "entered", "ready", "mute"}}

CountInv == IsFiniteSet(Counted) /\ bridgeCount = Cardinality(Counted)

\* How far a bridge is tells how far its instance can be, and which core it has.
StageInv ==
    \A i \in Instances :
        /\ bridge[i] \in {"none", "open", "dead"} => host[i] = "none"
        /\ bridge[i] = "mute" => host[i] \in {"none", "stopped", "released"}
        /\ bridge[i] \in {"closing", "gone"} => host[i] \in {"none", "released"}
        /\ bridge[i] \in {"entered", "ready"} => core = home[i] /\ home[i] # NoCore
        /\ i \in handles => bridge[i] = "ready" /\ host[i] # "released"
        /\ bridge[i] = "ready" /\ host[i] \notin {"stopped", "released"} => i \in handles

\* The mutex is held across a shutdown, by the last bridge.
MutexInv ==
    /\ holder = None <=> shutdown = "none"
    /\ holder # None => Counted = {} /\ bridge[holder] = "closing"

\* Nothing of a core is left.
Quiet == handles = {} /\ work.stage = "idle" /\ poll.stage = "idle" /\ viewer = None

CoreInv ==
    /\ core = NoCore /\ shutdown # "dropped" => Quiet
    /\ shutdown \in {"dropped", "disposed"} => core = NoCore
    /\ shutdownStarted /\ shutdown = "entering" => core = NoCore
    /\ shutdownStarted /\ shutdown = "none" => core = NoCore
    /\ Counted = {} /\ holder = None => core = NoCore /\ ~logging

RInv == IInv /\ RuntimeTypes /\ CountInv /\ StageInv /\ MutexInv /\ CoreInv

-----------------------------------------------------------------------------
(* What the parts of a step leave alone.                                   *)

\* A step of the runtime is a step of the lives inside the core, or none.
LEMMA LifecycleStep == [RuntimeNext]_runtimeVars => [Next]_vars
<1> SUFFICES ASSUME [RuntimeNext]_runtimeVars PROVE [Next]_vars
  OBVIOUS
<1>1. CASE UNCHANGED runtimeVars
  BY <1>1 DEF runtimeVars
<1>2. ASSUME NEW i \in Instances, Plugin(i) PROVE [Next]_vars
  <2>1. CASE RegistrationStep(i)
    BY <2>1 DEF RegistrationStep, Next, Host
  <2>2. CASE Run(i)
    BY <2>2 DEF Run, Next, Host
  <2>3. CASE Destroy(i)
    BY <2>3 DEF Destroy, Next, Host
  <2>4. CASE OpenBridge(i) \/ EnterRegistration(i) \/ AddAudioInput(i)
    BY <2>4 DEF OpenBridge, EnterRegistration, AddAudioInput
  <2>5. CASE RegistrationFailed(i) \/ RemoveAudioInput(i) \/ CloseBridge(i)
    BY <2>5 DEF RegistrationFailed, RemoveAudioInput, CloseBridge
  <2> QED
    BY <1>2, <2>1, <2>2, <2>3, <2>4, <2>5 DEF Plugin
<1>3. CASE Shutdown
  BY <1>3 DEF Shutdown, EnterShutdown, DropCore, DisposeCore, LeaveShutdown, shutdownFrame, Next
<1>4. CASE Workers
  BY <1>4 DEF Workers, Next
<1> QED
  BY <1>1, <1>2, <1>3, <1>4 DEF RuntimeNext

\* An unregistration moves its own instance, after the cancellation and no
\* further than the stopped publisher.
LEMMA UnregistrationMoves ==
    ASSUME TypeOK, NEW i \in Instances, Unregistration(i)
    PROVE  /\ host[i] \in {"cancelled", "inactive", "unreadable", "silent", "removed"}
           /\ \A j \in Instances : j # i => host'[j] = host[j]
           /\ host'[i] \in {"inactive", "unreadable", "silent", "removed", "stopped"}
  BY DEF Unregistration, UnregisterActivity, RemoveSource, UnregisterOutput, RemoveInstance,
         StopPublisher, Goes, TypeOK

\* The calls of a registration move their own instance.
LEMMA RegistrationMoves ==
    ASSUME TypeOK, NEW i \in Instances,
           Register(i) \/ RegisterSource(i) \/ RegisterOutput(i) \/ FailRegistration(i)
    PROVE  \A j \in Instances : j # i => host'[j] = host[j]
  BY DEF Register, RegisterSource, RegisterOutput, FailRegistration, Goes, TypeOK

\* While a bridge is in use there is a core, and the mutex is free.
LEMMA InUse ==
    ASSUME RInv, NEW i \in Instances, bridge[i] \in {"open", "entered", "ready", "mute"}
    PROVE  /\ Counted # {} /\ holder = None /\ shutdown = "none"
           /\ bridge[i] \in {"entered", "ready"} => core # NoCore
<1>1. i \in Counted
  BY DEF Counted
<1> QED
  BY <1>1 DEF RInv, MutexInv, StageInv

\* A step that moves only one bridge, among the counted ones, keeps the count.
LEMMA SameCount ==
    ASSUME RuntimeTypes, NEW i \in Instances, NEW to \in BridgeStages,
           bridge' = [bridge EXCEPT ![i] = to],
           bridge[i] \in {"open", "entered", "ready", "mute"}
              <=> to \in {"open", "entered", "ready", "mute"}
    PROVE  Counted' = Counted
  BY DEF Counted, RuntimeTypes

-----------------------------------------------------------------------------

\* Before the first bridge there is nothing.
LEMMA RuntimeInitInv == RuntimeInit => RInv
<1> SUFFICES ASSUME RuntimeInit PROVE RInv
  OBVIOUS
<1> USE DEF RuntimeInit
<1>1. IInv
  BY InitInv
<1>2. RuntimeTypes
  BY DEF RuntimeTypes, BridgeStages, NoCore
<1>3. Counted = {}
  BY DEF Counted
<1>4. CountInv
  BY <1>3, FS_EmptySet DEF CountInv
<1>5. StageInv /\ MutexInv
  BY DEF StageInv, MutexInv, Init
<1>6. CoreInv
  BY DEF CoreInv, Quiet, Init, Resting, Asleep, NoCore
<1> QED
  BY <1>1, <1>2, <1>4, <1>5, <1>6 DEF RInv

\* A bridge opens, or stays dead for want of a library.
LEMMA OpenStep ==
    ASSUME RInv, IInv', NEW i \in Instances, OpenBridge(i)
    PROVE  RInv'
<1> USE DEF RInv
<1>1. UNCHANGED <<vars, coreVars, holder, shutdown, shutdownStarted>> /\ holder = None
  BY DEF OpenBridge
<1>2. \/ /\ bridge[i] = "none" /\ bridge' = [bridge EXCEPT ![i] = "open"]
         /\ bridgeCount' = bridgeCount + 1
      \/ /\ bridge[i] = "none" /\ bridge' = [bridge EXCEPT ![i] = "dead"]
         /\ UNCHANGED <<bridgeCount, logging>>
  BY DEF OpenBridge, Moves
<1>3. RuntimeTypes'
  BY <1>1, <1>2 DEF RuntimeTypes, coreVars, BridgeStages
<1>4. Counted' = Counted \cup {i} \/ (Counted' = Counted /\ UNCHANGED logging)
  BY <1>2 DEF Counted, RuntimeTypes
<1>5. CountInv'
  <2>1. CASE bridge' = [bridge EXCEPT ![i] = "open"]
    <3>1. Counted' = Counted \cup {i} /\ i \notin Counted /\ bridgeCount' = bridgeCount + 1
      BY <1>2, <2>1 DEF Counted, RuntimeTypes
    <3> QED
      BY <3>1, FS_AddElement DEF CountInv
  <2>2. CASE bridge' # [bridge EXCEPT ![i] = "open"]
    <3>1. Counted' = Counted /\ bridgeCount' = bridgeCount
      BY <1>2, <2>2 DEF Counted, RuntimeTypes
    <3> QED
      BY <3>1 DEF CountInv
  <2> QED
    BY <2>1, <2>2
<1>6. StageInv'
  BY <1>1, <1>2 DEF StageInv, RuntimeTypes, vars, coreVars
<1>7. MutexInv'
  BY <1>1 DEF MutexInv
<1>8. Quiet' = Quiet /\ core' = core
  BY <1>1 DEF Quiet, vars, coreVars, services
<1>9. Counted' = {} => Counted = {} /\ logging' = logging
  BY <1>4
<1>10. CoreInv'
  BY <1>1, <1>8, <1>9 DEF CoreInv
<1> QED
  BY <1>3, <1>5, <1>6, <1>7, <1>10

\* A registration finds the core of the others, or makes one for itself.
LEMMA EnterStep ==
    ASSUME RInv, IInv', NEW i \in Instances, EnterRegistration(i)
    PROVE  RInv'
<1> USE DEF RInv, EnterRegistration
<1>1. /\ bridge[i] = "open" /\ bridge' = [bridge EXCEPT ![i] = "entered"]
      /\ UNCHANGED <<vars, handles, bridgeCount, holder, shutdown, logging>>
  BY DEF Moves
<1>2. Counted' = Counted
  BY <1>1, SameCount DEF BridgeStages
<1>3. holder = None /\ shutdown = "none" /\ Counted # {}
  BY <1>1, InUse
<1>4. /\ core' \in Nat /\ created' \in Nat /\ core' <= created' /\ core' # NoCore
      /\ home' = [home EXCEPT ![i] = core'] /\ core # NoCore => core' = core
  BY DEF RuntimeTypes, NoCore
<1>5. RuntimeTypes'
  BY <1>1, <1>4 DEF RuntimeTypes, BridgeStages
<1>6. StageInv'
  <2>1. \A j \in Instances : j # i => bridge'[j] = bridge[j] /\ home'[j] = home[j]
    BY <1>1, <1>4 DEF RuntimeTypes
  <2>2. bridge'[i] = "entered" /\ home'[i] = core'
    BY <1>1, <1>4 DEF RuntimeTypes
  <2>3. \A j \in Instances : bridge[j] \in {"entered", "ready"} => core # NoCore
    BY DEF StageInv
  <2> QED
    BY <1>1, <1>4, <2>1, <2>2, <2>3 DEF StageInv, vars
<1>7. CountInv' /\ MutexInv' /\ CoreInv'
  BY <1>1, <1>2, <1>3, <1>4 DEF CountInv, MutexInv, CoreInv
<1> QED
  BY <1>5, <1>6, <1>7

\* Steps of a plug-in whose bridge and core stay as they are.
LEMMA InsideStep ==
    ASSUME RInv, IInv', NEW i \in Instances,
           RegistrationStep(i) \/ Run(i) \/ Destroy(i)
    PROVE  RInv'
<1> USE DEF RInv
<1>1. UNCHANGED <<coreVars, bridgeVars>> /\ bridge[i] \in {"entered", "ready", "mute"}
  BY DEF RegistrationStep, Run, Destroy
<1>2. RuntimeTypes' /\ CountInv' /\ MutexInv'
  BY <1>1 DEF RuntimeTypes, CountInv, MutexInv, Counted, coreVars, bridgeVars
<1>3. StageInv'
  <2> SUFFICES ASSUME NEW j \in Instances
               PROVE  /\ bridge[j] \in {"none", "open", "dead"} => host'[j] = "none"
                      /\ bridge[j] = "mute" => host'[j] \in {"none", "stopped", "released"}
                      /\ bridge[j] \in {"closing", "gone"} => host'[j] \in {"none", "released"}
                      /\ j \in handles => host'[j] # "released"
                      /\ bridge[j] = "ready" /\ host'[j] \notin {"stopped", "released"}
                           => j \in handles
    BY <1>1 DEF StageInv, coreVars, bridgeVars
  <2> USE DEF IInv, TypeOK
  <2>1. CASE RegistrationStep(i)
    <3>1. bridge[i] = "entered" /\ i \notin handles
      BY <2>1 DEF RegistrationStep, StageInv
    <3>2. j # i => host'[j] = host[j]
      BY <2>1, UnregistrationMoves, RegistrationMoves DEF RegistrationStep
    <3> QED
      BY <3>1, <3>2 DEF StageInv
  <2>2. CASE Run(i)
    <3>1. bridge[i] = "ready"
      BY <2>2 DEF Run
    <3>2. j # i => host'[j] = host[j]
      BY <2>2, UnregistrationMoves DEF Run, Take, workFrame, CancelInstance, Goes
    <3>3. host[i] \notin {"stopped", "released"} /\ host'[i] # "released"
      BY <2>2, UnregistrationMoves DEF Run, Take, workFrame, CancelInstance, Goes
    <3> QED
      BY <3>1, <3>2, <3>3 DEF StageInv
  <2>3. CASE Destroy(i)
    <3>1. /\ bridge[i] \in {"ready", "mute"} /\ i \notin handles
          /\ host' = [host EXCEPT ![i] = "released"]
      BY <2>3 DEF Destroy, Release, Goes
    <3> QED
      BY <3>1 DEF StageInv
  <2> QED
    BY <2>1, <2>2, <2>3
<1>4. CoreInv'
  <2>1. Counted # {} /\ shutdown = "none" /\ (bridge[i] \in {"entered", "ready"} => core # NoCore)
    BY <1>1, InUse
  <2>2. bridge[i] = "mute" => UNCHANGED <<work, poll, viewer>>
    BY DEF RegistrationStep, Run, Destroy, Release, services, workers
  <2> QED
    BY <1>1, <1>2, <2>1, <2>2 DEF CoreInv, Quiet, Counted, coreVars, bridgeVars
<1> QED
  BY <1>2, <1>3, <1>4

\* The last call of a registration allocates the handle, the unregistration
\* frees it, and a failed registration leaves none.
LEMMA HandleStep ==
    ASSUME RInv, IInv', NEW i \in Instances,
           AddAudioInput(i) \/ RegistrationFailed(i) \/ RemoveAudioInput(i)
    PROVE  RInv'
<1> USE DEF RInv
<1>1. /\ UNCHANGED <<vars, core, created, home, bridgeCount, holder, shutdown, shutdownStarted,
                     logging>>
      /\ bridge[i] \in {"entered", "ready"}
  BY DEF AddAudioInput, RegistrationFailed, RemoveAudioInput, Moves, coreVars, bridgeVars
<1>2. \/ bridge[i] = "entered" /\ bridge' = [bridge EXCEPT ![i] = "ready"]
         /\ handles' = handles \cup {i} /\ host[i] = "live"
      \/ bridge[i] = "entered" /\ bridge' = [bridge EXCEPT ![i] = "mute"]
         /\ handles' = handles /\ host[i] \in {"none", "stopped"}
      \/ bridge[i] = "ready" /\ bridge' = bridge /\ handles' = handles \ {i}
         /\ host[i] = "stopped"
  BY DEF AddAudioInput, RegistrationFailed, RemoveAudioInput, Moves, coreVars, bridgeVars
<1>3. Counted' = Counted
  BY <1>2 DEF Counted, RuntimeTypes
<1>4. RuntimeTypes'
  BY <1>1, <1>2 DEF RuntimeTypes, BridgeStages
<1>5. StageInv'
  BY <1>1, <1>2 DEF StageInv, RuntimeTypes, vars
<1>6. core # NoCore /\ shutdown = "none" /\ Counted # {}
  BY <1>1, InUse
<1>7. CountInv' /\ MutexInv' /\ CoreInv'
  BY <1>1, <1>3, <1>6 DEF CountInv, MutexInv, CoreInv
<1> QED
  BY <1>4, <1>5, <1>7

\* A bridge closes; the last one keeps the mutex for the shutdown.
LEMMA CloseStep ==
    ASSUME RInv, IInv', NEW i \in Instances, CloseBridge(i)
    PROVE  RInv'
<1> USE DEF RInv, CloseBridge
<1> DEFINE last == bridge[i] # "dead" /\ bridgeCount = 1
<1>1. /\ UNCHANGED <<vars, coreVars, shutdownStarted, logging>> /\ holder = None
      /\ bridge[i] \in {"ready", "mute", "dead"} /\ host[i] \in {"none", "released"}
      /\ shutdown = "none"
  BY DEF Destroyed, StageInv, MutexInv
<1>2. /\ bridge' = [bridge EXCEPT ![i] = IF last THEN "closing" ELSE "gone"]
      /\ bridgeCount' = IF bridge[i] = "dead" THEN bridgeCount ELSE bridgeCount - 1
      /\ holder' = IF last THEN i ELSE None
      /\ shutdown' = IF last THEN "entering" ELSE "none"
  OBVIOUS
<1>3. Counted' = Counted \ {i} /\ (i \in Counted <=> bridge[i] # "dead")
  BY <1>1, <1>2 DEF Counted, RuntimeTypes
<1>4. CountInv'
  BY <1>2, <1>3, FS_RemoveElement DEF CountInv
<1>5. last => Counted' = {}
  <2>1. last => Cardinality(Counted') = 0
    BY <1>2, <1>4 DEF CountInv
  <2> QED
    BY <2>1, <1>4, FS_EmptySet DEF CountInv
<1>6. ~last /\ i \in Counted => Counted' # {}
  <2>1. bridgeCount \in Nat
    BY FS_CardinalityType DEF CountInv
  <2>2. SUFFICES ASSUME ~last, i \in Counted PROVE Counted' # {}
    OBVIOUS
  <2>3. Cardinality(Counted') # 0
    BY <1>2, <1>3, <1>4, <2>1, <2>2 DEF CountInv
  <2> QED
    BY <2>3, FS_EmptySet
<1>7. RuntimeTypes'
  BY <1>1, <1>2 DEF RuntimeTypes, BridgeStages, coreVars
<1>8. StageInv'
  <2>1. i \notin handles
    BY <1>1 DEF Destroyed, StageInv, IInv, TypeOK
  <2> QED
    BY <1>1, <1>2, <2>1 DEF StageInv, RuntimeTypes, vars, coreVars
<1>9. MutexInv'
  BY <1>1, <1>2, <1>5, NoneAssumption DEF MutexInv, RuntimeTypes
<1>10. CoreInv'
  BY <1>1, <1>2, <1>3, <1>6, NoneAssumption DEF CoreInv, Quiet, vars, coreVars, services
<1> QED
  BY <1>4, <1>7, <1>8, <1>9, <1>10

\* The shutdown, under the mutex: nobody is left to use the core.
LEMMA ShutdownStep ==
    ASSUME RInv, IInv', Shutdown
    PROVE  RInv'
<1> USE DEF RInv
<1>1. /\ holder # None /\ shutdown # "none" /\ Counted = {} /\ bridge[holder] = "closing"
      /\ holder \in Instances
  BY DEF Shutdown, EnterShutdown, DropCore, DisposeCore, LeaveShutdown, MutexInv, RuntimeTypes
<1>2. \A i \in Instances : bridge[i] \notin {"open", "entered", "ready", "mute"}
  BY <1>1 DEF Counted
<1>3. CASE EnterShutdown
  <2> USE <1>3 DEF EnterShutdown, shutdownFrame
  <2>1. RuntimeTypes' /\ CountInv' /\ StageInv'
    BY DEF RuntimeTypes, CountInv, Counted, StageInv, vars
  <2>2. MutexInv'
    BY <1>1 DEF MutexInv, Counted
  <2>3. CoreInv'
    BY <1>1 DEF CoreInv, Quiet, vars, services
  <2> QED
    BY <2>1, <2>2, <2>3
<1>4. CASE DropCore
  <2> USE <1>4 DEF DropCore, shutdownFrame
  <2>1. RuntimeTypes' /\ CountInv'
    BY DEF RuntimeTypes, CountInv, Counted, NoCore
  <2>2. StageInv'
    BY <1>2 DEF StageInv, vars
  <2>3. MutexInv' /\ CoreInv'
    BY <1>1 DEF MutexInv, Counted, CoreInv
  <2> QED
    BY <2>1, <2>2, <2>3
<1>5. CASE DisposeCore
  <2> USE <1>5 DEF DisposeCore, Dispose, workers
  <2>1. RuntimeTypes' /\ CountInv'
    BY DEF RuntimeTypes, CountInv, Counted
  <2>2. StageInv'
    BY <1>2 DEF StageInv
  <2>3. MutexInv' /\ CoreInv'
    BY <1>1 DEF MutexInv, Counted, CoreInv, Quiet
  <2> QED
    BY <2>1, <2>2, <2>3
<1>6. CASE LeaveShutdown
  <2> USE <1>6 DEF LeaveShutdown, shutdownFrame
  <2>1. Counted' = Counted
    BY <1>1, SameCount DEF BridgeStages
  <2>2. RuntimeTypes' /\ CountInv'
    BY <1>1, <2>1 DEF RuntimeTypes, CountInv, BridgeStages
  <2>3. StageInv'
    BY <1>1 DEF StageInv, RuntimeTypes, vars
  <2>4. MutexInv'
    BY DEF MutexInv
  <2>5. CoreInv'
    BY <1>1, <2>1 DEF CoreInv, Quiet, vars, services
  <2> QED
    BY <2>2, <2>3, <2>4, <2>5
<1> QED
  BY <1>3, <1>4, <1>5, <1>6 DEF Shutdown

\* The workers of a core in service; a quiet one has none at work.
LEMMA WorkersStep ==
    ASSUME RInv, IInv', Workers
    PROVE  RInv'
<1> USE DEF RInv, Workers
<1>1. UNCHANGED <<coreVars, bridgeVars, host>>
  BY DEF Worker, EnterGate, Activate, Deactivate, BeginPublish, Notify, EndPublish, EndNotify,
         LookUp, CallReturns, NobodyToTell, workFrame, BeginPoll, Telemetry, EndPoll,
         SendTelemetry, TelemetrySent, pollFrame
<1>2. ~Quiet
  BY NoneAssumption DEF Quiet, Worker, EnterGate, Activate, Deactivate, BeginPublish, Notify,
         EndPublish, EndNotify, LookUp, CallReturns, NobodyToTell, BeginPoll, Telemetry, EndPoll,
         SendTelemetry, TelemetrySent
<1>3. RuntimeTypes' /\ CountInv' /\ StageInv' /\ MutexInv'
  BY <1>1 DEF RuntimeTypes, CountInv, Counted, StageInv, MutexInv, coreVars, bridgeVars
<1>4. core # NoCore \/ shutdown = "dropped"
  BY <1>2 DEF CoreInv
<1>5. CoreInv'
  BY <1>1, <1>4 DEF CoreInv, Counted, coreVars, bridgeVars
<1> QED
  BY <1>3, <1>5

\* Every step keeps the invariant.
LEMMA RuntimeStepInv == RInv /\ [RuntimeNext]_runtimeVars => RInv'
<1> SUFFICES ASSUME RInv, [RuntimeNext]_runtimeVars PROVE RInv'
  OBVIOUS
<1>1. IInv'
  BY LifecycleStep, StepInv DEF RInv
<1>2. ASSUME NEW i \in Instances, Plugin(i) PROVE RInv'
  BY <1>1, <1>2, OpenStep, EnterStep, InsideStep, HandleStep, CloseStep DEF Plugin
<1>3. CASE UNCHANGED runtimeVars
  BY <1>1, <1>3 DEF runtimeVars, vars, services, coreVars, bridgeVars, RInv, RuntimeTypes,
                    CountInv, Counted, StageInv, MutexInv, CoreInv, Quiet
<1> QED
  BY <1>1, <1>2, <1>3, ShutdownStep, WorkersStep DEF RuntimeNext

\* The invariant holds in every state of the runtime.
LEMMA RuntimeInvariance == RuntimeSpec => []RInv
  BY RuntimeInitInv, RuntimeStepInv, PTL DEF RuntimeSpec

-----------------------------------------------------------------------------
(* The results.                                                            *)

\* Whatever bridges are opened and closed, the lives of the plug-ins inside
\* the core are those of InstanceLifecycle: what is proved there, of the
\* exchange, the callbacks and the active instance, holds here.
THEOREM RuntimeImplementsLifecycle == RuntimeSpec => Spec
<1>1. RuntimeInit => Init
  BY DEF RuntimeInit
<1> QED
  BY <1>1, LifecycleStep, PTL DEF RuntimeSpec, Spec

\* A registered instance keeps the core it was registered with and its handle;
\* the core is shut down with the last bridge, whole, and never before
\* (ManagedBridge.cpp: activeBridgeCount under runtimeMutex).
THEOREM CoreOutlivesItsUsers == RuntimeSpec => []CoreFollowsBridges
<1>1. RInv => CoreFollowsBridges
  <2> SUFFICES ASSUME RInv PROVE CoreFollowsBridges
    OBVIOUS
  <2> USE DEF RInv
  <2>1. ASSUME NEW i \in Instances
        PROVE  /\ i \in publishers => core = home[i] /\ home[i] # NoCore
               /\ bridge[i] = "ready" /\ host[i] = "live" => i \in handles
    <3>1. i \in publishers => host[i] \notin {"none", "stopped", "released"}
      BY DEF IInv, ServicesInv, InPublishers, InRegistry
    <3>2. bridge[i] \in BridgeStages
      BY DEF RuntimeTypes
    <3> QED
      BY <3>1, <3>2 DEF StageInv, BridgeStages
  <2>2. ASSUME bridgeCount = 0, holder = None
        PROVE  /\ core = NoCore /\ handles = {} /\ ~logging
               /\ work.stage = "idle" /\ poll.stage = "idle"
    <3>1. Counted = {}
      BY <2>2, FS_EmptySet DEF CountInv
    <3> QED
      BY <2>2, <3>1 DEF CoreInv, MutexInv, Quiet
  <2> QED
    BY <2>1, <2>2 DEF CoreFollowsBridges
<1> QED
  BY <1>1, RuntimeInvariance, PTL
=============================================================================
