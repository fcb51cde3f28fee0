-------------------------- MODULE InstanceLifecycle --------------------------
(***************************************************************************)
(* The life of a plug-in instance across the native boundary (NativeApi.cs)*)
(* and the threads of the managed core that may be using the instance while*)
(* it goes: the control worker, which runs commands under the operation    *)
(* gate and sends frames through the instance's native callback, and the   *)
(* telemetry worker, which reads the instance's exchange and sends frames  *)
(* too.                                                                    *)
(*                                                                         *)
(* Registration and unregistration are sequences of calls on services that *)
(* each have a lock of their own; every such call is a step.  A service    *)
(* call that stays inside one lock is one step, a command's DSP publish and*)
(* a telemetry read are two, begin and end, with the lock held between.    *)
(* The plug-in's destructor unregisters and then frees what it registered, *)
(* the callback context and the exchange.                                  *)
(***************************************************************************)
EXTENDS Naturals

CONSTANTS
    Instances,     \* ids; an id is never reused
    None,          \* no instance
    MaxCommands,   \* bound: commands the worker starts
    MaxPolls       \* bound: polls of the telemetry worker

ASSUME NoneAssumption == None \notin Instances
ASSUME BoundsAssumption == MaxCommands \in Nat /\ MaxPolls \in Nat

VARIABLES
    host,        \* instance |-> how far its host thread is
    cancelled,   \* ProtocolService._cancelledInstances
    registry,    \* InstanceRegistry._instances
    publishers,  \* instances whose publisher still holds the exchange pointer
    sources,     \* DspTelemetryService._sources
    outputs,     \* NativeOutputService._callbacks
    present,     \* PresentationOutputGate._activeInstances
    active,      \* ActiveInstanceCoordinator._activeInstanceId
    viewer,      \* DspTelemetryService._activeViewer
    work,        \* what the control worker is doing
    poll,        \* what the telemetry worker is doing
    commands,    \* commands started
    polls        \* polls begun

services == <<cancelled, registry, publishers, sources, outputs, present, active, viewer>>
vars == <<host, services, work, poll, commands, polls>>

\* The calls of NativeApi.RegisterInstance and UnregisterInstance, in order:
\* a stage is named for what has been done last.
Stages == {"none", "registered", "readable", "live", "cancelled", "inactive",
           "unreadable", "silent", "removed", "stopped", "released"}

Work == [stage : {"idle", "checked", "gate", "publishing", "notifying", "reply", "calling"},
         source : Instances \cup {None},
         target : Instances \cup {None}]
Resting == [stage |-> "idle", source |-> None, target |-> None]
Poll == [stage : {"idle", "reading", "sending", "calling"},
         target : Instances \cup {None},
         reads : SUBSET Instances]
Asleep == [stage |-> "idle", target |-> None, reads |-> {}]

TypeOK ==
    /\ host \in [Instances -> Stages]
    /\ cancelled \subseteq Instances /\ registry \subseteq Instances
    /\ publishers \subseteq Instances /\ sources \subseteq Instances
    /\ outputs \subseteq Instances /\ present \subseteq Instances
    /\ active \in Instances \cup {None} /\ viewer \in Instances \cup {None}
    /\ work \in Work
    /\ work.stage # "idle" => {work.source, work.target} \subseteq Instances
    /\ poll \in Poll
    /\ poll.stage # "idle" => poll.target \in Instances
    /\ commands \in 0..MaxCommands /\ polls \in 0..MaxPolls

Init ==
    /\ host = [i \in Instances |-> "none"]
    /\ cancelled = {} /\ registry = {} /\ publishers = {} /\ sources = {}
    /\ outputs = {} /\ present = {}
    /\ active = None /\ viewer = None
    /\ work = Resting /\ poll = Asleep
    /\ commands = 0 /\ polls = 0

\* The worker holds the operation gate.
GateFree == work.stage \notin {"gate", "publishing", "notifying"}
TelemetryLockFree == poll.stage # "reading"

Goes(i, from, to) == host[i] = from /\ host' = [host EXCEPT ![i] = to]
workers == <<work, poll, commands, polls>>

-----------------------------------------------------------------------------
(* The host thread of an instance.                                         *)

\* InstanceRegistry.RegisterInstance, whole, under the operation gate.
Register(i) ==
    /\ Goes(i, "none", "registered")
    /\ GateFree
    /\ registry' = registry \cup {i}
    /\ publishers' = publishers \cup {i}
    /\ UNCHANGED <<cancelled, sources, outputs, present, active, viewer, workers>>

RegisterSource(i) ==
    /\ Goes(i, "registered", "readable")
    /\ TelemetryLockFree
    /\ sources' = sources \cup {i}
    /\ UNCHANGED <<cancelled, registry, publishers, outputs, present, active, viewer, workers>>

RegisterOutput(i) ==
    /\ Goes(i, "readable", "live")
    /\ outputs' = outputs \cup {i}
    /\ UNCHANGED <<cancelled, registry, publishers, sources, present, active, viewer, workers>>

\* A call of the registration fails: the instance was registered, and its
\* clean-up makes the same calls as an unregistration, the cancellation apart.
FailRegistration(i) ==
    /\ \E from \in {"registered", "readable", "live"} : Goes(i, from, "cancelled")
    /\ UNCHANGED <<services, workers>>

\* The destructor runs: the queue drops what the instance has sent.
CancelInstance(i) ==
    /\ Goes(i, "live", "cancelled")
    /\ cancelled' = cancelled \cup {i}
    /\ UNCHANGED <<registry, publishers, sources, outputs, present, active, viewer, workers>>

\* ActiveInstanceCoordinator.Unregister, which calls the telemetry service
\* only for the active instance.
UnregisterActivity(i) ==
    /\ Goes(i, "cancelled", "inactive")
    /\ active = i => TelemetryLockFree
    /\ active' = IF active = i THEN None ELSE active
    /\ viewer' = IF active = i /\ viewer = i THEN None ELSE viewer
    /\ present' = present \ {i}
    /\ UNCHANGED <<cancelled, registry, publishers, sources, outputs, workers>>

\* Variant: the source is dropped without the telemetry lock.
RemoveSourceUnlocked(i) ==
    /\ Goes(i, "inactive", "unreadable")
    /\ sources' = sources \ {i}
    /\ viewer' = IF viewer = i THEN None ELSE viewer
    /\ UNCHANGED <<cancelled, registry, publishers, outputs, present, active, workers>>

RemoveSource(i) ==
    /\ Goes(i, "inactive", "unreadable")
    /\ TelemetryLockFree
    /\ sources' = sources \ {i}
    /\ viewer' = IF viewer = i THEN None ELSE viewer
    /\ UNCHANGED <<cancelled, registry, publishers, outputs, present, active, workers>>

UnregisterOutput(i) ==
    /\ Goes(i, "unreadable", "silent")
    /\ outputs' = outputs \ {i}
    /\ UNCHANGED <<cancelled, registry, publishers, sources, present, active, viewer, workers>>

\* InstanceRegistry.UnregisterInstance takes the instance out under the gate.
RemoveInstance(i) ==
    /\ Goes(i, "silent", "removed")
    /\ GateFree
    /\ registry' = registry \ {i}
    /\ UNCHANGED <<cancelled, publishers, sources, outputs, present, active, viewer, workers>>

\* ManagedInstance.Dispose stops the publisher, after the gate.
StopPublisher(i) ==
    /\ Goes(i, "removed", "stopped")
    /\ ~(work.stage = "publishing" /\ work.target = i)
    /\ publishers' = publishers \ {i}
    /\ UNCHANGED <<cancelled, registry, sources, outputs, present, active, viewer, workers>>

\* UnregisterInstance has returned and the plug-in object is destroyed.
Release(i) ==
    /\ Goes(i, "stopped", "released")
    /\ UNCHANGED <<services, workers>>

-----------------------------------------------------------------------------
(* The control worker.                                                     *)

workFrame == <<host, cancelled, registry, publishers, sources, outputs, poll, polls>>

\* A queued command of an instance passes the check for cancelled senders.
Take(i) ==
    /\ work.stage = "idle" /\ host[i] = "live" /\ i \notin cancelled
    /\ commands < MaxCommands
    /\ work' = [stage |-> "checked", source |-> i, target |-> i]
    /\ commands' = commands + 1
    /\ UNCHANGED <<workFrame, present, active, viewer>>

\* InstanceCommandRouter takes the gate and looks its source up; a source
\* that has gone only gets an error, which is sent to its callback.
EnterGate ==
    /\ work.stage = "checked"
    /\ work' = [work EXCEPT !.stage = IF work.source \in registry THEN "gate" ELSE "reply"]
    /\ UNCHANGED <<workFrame, present, active, viewer, commands>>

\* Variant: the previous active instance is left in the presentation gate.
ActivateKeepingPrevious ==
    LET i == work.source
    IN  /\ work.stage = "gate" /\ TelemetryLockFree
        /\ present' = present \cup {i}
        /\ viewer' = i
        /\ active' = i
        /\ work' = [work EXCEPT !.stage = "reply"]
        /\ UNCHANGED <<workFrame, commands>>

\* set_instance_active true: under the coordinator's lock the previous active
\* instance is taken out of every service and the new one put in.
Activate ==
    LET i == work.source
    IN  /\ work.stage = "gate" /\ TelemetryLockFree
        /\ present' = (present \ {active}) \cup {i}
        /\ viewer' = i
        /\ active' = i
        /\ work' = [work EXCEPT !.stage = "reply"]
        /\ UNCHANGED <<workFrame, commands>>

\* set_instance_active false.
Deactivate ==
    LET i == work.source
    IN  /\ work.stage = "gate" /\ TelemetryLockFree
        /\ present' = present \ {i}
        /\ viewer' = IF active = i /\ viewer = i THEN None ELSE viewer
        /\ active' = IF active = i THEN None ELSE active
        /\ work' = [work EXCEPT !.stage = "reply"]
        /\ UNCHANGED <<workFrame, commands>>

\* A command that changes state publishes to an instance of the registry.
BeginPublish(t) ==
    /\ work.stage = "gate" /\ t \in registry /\ t \in publishers
    /\ work' = [work EXCEPT !.stage = "publishing", !.target = t]
    /\ UNCHANGED <<workFrame, present, active, viewer, commands>>

EndPublish ==
    /\ work.stage = "publishing"
    /\ work' = [work EXCEPT !.stage = "reply", !.target = work.source]
    /\ UNCHANGED <<workFrame, present, active, viewer, commands>>

\* Change, history and registry notifications go out while the gate is held.
Notify(t) ==
    /\ work.stage = "gate" /\ t \in outputs
    /\ work' = [work EXCEPT !.stage = "notifying", !.target = t]
    /\ UNCHANGED <<workFrame, present, active, viewer, commands>>

\* Variant: a callback returns only once its host thread has time for it, which
\* it has not while it is unregistering.
EndNotifyOnHostThread ==
    /\ work.stage = "notifying" /\ host[work.target] \in {"live", "released"}
    /\ work' = [work EXCEPT !.stage = "reply", !.target = work.source]
    /\ UNCHANGED <<workFrame, present, active, viewer, commands>>

EndNotify ==
    /\ work.stage = "notifying"
    /\ work' = [work EXCEPT !.stage = "reply", !.target = work.source]
    /\ UNCHANGED <<workFrame, present, active, viewer, commands>>

\* The response is sent after the gate has been left: the callback is looked
\* up and then called, with no lock across the two.
LookUp ==
    /\ work.stage = "reply" /\ work.source \in outputs
    /\ work' = [work EXCEPT !.stage = "calling"]
    /\ UNCHANGED <<workFrame, present, active, viewer, commands>>

CallReturns ==
    /\ work.stage = "calling"
    /\ work' = Resting
    /\ UNCHANGED <<workFrame, present, active, viewer, commands>>

NobodyToTell ==
    /\ work.stage = "reply" /\ work.source \notin outputs
    /\ work' = Resting
    /\ UNCHANGED <<workFrame, present, active, viewer, commands>>

-----------------------------------------------------------------------------
(* The telemetry worker.                                                   *)

pollFrame == <<host, services, work, commands>>

BeginPoll ==
    /\ poll.stage = "idle" /\ viewer # None /\ polls < MaxPolls
    /\ poll' = [stage |-> "reading", target |-> viewer, reads |-> sources]
    /\ polls' = polls + 1
    /\ UNCHANGED pollFrame

EndPoll ==
    /\ poll.stage = "reading"
    /\ poll' = [poll EXCEPT !.stage = "sending", !.reads = {}]
    /\ UNCHANGED <<pollFrame, polls>>

\* PresentationOutputGate, then NativeOutputService, then the callback.
SendTelemetry ==
    /\ poll.stage = "sending"
    /\ poll' = IF poll.target \in present \cap outputs
               THEN [poll EXCEPT !.stage = "calling"]
               ELSE Asleep
    /\ UNCHANGED <<pollFrame, polls>>

TelemetrySent ==
    /\ poll.stage = "calling"
    /\ poll' = Asleep
    /\ UNCHANGED <<pollFrame, polls>>

-----------------------------------------------------------------------------

\* The core is disposed of with its services when the last plug-in has gone, and
\* the next one finds new services (SharedRuntime has the when and by whom).
Dispose ==
    /\ work.stage = "idle" /\ poll.stage = "idle"
    /\ \A i \in Instances : host[i] \in {"none", "stopped", "released"}
    /\ cancelled' = {} /\ present' = {} /\ active' = None /\ viewer' = None
    /\ UNCHANGED <<host, registry, publishers, sources, outputs, workers>>

Unregistration(i) ==
    \/ UnregisterActivity(i) \/ RemoveSource(i) \/ UnregisterOutput(i)
    \/ RemoveInstance(i) \/ StopPublisher(i)

Host(i) ==
    \/ Register(i) \/ RegisterSource(i) \/ RegisterOutput(i) \/ FailRegistration(i)
    \/ CancelInstance(i) \/ Unregistration(i) \/ Release(i)

Worker ==
    \/ EnterGate \/ Activate \/ Deactivate
    \/ \E t \in Instances : BeginPublish(t) \/ Notify(t)
    \/ EndPublish \/ EndNotify \/ LookUp \/ CallReturns \/ NobodyToTell

Telemetry == EndPoll \/ SendTelemetry \/ TelemetrySent

Next ==
    \/ \E i \in Instances : Host(i) \/ Take(i)
    \/ Worker
    \/ BeginPoll \/ Telemetry
    \/ Dispose

Spec == Init /\ [][Next]_vars

\* Both workers run what they have begun.  An unregistration waits for locks
\* that are held briefly and again and again: strong fairness.
FairSpec ==
    /\ Spec
    /\ WF_vars(Worker) /\ WF_vars(Telemetry)
    /\ \A i \in Instances : SF_vars(Unregistration(i))

-----------------------------------------------------------------------------
(* Correctness.                                                            *)

\* "return with callbacks impossible" (InstanceLifecycle.md:58): nobody is in
\* or on the way into the callback of a plug-in that is gone.
CallbacksImpossible ==
    \A i \in Instances : host[i] = "released" =>
        /\ ~(work.stage = "calling" /\ work.target = i)
        /\ ~(poll.stage = "calling" /\ poll.target = i)

\* The exchange a plug-in takes with it is in nobody's hands: no DSP publish is
\* writing it and no telemetry poll is reading it.
ExchangeReleased ==
    \A i \in Instances : host[i] = "released" =>
        /\ i \notin publishers
        /\ ~(work.stage = "publishing" /\ work.target = i)
        /\ i \notin poll.reads

\* A callback made under the operation gate is over before the plug-in is gone:
\* those the worker makes after it has left the gate are the ones at risk.
GatedCallbacksEnd ==
    \A i \in Instances : host[i] = "released" =>
        ~(work.stage = "notifying" /\ work.target = i)

\* The three services that each keep their own idea of the active instance
\* agree about every instance that is not being unregistered, whatever other
\* instance comes and goes.
ActivityAgrees ==
    \A i \in Instances : host[i] \in {"registered", "readable", "live"} =>
        /\ i \in present <=> active = i
        /\ viewer = i <=> active = i

\* An unregistration returns: it never waits for good on the worker that runs a
\* command of the very instance, nor on the telemetry worker.
UnregisterReturns ==
    \A i \in Instances : host[i] = "cancelled" ~> host[i] = "stopped"
=============================================================================
