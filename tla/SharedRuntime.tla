---------------------------- MODULE SharedRuntime ----------------------------
(***************************************************************************)
(* The managed runtime that all plug-ins of a process share, and the bridge   *)
(* of each plug-in to it (ManagedBridge.cpp): the first bridge starts it, the   *)
(* last one shuts it down, both under one mutex; registration and all other      *)
(* calls take no lock there.  A core is the provider of services that the first    *)
(* registration creates and a shutdown disposes of; the lives of the plug-ins       *)
(* inside it are InstanceLifecycle's.                                                *)
(***************************************************************************)
EXTENDS InstanceLifecycle, FiniteSets

VARIABLES
    library,         \* what loading the managed library came to
    bridge,          \* instance |-> how far its plug-in and its bridge are
    bridgeCount,     \* activeBridgeCount
    holder,          \* who holds runtimeMutex across a shutdown
    shutdown,        \* how far that shutdown is
    shutdownStarted, \* NativeApi._shutdownStarted
    logging,         \* a log callback is configured
    core,            \* the core in service, 0 for none; cores are numbered
    created,         \* how many there have been
    home,            \* instance |-> the core its registration went to
    handles          \* NativeApi.AudioInputHandles, kept across cores

coreVars == <<core, created, home, handles>>
bridgeVars == <<library, bridge, bridgeCount, holder, shutdown, shutdownStarted, logging>>
runtimeVars == <<vars, coreVars, bridgeVars>>

NoCore == 0

RuntimeInit ==
    /\ Init
    /\ library = "absent" /\ bridge = [i \in Instances |-> "none"] /\ bridgeCount = 0
    /\ holder = None /\ shutdown = "none" /\ shutdownStarted = FALSE /\ logging = FALSE
    /\ core = NoCore /\ created = 0 /\ home = [i \in Instances |-> NoCore] /\ handles = {}

Moves(i, from, to) == bridge[i] = from /\ bridge' = [bridge EXCEPT ![i] = to]

-----------------------------------------------------------------------------
(* A plug-in is constructed.                                               *)

\* A library that is not there is looked for again by the next bridge; one that
\* lacks an export is not.
Loaded == IF library = "absent" THEN {"absent", "incomplete", "loaded"} ELSE {library}

OpenBridge(i) ==
    /\ holder = None
    /\ \E outcome \in Loaded :
       /\ library' = outcome
       /\ IF outcome = "loaded"
          THEN /\ Moves(i, "none", "open")
               /\ logging' = (logging \/ bridgeCount = 0)
               /\ bridgeCount' = bridgeCount + 1
          ELSE Moves(i, "none", "dead") /\ UNCHANGED <<logging, bridgeCount>>
    /\ UNCHANGED <<vars, coreVars, holder, shutdown, shutdownStarted>>

\* Variant: a registration does not take back that a shutdown has begun.
EnterRegistrationAfterShutdown(i) ==
    /\ Moves(i, "open", "entered")
    /\ core' = (IF core = NoCore THEN created + 1 ELSE core)
    /\ created' = (IF core = NoCore THEN created + 1 ELSE created)
    /\ home' = [home EXCEPT ![i] = core']
    /\ UNCHANGED <<vars, handles, library, bridgeCount, holder, shutdown, shutdownStarted,
                   logging>>

\* The registration finds the core, or creates one.
EnterRegistration(i) ==
    /\ Moves(i, "open", "entered")
    /\ shutdownStarted' = FALSE
    /\ core' = (IF core = NoCore THEN created + 1 ELSE core)
    /\ created' = (IF core = NoCore THEN created + 1 ELSE created)
    /\ home' = [home EXCEPT ![i] = core']
    /\ UNCHANGED <<vars, handles, library, bridgeCount, holder, shutdown, logging>>

RegistrationStep(i) ==
    /\ bridge[i] = "entered"
    /\ \/ Register(i) \/ RegisterSource(i) \/ RegisterOutput(i) \/ FailRegistration(i)
       \/ host[i] # "live" /\ Unregistration(i)
    /\ UNCHANGED <<coreVars, bridgeVars>>

\* The audio handle is the last thing a registration makes.
AddAudioInput(i) ==
    /\ host[i] = "live" /\ Moves(i, "entered", "ready")
    /\ handles' = handles \cup {i}
    /\ UNCHANGED <<vars, core, created, home, library, bridgeCount, holder, shutdown,
                   shutdownStarted, logging>>

\* A plug-in whose registration has failed, before the instance was registered
\* or after, lives on without one.
RegistrationFailed(i) ==
    /\ host[i] \in {"none", "stopped"} /\ Moves(i, "entered", "mute")
    /\ UNCHANGED <<vars, coreVars, library, bridgeCount, holder, shutdown, shutdownStarted,
                   logging>>

-----------------------------------------------------------------------------
(* It is used, and destroyed.                                              *)

Run(i) ==
    /\ bridge[i] = "ready"
    /\ Take(i) \/ CancelInstance(i) \/ Unregistration(i)
    /\ UNCHANGED <<coreVars, bridgeVars>>

RemoveAudioInput(i) ==
    /\ bridge[i] = "ready" /\ host[i] = "stopped" /\ i \in handles
    /\ handles' = handles \ {i}
    /\ UNCHANGED <<vars, core, created, home, bridgeVars>>

\* The exchange and the queue go before the bridge does.
Destroy(i) ==
    /\ bridge[i] \in {"ready", "mute"} /\ i \notin handles
    /\ Release(i)
    /\ UNCHANGED <<coreVars, bridgeVars>>

Destroyed(i) ==
    CASE bridge[i] = "ready" -> host[i] = "released"
      [] bridge[i] = "mute"  -> host[i] \in {"none", "released"}
      [] OTHER               -> bridge[i] = "dead"

CloseBridge(i) ==
    /\ Destroyed(i) /\ holder = None
    /\ LET last == bridge[i] # "dead" /\ bridgeCount = 1
       IN  /\ bridge' = [bridge EXCEPT ![i] = IF last THEN "closing" ELSE "gone"]
           /\ bridgeCount' = IF bridge[i] = "dead" THEN bridgeCount ELSE bridgeCount - 1
           /\ holder' = IF last THEN i ELSE None
           /\ shutdown' = IF last THEN "entering" ELSE "none"
    /\ UNCHANGED <<vars, coreVars, library, shutdownStarted, logging>>

-----------------------------------------------------------------------------
(* The shutdown, by the thread that holds the mutex.                       *)

shutdownFrame == <<vars, created, home, library, bridgeCount>>

EnterShutdown ==
    /\ shutdown = "entering"
    /\ shutdown' = IF shutdownStarted THEN "disposed" ELSE "entered"
    /\ shutdownStarted' = TRUE
    /\ UNCHANGED <<shutdownFrame, bridge, holder, logging, core, handles>>

\* From here on a call would create another core.
DropCore ==
    /\ shutdown = "entered" /\ shutdown' = "dropped"
    /\ core' = NoCore
    /\ UNCHANGED <<shutdownFrame, bridge, holder, shutdownStarted, logging, handles>>

\* The services of the dropped core join their workers.
DisposeCore ==
    /\ shutdown = "dropped" /\ Dispose
    /\ shutdown' = "disposed" /\ handles' = {}
    /\ UNCHANGED <<created, home, library, bridgeCount, bridge, holder, shutdownStarted,
                   logging, core>>

LeaveShutdown ==
    /\ shutdown = "disposed" /\ shutdown' = "none"
    /\ logging' = FALSE
    /\ bridge' = [bridge EXCEPT ![holder] = "gone"] /\ holder' = None
    /\ UNCHANGED <<shutdownFrame, shutdownStarted, core, handles>>

-----------------------------------------------------------------------------

Plugin(i) ==
    \/ OpenBridge(i) \/ EnterRegistration(i) \/ RegistrationStep(i) \/ AddAudioInput(i)
    \/ RegistrationFailed(i) \/ Run(i) \/ RemoveAudioInput(i) \/ Destroy(i) \/ CloseBridge(i)

Shutdown == EnterShutdown \/ DropCore \/ DisposeCore \/ LeaveShutdown

Workers == (Worker \/ BeginPoll \/ Telemetry) /\ UNCHANGED <<coreVars, bridgeVars>>

RuntimeNext ==
    \/ \E i \in Instances : Plugin(i)
    \/ Shutdown
    \/ Workers

RuntimeSpec == RuntimeInit /\ [][RuntimeNext]_runtimeVars

\* As in FairSpec: what the workers have begun they finish, and the locks an
\* unregistration waits for become free again and again.
Unregisters(i) == Unregistration(i) /\ UNCHANGED <<coreVars, bridgeVars>>
Works == Worker /\ UNCHANGED <<coreVars, bridgeVars>>
Polls == Telemetry /\ UNCHANGED <<coreVars, bridgeVars>>
FairRuntimeSpec ==
    /\ RuntimeSpec
    /\ WF_runtimeVars(Works) /\ WF_runtimeVars(Polls)
    /\ \A i \in Instances : SF_runtimeVars(Unregisters(i))

-----------------------------------------------------------------------------
(* Correctness.                                                            *)

\* From its registration until its removal an instance has the core it was
\* registered with, and while it runs its audio handle is allocated, whatever
\* bridges are closed and opened meanwhile; the core outlives the last bridge
\* by no more than its shutdown, and nothing it allocated is left behind.
CoreFollowsBridges ==
    /\ \A i \in Instances :
         /\ i \in publishers => core = home[i] /\ home[i] # NoCore
         /\ bridge[i] = "ready" /\ host[i] = "live" => i \in handles
    /\ bridgeCount = 0 /\ holder = None =>
         core = NoCore /\ handles = {} /\ ~logging /\ work.stage = "idle" /\ poll.stage = "idle"
=============================================================================
