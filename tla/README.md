# Consolidator: a verification project

Consolidator is a VST3 audio plug-in. Every instance of it in a host process
shares one managed core (C#, `src/Consolidator.Managed`), which holds the state
of all instances, one undo history and the peer topology. A native layer
(C++, `src/Consolidator.Native`) runs the audio and carries snapshots across the
boundary, and the plug-in itself (C++, `src/Consolidator.Vst3`) has the editor
and the host callbacks. This directory holds TLA+ models of the parts where
order, interleaving and bookkeeping decide whether the program is correct, TLC
configurations that check them on small instances, and TLAPS proofs of the most
important results for every value of the constants.

Contents: [system](#1-the-system), [modules](#2-the-modules),
[runs](#3-the-runs), [disagreements](#4-where-code-and-documents-disagree),
[proofs](#5-what-is-proved), [limits](#6-what-is-not-modelled),
[what is left](#7-what-is-left).

## 1. The system

Paths are relative to `src/`; `Managed/`, `Native/` and `Vst3/` stand for
`Consolidator.Managed/`, `Consolidator.Native/` and `Consolidator.Vst3/`.

### 1.1 Components

| Component | State | Operations | What makes it correct |
|---|---|---|---|
| **State tree and history** `Managed/Core/State`, `State/History` | per value: a ring of copies, the slot it is at, the value it last left; shared cursor, undo and redo counts | write, commit of a transaction, advance, jump, baseline, register, dispose | values and cursor stay in step; the ring is a bounded timeline; observers never miss a change |
| **Commands** `Managed/Core/Commands` | a running command's targets; per-command transaction | write, reset, bypass/mute/solo, bank commit and refinement, topology, history, activity | one user action is one point; a failed command leaves nothing half done |
| **Dirty set and DSP publication** `Managed/Core/Dsp`, `DspStateObserver.cs` | set of affected instances, the runtime state per instance | mark, drain, publish | DSP gets what the tree shows |
| **DSP state exchange** `Managed/Native/NativeDspStatePublisher.cs`, `Native/Transport/DspStateConsumer.cpp` | three snapshot slots, published index, claimed index | publish, stop, consume | no torn snapshot; the last one arrives |
| **Control queue** `Managed/Protocol/ProtocolService.cs` | bounded channel, coalesced writes, cancelled senders, worker | receive, barrier, run, cancel, dispose | coalescing loses nothing; everyone waiting is answered |
| **Instance lifecycle** `Managed/Native/NativeApi.cs`, `InstanceRegistry.cs`, `ActivityCoordinator` | registry, publishers, telemetry sources, callbacks, active instance in three services | register, unregister, activate | what a plug-in frees is in nobody's hands |
| **Managed bridge** `Native/Transport/ManagedBridge.cpp` | one runtime, reference count, one mutex | load, attach, register, detach, shut down | the core outlives every plug-in in it and not the last bridge |
| **DSP telemetry** `Native/Audio/AudioRuntime.cpp`, `Managed/Native/DspTelemetry*.cs` | sequence-locked block per instance, poll timer | publish block, poll, send | a reader never accepts half a block and gets the last one |
| **Persistence** `Managed/Core/Services/Persistence` | suppression of dirty notifications | save, restore | undo does not leave a restored state; an open editor starts over |
| **Bank topology and peers** `Managed/Core/Topology`, `StatePeerObserver.cs` | groups of banks, peer links | group, ungroup, clear, propagate | peers of a group converge |
| **Audibility** `Managed/Core/State/Observers` | solo/mute of all instances, derived audibility | recompute | audibility follows from mute and solo of all |
| **Notifications** `Managed/Protocol/Notifications` | revisions, subscribers | snapshot, delta | a client's view equals the core's |
| **Protocol codec** `Managed/Protocol/{Decoding,Encoding,Dispatch}` | none | decode, encode | round trip |
| **Analysis and capture** `Managed/Analysis` | demand for captures, single-producer single-consumer ring | prepare, push, set demand, read a window, FFT | a window is sound heard in a row; capture costs nothing without a viewer |
| **Approximation** `Managed/Approximation` | none | fit filters | numeric |
| **Audio runtime and DSP** `Native/Audio` | current snapshot; per device a wet transition; per processor ramps, cached coefficients and histories of the sound | prepare, reset, process block, publish telemetry | nothing sounds on a stale history or stale coefficients |
| **Plug-in processor** `Vst3/Source/Host/Plugin` | prepared flag, chunk size, output queue, exchanges, callback context | construct, destroy, prepare, release, reset, process, drain output | frees nothing in use; hands every chunk on in order |
| **Gestures and activation** `Vst3/Source/Shared/Editing`, `Vst3/Source/Host/Editor/Editor{Session,Presentation}` | per editor a gesture session (transaction, last position, ready, dirty, ending, final sent), generation and activity; one active session per process | focus, begin, move, release, flush, cancel, close, replies | gestures do not overlap in the shared history; the released position is written in the gesture's own point |
| **Protocol clients** `Vst3/Source/Shared/Clients` | registry, values of the focused bank, curves, completions waiting | expect, apply snapshot, apply delta, cancel | the editor shows what the core has |
| **Editor and features** `Vst3/Source/Host/Editor`, `Vst3/Source/Features` | focus and scope; models and view models of dials, buttons, choices, graph | pointer, timer, answers, notifications | edits reach the bank they were made on; controls come free again |
| **EmulationLab**, **Tests** | offline | | read as reference |

### 1.2 How they interact

* An editor sends **frames** through `ManagedBridge` and `NativeApi.Receive` to the
  control queue. One worker task decodes nothing itself: it takes a command,
  exchanges a coalesced placeholder for the latest value, and runs it.
* `InstanceCommandRouter` takes the **operation gate**, resolves the targets and
  hands them to `CommandExecutor`. The same gate guards registration, removal
  and restore. All of the core's state is changed with the gate held.
* A handler prepares a **transaction**, advances the **history** if the command
  owns a point, commits, and the **observers** of the changed values run
  synchronously: they update the DSP runtime state, mark the instance dirty,
  propagate to peers and notify.
* The executor **drains** the dirty set and publishes each instance's runtime
  state into its **exchange**, shared memory that the audio thread polls at the
  start of every block without a lock. Then it runs its **chain** of devices and
  leaves its telemetry in the same exchange.
* Responses leave the worker after the gate has been released; notifications
  leave while it is held, and the removal of an instance is announced after it.
  All end in a native callback of the plug-in, which **queues** them for the
  message thread; a timer hands them to the editor, where the **clients** turn
  them into what is shown.
* The telemetry worker polls each exchange under a lock of its own and sends
  frames for the active instance. The analyzer's worker reads the **capture
  rings** of the instances the active editor looks at.

### 1.3 What is hard

* Threads: the host's message threads, the control worker, the telemetry worker,
  the analyzer's worker, the persistence path, the audio threads. Their locks
  (gate, queue lock, telemetry lock, publisher lock, coordinator lock, runtime
  mutex) are all separate, and several operations are sequences over them.
* Two pieces of state that must agree: a value's slot and the shared cursor; a
  placeholder and its coalesced value; three ideas of the active instance; the
  index that is published and the one that is claimed; a cached coefficient and
  the controls it was computed from; the strip, the graph and the values of the
  bank; the editor's focus and the one the core was last told.
* Limits: the ring of 32 slots, the queue of 256 commands, the capture ring and
  its 32-bit indices, the sequence number of the telemetry.
* Ends: disposal of the queue while host threads wait in it, unregistration while
  commands, polls and callbacks run, the last bridge's shutdown while another
  plug-in comes.
* Answers that come late: to an editor that has lost the focus, started over,
  opened again, or whose user is in the middle of a gesture.

`PROJECT.json` lists each such hazard at its source line with the properties
aimed at it, or the reason why none covers it.

## 2. The modules

| Module | Models | Uses |
|---|---|---|
| `StateHistory` | state tree, history, transactions, observers, dirty set, publication, restore, registration | |
| `AbstractHistory` | what a history promises: a timeline and a cursor | |
| `HistoryPoints` | how many points a reset takes (observes only) | extends `StateHistory` |
| `GestureSession` | the editors' gestures, the hand-over of the focus, the commands and replies between them and the core | |
| `DspExchange` | the three-slot exchange with the audio thread | |
| `TelemetryExchange` | the sequence lock in the other direction, and the poll | extends `DspExchange` |
| `ProtocolQueue` | the control queue, its worker, barriers and disposal | |
| `InstanceLifecycle` | registration and unregistration against both workers | |
| `SharedRuntime` | the bridges of the plug-ins, start, shutdown and restart of the core | extends `InstanceLifecycle` |
| `DspPrimitives` | parameter ramp, filter cascade, cached keys | |
| `CompressorModels`, `ToneProcessors`, `LevelProcessors` | the processors, as functions on a processor record | each extends the one before, from `DspPrimitives` on |
| `DspProcessors` | one processor prepared, set, run and reset in any order | extends `LevelProcessors` |
| `AudioChain` | the devices, their fades, the chain and the runtime's block | extends `DspPrimitives` |
| `AudioCapture` | the capture ring with its wrapping indices | |
| `HostAudio` | host blocks and chunks, capture, the analyzer's demand and its reads | extends `AudioChain`, `AudioCapture` |
| `RegistryClient` | the editor's cache of the registry | |
| `TargetStateClient` | the editor's caches of a bank's values and curves | |
| `EditorPresentation` | the editor of one instance: session, completions, focus, commands | extends both clients |
| `EditorFeed` | that editor, the frames to it, and the core that sends them | extends `EditorPresentation` |
| `ParameterModels` | the models of the controls and the view model of the graph | |
| `EditingSurface` | the controls under the pointer | extends `ParameterModels` |
| `*Proofs` | theorems, section 5 | extend the module they are named after (`AudioChainProofs` extends `HostAudio`); those of `StateHistory` hold the refinement and, extending `TelemetryExchange` too, the theorems of both exchanges, those of `SharedRuntime` also the theorems of `InstanceLifecycle`, those of `AudioChain` those of the capture |
| `MC*` | instances for TLC | |

A definition marked *Variant* in a module is a faulty form of the definition that
follows it, a mistake that could plausibly be made in that code. No behaviour
specification uses it. Substituting it shows that the property it is paired with
in `PROJECT.json` can fail.

### 2.1 StateHistory

`StateValue` keeps an array of 32 copies and an index; `StateHistory` keeps the
cursor and two counts and moves all registered values together. The model has
exactly these (`slots`, `slot`, `previous`, `currentSlot`, `undo`, `redo`), the
observers' projection (`runtime`), the dirty set (`dirty`), what was last
published (`dsp`), the instances (`live`, `removed`) and two pieces of control:
the members that a group reset has still to visit (`resetting`) and the open
gestures (`open`).

A command is one step, because the operation gate makes it one. The exception is
the group reset, where the executor runs one handler, with a transaction of its
own, for each member: it is one step per member with the gate held between.
What values a command writes is a free choice of the model (`\E new \in
Requests`): write policies, clamping and edits that depend on each other
determine which new values occur, never what happens to them. `Changed` is
`Prepare`'s test that drops a write of an equal value.

The kinds of command differ in how they treat the history: `HistoryWrite` takes a
point when it changes a history value, `PlainWrite` changes only values that are
not registered (mute, solo, bypass, label), `BankCommit` takes a point
unconditionally, `GestureWrite` and `TopologyWrite` never do, `BeginHistory`
takes an empty point and `EndHistory` does nothing to the state.
A transaction whose preparation fails restores what it found and is not a step.

`Restore` writes every slot of the instance, so that undo cannot leave the
restored state. `RegisterInstance` joins new values at the current slot;
`UnregisterInstance` takes values out of the tree. A removed instance's values are
never read again, so the model lets them count as fresh.

`AbstractHistory` knows no ring: `Record` appends after the cursor, forgets what
followed and drops the oldest point when full; `Amend` changes the point at the
cursor, `Move` only the cursor, `Rebase` one instance in every point.
`StateHistory!Timeline` reads the ring from the oldest reachable point to the
newest, and `ImplementsTimeline` states that the ring implements the timeline
under that mapping. This is where wrap-around, the truncation of redo and stale
slots left by earlier points could go wrong.

### 2.2 DspExchange and TelemetryExchange

Publisher (`PublishCore`): read published index, read claimed index and choose a
slot, write the parts, publish. Its lock excludes other publishes and `Stop`.
Consumer (`ConsumePublishedDspState`): load the published index and return if it
is the one in use, claim it, copy the parts, remember it. Each of these is a
step, and so is each part of a snapshot on either side. `overtaken` records
whether a publish completed between the last load and its claim; it observes
only. Memory is sequentially consistent in the model: acquire/release
atomics allow more, so the violation shown is a real one while the results that
hold are about interleavings, not about weaker orders.

`TelemetryExchange` lets the same audio thread write its telemetry after each
block: the sequence goes odd, the words are written one at a time, the sequence
goes even. The poll (`DspTelemetryReader`) loads the sequence, gives up when it
is odd or 0, copies the words and loads it again; what has changed meanwhile is
left to the next poll. The service compares with the sequence it sent last and
sends a frame only for another one. The sequence is 32 bits wide and turns round
(`SequenceSize`); `age` counts the blocks begun since the read whose result was
sent last, which is how far the sequence can be trusted.

### 2.3 ProtocolQueue

Each sender has at most one command in `Receive` (one host thread per plug-in).
`Coalesce`, `Enqueue` and `Overload` are the three outcomes of the section under
the lock. A command is its sender, its coalescing key and a number, the order of
acceptance. The worker's steps are those between which the lock or the await
lets others in: `Wake`, `Take` (off the channel), `TakeLatest` (under the lock),
`Check` (cancelled sender), `Execute`. Barriers are entries of the same channel
and may have to wait for room. `Dispose` closes the channel, cancels the token
and drains in three steps. The .NET channel (bounded, first come first served
for writers that wait) is modelled from its use.

### 2.4 InstanceLifecycle and SharedRuntime

`host[i]` is the position of instance `i` in `NativeApi.RegisterInstance` and
`UnregisterInstance`; each call these make on another service is an action with
that service's lock as a guard. The control worker's command is in one of seven
stages, from the check for cancelled senders to the callback; what it does under
the gate is a choice between activation, deactivation, a DSP publish and a
notification. The telemetry worker reads all sources under its lock and then
looks up and calls the callback. `Release` stands for the destructor that frees
the exchange and the callback context after unregistration has returned.

`SharedRuntime` adds what is around it: `bridge[i]` is how far the constructor or
destructor of a plug-in is, `bridgeCount`, `holder` and `shutdown` are
`ManagedBridge.cpp`'s counter, mutex and shutdown. A registration creates the core when there is none; a shutdown
drops and disposes of it step by step, and the next bridge starts it again. A
registration can fail at each of its steps, with the clean-up the catch block
makes. Cores are numbered, so that an instance that ended up in a core other than
the one in service would be seen (`home`).

### 2.5 GestureSession

`session[e]` is `DialGestureSession::session_` of editor `e`, `next` its
`nextTransaction_`, `current` the process-wide `activeSession_`, `active` and
`generation` the editor's `active_` and `generation_`. All editors run on the
host's message thread, so that every pointer, timer and reply handler is one
step: what it changes in the editor, and all commands it sends, in order
(`Send`). `queue` is the channel of the core's worker together with the latest
coalesced values: a write of the same gesture that still waits is replaced where
it stands, anything else may be refused because the queue is full; the error goes
to the completion registered for the command or, without one, to the editor,
which then gives up. The size of the queue is not counted here (`ProtocolQueue`
does that); a refusal may happen to any command that is not coalesced, up to
`MaxFaults`. `Execute` runs the oldest command, `Deliver` hands the oldest reply
to its editor (`controlFrames_`).

The core is one value and the gesture that took the current history point
(`owner`); the rest of it is `StateHistory`. `trace` observes: what became of a
gesture, and which position the user let go of. Left out is the snapshot for
which an editor waits before it lets the user edit, which only admits more
behaviours and is `EditorFeed`'s subject, as is the `initialize` handshake. An
editor that is closed is not opened again.

### 2.6 The sound processors

Sound itself is abstracted. A register that remembers sound is 0 after a reset
and 1 once sound went through it; a coefficient is its **stamp**, the inputs it
was computed from. So a processor record has its ramps, its flags, the cached
keys, the stamps, the histories, and the inputs the last sample saw; `Prepare`,
`SetControls`, `Reset` and `Process` read and write these where the code does,
each cached key with its comparison. `CompressorModels` has Cla76, Cla2a, Cla3a
and Ssl with their plug-in and their emulation control modes, `ToneProcessors`
saturator, transient shaper and the two halves of Polish, `LevelProcessors` the
leveler, whose decibels are kept as whole numbers because its hand-over between manual
and automatic gain is arithmetic, and the limiter. The biquad cascade of
`DspPrimitives` also keeps the shares of the incoming and outgoing filter.
`DspProcessors` picks one of them and lets the device do with it what it may.

`AudioChain` is about *which* processors run. Each part of a device that
remembers sound is `clean`, `live`, `stale` or, when it runs on top of a stale
history, `revived`. A device's `WetTransition` fades between dry, parallel and
wet, resets the device once it has faded out, and may be cut short by another
snapshot. `Prepare`, `Reset`, `Publish` and `ProcessBlock` are
the runtime's operations; the block consumes the snapshot in one step, as
`DspExchange` has the details.

### 2.7 Host blocks, capture and the analyzer

`HostAudio` puts the plug-in's `processBlock` around it: the host prepares for a
maximum size and then calls with other sizes, so that a block is cut into chunks;
each is captured (`NativeApi.Audio.cs`, `FftAnalyzer`, `AudioCapture.Push`) and then
processed. The ring is `AudioCapture`'s: a frame is its number, the
two indices are ints that only grow and wrap, and the audio thread's write and the
worker's read are steps of one frame each. `gap` remembers that frames were
dropped because the ring was full, or that a chunk was heard while the ring stood
by with nobody demanding it.

The analyzer's demand is set in steps (`ReadView`, `PrepareCapture`,
`ExchangeDemand`, `RemoveCapture`) by whoever changes what the active editor looks
at: the control worker under the operation gate, or a plug-in that unregisters,
on its message thread and outside of the gate. `setting` is how far either is.
`crossed` observes that the two overlapped.

### 2.8 The editor and its feed

`RegistryClient` and `TargetStateClient` are operators on client records: a
snapshot is begun, filled by frames and accepted when complete and not older than
what a delta has announced; a delta that does not continue the cached revision
calls for a snapshot, and one about a row the cache lacks throws. `EditorPresentation` is the editor around
them. Commands collect in `out` and completions in `pending`; it activates, takes
the registry, observes a bank, requests its contexts one after another and becomes
editable when the last is in; an error, a refused command or a restored state
makes it start over. Request ids are reused after they were answered.

`EditorFeed` composes it with the core: the worker's inbox, the command it
answers frame by frame after the gate (`reply`), the frames queued for the editor,
and the core's registry, values, selection and revision. Between the frames of an
answer other editors write, group and ungroup, instances register, unregister and
have their removal announced late, the host restores a state, the queue refuses a command.
When another editor takes the focus, the session learns of it at once and the core later:
its command waits in the inbox with the others and ends the observation when it is its
turn. The removal of an instance is announced in a step
of its own, as the code announces it outside of the gate.

`EditingSurface` is the other side of the editor: dials, the leveler's button, the
choice of the compressor and the handles of the graph, with press, drag, release,
reset and click, the one gesture they share, the flush timer, the group scope and
the source the graph shows. Commands run as they are sent and only their answers
wait, as how answers mix is the feed's subject. `ParameterModels` has what these
controls keep: the model of a dial with its preview and its range of relative
movement in a group, the view model of the graph with entries, preview, curves
and spectrum.

## 3. The runs

`tlc -config <cfg> <module>`, with the community modules on the path.

| Run | Module, cfg | Properties | Shows |
|---|---|---|---|
| `state_history` | MCStateHistory, MCStateHistory.cfg | `ObserversCurrent`, `DspCurrent`, `ImplementsTimeline` | observers and DSP current after every kind of change; the ring implements the timeline |
| `gestures` | MCGestureSession, MCGestureSession.cfg | `OneOpenGesture`, `OnePointUnlessRefused`, `LastPositionKept`, `ReportedMeansWritten`, `GestureEnds` | gestures do not overlap in the core, write into their own point and leave the last position written, through a change of focus, closing, interruption and refusal |
| `dsp_exchange` | MCDspExchange, MCDspExchange.cfg | `OwnedUnlessOvertaken`, `CaughtUp`, `NoPublishAfterRelease`, `ShownIsWhole`, `AudioFollows`, `ViewerFollows` | what the exchange guarantees in both directions |
| `protocol_queue` | MCProtocolQueue, MCProtocolQueue.cfg | `LastWriteKept`, `NoLateWrite`, `BarrierReturns`, `WriteRuns` | coalescing keeps the last write and its order; barriers return, accepted writes run |
| `lifecycle` | MCInstanceLifecycle, MCInstanceLifecycle.cfg | `CoreFollowsBridges`, `ExchangeReleased`, `ActivityAgrees`, `UnregisterReturns` | plug-ins come and go against running commands, polls and the shutdown of the core |
| `dsp_processors` | MCDspProcessors, MCDspProcessors.cfg | `CoefficientsCurrent`, `ResetForgets`, `LevelerSeamless`, `ValuesInRange`, `CrossfadeGradual` | every processor, set, run, reset and prepared in any order |
| `audio_chain` | MCAudioChain, MCAudioChain.cfg | `NoStaleHistory`, `ReductionIsOfThisBlock`, `WindowIsWhole`, `CaptureFollowsViewer`, `DevicesSettle` | every device through all snapshots; the host's blocks, captured and read |
| `editor_feed` | MCEditorFeed, MCEditorFeed.cfg | `ViewCurrent`, `RegistryCurrent`, `EditsLandOnFocus`, `FramesFit`, `FeedConverges` | an editor shows and edits what it has in focus and recovers from whatever fails |
| `editing_surface` | MCEditingSurface, MCEditingSurface.cfg | `GestureHeld`, `ShownIsAccepted`, `EditingReturns` | the controls under the pointer while answers and notifications change them |
| `reset_points` | MCHistoryPoints, ResetIsOnePoint.cfg | `ResetIsOnePoint` | *violated*, see 4 |
| `copy_owned` | MCDspExchange, CopyIsOwned.cfg | `CopyIsOwned` | *violated*, see 4 |
| `callbacks_after_unregister` | MCInstanceLifecycle, CallbacksImpossible.cfg | `CallbacksImpossible` | *violated*, see 4 |

### 3.1 Bounds

* **State history.** Two instances, a value that history keeps and one it does not,
  of two levels each, one gesture. `Capacity` 3 is the smallest ring with a point
  that is neither the oldest nor the newest. The number of commands is *not*
  bounded: the state space is finite and explored whole, so the ring wraps as
  often as it can. Symmetry over the instances is sound here, as no property
  distinguishes them and none is about liveness.
* **DSP exchange.** Five publishes (`MaxVersion`): two pass between a load and its
  claim, one writes during the copy, two follow. Two parts are enough for a
  mixture. Three blocks (`MaxBlocks`) of two telemetry words on a sequence of 4,
  which turns round within a read: the exceptions in `ShownIsWhole` and
  `ViewerFollows` are reached, not only the rule.
* **Queue.** Three accepted commands (`MaxCommands`) of two editors, a channel of
  two entries, one barrier: a placeholder, a command behind it and a later value
  that takes the placeholder's entry; two commands fill the channel, so that the
  barrier waits for room. The number bounds accepted commands only, refused ones
  come on top. The run checks liveness as well, so it uses no symmetry.
* **Gestures.** Two editors, two acts of the user (`MaxActs`), of which two may be
  gestures (`MaxGestures`) and one a discrete edit (`MaxEdits`): two gestures in a
  row, so that a reply of the first can find the second, one in each editor, or a
  gesture and an edit. Two changes of focus (`MaxFocuses`) and one refused or
  rejected command (`MaxFaults`) at any place.
* **Lifecycle.** Two plug-ins, three commands (`MaxCommands`), two polls
  (`MaxPolls`): one of each more than can be in progress at once. Two are enough for
  the core to be shut down by one and started again by the other.
* **Processors.** One at a time, since they share no state. Ramps of two samples, crossfades
  of three, two sample rates, two levels of each control, at most one control away
  from the lowest (`MaxSet`): a key forgets one control at a time. Nothing bounds
  the number of calls.
* **Chain.** Every device alone, as none reads another's state, with two compressor
  models and three snapshots (`MaxSnapshots`): in, out, and back while the fade
  still runs. The host's side over the empty chain, since no device notices it: two
  viewers, a ring of four frames, a window of two, an index that turns round after
  twelve; block sizes above and below the prepared one. `MCBounds` gives the frames
  for each number of changes of the view: none without, eight with one (past the
  index's end at 2^31, here 6), two with two, three with three.
* **Feed.** Two instances, so that there is another bank to focus and to group with;
  two contexts, the first with a value only and the last with curves as well. Edits
  of the user and other events `a` and `n` with `a + 2n <= 4`: two edits and one
  event, or two events. A
  request takes an id that nobody holds any more, so that ids need no bound.
* **Surface.** Two presses (`MaxActs`), one move, one notification and one refused command,
  at most four together: a gesture whose refusal finds the next one. Values of the
  dial move by less than the scale or to its end.

The cfgs of `dsp_processors` and `audio_chain` check for deadlock. It is not
checked in the others, where every bound is a place where a behaviour may stop, a
disposed queue stops and a released plug-in does nothing more. That nobody waits
for good there is what `BarrierReturns`, `WriteRuns`, `UnregisterReturns`,
`AudioFollows`, `GestureEnds`, `FeedConverges` and `EditingReturns` say.

### 3.2 Fairness

Where a step has a simple guard, its weak fairness is written out as
`[]<>(guard is false) \/ []<><<A>>_vars`, which says the same and is much cheaper
to check.

* `DspExchange`, `TelemetryExchange`: weak fairness of the publisher *within* a
  publish (it runs under a lock on the worker's thread and waits for nothing), of
  the consumer and of the telemetry of a block begun, as the host calls audio
  blocks while the plug-in lives, and of the poll, which a timer repeats. Nothing
  forces a publish or a block to begin. `Load` is disabled while nothing new is
  published, so no activity is invented.
* `ProtocolQueue`: weak fairness of the worker, a task of the thread pool, and of
  the later steps of `Dispose`, which run one after another. Nothing forces a
  sender, a barrier or a disposal to begin.
* `GestureSession`: of the worker, which reads its channel as long as it lives, and
  of the delivery of replies, which the processor's timer makes. Nothing forces a
  user to move or release a control, or the timer to flush.
* `SharedRuntime`: weak fairness of both workers for what they have begun. Strong
  fairness of the steps of an unregistration: each waits for a lock that others
  hold briefly and again and again, and .NET's monitor lets a waiter in
  eventually. Nothing forces the host to begin an unregistration.
* `AudioChain`, `HostAudio`: weak fairness of the block, which the host calls while it
  plays. Nothing forces a snapshot, and the analyzer may never run.
* `EditorFeed`: of the core's worker, of the host calls under way (a removal under
  way is announced, a restore returns), of the timer that hands frames and the
  restored state to the editor, of the first opening, and of a user who focuses
  the window of an editor that shows it is not active.
* `EditingSurface`: of the timer, and of a user who lets go of the pointer.

### 3.3 The properties

* `ObserversCurrent`: the projection equals the effective value. A jump finds out
  what changed by comparing with `_previousSlotValue`; a restore rewrites slots and
  that remembered value in between.
* `DspCurrent`: with the gate free nothing is marked and the DSP of every instance
  was given the effective values. Four callers drain, each on its own.
* `ImplementsTimeline`: section 2.1.
* `OwnedUnlessOvertaken`: a copy is written under the reader's hands only after a
  publish completed between load and claim. `CaughtUp`: an audio thread that was
  not overtaken and sees nothing new has the whole of the last state.
  `NoPublishAfterRelease`: no publish is under way when the host frees the exchange.
  `AudioFollows`: the published index is eventually the one in use.
* `ShownIsWhole`: the telemetry a viewer is sent is of one block, unless the sequence
  turned round during the read. `ViewerFollows`: when the sound pauses, the viewer is
  sent the last block, whenever it began to look.
* `LastWriteKept`, `NoLateWrite`: the last accepted write of a key is executed or
  waits; none is executed after a later uncoalesced command of its sender.
  `BarrierReturns`, `WriteRuns`: whoever waits is answered, a write that is accepted
  runs, unless its sender is cancelled or the queue disposed.
* `OneOpenGesture`: all instances share one history cursor, so two open gestures
  would write into each other's point; only the editors' hand-over of the focus
  keeps them apart, with the earlier gesture's commands still queued.
  `OnePointUnlessRefused`: a gesture's writes go to its own
  point and its acknowledgement, a write with id zero, takes no second one.
  `LastPositionKept`: the position released, or reached when the window closed, is
  the one written. `ReportedMeansWritten`: what the editor reports as accepted is
  written even when commands were refused on the way. `GestureEnds`: a released
  control does not stay locked.
* `ExchangeReleased`: nothing reads or writes the exchange of a plug-in that is gone.
  `ActivityAgrees`: registry, telemetry and coordinator name the same active instance.
  `CoreFollowsBridges`: an instance has the core it was registered with until it is
  removed, and the core does not outlive the last bridge. `UnregisterReturns`.
* `CoefficientsCurrent`: no cached key lets a coefficient go stale. `ResetForgets`:
  a processor that is reset is like a new one with the same rate and controls.
  `LevelerSeamless`: switching the leveler hands the gain over without a jump.
  `ValuesInRange`: the range given to `std::clamp` is never empty, and values kept
  in two forms agree. `CrossfadeGradual`: neither a sample nor a change of filter moves
  a path's share by more than one step.
* `NoStaleHistory`: no part of the chain runs on top of a history from before a block
  it did not hear. `ReductionIsOfThisBlock`: meters get what was just processed.
  `DevicesSettle`: with the controls at rest, fades end and what is off has forgotten.
* `WindowIsWhole`: a window is sound heard in a row, whatever was dropped before.
  `CaptureFollowsViewer`: the ring exists exactly while the active editor looks.
* `ViewCurrent`, `RegistryCurrent`: with everything delivered, what an editable editor
  shows is what the core has. `EditsLandOnFocus`: the core never looks at another
  bank than the one an edit was made on when the edit is its turn. `FramesFit`: no
  client throws on a frame the core sends, but for the two kinds of delta of section 4. `FeedConverges`: the editor recovers.
* `GestureHeld`: an open gesture is in the hand of the control that began it.
  `ShownIsAccepted`: the copies that strip and graph keep follow the accepted values.
  `EditingReturns`: the controls come free again.

## 4. Where code and documents disagree

Three runs check one sentence of a document against what the code does.

1. **`CopyIsOwned`** (code). `DspStateConsumer.cpp` loads the published index and
   claims it in two steps. Two or more publishes in between make the slot that is
   about to be claimed writable, and the audio thread copies a slot while it is
   being written. `DspStateExchange.md:20-22` rules that out. The exchange recovers
   at the next block that sees a different index; `OwnedUnlessOvertaken` says that
   this is the only way.
2. **`ResetIsOnePoint`**. A `group_instance` reset takes one point per member
   (`InstanceCommandRouter.cs:74-81`; `ResetCommands.md:3-5`), so one undo takes
   half of it back.
3. **`CallbacksImpossible`**. `NativeOutputService.Send` looks a callback up and
   calls it without a lock across the two, so that unregistration returns with a
   callback still on its way (`InstanceLifecycle.md:54,58`,
   `PluginProcessor.cpp:46`). Callbacks made under the operation gate are safe
   (`GatedCallbacksEnd`, proved).

Other weak spots are written into the properties as exceptions, each of which a
behaviour of the run reaches, so that the rule without it would not hold:

* **A begin that is refused** (`OnePointUnlessRefused`). `DialGestureSession::Close`
  queues the gesture's writes without waiting for the reply to `begin_history`
  (`DialGestureSession.cpp:148-157`), and the core compares the id in a write with
  zero only (`WriteStateCommandHandler.cs:104`). When the full queue refuses the
  begin and the window closes before the error arrives, the writes amend the
  point before the gesture.
* **A refused discrete value under a gesture** (`started` in `GestureHeld` and
  `EditingReturns`). The editor starts over (`EditorPresentation.cpp:625-631`) beneath a gesture begun
  since; nobody ends that gesture, unlike `Vst3/Docs/Aspects/Gestures.md:15-24`
  has it, and a dial let go before the snapshot makes `TargetStateClient.cpp:139-154`
  throw out of `mouseUp`.
* **An activation during unregistration** (`ActivityAgrees`). `NativeApi.cs` makes the
  instance inactive *before* it waits for the running command; a running
  `set_instance_active` of the same instance makes it active again. The property
  speaks of the plug-ins that are not being unregistered.
* **The demand for captures** (`crossed` in `CaptureFollowsViewer`). Activity is given
  up outside of the gate (`NativeApi.cs:173`), while the gate's holder may exchange a
  demand it computed before, and an audio thread may be creating a capture.
  Capture and FFT then go on without a viewer, which `SpectrumAnalysis.md:9-10`
  rules out, until the next change of the view.
* **The capture index** (`excused` in `WindowIsWhole`). After 2^31 frames, some twelve hours at
  48 kHz, `% Capacity` of the negative index is negative; every further block throws, which
  `NativeApi.Audio.cs:66` catches, and the spectrum stays silent. Frames dropped
  while a window is read leave a gap in the next one, and so does a chunk missed while
  an unregistration outside of the gate has taken the demand from a ring that the other
  thread goes on to use.
* **A late removal** (`FramesFit`). A snapshot taken between the removal of an instance
  and its announcement lacks the row that the announcement removes, and
  `RegistryClient.cpp:63` throws; the editor starts over. The attempt to prove that
  this is the only case found a second: the number before a delta and its own are read
  in two steps outside the gate, so with three peers two removals, or a removal and a
  registration, may announce overlapping steps. The cache then takes the second delta
  as the next one without having seen the first, stays ready while a snapshot it asked
  for before is on its way (`RegistryClient.cpp:202`), and throws at the next change of
  a group of the instance it has missed. The run's one peer cannot show it; TLC finds a
  behaviour of 39 steps with three. `ManagedProtocol.md:68-69` counts on the gap being
  seen.
* **A refused `initialize`** (`FeedConverges`). An editor whose first command the full
  queue refused stays dead until it is opened again.
* **A filter changed during a crossfade** (`CrossfadeGradual`). `BiquadCascade.cpp:67-70`
  drops the outgoing path at once, where `FilterCatalog.md:39-42` promises a
  crossfade.
* **The sequence turns to 0** (`ViewerFollows`), which readers take for an exchange
  nothing was written to, until the next block.

## 5. What is proved

All theorems hold for every value of the constants that satisfies the named
assumptions, and tlapm checks every leaf.

**StateHistory** (`CapacityAssumption`: at least two slots; `DefaultAssumption`: the
initial value is a value; `FieldsAssumption`: a field is registered in history
or not). The invariant `IInv` consists of

* `TreeInv`: `TypeOK`, `SlotsAgree`, `ObserversCurrent`, and what they need of the
  values nobody has registered, which are fresh. `SlotsAgree` alone is not
  inductive without the types, `ObserversCurrent` needs `SlotsAgree`: a jump
  compares the target slot with the value remembered, which is the projection
  only if both are at the same slot.
* `UnmarkedPublished`: an instance that is not in the dirty set was given its
  effective values. `DspCurrent` speaks only about a free gate; between two members
  of a group reset the weaker statement carries it.
* `NothingMarked`: with the gate free the dirty set is empty.

From it follow `TypeCorrect`, `SlotsStayInStep`, `ObserversNeverStale`,
`DspNeverStale` and, as a property of steps, `JumpsKeepPlainValues` (undo never
brings back an old mute or bypass).

`StateHistoryProofs!Refinement` proves `Spec => ImplementsTimeline`. Its core is
the arithmetic of the ring: `AdvanceRenumbers` (an advance shifts the numbers of
the points by one when the ring is full and leaves them alone otherwise, and
the slot it writes is no reachable point's), `JumpRenumbersNothing`, and
`CommitKeepsOthers` (a transaction writes history values at the current slot
only).

**DspExchange** (in `StateHistoryProofs`; at least one part, any number of publishes).
`ExchangeInv` relates the publisher's locals to the shared indices (`PublisherInv`,
`PublishedWhole`), the claim to the consumer's step (`ClaimInv`), and says that
without an overtaking publish the writer is elsewhere (`ClaimedSlotKept`) and what has
been copied is what the slot holds (`CopyInv`). `WritableIndex` shows that
`FindWritableIndex` always finds one of three. `NeverInitialZeroes`: no audio is
processed with the zeroes the exchange is created with.

**TelemetryExchange** (in `StateHistoryProofs`; `TelemetryAssumption`: at least one word,
an even sequence).
`TelemetryImplementsExchange`: the steps added for the telemetry are steps of the
exchange or leave it alone, so that everything proved of it holds here.
`ShownTelemetryIsWhole` rests on `TInv`: the words written so far are of the block
under way and the others of the last one (`WordsInv`); as long as the sequence has
not turned round since a read began, its number tells how many blocks were begun
(`DistanceInv`), so that an unchanged even sequence means none was and what was
read is one block (`ReadInv`).

**ProtocolQueue** (any senders, keys, callers, capacity and number of commands).
`IInv` has the types; that commands are numbered in the order of acceptance and
every accepted one is where the control state says it is (`Numbered`, `Reached`,
`HandInv`); that a coalesced value has exactly one placeholder that leads to it
(`OnePlaceholder`); that the command in the worker's hand is older than what waits
(`HandIsOlder`) and a coalesced value younger than everything of its key
(`LatestIsLast`). `LastWriteIsKept` and `NoWriteIsLate` follow.

**InstanceLifecycle** (any number of plug-ins, commands and polls). `ServicesInv` says
for each service which stages of the host thread have an instance in it;
`GateInv` and the invariant of the poll say that the gate and the telemetry lock
keep what their holders use in the registry and among the sources.

**SharedRuntime** (any number of plug-ins). `RuntimeImplementsLifecycle`: with
shutdown and restart around it, the life of the instances is still
`InstanceLifecycle`'s, so that its theorems hold here. `CoreOutlivesItsUsers` counts: `RInv` says
that `activeBridgeCount` is the number of bridges that are attached, that an
instance in the core has one of them, and that the mutex keeps a shutdown and
the opening of a bridge apart; so the count that reaches 0 finds no user.

**GestureSession** (any editors, values, gestures, edits, changes of the focus and
refused commands). `NoneAssumption`: no editor, value or session stands for "none";
`BoundAssumption`: the number of gestures is bounded by a number. All four properties
rest on the order of the commands in the one queue. `FocusInv`: an editor that gives up
the focus sends the end of its gesture first. `ExclusiveInv`: so the end of a gesture is
ahead of the begin of a later one, whichever editors they are of. `LeadInv`: when a write
is its turn, its begin is ahead of it or has taken the point, and nothing of another
gesture comes between. `OrderInv`: the commands of a gesture stay in order although a
coalesced write takes the place of the one that waits. With `FreshInv` (a new gesture
has nothing in the queue) these give `PointsDoNotOverlap` and `GesturesAreOnePoint`.
`SessionInv`, `EndInv`, `AckInv` and `ReplyInv` follow the last position from the editor
through the queue and the reply back to it, which gives `ReleaseIsWritten` and
`ReportsAreTrue`. None of the parts is inductive without the others.

**The sound processors** (any rates, levels of the controls, filters, gains and lengths
of ramps and crossfades). `ModelAssumption`: the models are among the processors the
code has; `ControlAssumption`: no control has the value that marks a key as not
computed, and the manual gain is one the leveler may have; `GainAssumption` and
`LengthAssumption`: the gain range is in order and lengths are positive. Each class has
a contract, the invariant it keeps between the calls of its device (`Cla76Inv`,
`SslInv`, `OpticalInv`, `LevelerInv`, `CascadeInv` ...): the registers it has, ramps on
their way to the controls, and that *a cached key stands for the inputs its coefficients
were computed from* (`Cla76Knows`, `SslKnows`, `OpticalKnows`) or is the mark no input
matches. Of each class it is shown that preparing and setting it establishes the
contract (`Made`), that new controls (`Kept`), a reset (`Forgot`) and a sample (`Ran`)
keep it, and that two processors given the same controls are one once they are reset
(`ResetsAlike`). The Cla76 is the odd one: its reset leaves the coefficients to the next
sample, so what agrees is the registers and what that sample computes. `IInv` picks the
contract by the kind of the processor; `CoefficientsAreCurrent`, `ResetsForget`,
`LevelerIsSeamless`, `ValuesStayInRange` and, for every step, `CrossfadesAreGradual`
follow.

**EditingSurface** (any dials, handles, scale and bounds). `ControlsAssumption`: there
are finitely many controls, and none is taken for another or for "none";
`ScaleAssumption`: the scale has a top. `GestureIsHeld` and `ShowsAccepted` rest on one
invariant, `IInv`, of four parts. `UiInv` is about the editor alone: what it shows is
what it knows (`Known`), the enabled controls have the values their handlers need
(`Enabled`), only what the open gesture is about is dragged or previews a value
(`DialsHeld`, `GraphHeld`), and the graph is drawn from its inputs (`GraphInv`).
`Gripped` ties the gesture to the pointer. `FrameInv` says which frames can wait: one
snapshot, and only while there are no values; the answer to the beginning or to the end
of a gesture only while it waits for it; a refused write only ahead of them. `NewsInv`
says that the last that is told of a path is what the core has. None holds without the
others: a snapshot that came when the editor already had values, or the answer to a
gesture that is over, would change what is shown behind the control that is held.

A handler rewrites the editor in several steps, some of which break `UiInv` for the
next to restore it. `Raw` and `UiBase` are what holds in between, and `Same` says of each
step which fields it leaves alone. What a handler leaves is `Handled`: the invariant of
the editor again, commands of which each may be sent (`Outs`), the grip on the control
(`Grip`), and what has become of the frames it waits for (`Turn`). `Sending` then shows
for all handlers at once that the core's answers keep editor and core in agreement
(`Agree`), whichever commands are refused. `RouteTaken` is the case analysis over the
frames, and `NextKeeps` that over the actions.

The proof found a fault of the model that the run's bound had hidden. `Gone` moved the
focus of an editor that is not active, so that it could be activated with the snapshot
of one instance and the notifications of another. `EditorPresentation::RegistryChanged`
moves the focus of an active session only; an inactive one finds out when it is active
again, which the model now does (`lost`).

**AudioChain and HostAudio** (any devices, compressor models, fade lengths,
snapshots, block sizes and viewers). `HostDrivesChain`: the plug-in's blocks, the
capture and the analyzer make steps of the runtime or none, so that what is proved of
the runtime holds of the host's use of it. `IInv` says of each device, between two
blocks, that no part is stale, that one which faded out and was reset is clean
(`RestsClean`), and that of the compressor models only the one in force is not, unless
a reset is due (`OthersClean`); and of the runtime that its devices follow the snapshot
(`ChainFollows`). The argument is completeness: what the transition runs
(`EveryPartRuns`) and what it resets when it has faded out (`NothingMissed`) are all
parts of the device, so that a block leaves nothing half heard (`BlockCompletes`,
`AgedKeeps`). `NoHistoryIsStale` and `ReductionsAreOfTheBlock` follow; the second needs
that a device whose target is not dry is not at rest (`RampsRest`).

`CaptureAgreesWithView` is about the two threads that set the demand. `CaptureInv` says
where each can be and what it holds there (`WorkerInv`, `MessageInv`), that gate and
lock are one thread's (`ExclusionInv`), that a thread which has looked at the view
knows it still (`IntentInv`), that the demand agrees when neither is at it
(`DemandInv`) and that no ring outlives its use (`RingInv`). All but the types are
claimed only until `crossed`: the proof shows that the unregistration outside of the
gate is the only thing that can break them.

`WindowsAreWhole` is about the ring between the audio thread and the analyzer
(`CaptureAssumption`: the ring holds two windows at least and is well within the range
of the indices; `HostAssumption`: a block has frames). The indices wrap, so the proof
reads them as positions that only grow (`Pos`), which the fill of the ring makes
unambiguous. `WindowInv` says what the slots between the two indices hold (`StoreInv`),
where the sound in them is not joined because a block was dropped (`JoinInv`), and what
a block being stored (`CopyInv`) and a window being read (`ReadInv`) have of it. What the
property excepts (`excused`, section 4) is excepted by the theorem too.

**EditorFeed** (any peers, contexts, commands and refusals). `PeerAssumption`: there are
finitely many peers and the editor's instance is not one of them; `ContextAssumption`: a
bank has at least one context. What the editor commits is executed later, by a core that
looks at one bank at a time and turns to another when it is asked for that one's values.
`Landing` says when the editor may rely on it: from its first answer for the bank on, the
core looks at that bank, and no command on its way turns it elsewhere; before that, the
requests for the bank are the last that are asked. `Writes` says the same of a write among
the commands on their way, and `Sure` that an editor which lets the user edit, or will when
an edit of it is accepted, has the values of the bank in focus. `Landing` alone is not
inductive: that the write is for the bank that is looked at needs `Sure`, and that an answer
with values is one for the bank in focus needs `Fresh`, by which no request has the id of
another one that is on its way. `EditsLand` and `EditorKnows` follow.

The editor is a record here, which a handler rewrites in several steps. The invariant is
therefore stated of any record: `Settled` is what a handler finds and leaves, `Loose` what
holds between its steps. Each operator of `EditorPresentation` and of the two clients has
its lemma, `SendsKeeps` shows for all handlers at once what becomes of the commands that
are sent and of those that a full queue refuses, and `StepInv` splits over the actions.
The sequences that the full queue thins out are a recursive function, and what is proved of
it (`KeptFacts`) is by the least index at which it could fail.

`RegistryKnown` is about the rows, which a snapshot brings in several frames and deltas
change, while the core goes on and the queue refuses. `RegistryInv` says what the rows
will be: a client that waits for a snapshot has its request ahead of it (`Requested`), or
the refusal of it (`Refused`), or the answer (`Answered`); and an answer is either
`Overtaken`, that is the client will find it older than a delta it has seen by then and
ask again, or right about every instance once the deltas behind its end are taken. A
client that does not wait has rows that the deltas on their way make right (`Informed`).
*Right* is a statement about the last delta of an instance (`LastTells`), and about the
rows only if there is none: deltas may cross each other and the snapshot, and the last
decides. Three things are needed besides. An instance that has left but is not
announced may be in a snapshot only if its announcement will have a later revision
(`Departs`), since the code numbers the removal outside of the gate. While the core
registers its observer the answer is still to be sent, and no delta is in it
(`CoreFacts`). And no command that ends the observation, be it of the editor before that closed or
of another one that became active, is left once the session is active, nor behind the
attempt to connect that counts (`Watching`); that one attempt at most counts
(`Connections`) is why no other answer activates the editor. `RegistryCurrent` is the case
in which nothing is on its way.

The proof found a fault of the model. The alternatives of `HandleRegistry` overlapped, so
that a delta which arrives when no snapshot is pending could as well have been ignored.
TLC takes the first alternative that applies and never saw it; the order of the tests in
`RegistryClient.cpp` excludes it, and the definition now has that order.

**Only model-checked.** Liveness and ENABLED are out of the prover's reach, and so is
induction over data. Of the safety properties TLC alone speaks for `ViewCurrent` and
`FramesFit` of `EditorFeed`.

## 6. What is not modelled

* **Numbers of the sound.** Filter design, saturation curves, gain computers, the FFT
  and the fit of the equalizer (`Managed/Approximation`) are arithmetic on reals. Of a
  processor the models have what it remembers and from which inputs it computed its
  coefficients. The limiter (`LimiterSetControls`, `LimiterProcess`) has no `enabled`
  flag, as `OutputDevice` always passes true.
* **The codec** (`Managed/Protocol/{Decoding,Encoding,Dispatch}`, `Vst3/Source/Shared/Protocol`).
  Commands and frames are records. A frame that cannot be decoded does not occur.
* **Drawing and layout**, the selection in the track list, the reference overlay, the
  smoothing of meters, the group sums of the spectrum. They read what the models have
  and change nothing else.
* **Topology index and propagation to peers, audibility.** Both are functions of the
  state, recomputed with the gate held and inside a command's transaction.
  `StateHistory` leaves the values a command writes free, so that what they compute is
  covered, and which values these are is not.
* **A failure after a commit.** A command on several targets that throws on one leaves
  the marks of the others in the dirty set until the next command drains
  (`CommandExecutor.cs:79`). Handlers validate before they commit, and no exception was
  found that the code itself raises for one member of a group and not for another;
  `StateHistory` has none.
* **The dirty flag for the host** (`Managed/Core/Services/Persistence`): only its
  effect on the state is modelled, not the notification that a project is unsaved.
* **Weak memory.** Atomics are sequentially consistent in the models.
* **Steps taken together.** A chunk looks at the demand and at the capture in one step
  (`TakeChunk`): a change between the two makes it missed or taken, as a change before or
  after does. An announcement under the gate reads and raises the revision in one step
  (`RegisterInstance`, `GroupFrames`), whereas a removal, outside of it, takes three: what
  falls between leaves two deltas that continue the same revision, and the later one calls
  for a snapshot. The last write of a gesture and the end of its history are one command
  (`Finish`), the gesture being `ending` in both.
* **Bypass in the graph.** The curve of all banks is absent in the code when every bank is
  bypassed (`AnalyzerViewModel.cpp:285`). The parameters of the model have no bypass, so
  that its curve is there (`ComposeAllBanks`); what is said of it allows it to be absent.
* **EmulationLab** is an offline laboratory that shares the processors' code. **Tests**
  were read for what the code is expected to do.

## 7. What is left

* Theorems for the other cache of `EditorFeed`, the values of the bank in focus
  (`ViewCurrent`), and for the frames that fit neither cache (`FramesFit`): the registry's
  invariant shows the way, but the values are requested context by context.
* A queue without coalescing as an abstract specification that `ProtocolQueue`
  implements.
* `BankGroups`: topology commands and propagation, to show that the peers of a group
  converge and that no chain of propagation is endless.
* `Audibility` as a function of mute and solo of all instances, compared with the
  incremental recomputation.
* Failures after a commit, once a handler can have one.
