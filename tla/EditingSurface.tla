--------------------------- MODULE EditingSurface ---------------------------
(***************************************************************************)
(* The controls of one editor under the pointer: the dials, buttons and the     *)
(* choice of the channel strip, the handles of the graph, the gesture they         *)
(* share, and what notifications and answers do to them meanwhile.                  *)
(*                                                                          *)
(* A command runs in the core as it is sent and only its answer waits; how          *)
(* answers and notifications mix is in EditorFeed, what the commands of two            *)
(* editors do to each other in GestureSession.  Everything here runs on the             *)
(* message thread, and there is one pointer.                                            *)
(***************************************************************************)
EXTENDS ParameterModels, SequencesExt

CONSTANTS
    Dials,       \* paths of the dials
    Leveled,     \* those the leveler moves while it is on
    Measured,    \* those that show a measured level while it is off
    Timed,       \* those only some types of compressor have
    Timing,      \* the types that have them
    Leveler,     \* path of the leveler's button
    Type,        \* path of the choice of the compressor
    MaxActs,     \* bound: presses of the pointer
    MaxMoves,    \* bound: moves of the pressed pointer
    MaxEvents,   \* bound: notifications of others
    MaxFaults,   \* bound: commands refused
    MaxTogether  \* bound: all of these before the last act, move or notification

Discrete == {Leveler, Type}
Strip == Dials \cup Discrete
Paths == Strip \cup UNION {Parameters(h) : h \in Handles}

VARIABLES
    core,        \* path |-> entry of the bank in focus
    rate,        \* the plug-in's sample rate, 0 before it is prepared
    ui,          \* the editor
    frames,      \* what the core has sent it
    pointer,     \* the control the pointer is pressed on
    acts, moves, events, faults

bounds == <<acts, moves, events, faults>>
vars == <<core, rate, ui, frames, pointer, bounds>>

NoPointer == "up"
Graph == "graph"
NoGesture == [path |-> None]
Peer == "peer"
Own == "own"

\* A path is of one control, a handle is no path of the strip, and neither is taken
\* for the pointer's places or for no value.
ASSUME ControlsAssumption ==
    /\ IsFiniteSet(Dials) /\ IsFiniteSet(Handles)
    /\ Dials \cap Discrete = {}
    /\ Strip \cap (Handles \cup UNION {Parameters(h) : h \in Handles}) = {}
    /\ Strip \cap {NoPointer, Graph} = {}
    /\ None \notin Strip \cup Handles /\ None \notin Values

NewUi ==
    [active |-> TRUE, busy |-> TRUE,
     focus |-> Peer,            \* the instance whose bank is shown
     lost |-> FALSE,            \* that instance is gone
     grouped |-> TRUE,          \* what the registry says of the bank
     scope |-> TRUE,            \* edits go to the group
     ready |-> FALSE,
     values |-> NoEntries,      \* of the target state client
     models |-> NoEntries,      \* of the parameter bindings; the strip's controls
     dials |-> [d \in Dials |-> NewDial],
     choice |-> None,           \* dragChoice_
     leveling |-> FALSE,        \* which dials the overlays take over
     telemetry |-> None,        \* the instance the measurement shown is of
     enabled |-> {},            \* the models' enabled_
     on |-> {},                 \* the strip's enabled controls
     graphOn |-> FALSE, navigation |-> FALSE,
     source |-> Equalizer,      \* selected source of the graph
     graph |-> NewGraph,
     gesture |-> NoGesture,
     started |-> FALSE,         \* the editor has started over under this gesture
     outdated |-> {},           \* answers of no interest any more; empty between actions
     out |-> << >>]             \* commands to send; empty between actions

Init ==
    /\ core = [p \in Paths |-> [value |-> IF p \in Discrete THEN 0 ELSE 1, range |-> <<0, Top>>]]
    /\ rate \in 0..1
    /\ ui = [NewUi EXCEPT !.active = FALSE]
    /\ frames = << >> /\ pointer = NoPointer
    /\ acts = 0 /\ moves = 0 /\ events = 0 /\ faults = 0

----------------------------------------------------------------------------
(* Commands: what the core makes of them, and the answers.                    *)

\* The elements of a sequence that are at some of its positions.
Kept(s, positions) ==
    LET kept[n \in 0..Len(s)] ==
            IF n = 0 THEN << >>
            ELSE IF n \in positions THEN Append(kept[n - 1], s[n]) ELSE kept[n - 1]
    IN  kept[Len(s)]

Send(u, command) == [u EXCEPT !.out = Append(@, command)]

Changed(old, new) ==
    LET order == SetToSeq({p \in Paths : old[p] # new[p]})
    IN  [n \in DOMAIN order |-> [kind |-> "changed", path |-> order[n], entry |-> new[order[n]]]]

WithValues(c, values) ==
    [p \in Paths |-> IF p \in DOMAIN values THEN [c[p] EXCEPT !.value = values[p]] ELSE c[p]]

Answer(c, command, accepted) ==
    IF command.kind = "observe"
    THEN <<[kind |-> "snapshot", accepted |-> accepted, values |-> c]>>
    ELSE IF command.kind \in {"edit", "command"}
    THEN <<[kind |-> command.kind, accepted |-> accepted, current |-> TRUE,
            scope |-> command.scope]>>
    ELSE IF command.kind \in {"begin", "finish"}
    THEN <<[kind |-> command.kind, accepted |-> accepted]>>
    ELSE IF accepted THEN << >>
    ELSE <<[kind |-> "unmatched"]>>

Run(state, command, accepted) ==
    LET after == IF accepted THEN WithValues(state.core, command.values) ELSE state.core
    IN  [core |-> after,
         frames |-> state.frames \o Changed(state.core, after) \o Answer(after, command, accepted)]

Runs(state, commands, refused) ==
    LET ran[n \in 0..Len(commands)] ==
            IF n = 0 THEN state ELSE Run(ran[n - 1], commands[n], n \notin refused)
    IN  ran[Len(commands)]

----------------------------------------------------------------------------
(* The gesture session; see GestureSession for its protocol.                  *)

Active(u) == u.gesture.path # None
Editing(u) == Active(u) /\ ~u.gesture.ending

WriteCommand(values) == [kind |-> "write", values |-> values]

Flush(u) ==
    IF u.gesture.ready /\ u.gesture.dirty
    THEN Send([u EXCEPT !.gesture.dirty = FALSE], WriteCommand(u.gesture.values))
    ELSE u

\* The write of the last values and the end of the gesture's history that follows its
\* answer are one command: the gesture is ending in both.
Finish(u) == Send(Flush(u), [kind |-> "finish", values |-> u.gesture.values])

SetGestureValues(u, values) ==
    IF Editing(u) THEN [u EXCEPT !.gesture.values = values, !.gesture.dirty = TRUE] ELSE u

EndGesture(u, values) ==
    IF ~Editing(u) THEN u
    ELSE LET ending == [u EXCEPT !.gesture.values = values, !.gesture.dirty = TRUE,
                                 !.gesture.ending = TRUE]
         IN  IF u.gesture.ready THEN Finish(ending) ELSE ending

----------------------------------------------------------------------------
(* What may be edited.                                                       *)

Available(u, p) == p \notin Timed \/ u.models[Type].value \in Timing
Automated(u, d) == \/ d \in Leveled /\ u.leveling
                   \/ d \in Measured /\ ~u.leveling

\* Nothing but the control that is held stays enabled under a gesture.
EditableModels(u, editing) ==
    {p \in DOMAIN u.models :
        editing /\ (~Active(u) \/ (Editing(u) /\ u.gesture.path = p))}

GraphEditing(u, editing) ==
    editing /\ (~Active(u) \/ (Editing(u) /\ u.gesture.on = Graph
                               /\ Context[u.gesture.path] = u.source))

SetEditing(u) == [u EXCEPT !.on = {p \in u.enabled : Available(u, p)}]

SetBusy(u, busy) ==
    LET editing == u.active /\ ~busy
    IN  SetEditing([u EXCEPT !.busy = busy, !.navigation = editing /\ ~Active(u),
                             !.graphOn = GraphEditing(u, editing), !.graph.group = u.scope,
                             !.enabled = EditableModels(u, editing)])

Editable(u, d) ==
    LET range == EditingRange(u.models[d], u.scope)
    IN  d \in u.enabled /\ d \in u.on /\ Available(u, d) /\ ~Automated(u, d)
        /\ range[1] < range[2]

----------------------------------------------------------------------------
(* Starting over, and the end of a gesture.                                  *)

InvalidateTarget(u) ==
    [u EXCEPT !.ready = FALSE, !.values = NoEntries, !.outdated = @ \cup {"target"},
              !.out = Kept(@, {n \in DOMAIN @ : @[n].kind # "observe"})]

ClearTelemetry(u) == [u EXCEPT !.telemetry = None]

\* A faulty variant that leaves what was measured on show.
ObserveVariant(u) ==
    IF ~u.active THEN u
    ELSE LET clear == [SetBusy(u, TRUE) EXCEPT !.graph = Clear(@), !.started = Active(u)]
         IN  Send(InvalidateTarget(clear), [kind |-> "observe", values |-> NoEntries])

Observe(u) ==
    IF ~u.active THEN u
    ELSE LET clear == [SetBusy(u, TRUE) EXCEPT !.graph = Clear(@), !.started = Active(u)]
         IN  Send(InvalidateTarget(ClearTelemetry(clear)),
                  [kind |-> "observe", values |-> NoEntries])

FinishDialPreview(dial) == [dial EXCEPT !.preview = None, !.dragging = FALSE]

\* A faulty variant that leaves the dial to be dragged on.
FinishPreviewVariant(u) ==
    [u EXCEPT !.graph = FinishGraphPreview(@),
              !.dials = [d \in Dials |-> [@[d] EXCEPT !.preview = None]]]

FinishPreview(u) ==
    [u EXCEPT !.graph = FinishGraphPreview(@),
              !.dials = [d \in Dials |-> FinishDialPreview(@[d])]]

GestureFinished(u, accepted) ==
    LET finished == SetBusy(FinishPreview([u EXCEPT !.gesture = NoGesture, !.started = FALSE]),
                            u.busy)
    IN  IF accepted THEN finished ELSE Observe(finished)

Cancel(u) ==
    IF ~Active(u) THEN u
    ELSE GestureFinished(Send([u EXCEPT !.outdated = @ \cup {"gesture"}], [kind |-> "end", values |-> NoEntries]), FALSE)

\* Another editor becomes the active one.
Deactivated(u) ==
    LET idle   == [u EXCEPT !.active = FALSE, !.outdated = @ \cup {"gesture"}]
        kept   == IF Editing(u) \/ ~u.gesture.ready
                  THEN Send(idle, WriteCommand(u.gesture.values)) ELSE idle
        closed == IF Active(u) THEN Send(kept, [kind |-> "end", values |-> NoEntries]) ELSE idle
    IN  SetBusy(InvalidateTarget(GestureFinished(closed, FALSE)), TRUE)

Fail(u) == [u EXCEPT !.active = FALSE]

----------------------------------------------------------------------------
(* Answers and notifications.                                                *)

BeginAnswered(u, accepted) ==
    IF ~accepted THEN Cancel(u)
    ELSE LET ready == [u EXCEPT !.gesture.ready = TRUE]
         IN  IF Editing(u) THEN Flush(ready) ELSE Finish(ready)

\* The completion of a reset; it holds the editor up.
CommandCompletion(u, frame) ==
    IF ~u.active \/ ~frame.current THEN u
    ELSE IF frame.accepted THEN SetBusy(u, FALSE) ELSE Observe(u)

\* The completion of a discrete value, which does not; it may find a gesture.
CommitCompletion(u, frame) ==
    IF ~frame.accepted /\ ~u.busy /\ u.active /\ frame.current /\ frame.scope = u.scope
    THEN Observe(u) ELSE u

\* A command nobody waits for was refused, which may end the session.
Unmatched(u, error) ==
    IF error THEN SetBusy(Fail(Cancel(u)), TRUE) ELSE Cancel(u)

\* What an overlay has measured is gone when it is turned on or off.
SetOverlays(u) ==
    LET leveling == u.values[Leveler].value = 1
    IN  [u EXCEPT !.leveling = leveling,
                  !.telemetry = IF leveling = u.leveling THEN @ ELSE None]

ApplyParameters(u) == [u EXCEPT !.models = Restrict(u.values, Strip)]

\* The strip is built anew, and with it every control the pointer may hold.
RebuildStrip(u) == [u EXCEPT !.dials = [d \in Dials |-> NewDial], !.choice = None]

ShowSource(u) ==
    IF ~u.ready THEN u
    ELSE [u EXCEPT !.graph = SetSnapshot(ResetInteraction(@), u.source, u.values, rate),
                   !.graph.group = u.scope]

ApplySnapshot(u, frame) ==
    IF ~u.active THEN u
    ELSE IF ~frame.accepted THEN SetBusy(Fail(u), TRUE)
    ELSE LET known == [u EXCEPT !.ready = TRUE, !.values = frame.values]
         IN  SetBusy(RebuildStrip(ShowSource(ApplyParameters(SetOverlays(known)))), FALSE)

ApplyModel(u, frame) ==
    IF frame.path \in DOMAIN u.models THEN [u EXCEPT !.models[frame.path] = frame.entry] ELSE u

\* The leveler takes dials over, from under the pointer too.
ApplyLeveler(u, frame) ==
    IF frame.path # Leveler THEN u
    ELSE LET turned == SetOverlays(u)
         IN  IF Active(u) /\ u.gesture.on # Graph /\ Automated(turned, u.gesture.path)
             THEN Cancel(turned) ELSE turned

\* The graph and the dials take the value, a change of the type the availability
\* of the others.
ApplyChangedValue(u, frame) ==
    IF ~u.active \/ ~u.ready THEN u
    ELSE LET kept    == ApplyLeveler([u EXCEPT !.values[frame.path] = frame.entry], frame)
             applied == ApplyModel([kept EXCEPT !.graph = ApplyEntry(@, frame.path, frame.entry)],
                                   frame)
         IN  IF frame.path = Type THEN SetBusy(applied, applied.busy) ELSE applied

SetGroupScope(u, scope) == [u EXCEPT !.scope = scope, !.graph.group = scope]

\* The bank in focus has lost its group.
Ungrouped(u) ==
    LET changed == [u EXCEPT !.grouped = FALSE]
        local   == IF u.scope THEN SetGroupScope(Cancel(changed), FALSE) ELSE changed
    IN  SetBusy(local, local.busy)

\* Its instance is gone.  An editor that is not active only loses the group, and
\* finds out when it is active again.
Gone(u) ==
    IF u.active
    THEN LET turned == [Cancel(u) EXCEPT !.focus = Own, !.grouped = FALSE, !.lost = FALSE]
             home   == Observe(SetGroupScope(turned, FALSE))
         IN  SetBusy(home, home.busy)
    ELSE [Ungrouped(u) EXCEPT !.lost = TRUE]

\* A frame that cannot be applied ends the session.
Unfit(u) ==
    LET failed == Cancel(Fail([u EXCEPT !.graph = Clear(@)]))
    IN  SetBusy(InvalidateTarget(failed), TRUE)

\* Measurements: of the instance in focus, while the editor is not held up.
ApplyTelemetry(u, frame) ==
    IF u.active /\ ~u.busy /\ rate > 0 /\ frame.target = u.focus
    THEN [u EXCEPT !.telemetry = frame.target] ELSE u

HandleSpectrum(u, frame) ==
    IF u.active /\ ~u.busy /\ u.ready /\ frame.target = u.focus
    THEN [u EXCEPT !.graph = ApplySpectrum(@, frame.target)] ELSE u

AudioConfigurationChanged(u, frame) ==
    ClearTelemetry([u EXCEPT !.graph = SetSampleRate(@, frame.rate)])

RouteOutput(u, frame, error) ==
    CASE frame.kind = "begin"     -> BeginAnswered(u, frame.accepted)
      [] frame.kind = "finish"    -> GestureFinished(u, frame.accepted)
      [] frame.kind = "edit"      -> CommitCompletion(u, frame)
      [] frame.kind = "command"   -> CommandCompletion(u, frame)
      [] frame.kind = "unmatched" -> Unmatched(u, error)
      [] frame.kind = "snapshot"  -> ApplySnapshot(u, frame)
      [] frame.kind = "changed"   -> ApplyChangedValue(u, frame)
      [] frame.kind = "restored"  -> Observe(Cancel(u))
      [] frame.kind = "ungrouped" -> Ungrouped(u)
      [] frame.kind = "gone"      -> Gone(u)
      [] frame.kind = "unfit"     -> Unfit(u)
      [] frame.kind = "telemetry" -> ApplyTelemetry(u, frame)
      [] frame.kind = "spectrum"  -> HandleSpectrum(u, frame)
      [] frame.kind = "rate"      -> AudioConfigurationChanged(u, frame)

----------------------------------------------------------------------------
(* Handlers of the message thread.                                           *)

\* Answers nobody waits for any more do nothing.
Still(u, frame) ==
    /\ frame.kind \in {"begin", "finish"} => "gesture" \notin u.outdated
    /\ frame.kind = "snapshot" => "target" \notin u.outdated

Outdate(u, waiting) ==
    LET kept == Kept(waiting, {n \in DOMAIN waiting : Still(u, waiting[n])})
    IN  [n \in DOMAIN kept |->
            IF kept[n].kind \in {"edit", "command"} /\ "target" \in u.outdated
            THEN [kept[n] EXCEPT !.current = FALSE] ELSE kept[n]]

\* A handler leaves the editor as u, with `waiting` frames still to come; any of
\* the commands it sent may be refused.
Sends(u, waiting) ==
    \E done \in {u} : \E refused \in SUBSET DOMAIN done.out :
        LET after == Runs([core |-> core, frames |-> Outdate(done, waiting)], done.out, refused)
        IN  /\ faults + Cardinality(refused) <= MaxFaults
            /\ faults' = faults + Cardinality(refused)
            /\ ui' = [done EXCEPT !.out = << >>, !.outdated = {}]
            /\ core' = after.core /\ frames' = after.frames
            /\ UNCHANGED rate

Room == acts + moves + events + faults < MaxTogether
Act == acts < MaxActs /\ Room /\ acts' = acts + 1 /\ UNCHANGED <<moves, events>>
Moves == moves < MaxMoves /\ Room /\ moves' = moves + 1 /\ UNCHANGED <<acts, events>>
Quiet == UNCHANGED <<acts, moves, events>>

HandleOutput ==
    /\ frames # << >> /\ Quiet
    /\ \E error \in BOOLEAN : Sends(RouteOutput(ui, Head(frames), error), Tail(frames))
    /\ pointer' = IF Head(frames).kind = "snapshot" /\ ui'.ready /\ pointer \in Strip
                  THEN NoPointer ELSE pointer

\* The window gains the focus, and the core agrees.  It is asked for its registry
\* first, which tells what has gone meanwhile.
Activate ==
    /\ ~ui.active /\ Quiet
    /\ Sends(Observe([Cancel(ui) EXCEPT !.active = TRUE]),
             IF ui.lost THEN Append(frames, [kind |-> "gone"]) ELSE frames)
    /\ UNCHANGED pointer

AnotherActivates ==
    /\ ui.active /\ events < MaxEvents /\ Room /\ events' = events + 1 /\ UNCHANGED <<acts, moves>>
    /\ Sends(Deactivated(ui), frames)
    /\ UNCHANGED pointer

\* The timer of the gesture.
FlushTimer ==
    /\ Editing(ui) /\ Flush(ui) # ui /\ Quiet
    /\ Sends(Flush(ui), frames)
    /\ UNCHANGED pointer

BanksArrive ==
    /\ ui.active /\ ApplyBankSnapshots(ui.graph) # ui.graph /\ Quiet
    /\ Sends([ui EXCEPT !.graph = ApplyBankSnapshots(@)], frames)
    /\ UNCHANGED pointer

CanBegin(u) == ~u.busy /\ ~Active(u) /\ u.active

Previewed(u, values) == [u EXCEPT !.graph = ApplyPreview(@, values)]

BeginGesture(u, path, on, values) ==
    LET begun == [Previewed(u, values) EXCEPT !.gesture = [path |-> path, on |-> on, values |-> values,
                                           ready |-> FALSE, dirty |-> FALSE, ending |-> FALSE]]
    IN  SetBusy(Send(begun, [kind |-> "begin", values |-> NoEntries]), FALSE)

\* What a control asks for when it is dragged and let go.
Change(u, values) == SetGestureValues(Previewed(u, values), values)
Ended(u, values) == LET ended == EndGesture(u, values) IN SetBusy(ended, ended.busy)

CommitDiscreteValue(u, path, value) ==
    IF ~CanBegin(u) THEN u
    ELSE Send(u, [kind |-> "edit", values |-> With(path, value, NoEntries), scope |-> u.scope])

ResetValue(u, paths) ==
    IF ~CanBegin(u) \/ \E p \in paths \cap Dials : Automated(u, p) THEN u
    ELSE Send(SetBusy(u, TRUE),
              [kind |-> "command", values |-> [p \in paths |-> 0], scope |-> u.scope])

----------------------------------------------------------------------------
(* The pointer on the strip.                                                 *)

DialDown(d) ==
    /\ pointer = NoPointer /\ ui.models # NoEntries /\ Act
    /\ Editable(ui, d) /\ ~ui.dials[d].dragging /\ ~Previewing(ui.dials[d])
    /\ LET value == ui.models[d].value
           begun == BeginGesture(ui, d, "dial", With(d, value, NoEntries))
       IN  Sends(IF CanBegin(ui) /\ ~Automated(ui, d)
                 THEN [begun EXCEPT !.dials[d] = [dragging |-> TRUE, preview |-> value,
                                                  position |-> Normalize(value)]]
                 ELSE ui, frames)
    /\ pointer' = d

DialDrag(d) ==
    /\ pointer = d /\ Moves /\ UNCHANGED pointer
    /\ ui.dials[d].dragging /\ Editable(ui, d)
    /\ \E delta \in {-1, Top}, rough \in BOOLEAN :
         LET range == EditingRange(ui.models[d], ui.scope)
             position == Clamp(ui.dials[d].position + delta, Normalize(range[1]),
                               Normalize(range[2]))
             next == Quantize(position, rough, range)
             moved == [ui EXCEPT !.dials[d].position = position]
         IN  Sends(IF next = DisplayValue(ui.dials[d], ui.models[d]) THEN moved
                   ELSE Change([moved EXCEPT !.dials[d].preview = next],
                               With(d, next, NoEntries)), frames)

\* A faulty variant that does not let go of a dial that cannot be edited any more.
DialUpVariant(d) ==
    /\ pointer = d /\ pointer' = NoPointer /\ Quiet
    /\ LET value == DisplayValue(ui.dials[d], ui.models[d])
           released == [ui EXCEPT !.dials[d].dragging = FALSE]
       IN  Sends(IF ui.dials[d].dragging /\ ui.ready /\ Editable(ui, d)
                 THEN Ended(Previewed(released, With(d, value, NoEntries)), With(d, value, NoEntries))
                 ELSE ui, frames)

\* Without the values of the bank there is no telling how to write, and an
\* exception leaves the handler.
DialUp(d) ==
    /\ pointer = d /\ pointer' = NoPointer /\ Quiet
    /\ LET value == DisplayValue(ui.dials[d], ui.models[d])
           released == [ui EXCEPT !.dials[d].dragging = FALSE]
       IN  Sends(IF ui.dials[d].dragging /\ ui.ready
                 THEN Ended(Previewed(released, With(d, value, NoEntries)), With(d, value, NoEntries))
                 ELSE released, frames)

DialReset(d) ==
    /\ pointer = NoPointer /\ ui.models # NoEntries /\ Act /\ UNCHANGED pointer
    /\ Editable(ui, d) /\ ~ui.dials[d].dragging /\ ~Previewing(ui.dials[d])
    /\ Sends(ResetValue(ui, {d}), frames)

ClickLeveler ==
    /\ pointer = NoPointer /\ Leveler \in ui.on /\ Act /\ UNCHANGED pointer
    /\ Sends(CommitDiscreteValue(ui, Leveler, 1 - ui.models[Leveler].value), frames)

ChoiceDown ==
    /\ pointer = NoPointer /\ Type \in ui.on /\ Act
    /\ Sends([ui EXCEPT !.choice = ui.models[Type].value], frames)
    /\ pointer' = Type

\* Each step of the choice is a value of its own.
ChoiceDrag ==
    /\ pointer = Type /\ Moves /\ UNCHANGED pointer
    /\ ui.choice # None /\ Type \in ui.on
    /\ \E v \in {0, 1} \ {ui.choice} :
         Sends(CommitDiscreteValue([ui EXCEPT !.choice = v], Type, v), frames)

ChoiceUp ==
    /\ pointer = Type /\ pointer' = NoPointer /\ Quiet
    /\ Sends([ui EXCEPT !.choice = None], frames)

----------------------------------------------------------------------------
(* The pointer on the graph.                                                 *)

GraphFree == ui.graph.ready /\ ui.graphOn /\ ~ui.graph.dragging /\ ui.graph.preview = NoEntries

GraphDown(h) ==
    /\ pointer = NoPointer /\ Act
    /\ GraphFree /\ h \in Shown(ui.graph.context)
    /\ \E p \in Parameters(h) : LET r == RangeOf(ui.graph, p) IN r[1] # r[2]
    /\ LET held  == [ui EXCEPT !.graph = BeginPreview(@, h)]
           begun == BeginGesture(held, h, Graph, held.graph.preview)
       IN  Sends(IF CanBegin(ui) THEN [begun EXCEPT !.graph.dragging = TRUE]
                 ELSE [held EXCEPT !.graph = FinishGraphPreview(@)], frames)
    /\ pointer' = Graph

GraphDrag ==
    /\ pointer = Graph /\ Moves /\ UNCHANGED pointer
    /\ ui.graph.dragging /\ ui.graph.ready /\ ui.graphOn
    /\ LET h == ui.graph.selected
       IN  \E moved \in {Move(ui.graph, h, v) : v \in {0, Top}}
                       \cup IF h \in DOMAIN Q THEN {ChangeQ(ui.graph, h, 1)} ELSE {} :
             Sends(SetGestureValues([ui EXCEPT !.graph = moved], moved.preview), frames)

\* As on the strip, the handler needs the values of the bank; but starting over
\* has let go of the handle already.
GraphUp ==
    /\ pointer = Graph /\ pointer' = NoPointer /\ Quiet
    /\ LET released == [ui EXCEPT !.graph.dragging = FALSE]
       IN  Sends(IF ui.graph.dragging THEN Ended(released, ui.graph.preview) ELSE released,
                 frames)

GraphReset(h) ==
    /\ pointer = NoPointer /\ Act /\ UNCHANGED pointer
    /\ GraphFree /\ h \in Shown(ui.graph.context)
    /\ Sends(ResetValue(ui, Parameters(h)), frames)

SelectSource ==
    /\ pointer = NoPointer /\ Act /\ UNCHANGED pointer /\ ui.navigation
    /\ \E c \in Range(Context) \ {ui.source} :
         Sends(ShowSource([ui EXCEPT !.source = c]), frames)

ToggleScope ==
    /\ pointer = NoPointer /\ Act /\ UNCHANGED pointer /\ ui.navigation /\ ui.grouped
    /\ Sends(SetGroupScope(ui, ~ui.scope), frames)

----------------------------------------------------------------------------
(* The rest of the world.                                                    *)

Event(new, queue) ==
    /\ events < MaxEvents /\ Room /\ events' = events + 1
    /\ core' = new /\ frames' = queue
    /\ UNCHANGED <<ui, pointer, acts, moves, faults>>

\* Flags are looked at before the frames and may overtake them.
Overtaking(frame) == \E queue \in {<<frame>> \o frames, Append(frames, frame)} : Event(core, queue)

\* A value changes elsewhere, or what the group leaves of its range.
ChangeElsewhere ==
    \E p \in Paths :
       LET new == [core EXCEPT ![p].value = IF @ = 0 THEN 1 ELSE 0]
           narrowed == [core EXCEPT ![p].range = IF @ = <<0, Top>> THEN <<1, 1>> ELSE <<0, Top>>]
       IN  /\ \/ Event(new, frames \o Changed(core, new))
              \/ p \notin Discrete /\ Event(narrowed, frames \o Changed(core, narrowed))
           /\ UNCHANGED rate

Notification ==
    /\ \/ \E kind \in {"ungrouped", "unfit"} : Event(core, Append(frames, [kind |-> kind]))
       \/ /\ ui.focus = Peer /\ ~ui.lost /\ \A n \in DOMAIN frames : frames[n].kind # "gone"
          /\ Event(core, Append(frames, [kind |-> "gone"]))
       \/ Overtaking([kind |-> "restored"])
       \/ \E target \in {Own, Peer} :
             Event(core, Append(frames, [kind |-> "spectrum", target |-> target]))
    /\ UNCHANGED rate

\* Measurements come all the time; one is as good as many.
Telemetry ==
    /\ frames = << >> /\ ui.active /\ ~ui.busy /\ rate > 0 /\ ui.telemetry = None
    /\ frames' = <<[kind |-> "telemetry", target |-> ui.focus]>>
    /\ UNCHANGED <<core, rate, ui, pointer, bounds>>

\* Another rate; that they only grow bounds them.
PrepareToPlay ==
    \E r \in (rate + 1)..2 :
       rate' = r /\ Overtaking([kind |-> "rate", rate |-> r])

----------------------------------------------------------------------------

Release == (\E d \in Dials : DialUp(d)) \/ ChoiceUp \/ GraphUp

Next ==
    \/ HandleOutput \/ Activate \/ AnotherActivates \/ FlushTimer \/ BanksArrive
    \/ \E d \in Dials : DialDown(d) \/ DialDrag(d) \/ DialReset(d)
    \/ ClickLeveler \/ ChoiceDown \/ ChoiceDrag
    \/ \E h \in Handles : GraphDown(h) \/ GraphReset(h)
    \/ GraphDrag \/ SelectSource \/ ToggleScope
    \/ Release
    \/ ChangeElsewhere \/ Notification \/ Telemetry \/ PrepareToPlay

\* The timer of the plug-in hands the frames on, and a user lets go of the pointer.
\* Weak fairness spelt out: the timer's action is enabled when there is a frame,
\* one of the three releases when the pointer is pressed.
FairHandleOutput == []<>(frames = << >>) \/ []<><<HandleOutput>>_vars
FairRelease == []<>(pointer = NoPointer) \/ []<><<Release>>_vars

Spec == Init /\ [][Next]_vars /\ FairHandleOutput /\ FairRelease

----------------------------------------------------------------------------
(* Properties.                                                               *)

Held(u) == IF u.gesture.on = Graph THEN u.graph.dragging /\ pointer = Graph
           ELSE u.dials[u.gesture.path].dragging /\ pointer = u.gesture.path

\* An open gesture is in the hand of the control that began it and nothing else
\* is dragged or previews a value, whatever notifications and answers do to the
\* controls meanwhile; and no control is enabled while the values its handlers
\* need are missing.  The exception: the refusal of a discrete value makes the
\* editor start over under a gesture begun since, and the gesture is lost.
GestureHeld ==
    /\ Editing(ui) => ui.started \/ Held(ui)
    /\ \A d \in Dials :
         Previewing(ui.dials[d]) \/ ui.dials[d].dragging => ui.gesture.path = d
    /\ ui.graph.preview # NoEntries => Active(ui)
    /\ ui.graph.dragging => Editing(ui) /\ ui.gesture.path = ui.graph.selected
    /\ ui.on # {} \/ ui.graphOn \/ ui.navigation => ui.active /\ ui.ready

\* The strip and the graph, which keep copies of their own, show the values of
\* the bank as they are known, and once every frame is taken as they are; what
\* is dragged stays within the scale; what is measured is of the instance in
\* focus; and the curves follow the preview and the sample rate.
ShownIsAccepted ==
    /\ ui.ready =>
         /\ ui.models = Restrict(ui.values, Strip)
         /\ ui.graph.context # NoContext =>
              ui.graph.entries = Restrict(ui.values, Bound(ui.source))
         /\ ui.leveling = (ui.values[Leveler].value = 1)
         /\ frames = << >> => ui.values = core
    /\ \A d \in Dials : Previewing(ui.dials[d]) => ui.dials[d].preview \in Values
    /\ {ui.telemetry, ui.graph.spectrum} \subseteq {None, ui.focus}
    /\ ui.graph.all \in {None, ui.graph.curves}
    /\ ui.graph.ready => ui.graph.curves = Responses(ui.graph)

Returned ==
    /\ frames = << >> /\ pointer = NoPointer
    /\ ui.active /\ ~ui.started =>
         ~Active(ui) /\ ui.ready /\ ui.navigation /\ ui.graphOn /\ Strip \ Timed \subseteq ui.on

\* When the user lets go and everything is answered, the controls of an active
\* editor are free again, whatever was cancelled, refused or disabled on the way.
EditingReturns == <>[]Returned
=============================================================================
