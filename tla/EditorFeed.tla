------------------------------ MODULE EditorFeed ------------------------------
(***************************************************************************)
(* What an editor is told of the instances, and what it makes of it: the      *)
(* managed core with its worker and its notifications, the queue of frames the   *)
(* plug-in keeps for its editor, and the editor.                                 *)
(*                                                                          *)
(* An answer is captured under the operation gate and sent frame by frame        *)
(* after it; notifications go out while a state changes, and the removal of an     *)
(* instance only after the gate is released.  So frames of all three sources mix.  *)
(***************************************************************************)
EXTENDS EditorPresentation

CONSTANTS
    Peers,        \* the other instances
    Bounds        \* bound: the pairs of edits by the user and other events explored

ASSUME PeerAssumption == Own \notin Peers /\ IsFiniteSet(Peers)

VARIABLES
    live,         \* the registered instances
    grouped,      \* the instances whose bank is in the group
    values,       \* instance |-> context |-> value
    selection,    \* the bank the core takes this editor to look at
    watched,      \* this editor observes the registry: no, registering, yes
    revision,     \* of the registry
    leaving,      \* peer |-> how far the announcement of its removal is
    restore,      \* how far a restore of the own instance is
    inbox,        \* commands of this editor, and activations of others, the worker has
                  \* not run
    reply,        \* the rest of an answer the worker is sending
    frames,       \* controlFrames_ of the plug-in
    editor,
    acts,         \* edits of the user
    events        \* other events, full queues among them

coreVars == <<live, grouped, values, selection, watched, revision, leaving, restore>>
boundVars == <<acts, events>>
vars == <<coreVars, inbox, reply, frames, editor, boundVars>>

Instances == Peers \cup {Own}
Present == [stage |-> "present", previous |-> 0, revision |-> 0]

Init ==
    /\ \E others \in SUBSET Peers : live = others \cup {Own}
    /\ grouped = {}
    /\ values = [i \in Instances |-> [c \in ToSet(Contexts) |-> FALSE]]
    /\ selection = Own /\ watched = "no" /\ revision = 0
    /\ leaving = [p \in Peers |-> Present]
    /\ restore = "none"
    /\ inbox = << >> /\ reply = << >> /\ frames = << >>
    /\ editor = NewEditor
    /\ acts = 0 /\ events = 0

Act == <<acts + 1, events>> \in Bounds /\ acts' = acts + 1
Disturbance(n) == events' = events + n /\ <<acts', events'>> \in Bounds
Event == UNCHANGED acts /\ Disturbance(1)

----------------------------------------------------------------------------
(* Frames.                                                                   *)

Done(c, accepted) == [selector |-> "action_done", request |-> c.request, accepted |-> accepted]
Error(c) == [selector |-> "error", request |-> c.request]

Row(i) == [group |-> i \in grouped]

StateSnapshot(c) == [selector |-> "target_state_snapshot", request |-> c.request,
                     target |-> c.target, context |-> c.context,
                     value |-> values[c.target][c.context]]

BankSnapshots(c) == [selector |-> "bank_state_snapshots", request |-> c.request,
                     target |-> c.target, value |-> values[c.target][Equalizer]]

RegistrySnapshot(c) ==
    <<[selector |-> "registry_begin", request |-> c.request, revision |-> revision,
       count |-> Cardinality(live)]>>
    \o SetToSeq({[selector |-> "registry_instance", request |-> c.request, instance |-> i,
                  row |-> Row(i)] : i \in live})
    \o <<[selector |-> "registry_done", request |-> c.request, revision |-> revision]>>

Delta(previous, next, i, change, value) ==
    [selector |-> "registry_changed", previous |-> previous, revision |-> next,
     instance |-> i, change |-> change, value |-> value]

\* A value is notified to the editors that look at its bank.
ValueFrames(i, c, value) ==
    IF selection = i THEN <<[selector |-> "state_changed", context |-> c, value |-> value]>>
    ELSE << >>

\* The changes of a set of rows, one delta each, to an editor that observes.
GroupFrames(rows, group) ==
    IF watched # "yes" THEN << >>
    ELSE LET order == SetToSeq(rows)
         IN  [n \in DOMAIN order |->
                Delta(revision + n - 1, revision + n, order[n], "group", group)]

----------------------------------------------------------------------------
(* The core's worker: one command at a time, under the operation gate.         *)

GateFree == watched # "registering"

\* The next command of this editor, its answer, and what is notified meanwhile.
Asked == Head(inbox)
Execute(selector, answer, notified) ==
    /\ reply = << >> /\ inbox # << >> /\ Head(inbox).selector = selector
    /\ UNCHANGED <<editor, restore, live, leaving, boundVars>>
    /\ inbox' = Tail(inbox)
    /\ reply' = answer
    /\ frames' = frames \o notified

InitializeUi ==
    /\ Execute("initialize", <<Done(Asked, TRUE)>>, << >>)
    /\ UNCHANGED <<grouped, values, selection, watched, revision>>

\* An editor that closes stops observing the registry.
SetInstanceActive ==
    /\ Execute("set_instance_active", <<Done(Asked, TRUE)>>, << >>)
    /\ watched' = IF Asked.context = Closing THEN "no" ELSE watched
    /\ UNCHANGED <<grouped, values, selection, revision>>

\* An editor that becomes the active one ends the observation of the one before it.
\* The answer is the other editor's.
ActivateAnother ==
    /\ Execute("activate_another", << >>, << >>)
    /\ watched' = "no"
    /\ UNCHANGED <<grouped, values, selection, revision>>

\* The snapshot is captured before the observer is registered; an announcement
\* may slip in between.
ReadRegistry ==
    /\ Execute("registry", RegistrySnapshot(Asked), << >>)
    /\ watched' = IF watched = "no" THEN "registering" ELSE watched
    /\ UNCHANGED <<grouped, values, selection, revision>>

RegisterObserver ==
    /\ watched = "registering" /\ watched' = "yes"
    /\ UNCHANGED <<live, grouped, values, selection, revision, leaving, restore, inbox, reply,
                   frames, editor, boundVars>>

\* A faulty variant that answers without turning to the bank.
ObserveTargetCommandVariant ==
    /\ Execute("observe_target",
               IF Asked.target \in live THEN <<StateSnapshot(Asked)>> ELSE <<Error(Asked)>>, << >>)
    /\ UNCHANGED <<grouped, values, selection, watched, revision>>

ObserveTargetCommand ==
    /\ Execute("observe_target",
               IF Asked.target \in live THEN <<StateSnapshot(Asked)>> ELSE <<Error(Asked)>>, << >>)
    /\ selection' = IF Asked.target \in live THEN Asked.target ELSE selection
    /\ UNCHANGED <<grouped, values, watched, revision>>

ObserveBanks ==
    /\ Execute("observe_banks",
               IF Asked.target \in live THEN <<BankSnapshots(Asked)>> ELSE <<Error(Asked)>>, << >>)
    /\ UNCHANGED <<grouped, values, selection, watched, revision>>

\* A write goes to the bank the core takes the editor to look at.
Write(i, c) == values' = [values EXCEPT ![i][c] = ~@]

WriteStateCommand ==
    LET c == Asked.context
        known == selection \in live
    IN  /\ Execute("write", IF known THEN <<Done(Asked, TRUE)>> ELSE <<Error(Asked)>>,
                   IF known THEN ValueFrames(selection, c, ~values[selection][c]) ELSE << >>)
        /\ IF known THEN Write(selection, c) ELSE UNCHANGED values
        /\ UNCHANGED <<grouped, selection, watched, revision>>

\* Undo, redo, reset, process: it may change a value of the bank, have nothing
\* to do, or be refused.
OtherCommand ==
    \/ \E accepted \in BOOLEAN :
         /\ Execute("command", <<Done(Asked, accepted)>>, << >>)
         /\ UNCHANGED <<grouped, values, selection, watched, revision>>
    \/ \E c \in ToSet(Contexts) :
         /\ selection \in live
         /\ Execute("command", <<Done(Asked, TRUE)>>,
                    ValueFrames(selection, c, ~values[selection][c]))
         /\ Write(selection, c)
         /\ UNCHANGED <<grouped, selection, watched, revision>>

Regroup(rows, group) ==
    /\ grouped' = IF group THEN grouped \cup rows ELSE grouped \ rows
    /\ revision' = revision + Cardinality(rows)

GroupBanks ==
    LET banks == {Asked.target, Asked.context}
        apply == banks \subseteq live \ grouped
    IN  /\ Execute("group_banks", <<Done(Asked, apply)>>,
                   IF apply THEN GroupFrames(banks, TRUE) ELSE << >>)
        /\ IF apply THEN Regroup(banks, TRUE) ELSE UNCHANGED <<grouped, revision>>
        /\ UNCHANGED <<values, selection, watched>>

UngroupBanks ==
    LET apply == Asked.target \in grouped \cap live
        members == grouped \cap live
    IN  /\ Execute("ungroup_banks", <<Done(Asked, apply)>>,
                   IF apply THEN GroupFrames(members, FALSE) ELSE << >>)
        /\ IF apply THEN Regroup(members, FALSE) ELSE UNCHANGED <<grouped, revision>>
        /\ UNCHANGED <<values, selection, watched>>

SendReply ==
    /\ reply # << >> /\ watched # "registering"
    /\ UNCHANGED <<coreVars, inbox, editor, boundVars>>
    /\ frames' = Append(frames, Head(reply)) /\ reply' = Tail(reply)

Worker == \/ InitializeUi \/ SetInstanceActive \/ ActivateAnother \/ ReadRegistry
          \/ RegisterObserver \/ ObserveTargetCommand \/ ObserveBanks \/ WriteStateCommand
          \/ OtherCommand \/ GroupBanks \/ UngroupBanks \/ SendReply

----------------------------------------------------------------------------
(* The rest of the world.                                                    *)

\* Another editor's command, on the same worker.
WriteElsewhere ==
    \E i \in live, c \in ToSet(Contexts) :
       /\ Event /\ reply = << >>
       /\ Write(i, c)
       /\ frames' = frames \o ValueFrames(i, c, ~values[i][c])
       /\ UNCHANGED <<live, grouped, selection, watched, revision, leaving, restore, inbox,
                      reply, editor>>

RegroupElsewhere ==
    \E rows \in SUBSET live, group \in BOOLEAN :
       /\ Event /\ reply = << >>
       /\ IF group THEN Cardinality(rows) > 1 /\ rows \cap grouped = {}
          ELSE rows = grouped \cap live /\ rows # {}
       /\ Regroup(rows, group)
       /\ frames' = frames \o GroupFrames(rows, group)
       /\ UNCHANGED <<live, values, selection, watched, leaving, restore, inbox, reply, editor>>

\* An instance is registered and announced under the gate.  The revision is read and
\* raised in one step, here and in the other announcements under the gate; a removal
\* between the two would leave two deltas that continue the same revision, the later one
\* of which calls for a new snapshot.
RegisterInstance ==
    \E p \in Peers \ live :
       /\ Event /\ GateFree /\ leaving[p] = Present
       /\ live' = live \cup {p} /\ revision' = revision + 1
       /\ frames' = IF watched = "yes"
                    THEN Append(frames, Delta(revision, revision + 1, p, "added", Row(p)))
                    ELSE frames
       /\ UNCHANGED <<grouped, values, selection, watched, leaving, restore, inbox, reply,
                      editor>>

\* It is unregistered under the gate and announced outside it; ids never return.
UnregisterInstance ==
    \E p \in Peers \cap live :
       /\ Event /\ GateFree
       /\ live' = live \ {p}
       /\ leaving' = [leaving EXCEPT ![p].stage = "removed"]
       /\ UNCHANGED <<grouped, values, selection, watched, revision, restore, inbox, reply,
                      frames, editor>>

ReadRevision(p) ==
    /\ leaving[p].stage = "removed"
    /\ leaving' = [leaving EXCEPT ![p].stage = "read", ![p].previous = revision]
    /\ UNCHANGED <<revision, frames>>

AdvanceRevision(p) ==
    /\ leaving[p].stage = "read"
    /\ leaving' = [leaving EXCEPT ![p].stage = "numbered", ![p].revision = revision + 1]
    /\ revision' = revision + 1
    /\ UNCHANGED frames

SendRemoval(p) ==
    /\ leaving[p].stage = "numbered"
    /\ leaving' = [leaving EXCEPT ![p] = [Present EXCEPT !.stage = "gone"]]
    /\ frames' = IF watched = "yes"
                 THEN Append(frames, Delta(leaving[p].previous, leaving[p].revision, p,
                                           "removed", NoRows))
                 ELSE frames
    /\ UNCHANGED revision

Announce ==
    \E p \in Peers :
       /\ ReadRevision(p) \/ AdvanceRevision(p) \/ SendRemoval(p)
       /\ UNCHANGED <<live, grouped, values, selection, watched, restore, inbox, reply, editor,
                      boundVars>>

\* A restore of the own instance is a barrier on the worker; the plug-in raises
\* its flag when the call returns.
RestorePersistence ==
    \E c \in ToSet(Contexts) :
       /\ Event /\ reply = << >> /\ restore = "none"
       /\ Write(Own, c)
       /\ frames' = frames \o ValueFrames(Own, c, ~values[Own][c])
       /\ restore' = "returning"
       /\ UNCHANGED <<live, grouped, selection, watched, revision, leaving, inbox, reply, editor>>

RestoreReturns ==
    /\ restore = "returning" /\ restore' = "none"
    /\ editor' = [editor EXCEPT !.restored = TRUE]
    /\ UNCHANGED <<live, grouped, values, selection, watched, revision, leaving, inbox, reply,
                   frames, boundVars>>

Host == Announce \/ RestoreReturns

----------------------------------------------------------------------------
(* The editor, on the message thread.                                        *)

Ids(s) == {s[n].request : n \in {m \in DOMAIN s : "request" \in DOMAIN s[m]}}

\* Ids are used once; one that nobody holds any more stands for a new one.
InUse ==
    Ids(inbox) \cup Ids(reply) \cup Ids(frames) \cup {p.request : p \in editor.pending}
    \cup DOMAIN editor.target.requests \cup {editor.analyzer.request}
    \cup IF FetchPending(editor.registry) THEN {editor.registry.fetch.request} ELSE {}

Ready == [editor EXCEPT !.used = InUse]

\* The elements of a sequence at the positions, in their order.
Kept(s, positions) ==
    LET kept[n \in 0..Len(s)] ==
            IF n = 0 THEN << >>
            ELSE IF n \in positions THEN Append(kept[n - 1], s[n]) ELSE kept[n - 1]
    IN  kept[Len(s)]

\* What the editor sends goes to the queue of the core, except what a full queue
\* refuses: that is answered with an error at once.
SendsAfter(disturbances, e, rest) ==
    /\ UNCHANGED <<coreVars, reply>>
    /\ \E refused \in SUBSET Ids(e.out) :
       /\ Disturbance(disturbances + (IF refused = {} THEN 0 ELSE 1))
       /\ editor' = [e EXCEPT !.out = << >>, !.used = {}]
       /\ inbox' = inbox \o Kept(e.out, {n \in DOMAIN e.out : e.out[n].request \notin refused})
       /\ frames' = LET lost == Kept(e.out, {n \in DOMAIN e.out : e.out[n].request \in refused})
                    IN  rest \o [n \in DOMAIN lost |-> Error(lost[n])]

Sends(e, rest) == SendsAfter(0, e, rest)

\* A timer on the message thread takes the frames in order, a batch at a time.
TakeFrame ==
    /\ frames # << >>
    /\ UNCHANGED acts /\ Sends(HandleOutput(Ready, Head(frames)), Tail(frames))

\* The flag of a restore is looked at before the frames and may overtake them.
TakeRestored ==
    /\ editor.restored
    /\ UNCHANGED acts /\ Sends(Observe([Ready EXCEPT !.restored = FALSE]), frames)

\* A new editor's first command; the plug-in's queue of frames is emptied for it.
Open ==
    /\ editor.unopened
    /\ UNCHANGED acts /\ Sends(Initialize(Ready), frames)

\* The editor is closed and opened again: what it waits for is forgotten, what
\* was sent to it still comes.
Reopen ==
    /\ ~editor.unopened
    /\ UNCHANGED acts /\ SendsAfter(1, Close(Ready), << >>)

\* The window gains the focus while the session is not active.
Connecting == \E p \in editor.pending : IsConnect(p) /\ p.current
Refocus ==
    /\ editor.initialized /\ ~editor.active /\ ~(editor.owner /\ Connecting)
    /\ UNCHANGED acts /\ Sends(Activate(Ready), frames)
RefocusAgain ==
    /\ editor.initialized /\ ~editor.active /\ editor.owner /\ Connecting
    /\ UNCHANGED acts /\ SendsAfter(1, Activate(Ready), frames)

\* The window of another editor gains the focus: this session learns of it at once, the
\* core when it is the command's turn.  The queue may refuse the command, and the core may
\* have another active editor to end.
AnotherEditorActivates ==
    /\ UNCHANGED <<coreVars, reply, frames, acts>> /\ Disturbance(1)
    /\ editor' = IF editor.owner THEN Deactivated(editor) ELSE editor
    /\ \/ inbox' = Append(inbox, Command("activate_another", Own, NoContext))
       \/ editor.owner /\ UNCHANGED inbox

UserActs ==
    /\ Act /\ Editable(editor)
    /\ \/ \E i \in Instances : CanSelect(editor, i) /\ Sends(SelectTarget(Ready, i), frames)
       \/ CanScope(editor) /\ Sends(ToggleScope(Ready), frames)
       \/ \E c \in ToSet(Contexts) : Sends(CommitDiscreteValue(Ready, c), frames)
       \/ Sends(RunCommand(Ready), frames)
       \/ \E i, j \in Instances :
             CanGroup(editor, i, j) /\ Sends(GroupSelectedBanks(Ready, i, j), frames)
       \/ CanUngroup(editor) /\ Sends(UngroupFocusedBank(Ready), frames)

----------------------------------------------------------------------------

Next == \/ Worker \/ Host \/ TakeFrame \/ TakeRestored \/ Open \/ Reopen \/ Refocus \/ RefocusAgain
        \/ WriteElsewhere \/ RegroupElsewhere \/ RegisterInstance \/ UnregisterInstance
        \/ RestorePersistence \/ AnotherEditorActivates \/ UserActs

\* Worker, host calls and timer keep going, and a user whose editor is not
\* active focuses its window, which is what the editor asks for.
\* The editor's four are weak fairness spelt out: each is enabled when its guard
\* holds.
FairTakeFrame == []<>(frames = << >>) \/ []<><<TakeFrame>>_vars
FairTakeRestored == []<>~editor.restored \/ []<><<TakeRestored>>_vars
FairOpen == []<>~editor.unopened \/ []<><<Open>>_vars
FairRefocus == []<>(~editor.initialized \/ editor.active \/ (editor.owner /\ Connecting)) \/ []<><<Refocus>>_vars

Spec == /\ Init /\ [][Next]_vars
        /\ WF_vars(Worker) /\ WF_vars(Host)
        /\ FairTakeFrame /\ FairTakeRestored /\ FairOpen /\ FairRefocus

----------------------------------------------------------------------------
(* Properties.                                                               *)

Drained == inbox = << >> /\ reply = << >> /\ frames = << >>
Announced == \A p \in Peers : leaving[p].stage \in {"present", "gone"}
Restored == restore = "none" /\ ~editor.restored

\* Once every command is answered and every frame is taken, an editor that lets
\* the user edit shows the values and the curve of the bank in focus as they
\* are, however answers and notifications were mixed; and its edits reach the
\* members of a group only if the bank in focus has one.
ViewCurrent ==
    Drained /\ Announced /\ Restored /\ Editable(editor) =>
      /\ editor.target.ready /\ editor.target.target = editor.focus
      /\ editor.target.values = values[editor.focus]
      /\ editor.curve = values[editor.focus][Equalizer]
      /\ editor.scope => editor.focus \in grouped

\* Likewise the cached registry is the core's, whichever deltas crossed a
\* snapshot or each other.
RegistryCurrent ==
    Drained /\ Announced /\ editor.active =>
      /\ editor.registry.ready
      /\ editor.registry.instances = [i \in live |-> Row(i)]

\* A value the user commits is written to the bank it was committed on, or to
\* none: the core never looks at another bank when the write is its turn.
EditsLandOnFocus ==
    inbox # << >> /\ Head(inbox).selector = "write" /\ reply = << >> =>
      Head(inbox).target = selection

\* No client refuses a frame the core sends, except a delta about an instance the
\* cache lacks: the announcement of a removal that a snapshot taken between the
\* removal and the announcement has overtaken; and, while a snapshot is on its way,
\* one that continues the revision of a cache which has missed an instance.
FramesFit ==
    frames # << >> /\ Throws(editor, Head(frames)) =>
      LET frame == Head(frames)
      IN  /\ frame.selector = "registry_changed" /\ ~Find(editor.registry, frame.instance)
          /\ \/ frame.change = "removed"
             \/ frame.change = "group" /\ FetchPending(editor.registry)

\* When the disturbances end, the editor recovers, whatever has failed: it
\* comes to show its focus as it is and stays so.  Only an editor whose very
\* first command was refused stays dead until it is opened again.
FeedConverges ==
    <>[](/\ Drained /\ Announced /\ Restored /\ ~editor.unopened
         /\ editor.initialized =>
              Editable(editor) /\ editor.focus \in live /\ ViewCurrent /\ RegistryCurrent)
=============================================================================
