---------------------------- MODULE StateHistory ----------------------------
(***************************************************************************)
(* The state tree of the managed core, its shared undo history and the     *)
(* observers that carry each committed value to the DSP runtime.           *)
(*                                                                         *)
(* A state value keeps one copy of itself per history slot (StateValue.cs) *)
(* and StateHistory.cs moves one shared cursor around that ring.  A value  *)
(* that is not registered in history stays at slot 0 for ever.  Commands   *)
(* prepare their whole batch in a StateHistoryTransaction, advance the     *)
(* history when the command owns a point, commit, notify the observers,    *)
(* and at the end drain the set of affected instances into the DSP         *)
(* publishers.                                                             *)
(*                                                                         *)
(* The operation gate serialises commands, restores, registrations and     *)
(* removals, so each of them is one step here; the reset of a bank group   *)
(* runs one transaction per member while the gate stays held, and is one   *)
(* step per member.  What interleaves is the stream of commands of several *)
(* editors.  The core admits them in any order, several open gestures      *)
(* included; which orders the editors produce is in GestureSession.        *)
(***************************************************************************)
EXTENDS Integers

CONSTANTS
    Instances,      \* ids the registry can hand out; an id is never reused
    HistoryFields,  \* values of an instance that are registered in history
    PlainFields,    \* values of an instance that are not (mute, bypass ...)
    Val,            \* what a value can hold
    Default,        \* the initial value of every field
    Gestures,       \* editor gestures, each with its own transaction id
    Capacity        \* StateHistory.Capacity, 32 in the code

ASSUME CapacityAssumption == Capacity \in Nat /\ Capacity >= 2
ASSUME DefaultAssumption == Default \in Val
ASSUME FieldsAssumption == HistoryFields \cap PlainFields = {}

VARIABLES
    live,         \* registered instances
    removed,      \* instances that have been unregistered
    slots,        \* StateValue._values of every value
    slot,         \* StateValue._currentSlot of every value
    previous,     \* StateValue._previousSlotValue of every value
    currentSlot,  \* StateHistory._currentSlot
    undo,         \* StateHistory._availableUndoCount
    redo,         \* StateHistory._availableRedoCount
    runtime,      \* what the observers last projected of every value
    dirty,        \* DspStateChangeTracker._instances
    dsp,          \* the last runtime state each instance published to DSP
    resetting,    \* members the running group reset has still to visit
    open          \* gestures between begin_history and end_history

stateVars == <<slots, slot, previous, runtime>>
cursorVars == <<currentSlot, undo, redo>>
vars == <<live, removed, stateVars, cursorVars, dirty, dsp,
          resetting, open>>

Slots == 0..(Capacity - 1)
Fields == HistoryFields \cup PlainFields
Values == Instances \X Fields
Requests == [Values -> Val]

LiveValues == live \X Fields
Registered == live \X HistoryFields
Effective(v) == slots[v][slot[v]]
Fresh == [s \in Slots |-> Default]

TypeOK ==
    /\ live \subseteq Instances /\ removed \subseteq Instances
    /\ slots \in [Values -> [Slots -> Val]]
    /\ slot \in [Values -> Slots]
    /\ previous \in Requests
    /\ runtime \in Requests
    /\ currentSlot \in Slots /\ undo \in Nat /\ redo \in Nat
    /\ dirty \subseteq Instances
    /\ dsp \in [Instances -> [Fields -> Val]]
    /\ resetting \subseteq Instances
    /\ open \subseteq Gestures

Init ==
    /\ live = {} /\ removed = {}
    /\ slots = [v \in Values |-> Fresh]
    /\ slot = [v \in Values |-> 0]
    /\ previous = [v \in Values |-> Default]
    /\ runtime = [v \in Values |-> Default]
    /\ currentSlot = 0 /\ undo = 0 /\ redo = 0
    /\ dirty = {} /\ dsp = [i \in Instances |-> [f \in Fields |-> Default]]
    /\ resetting = {} /\ open = {}

-----------------------------------------------------------------------------
(* The ring.                                                               *)

NextSlot(s) == (s + 1) % Capacity
MoveSlot(s, offset) == (s + Capacity + offset) % Capacity
Smaller(a, b) == IF a <= b THEN a ELSE b

\* CopySlot of every registered value.
CopiedSlots(from, to) ==
    [v \in Values |-> IF v \in Registered
                      THEN [slots[v] EXCEPT ![to] = slots[v][from]]
                      ELSE slots[v]]

\* SetCurrentSlot of every registered value, which remembers the value it leaves.
MovedTo(to) == [v \in Values |-> IF v \in Registered THEN to ELSE slot[v]]
\* Variant: a value does not remember what it leaves.
NeverRemembered == previous

Remembered == [v \in Values |-> IF v \in Registered THEN Effective(v) ELSE previous[v]]

\* Variant: a new point leaves the points that could be redone.
AdvanceCursorKeepingRedo ==
    /\ currentSlot' = NextSlot(currentSlot)
    /\ undo' = Smaller(undo + 1, Capacity - 1)
    /\ redo' = Smaller(redo, Capacity - 1 - undo')
    /\ slot' = MovedTo(currentSlot')
    /\ previous' = Remembered

\* AdvanceHistoryPoint, but for the copy of the slots.
AdvanceCursor ==
    /\ currentSlot' = NextSlot(currentSlot)
    /\ undo' = Smaller(undo + 1, Capacity - 1)
    /\ redo' = 0
    /\ slot' = MovedTo(currentSlot')
    /\ previous' = Remembered

KeepCursor == UNCHANGED <<cursorVars, slot, previous>>

-----------------------------------------------------------------------------
(* Transactions.                                                           *)

\* The values a batch really changes: Prepare drops a write of an equal value.
Changed(new) == {v \in LiveValues : new[v] # Effective(v)}
ChangesHistory(new) == Changed(new) \cap Registered # {}

\* Commit: every prepared value is stored at the slot current at that moment,
\* then the observers of the changed values run.
Committed(base, new) ==
    [v \in Values |-> IF v \in Changed(new)
                      THEN [base[v] EXCEPT ![slot'[v]] = new[v]]
                      ELSE base[v]]
Projected(new) ==
    [v \in Values |-> IF v \in Changed(new) THEN new[v] ELSE runtime[v]]
\* Variant: a transaction's marks replace the ones not drained yet.
MarkedOnly(changes) == {v[1] : v \in changes}

Marked(changes) == dirty \cup {v[1] : v \in changes}

CommitAtNextPoint(new) ==
    /\ AdvanceCursor
    /\ slots' = Committed(CopiedSlots(currentSlot, currentSlot'), new)
    /\ runtime' = Projected(new)

CommitHere(new) ==
    /\ KeepCursor
    /\ slots' = Committed(slots, new)
    /\ runtime' = Projected(new)

\* PublishDspStates: the drained instances that are registered publish the
\* runtime state their observers maintain.
Published(affected) ==
    [i \in Instances |-> IF i \in affected
                         THEN [f \in Fields |-> runtime'[<<i, f>>]]
                         ELSE dsp[i]]
PublishDrained(marked) ==
    /\ dsp' = Published(marked \cap live')
    /\ dirty' = {}

GateFree == resetting = {}

-----------------------------------------------------------------------------
(* Commands.                                                               *)

\* An ordinary write or reset that changes a history value takes its own point.
HistoryWrite(new) ==
    /\ GateFree /\ ChangesHistory(new)
    /\ CommitAtNextPoint(new)
    /\ UNCHANGED <<live, removed, resetting, open>>
    /\ PublishDrained(Marked(Changed(new)))

\* A write, bypass, mute or solo command that changes only plain values.
PlainWrite(new) ==
    /\ GateFree /\ Changed(new) # {} /\ ~ChangesHistory(new)
    /\ CommitHere(new)
    /\ UNCHANGED <<live, removed, resetting, open>>
    /\ PublishDrained(Marked(Changed(new)))

\* A bank commit or refinement advances first and takes a point even when
\* the fitted values equal the present ones.
BankCommit(new) ==
    /\ GateFree /\ live # {}
    /\ CommitAtNextPoint(new)
    /\ UNCHANGED <<live, removed, resetting, open>>
    /\ PublishDrained(Marked(Changed(new)))

\* A topology write takes no point whatever it changes: its sender brackets a
\* batch of them with begin_history and end_history.
TopologyWrite(new) ==
    /\ GateFree /\ Changed(new) # {}
    /\ CommitHere(new)
    /\ UNCHANGED <<live, removed, resetting, open>>
    /\ PublishDrained(Marked(Changed(new)))

\* A write that carries a gesture's transaction id never advances.
GestureWrite(g, new) ==
    /\ GateFree /\ g \in open /\ Changed(new) # {}
    /\ CommitHere(new)
    /\ UNCHANGED <<live, removed, resetting, open>>
    /\ PublishDrained(Marked(Changed(new)))

\* begin_history: the point the gesture's writes are meant for.
BeginHistory(g) ==
    /\ GateFree /\ g \notin open /\ live # {}
    /\ AdvanceCursor
    /\ slots' = CopiedSlots(currentSlot, currentSlot')
    /\ open' = open \cup {g}
    /\ UNCHANGED <<live, removed, runtime, dirty, dsp, resetting>>

\* The handler is empty: only the editor's view of its own gesture ends.
EndHistory(g) ==
    /\ GateFree /\ g \in open
    /\ open' = open \ {g}
    /\ UNCHANGED <<live, removed, stateVars, cursorVars, dirty, dsp,
                   resetting>>

\* The observers hear of a value only when it differs from the one its
\* value remembered on leaving the old slot.
JumpToHistory(cursor) ==
    LET target == MoveSlot(currentSlot, cursor - undo)
        moved == {v \in Registered : slots[v][target] # Remembered[v]}
    IN  /\ GateFree /\ live # {}
        /\ cursor \in 0..(undo + redo)
        /\ currentSlot' = target
        /\ undo' = cursor
        /\ redo' = undo + redo - cursor
        /\ slot' = MovedTo(target)
        /\ previous' = Remembered
        /\ runtime' = [v \in Values |-> IF v \in moved THEN slots[v][target]
                                                       ELSE runtime[v]]
        /\ UNCHANGED <<live, removed, slots, resetting, open>>
        /\ PublishDrained(Marked(moved))

\* A group_instance reset is resolved to the members of the group once, under
\* the gate; the executor then runs the reset handler for each of them.
BeginGroupReset(members) ==
    /\ GateFree /\ members # {} /\ members \subseteq live
    /\ resetting' = members
    /\ UNCHANGED <<live, removed, stateVars, cursorVars, dirty, dsp, open>>

ResetOf(i) == [v \in Values |-> IF v[1] = i THEN Default ELSE Effective(v)]

ResetMember(i) ==
    LET new == ResetOf(i)
        rest == resetting \ {i}
    IN  /\ i \in resetting
        /\ IF ChangesHistory(new)
           THEN CommitAtNextPoint(new)
           ELSE CommitHere(new)
        /\ resetting' = rest
        /\ UNCHANGED <<live, removed, open>>
        /\ IF rest = {}
           THEN PublishDrained(Marked(Changed(new)))
           ELSE dirty' = Marked(Changed(new)) /\ UNCHANGED dsp

-----------------------------------------------------------------------------
(* Persistence and lifetime.                                               *)

\* Every slot of every persisted value of the instance becomes the stored
\* baseline, and every field of the model is a persisted one;
\* observers hear of the values whose effective value changes.
Restore(i, baseline) ==
    LET restored == {v \in LiveValues : v[1] = i}
        changes == {v \in restored : Effective(v) # baseline[v[2]]}
        rebased == {v \in restored : \E s \in Slots : slots[v][s] # baseline[v[2]]}
    IN  /\ GateFree /\ i \in live
        /\ slots' = [v \in Values |-> IF v \in rebased
                                      THEN [s \in Slots |-> baseline[v[2]]]
                                      ELSE slots[v]]
        /\ previous' = [v \in Values |-> IF v \in rebased THEN baseline[v[2]]
                                                          ELSE previous[v]]
        /\ runtime' = [v \in Values |-> IF v \in changes THEN baseline[v[2]]
                                                         ELSE runtime[v]]
        /\ UNCHANGED <<live, removed, slot, cursorVars, resetting, open>>
        /\ PublishDrained(Marked(changes))

\* A new value is fresh: its slots hold its initial value, which is projected.
\* It joins the history at the current slot, and the instance is published.
RegisterInstance(i) ==
    /\ GateFree /\ i \notin live \cup removed
    /\ live' = live \cup {i}
    /\ slot' = [v \in Values |-> IF v \in {i} \X HistoryFields THEN currentSlot
                                                               ELSE slot[v]]
    /\ UNCHANGED <<removed, slots, previous, runtime, cursorVars, resetting, open>>
    /\ PublishDrained(dirty \cup {i})

\* The values leave the history and the observers before the gate is released.
\* Nothing reads a disposed value again: it counts as fresh from here on.
UnregisterInstance(i) ==
    /\ GateFree /\ i \in live
    /\ live' = live \ {i}
    /\ removed' = removed \cup {i}
    /\ slots' = [v \in Values |-> IF v[1] = i THEN Fresh ELSE slots[v]]
    /\ slot' = [v \in Values |-> IF v[1] = i THEN 0 ELSE slot[v]]
    /\ previous' = [v \in Values |-> IF v[1] = i THEN Default ELSE previous[v]]
    /\ runtime' = [v \in Values |-> IF v[1] = i THEN Default ELSE runtime[v]]
    /\ UNCHANGED <<cursorVars, resetting, open>>
    /\ PublishDrained(dirty)

Next ==
    \/ \E new \in Requests : HistoryWrite(new)
    \/ \E new \in Requests : PlainWrite(new)
    \/ \E new \in Requests : BankCommit(new)
    \/ \E new \in Requests : TopologyWrite(new)
    \/ \E g \in Gestures, new \in Requests : GestureWrite(g, new)
    \/ \E g \in Gestures : BeginHistory(g)
    \/ \E g \in Gestures : EndHistory(g)
    \/ \E cursor \in Slots : JumpToHistory(cursor)
    \/ \E members \in SUBSET Instances : BeginGroupReset(members)
    \/ \E i \in Instances : ResetMember(i)
    \/ \E i \in Instances, baseline \in [Fields -> Val] : Restore(i, baseline)
    \/ \E i \in Instances : RegisterInstance(i)
    \/ \E i \in Instances : UnregisterInstance(i)

Spec == Init /\ [][Next]_vars

-----------------------------------------------------------------------------
(* Correctness.                                                            *)

\* Every registered value stands at the shared slot, also one registered
\* after jumps, and an unregistered value never leaves slot 0; the points that
\* can be reached are distinct slots of the ring.
SlotsAgree ==
    /\ \A v \in Registered : slot[v] = currentSlot
    /\ \A v \in LiveValues \ Registered : slot[v] = 0
    /\ undo + redo < Capacity

\* What the observers projected last is the effective value, whichever way it
\* came about: a write, a jump over several points, a reset or a restore.  A
\* change an observer missed would stay wrong until the next write.
ObserversCurrent == \A v \in LiveValues : runtime[v] = Effective(v)

\* With the gate free nothing is left to drain, and the DSP of every instance
\* was given the state the tree shows (CommandExecutor, HistoryNavigation,
\* InstanceRegistry and Restore each drain on their own).
DspCurrent ==
    GateFree => /\ dirty = {}
                /\ \A i \in live, f \in Fields : dsp[i][f] = Effective(<<i, f>>)

\* Undo and redo never restore a mute, a bypass or another plain value.
JumpKeepsPlain ==
    (\E cursor \in Slots : JumpToHistory(cursor)) =>
        \A v \in live \X PlainFields : Effective(v)' = Effective(v)
PlainValuesSurviveJumps == [][JumpKeepsPlain]_vars

\* The reachable points in order, as the abstract history sees them.
SlotOfPoint(k) == MoveSlot(currentSlot, k - undo)
Timeline ==
    [k \in 0..(undo + redo) |->
        [c \in Instances \X HistoryFields |-> slots[c][SlotOfPoint(k)]]]

Abstract == INSTANCE AbstractHistory WITH timeline <- Timeline, cursor <- undo

\* The ring of slots implements the timeline: wrap-around, truncation of redo
\* by a new point, jumps and restores included.
ImplementsTimeline == Abstract!Spec
=============================================================================
