------------------------- MODULE StateHistoryProofs -------------------------
(***************************************************************************)
(* The invariants of StateHistory for every number of instances, fields,   *)
(* values and gestures and every capacity of the ring.                     *)
(*                                                                         *)
(* ObserversCurrent is not inductive: a jump compares the value a cell     *)
(* remembered on leaving its slot with the one it arrives at, which says   *)
(* something only if all registered cells stand at the shared slot; and    *)
(* DspCurrent speaks of a free gate only, so in the middle of a group reset*)
(* the instances that are not yet marked dirty must still be published.    *)
(* The refinement of AbstractHistory rests on them; see below.  The module *)
(* ends with the exchange between a publication and the audio thread.      *)
(***************************************************************************)
EXTENDS StateHistory, TelemetryExchange, TLAPS

-----------------------------------------------------------------------------
(* The inductive invariant.                                                *)

\* What no live instance owns is as fresh as before its registration.
AbsentFresh ==
    \A v \in Values \ LiveValues :
        slots[v] = Fresh /\ slot[v] = 0 /\ runtime[v] = Default

\* An instance that is not marked was published since its last change.
UnmarkedPublished ==
    \A i \in live \ dirty, f \in Fields : dsp[i][f] = runtime[<<i, f>>]

NothingMarked == GateFree => dirty = {}

TreeInv == TypeOK /\ SlotsAgree /\ ObserversCurrent /\ AbsentFresh
IInv == TreeInv /\ UnmarkedPublished /\ NothingMarked

-----------------------------------------------------------------------------
(* Arithmetic of the ring.                                                 *)

\* A slot number stays itself modulo the capacity.
LEMMA ModSmall ==
    ASSUME NEW x \in 0..(Capacity - 1)
    PROVE  x % Capacity = x
BY CapacityAssumption, SMT

\* One lap over the end comes back to the beginning.
LEMMA ModLap ==
    ASSUME NEW x \in Capacity..(2 * Capacity - 1)
    PROVE  x % Capacity = x - Capacity
BY CapacityAssumption, SMT

\* NextSlot and MoveSlot stay in the ring, whatever the sum they reduce.
LEMMA SlotsClosed ==
    /\ \A s \in Slots : NextSlot(s) \in Slots
    /\ \A s \in Slots, d \in Int : MoveSlot(s, d) \in Slots
    /\ 0 \in Slots
<1>1. \A x \in Int : x % Capacity \in Slots
  BY CapacityAssumption, SMT DEF Slots
<1> QED
  BY <1>1, CapacityAssumption, SMT DEF Slots, NextSlot, MoveSlot

-----------------------------------------------------------------------------
(* The two ways a transaction reaches the tree.                            *)

\* Moving the cursor keeps the types of what it moves.
LEMMA AdvanceType ==
    ASSUME TreeInv, AdvanceCursor
    PROVE  /\ currentSlot' \in Slots /\ undo' \in Nat /\ redo' \in Nat
           /\ slot' \in [Values -> Slots]
           /\ previous' \in Requests
           /\ undo' + redo' < Capacity
<1>1. currentSlot' \in Slots
  BY SlotsClosed DEF AdvanceCursor, TreeInv, TypeOK
<1>2. undo' \in Nat /\ redo' \in Nat /\ undo' + redo' < Capacity
  BY CapacityAssumption, SMT DEF AdvanceCursor, TreeInv, TypeOK, Smaller
<1>3. slot' \in [Values -> Slots]
  BY <1>1 DEF AdvanceCursor, TreeInv, TypeOK, MovedTo
<1>4. previous' \in Requests
  BY DEF AdvanceCursor, TreeInv, TypeOK, Remembered, Requests, Effective
<1> QED
  BY <1>1, <1>2, <1>3, <1>4

\* A commit at a new point keeps the tree and its observers in step, and the
\* observers hear only of the values the transaction changes.
LEMMA CommitAtNextPointKeepsTree ==
    ASSUME TreeInv, NEW new \in Requests, CommitAtNextPoint(new), UNCHANGED live
    PROVE  /\ slots' \in [Values -> [Slots -> Val]]
           /\ runtime' \in Requests
           /\ SlotsAgree' /\ ObserversCurrent' /\ AbsentFresh'
           /\ \A v \in Values \ Changed(new) : runtime'[v] = runtime[v]
<1> USE DEF TreeInv, CommitAtNextPoint
<1>1. /\ currentSlot' \in Slots /\ slot' \in [Values -> Slots]
      /\ undo' + redo' < Capacity
  BY AdvanceType
<1>2. slot' = MovedTo(currentSlot')
  BY DEF AdvanceCursor
<1> DEFINE base == CopiedSlots(currentSlot, currentSlot')
<1>3. base \in [Values -> [Slots -> Val]]
  BY DEF TypeOK, CopiedSlots
<1>4. slots' \in [Values -> [Slots -> Val]]
  BY <1>3 DEF Committed, Requests
<1>5. runtime' \in Requests
  BY DEF TypeOK, Projected, Requests
<1>6. SlotsAgree'
  BY <1>1, <1>2 DEF SlotsAgree, MovedTo, Registered, LiveValues, Fields, Values, TypeOK
<1>7. \A v \in LiveValues : base[v][slot'[v]] = Effective(v)
  <2> SUFFICES ASSUME NEW v \in LiveValues
               PROVE  base[v][slot'[v]] = Effective(v)
    OBVIOUS
  <2>0. v \in Values
    BY DEF LiveValues, Values, TypeOK
  <2>1. CASE v \in Registered
    BY <1>1, <1>2, <2>0, <2>1 DEF CopiedSlots, MovedTo, Effective, SlotsAgree, TypeOK
  <2>2. CASE v \notin Registered
    BY <1>2, <2>0, <2>2 DEF CopiedSlots, MovedTo, Effective
  <2> QED
    BY <2>1, <2>2
<1>8. ObserversCurrent'
  <2> SUFFICES ASSUME NEW v \in LiveValues
               PROVE  runtime'[v] = slots'[v][slot'[v]]
    BY DEF ObserversCurrent, Effective, LiveValues
  <2>0. v \in Values /\ slot'[v] \in Slots
    BY <1>1 DEF LiveValues, Values, TypeOK
  <2>1. CASE v \in Changed(new)
    BY <1>3, <2>0, <2>1 DEF Committed, Projected
  <2>2. CASE v \notin Changed(new)
    BY <1>7, <2>0, <2>2 DEF Committed, Projected, ObserversCurrent
  <2> QED
    BY <2>1, <2>2
<1>9. AbsentFresh'
  <2> SUFFICES ASSUME NEW v \in Values \ LiveValues
               PROVE  slots'[v] = Fresh /\ slot'[v] = 0 /\ runtime'[v] = Default
    BY DEF AbsentFresh, LiveValues, Fresh
  <2>1. v \notin Registered /\ v \notin Changed(new)
    BY DEF Registered, LiveValues, Changed, Fields
  <2> QED
    BY <1>2, <2>1 DEF AbsentFresh, Committed, CopiedSlots, MovedTo, Projected
<1>10. \A v \in Values \ Changed(new) : runtime'[v] = runtime[v]
  BY DEF Projected
<1> QED
  BY <1>4, <1>5, <1>6, <1>8, <1>9, <1>10

\* The same of a commit at the point the cursor is at.
LEMMA CommitHereKeepsTree ==
    ASSUME TreeInv, NEW new \in Requests, CommitHere(new), UNCHANGED live
    PROVE  /\ slots' \in [Values -> [Slots -> Val]]
           /\ runtime' \in Requests
           /\ SlotsAgree' /\ ObserversCurrent' /\ AbsentFresh'
           /\ \A v \in Values \ Changed(new) : runtime'[v] = runtime[v]
<1> USE DEF TreeInv, CommitHere, KeepCursor, cursorVars
<1>1. slots' \in [Values -> [Slots -> Val]]
  BY DEF TypeOK, Committed, Requests
<1>2. runtime' \in Requests
  BY DEF TypeOK, Projected, Requests
<1>3. SlotsAgree'
  BY DEF SlotsAgree, Registered, LiveValues
<1>4. ObserversCurrent'
  <2> SUFFICES ASSUME NEW v \in LiveValues
               PROVE  runtime'[v] = slots'[v][slot[v]]
    BY DEF ObserversCurrent, Effective, LiveValues
  <2>0. v \in Values /\ slot[v] \in Slots
    BY DEF LiveValues, Values, TypeOK
  <2>1. CASE v \in Changed(new)
    BY <2>0, <2>1 DEF Committed, Projected, TypeOK
  <2>2. CASE v \notin Changed(new)
    BY <2>0, <2>2 DEF Committed, Projected, ObserversCurrent, Effective
  <2> QED
    BY <2>1, <2>2
<1>5. AbsentFresh'
  <2> SUFFICES ASSUME NEW v \in Values \ LiveValues
               PROVE  slots'[v] = Fresh /\ slot'[v] = 0 /\ runtime'[v] = Default
    BY DEF AbsentFresh, LiveValues, Fresh
  <2>1. v \notin Changed(new)
    BY DEF Changed
  <2> QED
    BY <2>1 DEF AbsentFresh, Committed, Projected
<1>6. \A v \in Values \ Changed(new) : runtime'[v] = runtime[v]
  BY DEF Projected
<1> QED
  BY <1>1, <1>2, <1>3, <1>4, <1>5, <1>6

-----------------------------------------------------------------------------
(* Publication.                                                            *)

\* Draining what was marked before and what this step changed leaves every
\* live instance published.
LEMMA DrainPublishes ==
    ASSUME TypeOK, UnmarkedPublished, NEW changes \in SUBSET Values,
           runtime' \in Requests, UNCHANGED live,
           \A v \in Values \ changes : runtime'[v] = runtime[v],
           PublishDrained(Marked(changes))
    PROVE  /\ dirty' = {} /\ dsp' \in [Instances -> [Fields -> Val]]
           /\ UnmarkedPublished'
<1>1. dirty' = {}
  BY DEF PublishDrained
<1>2. \A i \in Instances, f \in Fields : <<i, f>> \in Values
  BY DEF Values
<1>3. dsp' \in [Instances -> [Fields -> Val]]
  BY <1>2 DEF PublishDrained, Published, TypeOK, Requests
<1>4. ASSUME NEW i \in live, NEW f \in Fields
      PROVE  dsp'[i][f] = runtime'[<<i, f>>]
  <2>1. i \in Instances /\ <<i, f>> \in Values
    BY <1>2 DEF TypeOK
  <2>2. CASE i \in Marked(changes)
    BY <2>1, <2>2 DEF PublishDrained, Published
  <2>3. CASE i \notin Marked(changes)
    <3>1. i \notin dirty /\ <<i, f>> \notin changes
      BY <2>3 DEF Marked
    <3>2. dsp'[i] = dsp[i]
      BY <2>1, <2>3 DEF PublishDrained, Published
    <3> QED
      BY <2>1, <3>1, <3>2 DEF UnmarkedPublished
  <2> QED
    BY <2>2, <2>3
<1> QED
  BY <1>1, <1>3, <1>4 DEF UnmarkedPublished

\* Marking without draining keeps every instance marked or published.
LEMMA MarkingKeeps ==
    ASSUME TypeOK, UnmarkedPublished, NEW changes \in SUBSET Values,
           UNCHANGED <<live, dsp>>,
           \A v \in Values \ changes : runtime'[v] = runtime[v],
           dirty' = Marked(changes)
    PROVE  dirty' \subseteq Instances /\ UnmarkedPublished'
<1>1. dirty' \subseteq Instances
  BY DEF Marked, TypeOK, Values
<1>2. ASSUME NEW i \in live \ dirty', NEW f \in Fields
      PROVE  dsp[i][f] = runtime'[<<i, f>>]
  <2>1. i \notin dirty /\ <<i, f>> \notin changes /\ <<i, f>> \in Values
    BY DEF Marked, Values, TypeOK
  <2> QED
    BY <2>1 DEF UnmarkedPublished
<1> QED
  BY <1>1, <1>2 DEF UnmarkedPublished

\* The changed values of a batch are values of live instances.
LEMMA ChangedValues ==
    ASSUME TypeOK, NEW new
    PROVE  Changed(new) \in SUBSET Values
BY DEF Changed, LiveValues, Values, TypeOK

-----------------------------------------------------------------------------
(* The invariant.                                                          *)

\* The invariant holds at first.
LEMMA InitInv == Init => IInv
<1> SUFFICES ASSUME Init PROVE IInv
  OBVIOUS
<1> USE DEF Init
<1>1. Fresh \in [Slots -> Val] /\ 0 \in Slots
  BY DefaultAssumption, SlotsClosed DEF Fresh
<1>2. TypeOK
  BY <1>1, DefaultAssumption DEF TypeOK, Requests
<1>3. SlotsAgree /\ ObserversCurrent
  BY CapacityAssumption, SMT DEF SlotsAgree, ObserversCurrent, Registered, LiveValues
<1>4. AbsentFresh /\ UnmarkedPublished /\ NothingMarked
  BY DEF AbsentFresh, UnmarkedPublished, NothingMarked
<1> QED
  BY <1>2, <1>3, <1>4 DEF IInv, TreeInv

\* The invariant is inductive.
LEMMA StepInv == IInv /\ [Next]_vars => IInv'
<1> SUFFICES ASSUME IInv, [Next]_vars PROVE IInv'
  OBVIOUS
<1> USE DEF IInv, TreeInv
<1>1. ASSUME NEW new \in Requests, HistoryWrite(new) \/ BankCommit(new)
      PROVE  IInv'
  <2> USE <1>1 DEF HistoryWrite, BankCommit
  <2>1. CommitAtNextPoint(new) /\ UNCHANGED live
    OBVIOUS
  <2>2. AdvanceCursor
    BY <2>1 DEF CommitAtNextPoint
  <2>3. dirty' = {} /\ dsp' \in [Instances -> [Fields -> Val]] /\ UnmarkedPublished'
    BY <2>1, CommitAtNextPointKeepsTree, ChangedValues, DrainPublishes
  <2>4. TypeOK'
    BY <2>1, <2>2, <2>3, AdvanceType, CommitAtNextPointKeepsTree DEF TypeOK
  <2> QED
    BY <2>1, <2>3, <2>4, CommitAtNextPointKeepsTree DEF NothingMarked
<1>2. ASSUME NEW new \in Requests,
             PlainWrite(new) \/ TopologyWrite(new) \/ \E g \in Gestures : GestureWrite(g, new)
      PROVE  IInv'
  <2> USE <1>2 DEF PlainWrite, TopologyWrite, GestureWrite
  <2>1. CommitHere(new) /\ UNCHANGED live
    OBVIOUS
  <2>2. dirty' = {} /\ dsp' \in [Instances -> [Fields -> Val]] /\ UnmarkedPublished'
    BY <2>1, CommitHereKeepsTree, ChangedValues, DrainPublishes
  <2>3. TypeOK'
    BY <2>1, <2>2, CommitHereKeepsTree DEF TypeOK, CommitHere, KeepCursor, cursorVars
  <2> QED
    BY <2>1, <2>2, <2>3, CommitHereKeepsTree DEF NothingMarked
<1>3. ASSUME NEW g \in Gestures, BeginHistory(g)
      PROVE  IInv'
  <2> USE <1>3 DEF BeginHistory
  <2> DEFINE moved == CopiedSlots(currentSlot, currentSlot')
  <2>1. /\ currentSlot' \in Slots /\ slot' \in [Values -> Slots]
        /\ slot' = MovedTo(currentSlot') /\ slots' = moved
    BY AdvanceType DEF AdvanceCursor
  <2>2. slots' \in [Values -> [Slots -> Val]]
    BY <2>1 DEF TypeOK, CopiedSlots
  <2>3. TypeOK'
    BY <2>2, AdvanceType DEF TypeOK
  <2>4. SlotsAgree'
    BY <2>1, AdvanceType
       DEF SlotsAgree, MovedTo, Registered, LiveValues, Fields, Values, TypeOK
  <2>5. \A v \in LiveValues : slots'[v][slot'[v]] = Effective(v)
    <3> SUFFICES ASSUME NEW v \in LiveValues
                 PROVE  moved[v][slot'[v]] = Effective(v)
      BY <2>1
    <3>0. v \in Values
      BY DEF LiveValues, Values, TypeOK
    <3>1. CASE v \in Registered
      BY <2>1, <3>0, <3>1 DEF CopiedSlots, MovedTo, Effective, SlotsAgree, TypeOK
    <3>2. CASE v \notin Registered
      BY <2>1, <3>0, <3>2 DEF CopiedSlots, MovedTo, Effective
    <3> QED
      BY <3>1, <3>2
  <2>6. ObserversCurrent'
    BY <2>5 DEF ObserversCurrent, Effective, LiveValues
  <2>7. AbsentFresh'
    <3> SUFFICES ASSUME NEW v \in Values \ LiveValues
                 PROVE  slots'[v] = Fresh /\ slot'[v] = 0 /\ runtime'[v] = Default
      BY DEF AbsentFresh, LiveValues, Fresh
    <3>1. v \notin Registered
      BY DEF Registered, LiveValues, Fields
    <3> QED
      BY <2>1, <3>1 DEF AbsentFresh, CopiedSlots, MovedTo
  <2> QED
    BY <2>3, <2>4, <2>6, <2>7 DEF UnmarkedPublished, NothingMarked, GateFree
<1>4. ASSUME NEW g \in Gestures, EndHistory(g)
      PROVE  IInv'
  BY <1>4 DEF EndHistory, stateVars, cursorVars, TypeOK, SlotsAgree, ObserversCurrent,
     Effective, AbsentFresh, Fresh, LiveValues, Registered, UnmarkedPublished,
     NothingMarked, GateFree
<1>5. ASSUME NEW cursor \in Slots, JumpToHistory(cursor)
      PROVE  IInv'
  <2> USE <1>5 DEF JumpToHistory
  <2> DEFINE target == MoveSlot(currentSlot, cursor - undo)
             moved == {v \in Registered : slots[v][target] # Remembered[v]}
  <2>1. target \in Slots
    <3>1. cursor - undo \in Int
      BY DEF TypeOK, Slots
    <3> QED
      BY <3>1, SlotsClosed DEF TypeOK
  <2>2. slot' = MovedTo(target) /\ slot' \in [Values -> Slots]
    BY <2>1 DEF MovedTo, TypeOK
  <2>3. moved \in SUBSET Values
    BY DEF Registered, Values, Fields, TypeOK
  <2>4. /\ runtime' = [v \in Values |-> IF v \in moved THEN slots[v][target]
                                                       ELSE runtime[v]]
        /\ PublishDrained(Marked(moved))
    OBVIOUS
  <2>5. runtime' \in Requests /\ \A v \in Values \ moved : runtime'[v] = runtime[v]
    <3> HIDE <1>5 DEF moved, JumpToHistory, target
    <3>1. target \in Slots /\ runtime \in [Values -> Val]
          /\ slots \in [Values -> [Slots -> Val]]
      BY <2>1 DEF TypeOK, Requests
    <3> QED
      BY <2>4, <3>1 DEF Requests
  <2>6. dirty' = {} /\ dsp' \in [Instances -> [Fields -> Val]] /\ UnmarkedPublished'
    <3> HIDE DEF moved
    <3> QED
      BY <2>3, <2>4, <2>5, DrainPublishes
  <2>7. previous' \in Requests
    BY DEF TypeOK, Remembered, Requests, Effective
  <2>8. undo' \in Nat /\ redo' \in Nat /\ undo' + redo' < Capacity
    BY SMT DEF TypeOK, SlotsAgree
  <2>9. TypeOK'
    BY <2>1, <2>2, <2>5, <2>6, <2>7, <2>8 DEF TypeOK
  <2>10. SlotsAgree'
    BY <2>1, <2>2, <2>8
       DEF SlotsAgree, MovedTo, Registered, LiveValues, Fields, Values, TypeOK
  <2>11. ObserversCurrent'
    <3> SUFFICES ASSUME NEW v \in LiveValues
                 PROVE  runtime'[v] = slots[v][slot'[v]]
      BY DEF ObserversCurrent, Effective, LiveValues
    <3>0. v \in Values
      BY DEF LiveValues, Values, TypeOK
    <3>1. CASE v \in moved
      BY <2>2, <2>4, <3>0, <3>1 DEF MovedTo
    <3>2. CASE v \in Registered \ moved
      <4>1. slots[v][target] = Effective(v) /\ slot'[v] = target
        BY <2>2, <3>0, <3>2 DEF Remembered, MovedTo
      <4> QED
        BY <2>4, <3>0, <3>2, <4>1 DEF ObserversCurrent
    <3>3. CASE v \notin Registered
      BY <2>2, <2>4, <3>0, <3>3 DEF MovedTo, ObserversCurrent, Effective
    <3> QED
      BY <3>1, <3>2, <3>3
  <2>12. AbsentFresh'
    <3> SUFFICES ASSUME NEW v \in Values \ LiveValues
                 PROVE  slots'[v] = Fresh /\ slot'[v] = 0 /\ runtime'[v] = Default
      BY DEF AbsentFresh, LiveValues, Fresh
    <3>1. v \notin Registered
      BY DEF Registered, LiveValues, Fields
    <3> QED
      BY <2>2, <2>4, <3>1 DEF AbsentFresh, MovedTo
  <2> QED
    BY <2>6, <2>9, <2>10, <2>11, <2>12 DEF NothingMarked
<1>6. ASSUME NEW members \in SUBSET Instances, BeginGroupReset(members)
      PROVE  IInv'
  BY <1>6 DEF BeginGroupReset, stateVars, cursorVars, TypeOK, SlotsAgree,
     ObserversCurrent, Effective, AbsentFresh, Fresh, LiveValues, Registered,
     UnmarkedPublished, NothingMarked, GateFree
<1>7. ASSUME NEW i \in Instances, ResetMember(i)
      PROVE  IInv'
  <2> DEFINE new == ResetOf(i)
             changes == Changed(new)
  <2>1. new \in Requests
    BY DefaultAssumption DEF ResetOf, Requests, Effective, TypeOK
  <2>2. /\ CommitAtNextPoint(new) \/ CommitHere(new)
        /\ UNCHANGED <<live, removed, open>>
        /\ resetting' = resetting \ {i}
        /\ \/ resetting' = {} /\ PublishDrained(Marked(changes))
           \/ resetting' # {} /\ dirty' = Marked(changes) /\ UNCHANGED dsp
    BY <1>7 DEF ResetMember
  <2> HIDE DEF new
  <2>3. /\ slots' \in [Values -> [Slots -> Val]] /\ runtime' \in Requests
        /\ SlotsAgree' /\ ObserversCurrent' /\ AbsentFresh'
        /\ \A v \in Values \ changes : runtime'[v] = runtime[v]
    BY <2>1, <2>2, CommitAtNextPointKeepsTree, CommitHereKeepsTree
  <2>4. /\ currentSlot' \in Slots /\ undo' \in Nat /\ redo' \in Nat
        /\ slot' \in [Values -> Slots] /\ previous' \in Requests
    BY <2>2, AdvanceType
       DEF CommitAtNextPoint, CommitHere, KeepCursor, cursorVars, TypeOK
  <2>5. changes \in SUBSET Values
    BY ChangedValues
  <2>6. CASE resetting' = {}
    <3>1. dirty' = {} /\ dsp' \in [Instances -> [Fields -> Val]] /\ UnmarkedPublished'
      BY <2>2, <2>3, <2>5, <2>6, DrainPublishes
    <3> QED
      BY <2>2, <2>3, <2>4, <2>6, <3>1 DEF TypeOK, NothingMarked
  <2>7. CASE resetting' # {}
    <3>1. dirty' \subseteq Instances /\ UnmarkedPublished'
      BY <2>2, <2>3, <2>5, <2>7, MarkingKeeps
    <3> QED
      BY <2>2, <2>3, <2>4, <2>7, <3>1 DEF TypeOK, NothingMarked, GateFree
  <2> QED
    BY <2>6, <2>7
<1>8. ASSUME NEW i \in Instances, NEW baseline \in [Fields -> Val], Restore(i, baseline)
      PROVE  IInv'
  <2> DEFINE restored == {v \in LiveValues : v[1] = i}
             changes == {v \in restored : Effective(v) # baseline[v[2]]}
             rebased == {v \in restored : \E s \in Slots : slots[v][s] # baseline[v[2]]}
  <2>1. /\ slots' = [v \in Values |-> IF v \in rebased
                                      THEN [s \in Slots |-> baseline[v[2]]]
                                      ELSE slots[v]]
        /\ previous' = [v \in Values |-> IF v \in rebased THEN baseline[v[2]]
                                                          ELSE previous[v]]
        /\ runtime' = [v \in Values |-> IF v \in changes THEN baseline[v[2]]
                                                         ELSE runtime[v]]
        /\ UNCHANGED <<live, removed, slot, cursorVars, resetting, open>>
        /\ PublishDrained(Marked(changes))
    BY <1>8 DEF Restore
  <2>2. changes \in SUBSET Values /\ rebased \in SUBSET Values
    BY DEF LiveValues, Values, TypeOK
  <2>3. \A v \in Values : baseline[v[2]] \in Val
    BY DEF Values
  <2>4. changes \subseteq rebased
    BY DEF Effective, TypeOK, LiveValues, Values
  <2>5. \A v \in LiveValues : slots'[v][slot[v]]
                              = IF v \in changes THEN baseline[v[2]] ELSE Effective(v)
    <3> SUFFICES ASSUME NEW v \in LiveValues
                 PROVE  slots'[v][slot[v]]
                        = IF v \in changes THEN baseline[v[2]] ELSE Effective(v)
      OBVIOUS
    <3>0. v \in Values /\ slot[v] \in Slots
      BY DEF LiveValues, Values, TypeOK
    <3>1. CASE v \in changes
      BY <2>1, <2>4, <3>0, <3>1
    <3>2. CASE v \in rebased \ changes
      BY <2>1, <3>0, <3>2
    <3>3. CASE v \notin rebased
      BY <2>1, <2>4, <3>0, <3>3 DEF Effective
    <3> QED
      BY <3>1, <3>2, <3>3
  <2>6. \A v \in Values \ LiveValues : v \notin changes /\ v \notin rebased
    OBVIOUS
  <2> HIDE DEF changes, rebased
  <2>7. /\ slots' \in [Values -> [Slots -> Val]] /\ previous' \in Requests
        /\ runtime' \in Requests
        /\ \A v \in Values \ changes : runtime'[v] = runtime[v]
    <3>1. slots' \in [Values -> [Slots -> Val]]
      BY <2>1, <2>3 DEF TypeOK
    <3>2. previous' \in Requests /\ runtime' \in Requests
      BY <2>1, <2>3 DEF TypeOK, Requests
    <3> QED
      BY <2>1, <3>1, <3>2
  <2>8. dirty' = {} /\ dsp' \in [Instances -> [Fields -> Val]] /\ UnmarkedPublished'
    BY <2>1, <2>2, <2>7, DrainPublishes
  <2>9. TypeOK'
    BY <2>1, <2>7, <2>8 DEF TypeOK, cursorVars
  <2>10. SlotsAgree' /\ ObserversCurrent'
    <3>1. SlotsAgree'
      BY <2>1 DEF SlotsAgree, cursorVars, Registered, LiveValues
    <3>2. ASSUME NEW v \in LiveValues
          PROVE  runtime'[v] = slots'[v][slot'[v]]
      <4>1. v \in Values
        BY DEF LiveValues, Values, TypeOK
      <4> QED
        BY <2>1, <2>5, <4>1 DEF ObserversCurrent
    <3> QED
      BY <2>1, <3>1, <3>2 DEF ObserversCurrent, Effective, LiveValues
  <2>11. AbsentFresh'
    BY <2>1, <2>6 DEF AbsentFresh, LiveValues, Fresh
  <2> QED
    BY <2>8, <2>9, <2>10, <2>11 DEF NothingMarked
<1>9. ASSUME NEW i \in Instances, RegisterInstance(i)
      PROVE  IInv'
  <2>1. /\ i \notin live /\ live' = live \cup {i} /\ GateFree
        /\ slot' = [v \in Values |-> IF v \in {i} \X HistoryFields
                                     THEN currentSlot ELSE slot[v]]
        /\ UNCHANGED <<removed, slots, previous, runtime, currentSlot, undo, redo,
                       resetting, open>>
        /\ dsp' = Published((dirty \cup {i}) \cap live') /\ dirty' = {}
    BY <1>9 DEF RegisterInstance, PublishDrained, cursorVars
  <2>2. slot' \in [Values -> Slots]
    BY <2>1 DEF TypeOK
  <2>3. \A j \in Instances, f \in Fields : <<j, f>> \in Values
    BY DEF Values
  <2>4. dsp' \in [Instances -> [Fields -> Val]]
    BY <2>1, <2>3 DEF Published, TypeOK, Requests
  <2>5. TypeOK'
    BY <2>1, <2>2, <2>4 DEF TypeOK
  <2>6. SlotsAgree'
    <3>1. ASSUME NEW v \in live' \X HistoryFields
          PROVE  slot'[v] = currentSlot
      <4>1. v \in Values
        BY <2>1 DEF Values, Fields, TypeOK
      <4>2. CASE v \in Registered
        BY <2>1, <4>1, <4>2 DEF SlotsAgree, Registered
      <4>3. CASE v \notin Registered
        BY <2>1, <4>1, <4>3 DEF Registered
      <4> QED
        BY <4>2, <4>3
    <3>2. ASSUME NEW v \in (live' \X Fields) \ (live' \X HistoryFields)
          PROVE  slot'[v] = 0
      <4>1. v \in Values /\ v \notin {i} \X HistoryFields /\ v \notin Registered
        BY <2>1 DEF Values, TypeOK, Registered
      <4>2. slot'[v] = slot[v]
        BY <2>1, <4>1
      <4> QED
        BY <2>1, <4>1, <4>2 DEF SlotsAgree, AbsentFresh, LiveValues
    <3> QED
      BY <2>1, <3>1, <3>2 DEF SlotsAgree, Registered, LiveValues
  <2>7. ObserversCurrent'
    <3> SUFFICES ASSUME NEW v \in live' \X Fields
                 PROVE  runtime[v] = slots[v][slot'[v]]
      BY <2>1 DEF ObserversCurrent, LiveValues, Effective
    <3>1. v \in Values /\ slot'[v] \in Slots
      BY <2>1, <2>2 DEF Values, TypeOK
    <3>2. CASE v \in LiveValues
      <4>1. slot'[v] = slot[v]
        BY <2>1, <3>1, <3>2 DEF LiveValues
      <4> QED
        BY <3>2, <4>1 DEF ObserversCurrent, Effective
    <3>3. CASE v \notin LiveValues
      BY <3>1, <3>3 DEF AbsentFresh, Fresh
    <3> QED
      BY <3>2, <3>3
  <2>8. AbsentFresh'
    <3> SUFFICES ASSUME NEW v \in Values, v \notin live' \X Fields
                 PROVE  slots[v] = Fresh /\ slot'[v] = 0 /\ runtime[v] = Default
      BY <2>1 DEF AbsentFresh, LiveValues, Fresh
    <3>1. v \notin LiveValues /\ v \notin {i} \X HistoryFields
      BY <2>1 DEF LiveValues, Fields
    <3> QED
      BY <2>1, <3>1 DEF AbsentFresh
  <2>9. UnmarkedPublished'
    <3> SUFFICES ASSUME NEW j \in live', NEW f \in Fields
                 PROVE  dsp'[j][f] = runtime'[<<j, f>>]
      BY DEF UnmarkedPublished
    <3>1. j \in Instances
      BY <2>1 DEF TypeOK
    <3>2. CASE j \in dirty \cup {i}
      BY <2>1, <3>1, <3>2 DEF Published
    <3>3. CASE j \notin dirty \cup {i}
      BY <2>1, <3>1, <3>3 DEF Published, UnmarkedPublished
    <3> QED
      BY <3>2, <3>3
  <2> QED
    BY <2>1, <2>5, <2>6, <2>7, <2>8, <2>9 DEF NothingMarked
<1>10. ASSUME NEW i \in Instances, UnregisterInstance(i)
       PROVE  IInv'
  <2>1. /\ live' = live \ {i} /\ removed' = removed \cup {i} /\ i \in live
        /\ slots' = [v \in Values |-> IF v[1] = i THEN Fresh ELSE slots[v]]
        /\ slot' = [v \in Values |-> IF v[1] = i THEN 0 ELSE slot[v]]
        /\ previous' = [v \in Values |-> IF v[1] = i THEN Default ELSE previous[v]]
        /\ runtime' = [v \in Values |-> IF v[1] = i THEN Default ELSE runtime[v]]
        /\ UNCHANGED <<currentSlot, undo, redo, resetting, open>>
        /\ dsp' = Published(dirty \cap live') /\ dirty' = {}
    BY <1>10 DEF UnregisterInstance, PublishDrained, cursorVars
  <2>2. Fresh \in [Slots -> Val] /\ 0 \in Slots
    BY DefaultAssumption, SlotsClosed DEF Fresh
  <2>3. \A j \in Instances, f \in Fields : <<j, f>> \in Values
    BY DEF Values
  <2>4. /\ slots' \in [Values -> [Slots -> Val]] /\ slot' \in [Values -> Slots]
        /\ previous' \in Requests /\ runtime' \in Requests
    BY <2>1, <2>2, DefaultAssumption DEF TypeOK, Requests
  <2>5. dsp' \in [Instances -> [Fields -> Val]]
    BY <2>1, <2>3, <2>4 DEF Published, TypeOK, Requests
  <2>6. TypeOK'
    BY <2>1, <2>4, <2>5 DEF TypeOK
  <2>7. \A v \in live' \X Fields :
            /\ v \in LiveValues /\ v \in Values
            /\ slots'[v] = slots[v] /\ slot'[v] = slot[v] /\ runtime'[v] = runtime[v]
    BY <2>1 DEF LiveValues, Values, TypeOK
  <2>8. SlotsAgree'
    <3>1. \A v \in live' \X HistoryFields : slot'[v] = currentSlot
      BY <2>1, <2>7 DEF SlotsAgree, Registered, Fields
    <3>2. \A v \in (live' \X Fields) \ (live' \X HistoryFields) : slot'[v] = 0
      BY <2>1, <2>7 DEF SlotsAgree, Registered, LiveValues
    <3> QED
      BY <2>1, <3>1, <3>2 DEF SlotsAgree, Registered, LiveValues
  <2>9. ObserversCurrent'
    BY <2>7 DEF ObserversCurrent, Effective, LiveValues
  <2>10. AbsentFresh'
    <3> SUFFICES ASSUME NEW v \in Values, v \notin live' \X Fields
                 PROVE  slots'[v] = Fresh /\ slot'[v] = 0 /\ runtime'[v] = Default
      BY DEF AbsentFresh, LiveValues, Fresh
    <3>1. CASE v[1] = i
      BY <2>1, <3>1
    <3>2. CASE v[1] # i
      <4>1. v \notin LiveValues
        BY <2>1, <3>2 DEF LiveValues
      <4> QED
        BY <2>1, <3>2, <4>1 DEF AbsentFresh
    <3> QED
      BY <3>1, <3>2
  <2>11. UnmarkedPublished'
    <3> SUFFICES ASSUME NEW j \in live', NEW f \in Fields
                 PROVE  dsp'[j][f] = runtime'[<<j, f>>]
      BY DEF UnmarkedPublished
    <3>1. j \in Instances /\ j \in live
      BY <2>1 DEF TypeOK
    <3>2. CASE j \in dirty
      BY <2>1, <3>1, <3>2 DEF Published
    <3>3. CASE j \notin dirty
      <4>1. runtime'[<<j, f>>] = runtime[<<j, f>>]
        BY <2>7
      <4> QED
        BY <2>1, <3>1, <3>3, <4>1 DEF Published, UnmarkedPublished
    <3> QED
      BY <3>2, <3>3
  <2> QED
    BY <2>1, <2>6, <2>8, <2>9, <2>10, <2>11 DEF NothingMarked
<1>11. CASE UNCHANGED vars
  BY <1>11 DEF vars, stateVars, cursorVars, TypeOK, SlotsAgree, ObserversCurrent,
     Effective, AbsentFresh, Fresh, LiveValues, Registered, UnmarkedPublished,
     NothingMarked, GateFree
<1> QED
  BY <1>1, <1>2, <1>3, <1>4, <1>5, <1>6, <1>7, <1>8, <1>9, <1>10, <1>11 DEF Next

\* The strengthened invariant holds in every reachable state.
THEOREM Invariance == Spec => []IInv
<1> QED
  BY InitInv, StepInv, PTL DEF Spec

\* Types are kept by every command, restore, registration and removal.
THEOREM TypeCorrect == Spec => []TypeOK
<1>1. IInv => TypeOK
  BY DEF IInv, TreeInv
<1> QED
  BY <1>1, Invariance, PTL

\* Every registered value stands at the shared slot, also after any sequence of
\* jumps and late registrations, and the reachable points never overlap.
THEOREM SlotsStayInStep == Spec => []SlotsAgree
<1>1. IInv => SlotsAgree
  BY DEF IInv, TreeInv
<1> QED
  BY <1>1, Invariance, PTL

\* No sequence of commands leaves an observer with a value the tree no longer has.
THEOREM ObserversNeverStale == Spec => []ObserversCurrent
<1>1. IInv => ObserversCurrent
  BY DEF IInv, TreeInv
<1> QED
  BY <1>1, Invariance, PTL

\* Whenever the gate is free, every live instance's DSP has the tree's values.
THEOREM DspNeverStale == Spec => []DspCurrent
<1>1. IInv => DspCurrent
  <2> SUFFICES ASSUME IInv, GateFree, NEW i \in live, NEW f \in Fields
               PROVE  dirty = {} /\ dsp[i][f] = Effective(<<i, f>>)
    BY DEF DspCurrent, IInv, NothingMarked
  <2>1. dirty = {}
    BY DEF IInv, NothingMarked
  <2>2. <<i, f>> \in LiveValues
    BY DEF LiveValues
  <2> QED
    BY <2>1, <2>2 DEF IInv, TreeInv, UnmarkedPublished, ObserversCurrent
<1> QED
  BY <1>1, Invariance, PTL

\* Undo and redo never restore a mute, a bypass or another plain value,
\* however far the jump goes.
THEOREM JumpsKeepPlainValues == Spec => PlainValuesSurviveJumps
<1>1. IInv => JumpKeepsPlain
  <2> SUFFICES ASSUME IInv, NEW k \in Slots, JumpToHistory(k),
                      NEW v \in live \X PlainFields
               PROVE  Effective(v)' = Effective(v)
    BY DEF JumpKeepsPlain
  <2>1. v \in Values /\ v \notin Registered
    BY FieldsAssumption DEF IInv, TreeInv, TypeOK, Values, Fields, Registered
  <2>2. slot' = MovedTo(currentSlot') /\ slots' = slots
    BY DEF JumpToHistory
  <2> QED
    BY <2>1, <2>2 DEF MovedTo, Effective
<1> QED
  BY <1>1, Invariance, PTL DEF PlainValuesSurviveJumps

-----------------------------------------------------------------------------
(***************************************************************************)
(* The ring of slots implements the timeline of AbstractHistory, for every *)
(* capacity.  The heart of it is arithmetic: the points 0..undo+redo sit in*)
(* pairwise different slots, a new point takes the slot after the current  *)
(* one, which is the oldest point's exactly when the ring is full, and a   *)
(* jump renumbers no point.                                                *)
(***************************************************************************)

Cells == Instances \X HistoryFields
Now(c) == slots[c][currentSlot]
Points == 0..(undo + redo)

-----------------------------------------------------------------------------
(* Where the points are.                                                   *)

\* Two laps over the end come back to the beginning.
LEMMA ModTwoLaps ==
    ASSUME NEW x \in (2 * Capacity)..(3 * Capacity - 1)
    PROVE  x % Capacity = x - 2 * Capacity
BY CapacityAssumption, SMT

\* MoveSlot counts along the ring and wraps at either end.
LEMMA MoveSlotValue ==
    ASSUME NEW s \in Slots, NEW d \in (1 - Capacity)..(Capacity - 1)
    PROVE  MoveSlot(s, d) = IF s + d < 0 THEN s + d + Capacity
                            ELSE IF s + d < Capacity THEN s + d
                            ELSE s + d - Capacity
<1> DEFINE x == s + Capacity + d
<1>1. MoveSlot(s, d) = x % Capacity
  BY DEF MoveSlot
<1>2. s \in Int /\ d \in Int /\ 0 <= s /\ s < Capacity /\ 1 - Capacity <= d /\ d < Capacity
  BY CapacityAssumption, SMT DEF Slots
<1>3. CASE s + d < 0
  <2>1. x \in 0..(Capacity - 1)
    BY <1>2, <1>3, CapacityAssumption, SMT
  <2>2. x % Capacity = x
    BY <2>1, ModSmall
  <2> QED
    BY <1>1, <1>2, <1>3, <2>2, CapacityAssumption, SMT
<1>4. CASE 0 <= s + d /\ s + d < Capacity
  <2>1. x \in Capacity..(2 * Capacity - 1)
    BY <1>2, <1>4, CapacityAssumption, SMT
  <2>2. x % Capacity = x - Capacity
    BY <2>1, ModLap
  <2> QED
    BY <1>1, <1>2, <1>4, <2>2, CapacityAssumption, SMT
<1>5. CASE Capacity <= s + d
  <2>1. x \in (2 * Capacity)..(3 * Capacity - 1)
    BY <1>2, <1>5, CapacityAssumption, SMT
  <2>2. x % Capacity = x - 2 * Capacity
    BY <2>1, ModTwoLaps
  <2> QED
    BY <1>1, <1>2, <1>5, <2>2, CapacityAssumption, SMT
<1> QED
  BY <1>2, <1>3, <1>4, <1>5, CapacityAssumption, SMT

\* NextSlot is the slot one further along.
LEMMA NextSlotValue ==
    ASSUME NEW s \in Slots
    PROVE  NextSlot(s) = IF s + 1 < Capacity THEN s + 1 ELSE 0
<1>1. s \in Int /\ 0 <= s /\ s < Capacity
  BY CapacityAssumption, SMT DEF Slots
<1>2. CASE s + 1 < Capacity
  BY <1>1, <1>2, ModSmall, CapacityAssumption, SMT DEF NextSlot
<1>3. CASE s + 1 = Capacity
  <2> DEFINE x == s + 1
  <2>1. x \in Capacity..(2 * Capacity - 1)
    BY <1>1, <1>3, CapacityAssumption, SMT
  <2>2. x % Capacity = x - Capacity
    BY <2>1, ModLap
  <2> QED
    BY <1>1, <1>3, <2>2, CapacityAssumption, SMT DEF NextSlot
<1> QED
  BY <1>1, <1>2, <1>3, CapacityAssumption, SMT

\* The slot of point k when the cursor is at point u and slot s.
LEMMA PointSlotValue ==
    ASSUME NEW s \in Slots, NEW u \in Slots, NEW k \in Slots
    PROVE  /\ MoveSlot(s, k - u) \in Slots
           /\ MoveSlot(s, k - u) = IF s + k - u < 0 THEN s + k - u + Capacity
                                   ELSE IF s + k - u < Capacity THEN s + k - u
                                   ELSE s + k - u - Capacity
<1>1. /\ s \in Int /\ u \in Int /\ k \in Int
      /\ 0 <= k /\ k < Capacity /\ 0 <= u /\ u < Capacity
  BY CapacityAssumption, SMT DEF Slots
<1>2. k - u \in (1 - Capacity)..(Capacity - 1) /\ k - u \in Int
  BY <1>1, CapacityAssumption, SMT
<1>3. s + (k - u) = s + k - u
  BY <1>1, SMT
<1> QED
  BY <1>2, <1>3, MoveSlotValue, SlotsClosed

\* The cursor's own point is in the current slot, and no other point is.
LEMMA CurrentPoint ==
    ASSUME NEW s \in Slots, NEW u \in Slots
    PROVE  /\ MoveSlot(s, u - u) = s
           /\ \A k \in Slots \ {u} : MoveSlot(s, k - u) # s
<1>1. s \in 0..(Capacity - 1) /\ u \in 0..(Capacity - 1) /\ Slots = 0..(Capacity - 1)
  BY DEF Slots
<1>2. MoveSlot(s, u - u) = s
  <2>1. MoveSlot(s, u - u) = IF s + u - u < 0 THEN s + u - u + Capacity
                             ELSE IF s + u - u < Capacity THEN s + u - u
                             ELSE s + u - u - Capacity
    BY PointSlotValue
  <2> QED
    BY <1>1, <2>1, CapacityAssumption, SMT
<1>3. ASSUME NEW k \in Slots \ {u}
      PROVE  MoveSlot(s, k - u) # s
  <2>1. MoveSlot(s, k - u) = IF s + k - u < 0 THEN s + k - u + Capacity
                             ELSE IF s + k - u < Capacity THEN s + k - u
                             ELSE s + k - u - Capacity
    BY PointSlotValue
  <2> QED
    BY <1>1, <2>1, CapacityAssumption, SMT
<1> QED
  BY <1>2, <1>3

\* Taking a new point in the next slot moves no point that is kept: with room
\* left the points keep their numbers, and otherwise each is renumbered by one
\* and the new slot is the one of the oldest.
LEMMA AdvanceRenumbers ==
    ASSUME NEW s \in Slots, NEW u \in Slots
    PROVE  /\ \A k \in 0..u : u < Capacity - 1 =>
                 /\ MoveSlot(NextSlot(s), k - (u + 1)) = MoveSlot(s, k - u)
                 /\ MoveSlot(s, k - u) # NextSlot(s)
           /\ \A k \in 0..(u - 1) : u = Capacity - 1 =>
                 /\ MoveSlot(NextSlot(s), k - u) = MoveSlot(s, (k + 1) - u)
                 /\ MoveSlot(s, (k + 1) - u) # NextSlot(s)
<1>1. s \in 0..(Capacity - 1) /\ u \in 0..(Capacity - 1) /\ Slots = 0..(Capacity - 1)
  BY DEF Slots
<1>2. NextSlot(s) \in Slots /\ NextSlot(s) = IF s + 1 < Capacity THEN s + 1 ELSE 0
  BY NextSlotValue, SlotsClosed
<1> DEFINE n == NextSlot(s)
<1> HIDE DEF n
<1>3. ASSUME NEW k \in 0..u, u < Capacity - 1
      PROVE  MoveSlot(n, k - (u + 1)) = MoveSlot(s, k - u) /\ MoveSlot(s, k - u) # n
  <2>1. k \in Slots /\ u + 1 \in Slots
    BY <1>1, <1>3, CapacityAssumption, SMT
  <2>2. MoveSlot(s, k - u) = IF s + k - u < 0 THEN s + k - u + Capacity
                             ELSE IF s + k - u < Capacity THEN s + k - u
                             ELSE s + k - u - Capacity
    BY <2>1, PointSlotValue
  <2>3. MoveSlot(n, k - (u + 1)) =
            IF n + k - (u + 1) < 0 THEN n + k - (u + 1) + Capacity
            ELSE IF n + k - (u + 1) < Capacity THEN n + k - (u + 1)
            ELSE n + k - (u + 1) - Capacity
    BY <1>2, <2>1, PointSlotValue DEF n
  <2> QED
    BY <1>1, <1>2, <1>3, <2>2, <2>3, CapacityAssumption, SMT DEF n
<1>4. ASSUME NEW k \in 0..(u - 1), u = Capacity - 1
      PROVE  MoveSlot(n, k - u) = MoveSlot(s, (k + 1) - u) /\ MoveSlot(s, (k + 1) - u) # n
  <2>1. k \in Slots /\ k + 1 \in Slots
    BY <1>1, <1>4, CapacityAssumption, SMT
  <2>2. MoveSlot(s, (k + 1) - u) =
            IF s + (k + 1) - u < 0 THEN s + (k + 1) - u + Capacity
            ELSE IF s + (k + 1) - u < Capacity THEN s + (k + 1) - u
            ELSE s + (k + 1) - u - Capacity
    BY <2>1, PointSlotValue
  <2>3. MoveSlot(n, k - u) = IF n + k - u < 0 THEN n + k - u + Capacity
                             ELSE IF n + k - u < Capacity THEN n + k - u
                             ELSE n + k - u - Capacity
    BY <1>2, <2>1, PointSlotValue DEF n
  <2> QED
    BY <1>1, <1>2, <1>4, <2>2, <2>3, CapacityAssumption, SMT DEF n
<1> QED
  BY <1>3, <1>4 DEF n

\* A jump to point t changes the slot of no point.
LEMMA JumpRenumbersNothing ==
    ASSUME NEW s \in Slots, NEW u \in Slots, NEW t \in Slots, NEW k \in Slots
    PROVE  MoveSlot(MoveSlot(s, t - u), k - t) = MoveSlot(s, k - u)
<1>1. /\ s \in 0..(Capacity - 1) /\ u \in 0..(Capacity - 1)
      /\ t \in 0..(Capacity - 1) /\ k \in 0..(Capacity - 1)
  BY DEF Slots
<1> DEFINE m == MoveSlot(s, t - u)
<1>2. m \in Slots /\ m = IF s + t - u < 0 THEN s + t - u + Capacity
                         ELSE IF s + t - u < Capacity THEN s + t - u
                         ELSE s + t - u - Capacity
  BY PointSlotValue
<1>3. m \in 0..(Capacity - 1)
  BY <1>2 DEF Slots
<1> HIDE DEF m
<1>4. MoveSlot(m, k - t) = IF m + k - t < 0 THEN m + k - t + Capacity
                           ELSE IF m + k - t < Capacity THEN m + k - t
                           ELSE m + k - t - Capacity
  BY <1>2, PointSlotValue
<1>5. MoveSlot(s, k - u) = IF s + k - u < 0 THEN s + k - u + Capacity
                           ELSE IF s + k - u < Capacity THEN s + k - u
                           ELSE s + k - u - Capacity
  BY PointSlotValue
<1>6. MoveSlot(m, k - t) = MoveSlot(s, k - u)
  BY <1>1, <1>2, <1>3, <1>4, <1>5, CapacityAssumption, SMT
<1> QED
  BY <1>6 DEF m

-----------------------------------------------------------------------------
(* Steps of the ring are steps of the timeline.                            *)

\* The point the cursor is at after a step, as the abstract action names it.
PointNow == [c \in Cells |-> slots'[c][currentSlot']]

\* What the refinement needs of the invariant.
LEMMA RingFacts ==
    ASSUME IInv
    PROVE  /\ currentSlot \in Slots /\ undo \in Slots /\ redo \in Slots
           /\ undo + redo < Capacity /\ Points \subseteq Slots
           /\ \A c \in Cells : c \in Values /\ slots[c] \in [Slots -> Val]
<1>1. /\ currentSlot \in Slots /\ undo \in Nat /\ redo \in Nat
      /\ undo + redo < Capacity
  BY DEF IInv, TreeInv, TypeOK, SlotsAgree
<1>2. undo \in Slots /\ redo \in Slots /\ Points \subseteq Slots
  BY <1>1, CapacityAssumption, SMT DEF Slots, Points
<1>3. \A c \in Cells : c \in Values /\ slots[c] \in [Slots -> Val]
  BY DEF IInv, TreeInv, TypeOK, Cells, Values, Fields
<1> QED
  BY <1>1, <1>2, <1>3

\* The initial ring is a timeline of one point.
LEMMA RefInit == Init => Abstract!Init
<1> SUFFICES ASSUME Init PROVE Abstract!Init
  OBVIOUS
<1>1. Timeline = [k \in 0..0 |-> [c \in Cells |-> Default]]
  <2>1. 0..(undo + redo) = 0..0
    BY SMT DEF Init
  <2>2. ASSUME NEW k \in 0..0, NEW c \in Cells
        PROVE  slots[c][SlotOfPoint(k)] = Default
    <3>1. k = 0 /\ currentSlot = 0 /\ undo = 0 /\ 0 \in Slots
      BY SlotsClosed, SMT DEF Init
    <3>2. SlotOfPoint(k) \in Slots
      BY <3>1, SlotsClosed DEF SlotOfPoint
    <3>3. slots[c] = Fresh
      BY DEF Init, Cells, Values, Fields
    <3> QED
      BY <3>2, <3>3 DEF Fresh
  <2> QED
    BY <2>1, <2>2 DEF Timeline, Cells
<1>2. [c \in Cells |-> Default] \in Abstract!Point
  BY DefaultAssumption DEF Abstract!Point, Abstract!Cells, Cells
<1> QED
  BY <1>1, <1>2 DEF Abstract!Init, Init

\* A point taken in the next slot, all other slots kept, is a new point after
\* the cursor; in a full ring it replaces the oldest one.
LEMMA RefRecord ==
    ASSUME IInv, IInv', AdvanceCursor,
           \A c \in Cells, s \in Slots \ {currentSlot'} : slots'[c][s] = slots[c][s]
    PROVE  Abstract!Next
<1>1. /\ currentSlot \in Slots /\ undo \in Slots /\ redo \in Slots
      /\ undo + redo < Capacity /\ Points \subseteq Slots
      /\ \A c \in Cells : c \in Values /\ slots[c] \in [Slots -> Val]
  BY RingFacts
<1>2. currentSlot' = NextSlot(currentSlot) /\ currentSlot' \in Slots
  BY <1>1, SlotsClosed DEF AdvanceCursor
<1>3. PointNow \in Abstract!Point
  <2>1. \A c \in Cells : slots'[c] \in [Slots -> Val]
    BY <1>1 DEF IInv, TreeInv, TypeOK
  <2> QED
    BY <1>2, <2>1 DEF PointNow, Abstract!Point, Abstract!Cells, Cells
<1>4. undo \in 0..(Capacity - 1) /\ redo \in 0..(Capacity - 1)
  BY <1>1 DEF Slots
<1>5. redo' = 0 /\ undo' = IF undo < Capacity - 1 THEN undo + 1 ELSE undo
  BY <1>4, CapacityAssumption, SMT DEF AdvanceCursor, Smaller
<1>6. undo' \in Slots
  BY <1>4, <1>5, CapacityAssumption, SMT DEF Slots
<1>7. Timeline' = [k \in 0..undo' |->
                      [c \in Cells |-> slots'[c][MoveSlot(currentSlot', k - undo')]]]
  <2>1. undo' + redo' = undo'
    BY <1>4, <1>5, <1>6, SMT DEF Slots
  <2> QED
    BY <2>1 DEF Timeline, SlotOfPoint, Cells
<1>8. Timeline = [k \in Points |->
                      [c \in Cells |-> slots[c][MoveSlot(currentSlot, k - undo)]]]
  BY DEF Timeline, SlotOfPoint, Cells, Points
<1>9. MoveSlot(currentSlot', undo' - undo') = currentSlot'
  BY <1>2, <1>6, CurrentPoint
<1>10. CASE undo < Capacity - 1
  <2>1. undo' = undo + 1
    BY <1>5, <1>10
  <2>2. ASSUME NEW k \in 0..(undo + 1), k # undo + 1
        PROVE  /\ k \in Points /\ k \in 0..undo
               /\ \A c \in Cells : slots'[c][MoveSlot(currentSlot', k - undo')]
                                   = slots[c][MoveSlot(currentSlot, k - undo)]
    <3>1. k \in 0..undo /\ k \in Points /\ k - undo \in Int
      BY <1>4, <2>2, SMT DEF Points
    <3>2. MoveSlot(currentSlot', k - undo') = MoveSlot(currentSlot, k - undo)
      BY <1>1, <1>2, <1>10, <2>1, <3>1, AdvanceRenumbers
    <3>3. MoveSlot(currentSlot, k - undo) \in Slots \ {currentSlot'}
      BY <1>1, <1>2, <1>10, <3>1, AdvanceRenumbers, SlotsClosed
    <3> QED
      BY <3>1, <3>2, <3>3
  <2>3. Timeline' = [k \in 0..(undo + 1) |->
                        IF k = undo + 1 THEN PointNow ELSE Timeline[k]]
    <3>1. ASSUME NEW k \in 0..(undo + 1)
          PROVE  [c \in Cells |-> slots'[c][MoveSlot(currentSlot', k - undo')]]
                 = IF k = undo + 1 THEN PointNow ELSE Timeline[k]
      <4>1. CASE k = undo + 1
        BY <1>9, <2>1, <4>1 DEF PointNow
      <4>2. CASE k # undo + 1
        <5>1. k \in Points
          BY <2>2, <4>2
        <5>2. Timeline[k] = [c \in Cells |-> slots[c][MoveSlot(currentSlot, k - undo)]]
          BY <1>8, <5>1
        <5> QED
          BY <2>2, <4>2, <5>2
      <4> QED
        BY <4>1, <4>2
    <3> QED
      BY <1>7, <2>1, <3>1
  <2>4. Abstract!Record(PointNow)
    BY <1>10, <2>1, <2>3 DEF Abstract!Record, Abstract!Last
  <2> QED
    BY <1>3, <2>4 DEF Abstract!Next
<1>11. CASE undo = Capacity - 1
  <2>1. undo' = undo /\ redo = 0
    BY <1>1, <1>4, <1>5, <1>11, CapacityAssumption, SMT
  <2>2. ASSUME NEW k \in 0..(Capacity - 1), k # Capacity - 1
        PROVE  /\ k + 1 \in Points
               /\ \A c \in Cells : slots'[c][MoveSlot(currentSlot', k - undo')]
                                   = slots[c][MoveSlot(currentSlot, (k + 1) - undo)]
    <3>1. k \in 0..(undo - 1) /\ k + 1 \in Points /\ (k + 1) - undo \in Int
      BY <1>4, <1>11, <2>1, <2>2, CapacityAssumption, SMT DEF Points
    <3>2. MoveSlot(currentSlot', k - undo') = MoveSlot(currentSlot, (k + 1) - undo)
      BY <1>1, <1>2, <1>11, <2>1, <3>1, AdvanceRenumbers
    <3>3. MoveSlot(currentSlot, (k + 1) - undo) \in Slots \ {currentSlot'}
      BY <1>1, <1>2, <1>11, <3>1, AdvanceRenumbers, SlotsClosed
    <3> QED
      BY <3>1, <3>2, <3>3
  <2>3. Timeline' = [k \in 0..(Capacity - 1) |->
                        IF k = Capacity - 1 THEN PointNow ELSE Timeline[k + 1]]
    <3>1. ASSUME NEW k \in 0..(Capacity - 1)
          PROVE  [c \in Cells |-> slots'[c][MoveSlot(currentSlot', k - undo')]]
                 = IF k = Capacity - 1 THEN PointNow ELSE Timeline[k + 1]
      <4>1. CASE k = Capacity - 1
        BY <1>9, <1>11, <2>1, <4>1 DEF PointNow
      <4>2. CASE k # Capacity - 1
        <5>1. k + 1 \in Points
          BY <2>2, <4>2
        <5>2. Timeline[k + 1]
              = [c \in Cells |-> slots[c][MoveSlot(currentSlot, (k + 1) - undo)]]
          BY <1>8, <5>1
        <5> QED
          BY <2>2, <4>2, <5>2
      <4> QED
        BY <4>1, <4>2
    <3> QED
      BY <1>7, <1>11, <2>1, <3>1
  <2>4. Abstract!Record(PointNow)
    BY <1>11, <2>1, <2>3, CapacityAssumption, SMT DEF Abstract!Record, Abstract!Last
  <2> QED
    BY <1>3, <2>4 DEF Abstract!Next
<1> QED
  BY <1>4, <1>10, <1>11, CapacityAssumption, SMT

\* No slot but the one the cursor is at after the step changes.
OthersKept ==
    \A c \in Cells, s \in Slots \ {currentSlot'} : slots'[c][s] = slots[c][s]

\* A transaction writes history values at the current slot only, with or
\* without a point of its own.
LEMMA CommitKeepsOthers ==
    ASSUME IInv, NEW new \in Requests, UNCHANGED live,
           CommitAtNextPoint(new) \/ CommitHere(new)
    PROVE  OthersKept
<1> SUFFICES ASSUME NEW c \in Cells, NEW s \in Slots \ {currentSlot'}
             PROVE  slots'[c][s] = slots[c][s]
  BY DEF OthersKept
<1>1. c \in Values /\ slots \in [Values -> [Slots -> Val]] /\ currentSlot \in Slots
  BY RingFacts DEF IInv, TreeInv, TypeOK
<1>2. c \in LiveValues => c \in Registered
  BY DEF LiveValues, Registered, Cells
<1>3. CASE CommitAtNextPoint(new)
  <2>1. slot' = MovedTo(currentSlot') /\ currentSlot' \in Slots
    BY <1>1, <1>3, SlotsClosed DEF CommitAtNextPoint, AdvanceCursor
  <2>2. slots' = Committed(CopiedSlots(currentSlot, currentSlot'), new)
    BY <1>3 DEF CommitAtNextPoint
  <2>3. CopiedSlots(currentSlot, currentSlot')[c][s] = slots[c][s]
    BY <1>1, <2>1 DEF CopiedSlots
  <2>4. c \in Changed(new) => slot'[c] = currentSlot'
    BY <1>1, <1>2, <2>1 DEF Changed, MovedTo
  <2>5. CopiedSlots(currentSlot, currentSlot')[c] \in [Slots -> Val]
    BY <1>1, <2>1 DEF CopiedSlots
  <2>6. CASE c \in Changed(new)
    BY <1>1, <2>2, <2>3, <2>4, <2>5, <2>6 DEF Committed
  <2>7. CASE c \notin Changed(new)
    BY <1>1, <2>2, <2>3, <2>7 DEF Committed
  <2> QED
    BY <2>6, <2>7
<1>4. CASE CommitHere(new)
  <2>1. slots' = Committed(slots, new) /\ slot' = slot /\ currentSlot' = currentSlot
    BY <1>4 DEF CommitHere, KeepCursor, cursorVars
  <2>2. c \in Changed(new) => slot'[c] = currentSlot'
    BY <1>2, <2>1 DEF Changed, IInv, TreeInv, SlotsAgree
  <2>3. CASE c \in Changed(new)
    BY <1>1, <2>1, <2>2, <2>3 DEF Committed
  <2>4. CASE c \notin Changed(new)
    BY <1>1, <2>1, <2>4 DEF Committed
  <2> QED
    BY <2>3, <2>4
<1> QED
  BY <1>3, <1>4

\* An edit at the current slot with the cursor in place amends the cursor's point.
LEMMA RefAmend ==
    ASSUME IInv, IInv', UNCHANGED cursorVars, OthersKept
    PROVE  Abstract!Next
<1>1. /\ currentSlot \in Slots /\ undo \in Slots /\ redo \in Slots
      /\ undo + redo < Capacity /\ Points \subseteq Slots
      /\ \A c \in Cells : c \in Values /\ slots[c] \in [Slots -> Val]
  BY RingFacts
<1>2. currentSlot' = currentSlot /\ undo' = undo /\ redo' = redo
  BY DEF cursorVars
<1>3. PointNow \in Abstract!Point
  <2>1. \A c \in Cells : slots'[c] \in [Slots -> Val]
    BY <1>1 DEF IInv, TreeInv, TypeOK
  <2> QED
    BY <1>1, <1>2, <2>1 DEF PointNow, Abstract!Point, Abstract!Cells, Cells
<1>4. Timeline = [k \in Points |->
                      [c \in Cells |-> slots[c][MoveSlot(currentSlot, k - undo)]]]
  BY DEF Timeline, SlotOfPoint, Cells, Points
<1>5. Timeline' = [k \in Points |->
                      [c \in Cells |-> slots'[c][MoveSlot(currentSlot, k - undo)]]]
  BY <1>2 DEF Timeline, SlotOfPoint, Cells, Points
<1>6. undo \in Points /\ MoveSlot(currentSlot, undo - undo) = currentSlot
  BY <1>1, CurrentPoint, SMT DEF Points, Slots
<1>7. ASSUME NEW k \in Points
      PROVE  [c \in Cells |-> slots'[c][MoveSlot(currentSlot, k - undo)]]
             = [Timeline EXCEPT ![undo] = PointNow][k]
  <2>1. CASE k = undo
    BY <1>2, <1>4, <1>6, <2>1 DEF PointNow
  <2>2. CASE k # undo
    <3>1. k \in Slots \ {undo} /\ k - undo \in Int
      BY <1>1, <2>2 DEF Slots
    <3>2. MoveSlot(currentSlot, k - undo) \in Slots \ {currentSlot'}
      BY <1>1, <1>2, <3>1, CurrentPoint, SlotsClosed
    <3> QED
      BY <1>4, <2>2, <3>2 DEF OthersKept
  <2> QED
    BY <2>1, <2>2
<1>8. Timeline' = [Timeline EXCEPT ![undo] = PointNow]
  BY <1>4, <1>5, <1>7
<1> QED
  BY <1>2, <1>3, <1>8 DEF Abstract!Next, Abstract!Amend

\* A jump moves the abstract cursor.
LEMMA RefMove ==
    ASSUME IInv, NEW k \in Slots, JumpToHistory(k)
    PROVE  Abstract!Next
<1>1. /\ currentSlot \in Slots /\ undo \in Slots /\ redo \in Slots
      /\ undo + redo < Capacity /\ Points \subseteq Slots
  BY RingFacts
<1>2. /\ currentSlot' = MoveSlot(currentSlot, k - undo) /\ undo' = k
      /\ redo' = undo + redo - k /\ slots' = slots /\ k \in Points
  BY DEF JumpToHistory, Points
<1>3. undo' + redo' = undo + redo
  BY <1>1, <1>2, SMT DEF Slots
<1>4. \A p \in Points : MoveSlot(currentSlot', p - undo') = MoveSlot(currentSlot, p - undo)
  BY <1>1, <1>2, JumpRenumbersNothing
<1>5. Timeline' = Timeline
  BY <1>2, <1>3, <1>4 DEF Timeline, SlotOfPoint, Points
<1>6. k \in Abstract!Positions /\ k \in 0..Abstract!Last
  BY <1>2 DEF Abstract!Positions, Abstract!Last, Timeline, Points, Slots
<1> QED
  BY <1>2, <1>5, <1>6 DEF Abstract!Next, Abstract!Move

\* A restore or a removal that rewrites every slot of one instance rebases it.
LEMMA RefRebase ==
    ASSUME IInv, NEW i \in Instances, NEW row \in [HistoryFields -> Val],
           UNCHANGED cursorVars,
           \A c \in Cells, s \in Slots :
               slots'[c][s] = IF c[1] = i THEN row[c[2]] ELSE slots[c][s]
    PROVE  Abstract!Next
<1>1. /\ currentSlot \in Slots /\ undo \in Slots /\ Points \subseteq Slots
  BY RingFacts
<1>2. currentSlot' = currentSlot /\ undo' = undo /\ redo' = redo
  BY DEF cursorVars
<1>3. \A k \in Points : MoveSlot(currentSlot, k - undo) \in Slots
  <2>1. \A k \in Points : k - undo \in Int
    BY <1>1 DEF Points, Slots
  <2> QED
    BY <1>1, <2>1, SlotsClosed
<1>4. Timeline = [k \in Points |->
                      [c \in Cells |-> slots[c][MoveSlot(currentSlot, k - undo)]]]
  BY DEF Timeline, SlotOfPoint, Cells, Points
<1>5. Timeline' = [k \in Points |->
                      [c \in Cells |-> slots'[c][MoveSlot(currentSlot, k - undo)]]]
  BY <1>2 DEF Timeline, SlotOfPoint, Cells, Points
<1>6. Timeline' = [k \in Points |->
                      [c \in Cells |-> IF c[1] = i THEN row[c[2]] ELSE Timeline[k][c]]]
  BY <1>3, <1>4, <1>5
<1>7. DOMAIN Timeline = Points
  BY <1>4
<1>8. Abstract!Rebase(i, row)
  BY <1>2, <1>6, <1>7 DEF Abstract!Rebase, Abstract!Positions, Abstract!Cells, Cells
<1> QED
  BY <1>8 DEF Abstract!Next

\* Steps that touch neither the slots nor the cursor are not seen.
LEMMA RefStutter ==
    ASSUME UNCHANGED <<slots, cursorVars>>
    PROVE  UNCHANGED Abstract!vars
BY DEF cursorVars, Abstract!vars, Timeline, SlotOfPoint

\* Every step of the ring is a step of the timeline or is not seen.
LEMMA RefStep ==
    ASSUME IInv, IInv', [Next]_vars
    PROVE  Abstract!Next \/ UNCHANGED Abstract!vars
<1>1. \A i \in Instances : ResetOf(i) \in Requests
  BY DefaultAssumption DEF ResetOf, Requests, IInv, TreeInv, TypeOK, Effective
<1>2. ASSUME NEW new \in Requests,
             HistoryWrite(new) \/ BankCommit(new)
      PROVE  Abstract!Next
  <2>1. CommitAtNextPoint(new) /\ UNCHANGED live
    BY <1>2 DEF HistoryWrite, BankCommit
  <2>2. OthersKept
    BY <2>1, CommitKeepsOthers
  <2> QED
    BY <2>1, <2>2, RefRecord DEF CommitAtNextPoint, OthersKept
<1>3. ASSUME NEW new \in Requests,
             PlainWrite(new) \/ TopologyWrite(new) \/ \E g \in Gestures : GestureWrite(g, new)
      PROVE  Abstract!Next
  <2>1. CommitHere(new) /\ UNCHANGED live
    BY <1>3 DEF PlainWrite, TopologyWrite, GestureWrite
  <2>2. OthersKept /\ UNCHANGED cursorVars
    BY <2>1, CommitKeepsOthers DEF CommitHere, KeepCursor
  <2> QED
    BY <2>2, RefAmend
<1>4. ASSUME NEW g \in Gestures, BeginHistory(g)
      PROVE  Abstract!Next
  <2>1. AdvanceCursor /\ slots' = CopiedSlots(currentSlot, currentSlot')
    BY <1>4 DEF BeginHistory
  <2>2. \A c \in Cells, s \in Slots \ {currentSlot'} : slots'[c][s] = slots[c][s]
    BY <2>1, RingFacts DEF CopiedSlots
  <2> QED
    BY <2>1, <2>2, RefRecord
<1>5. ASSUME NEW g \in Gestures, EndHistory(g)
      PROVE  UNCHANGED Abstract!vars
  BY <1>5, RefStutter DEF EndHistory, stateVars
<1>6. ASSUME NEW members \in SUBSET Instances, BeginGroupReset(members)
      PROVE  UNCHANGED Abstract!vars
  BY <1>6, RefStutter DEF BeginGroupReset, stateVars
<1>7. ASSUME NEW i \in Instances, ResetMember(i)
      PROVE  Abstract!Next
  <2>1. /\ CommitAtNextPoint(ResetOf(i)) \/ CommitHere(ResetOf(i))
        /\ UNCHANGED live
    BY <1>7 DEF ResetMember
  <2>2. OthersKept
    BY <1>1, <2>1, CommitKeepsOthers
  <2>3. CASE CommitAtNextPoint(ResetOf(i))
    BY <2>2, <2>3, RefRecord DEF CommitAtNextPoint, OthersKept
  <2>4. CASE CommitHere(ResetOf(i))
    BY <2>2, <2>4, RefAmend DEF CommitHere, KeepCursor
  <2> QED
    BY <2>1, <2>3, <2>4
<1>8. ASSUME NEW i \in Instances, NEW baseline \in [Fields -> Val],
             Restore(i, baseline)
      PROVE  Abstract!Next
  <2> DEFINE row == [f \in HistoryFields |-> baseline[f]]
  <2>1. row \in [HistoryFields -> Val]
    BY DEF Fields
  <2>2. ASSUME NEW c \in Cells, NEW s \in Slots
        PROVE  slots'[c][s] = IF c[1] = i THEN row[c[2]] ELSE slots[c][s]
    <3>1. c \in Values /\ c[2] \in HistoryFields /\ c[2] \in Fields
      BY DEF Cells, Values, Fields
    <3>2. c[1] = i => c \in LiveValues
      BY <1>8 DEF Restore, LiveValues, Cells, Fields
    <3> QED
      BY <1>8, <3>1, <3>2 DEF Restore
  <2>3. UNCHANGED cursorVars
    BY <1>8 DEF Restore
  <2> HIDE DEF row
  <2> QED
    BY <2>1, <2>2, <2>3, RefRebase
<1>9. ASSUME NEW i \in Instances, RegisterInstance(i)
      PROVE  UNCHANGED Abstract!vars
  BY <1>9, RefStutter DEF RegisterInstance
<1>10. ASSUME NEW i \in Instances, UnregisterInstance(i)
       PROVE  Abstract!Next
  <2> DEFINE row == [f \in HistoryFields |-> Default]
  <2>1. row \in [HistoryFields -> Val]
    BY DefaultAssumption
  <2>2. \A c \in Cells, s \in Slots :
            slots'[c][s] = IF c[1] = i THEN row[c[2]] ELSE slots[c][s]
    <3>1. \A c \in Cells : c \in Values /\ c[2] \in HistoryFields
      BY DEF Cells, Values, Fields
    <3> QED
      BY <1>10, <3>1 DEF UnregisterInstance, Fresh
  <2>3. UNCHANGED cursorVars
    BY <1>10 DEF UnregisterInstance
  <2> HIDE DEF row
  <2> QED
    BY <2>1, <2>2, <2>3, RefRebase
<1>11. CASE UNCHANGED vars
  BY <1>11, RefStutter DEF vars, stateVars
<1> QED
  BY <1>2, <1>3, <1>4, <1>5, <1>6, <1>7, <1>8, <1>9, <1>10, <1>11, RefMove DEF Next

\* The ring of slots of StateHistory.cs implements the timeline, for every
\* capacity and every set of instances, fields and values.
THEOREM Refinement == Spec => ImplementsTimeline
<1>1. Init => Abstract!Init
  BY RefInit
<1>2. IInv /\ IInv' /\ [Next]_vars => [Abstract!Next]_(Abstract!vars)
  BY RefStep
<1> QED
  BY <1>1, <1>2, Invariance, PTL DEF Spec, ImplementsTimeline, Abstract!Spec

-----------------------------------------------------------------------------
(* What a publication hands over crosses to the audio thread, and its      *)
(* telemetry back, for every set of snapshot parts, every number of        *)
(* publishes, every size of a telemetry block and of the sequence.         *)
(*                                                                         *)
(* Snapshots: the indices alone protect nothing.  What does is that the    *)
(* claimed slot is still the published one at the moment of the claim.     *)
(* From then on a publish that selected before it avoids the slot as the   *)
(* published one, and a publish that selects after it avoids it as the     *)
(* consumer's.                                                             *)
(*                                                                         *)
(* Telemetry: a reader that finds the sequence it began with knows that    *)
(* nothing was written meanwhile, or that the sequence has turned all the  *)
(* way round: until it has, the sequence is as far from where the read     *)
(* began as there were increments.                                         *)

-----------------------------------------------------------------------------
(* The snapshot exchange: the inductive invariant.                         *)

\* A publish under way holds the pointer, remembers the index that is still
\* published, and has written its parts of another slot.
PublisherInv ==
    /\ phase # "idle" => exchange /\ publishedRead = publishedIndex
    /\ phase = "write" =>
         /\ writeIndex # publishedIndex
         /\ \A p \in written : snapshots[writeIndex][p] = version + 1
    /\ released => ~exchange /\ step = "idle"

PublishedWhole == snapshots[publishedIndex] = Whole(version)

\* The shared claim is the slot the audio thread reads or has read last.
ClaimInv ==
    /\ consumerIndex = IF step = "copy" THEN claim ELSE local
    /\ step = "claim" /\ ~overtaken => publishedIndex = claim

\* No publish writes into the claimed slot unless the claim was overtaken.
ClaimedSlotKept ==
    step # "claim" /\ ~overtaken /\ phase = "write" => writeIndex # consumerIndex

\* What was copied without being overtaken is what the slot still holds.
CopyInv ==
    /\ step = "copy" /\ ~overtaken =>
         \A p \in copied : snapshot[p] = snapshots[claim][p]
    /\ step = "idle" /\ ~overtaken => snapshot = snapshots[local]

\* Only slots that were published at least once are claimed and copied.
OnlyPublished ==
    /\ version = 0 => publishedIndex = 0 /\ local = 0 /\ step = "idle"
    /\ step # "idle" => \A p \in Parts : snapshots[claim][p] > 0
    /\ step = "copy" => \A p \in copied : snapshot[p] > 0

ExchangeInv ==
    /\ ExchangeTypes /\ PublisherInv /\ PublishedWhole /\ ClaimInv
    /\ ClaimedSlotKept /\ CopyInv /\ OnlyPublished /\ FirstSnapshotPublished

-----------------------------------------------------------------------------

\* Of three slots one is always left, and it is neither of the two given.
LEMMA WritableIndex ==
    ASSUME NEW a \in Indices, NEW b \in Indices
    PROVE  FindWritableIndex(a, b) \in Indices \ {a, b}
<1> DEFINE S == Indices \ {a, b}
<1>1. \E s \in S : \A t \in S : s <= t
  <2>1. CASE 0 \in S
    BY <2>1, SMT DEF Indices
  <2>2. CASE 0 \notin S /\ 1 \in S
    BY <2>2, SMT DEF Indices
  <2>3. CASE 0 \notin S /\ 1 \notin S
    BY <2>3, SMT DEF Indices
  <2> QED
    BY <2>1, <2>2, <2>3
<1> QED
  BY <1>1 DEF FindWritableIndex

\* The invariant holds of the zero-initialised exchange.
LEMMA ExchangeFirst == ExchangeInit => ExchangeInv
<1> SUFFICES ASSUME ExchangeInit PROVE ExchangeInv
  OBVIOUS
<1> USE DEF ExchangeInit, Whole, Indices
<1>1. ExchangeTypes
  <2>1. 0 \in Nat /\ 0 \in 0..2
    BY SMT
  <2>2. snapshots \in [0..2 -> [Parts -> Nat]] /\ snapshot \in [Parts -> Nat]
    BY <2>1
  <2> QED
    BY <2>1, <2>2 DEF ExchangeTypes
<1>2. PublisherInv /\ ClaimInv /\ ClaimedSlotKept
  BY DEF PublisherInv, ClaimInv, ClaimedSlotKept
<1>3. PublishedWhole /\ CopyInv
  BY DEF PublishedWhole, CopyInv
<1>4. OnlyPublished /\ FirstSnapshotPublished
  BY DEF OnlyPublished, FirstSnapshotPublished
<1> QED
  BY <1>1, <1>2, <1>3, <1>4 DEF ExchangeInv

\* Every step of the publisher, the audio thread and the lifecycle keeps it.
LEMMA ExchangeKept == ExchangeInv /\ [ExchangeNext]_snapshotVars => ExchangeInv'
<1> SUFFICES ASSUME ExchangeInv, [ExchangeNext]_snapshotVars PROVE ExchangeInv'
  OBVIOUS
<1> USE DEF ExchangeInv
<1>1. CASE BeginPublish
  BY <1>1 DEF BeginPublish, ExchangeTypes, PublisherInv, PublishedWhole, ClaimInv,
              ClaimedSlotKept, CopyInv, OnlyPublished, FirstSnapshotPublished, consumerVars
<1>2. CASE SelectSlot
  <2>1. writeIndex' \in Indices /\ writeIndex' # publishedIndex /\ writeIndex' # consumerIndex
    BY <1>2, WritableIndex DEF SelectSlot, ExchangeTypes, PublisherInv
  <2> QED
    BY <1>2, <2>1 DEF SelectSlot, ExchangeTypes, PublisherInv, PublishedWhole, ClaimInv,
                      ClaimedSlotKept, CopyInv, OnlyPublished, FirstSnapshotPublished,
                      consumerVars
<1>3. ASSUME NEW p \in Parts, WritePart(p) PROVE ExchangeInv'
  <2> USE <1>3 DEF WritePart, consumerVars
  <2>1. snapshots' = [snapshots EXCEPT ![writeIndex][p] = version + 1] /\ version + 1 \in Nat
    BY DEF ExchangeTypes
  <2>2. snapshots' \in [Indices -> [Parts -> Nat]]
    BY <2>1 DEF ExchangeTypes
  <2>3. \A s \in Indices : s # writeIndex => snapshots'[s] = snapshots[s]
    BY <2>1 DEF ExchangeTypes
  <2>4. \A q \in Parts : snapshots'[writeIndex][q] = IF q = p THEN version + 1
                                                    ELSE snapshots[writeIndex][q]
    BY <2>1 DEF ExchangeTypes
  <2>5. ExchangeTypes'
    BY <2>2 DEF ExchangeTypes
  <2>6. PublisherInv'
    BY <2>4 DEF PublisherInv, ExchangeTypes
  <2>7. PublishedWhole'
    BY <2>3 DEF PublishedWhole, PublisherInv, ExchangeTypes
  <2>8. ClaimInv' /\ ClaimedSlotKept'
    BY DEF ClaimInv, ClaimedSlotKept
  <2>9. CopyInv'
    BY <2>3 DEF CopyInv, ClaimedSlotKept, ClaimInv, ExchangeTypes
  <2>10. OnlyPublished' /\ FirstSnapshotPublished'
    <3>1. \A q \in Parts : snapshots[claim][q] > 0 => snapshots'[claim][q] > 0
      BY <2>3, <2>4 DEF ExchangeTypes
    <3> QED
      BY <3>1 DEF OnlyPublished, FirstSnapshotPublished
  <2> QED
    BY <2>5, <2>6, <2>7, <2>8, <2>9, <2>10
<1>4. CASE FinishPublish
  <2> USE <1>4 DEF FinishPublish, consumerVars
  <2>1. ExchangeTypes' /\ PublisherInv'
    BY DEF ExchangeTypes, PublisherInv
  <2>2. PublishedWhole'
    BY DEF PublishedWhole, PublisherInv, ExchangeTypes, Whole
  <2>3. ClaimInv' /\ ClaimedSlotKept' /\ CopyInv'
    BY DEF ClaimInv, ClaimedSlotKept, CopyInv, ExchangeTypes
  <2>4. OnlyPublished' /\ FirstSnapshotPublished'
    BY DEF OnlyPublished, FirstSnapshotPublished, ExchangeTypes
  <2> QED
    BY <2>1, <2>2, <2>3, <2>4
<1>5. CASE Stop
  BY <1>5 DEF Stop, ExchangeTypes, PublisherInv, PublishedWhole, ClaimInv,
              ClaimedSlotKept, CopyInv, OnlyPublished, FirstSnapshotPublished, consumerVars
<1>6. CASE Load
  <2> USE <1>6 DEF Load, publisherVars
  <2>1. version > 0
    BY DEF OnlyPublished, ExchangeTypes
  <2>2. \A p \in Parts : snapshots[publishedIndex][p] > 0
    BY <2>1 DEF PublishedWhole, Whole
  <2>3. ExchangeTypes' /\ PublisherInv' /\ PublishedWhole'
    BY DEF ExchangeTypes, PublisherInv, PublishedWhole
  <2>4. ClaimInv' /\ ClaimedSlotKept' /\ CopyInv'
    BY DEF ClaimInv, ClaimedSlotKept, CopyInv
  <2>5. OnlyPublished' /\ FirstSnapshotPublished'
    BY <2>1, <2>2 DEF OnlyPublished, FirstSnapshotPublished
  <2> QED
    BY <2>3, <2>4, <2>5
<1>7. CASE Claim
  <2> USE <1>7 DEF Claim, publisherVars
  <2>1. ExchangeTypes' /\ PublisherInv' /\ PublishedWhole'
    BY DEF ExchangeTypes, PublisherInv, PublishedWhole
  <2>2. ClaimInv' /\ CopyInv'
    BY DEF ClaimInv, CopyInv
  <2>3. ClaimedSlotKept'
    BY DEF ClaimedSlotKept, ClaimInv, PublisherInv
  <2>4. OnlyPublished' /\ FirstSnapshotPublished'
    BY DEF OnlyPublished, FirstSnapshotPublished
  <2> QED
    BY <2>1, <2>2, <2>3, <2>4
<1>8. ASSUME NEW p \in Parts, CopyPart(p) PROVE ExchangeInv'
  <2> USE <1>8 DEF CopyPart, publisherVars
  <2>1. \A q \in Parts : snapshot'[q] = IF q = p THEN snapshots[claim][p] ELSE snapshot[q]
    BY DEF ExchangeTypes
  <2>2. ExchangeTypes' /\ PublisherInv' /\ PublishedWhole'
    BY DEF ExchangeTypes, PublisherInv, PublishedWhole
  <2>3. ClaimInv' /\ ClaimedSlotKept'
    BY DEF ClaimInv, ClaimedSlotKept
  <2>4. CopyInv'
    BY <2>1 DEF CopyInv, ExchangeTypes
  <2>5. OnlyPublished' /\ FirstSnapshotPublished'
    BY <2>1 DEF OnlyPublished, FirstSnapshotPublished, ExchangeTypes
  <2> QED
    BY <2>2, <2>3, <2>4, <2>5
<1>9. CASE FinishCopy
  <2> USE <1>9 DEF FinishCopy, publisherVars
  <2>1. ExchangeTypes' /\ PublisherInv' /\ PublishedWhole'
    BY DEF ExchangeTypes, PublisherInv, PublishedWhole
  <2>2. ClaimInv' /\ ClaimedSlotKept'
    BY DEF ClaimInv, ClaimedSlotKept
  <2>3. CopyInv'
    BY DEF CopyInv, ExchangeTypes
  <2>4. OnlyPublished' /\ FirstSnapshotPublished'
    BY DEF OnlyPublished, FirstSnapshotPublished
  <2> QED
    BY <2>1, <2>2, <2>3, <2>4
<1>10. CASE Release
  BY <1>10 DEF Release, ExchangeTypes, PublisherInv, PublishedWhole, ClaimInv, ClaimedSlotKept,
               CopyInv, OnlyPublished, FirstSnapshotPublished, consumerVars, publisherVars
<1>11. CASE UNCHANGED snapshotVars
  BY <1>11 DEF snapshotVars, ExchangeTypes, PublisherInv, PublishedWhole, ClaimInv, ClaimedSlotKept,
               CopyInv, OnlyPublished, FirstSnapshotPublished, consumerVars, publisherVars
<1> QED
  BY <1>1, <1>2, <1>3, <1>4, <1>5, <1>6, <1>7, <1>8, <1>9, <1>10, <1>11
     DEF ExchangeNext, Publisher, Consumer

-----------------------------------------------------------------------------
(* Theorems.                                                               *)

\* The inductive invariant holds in every reachable state.
THEOREM ExchangeInvariance == ExchangeSpec => []ExchangeInv
<1> QED
  BY ExchangeFirst, ExchangeKept, PTL DEF ExchangeSpec

\* Types are kept, and with them the index bounds consumer and publisher rely on.
THEOREM ExchangeTypeCorrect == ExchangeSpec => []ExchangeTypes
<1>1. ExchangeInv => ExchangeTypes
  BY DEF ExchangeInv
<1> QED
  BY <1>1, ExchangeInvariance, PTL

\* A slot being copied is written by nobody, unless a publish was completed
\* between the audio thread's load and its claim.
THEOREM OwnershipUnlessOvertaken == ExchangeSpec => []OwnedUnlessOvertaken
<1>1. ExchangeInv => OwnedUnlessOvertaken
  BY DEF ExchangeInv, OwnedUnlessOvertaken, CopyIsOwned, ClaimedSlotKept, ClaimInv
<1> QED
  BY <1>1, ExchangeInvariance, PTL

\* Seeing nothing new means having the last published state, whole.
THEOREM NothingNewMeansCurrent == ExchangeSpec => []CaughtUp
<1>1. ExchangeInv => CaughtUp
  BY DEF ExchangeInv, CaughtUp, CopyInv, PublishedWhole
<1> QED
  BY <1>1, ExchangeInvariance, PTL

\* The zeroes of a new exchange never reach the audio.
THEOREM NeverInitialZeroes == ExchangeSpec => []FirstSnapshotPublished
<1>1. ExchangeInv => FirstSnapshotPublished
  BY DEF ExchangeInv
<1> QED
  BY <1>1, ExchangeInvariance, PTL

\* Released memory is never written by a publish.
THEOREM ReleaseIsFinal == ExchangeSpec => []NoPublishAfterRelease
<1>1. ExchangeInv => NoPublishAfterRelease
  BY DEF ExchangeInv, NoPublishAfterRelease, PublisherInv
<1> QED
  BY <1>1, ExchangeInvariance, PTL

-----------------------------------------------------------------------------
(* The telemetry exchange: the inductive invariant.                        *)

TelemetryTypes ==
    /\ sequence \in 0..(SequenceSize - 1) /\ readSequence \in 0..(SequenceSize - 1)
    /\ words \in [Words -> Nat] /\ shown \in [Words -> Nat]
    /\ blocks \in Nat /\ begun \in Nat /\ age \in Nat
    /\ filled \subseteq Words /\ reading \in BOOLEAN
    /\ DOMAIN read \subseteq Words /\ read \in [DOMAIN read -> Nat]

\* Outside a write all words are of the last block; inside, the filled ones
\* are of the next.
WordsInv ==
    \A w \in Words : words[w] = IF Writing /\ w \in filled THEN blocks + 1 ELSE blocks

\* A read during which no block began has met no write.
ReadInv ==
    reading /\ begun = 0 => ~Writing /\ \A w \in DOMAIN read : read[w] = blocks

\* Increments of the sequence since the read under way began.
Increments == IF Writing THEN 2 * begun - 1 ELSE 2 * begun

DistanceInv ==
    reading /\ Increments < SequenceSize =>
        /\ Increments >= 0
        /\ sequence = IF readSequence + Increments < SequenceSize
                      THEN readSequence + Increments
                      ELSE readSequence + Increments - SequenceSize

TInv == TelemetryTypes /\ WordsInv /\ ReadInv /\ DistanceInv /\ ShownIsWhole

-----------------------------------------------------------------------------

\* The sequence counts up to its size, which is even: an increment begins or
\* ends a write, also the one that turns it to 0.
LEMMA IncrementFlips ==
    ASSUME NEW s \in 0..(SequenceSize - 1)
    PROVE  /\ Increment(s) \in 0..(SequenceSize - 1)
           /\ Increment(s) = IF s + 1 < SequenceSize THEN s + 1 ELSE 0
           /\ s % 2 = 1 <=> Increment(s) % 2 # 1
<1> DEFINE N == SequenceSize
<1>1. N \in Nat \ {0} /\ N % 2 = 0
  BY TelemetryAssumption
<1> HIDE DEF N
<1>2. CASE s + 1 < N
  BY <1>1, <1>2, SMT DEF Increment, N
<1>3. CASE s + 1 = N
  BY <1>1, <1>3, SMT DEF Increment, N
<1> QED
  BY <1>1, <1>2, <1>3 DEF N

\* A step of both directions is a step of the exchange of states, or none.
LEMMA ExchangeStep == [TelemetryNext]_exchangeVars => [ExchangeNext]_snapshotVars
<1> SUFFICES ASSUME [TelemetryNext]_exchangeVars PROVE [ExchangeNext]_snapshotVars
  OBVIOUS
<1>1. CASE UNCHANGED exchangeVars
  BY <1>1 DEF exchangeVars
<1>2. CASE BeginPublish \/ Publish \/ Stop \/ Consume \/ Release
  BY <1>2 DEF Publish, Consume, ExchangeNext
<1>3. CASE Telemetry \/ Poll \/ ChangeViewer \/ RemoveSource
  BY <1>3 DEF Telemetry, BeginTelemetry, WriteWord, EndTelemetry, Poll, BeginRead, ReadWord,
              EndRead, ChangeViewer, RemoveSource
<1> QED
  BY <1>1, <1>2, <1>3 DEF TelemetryNext

\* Nothing was written, read or shown.
LEMMA TelemetryInitInv == TelemetryInit => TInv
<1> SUFFICES ASSUME TelemetryInit PROVE TInv
  OBVIOUS
<1> USE TelemetryAssumption DEF TelemetryInit, NoBlock, Nothing
<1>1. 0 \in 0..(SequenceSize - 1)
  OBVIOUS
<1>2. TelemetryTypes
  BY <1>1 DEF TelemetryTypes
<1>3. WordsInv /\ ReadInv /\ DistanceInv
  BY DEF WordsInv, ReadInv, DistanceInv, Writing
<1>4. ShownIsWhole
  BY DEF ShownIsWhole
<1> QED
  BY <1>2, <1>3, <1>4 DEF TInv

\* The audio thread begins a block of telemetry.
LEMMA BeginTelemetryInv ==
    ASSUME TInv, BeginTelemetry
    PROVE  TInv'
<1> USE DEF TInv
<1>1. /\ ~Writing /\ sequence' = Increment(sequence) /\ filled' = {}
      /\ begun' = IF reading THEN begun + 1 ELSE 0
      /\ age' = IF Blank THEN 0 ELSE age + 1
      /\ UNCHANGED <<words, blocks, reading, read, readSequence, shown>>
  BY DEF BeginTelemetry
<1>2. /\ sequence' \in 0..(SequenceSize - 1) /\ Writing'
      /\ sequence' = IF sequence + 1 < SequenceSize THEN sequence + 1 ELSE 0
  BY <1>1, IncrementFlips DEF TelemetryTypes, Writing
<1>3. TelemetryTypes'
  BY <1>1, <1>2 DEF TelemetryTypes
<1>4. WordsInv'
  BY <1>1, <1>2 DEF WordsInv
<1>5. ReadInv'
  BY <1>1 DEF ReadInv, TelemetryTypes
<1>6. DistanceInv'
  <2> SUFFICES ASSUME reading, Increments' < SequenceSize
               PROVE  /\ Increments' >= 0
                      /\ sequence' = IF readSequence + Increments' < SequenceSize
                                     THEN readSequence + Increments'
                                     ELSE readSequence + Increments' - SequenceSize
    BY <1>1 DEF DistanceInv
  <2>1. Increments = 2 * begun /\ Increments' = Increments + 1 /\ Increments \in Nat
    BY <1>1, <1>2 DEF Increments, TelemetryTypes
  <2>2. /\ Increments < SequenceSize
        /\ sequence = IF readSequence + Increments < SequenceSize
                      THEN readSequence + Increments
                      ELSE readSequence + Increments - SequenceSize
    BY <2>1, TelemetryAssumption DEF DistanceInv
  <2> QED
    BY <1>2, <2>1, <2>2, TelemetryAssumption DEF TelemetryTypes
<1>7. ShownIsWhole'
  <2>1. CASE Blank
    BY <1>1, <2>1 DEF ShownIsWhole, Blank, NoBlock, TelemetryTypes
  <2>2. CASE ~Blank
    <3>1. 2 * age' < SequenceSize => 2 * age < SequenceSize
      BY <1>1, <2>2, TelemetryAssumption DEF TelemetryTypes
    <3> QED
      BY <1>1, <3>1 DEF ShownIsWhole
  <2> QED
    BY <2>1, <2>2
<1> QED
  BY <1>3, <1>4, <1>5, <1>6, <1>7

\* The audio thread writes a word.
LEMMA WriteWordInv ==
    ASSUME TInv, NEW w \in Words, WriteWord(w)
    PROVE  TInv'
<1> USE DEF TInv, WriteWord, pollVars
<1>1. TelemetryTypes'
  BY DEF TelemetryTypes
<1>2. WordsInv'
  BY DEF WordsInv, Writing, TelemetryTypes
<1>3. ReadInv' /\ DistanceInv' /\ ShownIsWhole'
  BY DEF ReadInv, DistanceInv, ShownIsWhole, Writing, Increments
<1> QED
  BY <1>1, <1>2, <1>3

\* The audio thread ends its block of telemetry.
LEMMA EndTelemetryInv ==
    ASSUME TInv, EndTelemetry
    PROVE  TInv'
<1> USE DEF TInv
<1>1. /\ Writing /\ filled = Words /\ sequence' = Increment(sequence) /\ filled' = {}
      /\ blocks' = blocks + 1
      /\ UNCHANGED <<words, reading, read, readSequence, begun, shown, age>>
  BY DEF EndTelemetry, pollVars
<1>2. /\ sequence' \in 0..(SequenceSize - 1) /\ ~Writing'
      /\ sequence' = IF sequence + 1 < SequenceSize THEN sequence + 1 ELSE 0
  BY <1>1, IncrementFlips DEF TelemetryTypes, Writing
<1>3. TelemetryTypes'
  BY <1>1, <1>2 DEF TelemetryTypes
<1>4. WordsInv'
  BY <1>1, <1>2 DEF WordsInv
<1>5. ReadInv'
  BY <1>1 DEF ReadInv
<1>6. DistanceInv'
  <2> SUFFICES ASSUME reading, Increments' < SequenceSize
               PROVE  /\ Increments' >= 0
                      /\ sequence' = IF readSequence + Increments' < SequenceSize
                                     THEN readSequence + Increments'
                                     ELSE readSequence + Increments' - SequenceSize
    BY <1>1 DEF DistanceInv
  <2>1. /\ Increments = 2 * begun - 1 /\ Increments' = Increments + 1 /\ Increments \in Nat
        /\ begun # 0
    BY <1>1, <1>2 DEF Increments, TelemetryTypes, ReadInv
  <2>2. /\ Increments < SequenceSize /\ Increments >= 0
        /\ sequence = IF readSequence + Increments < SequenceSize
                      THEN readSequence + Increments
                      ELSE readSequence + Increments - SequenceSize
    BY <2>1, TelemetryAssumption DEF DistanceInv
  <2> QED
    BY <1>2, <2>1, <2>2, TelemetryAssumption DEF TelemetryTypes
<1>7. ShownIsWhole'
  BY <1>1 DEF ShownIsWhole, TelemetryTypes
<1> QED
  BY <1>3, <1>4, <1>5, <1>6, <1>7

\* The telemetry worker begins a read and reads a word.
LEMMA ReadKeepsInv ==
    ASSUME TInv, BeginRead \/ \E w \in Words : ReadWord(w)
    PROVE  TInv'
<1> USE DEF TInv, audioVars
<1>1. CASE BeginRead
  <2> USE <1>1 DEF BeginRead
  <2>1. ~Writing /\ ~Writing' /\ Increments' = 0
    BY DEF Writing, Increments
  <2>2. TelemetryTypes' /\ WordsInv'
    BY DEF TelemetryTypes, WordsInv, Nothing, Writing
  <2>3. ReadInv' /\ ShownIsWhole'
    BY <2>1 DEF ReadInv, ShownIsWhole, Nothing, TelemetryTypes
  <2>4. readSequence' = sequence /\ sequence' = sequence
    OBVIOUS
  <2>5. DistanceInv'
    <3> HIDE <1>1
    <3> QED
      BY <2>1, <2>4, TelemetryAssumption DEF DistanceInv, TelemetryTypes
  <2> QED
    BY <2>2, <2>3, <2>5
<1>2. ASSUME NEW w \in Words, ReadWord(w) PROVE TInv'
  <2> USE <1>2 DEF ReadWord
  <2>1. TelemetryTypes' /\ WordsInv'
    BY DEF TelemetryTypes, WordsInv, Writing
  <2>2. ReadInv'
    BY DEF ReadInv, WordsInv, Writing, TelemetryTypes
  <2>3. DistanceInv' /\ ShownIsWhole'
    BY DEF DistanceInv, ShownIsWhole, Increments, Writing
  <2> QED
    BY <2>1, <2>2, <2>3
<1> QED
  BY <1>1, <1>2

\* A read begins with no word.
LEMMA NothingRead == DOMAIN Nothing = {} /\ Nothing \in [{} -> Nat]
  BY DEF Nothing

\* What the worker accepts is whole, unless the sequence has turned round
\* during the read; then the age of what it shows says so.
LEMMA EndReadInv ==
    ASSUME TInv, EndRead
    PROVE  TInv'
<1> USE DEF TInv, EndRead, audioVars
<1>1. /\ reading' = FALSE /\ DOMAIN read = Words /\ begun' = 0 /\ read' = Nothing
      /\ UNCHANGED <<sequence, words, blocks, filled, readSequence>>
  OBVIOUS
<1>2. CASE ~(sequence = readSequence /\ readSequence # lastSequence)
  <2>1. UNCHANGED <<shown, age>>
    BY <1>2
  <2>2. TelemetryTypes'
    <3> HIDE DEF EndRead
    <3> QED
      BY <1>1, <2>1, NothingRead DEF TelemetryTypes
  <2>3. WordsInv' /\ ReadInv' /\ DistanceInv'
    BY <1>1 DEF WordsInv, ReadInv, DistanceInv, Writing
  <2>4. ShownIsWhole'
    BY <1>1, <2>1 DEF ShownIsWhole
  <2> QED
    BY <2>2, <2>3, <2>4
<1>3. CASE sequence = readSequence /\ readSequence # lastSequence
  <2>1. shown' = read /\ age' = begun
    BY <1>3
  <2>2. 2 * begun < SequenceSize => begun = 0
    <3> SUFFICES ASSUME 2 * begun < SequenceSize, begun # 0 PROVE FALSE
      OBVIOUS
    <3>1. Increments \in 1..(SequenceSize - 1)
      BY TelemetryAssumption DEF Increments, TelemetryTypes
    <3>2. sequence = IF readSequence + Increments < SequenceSize
                     THEN readSequence + Increments
                     ELSE readSequence + Increments - SequenceSize
      BY <3>1, TelemetryAssumption DEF DistanceInv
    <3> QED
      BY <1>3, <3>1, <3>2, TelemetryAssumption DEF TelemetryTypes
  <2>3. begun = 0 => \A w \in Words : read[w] = blocks
    BY <1>1 DEF ReadInv
  <2>4. /\ TelemetryTypes'
        /\ WordsInv' /\ ReadInv' /\ DistanceInv'
    <3>1. TelemetryTypes'
      <4> HIDE DEF EndRead
      <4>1. shown' \in [Words -> Nat]
        BY <1>1, <2>1 DEF TelemetryTypes
      <4> QED
        BY <1>1, <2>1, <4>1, NothingRead DEF TelemetryTypes
    <3>2. WordsInv' /\ ReadInv' /\ DistanceInv'
      BY <1>1 DEF WordsInv, ReadInv, DistanceInv, Writing
    <3> QED
      BY <3>1, <3>2
  <2>5. ShownIsWhole'
    BY <1>1, <2>1, <2>2, <2>3 DEF ShownIsWhole, TelemetryTypes
  <2> QED
    BY <2>4, <2>5
<1> QED
  BY <1>2, <1>3

\* Another viewer is shown nothing at first.
LEMMA ChangeViewerInv ==
    ASSUME TInv, ChangeViewer
    PROVE  TInv'
<1> USE DEF TInv, ChangeViewer, audioVars
<1>1. TelemetryTypes' /\ WordsInv' /\ ReadInv' /\ DistanceInv'
  BY DEF TelemetryTypes, WordsInv, ReadInv, DistanceInv, NoBlock, Writing, Increments
<1>2. ShownIsWhole'
  BY DEF ShownIsWhole, NoBlock, TelemetryTypes
<1> QED
  BY <1>1, <1>2

\* Every step of the two threads keeps the invariant.
LEMMA TelemetryStepInv == TInv /\ [TelemetryNext]_exchangeVars => TInv'
<1> SUFFICES ASSUME TInv, [TelemetryNext]_exchangeVars PROVE TInv'
  OBVIOUS
<1>1. ASSUME UNCHANGED <<audioVars, pollVars>> PROVE TInv'
  BY <1>1 DEF TInv, TelemetryTypes, WordsInv, ReadInv, DistanceInv, ShownIsWhole, Writing,
              Increments, audioVars, pollVars
<1>2. CASE UNCHANGED exchangeVars
  BY <1>1, <1>2 DEF exchangeVars, telemetryVars
<1>3. CASE (BeginPublish \/ (Stop /\ ~source) \/ (Release /\ ~Writing)) /\ UNCHANGED telemetryVars
  BY <1>1, <1>3 DEF telemetryVars
<1>4. CASE Publish \/ Consume \/ RemoveSource
  BY <1>1, <1>4 DEF Publish, Consume, RemoveSource, telemetryVars
<1>5. CASE Telemetry
  BY <1>5, BeginTelemetryInv, WriteWordInv, EndTelemetryInv DEF Telemetry
<1>6. CASE Poll
  BY <1>6, ReadKeepsInv, EndReadInv DEF Poll
<1>7. CASE ChangeViewer
  BY <1>7, ChangeViewerInv
<1> QED
  BY <1>2, <1>3, <1>4, <1>5, <1>6, <1>7 DEF TelemetryNext

-----------------------------------------------------------------------------
(* The results.                                                            *)

\* The audio thread writes its telemetry between the blocks' consumption of
\* states and disturbs the exchange of states in nothing: what is proved of
\* that one holds here.
THEOREM TelemetryImplementsExchange == TelemetrySpec => ExchangeSpec
<1>1. TelemetryInit => ExchangeInit
  BY DEF TelemetryInit
<1> QED
  BY <1>1, ExchangeStep, PTL DEF TelemetrySpec, ExchangeSpec

\* However the audio thread and the telemetry worker interleave, the viewer is
\* never shown words of two blocks, unless so many blocks passed during one
\* read that the sequence turned all the way round (DspTelemetryReader.cs).
THEOREM ShownTelemetryIsWhole == TelemetrySpec => []ShownIsWhole
<1>1. TInv => ShownIsWhole
  BY DEF TInv
<1> QED
  BY <1>1, TelemetryInitInv, TelemetryStepInv, PTL DEF TelemetrySpec
=============================================================================
