--------------------------- MODULE GestureSession ---------------------------
(***************************************************************************)
(* The control gestures of the editors and the history points they own.    *)
(*                                                                         *)
(* All editors run on the host's message thread: pointer, timer and reply  *)
(* handlers are atomic, and one activeSession_ admits one editing editor.  *)
(* Their commands meet in the FIFO of the managed worker, where a waiting  *)
(* write of the same gesture is replaced in place and where a full queue   *)
(* refuses a command; the worker's replies come back to each editor in     *)
(* order, one message-thread tick later.  A gesture therefore runs ahead   *)
(* of its replies, and an editor can lose the focus, be closed or see an   *)
(* error of an earlier command at any point of it.                         *)
(*                                                                         *)
(* Managed's side is reduced to one value and to the owner of the current  *)
(* history point; StateHistory has the rest.  The snapshot an editor waits *)
(* for before it lets the user edit is left out, which only admits more.   *)
(* What happens to the queue of an instance that is removed is in          *)
(* ProtocolQueue.                                                          *)
(***************************************************************************)
EXTENDS Integers, FiniteSets, Sequences, SequencesExt

CONSTANTS
    Editors,
    Val,          \* positions of the one control the gestures drag
    Default,      \* its value before the first gesture
    None,         \* no editor, no gesture, no session, no value
    MaxGestures,  \* bound: gestures each editor begins
    MaxFocuses,   \* bound: times an editor gains the focus
    MaxEdits,     \* bound: edits outside a gesture
    MaxActs,      \* bound: gestures and such edits together
    MaxFaults     \* bound: commands refused and writes rejected

ASSUME DefaultAssumption == Default \in Val
ASSUME BoundAssumption == MaxGestures \in Nat

VARIABLES
    session,     \* DialGestureSession::session_ of each editor
    next,        \* EditorPresentation::nextTransaction_
    current,     \* EditorSession::activeSession_
    active,      \* editors with active_
    generation,  \* EditorSession::generation_
    closed,      \* editors whose window is gone
    queue,       \* ProtocolService._commands, with the latest coalesced values
    replies,     \* controlFrames_ of each editor
    value,       \* the control's value in the history's current slot
    owner,       \* the gesture whose begin_history took the current point
    trace,       \* what became of each gesture (observes, changes nothing)
    focuses, edits, faults   \* used up of the bounds

editorVars == <<session, next, current, active, generation, closed>>
historyVars == <<value, owner>>
bounds == <<focuses, edits, faults>>
vars == <<editorVars, queue, replies, historyVars, trace, bounds>>

Gestures == Editors \X (1..MaxGestures)
Kinds == {"begin", "write", "ack", "end", "edit", "activate"}

Sessions == [number : 1..MaxGestures, value : Val, ready : BOOLEAN, dirty : BOOLEAN,
             ending : BOOLEAN, finalSent : BOOLEAN, accepted : BOOLEAN]

ASSUME NoneAssumption == None \notin Editors \cup Val /\ None \notin Sessions

\* An entry of the worker's queue; waits says that the editor registered a
\* completion for it.  number is the gesture's transaction, which a zero-id
\* acknowledgement only remembers, or the generation of an activation.
Command(e, kind, number, v, waits) ==
    [from |-> e, kind |-> kind, number |-> number, value |-> v, waits |-> waits]

Reply(kind, number, ok) == [kind |-> kind, number |-> number, ok |-> ok]

Untouched == [began |-> FALSE, ended |-> FALSE, refused |-> FALSE, strayed |-> FALSE,
              ackPoint |-> FALSE, written |-> None, kept |-> None, reported |-> FALSE]

Init ==
    /\ session = [e \in Editors |-> None]
    /\ next = [e \in Editors |-> 1]
    /\ current = None
    /\ active = {}
    /\ generation = [e \in Editors |-> 0]
    /\ closed = {}
    /\ queue = <<>>
    /\ replies = [e \in Editors |-> <<>>]
    /\ value = Default
    /\ owner = None
    /\ trace = [g \in Gestures |-> Untouched]
    /\ focuses = 0 /\ edits = 0 /\ faults = 0

Gesture(e) == <<e, session[e].number>>

-----------------------------------------------------------------------------
(* Sending.  A write of a gesture that still has one waiting replaces it   *)
(* where it stands and is never refused.  Anything else may meet a full    *)
(* queue: the error goes to the completion that waits for it, or, when     *)
(* there is none, to the editor as an unmatched error.                     *)

SameKey(c, d) ==
    c.kind = "write" /\ d.kind = "write" /\ c.from = d.from /\ c.number = d.number

Merges(c) == \E i \in DOMAIN queue : SameKey(queue[i], c)

Refusal(c) == IF c.waits THEN Reply(c.kind, c.number, FALSE) ELSE Reply("error", 0, FALSE)

\* The commands at some of the positions, in their order.
Pick(cmds, indices) ==
    LET order == CHOOSE o \in [1..Cardinality(indices) -> indices] :
                     Range(o) = indices /\ \A i, j \in DOMAIN o : i < j => o[i] < o[j]
    IN  [k \in DOMAIN order |-> cmds[order[k]]]

\* Sends cmds in order, on top of the replies and the trace the calling
\* handler has already changed.  A closed editor has no listener left.
Send(cmds, heard, seen) ==
    \E full \in SUBSET {i \in DOMAIN cmds : ~Merges(cmds[i])} :
        LET merged == {i \in DOMAIN cmds : Merges(cmds[i])}
            kept == DOMAIN cmds \ (full \cup merged)
            Errors(e) == Pick(cmds, {i \in full : cmds[i].from = e /\ cmds[i].kind # "edit"})
        IN  /\ faults + Cardinality(full) <= MaxFaults
            /\ faults' = faults + Cardinality(full)
            /\ queue' = [i \in DOMAIN queue |->
                            IF \E j \in merged : SameKey(queue[i], cmds[j])
                            THEN cmds[CHOOSE j \in merged : SameKey(queue[i], cmds[j])]
                            ELSE queue[i]]
                        \o Pick(cmds, kept)
            /\ replies' = [e \in Editors |->
                            IF e \in closed' THEN <<>>
                            ELSE heard[e] \o [k \in DOMAIN Errors(e) |-> Refusal(Errors(e)[k])]]
            /\ trace' = [g \in Gestures |->
                            [seen[g] EXCEPT !.refused = @ \/ \E i \in full :
                                /\ cmds[i].kind \notin {"edit", "activate"}
                                /\ <<cmds[i].from, cmds[i].number>> = g]]

-----------------------------------------------------------------------------
(* DialGestureSession: what each of its operations sends.                  *)

Flush(e, s) ==
    IF s.ready /\ s.dirty /\ ~s.finalSent
    THEN <<Command(e, "write", s.number, s.value, FALSE)>> ELSE <<>>

\* Variant: the final position is left to the acknowledgement.
FinishWithoutFlush(e, s) ==
    IF s.finalSent THEN <<>> ELSE <<Command(e, "ack", s.number, s.value, TRUE)>>

Finish(e, s) ==
    IF s.finalSent THEN <<>>
    ELSE Flush(e, s) \o <<Command(e, "ack", s.number, s.value, TRUE)>>

Flushed(s) == IF s.ready /\ ~s.finalSent THEN [s EXCEPT !.dirty = FALSE] ELSE s

Finished(s) == [Flushed(s) EXCEPT !.finalSent = TRUE]

CancelSends(e) ==
    IF session[e] = None THEN <<>>
    ELSE <<Command(e, "end", session[e].number, Default, FALSE)>>

\* Variant: closing only ends the history point, as cancelling does.
CloseOnlyEnds(e) == CancelSends(e)

CloseSends(e) ==
    IF session[e] = None THEN <<>>
    ELSE LET s == session[e]
         IN  (IF s.finalSent THEN <<>>
              ELSE <<Command(e, "write", s.number, s.value, FALSE),
                     Command(e, "ack", s.number, s.value, FALSE)>>)
             \o <<Command(e, "end", s.number, Default, FALSE)>>

\* Cancelling gives up the position the user released.
Abandoned(e) ==
    IF session[e] = None THEN trace ELSE [trace EXCEPT ![Gesture(e)].kept = None]

\* Closing queues the latest position.
Kept(e) ==
    IF session[e] = None THEN trace
    ELSE [trace EXCEPT ![Gesture(e)].kept = session[e].value]

-----------------------------------------------------------------------------
(* The message thread.                                                     *)

Acts == edits + Cardinality({g \in Gestures : g[2] < next[g[1]]})

\* Variant: the editor that was active is told to stop, its gesture is not
\* closed.
FocusKeepsGesture(e) ==
    /\ e \notin closed \cup active
    /\ focuses < MaxFocuses
    /\ focuses' = focuses + 1
    /\ active' = active \ {current}
    /\ current' = e
    /\ generation' = [generation EXCEPT ![e] = @ + 1]
    /\ UNCHANGED <<session, next, closed, historyVars, edits>>
    /\ Send(<<Command(e, "activate", generation[e] + 1, Default, TRUE)>>, replies, trace)

\* An editor's window gains the focus: the editor that was active closes its
\* gesture first, and this one asks to become active.
Focus(e) ==
    LET previous == IF current \in Editors \ {e} THEN {current} ELSE {}
    IN  /\ e \notin closed \cup active
        /\ focuses < MaxFocuses
        /\ focuses' = focuses + 1
        /\ active' = active \ previous
        /\ current' = e
        /\ generation' = [generation EXCEPT ![e] = @ + 1]
        /\ session' = [x \in Editors |-> IF x \in previous \cup {e} THEN None ELSE session[x]]
        /\ UNCHANGED <<next, closed, historyVars, edits>>
        /\ Send((IF previous = {} THEN <<>> ELSE CloseSends(current))
                    \o CancelSends(e)
                    \o <<Command(e, "activate", generation[e] + 1, Default, TRUE)>>,
                replies,
                IF previous = {} THEN Abandoned(e) ELSE Kept(current))

\* Pointer down, the position it grabs being v.
Begin(e, v) ==
    /\ e \in active
    /\ session[e] = None
    /\ next[e] <= MaxGestures /\ Acts < MaxActs
    /\ session' = [session EXCEPT ![e] =
           [number |-> next[e], value |-> v, ready |-> FALSE, dirty |-> FALSE,
            ending |-> FALSE, finalSent |-> FALSE, accepted |-> FALSE]]
    /\ next' = [next EXCEPT ![e] = @ + 1]
    /\ UNCHANGED <<current, active, generation, closed, historyVars, focuses, edits>>
    /\ Send(<<Command(e, "begin", next[e], Default, TRUE)>>, replies, trace)

\* Pointer move: only the latest position is retained.
SetValues(e, v) ==
    /\ session[e] # None
    /\ ~session[e].ending
    /\ session' = [session EXCEPT ![e].value = v, ![e].dirty = TRUE]
    /\ UNCHANGED <<next, current, active, generation, closed, queue, replies,
                   historyVars, trace, bounds>>

\* Variant: a release before the begin is acknowledged keeps the position of
\* the last move.
EndKeepsMove(e, v) ==
    LET s == [session[e] EXCEPT !.value = IF session[e].ready THEN v ELSE @,
                                !.dirty = TRUE, !.ending = TRUE]
    IN  /\ session[e] # None
        /\ ~session[e].ending
        /\ session' = [session EXCEPT ![e] = IF s.ready THEN Finished(s) ELSE s]
        /\ UNCHANGED <<next, current, active, generation, closed, historyVars,
                       focuses, edits>>
        /\ Send(IF s.ready THEN Finish(e, s) ELSE <<>>, replies,
                [trace EXCEPT ![Gesture(e)].kept = v])

\* Pointer up: the final position is sent at once, or, before the begin is
\* acknowledged, when it is.
End(e, v) ==
    LET s == [session[e] EXCEPT !.value = v, !.dirty = TRUE, !.ending = TRUE]
    IN  /\ session[e] # None
        /\ ~session[e].ending
        /\ session' = [session EXCEPT ![e] = IF s.ready THEN Finished(s) ELSE s]
        /\ UNCHANGED <<next, current, active, generation, closed, historyVars,
                       focuses, edits>>
        /\ Send(IF s.ready THEN Finish(e, s) ELSE <<>>, replies,
                [trace EXCEPT ![Gesture(e)].kept = v])

\* The 33 ms timer, running from the begin's reply to the pointer's release.
TimerCallback(e) ==
    /\ session[e] # None
    /\ ~session[e].ending
    /\ Flush(e, session[e]) # <<>>
    /\ session' = [session EXCEPT ![e] = Flushed(@)]
    /\ UNCHANGED <<next, current, active, generation, closed, historyVars,
                   focuses, edits>>
    /\ Send(Flush(e, session[e]), replies, trace)

\* A notification cancels the gesture: a restored state, a target that is
\* gone, a value that became automated; or it could not be applied, and then
\* the editor also gives up its activation.
Interrupt(e, fails) ==
    /\ session[e] # None
    /\ session' = [session EXCEPT ![e] = None]
    /\ active' = IF fails THEN active \ {e} ELSE active
    /\ generation' = IF fails THEN [generation EXCEPT ![e] = @ + 1] ELSE generation
    /\ UNCHANGED <<next, current, closed, historyVars, focuses, edits>>
    /\ Send(CancelSends(e), replies, Abandoned(e))

\* The window closes: the gesture's last position and end are queued, and
\* nobody listens to the replies any more.  That it also tells the worker it
\* is inactive changes nothing here.
CloseEditor(e) ==
    /\ e \notin closed
    /\ closed' = closed \cup {e}
    /\ active' = active \ {e}
    /\ current' = IF current = e THEN None ELSE current
    /\ session' = [session EXCEPT ![e] = None]
    /\ UNCHANGED <<next, generation, historyVars, focuses, edits>>
    /\ Send(CloseSends(e), replies, Kept(e))

\* Variant: a discrete edit does not look for an open gesture.
CommitDuringGesture(e, v) ==
    /\ e \in active
    /\ edits < MaxEdits /\ Acts < MaxActs
    /\ edits' = edits + 1
    /\ UNCHANGED <<editorVars, historyVars, focuses>>
    /\ Send(<<Command(e, "edit", 0, v, TRUE)>>, replies, trace)

\* An edit outside a gesture: a discrete value, written with transaction 0.
CommitDiscreteValue(e, v) ==
    /\ e \in active
    /\ session[e] = None
    /\ edits < MaxEdits /\ Acts < MaxActs
    /\ edits' = edits + 1
    /\ UNCHANGED <<editorVars, historyVars, focuses>>
    /\ Send(<<Command(e, "edit", 0, v, TRUE)>>, replies, trace)

-----------------------------------------------------------------------------
(* Replies, on the message thread.  A completion that finds another gesture*)
(* or none does nothing.                                                   *)

Concerns(e, r) == session[e] # None /\ session[e].number = r.number

Rest(e) == [replies EXCEPT ![e] = Tail(@)]

\* Variant: the reply to begin flushes and forgets a release that came first.
BeginRepliedFlushes(e, r) ==
    LET s == [session[e] EXCEPT !.ready = TRUE]
    IN  /\ r.kind = "begin" /\ Concerns(e, r)
        /\ session' = [session EXCEPT ![e] = IF ~r.ok THEN None ELSE Flushed(s)]
        /\ UNCHANGED <<active, generation>>
        /\ Send(IF ~r.ok THEN CancelSends(e) ELSE Flush(e, s),
                Rest(e), IF r.ok THEN trace ELSE Abandoned(e))

BeginReplied(e, r) ==
    LET s == [session[e] EXCEPT !.ready = TRUE]
    IN  /\ r.kind = "begin" /\ Concerns(e, r)
        /\ session' = [session EXCEPT ![e] =
               IF ~r.ok THEN None ELSE IF s.ending THEN Finished(s) ELSE Flushed(s)]
        /\ UNCHANGED <<active, generation>>
        /\ Send(IF ~r.ok THEN CancelSends(e)
                ELSE IF s.ending THEN Finish(e, s) ELSE Flush(e, s),
                Rest(e), IF r.ok THEN trace ELSE Abandoned(e))

AckReplied(e, r) ==
    /\ r.kind = "ack" /\ Concerns(e, r)
    /\ session' = [session EXCEPT ![e].accepted = r.ok]
    /\ UNCHANGED <<active, generation>>
    /\ Send(<<Command(e, "end", r.number, Default, TRUE)>>, Rest(e), trace)

EndReplied(e, r) ==
    /\ r.kind = "end" /\ Concerns(e, r)
    /\ session' = [session EXCEPT ![e] = None]
    /\ trace' = [trace EXCEPT ![Gesture(e)].reported = r.ok /\ session[e].accepted]
    /\ replies' = Rest(e)
    /\ UNCHANGED <<active, generation, queue, faults>>

ActivateReplied(e, r) ==
    /\ r.kind = "activate"
    /\ active' = IF current = e /\ r.number = generation[e]
                 THEN IF r.ok THEN active \cup {e} ELSE active \ {e}
                 ELSE active
    /\ replies' = Rest(e)
    /\ UNCHANGED <<session, generation, queue, trace, faults>>

\* A command nobody waits for was rejected, or could not be queued or run;
\* the latter also ends the editor's activation.
Unmatched(e, r) ==
    /\ r.kind \in {"error", "rejected"}
    /\ session' = [session EXCEPT ![e] = None]
    /\ active' = IF r.kind = "error" THEN active \ {e} ELSE active
    /\ generation' = IF r.kind = "error"
                     THEN [generation EXCEPT ![e] = @ + 1] ELSE generation
    /\ Send(CancelSends(e), Rest(e), Abandoned(e))

Stale(e, r) ==
    /\ r.kind \in {"begin", "ack", "end"} /\ ~Concerns(e, r)
    /\ replies' = Rest(e)
    /\ UNCHANGED <<session, active, generation, queue, trace, faults>>

Deliver(e) ==
    /\ replies[e] # <<>>
    /\ UNCHANGED <<next, current, closed, historyVars, focuses, edits>>
    /\ LET r == Head(replies[e])
       IN  \/ BeginReplied(e, r) \/ AckReplied(e, r) \/ EndReplied(e, r)
           \/ ActivateReplied(e, r) \/ Unmatched(e, r) \/ Stale(e, r)

-----------------------------------------------------------------------------
(* The managed worker.                                                     *)

Answer(c, kind, ok) ==
    replies' = IF c.from \in closed THEN replies
               ELSE [replies EXCEPT ![c.from] = Append(@, Reply(kind, c.number, ok))]

ExecuteBegin(c, g) ==
    /\ c.kind = "begin"
    /\ owner' = g
    /\ trace' = [trace EXCEPT ![g].began = TRUE]
    /\ Answer(c, "begin", TRUE)
    /\ UNCHANGED <<value, faults>>

\* A write of a gesture goes into the current point and is not answered.
ExecuteWrite(c, g) ==
    /\ c.kind = "write"
    /\ value' = c.value
    /\ trace' = [trace EXCEPT ![g].written = c.value,
                              ![g].strayed = @ \/ (c.value # value /\ owner # g)]
    /\ UNCHANGED <<owner, replies, faults>>

\* The zero-id write takes a point when it changes the value.
ExecuteAck(c, g) ==
    /\ c.kind = "ack"
    /\ value' = c.value
    /\ owner' = IF c.value # value THEN None ELSE owner
    /\ trace' = [trace EXCEPT ![g].written = c.value,
                              ![g].ackPoint = (c.value # value)]
    /\ IF c.waits THEN Answer(c, "ack", TRUE) ELSE UNCHANGED replies
    /\ UNCHANGED faults

ExecuteEdit(c) ==
    /\ c.kind = "edit"
    /\ value' = c.value
    /\ owner' = IF c.value # value THEN None ELSE owner
    /\ UNCHANGED <<trace, replies, faults>>

ExecuteEnd(c, g) ==
    /\ c.kind = "end"
    /\ trace' = [trace EXCEPT ![g].ended = TRUE]
    /\ IF c.waits THEN Answer(c, "end", TRUE) ELSE UNCHANGED replies
    /\ UNCHANGED <<historyVars, faults>>

ExecuteActivate(c) ==
    /\ c.kind = "activate"
    /\ Answer(c, "activate", TRUE)
    /\ UNCHANGED <<historyVars, trace, faults>>

\* A write policy rejects the values, or the write throws.
RejectWrite(c, g, kind) ==
    /\ c.kind \in {"write", "ack"}
    /\ faults < MaxFaults
    /\ faults' = faults + 1
    /\ trace' = [trace EXCEPT ![g].refused = TRUE]
    /\ Answer(c, IF c.waits THEN c.kind ELSE kind, FALSE)
    /\ UNCHANGED historyVars

Execute ==
    /\ queue # <<>>
    /\ queue' = Tail(queue)
    /\ UNCHANGED <<editorVars, focuses, edits>>
    /\ LET c == Head(queue)
           g == <<c.from, c.number>>
       IN  \/ ExecuteBegin(c, g) \/ ExecuteWrite(c, g) \/ ExecuteAck(c, g)
           \/ ExecuteEnd(c, g) \/ ExecuteEdit(c) \/ ExecuteActivate(c)
           \/ \E kind \in {"error", "rejected"} : RejectWrite(c, g, kind)

-----------------------------------------------------------------------------
Next ==
    \/ Execute
    \/ \E e \in Editors :
        \/ Focus(e)
        \/ \E v \in Val : \/ Begin(e, v) \/ SetValues(e, v) \/ End(e, v)
                          \/ CommitDiscreteValue(e, v)
        \/ TimerCallback(e)
        \/ \E fails \in BOOLEAN : Interrupt(e, fails)
        \/ CloseEditor(e)
        \/ Deliver(e)

Spec == Init /\ [][Next]_vars

\* The worker reads its channel for as long as it lives, and the processor's
\* timer hands the queued replies to the editor.  Nothing makes a user let go
\* of a control.  Weak fairness spelt out: either is enabled when it finds
\* something to take.
FairExecute == []<>(queue = <<>>) \/ []<><<Execute>>_vars
FairDeliver(e) == []<>(replies[e] = <<>>) \/ []<><<Deliver(e)>>_vars
FairSpec == Spec /\ FairExecute /\ \A e \in Editors : FairDeliver(e)

-----------------------------------------------------------------------------
(* What the gestures promise.                                              *)

\* The points of two gestures never overlap in the managed core: whatever the
\* focus does between the editors and however far their commands are behind,
\* a gesture's point is ended before another's is begun, unless a command of
\* the earlier one was refused.
OneOpenGesture ==
    \A g, h \in {x \in Gestures : trace[x].began /\ ~trace[x].ended} :
        g = h \/ trace[g].refused \/ trace[h].refused

\* A gesture writes into the point that its own begin_history took, and the
\* acknowledgement, which repeats what the final write has written, takes none of
\* its own, unless one of the gesture's commands was refused.
OnePointUnlessRefused ==
    \A g \in Gestures : trace[g].strayed \/ trace[g].ackPoint => trace[g].refused

\* The position that the user released, or at which the window was closed or
\* lost the focus, is the one the gesture leaves written when it ends.
LastPositionKept ==
    \A g \in Gestures :
        trace[g].ended /\ trace[g].kept # None /\ ~trace[g].refused
            => trace[g].written = trace[g].kept

\* A gesture the editor reports as accepted has its released position
\* written, also when commands were refused on the way.
ReportedMeansWritten ==
    \A g \in Gestures : trace[g].reported => trace[g].written = trace[g].kept

\* A gesture the user has let go of is over in the editor at some time,
\* accepted or not: the control does not stay locked.
Locked(g) == LET s == session[g[1]] IN s # None /\ s.number = g[2] /\ s.ending
GestureEnds == \A g \in Gestures : Locked(g) ~> ~Locked(g)
=============================================================================
