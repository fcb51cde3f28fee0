-------------------------- MODULE EditorPresentation --------------------------
(***************************************************************************)
(* The editor of one instance: its session, the commands that wait for an     *)
(* answer, the clients that cache what the core told it, and the bank it has     *)
(* in focus.  Every operator takes the editor as a record and returns it; the      *)
(* commands it sends collect in `out`.  Everything runs on the message thread.     *)
(* Gestures are in GestureSession; here no dial is being held.                      *)
(***************************************************************************)
EXTENDS RegistryClient, TargetStateClient

CONSTANT Own           \* the instance the editor belongs to

NoCurve == "none"

NewEditor ==
    [unopened |-> TRUE,
     initialized |-> FALSE,  \* the core has answered the session's first command
     active |-> FALSE,       \* session_.Active()
     owner |-> FALSE,        \* EditorSession::activeSession_ is this session
     busy |-> TRUE,
     focus |-> Own, scope |-> FALSE,
     pending |-> {},         \* the completions the protocol client keeps
     registry |-> NewRegistry, target |-> NewTargetState(Own), analyzer |-> NewAnalyzer,
     curve |-> NoCurve,      \* the focused bank's curve among the bank snapshots
     restored |-> FALSE,     \* stateRestored_ of the plug-in
     used |-> {},            \* request ids in use; empty between actions
     out |-> << >>]

SetBusy(e, busy) == [e EXCEPT !.busy = busy]

----------------------------------------------------------------------------
(* Commands.  A completion remembers the generation it was made in as the flag   *)
(* `current`, which the next generation takes away.                              *)

\* An id that is not in use: in TLC the smallest.
NextId(e) == CHOOSE n \in 1..(Cardinality(e.used) + 1) : n \notin e.used

Request(e, command) ==
    [e EXCEPT !.used = @ \cup {NextId(e)},
              !.out = Append(@, [command EXCEPT !.request = NextId(e)])]

Command(selector, target, context) ==
    [selector |-> selector, request |-> NoRequest, target |-> target, context |-> context]
NoContext == "none"

Send(e, command, kind) ==
    LET completion == [request |-> NextId(e), kind |-> kind, current |-> TRUE,
                       scope |-> e.scope, front |-> command.target]
    IN  Request([e EXCEPT !.pending = @ \cup {completion}], command)

IsConnect(p) == p.kind = "connect"
IsEdit(p) == p.kind \notin {"initialize", "connect"}
Edits(e) == {p \in e.pending : IsEdit(p)}
Connects(e) == {p \in e.pending : IsConnect(p)}

Outdate(e, outdated) ==
    [e EXCEPT !.pending = (@ \ outdated) \cup {[p EXCEPT !.current = FALSE] : p \in outdated}]

InvalidateTarget(e) ==
    Outdate([e EXCEPT !.target = InvalidateTargetState(@)], Edits(e))

----------------------------------------------------------------------------
(* What the editor fetches.                                                  *)

FetchRegistry(e) ==
    IF e.active /\ ~FetchPending(e.registry)
    THEN Request([e EXCEPT !.registry = StartSnapshot(@, NextId(e))],
                 Command("registry", Own, NoContext))
    ELSE e

FetchBankSnapshots(e) ==
    IF ~e.active THEN e
    ELSE LET asked == [e EXCEPT !.analyzer = FetchBanks(@, NextId(e))]
         IN  IF FetchesNow(e.analyzer)
             THEN Request(asked, Command("observe_banks", e.target.target, Equalizer))
             ELSE asked

\* One snapshot, and one after the other of all contexts.
RequestContext(e, context) ==
    Request([e EXCEPT !.target = ExpectSnapshot(@, NextId(e), context)],
            Command("observe_target", e.focus, context))

RequestContexts(e) ==
    LET asked[n \in 0..Len(Contexts)] ==
            IF n = 0 THEN e ELSE RequestContext(asked[n - 1], Contexts[n])
    IN  asked[Len(Contexts)]

\* Start over with the bank in focus: forget what is shown and ask for it anew.
Observe(e) ==
    IF ~e.active THEN e
    ELSE LET clear == InvalidateTarget([SetBusy(e, TRUE) EXCEPT !.curve = NoCurve,
                                           !.analyzer = InvalidateAnalyzer(@)])
             turned == [clear EXCEPT !.target = NewTargetState(e.focus)]
         IN  FetchBankSnapshots(RequestContexts(turned))

----------------------------------------------------------------------------
(* The session.                                                              *)

Initialize(e) ==
    Send([e EXCEPT !.unopened = FALSE], Command("initialize", Own, NoContext), "initialize")

\* The old editor says so as it goes; the flag of a restore is the plug-in's.
Closing == "closing"
Close(e) == Request([NewEditor EXCEPT !.restored = e.restored, !.used = e.used],
                    Command("set_instance_active", Own, Closing))

\* An activation or a failure makes a new generation.
Activate(e) ==
    LET fresh      == Outdate([e EXCEPT !.owner = TRUE], Connects(e))
        connecting == SetBusy([InvalidateTarget(fresh) EXCEPT
                                  !.registry = InvalidateRegistry(@)], TRUE)
    IN  Send(connecting, Command("set_instance_active", Own, NoContext), "connect")

Fail(e) == Outdate([e EXCEPT !.active = FALSE], Connects(e))

\* Another instance's editor has become the active one.
Deactivated(e) ==
    SetBusy([InvalidateTarget([e EXCEPT !.active = FALSE, !.owner = FALSE]) EXCEPT
                !.analyzer = InvalidateAnalyzer(@)], TRUE)

Connected(e, p, accepted) ==
    IF ~e.owner \/ ~p.current THEN e
    ELSE IF accepted THEN Observe(FetchRegistry([e EXCEPT !.active = TRUE]))
    ELSE SetBusy([e EXCEPT !.active = FALSE], TRUE)

----------------------------------------------------------------------------
(* Completions.                                                              *)

\* A faulty variant that leaves a refused command alone.
CommandCompletionVariant(e, p, accepted) ==
    IF ~e.active \/ ~p.current \/ ~accepted THEN e ELSE SetBusy(e, FALSE)

CommandCompletion(e, p, accepted) ==
    IF ~e.active \/ ~p.current THEN e
    ELSE IF accepted THEN SetBusy(e, FALSE) ELSE Observe(e)

\* A grouping moves the focus to the first of the banks and, unlike the other
\* completions, does not ask whether the editor has moved on.
GroupCompletion(e, p, accepted) ==
    Observe(IF accepted THEN [e EXCEPT !.focus = p.front, !.scope = TRUE] ELSE e)

UngroupCompletion(e, p, accepted) ==
    CommandCompletion(IF accepted THEN [e EXCEPT !.scope = FALSE] ELSE e, p, accepted)

WriteCompletion(e, p, accepted) ==
    IF ~accepted /\ ~e.busy /\ e.active /\ p.current /\ p.scope = e.scope THEN Observe(e) ELSE e

Complete(e, p, accepted) ==
    LET settled == [e EXCEPT !.pending = @ \ {p}]
    IN  CASE p.kind = "initialize" -> [settled EXCEPT !.initialized = accepted]
          [] p.kind = "connect" -> Connected(settled, p, accepted)
          [] p.kind = "group"   -> GroupCompletion(settled, p, accepted)
          [] p.kind = "ungroup" -> UngroupCompletion(settled, p, accepted)
          [] p.kind = "write"   -> WriteCompletion(settled, p, accepted)
          [] OTHER              -> CommandCompletion(settled, p, accepted)

\* An error that no completion awaits, or one that answers a snapshot request,
\* ends the session.
HandleCompletion(e, frame) ==
    LET waiting  == {p \in e.pending : p.request = frame.request}
        accepted == frame.selector = "action_done" /\ frame.accepted
        after    == IF waiting = {} THEN e
                    ELSE Complete(e, CHOOSE p \in waiting : TRUE, accepted)
        dropped  == [after EXCEPT !.registry = CancelSnapshot(@, frame.request)]
    IN  IF frame.selector # "error" THEN after
        ELSE IF IsSnapshotRequest(dropped.target, frame.request) \/ waiting = {}
        THEN SetBusy(Fail(dropped), TRUE)
        ELSE dropped

----------------------------------------------------------------------------
(* Frames.                                                                   *)

ApplySnapshot(e, frame) ==
    LET target == HandleSnapshot(e.target, frame)
        shown  == [e EXCEPT !.target = target]
    IN  IF target.ready THEN SetBusy(shown, FALSE) ELSE shown

ApplyChangedValue(e, frame) ==
    LET changed == [e EXCEPT !.target = HandleChanged(@, frame)]
    IN  IF ~e.active THEN e
        ELSE IF Shows(e.target, frame) /\ frame.context = Equalizer
        THEN FetchBankSnapshots(changed)
        ELSE changed

ApplyBankSnapshots(e, frame) ==
    LET answered == [e EXCEPT !.analyzer = HandleBanks(@)]
    IN  [IF e.analyzer.dirty THEN FetchBankSnapshots(answered) ELSE answered
            EXCEPT !.curve = frame.value]

\* A faulty variant that keeps the scope of a bank that has left its group.
RegistryChangedVariant(e) ==
    IF e.active /\ ~Find(e.registry, e.focus)
    THEN Observe([e EXCEPT !.focus = Own, !.scope = FALSE]) ELSE e

\* A focus that is gone returns to the editor's own instance, and a bank without
\* a group is edited alone.
RegistryChanged(e) ==
    LET present == IF e.active /\ ~Find(e.registry, e.focus)
                   THEN Observe([e EXCEPT !.focus = Own, !.scope = FALSE]) ELSE e
    IN  [present EXCEPT !.scope = @ /\ BankHasGroup(present.registry, present.focus)]

ApplyRegistry(e, frame) ==
    LET result == HandleRegistry(e.registry, frame)
        cached == [e EXCEPT !.registry = result.client]
    IN  CASE result.update = "resynchronize" -> FetchRegistry(cached)
          [] result.update = "changed"       -> RegistryChanged(cached)
          [] OTHER                           -> cached

\* Whether a client refuses the frame with an exception.
Throws(e, frame) ==
    CASE frame.selector = "target_state_snapshot" ->
           e.active /\ SnapshotAnswers(e.target, frame) /\ ~SnapshotFits(e.target, frame)
      [] frame.selector = "bank_state_snapshots" ->
           e.active /\ BanksAnswer(e.analyzer, frame) /\ frame.target # e.target.target
      [] frame.selector \in {"action_done", "error", "state_changed"} -> FALSE
      [] OTHER -> HandleRegistry(e.registry, frame).update = "throws"

RouteOutput(e, frame) ==
    CASE frame.selector \in {"action_done", "error"} -> HandleCompletion(e, frame)
      [] frame.selector = "target_state_snapshot" ->
           IF e.active /\ SnapshotAnswers(e.target, frame) THEN ApplySnapshot(e, frame) ELSE e
      [] frame.selector = "state_changed" -> ApplyChangedValue(e, frame)
      [] frame.selector = "bank_state_snapshots" ->
           IF e.active /\ BanksAnswer(e.analyzer, frame) THEN ApplyBankSnapshots(e, frame)
           ELSE e
      [] OTHER -> ApplyRegistry(e, frame)

\* An exception ends the session and forgets what the editor shows.
HandleOutput(e, frame) ==
    IF Throws(e, frame)
    THEN SetBusy([InvalidateTarget(Fail([e EXCEPT
                    !.registry = HandleRegistry(@, frame).client, !.curve = NoCurve])) EXCEPT
                     !.analyzer = InvalidateAnalyzer(@)], TRUE)
    ELSE RouteOutput(e, frame)

----------------------------------------------------------------------------
(* What the user does.                                                       *)

Editable(e) == e.active /\ ~e.busy

CanSelect(e, i) == Find(e.registry, i) /\ i # e.focus
SelectTarget(e, i) ==
    Observe([e EXCEPT !.focus = i, !.scope = BankHasGroup(e.registry, i)])

CanScope(e) == BankHasGroup(e.registry, e.focus)
ToggleScope(e) == [e EXCEPT !.scope = ~@]

CommitDiscreteValue(e, context) == Send(e, Command("write", e.focus, context), "write")

\* Undo, redo, a reset, an equalizer process or a track button: the editor waits.
RunCommand(e) == Send(SetBusy(e, TRUE), Command("command", e.focus, NoContext), "command")

\* Two banks without a group are grouped, the selection's first becoming focus.
CanGroup(e, i, j) ==
    /\ e.registry.ready /\ i # j
    /\ \A k \in {i, j} : Find(e.registry, k) /\ ~BankHasGroup(e.registry, k)
GroupSelectedBanks(e, front, other) ==
    Send(SetBusy(e, TRUE), Command("group_banks", front, other), "group")

CanUngroup(e) == BankHasGroup(e.registry, e.focus)
UngroupFocusedBank(e) ==
    Send(SetBusy(e, TRUE), Command("ungroup_banks", e.focus, NoContext), "ungroup")
=============================================================================
