--------------------------- MODULE TargetStateClient ---------------------------
(***************************************************************************)
(* The two clients that hold what the editor shows of a bank:                 *)
(* TargetStateClient, the values of all its processors, collected from one       *)
(* answer per context, and AnalyzerClient, the curves of the equalizer.           *)
(* A context stands for the values of a processor and has one value.                *)
(***************************************************************************)
EXTENDS Integers, Sequences, SequencesExt, Functions

CONSTANT Contexts      \* the snapshot contexts, in the order they are requested

ASSUME ContextAssumption == Contexts \in Seq(STRING) /\ Contexts # << >>

\* The equalizer comes last: the core keeps the last context as its graph focus.
Equalizer == Last(Contexts)

NoValues == << >>

NewTargetState(target) ==
    [target |-> target, requests |-> NoValues, accepted |-> {}, staged |-> NoValues,
     values |-> NoValues, ready |-> FALSE]

InvalidateTargetState(t) == NewTargetState(t.target)

WithValue(values, c, value) ==
    [d \in DOMAIN values \cup {c} |-> IF d = c THEN value ELSE values[d]]

ExpectSnapshot(t, request, context) ==
    [t EXCEPT !.requests = WithValue(@, request, context)]

IsSnapshotRequest(t, request) == request \in DOMAIN t.requests

\* A faulty variant that is satisfied with the first answer.
HandleSnapshotVariant(t, frame) ==
    [t EXCEPT !.accepted = @ \cup {frame.context},
              !.staged = WithValue(@, frame.context, frame.value),
              !.values = WithValue(t.staged, frame.context, frame.value),
              !.ready = TRUE]

\* An answer to one of the outstanding requests; the last one makes the values
\* ready.  `fits` is what the code requires of it, and throws without.
SnapshotAnswers(t, frame) ==
    IsSnapshotRequest(t, frame.request) /\ t.requests[frame.request] \notin t.accepted

SnapshotFits(t, frame) ==
    frame.target = t.target /\ frame.context = t.requests[frame.request]

HandleSnapshot(t, frame) ==
    LET staged   == WithValue(t.staged, frame.context, frame.value)
        accepted == t.accepted \cup {frame.context}
    IN  IF accepted = Range(t.requests)
        THEN [t EXCEPT !.accepted = accepted, !.staged = NoValues, !.values = staged,
                       !.ready = TRUE]
        ELSE [t EXCEPT !.accepted = accepted, !.staged = staged]

\* Whether a notification changes a value that is shown.
Shows(t, frame) == t.ready /\ frame.context \in DOMAIN t.values

\* A notification about a context whose answer is still to come is dropped.  It
\* does not say which bank it is about: it goes to whatever is shown.
HandleChanged(t, frame) ==
    IF Shows(t, frame) THEN [t EXCEPT !.values[frame.context] = frame.value]
    ELSE IF ~t.ready /\ frame.context \in DOMAIN t.staged
    THEN [t EXCEPT !.staged[frame.context] = frame.value]
    ELSE t

----------------------------------------------------------------------------
(* AnalyzerClient.                                                           *)

NoRequest == 0
NewAnalyzer == [request |-> NoRequest, dirty |-> FALSE]
InvalidateAnalyzer(a) == NewAnalyzer

\* Whether fetching the banks sends a request or marks the one in flight.
FetchesNow(a) == a.request = NoRequest

\* A change that finds a request in flight asks once more when it is answered.
FetchBanks(a, id) ==
    IF FetchesNow(a) THEN [request |-> id, dirty |-> FALSE] ELSE [a EXCEPT !.dirty = TRUE]

\* A faulty variant that takes any answer for the one it waits for.
BanksAnswerVariant(a, frame) == a.request # NoRequest

BanksAnswer(a, frame) == a.request # NoRequest /\ frame.request = a.request

\* The answer is taken, and asked for again if it is out of date.
HandleBanks(a) == [a EXCEPT !.request = NoRequest]
=============================================================================
