--------------------------- MODULE ParameterModels ---------------------------
(***************************************************************************)
(* What the channel strip and the graph of an editor keep of the values they   *)
(* show: the models of the parameters, the dials among them, and the view model    *)
(* of the graph.  Values are whole units of a linear scale.                          *)
(***************************************************************************)
EXTENDS Integers, FiniteSets, Sequences, Functions, TLC

CONSTANTS
    Top,        \* values run from 0 to Top
    Rough,      \* step of a rough move
    Handles,    \* the filters the graph shows as handles
    Context,    \* handle |-> the source it belongs to
    Equalizer,  \* the source that has banks
    Gain,       \* handle |-> path of its gain
    Q,          \* handle |-> path of its Q, of the bells
    None        \* no value

ASSUME ScaleAssumption == Top \in Nat \ {0} /\ Rough \in Nat \ {0}

Values == 0..Top
Clamp(v, low, high) == IF v < low THEN low ELSE IF v > high THEN high ELSE v

----------------------------------------------------------------------------
(* Dials.  An entry has the value of a parameter and the range its group has. *)

EditingRange(entry, group) == IF group THEN entry.range ELSE <<0, Top>>

\* Where a value is on the ring.
Normalize(v) == Clamp(v, 0, Top)

\* The value a position stands for, rounded to the step when the user asks so.
Quantize(position, rough, range) ==
    Clamp(IF rough THEN ((2 * position + Rough) \div (2 * Rough)) * Rough ELSE position,
          range[1], range[2])

NewDial == [dragging |-> FALSE, preview |-> None, position |-> 0]

Previewing(dial) == dial.preview # None

\* What a dial shows when nothing measures its value.
DisplayValue(dial, entry) == IF Previewing(dial) THEN dial.preview ELSE entry.value

----------------------------------------------------------------------------
(* The graph.                                                                *)

NoEntries == << >>
With(path, value, others) ==
    [p \in DOMAIN others \cup {path} |-> IF p = path THEN value ELSE others[p]]
NoContext == "none"
NewGraph ==
    [context |-> NoContext, entries |-> NoEntries, preview |-> NoEntries, q |-> None,
     rate |-> 0, group |-> FALSE, ready |-> FALSE, curves |-> NoEntries,
     others |-> FALSE, banks |-> FALSE, all |-> None, spectrum |-> None,
     dragging |-> FALSE, selected |-> None]

Shown(context) == {h \in Handles : Context[h] = context}
Parameters(h) == {Gain[h]} \cup (IF h \in DOMAIN Q THEN {Q[h]} ELSE {})
Bound(context) == UNION {Parameters(h) : h \in Shown(context)}

\* A parameter under the pointer counts for its preview.
Value(g, path) == IF path \in DOMAIN g.preview THEN g.preview[path] ELSE g.entries[path].value

\* A curve is as good as what it is calculated from.
Responses(g) == [values |-> [p \in Bound(g.context) |-> Value(g, p)], rate |-> g.rate]

\* The curve of all the banks: that of the others and the one in focus.  A bank that is
\* bypassed has none in the code if all others are; bypass is not a parameter here.
ComposeAllBanks(g) ==
    [g EXCEPT !.all = IF g.ready /\ g.context = Equalizer /\ g.others THEN g.curves ELSE None]

Rebuild(g) ==
    IF g.entries = NoEntries \/ g.rate = 0 THEN [g EXCEPT !.ready = FALSE, !.all = None]
    ELSE ComposeAllBanks([g EXCEPT !.ready = TRUE, !.curves = Responses(g)])

RebuildAllBanks(g) ==
    ComposeAllBanks([g EXCEPT !.others = g.context = Equalizer /\ g.rate > 0 /\ g.banks])

ResetInteraction(g) == [g EXCEPT !.dragging = FALSE, !.selected = None]

ClearSpectrum(g) == [g EXCEPT !.spectrum = None]

\* A spectrum is of the rate it was measured at.
SetSpectrumRate(g, rate) == IF rate = g.rate THEN g ELSE ClearSpectrum([g EXCEPT !.rate = rate])

ApplySpectrum(g, target) == IF g.ready THEN [g EXCEPT !.spectrum = target] ELSE g

Clear(g) ==
    ResetInteraction(ClearSpectrum(
        [g EXCEPT !.context = NoContext, !.entries = NoEntries, !.preview = NoEntries, !.q = None,
                  !.ready = FALSE, !.curves = NoEntries, !.others = FALSE, !.banks = FALSE,
                  !.all = None]))

SetSnapshot(g, context, entries, rate) ==
    RebuildAllBanks(Rebuild(
        [SetSpectrumRate(g, rate) EXCEPT
            !.context = context, !.preview = NoEntries, !.q = None,
            !.entries = Restrict(entries, Bound(context))]))

ApplyEntry(g, path, entry) ==
    IF path \in DOMAIN g.entries THEN Rebuild([g EXCEPT !.entries[path] = entry]) ELSE g

SetSampleRate(g, rate) ==
    IF rate = g.rate THEN g ELSE RebuildAllBanks(Rebuild(SetSpectrumRate(g, rate)))

ApplyBankSnapshots(g) == RebuildAllBanks([g EXCEPT !.banks = TRUE])

ApplyPreview(g, values) == Rebuild([g EXCEPT !.preview = values])

FinishGraphPreview(g) ==
    Rebuild([g EXCEPT !.preview = NoEntries, !.q = None, !.dragging = FALSE])

\* The handle's values, to begin with; its Q only counts once it is moved.
BeginPreview(g, h) ==
    [g EXCEPT !.preview = With(Gain[h], Value(g, Gain[h]), @),
              !.q = IF h \in DOMAIN Q THEN Value(g, Q[h]) ELSE None,
              !.selected = h]

RangeOf(g, path) == EditingRange(g.entries[path], g.group)

Move(g, h, v) ==
    LET range == RangeOf(g, Gain[h])
    IN  Rebuild([g EXCEPT !.preview = With(Gain[h], Clamp(v, range[1], range[2]), @)])

\* A Q outside of what the group allows is left alone.
ChangeQ(g, h, delta) ==
    LET range == RangeOf(g, Q[h])
        next  == Clamp(g.q + delta, range[1], range[2])
    IN  IF range[1] = range[2] \/ g.q = None \/ g.q \notin range[1]..range[2] THEN g
        ELSE Rebuild([g EXCEPT !.q = next, !.preview = With(Q[h], next, @)])
=============================================================================
