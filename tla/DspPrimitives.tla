---------------------------- MODULE DspPrimitives ----------------------------
(***************************************************************************)
(* The building blocks of the native sound path: the parameter ramp, the    *)
(* crossfading biquad cascade, and the way a processor remembers what its    *)
(* cached coefficients were computed from.                                   *)
(*                                                                          *)
(* Sound is abstracted to whether a register has heard any (0 is the value   *)
(* Reset leaves, 1 a value shaped by sound).  A coefficient is abstracted to *)
(* its STAMP, the inputs it was computed from: a stale coefficient is one    *)
(* whose stamp differs from the inputs in force.                             *)
(***************************************************************************)
EXTENDS Integers, FiniteSets, Sequences, TLC

CONSTANTS RampLength,        \* samples of a parameter ramp (10 ms in the code)
          TransitionLength   \* samples of a filter crossfade (10 ms in the code)

ASSUME LengthAssumption == /\ RampLength \in Nat \ {0}
                           /\ TransitionLength \in Nat \ {0}

----------------------------------------------------------------------------
(* ParameterRamp: a linear ramp of RampLength samples towards the target.     *)

Ramp(value) == [current |-> value, target |-> value, left |-> 0]

RampReset(r) == [r EXCEPT !.current = r.target, !.left = 0]

RampSetTarget(r, value) ==
    IF value = r.target THEN r
    ELSE [r EXCEPT !.target = value,
                   !.left = IF value = r.current THEN 0 ELSE RampLength]

\* One sample.  The step is fixed when the target is set; over the remaining
\* samples it is the remaining distance shared out evenly, rounded here.
RampAdvance(r) ==
    IF r.left = 0 THEN r
    ELSE [r EXCEPT !.current = IF r.left = 1 THEN r.target
                               ELSE @ + (r.target - @) \div r.left,
                   !.left = @ - 1]

IsSmoothing(r) == r.left > 0

----------------------------------------------------------------------------
(* Stamps.                                                                   *)

Unset == [none |-> 0]

Stamp(inputs, reads) == [n \in reads |-> inputs[n]]

\* The fields of both, the first one's where both have them.
f ++ g == [n \in DOMAIN f \cup DOMAIN g |-> IF n \in DOMAIN f THEN f[n] ELSE g[n]]

Charge(mem, registers, loud) ==
    [n \in DOMAIN mem |-> IF n \in registers /\ loud > 0 THEN 1 ELSE mem[n]]

Clear(mem, registers) == [n \in DOMAIN mem |-> IF n \in registers THEN 0 ELSE mem[n]]

----------------------------------------------------------------------------
(* BiquadCascade: two compiled paths and a crossfade from the current one to  *)
(* the target one.  A path is the number of its stages, the stamp of their    *)
(* coefficients and whether their histories have heard sound.                 *)

EmptyPath == [stages |-> 0, coef |-> Unset, history |-> 0]

\* filter is a record of type, active flag, gain (0 is unity) and whether its
\* frequency and Q can be compiled at all.
Compile(filter, enabled, rate) ==
    IF ~enabled \/ ~filter.active \/ filter.gain = 0 THEN EmptyPath
    ELSE IF filter.type = "Gain"
         THEN [stages |-> 1, coef |-> [filter |-> filter], history |-> 0]
    ELSE IF ~filter.usable \/ filter.type = "None" THEN EmptyPath
    ELSE [stages |-> IF filter.type = "Tilt" THEN 2 ELSE 1,
          coef |-> [filter |-> filter, rate |-> rate],
          history |-> 0]

NoFilter == [type |-> "None", active |-> FALSE, gain |-> 0, usable |-> TRUE]

Cascade == [rate |-> 0, position |-> 0, filter |-> NoFilter, enabled |-> FALSE,
            initialized |-> FALSE, current |-> EmptyPath, target |-> EmptyPath]

CascadePrepare(c, rate) ==
    IF ~c.initialized THEN [c EXCEPT !.rate = rate]
    ELSE LET path == Compile(c.filter, c.enabled, rate)
         IN  [c EXCEPT !.rate = rate, !.current = path, !.target = path,
                       !.position = TransitionLength]

CascadeReset(c) ==
    LET path == [c.target EXCEPT !.history = 0]
    IN  [c EXCEPT !.current = path, !.target = path, !.position = TransitionLength]

\* A faulty variant that starts the crossfade from the new path.
CascadeSetParametersVariant(c, filter, enabled) ==
    LET next == Compile(filter, enabled, c.rate)
        set  == [c EXCEPT !.filter = filter, !.enabled = enabled, !.target = next]
    IN  IF c.initialized /\ c.enabled = enabled /\ c.filter = filter THEN c
        ELSE [set EXCEPT !.current = next, !.initialized = TRUE,
                         !.position = IF c.initialized THEN 0 ELSE TransitionLength]

CascadeSetParameters(c, filter, enabled) ==
    LET next == Compile(filter, enabled, c.rate)
        set  == [c EXCEPT !.filter = filter, !.enabled = enabled, !.target = next]
    IN  IF c.initialized /\ c.enabled = enabled /\ c.filter = filter THEN c
        ELSE IF ~c.initialized
             THEN [set EXCEPT !.current = next, !.initialized = TRUE,
                              !.position = TransitionLength]
        ELSE [set EXCEPT !.current = IF c.position < TransitionLength THEN c.target ELSE @,
                         !.position = 0]

Transitioning(c) == c.position < TransitionLength

RequiresProcessing(c) ==
    c.initialized /\ (c.current.stages > 0 \/ c.target.stages > 0 \/ Transitioning(c))

Heard(path, loud) == IF path.stages > 0 /\ loud > 0 THEN [path EXCEPT !.history = 1] ELSE path

\* One sample: a settled cascade runs its current path only; a transition runs
\* both and hands over to the target when it is complete.
CascadeProcess(c, loud) ==
    LET current == Heard(c.current, loud)
        target  == Heard(c.target, loud)
        last    == c.position + 1 = TransitionLength
    IN  IF ~RequiresProcessing(c) THEN c
        ELSE IF ~Transitioning(c) THEN [c EXCEPT !.current = current]
        ELSE [c EXCEPT !.current = IF last THEN target ELSE current,
                       !.target = target, !.position = @ + 1]

\* What the next sample consists of: the share of each path, in
\* units of one TransitionLength-th.
Shares(c) == IF c.current.coef = c.target.coef \/ ~Transitioning(c)
             THEN [p \in {c.current.coef} |-> TransitionLength]
             ELSE [p \in {c.current.coef, c.target.coef} |->
                     IF p = c.target.coef THEN c.position ELSE TransitionLength - c.position]
=============================================================================
