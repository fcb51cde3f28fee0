--------------------------- MODULE LevelProcessors ----------------------------
(***************************************************************************)
(* The processors that set levels: the leveler of a gain stage and the output  *)
(* limiter.  Gains are whole decibels and loudness is 0 (silence), 1 (between  *)
(* the leveler's gate thresholds) or 2 (above them); an exponential approach    *)
(* moves one unit of its distance at a time, the fast follower at once.          *)
(***************************************************************************)
EXTENDS ToneProcessors

CONSTANTS MinimumGainDb, MaximumGainDb,     \* the leveler's range of gains
          MaximumFastCorrectionDb           \* the most its fast part may add

ASSUME GainAssumption ==
    /\ MinimumGainDb \in Int /\ MaximumGainDb \in Int /\ MinimumGainDb <= MaximumGainDb
    /\ MaximumFastCorrectionDb \in Nat

Clamp(x, low, high) == IF x < low THEN low ELSE IF x > high THEN high ELSE x

\* One unit closer to the target.
Approach(x, target) == IF x < target THEN x + 1 ELSE IF x > target THEN x - 1 ELSE x

----------------------------------------------------------------------------
(* Leveler.                                                                  *)

LevelerEstimates == {"weighting", "slowEnergy", "fastEnergy", "gateOpen", "hasEstimate",
                     "gateEnergy", "gateHold"}

LevelerNew ==
    Blank("Leveler", FALSE, {"targetDb", "manualGainDb"}, {"enabled", "initialized"}, {},
          {"weighting", "times"}, LevelerEstimates \cup {"effective", "slow", "fast"})

LevelerPrepare(p, rate) ==
    [p EXCEPT !.rate = rate, !.coef.weighting = [rate |-> rate], !.coef.times = [rate |-> rate],
              !.mem.weighting = 0]

LevelerReset(p) ==
    LET rest == ResetRamps(p)
        gain == rest.ramp.manualGainDb.current
    IN  [rest EXCEPT !.mem = [Clear(p.mem, LevelerEstimates)
                                EXCEPT !.effective = gain, !.slow = gain, !.fast = 0]]

\* A faulty variant that switches off without a hand-over to the manual ramp.
LevelerSetControlsVariant(p, c) ==
    LET on   == c.enabled # 0 /\ p.flag.enabled = 0
        rest == IF on THEN Clear(p.mem, LevelerEstimates) ELSE p.mem
    IN  [p EXCEPT !.ramp = [p.ramp EXCEPT !.targetDb = RampSetTarget(@, c.targetDb),
                                          !.manualGainDb = RampSetTarget(@, c.manualGainDb)],
                  !.mem = IF on THEN [rest EXCEPT !.slow = p.mem.effective, !.fast = 0] ELSE rest,
                  !.flag = [p.flag EXCEPT !.enabled = c.enabled, !.initialized = 1]]

\* Switching the leveler on starts its estimates anew from the gain in force;
\* switching it off makes the manual ramp start from that gain.
LevelerSetControls(p, c) ==
    LET gain   == p.mem.effective
        on     == c.enabled # 0 /\ p.flag.enabled = 0
        off    == c.enabled = 0 /\ p.flag.enabled # 0 /\ p.flag.initialized # 0
        manual == IF off THEN RampReset(RampSetTarget(p.ramp.manualGainDb, gain))
                  ELSE p.ramp.manualGainDb
        rest   == IF on THEN Clear(p.mem, LevelerEstimates) ELSE p.mem
    IN  [p EXCEPT !.ramp = [p.ramp EXCEPT !.targetDb = RampSetTarget(@, c.targetDb),
                                          !.manualGainDb = RampSetTarget(manual, c.manualGainDb)],
                  !.mem = IF on \/ off THEN [rest EXCEPT !.slow = gain, !.fast = 0] ELSE rest,
                  !.flag = [p.flag EXCEPT !.enabled = c.enabled, !.initialized = 1]]

\* The gate opens above its higher threshold and closes, after a hold of
\* p.rate samples, below its lower one; opening seeds both estimates.
LevelerGate(p, loud) ==
    LET m      == p.mem
        energy == Approach(m.gateEnergy, loud)
        open   == energy = 2 \/ (m.gateOpen = 1 /\ (energy = 1 \/ m.gateHold > 0))
        hold   == IF energy = 2 \/ (energy = 1 /\ m.gateOpen = 1) THEN p.rate
                  ELSE IF energy = 0 THEN Higher(m.gateHold - 1, 0) ELSE m.gateHold
        seed   == m.hasEstimate = 0 \/ m.gateOpen = 0
    IN  [m EXCEPT !.weighting = Higher(@, Lower(loud, 1)),
                  !.gateEnergy = energy, !.gateHold = hold, !.gateOpen = IF open THEN 1 ELSE 0,
                  !.hasEstimate = IF open THEN 1 ELSE @,
                  !.fastEnergy = IF ~open THEN @ ELSE loud,
                  !.slowEnergy = IF ~open THEN @ ELSE IF seed THEN loud ELSE Approach(@, loud)]

\* A faulty variant whose fast part may leave the range of gains.
LevelerGainTargetsVariant(p, m, loud) ==
    LET measuring == m.gateOpen = 1 /\ loud > 0
        desired == Clamp(p.ramp.targetDb.current - m.slowEnergy, MinimumGainDb, MaximumGainDb)
        slow == IF measuring THEN Approach(m.slow, desired) ELSE m.slow
        correction == IF ~measuring THEN 0
                      ELSE Clamp(m.slowEnergy - m.fastEnergy,
                                 -MaximumFastCorrectionDb, MaximumFastCorrectionDb)
        fast == Approach(m.fast, correction)
    IN  [effective |-> slow + fast, slow |-> slow, fast |-> fast]

\* The slow gain follows the target over the measured level; the fast part
\* corrects the fast level against the slow one within what is left of the range.
LevelerGainTargets(p, m, loud) ==
    LET measuring == m.gateOpen = 1 /\ loud > 0
        desired == Clamp(p.ramp.targetDb.current - m.slowEnergy, MinimumGainDb, MaximumGainDb)
        slow == IF measuring THEN Approach(m.slow, desired) ELSE m.slow
        correction == IF ~measuring THEN 0
                      ELSE Clamp(m.slowEnergy - m.fastEnergy,
                                 -MaximumFastCorrectionDb, MaximumFastCorrectionDb)
        fast == Clamp(Approach(m.fast, correction),
                      Higher(-MaximumFastCorrectionDb, MinimumGainDb - slow),
                      Lower(MaximumFastCorrectionDb, MaximumGainDb - slow))
    IN  [effective |-> slow + fast, slow |-> slow, fast |-> fast]

LevelerCalculateAutomaticGain(p, loud) ==
    LET m == LevelerGate(p, loud)
    IN  LevelerGainTargets(p, m, loud) ++ m

\* The gains of the block's first sample and after its last one.
LevelerProcessManualGain(p) ==
    LET gain == p.ramp.manualGainDb.current
        next == RampAdvance(p.ramp.manualGainDb)
    IN  [p EXCEPT !.ramp.manualGainDb = next, !.now = @ ++ [startGain |-> gain],
                  !.mem = [p.mem EXCEPT !.effective = next.current, !.slow = next.current,
                                        !.fast = 0]]

LevelerProcessAutomaticGain(p, targets) ==
    [p EXCEPT !.now = @ ++ [startGain |-> p.mem.effective], !.mem = targets]

LevelerProcess(p, loud) ==
    LET ready == [p EXCEPT !.now = Reading(p) ++ [previousGain |-> p.mem.effective],
                           !.ramp.targetDb = RampAdvance(@)]
    IN  IF p.flag.enabled = 0 THEN LevelerProcessManualGain(ready)
        ELSE LevelerProcessAutomaticGain(ready, LevelerCalculateAutomaticGain(ready, loud))

LevelerWanted(in) == [weighting |-> Stamp(in, {"rate"}), times |-> Stamp(in, {"rate"})]

----------------------------------------------------------------------------
(* Limiter.                                                                  *)

LimiterNew == Blank("Limiter", FALSE, {"ceilingDb"}, {}, {}, {"release"},
                    {"gain", "reductionDb"})

LimiterPrepare(p, rate) == [p EXCEPT !.rate = rate, !.coef.release = [rate |-> rate]]

LimiterReset(p) == [ResetRamps(p) EXCEPT !.mem = Clear(@, {"gain", "reductionDb"})]

\* Its enabled flag is left out: OutputDevice always passes true.
LimiterSetControls(p, c) == Aim(p, c, {"ceilingDb"})

\* A raised ceiling follows its ramp; a lowered one applies at once.
LimiterCeiling(p) ==
    IF IsSmoothing(p.ramp.ceilingDb)
    THEN Lower(p.ramp.ceilingDb.current, p.ramp.ceilingDb.target)
    ELSE p.ramp.ceilingDb.target

LimiterProcess(p, loud) ==
    LET gain == IF loud > LimiterCeiling(p) THEN 2 ELSE Higher(p.mem.gain - 1, 0)
    IN  AdvanceRamps([p EXCEPT !.now = Reading(p),
                               !.mem = [gain |-> gain, reductionDb |-> gain]])

LimiterWanted(in) == [release |-> Stamp(in, {"rate"})]
=============================================================================
