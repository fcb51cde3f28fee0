--------------------------- MODULE CompressorModels ---------------------------
(***************************************************************************)
(* The four compressor models as functions on a processor record: which      *)
(* control each step reads, which cached coefficients it recomputes and       *)
(* which keys decide that it need not, which histories it charges.            *)
(*                                                                          *)
(* A processor record p has                                                  *)
(*   emu   the control mode: the plug-in's own (Normal) or Emulation           *)
(*   rate  the prepared sample rate      set   the controls last set           *)
(*   ramp  the control ramps             flag  the controls without a ramp     *)
(*   key   the cached keys               coef  the stamps of the coefficients  *)
(*   mem   the histories                 now   the inputs of the last sample   *)
(***************************************************************************)
EXTENDS DspPrimitives

NoKey == -1

\* What the next sample reads: every ramp before it advances, the flags and
\* the sample rate.
Reading(p) == [n \in DOMAIN p.ramp |-> p.ramp[n].current] ++ p.flag ++ [rate |-> p.rate]

AdvanceRamps(p) == [p EXCEPT !.ramp = [n \in DOMAIN @ |-> RampAdvance(@[n])]]

ResetRamps(p) == [p EXCEPT !.ramp = [n \in DOMAIN @ |-> RampReset(@[n])],
                           !.now = Unset]

\* The named ramps move towards the controls of the same name.
Aim(p, controls, names) ==
    [p EXCEPT !.ramp = [n \in DOMAIN @ |->
                          IF n \in names THEN RampSetTarget(@[n], controls[n]) ELSE @[n]]]

Blank(kind, emu, ramps, flags, keys, coefs, mems) ==
    [kind |-> kind, emu |-> emu, rate |-> 0, set |-> Unset,
     ramp |-> [n \in ramps |-> Ramp(0)], flag |-> [n \in flags |-> 0],
     key |-> [n \in keys |-> NoKey], coef |-> [n \in coefs |-> Unset],
     mem |-> [n \in mems |-> 0], now |-> Unset]

----------------------------------------------------------------------------
(* Cla76.                                                                    *)

Cla76New(emu) ==
    Blank("Cla76", emu,
          {"reduction", "inputGain", "outputGain", "attack", "release", "ratioControl"}, {},
          {"reduction", "nominalInput", "nominalOutput", "attack", "release", "ratio",
           "ratioControl"},
          {"mode", "attack", "release", "curve", "makeup", "colour"},
          {"detectorPower", "allMemory", "colourPole", "reductionDb"})

Cla76Reset(p) ==
    [ResetRamps(p) EXCEPT
        !.key = [n \in DOMAIN p.key |-> NoKey],
        !.mem = Clear(p.mem, {"reductionDb", "detectorPower", "allMemory"} \cup
                             IF p.emu THEN {"colourPole"} ELSE {})]

Cla76Prepare(p, rate) ==
    Cla76Reset([p EXCEPT !.rate = rate,
                         !.coef.colour = IF p.emu THEN [rate |-> rate] ELSE @])

\* In Emulation the attenuator law is evaluated only for a new nominal gain.
Cla76SetControls(p, c) ==
    IF p.emu
    THEN LET gains == (IF c.inputGain # p.key.nominalInput THEN {"inputGain"} ELSE {}) \cup
                      (IF c.outputGain # p.key.nominalOutput THEN {"outputGain"} ELSE {})
         IN  [Aim(p, c, gains \cup {"attack", "release", "ratioControl"}) EXCEPT
                 !.key.nominalInput = c.inputGain, !.key.nominalOutput = c.outputGain]
    ELSE Aim(p, c, {"reduction", "outputGain", "attack", "release", "ratioControl"})

\* The part of the Normal ratio range below 4:1 has no ALL contribution.
Cla76Ratio(p, control) ==
    IF p.emu THEN control ELSE IF control > 1 THEN control - 1 ELSE 0

\* A faulty variant that keeps the timing keys of the mode before.
Cla76UpdateModeVariant(p, in) ==
    IF in.ratio = p.key.ratio THEN p
    ELSE [p EXCEPT !.coef.mode = Stamp(in, {"ratio"}), !.key.ratio = in.ratio]

\* A new mode also changes the timing laws, so it drops the timing keys.
Cla76UpdateMode(p, in) ==
    IF in.ratio = p.key.ratio THEN p
    ELSE [p EXCEPT !.coef.mode = Stamp(in, {"ratio"}), !.key.ratio = in.ratio,
                   !.key.attack = NoKey, !.key.release = NoKey]

Cla76UpdateControlCoefficients(p, in) ==
    LET timing == in.attack # p.key.attack \/ in.release # p.key.release
        curve  == \/ timing
                  \/ in.reduction # p.key.reduction
                  \/ in.ratioControl # p.key.ratioControl
        laws(reads) == Stamp(in, reads) ++ [mode |-> p.coef.mode]
    IN  [p EXCEPT
          !.coef.attack = IF timing THEN laws({"attack", "release", "ratio", "rate"}) ELSE @,
          !.coef.release = IF in.release # p.key.release THEN laws({"release", "rate"}) ELSE @,
          !.coef.curve = IF curve
                         THEN laws({"attack", "release", "ratio", "ratioControl",
                                    "reduction", "rate"})
                         ELSE @,
          !.coef.makeup = IF curve /\ ~p.emu
                          THEN Stamp(in, {"reduction", "attack", "release", "ratioControl"})
                          ELSE @,
          !.key = [p.key EXCEPT !.attack = in.attack, !.release = in.release,
                                !.reduction = in.reduction,
                                !.ratioControl = in.ratioControl]]

\* The reduction a sample asks for comes from the power of the samples before
\* it; in Normal mode a Reduction of zero asks for none.
Cla76CalculateTargetReductionDb(p, in) ==
    IF ~p.emu /\ in.reduction = 0 THEN 0 ELSE p.mem.detectorPower

Cla76UpdateDetector(p, loud) == [p EXCEPT !.mem = Charge(@, {"detectorPower"}, loud)]

Cla76UpdateMemoryReductionDb(p, target) ==
    [p EXCEPT !.mem = Charge(Charge(@, {"allMemory"}, target), {"reductionDb"}, target)]

Cla76ProcessColourSample(p, loud) ==
    IF p.emu THEN [p EXCEPT !.mem = Charge(@, {"colourPole"}, loud)] ELSE p

Cla76Process(p, loud) ==
    LET read   == Reading(p)
        in     == read ++ [ratio |-> Cla76Ratio(p, read.ratioControl)]
        start  == [p EXCEPT !.mem.reductionDb = 0, !.now = in]
        ready  == Cla76UpdateControlCoefficients(Cla76UpdateMode(start, in), in)
        target == Cla76CalculateTargetReductionDb(ready, in)
        heard  == Cla76UpdateMemoryReductionDb(Cla76UpdateDetector(ready, loud), target)
    IN  AdvanceRamps(Cla76ProcessColourSample(heard, loud))

\* What each coefficient has to be computed from.
Cla76Wanted(p, in) ==
    LET mode == [mode |-> Stamp(in, {"ratio"})]
    IN  [mode    |-> Stamp(in, {"ratio"}),
         attack  |-> Stamp(in, {"attack", "release", "ratio", "rate"}) ++ mode,
         release |-> Stamp(in, {"release", "rate"}) ++ mode,
         curve   |-> Stamp(in, {"attack", "release", "ratio", "ratioControl", "reduction",
                                "rate"}) ++ mode,
         makeup  |-> IF p.emu THEN Unset
                     ELSE Stamp(in, {"reduction", "attack", "release", "ratioControl"}),
         colour  |-> IF p.emu THEN Stamp(in, {"rate"}) ELSE Unset]

----------------------------------------------------------------------------
(* Cla2a and Cla3a: two reduction memories behind a threshold curve.  What the *)
(* two classes do alike is written once; they differ in their detector (Cla3a's *)
(* has a shelf), in the coefficients they prepare and in the high-pass of        *)
(* Emulation, whose coefficients Cla3a keeps apart from its histories.           *)

OpticalRamps == {"reduction", "gain"}
OpticalMemory == {"detectorPower", "fastReductionDb", "slowReductionDb", "reductionDb"}
OpticalColour(emu) == IF emu THEN {"highPass", "highShelf"} ELSE {}

OpticalUpdateReductionCurve(p, in) ==
    IF in.reduction = p.key.reduction THEN p
    ELSE [p EXCEPT !.coef.curve = Stamp(in, {"reduction"}),
                   !.coef.makeup = IF p.emu THEN Unset ELSE Stamp(in, {"reduction"}),
                   !.key.reduction = in.reduction]

OpticalUpdateOutputGain(p, in) ==
    IF in.gain = p.key.gain THEN p
    ELSE [p EXCEPT !.coef.output = Stamp(in, {"gain"}), !.key.gain = in.gain]

\* Reset recomputes the curve and the output gain for the values it jumps to.
OpticalReset(p, registers) ==
    LET rest == [ResetRamps(p) EXCEPT !.key = [n \in DOMAIN @ |-> NoKey],
                                      !.mem = Clear(@, registers)]
    IN  OpticalUpdateOutputGain(OpticalUpdateReductionCurve(rest, Reading(rest)), Reading(rest))

OpticalSetControls(p, c) == Aim(p, c, OpticalRamps)

OpticalCalculateTargetReductionDb(p, in) ==
    IF in.reduction > 0 THEN p.mem.detectorPower ELSE 0

\* Each memory moves between its state and the target; the block reports the
\* largest mixture of the two.
OpticalUpdateOpticalGain(p, target) ==
    LET charged == Charge(p.mem, {"fastReductionDb", "slowReductionDb"}, target)
    IN  [p EXCEPT !.mem = Charge(charged, {"reductionDb"},
                                 charged.fastReductionDb + charged.slowReductionDb)]

\* The curve reads the power of the samples before; the detector is charged
\* with this one; colour and output gain come last.
OpticalProcess(p, loud, detectorRegisters) ==
    LET in     == Reading(p)
        start  == [p EXCEPT !.mem.reductionDb = 0, !.now = in]
        curve  == OpticalUpdateReductionCurve(start, in)
        target == OpticalCalculateTargetReductionDb(curve, in)
        heard  == OpticalUpdateOpticalGain(
                      [curve EXCEPT !.mem = Charge(@, detectorRegisters, loud)], target)
        colour == [heard EXCEPT !.mem = Charge(@, OpticalColour(p.emu), loud)]
    IN  AdvanceRamps(OpticalUpdateOutputGain(colour, in))

OpticalWanted(p, in) ==
    [curve  |-> Stamp(in, {"reduction"}),
     makeup |-> IF p.emu THEN Unset ELSE Stamp(in, {"reduction"}),
     output |-> Stamp(in, {"gain"}),
     colour |-> IF p.emu THEN Stamp(in, {"rate"}) ELSE Unset]

\* Cla2a.
Cla2aNew(emu) ==
    Blank("Cla2a", emu, OpticalRamps, {}, OpticalRamps,
          {"detector", "curve", "makeup", "output", "colour"},
          OpticalMemory \cup OpticalColour(emu))

Cla2aReset(p) == OpticalReset(p, OpticalMemory \cup OpticalColour(p.emu))

Cla2aPrepareDetector(p, rate) == [p EXCEPT !.rate = rate, !.coef.detector = [rate |-> rate]]

\* The shelf is made anew for the rate; the high-pass keeps its history.
Cla2aPrepareColourFilters(p, rate) ==
    IF p.emu THEN [p EXCEPT !.coef.colour = [rate |-> rate], !.mem.highShelf = 0] ELSE p

Cla2aPrepare(p, rate) ==
    Cla2aReset(Cla2aPrepareColourFilters(Cla2aPrepareDetector(p, rate), rate))

Cla2aProcess(p, loud) == OpticalProcess(p, loud, {"detectorPower"})

Cla2aWanted(p, in) == OpticalWanted(p, in) ++ [detector |-> Stamp(in, {"rate"})]

\* Cla3a.
Cla3aNew(emu) ==
    Blank("Cla3a", emu, OpticalRamps, {}, OpticalRamps,
          {"detector", "memory", "shelf", "curve", "makeup", "output", "colour", "highPass"},
          OpticalMemory \cup {"detectorShelf"} \cup OpticalColour(emu))

Cla3aReset(p) == OpticalReset(p, OpticalMemory \cup {"detectorShelf"} \cup OpticalColour(p.emu))

\* Besides the detector's, the coefficients of the memories (attack, and the
\* release towards a zero target) and of the detector's shelf.
Cla3aPrepareDetector(p, rate) ==
    [p EXCEPT !.rate = rate, !.coef = [@ EXCEPT !.detector = [rate |-> rate],
                                                !.memory = [rate |-> rate],
                                                !.shelf = [rate |-> rate]]]

Cla3aPrepareColourFilters(p, rate) ==
    IF p.emu THEN [p EXCEPT !.coef.highPass = [rate |-> rate], !.coef.colour = [rate |-> rate],
                            !.mem.highShelf = 0]
    ELSE p

Cla3aPrepare(p, rate) ==
    Cla3aReset(Cla3aPrepareColourFilters(Cla3aPrepareDetector(p, rate), rate))

Cla3aProcess(p, loud) == OpticalProcess(p, loud, {"detectorPower", "detectorShelf"})

Cla3aWanted(p, in) ==
    OpticalWanted(p, in) ++
    [detector |-> Stamp(in, {"rate"}), memory |-> Stamp(in, {"rate"}),
     shelf |-> Stamp(in, {"rate"}), highPass |-> IF p.emu THEN Stamp(in, {"rate"}) ELSE Unset]

----------------------------------------------------------------------------
(* SslChannel.  The attack switch has no ramp and its key is not invalidated   *)
(* by Reset: dropping the release key stands for both.                         *)

SslInvalidThreshold == 100

SslNew(emu) ==
    [Blank("Ssl", emu, {"output", "ratio", "release", "threshold"}, {"fastAttack"},
           {"ratio", "threshold", "release", "fastAttack"},
           {"times", "slope", "bend", "onset", "makeup", "start", "timing"},
           {"detectorPower", "fastReductionDb", "slowReductionDb", "reductionDb"})
        EXCEPT !.key.threshold = SslInvalidThreshold, !.key.fastAttack = 0]

SslUpdateMakeup(in) == Stamp(in, {"ratio", "threshold"})

SslUpdateTiming(p, in) == Stamp(in, {"release", "fastAttack"}) ++ [times |-> p.coef.times]

SslLaw(p, in, reads) == Stamp(in, reads \cup IF p.emu THEN {"threshold"} ELSE {})

SslUpdateControlCoefficients(p, in) ==
    LET ratio     == in.ratio # p.key.ratio
        threshold == in.threshold # p.key.threshold
        timing    == in.release # p.key.release \/ in.fastAttack # p.key.fastAttack
        law       == ratio \/ timing \/ (p.emu /\ threshold)
        onset == IF ~p.emu THEN Stamp(in, {"threshold"})
                 ELSE IF law THEN SslLaw(p, in, {"ratio", "release", "fastAttack"})
                 ELSE p.coef.onset
    IN  IF ~ratio /\ ~threshold /\ ~timing THEN p
        ELSE [p EXCEPT
                !.coef.slope = IF law THEN SslLaw(p, in, {"ratio", "release"}) ELSE @,
                !.coef.bend = IF law THEN SslLaw(p, in, {"ratio", "release", "fastAttack"}) ELSE @,
                !.coef.onset = onset,
                !.coef.makeup = IF ~p.emu
                                THEN Stamp(in, {"threshold", "fastAttack", "release", "ratio"})
                                ELSE IF ratio \/ threshold THEN SslUpdateMakeup(in) ELSE @,
                !.coef.start = onset,
                !.coef.timing = IF timing THEN SslUpdateTiming(p, in) ELSE @,
                !.key = Stamp(in, {"ratio", "threshold", "release", "fastAttack"})]

SslReset(p) ==
    LET rest == [ResetRamps(p) EXCEPT !.key.ratio = NoKey, !.key.release = NoKey,
                                      !.key.threshold = SslInvalidThreshold,
                                      !.mem = Clear(@, DOMAIN @)]
    IN  SslUpdateControlCoefficients(rest, Reading(rest))

SslPrepare(p, rate) == SslReset([p EXCEPT !.rate = rate, !.coef.times = [rate |-> rate]])

SslSetControls(p, c) ==
    [Aim(p, c, {"ratio", "release", "threshold"} \cup IF p.emu THEN {} ELSE {"output"})
        EXCEPT !.flag.fastAttack = c.fastAttack]

\* In Normal mode the highest threshold, a Reduction of zero, asks for none.
SslCalculateTargetReductionDb(p, in) ==
    IF ~p.emu /\ in.threshold = 0 THEN 0 ELSE p.mem.detectorPower

SslUpdateReductionMemory(p, target) ==
    [p EXCEPT !.mem = Charge(@, {"fastReductionDb", "slowReductionDb"}, target)]

SslProcess(p, loud) ==
    LET in     == Reading(p)
        start  == [p EXCEPT !.mem.reductionDb = 0, !.now = in]
        ready  == SslUpdateControlCoefficients(start, in)
        target == SslCalculateTargetReductionDb(ready, in)
        heard  == SslUpdateReductionMemory(
                      [ready EXCEPT !.mem = Charge(@, {"detectorPower"}, loud)], target)
    IN  AdvanceRamps([heard EXCEPT !.mem = Charge(@, {"reductionDb"},
                                                  @.fastReductionDb + @.slowReductionDb)])

SslWanted(p, in) ==
    LET onset == IF p.emu THEN SslLaw(p, in, {"ratio", "release", "fastAttack"})
                 ELSE Stamp(in, {"threshold"})
    IN  [times  |-> Stamp(in, {"rate"}),
         slope  |-> SslLaw(p, in, {"ratio", "release"}),
         bend   |-> SslLaw(p, in, {"ratio", "release", "fastAttack"}),
         onset  |-> onset,
         makeup |-> IF p.emu THEN Stamp(in, {"ratio", "threshold"})
                    ELSE Stamp(in, {"threshold", "fastAttack", "release", "ratio"}),
         start  |-> onset,
         timing |-> Stamp(in, {"release", "fastAttack"}) ++ [times |-> Stamp(in, {"rate"})]]
=============================================================================
