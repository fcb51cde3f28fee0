---------------------------- MODULE ToneProcessors ----------------------------
(***************************************************************************)
(* The processors that colour the sound: the saturator, the transient shaper  *)
(* and the two halves of Polish, Air and Thick, as functions on the processor *)
(* record of CompressorModels.  All of them run on every sample they are       *)
(* given, neutral amounts included: only their device decides to leave them    *)
(* out.                                                                      *)
(***************************************************************************)
EXTENDS CompressorModels

Higher(a, b) == IF a > b THEN a ELSE b
Lower(a, b) == IF a < b THEN a ELSE b

----------------------------------------------------------------------------
(* Saturation.                                                               *)

Bands == {"wide", "low", "mid", "high"}

SaturationNew ==
    Blank("Saturation", FALSE, {"drive", "curve", "split"}, {}, {},
          {"envelope", "crossover"},
          Bands \cup {"lowCrossover", "midCrossover", "detectorEnvelope", "envelopeWeight"})

SaturationPrepare(p, rate) ==
    [p EXCEPT !.rate = rate, !.coef.envelope = [rate |-> rate],
              !.coef.crossover = [rate |-> rate]]

\* The split mix starts again from the wide band and ramps to its target.
SaturationReset(p) ==
    LET rest  == ResetRamps(p)
        wide  == RampReset(RampSetTarget(rest.ramp.split, 0))
    IN  [rest EXCEPT !.ramp.split = RampSetTarget(wide, p.ramp.split.target),
                     !.mem = Clear(@, Bands \cup {"lowCrossover", "midCrossover",
                                                  "detectorEnvelope", "envelopeWeight"})]

SaturationSetControls(p, c) == Aim(p, c, {"drive", "curve", "split"})

\* The shaped and the plain path both remember the sample they were given.
ProcessBand(mem, band, loud) == Charge(mem, {band}, loud)

SaturationProcess(p, loud) ==
    LET envelope == Charge(p.mem, {"detectorEnvelope", "envelopeWeight"}, loud)
        split    == Charge(ProcessBand(envelope, "wide", loud),
                           {"lowCrossover", "midCrossover"}, loud)
    IN  AdvanceRamps([p EXCEPT !.now = Reading(p),
                               !.mem = ProcessBand(ProcessBand(ProcessBand(
                                           split, "low", loud), "mid", loud), "high", loud)])

SaturationWanted(in) ==
    [envelope |-> Stamp(in, {"rate"}), crossover |-> Stamp(in, {"rate"})]

----------------------------------------------------------------------------
(* TransientShaper.  The held peak is kept twice, as an amplitude and in       *)
(* decibels, the second decayed by its own constant instead of a logarithm;    *)
(* both are numbers of decay steps above the floor of -240 dB here.             *)

TransientFilters == {"sidechain", "outputHighpass"}
TransientFollowers == {"fastPower", "slowPower", "onsetPower", "contextPower"}
TransientMasks == {"attackMask", "extendedAttackMask", "sustainMask"}

TransientNew ==
    [Blank("Transient", FALSE, {"attack", "sustain", "output"}, {}, {"output"},
           {"sidechain", "detector", "outputHighpass"},
           TransientFilters \cup TransientFollowers \cup TransientMasks \cup {"peak", "peakDb"})
        EXCEPT !.key.output = 0]

TransientReset(p) ==
    [ResetRamps(p) EXCEPT !.mem = Clear(@, TransientFilters \cup TransientFollowers \cup
                                          TransientMasks \cup {"peak", "peakDb"})]

TransientPrepareSidechainFilter(p, rate) == [p EXCEPT !.coef.sidechain = [rate |-> rate]]

TransientPrepareDetectorCoefficients(p, rate) == [p EXCEPT !.coef.detector = [rate |-> rate]]

TransientPrepare(p, rate) ==
    LET output == [p EXCEPT !.rate = rate, !.coef.outputHighpass = [rate |-> rate]]
    IN  TransientReset(TransientPrepareDetectorCoefficients(
            TransientPrepareSidechainFilter(output, rate), rate))

\* The output gain's target is computed only for a new value.
TransientSetControls(p, c) ==
    LET amounts == Aim(p, c, {"attack", "sustain"})
    IN  IF c.output = p.key.output THEN amounts
        ELSE [Aim(amounts, c, {"output"}) EXCEPT !.key.output = c.output]

TransientUpdatePowerFollowers(p, loud) ==
    [p EXCEPT !.mem = Charge(@, {"fastPower", "slowPower", "onsetPower"}, loud)]

TransientUpdateHeldPeak(p, loud) ==
    LET decayed == Higher(p.mem.peak - 1, 0)
    IN  IF loud > decayed THEN [p EXCEPT !.mem.peak = loud, !.mem.peakDb = loud]
        ELSE [p EXCEPT !.mem.peak = decayed, !.mem.peakDb = Higher(0, @ - 1)]

\* Read the onset of this sample against the context of the samples before it.
TransientUpdateMasks(p) ==
    LET novelty == p.mem.onsetPower
    IN  [p EXCEPT !.mem = Charge(Charge(Charge(@,
            {"attackMask", "extendedAttackMask"}, novelty),
            {"contextPower"}, p.mem.onsetPower),
            {"sustainMask"}, p.mem.fastPower)]

TransientFilterSidechainSample(p, loud) == [p EXCEPT !.mem = Charge(@, {"sidechain"}, loud)]

TransientProcessOutputSample(p, loud) == [p EXCEPT !.mem = Charge(@, {"outputHighpass"}, loud)]

\* The output gain is advanced before it is applied, the amounts after.
TransientProcess(p, loud) ==
    LET start == [p EXCEPT !.now = Reading(p)]
        heard == TransientUpdateHeldPeak(TransientUpdatePowerFollowers(
                     TransientFilterSidechainSample(start, loud), loud), loud)
    IN  TransientProcessOutputSample(AdvanceRamps(TransientUpdateMasks(heard)), loud)

TransientWanted(in) ==
    [sidechain |-> Stamp(in, {"rate"}), detector |-> Stamp(in, {"rate"}),
     outputHighpass |-> Stamp(in, {"rate"})]

----------------------------------------------------------------------------
(* Air.  The contour follows a peak that is held for a second of samples (the  *)
(* sample rate, a small number here) before it falls, and its gain is           *)
(* recomputed only when the peak has moved.                                    *)

AirNew == Blank("Air", FALSE, {"amount"}, {}, {}, {"filters", "peak"},
                {"channels", "inputPeak", "peakHold", "linearLevelGain"})

AirPrepareFilters(p, rate) == [p EXCEPT !.coef.filters = [rate |-> rate]]

AirPrepare(p, rate) ==
    AirPrepareFilters([p EXCEPT !.rate = rate, !.coef.peak = [rate |-> rate]], rate)

AirReset(p) ==
    [ResetRamps(p) EXCEPT
        !.mem = Clear(@, {"channels", "inputPeak", "peakHold", "linearLevelGain"})]

AirSetAmount(p, c) == Aim(p, c, {"amount"})

AirUpdateInputLevel(p, loud) ==
    LET held  == p.mem.inputPeak
        peak  == IF loud >= held THEN loud ELSE IF p.mem.peakHold > 0 THEN held ELSE held - 1
        hold  == IF loud >= held THEN p.rate ELSE Higher(p.mem.peakHold - 1, 0)
    IN  [p EXCEPT !.mem.inputPeak = peak, !.mem.peakHold = hold,
                  !.mem.linearLevelGain = IF peak # held THEN peak ELSE @]

AirProcessLinearAddition(p, loud) == Charge(p.mem, {"channels"}, loud)

AirProcessOddHarmonics(p, loud) == Charge(p.mem, {"channels"}, loud)

AirProcess(p, loud) ==
    LET level == AirUpdateInputLevel([p EXCEPT !.now = Reading(p)], loud)
        linear == [level EXCEPT !.mem = AirProcessLinearAddition(level, loud)]
    IN  AdvanceRamps([linear EXCEPT !.mem = AirProcessOddHarmonics(linear, loud)])

AirWanted(in) == [filters |-> Stamp(in, {"rate"}), peak |-> Stamp(in, {"rate"})]

----------------------------------------------------------------------------
(* Thick.                                                                    *)

ThickBody == {"bodyPeak", "subNotch", "positiveShoulder", "positivePeak"}
ThickSource == {"sourcePower", "fullBandPower", "sourceStartupWeight"}
ThickWet == {"richWetPower", "fastRichWetPower", "wetStartupWeight", "harmonicGain"}
ThickChannels == {"rumble", "source", "feedback", "highPass", "lowLevel", "subHarmonic"}

ThickNew == Blank("Thick", FALSE, {"amount"}, {}, {}, {"denseTail", "body", "source"},
                  ThickBody \cup ThickSource \cup ThickWet \cup ThickChannels \cup
                  {"sourcePeak", "fullBandPeak", "transientPeak", "transientGain",
                   "bodyLevelMix", "positiveLevelMix"})

\* The body filters are made anew for the rate, with clean histories.
ThickPrepareBodyFilters(p, rate) ==
    [p EXCEPT !.coef.body = [rate |-> rate], !.mem = Clear(@, ThickBody)]

ThickPrepareSourceAndDynamics(p, rate) == [p EXCEPT !.coef.source = [rate |-> rate]]

ThickPrepare(p, rate) ==
    ThickPrepareSourceAndDynamics(ThickPrepareBodyFilters(
        [p EXCEPT !.rate = rate, !.coef.denseTail = << >>], rate), rate)

\* A faulty variant that forgets the gain the harmonics had adapted to.
ThickResetVariant(p) ==
    [ResetRamps(p) EXCEPT
        !.mem = Clear(@, (DOMAIN @) \ {"harmonicGain"})]

ThickReset(p) ==
    [ResetRamps(p) EXCEPT
        !.mem = Clear(@, ThickBody \cup ThickChannels \cup ThickSource \cup ThickWet \cup
                         {"sourcePeak", "fullBandPeak", "transientPeak", "transientGain",
                          "bodyLevelMix", "positiveLevelMix"})]

ThickSetAmount(p, c) == Aim(p, c, {"amount"})

ThickProcessBodyPaths(p, loud) == [p EXCEPT !.mem = Charge(@, ThickBody, loud)]

ThickAnalyseSource(p, loud) ==
    [p EXCEPT !.mem = Charge(Charge(@, {"sourceStartupWeight"}, 1),
                             {"rumble", "source", "sourcePower", "fullBandPower"}, loud)]

ThickUpdateCrestGain(p) ==
    [p EXCEPT !.mem = Charge(@, {"transientPeak", "transientGain"}, p.mem.source)]

ThickUpdateBodyLevelMix(p) ==
    [p EXCEPT !.mem = Charge(@, {"bodyLevelMix", "positiveLevelMix"}, p.mem.fullBandPower)]

ThickUpdateSourceControls(p, loud) ==
    ThickUpdateBodyLevelMix(ThickUpdateCrestGain(
        [p EXCEPT !.mem = Charge(@, {"sourcePeak", "fullBandPeak"}, loud)]))

ThickGenerateHarmonicBands(p) ==
    [p EXCEPT !.mem = Charge(@, {"feedback", "highPass", "lowLevel", "subHarmonic"},
                             p.mem.source)]

ThickUpdateWetGain(p) ==
    [p EXCEPT !.mem = Charge(Charge(@, {"wetStartupWeight"}, 1), ThickWet, p.mem.highPass)]

ThickProcess(p, loud) ==
    LET start == ThickProcessBodyPaths([p EXCEPT !.now = Reading(p)], loud)
        ready == ThickUpdateSourceControls(ThickAnalyseSource(start, loud), loud)
    IN  AdvanceRamps(ThickUpdateWetGain(ThickGenerateHarmonicBands(ready)))

ThickWanted(in) ==
    [denseTail |-> << >>, body |-> Stamp(in, {"rate"}), source |-> Stamp(in, {"rate"})]
=============================================================================
