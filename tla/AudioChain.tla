------------------------------ MODULE AudioChain ------------------------------
(***************************************************************************)
(* The native audio runtime: the chain of devices, the wet transition with    *)
(* which a device enters and leaves it, and the block the host calls.           *)
(*                                                                          *)
(* What matters here is WHICH processors run.  Every part of a device that      *)
(* keeps a history of the sound has a status:                                  *)
(*   clean    reset since it last ran                                           *)
(*   live     it ran in the last block of the chain                             *)
(*   stale    it holds a history, but the chain has since run without it         *)
(*   revived  it ran on top of a stale history                                   *)
(* What a part does when it runs is in DspProcessors.                           *)
(***************************************************************************)
EXTENDS DspPrimitives

CONSTANTS Chains,         \* the sets of devices explored
          Algorithms,     \* the compressor models explored, Ssl among them
          MaxSnapshots    \* the snapshots the managed side publishes

ASSUME AlgorithmAssumption == "Ssl" \in Algorithms /\ MaxSnapshots \in Nat

\* The wet share of a device, in halves.
Dry == 0
Parallel == 1
Wet == 2

Activity == [bypass : BOOLEAN, neutral : BOOLEAN, parallel : BOOLEAN,
             algorithm : Algorithms, leveler : BOOLEAN]

\* The controls that make a difference to a device; the others stay as they are.
Choices(device) ==
    {a \in Activity :
       /\ a.neutral => device \in {"Saturator", "Shaper", "Polish"}
       /\ a.parallel \/ a.algorithm # "Ssl" => device = "Compressor"
       /\ a.leveler => device \in {"Input", "Output"}}

Snapshots(chain) == [audible : BOOLEAN, instanceBypass : BOOLEAN,
                     of : {f \in [chain -> Activity] : \A d \in chain : f[d] \in Choices(d)}]

----------------------------------------------------------------------------
(* Parts.                                                                    *)

DetectorParts == {"detector1", "detector2"}
GainStageParts == DetectorParts \cup {"leveler", "meter"}

Parts(device) ==
    CASE device = "Input"      -> {"width"} \cup GainStageParts
      [] device = "Saturator"  -> DetectorParts \cup {"saturation", "output"}
      [] device = "Shaper"     -> {"shaper"}
      [] device = "Compressor" -> DetectorParts \cup Algorithms
      [] device = "Equalizer"  -> {"filters"}
      [] device = "Polish"     -> {"thick", "air"}
      [] OTHER                 -> GainStageParts \cup {"limiter"}

NoReduction == [model |-> "none", fresh |-> TRUE]

NewDevice(device) ==
    [wet |-> Ramp(Dry), wasProcessing |-> FALSE, bypass |-> FALSE,
     part |-> [p \in Parts(device) |-> "clean"], ran |-> {},
     algorithm |-> "Ssl", resetPending |-> FALSE, reduction |-> NoReduction]

ResetParts(d, parts) == [d EXCEPT !.part = [p \in DOMAIN @ |-> IF p \in parts THEN "clean"
                                                               ELSE @[p]]]

RunParts(d, parts) == [d EXCEPT !.ran = @ \cup parts]

GainStageReset(d) == ResetParts(d, GainStageParts)
GainStageProcess(d) == RunParts(d, GainStageParts)
DetectorEqualizerReset(d) == ResetParts(d, DetectorParts)
DetectorEqualizerCapture(d) == RunParts(d, DetectorParts)

----------------------------------------------------------------------------
(* WetTransition.                                                            *)

TransitionReset(d) == [d EXCEPT !.wet = RampReset(@), !.wasProcessing = FALSE]

TransitionSetTarget(d, wet) == [d EXCEPT !.wet = RampSetTarget(@, wet)]

\* A faulty variant that leaves a faded device with its histories.
TransitionProcessVariant(d, processed, reset) ==
    CASE d.wet.current = Dry /\ ~IsSmoothing(d.wet) -> [d EXCEPT !.wasProcessing = FALSE]
      [] d.wet.current = Wet /\ ~IsSmoothing(d.wet) ->
           [processed EXCEPT !.wasProcessing = TRUE]
      [] OTHER ->
           [processed EXCEPT !.wasProcessing = TRUE, !.wet = RampAdvance(@)]

\* A device that has faded out is reset once and left alone; one that is fully
\* wet runs on the main buffer without touching its ramp.  The two results of
\* the callbacks are passed as values.
TransitionProcess(d, processed, reset) ==
    CASE d.wet.current = Dry /\ ~IsSmoothing(d.wet) ->
           IF d.wasProcessing THEN [reset EXCEPT !.wasProcessing = FALSE] ELSE d
      [] d.wet.current = Wet /\ ~IsSmoothing(d.wet) ->
           [processed EXCEPT !.wasProcessing = TRUE]
      [] OTHER ->
           [processed EXCEPT !.wasProcessing = TRUE, !.wet = RampAdvance(@)]

----------------------------------------------------------------------------
(* The devices.                                                              *)

InputReset(d) == TransitionReset(GainStageReset(ResetParts(d, {"width"})))
InputSetParameters(d, a) == TransitionSetTarget(d, IF a.bypass THEN Dry ELSE Wet)
InputProcess(d) ==
    TransitionProcess(d, GainStageProcess(RunParts(d, {"width"})),
                      GainStageReset(ResetParts(d, {"width"})))

SaturatorReset(d) ==
    TransitionReset(DetectorEqualizerReset(ResetParts(d, {"saturation", "output"})))
SaturatorSetParameters(d, a) ==
    TransitionSetTarget(d, IF a.bypass \/ a.neutral THEN Dry ELSE Wet)
SaturatorProcess(d) ==
    TransitionProcess(d, RunParts(DetectorEqualizerCapture(d), {"saturation", "output"}),
                      DetectorEqualizerReset(ResetParts(d, {"saturation", "output"})))

ShaperReset(d) == TransitionReset(ResetParts(d, {"shaper"}))
ShaperSetParameters(d, a) ==
    TransitionSetTarget(d, IF a.bypass \/ a.neutral THEN Dry ELSE Wet)
ShaperProcess(d) == TransitionProcess(d, RunParts(d, {"shaper"}), ResetParts(d, {"shaper"}))

\* A reset of the models also takes back a pending one.
CompressorResetModels(d) ==
    [ResetParts(d, Algorithms) EXCEPT !.reduction = NoReduction, !.resetPending = FALSE]

CompressorReset(d) == TransitionReset(CompressorResetModels(DetectorEqualizerReset(d)))

CompressorSetParameters(d, a) ==
    TransitionSetTarget([d EXCEPT !.resetPending = @ \/ d.algorithm # a.algorithm,
                                  !.algorithm = a.algorithm, !.bypass = a.bypass],
                        IF a.bypass THEN Dry ELSE IF a.parallel THEN Parallel ELSE Wet)

\* A faulty variant that forgets the histories of the model switched to only
\* when it is the first one to run.
CompressorProcessWetVariant(d) ==
    LET ready == IF d.resetPending /\ d.reduction = NoReduction THEN CompressorResetModels(d)
                 ELSE [d EXCEPT !.resetPending = FALSE]
    IN  [RunParts(DetectorEqualizerCapture(ready), {d.algorithm}) EXCEPT
            !.reduction = [model |-> d.algorithm, fresh |-> TRUE]]

\* Only the selected model runs; a switch discards the histories of all.
CompressorProcessWet(d) ==
    LET ready == IF d.resetPending THEN CompressorResetModels(d) ELSE d
    IN  [RunParts(DetectorEqualizerCapture(ready), {d.algorithm}) EXCEPT
            !.reduction = [model |-> d.algorithm, fresh |-> TRUE]]

CompressorProcess(d) ==
    TransitionProcess(d, CompressorProcessWet(d),
                      CompressorResetModels(DetectorEqualizerReset(d)))

\* The equalizer has no transition of its own: each filter crossfades.
EqualizerReset(d) == ResetParts(d, {"filters"})
EqualizerProcess(d) == RunParts(d, {"filters"})

PolishReset(d) == TransitionReset(ResetParts(d, {"thick", "air"}))
PolishSetParameters(d, a) ==
    TransitionSetTarget(d, IF a.bypass \/ a.neutral THEN Dry ELSE Wet)
PolishProcess(d) ==
    TransitionProcess(d, RunParts(d, {"thick", "air"}), ResetParts(d, {"thick", "air"}))

\* The limiter's reduction is kept like the compressor's.
OutputResetStage(d) == [GainStageReset(ResetParts(d, {"limiter"})) EXCEPT
                           !.reduction = NoReduction]
OutputReset(d) == TransitionReset(OutputResetStage(d))
OutputSetParameters(d, a) ==
    TransitionSetTarget([d EXCEPT !.bypass = a.bypass], IF a.bypass THEN Dry ELSE Wet)
OutputProcess(d) ==
    TransitionProcess(d, [RunParts(GainStageProcess(d), {"limiter"}) EXCEPT
                             !.reduction = [model |-> "limiter", fresh |-> TRUE]],
                      OutputResetStage(d))

\* A faulty variant that reports the reduction of a bypassed device.
ReductionDbVariant(d) == d.reduction

ReductionDb(d) == IF d.bypass THEN NoReduction ELSE d.reduction

----------------------------------------------------------------------------
(* The chain.                                                                *)

ChainReset(c) ==
    [x \in DOMAIN c |-> CASE x = "Input"      -> InputReset(c[x])
                          [] x = "Saturator"  -> SaturatorReset(c[x])
                          [] x = "Shaper"     -> ShaperReset(c[x])
                          [] x = "Compressor" -> CompressorReset(c[x])
                          [] x = "Equalizer"  -> EqualizerReset(c[x])
                          [] x = "Polish"     -> PolishReset(c[x])
                          [] OTHER            -> OutputReset(c[x])]

\* Preparing makes every coefficient and buffer anew.  Of the parts only the
\* compressor models are reset by it; the runtime resets the chain afterwards in
\* any case.
ChainPrepare(c) ==
    [x \in DOMAIN c |-> IF x = "Compressor" THEN ResetParts(c[x], Algorithms) ELSE c[x]]

ChainSetParameters(c, s) ==
    [x \in DOMAIN c |-> CASE x = "Input"      -> InputSetParameters(c[x], s.of[x])
                          [] x = "Saturator"  -> SaturatorSetParameters(c[x], s.of[x])
                          [] x = "Shaper"     -> ShaperSetParameters(c[x], s.of[x])
                          [] x = "Compressor" -> CompressorSetParameters(c[x], s.of[x])
                          [] x = "Equalizer"  -> c[x]
                          [] x = "Polish"     -> PolishSetParameters(c[x], s.of[x])
                          [] OTHER            -> OutputSetParameters(c[x], s.of[x])]

\* What a block of the chain leaves of a part.
Aged(d) ==
    [d EXCEPT !.ran = {},
              !.part = [p \in DOMAIN @ |->
                          IF p \in d.ran THEN (IF @[p] = "stale" THEN "revived" ELSE "live")
                          ELSE IF @[p] = "live" THEN "stale" ELSE @[p]]]

ChainProcess(c) ==
    LET before == [x \in DOMAIN c |->
                     IF c[x].reduction = NoReduction THEN c[x]
                     ELSE [c[x] EXCEPT !.reduction.fresh = FALSE]]
        run(x) == CASE x = "Input"      -> InputProcess(before[x])
                    [] x = "Saturator"  -> SaturatorProcess(before[x])
                    [] x = "Shaper"     -> ShaperProcess(before[x])
                    [] x = "Compressor" -> CompressorProcess(before[x])
                    [] x = "Equalizer"  -> EqualizerProcess(before[x])
                    [] x = "Polish"     -> PolishProcess(before[x])
                    [] OTHER            -> OutputProcess(before[x])
    IN  [x \in DOMAIN c |-> Aged(run(x))]

----------------------------------------------------------------------------
(* The runtime.                                                              *)

VARIABLES chain,        \* the devices
          snapshot,     \* the snapshot in force; empty before the first
          published,    \* a snapshot that waits in the exchange, or empty
          prepared,
          telemetry,    \* what the last block published
          count         \* snapshots published so far

vars == <<chain, snapshot, published, prepared, telemetry, count>>

None == << >>
hasSnapshot == snapshot # None

NoTelemetry == [present |-> {}, compressor |-> NoReduction, limiter |-> NoReduction,
                processed |-> FALSE]

Init == /\ \E devices \in Chains : chain = [x \in devices |-> NewDevice(x)]
        /\ snapshot = None /\ published = None
        /\ prepared = FALSE
        /\ telemetry = NoTelemetry
        /\ count = 0

Publish == /\ count < MaxSnapshots
           /\ count' = count + 1
           /\ published' \in Snapshots(DOMAIN chain)
           /\ UNCHANGED <<chain, snapshot, prepared, telemetry>>

\* The plug-in prepares, and prepares again after a change of the sample rate.
Prepare ==
    LET fresh == ChainPrepare(chain)
    IN  /\ chain' = ChainReset(IF hasSnapshot THEN ChainSetParameters(fresh, snapshot)
                               ELSE fresh)
        /\ prepared' = TRUE
        /\ UNCHANGED <<snapshot, published, telemetry, count>>

Reset == /\ chain' = ChainReset(chain)
         /\ UNCHANGED <<snapshot, published, prepared, telemetry, count>>

\* The stage's gain can be frozen while its leveler is on, its level is measured
\* while it runs.
StagePresent(s, device, processed) ==
    IF device \notin DOMAIN s.of \/ s.of[device].bypass THEN {}
    ELSE {<<device, "gain">> : x \in IF s.of[device].leveler THEN {0} ELSE {}} \cup
         {<<device, "rms">> : x \in IF processed THEN {0} ELSE {}}

Published(c, s, processed) ==
    LET of(device) == IF processed /\ device \in DOMAIN c THEN ReductionDb(c[device])
                      ELSE NoReduction
    IN  [present |-> StagePresent(s, "Input", processed) \cup
                     StagePresent(s, "Output", processed),
         compressor |-> of("Compressor"), limiter |-> of("Output"), processed |-> processed]

\* A block of a prepared runtime.  The first snapshot seeds histories and
\* ramps; a muted or bypassed instance freezes the chain as it is.
ProcessBlock ==
    LET now    == IF published # None THEN published ELSE snapshot
        set    == IF published # None THEN ChainSetParameters(chain, published) ELSE chain
        ready  == IF published # None /\ ~hasSnapshot THEN ChainReset(set) ELSE set
        processed == now.audible /\ ~now.instanceBypass
        after  == IF processed THEN ChainProcess(ready) ELSE ready
    IN  /\ prepared
        /\ now # None
        /\ snapshot' = now /\ published' = None
        /\ chain' = after
        /\ telemetry' = Published(after, now, processed)
        /\ UNCHANGED <<prepared, count>>

Next == Publish \/ Prepare \/ Reset \/ ProcessBlock

\* The host keeps calling the block while it plays.
Spec == Init /\ [][Next]_vars /\ WF_vars(ProcessBlock)

----------------------------------------------------------------------------
(* Properties.                                                               *)

\* However devices are bypassed, neutralised and switched, and whichever fades
\* are cut short, no part of the chain runs on top of a history from before a
\* block it did not hear: it is reset before it runs again.
NoStaleHistory == \A x \in DOMAIN chain : \A p \in Parts(x) : chain[x].part[p] # "revived"

\* The reductions the meters are given belong to the block just processed and to
\* the compressor model in force, and are zero for a device that is bypassed or
\* a block that is not processed.
ReductionIsOfThisBlock ==
    LET of(x, model, reduction) ==
          IF telemetry.processed /\ ~snapshot.of[x].bypass
          THEN reduction = [model |-> model, fresh |-> TRUE]
          ELSE reduction = NoReduction
    IN  telemetry # NoTelemetry =>
          /\ "Compressor" \in DOMAIN chain =>
               of("Compressor", snapshot.of["Compressor"].algorithm, telemetry.compressor)
          /\ "Output" \in DOMAIN chain => of("Output", "limiter", telemetry.limiter)

\* Once the controls rest, every device the chain runs comes to rest too: its
\* fade ends, and one that is off has forgotten what it heard.
DevicesSettle ==
    LET settled(d) == /\ ~IsSmoothing(d.wet)
                      /\ d.wet.current = Dry => \A p \in DOMAIN d.part : d.part[p] = "clean"
    IN  <>[](hasSnapshot /\ snapshot.audible /\ ~snapshot.instanceBypass =>
               \A x \in DOMAIN chain \ {"Equalizer"} : settled(chain[x]))
=============================================================================
