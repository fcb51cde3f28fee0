--------------------------- MODULE AudioChainProofs ---------------------------
(***************************************************************************)
(* The chain of devices for every set of devices, every set of compressor      *)
(* models, every length of a fade and any number of snapshots, driven by the     *)
(* runtime alone and by the blocks of the host; and the capture, for every set    *)
(* of viewers and of block sizes, up to the windows the spectrum is made of.      *)
(***************************************************************************)
EXTENDS HostAudio, TLAPS

----------------------------------------------------------------------------
(* The inductive invariant.                                                  *)

\* A ramp that is not moving stands at its target.
Wets == {Dry, Parallel, Wet}
Moves == [current : Int, target : Wets, left : Nat]
Ramps == {r \in Moves : r.left = 0 => r.current = r.target}

Reductions == [model : Algorithms \cup {"none", "limiter"}, fresh : BOOLEAN]

\* Between two blocks no part is stale: what the last block left out is clean.
Devices(x) ==
    [wet : Ramps, wasProcessing : BOOLEAN, bypass : BOOLEAN,
     part : [Parts(x) -> {"clean", "live"}], ran : {{}},
     algorithm : Algorithms, resetPending : BOOLEAN, reduction : Reductions]

\* A device that is faded out and was reset has no history.
RestsClean(x, d) ==
    x # "Equalizer" /\ ~d.wasProcessing => \A p \in Parts(x) : d.part[p] = "clean"

\* Of the compressor models only the one in force has, unless a reset is due.
OthersClean(x, d) ==
    x = "Compressor" /\ ~d.resetPending =>
        \A p \in Algorithms \ (DetectorParts \cup {d.algorithm}) : d.part[p] = "clean"

DeviceInv(x, d) == d \in Devices(x) /\ RestsClean(x, d) /\ OthersClean(x, d)

SameControls(d, e) ==
    e.bypass = d.bypass /\ e.algorithm = d.algorithm /\ e.wet.target = d.wet.target

ChainInv == \A x \in DOMAIN chain : DeviceInv(x, chain[x])

----------------------------------------------------------------------------
(* Ramps.                                                                    *)

\* The shares of a fade are whole numbers.
LEMMA WetsAreWhole == Wets \subseteq Int
  BY DEF Wets, Dry, Parallel, Wet

\* A ramp that has come to its end stands at its target, whatever is done to it.
LEMMA RampsRest ==
    ASSUME NEW r \in Ramps, NEW value \in Wets
    PROVE  /\ RampReset(r) \in Ramps /\ RampReset(r).target = r.target
           /\ RampSetTarget(r, value) \in Ramps /\ RampSetTarget(r, value).target = value
           /\ RampAdvance(r) \in Ramps /\ RampAdvance(r).target = r.target
<1>1. /\ r \in Moves /\ (r.left = 0 => r.current = r.target)
      /\ r.current \in Int /\ r.target \in Wets /\ r.target \in Int /\ r.left \in Nat
  BY WetsAreWhole DEF Ramps, Moves
<1>2. ASSUME NEW s \in Moves, s.left = 0 => s.current = s.target
      PROVE  s \in Ramps
  BY <1>2 DEF Ramps
<1>3. RampReset(r) \in Ramps /\ RampReset(r).target = r.target
  <2>2. /\ RampReset(r) \in Moves /\ RampReset(r).target = r.target
        /\ RampReset(r).current = r.target
    BY <1>1 DEF RampReset, Moves
  <2> QED
    BY <1>2, <2>2
<1>4. RampSetTarget(r, value) \in Ramps /\ RampSetTarget(r, value).target = value
  <2>1. CASE value = r.target
    BY <2>1 DEF RampSetTarget
  <2>2. CASE value # r.target
    <3>1. /\ RampSetTarget(r, value) \in Moves /\ RampSetTarget(r, value).target = value
          /\ RampSetTarget(r, value).current = r.current
          /\ RampSetTarget(r, value).left = 0 => value = r.current
      BY <1>1, <2>2, LengthAssumption DEF RampSetTarget, Moves
    <3> QED
      BY <1>2, <3>1
  <2> QED
    BY <2>1, <2>2
<1>5. RampAdvance(r) \in Ramps /\ RampAdvance(r).target = r.target
  <2>1. CASE r.left = 0
    BY <2>1 DEF RampAdvance
  <2>2. CASE r.left = 1
    <3>1. RampAdvance(r) = [r EXCEPT !.current = r.target, !.left = r.left - 1]
      BY <1>1, <2>2 DEF RampAdvance
    <3>2. r.left - 1 \in Nat
      BY <1>1, <2>2
    <3>3. /\ RampAdvance(r) \in Moves /\ RampAdvance(r).target = r.target
          /\ RampAdvance(r).current = r.target
      BY <1>1, <3>1, <3>2 DEF Moves
    <3> QED
      BY <1>2, <3>3
  <2>3. CASE r.left > 1
    <3> DEFINE v == r.current + (r.target - r.current) \div r.left
    <3> DEFINE n == r.left - 1
    <3>1. v \in Int /\ n \in Nat /\ n # 0 /\ r.left # 0 /\ r.left # 1
      BY <1>1, <2>3
    <3>2. RampAdvance(r) = [r EXCEPT !.current = v, !.left = n]
      BY <3>1 DEF RampAdvance
    <3> HIDE DEF v, n
    <3>3. /\ RampAdvance(r) \in Moves /\ RampAdvance(r).target = r.target
          /\ RampAdvance(r).left = n
      BY <1>1, <3>1, <3>2 DEF Moves
    <3> QED
      BY <1>2, <3>1, <3>3
  <2> QED
    BY <1>1, <2>1, <2>2, <2>3
<1> QED
  BY <1>3, <1>4, <1>5

\* A device starts with nothing heard.
LEMMA NewDeviceInv ==
    ASSUME NEW x
    PROVE  DeviceInv(x, NewDevice(x))
  BY AlgorithmAssumption
     DEF NewDevice, DeviceInv, Devices, RestsClean, OthersClean, Ramps, Moves, Wets, Reductions,
         NoReduction, Ramp, Dry, Parallel, Wet, Parts

----------------------------------------------------------------------------
(* A device that is reset.                                                   *)

\* Resetting parts makes them clean and touches nothing else.
LEMMA PartsReset ==
    ASSUME NEW x, NEW d, DeviceInv(x, d), NEW parts
    PROVE  /\ DeviceInv(x, ResetParts(d, parts)) /\ SameControls(d, ResetParts(d, parts))
           /\ \A p \in Parts(x) : p \in parts => ResetParts(d, parts).part[p] = "clean"
           /\ \A p \in Parts(x) : d.part[p] = "clean" => ResetParts(d, parts).part[p] = "clean"
           /\ ResetParts(d, parts).wasProcessing = d.wasProcessing
<1> DEFINE e == ResetParts(d, parts)
<1>1. d \in Devices(x) /\ DOMAIN d.part = Parts(x)
  BY DEF DeviceInv, Devices
<1>2. /\ e.part = [p \in Parts(x) |-> IF p \in parts THEN "clean" ELSE d.part[p]]
      /\ e.wet = d.wet /\ e.wasProcessing = d.wasProcessing /\ e.bypass = d.bypass
      /\ e.ran = d.ran /\ e.algorithm = d.algorithm
      /\ e.resetPending = d.resetPending /\ e.reduction = d.reduction
  BY <1>1 DEF Devices, ResetParts
<1>3. e \in Devices(x)
  BY <1>1 DEF Devices, ResetParts
<1> HIDE DEF e
<1>4. RestsClean(x, e)
  BY <1>2 DEF DeviceInv, RestsClean
<1>5. x = "Compressor" => Algorithms \subseteq Parts(x)
  BY DEF Parts
<1>6. OthersClean(x, e)
  BY <1>2, <1>5 DEF DeviceInv, OthersClean
<1> QED
  BY <1>2, <1>3, <1>4, <1>6 DEF DeviceInv, SameControls, e

\* A device all of whose parts are clean may come to rest.
LEMMA TransitionRests ==
    ASSUME NEW x, NEW d, DeviceInv(x, d), \A p \in Parts(x) : d.part[p] = "clean"
    PROVE  /\ DeviceInv(x, TransitionReset(d)) /\ SameControls(d, TransitionReset(d))
           /\ DeviceInv(x, [d EXCEPT !.wasProcessing = FALSE])
           /\ SameControls(d, [d EXCEPT !.wasProcessing = FALSE])
<1>1. RampReset(d.wet) \in Ramps /\ RampReset(d.wet).target = d.wet.target
  BY RampsRest DEF DeviceInv, Devices, Wets
<1> QED
  BY <1>1 DEF DeviceInv, Devices, RestsClean, OthersClean, TransitionReset, SameControls

\* The models forget with their reduction, and a reset that was due is done.
LEMMA ModelsReset ==
    ASSUME NEW d, DeviceInv("Compressor", d)
    PROVE  LET e == CompressorResetModels(d)
           IN  /\ DeviceInv("Compressor", e) /\ SameControls(d, e)
               /\ ~e.resetPending /\ e.wasProcessing = d.wasProcessing
               /\ \A p \in Parts("Compressor") :
                    p \in Algorithms \/ d.part[p] = "clean" => e.part[p] = "clean"
<1> DEFINE x == "Compressor"
<1> DEFINE c == ResetParts(d, Algorithms)
<1> DEFINE e == CompressorResetModels(d)
<1>1. /\ DeviceInv(x, c) /\ SameControls(d, c) /\ c.wasProcessing = d.wasProcessing
      /\ \A p \in Parts(x) : p \in Algorithms \/ d.part[p] = "clean" => c.part[p] = "clean"
  BY PartsReset
<1>2. e = [c EXCEPT !.reduction = NoReduction, !.resetPending = FALSE]
  BY DEF CompressorResetModels
<1>3. Algorithms \subseteq Parts(x)
  BY DEF Parts
<1> HIDE DEF c, e
<1>4. c \in Devices(x)
  BY <1>1 DEF DeviceInv
<1>5. NoReduction \in Reductions
  BY DEF NoReduction, Reductions
<1>6. /\ e \in Devices(x) /\ e.part = c.part /\ e.wasProcessing = c.wasProcessing
      /\ ~e.resetPending /\ SameControls(c, e)
  BY <1>2, <1>4, <1>5 DEF Devices, SameControls
<1>7. RestsClean(x, e) /\ OthersClean(x, e)
  BY <1>1, <1>3, <1>6 DEF DeviceInv, RestsClean, OthersClean
<1> QED
  BY <1>1, <1>6, <1>7 DEF DeviceInv, SameControls, e

\* What the transition of a device does to it when it has faded out.
Cleared(x, d) ==
    CASE x = "Input"      -> GainStageReset(ResetParts(d, {"width"}))
      [] x = "Saturator"  -> DetectorEqualizerReset(ResetParts(d, {"saturation", "output"}))
      [] x = "Shaper"     -> ResetParts(d, {"shaper"})
      [] x = "Compressor" -> CompressorResetModels(DetectorEqualizerReset(d))
      [] x = "Equalizer"  -> ResetParts(d, {"filters"})
      [] x = "Polish"     -> ResetParts(d, {"thick", "air"})
      [] OTHER            -> OutputResetStage(d)

\* It misses no part.
LEMMA NothingMissed ==
    ASSUME NEW x, NEW d, DeviceInv(x, d)
    PROVE  LET e == Cleared(x, d)
           IN  /\ DeviceInv(x, e) /\ SameControls(d, e)
               /\ \A p \in Parts(x) : e.part[p] = "clean"
<1>1. CASE x = "Input"
  <2> DEFINE c == ResetParts(d, {"width"})
  <2>1. DeviceInv(x, c) /\ SameControls(d, c) /\ c.part["width"] = "clean"
    BY <1>1, PartsReset DEF Parts
  <2> HIDE DEF c
  <2> DEFINE e == ResetParts(c, GainStageParts)
  <2>2. /\ DeviceInv(x, e) /\ SameControls(c, e)
        /\ \A p \in Parts(x) : p \in GainStageParts \/ c.part[p] = "clean" => e.part[p] = "clean"
    BY <2>1, PartsReset
  <2>3. Cleared(x, d) = e
    BY <1>1 DEF Cleared, GainStageReset, c
  <2> HIDE DEF e
  <2> QED
    BY <1>1, <2>1, <2>2, <2>3 DEF Parts, SameControls
<1>2. CASE x = "Saturator"
  <2> DEFINE c == ResetParts(d, {"saturation", "output"})
  <2>1. /\ DeviceInv(x, c) /\ SameControls(d, c)
        /\ c.part["saturation"] = "clean" /\ c.part["output"] = "clean"
    BY <1>2, PartsReset DEF Parts
  <2> HIDE DEF c
  <2> DEFINE e == ResetParts(c, DetectorParts)
  <2>2. /\ DeviceInv(x, e) /\ SameControls(c, e)
        /\ \A p \in Parts(x) : p \in DetectorParts \/ c.part[p] = "clean" => e.part[p] = "clean"
    BY <2>1, PartsReset
  <2>3. Cleared(x, d) = e
    BY <1>2 DEF Cleared, DetectorEqualizerReset, c
  <2> HIDE DEF e
  <2> QED
    BY <1>2, <2>1, <2>2, <2>3 DEF Parts, SameControls
<1>3. CASE x = "Shaper"
  BY <1>3, PartsReset DEF Cleared, Parts
<1>4. CASE x = "Compressor"
  <2> DEFINE c == ResetParts(d, DetectorParts)
  <2>1. /\ DeviceInv(x, c) /\ SameControls(d, c)
        /\ \A p \in Parts(x) : p \in DetectorParts => c.part[p] = "clean"
    BY PartsReset
  <2> HIDE DEF c
  <2>2. /\ DeviceInv(x, CompressorResetModels(c)) /\ SameControls(c, CompressorResetModels(c))
        /\ \A p \in Parts(x) : p \in Algorithms \/ c.part[p] = "clean"
                                 => CompressorResetModels(c).part[p] = "clean"
    BY <1>4, <2>1, ModelsReset
  <2>3. Cleared(x, d) = CompressorResetModels(c)
    BY <1>4 DEF Cleared, DetectorEqualizerReset, c
  <2> QED
    BY <1>4, <2>1, <2>2, <2>3 DEF Parts, SameControls
<1>5. CASE x = "Equalizer"
  BY <1>5, PartsReset DEF Cleared, Parts
<1>6. CASE x = "Polish"
  BY <1>6, PartsReset DEF Cleared, Parts
<1>7. CASE x \notin {"Input", "Saturator", "Shaper", "Compressor", "Equalizer", "Polish"}
  <2> DEFINE b == ResetParts(d, {"limiter"})
  <2>1. DeviceInv(x, b) /\ SameControls(d, b) /\ b.part["limiter"] = "clean"
    BY <1>7, PartsReset DEF Parts
  <2> HIDE DEF b
  <2> DEFINE c == ResetParts(b, GainStageParts)
  <2>2. /\ DeviceInv(x, c) /\ SameControls(b, c)
        /\ \A p \in Parts(x) : p \in GainStageParts \/ b.part[p] = "clean" => c.part[p] = "clean"
    BY <2>1, PartsReset
  <2>3. Cleared(x, d) = [c EXCEPT !.reduction = NoReduction]
    BY <1>7 DEF Cleared, OutputResetStage, GainStageReset, b
  <2> HIDE DEF c
  <2> DEFINE e == Cleared(x, d)
  <2>4. NoReduction \in Reductions
    BY DEF NoReduction, Reductions
  <2>5. e \in Devices(x) /\ e.part = c.part /\ SameControls(c, e)
    BY <2>2, <2>3, <2>4 DEF DeviceInv, Devices, SameControls
  <2>6. \A p \in Parts(x) : e.part[p] = "clean"
    BY <1>7, <2>1, <2>2, <2>5 DEF Parts
  <2> HIDE DEF e
  <2>7. RestsClean(x, e) /\ OthersClean(x, e)
    BY <1>7, <2>6 DEF RestsClean, OthersClean
  <2> QED
    BY <2>1, <2>2, <2>5, <2>6, <2>7 DEF DeviceInv, SameControls, e
<1> QED
  BY <1>1, <1>2, <1>3, <1>4, <1>5, <1>6, <1>7

\* A reset of the chain resets every device, its fade included.
LEMMA ChainResetKeeps ==
    ASSUME NEW c, \A x \in DOMAIN c : DeviceInv(x, c[x])
    PROVE  /\ DOMAIN ChainReset(c) = DOMAIN c
           /\ \A x \in DOMAIN c : /\ DeviceInv(x, ChainReset(c)[x])
                                  /\ SameControls(c[x], ChainReset(c)[x])
<1> SUFFICES ASSUME NEW x \in DOMAIN c
             PROVE  DeviceInv(x, ChainReset(c)[x]) /\ SameControls(c[x], ChainReset(c)[x])
  BY DEF ChainReset
<1> DEFINE d == c[x]
<1> DEFINE e == Cleared(x, d)
<1>1. DeviceInv(x, d)
  OBVIOUS
<1>2. DeviceInv(x, e) /\ SameControls(d, e) /\ \A p \in Parts(x) : e.part[p] = "clean"
  BY <1>1, NothingMissed
<1>3. ChainReset(c)[x] = IF x = "Equalizer" THEN e ELSE TransitionReset(e)
  BY DEF ChainReset, Cleared, InputReset, SaturatorReset, ShaperReset, CompressorReset,
         EqualizerReset, PolishReset, OutputReset
<1> HIDE DEF e
<1>4. DeviceInv(x, TransitionReset(e)) /\ SameControls(e, TransitionReset(e))
  BY <1>2, TransitionRests
<1> QED
  BY <1>2, <1>3, <1>4 DEF SameControls

\* Preparing keeps everything the runtime's reset relies on.
LEMMA ChainPrepareKeeps ==
    ASSUME NEW c, \A x \in DOMAIN c : DeviceInv(x, c[x])
    PROVE  /\ DOMAIN ChainPrepare(c) = DOMAIN c
           /\ \A x \in DOMAIN c : /\ DeviceInv(x, ChainPrepare(c)[x])
                                  /\ SameControls(c[x], ChainPrepare(c)[x])
<1> SUFFICES ASSUME NEW x \in DOMAIN c
             PROVE  DeviceInv(x, ChainPrepare(c)[x]) /\ SameControls(c[x], ChainPrepare(c)[x])
  BY DEF ChainPrepare
<1>1. DeviceInv(x, c[x])
  OBVIOUS
<1>2. /\ DeviceInv(x, ResetParts(c[x], Algorithms))
      /\ SameControls(c[x], ResetParts(c[x], Algorithms))
  BY <1>1, PartsReset
<1> QED
  BY <1>1, <1>2 DEF ChainPrepare, SameControls

----------------------------------------------------------------------------
(* The controls of a snapshot.                                               *)

\* The devices that report a reduction know of the snapshot what it depends on.
Follows(x, d, a) ==
    /\ x \in {"Compressor", "Output"} =>
         d.bypass = a.bypass /\ (~a.bypass => d.wet.target # Dry)
    /\ x = "Compressor" => d.algorithm = a.algorithm

\* A new target keeps the histories.
LEMMA TargetKeeps ==
    ASSUME NEW x, NEW d, DeviceInv(x, d), NEW wet \in Wets
    PROVE  LET e == TransitionSetTarget(d, wet)
           IN  /\ DeviceInv(x, e) /\ e.wet.target = wet
               /\ e.bypass = d.bypass /\ e.algorithm = d.algorithm
<1>1. RampSetTarget(d.wet, wet) \in Ramps /\ RampSetTarget(d.wet, wet).target = wet
  BY RampsRest DEF DeviceInv, Devices
<1> QED
  BY <1>1 DEF DeviceInv, Devices, RestsClean, OthersClean, TransitionSetTarget

\* A switch of the compressor model makes a reset due, also one that is
\* switched back.
LEMMA ParametersKeep ==
    ASSUME NEW c, \A x \in DOMAIN c : DeviceInv(x, c[x]),
           NEW s \in Snapshots(DOMAIN c)
    PROVE  /\ DOMAIN ChainSetParameters(c, s) = DOMAIN c
           /\ \A x \in DOMAIN c : /\ DeviceInv(x, ChainSetParameters(c, s)[x])
                                  /\ Follows(x, ChainSetParameters(c, s)[x], s.of[x])
<1> SUFFICES ASSUME NEW x \in DOMAIN c
             PROVE  /\ DeviceInv(x, ChainSetParameters(c, s)[x])
                    /\ Follows(x, ChainSetParameters(c, s)[x], s.of[x])
  BY DEF ChainSetParameters
<1> DEFINE d == c[x]
<1> DEFINE a == s.of[x]
<1> DEFINE e == ChainSetParameters(c, s)[x]
<1>1. DeviceInv(x, d)
  OBVIOUS
<1>2. a.bypass \in BOOLEAN /\ a.algorithm \in Algorithms
  BY DEF Snapshots, Activity, Choices
<1>3. Dry \in Wets /\ Parallel \in Wets /\ Wet \in Wets /\ Parallel # Dry /\ Wet # Dry
  BY DEF Wets, Dry, Parallel, Wet
<1>4. CASE x = "Compressor"
  <2> DEFINE b == [d EXCEPT !.resetPending = @ \/ d.algorithm # a.algorithm,
                            !.algorithm = a.algorithm, !.bypass = a.bypass]
  <2> DEFINE wet == IF a.bypass THEN Dry ELSE IF a.parallel THEN Parallel ELSE Wet
  <2>1. /\ b \in Devices(x) /\ b.part = d.part /\ b.wasProcessing = d.wasProcessing
        /\ b.bypass = a.bypass /\ b.algorithm = a.algorithm
        /\ b.resetPending = (d.resetPending \/ d.algorithm # a.algorithm)
    BY <1>1, <1>2 DEF DeviceInv, Devices
  <2>2. e = TransitionSetTarget(b, wet)
    BY <1>4 DEF ChainSetParameters, CompressorSetParameters
  <2> HIDE DEF b, d, a
  <2>3. DeviceInv(x, b)
    BY <1>1, <2>1 DEF DeviceInv, RestsClean, OthersClean
  <2>4. wet \in Wets /\ (~a.bypass => wet # Dry)
    BY <1>3
  <2> HIDE DEF wet, e
  <2>5. DeviceInv(x, e) /\ e.wet.target = wet /\ e.bypass = b.bypass /\ e.algorithm = b.algorithm
    BY <2>2, <2>3, <2>4, TargetKeeps
  <2> QED
    BY <2>1, <2>4, <2>5 DEF Follows, e, a
<1>5. CASE x = "Equalizer"
  BY <1>1, <1>5 DEF ChainSetParameters, Follows
<1>6. CASE x \in {"Input", "Saturator", "Shaper", "Polish"}
  <2>1. \E wet \in Wets : e = TransitionSetTarget(d, wet)
    BY <1>3, <1>6 DEF ChainSetParameters, InputSetParameters, SaturatorSetParameters,
                      ShaperSetParameters, PolishSetParameters
  <2>2. x \notin {"Compressor", "Output"}
    BY <1>6
  <2> QED
    BY <1>1, <2>1, <2>2, TargetKeeps DEF Follows
<1>7. CASE x \notin {"Input", "Saturator", "Shaper", "Compressor", "Equalizer", "Polish"}
  <2> DEFINE b == [d EXCEPT !.bypass = a.bypass]
  <2> DEFINE wet == IF a.bypass THEN Dry ELSE Wet
  <2>1. /\ b \in Devices(x) /\ b.part = d.part /\ b.wasProcessing = d.wasProcessing
        /\ b.bypass = a.bypass
    BY <1>1, <1>2 DEF DeviceInv, Devices
  <2>2. e = TransitionSetTarget(b, wet)
    BY <1>7 DEF ChainSetParameters, OutputSetParameters
  <2> HIDE DEF b, d, a
  <2>3. DeviceInv(x, b)
    BY <1>1, <1>7, <2>1 DEF DeviceInv, RestsClean, OthersClean
  <2>4. wet \in Wets /\ (~a.bypass => wet # Dry)
    BY <1>3
  <2> HIDE DEF wet, e
  <2>5. DeviceInv(x, e) /\ e.wet.target = wet /\ e.bypass = b.bypass
    BY <2>2, <2>3, <2>4, TargetKeeps
  <2> QED
    BY <1>7, <2>1, <2>4, <2>5 DEF Follows, e, a
<1> QED
  BY <1>4, <1>5, <1>6, <1>7

----------------------------------------------------------------------------
(* A block of a device.                                                      *)

\* A device in the middle of a block.
Running(x) ==
    [wet : Ramps, wasProcessing : BOOLEAN, bypass : BOOLEAN,
     part : [Parts(x) -> {"clean", "live"}], ran : SUBSET Parts(x),
     algorithm : Algorithms, resetPending : BOOLEAN, reduction : Reductions]

\* Every part has run or has nothing to forget, no device that rests has run, and
\* of the compressor models only the one in force.
Complete(x, e) ==
    /\ e \in Running(x)
    /\ \A p \in Parts(x) : p \in e.ran \/ e.part[p] = "clean"
    /\ x # "Equalizer" /\ ~e.wasProcessing => e.ran = {}
    /\ x = "Compressor" /\ ~e.resetPending =>
         e.ran \subseteq DetectorParts \cup {e.algorithm} /\ OthersClean(x, e)

\* So the block leaves no stale part behind, and revives none.
LEMMA AgedKeeps ==
    ASSUME NEW x, NEW e, Complete(x, e)
    PROVE  DeviceInv(x, Aged(e)) /\ SameControls(e, Aged(e)) /\ Aged(e).reduction = e.reduction
<1> DEFINE a == Aged(e)
<1> DEFINE parts == [p \in Parts(x) |->
                       IF p \in e.ran THEN (IF e.part[p] = "stale" THEN "revived" ELSE "live")
                       ELSE IF e.part[p] = "live" THEN "stale" ELSE e.part[p]]
<1>1. e \in Running(x) /\ DOMAIN e.part = Parts(x)
  BY DEF Complete, Running
<1>2. a = [e EXCEPT !.ran = {}, !.part = parts]
  BY <1>1 DEF Aged
<1>3. \A p \in Parts(x) : parts[p] = IF p \in e.ran THEN "live" ELSE "clean"
  BY <1>1 DEF Complete, Running
<1>4. parts \in [Parts(x) -> {"clean", "live"}]
  BY <1>3
<1> HIDE DEF parts, a
<1>5. /\ a \in Devices(x) /\ a.part = parts /\ SameControls(e, a)
      /\ a.wasProcessing = e.wasProcessing /\ a.resetPending = e.resetPending
      /\ a.algorithm = e.algorithm /\ a.reduction = e.reduction
  BY <1>1, <1>2, <1>4 DEF Devices, Running, SameControls
<1>6. RestsClean(x, a)
  BY <1>3, <1>5 DEF RestsClean, Complete
<1>7. x = "Compressor" => Algorithms \subseteq Parts(x)
  BY DEF Parts
<1>8. OthersClean(x, a)
  BY <1>3, <1>5, <1>7 DEF OthersClean, Complete
<1> QED
  BY <1>5, <1>6, <1>8 DEF DeviceInv, a

\* A device that has forgotten everything and did not run is complete.
LEMMA CleanIsComplete ==
    ASSUME NEW x, NEW e, DeviceInv(x, e), \A p \in Parts(x) : e.part[p] = "clean"
    PROVE  Complete(x, e)
<1>1. e \in Running(x) /\ e.ran = {}
  BY DEF DeviceInv, Devices, Running
<1> QED
  BY <1>1 DEF Complete, DeviceInv

\* Parts that run are added to those that ran.
LEMMA PartsRun ==
    ASSUME NEW x, NEW e \in Running(x), NEW parts \in SUBSET Parts(x)
    PROVE  LET f == RunParts(e, parts)
           IN  /\ f \in Running(x) /\ f.ran = e.ran \cup parts /\ f.part = e.part
               /\ SameControls(e, f) /\ f.wasProcessing = e.wasProcessing
               /\ f.resetPending = e.resetPending /\ f.reduction = e.reduction
  BY DEF Running, RunParts, SameControls

\* What the transition of a device does to it while it is heard.
Processed(x, d) ==
    CASE x = "Input"      -> GainStageProcess(RunParts(d, {"width"}))
      [] x = "Saturator"  -> RunParts(DetectorEqualizerCapture(d), {"saturation", "output"})
      [] x = "Shaper"     -> RunParts(d, {"shaper"})
      [] x = "Compressor" -> CompressorProcessWet(d)
      [] x = "Equalizer"  -> EqualizerProcess(d)
      [] x = "Polish"     -> RunParts(d, {"thick", "air"})
      [] OTHER            -> [RunParts(GainStageProcess(d), {"limiter"}) EXCEPT
                                 !.reduction = [model |-> "limiter", fresh |-> TRUE]]

\* All parts run, of the compressor the detectors and the model in force, which
\* runs without the histories of another.
LEMMA EveryPartRuns ==
    ASSUME NEW x, NEW d, DeviceInv(x, d)
    PROVE  LET e == Processed(x, d)
           IN  /\ e \in Running(x) /\ SameControls(d, e)
               /\ \A p \in Parts(x) : p \in e.ran \/ e.part[p] = "clean"
               /\ x = "Compressor" => /\ e.ran \subseteq DetectorParts \cup {e.algorithm}
                                      /\ OthersClean(x, e)
                                      /\ e.reduction = [model |-> d.algorithm, fresh |-> TRUE]
               /\ x = "Output" => e.reduction = [model |-> "limiter", fresh |-> TRUE]
<1>1. d \in Running(x) /\ d.ran = {}
  BY DEF DeviceInv, Devices, Running
<1>2. CASE x = "Input"
  <2>1. Parts(x) = {"width"} \cup GainStageParts
    BY <1>2 DEF Parts
  <2> DEFINE b == RunParts(d, {"width"})
  <2>2. b \in Running(x) /\ b.ran = {"width"} /\ SameControls(d, b)
    BY <1>1, <2>1, PartsRun
  <2>3. Processed(x, d) = RunParts(b, GainStageParts)
    BY <1>2 DEF Processed, GainStageProcess
  <2> HIDE DEF b
  <2>4. /\ RunParts(b, GainStageParts) \in Running(x) /\ SameControls(b, RunParts(b, GainStageParts))
        /\ RunParts(b, GainStageParts).ran = {"width"} \cup GainStageParts
    BY <2>1, <2>2, PartsRun
  <2> QED
    BY <1>2, <2>1, <2>2, <2>3, <2>4 DEF SameControls
<1>3. CASE x = "Saturator"
  <2>1. /\ Parts(x) = DetectorParts \cup {"saturation", "output"}
        /\ DetectorParts \in SUBSET Parts(x) /\ {"saturation", "output"} \in SUBSET Parts(x)
    BY <1>3 DEF Parts
  <2> DEFINE b == RunParts(d, DetectorParts)
  <2>a. b \in Running(x) /\ b.ran = d.ran \cup DetectorParts /\ SameControls(d, b)
    <3>1. d \in Running(x)
      BY <1>1
    <3>2. DetectorParts \in SUBSET Parts(x)
      BY <2>1
    <3> QED
      BY <3>1, <3>2, PartsRun
  <2>2. b \in Running(x) /\ b.ran = DetectorParts /\ SameControls(d, b)
    BY <1>1, <2>a
  <2>3. Processed(x, d) = RunParts(b, {"saturation", "output"})
    BY <1>3 DEF Processed, DetectorEqualizerCapture
  <2> HIDE DEF b
  <2> DEFINE e == RunParts(b, {"saturation", "output"})
  <2>4. e \in Running(x) /\ SameControls(b, e) /\ e.ran = DetectorParts \cup {"saturation", "output"}
    BY <2>1, <2>2, PartsRun
  <2> QED
    BY <1>3, <2>1, <2>2, <2>3, <2>4 DEF SameControls
<1>4. CASE x \in {"Shaper", "Equalizer", "Polish"}
  <2>1. Processed(x, d) = RunParts(d, Parts(x))
    BY <1>4 DEF Processed, EqualizerProcess, Parts
  <2> QED
    BY <1>1, <1>4, <2>1, PartsRun
<1>5. CASE x = "Compressor"
  <2>1. /\ Parts(x) = DetectorParts \cup Algorithms /\ d.algorithm \in Algorithms
        /\ DetectorParts \in SUBSET Parts(x) /\ {d.algorithm} \in SUBSET Parts(x)
    BY <1>1, <1>5 DEF Parts, Running
  <2> DEFINE b == IF d.resetPending THEN CompressorResetModels(d) ELSE d
  <2>2. DeviceInv(x, b) /\ SameControls(d, b) /\ ~b.resetPending
    BY <1>5, ModelsReset DEF SameControls
  <2> HIDE DEF b
  <2>3. b \in Running(x) /\ b.ran = {} /\ b.algorithm = d.algorithm
    BY <2>2 DEF DeviceInv, Devices, Running, SameControls
  <2> DEFINE f == RunParts(b, DetectorParts)
  <2>a. /\ f \in Running(x) /\ f.ran = b.ran \cup DetectorParts /\ f.part = b.part
        /\ SameControls(b, f) /\ f.resetPending = b.resetPending
    <3>1. b \in Running(x)
      BY <2>3
    <3>2. DetectorParts \in SUBSET Parts(x)
      BY <2>1
    <3> QED
      BY <3>1, <3>2, PartsRun
  <2>4. /\ f \in Running(x) /\ f.ran = DetectorParts /\ f.part = b.part
        /\ SameControls(b, f) /\ ~f.resetPending
    BY <2>2, <2>3, <2>a
  <2> HIDE DEF f
  <2> DEFINE g == RunParts(f, {d.algorithm})
  <2>5. /\ g \in Running(x) /\ g.ran = DetectorParts \cup {d.algorithm} /\ g.part = b.part
        /\ SameControls(f, g) /\ ~g.resetPending
    BY <2>1, <2>4, PartsRun
  <2>6. Processed(x, d) = [g EXCEPT !.reduction = [model |-> d.algorithm, fresh |-> TRUE]]
    BY <1>5 DEF Processed, CompressorProcessWet, DetectorEqualizerCapture, b, f
  <2> HIDE DEF g
  <2> DEFINE e == Processed(x, d)
  <2>7. [model |-> d.algorithm, fresh |-> TRUE] \in Reductions
    BY <2>1 DEF Reductions
  <2>8. /\ e \in Running(x) /\ e.ran = g.ran /\ e.part = b.part /\ SameControls(g, e)
        /\ ~e.resetPending /\ e.reduction = [model |-> d.algorithm, fresh |-> TRUE]
    BY <2>5, <2>6, <2>7 DEF Running, SameControls
  <2> HIDE DEF e
  <2>9. SameControls(d, e) /\ e.algorithm = d.algorithm
    BY <2>2, <2>4, <2>5, <2>8 DEF SameControls
  <2>10. OthersClean(x, b)
    BY <2>2 DEF DeviceInv
  <2>11. OthersClean(x, e)
    BY <1>5, <2>2, <2>3, <2>8, <2>9, <2>10 DEF OthersClean
  <2>12. \A p \in Parts(x) : p \in e.ran \/ e.part[p] = "clean"
    BY <1>5, <2>1, <2>5, <2>8, <2>9, <2>11 DEF OthersClean
  <2> QED
    BY <1>5, <2>5, <2>8, <2>9, <2>11, <2>12 DEF e
<1>6. CASE x \notin {"Input", "Saturator", "Shaper", "Compressor", "Equalizer", "Polish"}
  <2>1. Parts(x) = GainStageParts \cup {"limiter"}
    BY <1>6 DEF Parts
  <2> DEFINE b == RunParts(d, GainStageParts)
  <2>2. b \in Running(x) /\ b.ran = GainStageParts /\ SameControls(d, b)
    BY <1>1, <2>1, PartsRun
  <2> HIDE DEF b
  <2> DEFINE g == RunParts(b, {"limiter"})
  <2>3. g \in Running(x) /\ SameControls(b, g) /\ g.ran = GainStageParts \cup {"limiter"}
    BY <2>1, <2>2, PartsRun
  <2>4. Processed(x, d) = [g EXCEPT !.reduction = [model |-> "limiter", fresh |-> TRUE]]
    BY <1>6 DEF Processed, GainStageProcess, b
  <2> HIDE DEF g
  <2>5. [model |-> "limiter", fresh |-> TRUE] \in Reductions
    BY DEF Reductions
  <2> DEFINE e == Processed(x, d)
  <2>6. /\ e \in Running(x) /\ e.ran = g.ran /\ SameControls(g, e)
        /\ e.reduction = [model |-> "limiter", fresh |-> TRUE]
    BY <2>3, <2>4, <2>5 DEF Running, SameControls
  <2> HIDE DEF e
  <2> QED
    BY <1>6, <2>1, <2>2, <2>3, <2>6 DEF SameControls, e
<1> QED
  BY <1>2, <1>3, <1>4, <1>5, <1>6

\* A device in a block of the chain; the equalizer has no transition.
Block(x, d) ==
    IF x = "Equalizer" THEN Processed(x, d)
    ELSE TransitionProcess(d, Processed(x, d), Cleared(x, d))

Reported(x, d) ==
    /\ x = "Compressor" => d.reduction = [model |-> d.algorithm, fresh |-> TRUE]
    /\ x = "Output" => d.reduction = [model |-> "limiter", fresh |-> TRUE]

\* It runs as a whole, is cleared as a whole, or has been; one that is not on its
\* way out reports.
LEMMA BlockCompletes ==
    ASSUME NEW x, NEW d, DeviceInv(x, d)
    PROVE  /\ Complete(x, Block(x, d)) /\ SameControls(d, Block(x, d))
           /\ d.wet.target # Dry => Reported(x, Block(x, d))
<1> DEFINE p == Processed(x, d)
<1> DEFINE c == Cleared(x, d)
<1> DEFINE e == Block(x, d)
<1> DEFINE off == d.wet.current = Dry /\ ~IsSmoothing(d.wet)
<1>1. /\ p \in Running(x) /\ SameControls(d, p)
      /\ \A q \in Parts(x) : q \in p.ran \/ p.part[q] = "clean"
      /\ x = "Compressor" => p.ran \subseteq DetectorParts \cup {p.algorithm} /\ OthersClean(x, p)
  BY EveryPartRuns
<1>2. /\ x = "Compressor" => p.reduction = [model |-> d.algorithm, fresh |-> TRUE]
      /\ x = "Output" => p.reduction = [model |-> "limiter", fresh |-> TRUE]
  BY EveryPartRuns
<1>3. Reported(x, p)
  BY <1>1, <1>2 DEF Reported, SameControls
<1>4. DeviceInv(x, c) /\ SameControls(d, c) /\ \A q \in Parts(x) : c.part[q] = "clean"
  BY NothingMissed
<1>5. d.wet \in Ramps /\ d.wet.left \in Nat /\ (d.wet.left = 0 => d.wet.current = d.wet.target)
  BY DEF DeviceInv, Devices, Ramps, Moves
<1>6. off /\ x # "Equalizer" => d.wet.target = Dry
  BY <1>5 DEF IsSmoothing
<1> HIDE DEF p, c
<1>7. CASE x = "Equalizer"
  <2>1. e = p
    BY <1>7 DEF Block, p
  <2> QED
    BY <1>1, <1>3, <1>7, <2>1 DEF Complete
<1>8. CASE x # "Equalizer" /\ off /\ d.wasProcessing
  <2> DEFINE f == [c EXCEPT !.wasProcessing = FALSE]
  <2>1. DeviceInv(x, f) /\ SameControls(c, f)
    BY <1>4, TransitionRests
  <2>2. \A q \in Parts(x) : f.part[q] = "clean"
    BY <1>4 DEF DeviceInv, Devices
  <2> HIDE DEF f
  <2>3. Complete(x, f)
    BY <2>1, <2>2, CleanIsComplete
  <2>4. e = f
    BY <1>8 DEF Block, TransitionProcess, Dry, Wet, c, f
  <2> QED
    BY <1>4, <1>6, <1>8, <2>1, <2>3, <2>4 DEF SameControls
<1>9. CASE x # "Equalizer" /\ off /\ ~d.wasProcessing
  <2>1. e = d
    BY <1>9 DEF Block, TransitionProcess, Dry, Wet
  <2>2. \A q \in Parts(x) : d.part[q] = "clean"
    BY <1>9 DEF DeviceInv, RestsClean
  <2>3. Complete(x, d)
    BY <2>2, CleanIsComplete
  <2> QED
    BY <1>6, <1>9, <2>1, <2>3 DEF SameControls
<1>10. CASE x # "Equalizer" /\ ~off
  <2>1. RampAdvance(p.wet) \in Ramps /\ RampAdvance(p.wet).target = p.wet.target
    BY <1>1, RampsRest, Dry \in Wets DEF Running, Wets
  <2>2. \/ e = [p EXCEPT !.wasProcessing = TRUE]
        \/ e = [p EXCEPT !.wasProcessing = TRUE, !.wet = RampAdvance(@)]
    BY <1>10 DEF Block, TransitionProcess, p
  <2> HIDE DEF e
  <2>3. /\ e \in Running(x) /\ SameControls(p, e) /\ e.wasProcessing
        /\ e.part = p.part /\ e.ran = p.ran /\ e.resetPending = p.resetPending
        /\ e.reduction = p.reduction
    BY <1>1, <2>1, <2>2 DEF Running, SameControls
  <2>4. Complete(x, e)
    BY <1>1, <2>3 DEF Complete, OthersClean, SameControls
  <2>5. Reported(x, e)
    BY <1>3, <2>3 DEF Reported, SameControls
  <2> QED
    BY <1>1, <2>3, <2>4, <2>5 DEF SameControls, e
<1> QED
  BY <1>7, <1>8, <1>9, <1>10

\* The reductions of the block before are marked as old.
LEMMA OldReductionKeeps ==
    ASSUME NEW x, NEW d, DeviceInv(x, d)
    PROVE  LET e == [d EXCEPT !.reduction.fresh = FALSE]
           IN  DeviceInv(x, e) /\ SameControls(d, e)
<1> DEFINE r == [d.reduction EXCEPT !.fresh = FALSE]
<1> DEFINE e == [d EXCEPT !.reduction = r]
<1>1. d \in Devices(x) /\ d.reduction \in Reductions
  BY DEF DeviceInv, Devices
<1>2. r \in Reductions
  BY <1>1 DEF Reductions
<1> HIDE DEF r
<1>3. /\ e \in Devices(x) /\ e.part = d.part /\ e.wasProcessing = d.wasProcessing
      /\ e.resetPending = d.resetPending /\ SameControls(d, e)
  BY <1>1, <1>2 DEF Devices, SameControls
<1> HIDE DEF e
<1>4. RestsClean(x, e) /\ OthersClean(x, e)
  BY <1>3 DEF DeviceInv, RestsClean, OthersClean, SameControls
<1>5. [d EXCEPT !.reduction.fresh = FALSE] = e
  BY DEF e, r
<1> QED
  BY <1>3, <1>4, <1>5 DEF DeviceInv

\* A block of the chain is a block of every device.
LEMMA ChainProcessKeeps ==
    ASSUME NEW c, \A x \in DOMAIN c : DeviceInv(x, c[x])
    PROVE  /\ DOMAIN ChainProcess(c) = DOMAIN c
           /\ \A x \in DOMAIN c : /\ DeviceInv(x, ChainProcess(c)[x])
                                  /\ SameControls(c[x], ChainProcess(c)[x])
                                  /\ c[x].wet.target # Dry => Reported(x, ChainProcess(c)[x])
<1> SUFFICES ASSUME NEW x \in DOMAIN c
             PROVE  /\ DeviceInv(x, ChainProcess(c)[x])
                    /\ SameControls(c[x], ChainProcess(c)[x])
                    /\ c[x].wet.target # Dry => Reported(x, ChainProcess(c)[x])
  BY DEF ChainProcess
<1> DEFINE b == IF c[x].reduction = NoReduction THEN c[x]
                ELSE [c[x] EXCEPT !.reduction.fresh = FALSE]
<1> DEFINE e == Block(x, b)
<1>1. DeviceInv(x, b) /\ SameControls(c[x], b)
  <2>1. DeviceInv(x, c[x])
    OBVIOUS
  <2> QED
    BY <2>1, OldReductionKeeps DEF SameControls
<1>2. ChainProcess(c)[x] = Aged(e)
  BY DEF ChainProcess, Block, Processed, Cleared, InputProcess, SaturatorProcess, ShaperProcess,
         CompressorProcess, EqualizerProcess, PolishProcess, OutputProcess
<1> HIDE DEF b
<1>3. /\ Complete(x, e) /\ SameControls(b, e)
      /\ b.wet.target # Dry => Reported(x, e)
  BY <1>1, BlockCompletes
<1> HIDE DEF e
<1>4. DeviceInv(x, Aged(e)) /\ SameControls(e, Aged(e)) /\ Aged(e).reduction = e.reduction
  BY <1>3, AgedKeeps
<1> QED
  BY <1>1, <1>2, <1>3, <1>4 DEF SameControls, Reported

----------------------------------------------------------------------------
(* The runtime.                                                              *)

SnapshotTypes == {snapshot, published} \subseteq Snapshots(DOMAIN chain) \cup {None}

ChainFollows(c, s) == \A x \in DOMAIN c : Follows(x, c[x], s.of[x])

IInv == /\ ChainInv
        /\ SnapshotTypes
        /\ hasSnapshot => ChainFollows(chain, snapshot)
        /\ ReductionIsOfThisBlock

\* What keeps the controls keeps following the snapshot.
LEMMA ControlsFollow ==
    ASSUME NEW c, NEW e, NEW s, ChainFollows(c, s), DOMAIN e = DOMAIN c,
           \A x \in DOMAIN c : SameControls(c[x], e[x])
    PROVE  ChainFollows(e, s)
  BY DEF ChainFollows, Follows, SameControls

\* What a block publishes of a chain that follows the snapshot.
LEMMA BlockReports ==
    ASSUME NEW c, \A x \in DOMAIN c : DeviceInv(x, c[x]),
           NEW s, ChainFollows(c, s), NEW processed \in BOOLEAN
    PROVE  LET t == Published(IF processed THEN ChainProcess(c) ELSE c, s, processed)
               of(x, model, reduction) ==
                 IF processed /\ ~s.of[x].bypass
                 THEN reduction = [model |-> model, fresh |-> TRUE]
                 ELSE reduction = NoReduction
           IN  /\ t.processed = processed
               /\ "Compressor" \in DOMAIN c =>
                    of("Compressor", s.of["Compressor"].algorithm, t.compressor)
               /\ "Output" \in DOMAIN c => of("Output", "limiter", t.limiter)
<1> DEFINE t == Published(IF processed THEN ChainProcess(c) ELSE c, s, processed)
<1> DEFINE reported(x) == IF processed THEN ReductionDb(ChainProcess(c)[x]) ELSE NoReduction
<1>0. \A x \in DOMAIN c : /\ SameControls(c[x], ChainProcess(c)[x])
                          /\ c[x].wet.target # Dry => Reported(x, ChainProcess(c)[x])
  BY ChainProcessKeeps
<1>1. DOMAIN ChainProcess(c) = DOMAIN c
  BY DEF ChainProcess
<1>2. /\ t.processed = processed
      /\ "Compressor" \in DOMAIN c => t.compressor = reported("Compressor")
      /\ "Output" \in DOMAIN c => t.limiter = reported("Output")
  BY <1>1 DEF Published
<1> HIDE DEF t
<1>3. ASSUME NEW x \in DOMAIN c, x \in {"Compressor", "Output"}, processed
      PROVE  IF s.of[x].bypass THEN reported(x) = NoReduction
             ELSE Reported(x, ChainProcess(c)[x]) /\ reported(x) = ChainProcess(c)[x].reduction
  <2>1. /\ SameControls(c[x], ChainProcess(c)[x])
        /\ c[x].wet.target # Dry => Reported(x, ChainProcess(c)[x])
    BY <1>0
  <2>2. c[x].bypass = s.of[x].bypass /\ (~s.of[x].bypass => c[x].wet.target # Dry)
    BY <1>3 DEF ChainFollows, Follows
  <2> QED
    BY <1>3, <2>1, <2>2 DEF SameControls, ReductionDb
<1>4. ASSUME "Compressor" \in DOMAIN c
      PROVE  ChainProcess(c)["Compressor"].algorithm = s.of["Compressor"].algorithm
  BY <1>0, <1>4 DEF ChainFollows, Follows, SameControls
<1> HIDE DEF reported
<1>5. ~processed => reported("Compressor") = NoReduction /\ reported("Output") = NoReduction
  BY DEF reported
<1> QED
  BY <1>2, <1>3, <1>4, <1>5 DEF Reported, t

\* The invariant holds at first.
LEMMA InitSatisfies == Init => IInv
<1> SUFFICES ASSUME Init PROVE IInv
  OBVIOUS
<1>1. ChainInv
  BY NewDeviceInv DEF Init, ChainInv
<1>2. SnapshotTypes /\ ~hasSnapshot
  BY DEF Init, SnapshotTypes, hasSnapshot
<1>3. ReductionIsOfThisBlock
  BY DEF Init, ReductionIsOfThisBlock
<1> QED
  BY <1>1, <1>2, <1>3 DEF IInv

\* A published snapshot changes no device (DspStateExchange).
LEMMA PublishKeeps == IInv /\ Publish => IInv'
<1> SUFFICES ASSUME IInv, Publish PROVE IInv'
  OBVIOUS
<1>1. ChainInv'
  BY DEF IInv, ChainInv, Publish
<1>2. SnapshotTypes'
  BY DEF IInv, SnapshotTypes, Publish
<1>3. (hasSnapshot => ChainFollows(chain, snapshot))'
  BY DEF IInv, Publish, hasSnapshot
<1>4. ReductionIsOfThisBlock'
  BY DEF IInv, Publish, ReductionIsOfThisBlock
<1> QED
  BY <1>1, <1>2, <1>3, <1>4 DEF IInv

\* A chain that is made anew as it stands changes nothing else.
LEMMA ChainChangeKeeps ==
    ASSUME IInv, NEW c, chain' = c, DOMAIN c = DOMAIN chain,
           \A x \in DOMAIN c : DeviceInv(x, c[x]),
           hasSnapshot => ChainFollows(c, snapshot),
           UNCHANGED <<snapshot, published, telemetry>>
    PROVE  IInv'
<1>1. ChainInv'
  BY DEF ChainInv
<1>2. SnapshotTypes'
  BY DEF IInv, SnapshotTypes
<1>3. (hasSnapshot => ChainFollows(chain, snapshot))'
  BY DEF hasSnapshot
<1>4. ReductionIsOfThisBlock'
  BY DEF IInv, ReductionIsOfThisBlock
<1> QED
  BY <1>1, <1>2, <1>3, <1>4 DEF IInv

\* A reset of the runtime leaves every device clean.
LEMMA ResetKeeps == IInv /\ Reset => IInv'
<1> SUFFICES ASSUME IInv, Reset PROVE IInv'
  OBVIOUS
<1> DEFINE c == ChainReset(chain)
<1>1. \A x \in DOMAIN chain : DeviceInv(x, chain[x])
  BY DEF IInv, ChainInv
<1>2. /\ DOMAIN c = DOMAIN chain
      /\ \A x \in DOMAIN chain : DeviceInv(x, c[x]) /\ SameControls(chain[x], c[x])
  BY <1>1, ChainResetKeeps
<1>3. chain' = c /\ UNCHANGED <<snapshot, published, telemetry>>
  BY DEF Reset
<1> HIDE DEF c
<1>4. hasSnapshot => ChainFollows(c, snapshot)
  BY <1>2, ControlsFollow DEF IInv
<1> QED
  BY <1>2, <1>3, <1>4, ChainChangeKeeps

\* A preparation prepares, sets and resets every device.
LEMMA PrepareKeeps == IInv /\ Prepare => IInv'
<1> SUFFICES ASSUME IInv, Prepare PROVE IInv'
  OBVIOUS
<1> DEFINE fresh == ChainPrepare(chain)
<1> DEFINE set == IF hasSnapshot THEN ChainSetParameters(fresh, snapshot) ELSE fresh
<1> DEFINE c == ChainReset(set)
<1>1. \A x \in DOMAIN chain : DeviceInv(x, chain[x])
  BY DEF IInv, ChainInv
<1>2. DOMAIN fresh = DOMAIN chain /\ \A x \in DOMAIN fresh : DeviceInv(x, fresh[x])
  BY <1>1, ChainPrepareKeeps
<1>3. chain' = c /\ UNCHANGED <<snapshot, published, telemetry>>
  BY DEF Prepare
<1> HIDE DEF fresh
<1>4. hasSnapshot => snapshot \in Snapshots(DOMAIN fresh)
  BY <1>2 DEF IInv, SnapshotTypes, hasSnapshot
<1>5. /\ DOMAIN set = DOMAIN chain
      /\ \A x \in DOMAIN set : DeviceInv(x, set[x])
      /\ hasSnapshot => ChainFollows(set, snapshot)
  BY <1>2, <1>4, ParametersKeep DEF ChainFollows
<1> HIDE DEF set
<1>6. /\ DOMAIN c = DOMAIN set
      /\ \A x \in DOMAIN set : DeviceInv(x, c[x]) /\ SameControls(set[x], c[x])
  BY <1>5, ChainResetKeeps
<1> HIDE DEF c
<1>7. hasSnapshot => ChainFollows(c, snapshot)
  BY <1>5, <1>6, ControlsFollow
<1> QED
  BY <1>3, <1>5, <1>6, <1>7, ChainChangeKeeps

\* A block takes the snapshot, runs the chain and keeps the invariant.
LEMMA ProcessBlockKeeps == IInv /\ ProcessBlock => IInv'
<1> SUFFICES ASSUME IInv, ProcessBlock PROVE IInv'
  OBVIOUS
<1> DEFINE now == IF published # None THEN published ELSE snapshot
<1> DEFINE set == IF published # None THEN ChainSetParameters(chain, published) ELSE chain
<1> DEFINE ready == IF published # None /\ ~hasSnapshot THEN ChainReset(set) ELSE set
<1> DEFINE processed == now.audible /\ ~now.instanceBypass
<1> DEFINE after == IF processed THEN ChainProcess(ready) ELSE ready
<1>1. /\ now # None /\ snapshot' = now /\ published' = None
      /\ chain' = after /\ telemetry' = Published(after, now, processed)
  BY DEF ProcessBlock
<1>2. \A x \in DOMAIN chain : DeviceInv(x, chain[x])
  BY DEF IInv, ChainInv
<1>3. now \in Snapshots(DOMAIN chain)
  BY <1>1 DEF IInv, SnapshotTypes
<1>4. processed \in BOOLEAN
  OBVIOUS
<1>5. /\ DOMAIN set = DOMAIN chain
      /\ \A x \in DOMAIN set : DeviceInv(x, set[x])
      /\ ChainFollows(set, now)
  <2>1. CASE published # None
    <3>1. published \in Snapshots(DOMAIN chain)
      BY <1>3, <2>1
    <3> QED
      BY <1>2, <2>1, <3>1, ParametersKeep DEF ChainFollows
  <2>2. CASE published = None
    BY <1>1, <1>2, <2>2 DEF IInv, hasSnapshot
  <2> QED
    BY <2>1, <2>2
<1> HIDE DEF now, set
<1>6. /\ DOMAIN ChainReset(set) = DOMAIN set
      /\ \A x \in DOMAIN set : /\ DeviceInv(x, ChainReset(set)[x])
                               /\ SameControls(set[x], ChainReset(set)[x])
  BY <1>5, ChainResetKeeps
<1>7. /\ DOMAIN ready = DOMAIN chain
      /\ \A x \in DOMAIN ready : DeviceInv(x, ready[x])
      /\ ChainFollows(ready, now)
  BY <1>5, <1>6, ControlsFollow
<1> HIDE DEF ready
<1>8. /\ DOMAIN ChainProcess(ready) = DOMAIN ready
      /\ \A x \in DOMAIN ready : /\ DeviceInv(x, ChainProcess(ready)[x])
                                 /\ SameControls(ready[x], ChainProcess(ready)[x])
  BY <1>7, ChainProcessKeeps
<1>9. /\ DOMAIN after = DOMAIN chain
      /\ \A x \in DOMAIN after : DeviceInv(x, after[x])
      /\ ChainFollows(after, now)
  BY <1>7, <1>8, ControlsFollow
<1>10. ReductionIsOfThisBlock'
  <2>1. DOMAIN ready = DOMAIN chain'
    BY <1>1, <1>7, <1>9
  <2> DEFINE t == telemetry'
  <2> DEFINE s == snapshot'
  <2>2. /\ t.processed = processed
        /\ "Compressor" \in DOMAIN ready =>
             IF processed /\ ~s.of["Compressor"].bypass
             THEN t.compressor = [model |-> s.of["Compressor"].algorithm, fresh |-> TRUE]
             ELSE t.compressor = NoReduction
        /\ "Output" \in DOMAIN ready =>
             IF processed /\ ~s.of["Output"].bypass
             THEN t.limiter = [model |-> "limiter", fresh |-> TRUE]
             ELSE t.limiter = NoReduction
    BY <1>1, <1>4, <1>7, BlockReports
  <2> QED
    BY <2>1, <2>2 DEF ReductionIsOfThisBlock
<1> HIDE DEF processed, after
<1>11. ChainInv'
  BY <1>1, <1>9 DEF ChainInv
<1>12. SnapshotTypes'
  BY <1>1, <1>3, <1>9 DEF SnapshotTypes
<1>13. (hasSnapshot => ChainFollows(chain, snapshot))'
  BY <1>1, <1>9 DEF hasSnapshot
<1> QED
  BY <1>10, <1>11, <1>12, <1>13 DEF IInv

\* The invariant holds of the runtime, whoever drives it.
THEOREM ChainIsInvariant == Init /\ [][Next]_vars => []IInv
<1>1. IInv /\ [Next]_vars => IInv'
  <2> SUFFICES ASSUME IInv, [Next]_vars PROVE IInv'
    OBVIOUS
  <2>1. CASE UNCHANGED vars
    BY <2>1 DEF vars, IInv, ChainInv, SnapshotTypes, hasSnapshot, ReductionIsOfThisBlock
  <2>2. CASE Publish
    BY <2>2, PublishKeeps
  <2>3. CASE Prepare
    BY <2>3, PrepareKeeps
  <2>4. CASE Reset
    BY <2>4, ResetKeeps
  <2>5. CASE ProcessBlock
    BY <2>5, ProcessBlockKeeps
  <2> QED
    BY <2>1, <2>2, <2>3, <2>4, <2>5 DEF Next
<1> QED
  BY <1>1, InitSatisfies, PTL

\* Whatever the host, the analyzer and the editors do, each of their steps is a
\* step of the runtime or none: the chain takes no notice of who looks at it.
THEOREM HostDrivesChain == HostSpec => Init /\ [][Next]_vars
<1>1. HostInit => Init
  BY DEF HostInit
<1>2. [HostNext]_hostAudioVars => [Next]_vars
  <2> SUFFICES ASSUME [HostNext]_hostAudioVars PROVE [Next]_vars
    OBVIOUS
  <2>1. CASE UNCHANGED hostAudioVars
    BY <2>1 DEF hostAudioVars
  <2>2. CASE PublishSnapshot
    BY <2>2 DEF PublishSnapshot, Next
  <2>3. CASE Host
    BY <2>3 DEF Host, PrepareToPlay, CreateCapture, ReleaseResources, ResetHost, BeginBlock, Next
  <2>4. CASE AudioThread
    BY <2>4 DEF AudioThread, TakeChunk, ReadSpace, CopyFrame, PublishWrite, RunChunk, audioFrame,
                Next
  <2>5. CASE Analyze
    BY <2>5 DEF Analyze, BeginRead, ReadFrame, EndRead, analysisFrame
  <2>6. CASE Control
    <3>1. CASE \E t \in {"worker", "message"} :
                 ReadView(t) \/ PrepareCapture(t) \/ ExchangeDemand(t) \/ RemoveCapture(t)
      BY <3>1 DEF ReadView, PrepareCapture, ExchangeDemand, RemoveCapture, settingFrame
    <3>2. CASE \E v \in Viewers : Activate(v) \/ Deactivate(v) \/ ChangeView(v) \/ Unregister(v)
      BY <3>2 DEF Activate, Deactivate, ChangeView, Unregister, controlFrame
    <3>3. CASE Turn \/ Detach \/ TopologyChanged
      BY <3>3 DEF Turn, Detach, TopologyChanged, controlFrame
    <3> QED
      BY <2>6, <3>1, <3>2, <3>3 DEF Control
  <2> QED
    BY <2>1, <2>2, <2>3, <2>4, <2>5, <2>6 DEF HostNext
<1> QED
  BY <1>1, <1>2, PTL DEF HostSpec

\* No part of the chain ever runs on top of a history from before a block it did
\* not hear, for any devices, models and lengths of the fades.
THEOREM NoHistoryIsStale == HostSpec => []NoStaleHistory
<1>1. IInv => NoStaleHistory
  BY DEF IInv, ChainInv, DeviceInv, Devices, NoStaleHistory
<1> QED
  BY <1>1, ChainIsInvariant, HostDrivesChain, PTL

\* The reductions given to the meters always belong to the block just processed
\* and to the model in force: a device that is not on its way out is heard.
THEOREM ReductionsAreOfTheBlock == HostSpec => []ReductionIsOfThisBlock
<1>1. IInv => ReductionIsOfThisBlock
  BY DEF IInv
<1> QED
  BY <1>1, ChainIsInvariant, HostDrivesChain, PTL

----------------------------------------------------------------------------
(* The capture.                                                              *)

Threads == {"worker", "message"}

Settings == [step : {"idle", "turn", "read", "prepare", "exchange", "remove", "detach", "topology"},
             new : BOOLEAN, then : {"idle", "turn", "detach", "topology"},
             viewer : Viewers \cup {Nobody}, locked : BOOLEAN, gated : BOOLEAN]

worker == setting["worker"]
message == setting["message"]

\* Whether the capture is wanted; every other thread's intent agrees with it.
Wanted == viewer # Nobody /\ viewer \in looks

Unsettled(s) == s.step \in {"read", "prepare", "exchange"}

CaptureTypes ==
    /\ setting \in [Threads -> Settings]
    /\ DOMAIN rings = 1..3 /\ \A n \in 1..3 : "of" \in DOMAIN rings[n]
    /\ capture \in 0..3 /\ demanded \in BOOLEAN /\ crossed \in BOOLEAN
    /\ {"step", "ring"} \subseteq DOMAIN audio
    /\ audio.step = "create" => audio.ring = 0

\* Where the control worker can be: under the gate.
WorkerInv ==
    /\ worker.step \in {"idle", "turn", "read", "prepare", "exchange", "remove"}
    /\ worker.then \in {"idle", "turn"}
    /\ worker.step = "idle" => worker = Idle
    /\ worker.step # "idle" => worker.gated
    /\ worker.step = "turn" => worker.locked /\ worker.viewer \notin gone
    /\ worker.then = "turn" => /\ worker.step \in {"exchange", "remove"}
                               /\ worker.locked /\ viewer = Nobody /\ worker.viewer \notin gone

\* And the message thread: under the lock, with nobody's view left, or the gate.
MessageInv ==
    /\ message.step # "turn" /\ message.then # "turn"
    /\ message.step = "idle" => message = Idle
    /\ message.step = "detach" => /\ ~message.gated /\ ~message.locked
                                  /\ message.viewer \in Viewers /\ message.then = "idle"
    /\ message.step \in {"topology", "read", "prepare"} =>
         message.gated /\ ~message.locked /\ message.then = "idle"
    /\ message.step \in {"exchange", "remove"} =>
         \/ /\ message.locked /\ ~message.gated /\ message.then = "detach"
            /\ message.viewer \in Viewers /\ ~message.new /\ viewer = Nobody
         \/ ~message.locked /\ message.gated /\ message.then \in {"idle", "topology"}

\* Lock and gate are one thread's.
ExclusionInv ==
    /\ ~(worker.gated /\ message.gated) /\ ~(worker.locked /\ message.locked)
    /\ audio.step = "create" => ~worker.gated /\ ~message.gated /\ ~message.locked /\ demanded

ViewerInv == gone \subseteq Viewers /\ viewer \notin gone

\* A thread that has looked at the view knows it still, and one that has emptied
\* the demand is right to.
IntentInv ==
    \A t \in Threads :
       /\ setting[t].step \in {"prepare", "exchange"} => (setting[t].new <=> Wanted)
       /\ setting[t].step = "remove" => ~setting[t].new /\ ~Wanted /\ ~demanded

DemandInv == ~Unsettled(worker) /\ ~Unsettled(message) => (demanded <=> Wanted)

RingOfSize == capture # 0 /\ rings[capture].of = preparation

RingInv ==
    /\ demanded /\ audio.step # "create" => RingOfSize
    /\ \A t \in Threads : setting[t].step = "exchange" /\ setting[t].new => RingOfSize
    /\ capture # 0 => \/ demanded
                      \/ \E t \in Threads : \/ setting[t].step = "remove"
                                            \/ setting[t].step = "exchange" /\ setting[t].new

Agreed == /\ WorkerInv /\ MessageInv /\ ExclusionInv /\ ViewerInv
          /\ IntentInv /\ DemandInv /\ RingInv

CaptureInv == CaptureTypes /\ (~crossed => Agreed)

\* At first nothing is captured and nobody looks.
LEMMA InitHasNoCapture == HostInit => CaptureInv
<1> SUFFICES ASSUME HostInit PROVE CaptureInv
  OBVIOUS
<1>1. Idle \in Settings
  BY DEF Idle, Settings
<1>2. setting = [t \in Threads |-> Idle]
  BY DEF HostInit, Threads
<1>3. /\ worker = Idle /\ message = Idle /\ Idle.step = "idle" /\ ~Idle.gated /\ ~Idle.locked
      /\ Idle.then = "idle"
  BY <1>2 DEF worker, message, Threads, Idle
<1>4. CaptureTypes
  <2>1. DOMAIN rings = 1..3 /\ \A n \in 1..3 : rings[n] = Blank
    BY DEF HostInit
  <2>2. "of" \in DOMAIN Blank /\ {"step", "ring"} \subseteq DOMAIN Between
        /\ Between.step = "between"
    BY DEF Blank, NewCapture, Between
  <2>3. setting \in [Threads -> Settings]
    BY <1>1, <1>2
  <2>4. audio = Between /\ capture = 0 /\ demanded = FALSE /\ crossed = FALSE
    BY DEF HostInit
  <2>5. capture \in 0..3
    BY <2>4
  <2>6. demanded \in BOOLEAN /\ crossed \in BOOLEAN
    BY <2>4
  <2> QED
    BY <2>1, <2>2, <2>3, <2>4, <2>5, <2>6 DEF CaptureTypes
<1>5. audio.step # "create" /\ ~demanded /\ capture = 0 /\ viewer = Nobody /\ gone = {}
  BY DEF HostInit, Between
<1>6. WorkerInv /\ MessageInv /\ ExclusionInv /\ ViewerInv
  BY <1>3, <1>5 DEF WorkerInv, MessageInv, ExclusionInv, ViewerInv
<1>7. IntentInv /\ DemandInv /\ RingInv
  <2>1. \A t \in Threads : setting[t].step = "idle"
    BY <1>2, <1>3
  <2>2. ~Wanted
    BY <1>5 DEF Wanted
  <2> QED
    BY <1>5, <2>1, <2>2 DEF IntentInv, DemandInv, RingInv
<1> QED
  BY <1>4, <1>6, <1>7 DEF CaptureInv, Agreed

\* The view, the demand and the threads that set it.
agreement == <<setting, viewer, looks, gone, demanded, capture, preparation, crossed>>

\* A step that is neither of them nor makes a capture keeps them in agreement.
LEMMA QuietKeeps ==
    ASSUME CaptureInv, UNCHANGED agreement,
           {"step", "ring"} \subseteq DOMAIN audio',
           audio'.step = "create" <=> audio.step = "create",
           audio'.step = "create" => audio'.ring = 0,
           DOMAIN rings' = 1..3, \A n \in 1..3 : "of" \in DOMAIN rings'[n],
           capture # 0 => rings'[capture].of = rings[capture].of
    PROVE  CaptureInv'
<1>1. CaptureTypes'
  BY DEF CaptureInv, CaptureTypes, agreement
<1>2. worker' = worker /\ message' = message /\ Wanted' = Wanted /\ crossed' = crossed
  BY DEF agreement, worker, message, Wanted
<1>3. ASSUME Agreed PROVE Agreed'
  <2>1. WorkerInv' /\ MessageInv' /\ ExclusionInv' /\ ViewerInv'
    BY <1>2, <1>3 DEF agreement, Agreed, WorkerInv, MessageInv, ExclusionInv, ViewerInv
  <2>2. RingOfSize' = RingOfSize
    BY DEF RingOfSize, agreement
  <2>3. IntentInv' /\ DemandInv' /\ RingInv'
    BY <1>2, <1>3, <2>2 DEF agreement, Agreed, IntentInv, DemandInv, RingInv, Unsettled
  <2> QED
    BY <2>1, <2>3 DEF Agreed
<1> QED
  BY <1>1, <1>2, <1>3 DEF CaptureInv

\* Chunks and windows are captured and read in a ring that stays where it is.
LEMMA QuietSteps ==
    ASSUME CaptureInv,
           \/ UNCHANGED hostAudioVars \/ PublishSnapshot \/ ReleaseResources \/ ResetHost
           \/ BeginBlock \/ AudioThread \/ Analyze
    PROVE  CaptureInv'
<1>0. /\ DOMAIN rings = 1..3 /\ \A n \in 1..3 : "of" \in DOMAIN rings[n]
      /\ capture \in 0..3 /\ {"step", "ring"} \subseteq DOMAIN audio
      /\ audio.step = "create" => audio.ring = 0
  BY DEF CaptureInv, CaptureTypes
<1> DEFINE kept == /\ DOMAIN rings' = 1..3 /\ \A n \in 1..3 : "of" \in DOMAIN rings'[n]
                   /\ capture # 0 => rings'[capture].of = rings[capture].of
<1>1. rings' = rings => kept
  BY <1>0
<1>2. ASSUME NEW used, rings' = Collected(rings, used), capture \in used PROVE kept
  <2>1. "of" \in DOMAIN Blank
    BY DEF Blank, NewCapture
  <2> QED
    BY <1>0, <1>2, <2>1 DEF Collected
<1>3. ASSUME NEW r, NEW c, rings' = [rings EXCEPT ![r] = c],
             r \in 1..3 => "of" \in DOMAIN c /\ c.of = rings[r].of
      PROVE  kept
  BY <1>0, <1>3
<1> HIDE DEF kept
<1>4. CASE UNCHANGED hostAudioVars
  BY <1>0, <1>1, <1>4, QuietKeeps
     DEF hostAudioVars, captureVars, viewVars, agreement, kept
<1>5. CASE PublishSnapshot \/ ReleaseResources \/ ResetHost \/ BeginBlock
  BY <1>0, <1>1, <1>5, QuietKeeps
     DEF PublishSnapshot, ReleaseResources, ResetHost, BeginBlock, captureVars, viewFrame,
         viewVars, agreement, kept
<1>6. CASE AudioThread
  <2>1. UNCHANGED agreement
    BY <1>6 DEF AudioThread, TakeChunk, ReadSpace, CopyFrame, PublishWrite, RunChunk,
                audioFrame, viewFrame, viewVars, agreement
  <2>2. /\ {"step", "ring"} \subseteq DOMAIN audio'
        /\ audio.step # "create" /\ audio'.step # "create"
    <3>1. CASE TakeChunk
      BY <1>0, <3>1 DEF TakeChunk
    <3>2. CASE ReadSpace
      BY <1>0, <3>2 DEF ReadSpace
    <3>3. CASE CopyFrame
      BY <1>0, <3>3 DEF CopyFrame
    <3>4. CASE PublishWrite
      BY <1>0, <3>4 DEF PublishWrite
    <3>5. CASE RunChunk
      BY <3>5 DEF RunChunk, Between
    <3> QED
      BY <1>6, <3>1, <3>2, <3>3, <3>4, <3>5 DEF AudioThread
  <2>3. CASE TakeChunk
    <3> DEFINE c == [rings[capture] EXCEPT !.gap = TRUE]
    <3>1. rings' = rings \/ rings' = [rings EXCEPT ![capture] = c]
      BY <2>3 DEF TakeChunk
    <3>2. capture \in 1..3 => "of" \in DOMAIN c /\ c.of = rings[capture].of
      BY <1>0
    <3> HIDE DEF c
    <3>3. kept
      BY <1>1, <1>3, <3>1, <3>2
    <3> QED
      BY <2>1, <2>2, <3>3, QuietKeeps DEF kept
  <2>7. CASE ReadSpace
    BY <1>1, <2>1, <2>2, <2>7, QuietKeeps DEF ReadSpace, kept
  <2>4. CASE CopyFrame
    <3> DEFINE r == audio.ring
    <3> DEFINE fits == RingIndex(rings[r].write, audio.written) \in Indices
    <3> DEFINE c == IF fits THEN Put(rings[r], audio.written, sound + audio.written + 1)
                    ELSE [rings[r] EXCEPT !.gap = TRUE]
    <3>1. rings' = [rings EXCEPT ![r] = c]
      BY <2>4 DEF CopyFrame
    <3>2. r \in 1..3 => "of" \in DOMAIN c /\ c.of = rings[r].of
      BY <1>0 DEF Put
    <3> QED
      BY <1>3, <2>1, <2>2, <3>1, <3>2, QuietKeeps DEF kept
  <2>5. CASE PublishWrite
    <3> DEFINE r == audio.ring
    <3>1. PICK gap : rings' = [rings EXCEPT ![r] =
                                 [PublishFrames(rings[r], audio.writable) EXCEPT !.gap = gap]]
      BY <2>5 DEF PublishWrite
    <3> DEFINE c == [PublishFrames(rings[r], audio.writable) EXCEPT !.gap = gap]
    <3>2. r \in 1..3 => "of" \in DOMAIN c /\ c.of = rings[r].of
      BY <1>0 DEF PublishFrames
    <3> QED
      BY <1>3, <2>1, <2>2, <3>1, <3>2, QuietKeeps DEF kept
  <2>6. CASE RunChunk
    <3>1. rings' = Collected(rings, {capture, analysis.ring})
      BY <2>6 DEF RunChunk
    <3> QED
      BY <1>2, <2>1, <2>2, <3>1, QuietKeeps DEF kept
  <2> QED
    BY <1>6, <2>3, <2>4, <2>5, <2>6, <2>7 DEF AudioThread
<1>7. CASE Analyze
  <2>1. UNCHANGED agreement /\ audio' = audio
    BY <1>7 DEF Analyze, BeginRead, ReadFrame, EndRead, analysisFrame, viewVars, agreement
  <2>2. CASE BeginRead
    <3>1. rings' = [rings EXCEPT ![capture] = [rings[capture] EXCEPT !.gap = FALSE]]
      BY <2>2 DEF BeginRead
    <3>2. capture \in 1..3 =>
            LET c == [rings[capture] EXCEPT !.gap = FALSE]
            IN  "of" \in DOMAIN c /\ c.of = rings[capture].of
      BY <1>0
    <3> QED
      BY <1>0, <1>3, <2>1, <3>1, <3>2, QuietKeeps DEF kept
  <2>3. CASE ReadFrame
    BY <1>0, <1>1, <2>1, <2>3, QuietKeeps DEF ReadFrame, kept
  <2>4. CASE EndRead
    <3> DEFINE r == analysis.ring
    <3> DEFINE c == Discard(rings[r], analysis.write)
    <3> DEFINE all == [rings EXCEPT ![r] = c]
    <3>1. rings' = Collected(all, {capture, audio.ring})
      BY <2>4 DEF EndRead
    <3>2. r \in 1..3 => "of" \in DOMAIN c /\ c.of = rings[r].of
      BY <1>0 DEF Discard
    <3>3. "of" \in DOMAIN Blank
      BY DEF Blank, NewCapture
    <3> HIDE DEF c
    <3>4. kept
      BY <1>0, <3>1, <3>2, <3>3 DEF Collected, kept
    <3> QED
      BY <1>0, <2>1, <3>4, QuietKeeps DEF kept
  <2> QED
    BY <1>7, <2>2, <2>3, <2>4 DEF Analyze
<1> QED
  BY <1>4, <1>5, <1>6, <1>7

\* The host prepares while no thread is at the demand; a capture of another size
\* is made before the gate is free again.
LEMMA PrepareToPlayKeeps == CaptureInv /\ PrepareToPlay => CaptureInv'
<1> SUFFICES ASSUME CaptureInv, PrepareToPlay PROVE CaptureInv'
  OBVIOUS
<1>1. PICK n : /\ GateFree
               /\ preparation' = n
               /\ audio' = [Between EXCEPT !.step = IF n # preparation /\ demanded
                                                    THEN "create" ELSE @]
               /\ crossed' = (crossed \/ ((n # preparation /\ demanded) /\ Ungated))
               /\ UNCHANGED <<rings, capture, demanded, analysis, viewVars, setting>>
  BY DEF PrepareToPlay, captureVars
<1>2. /\ {"step", "ring"} \subseteq DOMAIN audio' /\ audio'.ring = 0
      /\ audio'.step = "create" <=> n # preparation /\ demanded
  BY <1>1 DEF Between
<1>3. crossed' \in BOOLEAN
  BY <1>1 DEF CaptureInv, CaptureTypes
<1>4. CaptureTypes'
  BY <1>1, <1>2, <1>3 DEF CaptureInv, CaptureTypes
<1>5. ASSUME ~crossed' PROVE Agreed'
  <2>1. Agreed /\ ~worker.gated /\ ~message.gated /\ audio.step # "create"
    BY <1>1, <1>5 DEF CaptureInv, GateFree, worker, message
  <2>2. /\ UNCHANGED <<worker, message, Wanted, setting, viewer, gone, demanded, capture, rings>>
    BY <1>1 DEF worker, message, Wanted, viewVars
  <2>3. audio'.step = "create" => ~message.locked
    BY <1>1, <1>2, <1>5 DEF Ungated, message
  <2>4. WorkerInv' /\ MessageInv' /\ ViewerInv'
    BY <2>1, <2>2 DEF Agreed, WorkerInv, MessageInv, ViewerInv
  <2>5. ExclusionInv'
    BY <1>2, <2>1, <2>2, <2>3 DEF Agreed, ExclusionInv
  <2>6. IntentInv' /\ DemandInv'
    BY <2>1, <2>2 DEF Agreed, IntentInv, DemandInv, Unsettled
  <2>7. \A t \in Threads : ~(setting[t].step = "exchange" /\ setting[t].new)
    <3>1. ~(worker.step = "exchange" /\ worker.new)
      BY <2>1 DEF Agreed, WorkerInv
    <3>2. ~(message.step = "exchange" /\ message.new)
      BY <2>1 DEF Agreed, MessageInv
    <3> QED
      BY <3>1, <3>2 DEF Threads, worker, message
  <2>8. RingInv'
    BY <1>1, <1>2, <2>1, <2>2, <2>7 DEF Agreed, RingInv, RingOfSize
  <2> QED
    BY <2>4, <2>5, <2>6, <2>8 DEF Agreed
<1> QED
  BY <1>4, <1>5 DEF CaptureInv

\* There is room for a new capture beside two others.
LEMMA RoomForCapture ==
    ASSUME capture = 0 \/ audio.ring = 0
    PROVE  Free \in 1..3 /\ Free \notin {capture, audio.ring, analysis.ring}
<1>1. \E n \in 1..3 : n \notin {capture, audio.ring, analysis.ring}
  <2>1. \A a, b : \E n \in 1..3 : n \notin {0, a, b}
    <3> TAKE a, b
    <3>1. 1 \in 1..3 /\ 2 \in 1..3 /\ 3 \in 1..3
      OBVIOUS
    <3>2. 1 \notin {0, a, b} \/ 2 \notin {0, a, b} \/ 3 \notin {0, a, b}
      OBVIOUS
    <3> QED
      BY <3>1, <3>2
  <2> QED
    BY <2>1
<1> QED
  BY <1>1 DEF Free

\* A ring made by a preparation replaces the one in use.
LEMMA CreateCaptureKeeps == CaptureInv /\ CreateCapture => CaptureInv'
<1> SUFFICES ASSUME CaptureInv, CreateCapture PROVE CaptureInv'
  OBVIOUS
<1>1. /\ audio.step = "create" /\ capture' = Free /\ audio' = Between
      /\ rings' = Collected([rings EXCEPT ![Free] = NewCapture(preparation)],
                            {Free, analysis.ring})
      /\ UNCHANGED <<preparation, viewFrame>>
  BY DEF CreateCapture
<1>2. Free \in 1..3
  BY <1>1, RoomForCapture DEF CaptureInv, CaptureTypes
<1>3. /\ "of" \in DOMAIN NewCapture(preparation) /\ NewCapture(preparation).of = preparation
      /\ "of" \in DOMAIN Blank
  BY DEF NewCapture, Blank
<1>4. /\ DOMAIN rings' = 1..3 /\ \A n \in 1..3 : "of" \in DOMAIN rings'[n]
      /\ rings'[Free].of = preparation
  BY <1>1, <1>2, <1>3 DEF CaptureInv, CaptureTypes, Collected
<1>5. {"step", "ring"} \subseteq DOMAIN audio' /\ audio'.step = "between"
  BY <1>1 DEF Between
<1>6. UNCHANGED <<worker, message, Wanted, setting, viewer, gone, demanded, crossed>>
  BY <1>1 DEF worker, message, Wanted, viewFrame, viewVars
<1>7. CaptureTypes'
  <2>1. capture' \in 0..3
    BY <1>1, <1>2
  <2> QED
    BY <1>4, <1>5, <1>6, <2>1 DEF CaptureInv, CaptureTypes
<1>8. ASSUME ~crossed' PROVE Agreed'
  <2>1. Agreed
    BY <1>6, <1>8 DEF CaptureInv
  <2>2. WorkerInv' /\ MessageInv' /\ ViewerInv' /\ ExclusionInv'
    BY <1>5, <1>6, <2>1 DEF Agreed, WorkerInv, MessageInv, ViewerInv, ExclusionInv
  <2>3. IntentInv' /\ DemandInv'
    BY <1>6, <2>1 DEF Agreed, IntentInv, DemandInv, Unsettled
  <2>4. RingOfSize' /\ demanded'
    <3>1. Free # 0
      BY <1>2
    <3> QED
      BY <1>1, <1>4, <1>6, <2>1, <3>1 DEF RingOfSize, Agreed, ExclusionInv
  <2> QED
    BY <2>1, <2>2, <2>3, <2>4 DEF Agreed, RingInv
<1> QED
  BY <1>7, <1>8 DEF CaptureInv

\* A thread that is not at the demand.
LEMMA IdleFields ==
    /\ Idle \in Settings /\ Idle.step = "idle" /\ Idle.then = "idle" /\ Idle.viewer = Nobody
    /\ ~Idle.new /\ ~Idle.locked /\ ~Idle.gated
  BY DEF Idle, Settings

\* One thread goes on.
LEMMA ThreadSteps ==
    ASSUME CaptureTypes, NEW t \in Threads, NEW s \in Settings,
           setting' = [setting EXCEPT ![t] = s]
    PROVE  /\ setting' \in [Threads -> Settings]
           /\ setting'[t] = s /\ \A u \in Threads \ {t} : setting'[u] = setting[u]
           /\ t = "worker" => worker' = s /\ message' = message
           /\ t = "message" => message' = s /\ worker' = worker
  BY DEF CaptureTypes, Threads, worker, message

\* Looking at the active viewer and its view keeps the agreement of the capture.
LEMMA ReadViewKeeps == ASSUME CaptureInv, NEW t \in Threads, ReadView(t) PROVE CaptureInv'
<1> DEFINE r == setting[t]
<1> DEFINE s == [r EXCEPT !.step = "prepare", !.new = Wanted]
<1>1. r \in Settings /\ r.step = "read"
  BY DEF CaptureInv, CaptureTypes, ReadView
<1>2. Wanted \in BOOLEAN
  BY DEF Wanted
<1>3. /\ s \in Settings /\ s.step = "prepare" /\ s.then = r.then /\ s.viewer = r.viewer
      /\ s.locked = r.locked /\ s.gated = r.gated /\ (s.new <=> Wanted)
  BY <1>1, <1>2 DEF Settings
<1>4. /\ setting' = [setting EXCEPT ![t] = s]
      /\ UNCHANGED <<audio, rings, capture, demanded, viewer, looks, gone, preparation, crossed>>
  BY <1>1 DEF ReadView, settingFrame, captureVars, Wanted
<1> HIDE DEF s
<1>5. /\ setting' \in [Threads -> Settings]
      /\ setting'[t] = s /\ \A u \in Threads \ {t} : setting'[u] = setting[u]
      /\ t = "worker" => r = worker /\ worker' = s /\ message' = message
      /\ t = "message" => r = message /\ message' = s /\ worker' = worker
  BY <1>3, <1>4, ThreadSteps DEF CaptureInv, worker, message
<1>6. CaptureTypes'
  BY <1>4, <1>5 DEF CaptureInv, CaptureTypes
<1>7. ASSUME ~crossed' PROVE Agreed'
  <2>1. Agreed /\ (t = "worker" \/ t = "message")
    BY <1>4, <1>7 DEF CaptureInv, Threads
  <2>2. Wanted' = Wanted
    BY <1>4 DEF Wanted
  <2>3. WorkerInv' /\ MessageInv'
    BY <1>1, <1>3, <1>4, <1>5, <2>1 DEF Agreed, WorkerInv, MessageInv
  <2>4. ViewerInv' /\ ExclusionInv'
    BY <1>3, <1>4, <1>5, <2>1 DEF Agreed, ViewerInv, ExclusionInv
  <2>5. IntentInv' /\ DemandInv'
    BY <1>1, <1>3, <1>4, <1>5, <2>1, <2>2 DEF Agreed, IntentInv, DemandInv, Unsettled
  <2>6. RingInv'
    BY <1>1, <1>3, <1>4, <1>5, <2>1 DEF Agreed, RingInv, RingOfSize
  <2> QED
    BY <2>3, <2>4, <2>5, <2>6 DEF Agreed
<1> QED
  BY <1>6, <1>7 DEF CaptureInv

\* So does making the ring it wants,
LEMMA PrepareCaptureKeeps ==
    ASSUME CaptureInv, NEW t \in Threads, PrepareCapture(t)
    PROVE  CaptureInv'
<1> DEFINE r == setting[t]
<1> DEFINE s == [r EXCEPT !.step = "exchange"]
<1> DEFINE made == r.new /\ capture = 0
<1>1. r \in Settings /\ r.step = "prepare"
  BY DEF CaptureInv, CaptureTypes, PrepareCapture
<1>2. /\ s \in Settings /\ s.step = "exchange" /\ s.then = r.then /\ s.viewer = r.viewer
      /\ s.locked = r.locked /\ s.gated = r.gated /\ s.new = r.new
  BY <1>1 DEF Settings
<1>3. /\ setting' = [setting EXCEPT ![t] = s]
      /\ UNCHANGED <<audio, demanded, viewer, looks, gone, preparation, crossed>>
      /\ capture' = IF made THEN Free ELSE capture
      /\ rings' = IF made THEN [rings EXCEPT ![Free] = NewCapture(preparation)] ELSE rings
  BY <1>1 DEF PrepareCapture, settingFrame
<1>4. made => /\ Free \in 1..3 /\ Free # 0 /\ Free \in 0..3
              /\ "of" \in DOMAIN NewCapture(preparation)
              /\ NewCapture(preparation).of = preparation
  <2>1. made => Free \in 1..3
    BY RoomForCapture
  <2> QED
    BY <2>1 DEF NewCapture
<1> HIDE DEF s
<1>5. /\ setting' \in [Threads -> Settings]
      /\ setting'[t] = s /\ \A u \in Threads \ {t} : setting'[u] = setting[u]
      /\ t = "worker" => r = worker /\ worker' = s /\ message' = message
      /\ t = "message" => r = message /\ message' = s /\ worker' = worker
  BY <1>2, <1>3, ThreadSteps DEF CaptureInv, worker, message
<1>6. CaptureTypes'
  <2>1. /\ DOMAIN rings = 1..3 /\ \A n \in 1..3 : "of" \in DOMAIN rings[n]
        /\ capture \in 0..3
    BY DEF CaptureInv, CaptureTypes
  <2>2. CASE made
    BY <1>3, <1>4, <1>5, <2>1, <2>2 DEF CaptureInv, CaptureTypes
  <2>3. CASE ~made
    BY <1>3, <1>5, <2>3 DEF CaptureInv, CaptureTypes
  <2> QED
    BY <2>2, <2>3
<1>7. ASSUME ~crossed' PROVE Agreed'
  <2>1. Agreed /\ (t = "worker" \/ t = "message")
    BY <1>3, <1>7 DEF CaptureInv, Threads
  <2>2. Wanted' = Wanted
    BY <1>3 DEF Wanted
  <2>3. WorkerInv' /\ MessageInv'
    BY <1>1, <1>2, <1>3, <1>5, <2>1 DEF Agreed, WorkerInv, MessageInv
  <2>4. ViewerInv' /\ ExclusionInv'
    BY <1>2, <1>3, <1>5, <2>1 DEF Agreed, ViewerInv, ExclusionInv
  <2>5. IntentInv' /\ DemandInv'
    BY <1>1, <1>2, <1>3, <1>5, <2>1, <2>2 DEF Agreed, IntentInv, DemandInv, Unsettled
  <2>6. audio.step # "create"
    BY <1>1, <1>5, <2>1 DEF Agreed, WorkerInv, MessageInv, ExclusionInv
  <2>7. CASE made
    <3>1. RingOfSize'
      BY <1>3, <1>4, <2>7 DEF RingOfSize, CaptureInv, CaptureTypes
    <3>2. s.step = "exchange" /\ s.new
      BY <1>2, <2>7
    <3>3. RingInv'
      BY <1>5, <3>1, <3>2 DEF RingInv
    <3> QED
      BY <2>3, <2>4, <2>5, <3>3 DEF Agreed
  <2>8. CASE ~made
    <3>1. RingOfSize' = RingOfSize
      BY <1>3, <2>8 DEF RingOfSize
    <3>2. ASSUME r.new PROVE RingOfSize
      <4>1. Wanted /\ capture # 0
        BY <1>1, <2>1, <2>8, <3>2 DEF Agreed, IntentInv
      <4>2. \A u \in Threads : setting[u].step # "remove"
        BY <2>1, <4>1 DEF Agreed, IntentInv
      <4> QED
        BY <2>1, <2>6, <4>1, <4>2 DEF Agreed, RingInv
    <3>3. RingInv'
      BY <1>1, <1>2, <1>3, <1>5, <2>1, <2>8, <3>1, <3>2 DEF Agreed, RingInv
    <3> QED
      BY <2>3, <2>4, <2>5, <3>3 DEF Agreed
  <2> QED
    BY <2>7, <2>8
<1> QED
  BY <1>6, <1>7 DEF CaptureInv

\* What a thread goes on with it holds no more than before for.
LEMMA AfterFields ==
    ASSUME NEW r \in Settings
    PROVE  LET a == After(r)
           IN  /\ a \in Settings /\ a.step = r.then /\ a.then = "idle"
               /\ (a.gated => r.gated) /\ (a.locked => r.locked)
               /\ r.then = "idle" => a = Idle
               /\ r.then = "detach" => a.viewer = r.viewer /\ ~a.gated /\ ~a.locked
               /\ r.then \in {"turn", "topology"} =>
                    a.viewer = r.viewer /\ a.gated = r.gated /\ a.locked = r.locked
<1>1. CASE r.then = "idle"
  BY <1>1, IdleFields DEF After
<1>2. CASE r.then = "detach"
  <2> DEFINE a == [Idle EXCEPT !.step = "detach", !.viewer = r.viewer]
  <2>1. After(r) = a
    BY <1>2 DEF After
  <2>2. /\ a \in Settings /\ a.step = "detach" /\ a.then = "idle" /\ a.viewer = r.viewer
        /\ ~a.gated /\ ~a.locked
    BY IdleFields DEF Settings
  <2> QED
    BY <1>2, <2>1, <2>2
<1>3. CASE r.then \in {"turn", "topology"}
  <2> DEFINE a == [r EXCEPT !.step = r.then, !.then = "idle"]
  <2>1. After(r) = a
    BY <1>3 DEF After
  <2>2. /\ a \in Settings /\ a.step = r.then /\ a.then = "idle" /\ a.viewer = r.viewer
        /\ a.gated = r.gated /\ a.locked = r.locked
    BY DEF Settings
  <2> QED
    BY <1>3, <2>1, <2>2
<1> QED
  BY <1>1, <1>2, <1>3 DEF Settings

\* exchanging the demand,
LEMMA ExchangeDemandKeeps ==
    ASSUME CaptureInv, NEW t \in Threads, ExchangeDemand(t)
    PROVE  CaptureInv'
<1> DEFINE r == setting[t]
<1> DEFINE removes == demanded /\ ~r.new
<1> DEFINE s == IF removes THEN [r EXCEPT !.step = "remove"] ELSE After(r)
<1>1. r \in Settings /\ r.step = "exchange" /\ r.new \in BOOLEAN
  BY DEF CaptureInv, CaptureTypes, ExchangeDemand, Settings
<1>2. /\ s \in Settings /\ (s.gated => r.gated) /\ (s.locked => r.locked)
      /\ removes => /\ s.step = "remove" /\ s.then = r.then /\ s.viewer = r.viewer
                    /\ s.gated = r.gated /\ s.locked = r.locked /\ s.new = r.new
  <2>1. CASE removes
    BY <1>1, <2>1 DEF Settings
  <2>2. CASE ~removes
    BY <1>1, <2>2, AfterFields
  <2> QED
    BY <2>1, <2>2
<1>3. ~removes => s = After(r)
  OBVIOUS
<1>4. /\ setting' = [setting EXCEPT ![t] = s]
      /\ UNCHANGED <<audio, rings, capture, viewer, looks, gone, preparation, crossed>>
      /\ demanded' = r.new
  BY <1>1 DEF ExchangeDemand, settingFrame, captureVars
<1> HIDE DEF s
<1>5. /\ setting' \in [Threads -> Settings]
      /\ setting'[t] = s /\ \A u \in Threads \ {t} : setting'[u] = setting[u]
      /\ t = "worker" => r = worker /\ worker' = s /\ message' = message
      /\ t = "message" => r = message /\ message' = s /\ worker' = worker
  BY <1>2, <1>4, ThreadSteps DEF CaptureInv, worker, message
<1>6. CaptureTypes'
  BY <1>1, <1>4, <1>5 DEF CaptureInv, CaptureTypes
<1>7. ASSUME ~crossed' PROVE Agreed'
  <2>1. Agreed /\ (t = "worker" \/ t = "message")
    BY <1>4, <1>7 DEF CaptureInv, Threads
  <2>2. Wanted' = Wanted /\ (r.new <=> Wanted)
    BY <1>1, <1>4, <2>1 DEF Wanted, Agreed, IntentInv
  <2>3. ~removes => /\ s.step = r.then /\ s.then = "idle"
                    /\ r.then = "idle" => s = Idle
                    /\ r.then = "detach" => s.viewer = r.viewer /\ ~s.gated /\ ~s.locked
                    /\ r.then \in {"turn", "topology"} =>
                         s.viewer = r.viewer /\ s.gated = r.gated /\ s.locked = r.locked
    BY <1>1, <1>3, AfterFields
  <2>4. WorkerInv'
    BY <1>1, <1>2, <1>4, <1>5, <2>1, <2>3, IdleFields DEF Agreed, WorkerInv
  <2>5. MessageInv'
    BY <1>1, <1>2, <1>4, <1>5, <2>1, <2>3, IdleFields DEF Agreed, MessageInv
  <2>6. audio.step = "create" => r = message /\ ~r.gated
    BY <1>1, <1>5, <2>1 DEF Agreed, WorkerInv, ExclusionInv
  <2>7. audio.step # "create"
    BY <1>1, <1>5, <2>1, <2>6 DEF Agreed, MessageInv, ExclusionInv
  <2>8. ViewerInv' /\ ExclusionInv'
    BY <1>2, <1>4, <1>5, <2>1, <2>7 DEF Agreed, ViewerInv, ExclusionInv
  <2>9. IntentInv'
    <3>1. ~removes => s.step \notin {"prepare", "exchange", "remove"}
      BY <1>1, <2>3 DEF Settings
    <3> QED
      BY <1>2, <1>4, <1>5, <2>1, <2>2, <3>1 DEF Agreed, IntentInv
  <2>10. DemandInv'
    BY <1>4, <2>2 DEF DemandInv
  <2>11. RingInv'
    <3>1. RingOfSize' = RingOfSize
      BY <1>4 DEF RingOfSize
    <3>2. r.new => RingOfSize
      BY <1>1, <2>1 DEF Agreed, RingInv
    <3>3. s.step # "exchange"
      BY <1>1, <1>2, <2>3 DEF Settings
    <3>4. \A u \in Threads : setting'[u].step = "exchange" /\ setting'[u].new => RingOfSize'
      BY <1>5, <2>1, <3>1, <3>3 DEF Agreed, RingInv
    <3>5. capture # 0 => \/ r.new
                         \/ \E u \in Threads : setting'[u].step = "remove"
      <4>1. CASE demanded
        BY <1>2, <1>5, <4>1
      <4>2. CASE ~demanded /\ ~r.new
        <5>1. capture # 0 => \E u \in Threads : setting[u].step = "remove"
          BY <2>1, <2>2, <4>2 DEF Agreed, RingInv, IntentInv
        <5> QED
          BY <1>1, <1>5, <5>1
      <4> QED
        BY <4>1, <4>2
    <3> QED
      BY <1>4, <3>1, <3>2, <3>4, <3>5 DEF RingInv
  <2> QED
    BY <2>4, <2>5, <2>8, <2>9, <2>10, <2>11 DEF Agreed
<1> QED
  BY <1>6, <1>7 DEF CaptureInv

\* and dropping a ring nobody wants.
LEMMA RemoveCaptureKeeps ==
    ASSUME CaptureInv, NEW t \in Threads, RemoveCapture(t)
    PROVE  CaptureInv'
<1> DEFINE r == setting[t]
<1> DEFINE s == After(r)
<1>1. r \in Settings /\ r.step = "remove"
  BY DEF CaptureInv, CaptureTypes, RemoveCapture
<1>2. /\ s \in Settings /\ (s.gated => r.gated) /\ (s.locked => r.locked)
      /\ s.step = r.then /\ s.then = "idle"
      /\ r.then = "idle" => s = Idle
      /\ r.then = "detach" => s.viewer = r.viewer /\ ~s.gated /\ ~s.locked
      /\ r.then \in {"turn", "topology"} =>
           s.viewer = r.viewer /\ s.gated = r.gated /\ s.locked = r.locked
  BY <1>1, AfterFields
<1>3. /\ setting' = [setting EXCEPT ![t] = s]
      /\ UNCHANGED <<audio, demanded, viewer, looks, gone, preparation, crossed>>
      /\ capture' = 0 /\ rings' = Collected(rings, {audio.ring, analysis.ring})
  BY <1>1 DEF RemoveCapture, settingFrame
<1> HIDE DEF s
<1>4. /\ setting' \in [Threads -> Settings]
      /\ setting'[t] = s /\ \A u \in Threads \ {t} : setting'[u] = setting[u]
      /\ t = "worker" => r = worker /\ worker' = s /\ message' = message
      /\ t = "message" => r = message /\ message' = s /\ worker' = worker
  BY <1>2, <1>3, ThreadSteps DEF CaptureInv, worker, message
<1>5. CaptureTypes'
  <2>1. "of" \in DOMAIN Blank
    BY DEF Blank, NewCapture
  <2>2. DOMAIN rings' = 1..3 /\ \A n \in 1..3 : "of" \in DOMAIN rings'[n]
    BY <1>3, <2>1 DEF CaptureInv, CaptureTypes, Collected
  <2>3. capture' \in 0..3
    BY <1>3
  <2> QED
    BY <1>3, <1>4, <2>2, <2>3 DEF CaptureInv, CaptureTypes
<1>6. ASSUME ~crossed' PROVE Agreed'
  <2>1. Agreed /\ (t = "worker" \/ t = "message")
    BY <1>3, <1>6 DEF CaptureInv, Threads
  <2>2. Wanted' = Wanted /\ ~Wanted /\ ~demanded
    BY <1>1, <1>3, <2>1 DEF Wanted, Agreed, IntentInv
  <2>3. WorkerInv'
    BY <1>1, <1>2, <1>3, <1>4, <2>1, IdleFields DEF Agreed, WorkerInv
  <2>4. MessageInv'
    BY <1>1, <1>2, <1>3, <1>4, <2>1, IdleFields DEF Agreed, MessageInv
  <2>5. audio.step # "create"
    BY <2>1, <2>2 DEF Agreed, ExclusionInv
  <2>6. ViewerInv' /\ ExclusionInv'
    BY <1>2, <1>3, <1>4, <2>1, <2>5 DEF Agreed, ViewerInv, ExclusionInv
  <2>7. s.step \notin {"read", "prepare", "exchange", "remove"}
    BY <1>1, <1>2 DEF Settings
  <2>8. IntentInv'
    BY <1>3, <1>4, <2>1, <2>2, <2>7 DEF Agreed, IntentInv
  <2>9. DemandInv'
    BY <1>3, <2>2 DEF DemandInv
  <2>10. \A u \in Threads : ~(setting'[u].step = "exchange" /\ setting'[u].new)
    BY <2>2, <2>8 DEF IntentInv
  <2>11. RingInv'
    BY <1>3, <2>2, <2>10 DEF RingInv
  <2> QED
    BY <2>3, <2>4, <2>6, <2>8, <2>9, <2>11 DEF Agreed
<1> QED
  BY <1>5, <1>6 DEF CaptureInv

\* What a thread keeps that is not about the ring is enough when it is not at it.
LEMMA ControlKeeps ==
    ASSUME CaptureInv, NEW t \in Threads, NEW s \in Settings,
           setting' = [setting EXCEPT ![t] = s],
           UNCHANGED <<audio, rings, capture, demanded, preparation>>,
           crossed => crossed', crossed' \in BOOLEAN,
           setting[t].step \notin {"exchange", "remove"},
           s.step # "exchange" \/ ~s.new,
           Agreed /\ ~crossed' => /\ WorkerInv' /\ MessageInv' /\ ExclusionInv'
                                 /\ ViewerInv' /\ IntentInv' /\ DemandInv'
    PROVE  CaptureInv'
<1>1. /\ setting' \in [Threads -> Settings]
      /\ setting'[t] = s /\ \A u \in Threads \ {t} : setting'[u] = setting[u]
  BY ThreadSteps DEF CaptureInv
<1>2. CaptureTypes'
  BY <1>1 DEF CaptureInv, CaptureTypes
<1>3. ASSUME ~crossed' PROVE Agreed'
  <2>1. Agreed
    BY <1>3 DEF CaptureInv
  <2>2. RingOfSize' = RingOfSize
    BY DEF RingOfSize
  <2>3. RingInv'
    BY <1>1, <2>1, <2>2 DEF Agreed, RingInv
  <2> QED
    BY <1>3, <2>1, <2>3 DEF Agreed
<1> QED
  BY <1>2, <1>3 DEF CaptureInv

\* What the worker begins with, under the gate and under the lock as well.
LEMMA WorkerFields ==
    ASSUME NEW v \in Viewers
    PROVE  /\ Worker(v) \in Settings /\ Worker(v).step = "idle" /\ Worker(v).then = "idle"
           /\ Worker(v).viewer = v /\ Worker(v).gated /\ ~Worker(v).locked /\ ~Worker(v).new
           /\ LET b == [Worker(v) EXCEPT !.locked = TRUE]
              IN  /\ b \in Settings /\ b.then = "idle" /\ b.viewer = v
                  /\ b.gated /\ b.locked /\ ~b.new
<1> DEFINE d == Worker(v)
<1> DEFINE b == [d EXCEPT !.locked = TRUE]
<1>1. /\ d \in Settings /\ d.step = "idle" /\ d.then = "idle" /\ d.viewer = v
      /\ d.gated /\ ~d.locked /\ ~d.new
  BY IdleFields DEF Worker, Settings
<1> HIDE DEF d
<1>2. b \in Settings /\ b.then = "idle" /\ b.viewer = v /\ b.gated /\ b.locked /\ ~b.new
  BY <1>1 DEF Settings
<1> QED
  BY <1>1, <1>2 DEF d

\* A thread that goes on to withdraw the demand.
LEMMA EmptyFields ==
    ASSUME NEW d \in Settings
    PROVE  /\ Empty(d) \in Settings /\ Empty(d).step = "exchange" /\ ~Empty(d).new
           /\ Empty(d).then = d.then /\ Empty(d).viewer = d.viewer
           /\ Empty(d).gated = d.gated /\ Empty(d).locked = d.locked
  BY DEF Empty, Settings

\* An editor that becomes active makes the worker look again.
LEMMA ActivateKeeps == ASSUME CaptureInv, NEW v \in Viewers, Activate(v) PROVE CaptureInv'
<1> DEFINE gives == active \notin {Nobody, v} /\ viewer = active
<1> DEFINE b == [Worker(v) EXCEPT !.locked = TRUE]
<1> DEFINE s == IF gives THEN [Empty(b) EXCEPT !.then = "turn"] ELSE [b EXCEPT !.step = "turn"]
<1>1. /\ s \in Settings /\ s.viewer = v /\ s.gated /\ s.locked /\ ~s.new
      /\ s.step = IF gives THEN "exchange" ELSE "turn"
      /\ s.then = IF gives THEN "turn" ELSE "idle"
  <2>1. /\ b \in Settings /\ b.viewer = v /\ b.gated /\ b.locked /\ ~b.new /\ b.then = "idle"
    BY WorkerFields
  <2> HIDE DEF b
  <2>2. CASE gives
    <3> DEFINE e == Empty(b)
    <3>1. /\ e \in Settings /\ e.viewer = v /\ e.gated /\ e.locked /\ ~e.new
          /\ e.step = "exchange"
      BY <2>1, EmptyFields
    <3>2. s = [e EXCEPT !.then = "turn"]
      BY <2>2
    <3> HIDE DEF e
    <3> QED
      BY <2>2, <3>1, <3>2 DEF Settings
  <2>3. CASE ~gives
    <3>1. s = [b EXCEPT !.step = "turn"]
      BY <2>3
    <3> QED
      BY <2>1, <2>3, <3>1 DEF Settings
  <2> QED
    BY <2>2, <2>3
<1>2. s = IF gives THEN [Empty(b) EXCEPT !.then = "turn"] ELSE [b EXCEPT !.step = "turn"]
  OBVIOUS
<1>3. /\ worker = Idle /\ ~message.gated /\ ~message.locked /\ audio.step # "create" /\ v \notin gone
      /\ setting' = [setting EXCEPT !["worker"] = s]
      /\ viewer' = IF gives THEN Nobody ELSE viewer
      /\ UNCHANGED <<audio, rings, capture, demanded, preparation, crossed, looks, gone>>
  BY <1>2 DEF Activate, MayTurn, LockFree, GateFree, controlFrame, captureVars, worker, message
<1> HIDE DEF s
<1>4. worker' = s /\ message' = message /\ \A u \in Threads \ {"worker"} : setting'[u] = setting[u]
      /\ setting'["worker"] = s
  BY <1>1, <1>3, ThreadSteps DEF CaptureInv, Threads
<1>5. ASSUME Agreed
      PROVE  WorkerInv' /\ MessageInv' /\ ExclusionInv' /\ ViewerInv' /\ IntentInv' /\ DemandInv'
  <2>1. gives => ~Wanted'
    BY <1>3 DEF Wanted
  <2>2. ~gives => Wanted' = Wanted
    BY <1>3 DEF Wanted
  <2>3. message.step \in {"idle", "detach"}
    BY <1>3, <1>5 DEF Agreed, MessageInv, CaptureInv, CaptureTypes, Settings, message, Threads
  <2>4. WorkerInv' /\ MessageInv'
    BY <1>1, <1>3, <1>4, <1>5, <2>3 DEF Agreed, WorkerInv, MessageInv
  <2>5. Nobody \notin Viewers
    BY HostAssumption DEF Nobody
  <2>6. ExclusionInv' /\ ViewerInv'
    BY <1>1, <1>3, <1>4, <1>5, <2>5 DEF Agreed, ExclusionInv, ViewerInv
  <2>7. IntentInv'
    BY <1>1, <1>3, <1>4, <2>1, <2>3 DEF IntentInv, Threads, message
  <2>8. DemandInv'
    BY <1>1, <1>3, <1>4, <1>5, <2>2, <2>3, IdleFields DEF Agreed, DemandInv, Unsettled
  <2> QED
    BY <2>4, <2>6, <2>7, <2>8
<1>6. crossed' \in BOOLEAN /\ "worker" \in Threads /\ setting["worker"].step = "idle"
  BY <1>3, IdleFields DEF CaptureInv, CaptureTypes, Threads, worker
<1>7. s.step # "exchange" \/ ~s.new
  BY <1>1
<1> QED
  BY <1>1, <1>3, <1>5, <1>6, <1>7, ControlKeeps

\* A view that is turned on or off does too.
LEMMA TurnKeeps == CaptureInv /\ Turn => CaptureInv'
<1> SUFFICES ASSUME CaptureInv, Turn PROVE CaptureInv'
  OBVIOUS
<1> DEFINE r == worker
<1> DEFINE s == IF viewer = r.viewer THEN Idle ELSE [r EXCEPT !.step = "read"]
<1>1. r \in Settings /\ r.step = "turn"
  BY DEF CaptureInv, CaptureTypes, Turn, worker, Threads
<1>2. /\ s \in Settings
      /\ viewer # r.viewer => /\ s.step = "read" /\ s.then = r.then
                              /\ s.gated = r.gated /\ s.locked = r.locked
  BY <1>1, IdleFields DEF Settings
<1>3. /\ setting' = [setting EXCEPT !["worker"] = s]
      /\ viewer' = r.viewer
      /\ UNCHANGED <<audio, rings, capture, demanded, preparation, crossed, looks, gone>>
  BY DEF Turn, controlFrame, captureVars, worker
<1>4. viewer = r.viewer => s = Idle
  OBVIOUS
<1> HIDE DEF s
<1>5. worker' = s /\ message' = message /\ \A u \in Threads \ {"worker"} : setting'[u] = setting[u]
      /\ setting'["worker"] = s
  BY <1>2, <1>3, ThreadSteps DEF CaptureInv, Threads
<1>6. ASSUME Agreed
      PROVE  WorkerInv' /\ MessageInv' /\ ExclusionInv' /\ ViewerInv' /\ IntentInv' /\ DemandInv'
  <2>1. r.gated /\ r.locked /\ r.viewer \notin gone /\ r.then = "idle"
    BY <1>1, <1>6 DEF Agreed, WorkerInv
  <2>2. ~message.gated /\ ~message.locked
    BY <1>6, <2>1 DEF Agreed, ExclusionInv
  <2>3. message.step \in {"idle", "detach"}
    BY <1>6, <2>2 DEF Agreed, MessageInv, CaptureInv, CaptureTypes, Settings, message, Threads
  <2>4. WorkerInv' /\ MessageInv'
    BY <1>2, <1>3, <1>4, <1>5, <1>6, <2>1, <2>3, IdleFields DEF Agreed, WorkerInv, MessageInv
  <2>5. ExclusionInv' /\ ViewerInv'
    BY <1>2, <1>3, <1>4, <1>5, <1>6, <2>1, <2>2, IdleFields DEF Agreed, ExclusionInv, ViewerInv
  <2>6. IntentInv'
    BY <1>2, <1>3, <1>4, <1>5, <2>3, IdleFields DEF IntentInv, Threads, message
  <2>7. viewer = r.viewer => Wanted' = Wanted
    BY <1>3 DEF Wanted
  <2>8. DemandInv'
    BY <1>1, <1>2, <1>3, <1>5, <1>6, <2>3, <2>7 DEF Agreed, DemandInv, Unsettled
  <2> QED
    BY <2>4, <2>5, <2>6, <2>8
<1>7. crossed' \in BOOLEAN /\ "worker" \in Threads /\ setting["worker"].step = "turn"
  BY <1>1, <1>3 DEF CaptureInv, CaptureTypes, Threads, worker
<1>8. s.step # "exchange"
  BY <1>2, <1>4, IdleFields
<1> QED
  BY <1>2, <1>3, <1>6, <1>7, <1>8, ControlKeeps

\* An editor that is deactivated leaves nobody to look.
LEMMA DeactivateKeeps == ASSUME CaptureInv, NEW v \in Viewers, Deactivate(v) PROVE CaptureInv'
<1> DEFINE gives == viewer = v
<1> DEFINE b == [Worker(v) EXCEPT !.locked = TRUE]
<1> DEFINE s == IF gives THEN Empty(b) ELSE Idle
<1>1. /\ s \in Settings
      /\ gives => /\ s.step = "exchange" /\ s.then = "idle" /\ s.gated /\ s.locked /\ ~s.new
      /\ ~gives => s = Idle
  <2>1. b \in Settings /\ b.then = "idle" /\ b.gated /\ b.locked
    BY WorkerFields
  <2> HIDE DEF b
  <2> QED
    BY <2>1, EmptyFields, IdleFields
<1>2. /\ worker = Idle /\ ~message.gated /\ ~message.locked /\ audio.step # "create"
      /\ setting' = [setting EXCEPT !["worker"] = s]
      /\ viewer' = IF gives THEN Nobody ELSE viewer
      /\ UNCHANGED <<audio, rings, capture, demanded, preparation, crossed, looks, gone>>
  BY DEF Deactivate, MayTurn, LockFree, GateFree, controlFrame, captureVars, worker, message
<1> HIDE DEF s
<1>3. worker' = s /\ message' = message /\ \A u \in Threads \ {"worker"} : setting'[u] = setting[u]
      /\ setting'["worker"] = s
  BY <1>1, <1>2, ThreadSteps DEF CaptureInv, Threads
<1>4. ASSUME Agreed
      PROVE  WorkerInv' /\ MessageInv' /\ ExclusionInv' /\ ViewerInv' /\ IntentInv' /\ DemandInv'
  <2>1. gives => ~Wanted'
    BY <1>2 DEF Wanted
  <2>2. ~gives => Wanted' = Wanted
    BY <1>2 DEF Wanted
  <2>3. message.step \in {"idle", "detach"}
    BY <1>2, <1>4 DEF Agreed, MessageInv, CaptureInv, CaptureTypes, Settings, message, Threads
  <2>4. WorkerInv' /\ MessageInv'
    BY <1>1, <1>2, <1>3, <1>4, <2>3, IdleFields DEF Agreed, WorkerInv, MessageInv
  <2>5. Nobody \notin Viewers
    BY HostAssumption DEF Nobody
  <2>6. ExclusionInv' /\ ViewerInv'
    BY <1>1, <1>2, <1>3, <1>4, <2>5, IdleFields DEF Agreed, ExclusionInv, ViewerInv
  <2>7. IntentInv'
    BY <1>1, <1>2, <1>3, <2>1, <2>3, IdleFields DEF IntentInv, Threads, message
  <2>8. DemandInv'
    BY <1>1, <1>2, <1>3, <1>4, <2>2, <2>3, IdleFields DEF Agreed, DemandInv, Unsettled
  <2> QED
    BY <2>4, <2>6, <2>7, <2>8
<1>5. crossed' \in BOOLEAN /\ "worker" \in Threads /\ setting["worker"].step = "idle"
  BY <1>2, IdleFields DEF CaptureInv, CaptureTypes, Threads, worker
<1>6. s.step # "exchange" \/ ~s.new
  BY <1>1, IdleFields
<1> QED
  BY <1>1, <1>2, <1>4, <1>5, <1>6, ControlKeeps

\* A view that does not concern the active editor changes nothing that is wanted.
LEMMA ChangeViewKeeps == ASSUME CaptureInv, NEW v \in Viewers, ChangeView(v) PROVE CaptureInv'
<1>1. PICK concerns \in {v = viewer, viewer # Nobody} :
         /\ MayTurn(v)
         /\ looks' = Flipped(v)
         /\ setting' = [setting EXCEPT !["worker"] =
                           IF concerns THEN [Worker(v) EXCEPT !.step = "read"] ELSE Idle]
         /\ UNCHANGED <<controlFrame, viewer, active, gone>>
  BY DEF ChangeView
<1> DEFINE s == IF concerns THEN [Worker(v) EXCEPT !.step = "read"] ELSE Idle
<1>2. /\ s \in Settings
      /\ concerns => s.step = "read" /\ s.then = "idle" /\ s.gated /\ ~s.locked
      /\ ~concerns => s = Idle
  <2> DEFINE d == Worker(v)
  <2>1. d \in Settings /\ d.then = "idle" /\ d.gated /\ ~d.locked
    BY WorkerFields
  <2>2. s = IF concerns THEN [d EXCEPT !.step = "read"] ELSE Idle
    OBVIOUS
  <2> HIDE DEF d, s
  <2> QED
    BY <2>1, <2>2, IdleFields DEF Settings
<1>3. /\ worker = Idle /\ ~message.gated /\ audio.step # "create"
      /\ setting' = [setting EXCEPT !["worker"] = s]
      /\ UNCHANGED <<audio, rings, capture, demanded, preparation, crossed, viewer, gone>>
  BY <1>1 DEF MayTurn, GateFree, controlFrame, captureVars, worker, message
<1> HIDE DEF s
<1>4. worker' = s /\ message' = message /\ \A u \in Threads \ {"worker"} : setting'[u] = setting[u]
      /\ setting'["worker"] = s
  BY <1>2, <1>3, ThreadSteps DEF CaptureInv, Threads
<1>5. ~concerns => Wanted' = Wanted
  <2>1. ~concerns => v # viewer \/ viewer = Nobody
    BY <1>1
  <2> QED
    BY <1>1, <1>3, <2>1 DEF Wanted, Flipped
<1>6. ASSUME Agreed
      PROVE  WorkerInv' /\ MessageInv' /\ ExclusionInv' /\ ViewerInv' /\ IntentInv' /\ DemandInv'
  <2>1. /\ message.step \in {"idle", "detach", "exchange", "remove"}
        /\ message.step \in {"exchange", "remove"} => viewer = Nobody
    BY <1>3, <1>6 DEF Agreed, MessageInv, CaptureInv, CaptureTypes, Settings, message, Threads
  <2>2. WorkerInv' /\ MessageInv'
    BY <1>2, <1>3, <1>4, <1>6, <2>1, IdleFields DEF Agreed, WorkerInv, MessageInv
  <2>3. ExclusionInv' /\ ViewerInv'
    BY <1>2, <1>3, <1>4, <1>6, IdleFields DEF Agreed, ExclusionInv, ViewerInv
  <2>4. viewer = Nobody => ~Wanted /\ ~Wanted'
    BY <1>3 DEF Wanted
  <2>5. IntentInv'
    BY <1>2, <1>3, <1>4, <1>6, <2>1, <2>4, IdleFields DEF Agreed, IntentInv, Threads, message
  <2>6. DemandInv'
    BY <1>2, <1>3, <1>4, <1>5, <1>6, <2>1, IdleFields DEF Agreed, DemandInv, Unsettled
  <2> QED
    BY <2>2, <2>3, <2>5, <2>6
<1>7. crossed' \in BOOLEAN /\ "worker" \in Threads /\ setting["worker"].step = "idle"
  BY <1>3, IdleFields DEF CaptureInv, CaptureTypes, Threads, worker
<1>8. s.step # "exchange"
  BY <1>2, IdleFields
<1> QED
  BY <1>2, <1>3, <1>6, <1>7, <1>8, ControlKeeps

\* The view is given up under the lock; a worker that wanted it is crossed.
LEMMA UnregisterKeeps == ASSUME CaptureInv, NEW v \in Viewers, Unregister(v) PROVE CaptureInv'
<1> DEFINE mine == active = v /\ viewer = v
<1> DEFINE d == [Idle EXCEPT !.viewer = v, !.locked = TRUE, !.then = "detach"]
<1> DEFINE s == IF mine THEN Empty(d) ELSE After(d)
<1>1. /\ s \in Settings /\ s.viewer = v /\ ~s.gated
      /\ mine => s.step = "exchange" /\ s.then = "detach" /\ s.locked /\ ~s.new
      /\ ~mine => s.step = "detach" /\ s.then = "idle" /\ ~s.locked
  <2>1. d \in Settings /\ d.viewer = v /\ d.locked /\ ~d.gated /\ d.then = "detach"
    BY IdleFields DEF Settings
  <2> HIDE DEF d
  <2>2. CASE mine
    BY <2>1, <2>2, EmptyFields
  <2>3. CASE ~mine
    BY <2>1, <2>3, AfterFields
  <2> QED
    BY <2>2, <2>3
<1>2. /\ message = Idle /\ ~worker.locked
      /\ setting' = [setting EXCEPT !["message"] = s]
      /\ viewer' = IF mine THEN Nobody ELSE viewer
      /\ crossed' = (crossed \/ (mine /\ worker.new) \/ (mine /\ audio.step = "create"))
      /\ UNCHANGED <<audio, rings, capture, demanded, preparation, looks, gone>>
  BY DEF Unregister, LockFree, captureVars, worker, message
<1> HIDE DEF s
<1>3. message' = s /\ worker' = worker /\ \A u \in Threads \ {"message"} : setting'[u] = setting[u]
      /\ setting'["message"] = s
  BY <1>1, <1>2, ThreadSteps DEF CaptureInv, Threads
<1>4. ASSUME Agreed, ~crossed'
      PROVE  WorkerInv' /\ MessageInv' /\ ExclusionInv' /\ ViewerInv' /\ IntentInv' /\ DemandInv'
  <2>1. mine => ~Wanted' /\ ~worker.new /\ audio.step # "create"
    BY <1>2, <1>4 DEF Wanted
  <2>2. ~mine => Wanted' = Wanted
    BY <1>2 DEF Wanted
  <2>3. worker.step # "turn" /\ worker.then # "turn"
    BY <1>2, <1>4 DEF Agreed, WorkerInv
  <2>4. WorkerInv' /\ MessageInv'
    BY <1>1, <1>2, <1>3, <1>4, <2>3 DEF Agreed, WorkerInv, MessageInv
  <2>5. Nobody \notin Viewers
    BY HostAssumption DEF Nobody
  <2>6. ExclusionInv' /\ ViewerInv'
    BY <1>1, <1>2, <1>3, <1>4, <2>1, <2>5 DEF Agreed, ExclusionInv, ViewerInv
  <2>7. IntentInv'
    BY <1>1, <1>2, <1>3, <1>4, <2>1, <2>2 DEF Agreed, IntentInv, Threads, worker
  <2>8. DemandInv'
    BY <1>1, <1>2, <1>3, <1>4, <2>2, IdleFields DEF Agreed, DemandInv, Unsettled
  <2> QED
    BY <2>4, <2>6, <2>7, <2>8
<1>5. crossed' \in BOOLEAN /\ (crossed => crossed')
  BY <1>2 DEF CaptureInv, CaptureTypes
<1>6. "message" \in Threads /\ setting["message"].step = "idle"
  BY <1>2, IdleFields DEF Threads, message
<1>7. s.step # "exchange" \/ ~s.new
  BY <1>1
<1> QED
  BY <1>1, <1>2, <1>4, <1>5, <1>6, <1>7, ControlKeeps

\* It is given up again under the gate, and for good.
LEMMA DetachKeeps == CaptureInv /\ Detach => CaptureInv'
<1> SUFFICES ASSUME CaptureInv, Detach PROVE CaptureInv'
  OBVIOUS
<1> DEFINE v == message.viewer
<1> DEFINE gives == viewer = v
<1> DEFINE d == [Idle EXCEPT !.viewer = v, !.gated = TRUE, !.then = "topology"]
<1> DEFINE s == IF gives THEN Empty(d) ELSE After(d)
<1>1. v \in Viewers \cup {Nobody}
  BY DEF CaptureInv, CaptureTypes, Settings, Threads, message
<1>2. /\ s \in Settings /\ s.gated /\ ~s.locked
      /\ gives => s.step = "exchange" /\ s.then = "topology" /\ ~s.new
      /\ ~gives => s.step = "topology" /\ s.then = "idle"
  <2> HIDE DEF v
  <2>1. d \in Settings /\ ~d.locked /\ d.gated /\ d.then = "topology"
    BY <1>1, IdleFields DEF Settings
  <2> HIDE DEF d
  <2>2. CASE gives
    BY <2>1, <2>2, EmptyFields
  <2>3. CASE ~gives
    BY <2>1, <2>3, AfterFields
  <2> QED
    BY <2>2, <2>3
<1>3. /\ message.step = "detach" /\ ~worker.gated /\ audio.step # "create"
      /\ gone' = gone \cup {v} /\ looks' = looks \ {v}
      /\ setting' = [setting EXCEPT !["message"] = s]
      /\ viewer' = IF gives THEN Nobody ELSE viewer
      /\ UNCHANGED <<audio, rings, capture, demanded, preparation, crossed>>
  BY DEF Detach, GateFree, controlFrame, captureVars, worker, message
<1> HIDE DEF s
<1>4. message' = s /\ worker' = worker /\ \A u \in Threads \ {"message"} : setting'[u] = setting[u]
      /\ setting'["message"] = s
  BY <1>2, <1>3, ThreadSteps DEF CaptureInv, Threads
<1>5. ASSUME Agreed
      PROVE  WorkerInv' /\ MessageInv' /\ ExclusionInv' /\ ViewerInv' /\ IntentInv' /\ DemandInv'
  <2>1. worker = Idle /\ v \in Viewers
    BY <1>3, <1>5 DEF Agreed, WorkerInv, MessageInv
  <2>2. gives => ~Wanted'
    BY <1>3 DEF Wanted
  <2>3. ~gives => Wanted' = Wanted
    BY <1>3 DEF Wanted
  <2>4. WorkerInv' /\ MessageInv'
    BY <1>2, <1>3, <1>4, <1>5, <2>1, IdleFields DEF Agreed, WorkerInv, MessageInv
  <2>5. Nobody \notin Viewers
    BY HostAssumption DEF Nobody
  <2>6. ExclusionInv' /\ ViewerInv'
    BY <1>2, <1>3, <1>4, <1>5, <2>1, <2>5, IdleFields DEF Agreed, ExclusionInv, ViewerInv
  <2>7. IntentInv'
    BY <1>2, <1>3, <1>4, <2>1, <2>2, IdleFields DEF IntentInv, Threads, worker
  <2>8. DemandInv'
    BY <1>2, <1>3, <1>4, <1>5, <2>3 DEF Agreed, DemandInv, Unsettled
  <2> QED
    BY <2>4, <2>6, <2>7, <2>8
<1>6. crossed' \in BOOLEAN /\ "message" \in Threads /\ setting["message"].step = "detach"
  BY <1>3 DEF CaptureInv, CaptureTypes, Threads, message
<1>7. s.step # "exchange" \/ ~s.new
  BY <1>2
<1> QED
  BY <1>2, <1>3, <1>5, <1>6, <1>7, ControlKeeps

\* A change of the groups makes the worker look again.
LEMMA TopologyChangedKeeps == CaptureInv /\ TopologyChanged => CaptureInv'
<1> SUFFICES ASSUME CaptureInv, TopologyChanged PROVE CaptureInv'
  OBVIOUS
<1> DEFINE r == message
<1> DEFINE s == IF viewer = Nobody THEN Idle ELSE [r EXCEPT !.step = "read"]
<1>1. r \in Settings /\ r.step = "topology"
  BY DEF CaptureInv, CaptureTypes, TopologyChanged, message, Threads
<1>2. /\ s \in Settings
      /\ viewer # Nobody => /\ s.step = "read" /\ s.then = r.then
                            /\ s.gated = r.gated /\ s.locked = r.locked
  BY <1>1, IdleFields DEF Settings
<1>3. viewer = Nobody => s = Idle
  OBVIOUS
<1>4. /\ setting' = [setting EXCEPT !["message"] = s]
      /\ UNCHANGED <<audio, rings, capture, demanded, preparation, crossed, viewer, looks, gone>>
  BY DEF TopologyChanged, controlFrame, captureVars, viewVars, message
<1> HIDE DEF s
<1>5. message' = s /\ worker' = worker /\ \A u \in Threads \ {"message"} : setting'[u] = setting[u]
      /\ setting'["message"] = s
  BY <1>2, <1>4, ThreadSteps DEF CaptureInv, Threads
<1>6. ASSUME Agreed
      PROVE  WorkerInv' /\ MessageInv' /\ ExclusionInv' /\ ViewerInv' /\ IntentInv' /\ DemandInv'
  <2>1. r.gated /\ ~r.locked /\ r.then = "idle"
    BY <1>1, <1>6 DEF Agreed, MessageInv
  <2>2. Wanted' = Wanted
    BY <1>4 DEF Wanted
  <2>3. WorkerInv' /\ MessageInv'
    BY <1>2, <1>3, <1>4, <1>5, <1>6, <2>1, IdleFields DEF Agreed, WorkerInv, MessageInv
  <2>4. ExclusionInv' /\ ViewerInv'
    BY <1>2, <1>3, <1>4, <1>5, <1>6, <2>1, IdleFields DEF Agreed, ExclusionInv, ViewerInv
  <2>5. s.step \in {"idle", "read"}
    BY <1>2, <1>3, IdleFields
  <2>6. IntentInv'
    BY <1>4, <1>5, <1>6, <2>2, <2>5 DEF Agreed, IntentInv
  <2>7. DemandInv'
    BY <1>1, <1>4, <1>5, <1>6, <2>2 DEF Agreed, DemandInv, Unsettled
  <2> QED
    BY <2>3, <2>4, <2>6, <2>7
<1>7. crossed' \in BOOLEAN /\ "message" \in Threads /\ setting["message"].step = "topology"
  BY <1>1, <1>4 DEF CaptureInv, CaptureTypes, Threads, message
<1>8. s.step # "exchange"
  BY <1>2, <1>3, IdleFields
<1> QED
  BY <1>2, <1>4, <1>6, <1>7, <1>8, ControlKeeps

\* However activations, changes of focus, removals and preparations fall together,
\* the capture agrees with what the active editor looks at, unless an
\* unregistration outside of the gate has crossed another change.
THEOREM CaptureAgreesWithView == HostSpec => []CaptureFollowsViewer
<1>1. CaptureInv /\ [HostNext]_hostAudioVars => CaptureInv'
  <2> SUFFICES ASSUME CaptureInv, [HostNext]_hostAudioVars PROVE CaptureInv'
    OBVIOUS
  <2>1. CASE UNCHANGED hostAudioVars \/ PublishSnapshot \/ AudioThread \/ Analyze
    BY <2>1, QuietSteps
  <2>2. CASE Host
    BY <2>2, PrepareToPlayKeeps, CreateCaptureKeeps, QuietSteps DEF Host
  <2>3. CASE Control
    <3>1. CASE \E t \in {"worker", "message"} :
                 ReadView(t) \/ PrepareCapture(t) \/ ExchangeDemand(t) \/ RemoveCapture(t)
      BY <3>1, ReadViewKeeps, PrepareCaptureKeeps, ExchangeDemandKeeps, RemoveCaptureKeeps
         DEF Threads
    <3>2. CASE \E v \in Viewers : Activate(v) \/ Deactivate(v) \/ ChangeView(v) \/ Unregister(v)
      BY <3>2, ActivateKeeps, DeactivateKeeps, ChangeViewKeeps, UnregisterKeeps
    <3>3. CASE Turn \/ Detach \/ TopologyChanged
      BY <3>3, TurnKeeps, DetachKeeps, TopologyChangedKeeps
    <3> QED
      BY <2>3, <3>1, <3>2, <3>3 DEF Control
  <2> QED
    BY <2>1, <2>2, <2>3 DEF HostNext
<1>2. CaptureInv => CaptureFollowsViewer
  <2> SUFFICES ASSUME Agreed, worker = Idle, message = Idle, audio.step # "create"
               PROVE  /\ demanded <=> viewer # Nobody /\ viewer \in looks
                      /\ demanded <=> capture # 0
                      /\ capture # 0 => rings[capture].of = preparation
                      /\ viewer \notin gone
    BY DEF CaptureInv, CaptureFollowsViewer, worker, message
  <2>1. \A t \in Threads : setting[t].step = "idle"
    BY IdleFields DEF Threads, worker, message
  <2>2. demanded <=> Wanted
    BY IdleFields DEF Agreed, DemandInv, Unsettled
  <2>3. (demanded => RingOfSize) /\ (capture # 0 => demanded)
    BY <2>1 DEF Agreed, RingInv
  <2> QED
    BY <2>2, <2>3 DEF Wanted, RingOfSize, Agreed, ViewerInv
<1> QED
  BY <1>1, <1>2, InitHasNoCapture, PTL DEF HostSpec

----------------------------------------------------------------------------
(* The indices of the ring.  An index stands for a position, the number of   *)
(* frames that went before; it wraps at Half, and no frame is stored beyond. *)

Half == IndexSize \div 2

\* The numbers of the ring: half the range of the indices is more than the ring.
LEMMA HalfFacts ==
    /\ Half \in Nat /\ IndexSize = 2 * Half /\ Half > Capacity
    /\ Capacity \in Nat /\ Capacity >= 2 /\ WindowSize \in Nat /\ WindowSize > 0
    /\ 2 * WindowSize <= Capacity
BY CaptureAssumption DEF Half

Pos(i) == IF i >= 0 THEN i ELSE i + IndexSize
IsIndex(i) == i \in Int /\ (i \in 0..(Half - 1) \/ i = -Half \/ i = 1 - Half)

\* The positions that can be reached, and where the frame after one is stored.
Reached(p) == p \in 0..(Half + 1) /\ (p = Half + 1 => Half % Capacity = 0)
Slot(p) == p % Capacity

\* Quotient and remainder.
LEMMA Euclid ==
    ASSUME NEW m \in Nat, m > 0, NEW x \in Int
    PROVE  x % m \in 0..(m - 1) /\ (x \div m) \in Int /\ x = (m * (x \div m)) + (x % m)
OBVIOUS

\* A remainder of what is in the range already, or one range beyond it.
LEMMA SmallRemainder ==
    ASSUME NEW m \in Nat, NEW x \in 0..(m - 1) PROVE x % m = x /\ (x - m) % m = x
OBVIOUS

\* Multiples of the modulus are not between 0 and it.
LEMMA Multiples ==
    ASSUME NEW m \in Nat, NEW d \in Int PROVE (d > 0 => m * d >= m) /\ (d <= 0 => m * d <= 0)
OBVIOUS

\* Positions closer than the capacity are stored apart.
LEMMA Apart ==
    ASSUME NEW m \in Nat, m > 0, NEW p \in Nat, NEW q \in Nat, p < q, q < p + m
    PROVE  p % m # q % m
<1> SUFFICES ASSUME p % m = q % m PROVE FALSE
  OBVIOUS
<1> PICK a, b, r : a = p \div m /\ b = q \div m /\ r = p % m
  OBVIOUS
<1>1. a \in Int /\ b \in Int /\ r \in Int /\ p = (m * a) + r /\ q = (m * b) + r
  BY Euclid
<1> PICK d : d = b - a
  OBVIOUS
<1>2. d \in Int /\ m * d = (m * b) - (m * a) /\ m * d \in Int /\ m * a \in Int /\ m * b \in Int
  BY <1>1
<1>3. q - p = m * d
  BY <1>1, <1>2
<1>4. (d > 0 => m * d >= m) /\ (d <= 0 => m * d <= 0)
  BY <1>2, Multiples
<1> QED
  BY <1>2, <1>3, <1>4

\* Positions less than a ring apart have slots of their own.
LEMMA SlotFacts ==
    /\ \A p \in Nat : Slot(p) \in Indices
    /\ \A p, q \in Nat : p < q /\ q < p + Capacity => Slot(p) # Slot(q)
<1>1. \A p \in Nat : Slot(p) \in Indices
  <2> TAKE p \in Nat
  <2>1. p % Capacity \in 0..(Capacity - 1)
    BY HalfFacts, Euclid
  <2> QED
    BY <2>1 DEF Slot, Indices
<1>2. ASSUME NEW p \in Nat, NEW q \in Nat, p < q, q < p + Capacity PROVE Slot(p) # Slot(q)
  BY <1>2, HalfFacts, Apart DEF Slot
<1> QED
  BY <1>1, <1>2

\* An index and the position it stands for.
LEMMA PosFacts ==
    ASSUME NEW i, IsIndex(i)
    PROVE  /\ i \in Int /\ Pos(i) \in 0..(Half + 1) /\ Pos(i) \in Nat
           /\ \/ i = Pos(i) /\ Pos(i) < Half
              \/ i = Pos(i) - IndexSize /\ Pos(i) >= Half
BY HalfFacts DEF IsIndex, Pos

\* The index n frames further on than one of position q.
LEMMA WrappedPos ==
    ASSUME NEW q \in Int, NEW i \in Int, i = q \/ i = q - IndexSize, NEW n \in Int,
           q + n \in 0..(IndexSize - 1)
    PROVE  /\ q + n < Half => Wrapped(i + n) = q + n
           /\ q + n >= Half => Wrapped(i + n) = q + n - IndexSize
<1>1. IndexSize \in Nat
  BY HalfFacts
<1> PICK p \in Int : p = q + n
  OBVIOUS
<1>2. p \in 0..(IndexSize - 1) /\ (i + n = p \/ i + n = p - IndexSize)
  BY <1>1
<1>3. (i + n) % IndexSize = p
  BY <1>1, <1>2, SmallRemainder
<1>4. Wrapped(i + n) = IF p < Half THEN p ELSE p - IndexSize
  BY <1>3 DEF Wrapped, Half
<1> QED
  BY <1>1, <1>2, <1>4, HalfFacts

\* Adding to an index, with its wrap, adds to its position.
LEMMA Advance ==
    ASSUME NEW i, IsIndex(i), NEW n \in Int, Pos(i) + n \in 0..(Half + 1)
    PROVE  IsIndex(Wrapped(i + n)) /\ Pos(Wrapped(i + n)) = Pos(i) + n
<1> PICK q : q = Pos(i)
  OBVIOUS
<1>1. q \in Int /\ i \in Int /\ (i = q \/ i = q - IndexSize)
  BY PosFacts
<1>2. q + n \in 0..(Half + 1) /\ q + n \in 0..(IndexSize - 1)
  BY <1>1, HalfFacts
<1> PICK w : w = Wrapped(i + n)
  OBVIOUS
<1>3. (q + n < Half => w = q + n) /\ (q + n >= Half => w = q + n - IndexSize)
  BY <1>1, <1>2, WrappedPos
<1>4. IsIndex(w) /\ Pos(w) = q + n
  BY <1>1, <1>2, <1>3, HalfFacts DEF IsIndex, Pos
<1> QED
  BY <1>4

\* Where a frame goes.
LEMMA SlotOf ==
    ASSUME NEW i, IsIndex(i), NEW n \in 0..(Capacity - 1), NEW p \in 0..(Half + 1),
           Pos(i) + n = p
    PROVE  /\ p < Half => RingIndex(i, n) = p % Capacity
           /\ p = Half => RingIndex(i, n) = -(Half % Capacity)
           /\ p = Half + 1 => RingIndex(i, n) = -((Half - 1) % Capacity)
<1> PICK q : q = Pos(i)
  OBVIOUS
<1>1. q \in Int /\ i \in Int /\ (i = q \/ i = q - IndexSize) /\ n \in Int /\ p \in Int /\ q + n = p
  BY PosFacts, HalfFacts
<1>2. q + n \in 0..(IndexSize - 1)
  BY <1>1, HalfFacts
<1> PICK w : w = Wrapped(i + n)
  OBVIOUS
<1>3. (q + n < Half => w = q + n) /\ (q + n >= Half => w = q + n - IndexSize)
  BY <1>1, <1>2, WrappedPos
<1>4. RingIndex(i, n) = Remainder(w)
  BY DEF RingIndex
<1>5. CASE p < Half
  <2>1. w = p /\ w >= 0
    BY <1>1, <1>3, <1>5
  <2> QED
    BY <1>4, <1>5, <2>1, HalfFacts DEF Remainder
<1>6. CASE p = Half
  <2>1. w = -Half /\ -w = Half /\ ~(w >= 0)
    BY <1>1, <1>3, <1>6, HalfFacts
  <2> QED
    BY <1>4, <1>6, <2>1, HalfFacts DEF Remainder
<1>7. CASE p = Half + 1
  <2>1. w = 1 - Half /\ -w = Half - 1 /\ ~(w >= 0)
    BY <1>1, <1>3, <1>7, HalfFacts
  <2> QED
    BY <1>4, <1>7, <2>1, HalfFacts DEF Remainder
<1>8. p < Half \/ p = Half \/ p = Half + 1
  BY HalfFacts
<1> QED
  BY <1>5, <1>6, <1>7, <1>8, HalfFacts

\* A frame is put at an index that has not wrapped, or at 0, where it belongs.
LEMMA PutSlot ==
    ASSUME NEW i, IsIndex(i), NEW n \in 0..(Capacity - 1), NEW p, Pos(i) + n = p, Reached(p),
           RingIndex(i, n) \in Indices
    PROVE  RingIndex(i, n) = Slot(p) /\ Reached(p + 1)
<1>1. p \in 0..(Half + 1) /\ p \in Nat
  BY HalfFacts DEF Reached
<1> PICK x : x = RingIndex(i, n)
  OBVIOUS
<1>2. /\ p < Half => x = p % Capacity
      /\ p = Half => x = -(Half % Capacity)
      /\ p = Half + 1 => x = -((Half - 1) % Capacity)
  BY <1>1, SlotOf
<1>3. x \in Int /\ x >= 0
  BY DEF Indices
<1>4. /\ Half - 1 \in Nat /\ Half % Capacity \in 0..(Capacity - 1)
      /\ (Half - 1) % Capacity \in 0..(Capacity - 1)
  BY HalfFacts, Euclid
<1>5. (Half - 1) % Capacity # Half % Capacity
  BY <1>4, HalfFacts, Apart
<1>6. CASE p < Half
  BY <1>1, <1>2, <1>6, HalfFacts DEF Slot, Reached
<1>7. CASE p = Half
  <2>1. Half % Capacity = 0 /\ x = 0
    BY <1>2, <1>3, <1>4, <1>7, HalfFacts
  <2> QED
    BY <1>1, <1>7, <2>1, HalfFacts DEF Slot, Reached
<1>8. CASE p = Half + 1
  <2>1. (Half - 1) % Capacity = 0
    BY <1>2, <1>3, <1>4, <1>8, HalfFacts
  <2>2. Half % Capacity = 0
    BY <1>8 DEF Reached
  <2> QED
    BY <1>5, <2>1, <2>2
<1>9. p < Half \/ p = Half \/ p = Half + 1
  BY <1>1, HalfFacts
<1> QED
  BY <1>6, <1>7, <1>8, <1>9

\* A frame that was put is found.
LEMMA GetSlot ==
    ASSUME NEW i, IsIndex(i), NEW n \in 0..(Capacity - 1), NEW p \in Nat, Pos(i) + n = p,
           Reached(p + 1)
    PROVE  RingIndex(i, n) = Slot(p)
<1>1. p \in 0..(Half + 1) /\ (p < Half \/ p = Half)
  BY HalfFacts DEF Reached
<1>2. /\ p < Half => RingIndex(i, n) = p % Capacity
      /\ p = Half => RingIndex(i, n) = -(Half % Capacity)
  BY <1>1, SlotOf
<1>3. p = Half => Half % Capacity = 0
  BY HalfFacts DEF Reached
<1> QED
  BY <1>1, <1>2, <1>3 DEF Slot

----------------------------------------------------------------------------
(* What is captured and what is read of it.                                  *)

AudioSteps == {"between", "create", "space", "copy", "runtime"}
Chunks == [step : AudioSteps, count : Int, ring : 0..3, read : Int, writable : Int, written : Nat]
Captures == [of : Nat, write : Int, read : Int, frames : [Indices -> Int], gap : BOOLEAN]
Reads == [ring : 0..3, start : Int, write : Int, window : Seq(Int), excused : BOOLEAN]

WindowTypes ==
    /\ audio \in Chunks /\ rings \in [1..3 -> Captures] /\ analysis \in Reads
    /\ capture \in 0..3 /\ preparation \in Nat
    /\ sound \in Int /\ block \in Int /\ maximum \in Int

\* The frame at a position, and the frames that were heard in a row.
At(c, p) == c.frames[Slot(p)]
Row(c, from, to) == \A p \in from..(to - 2) : At(c, p + 1) = At(c, p) + 1

Sane(c) ==
    /\ IsIndex(c.write) /\ IsIndex(c.read) /\ Reached(Pos(c.write))
    /\ Pos(c.read) <= Pos(c.write) /\ Pos(c.write) <= Pos(c.read) + Capacity

\* Where the next window starts at the earliest.
Floor(n) == IF analysis.ring = n THEN Pos(analysis.write) ELSE Pos(rings[n].read)

StoreInv(n) ==
    LET c == rings[n]
    IN  /\ Sane(c)
        /\ Pos(c.read) <= Floor(n) /\ Floor(n) <= Pos(c.write)
        /\ ~c.gap => Row(c, Floor(n), Pos(c.write))

\* The window that is read stays in the ring until it is given back.
ReadInv ==
    /\ analysis.ring = 0 => analysis.window = << >>
    /\ analysis.ring # 0 =>
         LET c == rings[analysis.ring]
             s == Pos(analysis.start)
         IN  /\ IsIndex(analysis.start) /\ IsIndex(analysis.write)
             /\ s + WindowSize = Pos(analysis.write) /\ Pos(c.read) <= s
             /\ Len(analysis.window) <= WindowSize
             /\ \A i \in 1..Len(analysis.window) : analysis.window[i] = At(c, s + i - 1)
             /\ ~analysis.excused => Row(c, s, s + WindowSize)

\* The last frame captured is h, the last one heard, or no frame can follow it
\* before a window that ends with it has been read.
Joins(n, h) ==
    LET c == rings[n]
        w == Pos(c.write)
    IN  \/ c.gap \/ Floor(n) = w
        \/ At(c, w - 1) = h
        \/ w = Pos(c.read) + Capacity /\ analysis.ring # n

Busy == audio.step \in {"space", "copy", "runtime"}

JoinInv(n) ==
    /\ n = capture /\ ~Busy => Joins(n, sound)
    /\ n = capture /\ Busy /\ audio.ring # n => rings[n].gap \/ Floor(n) = Pos(rings[n].write)
    /\ n = audio.ring /\ audio.step \in {"space", "copy"} => Joins(n, sound)
    /\ n = audio.ring /\ audio.step = "runtime" => Joins(n, sound + audio.count)

\* The frames of the chunk go behind the last one, into room there is.
CopyInv ==
    /\ audio.step \in {"space", "copy"} => audio.ring # 0
    /\ audio.step \in {"between", "create"} => audio.ring = 0
    /\ audio.step \in {"between", "create", "space"} => audio.written = 0
    /\ audio.step = "copy" =>
         LET w == Pos(rings[audio.ring].write)
             a == Pos(audio.read)
         IN  /\ IsIndex(audio.read) /\ a <= Pos(rings[audio.ring].read)
             /\ audio.writable <= audio.count /\ w + audio.writable <= a + Capacity
             /\ audio.writable < audio.count => w + audio.writable = a + Capacity
             /\ Reached(w + audio.written)
             /\ \A k \in 0..(audio.written - 1) :
                   At(rings[audio.ring], w + k) = sound + k + 1

WindowInv == /\ WindowTypes /\ CopyInv /\ ReadInv
             /\ \A n \in 1..3 : StoreInv(n) /\ JoinInv(n)

\* A ring's indices and the frames between them.
LEMMA SaneFacts ==
    ASSUME NEW c, Sane(c)
    PROVE  /\ Pos(c.write) \in Nat /\ Pos(c.read) \in Nat /\ c.write \in Int /\ c.read \in Int
           /\ Pos(c.write) \in 0..(Half + 1)
           /\ Backlog(c) = Pos(c.write) - Pos(c.read)
<1> PICK w, r : w = Pos(c.write) /\ r = Pos(c.read)
  OBVIOUS
<1>1. /\ w \in Nat /\ r \in Nat /\ c.write \in Int /\ c.read \in Int
      /\ w \in 0..(Half + 1) /\ r \in 0..(Half + 1)
      /\ (c.write = w /\ w < Half) \/ (c.write = w - IndexSize /\ w >= Half)
      /\ (c.read = r /\ r < Half) \/ (c.read = r - IndexSize /\ r >= Half)
  BY PosFacts DEF Sane
<1>2. r <= w /\ w <= r + Capacity
  BY DEF Sane
<1> PICK i \in Int : i = c.write - c.read
  BY <1>1
<1> PICK d \in Int : d = w - r
  BY <1>1
<1>3. d \in 0..Capacity /\ (i = d \/ i = d - IndexSize)
  BY <1>1, <1>2, HalfFacts
<1>4. d + 0 \in 0..(IndexSize - 1) /\ d + 0 < Half /\ d + 0 = d /\ i + 0 = i
  BY <1>3, HalfFacts
<1>5. Wrapped(i + 0) = d + 0
  BY <1>3, <1>4, WrappedPos
<1>6. Wrapped(i) = d
  BY <1>4, <1>5
<1>7. Backlog(c) = d
  BY <1>6 DEF Backlog
<1> QED
  BY <1>1, <1>7

\* A ring that is left alone.
LEMMA RingKept ==
    ASSUME NEW n \in 1..3, rings'[n] = rings[n], analysis'.ring = n <=> analysis.ring = n,
           analysis.ring = n => analysis'.write = analysis.write
    PROVE  /\ Floor(n)' = Floor(n)
           /\ StoreInv(n) => StoreInv(n)'
           /\ \A h : Joins(n, h) => Joins(n, h)'
<1>1. Floor(n)' = Floor(n)
  BY DEF Floor
<1> QED
  BY <1>1 DEF StoreInv, Joins

\* A ring that is new.
LEMMA RingFresh ==
    ASSUME NEW n \in 1..3, NEW x, rings'[n] = NewCapture(x), analysis'.ring # n
    PROVE  StoreInv(n)' /\ Floor(n)' = Pos(rings'[n].write) /\ \A h : Joins(n, h)'
<1> PICK c : c = NewCapture(x)
  OBVIOUS
<1>1. c.write = 0 /\ c.read = 0 /\ rings'[n] = c
  BY DEF NewCapture
<1>2. IsIndex(0) /\ Pos(0) = 0 /\ Reached(0)
  BY HalfFacts DEF IsIndex, Pos, Reached
<1>3. Floor(n)' = 0
  BY <1>1, <1>2 DEF Floor
<1>4. Sane(c) /\ Row(c, 0, 0)
  BY <1>1, <1>2, HalfFacts DEF Sane, Row
<1>5. StoreInv(n)'
  BY <1>1, <1>2, <1>3, <1>4 DEF StoreInv
<1> QED
  BY <1>1, <1>2, <1>3, <1>5 DEF Joins

\* A new ring is a ring.
LEMMA NewCaptureType ==
    ASSUME NEW x \in Nat PROVE NewCapture(x) \in Captures
<1>1. [m \in Indices |-> NoFrame] \in [Indices -> Int]
  BY DEF NoFrame
<1> DEFINE f == [m \in Indices |-> NoFrame]
<1> HIDE DEF f
<1>2. NewCapture(x) = [of |-> x, write |-> 0, read |-> 0, frames |-> f, gap |-> FALSE]
  BY DEF NewCapture, f
<1>3. f \in [Indices -> Int]
  BY <1>1 DEF f
<1> QED
  BY <1>2, <1>3 DEF Captures

\* The rings that go on to be used stay, the others are new.
LEMMA CollectedFacts ==
    ASSUME NEW all \in [1..3 -> Captures], NEW used
    PROVE  /\ Collected(all, used) \in [1..3 -> Captures]
           /\ \A n \in 1..3 : /\ n \in used => Collected(all, used)[n] = all[n]
                              /\ n \notin used => Collected(all, used)[n] = NewCapture(0)
<1>1. Blank = NewCapture(0) /\ Blank \in Captures
  BY NewCaptureType DEF Blank
<1> QED
  BY <1>1 DEF Collected

\* What is read and what is captured, while their rings are left alone.
LEMMA ReadKept ==
    ASSUME ReadInv, analysis' = analysis,
           analysis.ring # 0 => /\ rings'[analysis.ring].read = rings[analysis.ring].read
                                /\ rings'[analysis.ring].frames = rings[analysis.ring].frames
    PROVE  ReadInv'
<1>1. CASE analysis.ring = 0
  BY <1>1 DEF ReadInv
<1>2. CASE analysis.ring # 0
  <2>1. PICK c, d : c = rings[analysis.ring] /\ d = rings'[analysis.ring]
    OBVIOUS
  <2>2. d.read = c.read /\ \A p : At(d, p) = At(c, p)
    BY <1>2, <2>1 DEF At
  <2>3. \A i, j : Row(c, i, j) => Row(d, i, j)
    BY <2>2 DEF Row
  <2> QED
    BY <1>2, <2>1, <2>2, <2>3 DEF ReadInv
<1> QED
  BY <1>1, <1>2

\* A block that is being stored is not disturbed by a reader that moves on.
LEMMA CopyKept ==
    ASSUME CopyInv, audio' = audio, sound' = sound,
           audio.ring # 0 => /\ rings'[audio.ring].write = rings[audio.ring].write
                             /\ rings'[audio.ring].frames = rings[audio.ring].frames
                             /\ \/ rings'[audio.ring].read = rings[audio.ring].read
                                \/ Pos(rings[audio.ring].read) <= Pos(rings'[audio.ring].read)
                    /\ IsIndex(rings[audio.ring].read) /\ IsIndex(rings'[audio.ring].read)
    PROVE  CopyInv'
<1>1. CASE audio.ring = 0
  BY <1>1 DEF CopyInv
<1>2. CASE audio.ring # 0
  <2> DEFINE c == rings[audio.ring]
             d == rings'[audio.ring]
  <2>1. d.write = c.write /\ d.frames = c.frames
    BY <1>2
  <2>2. \A p : At(d, p) = At(c, p)
    BY <2>1 DEF At
  <2>3. \A a \in Int : a <= Pos(c.read) => a <= Pos(d.read)
    BY <1>2, PosFacts
  <2>4. IsIndex(audio.read) => Pos(audio.read) \in Int
    BY PosFacts
  <2>5. CASE audio.step = "copy"
    <3>1. IsIndex(audio.read) /\ Pos(audio.read) <= Pos(c.read)
      BY <2>5 DEF CopyInv
    <3>2. Pos(audio.read) <= Pos(d.read)
      BY <2>3, <2>4, <3>1
    <3>3. /\ audio.writable <= audio.count
          /\ Pos(c.write) + audio.writable <= Pos(audio.read) + Capacity
          /\ audio.writable < audio.count =>
               Pos(c.write) + audio.writable = Pos(audio.read) + Capacity
          /\ Reached(Pos(c.write) + audio.written)
          /\ \A k \in 0..(audio.written - 1) : At(c, Pos(c.write) + k) = sound + k + 1
      BY <2>5 DEF CopyInv
    <3>4. \A k \in 0..(audio.written - 1) : At(d, Pos(d.write) + k) = sound + k + 1
      BY <2>1, <2>2, <3>3
    <3> QED
      BY <1>2, <2>1, <2>5, <3>1, <3>2, <3>3, <3>4 DEF CopyInv
  <2>6. CASE audio.step # "copy"
    BY <2>6 DEF CopyInv
  <2> QED
    BY <2>5, <2>6
<1> QED
  BY <1>1, <1>2

\* The joined sound of a ring stays joined while nothing is stored or read.
LEMMA JoinKept ==
    ASSUME NEW n \in 1..3, JoinInv(n), rings'[n] = rings[n],
           analysis'.ring = n <=> analysis.ring = n,
           analysis.ring = n => analysis'.write = analysis.write,
           audio' = audio, capture' = capture, sound' = sound
    PROVE  JoinInv(n)'
<1>1. Floor(n)' = Floor(n) /\ \A h : Joins(n, h) => Joins(n, h)'
  BY RingKept
<1>2. Busy' <=> Busy
  BY DEF Busy
<1>3. Joins(n, sound) => Joins(n, sound)'
  <2> PICK h : h = sound
    OBVIOUS
  <2>1. Joins(n, h) => Joins(n, h)'
    BY <1>1
  <2>2. h' = h => (Joins(n, h)' <=> Joins(n, sound)')
    OBVIOUS
  <2> QED
    BY <2>1, <2>2
<1> QED
  BY <1>1, <1>2, <1>3 DEF JoinInv

\* A step that leaves the captures alone.
LEMMA QuietWindow ==
    ASSUME WindowInv, UNCHANGED <<rings, capture, analysis, sound>>, WindowTypes',
           \/ audio' = audio
           \/ /\ audio.ring = 0 /\ audio'.ring = 0 /\ audio'.written = 0
              /\ ~Busy /\ audio'.step \in {"between", "create"}
    PROVE  WindowInv'
<1>1. ReadInv'
  BY ReadKept DEF WindowInv
<1>2. ASSUME NEW n \in 1..3 PROVE StoreInv(n)' /\ (\A h : Joins(n, h) => Joins(n, h)')
  BY <1>2, RingKept DEF WindowInv
<1>3. CASE audio' = audio
  <2>1. WindowTypes /\ CopyInv
    BY DEF WindowInv
  <2>2. audio.ring # 0 => audio.ring \in 1..3
    BY <2>1 DEF WindowTypes, Chunks
  <2>3. audio.ring # 0 => IsIndex(rings[audio.ring].read)
    BY <2>2 DEF WindowInv, StoreInv, Sane
  <2>4. CopyInv'
    BY <1>3, <2>1, <2>3, CopyKept
  <2>5. \A n \in 1..3 : JoinInv(n)'
    BY <1>3, JoinKept DEF WindowInv
  <2> QED
    BY <1>1, <1>2, <2>4, <2>5 DEF WindowInv
<1>4. CASE /\ audio.ring = 0 /\ audio'.ring = 0 /\ audio'.written = 0
           /\ ~Busy /\ audio'.step \in {"between", "create"}
  <2>1. CopyInv'
    BY <1>4 DEF CopyInv
  <2>2. ~Busy'
    BY <1>4 DEF Busy
  <2>3. ASSUME NEW n \in 1..3 PROVE JoinInv(n)'
    <3>1. n = capture => Joins(n, sound)
      BY <1>4 DEF WindowInv, JoinInv
    <3>2. n = capture => Joins(n, sound)'
      BY <3>1, RingKept DEF Joins, Floor
    <3> QED
      BY <1>4, <2>2, <3>2 DEF JoinInv
  <2> QED
    BY <1>1, <1>2, <2>1, <2>3 DEF WindowInv
<1> QED
  BY <1>3, <1>4

\* The sizes of blocks are numbers.
LEMMA SizesAreNumbers ==
    \A n : n \in Maxima[Listening] \/ n \in BlockSizes[Listening] => n \in Nat
<1>1. Listening \in BOOLEAN
  BY DEF Listening
<1> PICK l \in BOOLEAN : l = Listening
  BY <1>1
<1>2. Maxima[l] \cup BlockSizes[l] \subseteq Nat \ {0}
  BY HostAssumption
<1> QED
  BY <1>2

\* Steps that touch no ring.
LEMMA QuietWindowSteps ==
    ASSUME WindowInv,
           \/ UNCHANGED hostAudioVars \/ PublishSnapshot \/ ReleaseResources \/ ResetHost
           \/ BeginBlock \/ Turn \/ Detach \/ TopologyChanged
           \/ \E t \in Threads : ReadView(t) \/ ExchangeDemand(t)
           \/ \E v \in Viewers : Activate(v) \/ Deactivate(v) \/ ChangeView(v) \/ Unregister(v)
    PROVE  WindowInv'
<1>1. UNCHANGED <<rings, capture, analysis, audio, sound>>
  BY DEF hostAudioVars, PublishSnapshot, ReleaseResources, ResetHost, BeginBlock, Turn, Detach,
         TopologyChanged, ReadView, ExchangeDemand, Activate, Deactivate, ChangeView, Unregister,
         captureVars, viewFrame, controlFrame, settingFrame, hostVars
<1>2. /\ preparation' \in Nat /\ block' \in Int /\ maximum' \in Int
  <2>1. preparation \in Nat /\ block \in Int /\ maximum \in Int
    BY DEF WindowInv, WindowTypes
  <2>2. CASE BeginBlock
    <3>1. block' \in Nat /\ preparation' = preparation /\ maximum' = maximum
      BY <2>2, SizesAreNumbers DEF BeginBlock
    <3> QED
      BY <2>1, <3>1
  <2>3. CASE ReleaseResources
    BY <2>1, <2>3 DEF ReleaseResources
  <2>4. CASE ~BeginBlock /\ ~ReleaseResources
    <3>1. UNCHANGED <<preparation, block, maximum>>
      BY <2>4 DEF hostAudioVars, PublishSnapshot, ResetHost, Turn, Detach,
           TopologyChanged, ReadView, ExchangeDemand, Activate, Deactivate, ChangeView, Unregister,
           captureVars, viewFrame, controlFrame, settingFrame, hostVars
    <3> QED
      BY <2>1, <3>1
  <2> QED
    BY <2>2, <2>3, <2>4
<1>3. WindowTypes'
  BY <1>1, <1>2 DEF WindowInv, WindowTypes
<1> QED
  BY <1>1, <1>3, QuietWindow

\* The audio thread between two chunks.
LEMMA BetweenType == [Between EXCEPT !.step = "create"] \in Chunks /\ Between \in Chunks
<1>1. ASSUME NEW s \in AudioSteps
      PROVE  [step |-> s, count |-> 0, ring |-> 0, read |-> 0, writable |-> 0, written |-> 0]
                \in Chunks
  BY DEF Chunks
<1>2. [Between EXCEPT !.step = "create"] =
      [step |-> "create", count |-> 0, ring |-> 0, read |-> 0, writable |-> 0, written |-> 0]
  BY DEF Between
<1> QED
  BY <1>1, <1>2 DEF Between, AudioSteps

\* A preparation leaves the old rings alone.
LEMMA PrepareKeepsWindow == WindowInv /\ PrepareToPlay => WindowInv'
<1> SUFFICES ASSUME WindowInv, PrepareToPlay PROVE WindowInv'
  OBVIOUS
<1>1. PICK n : /\ n \in Maxima[Listening] /\ maximum' = n /\ preparation' = n
               /\ audio = Between
               /\ audio' = Between \/ audio' = [Between EXCEPT !.step = "create"]
               /\ UNCHANGED <<block, sound, captureVars, analysis>>
  <2>1. [Between EXCEPT !.step = @] = Between
    BY DEF Between
  <2> QED
    BY <2>1 DEF PrepareToPlay, Stopped
<1>2. n \in Nat
  BY <1>1, SizesAreNumbers
<1>3. /\ audio.ring = 0 /\ audio'.ring = 0 /\ audio'.written = 0
      /\ ~Busy /\ audio'.step \in {"between", "create"}
  BY <1>1 DEF Between, Busy
<1>4. WindowTypes'
  BY <1>1, <1>2, BetweenType DEF WindowInv, WindowTypes, captureVars
<1> QED
  BY <1>1, <1>3, <1>4, QuietWindow DEF captureVars

\* A new ring is empty.
LEMMA CreateKeepsWindow == WindowInv /\ CreateCapture => WindowInv'
<1> SUFFICES ASSUME WindowInv, CreateCapture PROVE WindowInv'
  OBVIOUS
<1>1. /\ audio.step = "create" /\ capture' = Free /\ audio' = Between
      /\ rings' = Collected([rings EXCEPT ![Free] = NewCapture(preparation)],
                            {Free, analysis.ring})
      /\ UNCHANGED <<preparation, maximum, block, sound, analysis>>
  BY DEF CreateCapture, viewFrame
<1>2. /\ WindowTypes /\ CopyInv /\ ReadInv /\ \A n \in 1..3 : StoreInv(n)
  BY DEF WindowInv
<1>3. audio.ring = 0
  BY <1>1, <1>2 DEF CopyInv
<1> PICK f : f = Free
  OBVIOUS
<1>4. f \in 1..3 /\ f # analysis.ring
  BY <1>3, RoomForCapture
<1> DEFINE all == [rings EXCEPT ![f] = NewCapture(preparation)]
<1>5. all \in [1..3 -> Captures] /\ all[f] = NewCapture(preparation)
      /\ \A n \in 1..3 : n # f => all[n] = rings[n]
  <2>1. NewCapture(preparation) \in Captures /\ rings \in [1..3 -> Captures]
    BY <1>2, NewCaptureType DEF WindowTypes
  <2> QED
    BY <1>4, <2>1
<1> HIDE DEF all
<1>6. rings' = Collected(all, {f, analysis.ring})
  BY <1>1 DEF all
<1>7. /\ rings' \in [1..3 -> Captures] /\ rings'[f] = NewCapture(preparation)
      /\ \A n \in 1..3 : /\ n = analysis.ring => rings'[n] = rings[n]
                         /\ n # f /\ n # analysis.ring => rings'[n] = NewCapture(0)
  BY <1>4, <1>5, <1>6, CollectedFacts
<1>8. WindowTypes'
  BY <1>1, <1>2, <1>4, <1>7, BetweenType DEF WindowTypes
<1>9. CopyInv' /\ ~Busy' /\ audio'.ring = 0
  BY <1>1 DEF CopyInv, Busy, Between
<1>10. ReadInv'
  <2>1. analysis.ring \in 0..3
    BY <1>2 DEF WindowTypes, Reads
  <2> QED
    BY <1>1, <1>2, <1>7, <2>1, ReadKept
<1>11. ASSUME NEW n \in 1..3 PROVE StoreInv(n)' /\ JoinInv(n)'
  <2>1. CASE n = analysis.ring
    <3>1. StoreInv(n)'
      BY <1>1, <1>2, <1>7, <2>1, RingKept
    <3> QED
      BY <1>1, <1>4, <1>9, <2>1, <3>1 DEF JoinInv
  <2>2. CASE n # analysis.ring
    <3>1. \E x : rings'[n] = NewCapture(x)
      BY <1>7, <2>2
    <3>2. StoreInv(n)' /\ \A h : Joins(n, h)'
      BY <1>1, <2>2, <3>1, RingFresh
    <3> QED
      BY <1>9, <3>2 DEF JoinInv
  <2> QED
    BY <2>1, <2>2
<1> QED
  BY <1>8, <1>9, <1>10, <1>11 DEF WindowInv

\* A control thread that makes a ring leaves the others alone.
LEMMA PrepareCaptureKeepsWindow ==
    ASSUME WindowInv, NEW t \in Threads, PrepareCapture(t) PROVE WindowInv'
<1> DEFINE made == setting[t].new /\ capture = 0
<1>1. /\ capture' = IF made THEN Free ELSE capture
      /\ rings' = IF made THEN [rings EXCEPT ![Free] = NewCapture(preparation)] ELSE rings
      /\ UNCHANGED <<preparation, maximum, block, sound, analysis, audio>>
  BY DEF PrepareCapture, settingFrame, hostVars
<1>2. /\ WindowTypes /\ CopyInv /\ ReadInv /\ \A n \in 1..3 : StoreInv(n) /\ JoinInv(n)
  BY DEF WindowInv
<1>3. CASE ~made
  <2>1. UNCHANGED <<rings, capture>>
    BY <1>1, <1>3
  <2>2. WindowTypes'
    BY <1>1, <1>2, <2>1 DEF WindowTypes
  <2> QED
    BY <1>1, <2>1, <2>2, QuietWindow
<1>4. CASE made
  <2> PICK f : f = Free
    OBVIOUS
  <2>1. f \in 1..3 /\ f # analysis.ring /\ f # audio.ring
    BY <1>4, RoomForCapture
  <2>2. capture' = f /\ rings' = [rings EXCEPT ![f] = NewCapture(preparation)]
    BY <1>1, <1>4
  <2>3. /\ rings' \in [1..3 -> Captures] /\ rings'[f] = NewCapture(preparation)
        /\ \A n \in 1..3 : n # f => rings'[n] = rings[n]
    <3>1. NewCapture(preparation) \in Captures /\ rings \in [1..3 -> Captures]
      BY <1>2, NewCaptureType DEF WindowTypes
    <3> QED
      BY <2>1, <2>2, <3>1
  <2>4. WindowTypes'
    BY <1>1, <1>2, <2>1, <2>2, <2>3 DEF WindowTypes
  <2>5. analysis.ring # 0 => analysis.ring \in 1..3
    BY <1>2 DEF WindowTypes, Reads
  <2>6. audio.ring # 0 => audio.ring \in 1..3
    BY <1>2 DEF WindowTypes, Chunks
  <2>7. ReadInv'
    BY <1>1, <1>2, <2>1, <2>3, <2>5, ReadKept
  <2>8. CopyInv'
    <3>1. audio.ring # 0 => IsIndex(rings[audio.ring].read)
      BY <1>2, <2>6 DEF StoreInv, Sane
    <3> QED
      BY <1>1, <1>2, <2>1, <2>3, <2>6, <3>1, CopyKept
  <2>9. ASSUME NEW n \in 1..3 PROVE StoreInv(n)' /\ JoinInv(n)'
    <3>1. CASE n = f
      <4>1. StoreInv(n)' /\ (\A h : Joins(n, h)') /\ Floor(n)' = Pos(rings'[n].write)
        BY <1>1, <2>1, <2>3, <3>1, RingFresh
      <4> QED
        BY <4>1 DEF JoinInv
    <3>2. CASE n # f
      <4>1. rings'[n] = rings[n]
        BY <2>3, <3>2
      <4>2. /\ Floor(n)' = Floor(n) /\ StoreInv(n)' /\ \A h : Joins(n, h) => Joins(n, h)'
        BY <1>1, <1>2, <4>1, RingKept
      <4>3. Joins(n, sound) => Joins(n, sound)'
        BY <1>1, <4>1 DEF Joins, Floor
      <4>4. Joins(n, sound + audio.count) => Joins(n, sound + audio.count)'
        BY <1>1, <4>1 DEF Joins, Floor
      <4>5. JoinInv(n)'
        BY <1>1, <1>2, <2>2, <3>2, <4>3, <4>4 DEF JoinInv
      <4> QED
        BY <4>2, <4>5
    <3> QED
      BY <3>1, <3>2
  <2> QED
    BY <2>4, <2>7, <2>8, <2>9 DEF WindowInv
<1> QED
  BY <1>3, <1>4

\* Rings that are not used any more are given up.
LEMMA RemoveKeepsWindow ==
    ASSUME WindowInv, NEW t \in Threads, RemoveCapture(t) PROVE WindowInv'
<1>1. /\ capture' = 0 /\ rings' = Collected(rings, {audio.ring, analysis.ring})
      /\ UNCHANGED <<preparation, maximum, block, sound, analysis, audio>>
  BY DEF RemoveCapture, settingFrame, hostVars
<1>2. /\ WindowTypes /\ CopyInv /\ ReadInv /\ \A n \in 1..3 : StoreInv(n) /\ JoinInv(n)
  BY DEF WindowInv
<1>3. /\ rings' \in [1..3 -> Captures]
      /\ \A n \in 1..3 : /\ n \in {audio.ring, analysis.ring} => rings'[n] = rings[n]
                         /\ n \notin {audio.ring, analysis.ring} => rings'[n] = NewCapture(0)
  BY <1>1, <1>2, CollectedFacts DEF WindowTypes
<1>4. WindowTypes'
  BY <1>1, <1>2, <1>3 DEF WindowTypes
<1>5. analysis.ring # 0 => analysis.ring \in 1..3
  BY <1>2 DEF WindowTypes, Reads
<1>6. audio.ring # 0 => audio.ring \in 1..3
  BY <1>2 DEF WindowTypes, Chunks
<1>7. ReadInv'
  BY <1>1, <1>2, <1>3, <1>5, ReadKept
<1>8. CopyInv'
  <2>1. audio.ring # 0 => IsIndex(rings[audio.ring].read)
    BY <1>2, <1>6 DEF StoreInv, Sane
  <2> QED
    BY <1>1, <1>2, <1>3, <1>6, <2>1, CopyKept
<1>9. ASSUME NEW n \in 1..3 PROVE StoreInv(n)' /\ JoinInv(n)'
  <2>1. CASE n \in {audio.ring, analysis.ring}
    <3>1. rings'[n] = rings[n]
      BY <1>3, <2>1
    <3>2. StoreInv(n)'
      BY <1>1, <1>2, <3>1, RingKept
    <3>3. Joins(n, sound) => Joins(n, sound)'
      BY <1>1, <3>1 DEF Joins, Floor
    <3>4. Joins(n, sound + audio.count) => Joins(n, sound + audio.count)'
      BY <1>1, <3>1 DEF Joins, Floor
    <3>5. JoinInv(n)'
      BY <1>1, <1>2, <3>3, <3>4 DEF JoinInv
    <3> QED
      BY <3>2, <3>5
  <2>2. CASE n \notin {audio.ring, analysis.ring}
    <3>1. StoreInv(n)'
      BY <1>1, <1>3, <2>2, RingFresh
    <3>2. JoinInv(n)'
      BY <1>1, <2>2 DEF JoinInv
    <3> QED
      BY <3>1, <3>2
  <2> QED
    BY <2>1, <2>2
<1> QED
  BY <1>4, <1>7, <1>8, <1>9 DEF WindowInv

\* Part of a row of frames is one.
LEMMA RowPart ==
    ASSUME NEW c, NEW d, NEW l \in Int, NEW h \in Int, NEW from \in Int, NEW to \in Int,
           Row(c, l, h), l <= from, to <= h,
           \A p \in Int : from <= p /\ p < to => At(d, p) = At(c, p)
    PROVE  Row(d, from, to)
<1>1. ASSUME NEW p \in from..(to - 2) PROVE At(d, p + 1) = At(d, p) + 1
  <2>1. p \in l..(h - 2) /\ p \in Int /\ p + 1 \in Int /\ from <= p /\ p + 1 < to
        /\ from <= p + 1 /\ p < to
    OBVIOUS
  <2>2. At(c, p + 1) = At(c, p) + 1
    BY <2>1 DEF Row
  <2>3. At(d, p + 1) = At(c, p + 1) /\ At(d, p) = At(c, p)
    BY <2>1
  <2> QED
    BY <2>2, <2>3
<1> QED
  BY <1>1 DEF Row

\* The newest window ends with the last frame.
LEMMA StartFacts ==
    ASSUME NEW c, Sane(c), HasWindow(c)
    PROVE  /\ IsIndex(WindowStart(c)) /\ Pos(WindowStart(c)) + WindowSize = Pos(c.write)
           /\ Pos(c.read) <= Pos(WindowStart(c))
<1> PICK w, r, i : w = Pos(c.write) /\ r = Pos(c.read) /\ i = c.write
  OBVIOUS
<1>1. /\ w \in Nat /\ r \in Nat /\ i \in Int /\ w \in 0..(Half + 1) /\ Backlog(c) = w - r
      /\ IsIndex(i) /\ IsIndex(c.read) /\ Pos(i) = w
  BY SaneFacts DEF Sane
<1>2. w - r >= WindowSize
  BY <1>1 DEF HasWindow
<1>3. CASE w - r > WindowSize
  <2> PICK n \in Int : n = -WindowSize
    BY HalfFacts
  <2>1. w + n \in 0..(Half + 1) /\ i + n = i - WindowSize
    BY <1>1, <1>3, HalfFacts
  <2>2. IsIndex(Wrapped(i + n)) /\ Pos(Wrapped(i + n)) = w + n
    BY <1>1, <2>1, Advance
  <2>3. WindowStart(c) = Wrapped(i + n)
    BY <1>1, <1>3, <2>1 DEF WindowStart
  <2>4. w + n + WindowSize = w /\ r <= w + n
    BY <1>1, <1>3, HalfFacts
  <2> QED
    BY <2>2, <2>3, <2>4
<1>4. CASE ~(w - r > WindowSize)
  <2>1. WindowStart(c) = c.read
    BY <1>1, <1>4 DEF WindowStart
  <2>2. r + WindowSize = w /\ r <= r
    BY <1>1, <1>2, <1>4, HalfFacts
  <2> QED
    BY <1>1, <2>1, <2>2
<1> QED
  BY <1>3, <1>4

\* Marking a gap leaves a ring a ring.
LEMMA GapType == \A c \in Captures, g \in BOOLEAN : [c EXCEPT !.gap = g] \in Captures
BY DEF Captures

\* The analyzer takes the newest window, and with it whether frames are missing from it.
LEMMA BeginReadKeepsWindow == WindowInv /\ BeginRead => WindowInv'
<1> SUFFICES ASSUME WindowInv, BeginRead PROVE WindowInv'
  OBVIOUS
<1> PICK m : m = capture
  OBVIOUS
<1> PICK c : c = rings[m]
  OBVIOUS
<1>1. /\ WindowTypes /\ CopyInv /\ ReadInv /\ \A n \in 1..3 : StoreInv(n) /\ JoinInv(n)
  BY DEF WindowInv
<1>2. /\ analysis.ring = 0 /\ m \in 1..3 /\ HasWindow(c)
      /\ UNCHANGED <<preparation, maximum, block, sound, capture, audio>>
  <2>1. analysis.ring = 0 /\ m # 0 /\ HasWindow(c)
        /\ UNCHANGED <<preparation, maximum, block, sound, capture, audio>>
    BY DEF BeginRead, analysisFrame, hostVars
  <2>2. m \in 0..3
    BY <1>1 DEF WindowTypes
  <2> QED
    BY <2>1, <2>2
<1>3. /\ analysis' = [ring |-> m, start |-> WindowStart(c), write |-> c.write,
                      window |-> << >>, excused |-> c.gap]
      /\ rings' = [rings EXCEPT ![m] = [rings[m] EXCEPT !.gap = FALSE]]
  BY DEF BeginRead
<1> PICK d : d = [c EXCEPT !.gap = FALSE]
  OBVIOUS
<1>4. /\ c \in Captures /\ d \in Captures /\ ~d.gap
      /\ d.write = c.write /\ d.read = c.read /\ d.frames = c.frames
  <2>1. c \in Captures
    BY <1>1, <1>2 DEF WindowTypes
  <2>2. d \in Captures
    BY <2>1, GapType
  <2> QED
    BY <2>1, <2>2 DEF Captures
<1>5. /\ rings' \in [1..3 -> Captures] /\ rings'[m] = d
      /\ \A n \in 1..3 : n # m => rings'[n] = rings[n]
  <2>1. rings' = [rings EXCEPT ![m] = d] /\ rings \in [1..3 -> Captures]
    BY <1>1, <1>3 DEF WindowTypes
  <2> QED
    BY <1>2, <1>4, <2>1
<1>6. /\ analysis'.ring = m /\ analysis'.start = WindowStart(c) /\ analysis'.write = c.write
      /\ analysis'.window = << >> /\ analysis'.excused = c.gap
  BY <1>3
<1>7. Sane(c) /\ Sane(d) /\ StoreInv(m) /\ Floor(m) = Pos(c.read)
  BY <1>1, <1>2, <1>4 DEF StoreInv, Sane, Floor
<1>8. /\ IsIndex(WindowStart(c)) /\ Pos(WindowStart(c)) + WindowSize = Pos(c.write)
      /\ Pos(c.read) <= Pos(WindowStart(c)) /\ IsIndex(c.write)
  BY <1>2, <1>7, StartFacts DEF Sane
<1>9. Floor(m)' = Pos(d.write)
  BY <1>4, <1>5, <1>6 DEF Floor
<1>10. WindowTypes'
  <2>1. analysis' \in Reads
    <3>1. m \in 0..3 /\ WindowStart(c) \in Int /\ c.write \in Int /\ c.gap \in BOOLEAN
      BY <1>1, <1>2, <1>4, <1>8, PosFacts DEF WindowTypes, Captures
    <3>2. << >> \in Seq(Int)
      OBVIOUS
    <3> QED
      BY <1>3, <3>1, <3>2 DEF Reads
  <2> QED
    BY <1>1, <1>2, <1>5, <2>1 DEF WindowTypes
<1>11. CopyInv'
  <2>1. audio.ring # 0 => audio.ring \in 1..3
    BY <1>1 DEF WindowTypes, Chunks
  <2>2. \A n \in 1..3 : /\ rings'[n].write = rings[n].write /\ rings'[n].read = rings[n].read
                        /\ rings'[n].frames = rings[n].frames /\ IsIndex(rings[n].read)
    <3>1. \A n \in 1..3 : IsIndex(rings[n].read)
      BY <1>1 DEF StoreInv, Sane
    <3> QED
      BY <1>4, <1>5, <3>1
  <2> QED
    BY <1>1, <1>2, <2>1, <2>2, CopyKept
<1>12. ReadInv'
  <2>6. PICK s : s = Pos(WindowStart(c))
    OBVIOUS
  <2>1. s \in Int /\ Pos(c.write) \in Int /\ Pos(c.read) \in Int
    BY <1>7, <1>8, <2>6, PosFacts, SaneFacts
  <2>2. ASSUME ~c.gap PROVE Row(d, s, s + WindowSize)
    <3>1. Row(c, Pos(c.read), Pos(c.write))
      BY <1>7, <2>2 DEF StoreInv
    <3>2. \A p \in Int : At(d, p) = At(c, p)
      BY <1>4 DEF At
    <3>7. PICK w, r, t : w = Pos(c.write) /\ r = Pos(c.read) /\ t = s + WindowSize
      OBVIOUS
    <3>3. /\ w \in Int /\ r \in Int /\ t \in Int /\ r <= s /\ t <= w /\ Row(c, r, w)
      BY <1>8, <2>1, <2>6, <3>1, <3>7, HalfFacts
    <3>4. \A p \in Int : s <= p /\ p < t => At(d, p) = At(c, p)
      BY <3>2
    <3>5. s \in Int
      BY <2>1
    <3>6. Row(d, s, t)
      BY <3>3, <3>4, <3>5, RowPart
    <3> QED
      BY <3>6, <3>7
  <2>3. /\ s + WindowSize = Pos(c.write) /\ Pos(d.read) <= s
        /\ IsIndex(WindowStart(c)) /\ IsIndex(c.write)
    BY <1>4, <1>8, <2>6
  <2>4. Len(<< >>) = 0 /\ Len(<< >>) <= WindowSize
    BY HalfFacts
  <2>5. m # 0 /\ 1..Len(<< >>) = {}
    BY <1>2, <2>4
  <2> QED
    BY <1>5, <1>6, <2>2, <2>3, <2>4, <2>5, <2>6 DEF ReadInv
<1>13. ASSUME NEW n \in 1..3 PROVE StoreInv(n)' /\ JoinInv(n)'
  <2>1. CASE n = m
    <3>1. /\ Pos(d.read) <= Pos(d.write) /\ Pos(d.write) <= Pos(d.write)
          /\ Row(d, Pos(d.write), Pos(d.write))
      BY <1>7, SaneFacts DEF Sane, Row
    <3>2. StoreInv(n)'
      BY <1>5, <1>7, <1>9, <2>1, <3>1 DEF StoreInv
    <3>3. \A h : Joins(n, h)'
      BY <1>5, <1>9, <2>1 DEF Joins
    <3> QED
      BY <1>5, <1>9, <2>1, <3>2, <3>3 DEF JoinInv
  <2>2. CASE n # m
    <3>1. rings'[n] = rings[n] /\ analysis'.ring # n /\ analysis.ring # n
      BY <1>2, <1>5, <1>6, <2>2
    <3>2. StoreInv(n)'
      BY <1>1, <3>1, RingKept
    <3>3. JoinInv(n)'
      BY <1>1, <1>2, <3>1, JoinKept
    <3> QED
      BY <3>2, <3>3
  <2> QED
    BY <2>1, <2>2
<1> QED
  BY <1>10, <1>11, <1>12, <1>13 DEF WindowInv

\* Positions behind one that was reached were reached.
LEMMA ReachedBelow ==
    ASSUME NEW p \in Nat, NEW w \in Nat, p <= w, Reached(w) PROVE Reached(p)
BY HalfFacts DEF Reached

\* The frames it reads are those of the window it took.
LEMMA ReadFrameKeepsWindow == WindowInv /\ ReadFrame => WindowInv'
<1> SUFFICES ASSUME WindowInv, ReadFrame PROVE WindowInv'
  OBVIOUS
<1>1. /\ WindowTypes /\ CopyInv /\ ReadInv /\ \A n \in 1..3 : StoreInv(n) /\ JoinInv(n)
  BY DEF WindowInv
<1>0. PICK m, c, n : m = analysis.ring /\ c = rings[m] /\ n = Len(analysis.window)
  OBVIOUS
<1>2. /\ m \in 1..3 /\ analysis \in Reads /\ c \in Captures /\ n \in Nat /\ n < WindowSize
      /\ analysis.window \in Seq(Int)
      /\ UNCHANGED <<preparation, maximum, block, sound, capture, audio, rings>>
  <2>1. m # 0 /\ n < WindowSize
        /\ UNCHANGED <<preparation, maximum, block, sound, capture, audio, rings>>
    BY <1>0 DEF ReadFrame, analysisFrame, hostVars
  <2>2. m \in 0..3 /\ analysis \in Reads /\ analysis.window \in Seq(Int)
    BY <1>0, <1>1 DEF WindowTypes, Reads
  <2>3. c \in Captures
    BY <1>0, <1>1, <2>1, <2>2 DEF WindowTypes
  <2> QED
    BY <1>0, <2>1, <2>2, <2>3
<1> DEFINE x == Frame(c, analysis.start, n)
<1>3. analysis' = [analysis EXCEPT !.window = Append(@, x)]
  BY <1>0 DEF ReadFrame
<1>4. PICK s : s = Pos(analysis.start)
  OBVIOUS
<1>5. /\ IsIndex(analysis.start) /\ IsIndex(analysis.write) /\ s \in Nat
      /\ s + WindowSize = Pos(analysis.write) /\ Pos(c.read) <= s
      /\ \A i \in 1..n : analysis.window[i] = At(c, s + i - 1)
      /\ ~analysis.excused => Row(c, s, s + WindowSize)
  <2>1. /\ IsIndex(analysis.start) /\ IsIndex(analysis.write)
        /\ s + WindowSize = Pos(analysis.write) /\ Pos(c.read) <= s
        /\ \A i \in 1..n : analysis.window[i] = At(c, s + i - 1)
        /\ ~analysis.excused => Row(c, s, s + WindowSize)
    BY <1>0, <1>1, <1>2, <1>4, SMTT(30) DEF ReadInv
  <2>2. Pos(analysis.start) \in Nat
    BY <2>1, PosFacts
  <2> QED
    BY <1>4, <2>1, <2>2
<1>6. x = At(c, s + n) /\ x \in Int
  <2>1. PICK p \in Nat : p = s + n
    BY <1>2, <1>5
  <2>2. /\ StoreInv(m) /\ Sane(c) /\ Floor(m) = Pos(analysis.write)
    BY <1>0, <1>1, <1>2 DEF StoreInv, Floor
  <2>3. Pos(analysis.write) <= Pos(c.write) /\ Reached(Pos(c.write)) /\ Pos(c.write) \in Nat
    BY <1>0, <2>2, SaneFacts DEF StoreInv, Sane
  <2>4. Reached(p + 1)
    <3>1. p + 1 \in Nat /\ p + 1 <= Pos(c.write)
      BY <1>2, <1>5, <2>1, <2>3, HalfFacts
    <3> QED
      BY <2>3, <3>1, ReachedBelow
  <2>5. n \in 0..(Capacity - 1) /\ Pos(analysis.start) + n = p
    BY <1>2, <1>4, <2>1, HalfFacts
  <2>6. RingIndex(analysis.start, n) = Slot(p)
    BY <1>5, <2>4, <2>5, GetSlot
  <2>7. Slot(p) \in Indices
    BY SlotFacts
  <2>8. c.frames \in [Indices -> Int]
    BY <1>2 DEF Captures
  <2> QED
    BY <2>1, <2>6, <2>7, <2>8 DEF Frame, At
<1> HIDE DEF x
<1>7. PICK w : w = Append(analysis.window, x)
  OBVIOUS
<1>8. /\ w \in Seq(Int) /\ Len(w) = n + 1 /\ Len(w) <= WindowSize
      /\ \A i \in 1..Len(w) : w[i] = At(c, s + i - 1)
  <2>1. w \in Seq(Int) /\ Len(w) = n + 1 /\ w[n + 1] = x
        /\ \A i \in 1..n : w[i] = analysis.window[i]
    BY <1>0, <1>2, <1>6, <1>7
  <2>2. s + n = s + (n + 1) - 1
    BY <1>2, <1>5
  <2>3. ASSUME NEW i \in 1..(n + 1) PROVE w[i] = At(c, s + i - 1)
    <3>1. CASE i = n + 1
      BY <1>6, <2>1, <2>2, <3>1
    <3>2. CASE i \in 1..n
      BY <1>5, <2>1, <3>2
    <3> QED
      BY <1>2, <3>1, <3>2
  <2> QED
    BY <1>2, <2>1, <2>3, HalfFacts
<1>9. /\ analysis' \in Reads /\ analysis'.ring = analysis.ring
      /\ analysis'.start = analysis.start /\ analysis'.write = analysis.write
      /\ analysis'.window = w /\ analysis'.excused = analysis.excused
  <2>1. analysis' = [analysis EXCEPT !.window = w]
    BY <1>3, <1>7
  <2> QED
    BY <1>2, <1>8, <2>1 DEF Reads
<1>10. WindowTypes'
  BY <1>1, <1>2, <1>9 DEF WindowTypes
<1>11. CopyInv'
  <2>1. audio.ring # 0 => audio.ring \in 1..3
    BY <1>1 DEF WindowTypes, Chunks
  <2>2. audio.ring # 0 => IsIndex(rings[audio.ring].read)
    BY <1>1, <2>1 DEF StoreInv, Sane
  <2> QED
    BY <1>1, <1>2, <2>2, CopyKept
<1>12. ReadInv'
  <2>1. rings'[m] = c /\ analysis'.ring = m /\ m # 0
    BY <1>0, <1>2, <1>9
  <2>2. Pos(analysis'.start) = s /\ Pos(analysis'.write) = Pos(analysis.write)
    BY <1>4, <1>9
  <2> QED
    BY <1>5, <1>8, <1>9, <2>1, <2>2 DEF ReadInv
<1>13. ASSUME NEW i \in 1..3 PROVE StoreInv(i)' /\ JoinInv(i)'
  <2>1. rings'[i] = rings[i]
    BY <1>2
  <2>2. StoreInv(i)'
    BY <1>1, <1>9, <2>1, RingKept
  <2>3. JoinInv(i)'
    BY <1>1, <1>2, <1>9, <2>1, JoinKept
  <2> QED
    BY <2>2, <2>3
<1> QED
  BY <1>10, <1>11, <1>12, <1>13 DEF WindowInv

\* A window that was read gives its frames back.
LEMMA EndReadKeepsWindow == WindowInv /\ EndRead => WindowInv'
<1> SUFFICES ASSUME WindowInv, EndRead PROVE WindowInv'
  OBVIOUS
<1>1. /\ WindowTypes /\ CopyInv /\ ReadInv /\ \A n \in 1..3 : StoreInv(n) /\ JoinInv(n)
  BY DEF WindowInv
<1>0. PICK m, c, r : m = analysis.ring /\ c = rings[m] /\ r = analysis.write
  OBVIOUS
<1>2. /\ m \in 1..3 /\ c \in Captures /\ r \in Int
      /\ analysis' = Waiting
      /\ UNCHANGED <<preparation, maximum, block, sound, capture, audio>>
  <2>1. m # 0 /\ analysis' = Waiting
        /\ UNCHANGED <<preparation, maximum, block, sound, capture, audio>>
    BY <1>0 DEF EndRead, analysisFrame, hostVars
  <2>2. m \in 0..3 /\ r \in Int
    BY <1>0, <1>1 DEF WindowTypes, Reads
  <2>3. c \in Captures
    BY <1>0, <1>1, <2>1, <2>2 DEF WindowTypes
  <2> QED
    BY <2>1, <2>2, <2>3
<1>3. PICK d : d = [c EXCEPT !.read = r]
  OBVIOUS
<1>4. /\ d \in Captures /\ d.gap = c.gap /\ d.write = c.write /\ d.frames = c.frames
      /\ d.read = r
  BY <1>2, <1>3 DEF Captures
<1>5. PICK all : all = [rings EXCEPT ![m] = d]
  OBVIOUS
<1>6. /\ all \in [1..3 -> Captures] /\ all[m] = d
      /\ \A n \in 1..3 : n # m => all[n] = rings[n]
  BY <1>1, <1>2, <1>4, <1>5 DEF WindowTypes
<1>7. rings' = Collected(all, {capture, audio.ring})
  <2>1. Discard(c, r) = d
    BY <1>3 DEF Discard
  <2>2. rings' = Collected([rings EXCEPT ![m] = Discard(rings[m], r)], {capture, audio.ring})
    BY <1>0 DEF EndRead
  <2> QED
    BY <1>0, <1>5, <2>1, <2>2
<1>8. /\ rings' \in [1..3 -> Captures]
      /\ \A n \in 1..3 : /\ n \in {capture, audio.ring} => rings'[n] = all[n]
                         /\ n \notin {capture, audio.ring} => rings'[n] = NewCapture(0)
  BY <1>6, <1>7, CollectedFacts
<1>9. /\ analysis'.ring = 0 /\ analysis' \in Reads /\ analysis'.window = << >>
  <2>1. << >> \in Seq(Int) /\ 0 \in 0..3 /\ 0 \in Int /\ FALSE \in BOOLEAN
    OBVIOUS
  <2> QED
    BY <1>2, <2>1 DEF Waiting, Reads
<1>10. WindowTypes'
  BY <1>1, <1>2, <1>8, <1>9 DEF WindowTypes
<1>11. /\ Sane(c) /\ IsIndex(r) /\ Floor(m) = Pos(r)
       /\ Pos(c.read) <= Pos(r) /\ Pos(r) <= Pos(c.write) /\ Sane(d)
       /\ Pos(r) \in Nat /\ Pos(c.write) \in Nat /\ Pos(c.read) \in Nat
  <2>1. StoreInv(m) /\ Sane(c) /\ Floor(m) = Pos(r) /\ IsIndex(r)
    BY <1>0, <1>1, <1>2 DEF StoreInv, Floor, ReadInv
  <2>2. Pos(c.read) <= Pos(r) /\ Pos(r) <= Pos(c.write)
    BY <1>0, <2>1 DEF StoreInv
  <2>3. Pos(r) \in Nat /\ Pos(c.write) \in Nat /\ Pos(c.read) \in Nat /\ Capacity \in Nat
    BY <2>1, PosFacts, SaneFacts, HalfFacts
  <2>4. Pos(c.write) <= Pos(r) + Capacity
    BY <2>1, <2>2, <2>3 DEF Sane
  <2>5. Sane(d)
    BY <1>4, <2>1, <2>2, <2>4 DEF Sane
  <2> QED
    BY <2>1, <2>2, <2>3, <2>5
<1>12. \A n \in 1..3 : /\ all[n].write = rings[n].write /\ all[n].frames = rings[n].frames
                       /\ IsIndex(rings[n].read) /\ IsIndex(all[n].read)
                       /\ \/ all[n].read = rings[n].read
                          \/ Pos(rings[n].read) <= Pos(all[n].read)
  <2> TAKE n \in 1..3
  <2>1. IsIndex(rings[n].read)
    BY <1>1 DEF StoreInv, Sane
  <2>2. CASE n = m
    BY <1>0, <1>4, <1>6, <1>11, <2>1, <2>2
  <2>3. CASE n # m
    BY <1>6, <2>1, <2>3
  <2> QED
    BY <2>2, <2>3
<1>13. CopyInv'
  <2>1. audio.ring # 0 => audio.ring \in 1..3 /\ rings'[audio.ring] = all[audio.ring]
    BY <1>1, <1>8 DEF WindowTypes, Chunks
  <2> QED
    BY <1>1, <1>2, <1>12, <2>1, CopyKept
<1>14. ReadInv'
  BY <1>9 DEF ReadInv
<1>15. ASSUME NEW n \in 1..3 PROVE StoreInv(n)' /\ JoinInv(n)'
  <2>1. CASE n \notin {capture, audio.ring}
    <3>1. StoreInv(n)'
      <4>1. rings'[n] = NewCapture(0) /\ analysis'.ring # n
        BY <1>8, <1>9, <2>1
      <4> QED
        BY <4>1, RingFresh
    <3> QED
      BY <1>2, <2>1, <3>1 DEF JoinInv
  <2>2. CASE n \in {capture, audio.ring} /\ n # m
    <3>1. rings'[n] = rings[n] /\ analysis'.ring # n /\ analysis.ring # n
      BY <1>0, <1>6, <1>8, <1>9, <2>2
    <3>2. StoreInv(n)'
      BY <1>1, <3>1, RingKept
    <3>3. JoinInv(n)'
      BY <1>1, <1>2, <3>1, JoinKept
    <3> QED
      BY <3>2, <3>3
  <2>3. CASE n \in {capture, audio.ring} /\ n = m
    <3>1. rings'[n] = d /\ rings[n] = c /\ analysis.ring = n /\ analysis'.ring # n
      BY <1>0, <1>6, <1>8, <1>9, <2>3
    <3>2. Floor(n)' = Pos(r) /\ Floor(n) = Pos(r)
      BY <1>4, <1>11, <2>3, <3>1 DEF Floor
    <3>3. \A p : At(d, p) = At(c, p)
      BY <1>4 DEF At
    <3>4. StoreInv(n)'
      <4>1. ASSUME ~d.gap PROVE Row(d, Pos(r), Pos(d.write))
        <5>1. Row(c, Pos(r), Pos(c.write))
          BY <1>1, <1>4, <3>1, <3>2, <4>1 DEF StoreInv
        <5> QED
          BY <1>4, <3>3, <5>1 DEF Row
      <4>2. Pos(d.read) <= Pos(r) /\ Pos(r) <= Pos(d.write)
        BY <1>4, <1>11
      <4> QED
        BY <1>11, <3>1, <3>2, <4>1, <4>2 DEF StoreInv
    <3>5. \A h : Joins(n, h) => Joins(n, h)'
      <4> TAKE h
      <4> HAVE Joins(n, h)
      <4>1. c.gap \/ Floor(n) = Pos(c.write) \/ At(c, Pos(c.write) - 1) = h
        BY <3>1 DEF Joins
      <4>2. d.gap \/ Floor(n)' = Pos(d.write) \/ At(d, Pos(d.write) - 1) = h
        BY <1>4, <3>2, <3>3, <4>1
      <4> QED
        BY <3>1, <4>2 DEF Joins
    <3>6. Joins(n, sound) => Joins(n, sound)'
      BY <1>2, <3>5 DEF Joins
    <3>7. Joins(n, sound + audio.count) => Joins(n, sound + audio.count)'
      BY <1>2, <3>5 DEF Joins
    <3>8. (rings[n].gap \/ Floor(n) = Pos(rings[n].write)) =>
            (rings[n].gap \/ Floor(n) = Pos(rings[n].write))'
      BY <1>4, <3>1, <3>2
    <3>9. Busy' <=> Busy
      BY <1>2 DEF Busy
    <3>10. JoinInv(n)'
      BY <1>1, <1>2, <3>6, <3>7, <3>8, <3>9 DEF JoinInv
    <3> QED
      BY <3>4, <3>10
  <2> QED
    BY <2>1, <2>2, <2>3
<1> QED
  BY <1>10, <1>13, <1>14, <1>15 DEF WindowInv

\* A ring that only gets a gap.
SameFrames(n) ==
    /\ rings'[n].write = rings[n].write /\ rings'[n].read = rings[n].read
    /\ rings'[n].frames = rings[n].frames
    /\ rings[n].gap => rings'[n].gap

\* A step that stores and reads no frame leaves windows and joins alone.
LEMMA SameFramesFacts ==
    ASSUME WindowInv, analysis' = analysis, \A n \in 1..3 : SameFrames(n)
    PROVE  /\ ReadInv'
           /\ \A n \in 1..3 : /\ StoreInv(n)' /\ Floor(n)' = Floor(n)
                              /\ \A h : Joins(n, h) => Joins(n, h)'
                              /\ \A p : At(rings'[n], p) = At(rings[n], p)
<1>1. \A n \in 1..3 : \A p : At(rings'[n], p) = At(rings[n], p)
  BY DEF At, SameFrames
<1>2. \A n \in 1..3 : Floor(n)' = Floor(n)
  BY DEF Floor, SameFrames
<1>3. ReadInv'
  <2>1. analysis.ring # 0 => analysis.ring \in 1..3
    BY DEF WindowInv, WindowTypes, Reads
  <2> QED
    BY <2>1, ReadKept DEF WindowInv, SameFrames
<1>4. ASSUME NEW n \in 1..3 PROVE StoreInv(n)'
  <2>0. PICK c, d : c = rings[n] /\ d = rings'[n]
    OBVIOUS
  <2>1. /\ d.read = c.read /\ d.write = c.write /\ (c.gap => d.gap)
        /\ \A p : At(d, p) = At(c, p)
    BY <1>1, <2>0 DEF SameFrames
  <2>2. \A i, j : Row(c, i, j) => Row(d, i, j)
    BY <2>1 DEF Row
  <2>3. Sane(c) => Sane(d)
    BY <2>1 DEF Sane
  <2> QED
    BY <1>2, <2>0, <2>1, <2>2, <2>3 DEF WindowInv, StoreInv
<1>5. ASSUME NEW n \in 1..3, NEW h, Joins(n, h) PROVE Joins(n, h)'
  <2>0. PICK c, d : c = rings[n] /\ d = rings'[n]
    OBVIOUS
  <2>1. /\ d.read = c.read /\ d.write = c.write /\ (c.gap => d.gap)
        /\ At(d, Pos(c.write) - 1) = At(c, Pos(c.write) - 1) /\ Floor(n)' = Floor(n)
    BY <1>1, <1>2, <2>0 DEF SameFrames
  <2>2. \/ c.gap \/ Floor(n) = Pos(c.write)
        \/ At(c, Pos(c.write) - 1) = h
        \/ Pos(c.write) = Pos(c.read) + Capacity /\ analysis.ring # n
    BY <1>5, <2>0 DEF Joins
  <2>3. \/ d.gap \/ Floor(n)' = Pos(d.write)
        \/ At(d, Pos(d.write) - 1) = h
        \/ Pos(d.write) = Pos(d.read) + Capacity /\ analysis'.ring # n
    BY <2>1, <2>2
  <2> QED
    BY <2>0, <2>3 DEF Joins
<1> QED
  BY <1>1, <1>2, <1>3, <1>4, <1>5

\* A chunk that is taken without a demand is missed and leaves a gap.
LEMMA TakeChunkKeepsWindow == WindowInv /\ TakeChunk => WindowInv'
<1> SUFFICES ASSUME WindowInv, TakeChunk PROVE WindowInv'
  OBVIOUS
<1>1. /\ WindowTypes /\ CopyInv /\ ReadInv /\ \A n \in 1..3 : StoreInv(n) /\ JoinInv(n)
  BY DEF WindowInv
<1>0. PICK m, step, ring : /\ m = capture
                           /\ step = IF demanded /\ capture # 0 THEN "space" ELSE "runtime"
                           /\ ring = IF demanded THEN capture ELSE 0
  OBVIOUS
<1>2. /\ audio.step = "between" /\ audio \in Chunks /\ m \in 0..3 /\ audio.written = 0
      /\ step \in {"space", "runtime"} /\ ring \in {0, m} /\ (step = "space" => ring # 0)
      /\ (m # 0 /\ ring # m => ~demanded) /\ (ring # 0 /\ step = "runtime" => FALSE)
      /\ UNCHANGED <<preparation, maximum, block, sound, capture, analysis>>
  <2>1. /\ audio.step = "between"
        /\ UNCHANGED <<preparation, maximum, block, sound, capture, analysis>>
    BY DEF TakeChunk, audioFrame, viewFrame, hostVars
  <2>2. audio \in Chunks /\ m \in 0..3
    BY <1>0, <1>1 DEF WindowTypes
  <2>3. audio.written = 0
    BY <1>1, <2>1 DEF CopyInv
  <2>4. /\ step \in {"space", "runtime"} /\ ring \in {0, m} /\ (step = "space" => ring # 0)
        /\ (m # 0 /\ ring # m => ~demanded) /\ (ring # 0 /\ step = "runtime" => FALSE)
    BY <1>0
  <2> QED
    BY <2>1, <2>2, <2>3, <2>4
<1>3. /\ audio' \in Chunks /\ audio'.step = step /\ audio'.ring = ring /\ audio'.written = 0
  <2>1. PICK n : n = Chunk
    OBVIOUS
  <2>2. n \in Int
    BY <1>1, <2>1 DEF Chunk, WindowTypes
  <2>3. audio' = [audio EXCEPT !.count = n, !.step = step, !.ring = ring]
    BY <1>0, <2>1 DEF TakeChunk
  <2>4. ring \in 0..3 /\ step \in AudioSteps /\ audio \in Chunks
    BY <1>2 DEF AudioSteps
  <2>5. PICK o, a : o = audio /\ a = audio'
    OBVIOUS
  <2>6. o \in Chunks /\ a = [o EXCEPT !.count = n, !.step = step, !.ring = ring]
    BY <2>3, <2>4, <2>5
  <2>7. /\ a \in Chunks /\ a.count = n /\ a.step = step /\ a.ring = ring
        /\ a.written = o.written
    BY <2>2, <2>4, <2>6 DEF Chunks
  <2> QED
    BY <1>2, <2>5, <2>7
<1>4. /\ rings' \in [1..3 -> Captures] /\ \A n \in 1..3 : SameFrames(n)
      /\ m # 0 /\ ring # m => rings'[m].gap \/ rings[m].write = rings[m].read
  <2>0. PICK d : d = [rings[m] EXCEPT !.gap = TRUE]
    OBVIOUS
  <2>1. \/ rings' = rings /\ (m # 0 /\ ring # m => rings[m].write = rings[m].read)
        \/ m # 0 /\ rings' = [rings EXCEPT ![m] = d]
    BY <1>0, <1>2, <2>0 DEF TakeChunk
  <2>2. rings \in [1..3 -> Captures]
    BY <1>1 DEF WindowTypes
  <2>3. CASE rings' = rings /\ (m # 0 /\ ring # m => rings[m].write = rings[m].read)
    BY <2>2, <2>3 DEF SameFrames
  <2>4. CASE m # 0 /\ rings' = [rings EXCEPT ![m] = d]
    <3>1. m \in 1..3 /\ rings[m] \in Captures
      BY <1>2, <2>2, <2>4
    <3>2. /\ d \in Captures /\ d.gap /\ d.write = rings[m].write /\ d.read = rings[m].read
          /\ d.frames = rings[m].frames
      <4>1. d \in Captures
        BY <2>0, <3>1, GapType
      <4> QED
        BY <2>0, <3>1, <4>1 DEF Captures
    <3>3. rings' \in [1..3 -> Captures] /\ rings'[m] = d
          /\ \A n \in 1..3 : n # m => rings'[n] = rings[n]
      BY <2>2, <2>4, <3>1, <3>2
    <3> QED
      BY <3>2, <3>3 DEF SameFrames
  <2> QED
    BY <2>1, <2>3, <2>4
<1>5. WindowTypes'
  BY <1>1, <1>2, <1>3, <1>4 DEF WindowTypes
<1>6. CopyInv'
  BY <1>2, <1>3 DEF CopyInv
<1>7. ReadInv' /\ \A n \in 1..3 : /\ StoreInv(n)' /\ Floor(n)' = Floor(n)
                                  /\ \A h : Joins(n, h) => Joins(n, h)'
  BY <1>2, <1>4, SameFramesFacts
<1>8. ASSUME NEW n \in 1..3 PROVE JoinInv(n)'
  <2>1. CASE n = m /\ ring = m
    <3>1. Joins(n, sound)
      BY <1>0, <1>1, <1>2, <2>1 DEF JoinInv, Busy
    <3>2. Joins(n, sound)'
      BY <1>2, <1>7, <3>1 DEF Joins
    <3>3. step = "space"
      BY <1>2, <2>1
    <3> QED
      BY <1>0, <1>2, <1>3, <2>1, <3>2, <3>3 DEF JoinInv, Busy
  <2>2. CASE n = m /\ ring # m
    <3>1. rings'[n].gap \/ Floor(n)' = Pos(rings'[n].write)
      <4>1. ASSUME rings[n].write = rings[n].read PROVE Floor(n) = Pos(rings[n].write)
        <5>1. /\ Pos(rings[n].read) <= Floor(n) /\ Floor(n) <= Pos(rings[n].write)
              /\ Pos(rings[n].write) \in Nat /\ Sane(rings[n])
          BY <1>1, SaneFacts DEF StoreInv
        <5>2. Floor(n) \in Int
          <6>1. analysis.ring = n => IsIndex(analysis.write)
            BY <1>1 DEF ReadInv
          <6> QED
            BY <5>1, <6>1, PosFacts, SaneFacts DEF Floor
        <5> QED
          BY <4>1, <5>1, <5>2
      <4> QED
        BY <1>4, <1>7, <2>2, <4>1 DEF SameFrames
    <3> QED
      BY <1>0, <1>2, <1>3, <2>2, <3>1 DEF JoinInv, Busy
  <2>3. CASE n # m
    BY <1>0, <1>2, <1>3, <2>3 DEF JoinInv
  <2> QED
    BY <2>1, <2>2, <2>3
<1> QED
  BY <1>5, <1>6, <1>7, <1>8 DEF WindowInv

\* The audio thread looks how much room the ring has.
LEMMA ReadSpaceKeepsWindow == WindowInv /\ ReadSpace => WindowInv'
<1> SUFFICES ASSUME WindowInv, ReadSpace PROVE WindowInv'
  OBVIOUS
<1>1. /\ WindowTypes /\ CopyInv /\ ReadInv /\ \A n \in 1..3 : StoreInv(n) /\ JoinInv(n)
  BY DEF WindowInv
<1>0. PICK m, c, a, u : /\ m = audio.ring /\ c = rings[m]
                        /\ a = c.read /\ u = Writable(c, audio.count)
  OBVIOUS
<1>2. /\ audio.step = "space" /\ audio \in Chunks /\ m \in 1..3 /\ audio.written = 0
      /\ audio' = [audio EXCEPT !.step = "copy", !.read = a, !.writable = u]
      /\ UNCHANGED <<preparation, maximum, block, sound, capture, analysis, rings>>
  <2>1. /\ audio.step = "space"
        /\ audio' = [audio EXCEPT !.step = "copy", !.read = a, !.writable = u]
        /\ UNCHANGED <<preparation, maximum, block, sound, capture, analysis, rings>>
    BY <1>0 DEF ReadSpace, audioFrame, viewFrame, hostVars
  <2>2. audio \in Chunks /\ m # 0 /\ audio.written = 0
    BY <1>0, <1>1, <2>1 DEF WindowTypes, CopyInv
  <2> QED
    BY <1>0, <2>1, <2>2 DEF Chunks
<1>3. PICK w, r, k : w = Pos(c.write) /\ r = Pos(a) /\ k = audio.count
  OBVIOUS
<1>4. /\ w \in Nat /\ r \in Nat /\ k \in Int /\ Backlog(c) = w - r /\ IsIndex(a) /\ a \in Int
      /\ Reached(w) /\ Pos(c.read) = r /\ Pos(c.write) = w
  <2>1. Sane(c)
    BY <1>0, <1>1, <1>2 DEF StoreInv
  <2>2. k \in Int
    BY <1>2, <1>3 DEF Chunks
  <2> QED
    BY <1>0, <1>3, <2>1, <2>2, SaneFacts DEF Sane
<1>5. u \in Int /\ u <= k /\ w + u <= r + Capacity /\ (u < k => w + u = r + Capacity)
  <2>1. u = IF k < Capacity - (w - r) THEN k ELSE Capacity - (w - r)
    BY <1>0, <1>3, <1>4 DEF Writable
  <2> QED
    BY <1>4, <2>1, HalfFacts
<1>6. /\ audio' \in Chunks /\ audio'.step = "copy" /\ audio'.read = a /\ audio'.writable = u
      /\ audio'.ring = m /\ audio'.count = k /\ audio'.written = 0
  BY <1>0, <1>2, <1>3, <1>4, <1>5 DEF Chunks, AudioSteps
<1>7. WindowTypes'
  BY <1>1, <1>2, <1>6 DEF WindowTypes
<1>8. CopyInv'
  <2>1. /\ m # 0 /\ rings'[m] = c /\ Pos(c.write) = w /\ Pos(a) <= Pos(c.read) /\ Pos(a) = r
        /\ w + 0 = w /\ 0..(0 - 1) = {}
    BY <1>0, <1>2, <1>4
  <2> QED
    BY <1>4, <1>5, <1>6, <2>1 DEF CopyInv
<1>9. ReadInv'
  BY <1>1, <1>2, ReadKept
<1>10. ASSUME NEW n \in 1..3 PROVE StoreInv(n)' /\ JoinInv(n)'
  <2>1. StoreInv(n)' /\ Floor(n)' = Floor(n) /\ \A h : Joins(n, h) => Joins(n, h)'
    BY <1>1, <1>2, RingKept
  <2>2. Joins(n, sound) => Joins(n, sound)'
    BY <1>2, <2>1 DEF Joins
  <2>3. Busy /\ Busy'
    BY <1>2, <1>6 DEF Busy
  <2>4. JoinInv(n)'
    BY <1>0, <1>1, <1>2, <1>6, <2>1, <2>2, <2>3 DEF JoinInv
  <2> QED
    BY <2>1, <2>4
<1> QED
  BY <1>7, <1>8, <1>9, <1>10 DEF WindowInv

\* A position is a number that a frame before it can be told from.
LEMMA FloorFacts ==
    ASSUME NEW n \in 1..3, ReadInv, StoreInv(n)
    PROVE  /\ Floor(n) \in Nat /\ Pos(rings[n].read) \in Nat /\ Pos(rings[n].write) \in Nat
           /\ Pos(rings[n].read) <= Floor(n) /\ Floor(n) <= Pos(rings[n].write)
<1>1. Sane(rings[n])
  BY DEF StoreInv
<1>2. Pos(rings[n].read) \in Nat /\ Pos(rings[n].write) \in Nat
  BY <1>1, SaneFacts
<1>3. analysis.ring = n => IsIndex(analysis.write)
  BY DEF ReadInv
<1>4. Floor(n) \in Nat
  BY <1>2, <1>3, PosFacts DEF Floor
<1> QED
  BY <1>2, <1>4 DEF StoreInv

\* One frame more in a ring, at a position behind the last one.
LEMMA FrameStored ==
    ASSUME NEW c \in Captures, NEW p \in Nat, NEW v \in Int, NEW d,
           d = [c EXCEPT !.frames[Slot(p)] = v]
    PROVE  /\ d \in Captures /\ d.write = c.write /\ d.read = c.read /\ d.gap = c.gap
           /\ At(d, p) = v
           /\ \A q \in Nat : q < p /\ p < q + Capacity => At(d, q) = At(c, q)
<1>1. PICK f, g : f = c.frames /\ g = [c.frames EXCEPT ![Slot(p)] = v]
  OBVIOUS
<1>2. d = [c EXCEPT !.frames = g]
  BY <1>1
<1>3. Slot(p) \in Indices /\ \A q \in Nat : q < p /\ p < q + Capacity => Slot(q) # Slot(p)
  BY SlotFacts
<1>4. f \in [Indices -> Int]
  BY <1>1 DEF Captures
<1>5. g \in [Indices -> Int] /\ g[Slot(p)] = v /\ \A i \in Indices : i # Slot(p) => g[i] = f[i]
  BY <1>1, <1>3, <1>4
<1>6. /\ d \in Captures /\ d.write = c.write /\ d.read = c.read /\ d.gap = c.gap
      /\ d.frames = g
  BY <1>2, <1>5 DEF Captures
<1>7. At(d, p) = v
  BY <1>5, <1>6 DEF At
<1>8. ASSUME NEW q \in Nat, q < p, p < q + Capacity PROVE At(d, q) = At(c, q)
  <2>1. Slot(q) \in Indices /\ Slot(q) # Slot(p)
    BY <1>3, <1>8, SlotFacts
  <2> QED
    BY <1>1, <1>5, <1>6, <2>1 DEF At
<1> QED
  BY <1>6, <1>7, <1>8

\* An index at its end: the rest of the chunk is lost.
LEMMA LostChunkKeepsWindow ==
    ASSUME WindowInv, audio.step = "copy",
           rings' = [rings EXCEPT ![audio.ring] = [@ EXCEPT !.gap = TRUE]],
           audio' = [audio EXCEPT !.step = "runtime"],
           UNCHANGED <<preparation, maximum, block, sound, capture, analysis>>
    PROVE  WindowInv'
<1>1. /\ WindowTypes /\ CopyInv /\ ReadInv /\ \A n \in 1..3 : StoreInv(n) /\ JoinInv(n)
  BY DEF WindowInv
<1>0. PICK m, d : m = audio.ring /\ d = [rings[m] EXCEPT !.gap = TRUE]
  OBVIOUS
<1>2. /\ m \in 1..3 /\ audio \in Chunks /\ rings \in [1..3 -> Captures] /\ rings[m] \in Captures
  BY <1>0, <1>1 DEF WindowTypes, CopyInv, Chunks
<1>3. /\ d \in Captures /\ d.gap /\ d.write = rings[m].write /\ d.read = rings[m].read
      /\ d.frames = rings[m].frames
  <2>1. d \in Captures
    BY <1>0, <1>2, GapType
  <2> QED
    BY <1>0, <1>2, <2>1 DEF Captures
<1>4. rings' \in [1..3 -> Captures] /\ rings'[m] = d
      /\ \A n \in 1..3 : n # m => rings'[n] = rings[n]
  BY <1>0, <1>2, <1>3
<1>5. \A n \in 1..3 : SameFrames(n)
  BY <1>3, <1>4 DEF SameFrames
<1>6. /\ audio' \in Chunks /\ audio'.step = "runtime" /\ audio'.ring = m
      /\ audio'.count = audio.count
  BY <1>0, <1>2 DEF Chunks, AudioSteps
<1>7. WindowTypes'
  BY <1>1, <1>4, <1>6 DEF WindowTypes
<1>8. CopyInv'
  BY <1>6 DEF CopyInv
<1>9. /\ ReadInv'
      /\ \A n \in 1..3 : /\ StoreInv(n)' /\ Floor(n)' = Floor(n)
                         /\ \A h : Joins(n, h) => Joins(n, h)'
  BY <1>5, SameFramesFacts
<1>10. Busy /\ Busy'
  BY <1>6 DEF Busy
<1>11. ASSUME NEW n \in 1..3 PROVE JoinInv(n)'
  <2>1. CASE n = m
    <3>1. Joins(n, sound + audio.count)'
      BY <1>3, <1>4, <2>1 DEF Joins
    <3> QED
      BY <1>6, <1>10, <2>1, <3>1 DEF JoinInv
  <2>2. CASE n # m
    BY <1>0, <1>1, <1>4, <1>6, <1>9, <1>10, <2>2 DEF JoinInv
  <2> QED
    BY <2>1, <2>2
<1> QED
  BY <1>7, <1>8, <1>9, <1>11 DEF WindowInv

\* A frame behind those that were captured before.
LEMMA CopiedFrameKeepsWindow ==
    ASSUME WindowInv, audio.step = "copy", audio.written < audio.writable,
           RingIndex(rings[audio.ring].write, audio.written) \in Indices,
           rings' = [rings EXCEPT ![audio.ring] =
                        Put(@, audio.written, sound + audio.written + 1)],
           audio' = [audio EXCEPT !.written = @ + 1],
           UNCHANGED <<preparation, maximum, block, sound, capture, analysis>>
    PROVE  WindowInv'
<1>1. /\ WindowTypes /\ CopyInv /\ ReadInv /\ \A n \in 1..3 : StoreInv(n) /\ JoinInv(n)
  BY DEF WindowInv
<1>0. PICK m, c, k, w, r, a, u :
         /\ m = audio.ring /\ c = rings[m] /\ k = audio.written /\ u = audio.writable
         /\ w = Pos(c.write) /\ r = Pos(c.read) /\ a = Pos(audio.read)
  OBVIOUS
<1>2. /\ m \in 1..3 /\ audio \in Chunks /\ rings \in [1..3 -> Captures] /\ c \in Captures
      /\ k \in Nat /\ u \in Int /\ k < u /\ sound \in Int
  BY <1>0, <1>1 DEF WindowTypes, CopyInv, Chunks
<1>3. /\ IsIndex(audio.read) /\ a <= r /\ w + u <= a + Capacity /\ Reached(w + k)
      /\ \A j \in 0..(k - 1) : At(c, w + j) = sound + j + 1
      /\ audio.writable <= audio.count
      /\ audio.writable < audio.count => w + u = a + Capacity
  BY <1>0, <1>1 DEF CopyInv
<1>4. /\ Sane(c) /\ IsIndex(c.write) /\ w \in Nat /\ r \in Nat /\ a \in Nat /\ r <= w
      /\ Pos(c.write) = w
  <2>1. Sane(c) /\ Pos(audio.read) \in Nat
    BY <1>0, <1>1, <1>2, <1>3, PosFacts DEF StoreInv
  <2> QED
    BY <1>0, <2>1, SaneFacts DEF Sane
<1>5. PICK p \in Nat : p = w + k
  BY <1>2, <1>4
<1>6. p < r + Capacity /\ w <= p /\ k \in 0..(Capacity - 1)
  BY <1>2, <1>3, <1>4, <1>5, HalfFacts
<1>7. RingIndex(c.write, k) = Slot(p) /\ Reached(p + 1)
  <2>1. RingIndex(c.write, k) \in Indices /\ Reached(p) /\ Pos(c.write) + k = p
    BY <1>0, <1>3, <1>4, <1>5
  <2> QED
    BY <1>4, <1>6, <2>1, PutSlot
<1>8. PICK d : d = [c EXCEPT !.frames[Slot(p)] = sound + k + 1]
  OBVIOUS
<1>9. /\ d \in Captures /\ d.write = c.write /\ d.read = c.read /\ d.gap = c.gap
      /\ At(d, p) = sound + k + 1
      /\ \A q \in Nat : q < p /\ p < q + Capacity => At(d, q) = At(c, q)
  <2>1. sound + k + 1 \in Int
    BY <1>2
  <2> QED
    BY <1>2, <1>5, <1>8, <2>1, FrameStored
<1>10. \A q \in Int : r <= q /\ q < p => At(d, q) = At(c, q)
  <2> SUFFICES ASSUME NEW q \in Int, r <= q, q < p PROVE At(d, q) = At(c, q)
    OBVIOUS
  <2>1. q \in Nat /\ p < q + Capacity
    BY <1>4, <1>6, HalfFacts
  <2> QED
    BY <1>9, <2>1
<1>11. rings' \in [1..3 -> Captures] /\ rings'[m] = d
       /\ \A n \in 1..3 : n # m => rings'[n] = rings[n]
  <2>1. Put(c, k, sound + k + 1) = d
    BY <1>7, <1>8 DEF Put
  <2>2. rings' = [rings EXCEPT ![m] = d]
    BY <1>0, <2>1
  <2> QED
    BY <1>2, <1>9, <2>2
<1>12. /\ audio' \in Chunks /\ audio'.step = "copy" /\ audio'.ring = m
       /\ audio'.count = audio.count /\ audio'.written = k + 1 /\ audio'.writable = u
       /\ audio'.read = audio.read
  BY <1>0, <1>2 DEF Chunks
<1>13. WindowTypes'
  BY <1>1, <1>11, <1>12 DEF WindowTypes
<1>14. CopyInv'
  <2>1. \A j \in 0..((k + 1) - 1) : At(d, w + j) = sound + j + 1
    <3> TAKE j \in 0..((k + 1) - 1)
    <3>1. CASE j = k
      BY <1>5, <1>9, <3>1
    <3>2. CASE j # k
      <4>1. j \in 0..(k - 1) /\ w + j \in Int /\ r <= w + j /\ w + j < p
        BY <1>2, <1>4, <1>5, <3>2
      <4> QED
        BY <1>3, <1>10, <4>1
    <3> QED
      BY <3>1, <3>2
  <2>2. Reached(w + (k + 1))
    <3>1. w + (k + 1) = p + 1
      BY <1>2, <1>4, <1>5
    <3> QED
      BY <1>7, <3>1
  <2>3. Pos(d.write) = w /\ Pos(d.read) = r /\ m # 0 /\ Pos(audio'.read) = a
    BY <1>0, <1>2, <1>9, <1>12
  <2> QED
    BY <1>0, <1>3, <1>11, <1>12, <2>1, <2>2, <2>3 DEF CopyInv
<1>15. \A n \in 1..3 : Floor(n)' = Floor(n)
  <2> TAKE n \in 1..3
  <2>1. rings'[n].read = rings[n].read
    BY <1>0, <1>9, <1>11
  <2> QED
    BY <2>1 DEF Floor
<1>16. PICK f : f = Floor(m)
  OBVIOUS
<1>17. f \in Nat /\ r <= f /\ f <= w
  BY <1>0, <1>1, <1>2, <1>16, FloorFacts
<1>18. \A l, h \in Int : r <= l /\ h <= w /\ Row(c, l, h) => Row(d, l, h)
  <2> TAKE l, h \in Int
  <2> HAVE r <= l /\ h <= w /\ Row(c, l, h)
  <2>1. \A q \in Int : l <= q /\ q < h => At(d, q) = At(c, q)
    BY <1>4, <1>6, <1>10
  <2>2. l <= l /\ h <= h
    OBVIOUS
  <2> QED
    BY <2>1, <2>2, RowPart
<1>19. StoreInv(m)'
  <2>1. ASSUME ~d.gap PROVE Row(d, f, w)
    <3>1. Row(c, f, w)
      BY <1>0, <1>1, <1>2, <1>9, <1>16, <2>1 DEF StoreInv
    <3> QED
      BY <1>4, <1>17, <1>18, <3>1
  <2>2. Sane(d)
    BY <1>4, <1>9 DEF Sane
  <2> QED
    BY <1>2, <1>0, <1>9, <1>11, <1>15, <1>16, <1>17, <2>1, <2>2 DEF StoreInv
<1>20. \A h : Joins(m, h) => Joins(m, h)'
  <2> TAKE h
  <2> HAVE Joins(m, h)
  <2>1. CASE f = w
    BY <1>2, <1>0, <1>9, <1>11, <1>15, <1>16, <2>1 DEF Joins
  <2>2. CASE f # w
    <3>1. w - 1 \in Int /\ r <= w - 1 /\ w - 1 < p
      BY <1>4, <1>6, <1>17, <2>2
    <3>2. At(d, w - 1) = At(c, w - 1)
      BY <1>10, <3>1
    <3>3. c.gap \/ At(c, w - 1) = h \/ (w = r + Capacity /\ analysis.ring # m)
      BY <1>0, <1>16, <2>2 DEF Joins
    <3>4. /\ Pos(d.write) = w /\ Pos(d.read) = r
      BY <1>0, <1>9
    <3> QED
      BY <1>9, <1>11, <3>2, <3>3, <3>4 DEF Joins
  <2> QED
    BY <2>1, <2>2
<1>21. ReadInv'
  <2>1. CASE analysis.ring = m
    <3>0. PICK s, x : s = Pos(analysis.start) /\ x = analysis.window
      OBVIOUS
    <3>1. /\ IsIndex(analysis.start) /\ IsIndex(analysis.write)
          /\ s + WindowSize = Pos(analysis.write) /\ r <= s
          /\ Len(x) <= WindowSize
          /\ \A i \in 1..Len(x) : x[i] = At(c, s + i - 1)
          /\ ~analysis.excused => Row(c, s, s + WindowSize)
      BY <1>0, <1>1, <1>2, <2>1, <3>0 DEF ReadInv
    <3>2. s \in Nat /\ f = Pos(analysis.write)
      <4>1. Pos(analysis.start) \in Nat
        BY <3>1, PosFacts
      <4> QED
        BY <1>16, <2>1, <3>0, <4>1 DEF Floor
    <3>3. s + WindowSize <= w /\ s + WindowSize \in Int /\ Len(x) \in Nat
      <4>1. x \in Seq(Int)
        BY <1>1, <3>0 DEF WindowTypes, Reads
      <4> QED
        BY <1>17, <3>1, <3>2, <4>1, HalfFacts
    <3>4. \A i \in 1..Len(x) : x[i] = At(d, s + i - 1)
      <4> TAKE i \in 1..Len(x)
      <4>1. i \in Int /\ 1 <= i /\ i <= WindowSize
        BY <3>1, <3>3, HalfFacts
      <4>2. /\ s \in Int /\ r \in Int /\ w \in Int /\ WindowSize \in Int
            /\ r <= s /\ s + WindowSize <= w
        BY <1>4, <3>1, <3>2, <3>3, HalfFacts
      <4>3. s + i - 1 \in Int /\ r <= s + i - 1 /\ s + i - 1 < p
        BY <1>6, <4>1, <4>2
      <4> QED
        BY <1>10, <3>1, <4>3
    <3>5. ~analysis.excused => Row(d, s, s + WindowSize)
      BY <1>18, <3>1, <3>2, <3>3
    <3>6. Pos(d.read) = r
      BY <1>0, <1>9
    <3> QED
      BY <1>2, <1>11, <2>1, <3>0, <3>1, <3>4, <3>5, <3>6 DEF ReadInv
  <2>2. CASE analysis.ring # m
    <3>1. analysis.ring # 0 => rings'[analysis.ring] = rings[analysis.ring]
      BY <1>1, <1>11, <2>2 DEF WindowTypes, Reads
    <3> QED
      BY <1>1, <3>1, ReadKept
  <2> QED
    BY <2>1, <2>2
<1>22. Busy /\ Busy'
  BY <1>12 DEF Busy
<1>23. ASSUME NEW n \in 1..3 PROVE StoreInv(n)' /\ JoinInv(n)'
  <2>1. StoreInv(n)' /\ \A h : Joins(n, h) => Joins(n, h)'
    BY <1>1, <1>11, <1>19, <1>20, RingKept
  <2>2. Joins(n, sound) => Joins(n, sound)'
    BY <2>1 DEF Joins
  <2>3. rings[n].gap \/ Floor(n) = Pos(rings[n].write) =>
          rings'[n].gap \/ Floor(n)' = Pos(rings'[n].write)
    BY <1>0, <1>9, <1>11, <1>15
  <2>4. JoinInv(n)'
    BY <1>0, <1>1, <1>12, <1>22, <2>2, <2>3 DEF JoinInv
  <2> QED
    BY <2>1, <2>4
<1> QED
  BY <1>13, <1>14, <1>21, <1>23 DEF WindowInv

\* A frame is stored where no window is being read.
LEMMA CopyFrameKeepsWindow == WindowInv /\ CopyFrame => WindowInv'
<1> SUFFICES ASSUME WindowInv, CopyFrame PROVE WindowInv'
  OBVIOUS
<1>1. /\ audio.step = "copy" /\ audio.written < audio.writable
      /\ UNCHANGED <<preparation, maximum, block, sound, capture, analysis>>
  BY DEF CopyFrame, audioFrame, viewFrame, hostVars
<1>2. CASE RingIndex(rings[audio.ring].write, audio.written) \in Indices
  BY <1>1, <1>2, CopiedFrameKeepsWindow DEF CopyFrame
<1>3. CASE RingIndex(rings[audio.ring].write, audio.written) \notin Indices
  BY <1>1, <1>3, LostChunkKeepsWindow DEF CopyFrame
<1> QED
  BY <1>2, <1>3

\* Frames dropped leave a gap; behind frames that are not dropped the sound goes on.
LEMMA PublishKeepsWindow == WindowInv /\ PublishWrite => WindowInv'
<1> SUFFICES ASSUME WindowInv, PublishWrite PROVE WindowInv'
  OBVIOUS
<1>1. /\ WindowTypes /\ CopyInv /\ ReadInv /\ \A n \in 1..3 : StoreInv(n) /\ JoinInv(n)
  BY DEF WindowInv
<1>0. PICK m, c, u, k, w, r, a, i :
         /\ m = audio.ring /\ c = rings[m] /\ u = audio.writable /\ k = audio.count
         /\ w = Pos(c.write) /\ r = Pos(c.read) /\ a = Pos(audio.read)
         /\ i = Wrapped(c.write + u)
  OBVIOUS
<1>4. /\ audio.step = "copy" /\ audio.written = u
      /\ audio' = [audio EXCEPT !.step = "runtime"]
      /\ UNCHANGED <<preparation, maximum, block, sound, capture, analysis>>
  BY <1>0 DEF PublishWrite, audioFrame, viewFrame, hostVars
<1>5. /\ m \in 1..3 /\ audio \in Chunks /\ rings \in [1..3 -> Captures] /\ c \in Captures
      /\ u \in Nat /\ k \in Int /\ sound \in Int /\ c.gap \in BOOLEAN
  <2>1. m \in 1..3 /\ audio \in Chunks /\ u \in Nat /\ k \in Int /\ sound \in Int
    BY <1>0, <1>1, <1>4 DEF WindowTypes, CopyInv, Chunks
  <2>2. rings \in [1..3 -> Captures] /\ c \in Captures
    BY <1>0, <1>1, <2>1 DEF WindowTypes
  <2> QED
    BY <2>1, <2>2 DEF Captures
<1>2. PICK e : e = PublishFrames(c, u)
  OBVIOUS
<1>3. PICK cut : cut = (u < k /\ (\/ analysis.ring = m /\ analysis.write # e.write
                                 \/ c.read # audio.read))
  OBVIOUS
<1>6. PICK d : d = [e EXCEPT !.gap = @ \/ cut]
  OBVIOUS
<1>7. /\ IsIndex(audio.read) /\ a <= r /\ w + u <= a + Capacity /\ Reached(w + u)
      /\ \A j \in 0..(u - 1) : At(c, w + j) = sound + j + 1
      /\ u <= k /\ (u < k => w + u = a + Capacity)
  BY <1>0, <1>1, <1>4 DEF CopyInv
<1>8. /\ Sane(c) /\ IsIndex(c.write) /\ IsIndex(c.read) /\ w \in Nat /\ r \in Nat /\ a \in Nat
      /\ r <= w /\ Pos(c.write) = w
  <2>1. Sane(c) /\ Pos(audio.read) \in Nat
    BY <1>0, <1>1, <1>5, <1>7, PosFacts DEF StoreInv
  <2> QED
    BY <1>0, <2>1, SaneFacts DEF Sane
<1>9. IsIndex(i) /\ Pos(i) = w + u /\ i \in Int
  <2>1. w + u \in 0..(Half + 1) /\ u \in Int
    BY <1>5, <1>7 DEF Reached
  <2>2. Pos(c.write) + u \in 0..(Half + 1)
    BY <1>8, <2>1
  <2>3. IsIndex(Wrapped(c.write + u)) /\ Pos(Wrapped(c.write + u)) = Pos(c.write) + u
    BY <1>8, <2>1, <2>2, Advance
  <2> QED
    BY <1>0, <1>8, <2>3, PosFacts
<1>10. /\ d \in Captures /\ d.write = i /\ d.read = c.read /\ d.frames = c.frames
       /\ (d.gap <=> c.gap \/ cut)
       /\ (cut <=> u < k /\ (\/ analysis.ring = m /\ analysis.write # i
                           \/ c.read # audio.read))
  <2>1. e = [c EXCEPT !.write = i]
    BY <1>0, <1>2 DEF PublishFrames
  <2>2. /\ e \in Captures /\ e.write = i /\ e.read = c.read /\ e.frames = c.frames
        /\ e.gap = c.gap
    BY <1>5, <1>9, <2>1 DEF Captures
  <2>3. PICK gap \in BOOLEAN : gap = (e.gap \/ cut)
    OBVIOUS
  <2>4. d = [e EXCEPT !.gap = gap]
    BY <1>6, <2>3
  <2>5. d \in Captures /\ d.write = i /\ d.read = c.read /\ d.frames = c.frames /\ d.gap = gap
    BY <2>2, <2>3, <2>4 DEF Captures
  <2>6. gap <=> c.gap \/ cut
    BY <2>2, <2>3
  <2>7. cut <=> u < k /\ (\/ analysis.ring = m /\ analysis.write # i
                        \/ c.read # audio.read)
    BY <1>3, <2>2
  <2> QED
    BY <2>5, <2>6, <2>7
<1>11. rings' \in [1..3 -> Captures] /\ rings'[m] = d
       /\ \A n \in 1..3 : n # m => rings'[n] = rings[n]
  <2>1. rings' = [rings EXCEPT ![m] = d]
    BY <1>0, <1>2, <1>3, <1>6 DEF PublishWrite
  <2> QED
    BY <1>5, <1>10, <2>1
<1>12. /\ audio' \in Chunks /\ audio'.step = "runtime" /\ audio'.ring = m /\ audio'.count = k
  BY <1>0, <1>4, <1>5 DEF Chunks, AudioSteps
<1>13. WindowTypes'
  BY <1>1, <1>4, <1>11, <1>12 DEF WindowTypes
<1>14. CopyInv'
  BY <1>12 DEF CopyInv
<1>15. ReadInv'
  <2>1. analysis.ring # 0 => analysis.ring \in 1..3
    BY <1>1 DEF WindowTypes, Reads
  <2>2. \A n \in 1..3 : rings'[n].read = rings[n].read /\ rings'[n].frames = rings[n].frames
    BY <1>0, <1>10, <1>11
  <2> QED
    BY <1>1, <1>4, <2>1, <2>2, ReadKept
<1>16. \A p : At(d, p) = At(c, p)
  BY <1>10 DEF At
<1>17. PICK f : f = Floor(m)
  OBVIOUS
<1>18. f \in Nat /\ r <= f /\ f <= w /\ Floor(m)' = f
  <2>1. f \in Nat /\ r <= f /\ f <= w
    BY <1>0, <1>1, <1>5, <1>17, FloorFacts
  <2>2. Floor(m)' = Floor(m)
    BY <1>0, <1>4, <1>10, <1>11 DEF Floor
  <2> QED
    BY <1>17, <2>1, <2>2
<1>19. Joins(m, sound)
  BY <1>0, <1>1, <1>4, <1>5 DEF JoinInv
<1>20. StoreInv(m)'
  <2>1. Sane(d)
    <3>1. r <= w + u /\ w + u <= r + Capacity
      BY <1>5, <1>7, <1>8, HalfFacts
    <3> QED
      BY <1>0, <1>7, <1>8, <1>9, <1>10, <3>1 DEF Sane
  <2>2. ASSUME ~d.gap PROVE Row(d, f, w + u)
    <3>1. Row(c, f, w) /\ ~c.gap
      BY <1>0, <1>1, <1>5, <1>10, <1>17, <2>2 DEF StoreInv
    <3>2. ASSUME NEW p \in f..((w + u) - 2) PROVE At(c, p + 1) = At(c, p) + 1
      <4>1. p \in Int
        BY <1>18
      <4>2. CASE p < w - 1
        <5>1. p \in f..(w - 2)
          BY <1>8, <1>18, <4>1, <4>2
        <5> QED
          BY <3>1, <5>1 DEF Row
      <4>3. CASE p = w - 1
        <5>1. f # w /\ u > 0 /\ w # r + Capacity /\ 0 \in 0..(u - 1)
          BY <1>5, <1>7, <1>8, <1>18, <4>3, HalfFacts
        <5>2. At(c, w - 1) = sound
          BY <1>0, <1>17, <1>19, <3>1, <5>1 DEF Joins
        <5>3. At(c, w + 0) = sound + 0 + 1
          BY <1>7, <5>1
        <5>4. w + 0 = p + 1 /\ sound + 0 + 1 = sound + 1
          BY <1>5, <1>8, <4>3
        <5> QED
          BY <4>3, <5>2, <5>3, <5>4
      <4>4. CASE p > w - 1
        <5>1. PICK j \in Int : j = p - w
          BY <1>8, <4>1
        <5>2. /\ j \in 0..(u - 1) /\ j + 1 \in 0..(u - 1) /\ p = w + j /\ p + 1 = w + (j + 1)
              /\ sound + (j + 1) + 1 = (sound + j + 1) + 1
          BY <1>5, <1>8, <1>18, <4>1, <4>4, <5>1
        <5> QED
          BY <1>7, <5>2
      <4> QED
        BY <1>8, <4>1, <4>2, <4>3, <4>4
    <3>3. ASSUME NEW p \in f..((w + u) - 2) PROVE At(d, p + 1) = At(d, p) + 1
      <4>1. At(d, p + 1) = At(c, p + 1) /\ At(d, p) = At(c, p)
        BY <1>16
      <4> QED
        BY <3>2, <4>1
    <3> QED
      BY <3>3 DEF Row
  <2>3. /\ Pos(d.read) = r /\ Pos(d.write) = w + u /\ r <= f /\ f <= w + u
    BY <1>0, <1>5, <1>8, <1>9, <1>10, <1>18
  <2> QED
    BY <1>11, <1>18, <2>1, <2>2, <2>3 DEF StoreInv
<1>21. Joins(m, sound + k)'
  <2>1. /\ Pos(d.read) = r /\ Pos(d.write) = w + u
    BY <1>0, <1>9, <1>10
  <2>2. \/ d.gap \/ f = w + u
        \/ At(d, (w + u) - 1) = sound + k
        \/ w + u = r + Capacity /\ analysis.ring # m
    <3>1. CASE d.gap
      BY <3>1
    <3>2. CASE ~d.gap /\ u < k
      <4>1. ~cut
        BY <1>10, <3>2
      <4>2. c.read = audio.read /\ (analysis.ring = m => analysis.write = i)
        BY <1>10, <3>2, <4>1
      <4>3. w + u = r + Capacity
        BY <1>0, <1>7, <3>2, <4>2
      <4>4. analysis.ring = m => f = w + u
        BY <1>9, <1>17, <4>2 DEF Floor
      <4> QED
        BY <4>3, <4>4
    <3>3. CASE ~d.gap /\ u = k /\ u = 0
      <4>1. w + u = w /\ sound + k = sound /\ ~c.gap
        BY <1>5, <1>8, <1>10, <3>3
      <4>2. f = w \/ At(c, w - 1) = sound \/ (w = r + Capacity /\ analysis.ring # m)
        BY <1>0, <1>17, <1>19, <4>1 DEF Joins
      <4> QED
        BY <1>16, <4>1, <4>2
    <3>4. CASE ~d.gap /\ u = k /\ u # 0
      <4>1. /\ u - 1 \in 0..(u - 1) /\ w + (u - 1) = (w + u) - 1
            /\ sound + (u - 1) + 1 = sound + k
        BY <1>5, <1>8, <3>4
      <4>2. At(c, w + (u - 1)) = sound + (u - 1) + 1
        BY <1>7, <4>1
      <4> QED
        BY <1>16, <4>1, <4>2
    <3>5. u < k \/ u = k
      BY <1>5, <1>7
    <3> QED
      BY <3>1, <3>2, <3>3, <3>4, <3>5
  <2> QED
    BY <1>4, <1>11, <1>18, <2>1, <2>2 DEF Joins
<1>22. Busy /\ Busy'
  BY <1>4, <1>12 DEF Busy
<1>23. ASSUME NEW n \in 1..3 PROVE StoreInv(n)' /\ JoinInv(n)'
  <2>1. CASE n = m
    <3>1. n = audio'.ring /\ audio'.step = "runtime" /\ audio'.count = k
      BY <1>12, <2>1
    <3>2. Joins(n, sound + audio.count)'
      BY <1>12, <1>21, <2>1
    <3> QED
      BY <1>20, <1>22, <2>1, <3>1, <3>2 DEF JoinInv
  <2>2. CASE n # m
    <3>1. StoreInv(n)' /\ Floor(n)' = Floor(n)
      BY <1>1, <1>4, <1>11, <2>2, RingKept
    <3>2. JoinInv(n)'
      BY <1>0, <1>1, <1>4, <1>11, <1>12, <1>22, <2>2, <3>1 DEF JoinInv
    <3> QED
      BY <3>1, <3>2
  <2> QED
    BY <2>1, <2>2
<1> QED
  BY <1>13, <1>14, <1>15, <1>23 DEF WindowInv

\* The runtime processes the chunk and the sound goes on.
LEMMA RunChunkKeepsWindow == WindowInv /\ RunChunk => WindowInv'
<1> SUFFICES ASSUME WindowInv, RunChunk PROVE WindowInv'
  OBVIOUS
<1>1. /\ WindowTypes /\ CopyInv /\ ReadInv /\ \A n \in 1..3 : StoreInv(n) /\ JoinInv(n)
  BY DEF WindowInv
<1>2. /\ audio.step = "runtime" /\ audio' = Between /\ block' = block - audio.count
      /\ sound' = IF capture # 0 THEN sound + audio.count ELSE sound
      /\ rings' = Collected(rings, {capture, analysis.ring})
      /\ UNCHANGED <<maximum, preparation, capture, analysis>>
  BY DEF RunChunk, viewFrame
<1>3. /\ audio \in Chunks /\ rings \in [1..3 -> Captures] /\ audio.count \in Int
      /\ sound \in Int /\ block \in Int
  BY <1>1 DEF WindowTypes, Chunks
<1>4. /\ rings' \in [1..3 -> Captures]
      /\ \A n \in 1..3 : /\ n \in {capture, analysis.ring} => rings'[n] = rings[n]
                         /\ n \notin {capture, analysis.ring} => rings'[n] = NewCapture(0)
  BY <1>2, <1>3, CollectedFacts
<1>5. audio'.ring = 0 /\ audio'.step = "between" /\ audio'.written = 0 /\ ~Busy' /\ Busy
  BY <1>2 DEF Between, Busy
<1>6. WindowTypes'
  <2>1. sound' \in Int /\ block' \in Int
    BY <1>2, <1>3
  <2> QED
    BY <1>1, <1>2, <1>4, <2>1, BetweenType DEF WindowTypes
<1>7. CopyInv'
  BY <1>5 DEF CopyInv
<1>8. ReadInv'
  <2>1. analysis.ring # 0 => analysis.ring \in 1..3
    BY <1>1 DEF WindowTypes, Reads
  <2> QED
    BY <1>1, <1>2, <1>4, <2>1, ReadKept
<1>9. ASSUME NEW n \in 1..3 PROVE StoreInv(n)' /\ JoinInv(n)'
  <2>1. CASE n \notin {capture, analysis.ring}
    <3>1. rings'[n] = NewCapture(0) /\ analysis'.ring # n
      BY <1>2, <1>4, <2>1
    <3>2. StoreInv(n)'
      BY <3>1, RingFresh
    <3> QED
      BY <1>2, <1>5, <2>1, <3>2 DEF JoinInv
  <2>2. CASE n \in {capture, analysis.ring}
    <3>1. rings'[n] = rings[n]
      BY <1>4, <2>2
    <3>2. StoreInv(n)' /\ \A h : Joins(n, h) => Joins(n, h)'
      BY <1>1, <1>2, <3>1, RingKept
    <3>3. PICK h : h = sound + audio.count
      OBVIOUS
    <3>4. ASSUME n = capture PROVE Joins(n, h) /\ sound' = h
      <4>1. CASE audio.ring = n
        BY <1>1, <1>2, <3>3, <3>4, <4>1 DEF JoinInv
      <4>2. CASE audio.ring # n
        <5>1. rings[n].gap \/ Floor(n) = Pos(rings[n].write)
          BY <1>1, <1>5, <3>4, <4>2 DEF JoinInv
        <5> QED
          BY <1>2, <3>3, <3>4, <5>1 DEF Joins
      <4> QED
        BY <4>1, <4>2
    <3>5. n = capture => Joins(n, sound)'
      BY <3>2, <3>4 DEF Joins
    <3>6. JoinInv(n)'
      BY <1>2, <1>5, <3>5 DEF JoinInv
    <3> QED
      BY <3>2, <3>6
  <2> QED
    BY <2>1, <2>2
<1> QED
  BY <1>6, <1>7, <1>8, <1>9 DEF WindowInv

\* At first there is no ring and no window.
LEMMA InitHasNoWindow == HostInit => WindowInv
<1> SUFFICES ASSUME HostInit PROVE WindowInv
  OBVIOUS
<1>1. /\ audio = Between /\ sound = 0 /\ block = 0 /\ maximum = 0 /\ preparation = 0
      /\ rings = [n \in 1..3 |-> Blank] /\ capture = 0 /\ analysis = Waiting
  BY DEF HostInit
<1>2. analysis.ring = 0 /\ analysis.window = << >> /\ analysis \in Reads
  <2>1. << >> \in Seq(Int) /\ 0 \in 0..3 /\ 0 \in Int /\ FALSE \in BOOLEAN
    OBVIOUS
  <2> QED
    BY <1>1, <2>1 DEF Waiting, Reads
<1>3. rings \in [1..3 -> Captures] /\ \A n \in 1..3 : rings[n] = NewCapture(0)
  BY <1>1, NewCaptureType DEF Blank
<1>4. WindowTypes
  BY <1>1, <1>2, <1>3, BetweenType DEF WindowTypes
<1>5. audio.ring = 0 /\ audio.step = "between" /\ audio.written = 0 /\ CopyInv /\ ReadInv
  BY <1>1, <1>2 DEF Between, CopyInv, ReadInv
<1>6. ASSUME NEW n \in 1..3 PROVE StoreInv(n)
  <2>1. PICK c : c = NewCapture(0)
    OBVIOUS
  <2>2. c.write = 0 /\ c.read = 0 /\ rings[n] = c
    BY <1>3, <2>1 DEF NewCapture
  <2>3. IsIndex(0) /\ Pos(0) = 0 /\ Reached(0)
    BY HalfFacts DEF IsIndex, Pos, Reached
  <2>4. Floor(n) = 0
    BY <1>2, <2>2, <2>3 DEF Floor
  <2>5. Sane(c) /\ Row(c, 0, 0)
    BY <2>2, <2>3, HalfFacts DEF Sane, Row
  <2> QED
    BY <2>2, <2>3, <2>4, <2>5 DEF StoreInv
<1>7. \A n \in 1..3 : JoinInv(n)
  BY <1>1, <1>5 DEF JoinInv
<1> QED
  BY <1>4, <1>5, <1>6, <1>7 DEF WindowInv

\* Every window of the spectrum is of frames that were heard in a row, for a ring and
\* a window of any size and blocks of any length, however captures are made, given
\* up and read in between, but for the windows that are excused.
THEOREM WindowsAreWhole == HostSpec => []WindowIsWhole
<1>1. WindowInv /\ [HostNext]_hostAudioVars => WindowInv'
  <2> SUFFICES ASSUME WindowInv, [HostNext]_hostAudioVars PROVE WindowInv'
    OBVIOUS
  <2>1. CASE UNCHANGED hostAudioVars \/ PublishSnapshot
    BY <2>1, QuietWindowSteps
  <2>2. CASE Host
    BY <2>2, PrepareKeepsWindow, CreateKeepsWindow, QuietWindowSteps DEF Host
  <2>3. CASE AudioThread
    BY <2>3, TakeChunkKeepsWindow, ReadSpaceKeepsWindow, CopyFrameKeepsWindow,
       PublishKeepsWindow, RunChunkKeepsWindow DEF AudioThread
  <2>4. CASE Analyze
    BY <2>4, BeginReadKeepsWindow, ReadFrameKeepsWindow, EndReadKeepsWindow DEF Analyze
  <2>5. CASE Control
    <3>1. CASE \E t \in {"worker", "message"} :
                 ReadView(t) \/ PrepareCapture(t) \/ ExchangeDemand(t) \/ RemoveCapture(t)
      BY <3>1, PrepareCaptureKeepsWindow, RemoveKeepsWindow, QuietWindowSteps DEF Threads
    <3>2. CASE \E v \in Viewers : Activate(v) \/ Deactivate(v) \/ ChangeView(v) \/ Unregister(v)
      BY <3>2, QuietWindowSteps
    <3>3. CASE Turn \/ Detach \/ TopologyChanged
      BY <3>3, QuietWindowSteps
    <3> QED
      BY <2>5, <3>1, <3>2, <3>3 DEF Control
  <2> QED
    BY <2>1, <2>2, <2>3, <2>4, <2>5 DEF HostNext
<1>2. WindowInv => WindowIsWhole
  <2> SUFFICES ASSUME WindowInv, Len(analysis.window) = WindowSize, ~analysis.excused
               PROVE  Whole(analysis.window)
    BY DEF WindowIsWhole
  <2>1. PICK x, c, s : /\ x = analysis.window /\ c = rings[analysis.ring]
                       /\ s = Pos(analysis.start)
    OBVIOUS
  <2>2. x \in Seq(Int) /\ Len(x) \in Nat /\ Len(x) = WindowSize /\ Len(x) # 0
    BY <2>1, HalfFacts DEF WindowInv, WindowTypes, Reads
  <2>3. analysis.ring # 0
    BY <2>1, <2>2 DEF WindowInv, ReadInv
  <2>4. /\ \A i \in 1..Len(x) : x[i] = At(c, s + i - 1)
        /\ Row(c, s, s + WindowSize) /\ IsIndex(analysis.start)
    BY <2>1, <2>3 DEF WindowInv, ReadInv
  <2>5. s \in Int
    BY <2>1, <2>4, PosFacts
  <2>6. ASSUME NEW n \in 1..(Len(x) - 1) PROVE x[n + 1] = x[n] + 1
    <3>1. PICK p \in Int : p = s + n - 1
      BY <2>5
    <3>2. /\ n \in 1..Len(x) /\ n + 1 \in 1..Len(x) /\ s + (n + 1) - 1 = p + 1
          /\ p \in s..((s + WindowSize) - 2)
      BY <2>2, <2>5, <3>1
    <3>3. At(c, p + 1) = At(c, p) + 1
      BY <2>4, <3>2 DEF Row
    <3> QED
      BY <2>4, <3>1, <3>2, <3>3
  <2> QED
    BY <2>1, <2>6 DEF Whole
<1> QED
  BY <1>1, <1>2, InitHasNoWindow, PTL DEF HostSpec
=============================================================================
