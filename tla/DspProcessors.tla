---------------------------- MODULE DspProcessors -----------------------------
(***************************************************************************)
(* One processor of the native sound path as its device drives it: prepared   *)
(* for a sample rate, given controls, run sample by sample and reset, in any   *)
(* order.  Which processor and which control mode is chosen initially.         *)
(*                                                                          *)
(* Two hazards are common to all of them.  A processor computes coefficients   *)
(* once and keeps them under cached keys, so that a control, a mode or a        *)
(* sample rate that changes without its key changing leaves a coefficient       *)
(* stale.  And it keeps histories of the sound it has heard, so that a reset    *)
(* which misses a register lets the past back in.                               *)
(***************************************************************************)
EXTENDS LevelProcessors

CONSTANTS Models,          \* the processors explored
          Rates,           \* sample rates, small positive numbers
          ControlLevels,   \* the values of a ramped control
          Filters,         \* the filters a cascade may be set to
          MaxSet           \* controls away from the lowest level at a time

Processors == {"Cla76", "Cla2a", "Cla3a", "Ssl", "Saturation", "Transient", "Air", "Thick",
               "Leveler", "Limiter", "Cascade"}

\* No control takes the value that stands for a key not computed yet, and a manual
\* gain is one the leveler may have (StateValueDefinitions.cs gives both -36..36).
ASSUME ModelAssumption == Models \subseteq Processors
ASSUME ControlAssumption ==
    ControlLevels \subseteq 0..(SslInvalidThreshold - 1) \cap MinimumGainDb..MaximumGainDb

Optical == {"Cla2a", "Cla3a"}
Switches == {"enabled", "fastAttack"}
LowestLevel == CHOOSE x \in ControlLevels : \A y \in ControlLevels : x <= y

Controls(model) ==
    CASE model = "Cla76"      -> {"reduction", "inputGain", "outputGain", "attack", "release",
                                  "ratioControl"}
      [] model \in Optical    -> {"reduction", "gain"}
      [] model = "Ssl"        -> {"output", "ratio", "release", "threshold", "fastAttack"}
      [] model = "Saturation" -> {"drive", "curve", "split"}
      [] model = "Transient"  -> {"attack", "sustain", "output"}
      [] model = "Leveler"    -> {"targetDb", "manualGainDb", "enabled"}
      [] model = "Limiter"    -> {"ceilingDb"}
      [] OTHER                -> {"amount"}

Lowest(control) == IF control \in Switches THEN 0 ELSE LowestLevel

Settings(model) ==
    IF model = "Cascade" THEN [filter : Filters, enabled : BOOLEAN]
    ELSE {c \in [Controls(model) -> ControlLevels \cup {0, 1}] :
            /\ \A n \in Controls(model) :
                 c[n] \in IF n \in Switches THEN {0, 1} ELSE ControlLevels
            /\ Cardinality({n \in Controls(model) : c[n] # Lowest(n)}) <= MaxSet}

Modes(model) == IF model \in Optical \cup {"Cla76", "Ssl"} THEN BOOLEAN ELSE {FALSE}

New(model, emu) ==
    CASE model = "Cla76"      -> Cla76New(emu)
      [] model = "Cla2a"      -> Cla2aNew(emu)
      [] model = "Cla3a"      -> Cla3aNew(emu)
      [] model = "Ssl"        -> SslNew(emu)
      [] model = "Saturation" -> SaturationNew
      [] model = "Transient"  -> TransientNew
      [] model = "Air"        -> AirNew
      [] model = "Thick"      -> ThickNew
      [] model = "Leveler"    -> LevelerNew
      [] model = "Limiter"    -> LimiterNew
      [] OTHER                -> Blank("Cascade", FALSE, {}, {}, {}, {}, {}) ++
                                 [cascade |-> Cascade]

PrepareModel(p, rate) ==
    CASE p.kind = "Cla76"      -> Cla76Prepare(p, rate)
      [] p.kind = "Cla2a"      -> Cla2aPrepare(p, rate)
      [] p.kind = "Cla3a"      -> Cla3aPrepare(p, rate)
      [] p.kind = "Ssl"        -> SslPrepare(p, rate)
      [] p.kind = "Saturation" -> SaturationPrepare(p, rate)
      [] p.kind = "Transient"  -> TransientPrepare(p, rate)
      [] p.kind = "Air"        -> AirPrepare(p, rate)
      [] p.kind = "Thick"      -> ThickPrepare(p, rate)
      [] p.kind = "Leveler"    -> LevelerPrepare(p, rate)
      [] p.kind = "Limiter"    -> LimiterPrepare(p, rate)
      [] OTHER                 -> [p EXCEPT !.rate = rate,
                                            !.cascade = CascadePrepare(@, rate)]

ResetModel(p) ==
    CASE p.kind = "Cla76"      -> Cla76Reset(p)
      [] p.kind = "Cla2a"      -> Cla2aReset(p)
      [] p.kind = "Cla3a"      -> Cla3aReset(p)
      [] p.kind = "Ssl"        -> SslReset(p)
      [] p.kind = "Saturation" -> SaturationReset(p)
      [] p.kind = "Transient"  -> TransientReset(p)
      [] p.kind = "Air"        -> AirReset(p)
      [] p.kind = "Thick"      -> ThickReset(p)
      [] p.kind = "Leveler"    -> LevelerReset(p)
      [] p.kind = "Limiter"    -> LimiterReset(p)
      [] OTHER                 -> [p EXCEPT !.now = Unset, !.cascade = CascadeReset(@)]

SetModel(q, c) ==
    LET p == [q EXCEPT !.set = c]
    IN  CASE p.kind = "Cla76"      -> Cla76SetControls(p, c)
          [] p.kind \in Optical    -> OpticalSetControls(p, c)
          [] p.kind = "Ssl"        -> SslSetControls(p, c)
          [] p.kind = "Saturation" -> SaturationSetControls(p, c)
          [] p.kind = "Transient"  -> TransientSetControls(p, c)
          [] p.kind = "Air"        -> AirSetAmount(p, c)
          [] p.kind = "Thick"      -> ThickSetAmount(p, c)
          [] p.kind = "Leveler"    -> LevelerSetControls(p, c)
          [] p.kind = "Limiter"    -> LimiterSetControls(p, c)
          [] OTHER -> [p EXCEPT !.cascade = CascadeSetParameters(@, c.filter, c.enabled)]

RunModel(p, loud) ==
    CASE p.kind = "Cla76"      -> Cla76Process(p, loud)
      [] p.kind = "Cla2a"      -> Cla2aProcess(p, loud)
      [] p.kind = "Cla3a"      -> Cla3aProcess(p, loud)
      [] p.kind = "Ssl"        -> SslProcess(p, loud)
      [] p.kind = "Saturation" -> SaturationProcess(p, loud)
      [] p.kind = "Transient"  -> TransientProcess(p, loud)
      [] p.kind = "Air"        -> AirProcess(p, loud)
      [] p.kind = "Thick"      -> ThickProcess(p, loud)
      [] p.kind = "Leveler"    -> LevelerProcess(p, loud)
      [] p.kind = "Limiter"    -> LimiterProcess(p, loud)
      [] OTHER                 -> [p EXCEPT !.now = << >>, !.cascade = CascadeProcess(@, loud)]

WantedOf(p) ==
    CASE p.kind = "Cla76"      -> Cla76Wanted(p, p.now)
      [] p.kind = "Cla2a"      -> Cla2aWanted(p, p.now)
      [] p.kind = "Cla3a"      -> Cla3aWanted(p, p.now)
      [] p.kind = "Ssl"        -> SslWanted(p, p.now)
      [] p.kind = "Saturation" -> SaturationWanted(p.now)
      [] p.kind = "Transient"  -> TransientWanted(p.now)
      [] p.kind = "Air"        -> AirWanted(p.now)
      [] p.kind = "Thick"      -> ThickWanted(p.now)
      [] p.kind = "Leveler"    -> LevelerWanted(p.now)
      [] OTHER                 -> LimiterWanted(p.now)

\* The runtime prepares, applies the snapshot it has and resets; the first
\* snapshot is likewise applied and followed by a reset.
Prepared(p, rate, c) == ResetModel(SetModel(PrepareModel(p, rate), c))

----------------------------------------------------------------------------

VARIABLE proc

vars == <<proc>>

Init == \E model \in Models : \E emu \in Modes(model), c \in Settings(model), rate \in Rates :
           proc = Prepared(New(model, emu), rate, c)

Prepare(rate) == proc' = Prepared(proc, rate, proc.set)

Reset == proc' = ResetModel(proc)

SetControls(c) == proc.set # c /\ proc' = SetModel(proc, c)

\* A block of one frame of the given loudness.
Process(loud) == proc' = RunModel(proc, loud)

Next == \/ \E rate \in Rates : Prepare(rate)
        \/ Reset
        \/ \E c \in Settings(proc.kind) : SetControls(c)
        \/ \E loud \in 0..2 : Process(loud)

Spec == Init /\ [][Next]_vars

----------------------------------------------------------------------------
(* Properties.                                                               *)

\* Every coefficient a sample was processed with was computed from the
\* controls, the mode and the sample rate that sample saw, however the cached
\* keys let the processor skip the computation.
CoefficientsCurrent ==
    proc.now # Unset =>
      IF proc.kind = "Cascade"
      THEN LET compiled == Compile(proc.cascade.filter, proc.cascade.enabled, proc.rate)
           IN  /\ proc.cascade.target.coef = compiled.coef
               /\ Transitioning(proc.cascade) \/ proc.cascade.current.coef = compiled.coef
      ELSE proc.coef = WantedOf(proc)

\* A reset forgets: whatever has been heard, set and skipped before, a processor
\* that is reset is, and sounds on from there, like one made anew for the same
\* sample rate and controls.
ResetForgets ==
    LET twin == Prepared(New(proc.kind, proc.emu), proc.rate, proc.set)
        past == ResetModel(proc)
    IN  /\ past.mem = twin.mem
        /\ RunModel(past, 0) = RunModel(twin, 0)

\* Switching the leveler on or off never makes the gain jump: every block
\* starts at the gain the block before it ended with, and the gain that is
\* reported as a slow and a fast part is the gain applied.
LevelerSeamless ==
    proc.kind = "Leveler" =>
      /\ "startGain" \in DOMAIN proc.now => proc.now.startGain = proc.now.previousGain
      /\ proc.flag.enabled = 0 => proc.ramp.manualGainDb.current = proc.mem.effective
      /\ proc.mem.effective = proc.mem.slow + proc.mem.fast

\* The controls and every ramp stay in their ranges, the leveler's gain in its
\* own through every hand-over, and the range left for its fast part is never
\* empty (std::clamp is undefined for one); a value kept beside the one it is
\* computed from agrees with it: the contour gain of Air with the held peak, the
\* decibels of the shaper's peak with its amplitude.
ValuesInRange ==
    /\ proc.rate \in Rates /\ proc.set \in Settings(proc.kind)
    /\ \A n \in DOMAIN proc.ramp :
         /\ proc.ramp[n].left \in 0..RampLength
         /\ \E low, high \in ControlLevels \cup {0, MinimumGainDb, MaximumGainDb} :
              proc.ramp[n].current \in low..high /\ proc.ramp[n].target \in low..high
    /\ proc.kind = "Air" => proc.mem.linearLevelGain = proc.mem.inputPeak
    /\ proc.kind = "Transient" => proc.mem.peakDb = proc.mem.peak
    /\ proc.kind = "Leveler" =>
         /\ proc.mem.effective \in MinimumGainDb..MaximumGainDb
         /\ Higher(-MaximumFastCorrectionDb, MinimumGainDb - proc.mem.slow)
              <= Lower(MaximumFastCorrectionDb, MaximumGainDb - proc.mem.slow)

\* A change of a filter crossfades the old and the new output: neither a sample
\* nor a change changes any path's share of the output by more than one step.
\* A change that arrives during a crossfade is excepted: it drops the outgoing
\* path at once.
CrossfadeGradual ==
    [][ proc.kind = "Cascade" /\ proc'.now # Unset /\
        (proc'.set = proc.set \/ ~Transitioning(proc.cascade)) =>
          LET before == Shares(proc.cascade)
              after  == Shares(proc'.cascade)
              share(f, path) == IF path \in DOMAIN f THEN f[path] ELSE 0
          IN  \A path \in DOMAIN before \cup DOMAIN after :
                share(after, path) - share(before, path) \in -1..1 ]_vars
=============================================================================
