--------------------------- MODULE MCDspProcessors ----------------------------
(* The processors on ramps of two samples and crossfades of three.             *)
EXTENDS DspProcessors

MCModels == Processors
MCLevels == {0, 2}

Bell(gain) == [type |-> "Bell", active |-> TRUE, gain |-> gain, usable |-> TRUE]
MCFilters == {NoFilter, Bell(0), Bell(1), Bell(2),
              [Bell(1) EXCEPT !.type = "Tilt"], [Bell(1) EXCEPT !.type = "Gain"],
              [Bell(1) EXCEPT !.usable = FALSE]}
MCMinimumGainDb == -1
=============================================================================
