SPECIFICATION Spec
CONSTANTS
    Top = 3
    Rough = 2
    Handles = {"bell", "shelf"}
    Context <- MCContext
    Equalizer = "equalizer"
    Gain <- MCGain
    Q <- MCQ
    None = None
    Dials = {"level", "attack"}
    Leveled = {"level"}
    Measured = {}
    Timed = {"attack"}
    Timing = {0}
    Leveler = "leveler"
    Type = "type"
    MaxActs = 2
    MaxMoves = 1
    MaxEvents = 1
    MaxFaults = 1
    MaxTogether = 4
INVARIANTS
    GestureHeld
    ShownIsAccepted
PROPERTY EditingReturns
CHECK_DEADLOCK FALSE
