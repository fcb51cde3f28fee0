--------------------------- MODULE MCStateHistory ---------------------------
(***************************************************************************)
(* Two instances, each with one history value and one plain value, and a   *)
(* ring of three slots, so that the oldest point is overwritten and the    *)
(* ring wraps around while two points can be undone.                       *)
(***************************************************************************)
EXTENDS StateHistory, TLC

CONSTANTS a, b, gain, mute

MCInstances == {a, b}
MCHistoryFields == {gain}
MCPlainFields == {mute}
MCVal == {0, 1}

Symmetry == Permutations(MCInstances)
=============================================================================
