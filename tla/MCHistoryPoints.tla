--------------------------- MODULE MCHistoryPoints ---------------------------
(***************************************************************************)
(* Two instances: the least that makes a group of more than one member.    *)
(***************************************************************************)
EXTENDS HistoryPoints

CONSTANTS a, b, gain

MCInstances == {a, b}
MCHistoryFields == {gain}
MCPlainFields == {}
MCVal == {0, 1}
=============================================================================
