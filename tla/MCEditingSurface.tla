--------------------------- MODULE MCEditingSurface ---------------------------
(* A strip with a dial the leveler takes over, one that only a type of             *)
(* compressor has, and two sources of the graph, of which one has banks.           *)
EXTENDS EditingSurface

MCContext == [bell |-> "equalizer", shelf |-> "saturator"]
MCGain == [bell |-> "bell.gain", shelf |-> "shelf.gain"]
MCQ == [bell |-> "bell.q"]
=============================================================================
