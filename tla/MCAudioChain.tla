----------------------------- MODULE MCAudioChain -----------------------------
(* Every device alone, as no device reads another's state, and the analyzer and  *)
(* its viewers over an empty chain, as the chain takes no notice of them.           *)
EXTENDS HostAudio

MCChains == {{"Input"}, {"Saturator"}, {"Shaper"}, {"Compressor"}, {"Equalizer"}, {"Polish"},
             {"Output"}, {}}
MCViewed == {{}}
MCAlgorithms == {"Ssl", "Cla76"}
MCMaxima == [viewed \in BOOLEAN |-> IF viewed THEN {1, 2} ELSE {1}]
MCBlockSizes == [viewed \in BOOLEAN |-> IF viewed THEN {1, 3} ELSE {2}]
MCBounds == {b \in (0..9) \X (0..3) : b[1] <= <<0, 8, 2, 3>>[b[2] + 1]}
=============================================================================
