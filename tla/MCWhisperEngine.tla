--------------------------- MODULE MCWhisperEngine ---------------------------
(* WhisperEngine on a small instance: a decoder minimum of 2 samples and a  *)
(* window of 3, chunks of one, two and four samples, so that a chunk may be *)
(* shorter than the minimum, fill the window, or overrun it at once.        *)
EXTENDS WhisperEngine

MC_Models == {"distil-small.en", "small.en"}
MC_Samples == {0, 1}
MC_Chunks == {<<0>>, <<1, 0>>, <<0, 1, 1, 0>>}
MC_MaxConfidence == 1
MC_MinSamples == 2
MC_MaxWindow == 3
MC_MaxSamples == 4
============================================================================
