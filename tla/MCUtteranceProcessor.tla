------------------------ MODULE MCUtteranceProcessor ------------------------
(* UtteranceProcessor on a small instance: two models, two kinds of chunk,  *)
(* timestamps 0..5 with a cadence of 2, windows 1..2 of durations 0..3.     *)
EXTENDS UtteranceProcessor

MC_Models == {"distil-small.en", "small.en"}
MC_Samples == {"word", "noise"}
MC_Chunks == {<<"word">>, <<"noise">>}
MC_TurnIds == {"turn"}
MC_MaxConfidence == 2
MC_Threshold == 1
MC_Cadence == 2
MC_MinWindow == 1
MC_MaxWindow == 2
MC_MaxTs == 5
MC_MaxSamples == 3
============================================================================
