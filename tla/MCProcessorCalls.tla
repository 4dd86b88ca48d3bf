--------------------------- MODULE MCProcessorCalls ---------------------------
(* The calls of the processor on a small instance: two models, one kind of  *)
(* chunk, timestamps 0..2 with a cadence of 1, windows 1..2 of durations    *)
(* 0..3.                                                                    *)
EXTENDS ProcessorCalls

MC_Models == {"distil-small.en", "small.en"}
MC_Samples == {"word"}
MC_Chunks == {<<"word">>}
MC_TurnIds == {"turn"}
============================================================================
