---------------------------- MODULE MCStubEngine ----------------------------
(* StubEngine with two models and utterances of at most ten chunks.         *)
EXTENDS StubEngine

MC_Models == {"distil-small.en", "small.en"}
MC_Samples == {"unit"}
MC_Chunks == {<<"unit">>}
============================================================================
