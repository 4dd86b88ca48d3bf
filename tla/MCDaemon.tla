------------------------------ MODULE MCDaemon ------------------------------
(* The daemon on two utterances of at most one chunk, with one reload.      *)
EXTENDS Daemon

MC_Models == {"distil-small.en", "small.en"}
MC_OneModel == {"small.en"}
MC_Utterances == 1 .. 2
MC_Chunks == {<<1>>, <<2>>}
MC_AllDurations == {0, 1, 3}
MC_LongDurations == {1, 3}
============================================================================
