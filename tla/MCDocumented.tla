---------------------------- MODULE MCDocumented ----------------------------
(* What the README says of the processor and the code does not do, on the   *)
(* instance of MCUtteranceProcessor.                                        *)
EXTENDS MCUtteranceProcessor

(* README: reload-model lets the in-flight transcription complete and       *)
(* model_loaded "is emitted on completion"; an error, if it fails.  A       *)
(* request that a later one replaces while it is parked gets neither.       *)
EveryReloadIsAnswered ==
    [][(pending_reload # None /\ pending_reload' # pending_reload) =>
          \E i \in DOMAIN emits' : IsAnswer(emits'[i], pending_reload)]_vars
============================================================================
