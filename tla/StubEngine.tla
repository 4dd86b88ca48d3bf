----------------------------- MODULE StubEngine -----------------------------
(* StubEngine (src/engine.rs): the engine of builds without the `whisper`   *)
(* feature, and of the tests.  It counts the chunks of the utterance and    *)
(* does not decode them; a chunk is the sample Unit, so the count is the    *)
(* audio.                                                                   *)
EXTENDS SttEvents

CONSTANTS
    BadPcm,           \* a payload that is no base64, or an odd number of bytes
    Empty,            \* the empty payload
    UnknownModel,     \* a name outside ALLOWED_MODEL_NAMES
    Unit,             \* the sample every chunk is counted as
    FixedConfidence,  \* fixed_confidence
    MaxChunks         \* bound: chunks arrive while fewer were counted

(* What the theorems suppose of the constants.                              *)
StubParameters ==
    /\ UnknownModel \notin Models
    /\ Samples = {Unit} /\ Chunks = {<<Unit>>} /\ {BadPcm, Empty} \cap Chunks = {}
    /\ Empty # BadPcm
    /\ FixedConfidence \in 1 .. MaxConfidence   \* StubEngine::new validates it
    /\ MaxChunks \in Nat

Payloads == {<<Unit>>, BadPcm, Empty}

VARIABLES
    model,
    chunks,
    finalised,  \* history: finalise returned, reset not called since
    answer      \* what the last call returned

vars == <<model, chunks, finalised, answer>>

Counted(n) == [i \in 1 .. n |-> Unit]

Contract ==
    INSTANCE EngineContract WITH
        engine <- [model |-> model, audio |-> Counted(chunks)]
----------------------------------------------------------------------------
Init ==
    /\ model \in Models
    /\ chunks = 0
    /\ finalised = FALSE
    /\ answer = Contract!Ok("load")

(* Only the empty payload is refused: any other is a chunk, decodable or    *)
(* not.                                                                     *)
AcceptChunk(pcm) ==
    /\ ~finalised
    /\ IF pcm = Empty
       THEN answer' = Contract!Err("accept_chunk", "io") /\ UNCHANGED chunks
       ELSE answer' = Contract!Ok("accept_chunk") /\ chunks' = chunks + 1
    /\ UNCHANGED <<model, finalised>>

(* The trait's default: current_partial_fast is current_partial.            *)
CurrentPartialFast ==
    /\ ~finalised
    /\ answer' = Contract!PartialAnswer(
                     IF chunks = 0 THEN NoText ELSE Text(model, Counted(chunks)))
    /\ UNCHANGED <<model, chunks, finalised>>

Finalise ==
    /\ ~finalised
    /\ finalised' = TRUE
    /\ answer' = Contract!FinalAnswer(Text(model, Counted(chunks)), FixedConfidence)
    /\ UNCHANGED <<model, chunks>>

(* Unlike WhisperEngine, the stub keeps its count over a reload.            *)
ReloadModel(name) ==
    /\ ~finalised
    /\ IF name \in Models
       THEN model' = name /\ answer' = Contract!Ok("reload_model")
       ELSE UNCHANGED model /\ answer' = Contract!Err("reload_model", "model")
    /\ UNCHANGED <<chunks, finalised>>

Reset ==
    /\ chunks' = 0
    /\ finalised' = FALSE
    /\ answer' = Contract!Ok("reset")
    /\ UNCHANGED model

Next ==
    \/ \E pcm \in Payloads : chunks < MaxChunks /\ AcceptChunk(pcm)
    \/ CurrentPartialFast
    \/ Finalise
    \/ \E name \in Models \cup {UnknownModel} : ReloadModel(name)
    \/ Reset

Spec == Init /\ [][Next]_vars
----------------------------------------------------------------------------
(* What the doc of accept_chunk promises: a payload that does not parse is  *)
(* answered with an error.                                                  *)
UnparseableIsRefused ==
    [][\A pcm \in Payloads \ Chunks : AcceptChunk(pcm) => answer'.result = "err"]_vars

(* In everything else the stub keeps the contract of the trait.  The        *)
(* contract's engine is fed chunks: read as one each whatever the stub      *)
(* accepted, its states and answers are those of such an engine.            *)
KeepsContract == Contract!Spec
============================================================================
