---------------------------- MODULE WhisperEngine ----------------------------
(* WhisperEngine (src/whisper_engine.rs): the production engine.  It keeps  *)
(* two decoder states of the active model, the audio of the utterance, a    *)
(* rolling window of its latest samples for partials, and the last partial. *)
(*                                                                          *)
(* The methods take &mut self, so each call is one step.  Inference is free *)
(* to fail, to find no text, and to report any confidence.                  *)
EXTENDS SttEvents

CONSTANTS
    BadPcm,                      \* a payload decode_pcm_b64 refuses
    UnknownModel,                \* a name outside ALLOWED_MODEL_NAMES
    WHISPER_MIN_SAMPLES,
    PARTIAL_BUFFER_MAX_SAMPLES,
    Unwinds,                     \* panics unwind (dev) or abort (release profile)
    MaxSamples                   \* bound: chunks arrive while fewer are held

ASSUME InputAssumption == BadPcm \notin Chunks /\ UnknownModel \notin Models

ASSUME SampleAssumption ==
    /\ WHISPER_MIN_SAMPLES \in Nat \ {0}
    /\ PARTIAL_BUFFER_MAX_SAMPLES \in Nat
    /\ WHISPER_MIN_SAMPLES <= PARTIAL_BUFFER_MAX_SAMPLES

ASSUME BuildAssumption == Unwinds \in BOOLEAN /\ MaxSamples \in Nat

VARIABLES
    installed,          \* models whose file exists and is readable
    ctx,                \* Mutex<WhisperContext>: the model of the context
    state,              \* Mutex<Option<WhisperState>>: decoder of finalise
    partial_state,      \* Mutex<Option<WhisperState>>: decoder of partials
    model_name,
    buffer,
    partial_buffer,
    last_partial_text,  \* NoText stands for None
    finalised,          \* history: finalise returned, reset not called since
    fed,                \* history: samples accepted since reset or reload
    answer              \* what the last call returned

decoder == <<ctx, state, partial_state, model_name>>
utterance == <<buffer, partial_buffer, last_partial_text, fed>>
vars == <<installed, decoder, utterance, finalised, answer>>
----------------------------------------------------------------------------
(* A decode buffer behind its own lock.  It belongs to the model whose      *)
(* context made it; a panic inside a locked section poisons the lock.       *)
Decoder(model) == [model |-> model, poisoned |-> FALSE]

Ok(call) == [call |-> call, result |-> "ok"]
Err(call, kind) == [call |-> call, result |-> "err", kind |-> kind]
PartialAnswer(text) == [call |-> "partial", text |-> text]
FinalAnswer(text, confidence) ==
    [call |-> "finalise", result |-> "ok", text |-> text, confidence |-> confidence]
Panicked(call) == [call |-> call, result |-> "panic"]

(* Mutant of Window: the buffer is drained from the wrong end.              *)
OldestWindow(audio) ==
    IF Len(audio) <= PARTIAL_BUFFER_MAX_SAMPLES
    THEN audio
    ELSE SubSeq(audio, 1, PARTIAL_BUFFER_MAX_SAMPLES)

(* The latest samples, at most PARTIAL_BUFFER_MAX_SAMPLES of them.          *)
Window(audio) ==
    IF Len(audio) <= PARTIAL_BUFFER_MAX_SAMPLES
    THEN audio
    ELSE SubSeq(audio, Len(audio) - PARTIAL_BUFFER_MAX_SAMPLES + 1, Len(audio))

(* load, once it succeeded.                                                 *)
Init ==
    /\ installed \in SUBSET Models
    /\ model_name \in installed
    /\ ctx = model_name
    /\ state = Decoder(model_name)
    /\ partial_state = Decoder(model_name)
    /\ buffer = <<>>
    /\ partial_buffer = <<>>
    /\ last_partial_text = NoText
    /\ finalised = FALSE
    /\ fed = <<>>
    /\ answer = Ok("load")
----------------------------------------------------------------------------
(* Mutant of AcceptChunk: the window is drained before the chunk is added.  *)
AcceptDrainsFirst(samples) ==
    /\ ~finalised
    /\ samples \in Chunks
    /\ buffer' = buffer \o samples
    /\ partial_buffer' = Window(partial_buffer) \o samples
    /\ fed' = fed \o samples
    /\ answer' = Ok("accept_chunk")
    /\ UNCHANGED <<installed, decoder, finalised, last_partial_text>>

AcceptChunk(samples) ==
    /\ ~finalised
    /\ \/ /\ samples = BadPcm
          /\ answer' = Err("accept_chunk", "io")
          /\ UNCHANGED utterance
       \/ /\ samples \in Chunks
          /\ buffer' = buffer \o samples
          /\ partial_buffer' = Window(partial_buffer \o samples)
          /\ fed' = fed \o samples
          /\ answer' = Ok("accept_chunk")
          /\ UNCHANGED last_partial_text
    /\ UNCHANGED <<installed, decoder, finalised>>

(* run_partial_inference: a text over the window, or None when it fails or  *)
(* finds no words.                                                          *)
PartialInference == {Text(partial_state.model, partial_buffer), NoText}

(* run_partial_on_window: below the minimum the cached text is returned;    *)
(* otherwise the result replaces the cache, also when it is None.           *)
CurrentPartialFast ==
    /\ ~finalised
    /\ \/ /\ Len(partial_buffer) < WHISPER_MIN_SAMPLES
          /\ answer' = PartialAnswer(last_partial_text)
          /\ UNCHANGED last_partial_text
       \/ /\ Len(partial_buffer) >= WHISPER_MIN_SAMPLES
          /\ last_partial_text' \in PartialInference
          /\ answer' = PartialAnswer(last_partial_text')
    /\ UNCHANGED <<installed, decoder, buffer, partial_buffer, fed, finalised>>

(* A text over the whole buffer, or the empty text when no words are found. *)
FinalInference == {Text(state.model, buffer), NoText}

(* Mutant of Finalise: a poisoned lock is recovered instead of refused.     *)
FinaliseRecovers ==
    /\ ~finalised
    /\ finalised' = TRUE
    /\ buffer' = <<>>
    /\ \E text \in FinalInference, confidence \in Confidences :
          answer' = FinalAnswer(text, confidence)
    /\ UNCHANGED <<installed, decoder, partial_buffer, last_partial_text, fed>>

(* mem::take leaves the buffer empty on every path.  Padding adds silence   *)
(* after the samples, so the text is about the same samples.                *)
Finalise ==
    /\ ~finalised
    /\ finalised' = TRUE
    /\ buffer' = <<>>
    /\ \/ /\ buffer = <<>>
          /\ answer' = FinalAnswer(NoText, 0)
       \/ /\ buffer # <<>>
          /\ state.poisoned
          /\ answer' = Err("finalise", "engine")
       \/ /\ buffer # <<>>
          /\ ~state.poisoned
          /\ \/ \E text \in FinalInference, confidence \in Confidences :
                   answer' = FinalAnswer(text, confidence)
             \/ answer' = Err("finalise", "engine")
    /\ UNCHANGED <<installed, decoder, partial_buffer, last_partial_text, fed>>

(* Inference panics while it holds the lock of `state`.  In a build that    *)
(* unwinds the engine lives on, but its caller never gets to reset it.      *)
FinalisePanics ==
    /\ Unwinds
    /\ ~finalised
    /\ buffer # <<>>
    /\ ~state.poisoned
    /\ buffer' = <<>>
    /\ state' = [state EXCEPT !.poisoned = TRUE]
    /\ answer' = Panicked("finalise")
    /\ UNCHANGED <<installed, ctx, partial_state, model_name, partial_buffer,
                   last_partial_text, fed, finalised>>

(* Mutant of ClearUtterance: the cached partial outlives the utterance.     *)
ClearKeepsCache ==
    /\ buffer' = <<>>
    /\ partial_buffer' = <<>>
    /\ fed' = <<>>
    /\ UNCHANGED last_partial_text

ClearUtterance ==
    /\ buffer' = <<>>
    /\ partial_buffer' = <<>>
    /\ last_partial_text' = NoText
    /\ fed' = <<>>

(* Mutant of SwapModel: the decoder of partials is forgotten.               *)
SwapHalf(name) ==
    /\ ctx' = name /\ model_name' = name
    /\ state' = Decoder(name)
    /\ ClearUtterance
    /\ answer' = Ok("reload_model")
    /\ UNCHANGED partial_state

(* The new context and both its decoders exist before anything is swapped;  *)
(* then the three locks are taken one after the other, and a poisoned one   *)
(* ends the swap where it is.                                               *)
SwapModel(name) ==
    /\ ctx' = name
    /\ IF state.poisoned
       THEN /\ answer' = Err("reload_model", "engine")
            /\ UNCHANGED <<state, partial_state, model_name, utterance>>
       ELSE /\ state' = Decoder(name)
            /\ partial_state' = Decoder(name)
            /\ model_name' = name
            /\ ClearUtterance
            /\ answer' = Ok("reload_model")

(* How open_context or create_state may fail.  A file that is not there is  *)
(* told from one that whisper.cpp rejects.                                  *)
LoadErrors(name) == IF name \in installed THEN {"engine"} ELSE {"model_missing"}

(* Mutant of ReloadModel: the name is stored before it is validated.        *)
ReloadNamesFirst(name) ==
    /\ ~finalised
    /\ model_name' = name
    /\ answer' = Err("reload_model", "model")
    /\ UNCHANGED <<installed, ctx, state, partial_state, utterance, finalised>>

ReloadModel(name) ==
    /\ ~finalised
    /\ \/ /\ name \notin Models
          /\ answer' = Err("reload_model", "model")
          /\ UNCHANGED <<decoder, utterance>>
       \/ /\ name \in Models
          /\ \E kind \in LoadErrors(name) : answer' = Err("reload_model", kind)
          /\ UNCHANGED <<decoder, utterance>>
       \/ /\ name \in installed
          /\ SwapModel(name)
    /\ UNCHANGED <<installed, finalised>>

Reset ==
    /\ ClearUtterance
    /\ finalised' = FALSE
    /\ answer' = Ok("reset")
    /\ UNCHANGED <<installed, decoder>>

(* The operator installs or removes a model file while the daemon runs.     *)
ChangeModelFiles ==
    /\ installed' \in SUBSET Models
    /\ UNCHANGED <<decoder, utterance, finalised, answer>>

Next ==
    \/ \E samples \in Chunks \cup {BadPcm} :
          Len(fed) < MaxSamples /\ AcceptChunk(samples)
    \/ CurrentPartialFast
    \/ Finalise
    \/ FinalisePanics
    \/ \E name \in Models \cup {UnknownModel} : ReloadModel(name)
    \/ Reset
    \/ ChangeModelFiles

Spec == Init /\ [][Next]_vars
----------------------------------------------------------------------------
Decoders == [model : Models, poisoned : BOOLEAN]

(* Every variable stays in its type.                                        *)
TypeOK ==
    /\ installed \subseteq Models
    /\ ctx \in Models
    /\ state \in Decoders
    /\ partial_state \in Decoders
    /\ model_name \in Models
    /\ buffer \in Audio
    /\ partial_buffer \in Audio
    /\ last_partial_text \in Texts
    /\ finalised \in BOOLEAN
    /\ fed \in Audio

(* Finals and partials are decoded by the model that Final events name,     *)
(* also after a swap that failed half way: model_name, the decoder of       *)
(* finalise and the decoder of partials never belong to different models,   *)
(* and the context is theirs unless a poisoned lock stopped a swap.         *)
OneModel ==
    /\ state.model = model_name
    /\ partial_state.model = model_name
    /\ ~state.poisoned => ctx = model_name

(* The rolling window is exactly the latest samples of the utterance,       *)
(* however the chunks were cut: none lost, none left over from before the   *)
(* last reset.                                                              *)
WindowIsLatest ==
    LET kept == Len(partial_buffer)
    IN  /\ kept = IF Len(fed) <= PARTIAL_BUFFER_MAX_SAMPLES
                  THEN Len(fed) ELSE PARTIAL_BUFFER_MAX_SAMPLES
        /\ partial_buffer = SubSeq(fed, Len(fed) - kept + 1, Len(fed))

(* A verdict is never decoded from part of an utterance: after a panic took *)
(* its first chunks the poisoned lock refuses to decode the rest of them.   *)
VerdictIsWhole ==
    (answer.call = "finalise" /\ answer.result = "ok") =>
        answer.text \in {Text(model_name, fed), NoText}

(* A cached partial is never served in place of a fresh one: while the      *)
(* window is below the decoder's minimum nothing is cached, so a partial    *)
(* cannot repeat a text of an earlier utterance.                            *)
NoStalePartial ==
    Len(partial_buffer) < WHISPER_MIN_SAMPLES => last_partial_text = NoText

(* The engine stays inside the contract its caller relies on: it is an      *)
(* engine of model_name that holds the samples of `buffer`.  A build that   *)
(* unwinds leaves the contract with a panic of finalise, not before it.     *)
Contract ==
    INSTANCE EngineContract WITH
        engine <- [model |-> model_name, audio |-> buffer]

ImplementsContract ==
    Contract!Init /\ [][~state'.poisoned => Contract!Next]_(Contract!vars)
============================================================================
