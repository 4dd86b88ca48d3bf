--------------------------- MODULE EngineContract ---------------------------
(* Trait TranscriptionEngine as a state machine: an engine whose methods    *)
(* are called one after the other, and what each call answers.  The caller  *)
(* keeps the lifecycle of the trait: it resets after finalise before it     *)
(* calls anything else (on_speech_end does both in one go).                 *)
EXTENDS TranscriptionEngine

CONSTANTS BadPcm, UnknownModel

VARIABLES
    engine,     \* the engine, as TranscriptionEngine describes it
    finalised,  \* finalise was called and reset has not been called since
    answer      \* what the last call returned

vars == <<engine, finalised, answer>>
----------------------------------------------------------------------------
Ok(call) == [call |-> call, result |-> "ok"]

Err(call, kind) == [call |-> call, result |-> "err", kind |-> kind]

(* Option<String>: NoText stands for None.                                  *)
PartialAnswer(text) == [call |-> "partial", text |-> text]

FinalAnswer(text, confidence) ==
    [call |-> "finalise", result |-> "ok", text |-> text, confidence |-> confidence]

ReloadErrors == {"model", "model_missing", "engine"}
----------------------------------------------------------------------------
Init ==
    /\ engine \in {NewEngine(m) : m \in Models}
    /\ finalised = FALSE
    /\ answer = Ok("load")

Accept(pcm) ==
    /\ ~finalised
    /\ \/ /\ pcm \in Chunks
          /\ engine' = AcceptChunk(engine, pcm)
          /\ answer' = Ok("accept_chunk")
       \/ /\ \E kind \in AcceptChunkErrors(pcm) : answer' = Err("accept_chunk", kind)
          /\ UNCHANGED engine
    /\ UNCHANGED finalised

CurrentPartialFast ==
    /\ ~finalised
    /\ \E text \in PartialTexts(engine) \cup {NoText} : answer' = PartialAnswer(text)
    /\ UNCHANGED <<engine, finalised>>

Finalise ==
    /\ ~finalised
    /\ finalised' = TRUE
    /\ engine' \in {engine, Reset(engine)}
    /\ \/ \E text \in FinaliseTexts(engine), confidence \in Confidences :
             answer' = FinalAnswer(text, confidence)
       \/ \E kind \in FinaliseErrors : answer' = Err("finalise", kind)

Reload(name) ==
    /\ ~finalised
    /\ \/ /\ name \in Models
          /\ engine' \in ReloadModelOk(engine, name)
          /\ answer' = Ok("reload_model")
       \/ /\ \E kind \in ReloadErrors : answer' = Err("reload_model", kind)
          /\ UNCHANGED engine
    /\ UNCHANGED finalised

ResetCall ==
    /\ engine' = Reset(engine)
    /\ finalised' = FALSE
    /\ answer' = Ok("reset")

Next ==
    \/ \E pcm \in Chunks \cup {BadPcm} : Accept(pcm)
    \/ CurrentPartialFast
    \/ Finalise
    \/ \E name \in Models \cup {UnknownModel} : Reload(name)
    \/ ResetCall

Spec == Init /\ [][Next]_vars
============================================================================
