------------------------ MODULE TranscriptionEngine ------------------------
(* The contract of trait TranscriptionEngine (src/engine.rs) as its only    *)
(* caller, UtteranceProcessor, relies on it.  An engine is a value          *)
(*     [model |-> the active model, audio |-> the samples it holds]         *)
(* and a method is the engine after the call, or the set of outcomes it may *)
(* have: the decoder is free to fail, to answer with any confidence, and to *)
(* have no text yet.  StubEngine and WhisperEngine are two implementations; *)
(* module WhisperEngine shows that the second stays inside this contract.   *)
EXTENDS SttEvents

Engines == [model : Models, audio : Audio]

NewEngine(model) == [model |-> model, audio |-> <<>>]

(* accept_chunk: Ok appends the samples; Err leaves the engine as it was.   *)
(* BadChunk is about the content of the chunk, Internal may always happen.  *)
AcceptChunk(e, pcm) == [e EXCEPT !.audio = @ \o pcm]

AcceptChunkErrors(pcm) == IF pcm \in Chunks THEN {"engine"} ELSE {"io"}

(* current_partial_fast, when it answers Some: a text over the latest       *)
(* window of what was accepted since the last reset.  It answers None       *)
(* before the first chunk, and may answer None at any time.                 *)
PartialTexts(e) ==
    {Text(e.model, SubSeq(e.audio, k, Len(e.audio))) : k \in 1 .. Len(e.audio)}

(* finalise, when it answers Ok: a text over everything accepted, or the    *)
(* empty text (no audio, or no words in it).                                *)
FinaliseTexts(e) == {Text(e.model, e.audio), NoText}

FinaliseErrors == {"engine"}

(* reload_model: Ok swaps the model and may (whisper) or may not (stub)     *)
(* clear the audio; Err keeps the model that was active.                    *)
ReloadModelOk(e, model) ==
    {[model |-> model, audio |-> <<>>], [model |-> model, audio |-> e.audio]}

Reset(e) == [e EXCEPT !.audio = <<>>]
============================================================================
