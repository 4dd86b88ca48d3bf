----------------------------- MODULE SttEvents -----------------------------
(* The events wm-stt publishes on the bus (src/bus.rs, src/processor.rs     *)
(* enum Emit), reduced to the fields a subscriber's decision depends on.    *)
(*                                                                          *)
(* A text is its provenance: [by |-> the model that decoded it,             *)
(* of |-> the audio it was decoded from].  Timestamps, durations and        *)
(* messages are copied from the request or worded for a log; no property    *)
(* tells two of them apart, so they are left out.  Confidence is an integer *)
(* 0..MaxConfidence that stands for the float 0.0..1.0.                     *)
EXTENDS Integers, Sequences

CONSTANTS
    Models,         \* ALLOWED_MODEL_NAMES: the names a reload may ask for
    Samples,        \* values an audio sample may have
    Chunks,         \* decoded contents of the chunks the decoder accepts
    TurnIds,        \* turn identifiers minted upstream
    MaxConfidence,  \* the integer that stands for confidence 1.0
    None            \* Rust's Option::None

ASSUME NoneAssumption == None \notin Models /\ None \notin TurnIds

ASSUME ConfidenceAssumption == MaxConfidence \in Nat \ {0}

Audio == Seq(Samples)

(* An empty payload is refused, so a chunk that is accepted has samples.    *)
ASSUME ChunkAssumption == Chunks \subseteq Audio \ {<<>>}

Text(model, audio) == [by |-> model, of |-> audio]

(* String::new(), the text of an event that no inference ran for.           *)
NoText == [by |-> None, of |-> <<>>]

Texts == [by : Models \cup {None}, of : Audio]

OptionalTurn == TurnIds \cup {None}

Confidences == 0 .. MaxConfidence

ErrorKinds == {"protocol", "io", "model", "model_missing", "engine", "bus"}

----------------------------------------------------------------------------

PartialEvent(text, turn_id) ==
    [topic |-> "partial", text |-> text, turn_id |-> turn_id]

FinalEvent(text, confidence, model, turn_id) ==
    [topic |-> "final", text |-> text, confidence |-> confidence,
     model |-> model, turn_id |-> turn_id]

UncertainEvent(text, confidence, reason, turn_id) ==
    [topic |-> "uncertain", text |-> text, confidence |-> confidence,
     reason |-> reason, turn_id |-> turn_id]

ErrorEvent(kind) == [topic |-> "error", kind |-> kind]

ModelLoadedEvent(model) == [topic |-> "model_loaded", model |-> model]

(* enum Emit                                                                *)
Emit ==
    [topic : {"partial"}, text : Texts, turn_id : OptionalTurn]
    \cup [topic : {"final"}, text : Texts, confidence : Confidences,
          model : Models, turn_id : OptionalTurn]
    \cup [topic : {"uncertain"}, text : Texts, confidence : Confidences,
          reason : {"none", "window_too_long"}, turn_id : OptionalTurn]
    \cup [topic : {"error"}, kind : ErrorKinds]
    \cup [topic : {"model_loaded"}, model : Models]

(* The events that close a turn for the dialog manager.                     *)
IsVerdict(event) == event.topic \in {"final", "uncertain"}

IsAnswer(event, model) ==
    event \in {ModelLoadedEvent(model), ErrorEvent("model")}
============================================================================
