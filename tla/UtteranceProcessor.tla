------------------------- MODULE UtteranceProcessor -------------------------
(* UtteranceProcessor (src/processor.rs): the state machine that folds the  *)
(* requests decoded from the bus into the events the daemon publishes.      *)
(* One action per handler; `emits` is the vector the handler returned.      *)
(*                                                                          *)
(* The processor is driven by requests it does not control.  Next therefore *)
(* lets any request arrive in any state, with any timestamp: the bus loses  *)
(* and the upstream clock steps back.                                       *)
EXTENDS TranscriptionEngine

CONSTANTS
    BadPcm,              \* a chunk the decoder rejects
    UnknownModel,        \* a name outside ALLOWED_MODEL_NAMES
    PARTIAL_CADENCE_MS,  \* partial_cadence_ms
    MIN_WINDOW_MS,
    MAX_WINDOW_MS,
    Threshold,           \* config.confidence_threshold
    MaxTs,               \* bound: timestamps that requests carry
    MaxSamples           \* bound: chunks arrive while fewer samples are held

ASSUME InputAssumption == BadPcm \notin Chunks /\ UnknownModel \notin Models

(* DEFAULT_PARTIAL_CADENCE_MS is 500 and only tests override it.            *)
ASSUME CadenceAssumption == PARTIAL_CADENCE_MS \in Nat \ {0}

ASSUME WindowAssumption ==
    MIN_WINDOW_MS \in Nat /\ MAX_WINDOW_MS \in Nat /\ MIN_WINDOW_MS <= MAX_WINDOW_MS

(* SttConfig::validate: the threshold is in (0.0, 1.0].                     *)
ASSUME ThresholdAssumption == Threshold \in 1 .. MaxConfidence

ASSUME BoundAssumption == MaxTs \in Nat /\ MaxSamples \in Nat

VARIABLES
    state,           \* Idle or Speaking
    pending_reload,  \* model queued while Speaking, or None
    engine,          \* the engine the processor owns
    emits,           \* what the last handler returned
    partials         \* history: partials emitted since the last speech.start

vars == <<state, pending_reload, engine, emits, partials>>
----------------------------------------------------------------------------
(* enum State *)

Idle == [tag |-> "Idle"]

Speaking(start_ts, last_partial_ts, turn_id) ==
    [tag |-> "Speaking", start_ts |-> start_ts,
     last_partial_ts |-> last_partial_ts, turn_id |-> turn_id]

States ==
    {Idle} \cup [tag : {"Speaking"}, start_ts : Nat, last_partial_ts : Nat,
                 turn_id : OptionalTurn]

IsSpeaking == state.tag = "Speaking"

SaturatingSub(a, b) == IF a >= b THEN a - b ELSE 0

(* new(): Idle, nothing pending; the engine was just built.                 *)
Init ==
    /\ state = Idle
    /\ pending_reload = None
    /\ engine \in {NewEngine(m) : m \in Models}
    /\ emits = <<>>
    /\ partials = 0
----------------------------------------------------------------------------
(* Mutant of OnSpeechStart: the dropped utterance stays in the engine.      *)
StartKeepsAudio(start_ts) ==
    /\ emits' = IF IsSpeaking THEN <<ErrorEvent("protocol")>> ELSE <<>>
    /\ state' = Speaking(start_ts, start_ts, None)
    /\ partials' = 0
    /\ UNCHANGED <<pending_reload, engine>>

(* Mutant of OnSpeechStart: a start while speaking is an error and no more. *)
StartGivesUp(start_ts) ==
    /\ IF IsSpeaking
       THEN emits' = <<ErrorEvent("protocol")>> /\ engine' = Reset(engine) /\ state' = Idle
       ELSE emits' = <<>> /\ UNCHANGED engine /\ state' = Speaking(start_ts, start_ts, None)
    /\ partials' = 0
    /\ UNCHANGED pending_reload

(* A speech.start always opens a new utterance.  One that is in flight is   *)
(* dropped with an error, and what the engine holds of it with it; a reload *)
(* that waits for it keeps waiting.                                         *)
OnSpeechStart(start_ts) ==
    /\ IF IsSpeaking
       THEN emits' = <<ErrorEvent("protocol")>> /\ engine' = Reset(engine)
       ELSE emits' = <<>> /\ UNCHANGED engine
    /\ state' = Speaking(start_ts, start_ts, None)
    /\ partials' = 0
    /\ UNCHANGED pending_reload

(* Mutant of PartialDue: a clock that steps back counts as time passed.     *)
PartialDueEitherWay(chunk_ts) ==
    SaturatingSub(chunk_ts, state.last_partial_ts)
        + SaturatingSub(state.last_partial_ts, chunk_ts) >= PARTIAL_CADENCE_MS

(* Whether the throttle lets this chunk try a partial.                      *)
PartialDue(chunk_ts) ==
    SaturatingSub(chunk_ts, state.last_partial_ts) >= PARTIAL_CADENCE_MS

ChunkWhileIdle ==
    /\ ~IsSpeaking
    /\ emits' = <<ErrorEvent("protocol")>>
    /\ UNCHANGED <<state, pending_reload, engine, partials>>

ChunkRejected(pcm) ==
    /\ IsSpeaking
    /\ \E kind \in AcceptChunkErrors(pcm) : emits' = <<ErrorEvent(kind)>>
    /\ UNCHANGED <<state, pending_reload, engine, partials>>

(* The tick is spent whether or not the engine had a text for it.           *)
ChunkAccepted(pcm, chunk_ts) ==
    /\ IsSpeaking
    /\ pcm \in Chunks
    /\ engine' = AcceptChunk(engine, pcm)
    /\ \/ /\ PartialDue(chunk_ts)
          /\ state' = [state EXCEPT !.last_partial_ts = chunk_ts]
          /\ \/ /\ emits' = <<>>
                /\ UNCHANGED partials
             \/ /\ \E text \in PartialTexts(engine') :
                      emits' = <<PartialEvent(text, state.turn_id)>>
                /\ partials' = partials + 1
       \/ /\ ~PartialDue(chunk_ts)
          /\ emits' = <<>>
          /\ UNCHANGED <<state, partials>>
    /\ UNCHANGED pending_reload

OnSpeechChunk(pcm, chunk_ts) ==
    \/ ChunkWhileIdle
    \/ ChunkRejected(pcm)
    \/ ChunkAccepted(pcm, chunk_ts)
----------------------------------------------------------------------------
(* apply_reload on engine e: the outcomes, each the engine and the event.   *)
ApplyReload(e, name) ==
    {[engine |-> loaded, event |-> ModelLoadedEvent(name)]
        : loaded \in ReloadModelOk(e, name)}
    \cup {[engine |-> e, event |-> ErrorEvent("model")]}

(* Mutant of CloseUtterance: no reset.                                      *)
CloseWithoutReset(closing) ==
    /\ state' = Idle
    /\ pending_reload' = None
    /\ IF pending_reload = None
       THEN UNCHANGED engine /\ emits' = closing
       ELSE \E swap \in ApplyReload(engine, pending_reload) :
                engine' = swap.engine /\ emits' = Append(closing, swap.event)
    /\ UNCHANGED partials

(* The common end of the branches of on_speech_end: reset, Idle, and the    *)
(* reload that was waiting for the utterance to finish.                     *)
CloseUtterance(closing) ==
    /\ state' = Idle
    /\ pending_reload' = None
    /\ IF pending_reload = None
       THEN engine' = Reset(engine) /\ emits' = closing
       ELSE \E swap \in ApplyReload(Reset(engine), pending_reload) :
                engine' = swap.engine /\ emits' = Append(closing, swap.event)
    /\ UNCHANGED partials

EndWhileIdle ==
    /\ ~IsSpeaking
    /\ emits' = <<ErrorEvent("protocol")>>
    /\ UNCHANGED <<state, pending_reload, engine, partials>>

(* Mutants of EndTooShort and EndTooLong: an early return that forgets the  *)
(* parked reload, and one that leaves it parked.                            *)
ShortForgetsReload(duration_ms) ==
    /\ IsSpeaking
    /\ duration_ms < MIN_WINDOW_MS
    /\ state' = Idle /\ pending_reload' = None
    /\ engine' = Reset(engine) /\ emits' = <<>>
    /\ UNCHANGED partials

LongStrandsReload(duration_ms, turn_id) ==
    /\ IsSpeaking
    /\ duration_ms > MAX_WINDOW_MS
    /\ state' = Idle /\ engine' = Reset(engine)
    /\ emits' = <<UncertainEvent(NoText, 0, "window_too_long", turn_id)>>
    /\ UNCHANGED <<pending_reload, partials>>

(* A false positive of the voice detector: dropped without a word.          *)
EndTooShort(duration_ms) ==
    /\ IsSpeaking
    /\ duration_ms < MIN_WINDOW_MS
    /\ CloseUtterance(<<>>)

EndTooLong(duration_ms, turn_id) ==
    /\ IsSpeaking
    /\ duration_ms > MAX_WINDOW_MS
    /\ CloseUtterance(<<UncertainEvent(NoText, 0, "window_too_long", turn_id)>>)

(* The event for a finalised text: Final at or above the threshold.         *)
Judge(text, confidence, turn_id) ==
    IF confidence >= Threshold
    THEN FinalEvent(text, confidence, engine.model, turn_id)
    ELSE UncertainEvent(text, confidence, "none", turn_id)

(* What finalise may lead to: one verdict, or the engine's failure.         *)
FinaliseVerdicts(turn_id) ==
    {Judge(text, c, turn_id) : text \in FinaliseTexts(engine), c \in Confidences}
    \cup {ErrorEvent(kind) : kind \in FinaliseErrors}

EndFinalised(duration_ms, turn_id) ==
    /\ IsSpeaking
    /\ duration_ms \in MIN_WINDOW_MS .. MAX_WINDOW_MS
    /\ \E closing \in FinaliseVerdicts(turn_id) : CloseUtterance(<<closing>>)

OnSpeechEnd(duration_ms, turn_id) ==
    \/ EndWhileIdle
    \/ EndTooShort(duration_ms)
    \/ EndTooLong(duration_ms, turn_id)
    \/ EndFinalised(duration_ms, turn_id)
----------------------------------------------------------------------------
ReloadRefused(name) ==
    /\ name \notin Models
    /\ emits' = <<ErrorEvent("model")>>
    /\ UNCHANGED <<state, pending_reload, engine, partials>>

(* Mutant of ReloadQueued: parked before the name is validated.             *)
QueuedUnchecked(name) ==
    /\ IsSpeaking
    /\ pending_reload' = name
    /\ emits' = <<>>
    /\ UNCHANGED <<state, engine, partials>>

(* A later request replaces an earlier one that is still waiting.           *)
ReloadQueued(name) ==
    /\ name \in Models
    /\ IsSpeaking
    /\ pending_reload' = name
    /\ emits' = <<>>
    /\ UNCHANGED <<state, engine, partials>>

ReloadNow(name) ==
    /\ name \in Models
    /\ ~IsSpeaking
    /\ \E swap \in ApplyReload(engine, name) :
          engine' = swap.engine /\ emits' = <<swap.event>>
    /\ UNCHANGED <<state, pending_reload, partials>>

OnReloadModel(name) ==
    \/ ReloadRefused(name)
    \/ ReloadQueued(name)
    \/ ReloadNow(name)
----------------------------------------------------------------------------
(* handle(): any request, in any order.  The bounds are on what arrives.    *)
Next ==
    \/ \E ts \in 0 .. MaxTs : OnSpeechStart(ts)
    \/ \E pcm \in Chunks \cup {BadPcm}, ts \in 0 .. MaxTs :
          Len(engine.audio) < MaxSamples /\ OnSpeechChunk(pcm, ts)
    \/ \E duration_ms \in 0 .. MAX_WINDOW_MS + 1, turn_id \in OptionalTurn :
          OnSpeechEnd(duration_ms, turn_id)
    \/ \E name \in Models \cup {UnknownModel} : OnReloadModel(name)

Spec == Init /\ [][Next]_vars
----------------------------------------------------------------------------
(* Every variable stays in its type.                                        *)
TypeOK ==
    /\ state \in States
    /\ pending_reload \in Models \cup {None}
    /\ engine \in Engines
    /\ emits \in Seq(Emit)
    /\ partials \in Nat

(* Between utterances the engine holds no audio: no branch that ends an     *)
(* utterance leaves a chunk behind for the next speech.start to inherit     *)
(* (on_speech_start does not reset when it finds the processor idle).       *)
QuietWhenIdle == state = Idle => engine.audio = <<>>

(* A reload is only ever parked behind an utterance in flight: all three    *)
(* branches of on_speech_end take it, so none can be stranded while Idle.   *)
PendingOnlyWhileSpeaking == pending_reload # None => IsSpeaking

(* The throttle holds over a whole utterance, whatever the chunk timestamps *)
(* do: n partials need n cadences of upstream time since speech.start, even *)
(* when the upstream clock steps back between chunks.                       *)
PartialRate ==
    IsSpeaking =>
        state.start_ts + PARTIAL_CADENCE_MS * partials <= state.last_partial_ts

(* A parked reload is answered (model_loaded, or an error of kind "model")  *)
(* in the step that unparks it, unless a later request takes its place.     *)
ReloadNeverForgotten ==
    [][(pending_reload # None /\ pending_reload' # pending_reload) =>
          \/ pending_reload' # None
          \/ \E i \in DOMAIN emits' : IsAnswer(emits'[i], pending_reload)]_vars

(* What subscribers are promised, stated without engine, clock or window:   *)
(* the chunks an utterance consists of are those the engine holds.          *)
Promise ==
    INSTANCE Utterance WITH
        phase <- IF IsSpeaking THEN "speaking" ELSE "idle",
        heard <- engine.audio,
        model <- engine.model,
        wanted <- pending_reload,
        out <- emits

(* The processor implements Utterance.                                      *)
ImplementsUtterance == Promise!Spec
============================================================================
