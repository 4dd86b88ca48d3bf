---------------------------- MODULE ProcessorCalls ----------------------------
(* UtteranceProcessor (src/processor.rs) one call of the engine at a time:  *)
(* each step of a handler is one call of a method of TranscriptionEngine,   *)
(* with what the handler does before the next call.  The engine is any that *)
(* keeps EngineContract.                                                    *)
EXTENDS TranscriptionEngine

CONSTANTS
    BadPcm, UnknownModel, PARTIAL_CADENCE_MS, MIN_WINDOW_MS, MAX_WINDOW_MS,
    Threshold, MaxTs, MaxSamples

(* What UtteranceProcessor assumes of its constants.                        *)
ASSUME CallsAssumption ==
    /\ BadPcm \notin Chunks /\ UnknownModel \notin Models
    /\ PARTIAL_CADENCE_MS \in Nat \ {0}
    /\ {MIN_WINDOW_MS, MAX_WINDOW_MS, MaxTs, MaxSamples} \subseteq Nat
    /\ MIN_WINDOW_MS <= MAX_WINDOW_MS
    /\ Threshold \in 1 .. MaxConfidence

VARIABLES
    state, pending_reload,      \* the fields of the processor
    engine, finalised, answer,  \* the engine: variables of EngineContract
    pc,        \* the method the handler calls next, or "ready": none runs
    request,   \* what the handler was called with last
    out,       \* the vector it is building
    emits,     \* what the last handler returned
    partials,  \* history: partials emitted since the last speech.start
    shown      \* history: state and engine as the last handler left them

Fields == <<state, pending_reload, partials>>
Contract == <<engine, finalised, answer>>
vars == <<Fields, Contract, pc, request, out, emits, shown>>

Engine == INSTANCE EngineContract
Processor == INSTANCE UtteranceProcessor
Atomic == INSTANCE UtteranceProcessor WITH state <- shown.state, engine <- shown.engine
----------------------------------------------------------------------------
Start(ts) == [handler |-> "start", ts |-> ts]
Chunk(pcm, ts) == [handler |-> "chunk", pcm |-> pcm, ts |-> ts]
End(duration_ms, turn_id) ==
    [handler |-> "end", duration_ms |-> duration_ms, turn_id |-> turn_id]
Reload(name) == [handler |-> "reload", model |-> name]

Requests ==
    {Start(ts) : ts \in 0 .. MaxTs}
    \cup {Chunk(pcm, ts) : pcm \in Chunks \cup {BadPcm}, ts \in 0 .. MaxTs}
    \cup {End(d, t) : d \in 0 .. MAX_WINDOW_MS + 1, t \in OptionalTurn}
    \cup {Reload(name) : name \in Models \cup {UnknownModel}}

Init ==
    /\ Processor!Init
    /\ Engine!Init
    /\ pc = "ready"
    /\ request = None
    /\ out = <<>>
    /\ shown = [state |-> state, engine |-> engine]

(* The handler goes on to call the engine, with `events` in its vector; or  *)
(* it returns them.                                                         *)
Proceed(method, events) ==
    /\ pc' = method
    /\ out' = events
    /\ UNCHANGED <<emits, shown>>

Return(events) ==
    /\ pc' = "ready"
    /\ out' = <<>>
    /\ emits' = events
    /\ shown' = [state |-> state', engine |-> engine']

(* handle(): a handler is entered, and runs up to its first call.           *)
Enter(req) ==
    /\ pc = "ready"
    /\ request' = req
    /\ UNCHANGED Contract
----------------------------------------------------------------------------
Open(start_ts) ==
    /\ state' = Processor!Speaking(start_ts, start_ts, None)
    /\ partials' = 0
    /\ UNCHANGED pending_reload

OnSpeechStart(ts) ==
    /\ Enter(Start(ts))
    /\ \/ /\ Processor!IsSpeaking
          /\ Proceed("reset", <<ErrorEvent("protocol")>>)
          /\ UNCHANGED Fields
       \/ /\ ~Processor!IsSpeaking
          /\ Open(ts)
          /\ Return(<<>>)

OnSpeechChunk(pcm, ts) ==
    /\ Enter(Chunk(pcm, ts))
    /\ UNCHANGED Fields
    /\ \/ Processor!IsSpeaking /\ Proceed("accept_chunk", <<>>)
       \/ ~Processor!IsSpeaking /\ Return(<<ErrorEvent("protocol")>>)

OnSpeechEnd(duration_ms, turn_id) ==
    /\ Enter(End(duration_ms, turn_id))
    /\ UNCHANGED Fields
    /\ \/ /\ Processor!IsSpeaking
          /\ IF duration_ms \in MIN_WINDOW_MS .. MAX_WINDOW_MS
             THEN Proceed("finalise", <<>>)
             ELSE Proceed("reset", <<>>)
       \/ ~Processor!IsSpeaking /\ Return(<<ErrorEvent("protocol")>>)

(* Mutant of OnReloadModel: parked before the name is validated.            *)
ReloadUnchecked(name) ==
    /\ Enter(Reload(name))
    /\ UNCHANGED <<state, partials>>
    /\ \/ Processor!IsSpeaking /\ pending_reload' = name /\ Return(<<>>)
       \/ /\ ~Processor!IsSpeaking
          /\ Proceed("reload_model", <<>>)
          /\ UNCHANGED pending_reload

OnReloadModel(name) ==
    /\ Enter(Reload(name))
    /\ UNCHANGED <<state, partials>>
    /\ \/ /\ name \notin Models
          /\ Return(<<ErrorEvent("model")>>)
          /\ UNCHANGED pending_reload
       \/ /\ name \in Models /\ Processor!IsSpeaking
          /\ pending_reload' = name
          /\ Return(<<>>)
       \/ /\ name \in Models /\ ~Processor!IsSpeaking
          /\ Proceed("reload_model", <<>>)
          /\ UNCHANGED pending_reload
----------------------------------------------------------------------------
(* The calls.                                                               *)

AcceptChunkCall ==
    /\ pc = "accept_chunk"
    /\ Engine!Accept(request.pcm)
    /\ UNCHANGED <<Fields, request>>
    /\ \/ answer'.result = "err" /\ Return(<<ErrorEvent(answer'.kind)>>)
       \/ /\ answer'.result = "ok"
          /\ IF Processor!PartialDue(request.ts)
             THEN Proceed("current_partial_fast", <<>>)
             ELSE Return(<<>>)

PartialCall ==
    /\ pc = "current_partial_fast"
    /\ Engine!CurrentPartialFast
    /\ state' = [state EXCEPT !.last_partial_ts = request.ts]
    /\ \/ /\ answer'.text = NoText
          /\ Return(<<>>)
          /\ UNCHANGED partials
       \/ /\ answer'.text # NoText
          /\ Return(<<PartialEvent(answer'.text, state.turn_id)>>)
          /\ partials' = partials + 1
    /\ UNCHANGED <<pending_reload, request>>

(* Mutant of FinaliseCall: an error of the engine is passed up at once.     *)
FinaliseReturnsEarly ==
    /\ pc = "finalise"
    /\ Engine!Finalise
    /\ UNCHANGED <<Fields, request>>
    /\ \/ /\ answer'.result = "err"
          /\ Return(<<ErrorEvent(answer'.kind)>>)
       \/ /\ answer'.result = "ok"
          /\ Proceed("reset", <<Processor!Judge(answer'.text, answer'.confidence,
                                                request.turn_id)>>)

FinaliseCall ==
    /\ pc = "finalise"
    /\ Engine!Finalise
    /\ UNCHANGED <<Fields, request>>
    /\ \/ /\ answer'.result = "err"
          /\ Proceed("reset", <<ErrorEvent(answer'.kind)>>)
       \/ /\ answer'.result = "ok"
          /\ Proceed("reset", <<Processor!Judge(answer'.text, answer'.confidence,
                                                request.turn_id)>>)

(* What on_speech_end has said when it comes to the parked reload: a window *)
(* that was too long is only reported after the reset.                      *)
Closing ==
    IF request.duration_ms > MAX_WINDOW_MS
    THEN <<UncertainEvent(NoText, 0, "window_too_long", request.turn_id)>>
    ELSE out

ResetCall ==
    /\ pc = "reset"
    /\ Engine!ResetCall
    /\ \/ /\ request.handler = "start"
          /\ Open(request.ts)
          /\ Return(out)
       \/ /\ request.handler = "end"
          /\ state' = Processor!Idle
          /\ IF pending_reload = None THEN Return(Closing) ELSE Proceed("reload_model", Closing)
          /\ UNCHANGED <<pending_reload, partials>>
    /\ UNCHANGED request

ApplyReload(name) ==
    /\ Engine!Reload(name)
    /\ \/ answer'.result = "ok" /\ Return(Append(out, ModelLoadedEvent(name)))
       \/ answer'.result = "err" /\ Return(Append(out, ErrorEvent("model")))

(* Mutant of ReloadCall: the parked reload is looked at, not taken.         *)
ReloadWithoutTake ==
    /\ pc = "reload_model"
    /\ UNCHANGED <<Fields, request>>
    /\ \/ request.handler = "reload" /\ ApplyReload(request.model)
       \/ request.handler = "end" /\ ApplyReload(pending_reload)

(* The model the request names, or the parked one, which is taken.          *)
ReloadCall ==
    /\ pc = "reload_model"
    /\ UNCHANGED <<state, partials, request>>
    /\ \/ /\ request.handler = "reload"
          /\ UNCHANGED pending_reload
          /\ ApplyReload(request.model)
       \/ /\ request.handler = "end"
          /\ pending_reload' = None
          /\ ApplyReload(pending_reload)

Call == AcceptChunkCall \/ PartialCall \/ FinaliseCall \/ ResetCall \/ ReloadCall

Handle ==
    \/ \E ts \in 0 .. MaxTs : OnSpeechStart(ts)
    \/ \E pcm \in Chunks \cup {BadPcm}, ts \in 0 .. MaxTs :
          Len(engine.audio) < MaxSamples /\ OnSpeechChunk(pcm, ts)
    \/ \E d \in 0 .. MAX_WINDOW_MS + 1, t \in OptionalTurn : OnSpeechEnd(d, t)
    \/ \E name \in Models \cup {UnknownModel} : OnReloadModel(name)

Next == Handle \/ Call

Spec == Init /\ [][Next]_vars
----------------------------------------------------------------------------
Methods == {"accept_chunk", "current_partial_fast", "finalise", "reset", "reload_model"}

(* Every variable stays in its type.                                        *)
TypeOK ==
    /\ Processor!TypeOK
    /\ finalised \in BOOLEAN
    /\ pc \in Methods \cup {"ready"}
    /\ request \in Requests \cup {None}
    /\ out \in Seq(Emit)
    /\ shown \in [state : Processor!States, engine : Engines]

(* The processor keeps the lifecycle of the trait, on every path and after  *)
(* an error: once it called finalise, the next call it makes is reset - it  *)
(* neither returns nor reloads before, when it is open to the engine        *)
(* whether the audio of the utterance is still in its buffer.               *)
ResetFollowsFinalise == finalised => pc = "reset"

(* Called one method at a time, on any engine that keeps the contract, the  *)
(* handlers are what UtteranceProcessor says they are: nothing an engine    *)
(* may answer in the middle of one leads to a result it does not allow.     *)
ImplementsProcessor == Atomic!Spec
============================================================================
