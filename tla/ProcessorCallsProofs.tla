------------------------- MODULE ProcessorCallsProofs -------------------------
(* Theorems about ProcessorCalls, for any models, chunks, windows, cadence  *)
(* and threshold, and any engine that keeps EngineContract: handlers that   *)
(* call the engine one method at a time implement UtteranceProcessor, hence *)
(* Utterance.                                                               *)
(*                                                                          *)
(* The invariant says, for each method that may be next, how far the        *)
(* handler got: what it has done to the state and the engine it found       *)
(* (`shown`), and what it has said.  What is known of `shown` itself is the *)
(* invariant of UtteranceProcessorProofs, whose steps the returns are.      *)
EXTENDS ProcessorCalls, TLAPS

AP == INSTANCE UtteranceProcessorProofs WITH state <- shown.state, engine <- shown.engine
----------------------------------------------------------------------------
(* The requests a handler may be serving.                                   *)

ServesStart == request = Start(request.ts) /\ request.ts \in 0 .. MaxTs

ServesChunk ==
    /\ request = Chunk(request.pcm, request.ts)
    /\ request.pcm \in Chunks \cup {BadPcm} /\ request.ts \in 0 .. MaxTs
    /\ Len(shown.engine.audio) < MaxSamples

ServesEnd ==
    /\ request = End(request.duration_ms, request.turn_id)
    /\ request.duration_ms \in 0 .. MAX_WINDOW_MS + 1
    /\ request.turn_id \in OptionalTurn

ServesReload == request = Reload(request.model) /\ request.model \in Models

(* How far the handler got.                                                 *)

Untouched == state = shown.state /\ engine = shown.engine

Listening == shown.state.tag = "Speaking"

InWindow == request.duration_ms \in MIN_WINDOW_MS .. MAX_WINDOW_MS

TooLong == <<UncertainEvent(NoText, 0, "window_too_long", request.turn_id)>>

Verdict(events) == \E closing \in Atomic!FinaliseVerdicts(request.turn_id) : events = <<closing>>

Accepting == ServesChunk /\ Untouched /\ Listening

Guessing ==
    /\ ServesChunk /\ request.pcm \in Chunks /\ Listening
    /\ state = shown.state /\ engine = AcceptChunk(shown.engine, request.pcm)
    /\ Atomic!PartialDue(request.ts)

Finalising == ServesEnd /\ Untouched /\ Listening /\ InWindow

Resetting ==
    /\ state = shown.state /\ Listening
    /\ \/ ServesStart /\ engine = shown.engine /\ out = <<ErrorEvent("protocol")>>
       \/ ServesEnd /\ ~InWindow /\ engine = shown.engine /\ out = <<>>
       \/ ServesEnd /\ InWindow /\ engine \in {shown.engine, Reset(shown.engine)} /\ Verdict(out)

Reloading ==
    \/ ServesReload /\ Untouched /\ ~Listening /\ out = <<>>
    \/ /\ ServesEnd /\ Listening /\ pending_reload # None
       /\ state = Processor!Idle /\ engine = Reset(shown.engine)
       /\ \/ request.duration_ms < MIN_WINDOW_MS /\ out = <<>>
          \/ request.duration_ms > MAX_WINDOW_MS /\ out = TooLong
          \/ InWindow /\ Verdict(out)

Progress ==
    /\ pc \in Methods \cup {"ready"}
    /\ request \in Requests \cup {None}
    /\ finalised \in BOOLEAN
    /\ finalised => pc = "reset" /\ ServesEnd
    /\ pc = "ready" => Untouched /\ out = <<>>
    /\ pc = "accept_chunk" => Accepting /\ out = <<>>
    /\ pc = "current_partial_fast" => Guessing /\ out = <<>>
    /\ pc = "finalise" => Finalising /\ out = <<>>
    /\ pc = "reset" => Resetting
    /\ pc = "reload_model" => Reloading

IInv == shown = [state |-> shown.state, engine |-> shown.engine] /\ AP!IInv /\ Progress

(* A step of the processor, or none, as a caller sees it.                   *)
Step == Atomic!Next \/ UNCHANGED Atomic!vars
----------------------------------------------------------------------------
(* A request is of one kind.                                                *)
LEMMA Kinds ==
    /\ ServesStart => request.handler = "start"
    /\ ServesChunk => request.handler = "chunk"
    /\ ServesEnd => request.handler = "end"
    /\ ServesReload => request.handler = "reload"
  <1>1. /\ \A ts : Start(ts).handler = "start"
        /\ \A pcm, ts : Chunk(pcm, ts).handler = "chunk"
        /\ \A d, t : End(d, t).handler = "end"
        /\ \A name : Reload(name).handler = "reload"
    BY DEF Start, Chunk, End, Reload
  <1> QED
    BY <1>1, Zenon DEF ServesStart, ServesChunk, ServesEnd, ServesReload

LEMMA SameSpeaking ==
    /\ Atomic!IsSpeaking <=> Listening
    /\ state = shown.state => (Processor!IsSpeaking <=> Listening)
  BY DEF Atomic!IsSpeaking, Processor!IsSpeaking, Listening

(* What is shown is well typed.                                             *)
LEMMA ShownType ==
    ASSUME AP!IInv
    PROVE  /\ shown.engine \in Engines /\ shown.engine.audio \in Audio
           /\ Reset(shown.engine) \in Engines
           /\ Reset(Reset(shown.engine)) = Reset(shown.engine)
           /\ shown.state \in Atomic!States
  <1>1. shown.engine \in [model : Models, audio : Seq(Samples)] /\ shown.state \in AP!States
    BY DEF AP!IInv, AP!TypeOK, AP!Engines, AP!Audio
  <1>2. AP!States = Atomic!States
    BY DEF AP!States, Atomic!States, AP!Idle, Atomic!Idle, AP!OptionalTurn, Atomic!OptionalTurn
  <1>3. <<>> \in Seq(Samples)
    OBVIOUS
  <1> QED
    BY <1>1, <1>2, <1>3 DEF Engines, Audio, Reset

(* A handler that returns is at rest.                                       *)
LEMMA Returned ==
    ASSUME NEW events, Return(events), ~finalised', finalised' \in BOOLEAN,
           request' \in Requests \cup {None}
    PROVE  Progress' /\ shown'.state = state' /\ shown'.engine = engine' /\ emits' = events
           /\ shown' = [state |-> shown'.state, engine |-> shown'.engine]
  BY DEF Return, Progress, Untouched, Methods

(* A handler that goes on shows nothing.                                    *)
LEMMA Hidden ==
    ASSUME NEW method, NEW events, Proceed(method, events), UNCHANGED <<pending_reload, partials>>
    PROVE  Step
  BY DEF Proceed, Step, Atomic!vars
----------------------------------------------------------------------------
(* The entries.                                                             *)

LEMMA StartStep ==
    ASSUME IInv, NEW ts \in 0 .. MaxTs, OnSpeechStart(ts)
    PROVE  Step /\ Progress'
  <1>1. /\ pc = "ready" /\ request' = Start(ts) /\ Untouched /\ out = <<>>
        /\ engine' = engine /\ finalised' = FALSE
    BY DEF OnSpeechStart, Enter, Contract, IInv, Progress
  <1>2. Start(ts) \in Requests /\ Start(ts).ts = ts
    BY DEF Requests, Start
  <1>3. CASE Processor!IsSpeaking
    <2>1. Proceed("reset", <<ErrorEvent("protocol")>>) /\ UNCHANGED Fields
      BY <1>3 DEF OnSpeechStart
    <2>2. Resetting'
      BY <1>1, <1>2, <1>3, <2>1, SameSpeaking
      DEF Resetting, ServesStart, Untouched, Proceed, Fields, Listening, ErrorEvent
    <2>3. Progress'
      BY <1>1, <1>2, <2>1, <2>2 DEF Progress, Proceed, Methods
    <2> QED
      BY <2>1, <2>3, Hidden DEF Fields
  <1>4. CASE ~Processor!IsSpeaking
    <2>1. Open(ts) /\ Return(<<>>)
      BY <1>4 DEF OnSpeechStart
    <2>2. /\ Progress' /\ shown'.state = state' /\ shown'.engine = engine' /\ emits' = <<>>
      BY <1>1, <1>2, <2>1, Returned
    <2>3. Atomic!OnSpeechStart(ts)
      BY <1>1, <1>4, <2>1, <2>2, SameSpeaking
      DEF Atomic!OnSpeechStart, Open, Untouched, Processor!Speaking, Atomic!Speaking
    <2> QED
      BY <2>2, <2>3 DEF Step, Atomic!Next
  <1> QED
    BY <1>3, <1>4

LEMMA ChunkStep ==
    ASSUME IInv, NEW pcm \in Chunks \cup {BadPcm}, NEW ts \in 0 .. MaxTs,
           Len(engine.audio) < MaxSamples, OnSpeechChunk(pcm, ts)
    PROVE  Step /\ Progress'
  <1>1. /\ pc = "ready" /\ request' = Chunk(pcm, ts) /\ Untouched /\ out = <<>>
        /\ engine' = engine /\ finalised' = FALSE /\ UNCHANGED Fields
    BY DEF OnSpeechChunk, Enter, Contract, IInv, Progress
  <1>2. Chunk(pcm, ts) \in Requests /\ Chunk(pcm, ts).pcm = pcm /\ Chunk(pcm, ts).ts = ts
    BY DEF Requests, Chunk
  <1>3. CASE Processor!IsSpeaking
    <2>1. Proceed("accept_chunk", <<>>)
      BY <1>3 DEF OnSpeechChunk
    <2>2. Accepting'
      BY <1>1, <1>2, <1>3, <2>1, SameSpeaking
      DEF Accepting, ServesChunk, Untouched, Proceed, Fields, Listening
    <2>3. Progress'
      BY <1>1, <1>2, <2>1, <2>2 DEF Progress, Proceed, Methods
    <2> QED
      BY <1>1, <2>1, <2>3, Hidden DEF Fields
  <1>4. CASE ~Processor!IsSpeaking
    <2>1. Return(<<ErrorEvent("protocol")>>)
      BY <1>4 DEF OnSpeechChunk
    <2>2. /\ Progress' /\ shown'.state = state' /\ shown'.engine = engine'
          /\ emits' = <<ErrorEvent("protocol")>>
      BY <1>1, <1>2, <2>1, Returned
    <2>3. Atomic!OnSpeechChunk(pcm, ts)
      BY <1>1, <1>4, <2>2, SameSpeaking
      DEF Atomic!OnSpeechChunk, Atomic!ChunkWhileIdle, Untouched, Fields, ErrorEvent,
          Atomic!ErrorEvent
    <2> QED
      BY <1>1, <2>2, <2>3 DEF Step, Atomic!Next, Untouched
  <1> QED
    BY <1>3, <1>4

LEMMA EndStep ==
    ASSUME IInv, NEW d \in 0 .. MAX_WINDOW_MS + 1, NEW t \in OptionalTurn, OnSpeechEnd(d, t)
    PROVE  Step /\ Progress'
  <1>1. /\ pc = "ready" /\ request' = End(d, t) /\ Untouched /\ out = <<>>
        /\ engine' = engine /\ finalised' = FALSE /\ UNCHANGED Fields
    BY DEF OnSpeechEnd, Enter, Contract, IInv, Progress
  <1>2. /\ End(d, t) \in Requests /\ End(d, t).duration_ms = d /\ End(d, t).turn_id = t
        /\ ServesEnd'
    BY <1>1 DEF Requests, End, ServesEnd
  <1>3. CASE Processor!IsSpeaking /\ d \in MIN_WINDOW_MS .. MAX_WINDOW_MS
    <2>1. Proceed("finalise", <<>>)
      BY <1>3 DEF OnSpeechEnd
    <2>2. Finalising'
      BY <1>1, <1>2, <1>3, <2>1, SameSpeaking
      DEF Finalising, Untouched, Proceed, Fields, Listening, InWindow
    <2>3. Progress'
      BY <1>1, <1>2, <2>1, <2>2 DEF Progress, Proceed, Methods
    <2> QED
      BY <1>1, <2>1, <2>3, Hidden DEF Fields
  <1>4. CASE Processor!IsSpeaking /\ d \notin MIN_WINDOW_MS .. MAX_WINDOW_MS
    <2>1. Proceed("reset", <<>>)
      BY <1>4 DEF OnSpeechEnd
    <2>2. Resetting'
      BY <1>1, <1>2, <1>4, <2>1, SameSpeaking
      DEF Resetting, Untouched, Proceed, Fields, Listening, InWindow
    <2>3. Progress'
      BY <1>1, <1>2, <2>1, <2>2 DEF Progress, Proceed, Methods
    <2> QED
      BY <1>1, <2>1, <2>3, Hidden DEF Fields
  <1>5. CASE ~Processor!IsSpeaking
    <2>1. Return(<<ErrorEvent("protocol")>>)
      BY <1>5 DEF OnSpeechEnd
    <2>2. /\ Progress' /\ shown'.state = state' /\ shown'.engine = engine'
          /\ emits' = <<ErrorEvent("protocol")>>
      BY <1>1, <1>2, <2>1, Returned
    <2>3. Atomic!OnSpeechEnd(d, t)
      BY <1>1, <1>5, <2>2, SameSpeaking
      DEF Atomic!OnSpeechEnd, Atomic!EndWhileIdle, Untouched, Fields, ErrorEvent,
          Atomic!ErrorEvent
    <2>4. t \in Atomic!OptionalTurn
      BY DEF OptionalTurn, Atomic!OptionalTurn
    <2> QED
      BY <2>2, <2>3, <2>4 DEF Step, Atomic!Next
  <1> QED
    BY <1>3, <1>4, <1>5

LEMMA ReloadStep ==
    ASSUME IInv, NEW name \in Models \cup {UnknownModel}, OnReloadModel(name)
    PROVE  Step /\ Progress'
  <1>1. /\ pc = "ready" /\ request' = Reload(name) /\ Untouched /\ out = <<>>
        /\ engine' = engine /\ finalised' = FALSE /\ UNCHANGED <<state, partials>>
    BY DEF OnReloadModel, Enter, Contract, IInv, Progress
  <1>2. Reload(name) \in Requests /\ Reload(name).model = name
    BY DEF Requests, Reload
  <1>3. CASE name \notin Models
    <2>1. Return(<<ErrorEvent("model")>>) /\ UNCHANGED pending_reload
      BY <1>3 DEF OnReloadModel
    <2>2. /\ Progress' /\ shown'.state = state' /\ shown'.engine = engine'
          /\ emits' = <<ErrorEvent("model")>>
      BY <1>1, <1>2, <2>1, Returned
    <2>3. Atomic!OnReloadModel(name)
      BY <1>1, <1>3, <2>1, <2>2
      DEF Atomic!OnReloadModel, Atomic!ReloadRefused, Untouched, ErrorEvent, Atomic!ErrorEvent
    <2> QED
      BY <2>2, <2>3 DEF Step, Atomic!Next
  <1>4. CASE name \in Models /\ Processor!IsSpeaking
    <2>1. Return(<<>>) /\ pending_reload' = name
      BY <1>4 DEF OnReloadModel
    <2>2. Progress' /\ shown'.state = state' /\ shown'.engine = engine' /\ emits' = <<>>
      BY <1>1, <1>2, <2>1, Returned
    <2>3. Atomic!OnReloadModel(name)
      BY <1>1, <1>4, <2>1, <2>2, SameSpeaking
      DEF Atomic!OnReloadModel, Atomic!ReloadQueued, Untouched
    <2> QED
      BY <2>2, <2>3 DEF Step, Atomic!Next
  <1>5. CASE name \in Models /\ ~Processor!IsSpeaking
    <2>1. Proceed("reload_model", <<>>) /\ UNCHANGED pending_reload
      BY <1>5 DEF OnReloadModel
    <2>2. Reloading'
      BY <1>1, <1>2, <1>5, <2>1, SameSpeaking
      DEF Reloading, ServesReload, Untouched, Proceed, Listening
    <2>3. Progress'
      BY <1>1, <1>2, <2>1, <2>2 DEF Progress, Proceed, Methods
    <2> QED
      BY <1>1, <2>1, <2>3, Hidden
  <1> QED
    BY <1>3, <1>4, <1>5
----------------------------------------------------------------------------
(* What a call of the engine may come back with.                            *)

LEMMA AcceptOutcome ==
    ASSUME NEW pcm, Engine!Accept(pcm)
    PROVE  /\ ~finalised /\ finalised' = finalised
           /\ \/ answer'.result = "ok" /\ pcm \in Chunks /\ engine' = AcceptChunk(engine, pcm)
              \/ /\ answer'.result = "err" /\ answer'.kind \in AcceptChunkErrors(pcm)
                 /\ engine' = engine
  BY DEF Engine!Accept, Engine!AcceptChunk, AcceptChunk, Engine!AcceptChunkErrors,
     AcceptChunkErrors, Engine!Ok, Engine!Err

LEMMA PartialOutcome ==
    ASSUME Engine!CurrentPartialFast
    PROVE  /\ ~finalised /\ finalised' = finalised /\ engine' = engine
           /\ answer'.text = NoText \/ answer'.text \in PartialTexts(engine)
  BY DEF Engine!CurrentPartialFast, Engine!PartialTexts, PartialTexts, Engine!NoText, NoText,
     Engine!PartialAnswer, Engine!Text, Text

LEMMA FinaliseOutcome ==
    ASSUME Engine!Finalise
    PROVE  /\ ~finalised /\ finalised' = TRUE /\ engine' \in {engine, Reset(engine)}
           /\ \/ /\ answer'.result = "ok" /\ answer'.text \in FinaliseTexts(engine)
                 /\ answer'.confidence \in Confidences
              \/ answer'.result = "err" /\ answer'.kind \in FinaliseErrors
  BY DEF Engine!Finalise, Engine!Reset, Reset, Engine!FinaliseTexts, FinaliseTexts,
     Engine!Confidences, Confidences, Engine!FinaliseErrors, FinaliseErrors, Engine!NoText,
     NoText, Engine!Text, Text, Engine!FinalAnswer, Engine!Err

LEMMA ReloadOutcome ==
    ASSUME NEW name, Engine!Reload(name)
    PROVE  /\ ~finalised /\ finalised' = finalised
           /\ \/ answer'.result = "ok" /\ engine' \in ReloadModelOk(engine, name)
              \/ answer'.result = "err" /\ engine' = engine
  BY DEF Engine!Reload, Engine!ReloadModelOk, ReloadModelOk, Engine!Ok, Engine!Err

LEMMA ResetOutcome ==
    ASSUME Engine!ResetCall
    PROVE  finalised' = FALSE /\ engine' = Reset(engine)
  BY DEF Engine!ResetCall, Engine!Reset, Reset
----------------------------------------------------------------------------
(* The calls.                                                               *)

LEMMA AcceptStep ==
    ASSUME IInv, AcceptChunkCall
    PROVE  Step /\ Progress'
  <1>1. /\ ServesChunk /\ Untouched /\ Listening /\ out = <<>>
        /\ UNCHANGED <<Fields, request>> /\ request \in Requests \cup {None}
    BY DEF AcceptChunkCall, IInv, Progress, Accepting
  <1>2. /\ finalised' = FALSE
        /\ \/ /\ answer'.result = "ok" /\ request.pcm \in Chunks
              /\ engine' = AcceptChunk(engine, request.pcm)
           \/ /\ answer'.result = "err" /\ answer'.kind \in AcceptChunkErrors(request.pcm)
              /\ engine' = engine
    BY AcceptOutcome DEF AcceptChunkCall, IInv, Progress
  <1>3. /\ request.pcm \in Chunks \cup {BadPcm} /\ request.ts \in 0 .. MaxTs
        /\ Len(shown.engine.audio) < MaxSamples
    BY <1>1 DEF ServesChunk
  <1>4. Processor!PartialDue(request.ts) <=> Atomic!PartialDue(request.ts)
    BY <1>1 DEF Untouched, Processor!PartialDue, Atomic!PartialDue, Processor!SaturatingSub,
       Atomic!SaturatingSub
  <1>5. CASE answer'.result = "err"
    <2>1. Return(<<ErrorEvent(answer'.kind)>>)
      BY <1>5 DEF AcceptChunkCall
    <2>2. /\ Progress' /\ shown'.state = state' /\ shown'.engine = engine'
          /\ emits' = <<ErrorEvent(answer'.kind)>>
      BY <1>1, <1>2, <2>1, Returned
    <2>3. Atomic!ChunkRejected(request.pcm)
      BY <1>1, <1>2, <1>5, <2>2, SameSpeaking
      DEF Atomic!ChunkRejected, Untouched, Fields, ErrorEvent, Atomic!ErrorEvent,
          AcceptChunkErrors, Atomic!AcceptChunkErrors
    <2> QED
      BY <1>3, <2>2, <2>3 DEF Step, Atomic!Next, Atomic!OnSpeechChunk
  <1>6. CASE answer'.result = "ok" /\ Processor!PartialDue(request.ts)
    <2>1. Proceed("current_partial_fast", <<>>)
      BY <1>6 DEF AcceptChunkCall
    <2>2. Guessing'
      BY <1>1, <1>2, <1>4, <1>6, <2>1
      DEF Guessing, ServesChunk, Proceed, Untouched, Fields, Listening, AcceptChunk,
          Atomic!PartialDue, Atomic!SaturatingSub
    <2>3. Progress'
      BY <1>1, <1>2, <2>1, <2>2 DEF Progress, Proceed, Methods
    <2> QED
      BY <1>1, <2>1, <2>3, Hidden DEF Fields
  <1>7. CASE answer'.result = "ok" /\ ~Processor!PartialDue(request.ts)
    <2>1. Return(<<>>)
      BY <1>7 DEF AcceptChunkCall
    <2>2. Progress' /\ shown'.state = state' /\ shown'.engine = engine' /\ emits' = <<>>
      BY <1>1, <1>2, <2>1, Returned
    <2>3. Atomic!ChunkAccepted(request.pcm, request.ts)
      BY <1>1, <1>2, <1>4, <1>7, <2>2, SameSpeaking
      DEF Atomic!ChunkAccepted, Untouched, Fields, AcceptChunk, Atomic!AcceptChunk
    <2> QED
      BY <1>3, <2>2, <2>3 DEF Step, Atomic!Next, Atomic!OnSpeechChunk
  <1> QED
    BY <1>2, <1>5, <1>6, <1>7

LEMMA PartialStep ==
    ASSUME IInv, PartialCall
    PROVE  Step /\ Progress'
  <1>1. /\ ServesChunk /\ Listening /\ request.pcm \in Chunks /\ state = shown.state
        /\ engine = AcceptChunk(shown.engine, request.pcm) /\ Atomic!PartialDue(request.ts)
        /\ UNCHANGED <<pending_reload, request>> /\ request \in Requests \cup {None}
        /\ state' = [state EXCEPT !.last_partial_ts = request.ts]
    BY DEF PartialCall, IInv, Progress, Guessing
  <1>2. /\ finalised' = FALSE /\ engine' = engine
        /\ answer'.text = NoText \/ answer'.text \in PartialTexts(engine)
    BY PartialOutcome DEF PartialCall, IInv, Progress
  <1>3. /\ request.ts \in 0 .. MaxTs /\ Len(shown.engine.audio) < MaxSamples
    BY <1>1 DEF ServesChunk
  <1>4. /\ Atomic!AcceptChunk(shown.engine, request.pcm) = engine'
        /\ Atomic!PartialTexts(engine') = PartialTexts(engine')
    BY <1>1, <1>2
    DEF AcceptChunk, Atomic!AcceptChunk, PartialTexts, Atomic!PartialTexts, Text, Atomic!Text
  <1>5. ASSUME Atomic!ChunkAccepted(request.pcm, request.ts)
        PROVE  Step
    BY <1>1, <1>3, <1>5 DEF Step, Atomic!Next, Atomic!OnSpeechChunk
  <1>6. CASE answer'.text = NoText
    <2>1. Return(<<>>) /\ UNCHANGED partials
      BY <1>6 DEF PartialCall
    <2>2. Progress' /\ shown'.state = state' /\ shown'.engine = engine' /\ emits' = <<>>
      BY <1>1, <1>2, <2>1, Returned
    <2>3. Atomic!ChunkAccepted(request.pcm, request.ts)
      BY <1>1, <1>2, <1>4, <2>1, <2>2, SameSpeaking DEF Atomic!ChunkAccepted
    <2> QED
      BY <1>5, <2>2, <2>3
  <1>7. CASE answer'.text # NoText
    <2>1. /\ Return(<<PartialEvent(answer'.text, state.turn_id)>>)
          /\ partials' = partials + 1
      BY <1>7 DEF PartialCall
    <2>2. /\ Progress' /\ shown'.state = state' /\ shown'.engine = engine'
          /\ emits' = <<PartialEvent(answer'.text, state.turn_id)>>
      BY <1>1, <1>2, <2>1, Returned
    <2>3. answer'.text \in Atomic!PartialTexts(engine')
      BY <1>2, <1>4, <1>7
    <2>4. emits' = <<Atomic!PartialEvent(answer'.text, shown.state.turn_id)>>
      BY <1>1, <2>2 DEF PartialEvent, Atomic!PartialEvent
    <2>5. Atomic!ChunkAccepted(request.pcm, request.ts)
      BY <1>1, <1>2, <1>4, <2>1, <2>2, <2>3, <2>4, SameSpeaking DEF Atomic!ChunkAccepted
    <2> QED
      BY <1>5, <2>2, <2>5
  <1> QED
    BY <1>6, <1>7

(* What finalise answers makes a verdict UtteranceProcessor allows.  The    *)
(* verdicts stay the same while nothing new is shown.                       *)
LEMMA VerdictsStay ==
    ASSUME UNCHANGED <<shown, request>>
    PROVE  Atomic!FinaliseVerdicts(request.turn_id)' = Atomic!FinaliseVerdicts(request.turn_id)
  BY DEF Atomic!FinaliseVerdicts, Atomic!Judge, Atomic!FinaliseTexts, Atomic!NoText,
     Atomic!Text, Atomic!Confidences, Atomic!FinaliseErrors, Atomic!ErrorEvent,
     Atomic!FinalEvent, Atomic!UncertainEvent

LEMMA JudgedIsVerdict ==
    ASSUME engine = shown.engine, NEW text \in FinaliseTexts(engine),
           NEW confidence \in Confidences
    PROVE  Verdict(<<Processor!Judge(text, confidence, request.turn_id)>>)
  <1>1. /\ text \in Atomic!FinaliseTexts(shown.engine) /\ confidence \in Atomic!Confidences
    BY DEF FinaliseTexts, Atomic!FinaliseTexts, NoText, Atomic!NoText, Text, Atomic!Text,
       Confidences, Atomic!Confidences
  <1>2. Processor!Judge(text, confidence, request.turn_id)
           = Atomic!Judge(text, confidence, request.turn_id)
    BY DEF Processor!Judge, Atomic!Judge, Processor!FinalEvent, Atomic!FinalEvent,
       Processor!UncertainEvent, Atomic!UncertainEvent, Processor!FinalEvent
  <1> QED
    BY <1>1, <1>2 DEF Verdict, Atomic!FinaliseVerdicts

LEMMA FailureIsVerdict ==
    ASSUME NEW kind \in FinaliseErrors
    PROVE  Verdict(<<ErrorEvent(kind)>>)
  <1>1. kind \in Atomic!FinaliseErrors /\ ErrorEvent(kind) = Atomic!ErrorEvent(kind)
    BY DEF FinaliseErrors, Atomic!FinaliseErrors, ErrorEvent, Atomic!ErrorEvent
  <1>2. Atomic!ErrorEvent(kind) \in Atomic!FinaliseVerdicts(request.turn_id)
    BY <1>1 DEF Atomic!FinaliseVerdicts
  <1> QED
    BY <1>1, <1>2 DEF Verdict

LEMMA FinaliseStep ==
    ASSUME IInv, FinaliseCall
    PROVE  Step /\ Progress'
  <1>1. /\ ServesEnd /\ Untouched /\ Listening /\ InWindow
        /\ UNCHANGED <<Fields, request>> /\ request \in Requests \cup {None}
    BY DEF FinaliseCall, IInv, Progress, Finalising
  <1>2. /\ finalised' = TRUE /\ engine' \in {engine, Reset(engine)}
        /\ \/ /\ answer'.result = "ok" /\ answer'.text \in FinaliseTexts(engine)
              /\ answer'.confidence \in Confidences
           \/ answer'.result = "err" /\ answer'.kind \in FinaliseErrors
    BY FinaliseOutcome DEF FinaliseCall
  <1>3. PICK events : Proceed("reset", events) /\ Verdict(events)
    <2>1. CASE answer'.result = "err" /\ answer'.kind \in FinaliseErrors
      <3>1. Proceed("reset", <<ErrorEvent(answer'.kind)>>)
        BY <2>1 DEF FinaliseCall
      <3>2. Verdict(<<ErrorEvent(answer'.kind)>>)
        BY <2>1, FailureIsVerdict
      <3> QED
        BY <3>1, <3>2
    <2>2. CASE /\ answer'.result = "ok" /\ answer'.text \in FinaliseTexts(engine)
               /\ answer'.confidence \in Confidences
      <3> DEFINE judged == Processor!Judge(answer'.text, answer'.confidence, request.turn_id)
      <3>1. Proceed("reset", <<judged>>)
        BY <2>2 DEF FinaliseCall
      <3>2. Verdict(<<judged>>)
        BY <1>1, <2>2, JudgedIsVerdict DEF Untouched
      <3> QED
        BY <3>1, <3>2
    <2> QED
      BY <1>2, <2>1, <2>2
  <1>4. out' = events /\ pc' = "reset" /\ shown' = shown
    BY <1>3 DEF Proceed
  <1>5. ServesEnd' /\ InWindow' /\ Listening'
    BY <1>1, <1>4 DEF ServesEnd, InWindow, Listening
  <1>6. Verdict(out)'
    BY <1>1, <1>3, <1>4, VerdictsStay DEF Verdict
  <1>7. Resetting'
    BY <1>1, <1>2, <1>4, <1>5, <1>6 DEF Resetting, Untouched, Fields, Reset
  <1>8. Progress'
    BY <1>1, <1>2, <1>4, <1>5, <1>7 DEF Progress, Methods
  <1> QED
    BY <1>1, <1>3, <1>8, Hidden DEF Fields

(* Where on_speech_end comes out: what UtteranceProcessor calls closing the *)
(* utterance, said in the words of one of its three branches.               *)
LEMMA Closed ==
    ASSUME ServesEnd, Listening, NEW events, Atomic!CloseUtterance(events),
           \/ request.duration_ms < MIN_WINDOW_MS /\ events = <<>>
           \/ request.duration_ms > MAX_WINDOW_MS /\ events = TooLong
           \/ InWindow /\ Verdict(events)
    PROVE  Step
  <1>1. /\ request.duration_ms \in 0 .. MAX_WINDOW_MS + 1
        /\ request.turn_id \in Atomic!OptionalTurn
    BY DEF ServesEnd, OptionalTurn, Atomic!OptionalTurn
  <1>2. Atomic!OnSpeechEnd(request.duration_ms, request.turn_id)
    <2>1. CASE request.duration_ms < MIN_WINDOW_MS /\ events = <<>>
      BY <2>1, SameSpeaking DEF Atomic!OnSpeechEnd, Atomic!EndTooShort
    <2>2. CASE request.duration_ms > MAX_WINDOW_MS /\ events = TooLong
      BY <2>2, SameSpeaking
      DEF Atomic!OnSpeechEnd, Atomic!EndTooLong, TooLong, UncertainEvent,
          Atomic!UncertainEvent, NoText, Atomic!NoText
    <2>3. CASE InWindow /\ Verdict(events)
      BY <2>3, SameSpeaking
      DEF Atomic!OnSpeechEnd, Atomic!EndFinalised, InWindow, Verdict
    <2> QED
      BY <2>1, <2>2, <2>3
  <1> QED
    BY <1>1, <1>2 DEF Step, Atomic!Next

LEMMA ResetStep ==
    ASSUME IInv, ResetCall
    PROVE  Step /\ Progress'
  <1>1. /\ state = shown.state /\ Listening /\ Resetting /\ UNCHANGED request
        /\ request \in Requests \cup {None}
    BY DEF ResetCall, IInv, Progress, Resetting
  <1>2. finalised' = FALSE /\ engine' = Reset(engine)
    BY ResetOutcome DEF ResetCall
  <1>3. engine' = Reset(shown.engine)
    BY <1>1, <1>2, ShownType DEF Resetting, IInv
  <1>4. Reset(shown.engine) = Atomic!Reset(shown.engine)
    BY DEF Reset, Atomic!Reset
  <1>5. CASE ServesStart
    <2>1. Open(request.ts) /\ Return(out) /\ out = <<ErrorEvent("protocol")>>
      BY <1>1, <1>5, Kinds DEF ResetCall, Resetting
    <2>2. Progress' /\ shown'.state = state' /\ shown'.engine = engine' /\ emits' = out
      BY <1>1, <1>2, <2>1, Returned
    <2>3. Atomic!OnSpeechStart(request.ts)
      BY <1>1, <1>3, <1>4, <2>1, <2>2, SameSpeaking
      DEF Atomic!OnSpeechStart, Open, Processor!Speaking, Atomic!Speaking, ErrorEvent,
          Atomic!ErrorEvent
    <2> QED
      BY <1>5, <2>2, <2>3 DEF Step, Atomic!Next, ServesStart
  <1>6. CASE ServesEnd
    <2>1. /\ state' = Processor!Idle /\ UNCHANGED <<pending_reload, partials>>
          /\ IF pending_reload = None THEN Return(Closing) ELSE Proceed("reload_model", Closing)
      BY <1>6, Kinds DEF ResetCall
    <2>2. \/ request.duration_ms < MIN_WINDOW_MS /\ Closing = <<>>
          \/ request.duration_ms > MAX_WINDOW_MS /\ Closing = TooLong
          \/ InWindow /\ Verdict(Closing)
      BY <1>1, <1>6, Kinds, CallsAssumption
      DEF Resetting, Closing, TooLong, InWindow, ServesEnd
    <2>3. CASE pending_reload = None
      <3>1. Return(Closing)
        BY <2>1, <2>3
      <3>2. Progress' /\ shown'.state = state' /\ shown'.engine = engine' /\ emits' = Closing
        BY <1>1, <1>2, <3>1, Returned
      <3>3. Atomic!CloseUtterance(Closing)
        BY <1>3, <1>4, <2>1, <2>3, <3>2
        DEF Atomic!CloseUtterance, Processor!Idle, Atomic!Idle
      <3> QED
        BY <1>1, <1>6, <2>2, <3>2, <3>3, Closed
    <2>4. CASE pending_reload # None
      <3>1. Proceed("reload_model", Closing)
        BY <2>1, <2>4
      <3>2. UNCHANGED <<shown, request>> /\ out' = Closing /\ pc' = "reload_model"
        BY <1>1, <3>1 DEF Proceed
      <3>3. \/ request'.duration_ms < MIN_WINDOW_MS /\ out' = <<>>
            \/ request'.duration_ms > MAX_WINDOW_MS /\ out' = TooLong'
            \/ InWindow' /\ Verdict(out)'
        <4>1. Verdict(Closing) => Verdict(out)'
          BY <3>2, VerdictsStay DEF Verdict
        <4> QED
          BY <2>2, <3>2, <4>1 DEF TooLong, InWindow
      <3>4. Reloading'
        BY <1>1, <1>3, <1>6, <2>1, <2>4, <3>2, <3>3
        DEF Reloading, ServesEnd, Listening, Reset, Processor!Idle
      <3>5. Progress'
        BY <1>1, <1>2, <3>2, <3>4 DEF Progress, Methods
      <3> QED
        BY <2>1, <3>1, <3>5, Hidden
    <2> QED
      BY <2>3, <2>4
  <1> QED
    BY <1>1, <1>5, <1>6 DEF Resetting

(* What a reload comes back with is an outcome of UtteranceProcessor's.     *)
LEMMA ReloadApplied ==
    ASSUME NEW name, ApplyReload(name), finalised \in BOOLEAN,
           request' \in Requests \cup {None}
    PROVE  /\ Progress' /\ shown'.state = state' /\ shown'.engine = engine'
           /\ \E swap \in Atomic!ApplyReload(engine, name) :
                 shown'.engine = swap.engine /\ emits' = Append(out, swap.event)
  <1>1. /\ finalised' = FALSE
        /\ \/ answer'.result = "ok" /\ engine' \in ReloadModelOk(engine, name)
           \/ answer'.result = "err" /\ engine' = engine
    BY ReloadOutcome DEF ApplyReload
  <1>2. CASE answer'.result = "ok" /\ engine' \in ReloadModelOk(engine, name)
    <2> DEFINE swap == [engine |-> engine', event |-> ModelLoadedEvent(name)]
    <2>1. Return(Append(out, swap.event))
      BY <1>2 DEF ApplyReload
    <2>2. /\ Progress' /\ shown'.state = state' /\ shown'.engine = engine'
          /\ emits' = Append(out, swap.event)
      BY <1>1, <2>1, Returned
    <2>3. swap \in Atomic!ApplyReload(engine, name)
      BY <1>2 DEF Atomic!ApplyReload, ReloadModelOk, Atomic!ReloadModelOk, ModelLoadedEvent,
         Atomic!ModelLoadedEvent
    <2> QED
      BY <2>2, <2>3
  <1>3. CASE answer'.result = "err" /\ engine' = engine
    <2> DEFINE swap == [engine |-> engine, event |-> ErrorEvent("model")]
    <2>1. Return(Append(out, swap.event))
      BY <1>3 DEF ApplyReload
    <2>2. /\ Progress' /\ shown'.state = state' /\ shown'.engine = engine'
          /\ emits' = Append(out, swap.event)
      BY <1>1, <2>1, Returned
    <2>3. swap \in Atomic!ApplyReload(engine, name)
      BY DEF Atomic!ApplyReload, ErrorEvent, Atomic!ErrorEvent
    <2> QED
      BY <1>3, <2>2, <2>3
  <1> QED
    BY <1>1, <1>2, <1>3

LEMMA ReloadCallStep ==
    ASSUME IInv, ReloadCall
    PROVE  Step /\ Progress'
  <1>1. /\ Reloading /\ UNCHANGED <<state, partials, request>> /\ finalised \in BOOLEAN
        /\ request' \in Requests \cup {None}
    BY DEF ReloadCall, IInv, Progress
  <1>2. CASE ServesReload
    <2> DEFINE name == request.model
    <2>1. /\ UNCHANGED pending_reload /\ ApplyReload(name) /\ name \in Models
          /\ Untouched /\ ~Listening /\ out = <<>>
      BY <1>1, <1>2, Kinds DEF ReloadCall, Reloading, ServesReload
    <2> HIDE DEF name
    <2>2. /\ Progress' /\ shown'.state = state' /\ shown'.engine = engine'
          /\ \E swap \in Atomic!ApplyReload(engine, name) :
                shown'.engine = swap.engine /\ emits' = Append(out, swap.event)
      BY <1>1, <2>1, ReloadApplied
    <2>3. \A event : Append(<<>>, event) = <<event>>
      OBVIOUS
    <2>4. Atomic!ReloadNow(name)
      BY <1>1, <2>1, <2>2, <2>3, SameSpeaking DEF Atomic!ReloadNow, Untouched
    <2> QED
      BY <2>1, <2>2, <2>4 DEF Step, Atomic!Next, Atomic!OnReloadModel
  <1>3. CASE ServesEnd
    <2>1. /\ pending_reload' = None /\ ApplyReload(pending_reload)
          /\ Listening /\ pending_reload # None
          /\ state = Processor!Idle /\ engine = Reset(shown.engine)
          /\ \/ request.duration_ms < MIN_WINDOW_MS /\ out = <<>>
             \/ request.duration_ms > MAX_WINDOW_MS /\ out = TooLong
             \/ InWindow /\ Verdict(out)
      BY <1>1, <1>3, Kinds DEF ReloadCall, Reloading
    <2>2. /\ Progress' /\ shown'.state = state' /\ shown'.engine = engine'
          /\ \E swap \in Atomic!ApplyReload(engine, pending_reload) :
                shown'.engine = swap.engine /\ emits' = Append(out, swap.event)
      BY <1>1, <2>1, ReloadApplied
    <2>3. engine = Atomic!Reset(shown.engine)
      BY <2>1 DEF Reset, Atomic!Reset
    <2>4. Atomic!CloseUtterance(out)
      BY <1>1, <2>1, <2>2, <2>3 DEF Atomic!CloseUtterance, Processor!Idle, Atomic!Idle
    <2> QED
      BY <1>3, <2>1, <2>2, <2>4, Closed
  <1> QED
    BY <1>1, <1>2, <1>3 DEF Reloading
----------------------------------------------------------------------------
LEMMA EveryStep ==
    ASSUME IInv, [Next]_vars
    PROVE  Step /\ Progress' /\ shown' = [state |-> shown'.state, engine |-> shown'.engine]
  <1>1. Step /\ Progress'
    <2>1. CASE Handle
      BY <2>1, StartStep, ChunkStep, EndStep, ReloadStep DEF Handle
    <2>2. CASE Call
      BY <2>2, AcceptStep, PartialStep, FinaliseStep, ResetStep, ReloadCallStep DEF Call
    <2>3. CASE UNCHANGED vars
      <3>1. /\ UNCHANGED <<state, pending_reload, engine, finalised, pc, request, out, emits,
                           partials, shown>>
            /\ Verdict(out)' <=> Verdict(out)
            /\ Atomic!PartialDue(request.ts)' <=> Atomic!PartialDue(request.ts)
        BY <2>3, VerdictsStay
        DEF vars, Fields, Contract, Verdict, Atomic!PartialDue, Atomic!SaturatingSub
      <3>2. /\ ServesStart' <=> ServesStart
            /\ ServesChunk' <=> ServesChunk
            /\ ServesEnd' <=> ServesEnd
            /\ ServesReload' <=> ServesReload
            /\ Listening' <=> Listening
            /\ InWindow' <=> InWindow
            /\ TooLong' = TooLong
        BY <3>1 DEF ServesStart, ServesChunk, ServesEnd, ServesReload, Listening, InWindow,
           TooLong
      <3>3. Progress'
        BY <3>1, <3>2 DEF IInv, Progress, Untouched, Accepting, Guessing, Finalising,
           Resetting, Reloading
      <3> QED
        BY <3>1, <3>3 DEF Step, Atomic!vars
    <2> QED
      BY <2>1, <2>2, <2>3 DEF Next
  <1>2. shown' = shown \/ shown' = [state |-> state', engine |-> engine']
    BY DEF vars, Next, Handle, Call, OnSpeechStart, OnSpeechChunk, OnSpeechEnd,
       OnReloadModel, AcceptChunkCall, PartialCall, FinaliseCall, ResetCall, ReloadCall,
       ApplyReload, Proceed, Return
  <1> QED
    BY <1>1, <1>2 DEF IInv
----------------------------------------------------------------------------
(* The processor of UtteranceProcessorProofs is the one that is shown.      *)

LEMMA SameAssumptions ==
    /\ AP!NoneAssumption /\ AP!ConfidenceAssumption /\ AP!ChunkAssumption
    /\ AP!InputAssumption /\ AP!CadenceAssumption /\ AP!WindowAssumption
    /\ AP!ThresholdAssumption /\ AP!BoundAssumption
  <1>1. AP!NoneAssumption /\ AP!ConfidenceAssumption /\ AP!ChunkAssumption
    BY NoneAssumption, ConfidenceAssumption, ChunkAssumption
    DEF AP!NoneAssumption, AP!ConfidenceAssumption, AP!ChunkAssumption, Audio, AP!Audio
  <1>2. AP!InputAssumption /\ AP!CadenceAssumption
    BY CallsAssumption DEF AP!InputAssumption, AP!CadenceAssumption
  <1>3. AP!WindowAssumption /\ AP!ThresholdAssumption /\ AP!BoundAssumption
    <2>1. MIN_WINDOW_MS \in Nat /\ MAX_WINDOW_MS \in Nat /\ MaxTs \in Nat /\ MaxSamples \in Nat
      BY CallsAssumption
    <2>2. MIN_WINDOW_MS <= MAX_WINDOW_MS /\ Threshold \in 1 .. MaxConfidence
      BY CallsAssumption
    <2> QED
      BY <2>1, <2>2 DEF AP!WindowAssumption, AP!ThresholdAssumption, AP!BoundAssumption
  <1> QED
    BY <1>1, <1>2, <1>3

LEMMA SameStart ==
    ASSUME NEW ts, Atomic!OnSpeechStart(ts)
    PROVE  AP!OnSpeechStart(ts)
  BY DEF Atomic!OnSpeechStart, AP!OnSpeechStart, Atomic!IsSpeaking, AP!IsSpeaking,
     Atomic!ErrorEvent, AP!ErrorEvent, Atomic!Reset, AP!Reset, Atomic!Speaking, AP!Speaking

LEMMA SameChunk ==
    ASSUME NEW pcm, NEW ts, Atomic!OnSpeechChunk(pcm, ts)
    PROVE  AP!OnSpeechChunk(pcm, ts)
  BY DEF Atomic!OnSpeechChunk, AP!OnSpeechChunk, Atomic!ChunkWhileIdle, AP!ChunkWhileIdle,
     Atomic!ChunkRejected, AP!ChunkRejected, Atomic!ChunkAccepted, AP!ChunkAccepted,
     Atomic!AcceptChunkErrors, AP!AcceptChunkErrors, Atomic!AcceptChunk, AP!AcceptChunk,
     Atomic!PartialDue, AP!PartialDue, Atomic!SaturatingSub, AP!SaturatingSub,
     Atomic!PartialTexts, AP!PartialTexts, Atomic!PartialEvent, AP!PartialEvent,
     Atomic!Text, AP!Text, Atomic!ErrorEvent, AP!ErrorEvent, Atomic!IsSpeaking,
     AP!IsSpeaking

LEMMA SameVerdicts ==
    ASSUME NEW turn_id
    PROVE  Atomic!FinaliseVerdicts(turn_id) = AP!FinaliseVerdicts(turn_id)
  BY DEF Atomic!FinaliseVerdicts, AP!FinaliseVerdicts, Atomic!Judge, AP!Judge,
     Atomic!FinaliseTexts, AP!FinaliseTexts, Atomic!Confidences, AP!Confidences,
     Atomic!FinaliseErrors, AP!FinaliseErrors, Atomic!Text, AP!Text, Atomic!NoText,
     AP!NoText, Atomic!FinalEvent, AP!FinalEvent, Atomic!UncertainEvent,
     AP!UncertainEvent, Atomic!ErrorEvent, AP!ErrorEvent

LEMMA SameEnd ==
    ASSUME NEW duration_ms, NEW turn_id, Atomic!OnSpeechEnd(duration_ms, turn_id)
    PROVE  AP!OnSpeechEnd(duration_ms, turn_id)
  <1>1. ASSUME NEW events, Atomic!CloseUtterance(events) PROVE AP!CloseUtterance(events)
    BY <1>1 DEF Atomic!CloseUtterance, AP!CloseUtterance, Atomic!Idle, AP!Idle,
       Atomic!ApplyReload, AP!ApplyReload, Atomic!Reset, AP!Reset, Atomic!ReloadModelOk,
       AP!ReloadModelOk, Atomic!ErrorEvent, AP!ErrorEvent, Atomic!ModelLoadedEvent,
       AP!ModelLoadedEvent
  <1>2. Atomic!FinaliseVerdicts(turn_id) = AP!FinaliseVerdicts(turn_id)
    BY SameVerdicts
  <1>3. Atomic!IsSpeaking <=> AP!IsSpeaking
    BY DEF Atomic!IsSpeaking, AP!IsSpeaking
  <1>4. CASE Atomic!EndWhileIdle
    BY <1>3, <1>4
    DEF Atomic!EndWhileIdle, AP!EndWhileIdle, AP!OnSpeechEnd, Atomic!ErrorEvent,
        AP!ErrorEvent
  <1>5. CASE Atomic!EndTooShort(duration_ms)
    BY <1>1, <1>3, <1>5 DEF Atomic!EndTooShort, AP!EndTooShort, AP!OnSpeechEnd
  <1>6. CASE Atomic!EndTooLong(duration_ms, turn_id)
    BY <1>1, <1>3, <1>6
    DEF Atomic!EndTooLong, AP!EndTooLong, AP!OnSpeechEnd, Atomic!UncertainEvent,
        AP!UncertainEvent, Atomic!NoText, AP!NoText
  <1>7. CASE Atomic!EndFinalised(duration_ms, turn_id)
    BY <1>1, <1>2, <1>3, <1>7 DEF Atomic!EndFinalised, AP!EndFinalised, AP!OnSpeechEnd
  <1> QED
    BY <1>4, <1>5, <1>6, <1>7 DEF Atomic!OnSpeechEnd

LEMMA SameReload ==
    ASSUME NEW name, Atomic!OnReloadModel(name)
    PROVE  AP!OnReloadModel(name)
  BY DEF Atomic!OnReloadModel, AP!OnReloadModel, Atomic!ReloadRefused, AP!ReloadRefused,
     Atomic!ReloadQueued, AP!ReloadQueued, Atomic!ReloadNow, AP!ReloadNow,
     Atomic!ApplyReload, AP!ApplyReload, Atomic!ReloadModelOk, AP!ReloadModelOk,
     Atomic!ErrorEvent, AP!ErrorEvent, Atomic!ModelLoadedEvent, AP!ModelLoadedEvent,
     Atomic!IsSpeaking, AP!IsSpeaking

LEMMA SameStep ==
    ASSUME Step
    PROVE  [AP!Next]_AP!vars
  <1>1. CASE UNCHANGED Atomic!vars
    BY <1>1 DEF Atomic!vars, AP!vars
  <1>2. CASE Atomic!Next
    <2>1. OptionalTurn = AP!OptionalTurn /\ Atomic!OptionalTurn = AP!OptionalTurn
      BY DEF OptionalTurn, AP!OptionalTurn, Atomic!OptionalTurn
    <2>2. AP!Next
      BY <1>2, <2>1, SameStart, SameChunk, SameEnd, SameReload, Zenon DEF Atomic!Next, AP!Next
    <2> QED
      BY <2>2
  <1> QED
    BY <1>1, <1>2 DEF Step

LEMMA SameInit ==
    ASSUME Init
    PROVE  Atomic!Init /\ AP!Init
  <1>1. /\ shown.state = Processor!Idle /\ pending_reload = None /\ emits = <<>>
        /\ partials = 0 /\ \E m \in Models : shown.engine = Processor!NewEngine(m)
    BY DEF Init, Processor!Init
  <1> QED
    BY <1>1 DEF Atomic!Init, AP!Init, Processor!Idle, Atomic!Idle, AP!Idle,
       Processor!NewEngine, Atomic!NewEngine, AP!NewEngine
----------------------------------------------------------------------------
LEMMA InitIInv == Init => IInv
  <1> SUFFICES ASSUME Init PROVE IInv
    OBVIOUS
  <1>1. AP!IInv
    BY SameInit, SameAssumptions, AP!InitIInv, Zenon
  <1>2. Progress
    BY DEF Init, Engine!Init, Progress, Methods, Untouched
  <1> QED
    BY <1>1, <1>2 DEF Init, IInv

LEMMA NextKeepsIInv == IInv /\ [Next]_vars => IInv' /\ Step
  <1> SUFFICES ASSUME IInv, [Next]_vars PROVE IInv' /\ Step
    OBVIOUS
  <1>1. /\ Step /\ Progress' /\ shown' = [state |-> shown'.state, engine |-> shown'.engine]
    BY EveryStep
  <1>2. AP!IInv /\ [AP!Next]_AP!vars
    BY <1>1, SameStep DEF IInv
  <1>3. AP!IInv'
    BY <1>2, SameAssumptions, AP!NextKeepsIInv, Zenon
  <1> QED
    BY <1>1, <1>3 DEF IInv

(* The inductive invariant holds in every reachable state.                  *)
THEOREM Safety == Spec => []IInv
  BY InitIInv, NextKeepsIInv, PTL DEF Spec

(* What a handler in the middle of its calls holds is well typed.           *)
LEMMA SameType ==
    /\ AP!States = Processor!States /\ AP!Engines = Engines /\ AP!Emit = Emit
    /\ AP!OptionalTurn = OptionalTurn
  BY DEF AP!States, Processor!States, AP!Idle, Processor!Idle, AP!OptionalTurn,
     Processor!OptionalTurn, OptionalTurn, AP!Engines, Engines, AP!Audio, Audio, AP!Emit, Emit,
     AP!Texts, Texts, AP!Confidences, Confidences, AP!ErrorKinds, ErrorKinds

LEMMA WellTyped == IInv => TypeOK
  <1> SUFFICES ASSUME IInv PROVE TypeOK
    OBVIOUS
  <1>1. /\ shown.state \in Processor!States /\ shown.engine \in Engines
        /\ pending_reload \in Models \cup {None} /\ emits \in Seq(Emit) /\ partials \in Nat
    BY SameType DEF IInv, AP!IInv, AP!TypeOK
  <1>2. /\ pc \in Methods \cup {"ready"} /\ request \in Requests \cup {None}
        /\ finalised \in BOOLEAN
    BY DEF IInv, Progress
  <1>3. Processor!Idle \in Processor!States /\ Reset(shown.engine) \in Engines
    BY ShownType DEF IInv, Processor!States
  <1>4. /\ <<>> \in Seq(Emit)
        /\ \A event \in Emit : <<event>> \in Seq(Emit)
    OBVIOUS
  <1>5. ErrorEvent("protocol") \in Emit
    BY DEF ErrorEvent, Emit, ErrorKinds
  <1>6. ASSUME ServesEnd PROVE TooLong \in Seq(Emit)
    <2>1. UncertainEvent(NoText, 0, "window_too_long", request.turn_id) \in Emit
      BY <1>6, ConfidenceAssumption
      DEF ServesEnd, UncertainEvent, Emit, NoText, Texts, Audio, Confidences
    <2> QED
      BY <1>4, <2>1 DEF TooLong
  <1>7. ASSUME ServesEnd, Verdict(out) PROVE out \in Seq(Emit)
    <2>1. request.turn_id \in AP!OptionalTurn /\ shown.engine \in AP!Engines
      BY <1>1, <1>7, SameType DEF ServesEnd
    <2>2. PICK closing \in AP!FinaliseVerdicts(request.turn_id) : out = <<closing>>
      BY <1>7, SameVerdicts DEF Verdict
    <2>3. closing \in AP!Emit
      BY <2>1, <2>2, SameAssumptions, AP!FinaliseVerdictsType, Zenon
    <2> QED
      BY <1>4, <2>2, <2>3, SameType
  <1>8. state \in Processor!States /\ engine \in Engines /\ out \in Seq(Emit)
    <2>1. CASE pc = "ready" \/ pc = "accept_chunk" \/ pc = "finalise"
      BY <1>1, <1>4, <2>1 DEF IInv, Progress, Untouched, Accepting, Finalising
    <2>2. CASE pc = "current_partial_fast"
      <3>1. state = shown.state /\ engine = AcceptChunk(shown.engine, request.pcm)
        BY <2>2 DEF IInv, Progress, Guessing
      <3>2. request.pcm \in Chunks /\ out = <<>>
        BY <2>2 DEF IInv, Progress, Guessing
      <3>3. AcceptChunk(shown.engine, request.pcm) \in Engines
        <4>1. shown.engine.audio \in Seq(Samples) /\ request.pcm \in Seq(Samples)
          BY <1>1, <3>2, ChunkAssumption DEF Engines, Audio
        <4>2. shown.engine.audio \o request.pcm \in Seq(Samples)
          BY <4>1
        <4> QED
          BY <1>1, <4>2 DEF AcceptChunk, Engines, Audio
      <3> QED
        BY <1>1, <1>4, <3>1, <3>2, <3>3
    <2>3. CASE pc = "reset"
      BY <1>1, <1>3, <1>4, <1>5, <1>7, <2>3 DEF IInv, Progress, Resetting
    <2>4. CASE pc = "reload_model"
      BY <1>1, <1>3, <1>4, <1>6, <1>7, <2>4 DEF IInv, Progress, Reloading, Untouched
    <2> QED
      BY <1>2, <2>1, <2>2, <2>3, <2>4 DEF Methods
  <1>9. shown \in [state : Processor!States, engine : Engines]
    BY <1>1 DEF IInv
  <1> QED
    BY <1>1, <1>2, <1>8, <1>9 DEF TypeOK, Processor!TypeOK, Processor!Engines, Engines,
       Processor!Emit, Emit, Processor!Audio, Audio, Processor!Texts, Texts,
       Processor!OptionalTurn, OptionalTurn, Processor!Confidences, Confidences,
       Processor!ErrorKinds, ErrorKinds

(* Every variable stays in its type.                                        *)
THEOREM TypeCorrect == Spec => []TypeOK
  BY WellTyped, Safety, PTL

(* Between finalise and reset the processor calls nothing and returns       *)
(* nothing, whatever the engine answered.                                   *)
THEOREM ResetFirst == Spec => []ResetFollowsFinalise
  <1>1. IInv => ResetFollowsFinalise
    BY DEF IInv, Progress, ResetFollowsFinalise
  <1> QED
    BY <1>1, Safety, PTL

(* Called one method at a time, the handlers implement UtteranceProcessor.  *)
THEOREM Refinement == Spec => ImplementsProcessor
  <1>1. Init => Atomic!Init
    BY SameInit
  <1>2. IInv /\ [Next]_vars => [Atomic!Next]_Atomic!vars
    BY NextKeepsIInv DEF Step
  <1> QED
    BY <1>1, <1>2, Safety, PTL DEF Spec, ImplementsProcessor, Atomic!Spec

(* Hence they keep the promise of Utterance to subscribers: what they say   *)
(* of an utterance is about its own chunks, on any engine.                  *)
THEOREM PromiseKept == Spec => AP!ImplementsUtterance
  <1>1. Init => AP!Init
    BY SameInit
  <1>2. IInv /\ [Next]_vars => [AP!Next]_AP!vars
    BY NextKeepsIInv, SameStep
  <1>3. AP!Spec => AP!ImplementsUtterance
    BY SameAssumptions, AP!Refinement
  <1> QED
    BY <1>1, <1>2, <1>3, Safety, PTL DEF Spec, AP!Spec
============================================================================
