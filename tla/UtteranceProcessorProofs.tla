---------------------- MODULE UtteranceProcessorProofs ----------------------
(* Proofs about UtteranceProcessor, for every set of models, chunks and     *)
(* turns, every cadence, window and threshold the code accepts, and every   *)
(* value of the bounds MaxTs and MaxSamples.                                *)
(*                                                                          *)
(* IInv is inductive: the isolation of utterances (ImplementsUtterance)     *)
(* needs QuietWhenIdle at every speech.start that finds the processor idle, *)
(* and its swaps need PendingOnlyWhileSpeaking.                             *)
EXTENDS UtteranceProcessor, TLAPS

IInv ==
    /\ TypeOK
    /\ QuietWhenIdle
    /\ PendingOnlyWhileSpeaking
    /\ PartialRate

----------------------------------------------------------------------------
(* The engine's methods keep engines well formed.                           *)

LEMMA AcceptChunkType ==
    ASSUME NEW e \in Engines, NEW pcm \in Chunks
    PROVE  /\ AcceptChunk(e, pcm) \in Engines
           /\ AcceptChunk(e, pcm).model = e.model
           /\ AcceptChunk(e, pcm).audio = e.audio \o pcm
  <1>1. e.audio \in Seq(Samples) /\ pcm \in Seq(Samples)
    BY ChunkAssumption DEF Engines, Audio
  <1>2. e.audio \o pcm \in Seq(Samples)
    BY <1>1
  <1> QED
    BY <1>2 DEF AcceptChunk, Engines, Audio

LEMMA ResetType ==
    ASSUME NEW e \in Engines
    PROVE  Reset(e) \in Engines /\ Reset(e).model = e.model /\ Reset(e).audio = <<>>
  <1>1. <<>> \in Seq(Samples)
    OBVIOUS
  <1> QED
    BY <1>1 DEF Reset, Engines, Audio

(* A reload of an engine that holds no audio answers for the name it was    *)
(* asked for, holds no audio after it, and on failure has changed nothing.  *)
LEMMA ApplyReloadType ==
    ASSUME NEW e \in Engines, e.audio = <<>>, NEW name \in Models,
           NEW swap \in ApplyReload(e, name)
    PROVE  /\ swap.engine \in Engines
           /\ swap.engine.audio = <<>>
           /\ swap.event \in Emit
           /\ IsAnswer(swap.event, name)
           /\ \/ swap.engine.model = name /\ swap.event = ModelLoadedEvent(name)
              \/ swap.engine = e /\ swap.event = ErrorEvent("model")
  <1>1. CASE swap \in {[engine |-> loaded, event |-> ModelLoadedEvent(name)]
                          : loaded \in ReloadModelOk(e, name)}
    <2>1. PICK loaded \in ReloadModelOk(e, name) :
             swap = [engine |-> loaded, event |-> ModelLoadedEvent(name)]
      BY <1>1
    <2>2. loaded \in Engines /\ loaded.audio = <<>> /\ loaded.model = name
      BY DEF ReloadModelOk, Engines, Audio
    <2>3. ModelLoadedEvent(name) \in Emit
      BY DEF ModelLoadedEvent, Emit
    <2> QED
      BY <2>1, <2>2, <2>3 DEF IsAnswer
  <1>2. CASE swap = [engine |-> e, event |-> ErrorEvent("model")]
    <2>1. ErrorEvent("model") \in Emit
      BY DEF ErrorEvent, Emit, ErrorKinds
    <2> QED
      BY <1>2, <2>1 DEF IsAnswer
  <1> QED
    BY <1>1, <1>2 DEF ApplyReload

LEMMA PartialTextsType ==
    ASSUME NEW e \in Engines, NEW text \in PartialTexts(e)
    PROVE  text \in Texts
  <1>1. PICK k \in 1 .. Len(e.audio) :
           text = Text(e.model, SubSeq(e.audio, k, Len(e.audio)))
    BY DEF PartialTexts
  <1>2. e.audio \in Seq(Samples) /\ e.model \in Models
    BY DEF Engines, Audio
  <1>3. SubSeq(e.audio, k, Len(e.audio)) \in Seq(Samples)
    BY <1>2
  <1> QED
    BY <1>1, <1>2, <1>3 DEF Text, Texts, Audio

LEMMA FinaliseVerdictsType ==
    ASSUME engine \in Engines, NEW turn_id \in OptionalTurn,
           NEW closing \in FinaliseVerdicts(turn_id)
    PROVE  closing \in Emit
  <1>1. FinaliseTexts(engine) \subseteq Texts /\ engine.model \in Models
    <2>1. <<>> \in Audio
      BY DEF Audio
    <2> QED
      BY <2>1 DEF FinaliseTexts, Text, NoText, Texts, Engines
  <1>2. ASSUME NEW text \in FinaliseTexts(engine), NEW c \in Confidences
        PROVE  Judge(text, c, turn_id) \in Emit
    BY <1>1 DEF Judge, FinalEvent, UncertainEvent, Emit
  <1>3. ASSUME NEW kind \in FinaliseErrors PROVE ErrorEvent(kind) \in Emit
    BY DEF FinaliseErrors, ErrorEvent, Emit, ErrorKinds
  <1> QED
    BY <1>2, <1>3 DEF FinaliseVerdicts

----------------------------------------------------------------------------
(* IInv is preserved, handler by handler.                                   *)

LEMMA SpeakingIsNotIdle ==
    ASSUME TypeOK
    PROVE  IsSpeaking <=> state # Idle
  BY DEF TypeOK, States, IsSpeaking, Idle

LEMMA StartKeepsIInv ==
    ASSUME IInv, NEW ts \in Nat, OnSpeechStart(ts)
    PROVE  IInv'
  <1>1. state' = Speaking(ts, ts, None)
    BY DEF OnSpeechStart
  <1>2. /\ state' \in States /\ state'.tag = "Speaking" /\ state' # Idle
        /\ state'.start_ts = ts /\ state'.last_partial_ts = ts
    BY <1>1 DEF Speaking, States, Idle, OptionalTurn
  <1>3. engine' \in Engines
    BY ResetType DEF OnSpeechStart, IInv, TypeOK
  <1>4. emits' \in Seq(Emit)
    <2>1. ErrorEvent("protocol") \in Emit
      BY DEF ErrorEvent, Emit, ErrorKinds
    <2>2. <<>> \in Seq(Emit) /\ <<ErrorEvent("protocol")>> \in Seq(Emit)
      BY <2>1
    <2> QED
      BY <2>2 DEF OnSpeechStart
  <1>5. TypeOK'
    BY <1>2, <1>3, <1>4 DEF OnSpeechStart, IInv, TypeOK
  <1>6. PartialRate'
    BY <1>2, CadenceAssumption DEF OnSpeechStart, PartialRate
  <1> QED
    BY <1>2, <1>5, <1>6
    DEF IInv, QuietWhenIdle, PendingOnlyWhileSpeaking, IsSpeaking

LEMMA ChunkKeepsIInv ==
    ASSUME IInv, NEW pcm \in Chunks \cup {BadPcm}, NEW ts \in Nat,
           OnSpeechChunk(pcm, ts)
    PROVE  IInv'
  <1>1. CASE ChunkWhileIdle
    <2>1. emits' \in Seq(Emit)
      BY <1>1 DEF ChunkWhileIdle, ErrorEvent, Emit, ErrorKinds
    <2> QED
      BY <1>1, <2>1 DEF ChunkWhileIdle, IInv, TypeOK, QuietWhenIdle,
         PendingOnlyWhileSpeaking, PartialRate, IsSpeaking
  <1>2. CASE ChunkRejected(pcm)
    <2>1. emits' \in Seq(Emit)
      BY <1>2 DEF ChunkRejected, AcceptChunkErrors, ErrorEvent, Emit, ErrorKinds
    <2> QED
      BY <1>2, <2>1 DEF ChunkRejected, IInv, TypeOK, QuietWhenIdle,
         PendingOnlyWhileSpeaking, PartialRate, IsSpeaking
  <1>3. CASE ChunkAccepted(pcm, ts)
    <2>1. /\ pcm \in Chunks /\ engine \in Engines /\ IsSpeaking
          /\ engine' = AcceptChunk(engine, pcm)
      BY <1>3 DEF ChunkAccepted, IInv, TypeOK
    <2>2. engine' \in Engines
      BY <2>1, AcceptChunkType
    <2>3. state \in [tag : {"Speaking"}, start_ts : Nat, last_partial_ts : Nat,
                     turn_id : OptionalTurn]
      BY <2>1, SpeakingIsNotIdle DEF IInv, TypeOK, States
    <2>4. CASE PartialDue(ts)
      <3>1. /\ state' = [state EXCEPT !.last_partial_ts = ts]
            /\ UNCHANGED pending_reload
            /\ \/ emits' = <<>> /\ partials' = partials
               \/ /\ \E text \in PartialTexts(engine') :
                        emits' = <<PartialEvent(text, state.turn_id)>>
                  /\ partials' = partials + 1
        BY <1>3, <2>4 DEF ChunkAccepted
      <3>2. /\ state' \in States /\ state'.tag = "Speaking" /\ state' # Idle
            /\ state'.start_ts = state.start_ts /\ state'.last_partial_ts = ts
        BY <2>3, <3>1 DEF States, Idle
      <3>3. emits' \in Seq(Emit)
        <4>1. CASE emits' = <<>>
          BY <4>1
        <4>2. ASSUME NEW text \in PartialTexts(engine'),
                     emits' = <<PartialEvent(text, state.turn_id)>>
              PROVE  emits' \in Seq(Emit)
          <5>1. text \in Texts
            BY <2>2, PartialTextsType
          <5>2. PartialEvent(text, state.turn_id) \in Emit
            BY <5>1, <2>3 DEF PartialEvent, Emit
          <5> QED
            BY <4>2, <5>2
        <4> QED
          BY <3>1, <4>1, <4>2
      <3>4. TypeOK'
        BY <2>2, <3>1, <3>2, <3>3 DEF IInv, TypeOK
      <3>5. ts >= state.last_partial_ts + PARTIAL_CADENCE_MS
        BY <2>3, <2>4, CadenceAssumption DEF PartialDue, SaturatingSub
      <3>6. state.start_ts + PARTIAL_CADENCE_MS * partials <= state.last_partial_ts
        BY <2>1 DEF IInv, PartialRate
      <3>7. PARTIAL_CADENCE_MS * (partials + 1)
               = PARTIAL_CADENCE_MS * partials + PARTIAL_CADENCE_MS
        BY CadenceAssumption DEF IInv, TypeOK
      <3>8. PARTIAL_CADENCE_MS * partials \in Nat
        BY CadenceAssumption DEF IInv, TypeOK
      <3>9. state.start_ts + PARTIAL_CADENCE_MS * partials' <= ts
        BY <2>3, <3>1, <3>5, <3>6, <3>7, <3>8, CadenceAssumption
      <3>10. PartialRate'
        BY <3>2, <3>9 DEF PartialRate
      <3> QED
        BY <3>2, <3>4, <3>10
        DEF IInv, QuietWhenIdle, PendingOnlyWhileSpeaking, IsSpeaking
    <2>5. CASE ~PartialDue(ts)
      <3>1. emits' = <<>> /\ UNCHANGED <<state, partials, pending_reload>>
        BY <1>3, <2>5 DEF ChunkAccepted
      <3>2. state # Idle
        BY <2>1, SpeakingIsNotIdle DEF IInv
      <3> QED
        BY <2>2, <3>1, <3>2 DEF IInv, TypeOK, QuietWhenIdle,
           PendingOnlyWhileSpeaking, PartialRate, IsSpeaking
    <2> QED
      BY <2>4, <2>5
  <1> QED
    BY <1>1, <1>2, <1>3 DEF OnSpeechChunk

(* What every branch that ends an utterance leaves behind.                  *)
LEMMA CloseKeepsIInv ==
    ASSUME IInv, NEW closing \in Seq(Emit), CloseUtterance(closing)
    PROVE  IInv'
  <1>1. state' = Idle /\ pending_reload' = None /\ partials' = partials
    BY DEF CloseUtterance
  <1>2. Reset(engine) \in Engines /\ Reset(engine).audio = <<>>
    BY ResetType DEF IInv, TypeOK
  <1>3. engine' \in Engines /\ engine'.audio = <<>> /\ emits' \in Seq(Emit)
    <2>1. CASE pending_reload = None
      BY <1>2, <2>1 DEF CloseUtterance
    <2>2. CASE pending_reload # None
      <3>1. PICK swap \in ApplyReload(Reset(engine), pending_reload) :
               engine' = swap.engine /\ emits' = Append(closing, swap.event)
        BY <2>2 DEF CloseUtterance
      <3>2. pending_reload \in Models
        BY <2>2 DEF IInv, TypeOK
      <3>3. /\ swap.engine \in Engines /\ swap.engine.audio = <<>>
            /\ swap.event \in Emit
        BY <1>2, <3>2, ApplyReloadType
      <3> QED
        BY <3>1, <3>3
    <2> QED
      BY <2>1, <2>2
  <1>4. ~IsSpeaking'
    BY <1>1 DEF Idle, IsSpeaking
  <1> QED
    BY <1>1, <1>3, <1>4 DEF IInv, TypeOK, QuietWhenIdle,
       PendingOnlyWhileSpeaking, PartialRate, States

LEMMA EndKeepsIInv ==
    ASSUME IInv, NEW duration_ms \in Nat, NEW turn_id \in OptionalTurn,
           OnSpeechEnd(duration_ms, turn_id)
    PROVE  IInv'
  <1>1. CASE EndWhileIdle
    <2>1. emits' \in Seq(Emit)
      BY <1>1 DEF EndWhileIdle, ErrorEvent, Emit, ErrorKinds
    <2> QED
      BY <1>1, <2>1 DEF EndWhileIdle, IInv, TypeOK, QuietWhenIdle,
         PendingOnlyWhileSpeaking, PartialRate, IsSpeaking
  <1>2. CASE EndTooShort(duration_ms)
    <2>1. <<>> \in Seq(Emit)
      OBVIOUS
    <2> QED
      BY <1>2, <2>1, CloseKeepsIInv DEF EndTooShort
  <1>3. CASE EndTooLong(duration_ms, turn_id)
    <2>1. UncertainEvent(NoText, 0, "window_too_long", turn_id) \in Emit
      BY ConfidenceAssumption
      DEF UncertainEvent, Emit, NoText, Texts, Audio, Confidences
    <2>2. <<UncertainEvent(NoText, 0, "window_too_long", turn_id)>> \in Seq(Emit)
      BY <2>1
    <2> QED
      BY <1>3, <2>2, CloseKeepsIInv DEF EndTooLong
  <1>4. CASE EndFinalised(duration_ms, turn_id)
    <2>1. PICK closing \in FinaliseVerdicts(turn_id) : CloseUtterance(<<closing>>)
      BY <1>4 DEF EndFinalised
    <2>2. <<closing>> \in Seq(Emit)
      BY FinaliseVerdictsType DEF IInv, TypeOK
    <2> QED
      BY <2>1, <2>2, CloseKeepsIInv
  <1> QED
    BY <1>1, <1>2, <1>3, <1>4 DEF OnSpeechEnd

LEMMA ReloadKeepsIInv ==
    ASSUME IInv, NEW name \in Models \cup {UnknownModel}, OnReloadModel(name)
    PROVE  IInv'
  <1>1. CASE ReloadRefused(name)
    <2>1. emits' \in Seq(Emit)
      BY <1>1 DEF ReloadRefused, ErrorEvent, Emit, ErrorKinds
    <2> QED
      BY <1>1, <2>1 DEF ReloadRefused, IInv, TypeOK, QuietWhenIdle,
         PendingOnlyWhileSpeaking, PartialRate, IsSpeaking
  <1>2. CASE ReloadQueued(name)
    BY <1>2 DEF ReloadQueued, IInv, TypeOK, QuietWhenIdle,
       PendingOnlyWhileSpeaking, PartialRate, IsSpeaking
  <1>3. CASE ReloadNow(name)
    <2>1. engine \in Engines /\ engine.audio = <<>> /\ name \in Models
      BY <1>3, SpeakingIsNotIdle DEF ReloadNow, IInv, TypeOK, QuietWhenIdle
    <2>2. PICK swap \in ApplyReload(engine, name) :
             engine' = swap.engine /\ emits' = <<swap.event>>
      BY <1>3 DEF ReloadNow
    <2>3. /\ swap.engine \in Engines /\ swap.engine.audio = <<>>
          /\ swap.event \in Emit
      BY <2>1, ApplyReloadType
    <2> QED
      BY <1>3, <2>2, <2>3 DEF ReloadNow, IInv, TypeOK, QuietWhenIdle,
         PendingOnlyWhileSpeaking, PartialRate, IsSpeaking
  <1> QED
    BY <1>1, <1>2, <1>3 DEF OnReloadModel

----------------------------------------------------------------------------
(* What a caller sees of each handler, for the modules that compose the     *)
(* processor with others.                                                   *)

NoVerdict == \A i \in DOMAIN emits' : ~IsVerdict(emits'[i])

ModelIsTold ==
    engine'.model # engine.model =>
        /\ emits' # <<>>
        /\ emits'[Len(emits')] = ModelLoadedEvent(engine'.model)

(* The one verdict of an utterance comes first, and speaks of it alone.     *)
VerdictOn(turn_id) ==
    \A i \in DOMAIN emits' :
        IsVerdict(emits'[i]) =>
            /\ i = 1 /\ IsSpeaking
            /\ emits'[i].turn_id = turn_id
            /\ emits'[i].text.of \in {<<>>, engine.audio}
            /\ emits'[i].topic = "final" => emits'[i].model = engine.model

LEMMA OneEvent ==
    ASSUME NEW event, ~IsVerdict(event), emits' = <<>> \/ emits' = <<event>>
    PROVE  Len(emits') <= 2 /\ NoVerdict
  <1>1. CASE emits' = <<>>
    BY <1>1 DEF NoVerdict
  <1>2. CASE emits' = <<event>>
    BY <1>2 DEF NoVerdict
  <1> QED
    BY <1>1, <1>2

LEMMA StartEffect ==
    ASSUME IInv, NEW ts \in Nat, OnSpeechStart(ts)
    PROVE  /\ IInv' /\ Len(emits') <= 2 /\ NoVerdict /\ ModelIsTold
           /\ IsSpeaking' /\ engine'.audio = <<>>
  <1>1. IInv'
    BY StartKeepsIInv
  <1>2. engine'.audio = <<>> /\ engine'.model = engine.model
    BY ResetType, SpeakingIsNotIdle DEF OnSpeechStart, IInv, TypeOK, QuietWhenIdle
  <1>3. IsSpeaking'
    BY DEF OnSpeechStart, Speaking, IsSpeaking
  <1>4. Len(emits') <= 2 /\ NoVerdict
    <2>1. ~IsVerdict(ErrorEvent("protocol"))
      BY DEF IsVerdict, ErrorEvent
    <2> QED
      BY <2>1, OneEvent DEF OnSpeechStart
  <1> QED
    BY <1>1, <1>2, <1>3, <1>4 DEF ModelIsTold

LEMMA ChunkEffect ==
    ASSUME IInv, NEW pcm \in Chunks \cup {BadPcm}, NEW ts \in Nat,
           OnSpeechChunk(pcm, ts)
    PROVE  /\ IInv' /\ Len(emits') <= 2 /\ NoVerdict /\ ModelIsTold
           /\ (IsSpeaking' <=> IsSpeaking)
           /\ \/ engine'.audio = engine.audio
              \/ pcm \in Chunks /\ engine'.audio = engine.audio \o pcm
  <1>1. IInv'
    BY ChunkKeepsIInv
  <1>2. CASE ChunkWhileIdle \/ ChunkRejected(pcm)
    <2>1. PICK kind : emits' = <<ErrorEvent(kind)>>
      BY <1>2 DEF ChunkWhileIdle, ChunkRejected
    <2>2. Len(emits') <= 2 /\ NoVerdict
      BY <2>1 DEF NoVerdict, IsVerdict, ErrorEvent
    <2> QED
      BY <1>1, <1>2, <2>2 DEF ChunkWhileIdle, ChunkRejected, ModelIsTold, IsSpeaking
  <1>3. CASE ChunkAccepted(pcm, ts)
    <2>1. /\ pcm \in Chunks /\ engine \in Engines /\ IsSpeaking
          /\ engine' = AcceptChunk(engine, pcm)
      BY <1>3 DEF ChunkAccepted, IInv, TypeOK
    <2>2. engine'.audio = engine.audio \o pcm /\ engine'.model = engine.model
      BY <2>1, AcceptChunkType
    <2>3. IsSpeaking'
      BY <1>3, <2>1 DEF ChunkAccepted, IsSpeaking, IInv, TypeOK, States, Idle
    <2>4. \/ emits' = <<>>
          \/ \E text \in PartialTexts(engine') :
                emits' = <<PartialEvent(text, state.turn_id)>>
      BY <1>3 DEF ChunkAccepted
    <2>5. Len(emits') <= 2 /\ NoVerdict
      <3>1. \A text : ~IsVerdict(PartialEvent(text, state.turn_id))
        BY DEF IsVerdict, PartialEvent
      <3> QED
        BY <2>4, <3>1, OneEvent
    <2> QED
      BY <1>1, <2>1, <2>2, <2>3, <2>5 DEF ModelIsTold
  <1> QED
    BY <1>2, <1>3 DEF OnSpeechChunk

LEMMA CloseEffect ==
    ASSUME IInv, NEW closing \in Seq(Emit), Len(closing) <= 1, CloseUtterance(closing)
    PROVE  /\ ~IsSpeaking' /\ engine'.audio = <<>> /\ Len(emits') <= 2 /\ ModelIsTold
           /\ \A i \in DOMAIN emits' :
                 IsVerdict(emits'[i]) =>
                     i = 1 /\ closing # <<>> /\ emits'[i] = closing[1]
  <1>1. ~IsSpeaking'
    BY DEF CloseUtterance, Idle, IsSpeaking
  <1>2. /\ Reset(engine) \in Engines /\ Reset(engine).audio = <<>>
        /\ Reset(engine).model = engine.model
    BY ResetType DEF IInv, TypeOK
  <1>3. CASE pending_reload = None
    <2>1. emits' = closing /\ engine'.model = engine.model /\ engine'.audio = <<>>
      BY <1>2, <1>3 DEF CloseUtterance
    <2> QED
      BY <1>1, <2>1 DEF ModelIsTold
  <1>4. CASE pending_reload # None
    <2>1. PICK swap \in ApplyReload(Reset(engine), pending_reload) :
             engine' = swap.engine /\ emits' = Append(closing, swap.event)
      BY <1>4 DEF CloseUtterance
    <2>2. pending_reload \in Models
      BY <1>4 DEF IInv, TypeOK
    <2>3. /\ swap.engine.audio = <<>> /\ swap.event \in Emit
          /\ IsAnswer(swap.event, pending_reload)
          /\ \/ /\ swap.engine.model = pending_reload
                /\ swap.event = ModelLoadedEvent(pending_reload)
             \/ swap.engine = Reset(engine)
      BY <1>2, <2>2, ApplyReloadType
    <2>4. ~IsVerdict(swap.event)
      BY <2>3 DEF IsAnswer, IsVerdict, ModelLoadedEvent, ErrorEvent
    <2>5. /\ Len(emits') = Len(closing) + 1
          /\ emits'[Len(closing) + 1] = swap.event
          /\ \A i \in 1 .. Len(closing) : emits'[i] = closing[i]
          /\ DOMAIN emits' = 1 .. Len(closing) + 1
      BY <2>1, <2>3
    <2>6. ModelIsTold
      BY <1>2, <2>1, <2>3, <2>5 DEF ModelIsTold
    <2>7. ASSUME NEW i \in DOMAIN emits', IsVerdict(emits'[i])
          PROVE  i = 1 /\ closing # <<>> /\ emits'[i] = closing[1]
      BY <2>4, <2>5, <2>7
    <2> QED
      BY <1>1, <2>1, <2>3, <2>5, <2>6, <2>7
  <1> QED
    BY <1>3, <1>4

LEMMA FinaliseVerdictsOn ==
    ASSUME NEW turn_id \in OptionalTurn, NEW closing \in FinaliseVerdicts(turn_id),
           IsVerdict(closing)
    PROVE  /\ closing.turn_id = turn_id
           /\ closing.text.of \in {<<>>, engine.audio}
           /\ closing.topic = "final" => closing.model = engine.model
  <1>1. PICK text \in FinaliseTexts(engine), c \in Confidences :
           closing = Judge(text, c, turn_id)
    BY DEF FinaliseVerdicts, IsVerdict, ErrorEvent
  <1>2. text.of \in {<<>>, engine.audio}
    BY DEF FinaliseTexts, Text, NoText
  <1> QED
    BY <1>1, <1>2 DEF Judge, FinalEvent, UncertainEvent

LEMMA EndEffect ==
    ASSUME IInv, NEW duration_ms \in Nat, NEW turn_id \in OptionalTurn,
           OnSpeechEnd(duration_ms, turn_id)
    PROVE  /\ IInv' /\ Len(emits') <= 2 /\ VerdictOn(turn_id) /\ ModelIsTold
           /\ ~IsSpeaking' /\ engine'.audio = <<>>
  <1>1. IInv'
    BY EndKeepsIInv
  <1>2. CASE EndWhileIdle
    <2>1. engine.audio = <<>>
      BY <1>2, SpeakingIsNotIdle DEF EndWhileIdle, IInv, QuietWhenIdle
    <2> QED
      BY <1>1, <1>2, <2>1
      DEF EndWhileIdle, IsSpeaking, VerdictOn, ModelIsTold, IsVerdict, ErrorEvent
  <1>3. CASE EndTooShort(duration_ms)
    <2>1. <<>> \in Seq(Emit) /\ Len(<<>>) <= 1
      OBVIOUS
    <2>2. CloseUtterance(<<>>)
      BY <1>3 DEF EndTooShort
    <2> QED
      BY <1>1, <2>1, <2>2, CloseEffect DEF VerdictOn
  <1>4. CASE EndTooLong(duration_ms, turn_id)
    <2> DEFINE closing == UncertainEvent(NoText, 0, "window_too_long", turn_id)
    <2>1. closing \in Emit
      BY ConfidenceAssumption
      DEF UncertainEvent, Emit, NoText, Texts, Audio, Confidences
    <2>2. <<closing>> \in Seq(Emit) /\ Len(<<closing>>) <= 1 /\ <<closing>>[1] = closing
      BY <2>1
    <2>3. /\ closing.turn_id = turn_id /\ closing.text.of = <<>>
          /\ closing.topic = "uncertain"
      BY DEF UncertainEvent, NoText
    <2>4. CloseUtterance(<<closing>>) /\ IsSpeaking
      BY <1>4 DEF EndTooLong
    <2> HIDE DEF closing
    <2> QED
      BY <1>1, <2>2, <2>3, <2>4, CloseEffect DEF VerdictOn
  <1>5. CASE EndFinalised(duration_ms, turn_id)
    <2>1. PICK closing \in FinaliseVerdicts(turn_id) : CloseUtterance(<<closing>>)
      BY <1>5 DEF EndFinalised
    <2>2. <<closing>> \in Seq(Emit) /\ Len(<<closing>>) <= 1 /\ <<closing>>[1] = closing
      BY FinaliseVerdictsType DEF IInv, TypeOK
    <2>3. IsSpeaking
      BY <1>5 DEF EndFinalised
    <2> QED
      <3>1. /\ ~IsSpeaking' /\ engine'.audio = <<>> /\ Len(emits') <= 2 /\ ModelIsTold
            /\ \A i \in DOMAIN emits' :
                  IsVerdict(emits'[i]) => i = 1 /\ emits'[i] = closing
        BY <2>1, <2>2, CloseEffect
      <3>2. VerdictOn(turn_id)
        BY <2>3, <3>1, FinaliseVerdictsOn DEF VerdictOn
      <3> QED
        BY <1>1, <3>1, <3>2
  <1> QED
    BY <1>2, <1>3, <1>4, <1>5 DEF OnSpeechEnd

(* A speech.end that closes a window long enough to be speech says so: its  *)
(* first event is the verdict on the turn, or the failure of the engine.    *)
LEMMA EndSays ==
    ASSUME IInv, IsSpeaking, NEW duration_ms \in Nat, duration_ms >= MIN_WINDOW_MS,
           NEW turn_id \in OptionalTurn, OnSpeechEnd(duration_ms, turn_id)
    PROVE  /\ 1 \in DOMAIN emits'
           /\ \/ IsVerdict(emits'[1]) /\ emits'[1].turn_id = turn_id
              \/ emits'[1] = ErrorEvent("engine")
  <1>1. ASSUME NEW closing \in Emit, CloseUtterance(<<closing>>)
        PROVE  1 \in DOMAIN emits' /\ emits'[1] = closing
    BY <1>1 DEF CloseUtterance
  <1>2. CASE EndTooLong(duration_ms, turn_id)
    <2> DEFINE closing == UncertainEvent(NoText, 0, "window_too_long", turn_id)
    <2>1. closing \in Emit
      BY ConfidenceAssumption
      DEF UncertainEvent, Emit, NoText, Texts, Audio, Confidences
    <2>2. IsVerdict(closing) /\ closing.turn_id = turn_id
      BY DEF UncertainEvent, IsVerdict
    <2>3. CloseUtterance(<<closing>>)
      BY <1>2 DEF EndTooLong
    <2> HIDE DEF closing
    <2> QED
      BY <1>1, <2>1, <2>2, <2>3
  <1>3. CASE EndFinalised(duration_ms, turn_id)
    <2>1. PICK closing \in FinaliseVerdicts(turn_id) : CloseUtterance(<<closing>>)
      BY <1>3 DEF EndFinalised
    <2>2. closing \in Emit
      BY FinaliseVerdictsType DEF IInv, TypeOK
    <2>3. \/ IsVerdict(closing) /\ closing.turn_id = turn_id
          \/ closing = ErrorEvent("engine")
      BY DEF FinaliseVerdicts, FinaliseErrors, Judge, FinalEvent, UncertainEvent, IsVerdict
    <2> QED
      BY <1>1, <2>1, <2>2, <2>3
  <1>4. ~EndWhileIdle /\ ~EndTooShort(duration_ms)
    BY WindowAssumption DEF EndWhileIdle, EndTooShort
  <1> QED
    BY <1>2, <1>3, <1>4 DEF OnSpeechEnd

LEMMA ReloadEffect ==
    ASSUME IInv, NEW name \in Models \cup {UnknownModel}, OnReloadModel(name)
    PROVE  /\ IInv' /\ Len(emits') <= 2 /\ NoVerdict /\ ModelIsTold
           /\ (IsSpeaking' <=> IsSpeaking)
           /\ engine'.audio = engine.audio
  <1>1. IInv'
    BY ReloadKeepsIInv
  <1>2. CASE ReloadRefused(name)
    BY <1>1, <1>2
    DEF ReloadRefused, NoVerdict, ModelIsTold, IsVerdict, ErrorEvent, IsSpeaking
  <1>3. CASE ReloadQueued(name)
    BY <1>1, <1>3 DEF ReloadQueued, NoVerdict, ModelIsTold, IsSpeaking
  <1>4. CASE ReloadNow(name)
    <2>1. engine \in Engines /\ engine.audio = <<>> /\ name \in Models
      BY <1>4, SpeakingIsNotIdle DEF ReloadNow, IInv, TypeOK, QuietWhenIdle
    <2>2. PICK swap \in ApplyReload(engine, name) :
             engine' = swap.engine /\ emits' = <<swap.event>>
      BY <1>4 DEF ReloadNow
    <2>3. /\ swap.engine.audio = <<>>
          /\ IsAnswer(swap.event, name)
          /\ \/ swap.engine.model = name /\ swap.event = ModelLoadedEvent(name)
             \/ swap.engine = engine
      BY <2>1, ApplyReloadType
    <2>4. ~IsVerdict(swap.event)
      BY <2>3 DEF IsAnswer, IsVerdict, ModelLoadedEvent, ErrorEvent
    <2>5. IsSpeaking' <=> IsSpeaking
      BY <1>4 DEF ReloadNow, IsSpeaking
    <2> QED
      BY <1>1, <2>1, <2>2, <2>3, <2>4, <2>5 DEF NoVerdict, ModelIsTold
  <1> QED
    BY <1>2, <1>3, <1>4 DEF OnReloadModel

(* The caller publishes what it was given, or loses the engine's audio.     *)
LEMMA CallerKeepsIInv ==
    ASSUME IInv, UNCHANGED <<state, pending_reload, partials>>, emits' \in Seq(Emit),
           engine' = engine \/ engine' = Reset(engine)
    PROVE  /\ IInv' /\ (IsSpeaking' <=> IsSpeaking) /\ engine'.model = engine.model
           /\ engine'.audio = engine.audio \/ engine'.audio = <<>>
  <1>1. /\ engine' \in Engines /\ engine'.model = engine.model
        /\ engine'.audio = engine.audio \/ engine'.audio = <<>>
    BY ResetType DEF IInv, TypeOK
  <1> QED
    BY <1>1 DEF IInv, TypeOK, QuietWhenIdle, PendingOnlyWhileSpeaking, PartialRate,
       IsSpeaking

(* A panic of the parked reload: the utterance is closed, its events lost.  *)
LEMMA UnwoundReloadKeepsIInv ==
    ASSUME IInv, state' = Idle, pending_reload' = None, UNCHANGED partials,
           engine' = Reset(engine), emits' \in Seq(Emit)
    PROVE  /\ IInv' /\ ~IsSpeaking' /\ engine'.model = engine.model
           /\ engine'.audio = <<>>
  <1>1. engine' \in Engines /\ engine'.model = engine.model /\ engine'.audio = <<>>
    BY ResetType DEF IInv, TypeOK
  <1>2. ~IsSpeaking'
    BY DEF Idle, IsSpeaking
  <1> QED
    BY <1>1, <1>2 DEF IInv, TypeOK, QuietWhenIdle, PendingOnlyWhileSpeaking,
       PartialRate, States

----------------------------------------------------------------------------
(* A request is answered by one event at most.  A speech.end returns a      *)
(* second one for a reload that was parked: that reload's own answer, which *)
(* its request did not get.                                                 *)

Parked == IF pending_reload = None THEN 0 ELSE 1

Thrifty == Len(emits') + Parked' <= 1 + Parked

LEMMA OneEventIsThrifty ==
    ASSUME NEW event, emits' = <<>> \/ emits' = <<event>>, UNCHANGED pending_reload
    PROVE  Thrifty
  <1>1. Parked' = Parked /\ Parked \in Nat
    BY DEF Parked
  <1>2. CASE emits' = <<>>
    BY <1>1, <1>2 DEF Thrifty
  <1>3. CASE emits' = <<event>>
    BY <1>1, <1>3 DEF Thrifty
  <1> QED
    BY <1>2, <1>3

LEMMA StartIsThrifty ==
    ASSUME NEW ts \in Nat, OnSpeechStart(ts)
    PROVE  Thrifty
  BY OneEventIsThrifty DEF OnSpeechStart

LEMMA ChunkIsThrifty ==
    ASSUME NEW pcm \in Chunks \cup {BadPcm}, NEW ts \in Nat, OnSpeechChunk(pcm, ts)
    PROVE  Thrifty
  <1>1. CASE ChunkWhileIdle \/ ChunkRejected(pcm)
    BY <1>1, OneEventIsThrifty DEF ChunkWhileIdle, ChunkRejected
  <1>2. CASE ChunkAccepted(pcm, ts)
    BY <1>2, OneEventIsThrifty DEF ChunkAccepted
  <1> QED
    BY <1>1, <1>2 DEF OnSpeechChunk

LEMMA CloseIsThrifty ==
    ASSUME NEW closing \in Seq(Emit), Len(closing) <= 1, CloseUtterance(closing)
    PROVE  Thrifty
  <1>1. Parked' = 0
    BY DEF CloseUtterance, Parked
  <1>2. CASE pending_reload = None
    BY <1>1, <1>2 DEF CloseUtterance, Thrifty, Parked
  <1>3. CASE pending_reload # None
    <2>1. PICK event : emits' = Append(closing, event)
      BY <1>3 DEF CloseUtterance
    <2>2. Len(emits') = Len(closing) + 1
      BY <2>1
    <2> QED
      BY <1>1, <1>3, <2>2 DEF Thrifty, Parked
  <1> QED
    BY <1>2, <1>3

LEMMA EndIsThrifty ==
    ASSUME IInv, NEW duration_ms \in Nat, NEW turn_id \in OptionalTurn,
           OnSpeechEnd(duration_ms, turn_id)
    PROVE  Thrifty
  <1>1. CASE EndWhileIdle
    BY <1>1, OneEventIsThrifty DEF EndWhileIdle
  <1>2. CASE EndTooShort(duration_ms)
    <2>1. <<>> \in Seq(Emit) /\ Len(<<>>) <= 1
      OBVIOUS
    <2> QED
      BY <1>2, <2>1, CloseIsThrifty DEF EndTooShort
  <1>3. ASSUME NEW closing \in Emit, CloseUtterance(<<closing>>)
        PROVE  Thrifty
    <2>1. <<closing>> \in Seq(Emit) /\ Len(<<closing>>) <= 1
      OBVIOUS
    <2> QED
      BY <1>3, <2>1, CloseIsThrifty
  <1>4. CASE EndTooLong(duration_ms, turn_id)
    <2>1. UncertainEvent(NoText, 0, "window_too_long", turn_id) \in Emit
      BY ConfidenceAssumption
      DEF UncertainEvent, Emit, NoText, Texts, Audio, Confidences
    <2> QED
      BY <1>3, <1>4, <2>1 DEF EndTooLong
  <1>5. CASE EndFinalised(duration_ms, turn_id)
    <2>1. PICK closing \in FinaliseVerdicts(turn_id) : CloseUtterance(<<closing>>)
      BY <1>5 DEF EndFinalised
    <2>2. closing \in Emit
      BY FinaliseVerdictsType DEF IInv, TypeOK
    <2> QED
      BY <1>3, <2>1, <2>2
  <1> QED
    BY <1>1, <1>2, <1>4, <1>5 DEF OnSpeechEnd

LEMMA ReloadIsThrifty ==
    ASSUME NEW name \in Models \cup {UnknownModel}, OnReloadModel(name)
    PROVE  Thrifty
  <1>1. CASE ReloadRefused(name) \/ ReloadNow(name)
    BY <1>1, OneEventIsThrifty DEF ReloadRefused, ReloadNow
  <1>2. CASE ReloadQueued(name)
    BY <1>2 DEF ReloadQueued, Thrifty, Parked
  <1> QED
    BY <1>1, <1>2 DEF OnReloadModel

----------------------------------------------------------------------------
LEMMA InitIInv == Init => IInv
  <1> SUFFICES ASSUME Init PROVE IInv
    OBVIOUS
  <1>1. PICK m \in Models : engine = NewEngine(m)
    BY DEF Init
  <1>2. engine \in Engines /\ engine.audio = <<>>
    BY <1>1 DEF NewEngine, Engines, Audio
  <1>3. ~IsSpeaking
    BY DEF Init, Idle, IsSpeaking
  <1> QED
    BY <1>2, <1>3 DEF Init, IInv, TypeOK, QuietWhenIdle,
       PendingOnlyWhileSpeaking, PartialRate, States

LEMMA NextKeepsIInv == IInv /\ [Next]_vars => IInv'
  <1> SUFFICES ASSUME IInv, [Next]_vars PROVE IInv'
    OBVIOUS
  <1>1. ASSUME NEW ts \in 0 .. MaxTs, OnSpeechStart(ts) PROVE IInv'
    BY <1>1, StartKeepsIInv, BoundAssumption
  <1>2. ASSUME NEW pcm \in Chunks \cup {BadPcm}, NEW ts \in 0 .. MaxTs,
               OnSpeechChunk(pcm, ts)
        PROVE  IInv'
    BY <1>2, ChunkKeepsIInv, BoundAssumption
  <1>3. ASSUME NEW duration_ms \in 0 .. MAX_WINDOW_MS + 1,
               NEW turn_id \in OptionalTurn, OnSpeechEnd(duration_ms, turn_id)
        PROVE  IInv'
    BY <1>3, EndKeepsIInv, WindowAssumption
  <1>4. ASSUME NEW name \in Models \cup {UnknownModel}, OnReloadModel(name)
        PROVE  IInv'
    BY <1>4, ReloadKeepsIInv
  <1>5. CASE UNCHANGED vars
    BY <1>5 DEF vars, IInv, TypeOK, QuietWhenIdle, PendingOnlyWhileSpeaking,
       PartialRate, IsSpeaking
  <1> QED
    BY <1>1, <1>2, <1>3, <1>4, <1>5 DEF Next

(* The inductive invariant holds in every reachable state.                  *)
THEOREM Safety == Spec => []IInv
  BY InitIInv, NextKeepsIInv, PTL DEF Spec

(* Every variable stays in its type.                                        *)
THEOREM TypeCorrect == Spec => []TypeOK
  <1>1. IInv => TypeOK
    BY DEF IInv
  <1> QED
    BY <1>1, Safety, PTL

(* No audio of an ended utterance is left in the engine for the next one.   *)
THEOREM QuietBetweenUtterances == Spec => []QuietWhenIdle
  <1>1. IInv => QuietWhenIdle
    BY DEF IInv
  <1> QED
    BY <1>1, Safety, PTL

(* No reload is stranded while the processor is idle.                       *)
THEOREM NoStrandedReload == Spec => []PendingOnlyWhileSpeaking
  <1>1. IInv => PendingOnlyWhileSpeaking
    BY DEF IInv
  <1> QED
    BY <1>1, Safety, PTL

(* The throttle of partials holds over a whole utterance, whatever the      *)
(* timestamps of its chunks do.                                             *)
THEOREM PartialsAreThrottled == Spec => []PartialRate
  <1>1. IInv => PartialRate
    BY DEF IInv
  <1> QED
    BY <1>1, Safety, PTL

----------------------------------------------------------------------------
(* A parked reload that leaves pending_reload is answered or replaced.      *)

LEMMA CloseAnswers ==
    ASSUME IInv, pending_reload # None, NEW closing \in Seq(Emit),
           CloseUtterance(closing)
    PROVE  \E i \in DOMAIN emits' : IsAnswer(emits'[i], pending_reload)
  <1>1. Reset(engine) \in Engines /\ Reset(engine).audio = <<>>
    BY ResetType DEF IInv, TypeOK
  <1>2. PICK swap \in ApplyReload(Reset(engine), pending_reload) :
           emits' = Append(closing, swap.event)
    BY DEF CloseUtterance
  <1>3. IsAnswer(swap.event, pending_reload)
    BY <1>1, ApplyReloadType DEF IInv, TypeOK
  <1>4. swap.event \in Emit
    BY <1>1, ApplyReloadType DEF IInv, TypeOK
  <1>5. /\ Len(closing) + 1 \in DOMAIN emits'
        /\ emits'[Len(closing) + 1] = swap.event
    BY <1>2, <1>4
  <1> QED
    BY <1>3, <1>5

(* ReloadNeverForgotten, for every model set and every window.              *)
THEOREM ReloadAnswered == Spec => ReloadNeverForgotten
  <1>1. ASSUME IInv, [Next]_vars, pending_reload # None,
               pending_reload' # pending_reload
        PROVE  \/ pending_reload' # None
               \/ \E i \in DOMAIN emits' : IsAnswer(emits'[i], pending_reload)
    <2>1. ASSUME NEW ts \in 0 .. MaxTs, OnSpeechStart(ts) PROVE FALSE
      BY <1>1, <2>1 DEF OnSpeechStart
    <2>2. ASSUME NEW pcm \in Chunks \cup {BadPcm}, NEW ts \in 0 .. MaxTs,
                 OnSpeechChunk(pcm, ts)
          PROVE  FALSE
      BY <1>1, <2>2
      DEF OnSpeechChunk, ChunkWhileIdle, ChunkRejected, ChunkAccepted
    <2>3. ASSUME NEW duration_ms \in 0 .. MAX_WINDOW_MS + 1,
                 NEW turn_id \in OptionalTurn, OnSpeechEnd(duration_ms, turn_id)
          PROVE  \E i \in DOMAIN emits' : IsAnswer(emits'[i], pending_reload)
      <3>1. CASE EndWhileIdle
        BY <1>1, <3>1 DEF EndWhileIdle
      <3>2. CASE EndTooShort(duration_ms)
        <4>1. <<>> \in Seq(Emit)
          OBVIOUS
        <4> QED
          BY <1>1, <3>2, <4>1, CloseAnswers DEF EndTooShort
      <3>3. CASE EndTooLong(duration_ms, turn_id)
        <4>1. UncertainEvent(NoText, 0, "window_too_long", turn_id) \in Emit
          BY ConfidenceAssumption
          DEF UncertainEvent, Emit, NoText, Texts, Audio, Confidences
        <4>2. <<UncertainEvent(NoText, 0, "window_too_long", turn_id)>> \in Seq(Emit)
          BY <4>1
        <4> QED
          BY <1>1, <3>3, <4>2, CloseAnswers DEF EndTooLong
      <3>4. CASE EndFinalised(duration_ms, turn_id)
        <4>1. PICK closing \in FinaliseVerdicts(turn_id) :
                 CloseUtterance(<<closing>>)
          BY <3>4 DEF EndFinalised
        <4>2. <<closing>> \in Seq(Emit)
          BY <1>1, FinaliseVerdictsType DEF IInv, TypeOK
        <4> QED
          BY <1>1, <4>1, <4>2, CloseAnswers
      <3> QED
        BY <2>3, <3>1, <3>2, <3>3, <3>4 DEF OnSpeechEnd
    <2>4. ASSUME NEW name \in Models \cup {UnknownModel}, OnReloadModel(name)
          PROVE  pending_reload' # None
      BY <1>1, <2>4, NoneAssumption
      DEF OnReloadModel, ReloadRefused, ReloadQueued, ReloadNow
    <2>5. CASE UNCHANGED vars
      BY <1>1, <2>5 DEF vars
    <2> QED
      BY <1>1, <2>1, <2>2, <2>3, <2>4, <2>5 DEF Next
  <1>2. IInv /\ [Next]_vars =>
           [(pending_reload # None /\ pending_reload' # pending_reload) =>
               \/ pending_reload' # None
               \/ \E i \in DOMAIN emits' : IsAnswer(emits'[i], pending_reload)]_vars
    BY <1>1
  <1> QED
    BY <1>2, Safety, PTL DEF Spec, ReloadNeverForgotten

----------------------------------------------------------------------------
(* The refinement: each handler is a step of Utterance or a stutter.        *)

(* The instance speaks of the same events.                                  *)
LEMMA SameEvents ==
    /\ Promise!ErrorKinds = ErrorKinds
    /\ Promise!OptionalTurn = OptionalTurn
    /\ Promise!NoText = NoText
    /\ \A kind : Promise!ErrorEvent(kind) = ErrorEvent(kind)
    /\ \A name : Promise!ModelLoadedEvent(name) = ModelLoadedEvent(name)
    /\ \A name, audio : Promise!Text(name, audio) = Text(name, audio)
    /\ \A text, turn : Promise!PartialEvent(text, turn) = PartialEvent(text, turn)
    /\ \A text, c, name, turn :
          Promise!FinalEvent(text, c, name, turn) = FinalEvent(text, c, name, turn)
    /\ \A text, c, reason, turn :
          Promise!UncertainEvent(text, c, reason, turn)
             = UncertainEvent(text, c, reason, turn)
  BY DEF Promise!ErrorKinds, ErrorKinds, Promise!OptionalTurn, OptionalTurn,
     Promise!NoText, NoText, Promise!ErrorEvent, ErrorEvent,
     Promise!ModelLoadedEvent, ModelLoadedEvent, Promise!Text, Text,
     Promise!PartialEvent, PartialEvent, Promise!FinalEvent, FinalEvent,
     Promise!UncertainEvent, UncertainEvent

LEMMA RefinesInit == Init => Promise!Init
  <1> SUFFICES ASSUME Init PROVE Promise!Init
    OBVIOUS
  <1>1. PICK m \in Models : engine = NewEngine(m)
    BY DEF Init
  <1> QED
    BY <1>1 DEF Init, Promise!Init, NewEngine, IsSpeaking, Idle

LEMMA StartIsOpen ==
    ASSUME IInv, NEW ts \in Nat, OnSpeechStart(ts)
    PROVE  Promise!Open
  <1>1. engine' \in Engines /\ engine'.audio = <<>> /\ engine'.model = engine.model
    BY ResetType, SpeakingIsNotIdle
    DEF OnSpeechStart, IInv, TypeOK, QuietWhenIdle
  <1>2. IsSpeaking'
    BY DEF OnSpeechStart, Speaking, IsSpeaking
  <1> QED
    BY <1>1, <1>2, SameEvents DEF OnSpeechStart, Promise!Open, IsSpeaking

LEMMA ChunkRefines ==
    ASSUME IInv, NEW pcm \in Chunks \cup {BadPcm}, NEW ts \in Nat,
           OnSpeechChunk(pcm, ts)
    PROVE  Promise!Next
  <1>1. CASE ChunkWhileIdle
    <2>1. emits' = <<ErrorEvent("protocol")>> /\ "protocol" \in Promise!Refusals
      BY <1>1 DEF ChunkWhileIdle, IsSpeaking, Promise!Refusals
    <2>2. Promise!Refuse
      BY <1>1, <2>1, SameEvents DEF ChunkWhileIdle, Promise!Refuse, IsSpeaking
    <2> QED
      BY <2>2, SameEvents DEF Promise!Next
  <1>2. CASE ChunkRejected(pcm)
    <2>1. PICK kind \in AcceptChunkErrors(pcm) : emits' = <<ErrorEvent(kind)>>
      BY <1>2 DEF ChunkRejected
    <2>2. kind \in Promise!Refusals
      BY <1>2 DEF AcceptChunkErrors, ChunkRejected, IsSpeaking, Promise!Refusals
    <2>3. Promise!Refuse
      BY <1>2, <2>1, <2>2, SameEvents DEF ChunkRejected, Promise!Refuse, IsSpeaking
    <2> QED
      BY <2>3, SameEvents DEF Promise!Next
  <1>3. CASE ChunkAccepted(pcm, ts)
    <2>1. /\ pcm \in Chunks /\ engine \in Engines /\ IsSpeaking
          /\ engine' = AcceptChunk(engine, pcm)
          /\ UNCHANGED pending_reload
      BY <1>3 DEF ChunkAccepted, IInv, TypeOK
    <2>2. engine'.audio = engine.audio \o pcm /\ engine'.model = engine.model
      BY <2>1, AcceptChunkType
    <2>3. IsSpeaking'
      BY <1>3, <2>1 DEF ChunkAccepted, IsSpeaking, IInv, TypeOK, States, Idle
    <2>4. \/ emits' = <<>>
          \/ \E text \in PartialTexts(engine') :
                emits' = <<PartialEvent(text, state.turn_id)>>
      BY <1>3 DEF ChunkAccepted
    <2>5. state.turn_id \in OptionalTurn
      BY <2>1 DEF IInv, TypeOK, States, Idle, IsSpeaking
    <2>6. Promise!Hear(pcm)
      BY <2>1, <2>2, <2>3, <2>4, <2>5, SameEvents DEF Promise!Hear, PartialTexts
    <2> QED
      BY <2>1, <2>6, SameEvents DEF Promise!Next
  <1> QED
    BY <1>1, <1>2, <1>3 DEF OnSpeechChunk

LEMMA CloseRefines ==
    ASSUME IInv, IsSpeaking, NEW turn_id \in OptionalTurn,
           NEW closing \in Promise!Verdicts(turn_id), CloseUtterance(closing)
    PROVE  Promise!Next
  <1>1. Reset(engine) \in Engines /\ Reset(engine).audio = <<>>
        /\ Reset(engine).model = engine.model
    BY ResetType DEF IInv, TypeOK
  <1>2. ~IsSpeaking' /\ pending_reload' = None
    BY DEF CloseUtterance, Idle, IsSpeaking
  <1>3. CASE pending_reload = None
    <2>1. /\ engine'.audio = <<>> /\ engine'.model = engine.model
          /\ emits' = closing
      BY <1>1, <1>3 DEF CloseUtterance
    <2>2. Promise!Close(turn_id)
      BY <1>2, <1>3, <2>1, SameEvents DEF Promise!Close
    <2> QED
      BY <2>2, SameEvents DEF Promise!Next
  <1>4. CASE pending_reload # None
    <2>1. PICK swap \in ApplyReload(Reset(engine), pending_reload) :
             engine' = swap.engine /\ emits' = Append(closing, swap.event)
      BY <1>4 DEF CloseUtterance
    <2>2. pending_reload \in Models
      BY <1>4 DEF IInv, TypeOK
    <2>3. /\ engine'.audio = <<>>
          /\ \/ /\ engine'.model = pending_reload
                /\ emits' = Append(closing, ModelLoadedEvent(pending_reload))
             \/ /\ engine'.model = engine.model
                /\ emits' = Append(closing, ErrorEvent("model"))
      BY <1>1, <2>1, <2>2, ApplyReloadType
    <2>4. Promise!Answered(pending_reload, closing)
      BY <2>3, SameEvents DEF Promise!Answered
    <2>5. Promise!Close(turn_id)
      BY <1>2, <1>4, <2>3, <2>4, SameEvents DEF Promise!Close
    <2> QED
      BY <2>5, SameEvents DEF Promise!Next
  <1> QED
    BY <1>3, <1>4

LEMMA FinaliseVerdictsRefine ==
    ASSUME NEW turn_id \in OptionalTurn, NEW closing \in FinaliseVerdicts(turn_id)
    PROVE  <<closing>> \in Promise!Verdicts(turn_id)
  <1>1. ASSUME NEW text \in FinaliseTexts(engine), NEW c \in Confidences,
               closing = Judge(text, c, turn_id)
        PROVE  <<closing>> \in Promise!Verdicts(turn_id)
    <2>1. c >= Threshold => c \in Threshold .. MaxConfidence
      BY ThresholdAssumption, ConfidenceAssumption DEF Confidences
    <2>2. ~(c >= Threshold) => c \in 0 .. Threshold - 1
      BY ThresholdAssumption, ConfidenceAssumption DEF Confidences
    <2>3. text \in Promise!Transcripts
      BY SameEvents DEF FinaliseTexts, Promise!Transcripts
    <2> QED
      BY <1>1, <2>1, <2>2, <2>3, SameEvents DEF Judge, Promise!Verdicts
  <1>2. ASSUME NEW kind \in FinaliseErrors, closing = ErrorEvent(kind)
        PROVE  <<closing>> \in Promise!Verdicts(turn_id)
    <2>1. kind \in ErrorKinds
      BY DEF FinaliseErrors, ErrorKinds
    <2> QED
      BY <1>2, <2>1, SameEvents DEF Promise!Verdicts
  <1> QED
    BY <1>1, <1>2 DEF FinaliseVerdicts

LEMMA EndRefines ==
    ASSUME IInv, NEW duration_ms \in Nat, NEW turn_id \in OptionalTurn,
           OnSpeechEnd(duration_ms, turn_id)
    PROVE  Promise!Next
  <1>1. CASE EndWhileIdle
    <2>1. emits' = <<ErrorEvent("protocol")>> /\ "protocol" \in Promise!Refusals
      BY <1>1 DEF EndWhileIdle, IsSpeaking, Promise!Refusals
    <2>2. Promise!Refuse
      BY <1>1, <2>1, SameEvents DEF EndWhileIdle, Promise!Refuse, IsSpeaking
    <2> QED
      BY <2>2, SameEvents DEF Promise!Next
  <1>2. CASE EndTooShort(duration_ms)
    <2>1. <<>> \in Promise!Verdicts(turn_id)
      BY SameEvents DEF Promise!Verdicts
    <2> QED
      BY <1>2, <2>1, CloseRefines DEF EndTooShort
  <1>3. CASE EndTooLong(duration_ms, turn_id)
    <2>1. <<UncertainEvent(NoText, 0, "window_too_long", turn_id)>>
             \in Promise!Verdicts(turn_id)
      BY SameEvents DEF Promise!Verdicts
    <2> QED
      BY <1>3, <2>1, CloseRefines DEF EndTooLong
  <1>4. CASE EndFinalised(duration_ms, turn_id)
    <2>1. PICK closing \in FinaliseVerdicts(turn_id) : CloseUtterance(<<closing>>)
      BY <1>4 DEF EndFinalised
    <2>2. <<closing>> \in Promise!Verdicts(turn_id)
      BY FinaliseVerdictsRefine
    <2> QED
      BY <1>4, <2>1, <2>2, CloseRefines DEF EndFinalised
  <1> QED
    BY <1>1, <1>2, <1>3, <1>4 DEF OnSpeechEnd

LEMMA ReloadRefines ==
    ASSUME IInv, NEW name \in Models \cup {UnknownModel}, OnReloadModel(name)
    PROVE  Promise!Next
  <1>1. CASE ReloadRefused(name)
    <2>1. emits' = <<ErrorEvent("model")>> /\ "model" \in Promise!Refusals
      BY <1>1 DEF ReloadRefused, Promise!Refusals
    <2>2. Promise!Refuse
      BY <1>1, <2>1, SameEvents DEF ReloadRefused, Promise!Refuse, IsSpeaking
    <2> QED
      BY <2>2, SameEvents DEF Promise!Next
  <1>2. CASE ReloadQueued(name)
    <2>1. name \in Models /\ Promise!Ask(name)
      BY <1>2, SameEvents DEF ReloadQueued, Promise!Ask, IsSpeaking
    <2> QED
      BY <2>1, SameEvents DEF Promise!Next
  <1>3. CASE ReloadNow(name)
    <2>1. engine \in Engines /\ engine.audio = <<>> /\ name \in Models
      BY <1>3, SpeakingIsNotIdle DEF ReloadNow, IInv, TypeOK, QuietWhenIdle
    <2>2. PICK swap \in ApplyReload(engine, name) :
             engine' = swap.engine /\ emits' = <<swap.event>>
      BY <1>3 DEF ReloadNow
    <2>3. /\ engine'.audio = <<>>
          /\ \/ engine'.model = name /\ swap.event = ModelLoadedEvent(name)
             \/ engine'.model = engine.model /\ swap.event = ErrorEvent("model")
      BY <2>1, <2>2, ApplyReloadType
    <2>4. emits' = Append(<<>>, swap.event)
      BY <2>2
    <2>5. Promise!Answered(name, <<>>)
      BY <2>3, <2>4, SameEvents DEF Promise!Answered
    <2>6. Promise!Ask(name)
      BY <1>3, <2>1, <2>3, <2>5, SameEvents DEF ReloadNow, Promise!Ask, IsSpeaking
    <2> QED
      BY <2>1, <2>6, SameEvents DEF Promise!Next
  <1> QED
    BY <1>1, <1>2, <1>3 DEF OnReloadModel

(* Whatever order requests arrive in, subscribers see the abstract          *)
(* Utterance: every text is about the chunks of its own utterance only, by  *)
(* the model that was active throughout.                                    *)
THEOREM Refinement == Spec => ImplementsUtterance
  <1>1. ASSUME IInv, [Next]_vars PROVE [Promise!Next]_(Promise!vars)
    <2>1. ASSUME NEW ts \in 0 .. MaxTs, OnSpeechStart(ts) PROVE Promise!Next
      BY <1>1, <2>1, StartIsOpen, BoundAssumption, SameEvents DEF Promise!Next
    <2>2. ASSUME NEW pcm \in Chunks \cup {BadPcm}, NEW ts \in 0 .. MaxTs,
                 OnSpeechChunk(pcm, ts)
          PROVE  Promise!Next
      BY <1>1, <2>2, ChunkRefines, BoundAssumption
    <2>3. ASSUME NEW duration_ms \in 0 .. MAX_WINDOW_MS + 1,
                 NEW turn_id \in OptionalTurn, OnSpeechEnd(duration_ms, turn_id)
          PROVE  Promise!Next
      BY <1>1, <2>3, EndRefines, WindowAssumption
    <2>4. ASSUME NEW name \in Models \cup {UnknownModel}, OnReloadModel(name)
          PROVE  Promise!Next
      BY <1>1, <2>4, ReloadRefines
    <2>5. CASE UNCHANGED vars
      BY <2>5 DEF vars, Promise!vars, IsSpeaking
    <2> QED
      BY <1>1, <2>1, <2>2, <2>3, <2>4, <2>5 DEF Next
  <1>2. IInv /\ [Next]_vars => [Promise!Next]_(Promise!vars)
    BY <1>1
  <1> QED
    BY <1>2, RefinesInit, Safety, PTL
    DEF Spec, ImplementsUtterance, Promise!Spec
============================================================================
