------------------------ MODULE WhisperEngineProofs ------------------------
(* Theorems about WhisperEngine, for every set of models and chunks, every  *)
(* decoder minimum and window that fits it, builds that unwind and builds   *)
(* that abort, and whatever inference answers.                              *)
(*                                                                          *)
(* IInv ties the two buffers to what was fed: the window is always its end, *)
(* and until finalise takes it the buffer is all of it, unless a panic took *)
(* it first.                                                                *)
EXTENDS WhisperEngine, SequenceTheorems, TLAPS

Whole == (~finalised /\ ~state.poisoned) => buffer = fed

IInv ==
    /\ TypeOK
    /\ OneModel
    /\ partial_buffer = Window(fed)
    /\ NoStalePartial
    /\ Whole
    /\ VerdictIsWhole
----------------------------------------------------------------------------
(* The window.                                                              *)

LEMMA WindowOf ==
    ASSUME NEW audio \in Audio
    PROVE  LET kept == IF Len(audio) <= PARTIAL_BUFFER_MAX_SAMPLES
                       THEN Len(audio) ELSE PARTIAL_BUFFER_MAX_SAMPLES
           IN  /\ Window(audio) \in Audio
               /\ Len(Window(audio)) = kept
               /\ Window(audio) = SubSeq(audio, Len(audio) - kept + 1, Len(audio))
               /\ \A i \in 1 .. kept : Window(audio)[i] = audio[Len(audio) - kept + i]
<1> DEFINE n == Len(audio)
           m == PARTIAL_BUFFER_MAX_SAMPLES
           kept == IF n <= m THEN n ELSE m
<1>1. n \in Nat /\ m \in Nat /\ audio \in Seq(Samples)
  BY LenProperties, SampleAssumption DEF Audio
<1>2. \A i \in n - kept + 1 .. n : audio[i] \in Samples
  BY <1>1, ElementOfSeq
<1>3. /\ SubSeq(audio, n - kept + 1, n) \in Seq(Samples)
      /\ Len(SubSeq(audio, n - kept + 1, n)) = kept
      /\ \A i \in 1 .. kept : SubSeq(audio, n - kept + 1, n)[i] = audio[n - kept + i]
  <2> HIDE DEF n
  <2>1. n - kept + 1 \in Int /\ kept \in Nat
    BY <1>1
  <2> HIDE DEF kept
  <2>2. /\ SubSeq(audio, n - kept + 1, n) \in Seq(Samples)
        /\ Len(SubSeq(audio, n - kept + 1, n)) =
              IF n - kept + 1 <= n THEN n - (n - kept + 1) + 1 ELSE 0
        /\ \A i \in 1 .. n - (n - kept + 1) + 1 :
              SubSeq(audio, n - kept + 1, n)[i] = audio[(n - kept + 1) + i - 1]
    BY <1>1, <1>2, <2>1, SubSeqProperties
  <2>3. n - (n - kept + 1) + 1 = kept /\ (n - kept + 1 <= n <=> kept # 0)
    BY <1>1, <2>1
  <2>4. \A i \in 1 .. kept : (n - kept + 1) + i - 1 = n - kept + i
    BY <1>1, <2>1
  <2> QED
    BY <2>1, <2>2, <2>3, <2>4
<1>4. Window(audio) = SubSeq(audio, n - kept + 1, n)
  <2>1. CASE n <= m
    BY <1>1, <2>1, SubSeqFull DEF Window
  <2>2. CASE ~(n <= m)
    BY <2>2 DEF Window
  <2> QED
    BY <2>1, <2>2
<1> QED
  BY <1>3, <1>4 DEF Audio

LEMMA WindowEmpty == Window(<<>>) = <<>>
BY SampleAssumption DEF Window

(* Draining after every chunk keeps what draining once at the end would.    *)
LEMMA WindowOfWindow ==
    ASSUME NEW audio \in Audio, NEW samples \in Audio
    PROVE  Window(Window(audio) \o samples) = Window(audio \o samples)
<1> DEFINE m == PARTIAL_BUFFER_MAX_SAMPLES
           kept(a) == IF Len(a) <= m THEN Len(a) ELSE m
           w == Window(audio)
           short == w \o samples
           long == audio \o samples
<1>1. m \in Nat /\ audio \in Seq(Samples) /\ samples \in Seq(Samples)
      /\ w \in Seq(Samples) /\ Len(w) = kept(audio)
      /\ \A i \in 1 .. kept(audio) : w[i] = audio[Len(audio) - kept(audio) + i]
  BY WindowOf, SampleAssumption DEF Audio
<1>2. Len(audio) \in Nat /\ Len(samples) \in Nat /\ Len(w) \in Nat
  BY <1>1, LenProperties
<1>3. /\ short \in Seq(Samples) /\ Len(short) = Len(w) + Len(samples)
      /\ \A i \in 1 .. Len(w) + Len(samples) :
            short[i] = IF i <= Len(w) THEN w[i] ELSE samples[i - Len(w)]
  BY <1>1, ConcatProperties
<1>4. /\ long \in Seq(Samples) /\ Len(long) = Len(audio) + Len(samples)
      /\ \A i \in 1 .. Len(audio) + Len(samples) :
            long[i] = IF i <= Len(audio) THEN audio[i] ELSE samples[i - Len(audio)]
  BY <1>1, ConcatProperties
<1>5. /\ Window(short) \in Seq(Samples) /\ Len(Window(short)) = kept(short)
      /\ \A i \in 1 .. kept(short) : Window(short)[i] = short[Len(short) - kept(short) + i]
  BY <1>3, WindowOf DEF Audio
<1>6. /\ Window(long) \in Seq(Samples) /\ Len(Window(long)) = kept(long)
      /\ \A i \in 1 .. kept(long) : Window(long)[i] = long[Len(long) - kept(long) + i]
  BY <1>4, WindowOf DEF Audio
<1> HIDE DEF w, short, long
<1>7. kept(short) = kept(long)
  BY <1>1, <1>2, <1>3, <1>4
<1>8. ASSUME NEW i \in 1 .. kept(long)
      PROVE  short[Len(short) - kept(short) + i] = long[Len(long) - kept(long) + i]
  <2> DEFINE j == Len(short) - kept(long) + i
             k == Len(long) - kept(long) + i
  <2> DEFINE p == kept(long)
  <2>0. /\ p \in Nat /\ i \in 1 .. p /\ p <= Len(long) /\ p <= Len(short)
        /\ Len(short) = Len(w) + Len(samples) /\ Len(long) = Len(audio) + Len(samples)
    BY <1>1, <1>2, <1>3, <1>4, <1>7
  <2> HIDE DEF p
  <2>1. j \in 1 .. Len(short) /\ k \in 1 .. Len(long) /\ j - Len(w) = k - Len(audio)
    <3>1. j = Len(short) - p + i /\ k = Len(long) - p + i
      BY DEF p
    <3> QED
      BY <1>2, <2>0, <3>1
  <2>2. CASE j > Len(w)
    <3>1. short[j] = samples[j - Len(w)]
      BY <1>2, <1>3, <2>1, <2>2
    <3>2. ~(k <= Len(audio))
      BY <1>2, <2>1, <2>2
    <3>3. long[k] = samples[k - Len(audio)]
      BY <1>2, <1>4, <2>1, <3>2
    <3> QED
      BY <2>1, <3>1, <3>3, <1>7
  <2>3. CASE ~(j > Len(w))
    <3>1. j <= Len(w) /\ k <= Len(audio)
      BY <1>2, <2>1, <2>3
    <3>2. short[j] = w[j]
      BY <1>2, <1>3, <2>1, <3>1
    <3>3. long[k] = audio[k]
      BY <1>2, <1>4, <2>1, <3>1
    <3>4. j \in 1 .. Len(w) /\ Len(audio) - Len(w) + j = k
      <4> HIDE DEF j, k
      <4>1. j \in Int /\ k \in Int /\ j >= 1
        BY <1>2, <2>0, <2>1
      <4> QED
        BY <1>2, <2>1, <3>1, <4>1
    <3>5. w[j] = audio[k]
      <4> HIDE DEF j, k
      <4>1. w[j] = audio[Len(audio) - Len(w) + j]
        BY <1>1, <3>4
      <4> QED
        BY <3>4, <4>1
    <3>6. short[j] = long[k]
      BY <3>2, <3>3, <3>5
    <3> QED
      BY <3>6, <1>7
  <2> QED
    BY <2>2, <2>3
<1>9. \A i \in 1 .. Len(Window(short)) : Window(short)[i] = Window(long)[i]
  BY <1>5, <1>6, <1>7, <1>8
<1>10. Window(short) = Window(long)
  BY <1>5, <1>6, <1>7, <1>9, SeqEqual
<1> QED
  BY <1>10 DEF w, short, long
----------------------------------------------------------------------------
(* The invariant.                                                           *)

LEMMA TextTypes ==
    /\ NoText \in Texts
    /\ \A model \in Models, audio \in Audio : Text(model, audio) \in Texts
<1>1. <<>> \in Audio
  BY EmptySeq DEF Audio
<1> QED
  BY <1>1 DEF NoText, Texts, Text

LEMMA InitInv == Init => IInv
<1> SUFFICES ASSUME Init PROVE IInv
  OBVIOUS
<1>1. <<>> \in Audio /\ Len(<<>>) = 0
  BY EmptySeq DEF Audio
<1>2. TypeOK
  BY <1>1, TextTypes DEF Init, TypeOK, Decoder, Decoders
<1>3. OneModel /\ NoStalePartial /\ Whole
  BY DEF Init, OneModel, Decoder, NoStalePartial, Whole
<1>4. VerdictIsWhole
  BY DEF Init, VerdictIsWhole, Ok
<1> QED
  BY <1>2, <1>3, <1>4, WindowEmpty DEF IInv, Init

LEMMA AcceptChunkInv ==
    ASSUME IInv, NEW samples, AcceptChunk(samples)
    PROVE  IInv'
<1> USE DEF IInv
<1>1. CASE /\ ~finalised /\ answer' = Err("accept_chunk", "io")
           /\ UNCHANGED <<utterance, installed, decoder, finalised>>
  BY <1>1 DEF TypeOK, OneModel, NoStalePartial, Whole, VerdictIsWhole, Err,
              utterance, decoder
<1>2. CASE /\ ~finalised /\ samples \in Chunks
           /\ buffer' = buffer \o samples
           /\ partial_buffer' = Window(partial_buffer \o samples)
           /\ fed' = fed \o samples
           /\ answer' = Ok("accept_chunk")
           /\ UNCHANGED <<last_partial_text, installed, decoder, finalised>>
  <2>1. samples \in Audio /\ fed \in Audio /\ partial_buffer \in Audio /\ buffer \in Audio
    BY <1>2, ChunkAssumption DEF TypeOK
  <2>2. fed \o samples \in Audio /\ partial_buffer \o samples \in Audio
        /\ buffer \o samples \in Audio
    BY <2>1, ConcatProperties DEF Audio
  <2>3. Window(partial_buffer \o samples) \in Audio
    BY <2>2, WindowOf
  <2>4. partial_buffer' = Window(fed)'
    BY <1>2, <2>1, WindowOfWindow
  <2>5. NoStalePartial'
    <3>1. Len(partial_buffer) \in Nat /\ Len(samples) \in Nat
          /\ Len(partial_buffer \o samples) = Len(partial_buffer) + Len(samples)
      BY <2>1, ConcatProperties, LenProperties DEF Audio
    <3>2. Len(partial_buffer') = IF Len(partial_buffer \o samples) <= PARTIAL_BUFFER_MAX_SAMPLES
                                 THEN Len(partial_buffer \o samples)
                                 ELSE PARTIAL_BUFFER_MAX_SAMPLES
      BY <1>2, <2>2, WindowOf
    <3>3. Len(partial_buffer') < WHISPER_MIN_SAMPLES => Len(partial_buffer) < WHISPER_MIN_SAMPLES
      BY <3>1, <3>2, SampleAssumption
    <3> QED
      BY <1>2, <3>3 DEF NoStalePartial
  <2>6. TypeOK' /\ OneModel' /\ Whole'
    BY <1>2, <2>2, <2>3 DEF TypeOK, OneModel, Whole, decoder
  <2>7. VerdictIsWhole'
    BY <1>2 DEF VerdictIsWhole, Ok
  <2> QED
    BY <2>4, <2>5, <2>6, <2>7
<1> QED
  BY <1>1, <1>2 DEF AcceptChunk

LEMMA PartialInv ==
    ASSUME IInv, CurrentPartialFast
    PROVE  IInv'
<1> USE DEF IInv
<1>1. UNCHANGED <<installed, decoder, buffer, partial_buffer, fed, finalised>>
  BY DEF CurrentPartialFast
<1>2. last_partial_text' \in Texts
  <2>1. CASE UNCHANGED last_partial_text
    BY <2>1 DEF TypeOK
  <2>2. CASE last_partial_text' \in PartialInference
    BY <2>2, TextTypes DEF PartialInference, TypeOK, Decoders
  <2> QED
    BY <2>1, <2>2 DEF CurrentPartialFast
<1>3. TypeOK' /\ OneModel' /\ Whole' /\ (partial_buffer = Window(fed))'
  BY <1>1, <1>2 DEF TypeOK, OneModel, Whole, decoder
<1>4. NoStalePartial'
  <2>1. Len(partial_buffer) \in Nat /\ WHISPER_MIN_SAMPLES \in Nat
    BY SampleAssumption, LenProperties DEF TypeOK, Audio
  <2>2. partial_buffer' = partial_buffer
    BY <1>1
  <2>3. Len(partial_buffer) < WHISPER_MIN_SAMPLES => last_partial_text' = last_partial_text
    BY <2>1 DEF CurrentPartialFast
  <2> QED
    BY <2>2, <2>3 DEF NoStalePartial
<1>5. VerdictIsWhole'
  BY DEF CurrentPartialFast, VerdictIsWhole, PartialAnswer
<1> QED
  BY <1>3, <1>4, <1>5

LEMMA FinaliseInv ==
    ASSUME IInv, Finalise
    PROVE  IInv'
<1> USE DEF IInv
<1>1. /\ ~finalised /\ finalised' = TRUE /\ buffer' = <<>>
      /\ UNCHANGED <<installed, decoder, partial_buffer, last_partial_text, fed>>
  BY DEF Finalise
<1>2. <<>> \in Audio
  BY EmptySeq DEF Audio
<1>3. TypeOK' /\ OneModel' /\ Whole' /\ NoStalePartial' /\ (partial_buffer = Window(fed))'
  BY <1>1, <1>2 DEF TypeOK, OneModel, Whole, NoStalePartial, decoder
<1>4. VerdictIsWhole'
  <2>1. model_name' = model_name /\ fed' = fed
    BY <1>1 DEF decoder
  <2>2. CASE answer' = FinalAnswer(NoText, 0) \/ answer' = Err("finalise", "engine")
    BY <2>2 DEF VerdictIsWhole, FinalAnswer, Err
  <2>3. CASE /\ ~state.poisoned
             /\ \E text \in FinalInference, confidence \in Confidences :
                   answer' = FinalAnswer(text, confidence)
    <3>1. state.model = model_name /\ buffer = fed
      BY <1>1, <2>3 DEF OneModel, Whole
    <3> QED
      BY <2>1, <2>3, <3>1 DEF VerdictIsWhole, FinalAnswer, FinalInference
  <2> QED
    BY <2>2, <2>3 DEF Finalise
<1> QED
  BY <1>3, <1>4

LEMMA PanicInv ==
    ASSUME IInv, FinalisePanics
    PROVE  IInv'
<1> USE DEF IInv
<1>1. /\ buffer' = <<>> /\ state' = [state EXCEPT !.poisoned = TRUE]
      /\ answer' = Panicked("finalise")
      /\ UNCHANGED <<installed, ctx, partial_state, model_name, partial_buffer,
                     last_partial_text, fed, finalised>>
  BY DEF FinalisePanics
<1>2. <<>> \in Audio
  BY EmptySeq DEF Audio
<1>3. state' \in Decoders /\ state'.model = state.model /\ state'.poisoned
  BY <1>1 DEF TypeOK, Decoders
<1>4. TypeOK' /\ OneModel' /\ Whole' /\ NoStalePartial' /\ (partial_buffer = Window(fed))'
  BY <1>1, <1>2, <1>3 DEF TypeOK, OneModel, Whole, NoStalePartial
<1>5. VerdictIsWhole'
  BY <1>1 DEF VerdictIsWhole, Panicked
<1> QED
  BY <1>4, <1>5

LEMMA ClearedIsFine ==
    ASSUME ClearUtterance
    PROVE  /\ buffer' \in Audio /\ partial_buffer' \in Audio /\ fed' \in Audio
           /\ last_partial_text' \in Texts
           /\ buffer' = fed'
           /\ (partial_buffer = Window(fed))'
           /\ NoStalePartial'
<1>1. <<>> \in Audio
  BY EmptySeq DEF Audio
<1> QED
  BY <1>1, TextTypes, WindowEmpty DEF ClearUtterance, NoStalePartial

LEMMA ReloadModelInv ==
    ASSUME IInv, NEW name, ReloadModel(name)
    PROVE  IInv'
<1> USE DEF IInv
<1>1. ~finalised /\ UNCHANGED <<installed, finalised>>
  BY DEF ReloadModel
<1>2. CASE /\ \E kind \in LoadErrors(name) \cup {"model"} : answer' = Err("reload_model", kind)
           /\ UNCHANGED <<decoder, utterance>>
  BY <1>1, <1>2 DEF TypeOK, OneModel, NoStalePartial, Whole, VerdictIsWhole, Err,
                    utterance, decoder
<1>3. CASE name \in installed /\ SwapModel(name)
  <2>1. name \in Models
    BY <1>3 DEF TypeOK
  <2>2. CASE /\ state.poisoned /\ ctx' = name
             /\ answer' = Err("reload_model", "engine")
             /\ UNCHANGED <<state, partial_state, model_name, utterance>>
    BY <1>1, <2>1, <2>2 DEF TypeOK, OneModel, NoStalePartial, Whole, VerdictIsWhole, Err,
                            utterance
  <2>3. CASE /\ ~state.poisoned /\ ctx' = name
             /\ state' = Decoder(name) /\ partial_state' = Decoder(name)
             /\ model_name' = name
             /\ ClearUtterance
             /\ answer' = Ok("reload_model")
    <3>1. TypeOK' /\ OneModel' /\ Whole'
      BY <1>1, <2>1, <2>3, ClearedIsFine DEF TypeOK, OneModel, Whole, Decoder, Decoders
    <3>2. VerdictIsWhole'
      BY <2>3 DEF VerdictIsWhole, Ok
    <3> QED
      BY <2>3, <3>1, <3>2, ClearedIsFine
  <2> QED
    BY <1>3, <2>2, <2>3 DEF SwapModel
<1> QED
  BY <1>2, <1>3 DEF ReloadModel

LEMMA ResetInv ==
    ASSUME IInv, Reset
    PROVE  IInv'
<1> USE DEF IInv
<1>1. TypeOK' /\ OneModel' /\ Whole'
  BY ClearedIsFine DEF Reset, TypeOK, OneModel, Whole, decoder
<1>2. VerdictIsWhole'
  BY DEF Reset, VerdictIsWhole, Ok
<1> QED
  BY <1>1, <1>2, ClearedIsFine DEF Reset

LEMMA NextInv == IInv /\ [Next]_vars => IInv'
<1> SUFFICES ASSUME IInv, [Next]_vars PROVE IInv'
  OBVIOUS
<1>1. CASE ChangeModelFiles
  BY <1>1 DEF IInv, ChangeModelFiles, TypeOK, OneModel, NoStalePartial, Whole,
              VerdictIsWhole, decoder, utterance
<1>2. CASE UNCHANGED vars
  BY <1>2 DEF IInv, vars, TypeOK, OneModel, NoStalePartial, Whole, VerdictIsWhole,
              decoder, utterance
<1> QED
  BY <1>1, <1>2, AcceptChunkInv, PartialInv, FinaliseInv, PanicInv, ReloadModelInv,
     ResetInv DEF Next

LEMMA Invariance == Spec => []IInv
BY InitInv, NextInv, PTL DEF Spec

(* Every variable of the engine stays in its type.                          *)
THEOREM TypeCorrect == Spec => []TypeOK
<1>1. IInv => TypeOK
  BY DEF IInv
<1> QED
  BY <1>1, Invariance, PTL

(* The decoders, the context and the name that finals carry are of one      *)
(* model, whatever reloads fail and wherever finalise panics.               *)
THEOREM SameModel == Spec => []OneModel
<1>1. IInv => OneModel
  BY DEF IInv
<1> QED
  BY <1>1, Invariance, PTL

(* Partials are about the latest samples of this utterance, all of them     *)
(* that fit, for every window and every cut into chunks.                    *)
THEOREM LatestWindow == Spec => []WindowIsLatest
<1>1. IInv => WindowIsLatest
  <2> SUFFICES ASSUME IInv PROVE WindowIsLatest
    OBVIOUS
  <2>1. fed \in Audio /\ partial_buffer = Window(fed)
    BY DEF IInv, TypeOK
  <2> QED
    BY <2>1, WindowOf DEF WindowIsLatest
<1> QED
  BY <1>1, Invariance, PTL

(* No cached partial outlives the utterance it was decoded from.            *)
THEOREM FreshPartials == Spec => []NoStalePartial
<1>1. IInv => NoStalePartial
  BY DEF IInv
<1> QED
  BY <1>1, Invariance, PTL

(* A verdict is decoded from the whole utterance, by the active model.      *)
THEOREM WholeVerdicts == Spec => []VerdictIsWhole
<1>1. IInv => VerdictIsWhole
  BY DEF IInv
<1> QED
  BY <1>1, Invariance, PTL
----------------------------------------------------------------------------
(* The contract.  A step that leaves no lock poisoned is a step of the      *)
(* contract's engine, the model and the buffer of this one.                 *)

Held == [model |-> model_name, audio |-> buffer]

LEMMA AcceptHeld ==
    ASSUME NEW model, NEW audio, NEW pcm
    PROVE  Contract!AcceptChunk([model |-> model, audio |-> audio], pcm)
              = [model |-> model, audio |-> audio \o pcm]
<1> DEFINE e == [model |-> model, audio |-> audio]
<1>1. \A x : [e EXCEPT !.audio = x] = [model |-> model, audio |-> x]
  OBVIOUS
<1>2. Contract!AcceptChunk(e, pcm) = [e EXCEPT !.audio = e.audio \o pcm]
  BY DEF Contract!AcceptChunk
<1>3. e.audio = audio
  OBVIOUS
<1> QED
  BY <1>1, <1>2, <1>3

LEMMA ResetHeld ==
    ASSUME NEW model, NEW audio
    PROVE  Contract!Reset([model |-> model, audio |-> audio]) = [model |-> model, audio |-> <<>>]
BY DEF Contract!Reset

LEMMA InitContract == Init => Contract!Init
BY DEF Init, Contract!Init, Contract!NewEngine, Ok, Contract!Ok

LEMMA StepContract ==
    ASSUME IInv, [Next]_vars, ~state'.poisoned
    PROVE  Contract!Next \/ UNCHANGED Contract!vars
<1>1. ASSUME NEW samples \in Chunks \cup {BadPcm}, AcceptChunk(samples)
      PROVE  Contract!Next
  <2>1. Contract!Accept(samples)
    <3>1. CASE samples = BadPcm
      BY <1>1, <3>1, InputAssumption
         DEF AcceptChunk, Contract!Accept, Contract!AcceptChunkErrors, utterance, decoder,
             Err, Contract!Err
    <3>2. CASE samples \in Chunks
      <4>1. /\ ~finalised /\ buffer' = buffer \o samples
            /\ answer' = Ok("accept_chunk") /\ UNCHANGED <<model_name, finalised>>
        BY <1>1, <3>2, InputAssumption DEF AcceptChunk, decoder
      <4>2. Held' = Contract!AcceptChunk(Held, samples)
        <5>1. Held' = [model |-> model_name, audio |-> buffer \o samples]
          BY <4>1 DEF Held
        <5>2. Contract!AcceptChunk(Held, samples) =
                 [model |-> model_name, audio |-> buffer \o samples]
          BY AcceptHeld DEF Held
        <5> QED
          BY <5>1, <5>2
      <4> QED
        BY <3>2, <4>1, <4>2 DEF Contract!Accept, Held, Ok, Contract!Ok
    <3> QED
      BY <3>1, <3>2
  <2> QED
    BY <2>1 DEF Contract!Next
<1>2. ASSUME CurrentPartialFast PROVE Contract!Next
  <2>1. UNCHANGED <<decoder, buffer, partial_buffer, fed, finalised>> /\ ~finalised
    BY <1>2 DEF CurrentPartialFast
  <2>2. \E text \in Contract!PartialTexts(Held) \cup {NoText} : answer' = PartialAnswer(text)
    <3>1. Len(partial_buffer) \in Nat /\ WHISPER_MIN_SAMPLES \in Nat \ {0}
      BY SampleAssumption, LenProperties DEF IInv, TypeOK, Audio
    <3>2. CASE Len(partial_buffer) < WHISPER_MIN_SAMPLES
      BY <1>2, <3>1, <3>2 DEF CurrentPartialFast, IInv, NoStalePartial
    <3>3. CASE ~(Len(partial_buffer) < WHISPER_MIN_SAMPLES)
      <4>1. answer' = PartialAnswer(last_partial_text') /\ last_partial_text' \in PartialInference
        BY <1>2, <3>1, <3>3 DEF CurrentPartialFast
      <4>2. buffer = fed /\ partial_state.model = model_name
        BY <2>1 DEF IInv, OneModel, Whole, decoder
      <4> DEFINE k == Len(fed) - Len(partial_buffer) + 1
      <4>3. /\ k \in 1 .. Len(buffer)
            /\ partial_buffer = SubSeq(buffer, k, Len(buffer))
        <5>1. fed \in Audio /\ partial_buffer = Window(fed) /\ Len(fed) \in Nat
          BY LenProperties DEF IInv, TypeOK, Audio
        <5>2. /\ Len(partial_buffer) = IF Len(fed) <= PARTIAL_BUFFER_MAX_SAMPLES
                                       THEN Len(fed) ELSE PARTIAL_BUFFER_MAX_SAMPLES
              /\ partial_buffer = SubSeq(fed, Len(fed) - Len(partial_buffer) + 1, Len(fed))
          BY <5>1, WindowOf
        <5>3. k \in 1 .. Len(fed)
          BY <3>1, <3>3, <5>1, <5>2, SampleAssumption
        <5> QED
          BY <4>2, <5>2, <5>3
      <4>4. Text(model_name, partial_buffer) \in Contract!PartialTexts(Held)
        BY <4>3 DEF Contract!PartialTexts, Held, Text, Contract!Text
      <4> QED
        BY <4>1, <4>2, <4>4 DEF PartialInference
    <3> QED
      BY <3>2, <3>3
  <2>3. Contract!CurrentPartialFast
    BY <2>1, <2>2 DEF Contract!CurrentPartialFast, Held, decoder, PartialAnswer,
                      Contract!PartialAnswer, NoText, Contract!NoText
  <2> QED
    BY <2>3 DEF Contract!Next
<1>3. ASSUME Finalise PROVE Contract!Next
  <2>1. /\ ~finalised /\ finalised' = TRUE /\ buffer' = <<>> /\ UNCHANGED decoder
    BY <1>3 DEF Finalise
  <2>2. Held' = Contract!Reset(Held)
    BY <2>1, ResetHeld DEF Held, decoder
  <2>3. \/ \E text \in Contract!FinaliseTexts(Held), confidence \in Confidences :
              answer' = FinalAnswer(text, confidence)
        \/ answer' = Err("finalise", "engine")
    <3>1. CASE answer' = FinalAnswer(NoText, 0)
      BY <3>1, ConfidenceAssumption
         DEF Contract!FinaliseTexts, Confidences, NoText, Contract!NoText
    <3>2. CASE answer' = Err("finalise", "engine")
      BY <3>2
    <3>3. CASE \E text \in FinalInference, confidence \in Confidences :
                  answer' = FinalAnswer(text, confidence)
      <4>1. FinalInference = Contract!FinaliseTexts(Held)
        BY DEF IInv, OneModel, FinalInference, Contract!FinaliseTexts, Held,
                        Text, Contract!Text, NoText, Contract!NoText
      <4> QED
        BY <3>3, <4>1
    <3> QED
      BY <1>3, <3>1, <3>2, <3>3 DEF Finalise
  <2>4. Contract!Finalise
    BY <2>1, <2>2, <2>3 DEF Contract!Finalise, Contract!FinaliseErrors, Held, FinalAnswer,
       Contract!FinalAnswer, Err, Contract!Err, Confidences, Contract!Confidences
  <2> QED
    BY <2>4 DEF Contract!Next
<1>4. ASSUME FinalisePanics PROVE FALSE
  <2>1. state'.poisoned
    BY <1>4 DEF FinalisePanics, IInv, TypeOK, Decoders
  <2> QED
    BY <2>1
<1>5. ASSUME NEW name \in Models \cup {UnknownModel}, ReloadModel(name)
      PROVE  Contract!Next
  <2>1. ~finalised /\ UNCHANGED finalised
    BY <1>5 DEF ReloadModel
  <2>2. CASE /\ \E kind \in LoadErrors(name) \cup {"model"} : answer' = Err("reload_model", kind)
             /\ UNCHANGED <<decoder, utterance>>
    BY <2>1, <2>2 DEF LoadErrors, Contract!Reload, Contract!ReloadErrors, Contract!Next,
       Err, Contract!Err, decoder, utterance
  <2>3. CASE name \in installed /\ SwapModel(name)
    <3>1. ~state.poisoned
      BY <2>3 DEF SwapModel
    <3>2. name \in Models
      BY <2>3 DEF IInv, TypeOK
    <3>3. model_name' = name /\ buffer' = <<>> /\ answer' = Ok("reload_model")
      BY <2>3, <3>1 DEF SwapModel, ClearUtterance
    <3>4. Contract!Reload(name)
      BY <2>1, <3>2, <3>3 DEF Contract!Reload, Contract!ReloadModelOk, Ok, Contract!Ok
    <3> QED
      BY <3>4 DEF Contract!Next
  <2> QED
    BY <1>5, <2>2, <2>3 DEF ReloadModel
<1>6. ASSUME Reset PROVE Contract!Next
  BY <1>6, ResetHeld DEF Reset, ClearUtterance, decoder, Contract!Next, Contract!ResetCall,
     Ok, Contract!Ok
<1>7. ASSUME ChangeModelFiles \/ UNCHANGED vars PROVE UNCHANGED Contract!vars
  BY <1>7 DEF ChangeModelFiles, vars, decoder, utterance, Contract!vars
<1> QED
  BY <1>1, <1>2, <1>3, <1>4, <1>5, <1>6, <1>7 DEF Next

(* WhisperEngine stays inside the trait's contract until finalise panics.   *)
THEOREM Refinement == Spec => ImplementsContract
<1>1. IInv /\ [Next]_vars => [~state'.poisoned => Contract!Next]_(Contract!vars)
  BY StepContract
<1> QED
  BY <1>1, InitContract, Invariance, PTL DEF Spec, ImplementsContract
============================================================================
