-------------------------- MODULE StubEngineProofs --------------------------
(* The stub against the contract of the trait, for utterances of any        *)
(* length: what it counts is audio, one sample a chunk.  StubParameters is  *)
(* a hypothesis: StubEngine::new checks the part of it that is not shape.   *)
EXTENDS StubEngine, SequenceTheorems, TLAPS

TypeOK == model \in Models /\ chunks \in Nat

Held == [model |-> model, audio |-> Counted(chunks)]

LEMMA CountedType ==
    ASSUME NEW n \in Nat
    PROVE  Counted(n) \in Seq({Unit}) /\ Len(Counted(n)) = n
BY DEF Counted

(* One chunk more is one sample more.                                       *)
LEMMA CountedNext ==
    ASSUME NEW n \in Nat
    PROVE  Counted(n + 1) = Counted(n) \o <<Unit>>
<1> DEFINE longer == Counted(n) \o <<Unit>>
<1>1. /\ Counted(n) \in Seq({Unit}) /\ Len(Counted(n)) = n
      /\ Counted(n + 1) \in Seq({Unit}) /\ Len(Counted(n + 1)) = n + 1
  BY CountedType
<1>2. longer \in Seq({Unit}) /\ Len(longer) = n + 1
  BY <1>1
<1>3. ASSUME NEW i \in 1 .. n + 1
      PROVE  Counted(n + 1)[i] = longer[i]
  BY <1>1, <1>2 DEF Counted
<1> HIDE DEF longer
<1> QED
  BY <1>1, <1>2, <1>3, SeqEqual

LEMMA AllHeard ==
    ASSUME NEW n \in Nat, n # 0
    PROVE  SubSeq(Counted(n), 1, Len(Counted(n))) = Counted(n) /\ 1 \in 1 .. Len(Counted(n))
<1>1. Counted(n) \in Seq({Unit}) /\ Len(Counted(n)) = n
  BY CountedType
<1>2. SubSeq(Counted(n), 1, Len(Counted(n))) = Counted(n)
  BY <1>1, SubSeqFull
<1> QED
  BY <1>1, <1>2

LEMMA AcceptHeld ==
    ASSUME NEW m, NEW n \in Nat
    PROVE  Contract!AcceptChunk([model |-> m, audio |-> Counted(n)], <<Unit>>)
              = [model |-> m, audio |-> Counted(n + 1)]
<1> DEFINE e == [model |-> m, audio |-> Counted(n)]
<1>1. \A x : [e EXCEPT !.audio = x] = [model |-> m, audio |-> x]
  OBVIOUS
<1>2. Contract!AcceptChunk(e, <<Unit>>) = [e EXCEPT !.audio = e.audio \o <<Unit>>]
  BY DEF Contract!AcceptChunk
<1>3. e.audio = Counted(n)
  OBVIOUS
<1> QED
  BY <1>1, <1>2, <1>3, CountedNext

LEMMA ResetHeld ==
    ASSUME NEW m, NEW audio
    PROVE  Contract!Reset([model |-> m, audio |-> audio])
              = [model |-> m, audio |-> Counted(0)]
<1>1. Counted(0) = <<>>
  BY CountedType
<1> QED
  BY <1>1 DEF Contract!Reset

LEMMA Typing == Spec => []TypeOK
<1>1. Init => TypeOK
  BY DEF Init, TypeOK
<1>2. TypeOK /\ [Next]_vars => TypeOK'
  BY DEF TypeOK, Next, vars, AcceptChunk, CurrentPartialFast, Finalise, ReloadModel, Reset
<1> QED
  BY <1>1, <1>2, PTL DEF Spec

LEMMA InitContract == Init => Contract!Init
<1>1. Counted(0) = <<>>
  BY CountedType
<1> QED
  BY <1>1 DEF Init, Contract!Init, Contract!NewEngine

LEMMA StepContract ==
    ASSUME StubParameters, TypeOK, [Next]_vars
    PROVE  [Contract!Next]_(Contract!vars)
<1>1. ASSUME NEW pcm \in Payloads, AcceptChunk(pcm)
      PROVE  Contract!Next
  <2>1. CASE pcm = Empty
    <3>1. Contract!Accept(BadPcm)
      BY <1>1, <2>1 DEF StubParameters, AcceptChunk, Contract!Accept,
         Contract!AcceptChunkErrors
    <3> QED
      BY <3>1 DEF Contract!Next
  <2>2. CASE pcm # Empty
    <3>1. Held' = Contract!AcceptChunk(Held, <<Unit>>)
      BY <1>1, <2>2, AcceptHeld DEF AcceptChunk, Held, TypeOK
    <3>2. Contract!Accept(<<Unit>>) /\ <<Unit>> \in Chunks
      BY <1>1, <2>2, <3>1 DEF StubParameters, AcceptChunk, Contract!Accept, Held
    <3> QED
      BY <3>2 DEF Contract!Next
  <2> QED
    BY <2>1, <2>2
<1>2. ASSUME CurrentPartialFast
      PROVE  Contract!Next
  <2>1. Text(model, Counted(chunks)) \in Contract!PartialTexts(Held) \/ chunks = 0
    BY AllHeard DEF TypeOK, Contract!PartialTexts, Held, Text, Contract!Text
  <2>2. Contract!CurrentPartialFast
    BY <1>2, <2>1 DEF CurrentPartialFast, Contract!CurrentPartialFast, Held, NoText,
       Contract!NoText
  <2> QED
    BY <2>2 DEF Contract!Next
<1>3. ASSUME Finalise
      PROVE  Contract!Next
  <2>1. FixedConfidence \in Contract!Confidences
    BY ConfidenceAssumption DEF StubParameters, Contract!Confidences
  <2>2. Text(model, Counted(chunks)) \in Contract!FinaliseTexts(Held)
    BY DEF Contract!FinaliseTexts, Held, Text, Contract!Text
  <2>3. Contract!Finalise
    BY <1>3, <2>1, <2>2 DEF Finalise, Contract!Finalise, Held
  <2> QED
    BY <2>3 DEF Contract!Next
<1>4. ASSUME NEW name \in Models \cup {UnknownModel}, ReloadModel(name)
      PROVE  Contract!Next
  <2>1. Contract!Reload(name)
    <3>1. CASE name \in Models
      BY <1>4, <3>1 DEF ReloadModel, Contract!Reload, Contract!ReloadModelOk
    <3>2. CASE name \notin Models
      BY <1>4, <3>2 DEF ReloadModel, Contract!Reload, Contract!ReloadErrors
    <3> QED
      BY <3>1, <3>2
  <2> QED
    BY <2>1 DEF Contract!Next
<1>5. ASSUME Reset
      PROVE  Contract!Next
  <2>1. Contract!ResetCall
    BY <1>5, ResetHeld DEF Reset, Contract!ResetCall
  <2> QED
    BY <2>1 DEF Contract!Next
<1>6. ASSUME UNCHANGED vars
      PROVE  UNCHANGED Contract!vars
  BY <1>6 DEF vars, Contract!vars
<1> QED
  BY <1>1, <1>2, <1>3, <1>4, <1>5, <1>6 DEF Next

(* Whatever payload it accepts is one chunk to the stub, and so read, its   *)
(* states and answers are those of an engine that keeps the contract.  It   *)
(* says nothing of which payloads are refused: there the stub differs from  *)
(* the contract (UnparseableIsRefused).                                     *)
THEOREM Refinement ==
    ASSUME StubParameters
    PROVE  Spec => KeepsContract
<1>1. TypeOK /\ [Next]_vars => [Contract!Next]_(Contract!vars)
  BY StepContract
<1> QED
  BY <1>1, InitContract, Typing, PTL DEF Spec, KeepsContract, Contract!Spec
============================================================================
