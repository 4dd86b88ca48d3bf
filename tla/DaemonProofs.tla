---------------------------- MODULE DaemonProofs ----------------------------
(* Theorems about Daemon, for any number of utterances, chunks and reloads, *)
(* any loss and repetition of lines and any failure of publishes and jobs.  *)
(*                                                                          *)
(* What the processor does is taken from UtteranceProcessorProofs, handler  *)
(* by handler (its lemmas *Effect); the rest of the invariant is about what *)
(* waits on the connection: the lines of wm-audio wait in the order they    *)
(* were sent, so a mark between two of them that does not wait is lost.     *)
EXTENDS Daemon, FiniteSetTheorems, SequenceTheorems, TLAPS

PP == INSTANCE UtteranceProcessorProofs

----------------------------------------------------------------------------
(* The invariant.                                                           *)

Speaking == Processor!IsSpeaking

Typed ==
    /\ pc \in {"reading", "blocked", "publishing", "reporting", "stopped"}
    /\ job \in Utterances \cup {None}
    /\ inbox \in Seq(Lines)
    /\ bus \in {"open", "closed"}
    /\ mic \in [utterance : Utterances \cup {0}, speaking : BOOLEAN, chunks : Nat]
    /\ lost \subseteq Lines
    /\ failed \subseteq Utterances /\ excused \subseteq Utterances
    /\ published \in Seq(Emit)
    /\ emits \in Seq(Emit)
    /\ requests \in Nat
    /\ mic.speaking => mic.utterance \in Utterances

(* Where the loop is: it has events to publish, or a job, or neither.       *)
Control ==
    /\ pc # "publishing" => emits = <<>>
    /\ pc = "blocked" <=> job # None

(* A request is worth one event, which is published, or stands in emits,   *)
(* or is the answer of a reload that is parked, or is still to be formed -  *)
(* and one more for as long as a publish of it may fail.                    *)
Due == Len(emits) + PP!Parked + (IF pc \in {"blocked", "reporting"} THEN 1 ELSE 0)

Spare == IF pc \in {"blocked", "publishing"} THEN 1 ELSE 0

Frugal ==
    /\ Len(published) + Due + Spare <= 2 * requests
    /\ ~dropped => Len(published) + Due <= requests

(* Upstream order: start, chunks and end of each utterance in turn.         *)
Timed == {Start(u) : u \in Utterances} \cup {Chunk(u) : u \in Utterances}
             \cup {End(u) : u \in Utterances}

Marks == {Start(u) : u \in Utterances} \cup {End(u) : u \in Utterances}

Rank(line) ==
    CASE line.topic = "start" -> 3 * line.utterance
      [] line.topic = "chunk" -> 3 * line.utterance + 1
      [] OTHER                -> 3 * line.utterance + 2

Limit == IF mic.speaking THEN 3 * mic.utterance + 1 ELSE 3 * mic.utterance + 2

(* What was sent and not read.                                              *)
Waits(line) == \E i \in DOMAIN inbox : inbox[i] = line

Sorted ==
    \A i, j \in DOMAIN inbox :
        i < j /\ inbox[i] \in Timed /\ inbox[j] \in Timed
            => Rank(inbox[i]) <= Rank(inbox[j])

InOrder ==
    /\ \A line \in Timed : Waits(line) => Rank(line) <= Limit
    /\ job # None =>
          /\ Rank(End(job)) <= Limit
          /\ \A line \in Timed : Waits(line) => Rank(line) >= Rank(End(job))

(* Of the marks after a line that waits, those that were sent wait or are   *)
(* lost; so do those after the audio that the engine holds.                 *)
Accounted(mark) == mark \in lost \/ Waits(mark)

NoGap ==
    \A line \in Timed, mark \in Marks :
        Waits(line) /\ Rank(line) < Rank(mark) /\ Rank(mark) <= Limit => Accounted(mark)

Spoken == {engine.audio[i] : i \in DOMAIN engine.audio}

AudioIsRecent ==
    \A s \in Spoken :
        /\ Rank(Chunk(s)) <= Limit
        /\ \A line \in Timed : Waits(line) => Rank(line) >= Rank(Chunk(s))
        /\ job # None => s <= job
        /\ \A mark \in Marks :
              Rank(Chunk(s)) < Rank(mark) /\ Rank(mark) <= Limit =>
                  Accounted(mark) \/ (job # None /\ mark = End(job))

Queue == Sorted /\ InOrder /\ NoGap /\ AudioIsRecent

(* A verdict on t, and its text.                                            *)
On(event, t) == IsVerdict(event) /\ event.turn_id = t

Clean(event) ==
    \A t \in Utterances :
        On(event, t) =>
            \A i \in DOMAIN event.text.of :
                /\ event.text.of[i] <= t
                /\ \A k \in event.text.of[i] .. t - 1 : {End(k), Start(k + 1)} \subseteq lost

CleanEvents ==
    /\ \A i \in DOMAIN published : Clean(published[i])
    /\ \A i \in DOMAIN emits : Clean(emits[i])

(* Turns with a verdict, published or about to be.                          *)
Judged(t) ==
    \/ \E i \in DOMAIN published : On(published[i], t)
    \/ \E i \in DOMAIN emits : On(emits[i], t)

(* The lines before the end of a judged turn were read.  Its speech.end may *)
(* come again, but then the processor is idle, and no start comes before it.*)
Settled ==
    \A t \in Utterances :
        Judged(t) =>
            /\ Rank(End(t)) <= Limit
            /\ \A line \in Timed : Waits(line) => Rank(line) >= Rank(End(t))
            /\ Speaking => ~Waits(End(t)) /\ job # t

Once ==
    /\ \A t \in Utterances, i, j \in DOMAIN published :
          On(published[i], t) /\ On(published[j], t) => i = j
    /\ \A t \in Utterances, i \in DOMAIN published, j \in DOMAIN emits :
          ~(On(published[i], t) /\ On(emits[j], t))
    /\ \A i \in DOMAIN emits : IsVerdict(emits[i]) => i = 1

(* All that was or will be published, while nothing was dropped.            *)
Said == published \o emits

Told(said, model) ==
    /\ \A i, j \in DOMAIN said :
          (/\ i < j
           /\ said[i].topic = "final" /\ said[j].topic = "final"
           /\ said[i].model # said[j].model) =>
              \E k \in i .. j : said[k] = ModelLoadedEvent(said[j].model)
    /\ \A i \in DOMAIN said :
          said[i].topic = "final" /\ said[i].model # model =>
              \E k \in i .. Len(said) : said[k] = ModelLoadedEvent(model)

Announced == ~dropped => Told(Said, engine.model)

IInv ==
    /\ PP!IInv /\ Typed /\ Control /\ Frugal
    /\ Queue /\ CleanEvents /\ Settled /\ Once /\ Announced
----------------------------------------------------------------------------
(* The processor of UtteranceProcessorProofs is that of Daemon.             *)

LEMMA SameEvents ==
    /\ PP!Emit = Emit
    /\ \A event : PP!IsVerdict(event) <=> IsVerdict(event)
    /\ \A name : PP!ModelLoadedEvent(name) = ModelLoadedEvent(name)
  BY DEF PP!Emit, Emit, PP!Texts, Texts, PP!Audio, Audio, PP!OptionalTurn, OptionalTurn,
     PP!Confidences, Confidences, PP!ErrorKinds, ErrorKinds, PP!IsVerdict, IsVerdict,
     PP!ModelLoadedEvent, ModelLoadedEvent

LEMMA SameAssumptions ==
    /\ PP!NoneAssumption /\ PP!ConfidenceAssumption /\ PP!ChunkAssumption
    /\ PP!InputAssumption /\ PP!CadenceAssumption /\ PP!WindowAssumption
    /\ PP!ThresholdAssumption /\ PP!BoundAssumption
  <1>1. PP!NoneAssumption /\ PP!ConfidenceAssumption /\ PP!ChunkAssumption
    BY NoneAssumption, ConfidenceAssumption, ChunkAssumption
    DEF PP!NoneAssumption, PP!ConfidenceAssumption, PP!ChunkAssumption, Audio, PP!Audio
  <1>2. PP!InputAssumption /\ PP!CadenceAssumption
    BY ProcessorAssumption DEF PP!InputAssumption, PP!CadenceAssumption
  <1>3. PP!WindowAssumption /\ PP!ThresholdAssumption /\ PP!BoundAssumption
    <2>1. MIN_WINDOW_MS \in Nat /\ MAX_WINDOW_MS \in Nat /\ MaxTs \in Nat /\ MaxSamples \in Nat
      BY ProcessorAssumption
    <2>2. MIN_WINDOW_MS <= MAX_WINDOW_MS /\ Threshold \in 1 .. MaxConfidence
      BY ProcessorAssumption
    <2> QED
      BY <2>1, <2>2 DEF PP!WindowAssumption, PP!ThresholdAssumption, PP!BoundAssumption
  <1> QED
    BY <1>1, <1>2, <1>3

LEMMA SameSpeaking == Speaking <=> PP!IsSpeaking
  BY DEF Speaking, Processor!IsSpeaking, PP!IsSpeaking

LEMMA SameStart ==
    ASSUME NEW ts, Processor!OnSpeechStart(ts)
    PROVE  PP!OnSpeechStart(ts)
  BY DEF Processor!OnSpeechStart, PP!OnSpeechStart, Processor!IsSpeaking, PP!IsSpeaking,
     Processor!ErrorEvent, PP!ErrorEvent, Processor!Reset, PP!Reset,
     Processor!Speaking, PP!Speaking

LEMMA SameChunk ==
    ASSUME NEW pcm, NEW ts, Processor!OnSpeechChunk(pcm, ts)
    PROVE  PP!OnSpeechChunk(pcm, ts)
  BY DEF Processor!OnSpeechChunk, PP!OnSpeechChunk, Processor!ChunkWhileIdle,
     PP!ChunkWhileIdle, Processor!ChunkRejected, PP!ChunkRejected,
     Processor!ChunkAccepted, PP!ChunkAccepted, Processor!AcceptChunkErrors,
     PP!AcceptChunkErrors, Processor!AcceptChunk, PP!AcceptChunk, Processor!PartialDue,
     PP!PartialDue, Processor!SaturatingSub, PP!SaturatingSub, Processor!PartialTexts,
     PP!PartialTexts, Processor!PartialEvent, PP!PartialEvent, Processor!Text, PP!Text,
     Processor!ErrorEvent, PP!ErrorEvent, Processor!IsSpeaking, PP!IsSpeaking

LEMMA SameEnd ==
    ASSUME NEW duration_ms, NEW turn_id
    PROVE  Processor!OnSpeechEnd(duration_ms, turn_id) <=> PP!OnSpeechEnd(duration_ms, turn_id)
  BY DEF Processor!OnSpeechEnd, PP!OnSpeechEnd, Processor!EndWhileIdle, PP!EndWhileIdle,
     Processor!EndTooShort, PP!EndTooShort, Processor!EndTooLong, PP!EndTooLong,
     Processor!EndFinalised, PP!EndFinalised, Processor!CloseUtterance,
     PP!CloseUtterance, Processor!IsSpeaking, PP!IsSpeaking, Processor!Idle, PP!Idle,
     Processor!ApplyReload, PP!ApplyReload, Processor!Reset, PP!Reset,
     Processor!ReloadModelOk, PP!ReloadModelOk, Processor!ErrorEvent, PP!ErrorEvent,
     Processor!ModelLoadedEvent, PP!ModelLoadedEvent, Processor!UncertainEvent,
     PP!UncertainEvent, Processor!NoText, PP!NoText, Processor!FinaliseVerdicts,
     PP!FinaliseVerdicts, Processor!Judge, PP!Judge, Processor!FinaliseTexts,
     PP!FinaliseTexts, Processor!Confidences, PP!Confidences, Processor!FinaliseErrors,
     PP!FinaliseErrors, Processor!Text, PP!Text, Processor!FinalEvent, PP!FinalEvent

LEMMA SameReload ==
    ASSUME NEW name, Processor!OnReloadModel(name)
    PROVE  PP!OnReloadModel(name)
  BY DEF Processor!OnReloadModel, PP!OnReloadModel, Processor!ReloadRefused,
     PP!ReloadRefused, Processor!ReloadQueued, PP!ReloadQueued, Processor!ReloadNow,
     PP!ReloadNow, Processor!ApplyReload, PP!ApplyReload, Processor!ReloadModelOk,
     PP!ReloadModelOk, Processor!ErrorEvent, PP!ErrorEvent, Processor!ModelLoadedEvent,
     PP!ModelLoadedEvent, Processor!IsSpeaking, PP!IsSpeaking

LEMMA SameInit == Processor!Init => PP!Init
  BY DEF Processor!Init, PP!Init, Processor!Idle, PP!Idle, Processor!NewEngine, PP!NewEngine

LEMMA SameType == PP!TypeOK => Processor!TypeOK
  BY DEF Processor!TypeOK, PP!TypeOK, Processor!States, PP!States, Processor!Idle, PP!Idle,
     Processor!OptionalTurn, PP!OptionalTurn, Processor!Engines, PP!Engines,
     Processor!Audio, PP!Audio, Processor!Emit, PP!Emit, Processor!Texts, PP!Texts,
     Processor!Confidences, PP!Confidences, Processor!ErrorKinds, PP!ErrorKinds
----------------------------------------------------------------------------
(* The handlers, as the loop sees them.                                     *)

NoVerdict == \A i \in DOMAIN emits' : ~IsVerdict(emits'[i])

Handled ==
    /\ PP!IInv' /\ emits' \in Seq(Emit) /\ PP!Thrifty
    /\ engine'.model # engine.model =>
          /\ emits' # <<>>
          /\ emits'[Len(emits')] = ModelLoadedEvent(engine'.model)

LEMMA HandledFrom ==
    ASSUME PP!IInv', PP!Thrifty, PP!ModelIsTold
    PROVE  Handled
  BY SameEvents DEF Handled, PP!ModelIsTold, PP!IInv, PP!TypeOK

LEMMA NoVerdictFrom ==
    ASSUME PP!NoVerdict
    PROVE  NoVerdict
  BY SameEvents DEF NoVerdict, PP!NoVerdict

LEMMA Starts ==
    ASSUME PP!IInv, NEW ts \in Nat, Processor!OnSpeechStart(ts)
    PROVE  Handled /\ NoVerdict /\ Speaking' /\ Spoken' = {}
  <1>1. PP!OnSpeechStart(ts)
    BY SameStart
  <1>2. /\ PP!IInv' /\ PP!Thrifty /\ PP!NoVerdict /\ PP!ModelIsTold
        /\ PP!IsSpeaking' /\ engine'.audio = <<>>
    BY <1>1, SameAssumptions, PP!StartEffect, PP!StartIsThrifty, Zenon
  <1>3. Spoken' = {}
    BY <1>2 DEF Spoken
  <1>4. Speaking'
    BY <1>2 DEF Speaking, Processor!IsSpeaking, PP!IsSpeaking
  <1> QED
    BY <1>2, <1>3, <1>4, HandledFrom, NoVerdictFrom

LEMMA AudioType ==
    ASSUME PP!IInv
    PROVE  engine.audio \in Seq(Utterances) /\ Spoken \subseteq Utterances
  <1>1. engine.audio \in Seq(Utterances)
    BY UtteranceAssumption DEF PP!IInv, PP!TypeOK, PP!Engines, PP!Audio
  <1> QED
    BY <1>1 DEF Spoken

LEMMA Hears ==
    ASSUME PP!IInv, NEW u \in Utterances, NEW ts \in Nat,
           Processor!OnSpeechChunk(<<u>>, ts)
    PROVE  Handled /\ NoVerdict /\ (Speaking' <=> Speaking) /\ Spoken' \subseteq Spoken \cup {u}
  <1>1. PP!OnSpeechChunk(<<u>>, ts) /\ <<u>> \in Chunks \cup {BadPcm}
    BY SameChunk, UtteranceAssumption
  <1>2. /\ PP!IInv' /\ PP!Thrifty /\ PP!NoVerdict /\ PP!ModelIsTold
        /\ (PP!IsSpeaking' <=> PP!IsSpeaking)
        /\ engine'.audio = engine.audio \/ engine'.audio = engine.audio \o <<u>>
    BY <1>1, SameAssumptions, PP!ChunkEffect, PP!ChunkIsThrifty, Zenon
  <1>3. Spoken' \subseteq Spoken \cup {u}
    <2>1. CASE engine'.audio = engine.audio
      BY <2>1 DEF Spoken
    <2>2. CASE engine'.audio = engine.audio \o <<u>>
      BY <2>2, AudioType DEF Spoken
    <2> QED
      BY <1>2, <2>1, <2>2
  <1>4. Speaking' <=> Speaking
    BY <1>2, SameSpeaking DEF Speaking, Processor!IsSpeaking, PP!IsSpeaking
  <1> QED
    BY <1>2, <1>3, <1>4, HandledFrom, NoVerdictFrom

LEMMA Ends ==
    ASSUME PP!IInv, NEW duration_ms \in Nat, NEW t \in Utterances,
           Processor!OnSpeechEnd(duration_ms, t)
    PROVE  /\ Handled /\ ~Speaking' /\ Spoken' = {}
           /\ \A i \in DOMAIN emits' :
                 IsVerdict(emits'[i]) =>
                     /\ i = 1 /\ Speaking
                     /\ emits'[i].turn_id = t
                     /\ \A k \in DOMAIN emits'[i].text.of : emits'[i].text.of[k] \in Spoken
                     /\ emits'[i].topic = "final" => emits'[i].model = engine.model
  <1>1. PP!OnSpeechEnd(duration_ms, t) /\ t \in PP!OptionalTurn
    BY SameEnd, UtteranceAssumption DEF PP!OptionalTurn
  <1>2. /\ PP!IInv' /\ PP!Thrifty /\ PP!VerdictOn(t) /\ PP!ModelIsTold
        /\ ~PP!IsSpeaking' /\ engine'.audio = <<>>
    BY <1>1, SameAssumptions, PP!EndEffect, PP!EndIsThrifty, Zenon
  <1>3. Spoken' = {}
    BY <1>2 DEF Spoken
  <1>4. ~Speaking'
    BY <1>2 DEF Speaking, Processor!IsSpeaking, PP!IsSpeaking
  <1>5. ASSUME NEW i \in DOMAIN emits', IsVerdict(emits'[i])
        PROVE  /\ i = 1 /\ Speaking
               /\ emits'[i].turn_id = t
               /\ \A k \in DOMAIN emits'[i].text.of : emits'[i].text.of[k] \in Spoken
               /\ emits'[i].topic = "final" => emits'[i].model = engine.model
    <2>1. /\ i = 1 /\ Speaking /\ emits'[i].turn_id = t
          /\ emits'[i].text.of \in {<<>>, engine.audio}
          /\ emits'[i].topic = "final" => emits'[i].model = engine.model
      BY <1>2, <1>5, SameEvents, SameSpeaking DEF PP!VerdictOn
    <2> QED
      BY <2>1 DEF Spoken
  <1> QED
    BY <1>2, <1>3, <1>4, <1>5, HandledFrom

LEMMA Reloads ==
    ASSUME PP!IInv, NEW name \in Models \cup {UnknownModel},
           Processor!OnReloadModel(name)
    PROVE  Handled /\ NoVerdict /\ (Speaking' <=> Speaking) /\ Spoken' = Spoken
  <1>1. PP!OnReloadModel(name)
    BY SameReload
  <1>2. /\ PP!IInv' /\ PP!Thrifty /\ PP!NoVerdict /\ PP!ModelIsTold
        /\ (PP!IsSpeaking' <=> PP!IsSpeaking) /\ engine'.audio = engine.audio
    BY <1>1, SameAssumptions, PP!ReloadEffect, PP!ReloadIsThrifty, Zenon
  <1>3. Spoken' = Spoken
    BY <1>2 DEF Spoken
  <1>4. Speaking' <=> Speaking
    BY <1>2, SameSpeaking DEF Speaking, Processor!IsSpeaking, PP!IsSpeaking
  <1> QED
    BY <1>2, <1>3, <1>4, HandledFrom, NoVerdictFrom

(* The steps that leave the processor to itself, or to a panic.             *)
Untouched ==
    /\ UNCHANGED <<state, pending_reload>>
    /\ engine' = engine \/ engine' = Processor!Reset(engine)

ClosedByPanic ==
    /\ state' = Processor!Idle /\ pending_reload' = None
    /\ engine' = Processor!Reset(engine)

LEMMA Kept ==
    ASSUME PP!IInv, UNCHANGED partials, emits' \in Seq(Emit), Untouched \/ ClosedByPanic
    PROVE  /\ PP!IInv' /\ (Speaking' => Speaking) /\ engine'.model = engine.model
           /\ Spoken' = Spoken \/ Spoken' = {}
  <1>1. emits' \in Seq(PP!Emit) /\ Processor!Reset(engine) = PP!Reset(engine)
    BY SameEvents DEF Processor!Reset, PP!Reset
  <1>2. /\ PP!IInv' /\ (PP!IsSpeaking' => PP!IsSpeaking) /\ engine'.model = engine.model
        /\ engine'.audio = engine.audio \/ engine'.audio = <<>>
    <2>1. CASE Untouched
      BY <1>1, <2>1, SameAssumptions, PP!CallerKeepsIInv, Zenon DEF Untouched
    <2>2. CASE ClosedByPanic
      <3>1. state' = PP!Idle
        BY <2>2 DEF ClosedByPanic, Processor!Idle, PP!Idle
      <3> QED
        BY <1>1, <2>2, <3>1, SameAssumptions, PP!UnwoundReloadKeepsIInv, Zenon
        DEF ClosedByPanic
    <2> QED
      BY <2>1, <2>2
  <1>3. Spoken' = Spoken \/ Spoken' = {}
    BY <1>2 DEF Spoken
  <1> QED
    BY <1>2, <1>3 DEF Speaking, Processor!IsSpeaking, PP!IsSpeaking

LEMMA ParkedNat == PP!Parked \in Nat
  BY DEF PP!Parked
----------------------------------------------------------------------------
(* Lines and their order.                                                   *)

LEMMA Ranks ==
    /\ \A u \in Utterances :
          /\ Rank(Start(u)) = 3 * u /\ Rank(Chunk(u)) = 3 * u + 1 /\ Rank(End(u)) = 3 * u + 2
          /\ Start(u) \in Timed /\ Chunk(u) \in Timed /\ End(u) \in Timed
          /\ Start(u) \in Marks /\ End(u) \in Marks /\ Chunk(u) \notin Marks
    /\ \A mark \in Marks : \E u \in Utterances : mark = Start(u) \/ mark = End(u)
    /\ \A line \in Timed :
          \E u \in Utterances : line = Start(u) \/ line = Chunk(u) \/ line = End(u)
  BY DEF Rank, Start, Chunk, End, Timed, Marks

LEMMA UtterancesAreNat == \A u \in Utterances : u \in Nat /\ u >= 1
  BY UtteranceAssumption DEF Utterances

LEMMA RankNat == \A line \in Timed : Rank(line) \in Nat
  BY Ranks, UtterancesAreNat

LEMMA MarksTimed == Marks \subseteq Timed
  BY DEF Marks, Timed

LEMMA RankInjective ==
    ASSUME NEW m \in Marks, NEW n \in Marks, Rank(m) = Rank(n)
    PROVE  m = n
  <1>1. PICK u \in Utterances : m = Start(u) \/ m = End(u)
    BY Ranks
  <1>2. PICK v \in Utterances : n = Start(v) \/ n = End(v)
    BY Ranks
  <1>3. u \in Nat /\ v \in Nat
    BY UtterancesAreNat
  <1>4. /\ (Rank(m) = 3 * u /\ m = Start(u)) \/ (Rank(m) = 3 * u + 2 /\ m = End(u))
        /\ (Rank(n) = 3 * v /\ n = Start(v)) \/ (Rank(n) = 3 * v + 2 /\ n = End(v))
    BY <1>1, <1>2, Ranks
  <1>5. u = v /\ ((m = Start(u) /\ n = Start(v)) \/ (m = End(u) /\ n = End(v)))
    BY <1>3, <1>4
  <1> QED
    BY <1>5

LEMMA Untimed ==
    /\ Malformed \notin Timed /\ Unknown \notin Timed /\ NoEvent \notin Timed
    /\ \A name : ReloadRequest(name) \notin Timed
  BY DEF Timed, Start, Chunk, End, Malformed, Unknown, NoEvent, ReloadRequest

LEMMA LinesAre ==
    /\ Timed \subseteq Lines /\ {Malformed, Unknown, NoEvent} \subseteq Lines
    /\ \A name \in Models \cup {UnknownModel} : ReloadRequest(name) \in Lines
  BY DEF Lines, Timed

LEMMA LimitNat ==
    ASSUME Typed
    PROVE  Limit \in Nat
  BY UtterancesAreNat DEF Typed, Limit

(* The connection: a line comes in at the end, and goes out at the head.    *)
LEMMA Appended ==
    ASSUME inbox \in Seq(Lines), NEW x \in Lines, inbox' = Append(inbox, x)
    PROVE  /\ inbox' \in Seq(Lines) /\ DOMAIN inbox' = 1 .. Len(inbox) + 1
           /\ DOMAIN inbox = 1 .. Len(inbox) /\ Len(inbox) \in Nat
           /\ inbox'[Len(inbox) + 1] = x
           /\ \A i \in 1 .. Len(inbox) : inbox'[i] = inbox[i]
           /\ \A line : Waits(line)' <=> (Waits(line) \/ line = x)
  <1>1. /\ inbox' \in Seq(Lines) /\ DOMAIN inbox' = 1 .. Len(inbox) + 1
        /\ DOMAIN inbox = 1 .. Len(inbox) /\ Len(inbox) \in Nat
        /\ inbox'[Len(inbox) + 1] = x
        /\ \A i \in 1 .. Len(inbox) : inbox'[i] = inbox[i]
    OBVIOUS
  <1>2. ASSUME NEW line PROVE Waits(line)' <=> (Waits(line) \/ line = x)
    BY <1>1 DEF Waits
  <1> QED
    BY <1>1, <1>2

LEMMA Taken ==
    ASSUME inbox \in Seq(Lines), inbox # <<>>, inbox' = Tail(inbox)
    PROVE  /\ inbox' \in Seq(Lines) /\ DOMAIN inbox' = 1 .. Len(inbox) - 1
           /\ DOMAIN inbox = 1 .. Len(inbox) /\ Len(inbox) \in Nat \ {0}
           /\ Head(inbox) = inbox[1] /\ Head(inbox) \in Lines
           /\ \A i \in 1 .. Len(inbox) - 1 : inbox'[i] = inbox[i + 1]
           /\ \A line : Waits(line) <=> (Waits(line)' \/ line = Head(inbox))
  <1>1. /\ inbox' \in Seq(Lines) /\ DOMAIN inbox' = 1 .. Len(inbox) - 1
        /\ DOMAIN inbox = 1 .. Len(inbox) /\ Len(inbox) \in Nat \ {0}
        /\ Head(inbox) = inbox[1] /\ Head(inbox) \in Lines
        /\ \A i \in 1 .. Len(inbox) - 1 : inbox'[i] = inbox[i + 1]
    OBVIOUS
  <1>2. ASSUME NEW line PROVE Waits(line) <=> (Waits(line)' \/ line = Head(inbox))
    <2>1. ASSUME NEW i \in DOMAIN inbox, inbox[i] = line, line # Head(inbox)
          PROVE  Waits(line)'
      <3>1. i - 1 \in DOMAIN inbox' /\ inbox'[i - 1] = line
        BY <1>1, <2>1
      <3> QED
        BY <3>1 DEF Waits
    <2>2. ASSUME NEW i \in DOMAIN inbox', inbox'[i] = line
          PROVE  Waits(line)
      <3>1. i + 1 \in DOMAIN inbox /\ inbox[i + 1] = line
        BY <1>1, <2>2
      <3> QED
        BY <3>1 DEF Waits
    <2>3. Waits(Head(inbox))
      BY <1>1 DEF Waits
    <2> QED
      BY <2>1, <2>2, <2>3 DEF Waits
  <1> QED
    BY <1>1, <1>2
----------------------------------------------------------------------------
(* The lines that wait, step by step.                                       *)

LEMMA SortedAppend ==
    ASSUME Typed, Sorted, NEW x \in Lines, inbox' = Append(inbox, x),
           x \in Timed => \A line \in Timed : Waits(line) => Rank(line) <= Rank(x)
    PROVE  Sorted'
  <1> USE DEF Typed
  <1>1. /\ DOMAIN inbox' = 1 .. Len(inbox) + 1
        /\ DOMAIN inbox = 1 .. Len(inbox) /\ Len(inbox) \in Nat
        /\ inbox'[Len(inbox) + 1] = x
        /\ \A i \in 1 .. Len(inbox) : inbox'[i] = inbox[i]
    BY Appended
  <1>2. ASSUME NEW i \in DOMAIN inbox', NEW j \in DOMAIN inbox', i < j,
               inbox'[i] \in Timed, inbox'[j] \in Timed
        PROVE  Rank(inbox'[i]) <= Rank(inbox'[j])
    <2>1. i \in DOMAIN inbox /\ inbox'[i] = inbox[i]
      BY <1>1, <1>2
    <2>2. CASE j = Len(inbox) + 1
      <3>1. inbox'[j] = x /\ Waits(inbox[i])
        BY <1>1, <2>1, <2>2 DEF Waits
      <3> QED
        BY <1>2, <2>1, <3>1
    <2>3. CASE j # Len(inbox) + 1
      <3>1. j \in DOMAIN inbox /\ inbox'[j] = inbox[j]
        BY <1>1, <2>3
      <3> QED
        BY <1>2, <2>1, <3>1 DEF Sorted
    <2> QED
      BY <2>2, <2>3
  <1> QED
    BY <1>2 DEF Sorted

LEMMA SortedTail ==
    ASSUME Typed, Sorted, inbox # <<>>, inbox' = Tail(inbox)
    PROVE  /\ Sorted'
           /\ Head(inbox) \in Timed =>
                 \A line \in Timed : Waits(line)' => Rank(line) >= Rank(Head(inbox))
  <1> USE DEF Typed
  <1>1. /\ DOMAIN inbox' = 1 .. Len(inbox) - 1
        /\ DOMAIN inbox = 1 .. Len(inbox) /\ Len(inbox) \in Nat \ {0}
        /\ Head(inbox) = inbox[1]
        /\ \A i \in 1 .. Len(inbox) - 1 : inbox'[i] = inbox[i + 1]
    BY Taken
  <1>2. ASSUME NEW i \in DOMAIN inbox', NEW j \in DOMAIN inbox', i < j,
               inbox'[i] \in Timed, inbox'[j] \in Timed
        PROVE  Rank(inbox'[i]) <= Rank(inbox'[j])
    <2>1. /\ i + 1 \in DOMAIN inbox /\ inbox'[i] = inbox[i + 1]
          /\ j + 1 \in DOMAIN inbox /\ inbox'[j] = inbox[j + 1] /\ i + 1 < j + 1
      BY <1>1, <1>2
    <2> QED
      BY <1>2, <2>1 DEF Sorted
  <1>3. ASSUME NEW i \in DOMAIN inbox', inbox'[i] \in Timed, Head(inbox) \in Timed
        PROVE  Rank(Head(inbox)) <= Rank(inbox'[i])
    <2>1. /\ i + 1 \in DOMAIN inbox /\ inbox'[i] = inbox[i + 1]
          /\ 1 \in DOMAIN inbox /\ 1 < i + 1
      BY <1>1, <1>3
    <2> QED
      BY <1>1, <1>3, <2>1 DEF Sorted
  <1>4. ASSUME Head(inbox) \in Timed, NEW line \in Timed, Waits(line)'
        PROVE  Rank(line) >= Rank(Head(inbox))
    BY <1>3, <1>4, RankNat DEF Waits
  <1> QED
    BY <1>2, <1>4 DEF Sorted

(* Nothing of wm-audio's comes or goes.                                     *)
LEMMA QueueSame ==
    ASSUME Typed, Queue, Sorted', UNCHANGED mic, lost \subseteq lost',
           \A line \in Timed : Waits(line)' <=> Waits(line),
           job' = job \/ job' = None,
           Spoken' = {} \/ (Spoken' = Spoken /\ job' = job)
    PROVE  Queue'
  <1> USE MarksTimed DEF Queue
  <1>1. Limit' = Limit
    BY DEF Limit
  <1>2. InOrder'
    BY <1>1 DEF InOrder
  <1>3. \A mark \in Marks : Accounted(mark) => Accounted(mark)'
    BY DEF Accounted
  <1>4. NoGap'
    BY <1>1, <1>3 DEF NoGap
  <1>5. AudioIsRecent'
    BY <1>1, <1>3 DEF AudioIsRecent
  <1> QED
    BY <1>2, <1>4, <1>5

(* wm-audio sends a line: it arrives or is lost.                            *)
LEMMA QueueSent ==
    ASSUME Typed, Queue, Typed', UNCHANGED job, NEW x \in Timed,
           Spoken' = Spoken, Spoken \subseteq Utterances,
           Limit <= Rank(x), Rank(x) <= Limit',
           \A mark \in Marks : Limit < Rank(mark) /\ Rank(mark) <= Limit' => mark = x,
           \/ inbox' = Append(inbox, x) /\ lost' = lost
           \/ inbox' = inbox /\ lost' = lost \cup {x}
    PROVE  Queue'
  <1> USE MarksTimed DEF Queue
  <1>1. x \in Lines /\ Limit \in Nat /\ Limit' \in Nat /\ Rank(x) \in Nat
        /\ \A line \in Timed : Rank(line) \in Nat
    <2>1. Limit' \in Nat
      BY UtterancesAreNat DEF Typed, Limit
    <2> QED
      BY <2>1, LimitNat, LinesAre, RankNat
  <1>2. /\ \A line \in Timed : Waits(line)' => Waits(line) \/ line = x
        /\ \A line \in Timed : Waits(line) => Waits(line)'
        /\ x \in lost' \/ Waits(x)'
    <2>1. CASE inbox' = Append(inbox, x)
      BY <1>1, <2>1, Appended DEF Typed
    <2>2. CASE inbox' = inbox /\ lost' = lost \cup {x}
      BY <2>2 DEF Waits
    <2> QED
      BY <2>1, <2>2
  <1>3. \A mark \in Marks : Accounted(mark) => Accounted(mark)'
    BY <1>2 DEF Accounted
  <1>4. \A line \in Timed : Waits(line) => Rank(line) <= Limit
    BY DEF InOrder
  <1>5. Sorted'
    <2>1. CASE inbox' = Append(inbox, x)
      <3>1. \A line \in Timed : Waits(line) => Rank(line) <= Rank(x)
        BY <1>1, <1>4
      <3> QED
        BY <1>1, <2>1, <3>1, SortedAppend
    <2>2. CASE inbox' = inbox
      BY <2>2 DEF Sorted
    <2> QED
      BY <2>1, <2>2
  <1>6. InOrder'
    <2>1. \A line \in Timed : Waits(line)' => Rank(line) <= Limit'
      BY <1>1, <1>2, <1>4
    <2>2. ASSUME job # None
          PROVE  /\ Rank(End(job)) <= Limit'
                 /\ \A line \in Timed : Waits(line)' => Rank(line) >= Rank(End(job))
      <3>1. Rank(End(job)) \in Nat /\ Rank(End(job)) <= Limit
        BY <2>2, Ranks, RankNat DEF InOrder, Typed
      <3>2. \A line \in Timed : Waits(line) => Rank(line) >= Rank(End(job))
        BY <2>2 DEF InOrder
      <3> QED
        BY <1>1, <1>2, <3>1, <3>2
    <2> QED
      BY <2>1, <2>2 DEF InOrder
  <1>7. \A mark \in Marks :
          Rank(mark) <= Limit' => Rank(mark) <= Limit \/ (mark = x /\ Accounted(mark)')
    BY <1>1, <1>2 DEF Accounted
  <1>8. NoGap'
    <2>1. ASSUME NEW line \in Timed, NEW mark \in Marks, Waits(line)',
                 Rank(line) < Rank(mark), Rank(mark) <= Limit'
          PROVE  Accounted(mark)'
      <3>1. CASE Rank(mark) <= Limit
        <4>1. line # x
          BY <1>1, <2>1, <3>1
        <4> QED
          BY <1>2, <1>3, <2>1, <3>1, <4>1 DEF NoGap
      <3> QED
        BY <1>7, <2>1, <3>1
    <2> QED
      BY <2>1 DEF NoGap
  <1>9. AudioIsRecent'
    <2>1. ASSUME NEW s \in Spoken
          PROVE  /\ Rank(Chunk(s)) <= Limit'
                 /\ \A line \in Timed : Waits(line)' => Rank(line) >= Rank(Chunk(s))
                 /\ job # None => s <= job
                 /\ \A mark \in Marks :
                       Rank(Chunk(s)) < Rank(mark) /\ Rank(mark) <= Limit' =>
                           Accounted(mark)' \/ (job # None /\ mark = End(job))
      <3>1. Rank(Chunk(s)) <= Limit /\ (job # None => s <= job)
        BY DEF AudioIsRecent
      <3>2. Rank(Chunk(s)) \in Nat
        BY Ranks, RankNat
      <3>3. \A line \in Timed : Waits(line)' => Rank(line) >= Rank(Chunk(s))
        BY <1>1, <1>2, <3>1, <3>2 DEF AudioIsRecent
      <3>4. ASSUME NEW mark \in Marks, Rank(Chunk(s)) < Rank(mark), Rank(mark) <= Limit'
            PROVE  Accounted(mark)' \/ (job # None /\ mark = End(job))
        BY <1>3, <1>7, <3>4 DEF AudioIsRecent
      <3> QED
        BY <1>1, <3>1, <3>2, <3>3, <3>4
    <2> QED
      BY <2>1 DEF AudioIsRecent
  <1> QED
    BY <1>5, <1>6, <1>8, <1>9

(* The loop takes the line at the head.                                     *)
LEMMA QueueRead ==
    ASSUME Typed, Queue, inbox # <<>>, inbox' = Tail(inbox), UNCHANGED <<mic, lost>>,
           Spoken \subseteq Utterances, job = None,
           job' = None \/ (job' \in Utterances /\ Head(inbox) = End(job')),
           \A s \in Spoken' : s \in Spoken \/ (s \in Utterances /\ Head(inbox) = Chunk(s)),
           Head(inbox) \in Marks => Spoken' = {} \/ (job' # None /\ Head(inbox) = End(job'))
    PROVE  Queue'
  <1> DEFINE h == Head(inbox)
  <1> USE MarksTimed DEF Queue
  <1>1. \A line \in Timed : Rank(line) \in Nat
    BY RankNat
  <1>2. \A line : Waits(line) <=> (Waits(line)' \/ line = h)
    BY Taken DEF Typed
  <1>3. /\ Sorted'
        /\ h \in Timed => \A line \in Timed : Waits(line)' => Rank(line) >= Rank(h)
    BY SortedTail
  <1>4. Limit' = Limit /\ Limit \in Nat
    BY LimitNat DEF Limit
  <1>5. job' # None => h \in Timed /\ h = End(job')
    BY Ranks
  <1> HIDE DEF h
  <1>6. InOrder'
    BY <1>2, <1>3, <1>4, <1>5 DEF InOrder
  <1>7. \A mark \in Marks : Accounted(mark) => Accounted(mark)' \/ mark = h
    BY <1>2 DEF Accounted
  <1>8. NoGap'
    <2>1. ASSUME NEW line \in Timed, NEW mark \in Marks, Waits(line)',
                 Rank(line) < Rank(mark), Rank(mark) <= Limit
          PROVE  Accounted(mark)'
      <3>1. Accounted(mark)
        BY <1>2, <2>1 DEF NoGap
      <3>2. mark # h
        BY <1>1, <1>3, <2>1
      <3> QED
        BY <1>7, <3>1, <3>2
    <2> QED
      BY <1>4, <2>1 DEF NoGap
  <1>9. AudioIsRecent'
    <2>1. ASSUME NEW s \in Spoken'
          PROVE  /\ Rank(Chunk(s)) <= Limit
                 /\ \A line \in Timed : Waits(line)' => Rank(line) >= Rank(Chunk(s))
                 /\ job' # None => s <= job'
                 /\ \A mark \in Marks :
                       Rank(Chunk(s)) < Rank(mark) /\ Rank(mark) <= Limit =>
                           Accounted(mark)' \/ (job' # None /\ mark = End(job'))
      <3>1. CASE s \in Spoken
        <4>1. /\ Rank(Chunk(s)) <= Limit
              /\ \A line \in Timed : Waits(line) => Rank(line) >= Rank(Chunk(s))
              /\ \A mark \in Marks :
                    Rank(Chunk(s)) < Rank(mark) /\ Rank(mark) <= Limit => Accounted(mark)
          BY <3>1 DEF AudioIsRecent
        <4>2. job' # None => s <= job'
          <5>1. ASSUME job' # None PROVE s <= job'
            <6>1. /\ h = End(job') /\ h \in Timed /\ job' \in Utterances /\ s \in Utterances
                  /\ Waits(h)
              BY <1>2, <1>5, <3>1, <5>1
            <6>2. 3 * job' + 2 >= 3 * s + 1
              BY <4>1, <6>1, Ranks
            <6> QED
              BY <6>1, <6>2, UtterancesAreNat
          <5> QED
            BY <5>1
        <4>3. \A mark \in Marks : mark = h => job' # None /\ h = End(job')
          BY <3>1, <2>1 DEF h
        <4> QED
          BY <1>2, <1>7, <4>1, <4>2, <4>3
      <3>2. CASE s \notin Spoken
        <4>1. s \in Utterances /\ h = Chunk(s) /\ h \in Timed /\ h \notin Marks /\ Waits(h)
          BY <1>2, <2>1, <3>2, Ranks DEF h
        <4>2. job' = None
          <5>1. ASSUME job' # None PROVE FALSE
            <6>1. job' \in Utterances /\ 3 * job' + 2 = 3 * s + 1
              BY <1>5, <4>1, <5>1, Ranks
            <6> QED
              BY <4>1, <6>1, UtterancesAreNat
          <5> QED
            BY <5>1
        <4>3. Rank(h) <= Limit
          BY <4>1 DEF InOrder
        <4>4. \A mark \in Marks :
                Rank(h) < Rank(mark) /\ Rank(mark) <= Limit => Accounted(mark)'
          BY <1>7, <4>1 DEF NoGap
        <4> QED
          BY <1>3, <4>1, <4>2, <4>3, <4>4
      <3> QED
        BY <3>1, <3>2
    <2> QED
      BY <1>4, <2>1 DEF AudioIsRecent
  <1> QED
    BY <1>3, <1>6, <1>8, <1>9
----------------------------------------------------------------------------
(* The events, step by step.                                                *)

LEMMA CleanGrows ==
    ASSUME lost \subseteq lost', NEW event, Clean(event)
    PROVE  Clean(event)'
  BY DEF Clean

(* Events move from emits to the bus, or are dropped; a report is added.    *)
LEMMA EventsMove ==
    ASSUME Typed, CleanEvents, Once, UNCHANGED lost,
           NEW event, (emits # <<>> /\ event = Head(emits)) \/ ~IsVerdict(event),
           \/ published' = published /\ emits' = emits
           \/ /\ published' = published \/ published' = Append(published, event)
              /\ emits' = <<>> \/ (emits # <<>> /\ emits' = Tail(emits))
    PROVE  /\ CleanEvents' /\ Once' /\ \A t \in Utterances : Judged(t)' => Judged(t)
  <1> USE DEF Typed
  <1> DEFINE n == Len(published)
  <1>1. /\ n \in Nat /\ DOMAIN published = 1 .. n
        /\ Len(emits) \in Nat /\ DOMAIN emits = 1 .. Len(emits)
        /\ emits # <<>> => 1 \in DOMAIN emits /\ Head(emits) = emits[1]
    OBVIOUS
  <1>2. /\ \A i \in DOMAIN published' :
              \/ i \in DOMAIN published /\ published'[i] = published[i]
              \/ i = n + 1 /\ published'[i] = event /\ (emits' = <<>> \/ (emits # <<>> /\ emits' = Tail(emits)))
        /\ \A i \in DOMAIN emits' :
              \/ published' = published /\ i \in DOMAIN emits /\ emits'[i] = emits[i]
              \/ i + 1 \in DOMAIN emits /\ emits'[i] = emits[i + 1] /\ i \in Nat \ {0}
    <2>1. \A i \in DOMAIN Append(published, event) :
             \/ i \in DOMAIN published /\ Append(published, event)[i] = published[i]
             \/ i = n + 1 /\ Append(published, event)[i] = event
      OBVIOUS
    <2>2. emits # <<>> =>
             \A i \in DOMAIN Tail(emits) :
                i + 1 \in DOMAIN emits /\ Tail(emits)[i] = emits[i + 1] /\ i \in Nat \ {0}
      OBVIOUS
    <2>3. DOMAIN <<>> = {}
      OBVIOUS
    <2> HIDE DEF n
    <2>4. CASE published' = published /\ emits' = emits
      BY <2>4
    <2>5. CASE emits' = <<>> \/ (emits # <<>> /\ emits' = Tail(emits))
      <3>1. \A i \in DOMAIN emits' : i + 1 \in DOMAIN emits /\ emits'[i] = emits[i + 1] /\ i \in Nat \ {0}
        BY <2>2, <2>3, <2>5
      <3>2. CASE published' = published
        BY <2>5, <3>1, <3>2
      <3>3. CASE published' = Append(published, event)
        BY <2>1, <2>5, <3>1, <3>3
      <3> QED
        BY <2>5, <3>2, <3>3
    <2> QED
      BY <2>4, <2>5
  <1> HIDE DEF n
  <1>3. \A i \in DOMAIN emits : IsVerdict(emits[i]) => i = 1
    BY DEF Once
  <1>4. IsVerdict(event) => 1 \in DOMAIN emits /\ event = emits[1]
    BY <1>1
  <1>5. \A i \in DOMAIN emits' :
           IsVerdict(emits'[i]) => published' = published /\ i \in DOMAIN emits /\ emits'[i] = emits[i]
    BY <1>1, <1>2, <1>3
  <1>6. \A i \in DOMAIN published' :
           IsVerdict(published'[i]) =>
              \/ i \in DOMAIN published /\ published'[i] = published[i]
              \/ i = n + 1 /\ 1 \in DOMAIN emits /\ published'[i] = emits[1]
    BY <1>2, <1>4
  <1>7. CleanEvents'
    <2>1. \A e : Clean(e)' <=> Clean(e)
      BY DEF Clean
    <2>2. \A e : ~IsVerdict(e) => Clean(e)
      BY DEF Clean, On
    <2> QED
      BY <1>5, <1>6, <2>1, <2>2 DEF CleanEvents
  <1>8. Once'
    <2>1. ASSUME NEW t \in Utterances, NEW i \in DOMAIN published', NEW j \in DOMAIN published',
                 On(published'[i], t), On(published'[j], t)
          PROVE  i = j
      BY <1>1, <1>6, <2>1 DEF Once, On
    <2>2. ASSUME NEW t \in Utterances, NEW i \in DOMAIN published', NEW j \in DOMAIN emits',
                 On(published'[i], t), On(emits'[j], t)
          PROVE  FALSE
      <3>1. published' = published /\ j \in DOMAIN emits /\ emits'[j] = emits[j]
        BY <1>5, <2>2 DEF On
      <3> QED
        BY <2>2, <3>1 DEF Once
    <2>3. \A i \in DOMAIN emits' : IsVerdict(emits'[i]) => i = 1
      BY <1>3, <1>5
    <2>4. \A e, t : On(e, t)' <=> On(e, t)
      BY DEF On, IsVerdict
    <2> QED
      BY <2>1, <2>2, <2>3, <2>4 DEF Once, On
  <1>9. ASSUME NEW t \in Utterances, Judged(t)'
        PROVE  Judged(t)
    BY <1>1, <1>5, <1>6, <1>9 DEF Judged, On
  <1> QED
    BY <1>7, <1>8, <1>9

(* A handler returns no verdict.                                            *)
LEMMA EventsQuiet ==
    ASSUME Typed, CleanEvents, Once, UNCHANGED <<lost, published>>, NoVerdict
    PROVE  CleanEvents' /\ Once' /\ \A t \in Utterances : Judged(t)' => Judged(t)
  <1>1. \A e : Clean(e)' <=> Clean(e)
    BY DEF Clean
  <1>2. \A i \in DOMAIN emits' : Clean(emits'[i])
    BY DEF NoVerdict, Clean, On
  <1>3. CleanEvents'
    BY <1>1, <1>2 DEF CleanEvents
  <1>4. Once'
    BY DEF Once, NoVerdict, On
  <1>5. \A t \in Utterances : Judged(t)' => Judged(t)
    BY DEF Judged, NoVerdict, On
  <1> QED
    BY <1>3, <1>4, <1>5

(* The lines that wait are fewer, or new and late.                          *)
LEMMA SettledKept ==
    ASSUME Typed, Settled, \A t \in Utterances : Judged(t)' => Judged(t),
           Limit' \in Nat, Limit <= Limit',
           \A line \in Timed :
              Waits(line)' =>
                 Waits(line) \/ (Rank(line) >= Limit /\ (line \in Marks => Rank(line) > Limit)),
           Speaking' => Speaking, job' = job \/ job' = None
    PROVE  Settled'
  <1>1. Limit \in Nat /\ \A line \in Timed : Rank(line) \in Nat
    BY LimitNat, RankNat
  <1>2. ASSUME NEW t \in Utterances, Judged(t)'
        PROVE  /\ Rank(End(t)) <= Limit'
               /\ \A line \in Timed : Waits(line)' => Rank(line) >= Rank(End(t))
               /\ Speaking' => ~Waits(End(t))' /\ job' # t
    <2>1. End(t) \in Timed /\ End(t) \in Marks
      BY Ranks
    <2>2. /\ Rank(End(t)) <= Limit
          /\ \A line \in Timed : Waits(line) => Rank(line) >= Rank(End(t))
          /\ Speaking => ~Waits(End(t)) /\ job # t
      BY <1>2 DEF Settled
    <2>3. t # None
      BY UtteranceAssumption, NoneAssumption
    <2> QED
      BY <1>1, <2>1, <2>2, <2>3
  <1> QED
    BY <1>2 DEF Settled

(* A speech.start is read: what was judged lies behind it.                  *)
LEMMA SettledStart ==
    ASSUME Typed, Queue, Settled, \A t \in Utterances : Judged(t)' => Judged(t),
           NEW u \in Utterances, inbox # <<>>, Head(inbox) = Start(u), inbox' = Tail(inbox),
           UNCHANGED <<mic, job>>, job = None
    PROVE  Settled'
  <1>1. \A line : Waits(line) <=> (Waits(line)' \/ line = Start(u))
    BY Taken DEF Typed
  <1>2. \A line \in Timed : Waits(line)' => Rank(line) >= Rank(Start(u))
    BY SortedTail, Ranks DEF Queue
  <1>3. Limit' = Limit
    BY DEF Limit
  <1>4. ASSUME NEW t \in Utterances, Judged(t)'
        PROVE  /\ Rank(End(t)) <= Limit'
               /\ \A line \in Timed : Waits(line)' => Rank(line) >= Rank(End(t))
               /\ Speaking' => ~Waits(End(t))' /\ job' # t
    <2>1. /\ Rank(End(t)) <= Limit
          /\ \A line \in Timed : Waits(line) => Rank(line) >= Rank(End(t))
      BY <1>4 DEF Settled
    <2>2. /\ Rank(Start(u)) = 3 * u /\ Rank(End(t)) = 3 * t + 2
          /\ Start(u) \in Timed /\ End(t) \in Timed
      BY Ranks
    <2>3. u \in Nat /\ t \in Nat /\ t # None
      BY UtterancesAreNat, UtteranceAssumption, NoneAssumption
    <2>4. 3 * u >= 3 * t + 2
      BY <1>1, <2>1, <2>2
    <2>5. ~(3 * t + 2 >= 3 * u)
      BY <2>3, <2>4
    <2>6. ~Waits(End(t))'
      BY <1>2, <2>2, <2>5
    <2> QED
      BY <1>1, <1>3, <2>1, <2>3, <2>6
  <1> QED
    BY <1>4 DEF Settled

(* A speech.end is read: if the processor is listening it is not the end of *)
(* a turn that has its verdict.                                             *)
LEMMA SettledEnd ==
    ASSUME Typed, Settled, \A t \in Utterances : Judged(t)' => Judged(t),
           NEW u \in Utterances, inbox # <<>>, Head(inbox) = End(u), inbox' = Tail(inbox),
           UNCHANGED mic, job' = u, Speaking' <=> Speaking
    PROVE  Settled'
  <1>1. \A line : Waits(line) <=> (Waits(line)' \/ line = End(u))
    BY Taken DEF Typed
  <1>2. Limit' = Limit
    BY DEF Limit
  <1> QED
    BY <1>1, <1>2 DEF Settled

(* The pool is done: a verdict, if any, is the first of the emits, on the   *)
(* turn of the job, and of what the engine held.                            *)
LEMMA EventsJudged ==
    ASSUME Typed, Queue, CleanEvents, Once, Settled, job \in Utterances, emits = <<>>,
           Spoken \subseteq Utterances,
           UNCHANGED <<lost, inbox, mic, published>>, emits' \in Seq(Emit), job' = None,
           \A i \in DOMAIN emits' :
              IsVerdict(emits'[i]) =>
                  /\ i = 1 /\ Speaking
                  /\ emits'[i].turn_id = job
                  /\ \A k \in DOMAIN emits'[i].text.of : emits'[i].text.of[k] \in Spoken,
           ~Speaking'
    PROVE  CleanEvents' /\ Once' /\ Settled'
  <1>1. \A e : Clean(e)' <=> Clean(e)
    BY DEF Clean
  <1>2. \A e, t : On(e, t)' <=> On(e, t)
    BY DEF On, IsVerdict
  <1>3. DOMAIN emits = {}
    OBVIOUS
  <1>4. ASSUME NEW s \in Spoken
        PROVE  s <= job /\ \A k \in s .. job - 1 : {End(k), Start(k + 1)} \subseteq lost
    <2>1. /\ job # None /\ s <= job /\ s \in Utterances /\ s \in Nat /\ job \in Nat
      BY UtteranceAssumption, NoneAssumption, UtterancesAreNat DEF Queue, AudioIsRecent
    <2>2. ASSUME NEW mark \in Marks, 3 * s + 1 < Rank(mark), Rank(mark) < 3 * job + 2
          PROVE  mark \in lost
      <3>1. Rank(Chunk(s)) = 3 * s + 1 /\ Rank(End(job)) = 3 * job + 2 /\ mark \in Timed
        BY <2>1, Ranks, MarksTimed
      <3>2. /\ 3 * job + 2 <= Limit
            /\ \A line \in Timed : Waits(line) => Rank(line) >= 3 * job + 2
        BY <2>1, <3>1 DEF Queue, InOrder
      <3>3. Limit \in Nat /\ Rank(mark) \in Nat
        BY <3>1, LimitNat, RankNat
      <3>4. Rank(mark) <= Limit /\ ~Waits(mark) /\ mark # End(job)
        BY <2>1, <2>2, <3>1, <3>2, <3>3
      <3> QED
        BY <2>2, <3>1, <3>4 DEF Queue, AudioIsRecent, Accounted
    <2>3. ASSUME NEW k \in s .. job - 1
          PROVE  End(k) \in lost /\ Start(k + 1) \in lost
      <3>1. k \in Utterances /\ k + 1 \in Utterances /\ k \in Nat /\ s <= k /\ k + 1 <= job
        BY <2>1, UtteranceAssumption DEF Utterances
      <3>2. /\ Rank(End(k)) = 3 * k + 2 /\ Rank(Start(k + 1)) = 3 * (k + 1)
            /\ End(k) \in Marks /\ Start(k + 1) \in Marks
        BY <3>1, Ranks
      <3> QED
        BY <2>1, <2>2, <3>1, <3>2
    <2> QED
      BY <2>1, <2>3
  <1>5. CleanEvents'
    <2>1. ASSUME NEW i \in DOMAIN emits' PROVE Clean(emits'[i])
      BY <1>4 DEF Clean, On
    <2> QED
      BY <1>1, <2>1 DEF CleanEvents
  <1>6. \A i \in DOMAIN published : ~(On(published[i], job) /\ Speaking)
    BY DEF Settled, Judged
  <1>7. Once'
    BY <1>2, <1>6 DEF Once, On
  <1>8. ASSUME NEW t \in Utterances, Judged(t)'
        PROVE  Judged(t) \/ t = job
    BY <1>2, <1>8 DEF Judged, On
  <1>9. Limit' = Limit
    BY DEF Limit
  <1>10. /\ Rank(End(job)) <= Limit
         /\ \A line \in Timed : Waits(line) => Rank(line) >= Rank(End(job))
    BY UtteranceAssumption, NoneAssumption DEF Queue, InOrder
  <1>11. \A line : Waits(line)' <=> Waits(line)
    BY DEF Waits
  <1>12. Settled'
    BY <1>8, <1>9, <1>10, <1>11 DEF Settled
  <1> QED
    BY <1>5, <1>7, <1>12

(* What a handler returns keeps the story of the models straight: a final   *)
(* comes first and bears the model that was in force, and a change of model *)
(* is the last thing told.                                                  *)
LEMMA ToldMore ==
    ASSUME NEW p \in Seq(Emit), NEW e \in Seq(Emit), NEW before, NEW after,
           Told(p, before),
           after # before => e # <<>> /\ e[Len(e)] = ModelLoadedEvent(after),
           \A i \in DOMAIN e : e[i].topic = "final" => i = 1 /\ e[i].model = before
    PROVE  Told(p \o e, after)
  <1> DEFINE s == p \o e
             n == Len(p)
             m == Len(e)
  <1>1. /\ n \in Nat /\ m \in Nat /\ DOMAIN s = 1 .. n + m /\ Len(s) = n + m
        /\ DOMAIN p = 1 .. n /\ DOMAIN e = 1 .. m
    OBVIOUS
  <1>2. /\ \A i \in 1 .. n : s[i] = p[i]
        /\ \A i \in 1 .. m : s[n + i] = e[i]
    OBVIOUS
  <1>3. e # <<>> => m >= 1
    OBVIOUS
  <1> HIDE DEF s, n, m
  <1>4. after # before => m >= 1 /\ s[n + m] = ModelLoadedEvent(after)
    <2>1. SUFFICES ASSUME after # before
                   PROVE  m >= 1 /\ s[n + m] = ModelLoadedEvent(after)
      OBVIOUS
    <2>2. m >= 1 /\ e[m] = ModelLoadedEvent(after)
      BY <1>3, <2>1 DEF m
    <2>3. m \in 1 .. m
      BY <1>1, <2>2
    <2> QED
      BY <1>2, <2>2, <2>3
  <1>5. ASSUME NEW i \in DOMAIN s, s[i].topic = "final"
        PROVE  (i \in 1 .. n /\ s[i] = p[i]) \/ (i = n + 1 /\ s[i].model = before)
    <2>1. CASE i <= n
      BY <1>1, <1>2, <2>1
    <2>2. CASE ~(i <= n)
      <3>1. i - n \in 1 .. m /\ n + (i - n) = i
        BY <1>1, <2>2
      <3>2. s[i] = e[i - n]
        BY <1>2, <3>1
      <3> QED
        BY <1>1, <1>5, <3>1, <3>2
    <2> QED
      BY <2>1, <2>2
  <1>6. ASSUME NEW i \in DOMAIN s, NEW j \in DOMAIN s, i < j,
               s[i].topic = "final", s[j].topic = "final", s[i].model # s[j].model
        PROVE  \E k \in i .. j : s[k] = ModelLoadedEvent(s[j].model)
    <2>1. i \in 1 .. n /\ s[i] = p[i]
      BY <1>1, <1>5, <1>6
    <2>2. CASE j \in 1 .. n /\ s[j] = p[j]
      <3>1. PICK k \in i .. j : p[k] = ModelLoadedEvent(p[j].model)
        BY <1>1, <1>6, <2>1, <2>2 DEF Told
      <3>2. k \in 1 .. n
        BY <1>1, <2>1, <2>2
      <3> QED
        BY <1>2, <2>2, <3>1, <3>2
    <2>3. CASE j = n + 1 /\ s[j].model = before
      <3>1. PICK k \in i .. n : p[k] = ModelLoadedEvent(before)
        BY <1>1, <1>6, <2>1, <2>3 DEF Told, n
      <3>2. k \in 1 .. n /\ k \in i .. j
        BY <1>1, <2>1, <2>3
      <3> QED
        BY <1>2, <2>3, <3>1, <3>2
    <2> QED
      BY <1>5, <1>6, <2>2, <2>3
  <1>7. ASSUME NEW i \in DOMAIN s, s[i].topic = "final", s[i].model # after
        PROVE  \E k \in i .. Len(s) : s[k] = ModelLoadedEvent(after)
    <2>1. CASE after # before
      <3>1. n + m \in i .. Len(s) /\ s[n + m] = ModelLoadedEvent(after)
        BY <1>1, <1>4, <2>1
      <3> QED
        BY <3>1
    <2>2. CASE after = before
      <3>1. i \in 1 .. n /\ s[i] = p[i]
        BY <1>5, <1>7, <2>2
      <3>2. PICK k \in i .. n : p[k] = ModelLoadedEvent(before)
        BY <1>1, <1>7, <2>2, <3>1 DEF Told, n
      <3>3. k \in 1 .. n /\ k \in i .. Len(s)
        BY <1>1, <3>1
      <3> QED
        BY <1>2, <2>2, <3>2, <3>3
    <2> QED
      BY <2>1, <2>2
  <1>8. Told(s, after)
    BY <1>6, <1>7 DEF Told
  <1> QED
    BY <1>8 DEF s

LEMMA NoMore ==
    ASSUME NEW p \in Seq(Emit)
    PROVE  p \o <<>> = p
  OBVIOUS

LEMMA AnnouncedByHandler ==
    ASSUME Typed, Announced, emits = <<>>, UNCHANGED <<published, dropped>>, Handled,
           \A i \in DOMAIN emits' :
              emits'[i].topic = "final" => i = 1 /\ emits'[i].model = engine.model
    PROVE  Announced'
  <1>1. SUFFICES ASSUME ~dropped PROVE Told(published \o emits', engine'.model)
    BY DEF Announced, Said, Told, ModelLoadedEvent
  <1>2. Told(published, engine.model)
    BY <1>1, NoMore DEF Announced, Said, Typed
  <1>3. /\ published \in Seq(Emit) /\ emits' \in Seq(Emit)
        /\ engine'.model # engine.model =>
              /\ emits' # <<>>
              /\ emits'[Len(emits')] = ModelLoadedEvent(engine'.model)
    BY DEF Typed, Handled
  <1> QED
    BY <1>2, <1>3, ToldMore

(* What is published next was already told.                                 *)
LEMMA Moved ==
    ASSUME NEW p \in Seq(Emit), NEW e \in Seq(Emit), e # <<>>
    PROVE  Append(p, Head(e)) \o Tail(e) = p \o e
  <1>1. /\ Append(p, Head(e)) \o Tail(e) \in Seq(Emit) /\ p \o e \in Seq(Emit)
        /\ Len(Append(p, Head(e)) \o Tail(e)) = Len(p \o e)
    OBVIOUS
  <1>2. ASSUME NEW i \in 1 .. Len(p \o e)
        PROVE  (Append(p, Head(e)) \o Tail(e))[i] = (p \o e)[i]
    OBVIOUS
  <1> QED
    BY <1>1, <1>2, SeqEqual

LEMMA AnnouncedByLoop ==
    ASSUME Typed, Announced, engine'.model = engine.model,
           \/ UNCHANGED <<published, emits, dropped>>
           \/ dropped' = TRUE
           \/ /\ emits # <<>> /\ emits' = Tail(emits) /\ dropped' = dropped
              /\ published' = Append(published, Head(emits))
           \/ /\ emits = <<>> /\ emits' = <<>> /\ dropped' = dropped
              /\ published' = Append(published, ErrorEvent("bus"))
    PROVE  Announced'
  <1>2. CASE UNCHANGED <<published, emits, dropped>>
    BY <1>2 DEF Announced, Said, Told, ModelLoadedEvent
  <1>3. CASE dropped' = TRUE
    BY <1>3 DEF Announced
  <1>4. CASE /\ emits # <<>> /\ emits' = Tail(emits) /\ dropped' = dropped
             /\ published' = Append(published, Head(emits))
    <2>1. published' \o emits' = published \o emits
      BY <1>4, Moved DEF Typed
    <2> DEFINE pub == published'
               left == emits'
    <2>4. dropped' = dropped
      BY <1>4
    <2> HIDE DEF pub, left
    <2>2. SUFFICES ASSUME ~dropped PROVE Told(pub \o left, engine.model)
      BY <2>4 DEF Announced, Said, Told, ModelLoadedEvent, pub, left
    <2>3. Told(published \o emits, engine.model)
      BY <2>2 DEF Announced, Said
    <2> QED
      BY <2>1, <2>3 DEF pub, left
  <1>5. CASE /\ emits = <<>> /\ emits' = <<>> /\ dropped' = dropped
             /\ published' = Append(published, ErrorEvent("bus"))
    <2>1. SUFFICES ASSUME ~dropped PROVE Told(published', engine.model)
      <3>1. published' \in Seq(Emit)
        BY <1>5 DEF Typed, Emit, ErrorEvent, ErrorKinds
      <3>2. Said' = published'
        BY <1>5, <3>1, NoMore DEF Said
      <3> QED
        BY <1>5, <3>2, <2>1 DEF Announced, Told, ModelLoadedEvent
    <2>2. Told(published, engine.model)
      BY <1>5, <2>1, NoMore DEF Announced, Said, Typed
    <2>3. <<ErrorEvent("bus")>> \in Seq(Emit)
      BY DEF Emit, ErrorEvent, ErrorKinds
    <2>4. \A i \in DOMAIN <<ErrorEvent("bus")>> : <<ErrorEvent("bus")>>[i].topic # "final"
      BY DEF ErrorEvent
    <2>5. Told(published \o <<ErrorEvent("bus")>>, engine.model)
      BY <2>2, <2>3, <2>4, ToldMore DEF Typed
    <2>6. published' = published \o <<ErrorEvent("bus")>>
      BY <1>5, <2>3 DEF Typed
    <2> QED
      BY <2>5, <2>6
  <1> QED
    BY <1>2, <1>3, <1>4, <1>5
----------------------------------------------------------------------------
(* The steps of the world: the processor and the loop stand still.          *)

LEMMA WorldRest ==
    ASSUME IInv, UNCHANGED <<processor, emits, loop, history>>, lost \subseteq lost'
    PROVE  /\ PP!IInv' /\ Control' /\ Frugal' /\ CleanEvents' /\ Once' /\ Announced'
           /\ (Speaking' <=> Speaking) /\ Spoken' = Spoken /\ Spoken \subseteq Utterances
           /\ \A t \in Utterances : Judged(t)' => Judged(t)
  <1> USE DEF IInv, processor, loop, history
  <1>1. PP!IInv' /\ (Speaking' <=> Speaking) /\ engine'.model = engine.model
    BY Kept DEF Typed, Untouched, Speaking, Processor!IsSpeaking
  <1>2. Spoken' = Spoken /\ Spoken \subseteq Utterances
    BY AudioType DEF Spoken
  <1>3. Control' /\ Frugal'
    BY DEF Control, Frugal, Due, Spare, PP!Parked
  <1>4. CleanEvents'
    BY CleanGrows DEF CleanEvents
  <1>5. Once'
    BY DEF Once, On, IsVerdict
  <1>6. Announced'
    BY <1>1, AnnouncedByLoop
  <1>7. \A t \in Utterances : Judged(t)' => Judged(t)
    BY DEF Judged, On, IsVerdict
  <1> QED
    BY <1>1, <1>2, <1>3, <1>4, <1>5, <1>6, <1>7

(* A line that is nobody's audio, or one that waits already, comes in.      *)
LEMMA Padded ==
    ASSUME IInv, UNCHANGED <<processor, emits, loop, history, mic>>, NEW x \in Lines,
           lost \subseteq lost', lost' \subseteq Lines, bus' \in {"open", "closed"},
           inbox' = inbox \/ inbox' = Append(inbox, x),
           x \in Timed =>
              Waits(x) /\ \A line \in Timed : Waits(line) => Rank(line) <= Rank(x)
    PROVE  IInv'
  <1>0. /\ PP!IInv' /\ Control' /\ Frugal' /\ CleanEvents' /\ Once' /\ Announced'
        /\ (Speaking' <=> Speaking) /\ Spoken' = Spoken /\ Spoken \subseteq Utterances
        /\ \A t \in Utterances : Judged(t)' => Judged(t)
    BY WorldRest
  <1> USE DEF IInv
  <1>1. Typed'
    BY Appended DEF Typed, loop, history
  <1>2. \A line \in Timed : Waits(line)' <=> Waits(line)
    <2>1. CASE inbox' = inbox
      BY <2>1 DEF Waits
    <2>2. CASE inbox' = Append(inbox, x)
      BY <2>2, Appended DEF Typed
    <2> QED
      BY <2>1, <2>2
  <1>3. Sorted'
    <2>1. CASE inbox' = inbox
      BY <2>1 DEF Sorted, Queue
    <2>2. CASE inbox' = Append(inbox, x)
      BY <2>2, SortedAppend DEF Queue
    <2> QED
      BY <2>1, <2>2
  <1>4. Queue'
    BY <1>0, <1>2, <1>3, QueueSame DEF loop
  <1>5. Limit' = Limit /\ Limit \in Nat
    BY LimitNat DEF Limit
  <1>6. Settled'
    BY <1>0, <1>2, <1>5, SettledKept DEF loop
  <1> QED
    BY <1>0, <1>1, <1>4, <1>6

(* What Send does.                                                          *)
LEMMA Sent ==
    ASSUME Typed, NEW line \in Lines, Send(line)
    PROVE  /\ lost \subseteq lost' /\ lost' \subseteq Lines /\ inbox' \in Seq(Lines)
           /\ bus \in {"open", "closed"}
           /\ \/ inbox' = Append(inbox, line) /\ lost' = lost
              \/ inbox' = inbox /\ lost' = lost \cup {line}
  BY Appended DEF Send, Typed

LEMMA SendUntimed ==
    ASSUME IInv, UNCHANGED <<processor, emits, loop, history, mic, bus>>,
           NEW line \in Lines \ Timed, Send(line)
    PROVE  IInv'
  <1>1. /\ lost \subseteq lost' /\ lost' \subseteq Lines /\ bus' \in {"open", "closed"}
        /\ inbox' = inbox \/ inbox' = Append(inbox, line)
        /\ line \in Lines /\ line \notin Timed
    BY Sent DEF IInv
  <1>2. UNCHANGED <<processor, emits, loop, history, mic>>
    OBVIOUS
  <1> QED
    BY <1>1, <1>2, Padded

LEMMA RepeatKeeps ==
    ASSUME IInv, LineRepeated
    PROVE  IInv'
  <1> DEFINE n == Len(inbox)
             x == inbox[n]
  <1>1. /\ n \in Nat /\ n \in DOMAIN inbox /\ DOMAIN inbox = 1 .. n /\ x \in Lines
        /\ inbox' = Append(inbox, x)
    BY DEF LineRepeated, IInv, Typed
  <1>2. Waits(x)
    BY <1>1 DEF Waits
  <1>3. x \in Timed => \A line \in Timed : Waits(line) => Rank(line) <= Rank(x)
    <2>1. ASSUME x \in Timed, NEW i \in DOMAIN inbox, inbox[i] \in Timed
          PROVE  Rank(inbox[i]) <= Rank(x)
      <3>1. i < n \/ i = n
        BY <1>1
      <3> HIDE DEF n
      <3>2. CASE i < n
        BY <1>1, <2>1, <3>2 DEF IInv, Queue, Sorted
      <3>3. CASE i = n
        BY <2>1, <3>3, RankNat
      <3> QED
        BY <3>1, <3>2, <3>3
    <2> QED
      BY <2>1 DEF Waits
  <1>4. /\ UNCHANGED <<processor, emits, loop, history, mic>>
        /\ lost \subseteq lost' /\ lost' \subseteq Lines /\ bus' \in {"open", "closed"}
    BY DEF LineRepeated, IInv, Typed
  <1> HIDE DEF x
  <1> QED
    BY <1>1, <1>2, <1>3, <1>4, Padded

LEMMA CloseKeeps ==
    ASSUME IInv, BusCloses
    PROVE  IInv'
  <1>1. /\ UNCHANGED <<processor, emits, loop, history, mic>>
        /\ lost \subseteq lost' /\ lost' \subseteq Lines /\ bus' \in {"open", "closed"}
        /\ inbox' = inbox
    BY DEF BusCloses, IInv, Typed
  <1> QED
    BY <1>1, Padded, LinesAre, Untimed

(* wm-audio speaks: the line is the latest of all.                          *)
Utters(x) ==
    /\ UNCHANGED <<processor, emits, loop, history, bus>>
    /\ Send(x)
    /\ mic' \in [utterance : Utterances \cup {0}, speaking : BOOLEAN, chunks : Nat]
    /\ mic'.speaking => mic'.utterance \in Utterances
    /\ Limit <= Rank(x) /\ Rank(x) <= Limit' /\ (x \in Marks => Limit < Rank(x))
    /\ \A mark \in Marks : Limit < Rank(mark) /\ Rank(mark) <= Limit' => mark = x

LEMMA SendTimed ==
    ASSUME IInv, NEW x \in Timed, Utters(x)
    PROVE  IInv'
  <1> USE DEF Utters
  <1>1. x \in Lines
    BY LinesAre
  <1>2. /\ lost \subseteq lost' /\ lost' \subseteq Lines /\ inbox' \in Seq(Lines)
        /\ bus \in {"open", "closed"}
        /\ \/ inbox' = Append(inbox, x) /\ lost' = lost
           \/ inbox' = inbox /\ lost' = lost \cup {x}
    BY <1>1, Sent DEF IInv
  <1>3. /\ PP!IInv' /\ Control' /\ Frugal' /\ CleanEvents' /\ Once' /\ Announced'
        /\ (Speaking' <=> Speaking) /\ Spoken' = Spoken /\ Spoken \subseteq Utterances
        /\ \A t \in Utterances : Judged(t)' => Judged(t)
    BY <1>2, WorldRest
  <1> USE DEF IInv
  <1>4. Typed'
    BY <1>2 DEF Typed, loop, history
  <1>5. job' = job
    BY DEF loop
  <1>6. Queue'
    BY <1>2, <1>3, <1>4, <1>5, QueueSent
  <1>7. Limit \in Nat /\ Limit' \in Nat /\ Limit <= Limit'
    <2>1. Limit \in Nat /\ Limit' \in Nat /\ Rank(x) \in Nat
      BY <1>4, LimitNat, RankNat, UtterancesAreNat DEF Typed, Limit
    <2> QED
      BY <2>1
  <1>8. \A line \in Timed :
           Waits(line)' =>
              Waits(line) \/ (Rank(line) >= Limit /\ (line \in Marks => Rank(line) > Limit))
    <2>1. \A line : Waits(line)' => Waits(line) \/ line = x
      <3>1. CASE inbox' = inbox
        BY <3>1 DEF Waits
      <3>2. CASE inbox' = Append(inbox, x)
        BY <1>1, <3>2, Appended DEF Typed
      <3> QED
        BY <1>2, <3>1, <3>2
    <2>2. Rank(x) \in Nat
      BY RankNat
    <2> QED
      BY <1>7, <2>1, <2>2
  <1>9. Settled'
    BY <1>3, <1>5, <1>7, <1>8, SettledKept
  <1> QED
    BY <1>3, <1>4, <1>6, <1>9

LEMMA MarkAt ==
    ASSUME NEW u \in Utterances, NEW mark \in Marks
    PROVE  /\ 3 * u + 1 < Rank(mark) /\ Rank(mark) <= 3 * u + 2 => mark = End(u)
           /\ 3 * u - 1 < Rank(mark) /\ Rank(mark) <= 3 * u + 1 => mark = Start(u)
           /\ ~(3 * u + 1 < Rank(mark) /\ Rank(mark) <= 3 * u + 1)
  <1>1. PICK v \in Utterances : mark = Start(v) \/ mark = End(v)
    BY Ranks
  <1>2. u \in Nat /\ v \in Nat
    BY UtterancesAreNat
  <1>3. CASE mark = Start(v)
    <2>1. Rank(mark) = 3 * v
      BY <1>3, Ranks
    <2>2. /\ ~(3 * u + 1 < 3 * v /\ 3 * v <= 3 * u + 2)
          /\ 3 * u - 1 < 3 * v /\ 3 * v <= 3 * u + 1 => v = u
          /\ ~(3 * u + 1 < 3 * v /\ 3 * v <= 3 * u + 1)
      BY <1>2
    <2> QED
      BY <1>3, <2>1, <2>2
  <1>4. CASE mark = End(v)
    <2>1. Rank(mark) = 3 * v + 2
      BY <1>4, Ranks
    <2>2. /\ 3 * u + 1 < 3 * v + 2 /\ 3 * v + 2 <= 3 * u + 2 => v = u
          /\ ~(3 * u - 1 < 3 * v + 2 /\ 3 * v + 2 <= 3 * u + 1)
          /\ ~(3 * u + 1 < 3 * v + 2 /\ 3 * v + 2 <= 3 * u + 1)
      BY <1>2
    <2> QED
      BY <1>4, <2>1, <2>2
  <1> QED
    BY <1>1, <1>3, <1>4

LEMMA MicStartUtters ==
    ASSUME IInv, MicStart
    PROVE  \E x \in Timed : Utters(x)
  <1> DEFINE u == mic.utterance + 1
  <1>1. /\ UNCHANGED <<processor, emits, loop, history, bus>> /\ Send(Start(u))
        /\ u \in Utterances /\ ~mic.speaking
        /\ mic' = [utterance |-> u, speaking |-> TRUE, chunks |-> 0]
    BY DEF MicStart
  <1>2. mic.utterance \in Nat /\ mic.utterance = u - 1 /\ u \in Nat
    BY UtterancesAreNat DEF IInv, Typed
  <1>3. /\ mic'.utterance = u /\ mic'.speaking
        /\ mic' \in [utterance : Utterances \cup {0}, speaking : BOOLEAN, chunks : Nat]
    BY <1>1
  <1>4. Limit = 3 * u - 1 /\ Limit' = 3 * u + 1
    BY <1>1, <1>2, <1>3 DEF Limit
  <1> HIDE DEF u
  <1>5. Start(u) \in Timed /\ Rank(Start(u)) = 3 * u
    BY <1>1, Ranks
  <1>6. Limit < Rank(Start(u)) /\ Limit <= Rank(Start(u)) /\ Rank(Start(u)) <= Limit'
    BY <1>2, <1>4, <1>5
  <1>7. \A mark \in Marks : Limit < Rank(mark) /\ Rank(mark) <= Limit' => mark = Start(u)
    BY <1>1, <1>4, MarkAt
  <1> QED
    BY <1>1, <1>3, <1>5, <1>6, <1>7 DEF Utters

LEMMA MicChunkUtters ==
    ASSUME IInv, MicChunk
    PROVE  \E x \in Timed : Utters(x)
  <1> DEFINE u == mic.utterance
  <1>1. /\ UNCHANGED <<processor, emits, loop, history, bus>> /\ Send(Chunk(u))
        /\ u \in Utterances /\ u \in Nat /\ mic.speaking
        /\ mic' = [mic EXCEPT !.chunks = @ + 1]
        /\ mic \in [utterance : Utterances \cup {0}, speaking : BOOLEAN, chunks : Nat]
    BY UtterancesAreNat DEF MicChunk, IInv, Typed
  <1>2. /\ mic'.utterance = u /\ mic'.speaking
        /\ mic' \in [utterance : Utterances \cup {0}, speaking : BOOLEAN, chunks : Nat]
    BY <1>1
  <1>3. Limit = 3 * u + 1 /\ Limit' = 3 * u + 1
    BY <1>1, <1>2 DEF Limit
  <1> HIDE DEF u
  <1>4. Chunk(u) \in Timed /\ Chunk(u) \notin Marks /\ Rank(Chunk(u)) = 3 * u + 1
    BY <1>1, Ranks
  <1>5. Limit <= Rank(Chunk(u)) /\ Rank(Chunk(u)) <= Limit'
    BY <1>1, <1>3, <1>4
  <1>6. \A mark \in Marks : Limit < Rank(mark) /\ Rank(mark) <= Limit' => mark = Chunk(u)
    BY <1>1, <1>3, MarkAt
  <1> QED
    BY <1>1, <1>2, <1>4, <1>5, <1>6 DEF Utters

LEMMA MicEndUtters ==
    ASSUME IInv, MicEnd
    PROVE  \E x \in Timed : Utters(x)
  <1> DEFINE u == mic.utterance
  <1>1. /\ UNCHANGED <<processor, emits, loop, history, bus>> /\ Send(End(u))
        /\ u \in Utterances /\ u \in Nat /\ mic.speaking
        /\ mic' = [mic EXCEPT !.speaking = FALSE]
        /\ mic \in [utterance : Utterances \cup {0}, speaking : BOOLEAN, chunks : Nat]
    BY UtterancesAreNat DEF MicEnd, IInv, Typed
  <1>2. /\ mic'.utterance = u /\ ~mic'.speaking
        /\ mic' \in [utterance : Utterances \cup {0}, speaking : BOOLEAN, chunks : Nat]
    BY <1>1
  <1>3. Limit = 3 * u + 1 /\ Limit' = 3 * u + 2
    BY <1>1, <1>2 DEF Limit
  <1> HIDE DEF u
  <1>4. End(u) \in Timed /\ Rank(End(u)) = 3 * u + 2
    BY <1>1, Ranks
  <1>5. Limit < Rank(End(u)) /\ Limit <= Rank(End(u)) /\ Rank(End(u)) <= Limit'
    BY <1>1, <1>3, <1>4
  <1>6. \A mark \in Marks : Limit < Rank(mark) /\ Rank(mark) <= Limit' => mark = End(u)
    BY <1>1, <1>3, MarkAt
  <1> QED
    BY <1>1, <1>2, <1>4, <1>5, <1>6 DEF Utters

LEMMA WorldKeeps ==
    ASSUME IInv, World
    PROVE  IInv'
  <1>1. ASSUME NEW name \in Models \cup {UnknownModel}, OperatorReloads(name)
        PROVE  IInv'
    <2>1. ReloadRequest(name) \in Lines \ Timed
      BY LinesAre, Untimed
    <2>2. UNCHANGED <<processor, emits, loop, history, mic, bus>> /\ Send(ReloadRequest(name))
      BY <1>1 DEF OperatorReloads
    <2> QED
      BY <2>1, <2>2, SendUntimed
  <1>2. ASSUME NEW line \in {Malformed, NoEvent}, StrayLine(line)
        PROVE  IInv'
    <2>1. line \in Lines \ Timed
      BY LinesAre, Untimed
    <2>2. UNCHANGED <<processor, emits, loop, history, mic, bus>> /\ Send(line)
      BY <1>2 DEF StrayLine
    <2> QED
      BY <2>1, <2>2, SendUntimed
  <1> QED
    BY <1>1, <1>2, MicStartUtters, MicChunkUtters, MicEndUtters, SendTimed, RepeatKeeps,
       CloseKeeps DEF World
----------------------------------------------------------------------------
(* The loop reads a line.                                                   *)

LEMMA Read ==
    ASSUME IInv, NEW line, ReadLine(line)
    PROVE  /\ inbox # <<>> /\ inbox' = Tail(inbox) /\ Head(inbox) = line
           /\ UNCHANGED <<bus, mic, lost, published, dropped, failed, excused>>
           /\ pc = "reading" /\ emits = <<>> /\ job = None
           /\ Spoken \subseteq Utterances
           /\ \A other : Waits(other)' => Waits(other)
           /\ inbox' \in Seq(Lines)
  <1>1. pc = "reading" /\ emits = <<>> /\ job = None
    BY DEF ReadLine, IInv, Control
  <1>2. inbox # <<>> /\ inbox' = Tail(inbox) /\ Head(inbox) = line
    BY DEF ReadLine
  <1>3. (\A other : Waits(other)' => Waits(other)) /\ inbox' \in Seq(Lines)
    BY <1>2, Taken DEF IInv, Typed
  <1> QED
    BY <1>1, <1>2, <1>3, AudioType DEF ReadLine, IInv

(* A line that is not dispatched.                                           *)
LEMMA Ignored ==
    ASSUME IInv, NEW line, line \notin Timed, ReadLine(line),
           UNCHANGED <<processor, emits, job>>,
           \/ UNCHANGED <<pc, requests>>
           \/ pc' = "reporting" /\ requests' = requests + 1
    PROVE  IInv'
  <1>1. /\ inbox # <<>> /\ inbox' = Tail(inbox) /\ Head(inbox) = line
        /\ UNCHANGED <<bus, mic, lost, published, dropped, failed, excused>>
        /\ pc = "reading" /\ emits = <<>> /\ job = None
        /\ Spoken \subseteq Utterances
        /\ \A other : Waits(other)' => Waits(other)
        /\ inbox' \in Seq(Lines)
    BY Read
  <1> USE DEF IInv
  <1>2. /\ PP!IInv' /\ (Speaking' <=> Speaking) /\ engine'.model = engine.model
        /\ Spoken' = Spoken
    BY Kept DEF Typed, processor, Spoken, Untouched, Speaking, Processor!IsSpeaking
  <1>3. Typed'
    BY <1>1 DEF Typed
  <1>4. Control'
    BY <1>1 DEF Control
  <1>5. Frugal'
    BY <1>1, <1>3, ParkedNat DEF Frugal, Due, Spare, PP!Parked, Typed, processor
  <1>6. line \notin Marks
    BY MarksTimed
  <1>7. Queue'
    BY <1>1, <1>2, <1>6, QueueRead
  <1>8. CleanEvents' /\ Once'
    BY <1>1 DEF CleanEvents, Clean, On, Once, IsVerdict
  <1>9. \A t \in Utterances : Judged(t)' => Judged(t)
    BY <1>1 DEF Judged, On, IsVerdict
  <1>10. Limit' = Limit /\ Limit \in Nat
    BY <1>1, LimitNat DEF Limit
  <1>11. Settled'
    BY <1>1, <1>2, <1>9, <1>10, SettledKept
  <1>12. Announced'
    BY <1>1, <1>2, AnnouncedByLoop
  <1> QED
    BY <1>2, <1>3, <1>4, <1>5, <1>7, <1>8, <1>11, <1>12

LEMMA SkipKeeps ==
    ASSUME IInv, SkipLine
    PROVE  IInv'
  <1>1. PICK line \in {NoEvent, Unknown} : ReadLine(line)
    BY DEF SkipLine
  <1>2. UNCHANGED <<processor, emits, job, pc, requests>>
    BY DEF SkipLine, loop
  <1> QED
    BY <1>1, <1>2, Untimed, Ignored

LEMMA DecodeKeeps ==
    ASSUME IInv, DecodeFails
    PROVE  IInv'
  <1>1. /\ ReadLine(Malformed) /\ UNCHANGED <<processor, emits, job>>
        /\ pc' = "reporting" /\ requests' = requests + 1
    BY DEF DecodeFails
  <1> QED
    BY <1>1, Untimed, Ignored

(* A request that is handled on the task of the loop: no verdict.           *)
LEMMA Dispatched ==
    ASSUME IInv, NEW line, ReadLine(line), Handled, NoVerdict,
           pc' = "publishing", requests' = requests + 1, job' = job,
           \A s \in Spoken' : s \in Spoken \/ (s \in Utterances /\ line = Chunk(s)),
           line \in Marks => Spoken' = {},
           (Speaking' => Speaking) \/ \E u \in Utterances : line = Start(u)
    PROVE  IInv'
  <1>1. /\ inbox # <<>> /\ inbox' = Tail(inbox) /\ Head(inbox) = line
        /\ UNCHANGED <<bus, mic, lost, published, dropped, failed, excused>>
        /\ pc = "reading" /\ emits = <<>> /\ job = None
        /\ Spoken \subseteq Utterances
        /\ \A other : Waits(other)' => Waits(other)
        /\ inbox' \in Seq(Lines)
    BY Read
  <1> USE DEF IInv
  <1>2. PP!IInv' /\ emits' \in Seq(Emit) /\ PP!Thrifty
    BY DEF Handled
  <1>3. Typed'
    BY <1>1, <1>2 DEF Typed
  <1>4. Control'
    BY <1>1 DEF Control
  <1>5. Frugal'
    <2>1. /\ Len(published) + PP!Parked <= 2 * requests
          /\ ~dropped => Len(published) + PP!Parked <= requests
          /\ requests \in Nat /\ Len(published) \in Nat
      BY <1>1, ParkedNat DEF Frugal, Due, Spare, Typed
    <2>2. Len(emits') + PP!Parked' <= 1 + PP!Parked /\ Len(emits') \in Nat
      BY <1>2 DEF PP!Thrifty
    <2>3. PP!Parked \in Nat /\ PP!Parked' \in Nat
      BY DEF PP!Parked
    <2>4. Due' = Len(emits') + PP!Parked' /\ Spare' = 1
      BY <2>2, <2>3 DEF Due, Spare
    <2> QED
      BY <1>1, <2>1, <2>2, <2>3, <2>4 DEF Frugal
  <1>6. Queue'
    BY <1>1, QueueRead
  <1>7. CleanEvents' /\ Once' /\ \A t \in Utterances : Judged(t)' => Judged(t)
    BY <1>1, EventsQuiet
  <1>8. Settled'
    <2>1. CASE Speaking' => Speaking
      <3>1. Limit' = Limit /\ Limit \in Nat
        BY <1>1, LimitNat DEF Limit
      <3> QED
        BY <1>1, <1>7, <2>1, <3>1, SettledKept
    <2>2. CASE \E u \in Utterances : line = Start(u)
      BY <1>1, <1>7, <2>2, SettledStart
    <2> QED
      BY <2>1, <2>2
  <1>9. Announced'
    <2>1. \A i \in DOMAIN emits' : emits'[i].topic # "final"
      BY DEF NoVerdict, IsVerdict
    <2> QED
      BY <1>1, <2>1, AnnouncedByHandler
  <1> QED
    BY <1>2, <1>3, <1>4, <1>5, <1>6, <1>7, <1>8, <1>9

LEMMA InlineKeeps ==
    ASSUME IInv, DispatchInline
    PROVE  IInv'
  <1>0. requests' = requests + 1 /\ pc' = "publishing" /\ job' = job /\ PP!IInv
    BY DEF DispatchInline, IInv
  <1>1. ASSUME NEW u \in Utterances, NEW ts \in 0 .. MaxTs,
               ReadLine(Start(u)), Processor!OnSpeechStart(ts)
        PROVE  IInv'
    <2>1. Handled /\ NoVerdict /\ Speaking' /\ Spoken' = {}
      BY <1>0, <1>1, Starts
    <2> QED
      BY <1>0, <1>1, <2>1, Dispatched
  <1>2. ASSUME NEW u \in Utterances, NEW ts \in 0 .. MaxTs,
               ReadLine(Chunk(u)), Processor!OnSpeechChunk(<<u>>, ts)
        PROVE  IInv'
    <2>1. Handled /\ NoVerdict /\ (Speaking' <=> Speaking) /\ Spoken' \subseteq Spoken \cup {u}
      BY <1>0, <1>2, Hears
    <2>2. Chunk(u) \notin Marks
      BY Ranks
    <2>3. \A s \in Spoken' : s \in Spoken \/ (s \in Utterances /\ Chunk(u) = Chunk(s))
      BY <2>1
    <2> QED
      BY <1>0, <1>2, <2>1, <2>2, <2>3, Dispatched
  <1>3. ASSUME NEW name \in Models \cup {UnknownModel},
               ReadLine(ReloadRequest(name)), Processor!OnReloadModel(name)
        PROVE  IInv'
    <2>1. Handled /\ NoVerdict /\ (Speaking' <=> Speaking) /\ Spoken' = Spoken
      BY <1>0, <1>3, Reloads
    <2>2. ReloadRequest(name) \notin Marks
      BY Untimed, MarksTimed
    <2> QED
      BY <1>0, <1>3, <2>1, <2>2, Dispatched
  <1> QED
    BY <1>1, <1>2, <1>3 DEF DispatchInline

(* A speech.end is handed to the blocking pool.                             *)
LEMMA BlockingKeeps ==
    ASSUME IInv, DispatchBlocking
    PROVE  IInv'
  <1>0. PICK u \in Utterances : ReadLine(End(u)) /\ job' = u
    BY DEF DispatchBlocking
  <1>1. /\ inbox # <<>> /\ inbox' = Tail(inbox) /\ Head(inbox) = End(u)
        /\ UNCHANGED <<bus, mic, lost, published, dropped, failed, excused>>
        /\ pc = "reading" /\ emits = <<>> /\ job = None
        /\ Spoken \subseteq Utterances
        /\ inbox' \in Seq(Lines)
    BY <1>0, Read
  <1>2. /\ requests' = requests + 1 /\ pc' = "blocked"
        /\ UNCHANGED <<state, pending_reload, engine, partials, emits>>
    BY DEF DispatchBlocking, processor
  <1>3. u # None
    BY UtteranceAssumption, NoneAssumption
  <1> USE DEF IInv
  <1>4. /\ PP!IInv' /\ (Speaking' <=> Speaking) /\ engine'.model = engine.model
        /\ Spoken' = Spoken
    BY <1>2, Kept DEF Typed, Spoken, Untouched, Speaking, Processor!IsSpeaking
  <1>5. Typed'
    BY <1>0, <1>1, <1>2 DEF Typed
  <1>6. Control'
    BY <1>0, <1>1, <1>2, <1>3 DEF Control
  <1>7. Frugal'
    BY <1>1, <1>2, <1>5, ParkedNat DEF Frugal, Due, Spare, PP!Parked, Typed
  <1>8. Queue'
    BY <1>0, <1>1, <1>3, <1>4, QueueRead
  <1>9. CleanEvents' /\ Once'
    BY <1>1, <1>2 DEF CleanEvents, Clean, On, Once, IsVerdict
  <1>10. \A t \in Utterances : Judged(t)' => Judged(t)
    BY <1>1, <1>2 DEF Judged, On, IsVerdict
  <1>11. Settled'
    BY <1>0, <1>1, <1>4, <1>10, SettledEnd
  <1>12. Announced'
    BY <1>1, <1>2, <1>4, AnnouncedByLoop
  <1> QED
    BY <1>4, <1>5, <1>6, <1>7, <1>8, <1>9, <1>11, <1>12

LEMMA JobKeeps ==
    ASSUME IInv, JobReturns
    PROVE  IInv'
  <1>1. /\ pc = "blocked" /\ job \in Utterances /\ emits = <<>>
        /\ pc' = "publishing" /\ job' = None
        /\ failed' \subseteq failed \cup {job} /\ excused' \subseteq excused \cup {job}
        /\ UNCHANGED <<bus, inbox, mic, lost, published, dropped, requests>>
    BY DEF JobReturns, IInv, Control, Typed, world
  <1>2. PICK duration_ms \in Durations : Processor!OnSpeechEnd(duration_ms, job)
    BY DEF JobReturns
  <1>3. duration_ms \in Nat
    BY DaemonAssumption, ProcessorAssumption
  <1> USE DEF IInv
  <1>4. /\ Handled /\ ~Speaking' /\ Spoken' = {}
        /\ \A i \in DOMAIN emits' :
              IsVerdict(emits'[i]) =>
                  /\ i = 1 /\ Speaking
                  /\ emits'[i].turn_id = job
                  /\ \A k \in DOMAIN emits'[i].text.of : emits'[i].text.of[k] \in Spoken
                  /\ emits'[i].topic = "final" => emits'[i].model = engine.model
    BY <1>1, <1>2, <1>3, Ends
  <1>5. PP!IInv' /\ emits' \in Seq(Emit) /\ PP!Thrifty
    BY <1>4 DEF Handled
  <1>6. Typed'
    BY <1>1, <1>5 DEF Typed
  <1>7. Control'
    BY <1>1 DEF Control
  <1>8. Frugal'
    <2>1. /\ Len(published) + PP!Parked + 2 <= 2 * requests
          /\ ~dropped => Len(published) + PP!Parked + 1 <= requests
          /\ requests \in Nat /\ Len(published) \in Nat
      BY <1>1, ParkedNat DEF Frugal, Due, Spare, Typed
    <2>2. Len(emits') + PP!Parked' <= 1 + PP!Parked /\ Len(emits') \in Nat
      BY <1>5 DEF PP!Thrifty
    <2>3. PP!Parked \in Nat /\ PP!Parked' \in Nat
      BY DEF PP!Parked
    <2>4. Due' = Len(emits') + PP!Parked' /\ Spare' = 1
      BY <1>1, <2>2, <2>3 DEF Due, Spare
    <2> QED
      BY <1>1, <2>1, <2>2, <2>3, <2>4 DEF Frugal
  <1>9. CleanEvents' /\ Once' /\ Settled'
    BY <1>1, <1>4, <1>5, AudioType, EventsJudged
  <1>10. Queue'
    <2>1. \A line : Waits(line)' <=> Waits(line)
      BY <1>1 DEF Waits
    <2>2. Sorted'
      BY <1>1 DEF Queue, Sorted
    <2> QED
      BY <1>1, <1>4, <2>1, <2>2, QueueSame
  <1>11. \A i \in DOMAIN emits' :
            emits'[i].topic = "final" => i = 1 /\ emits'[i].model = engine.model
    BY <1>4 DEF IsVerdict
  <1>12. Announced'
    BY <1>1, <1>4, <1>11, AnnouncedByHandler
  <1> QED
    BY <1>5, <1>6, <1>7, <1>8, <1>9, <1>10, <1>12
----------------------------------------------------------------------------
(* The loop publishes, reports, or stops; a job panics.                     *)

LEMMA LoopMoves ==
    ASSUME IInv, UNCHANGED <<partials, mic, bus, lost, requests, failed>>,
           excused' = excused \/ (job \in Utterances /\ excused' = excused \cup {job}),
           \/ Untouched /\ engine' = engine /\ job' = job
           \/ (Untouched \/ ClosedByPanic) /\ Spoken' = {} /\ job' = None,
           inbox' = inbox \/ inbox' = Append(inbox, Unknown),
           NEW event \in Emit, (emits # <<>> /\ event = Head(emits)) \/ ~IsVerdict(event),
           \/ published' = published /\ emits' = emits
           \/ /\ published' = published \/ published' = Append(published, event)
              /\ emits' = <<>> \/ (emits # <<>> /\ emits' = Tail(emits)),
           pc' \in {"reading", "publishing", "reporting", "stopped"},
           Control', Frugal',
           \/ UNCHANGED <<published, emits, dropped>>
           \/ dropped' = TRUE
           \/ /\ emits # <<>> /\ emits' = Tail(emits) /\ dropped' = dropped
              /\ published' = Append(published, Head(emits))
           \/ /\ emits = <<>> /\ emits' = <<>> /\ dropped' = dropped
              /\ published' = Append(published, ErrorEvent("bus"))
    PROVE  IInv'
  <1> USE DEF IInv
  <1>0. /\ emits \in Seq(Emit) /\ <<>> \in Seq(Emit) /\ Append(published, event) \in Seq(Emit)
        /\ emits # <<>> => Tail(emits) \in Seq(Emit)
    BY DEF Typed
  <1>1. emits' \in Seq(Emit)
    BY <1>0
  <1>2. /\ PP!IInv' /\ (Speaking' => Speaking) /\ engine'.model = engine.model
        /\ Spoken' = {} \/ (Spoken' = Spoken /\ job' = job)
    BY <1>1, Kept DEF Spoken
  <1>3. Unknown \in Lines /\ Unknown \notin Timed
    BY LinesAre, Untimed
  <1>4. /\ inbox' \in Seq(Lines) /\ Sorted'
        /\ \A line \in Timed : Waits(line)' <=> Waits(line)
    <2>1. CASE inbox' = inbox
      BY <2>1 DEF Sorted, Queue, Waits, Typed
    <2>2. CASE inbox' = Append(inbox, Unknown)
      BY <1>3, <2>2, Appended, SortedAppend DEF Queue, Typed
    <2> QED
      BY <2>1, <2>2
  <1>5. Typed'
    <2>1. published' \in Seq(Emit)
      BY <1>0 DEF Typed
    <2>2. job' \in Utterances \cup {None}
      BY DEF Typed
    <2> QED
      BY <1>1, <1>4, <2>1, <2>2 DEF Typed
  <1>6. Queue'
    BY <1>2, <1>4, QueueSame
  <1>7. CleanEvents' /\ Once' /\ \A t \in Utterances : Judged(t)' => Judged(t)
    BY EventsMove
  <1>8. Settled'
    <2>1. Limit' = Limit /\ Limit \in Nat
      BY LimitNat DEF Limit
    <2> QED
      BY <1>2, <1>4, <1>7, <2>1, SettledKept
  <1>9. Announced'
    BY <1>2, AnnouncedByLoop
  <1> QED
    BY <1>2, <1>5, <1>6, <1>7, <1>8, <1>9

LEMMA PanicKeeps ==
    ASSUME IInv, FinalisePanics \/ ReloadPanics
    PROVE  IInv'
  <1>1. /\ UNCHANGED <<partials, mic, bus, lost, requests, failed>>
        /\ job \in Utterances /\ excused' = excused \cup {job}
        /\ UNCHANGED <<published, emits, dropped, inbox>>
        /\ job' = None /\ engine' = Processor!Reset(engine)
        /\ pc = "blocked" /\ pc' = "reporting" /\ emits = <<>>
    BY DEF FinalisePanics, ReloadPanics, Unwound, world, IInv, Control, Typed
  <1>2. Untouched \/ ClosedByPanic
    BY DEF FinalisePanics, ReloadPanics, Untouched, ClosedByPanic
  <1>3. Spoken' = {}
    <2>1. engine'.audio = <<>>
      BY <1>1 DEF Processor!Reset, IInv, PP!IInv, PP!TypeOK, PP!Engines
    <2> QED
      BY <2>1 DEF Spoken
  <1>4. Control'
    BY <1>1 DEF Control
  <1>5. Frugal'
    <2>1. PP!Parked' <= PP!Parked /\ PP!Parked \in Nat /\ PP!Parked' \in Nat
      BY <1>2 DEF Untouched, ClosedByPanic, PP!Parked
    <2>2. /\ Len(emits) = 0 /\ Len(emits') = 0
          /\ Len(published) \in Nat /\ Len(published') = Len(published) /\ requests \in Nat
      BY <1>1 DEF IInv, Typed
    <2>3. /\ Due = PP!Parked + 1 /\ Due' = PP!Parked' + 1
          /\ Spare = 1 /\ Spare' = 0
      BY <1>1, <2>1, <2>2 DEF Due, Spare
    <2> QED
      BY <1>1, <2>1, <2>2, <2>3 DEF Frugal, IInv
  <1>6. ErrorEvent("bus") \in Emit /\ ~IsVerdict(ErrorEvent("bus"))
    BY DEF ErrorEvent, Emit, ErrorKinds, IsVerdict
  <1> QED
    BY <1>1, <1>2, <1>3, <1>4, <1>5, <1>6, LoopMoves

LEMMA Reached ==
    ASSUME NEW event, Reaches(event)
    PROVE  /\ published' = Append(published, event)
           /\ inbox' = inbox \/ inbox' = Append(inbox, Unknown)
  BY DEF Reaches

LEMMA PublishKeeps ==
    ASSUME IInv, PublishNext
    PROVE  IInv'
  <1>1. /\ UNCHANGED <<state, pending_reload, partials, mic, bus, lost, requests, failed>>
        /\ excused' = excused
        /\ engine' = engine /\ job' = job /\ pc' = pc /\ pc = "publishing"
        /\ emits # <<>> /\ emits' = Tail(emits)
    BY DEF PublishNext, processor, loop
  <1>2. /\ inbox' = inbox \/ inbox' = Append(inbox, Unknown)
        /\ \/ published' = Append(published, Head(emits)) /\ dropped' = dropped
           \/ published' = published /\ dropped' = TRUE
    BY Reached DEF PublishNext
  <1>3. Head(emits) \in Emit /\ Len(Tail(emits)) = Len(emits) - 1
    BY <1>1 DEF IInv, Typed
  <1>4. Control'
    BY <1>1 DEF Control, IInv
  <1>5. Frugal'
    <2>1. /\ PP!Parked' = PP!Parked /\ PP!Parked \in Nat
          /\ Len(published) \in Nat /\ Len(emits) \in Nat /\ requests \in Nat
      BY <1>1 DEF IInv, Typed, PP!Parked
    <2>2. Len(published') <= Len(published) + 1 /\ Len(published') \in Nat
      BY <1>2 DEF IInv, Typed
    <2>3. /\ Due = Len(emits) + PP!Parked /\ Due' = Len(emits) - 1 + PP!Parked
          /\ Spare = 1 /\ Spare' = 1
      BY <1>1, <1>3, <2>1 DEF Due, Spare
    <2>4. ~dropped' => ~dropped
      BY <1>2
    <2> QED
      BY <1>1, <2>1, <2>2, <2>3, <2>4 DEF Frugal, IInv
  <1> QED
    BY <1>1, <1>2, <1>3, <1>4, <1>5, LoopMoves DEF Untouched

LEMMA FailKeeps ==
    ASSUME IInv, PublishFails
    PROVE  IInv'
  <1>1. /\ UNCHANGED <<state, pending_reload, partials, mic, bus, lost, requests, failed>>
        /\ excused' = excused
        /\ engine' = engine /\ job' = job /\ pc = "publishing" /\ pc' = "reporting"
        /\ emits # <<>> /\ emits' = <<>> /\ dropped' = TRUE
    BY DEF PublishFails, processor
  <1>2. /\ inbox' = inbox \/ inbox' = Append(inbox, Unknown)
        /\ published' = Append(published, Head(emits)) \/ published' = published
    BY Reached DEF PublishFails
  <1>3. Head(emits) \in Emit /\ Len(emits) >= 1
    BY <1>1 DEF IInv, Typed
  <1>4. Control'
    BY <1>1 DEF Control, IInv
  <1>5. Frugal'
    <2>1. /\ PP!Parked' = PP!Parked /\ PP!Parked \in Nat
          /\ Len(published) \in Nat /\ Len(emits) \in Nat /\ requests \in Nat
      BY <1>1 DEF IInv, Typed, PP!Parked
    <2>2. Len(published') <= Len(published) + 1 /\ Len(published') \in Nat
      BY <1>2 DEF IInv, Typed
    <2>3. /\ Due = Len(emits) + PP!Parked /\ Due' = 1 + PP!Parked
          /\ Spare = 1 /\ Spare' = 0
      BY <1>1, <2>1 DEF Due, Spare
    <2> QED
      BY <1>1, <1>3, <2>1, <2>2, <2>3 DEF Frugal, IInv
  <1> QED
    BY <1>1, <1>2, <1>3, <1>4, <1>5, LoopMoves DEF Untouched

LEMMA DoneKeeps ==
    ASSUME IInv, DispatchDone \/ ReadEnds
    PROVE  IInv'
  <1>1. /\ UNCHANGED <<state, pending_reload, partials, mic, bus, lost, requests, failed>>
        /\ excused' = excused
        /\ UNCHANGED <<published, emits, dropped, inbox, engine, job>>
        /\ emits = <<>> /\ pc \in {"publishing", "reading"} /\ pc' \in {"reading", "stopped"}
    BY DEF DispatchDone, ReadEnds, processor, world, history, IInv, Control
  <1>2. Control'
    BY <1>1 DEF Control, IInv
  <1>3. Frugal'
    <2>1. /\ PP!Parked' = PP!Parked /\ PP!Parked \in Nat
          /\ Len(published) \in Nat /\ Len(emits) = 0 /\ requests \in Nat
      BY <1>1 DEF IInv, Typed, PP!Parked
    <2>2. Due = PP!Parked /\ Due' = PP!Parked /\ Spare \in Nat /\ Spare' = 0
      BY <1>1, <2>1 DEF Due, Spare
    <2> QED
      BY <1>1, <2>1, <2>2 DEF Frugal, IInv
  <1>4. ErrorEvent("bus") \in Emit /\ ~IsVerdict(ErrorEvent("bus"))
    BY DEF ErrorEvent, Emit, ErrorKinds, IsVerdict
  <1> QED
    BY <1>1, <1>2, <1>3, <1>4, LoopMoves DEF Untouched

LEMMA ReportKeeps ==
    ASSUME IInv, ReportError
    PROVE  IInv'
  <1>1. /\ UNCHANGED <<state, pending_reload, partials, mic, bus, lost, requests, failed>>
        /\ excused' = excused
        /\ engine' = engine /\ job' = job /\ pc = "reporting" /\ pc' = "reading"
        /\ emits = <<>> /\ emits' = <<>>
    BY DEF ReportError, processor, IInv, Control
  <1>2. /\ inbox' = inbox \/ inbox' = Append(inbox, Unknown)
        /\ \/ published' = Append(published, ErrorEvent("bus")) /\ dropped' = dropped
           \/ published' = published /\ dropped' = TRUE
    BY Reached DEF ReportError
  <1>3. ErrorEvent("bus") \in Emit /\ ~IsVerdict(ErrorEvent("bus"))
    BY DEF ErrorEvent, Emit, ErrorKinds, IsVerdict
  <1>4. Control'
    BY <1>1 DEF Control, IInv
  <1>5. Frugal'
    <2>1. /\ PP!Parked' = PP!Parked /\ PP!Parked \in Nat
          /\ Len(published) \in Nat /\ Len(emits) \in Nat /\ requests \in Nat
      BY <1>1 DEF IInv, Typed, PP!Parked
    <2>2. Len(published') <= Len(published) + 1 /\ Len(published') \in Nat
      BY <1>2 DEF IInv, Typed
    <2>3. /\ Due = PP!Parked + 1 /\ Due' = PP!Parked
          /\ Spare = 0 /\ Spare' = 0
      BY <1>1, <2>1 DEF Due, Spare
    <2>4. ~dropped' => ~dropped
      BY <1>2
    <2> QED
      BY <1>1, <2>1, <2>2, <2>3, <2>4 DEF Frugal, IInv
  <1> QED
    BY <1>1, <1>2, <1>3, <1>4, <1>5, LoopMoves DEF Untouched

LEMMA IdleKeeps ==
    ASSUME IInv, UNCHANGED vars
    PROVE  IInv'
  <1>1. /\ UNCHANGED <<processor, emits, loop, history, mic>>
        /\ lost \subseteq lost' /\ lost' \subseteq Lines /\ bus' \in {"open", "closed"}
        /\ inbox' = inbox
    BY DEF vars, world, IInv, Typed
  <1> QED
    BY <1>1, Padded, LinesAre, Untimed
----------------------------------------------------------------------------
LEMMA InitIInv == Init => IInv
  <1> SUFFICES ASSUME Init PROVE IInv
    OBVIOUS
  <1> USE DEF Init
  <1>1. PP!IInv
    BY SameInit, SameAssumptions, PP!InitIInv, Zenon
  <1>2. /\ emits = <<>> /\ DOMAIN <<>> = {} /\ engine.audio = <<>>
        /\ <<>> \in Seq(Lines) /\ <<>> \in Seq(Emit) /\ Len(<<>>) = 0
    BY DEF Processor!Init, Processor!NewEngine
  <1>3. Typed
    BY <1>2 DEF Typed
  <1>4. Control /\ Frugal
    BY <1>2 DEF Control, Frugal, Due, Spare, PP!Parked, Processor!Init
  <1>5. \A line : ~Waits(line)
    BY <1>2 DEF Waits
  <1>6. Queue
    BY <1>2, <1>5 DEF Queue, Sorted, InOrder, NoGap, AudioIsRecent, Spoken
  <1>7. CleanEvents /\ Settled /\ Once
    BY <1>2 DEF CleanEvents, Settled, Judged, Once
  <1>8. Announced
    <2>1. Said = <<>>
      BY <1>2, NoMore DEF Said
    <2> QED
      BY <1>2, <2>1 DEF Announced, Told
  <1> QED
    BY <1>1, <1>3, <1>4, <1>6, <1>7, <1>8 DEF IInv

LEMMA NextKeepsIInv == IInv /\ [Next]_vars => IInv'
  <1> SUFFICES ASSUME IInv, [Next]_vars PROVE IInv'
    OBVIOUS
  <1>1. CASE Loop
    BY <1>1, SkipKeeps, DecodeKeeps, InlineKeeps, BlockingKeeps, PublishKeeps, FailKeeps,
       DoneKeeps, ReportKeeps DEF Loop
  <1>2. CASE BlockingPool
    BY <1>2, JobKeeps, PanicKeeps DEF BlockingPool
  <1>3. CASE World
    BY <1>3, WorldKeeps
  <1>4. CASE UNCHANGED vars
    BY <1>4, IdleKeeps
  <1> QED
    BY <1>1, <1>2, <1>3, <1>4 DEF Next

LEMMA Invariance == Spec => []IInv
  BY InitIInv, NextKeepsIInv, PTL DEF Spec

(* Every variable stays in its type, those of the processor among them.     *)
THEOREM TypeCorrect == Spec => []TypeOK
  <1>1. IInv => TypeOK
    BY SameType DEF IInv, PP!IInv, Typed, TypeOK
  <1> QED
    BY <1>1, Invariance, PTL

(* A verdict mixes two utterances only if every mark between them was lost, *)
(* however many there are and whatever else fails or is repeated.           *)
THEOREM CrossTalk == Spec => []CrossTalkNeedsLostDelimiters
  <1>1. IInv => CrossTalkNeedsLostDelimiters
    BY DEF IInv, CleanEvents, Clean, On, CrossTalkNeedsLostDelimiters, VerdictsOf
  <1> QED
    BY <1>1, Invariance, PTL

(* A turn gets one verdict at most, though its speech.end may arrive twice. *)
THEOREM OneVerdict == Spec => []AtMostOneVerdict
  <1>1. ASSUME IInv, NEW t \in Utterances
        PROVE  Cardinality(VerdictsOf(t)) <= 1
    <2>1. CASE VerdictsOf(t) = {}
      BY <2>1, FS_EmptySet
    <2>2. CASE VerdictsOf(t) # {}
      <3>1. PICK i : i \in VerdictsOf(t)
        BY <2>2
      <3>2. VerdictsOf(t) = {i}
        BY <1>1, <3>1 DEF IInv, Once, On, VerdictsOf
      <3> QED
        BY <3>2, FS_Singleton
    <2> QED
      BY <2>1, <2>2
  <1>2. IInv => AtMostOneVerdict
    BY <1>1 DEF AtMostOneVerdict
  <1> QED
    BY <1>2, Invariance, PTL

(* One event for each request, two if a publish failed: no feedback.        *)
THEOREM NoEcho == Spec => []NoFeedback
  <1>1. IInv => NoFeedback
    <2> SUFFICES ASSUME IInv PROVE NoFeedback
      OBVIOUS
    <2>1. /\ Due \in Nat /\ Spare \in Nat
          /\ Len(published) \in Nat /\ requests \in Nat
      BY ParkedNat DEF IInv, Typed, Due, Spare
    <2> QED
      BY <2>1 DEF IInv, Frugal, NoFeedback
  <1> QED
    BY <1>1, Invariance, PTL

(* Two finals of different models have the announcement between them.       *)
THEOREM Announcements == Spec => []ModelChangesAreAnnounced
  <1>1. ASSUME IInv, ~dropped,
               NEW i \in DOMAIN published, NEW j \in DOMAIN published, i < j,
               published[i].topic = "final", published[j].topic = "final",
               published[i].model # published[j].model
        PROVE  \E k \in i .. j : published[k] = ModelLoadedEvent(published[j].model)
    <2>1. /\ DOMAIN published = 1 .. Len(published) /\ DOMAIN published \subseteq DOMAIN Said
          /\ \A k \in DOMAIN published : Said[k] = published[k]
          /\ Len(published) \in Nat
      BY <1>1 DEF IInv, Typed, Said
    <2>2. PICK k \in i .. j : Said[k] = ModelLoadedEvent(Said[j].model)
      BY <1>1, <2>1 DEF IInv, Announced, Told
    <2>3. k \in DOMAIN published
      BY <1>1, <2>1
    <2> QED
      BY <2>1, <2>2, <2>3
  <1>2. IInv => ModelChangesAreAnnounced
    BY <1>1 DEF ModelChangesAreAnnounced
  <1> QED
    BY <1>2, Invariance, PTL
----------------------------------------------------------------------------
(* No turn goes by in silence.  A second invariant, on top of IInv: when    *)
(* the end of a turn was read, its answer is given; and until then, if its  *)
(* start was read, the processor is listening.                              *)

Voiced == {published[i] : i \in DOMAIN published} \cup {emits[i] : i \in DOMAIN emits}

Answered(t) ==
    \/ dropped
    \/ \E event \in Voiced : On(event, t)
    \/ t \in failed /\ ErrorEvent("engine") \in Voiced
    \/ t \in excused

(* The marks after the end that is being served wait or are lost, too.      *)
JobGap ==
    job # None =>
        \A mark \in Marks :
            Rank(End(job)) < Rank(mark) /\ Rank(mark) <= Limit => Accounted(mark)

Arrived(mark) == Rank(mark) <= Limit /\ mark \notin lost /\ ~Waits(mark)

Served ==
    \A t \in Utterances :
        Arrived(End(t)) /\ Start(t) \notin lost /\ job # t => Answered(t)

Heeded ==
    \A t \in Utterances :
        (/\ Arrived(Start(t))
         /\ Rank(End(t)) <= Limit => Waits(End(t)) \/ job = t
         /\ ~Answered(t)) => Speaking

Answers == JobGap /\ Served /\ Heeded

LEMMA AnsweredStays ==
    ASSUME Typed, failed \subseteq failed', excused \subseteq excused',
           \/ dropped' = TRUE
           \/ dropped' = dropped /\ UNCHANGED <<published, emits>>
           \/ dropped' = dropped /\ emits = <<>> /\ published' = published
           \/ /\ dropped' = dropped /\ emits # <<>>
              /\ published' = Append(published, Head(emits)) /\ emits' = Tail(emits)
           \/ /\ dropped' = dropped /\ emits = <<>>
              /\ published' = Append(published, ErrorEvent("bus"))
    PROVE  \A t \in Utterances : Answered(t) => Answered(t)'
  <1>1. CASE dropped' = TRUE
    BY <1>1 DEF Answered
  <1>2. CASE dropped' = dropped /\ Voiced \subseteq Voiced'
    BY <1>2 DEF Answered, On, IsVerdict, ErrorEvent
  <1>3. ASSUME UNCHANGED <<published, emits>> \/ (emits = <<>> /\ published' = published)
        PROVE  Voiced \subseteq Voiced'
    BY <1>3 DEF Voiced
  <1>4. ASSUME NEW event \in Emit, published' = Append(published, event)
        PROVE  /\ {published[i] : i \in DOMAIN published} \subseteq Voiced'
               /\ event \in Voiced'
    <2>1. /\ \A i \in DOMAIN published : i \in DOMAIN published' /\ published'[i] = published[i]
          /\ Len(published) + 1 \in DOMAIN published' /\ published'[Len(published) + 1] = event
      BY <1>4 DEF Typed
    <2> QED
      BY <2>1 DEF Voiced
  <1>5. ASSUME emits # <<>>, published' = Append(published, Head(emits)), emits' = Tail(emits)
        PROVE  Voiced \subseteq Voiced'
    <2>1. /\ Head(emits) \in Emit
          /\ \A i \in DOMAIN emits :
                emits[i] = Head(emits) \/ (i - 1 \in DOMAIN emits' /\ emits'[i - 1] = emits[i])
      BY <1>5 DEF Typed
    <2>2. {emits[i] : i \in DOMAIN emits} \subseteq {Head(emits)} \cup Voiced'
      BY <2>1 DEF Voiced
    <2> QED
      BY <1>4, <1>5, <2>1, <2>2 DEF Voiced
  <1>6. ASSUME emits = <<>>, published' = Append(published, ErrorEvent("bus"))
        PROVE  Voiced \subseteq Voiced'
    <2>1. ErrorEvent("bus") \in Emit
      BY DEF Emit, ErrorEvent, ErrorKinds
    <2> QED
      BY <1>4, <1>6, <2>1 DEF Voiced
  <1>7. dropped' = TRUE \/ (dropped' = dropped /\ Voiced \subseteq Voiced')
    BY <1>3, <1>5, <1>6, Zenon
  <1> QED
    BY <1>1, <1>2, <1>7

(* Nothing of wm-audio's comes or goes.                                     *)
LEMMA AnswersSame ==
    ASSUME Answers, UNCHANGED <<mic, job>>, lost \subseteq lost',
           \A line \in Timed : Waits(line)' <=> Waits(line), Speaking' <=> Speaking,
           \A t \in Utterances : Answered(t) => Answered(t)'
    PROVE  Answers'
  <1>1. Limit' = Limit
    BY DEF Limit
  <1>2. \A mark \in Marks : (Arrived(mark)' => Arrived(mark)) /\ (Accounted(mark) => Accounted(mark)')
    BY <1>1, MarksTimed DEF Arrived, Accounted
  <1>3. \A t \in Utterances : Start(t) \in Marks /\ End(t) \in Marks /\ End(t) \in Timed
    BY Ranks
  <1>4. JobGap'
    BY <1>1, <1>2 DEF Answers, JobGap
  <1>5. Served'
    BY <1>2, <1>3 DEF Answers, Served
  <1>6. Heeded'
    BY <1>1, <1>2, <1>3 DEF Answers, Heeded
  <1> QED
    BY <1>4, <1>5, <1>6 DEF Answers

(* wm-audio sends a line: it arrives or is lost.                            *)
LEMMA AnswersSent ==
    ASSUME Typed, Answers, Typed', UNCHANGED job, NEW x \in Timed, Speaking' <=> Speaking,
           Limit <= Rank(x), Rank(x) <= Limit', x \in Marks => Limit < Rank(x),
           \A mark \in Marks : Limit < Rank(mark) /\ Rank(mark) <= Limit' => mark = x,
           \/ inbox' = Append(inbox, x) /\ lost' = lost
           \/ inbox' = inbox /\ lost' = lost \cup {x},
           \A t \in Utterances : Answered(t) => Answered(t)'
    PROVE  Answers'
  <1>1. x \in Lines /\ Limit \in Nat /\ Limit' \in Nat /\ Rank(x) \in Nat
        /\ \A line \in Timed : Rank(line) \in Nat
    <2>1. Limit' \in Nat
      BY UtterancesAreNat DEF Typed, Limit
    <2> QED
      BY <2>1, LimitNat, LinesAre, RankNat
  <1>2. /\ \A line : Waits(line)' => Waits(line) \/ line = x
        /\ \A line : Waits(line) => Waits(line)'
        /\ x \in lost' \/ Waits(x)'
    <2>1. CASE inbox' = Append(inbox, x)
      BY <1>1, <2>1, Appended DEF Typed
    <2>2. CASE inbox' = inbox /\ lost' = lost \cup {x}
      BY <2>2 DEF Waits
    <2> QED
      BY <2>1, <2>2
  <1>3. \A mark \in Marks :
           /\ Rank(mark) <= Limit' => Rank(mark) <= Limit \/ mark = x
           /\ Accounted(mark) => Accounted(mark)'
           /\ Arrived(mark)' => Arrived(mark)
           /\ mark = x => Accounted(mark)'
    <2>1. ASSUME NEW mark \in Marks
          PROVE  Rank(mark) <= Limit' => Rank(mark) <= Limit \/ mark = x
      BY <1>1, MarksTimed
    <2> QED
      BY <1>2, <2>1 DEF Accounted, Arrived
  <1>4. \A t \in Utterances : Start(t) \in Marks /\ End(t) \in Marks
    BY Ranks
  <1>5. JobGap'
    BY <1>3 DEF Answers, JobGap
  <1>6. Served'
    BY <1>2, <1>3, <1>4 DEF Answers, Served
  <1>7. Heeded'
    <2>1. ASSUME NEW t \in Utterances, Arrived(Start(t))',
                 Rank(End(t)) <= Limit' => Waits(End(t))' \/ job' = t,
                 ~Answered(t)'
          PROVE  Speaking'
      <3>1. Arrived(Start(t)) /\ ~Answered(t)
        BY <1>3, <1>4, <2>1
      <3>2. Rank(End(t)) <= Limit => Waits(End(t)) \/ job = t
        <4>1. SUFFICES ASSUME Rank(End(t)) <= Limit PROVE Waits(End(t)) \/ job = t
          OBVIOUS
        <4>2. End(t) \in Marks /\ End(t) # x /\ Rank(End(t)) <= Limit'
          BY <1>1, <1>4, <4>1, MarksTimed
        <4> QED
          BY <1>2, <2>1, <4>2
      <3> QED
        BY <3>1, <3>2 DEF Answers, Heeded
    <2> QED
      BY <2>1 DEF Heeded
  <1> QED
    BY <1>5, <1>6, <1>7 DEF Answers

(* The loop takes the line at the head: an end goes to the pool, a start    *)
(* makes the processor listen.                                              *)
LEMMA AnswersRead ==
    ASSUME Typed, Queue, Answers, inbox # <<>>, inbox' = Tail(inbox), UNCHANGED <<mic, lost>>,
           job = None, job' = None \/ job' \in Utterances,
           \A t \in Utterances : Head(inbox) = End(t) <=> job' = t,
           Speaking' \/ ((Speaking' <=> Speaking)
                            /\ \A t \in Utterances : Head(inbox) # Start(t)),
           \A t \in Utterances : Answered(t) => Answered(t)'
    PROVE  Answers'
  <1> DEFINE h == Head(inbox)
  <1>1. \A line : Waits(line) <=> (Waits(line)' \/ line = h)
    BY Taken DEF Typed
  <1>2. Limit' = Limit /\ \A line \in Timed : Rank(line) \in Nat
    BY RankNat DEF Limit
  <1>3. \A t \in Utterances : Start(t) \in Marks /\ End(t) \in Marks /\ End(t) \in Timed /\ t # None
    BY Ranks, UtteranceAssumption, NoneAssumption
  <1> HIDE DEF h
  <1>4. JobGap'
    <2>1. ASSUME job' # None, NEW mark \in Marks,
                 Rank(End(job')) < Rank(mark), Rank(mark) <= Limit
          PROVE  Accounted(mark)'
      <3>1. End(job') \in Timed /\ h = End(job') /\ Waits(h)
        BY <1>1, <1>3, <2>1 DEF h
      <3>2. Accounted(mark)
        BY <2>1, <3>1 DEF Queue, NoGap
      <3>3. mark # h
        BY <1>2, <2>1, <3>1
      <3> QED
        BY <1>1, <3>2, <3>3 DEF Accounted
    <2> QED
      BY <1>2, <2>1 DEF JobGap
  <1>5. Served'
    <2>1. ASSUME NEW t \in Utterances, Arrived(End(t))', Start(t) \notin lost, job' # t
          PROVE  Answered(t)'
      <3>1. Arrived(End(t)) /\ job # t
        BY <1>1, <1>2, <1>3, <2>1 DEF Arrived, h
      <3> QED
        BY <2>1, <3>1 DEF Answers, Served
    <2> QED
      BY <2>1 DEF Served
  <1>6. Heeded'
    <2>1. ASSUME NEW t \in Utterances, Arrived(Start(t))',
                 Rank(End(t)) <= Limit' => Waits(End(t))' \/ job' = t,
                 ~Answered(t)', ~Speaking'
          PROVE  FALSE
      <3>1. Arrived(Start(t)) /\ ~Answered(t) /\ ~Speaking
        BY <1>1, <1>2, <1>3, <2>1 DEF Arrived, h
      <3>2. Rank(End(t)) <= Limit => Waits(End(t))
        BY <1>1, <1>2, <2>1 DEF h
      <3> QED
        BY <3>1, <3>2 DEF Answers, Heeded
    <2> QED
      BY <2>1 DEF Heeded
  <1> QED
    BY <1>4, <1>5, <1>6 DEF Answers

LEMMA EndsSay ==
    ASSUME PP!IInv, Speaking, NEW duration_ms \in Nat, duration_ms >= MIN_WINDOW_MS,
           NEW t \in Utterances, Processor!OnSpeechEnd(duration_ms, t)
    PROVE  1 \in DOMAIN emits' /\ (On(emits'[1], t) \/ emits'[1] = ErrorEvent("engine"))
  <1>1. PP!OnSpeechEnd(duration_ms, t) /\ t \in PP!OptionalTurn /\ PP!IsSpeaking
    BY SameEnd, SameSpeaking, UtteranceAssumption DEF PP!OptionalTurn
  <1>2. /\ 1 \in DOMAIN emits'
        /\ \/ PP!IsVerdict(emits'[1]) /\ emits'[1].turn_id = t
           \/ emits'[1] = PP!ErrorEvent("engine")
    BY <1>1, SameAssumptions, PP!EndSays, Zenon
  <1> QED
    BY <1>2, SameEvents DEF On, PP!ErrorEvent, ErrorEvent

(* While the pool works on the end of a turn, no other turn is open.        *)
LEMMA JobAlone ==
    ASSUME IInv, Answers, job \in Utterances, NEW t \in Utterances, t # job,
           Arrived(Start(t)), Rank(End(t)) <= Limit => Waits(End(t))
    PROVE  FALSE
  <1>1. /\ Rank(Start(t)) = 3 * t /\ Rank(End(t)) = 3 * t + 2 /\ Rank(End(job)) = 3 * job + 2
        /\ Start(t) \in Marks /\ End(t) \in Timed
        /\ t \in Nat /\ job \in Nat /\ Limit \in Nat
    BY Ranks, UtterancesAreNat, LimitNat DEF IInv
  <1>2. job # None
    BY UtteranceAssumption, NoneAssumption
  <1>3. CASE t > job
    <2>1. Rank(End(job)) < Rank(Start(t))
      BY <1>1, <1>3
    <2>2. Accounted(Start(t))
      BY <1>1, <1>2, <2>1 DEF Answers, JobGap, Arrived
    <2> QED
      BY <2>2 DEF Accounted, Arrived
  <1>4. CASE t < job
    <2>1. /\ Rank(End(job)) <= Limit
          /\ \A line \in Timed : Waits(line) => Rank(line) >= Rank(End(job))
      BY <1>2 DEF IInv, Queue, InOrder
    <2>2. Rank(End(t)) <= Limit /\ ~(Rank(End(t)) >= Rank(End(job)))
      BY <1>1, <1>4, <2>1
    <2> QED
      BY <1>1, <2>1, <2>2
  <1> QED
    BY <1>1, <1>3, <1>4

(* The pool is done: the turn of the job has its answer.                    *)
LEMMA AnswersJob ==
    ASSUME IInv, Answers, JobReturns
    PROVE  Answers'
  <1> USE DEF IInv
  <1>1. /\ pc = "blocked" /\ job \in Utterances /\ emits = <<>> /\ job' = None
        /\ failed \subseteq failed' /\ UNCHANGED <<inbox, mic, lost, published, dropped>>
        /\ job # None
    BY UtteranceAssumption, NoneAssumption DEF JobReturns, Control, Typed, world
  <1>0. PICK u \in Utterances : u = job
    BY <1>1
  <1>2. PICK duration_ms \in Durations :
           /\ Processor!OnSpeechEnd(duration_ms, job)
           /\ excused' = IF Speaking /\ duration_ms < MIN_WINDOW_MS
                         THEN excused \cup {job} ELSE excused
    BY DEF JobReturns, Speaking
  <1>3. duration_ms \in Nat /\ MIN_WINDOW_MS \in Nat
    BY DaemonAssumption, ProcessorAssumption
  <1>4. \A t \in Utterances : Answered(t) => Answered(t)'
    BY <1>1, <1>2, AnsweredStays
  <1>5. /\ Limit' = Limit /\ (\A line : Waits(line)' <=> Waits(line))
        /\ \A mark : Arrived(mark)' <=> Arrived(mark)
    BY <1>1 DEF Limit, Waits, Arrived
  <1>6. /\ Rank(End(job)) <= Limit
        /\ \A line \in Timed : Waits(line) => Rank(line) >= Rank(End(job))
    BY <1>1 DEF Queue, InOrder
  <1>7. ASSUME Start(job) \notin lost
        PROVE  Answered(u)'
    <2>1. Arrived(Start(job))
      <3>1. /\ Rank(Start(job)) = 3 * job /\ Rank(End(job)) = 3 * job + 2
            /\ Start(job) \in Timed /\ job \in Nat /\ Limit \in Nat
        BY <1>1, Ranks, UtterancesAreNat, LimitNat
      <3>2. 3 * job <= Limit /\ ~(3 * job >= 3 * job + 2)
        BY <1>6, <3>1
      <3> QED
        BY <1>6, <1>7, <3>1, <3>2 DEF Arrived
    <2>2. Answered(job) \/ Speaking
      BY <1>1, <2>1 DEF Answers, Heeded
    <2>3. CASE Speaking /\ duration_ms < MIN_WINDOW_MS
      BY <1>0, <1>2, <2>3 DEF Answered
    <2>4. CASE Speaking /\ duration_ms >= MIN_WINDOW_MS
      <3>1. 1 \in DOMAIN emits' /\ (On(emits'[1], job) \/ emits'[1] = ErrorEvent("engine"))
        BY <1>1, <1>2, <1>3, <2>4, EndsSay
      <3>2. emits'[1] \in Voiced'
        BY <3>1 DEF Voiced
      <3>3. CASE On(emits'[1], job)
        BY <1>0, <3>2, <3>3 DEF Answered, On, IsVerdict
      <3>4. CASE emits'[1] = ErrorEvent("engine")
        <4>1. emits' # <<>> /\ Head(emits') = ErrorEvent("engine")
          BY <3>1, <3>4
        <4>2. job \in failed'
          BY <4>1 DEF JobReturns
        <4> QED
          BY <1>0, <3>2, <3>4, <4>2 DEF Answered, ErrorEvent
      <3> QED
        BY <3>1, <3>3, <3>4
    <2> QED
      BY <1>0, <1>3, <1>4, <2>2, <2>3, <2>4
  <1>8. JobGap'
    BY <1>1 DEF JobGap
  <1>9. Served'
    <2>1. ASSUME NEW t \in Utterances, Arrived(End(t))', Start(t) \notin lost
          PROVE  Answered(t)'
      BY <1>0, <1>4, <1>5, <1>7, <2>1 DEF Answers, Served
    <2> QED
      BY <1>1, <2>1 DEF Served
  <1>10. ASSUME NEW t \in Utterances, Arrived(Start(t)),
                Rank(End(t)) <= Limit => Waits(End(t)), ~Answered(t)'
         PROVE  FALSE
    <2>1. t # job
      BY <1>0, <1>7, <1>10 DEF Arrived
    <2> QED
      BY <1>1, <1>10, <2>1, JobAlone
  <1>11. Heeded'
    <2>1. \A t \in Utterances : None # t
      BY UtteranceAssumption, NoneAssumption
    <2> QED
      BY <1>1, <1>5, <1>10, <2>1 DEF Heeded
  <1> QED
    BY <1>8, <1>9, <1>11 DEF Answers

(* The job panics, in finalise or in the parked reload: its turn is excused *)
(* and, since no other is open, it does not matter who listens after it.    *)
LEMMA AnswersPanic ==
    ASSUME IInv, Answers, FinalisePanics \/ ReloadPanics
    PROVE  Answers'
  <1>1. /\ UNCHANGED <<inbox, mic, lost, published, emits, dropped, failed>>
        /\ job \in Utterances /\ job' = None /\ excused' = excused \cup {job}
    BY DEF FinalisePanics, ReloadPanics, Unwound, world, IInv, Typed, Control
  <1>0. PICK u \in Utterances : u = job
    BY <1>1
  <1>2. \A t \in Utterances : Answered(t) => Answered(t)'
    BY <1>1, AnsweredStays DEF IInv
  <1>3. Answered(u)'
    BY <1>0, <1>1 DEF Answered
  <1>4. /\ Limit' = Limit /\ (\A line : Waits(line)' <=> Waits(line))
        /\ \A mark : Arrived(mark)' <=> Arrived(mark)
    BY <1>1 DEF Limit, Waits, Arrived
  <1>5. \A t \in Utterances : t # None
    BY UtteranceAssumption, NoneAssumption
  <1>6. JobGap'
    BY <1>1 DEF JobGap
  <1>7. Served'
    BY <1>0, <1>1, <1>2, <1>3, <1>4 DEF Answers, Served
  <1>8. Heeded'
    <2>1. ASSUME NEW t \in Utterances, Arrived(Start(t)),
                 Rank(End(t)) <= Limit => Waits(End(t)), ~Answered(t)'
          PROVE  FALSE
      BY <1>0, <1>1, <1>3, <2>1, JobAlone
    <2> QED
      BY <1>1, <1>4, <1>5, <2>1 DEF Heeded
  <1> QED
    BY <1>6, <1>7, <1>8 DEF Answers

LEMMA AnswersPadded ==
    ASSUME IInv, Answers, UNCHANGED <<state, mic, job>>, lost \subseteq lost', NEW x \in Lines,
           inbox' = inbox \/ inbox' = Append(inbox, x), x \in Timed => Waits(x),
           \A t \in Utterances : Answered(t) => Answered(t)'
    PROVE  Answers'
  <1>1. \A line \in Timed : Waits(line)' <=> Waits(line)
    <2>1. CASE inbox' = inbox
      BY <2>1 DEF Waits
    <2>2. CASE inbox' = Append(inbox, x)
      BY <2>2, Appended DEF IInv, Typed
    <2> QED
      BY <2>1, <2>2
  <1>2. Speaking' <=> Speaking
    BY DEF Speaking, Processor!IsSpeaking
  <1> QED
    BY <1>1, <1>2, AnswersSame

LEMMA AnswersWorld ==
    ASSUME IInv, Typed', Answers, World
    PROVE  Answers'
  <1>1. ASSUME UNCHANGED <<processor, emits, loop, history>>
        PROVE  /\ \A t \in Utterances : Answered(t) => Answered(t)'
               /\ UNCHANGED <<state, job>> /\ (Speaking' <=> Speaking)
    BY <1>1, AnsweredStays
    DEF IInv, processor, loop, history, Speaking, Processor!IsSpeaking
  <1>2. ASSUME NEW line \in Lines \ Timed, Send(line),
               UNCHANGED <<processor, emits, loop, history, mic>>
        PROVE  Answers'
    <2>1. lost \subseteq lost' /\ (inbox' = inbox \/ inbox' = Append(inbox, line))
      BY <1>2, Sent DEF IInv
    <2> QED
      BY <1>1, <1>2, <2>1, AnswersPadded
  <1>3. ASSUME NEW x \in Timed, Utters(x)
        PROVE  Answers'
    <2>1. /\ \/ inbox' = Append(inbox, x) /\ lost' = lost
             \/ inbox' = inbox /\ lost' = lost \cup {x}
      BY <1>3, LinesAre, Sent DEF IInv, Utters
    <2>2. UNCHANGED <<processor, emits, loop, history>>
      BY <1>3 DEF Utters
    <2> QED
      BY <1>1, <1>3, <2>1, <2>2, AnswersSent DEF Utters, IInv
  <1>4. ASSUME NEW name \in Models \cup {UnknownModel}, OperatorReloads(name)
        PROVE  Answers'
    <2>1. ReloadRequest(name) \in Lines \ Timed
      BY LinesAre, Untimed
    <2> QED
      BY <1>2, <1>4, <2>1 DEF OperatorReloads
  <1>5. ASSUME NEW line \in {Malformed, NoEvent}, StrayLine(line)
        PROVE  Answers'
    <2>1. line \in Lines \ Timed
      BY LinesAre, Untimed
    <2> QED
      BY <1>2, <1>5, <2>1 DEF StrayLine
  <1>6. CASE LineRepeated
    <2>1. inbox[Len(inbox)] \in Lines /\ Waits(inbox[Len(inbox)])
      BY <1>6 DEF LineRepeated, IInv, Typed, Waits
    <2>2. /\ UNCHANGED <<processor, emits, loop, history, mic, lost>>
          /\ inbox' = Append(inbox, inbox[Len(inbox)])
      BY <1>6 DEF LineRepeated
    <2> QED
      BY <1>1, <2>1, <2>2, AnswersPadded
  <1>7. CASE BusCloses
    <2>1. UNCHANGED <<processor, emits, loop, history, mic, lost, inbox>>
      BY <1>7 DEF BusCloses
    <2> QED
      BY <1>1, <2>1, LinesAre, Untimed, AnswersPadded
  <1> QED
    BY <1>3, <1>4, <1>5, <1>6, <1>7, MicStartUtters, MicChunkUtters, MicEndUtters DEF World

(* The loop reads, publishes, reports or stops.                             *)
LEMMA AnswersLoop ==
    ASSUME IInv, Answers, Loop
    PROVE  Answers'
  <1>1. ASSUME NEW line, ReadLine(line), job' = None \/ job' \in Utterances,
               \A t \in Utterances : line = End(t) <=> job' = t,
               Speaking' \/ ((Speaking' <=> Speaking) /\ \A t \in Utterances : line # Start(t))
        PROVE  Answers'
    <2>1. /\ inbox # <<>> /\ inbox' = Tail(inbox) /\ Head(inbox) = line
          /\ UNCHANGED <<bus, mic, lost, published, dropped, failed, excused>>
          /\ emits = <<>> /\ job = None
      BY <1>1, Read
    <2>2. \A t \in Utterances : Answered(t) => Answered(t)'
      BY <2>1, AnsweredStays DEF IInv
    <2> QED
      BY <1>1, <2>1, <2>2, AnswersRead DEF IInv
  <1>2. ASSUME NEW line, ReadLine(line), UNCHANGED job, Speaking' <=> Speaking,
               \A t \in Utterances : line # Start(t) /\ line # End(t)
        PROVE  Answers'
    <2>1. job' = None /\ \A t \in Utterances : job' # t
      BY <1>2, Read, UtteranceAssumption, NoneAssumption
    <2> QED
      BY <1>1, <1>2, <2>1
  <1>3. \A t \in Utterances, line \in {NoEvent, Unknown, Malformed} :
           line # Start(t) /\ line # End(t)
    BY DEF NoEvent, Unknown, Malformed, Start, End
  <1>4. UNCHANGED state => (Speaking' <=> Speaking)
    BY DEF Speaking, Processor!IsSpeaking
  <1>5. CASE SkipLine
    BY <1>2, <1>3, <1>4, <1>5 DEF SkipLine, loop, processor
  <1>6. CASE DecodeFails
    BY <1>2, <1>3, <1>4, <1>6 DEF DecodeFails, processor
  <1>7. CASE DispatchInline
    <2>0. UNCHANGED job /\ PP!IInv
      BY <1>7 DEF DispatchInline, IInv
    <2>1. ASSUME NEW u \in Utterances, NEW ts \in 0 .. MaxTs,
                 ReadLine(Start(u)), Processor!OnSpeechStart(ts)
          PROVE  Answers'
      <3>1. Speaking'
        BY <2>0, <2>1, Starts
      <3>2. job' = None /\ \A t \in Utterances : job' # t /\ Start(u) # End(t)
        BY <2>0, <2>1, Read, UtteranceAssumption, NoneAssumption DEF Start, End
      <3> QED
        BY <1>1, <2>1, <3>1, <3>2
    <2>2. ASSUME NEW u \in Utterances, NEW ts \in 0 .. MaxTs,
                 ReadLine(Chunk(u)), Processor!OnSpeechChunk(<<u>>, ts)
          PROVE  Answers'
      <3>1. Speaking' <=> Speaking
        BY <2>0, <2>2, Hears
      <3>2. \A t \in Utterances : Chunk(u) # Start(t) /\ Chunk(u) # End(t)
        BY DEF Chunk, Start, End
      <3> QED
        BY <1>2, <2>0, <2>2, <3>1, <3>2
    <2>3. ASSUME NEW name \in Models \cup {UnknownModel},
                 ReadLine(ReloadRequest(name)), Processor!OnReloadModel(name)
          PROVE  Answers'
      <3>1. Speaking' <=> Speaking
        BY <2>0, <2>3, Reloads
      <3>2. \A t \in Utterances : ReloadRequest(name) # Start(t) /\ ReloadRequest(name) # End(t)
        BY DEF ReloadRequest, Start, End
      <3> QED
        BY <1>2, <2>0, <2>3, <3>1, <3>2
    <2> QED
      BY <1>7, <2>1, <2>2, <2>3 DEF DispatchInline
  <1>8. CASE DispatchBlocking
    <2>1. PICK u \in Utterances : ReadLine(End(u)) /\ job' = u
      BY <1>8 DEF DispatchBlocking
    <2>2. /\ \A t \in Utterances : End(u) = End(t) <=> u = t
          /\ \A t \in Utterances : End(u) # Start(t)
      BY DEF Start, End
    <2>3. Speaking' <=> Speaking
      BY <1>4, <1>8 DEF DispatchBlocking, processor
    <2> QED
      BY <1>1, <2>1, <2>2, <2>3
  <1>9. ASSUME UNCHANGED <<state, mic, job, lost, failed, excused>>,
               inbox' = inbox \/ inbox' = Append(inbox, Unknown),
               \/ dropped' = TRUE
               \/ dropped' = dropped /\ UNCHANGED <<published, emits>>
               \/ /\ dropped' = dropped /\ emits # <<>>
                  /\ published' = Append(published, Head(emits)) /\ emits' = Tail(emits)
               \/ /\ dropped' = dropped /\ emits = <<>>
                  /\ published' = Append(published, ErrorEvent("bus"))
        PROVE  Answers'
    <2>1. \A t \in Utterances : Answered(t) => Answered(t)'
      BY <1>9, AnsweredStays DEF IInv
    <2> QED
      BY <1>9, <2>1, LinesAre, Untimed, AnswersPadded
  <1>10. CASE PublishNext
    BY <1>9, <1>10, Reached DEF PublishNext, processor, loop
  <1>11. CASE PublishFails
    BY <1>9, <1>11, Reached DEF PublishFails, processor
  <1>12. CASE DispatchDone \/ ReadEnds
    BY <1>9, <1>12 DEF DispatchDone, ReadEnds, processor, world, history
  <1>13. CASE ReportError
    BY <1>9, <1>13, Reached DEF ReportError, processor, IInv, Control
  <1> QED
    BY <1>5, <1>6, <1>7, <1>8, <1>10, <1>11, <1>12, <1>13 DEF Loop

LEMMA InitAnswers == Init => Answers
  <1> SUFFICES ASSUME Init PROVE Answers
    OBVIOUS
  <1>1. job = None /\ Limit = 2 /\ mic.utterance = 0
    BY DEF Init, Limit
  <1>2. \A t \in Utterances : ~(Rank(Start(t)) <= 2) /\ ~(Rank(End(t)) <= 2)
    BY Ranks, UtterancesAreNat
  <1> QED
    BY <1>1, <1>2 DEF Answers, JobGap, Served, Heeded, Arrived

LEMMA NextKeepsAnswers == IInv /\ IInv' /\ Answers /\ [Next]_vars => Answers'
  <1> SUFFICES ASSUME IInv, IInv', Answers, [Next]_vars PROVE Answers'
    OBVIOUS
  <1>1. CASE UNCHANGED vars
    <2>1. UNCHANGED <<state, mic, job, lost, inbox, emits, history>>
      BY <1>1 DEF vars, processor, loop, world
    <2>2. \A t \in Utterances : Answered(t) => Answered(t)'
      BY <2>1, AnsweredStays DEF IInv, history
    <2> QED
      BY <2>1, <2>2, LinesAre, Untimed, AnswersPadded
  <1>2. CASE World
    BY <1>2, AnswersWorld DEF IInv
  <1>3. CASE BlockingPool
    BY <1>3, AnswersJob, AnswersPanic DEF BlockingPool
  <1> QED
    BY <1>1, <1>2, <1>3, AnswersLoop DEF Next

(* No turn goes by in silence, whatever is lost, repeated or malformed and  *)
(* whichever job panics before it, in finalise or in a parked reload.       *)
THEOREM NoSilentTurn == Spec => []ReadTurnsAreAnswered
  <1>1. ASSUME IInv, Answers, NEW t \in Utterances,
               t < mic.utterance \/ (t = mic.utterance /\ ~mic.speaking),
               {Start(t), End(t)} \cap lost = {},
               \A i \in DOMAIN inbox : inbox[i] # End(t),
               pc \in {"reading", "stopped"}, ~dropped
        PROVE  \/ VerdictsOf(t) # {}
               \/ t \in failed /\ ErrorEvent("engine") \in {published[i] : i \in DOMAIN published}
               \/ t \in excused
    <2>1. emits = <<>> /\ job # t
      BY <1>1, UtteranceAssumption, NoneAssumption DEF IInv, Control
    <2>2. Rank(End(t)) <= Limit
      <3>1. Rank(End(t)) = 3 * t + 2 /\ t \in Nat
        BY Ranks, UtterancesAreNat
      <3>2. mic.utterance \in Nat
        BY <1>1, UtterancesAreNat DEF IInv, Typed
      <3> QED
        BY <1>1, <3>1, <3>2 DEF Limit
    <2>3. Answered(t)
      BY <1>1, <2>1, <2>2 DEF Answers, Served, Arrived, Waits
    <2>4. Voiced = {published[i] : i \in DOMAIN published}
      BY <2>1 DEF Voiced
    <2> QED
      BY <1>1, <2>3, <2>4 DEF Answered, On, VerdictsOf
  <1>2. IInv /\ Answers => ReadTurnsAreAnswered
    BY <1>1 DEF ReadTurnsAreAnswered
  <1>3. Spec => []Answers
    BY InitAnswers, NextKeepsAnswers, Invariance, PTL DEF Spec
  <1> QED
    BY <1>2, <1>3, Invariance, PTL
============================================================================
