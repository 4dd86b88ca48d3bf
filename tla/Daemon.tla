------------------------------- MODULE Daemon -------------------------------
(* The live loop of wm-stt (src/daemon.rs): it reads lines from the bus one *)
(* at a time, folds each request through the UtteranceProcessor - on the    *)
(* blocking pool for a speech.end - and publishes what it returns.  Around  *)
(* it: wm-audio and the operator, who publish the requests, and a bus that  *)
(* may lose lines, refuse or drop a publish, and close.                     *)
(*                                                                          *)
(* A chunk of utterance u is the single sample u, and u is also its turn    *)
(* id, so a text shows which utterances it was decoded from.                *)
EXTENDS SttEvents, FiniteSets

CONSTANTS
    BadPcm, UnknownModel, PARTIAL_CADENCE_MS, MIN_WINDOW_MS, MAX_WINDOW_MS,
    Threshold, MaxTs, MaxSamples,
    LastUtterance, \* bound: utterances the microphone hears
    Durations,     \* durations speech.end reports
    Lossy,         \* the bus may lose a line on its way to the daemon
    Repeating,     \* a publisher may send a line twice
    Failing,       \* a publish may fail or be refused
    Unwinds,       \* a panic on the pool unwinds (dev) or aborts (release)
    Echoing,       \* the subscription also matches what wm-stt publishes
    MaxChunks,     \* bound: chunks of one utterance
    MaxReloads,    \* bound: reload requests
    MaxEchoes,     \* bound: echoed, repeated and undecodable lines
    MaxExtras      \* bound: all these together

Utterances == 1 .. LastUtterance

ASSUME UtteranceAssumption ==
    /\ LastUtterance \in Nat
    /\ TurnIds = Utterances /\ Samples = Utterances
    /\ Chunks = {<<u>> : u \in Utterances}

(* What UtteranceProcessor assumes of the constants it is given.            *)
ASSUME ProcessorAssumption ==
    /\ BadPcm \notin Chunks /\ UnknownModel \notin Models
    /\ PARTIAL_CADENCE_MS \in Nat \ {0}
    /\ {MIN_WINDOW_MS, MAX_WINDOW_MS, MaxTs, MaxSamples} \subseteq Nat
    /\ MIN_WINDOW_MS <= MAX_WINDOW_MS
    /\ Threshold \in 1 .. MaxConfidence

ASSUME DaemonAssumption ==
    /\ Durations \subseteq 0 .. MAX_WINDOW_MS + 1
    /\ {Lossy, Repeating, Failing, Unwinds, Echoing} \subseteq BOOLEAN
    /\ {MaxChunks, MaxReloads, MaxEchoes, MaxExtras} \subseteq Nat

VARIABLES
    (* the UtteranceProcessor; `emits` is what dispatch has yet to publish *)
    state, pending_reload, engine, emits, partials,
    (* the loop *)
    pc,         \* "reading", "blocked", "publishing", "reporting", "stopped"
    job,        \* the speech.end the blocking pool works on, or None
    (* the world *)
    inbox,      \* lines the bus sent that were not read yet
    bus,        \* "open" or "closed"
    mic,        \* what wm-audio is doing
    reloads,    \* reload requests made
    echoes,     \* lines no request came with
    (* history *)
    published,  \* events that reached the bus, in order
    dropped,    \* some event of wm-stt did not reach the bus
    lost,       \* lines of wm-audio that did not reach the daemon
    requests,   \* lines read on a topic of ours
    failed,     \* turns whose finalise returned Err
    excused     \* turns whose window was too short, or whose end panicked

history == <<published, dropped, requests, failed, excused>>

processor == <<state, pending_reload, engine, partials>>
loop == <<pc, job>>
world == <<inbox, bus, mic, reloads, echoes, lost>>
vars == <<processor, emits, loop, world, history>>

Processor == INSTANCE UtteranceProcessor
----------------------------------------------------------------------------
(* Lines on the subscribe connection.                                       *)
Start(u) == [topic |-> "start", utterance |-> u]
Chunk(u) == [topic |-> "chunk", utterance |-> u]
End(u) == [topic |-> "end", utterance |-> u]
ReloadRequest(name) == [topic |-> "reload_model", model |-> name]
Malformed == [topic |-> "malformed"]   \* a topic of ours, a payload that is not
Unknown == [topic |-> "unknown"]       \* any other topic: an echo, for one
NoEvent == [topic |-> "none"]          \* a heartbeat's reply, or no JSON at all

Init ==
    /\ Processor!Init
    /\ pc = "reading"
    /\ job = None
    /\ inbox = <<>>
    /\ bus = "open"
    /\ mic = [utterance |-> 0, speaking |-> FALSE, chunks |-> 0]
    /\ reloads = 0
    /\ echoes = 0
    /\ published = <<>>
    /\ dropped = FALSE
    /\ lost = {}
    /\ requests = 0
    /\ failed = {} /\ excused = {}
----------------------------------------------------------------------------
(* The world.                                                               *)

MayReload == reloads < MaxReloads /\ reloads + echoes < MaxExtras
MayEcho == echoes < MaxEchoes /\ reloads + echoes < MaxExtras

Send(line) ==
    /\ bus = "open"
    /\ \/ /\ inbox' = Append(inbox, line)
          /\ UNCHANGED lost
       \/ /\ Lossy
          /\ lost' = lost \cup {line}
          /\ UNCHANGED inbox

MicStart ==
    /\ ~mic.speaking
    /\ mic.utterance + 1 \in Utterances
    /\ mic' = [utterance |-> mic.utterance + 1, speaking |-> TRUE, chunks |-> 0]
    /\ Send(Start(mic.utterance + 1))
    /\ UNCHANGED <<processor, emits, loop, bus, reloads, echoes, history>>

MicChunk ==
    /\ mic.speaking
    /\ mic.chunks < MaxChunks
    /\ mic' = [mic EXCEPT !.chunks = @ + 1]
    /\ Send(Chunk(mic.utterance))
    /\ UNCHANGED <<processor, emits, loop, bus, reloads, echoes, history>>

MicEnd ==
    /\ mic.speaking
    /\ mic' = [mic EXCEPT !.speaking = FALSE]
    /\ Send(End(mic.utterance))
    /\ UNCHANGED <<processor, emits, loop, bus, reloads, echoes, history>>

OperatorReloads(name) ==
    /\ MayReload
    /\ reloads' = reloads + 1
    /\ Send(ReloadRequest(name))
    /\ UNCHANGED <<processor, emits, loop, bus, mic, echoes, history>>

(* Somebody publishes a bad payload on a topic of ours, or the reply to a   *)
(* heartbeat, or a line that is not JSON, arrives between the events.       *)
StrayLine(line) ==
    /\ MayEcho
    /\ echoes' = echoes + 1
    /\ Send(line)
    /\ UNCHANGED <<processor, emits, loop, bus, mic, reloads, history>>

(* A publisher that missed the reply of the bus sends its line again.       *)
LineRepeated ==
    /\ Repeating
    /\ MayEcho
    /\ bus = "open" /\ inbox # <<>>
    /\ echoes' = echoes + 1
    /\ inbox' = Append(inbox, inbox[Len(inbox)])
    /\ UNCHANGED <<processor, emits, loop, bus, mic, reloads, lost, history>>

BusCloses ==
    /\ bus = "open"
    /\ bus' = "closed"
    /\ UNCHANGED <<processor, emits, loop, inbox, mic, reloads, echoes, lost,
                   history>>
----------------------------------------------------------------------------
(* The loop of run().                                                       *)

ReadLine(line) ==
    /\ pc = "reading"
    /\ inbox # <<>>
    /\ line = Head(inbox)
    /\ inbox' = Tail(inbox)
    /\ UNCHANGED <<bus, mic, reloads, echoes, lost, published, dropped, failed, excused>>

(* Mutant of SkipLine: a topic that is not ours is reported.                *)
SkipReports ==
    /\ \/ ReadLine(NoEvent) /\ UNCHANGED pc
       \/ ReadLine(Unknown) /\ pc' = "reporting"
    /\ UNCHANGED <<processor, emits, job, requests>>

(* Replies, lines that do not parse and topics that are not ours are        *)
(* skipped without a word.                                                  *)
SkipLine ==
    /\ \E line \in {NoEvent, Unknown} : ReadLine(line)
    /\ UNCHANGED <<processor, emits, loop, requests>>

(* decode_request failed on a topic of ours: say so, best effort.           *)
DecodeFails ==
    /\ ReadLine(Malformed)
    /\ requests' = requests + 1
    /\ pc' = "reporting"
    /\ UNCHANGED <<processor, emits, job>>

(* dispatch of anything but a speech.end: the processor runs on the task of *)
(* the loop.                                                                *)
DispatchInline ==
    /\ \/ \E u \in Utterances, ts \in 0 .. MaxTs :
             ReadLine(Start(u)) /\ Processor!OnSpeechStart(ts)
       \/ \E u \in Utterances, ts \in 0 .. MaxTs :
             ReadLine(Chunk(u)) /\ Processor!OnSpeechChunk(<<u>>, ts)
       \/ \E name \in Models \cup {UnknownModel} :
             ReadLine(ReloadRequest(name)) /\ Processor!OnReloadModel(name)
    /\ requests' = requests + 1
    /\ pc' = "publishing"
    /\ UNCHANGED job

(* Mutant of DispatchBlocking: the loop does not wait for the pool.         *)
DispatchDetached ==
    /\ \E u \in Utterances : ReadLine(End(u)) /\ job' = u
    /\ requests' = requests + 1
    /\ UNCHANGED <<processor, emits, pc>>

(* dispatch of a speech.end: the loop waits for the blocking pool.          *)
DispatchBlocking ==
    /\ \E u \in Utterances : ReadLine(End(u)) /\ job' = u
    /\ requests' = requests + 1
    /\ pc' = "blocked"
    /\ UNCHANGED <<processor, emits>>

JobReturns ==
    /\ pc = "blocked"
    /\ \E duration_ms \in Durations :
          /\ Processor!OnSpeechEnd(duration_ms, job)
          /\ excused' = IF Processor!IsSpeaking /\ duration_ms < MIN_WINDOW_MS
                        THEN excused \cup {job} ELSE excused
    /\ pc' = "publishing"
    /\ job' = None
    /\ failed' = IF emits' # <<>> /\ Head(emits') = ErrorEvent("engine")
                 THEN failed \cup {job}
                 ELSE failed
    /\ UNCHANGED <<world, published, dropped, requests>>

(* A panic on the pool takes the job with it: what handle had formed of its *)
(* events is lost and the loop gets a JoinError.  The next request recovers *)
(* the lock and finds the processor as the panic left it.                   *)
Unwound ==
    /\ pc = "blocked"
    /\ Unwinds
    /\ Processor!IsSpeaking
    /\ pc' = "reporting"
    /\ job' = None
    /\ excused' = excused \cup {job}
    /\ UNCHANGED <<partials, emits, world, published, dropped, requests, failed>>

(* finalise panics: WhisperEngine had taken its buffer, and on_speech_end   *)
(* went no further - no reset, no Idle, no parked reload.                   *)
(* (The partial window of WhisperEngine survives the panic: what is said    *)
(* here of texts after a panic is said of verdicts, not of partials.)       *)
FinalisePanics ==
    /\ \E duration_ms \in Durations : duration_ms \in MIN_WINDOW_MS .. MAX_WINDOW_MS
    /\ Unwound
    /\ engine' = Processor!Reset(engine)
    /\ UNCHANGED <<state, pending_reload>>

(* The parked reload panics, behind any of the three ways to end an         *)
(* utterance: the engine is reset, the processor Idle and the reload taken, *)
(* but the model is not loaded and the verdict, formed before, is lost.     *)
ReloadPanics ==
    /\ pending_reload # None
    /\ Unwound
    /\ engine' = Processor!Reset(engine)
    /\ state' = Processor!Idle
    /\ pending_reload' = None

(* What reaches the bus comes back as a line when the subscription matches. *)
Reaches(event) ==
    /\ published' = Append(published, event)
    /\ \/ /\ Echoing /\ MayEcho
          /\ echoes' = echoes + 1
          /\ inbox' = Append(inbox, Unknown)
       \/ UNCHANGED <<echoes, inbox>>

(* Mutant of PublishNext: only the first event of a request is published.   *)
PublishFirstOnly ==
    /\ pc = "publishing"
    /\ emits # <<>>
    /\ bus = "open"
    /\ Reaches(Head(emits))
    /\ emits' = <<>>
    /\ UNCHANGED <<processor, loop, bus, mic, reloads, lost, requests, dropped, failed, excused>>

(* AgoraSink::publish returns Ok for a refusal of the bus as well.          *)
PublishNext ==
    /\ pc = "publishing"
    /\ emits # <<>>
    /\ \/ /\ bus = "open"
          /\ Reaches(Head(emits))
          /\ UNCHANGED dropped
       \/ /\ bus = "open" /\ Failing
          /\ dropped' = TRUE
          /\ UNCHANGED <<published, echoes, inbox>>
    /\ emits' = Tail(emits)
    /\ UNCHANGED <<processor, loop, bus, mic, reloads, lost, requests, failed, excused>>

(* Mutant of PublishFails: the event is tried again.                        *)
PublishRetries ==
    /\ pc = "publishing"
    /\ emits # <<>>
    /\ bus = "open" /\ Failing
    /\ Reaches(Head(emits))
    /\ UNCHANGED <<processor, emits, loop, bus, mic, reloads, lost, requests, dropped, failed, excused>>

(* A publish that returns Err, whether or not the event got through, ends   *)
(* the dispatch: what is left of the emits is never published.              *)
PublishFails ==
    /\ pc = "publishing"
    /\ emits # <<>>
    /\ bus = "closed" \/ Failing
    /\ \/ bus = "open" /\ Reaches(Head(emits))
       \/ UNCHANGED <<published, echoes, inbox>>
    /\ emits' = <<>>
    /\ dropped' = TRUE
    /\ pc' = "reporting"
    /\ UNCHANGED <<processor, job, bus, mic, reloads, lost, requests, failed, excused>>

DispatchDone ==
    /\ pc = "publishing"
    /\ emits = <<>>
    /\ pc' = "reading"
    /\ UNCHANGED <<processor, emits, job, world, history>>

(* publish_error: its own failure is ignored.                               *)
ReportError ==
    /\ pc = "reporting"
    /\ \/ /\ bus = "open"
          /\ Reaches(ErrorEvent("bus"))
          /\ UNCHANGED dropped
       \/ /\ bus = "closed" \/ Failing
          /\ dropped' = TRUE
          /\ UNCHANGED <<published, echoes, inbox>>
    /\ pc' = "reading"
    /\ UNCHANGED <<processor, emits, job, bus, mic, reloads, lost, requests, failed, excused>>

(* Mutant of ReadEnds: the end of the stream is taken for an empty read.    *)
ReadEndsOnErrorOnly ==
    /\ pc = "reading"
    /\ Failing
    /\ pc' = "stopped"
    /\ UNCHANGED <<processor, emits, job, world, history>>

(* The wire is at its end and every line was read; or reading it failed.    *)
ReadEnds ==
    /\ pc = "reading"
    /\ \/ bus = "closed" /\ inbox = <<>>
       \/ Failing
    /\ pc' = "stopped"
    /\ UNCHANGED <<processor, emits, job, world, history>>

Loop ==
    \/ SkipLine
    \/ DecodeFails
    \/ DispatchInline
    \/ DispatchBlocking
    \/ PublishNext
    \/ PublishFails
    \/ DispatchDone
    \/ ReportError
    \/ ReadEnds

BlockingPool == JobReturns \/ FinalisePanics \/ ReloadPanics

World ==
    \/ MicStart
    \/ MicChunk
    \/ MicEnd
    \/ \E name \in Models \cup {UnknownModel} : OperatorReloads(name)
    \/ \E line \in {Malformed, NoEvent} : StrayLine(line)
    \/ LineRepeated
    \/ BusCloses

Next == Loop \/ BlockingPool \/ World

Spec == Init /\ [][Next]_vars

(* tokio runs a task that is ready and a blocking job that is queued, and   *)
(* the client of the bus answers or fails; wm-audio ends what it started.   *)
Fairness == WF_vars(Loop) /\ WF_vars(BlockingPool) /\ WF_vars(MicEnd)

FairSpec == Spec /\ Fairness
----------------------------------------------------------------------------
Lines ==
    {Start(u) : u \in Utterances} \cup {Chunk(u) : u \in Utterances}
    \cup {End(u) : u \in Utterances}
    \cup {ReloadRequest(name) : name \in Models \cup {UnknownModel}}
    \cup {Malformed, Unknown, NoEvent}

(* Every variable stays in its type.                                        *)
TypeOK ==
    /\ Processor!TypeOK
    /\ pc \in {"reading", "blocked", "publishing", "reporting", "stopped"}
    /\ job \in Utterances \cup {None}
    /\ inbox \in Seq(Lines)
    /\ bus \in {"open", "closed"}
    /\ mic.utterance \in Utterances \cup {0}
    /\ lost \subseteq Lines
    /\ failed \subseteq Utterances /\ excused \subseteq Utterances
    /\ published \in Seq(Emit)

VerdictsOf(turn) ==
    {i \in DOMAIN published : IsVerdict(published[i]) /\ published[i].turn_id = turn}

(* A verdict on turn t speaks of utterance t alone.  Audio of an earlier    *)
(* utterance s gets into it only if between the two every speech.end and    *)
(* every speech.start was lost: any one of them that arrives, in whatever   *)
(* state the daemon is - after a panic too - cuts the utterances apart.     *)
CrossTalkNeedsLostDelimiters ==
    \A t \in Utterances : \A v \in VerdictsOf(t) :
        \A i \in DOMAIN published[v].text.of :
            LET s == published[v].text.of[i]
            IN  s <= t /\ \A k \in s .. t - 1 : {End(k), Start(k + 1)} \subseteq lost

(* One speech.end, at most one verdict: a publish that fails after it got   *)
(* through is not repeated.                                                 *)
AtMostOneVerdict == \A t \in Utterances : Cardinality(VerdictsOf(t)) <= 1

(* No turn goes by in silence.  Once a speech.end was read whose start was  *)
(* not lost, and the loop is ready for the next line, its verdict is on the *)
(* bus, or the error that stands for it - unless a publish failed, the      *)
(* window was too short to be speech, or its own end panicked: finalise, or *)
(* the reload that was parked behind the turn, which takes a verdict that   *)
(* was formed already with it.  Lines before it that were lost, repeated or *)
(* malformed, reloads that fail, and panics of earlier turns do not cost a  *)
(* turn its answer.                                                         *)
ReadTurnsAreAnswered ==
    \A t \in Utterances :
        (/\ t < mic.utterance \/ (t = mic.utterance /\ ~mic.speaking)
         /\ {Start(t), End(t)} \cap lost = {}
         /\ \A i \in DOMAIN inbox : inbox[i] # End(t)
         /\ pc \in {"reading", "stopped"}
         /\ ~dropped) =>
            \/ VerdictsOf(t) # {}
            \/ t \in failed /\ ErrorEvent("engine") \in {published[i] : i \in DOMAIN published}
            \/ t \in excused

(* What wm-stt publishes does not feed on itself.  A request causes one     *)
(* event at most - a verdict, a partial, an error; the answer to a parked   *)
(* reload comes with the verdict of an utterance, but is that request's own *)
(* - and one more if a publish failed, to report it.  A single event that   *)
(* answers an echo of our own is one too many.                              *)
NoFeedback == Len(published) <= (IF dropped THEN 2 ELSE 1) * requests

(* As long as no event was dropped: when finals on the bus change their     *)
(* model, the change was announced between them.                            *)
ModelChangesAreAnnounced ==
    \A i, j \in DOMAIN published :
        (/\ i < j
         /\ published[i].topic = "final" /\ published[j].topic = "final"
         /\ published[i].model # published[j].model
         /\ ~dropped) =>
            \E k \in i .. j : published[k] = ModelLoadedEvent(published[j].model)

(* Every utterance wm-audio finishes is answered on the bus: by a verdict   *)
(* on it or, when its finalise failed, by an error of kind "engine", unless *)
(* the bus goes away.  (Runs whose bus loses nothing and whose windows are  *)
(* not too short.)                                                          *)
EveryTurnIsAnswered ==
    \A t \in Utterances :
        (mic.utterance = t /\ ~mic.speaking) ~>
            \/ VerdictsOf(t) # {}
            \/ t \in failed /\ ErrorEvent("engine") \in {published[i] : i \in DOMAIN published}
            \/ bus = "closed"

(* A reload that waits for an utterance does not wait for ever.             *)
ReloadIsServed == (pending_reload # None) ~> (pending_reload = None \/ bus = "closed")

(* When the bus goes away the daemon comes to its end (so that systemd can  *)
(* start it again), whatever it was doing.                                  *)
StopsWithBus == (bus = "closed") ~> (pc = "stopped")
============================================================================
