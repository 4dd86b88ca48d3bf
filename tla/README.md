# wm-stt in TLA+

A verification project for `wintermute-stt`, the speech-to-text daemon of the
wintermute voice assistant: a Rust program that receives speech segments over
the agorabus message bus, folds them into transcripts with a whisper.cpp engine
and publishes partials, finals, uncertain results, errors and model changes.

## The system

| Component | Source | State it keeps | Operations | Hard behaviour | What makes it correct |
|---|---|---|---|---|---|
| Utterance processor | `src/src/processor.rs` | Idle or Speaking, last partial tick, parked reload, the engine it owns | one handler per request: start, chunk, end, reload | requests in any order with any timestamps; three branches end an utterance, each must reset and serve the parked reload | an utterance is transcribed from its own audio only, by one model; partials are throttled; reloads are not stranded |
| Engine contract | `src/src/engine.rs` (trait) | active model, accepted audio | accept, partial, finalise, reload, reset | every call may fail | what the processor relies on |
| Whisper engine | `src/src/whisper_engine.rs` | context, two decoder states each behind a lock, model name, utterance buffer, rolling window, cached partial | the trait's | a reload that fails between its swaps, a panic while a lock is held, window and minimum boundaries | one model everywhere, window is the latest audio, no stale partial, whole verdicts |
| Stub engine | `src/src/engine.rs` | model, chunk count | the trait's | accepts what does not decode | otherwise stays inside the contract |
| Bus events, decoding | `src/src/bus.rs` | none | `decode_request`, payload types | topics that are ours only by prefix | unknown topics are told from malformed payloads |
| Daemon loop | `src/src/daemon.rs` | position in the read-dispatch-publish cycle, the blocking job | read, decode, dispatch, publish, report | lost and repeated lines, failing publishes, a panicking job, a closing bus, its own echoes | every turn answered once, no feedback, it ends with the bus |
| Publish connection, heartbeats | `src/src/daemon.rs` | one client behind a mutex, two tickers | publish, heartbeat | two tasks on one connection, a busy loop, calls that fail | a reply belongs to the call that reads it; a live peer is not pruned |
| Startup, claim, shutdown | `src/src/daemon.rs`, `src/src/main.rs` | three connections, the claim | connect, announce, subscribe, acquire, release | every step may fail; kills, a bus that crashes, two processes in a rollout | never serves half connected; starts without a claim rather than not at all; one holder of the claim |
| Configuration, command line | `src/src/lib.rs`, `src/src/main.rs` | the settings, as far as they are read | defaults, environment, options, validation | precedence, NaN, unreadable values | a setting that was given is not replaced by another without a word; what runs is valid |
| Installer | `src/install.sh` | files | download, install | partial downloads | not modelled |

Interactions: wm-audio publishes start, chunk and end; an operator's tool may
publish `wm.stt.reload_model`.  The loop of `daemon::run` reads one line at a
time, decodes it, and calls `UtteranceProcessor::handle` under a mutex, on the
task of the loop, or on the blocking pool for an end.  It waits for the answer
and publishes the events one by one before it reads on.  The processor owns its
engine and calls it synchronously.  Two heartbeat tasks share the two
connections of the loop; a third connection holds an advisory claim.  systemd
starts the process again when it ends.

## Modules

| Module | Models | State and actions against the code |
|---|---|---|
| `SttEvents` | payloads of `bus.rs`, `enum Emit` | a text is its provenance, the model and the audio it was decoded from; timestamps and wording are left out |
| `TranscriptionEngine` | the trait as the processor relies on it | an engine is a record of model and audio; a method is its result or the set of results it may have |
| `EngineContract` | the trait as a state machine | one action per method, and what it answered |
| `StubEngine`, `WhisperEngine` | the two implementations | one action per method, a variable per field; inference results are free |
| `Utterance` | what subscribers are promised | open, hear, close, ask; no engine, clock or window |
| `UtteranceProcessor` | `processor.rs` | `OnSpeechStart`, `OnSpeechChunk`, `OnSpeechEnd`, `OnReloadModel`, with one operator per branch; `emits` is the vector the handler returns |
| `ProcessorCalls` | `processor.rs` again, one call of the engine at a time | a handler is entered, makes its calls one by one (`pc` is the method it calls next, `out` the vector it builds) and returns; the engine is `EngineContract` |
| `Daemon` | `daemon.rs`: loop, dispatch, publishing | composes `UtteranceProcessor` (INSTANCE over the same variables) with the loop (`pc`, `job`), the bus and its publishers |
| `Keepalive` | `daemon.rs`: `AgoraSink::publish`, the two heartbeat tasks | the queue of the mutex, the call on the wire, the tickers, and the age of each session as the bus counts it; time passes by `Tick` |
| `Lifecycle` | `daemon.rs` `run` before and after its loop, `main.rs` `run_start` | a place per await of `run`, the state of each connection, the claim, for several processes; the bus, systemd and kills around them |
| `Cli` | `lib.rs`, `main.rs` | the environment and command line as initial values, one action per setting that is read, overridden or validated |
| `*Proofs` | | theorems about the module of that name |
| `MC*` | | small instances; definitions that a document makes and the code does not keep stand in `MCDocumented`, `MCLifecycle` and `MCCli` (and, beside the action it is about, in `StubEngine`) |

Refinements: `WhisperEngine` implements `EngineContract`, built from the same
operators of `TranscriptionEngine` that `UtteranceProcessor` is built from, and
so does `StubEngine` once every payload it accepts is read as a chunk;
`UtteranceProcessor` implements `Utterance`.  What is shown of the processor thus
does not depend on which engine it is built with, except that the stub lets
through chunks that the other refuses.
`ProcessorCalls` closes the gap between the two views of an engine: there a
handler calls the methods of `EngineContract` in the order of the code, each
with any answer the contract allows, and it implements `UtteranceProcessor` -
whose handlers are single steps that choose among outcomes - with the state and
engine that the last handler left (`shown`).  So the chain is complete:
`WhisperEngine`, and in that sense `StubEngine`, implements `EngineContract`, on
which `ProcessorCalls` implements `UtteranceProcessor`, which implements
`Utterance`.
`Daemon` takes the processor as it is, and `DaemonProofs` takes what was proved
of it, handler by handler.

Each module also holds, next to the definition it alters, one altered
definition per property (comments "Mutant of ...").  No behaviour uses them:
they record a mistake the property is known to find.

### Abstractions

* Confidence is an integer `0 .. MaxConfidence`, compared with an integer
  threshold; in `Cli` a threshold is a percentage, NaN or a string that does not
  parse.  A sample is a member of a small set, a chunk a short sequence.
* `Chunks` are the payloads that decode; `BadPcm` stands for all that do not (not
  base64, odd length).  The empty payload is one of them, except in `StubEngine`,
  which tells it from the rest (`Empty`).  `UnknownModel` stands for every name
  outside the allow-list.
* `seq` is left out because nothing reads it.  So are `now_ms` and
  the message texts, which are only copied.
* The methods of an engine take `&mut self`, so a call is one step.  Nothing can
  observe the processor between two calls of a handler, except after a panic of
  the job on the blocking pool, which `Daemon` models; elsewhere a handler is one
  step too.  A
  finalise on the blocking pool is two: the dispatch and the return.
* `Unwinds` selects the build: the release profile sets `panic = "abort"`, so a
  panic ends the process; dev and test builds unwind.  Only a panic on the
  blocking pool is survived; one in an inline handler ends the task of the loop
  and with it the program, and is not modelled.  Two calls of the engine are made
  on the pool that can panic: finalise (`FinalisePanics`), and after the reset
  the reload that was parked (`ReloadPanics`), which takes the verdict with it.
  The reload is taken to panic before it changed the engine, while it opens the
  model: what follows there is three assignments, each under its lock.
* That a partial returns within milliseconds, as the doc of the trait demands, is
  not part of the contract model: it has no durations.
* agorabus is not in the repository.  It is modelled from how `daemon.rs` and
  the tests use it, with a constant where they leave a choice: `SinglePrefix`
  (a connection keeps its last prefix only) and `SessionReacquires` (the session
  that has a claim is granted it again).

## Runs

| Run | Question | Bounds |
|---|---|---|
| `processor` | do the processor's invariants hold, and does it implement `Utterance`, for any requests in any order | 2 models, 2 chunks, at most 3 chunks held, timestamps 0..5 and cadence 2 (an utterance has room for two ticks and for a clock that steps back past the last), windows 1..2 and durations 0..3 (below, at both bounds, above) |
| `processor_calls` | are the handlers, call by call, the single steps of `UtteranceProcessor`, and do they keep the lifecycle of the trait | 2 models, 1 chunk, at most 2 held, timestamps 0..2 and cadence 1, windows 1..2 and durations 0..3; every call answers, or fails, in any way of the contract |
| `whisper` | are decoders, window, cache and verdicts consistent over failed reloads and panics, and is the engine inside the contract | decoder minimum 2, window 3, chunks of 1, 2 and 4 samples: below the minimum, filling the window over several chunks, overrunning it at once; any set of model files, changing at any time; panics that unwind |
| `daemon_service` | when nothing is lost, is every turn answered, every parked reload served, every model change announced, and does the loop end | 2 utterances of at most one chunk, 1 reload at any time, bus closing at any time, durations in range and too long |
| `daemon_faults` | what losses, repetitions, echoes, failures and panics can do to transcripts, and whether they cost a turn its answer | 2 utterances of at most one chunk, any line lost, any publish failing before or after it got through, any finalise and any parked reload panicking; 1 model; and one of (`MaxExtras`): a reload, a line sent twice, malformed or meaningless, an echo of what was published; no timestamps, since partials are not in question |
| `keepalive` | whose reply is read, who waits and for how long, who is pruned | a timeout of 10 and so a tick every 5, calls of up to 2, a start-up of up to 3, one call that fails; the loop publishes whenever it likes, also never and always |
| `lifecycle` | what holds of processes that start, serve and end beside each other, and do they come back | 2 processes (a rollout), 2 failing calls, a crash of the bus, a kill, each at any point |
| `cli` | is a setting that was given used, and is the threshold one that splits | every environment and command line over 2 models and one unknown name, 2 paths, thresholds 0, 1, 100, 101 percent, the default, NaN and one that does not parse, each variable also unset or unreadable |

Two utterances are the least in which audio of one may reach the verdict of
another, and every handler sees a predecessor in every state; one reload can
fall before, within and after each.  The properties relate at most two turns,
two finals or two partials.  Two processes are the least that can contend for
the claim; the crash and the kill can each fall before, between and after the
two faults.  In `keepalive` a tick can meet the connection free, in use by the
loop with any remaining time, or in use with the loop queued behind the
heartbeat.  What a bound might still hide is the reason for the proofs, which
have none.  The daemon, lifecycle and command line runs do not check deadlock:
these programs are meant to stop.

What the passing runs show:

* `QuietWhenIdle`, `PendingOnlyWhileSpeaking`, `PartialRate` and
  `ReloadNeverForgotten` hold over all branches of the handlers.
  `ImplementsUtterance`: a result is over exactly the audio since the last
  start, by the model that was active all that time, and a swap waits.
* `ResetFollowsFinalise`: after finalise, whatever it answered, the next thing is
  reset.  `ImplementsProcessor`: no answer in the middle of a handler leads to a
  result that `UtteranceProcessor` does not allow.
* `OneModel`, `WindowIsLatest`, `NoStalePartial` and `VerdictIsWhole` hold, also
  when a reload stops between its swaps.  After a panic in a build that unwinds
  the samples that finalise had taken are gone, and it is the poisoned lock that
  keeps the rest from being published as a whole utterance.
* `CrossTalkNeedsLostDelimiters`: two utterances are mixed only if the end of
  the first, the start of the second and all delimiters between were lost, even
  when lines arrive twice.  `AtMostOneVerdict`: no retry publishes twice, and a
  second speech.end of a turn finds nothing to finalise.  `ReadTurnsAreAnswered`:
  the converse; a turn whose own start and end arrived has its verdict or error
  on the bus when the loop reads on, whatever happened to other lines and turns,
  unless a publish failed, its window was too short, or its own end panicked: in
  finalise, or in the reload parked behind it, when a verdict that was formed
  already is lost.
* `NoFeedback`: a request causes one event at most, and a second one if a publish
  failed; the bound has no slack, so one answer to one echo would break it.
* `ModelChangesAreAnnounced`, `EveryTurnIsAnswered`,
  `ReloadIsServed`, `StopsWithBus`, each as commented in `Daemon`.
* `NotPruned`: the bus forgets a running daemon only after one of its heartbeats
  failed, never because inference or publishing kept the loop busy; after such a
  failure the heartbeat task is gone for good while the loop may go on.
  `RepliesAreOwn`, `PublishComesBack`: the mutex is held over request and reply,
  and given back between two heartbeats.  `PublishIsPrompt`: a publish waits for
  one heartbeat at most.
* `ServingMeansConnected`, `ClaimMeansReady`, `HoldersHaveTheClaim`,
  `AlwaysServesAgain`, `DeafHoldNoClaim`, each as commented in `Lifecycle`.
* `ThresholdSplits`: whatever threshold the daemon runs with, a result of full
  confidence is final and one of none is uncertain.
  `NoOtherSettingIsIgnored`: what was given is used or the daemon does not run.
  Its exceptions are in its statement: the paths of the environment
  (`documented_paths` is about them), values that are empty or not Unicode, and
  the alias beside its canonical variable.

Four runs expect a violation and record where the documents and the code part:

* `documented_reload`: a parked reload replaced by another is not answered,
  while the README lets each be followed by `model_loaded`.
* `documented_prefixes`: the README says both topic families are subscribed.
  `run` subscribes twice on one connection, and `tests/bus_smoke.rs` says of the
  bus that the second prefix overwrites the first; on such a bus the daemon
  hears no speech.  `ServingMeansConnected` is about a bus that keeps both.
* `documented_paths`: `WM_STT_MODELS_ROOT` and `WM_STT_MIC_SOCK`, which `lib.rs`
  lists as recognised, are overwritten by the defaults of options nobody gave.
* `documented_chunks` (10 chunks): the trait promises `BadChunk` for a payload
  that does not parse; `StubEngine` refuses the empty one only and counts the
  rest, while `WhisperEngine` refuses them all.  So the stub is not inside the
  contract of the trait in which payloads it accepts.  In everything else it is
  (`StubEngineProofs`).

Other differences met while modelling, which no run states:

* Partials never carry a `turn_id` (CHANGELOG v0.4.0 says they do); it is known
  at speech.end only.
* Windows out of range are answered by nothing or by `window_too_long`, not by
  the `window_invalid` of README, CHANGELOG and `bus.rs`; the tests of
  `processor.rs` agree with the code.
* In a build that unwinds, a panic in finalise leaves the decoder's lock
  poisoned for good, although the processor's lock is recovered so as not to
  wedge the daemon.
* No signal handler is installed, so the claim is not released on SIGTERM
  (CHANGELOG.md:15); its TTL ends it.
* The doc of `validate_threshold` (`lib.rs:152`) says that a threshold of exactly
  1.0 means "never uncertain".  It means nearly the opposite: `processor.rs:248`
  calls a result final if its confidence is at least the threshold, so that at
  1.0 every result of less than full confidence is uncertain.
* A variable whose value is not Unicode counts as unset (`lib.rs:223`) and the
  default runs, where the doc of `from_env` promises `InvalidEnv` for what is set
  but cannot be parsed (`lib.rs:175`).  So does an empty one.
* When a parked reload panics and the daemon survives it, a single error of kind
  `bus` is all that is said of the request and of the turn before it.
* An unparsable `WM_STT_CONFIDENCE` is reported as `WM_STT_THRESHOLD`.
* The `reload-model` command validates the name and exits with status 2; it
  publishes nothing at this commit.  In `Daemon` reloads come from elsewhere.
* A reload whose model file is missing is reported with kind `model`, never
  `model_missing`.

### Fairness and time

`FairSpec` of `Daemon` assumes weak fairness of three things.  `Loop`: tokio
polls a task that is ready, and each publish returns, with a reply or an
error.  `BlockingPool`: a job that was queued runs and finalise comes back.
`MicEnd`: wm-audio ends an utterance it started; without it a reload parked
behind it waits for ever, which is what the code does.  Nothing is assumed of
reloads, of the bus closing or of a new utterance.

`FairSpec` of `Lifecycle`: a process takes its next step, and once the bounded
faults are used up it takes it without one (`Step(d) /\ UNCHANGED faults`); the
unit of systemd restarts it (`Restart=`); the bus is started again after it
crashed; a claim nobody renews expires.  Nothing makes a process end, so
`AlwaysServesAgain` says that it serves at last, not that it stops.

`FairSpec` of `Keepalive`: the one who has the mutex sends, and the bus answers
or the call fails.  No call in the code has a timeout of its own, so this is an
assumption on agorabus; so is `MaxCall`, the longest a call takes.
`TimeAssumption` states what the 60 seconds of the bus leave room for: calls of
less than 15 seconds, and a start-up that fits the other half together with one
call.  That what is ready runs before time passes is due to the
runtime: `main.rs` builds a multi-threaded one, so that the tickers run while
inference occupies the task of the loop.

## Proofs

Everything below holds for every value of the constants that meets the named
assumptions of the module and of those it extends.  Each proof module defines an
inductive invariant, shows that it holds initially, is kept by each action (one
lemma per action) and implies the properties.

**`UtteranceProcessorProofs`.**  `IInv` is `TypeOK`, `QuietWhenIdle`,
`PendingOnlyWhileSpeaking` and `PartialRate`, which are inductive together.  A
start sets the tick to its own timestamp and the count to 0; an accepted chunk
moves the tick only when a cadence has passed, so
`start_ts + cadence * partials <= last_partial_ts` survives one more partial, and
a clock that steps back makes the saturating difference 0, less than any cadence
(hence `CadenceAssumption`: above 0); every closing branch goes through
`CloseUtterance`, where reset and unparking happen together.  `ReloadAnswered`:
the answer is appended in the step that unparks.  `Refinement`: every handler is
an action of `Utterance`; `QuietWhenIdle` is what makes a start from Idle an
`Open`.  The lemmas `StartEffect`, `ChunkEffect`, `EndEffect`, `ReloadEffect`
say of each handler what its caller may rely on: how many events, where a
verdict stands and on what, and that a change of model is told last.

**`ProcessorCallsProofs`.**  `Progress` says, for each method that may be next,
how far the handler got: what it has done to the state and the engine that were
shown last, and what it has said.  Before reset, for example, the engine is as it
was, or empty if finalise took its buffer, and `out` is a verdict that
`UtteranceProcessor` allows for the engine as it was.  Steps that go on are
stutters of `UtteranceProcessor`, steps that return are its handlers, and what
is known of the shown state is the `IInv` of `UtteranceProcessorProofs`, taken
from there by instance.  Hence `Refinement`, `ResetFirst`, `TypeCorrect`, and by
the refinement proved there `PromiseKept`: call by call, on any engine that keeps
the contract, the processor implements `Utterance`.

**`StubEngineProofs`.**  The audio the stub stands for has one sample for each
chunk it counted; `Refinement` (under the hypothesis `StubParameters`): read as
one chunk each whatever payloads it accepted, every call is one of
`EngineContract`.  It says nothing of which payloads are refused, where the stub
differs.  No run repeats it.

**`WhisperEngineProofs`.**  `IInv` ties the two buffers to `fed`, the samples
since the last reset: the window is always its end, whatever the length of the
chunks (`WindowOf`, and the lemma that trimming after each append gives the same
window), and until finalise takes it the buffer is all of it, unless a panic took
it first - and then the lock is poisoned.  From it `SameModel`, `LatestWindow`,
`FreshPartials`, `WholeVerdicts`, and `Refinement`: `WhisperEngine` implements
`EngineContract`.

**`DaemonProofs`.**  The instance of the processor is shown to be that of
`UtteranceProcessorProofs` (the lemmas `Same*`), whose effects are then used
through `Starts`, `Hears`, `Ends` and `Reloads`.  The rest of `IInv` is about
order.  `Rank` numbers the lines of wm-audio as they were sent.  `Queue`: those
that wait do so by rank (`Sorted`, repeated lines included), no later than the
microphone got (`InOrder`); a mark, that is a start or an end, between a line
that waits and the present either waits as well or is lost (`NoGap`); and the
same of the marks after audio that the engine holds (`AudioIsRecent`), where the
end that the blocking pool works on is the one exception.  A verdict on t over
audio of s is formed when the pool is at the end of t: the marks between do not
wait any more, so they were lost, which is `CrossTalk`.  `Settled`: what waits
after a verdict on t is not from before the end of t, and if that end waits once
more the processor is not listening, since the next start lies behind it; so a
second verdict cannot be formed, and with `Once` (a verdict is the first of what
a handler returns, and leaves `emits` as it is published) this gives
`OneVerdict`.  `Announced` says of everything published and still to be
published that models change with an announcement between
(`Announcements`).  `Frugal` counts: what is published, what `emits` holds, the
answer owed to a parked reload and the report owed by a loop that is blocked or
reporting are together no more than the requests, as long as nothing was dropped,
and no more than two for each request otherwise, one being held in reserve
(`Spare`) for the report of a publish that fails (`NoEcho`).  A panic owes the
report in place of what the handler would have returned.

`NoSilentTurn` needs a second invariant, `Answers`, on top of the first.
`Served`: a turn whose start was not lost and whose end was read, and is not
what the pool works on, has its answer published or at the head of what is still
to be published, or is excused.  That the pool gives one follows from `Heeded`:
from the moment the start of a turn was read until its end is served, the
processor is listening, unless the turn is answered already (its end may come
twice).  A start that finds an utterance in flight opens the new one all the
same; that is what a turn after a lost end or a panic owes its answer to.
`JobGap` says of the marks after the end that the pool works on that they wait
or are lost, so that no later start has come between.

**`KeepaliveProofs`.**  For each ticker the age of its session and the time to
its next tick add up to no more than a period (plus start-up, for the second),
and while a heartbeat waits for the mutex the ticker tells for how long: no
longer than a call of the loop and its own, because the mutex is fair.  This and
`TimeAssumption` give `PeersStay`.  The same queue seen from the loop
(`Prompt`): behind a heartbeat it has waited no longer than the heartbeat's call
takes so far, and once at the head no longer than one call and its own:
`PromptPublishes`.  `OwnReplies`: there is one request on the wire, that of the
one who has the mutex.

**`LifecycleProofs`.**  `Phase` says what a process has on the bus at each place
of `run`; connections are made one after the other and die together.
`ServesConnected` and `ClaimIsReadiness` assume a bus that keeps every prefix
(`~SinglePrefix`); `OneHolder` needs the assumption stated with
`HoldersHaveTheClaim`, a bus that does not grant a claim twice.

**`CliProofs`.**  The invariant says which settings were read at each place of
`start` and what they are (`SettingsRead`); `ThresholdIsValid` and `AsAsked` follow.

Only model-checked: the liveness properties (`EveryTurnIsAnswered`,
`ReloadIsServed`, `StopsWithBus`, `AlwaysServesAgain`, `DeafHoldNoClaim`,
`PublishComesBack`), because fairness and ENABLED are outside the prover.  Every
other property of a passing run is also a theorem.

## Not modelled

The text of transcripts, the confidence arithmetic and whisper.cpp itself; JSON;
logging; how long inference takes.  Lines that overtake each other: one
connection keeps their order.  The installer, a shell script that copies files;
the development scripts, CI metadata and tests, which were read as
documentation.

## Plan

Done: the core (`UtteranceProcessor`, engines, `Daemon`), then `Lifecycle`,
`Cli`, `Keepalive`, the repetition of lines, `ProcessorCalls`, and the proofs of
all of them.

Left:

1. `Daemon` and `Keepalive` composed, for a publish that fails while a heartbeat
   waits.
2. A second daemon process on the same bus in `Daemon`: two answers to a turn
   during a rollout.
3. The converse of `CrossTalk` as a theorem: a turn none of whose lines was lost
   is heard whole.
