-------------------------------- MODULE Cli --------------------------------
(* The wm-stt command (src/main.rs) and its configuration (src/lib.rs):     *)
(* start reads the environment, lets the command line override it,          *)
(* validates what came out and runs the daemon with it; reload-model and    *)
(* transcribe are single shots.                                             *)
EXTENDS Integers

CONSTANTS
    Models, DefaultModel,   \* ALLOWED_MODEL_NAMES and DEFAULT_MODEL_NAME
    Names,                  \* what a user may write for a model
    Paths, DefaultPath,     \* values of the two path settings
    Percents,               \* numbers a user may write for the threshold, times 100
    DefaultThreshold,       \* DEFAULT_CONFIDENCE_THRESHOLD, times 100
    Unset,                  \* no such variable or option
    Unreadable              \* a variable whose value is empty or not Unicode

ASSUME CliAssumption ==
    /\ Models \subseteq Names /\ DefaultModel \in Models
    /\ DefaultPath \in Paths
    /\ Percents \subseteq Int
    /\ DefaultThreshold \in 1 .. 100
    /\ {Unset, Unreadable} \cap (Names \cup Paths \cup {"true", "false", "junk"}) = {}
    /\ Unset # Unreadable

(* What f32::from_str makes of a string: a number, NaN, or an error.        *)
Number(p) == [kind |-> "number", percent |-> p]
NaN == [kind |-> "nan", percent |-> 0]
Junk == [kind |-> "junk", percent |-> 0]
F32 == {Number(p) : p \in Percents} \cup {NaN, Number(DefaultThreshold)}

PathVars == {"models_root", "mic_sock"}

(* A comparison with NaN is false.                                          *)
AtMost(t, p) == t.kind # "nan" /\ t.percent <= p
Exceeds(t, p) == t.kind # "nan" /\ t.percent > p

VARIABLES
    env,    \* the environment
    args,   \* the command line
    pc,     \* where run_start or another command is
    cfg,    \* SttConfig, as far as it is built
    error,  \* the SttError reported last: what kind, and the variable it names
    status  \* the exit status, or Unset

vars == <<env, args, pc, cfg, error, status>>

NotGiven == {Unset, Unreadable}

Environments ==
    [model : Names \cup NotGiven,
     paths : [PathVars -> Paths \cup NotGiven],
     confidence : F32 \cup {Junk} \cup NotGiven,   \* WM_STT_CONFIDENCE
     threshold : F32 \cup {Junk} \cup NotGiven,    \* WM_STT_THRESHOLD, its alias
     fastpath : {"true", "false", "junk"} \cup NotGiven]

Commands ==
    [command : {"start", "transcribe"}, name : {Unset},
     paths : [PathVars -> Paths \cup {Unset}]]
    \cup
    [command : {"reload-model"}, name : Names, paths : {[p \in PathVars |-> Unset]}]

DefaultConfig ==
    [model |-> DefaultModel,
     paths |-> [p \in PathVars |-> DefaultPath],
     threshold |-> Number(DefaultThreshold),
     fastpath |-> FALSE]

(* env_string: what cannot be read counts as unset.                         *)
EnvString(value) == IF value = Unreadable THEN Unset ELSE value

OrElse(value, other) == IF value = Unset THEN other ELSE value

Init ==
    /\ env \in Environments
    /\ args \in Commands
    /\ pc = args.command
    /\ cfg = DefaultConfig
    /\ error = Unset
    /\ status = Unset
----------------------------------------------------------------------------
Exit(code) ==
    /\ pc' = "exited"
    /\ status' = code
    /\ UNCHANGED <<env, args, cfg>>

Fail(kind, var) ==
    /\ Exit(1)
    /\ error' = [kind |-> kind, var |-> var]

Continue(place) ==
    /\ pc' = place
    /\ UNCHANGED <<env, args, error, status>>

ModelNameOk(name) == name \in Models

(* Mutant of ThresholdOk: it trusts the two comparisons.                    *)
ThresholdOrNaN(t) == ~AtMost(t, 0) /\ ~Exceeds(t, 100)

ThresholdOk(t) == t.kind # "nan" /\ ~AtMost(t, 0) /\ ~Exceeds(t, 100)

(* Mutant of ReadModel: any name is taken.                                  *)
ReadModelUnchecked ==
    /\ pc = "start"
    /\ cfg' = [cfg EXCEPT !.model = OrElse(EnvString(env.model), DefaultModel)]
    /\ Continue("paths")

(* SttConfig::from_env, in order.                                           *)
ReadModel ==
    /\ pc = "start"
    /\ LET name == OrElse(EnvString(env.model), DefaultModel)
       IN \/ /\ ModelNameOk(name)
             /\ cfg' = [cfg EXCEPT !.model = name]
             /\ Continue("paths")
          \/ ~ModelNameOk(name) /\ Fail("UnknownModel", Unset)

ReadPaths ==
    /\ pc = "paths"
    /\ cfg' = [cfg EXCEPT !.paths =
                  [p \in PathVars |-> OrElse(EnvString(env.paths[p]), DefaultPath)]]
    /\ Continue("threshold")

ReadThresholdFrom(raw) ==
    /\ pc = "threshold"
    /\ \/ /\ raw = Junk
          /\ Fail("InvalidEnv", "threshold")
       \/ /\ raw # Junk /\ ThresholdOk(raw)
          /\ cfg' = [cfg EXCEPT !.threshold = raw]
          /\ Continue("fastpath")
       \/ /\ raw # Junk /\ ~ThresholdOk(raw)
          /\ Fail("InvalidThreshold", Unset)

(* Mutant of ReadThreshold: the alias has precedence.                       *)
ReadThresholdAliasFirst ==
    ReadThresholdFrom(OrElse(OrElse(EnvString(env.threshold), EnvString(env.confidence)),
                             Number(DefaultThreshold)))

ReadThreshold ==
    ReadThresholdFrom(OrElse(OrElse(EnvString(env.confidence), EnvString(env.threshold)),
                             Number(DefaultThreshold)))

ReadFastpath ==
    /\ pc = "fastpath"
    /\ \/ /\ env.fastpath # "junk"
          /\ cfg' = [cfg EXCEPT !.fastpath = (EnvString(env.fastpath) = "true")]
          /\ Continue("override")
       \/ /\ env.fastpath = "junk"
          /\ Fail("InvalidEnv", "fastpath")

(* run_start.  clap gives an option that is absent its default.             *)
OverridePaths ==
    /\ pc = "override"
    /\ cfg' = [cfg EXCEPT !.paths =
                  [p \in PathVars |-> OrElse(args.paths[p], DefaultPath)]]
    /\ Continue("validate")

ConfigOk == ModelNameOk(cfg.model) /\ ThresholdOk(cfg.threshold)

Validate ==
    /\ pc = "validate"
    /\ \/ ConfigOk /\ Continue("build") /\ UNCHANGED cfg
       \/ ~ConfigOk /\ Fail("validation", Unset)

(* The runtime, then the engine: its model file may be missing or corrupt.  *)
Build ==
    /\ pc = "build"
    /\ \/ ConfigOk /\ Continue("running") /\ UNCHANGED cfg
       \/ Fail("startup", Unset)

(* reload-model publishes nothing yet; neither does transcribe run.         *)
RunReloadModel ==
    /\ pc = "reload-model"
    /\ \/ ModelNameOk(args.name) /\ Exit(2) /\ UNCHANGED error
       \/ ~ModelNameOk(args.name) /\ Fail("UnknownModel", Unset)

RunTranscribe ==
    /\ pc = "transcribe"
    /\ Exit(2)
    /\ UNCHANGED error

Next ==
    \/ ReadModel \/ ReadPaths \/ ReadThreshold \/ ReadFastpath
    \/ OverridePaths \/ Validate \/ Build
    \/ RunReloadModel \/ RunTranscribe

Spec == Init /\ [][Next]_vars
----------------------------------------------------------------------------
(* Every variable stays in its type.                                        *)
TypeOK ==
    /\ env \in Environments
    /\ args \in Commands
    /\ pc \in {"start", "paths", "threshold", "fastpath", "override", "validate",
               "build", "running", "exited", "reload-model", "transcribe"}
    /\ cfg \in [model : Models, paths : [PathVars -> Paths], threshold : F32,
                fastpath : BOOLEAN]
    /\ error = Unset \/ error.kind \in {"UnknownModel", "InvalidEnv",
                                        "InvalidThreshold", "validation", "startup"}
    /\ status \in {Unset, 1, 2}

(* The processor's test of a result (on_speech_end).                        *)
IsFinal(confidence, t) == t.kind = "number" /\ confidence >= t.percent

(* No daemon runs with a threshold that splits nothing, whatever a user     *)
(* wrote: a result of full confidence is final and one of none is not.      *)
(* With NaN every result would be uncertain, with 0 or less none, above 1   *)
(* all again.  At exactly 1 full confidence is the only one that is final.  *)
ThresholdSplits ==
    pc = "running" => IsFinal(100, cfg.threshold) /\ ~IsFinal(0, cfg.threshold)

Given(value) == value \notin NotGiven

(* A setting that was given is what the daemon runs with, or it does not    *)
(* run: none is replaced by a default, and the alias never wins.  Passed    *)
(* over without a word are only the alias beside its canonical variable, a  *)
(* bad one as well; a value that is empty or not Unicode; and the paths of  *)
(* the environment, for which the command line has a value of its own in    *)
(* any case.                                                                *)
NoOtherSettingIsIgnored ==
    pc = "running" =>
        /\ Given(env.model) => cfg.model = env.model
        /\ Given(env.confidence) => cfg.threshold = env.confidence
        /\ Given(env.threshold) /\ ~Given(env.confidence) => cfg.threshold = env.threshold
        /\ Given(env.fastpath) => env.fastpath = (IF cfg.fastpath THEN "true" ELSE "false")
        /\ \A p \in PathVars : args.paths[p] # Unset => cfg.paths[p] = args.paths[p]
============================================================================
