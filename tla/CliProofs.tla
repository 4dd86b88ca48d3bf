----------------------------- MODULE CliProofs -----------------------------
(* Theorems about the command and its configuration, for any values a user  *)
(* may write.  The invariant says, for each place of start, which settings  *)
(* were read by then and what they are.                                     *)
EXTENDS Cli, TLAPS

AfterModel ==
    {"paths", "threshold", "fastpath", "override", "validate", "build", "running"}
AfterThreshold == {"fastpath", "override", "validate", "build", "running"}
AfterFastpath == {"override", "validate", "build", "running"}

AfterPaths == {"validate", "build", "running"}

(* The setting of the threshold that counts.                                *)
Asked == OrElse(OrElse(EnvString(env.confidence), EnvString(env.threshold)),
                Number(DefaultThreshold))

SettingsRead ==
    /\ pc \in AfterModel => cfg.model = OrElse(EnvString(env.model), DefaultModel)
    /\ pc \in AfterThreshold => cfg.threshold = Asked
    /\ pc \in AfterFastpath =>
          cfg.fastpath = (EnvString(env.fastpath) = "true") /\ env.fastpath # "junk"
    /\ pc \in AfterPaths =>
          \A p \in PathVars : args.paths[p] # Unset => cfg.paths[p] = args.paths[p]

Inv == TypeOK /\ ThresholdOk(cfg.threshold) /\ SettingsRead

(* A threshold that passes validate_threshold is a number within (0, 1].    *)
LEMMA ThresholdOkIsNumber ==
    ASSUME NEW t \in F32, ThresholdOk(t)
    PROVE  t.kind = "number" /\ t.percent \in 1 .. 100
BY CliAssumption DEF F32, Number, NaN, ThresholdOk, AtMost, Exceeds

LEMMA AskedType ==
    ASSUME TypeOK
    PROVE  Asked \in F32 \cup {Junk}
<1>1. /\ env.confidence \in F32 \cup {Junk} \cup NotGiven
      /\ env.threshold \in F32 \cup {Junk} \cup NotGiven
  BY DEF TypeOK, Environments
<1>2. /\ EnvString(env.confidence) \in F32 \cup {Junk, Unset}
      /\ EnvString(env.threshold) \in F32 \cup {Junk, Unset}
  BY <1>1 DEF EnvString, NotGiven
<1>3. Number(DefaultThreshold) \in F32
  BY DEF F32
<1> QED
  BY <1>2, <1>3 DEF Asked, OrElse

LEMMA InitInv == Init => Inv
<1> SUFFICES ASSUME Init PROVE Inv
  OBVIOUS
<1>1. Number(DefaultThreshold) \in F32 /\ ThresholdOk(Number(DefaultThreshold))
  BY CliAssumption DEF F32, Number, ThresholdOk, AtMost, Exceeds
<1>2. DefaultConfig \in [model : Models, paths : [PathVars -> Paths], threshold : F32,
                         fastpath : BOOLEAN]
  BY <1>1, CliAssumption DEF DefaultConfig
<1>3. args.command \in {"start", "transcribe", "reload-model"}
  BY DEF Init, Commands
<1>4. TypeOK
  BY <1>2, <1>3 DEF Init, TypeOK
<1>5. ThresholdOk(cfg.threshold)
  BY <1>1 DEF Init, DefaultConfig
<1> QED
  BY <1>3, <1>4, <1>5 DEF Init, Inv, SettingsRead, AfterModel, AfterThreshold, AfterFastpath, AfterPaths

(* A command that exits changes nothing of its configuration.               *)
LEMMA FailKeepsInv ==
    ASSUME Inv, NEW kind \in {"UnknownModel", "InvalidEnv", "InvalidThreshold",
                              "validation", "startup"},
           NEW var, Fail(kind, var)
    PROVE  Inv'
BY DEF Inv, TypeOK, SettingsRead, AfterModel, AfterThreshold, AfterFastpath, AfterPaths, Asked,
       Fail, Exit

LEMMA ExitKeepsInv ==
    ASSUME Inv, Exit(2), UNCHANGED error
    PROVE  Inv'
BY DEF Inv, TypeOK, SettingsRead, AfterModel, AfterThreshold, AfterFastpath, AfterPaths,
       Asked, Exit

LEMMA NextInv == Inv /\ [Next]_vars => Inv'
<1> SUFFICES ASSUME Inv, [Next]_vars PROVE Inv'
  OBVIOUS
<1> USE DEF Inv, TypeOK, SettingsRead, AfterModel, AfterThreshold, AfterFastpath, AfterPaths
<1>1. CASE ReadModel
  <2> DEFINE name == OrElse(EnvString(env.model), DefaultModel)
  <2>1. CASE Fail("UnknownModel", Unset)
    BY <2>1, FailKeepsInv
  <2>2. CASE ModelNameOk(name) /\ cfg' = [cfg EXCEPT !.model = name] /\ Continue("paths")
    BY <2>2 DEF ModelNameOk, Continue
  <2> QED
    BY <1>1, <2>1, <2>2 DEF ReadModel
<1>2. CASE ReadPaths
  <2>1. [p \in PathVars |-> OrElse(EnvString(env.paths[p]), DefaultPath)]
           \in [PathVars -> Paths]
    BY CliAssumption DEF Environments, OrElse, EnvString, NotGiven
  <2> QED
    BY <1>2, <2>1 DEF ReadPaths, Continue
<1>3. CASE ReadThreshold
  <2>1. CASE Fail("InvalidEnv", "threshold") \/ Fail("InvalidThreshold", Unset)
    BY <2>1, FailKeepsInv
  <2>2. CASE /\ pc = "threshold" /\ Asked # Junk /\ ThresholdOk(Asked)
             /\ cfg' = [cfg EXCEPT !.threshold = Asked]
             /\ Continue("fastpath")
    <3>1. Asked \in F32
      BY <2>2, AskedType
    <3>2. Asked' = Asked /\ cfg'.threshold = Asked
      BY <2>2 DEF Continue, Asked
    <3>3. ThresholdOk(cfg'.threshold)
      BY <2>2, <3>2
    <3> QED
      BY <2>2, <3>1, <3>2, <3>3 DEF Continue
  <2> QED
    BY <1>3, <2>1, <2>2 DEF ReadThreshold, ReadThresholdFrom, Asked
<1>4. CASE ReadFastpath
  <2>1. CASE Fail("InvalidEnv", "fastpath")
    BY <2>1, FailKeepsInv
  <2>2. CASE /\ pc = "fastpath" /\ env.fastpath # "junk"
             /\ cfg' = [cfg EXCEPT !.fastpath = (EnvString(env.fastpath) = "true")]
             /\ Continue("override")
    BY <2>2 DEF Continue, Asked
  <2> QED
    BY <1>4, <2>1, <2>2 DEF ReadFastpath
<1>5. CASE OverridePaths
  <2>1. args.paths \in [PathVars -> Paths \cup {Unset}]
    BY DEF Commands
  <2>2. [p \in PathVars |-> OrElse(args.paths[p], DefaultPath)] \in [PathVars -> Paths]
    BY <2>1, CliAssumption DEF OrElse
  <2>3. \A p \in PathVars : args.paths[p] # Unset =>
                                OrElse(args.paths[p], DefaultPath) = args.paths[p]
    BY DEF OrElse
  <2> QED
    BY <1>5, <2>2, <2>3 DEF OverridePaths, Continue, Asked
<1>6. CASE Validate
  <2>1. CASE Fail("validation", Unset)
    BY <2>1, FailKeepsInv
  <2> QED
    BY <1>6, <2>1 DEF Validate, Continue, Asked
<1>7. CASE Build
  <2>1. CASE Fail("startup", Unset)
    BY <2>1, FailKeepsInv
  <2> QED
    BY <1>7, <2>1 DEF Build, Continue, Asked
<1>8. CASE RunReloadModel
  BY <1>8, FailKeepsInv, ExitKeepsInv DEF RunReloadModel
<1>9. CASE RunTranscribe
  BY <1>9, ExitKeepsInv DEF RunTranscribe
<1>10. CASE UNCHANGED vars
  BY <1>10 DEF vars, Asked
<1> QED
  BY <1>1, <1>2, <1>3, <1>4, <1>5, <1>6, <1>7, <1>8, <1>9, <1>10 DEF Next

LEMMA Invariance == Spec => []Inv
BY InitInv, NextInv, PTL DEF Spec

(* Every variable of the command stays in its type.                         *)
THEOREM TypeCorrect == Spec => []TypeOK
<1>1. Inv => TypeOK
  BY DEF Inv
<1> QED
  BY <1>1, Invariance, PTL

(* Whatever numbers, NaN or nonsense the environment holds, the daemon runs *)
(* only with a threshold that full confidence reaches and none does not.    *)
THEOREM ThresholdIsValid == Spec => []ThresholdSplits
<1>1. Inv => ThresholdSplits
  BY ThresholdOkIsNumber DEF Inv, TypeOK, ThresholdSplits, IsFinal
<1> QED
  BY <1>1, Invariance, PTL

(* The settings that were given are those the daemon runs with, or it does  *)
(* not run; the paths are those of the command line.                        *)
THEOREM AsAsked == Spec => []NoOtherSettingIsIgnored
<1>1. ASSUME Inv, pc = "running" PROVE NoOtherSettingIsIgnored
  <2>1. /\ cfg.model = OrElse(EnvString(env.model), DefaultModel) /\ cfg.threshold = Asked
        /\ cfg.fastpath = (EnvString(env.fastpath) = "true") /\ env.fastpath # "junk"
        /\ \A p \in PathVars : args.paths[p] # Unset => cfg.paths[p] = args.paths[p]
    BY <1>1
    DEF Inv, SettingsRead, AfterModel, AfterThreshold, AfterFastpath, AfterPaths
  <2>2. Given(env.model) => cfg.model = env.model
    BY <2>1 DEF Given, NotGiven, OrElse, EnvString
  <2>3. Given(env.confidence) => cfg.threshold = env.confidence
    BY <2>1 DEF Given, NotGiven, OrElse, EnvString, Asked
  <2>4. Given(env.threshold) /\ ~Given(env.confidence) => cfg.threshold = env.threshold
    BY <2>1 DEF Given, NotGiven, OrElse, EnvString, Asked
  <2>5. Given(env.fastpath) => env.fastpath = (IF cfg.fastpath THEN "true" ELSE "false")
    <3>1. env.fastpath \in {"true", "false", "junk"} \cup NotGiven
      BY <1>1 DEF Inv, TypeOK, Environments
    <3> QED
      BY <2>1, <3>1 DEF Given, NotGiven, EnvString
  <2> QED
    BY <2>1, <2>2, <2>3, <2>4, <2>5 DEF NoOtherSettingIsIgnored
<1>2. Inv => NoOtherSettingIsIgnored
  BY <1>1 DEF NoOtherSettingIsIgnored
<1> QED
  BY <1>2, Invariance, PTL
============================================================================
