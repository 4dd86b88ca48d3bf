------------------------------- MODULE MCCli -------------------------------
(* The command under every environment and command line made of a few       *)
(* values of each kind, the two bounds of the threshold and their outer     *)
(* neighbours among them.                                                   *)
EXTENDS Cli

MCPercents == {0, 1, 100, 101}

(* SttConfig::from_env: WM_STT_MODELS_ROOT and WM_STT_MIC_SOCK are          *)
(* recognised, with a default that holds for "any unset variable": a path   *)
(* that is set and not overridden on the command line is used.              *)
EnvPathsAreUsed ==
    pc = "running" =>
        \A p \in PathVars :
            args.paths[p] = Unset /\ Given(env.paths[p]) => cfg.paths[p] = env.paths[p]
============================================================================
