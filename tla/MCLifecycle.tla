---------------------------- MODULE MCLifecycle ----------------------------
(* Two processes of wm-stt on one bus, as in a rollout, and one alone.      *)
EXTENDS Lifecycle

(* README, What it does: on startup wm-stt "subscribes to agorabus topics   *)
(* wm.audio.speech.* [...] and wm.stt.*".  tests/bus_smoke.rs says of the   *)
(* bus that a connection has one prefix, which the second call overwrites.  *)
SpeechIsSubscribed ==
    \A d \in Daemons :
        (pc[d] = "serving" /\ wire[d]["sub"] # "closed") => Audio \in prefixes[d]
=============================================================================
