----------------------------- MODULE Lifecycle -----------------------------
(* The life of a wm-stt process (src/daemon.rs run, src/main.rs run_start): *)
(* it loads the engine, opens, announces and subscribes its connections,    *)
(* takes an advisory claim as well as it can, serves until its subscribe    *)
(* wire ends, lets go of the claim and exits; systemd starts it again.      *)
(* Several processes may live at once: a rollout starts the next one while  *)
(* the last one still serves.  Any call may fail, the bus may crash and     *)
(* come back empty, and a process may be killed at any point.               *)
EXTENDS Naturals, FiniteSets

CONSTANTS
    Daemons,           \* process slots systemd runs wm-stt in
    None,
    SinglePrefix,      \* the bus keeps the last prefix of a connection only
    SessionReacquires, \* the bus grants a claim again to the session that has it
    MaxFaults,         \* bound: calls that fail although the bus is up
    MaxOutages,        \* bound: crashes of the bus
    MaxKills           \* bound: processes killed

ASSUME LifecycleAssumption ==
    /\ None \notin Daemons
    /\ {SinglePrefix, SessionReacquires} \subseteq BOOLEAN
    /\ {MaxFaults, MaxOutages, MaxKills} \subseteq Nat

VARIABLES
    pc,        \* where each process is; "off" when there is none
    wire,      \* its connections: "closed", "open" or "announced"
    prefixes,  \* what the bus delivers on its sub connection
    guard,     \* claim_guard is Some
    status,    \* how its last life ended: "none", "ok", "error" or "killed"
    bus,       \* "up" or "down"
    claim,     \* who acquired the claim that stands, or None
    faults, outages, kills

daemon == <<pc, wire, prefixes, guard, status>>
vars == <<daemon, bus, claim, faults, outages, kills>>

Wires == {"sub", "pub", "claim"}
Audio == "wm.audio.speech."
ReloadModel == "wm.stt.reload_model"

AllClosed == [w \in Wires |-> "closed"]

Alive(d) == pc[d] # "off"

(* The process is gone and with it, for the bus, its connections.           *)
Exit(d, how) ==
    /\ pc' = [pc EXCEPT ![d] = "off"]
    /\ wire' = [wire EXCEPT ![d] = AllClosed]
    /\ prefixes' = [prefixes EXCEPT ![d] = {}]
    /\ guard' = [guard EXCEPT ![d] = FALSE]
    /\ status' = [status EXCEPT ![d] = how]

GoTo(d, place) == pc' = [pc EXCEPT ![d] = place]

Init ==
    /\ pc = [d \in Daemons |-> "off"]
    /\ wire = [d \in Daemons |-> AllClosed]
    /\ prefixes = [d \in Daemons |-> {}]
    /\ guard = [d \in Daemons |-> FALSE]
    /\ status = [d \in Daemons |-> "none"]
    /\ bus = "up"
    /\ claim = None
    /\ faults = 0 /\ outages = 0 /\ kills = 0
----------------------------------------------------------------------------
(* Calls on the bus.  One on a connection that is gone fails; any other may *)
(* fail once in a while.                                                    *)

Fault ==
    /\ faults < MaxFaults
    /\ faults' = faults + 1

Fails(reachable) ==
    \/ ~reachable /\ UNCHANGED faults
    \/ Fault

Connects(d, w, next) ==
    /\ bus = "up"
    /\ wire' = [wire EXCEPT ![d][w] = "open"]
    /\ GoTo(d, next)
    /\ UNCHANGED <<prefixes, guard, status, claim, faults>>

Announces(d, w, next) ==
    /\ wire[d][w] = "open"
    /\ wire' = [wire EXCEPT ![d][w] = "announced"]
    /\ GoTo(d, next)
    /\ UNCHANGED <<prefixes, guard, status, claim, faults>>

(* A bus refuses whoever has not announced itself.                          *)
Subscribes(d, prefix, next) ==
    /\ wire[d]["sub"] = "announced"
    /\ prefixes' = [prefixes EXCEPT
                       ![d] = IF SinglePrefix THEN {prefix} ELSE @ \cup {prefix}]
    /\ GoTo(d, next)
    /\ UNCHANGED <<wire, guard, status, claim, faults>>

(* `?`: run returns the error and run_start exits with 1.                   *)
FailsHard(d, reachable) ==
    /\ Fails(reachable)
    /\ Exit(d, "error")
    /\ UNCHANGED claim

(* A claim that cannot be had is warned of, and the daemon goes on.         *)
FailsSoftly(d, reachable) ==
    /\ Fails(reachable)
    /\ GoTo(d, "splitting")
    /\ UNCHANGED <<wire, prefixes, guard, status, claim>>
----------------------------------------------------------------------------
(* run, in order.                                                           *)

(* Configuration, engine and runtime: may fail whatever the bus does.       *)
BuildProcessor(d) ==
    /\ pc[d] = "loading"
    /\ \/ /\ GoTo(d, "connecting sub")
          /\ UNCHANGED <<wire, prefixes, guard, status, claim, faults>>
       \/ FailsHard(d, TRUE)

(* No socket is no error: try_connect says None and the exit is clean.      *)
ConnectSub(d) ==
    /\ pc[d] = "connecting sub"
    /\ \/ Connects(d, "sub", "announcing sub")
       \/ bus = "down" /\ Exit(d, "ok") /\ UNCHANGED <<claim, faults>>
       \/ FailsHard(d, TRUE)

AnnounceSub(d) ==
    /\ pc[d] = "announcing sub"
    /\ \/ Announces(d, "sub", "subscribing audio")
       \/ FailsHard(d, wire[d]["sub"] = "open")

(* Mutant of SubscribeAudio: it is skipped.                                 *)
SubscribeNoAudio(d) ==
    /\ pc[d] = "subscribing audio"
    /\ GoTo(d, "subscribing reload")
    /\ UNCHANGED <<wire, prefixes, guard, status, claim, faults>>

SubscribeAudio(d) ==
    /\ pc[d] = "subscribing audio"
    /\ \/ Subscribes(d, Audio, "subscribing reload")
       \/ FailsHard(d, wire[d]["sub"] = "announced")

(* Mutant of SubscribeReload: the whole prefix of its own topics, "wm.stt.". *)
SubscribeOwnTopics(d) ==
    /\ pc[d] = "subscribing reload"
    /\ \/ Subscribes(d, "wm.stt.", "connecting pub")
       \/ FailsHard(d, wire[d]["sub"] = "announced")

(* Only the one inbound topic of wm.stt.: its other topics are its own.     *)
SubscribeReload(d) ==
    /\ pc[d] = "subscribing reload"
    /\ \/ Subscribes(d, ReloadModel, "connecting pub")
       \/ FailsHard(d, wire[d]["sub"] = "announced")

ConnectPub(d) ==
    /\ pc[d] = "connecting pub"
    /\ \/ Connects(d, "pub", "announcing pub")
       \/ FailsHard(d, bus = "up")

(* Mutant of AnnouncePub: its failure is taken as softly as the claim's.    *)
AnnouncePubSoftly(d) ==
    /\ pc[d] = "announcing pub"
    /\ \/ Announces(d, "pub", "connecting claim")
       \/ /\ Fails(wire[d]["pub"] = "open")
          /\ GoTo(d, "connecting claim")
          /\ UNCHANGED <<wire, prefixes, guard, status, claim>>

AnnouncePub(d) ==
    /\ pc[d] = "announcing pub"
    /\ \/ Announces(d, "pub", "connecting claim")
       \/ FailsHard(d, wire[d]["pub"] = "open")

ConnectClaim(d) ==
    /\ pc[d] = "connecting claim"
    /\ \/ Connects(d, "claim", "announcing claim")
       \/ FailsSoftly(d, bus = "up")

AnnounceClaim(d) ==
    /\ pc[d] = "announcing claim"
    /\ \/ Announces(d, "claim", "holding claim")
       \/ FailsSoftly(d, wire[d]["claim"] = "open")

(* Every process claims the same path in the same session, "wm-stt-claim". *)
Grantable(d) ==
    /\ wire[d]["claim"] = "announced"
    /\ claim = None \/ SessionReacquires

HoldGranted(d) ==
    /\ Grantable(d)
    /\ claim' = d
    /\ guard' = [guard EXCEPT ![d] = TRUE]
    /\ GoTo(d, "splitting")
    /\ UNCHANGED <<wire, prefixes, status, faults>>

(* Mutant of HoldClaim: a claim that is refused is an error like others.    *)
HoldOrFail(d) ==
    /\ pc[d] = "holding claim"
    /\ HoldGranted(d) \/ FailsHard(d, Grantable(d))

HoldClaim(d) ==
    /\ pc[d] = "holding claim"
    /\ HoldGranted(d) \/ FailsSoftly(d, Grantable(d))

(* into_halves is local; the loop begins whether or not the wire is alive.  *)
SplitSub(d) ==
    /\ pc[d] = "splitting"
    /\ GoTo(d, "serving")
    /\ UNCHANGED <<wire, prefixes, guard, status, claim, faults>>

(* Mutant of LoopEnds: a wire at its end is read again.                     *)
LoopEndsOnErrorOnly(d) ==
    /\ pc[d] = "serving"
    /\ Fault
    /\ GoTo(d, "releasing")
    /\ UNCHANGED <<wire, prefixes, guard, status, claim>>

(* next_line: None when the wire was closed, or an error.                   *)
LoopEnds(d) ==
    /\ pc[d] = "serving"
    /\ Fails(wire[d]["sub"] # "closed")
    /\ GoTo(d, "releasing")
    /\ UNCHANGED <<wire, prefixes, guard, status, claim>>

(* Mutant of ReleaseClaim: the path is released also without a guard.       *)
ReleaseUnheld(d) ==
    /\ pc[d] = "releasing"
    /\ IF wire[d]["claim"] = "announced" THEN claim' = None ELSE UNCHANGED claim
    /\ Exit(d, "ok")
    /\ UNCHANGED faults

(* A guard is released if the bus can be told, and either way run returns   *)
(* Ok.  The bus knows the session, not the process.                         *)
ReleaseClaim(d) ==
    /\ pc[d] = "releasing"
    /\ \/ /\ guard[d] /\ wire[d]["claim"] = "announced"
          /\ claim' = None
          /\ UNCHANGED faults
       \/ /\ ~guard[d] \/ Fails(wire[d]["claim"] = "announced")
          /\ ~guard[d] => UNCHANGED faults
          /\ UNCHANGED claim
    /\ Exit(d, "ok")

Step(d) ==
    /\ \/ BuildProcessor(d) \/ ConnectSub(d) \/ AnnounceSub(d)
       \/ SubscribeAudio(d) \/ SubscribeReload(d)
       \/ ConnectPub(d) \/ AnnouncePub(d)
       \/ ConnectClaim(d) \/ AnnounceClaim(d) \/ HoldClaim(d)
       \/ SplitSub(d) \/ LoopEnds(d) \/ ReleaseClaim(d)
    /\ UNCHANGED <<bus, outages, kills>>
----------------------------------------------------------------------------
(* The world.                                                               *)

(* systemd starts the unit again, whatever its exit status was.             *)
SystemdStarts(d) ==
    /\ pc[d] = "off"
    /\ GoTo(d, "loading")
    /\ UNCHANGED <<wire, prefixes, guard, status, bus, claim, faults, outages, kills>>

(* A signal ends the process where it is: no handler is installed, also     *)
(* not for SIGTERM.                                                         *)
Killed(d) ==
    /\ Alive(d)
    /\ kills < MaxKills
    /\ kills' = kills + 1
    /\ Exit(d, "killed")
    /\ UNCHANGED <<bus, claim, faults, outages>>

(* A bus that comes back knows no connection and no claim.                  *)
BusCrashes ==
    /\ bus = "up"
    /\ outages < MaxOutages
    /\ outages' = outages + 1
    /\ bus' = "down"
    /\ wire' = [d \in Daemons |-> AllClosed]
    /\ prefixes' = [d \in Daemons |-> {}]
    /\ claim' = None
    /\ UNCHANGED <<pc, guard, status, faults, kills>>

BusReturns ==
    /\ bus = "down"
    /\ bus' = "up"
    /\ UNCHANGED <<daemon, claim, faults, outages, kills>>

(* CLAIM_TTL_SECS: a claim that no living guard renews expires.             *)
Renews(d) == guard[d] /\ wire[d]["claim"] = "announced"

ClaimExpires ==
    /\ claim # None
    /\ \A d \in Daemons : ~Renews(d)
    /\ claim' = None
    /\ UNCHANGED <<daemon, bus, faults, outages, kills>>

Next ==
    \/ \E d \in Daemons : Step(d)
    \/ \E d \in Daemons : SystemdStarts(d)
    \/ \E d \in Daemons : Killed(d)
    \/ BusCrashes
    \/ BusReturns
    \/ ClaimExpires

Spec == Init /\ [][Next]_vars

(* Each call returns; systemd restarts; the bus is restarted as well, and   *)
(* its TTL runs.  No call has to fail.                                      *)
Fairness ==
    /\ \A d \in Daemons :
          /\ WF_vars(Step(d) /\ UNCHANGED faults)
          /\ WF_vars(SystemdStarts(d))
    /\ WF_vars(BusReturns)
    /\ WF_vars(ClaimExpires)

FairSpec == Spec /\ Fairness
----------------------------------------------------------------------------
Places ==
    {"off", "loading", "connecting sub", "announcing sub", "subscribing audio",
     "subscribing reload", "connecting pub", "announcing pub",
     "connecting claim", "announcing claim", "holding claim", "splitting",
     "serving", "releasing"}

(* Every variable stays in its type.                                        *)
TypeOK ==
    /\ pc \in [Daemons -> Places]
    /\ wire \in [Daemons -> [Wires -> {"closed", "open", "announced"}]]
    /\ prefixes \in [Daemons -> SUBSET {Audio, ReloadModel}]
    /\ guard \in [Daemons -> BOOLEAN]
    /\ status \in [Daemons -> {"none", "ok", "error", "killed"}]
    /\ bus \in {"up", "down"}
    /\ claim \in Daemons \cup {None}
    /\ faults \in Nat /\ outages \in Nat /\ kills \in Nat

(* The bus delivers the speech and the reloads, and hears what is published. *)
Connected(d) ==
    /\ prefixes[d] = {Audio, ReloadModel}
    /\ wire[d]["pub"] = "announced"

(* A daemon in its loop hears speech and reload requests and can publish,   *)
(* for as long as its subscribe wire is open: no failure during start-up    *)
(* leads into the loop half connected.                                      *)
ServingMeansConnected ==
    \A d \in Daemons :
        (pc[d] = "serving" /\ wire[d]["sub"] # "closed") => Connected(d)

(* The claim is a sign of readiness a rollout can wait for: the process     *)
(* that has it hears and publishes already.  The exceptions are one that    *)
(* died within the TTL, and one whose bus was replaced during its start-up, *)
(* after it connected to listen and before it connected to claim.           *)
ClaimMeansReady ==
    \A d \in Daemons :
        (claim = d /\ guard[d]) => (Connected(d) \/ wire[d]["sub"] = "closed")

(* On a bus that grants a claim to one connection at a time, whatever dies, *)
(* is restarted before the TTL or shuts down beside it, a process that      *)
(* renews the claim has it: there are never two holders.                    *)
HoldersHaveTheClaim ==
    ~SessionReacquires => \A d \in Daemons : Renews(d) => claim = d

(* Whatever fails, crashes or is killed - the claim included, which another *)
(* process may hold for good - every process comes back to serve, as long   *)
(* as its faults do not go on for ever.                                     *)
AlwaysServesAgain == \A d \in Daemons : <>[](pc[d] = "serving" /\ Connected(d))

(* The claim does not stay with a process that hears nothing: one that took *)
(* it with a dead subscribe wire, lost the wire, or died.                   *)
DeafHoldNoClaim ==
    \A d \in Daemons :
        (claim = d /\ wire[d]["sub"] = "closed")
            ~> (claim # d \/ wire[d]["sub"] # "closed")
============================================================================
