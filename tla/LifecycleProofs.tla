--------------------------- MODULE LifecycleProofs ---------------------------
(* Proofs about Lifecycle, for any number of processes, faults, outages and *)
(* kills.  That the bus keeps every prefix of a connection is assumed where a   *)
(* theorem says so.                                                         *)
EXTENDS Lifecycle, TLAPS

NoneYet == {"off", "loading", "connecting sub"}
Subscribed ==
    {"connecting pub", "announcing pub", "connecting claim", "announcing claim",
     "holding claim", "splitting", "serving", "releasing"}
Published == Subscribed \ {"connecting pub", "announcing pub"}
Past == {"splitting", "serving", "releasing"}

(* What a process has on the bus at each place of run.  Connections are     *)
(* made one after the other and die together, so a later one is missing     *)
(* only if the sub wire is closed.                                          *)
Phase(d) ==
    /\ pc[d] \in NoneYet => wire[d] = AllClosed /\ prefixes[d] = {}
    /\ pc[d] \in {"announcing sub", "subscribing audio"} => prefixes[d] = {}
    /\ (~SinglePrefix /\ pc[d] = "subscribing reload" /\ wire[d]["sub"] # "closed") =>
            prefixes[d] = {Audio}
    /\ (~SinglePrefix /\ pc[d] \in Subscribed /\ wire[d]["sub"] # "closed") =>
            prefixes[d] = {Audio, ReloadModel}
    /\ (pc[d] \in Published /\ wire[d]["sub"] # "closed") =>
            wire[d]["pub"] = "announced"
    /\ guard[d] => pc[d] \in Past

Phases == \A d \in Daemons : Phase(d)

IInv == TypeOK /\ Phases /\ HoldersHaveTheClaim

(* Everything a step may change, except of the process that takes it.       *)
Alone(d) ==
    \A e \in Daemons \ {d} :
        /\ pc'[e] = pc[e] /\ wire'[e] = wire[e]
        /\ prefixes'[e] = prefixes[e] /\ guard'[e] = guard[e]
----------------------------------------------------------------------------
LEMMA InitHolds == Init => IInv
  BY LifecycleAssumption
     DEF Init, IInv, TypeOK, Phases, Phase, HoldersHaveTheClaim, Renews, Places,
         Wires, AllClosed, NoneYet, Subscribed, Published

(* The helpers, point by point.                                             *)
LEMMA Moves ==
    ASSUME TypeOK, NEW d \in Daemons, NEW place \in Places, GoTo(d, place)
    PROVE  /\ pc' \in [Daemons -> Places]
           /\ pc'[d] = place
           /\ \A e \in Daemons \ {d} : pc'[e] = pc[e]
  BY DEF TypeOK, GoTo

LEMMA Leaves ==
    ASSUME TypeOK, NEW d \in Daemons, Exit(d, "ok") \/ Exit(d, "error") \/ Exit(d, "killed")
    PROVE  /\ pc' \in [Daemons -> Places]
           /\ wire' \in [Daemons -> [Wires -> {"closed", "open", "announced"}]]
           /\ prefixes' \in [Daemons -> SUBSET {Audio, ReloadModel}]
           /\ guard' \in [Daemons -> BOOLEAN]
           /\ status' \in [Daemons -> {"none", "ok", "error", "killed"}]
           /\ Alone(d)
           /\ pc'[d] = "off" /\ wire'[d] = AllClosed
           /\ prefixes'[d] = {} /\ ~guard'[d]
  <1>1. "off" \in Places
    BY DEF Places
  <1>2. AllClosed \in [Wires -> {"closed", "open", "announced"}]
    BY DEF AllClosed
  <1>3. /\ pc' = [pc EXCEPT ![d] = "off"]
        /\ wire' = [wire EXCEPT ![d] = AllClosed]
        /\ prefixes' = [prefixes EXCEPT ![d] = {}]
        /\ guard' = [guard EXCEPT ![d] = FALSE]
        /\ \E how \in {"ok", "error", "killed"} : status' = [status EXCEPT ![d] = how]
    BY DEF Exit
  <1>4. /\ pc' \in [Daemons -> Places]
        /\ wire' \in [Daemons -> [Wires -> {"closed", "open", "announced"}]]
    BY <1>1, <1>2, <1>3 DEF TypeOK
  <1>5. prefixes' \in [Daemons -> SUBSET {Audio, ReloadModel}]
    BY <1>3 DEF TypeOK
  <1>6. guard' \in [Daemons -> BOOLEAN]
    BY <1>3 DEF TypeOK
  <1>7. status' \in [Daemons -> {"none", "ok", "error", "killed"}]
    BY <1>3 DEF TypeOK
  <1>8. /\ pc'[d] = "off" /\ wire'[d] = AllClosed
        /\ prefixes'[d] = {} /\ ~guard'[d]
    BY <1>3 DEF TypeOK
  <1>9. Alone(d)
    BY <1>3 DEF TypeOK, Alone
  <1> QED
    BY <1>4, <1>5, <1>6, <1>7, <1>8, <1>9

(* One connection of d is now in state s, the others are as they were.      *)
Wired(d, w, s) ==
    /\ wire' \in [Daemons -> [Wires -> {"closed", "open", "announced"}]]
    /\ \A e \in Daemons \ {d} : wire'[e] = wire[e]
    /\ wire'[d][w] = s
    /\ \A v \in Wires \ {w} : wire'[d][v] = wire[d][v]

LEMMA Wiring ==
    ASSUME TypeOK, NEW d \in Daemons, NEW w \in Wires,
           NEW s \in {"closed", "open", "announced"},
           wire' = [wire EXCEPT ![d][w] = s]
    PROVE  Wired(d, w, s)
  <1> DEFINE row == [wire[d] EXCEPT ![w] = s]
  <1>1. wire[d] \in [Wires -> {"closed", "open", "announced"}]
    BY DEF TypeOK
  <1>2. /\ row \in [Wires -> {"closed", "open", "announced"}]
        /\ row[w] = s
        /\ \A v \in Wires \ {w} : row[v] = wire[d][v]
    BY <1>1
  <1>3. wire' = [wire EXCEPT ![d] = row]
    OBVIOUS
  <1>4. wire'[d] = row /\ \A e \in Daemons \ {d} : wire'[e] = wire[e]
    BY <1>3 DEF TypeOK
  <1>5. wire' \in [Daemons -> [Wires -> {"closed", "open", "announced"}]]
    <2> HIDE DEF row
    <2> QED BY <1>2, <1>3 DEF TypeOK
  <1> QED
    BY <1>2, <1>4, <1>5 DEF Wired

(* The types of what a process changes.                                     *)
Typed ==
    /\ pc \in [Daemons -> Places]
    /\ wire \in [Daemons -> [Wires -> {"closed", "open", "announced"}]]
    /\ prefixes \in [Daemons -> SUBSET {Audio, ReloadModel}]
    /\ guard \in [Daemons -> BOOLEAN]
    /\ status \in [Daemons -> {"none", "ok", "error", "killed"}]
    /\ claim \in Daemons \cup {None}
    /\ faults \in Nat

(* d went to place and is well typed; its guard and the claim are as before. *)
Went(d, place) ==
    /\ Typed' /\ Alone(d) /\ pc'[d] = place
    /\ guard' = guard /\ claim' = claim

LEMMA FaultIsTyped ==
    ASSUME TypeOK, NEW reachable \in BOOLEAN, Fails(reachable)
    PROVE  faults' \in Nat
  BY LifecycleAssumption DEF TypeOK, Fails, Fault

LEMMA Connecting ==
    ASSUME TypeOK, NEW d \in Daemons, NEW w \in Wires, NEW next \in Places,
           Connects(d, w, next)
    PROVE  Went(d, next) /\ Wired(d, w, "open") /\ prefixes' = prefixes
  <1>1. Wired(d, w, "open")
    BY Wiring DEF Connects
  <1>2. GoTo(d, next)
    BY DEF Connects
  <1> QED
    BY <1>1, <1>2, Moves DEF Connects, Went, Typed, TypeOK, Alone, Wired

LEMMA Announcing ==
    ASSUME TypeOK, NEW d \in Daemons, NEW w \in Wires, NEW next \in Places,
           Announces(d, w, next)
    PROVE  Went(d, next) /\ Wired(d, w, "announced") /\ prefixes' = prefixes
  <1>1. Wired(d, w, "announced")
    BY Wiring DEF Announces
  <1>2. GoTo(d, next)
    BY DEF Announces
  <1> QED
    BY <1>1, <1>2, Moves DEF Announces, Went, Typed, TypeOK, Alone, Wired

LEMMA Subscribing ==
    ASSUME TypeOK, NEW d \in Daemons, NEW prefix \in {Audio, ReloadModel},
           NEW next \in Places, Subscribes(d, prefix, next)
    PROVE  /\ Went(d, next) /\ wire' = wire
           /\ ~SinglePrefix => prefixes'[d] = prefixes[d] \cup {prefix}
  <1>1. GoTo(d, next)
    BY DEF Subscribes
  <1>2. PICK kept \in SUBSET {Audio, ReloadModel} :
            /\ prefixes' = [prefixes EXCEPT ![d] = kept]
            /\ ~SinglePrefix => kept = prefixes[d] \cup {prefix}
    <2>1. prefixes[d] \in SUBSET {Audio, ReloadModel}
      BY DEF TypeOK
    <2>2. CASE SinglePrefix
      BY <2>2 DEF Subscribes
    <2>3. CASE ~SinglePrefix
      BY <2>1, <2>3 DEF Subscribes
    <2> QED
      BY <2>2, <2>3
  <1>3. prefixes' \in [Daemons -> SUBSET {Audio, ReloadModel}]
    BY <1>2 DEF TypeOK
  <1>4. prefixes'[d] = kept /\ \A e \in Daemons \ {d} : prefixes'[e] = prefixes[e]
    BY <1>2 DEF TypeOK
  <1>5. Went(d, next)
    BY <1>1, <1>3, <1>4, Moves DEF Subscribes, Went, Typed, TypeOK, Alone
  <1> QED
    BY <1>2, <1>4, <1>5 DEF Subscribes

LEMMA FailingHard ==
    ASSUME TypeOK, NEW d \in Daemons, NEW reachable \in BOOLEAN,
           FailsHard(d, reachable)
    PROVE  /\ Typed' /\ Alone(d) /\ claim' = claim
           /\ pc'[d] = "off" /\ wire'[d] = AllClosed
           /\ prefixes'[d] = {} /\ ~guard'[d]
  <1>1. faults' \in Nat
    BY FaultIsTyped DEF FailsHard
  <1>2. Exit(d, "error") /\ claim' = claim
    BY DEF FailsHard
  <1> QED
    BY <1>1, <1>2, Leaves DEF Typed, TypeOK

LEMMA FailingSoftly ==
    ASSUME TypeOK, NEW d \in Daemons, NEW reachable \in BOOLEAN,
           FailsSoftly(d, reachable)
    PROVE  Went(d, "splitting") /\ wire' = wire /\ prefixes' = prefixes
  <1>1. faults' \in Nat
    BY FaultIsTyped DEF FailsSoftly
  <1>2. GoTo(d, "splitting")
    BY DEF FailsSoftly
  <1>3. "splitting" \in Places
    BY DEF Places
  <1> QED
    BY <1>1, <1>2, <1>3, Moves DEF FailsSoftly, Went, Typed, TypeOK, Alone
----------------------------------------------------------------------------
(* What a step of d may do to the claim.                                    *)
Claiming(d) ==
    \/ claim' = claim /\ (Renews(d)' => Renews(d))
    \/ claim' = d /\ (claim = None \/ SessionReacquires)
    \/ claim' = None /\ Renews(d) /\ ~Renews(d)'

Sound(d) == Typed' /\ Alone(d) /\ Phase(d)' /\ Claiming(d)

(* A process that leaves has nothing on the bus.                            *)
LEMMA OutIsSound ==
    ASSUME NEW d \in Daemons, Typed', Alone(d), pc'[d] = "off",
           wire'[d] = AllClosed, prefixes'[d] = {}, ~guard'[d],
           claim' = claim \/ (claim' = None /\ Renews(d))
    PROVE  Sound(d)
  <1>1. Phase(d)'
    BY DEF Phase, NoneYet, Subscribed, Published, Past
  <1>2. ~Renews(d)'
    BY DEF Renews
  <1> QED
    BY <1>1, <1>2 DEF Sound, Claiming

LEMMA StepIsSound ==
    ASSUME TypeOK, NEW d \in Daemons, Phase(d), Step(d)
    PROVE  Sound(d)
  <1>h. ASSUME NEW reachable \in BOOLEAN, FailsHard(d, reachable)
        PROVE  Sound(d)
    <2>1. /\ Typed' /\ Alone(d) /\ claim' = claim
          /\ pc'[d] = "off" /\ wire'[d] = AllClosed
          /\ prefixes'[d] = {} /\ ~guard'[d]
      BY <1>h, FailingHard
    <2> QED
      BY <2>1, OutIsSound
  <1>p. /\ "sub" \in Wires /\ "pub" \in Wires /\ "claim" \in Wires
        /\ {"connecting sub", "announcing sub", "subscribing audio",
            "subscribing reload", "connecting pub", "announcing pub",
            "connecting claim", "announcing claim", "holding claim",
            "splitting", "serving", "releasing"} \subseteq Places
    BY DEF Wires, Places
  <1>t. Typed /\ Audio # ReloadModel
    BY DEF TypeOK, Typed, Audio, ReloadModel
  <1>1. CASE BuildProcessor(d)
    <2>1. CASE FailsHard(d, TRUE)
      BY <2>1, <1>h
    <2>2. CASE /\ GoTo(d, "connecting sub")
               /\ UNCHANGED <<wire, prefixes, guard, status, claim, faults>>
      <3>1. Typed' /\ Alone(d) /\ pc'[d] = "connecting sub"
        BY <2>2, <1>p, <1>t, Moves DEF Typed, Alone
      <3>2. Phase(d)'
        BY <1>1, <2>2, <3>1
           DEF BuildProcessor, Phase, NoneYet, Subscribed, Published, Past
      <3> QED
        BY <2>2, <3>1, <3>2 DEF Sound, Claiming, Renews
    <2> QED
      BY <1>1, <2>1, <2>2 DEF BuildProcessor
  <1>2. CASE ConnectSub(d)
    <2>1. CASE FailsHard(d, TRUE)
      BY <2>1, <1>h
    <2>2. CASE Exit(d, "ok") /\ UNCHANGED <<claim, faults>>
      <3>1. /\ Typed' /\ Alone(d) /\ claim' = claim
            /\ pc'[d] = "off" /\ wire'[d] = AllClosed
            /\ prefixes'[d] = {} /\ ~guard'[d]
        BY <2>2, <1>t, Leaves DEF Typed
      <3> QED
        BY <3>1, OutIsSound
    <2>3. CASE Connects(d, "sub", "announcing sub")
      <3>1. /\ Went(d, "announcing sub") /\ Wired(d, "sub", "open")
            /\ prefixes' = prefixes
        BY <2>3, <1>p, Connecting
      <3>2. Phase(d)'
        BY <1>2, <3>1 DEF ConnectSub, Went, Phase, NoneYet, Subscribed, Published, Past
      <3> QED
        BY <1>p, <3>1, <3>2 DEF Sound, Claiming, Renews, Went, Wired
    <2> QED
      BY <1>2, <2>1, <2>2, <2>3 DEF ConnectSub
  <1>3. CASE AnnounceSub(d)
    <2>1. CASE FailsHard(d, wire[d]["sub"] = "open")
      BY <2>1, <1>h
    <2>2. CASE Announces(d, "sub", "subscribing audio")
      <3>1. /\ Went(d, "subscribing audio") /\ Wired(d, "sub", "announced")
            /\ prefixes' = prefixes
        BY <2>2, <1>p, Announcing
      <3>2. Phase(d)'
        BY <1>3, <3>1 DEF AnnounceSub, Went, Phase, NoneYet, Subscribed, Published, Past
      <3> QED
        BY <1>p, <3>1, <3>2 DEF Sound, Claiming, Renews, Went, Wired
    <2> QED
      BY <1>3, <2>1, <2>2 DEF AnnounceSub
  <1>4. CASE SubscribeAudio(d)
    <2>1. CASE FailsHard(d, wire[d]["sub"] = "announced")
      BY <2>1, <1>h
    <2>2. CASE Subscribes(d, Audio, "subscribing reload")
      <3>1. /\ Went(d, "subscribing reload") /\ wire' = wire
            /\ ~SinglePrefix => prefixes'[d] = prefixes[d] \cup {Audio}
        BY <2>2, <1>p, Subscribing
      <3>2. Phase(d)'
        BY <1>4, <3>1
           DEF SubscribeAudio, Went, Phase, NoneYet, Subscribed, Published, Past
      <3> QED
        BY <3>1, <3>2 DEF Sound, Claiming, Renews, Went
    <2> QED
      BY <1>4, <2>1, <2>2 DEF SubscribeAudio
  <1>5. CASE SubscribeReload(d)
    <2>1. CASE FailsHard(d, wire[d]["sub"] = "announced")
      BY <2>1, <1>h
    <2>2. CASE Subscribes(d, ReloadModel, "connecting pub")
      <3>1. /\ Went(d, "connecting pub") /\ wire' = wire
            /\ ~SinglePrefix => prefixes'[d] = prefixes[d] \cup {ReloadModel}
        BY <2>2, <1>p, Subscribing
      <3>2. Phase(d)'
        BY <1>5, <3>1
           DEF SubscribeReload, Went, Phase, NoneYet, Subscribed, Published, Past
      <3> QED
        BY <3>1, <3>2 DEF Sound, Claiming, Renews, Went
    <2> QED
      BY <1>5, <2>1, <2>2 DEF SubscribeReload
  <1>6. CASE ConnectPub(d)
    <2>1. CASE FailsHard(d, bus = "up")
      BY <2>1, <1>h
    <2>2. CASE Connects(d, "pub", "announcing pub")
      <3>1. /\ Went(d, "announcing pub") /\ Wired(d, "pub", "open")
            /\ prefixes' = prefixes
        BY <2>2, <1>p, Connecting
      <3>2. Phase(d)'
        BY <1>6, <1>p, <3>1
           DEF ConnectPub, Went, Wired, Phase, NoneYet, Subscribed, Published, Past
      <3> QED
        BY <1>p, <3>1, <3>2 DEF Sound, Claiming, Renews, Went, Wired
    <2> QED
      BY <1>6, <2>1, <2>2 DEF ConnectPub
  <1>7. CASE AnnouncePub(d)
    <2>1. CASE FailsHard(d, wire[d]["pub"] = "open")
      BY <2>1, <1>h
    <2>2. CASE Announces(d, "pub", "connecting claim")
      <3>1. /\ Went(d, "connecting claim") /\ Wired(d, "pub", "announced")
            /\ prefixes' = prefixes
        BY <2>2, <1>p, Announcing
      <3>2. Phase(d)'
        BY <1>7, <1>p, <3>1
           DEF AnnouncePub, Went, Wired, Phase, NoneYet, Subscribed, Published, Past
      <3> QED
        BY <1>p, <3>1, <3>2 DEF Sound, Claiming, Renews, Went, Wired
    <2> QED
      BY <1>7, <2>1, <2>2 DEF AnnouncePub
  <1>s. ASSUME NEW reachable \in BOOLEAN, FailsSoftly(d, reachable),
               pc[d] \in {"connecting claim", "announcing claim", "holding claim"}
        PROVE  Sound(d)
    <2>1. Went(d, "splitting") /\ wire' = wire /\ prefixes' = prefixes
      BY <1>s, FailingSoftly
    <2>2. Phase(d)'
      BY <1>s, <2>1 DEF Went, Phase, NoneYet, Subscribed, Published, Past
    <2> QED
      BY <2>1, <2>2 DEF Sound, Claiming, Renews, Went
  <1>8. CASE ConnectClaim(d)
    <2>1. CASE FailsSoftly(d, bus = "up")
      BY <1>8, <2>1, <1>s DEF ConnectClaim
    <2>2. CASE Connects(d, "claim", "announcing claim")
      <3>1. /\ Went(d, "announcing claim") /\ Wired(d, "claim", "open")
            /\ prefixes' = prefixes
        BY <2>2, <1>p, Connecting
      <3>2. Phase(d)'
        BY <1>8, <1>p, <3>1
           DEF ConnectClaim, Went, Wired, Phase, NoneYet, Subscribed, Published, Past
      <3> QED
        BY <3>1, <3>2 DEF Sound, Claiming, Renews, Went, Wired
    <2> QED
      BY <1>8, <2>1, <2>2 DEF ConnectClaim
  <1>9. CASE AnnounceClaim(d)
    <2>1. CASE FailsSoftly(d, wire[d]["claim"] = "open")
      BY <1>9, <2>1, <1>s DEF AnnounceClaim
    <2>2. CASE Announces(d, "claim", "holding claim")
      <3>1. /\ Went(d, "holding claim") /\ Wired(d, "claim", "announced")
            /\ prefixes' = prefixes
        BY <2>2, <1>p, Announcing
      <3>2. Phase(d)'
        BY <1>9, <1>p, <3>1
           DEF AnnounceClaim, Went, Wired, Phase, NoneYet, Subscribed, Published, Past
      <3>3. ~guard[d]
        BY <1>9 DEF AnnounceClaim, Phase, Past
      <3> QED
        BY <3>1, <3>2, <3>3 DEF Sound, Claiming, Renews, Went, Wired
    <2> QED
      BY <1>9, <2>1, <2>2 DEF AnnounceClaim
  <1>10. CASE HoldClaim(d)
    <2>1. CASE FailsSoftly(d, Grantable(d))
      BY <1>10, <2>1, <1>s DEF HoldClaim, Grantable
    <2>2. CASE HoldGranted(d)
      <3>1. GoTo(d, "splitting")
        BY <2>2 DEF HoldGranted
      <3>2. Typed' /\ Alone(d) /\ pc'[d] = "splitting"
        BY <2>2, <3>1, <1>p, <1>t, Moves DEF HoldGranted, Typed, Alone
      <3>3. Phase(d)'
        BY <1>10, <2>2, <3>2
           DEF HoldClaim, HoldGranted, Phase, NoneYet, Subscribed, Published, Past
      <3> QED
        BY <2>2, <3>2, <3>3 DEF HoldGranted, Grantable, Sound, Claiming
    <2> QED
      BY <1>10, <2>1, <2>2 DEF HoldClaim
  <1>11. CASE SplitSub(d)
    <2>1. GoTo(d, "serving") /\ UNCHANGED <<wire, prefixes, guard, status, claim, faults>>
      BY <1>11 DEF SplitSub
    <2>2. Typed' /\ Alone(d) /\ pc'[d] = "serving"
      BY <2>1, <1>p, <1>t, Moves DEF Typed, Alone
    <2>3. Phase(d)'
      BY <1>11, <2>1, <2>2 DEF SplitSub, Phase, NoneYet, Subscribed, Published, Past
    <2> QED
      BY <2>1, <2>2, <2>3 DEF Sound, Claiming, Renews
  <1>12. CASE LoopEnds(d)
    <2>1. /\ GoTo(d, "releasing") /\ UNCHANGED <<wire, prefixes, guard, status, claim>>
          /\ Fails(wire[d]["sub"] # "closed")
      BY <1>12 DEF LoopEnds
    <2>2. Typed' /\ Alone(d) /\ pc'[d] = "releasing"
      <3>1. faults' \in Nat
        BY <2>1, FaultIsTyped
      <3> QED
        BY <2>1, <3>1, <1>p, <1>t, Moves DEF Typed, Alone
    <2>3. Phase(d)'
      BY <1>12, <2>1, <2>2 DEF LoopEnds, Phase, NoneYet, Subscribed, Published, Past
    <2> QED
      BY <2>1, <2>2, <2>3 DEF Sound, Claiming, Renews
  <1>13. CASE ReleaseClaim(d)
    <2>1. faults' \in Nat
      <3>1. CASE UNCHANGED faults
        BY <3>1, <1>t DEF Typed
      <3>2. CASE Fails(wire[d]["claim"] = "announced")
        BY <3>2, FaultIsTyped
      <3> QED
        BY <1>13, <3>1, <3>2 DEF ReleaseClaim
    <2>2. Exit(d, "ok")
      BY <1>13 DEF ReleaseClaim
    <2>3. claim' = claim \/ (claim' = None /\ Renews(d))
      <3>1. CASE guard[d] /\ wire[d]["claim"] = "announced" /\ claim' = None
        BY <3>1 DEF Renews
      <3>2. CASE claim' = claim
        BY <3>2
      <3> QED
        BY <1>13, <3>1, <3>2 DEF ReleaseClaim
    <2>4. Typed'
      BY <1>t, <2>1, <2>2, <2>3, Leaves DEF Typed
    <2>5. /\ Alone(d) /\ pc'[d] = "off" /\ wire'[d] = AllClosed
          /\ prefixes'[d] = {} /\ ~guard'[d]
      BY <2>2, Leaves
    <2> QED
      BY <2>3, <2>4, <2>5, OutIsSound
  <1> QED
    BY <1>1, <1>2, <1>3, <1>4, <1>5, <1>6, <1>7, <1>8, <1>9, <1>10, <1>11,
       <1>12, <1>13 DEF Step
----------------------------------------------------------------------------
(* A process that did nothing stays in its phase, and renews as before.     *)
LEMMA OthersKeep ==
    ASSUME NEW d \in Daemons, Alone(d), NEW e \in Daemons, e # d, Phase(e)
    PROVE  Phase(e)' /\ (Renews(e)' <=> Renews(e))
  <1>1. /\ pc'[e] = pc[e] /\ wire'[e] = wire[e]
        /\ prefixes'[e] = prefixes[e] /\ guard'[e] = guard[e]
    BY DEF Alone
  <1> QED
    BY <1>1 DEF Phase, Renews

(* A step of one process keeps the invariant of all.                        *)
LEMMA ProcessStep ==
    ASSUME IInv, NEW d \in Daemons, Sound(d)
    PROVE  Phases' /\ HoldersHaveTheClaim'
  <1>1. Phases'
    BY OthersKeep DEF IInv, Phases, Sound
  <1>2. ASSUME ~SessionReacquires, NEW e \in Daemons, Renews(e)'
        PROVE  claim' = e
    <2>1. CASE claim' = claim /\ (Renews(d)' => Renews(d))
      BY <1>2, <2>1, OthersKeep DEF IInv, Phases, Sound, HoldersHaveTheClaim
    <2>2. CASE claim' = d /\ claim = None
      <3>1. e # d => Renews(e)
        BY <1>2, OthersKeep DEF IInv, Phases, Sound
      <3>2. ~Renews(e)
        BY <1>2, <2>2, LifecycleAssumption DEF IInv, HoldersHaveTheClaim
      <3> QED
        BY <2>2, <3>1, <3>2
    <2>3. CASE claim' = None /\ Renews(d) /\ ~Renews(d)'
      <3>1. claim = d
        BY <1>2, <2>3 DEF IInv, HoldersHaveTheClaim
      <3>2. e # d /\ Renews(e)
        BY <1>2, <2>3, OthersKeep DEF IInv, Phases, Sound
      <3> QED
        BY <1>2, <3>1, <3>2 DEF IInv, HoldersHaveTheClaim
    <2> QED
      BY <1>2, <2>1, <2>2, <2>3 DEF Sound, Claiming
  <1> QED
    BY <1>1, <1>2 DEF HoldersHaveTheClaim

LEMMA SystemdIsSound ==
    ASSUME IInv, NEW d \in Daemons, SystemdStarts(d)
    PROVE  Sound(d) /\ TypeOK'
  <1>1. /\ GoTo(d, "loading") /\ "loading" \in Places
        /\ UNCHANGED <<wire, prefixes, guard, status, bus, claim, faults, outages, kills>>
    BY DEF SystemdStarts, Places
  <1>2. Typed' /\ Alone(d) /\ pc'[d] = "loading"
    BY <1>1, Moves DEF IInv, TypeOK, Typed, Alone
  <1>3. Phase(d)'
    BY <1>1, <1>2
       DEF IInv, Phases, Phase, SystemdStarts, NoneYet, Subscribed, Published, Past
  <1> QED
    BY <1>1, <1>2, <1>3 DEF IInv, TypeOK, Typed, Sound, Claiming, Renews

LEMMA KilledIsSound ==
    ASSUME IInv, NEW d \in Daemons, Killed(d)
    PROVE  Sound(d) /\ TypeOK'
  <1>1. /\ Exit(d, "killed") /\ kills' = kills + 1
        /\ UNCHANGED <<bus, claim, faults, outages>>
    BY DEF Killed
  <1>2. /\ Alone(d) /\ pc'[d] = "off" /\ wire'[d] = AllClosed
        /\ prefixes'[d] = {} /\ ~guard'[d]
    BY <1>1, Leaves DEF IInv
  <1>3. Typed'
    BY <1>1, Leaves DEF IInv, TypeOK, Typed
  <1>4. Sound(d)
    BY <1>1, <1>2, <1>3, OutIsSound
  <1>5. kills' \in Nat
    BY <1>1 DEF IInv, TypeOK
  <1> QED
    BY <1>1, <1>3, <1>4, <1>5 DEF IInv, TypeOK, Typed

LEMMA CrashKeeps ==
    ASSUME IInv, BusCrashes
    PROVE  IInv'
  <1>1. \A d \in Daemons : wire'[d] = AllClosed /\ prefixes'[d] = {}
    BY DEF BusCrashes
  <1>2. AllClosed \in [Wires -> {"closed", "open", "announced"}]
    BY DEF AllClosed
  <1>3. /\ wire' \in [Daemons -> [Wires -> {"closed", "open", "announced"}]]
        /\ prefixes' \in [Daemons -> SUBSET {Audio, ReloadModel}]
    BY <1>2 DEF BusCrashes
  <1>4. TypeOK'
    BY <1>3 DEF IInv, TypeOK, BusCrashes
  <1>5. \A d \in Daemons : wire'[d]["sub"] = "closed" /\ wire'[d]["claim"] = "closed"
    BY <1>1 DEF AllClosed, Wires
  <1>6. Phases'
    BY <1>1, <1>5 DEF IInv, Phases, Phase, BusCrashes, NoneYet, Subscribed, Published
  <1>7. HoldersHaveTheClaim'
    BY <1>5 DEF HoldersHaveTheClaim, Renews
  <1> QED
    BY <1>4, <1>6, <1>7 DEF IInv

LEMMA InvariantHolds == IInv /\ [Next]_vars => IInv'
  <1> SUFFICES ASSUME IInv, [Next]_vars PROVE IInv'
    OBVIOUS
  <1>1. ASSUME NEW d \in Daemons, Step(d) PROVE IInv'
    <2>1. Sound(d)
      BY <1>1, StepIsSound DEF IInv, Phases
    <2>2. UNCHANGED <<bus, outages, kills>>
      BY <1>1 DEF Step
    <2>3. TypeOK'
      BY <2>1, <2>2 DEF IInv, TypeOK, Typed, Sound
    <2> QED
      BY <2>1, <2>3, ProcessStep DEF IInv
  <1>2. ASSUME NEW d \in Daemons, SystemdStarts(d) PROVE IInv'
    BY <1>2, SystemdIsSound, ProcessStep DEF IInv
  <1>3. ASSUME NEW d \in Daemons, Killed(d) PROVE IInv'
    BY <1>3, KilledIsSound, ProcessStep DEF IInv
  <1>4. CASE BusCrashes
    BY <1>4, CrashKeeps
  <1>5. CASE BusReturns
    BY <1>5 DEF BusReturns, daemon, IInv, TypeOK, Phases, Phase, HoldersHaveTheClaim, Renews
  <1>6. CASE ClaimExpires
    BY <1>6, LifecycleAssumption
       DEF ClaimExpires, daemon, IInv, TypeOK, Phases, Phase, HoldersHaveTheClaim, Renews
  <1>7. CASE UNCHANGED vars
    BY <1>7
       DEF vars, daemon, IInv, TypeOK, Phases, Phase, HoldersHaveTheClaim, Renews
  <1> QED
    BY <1>1, <1>2, <1>3, <1>4, <1>5, <1>6, <1>7 DEF Next

(* The invariant of all processes.                                          *)
THEOREM Safety == Spec => []IInv
  BY InitHolds, InvariantHolds, PTL DEF Spec

(* Every reachable state is well typed.                                     *)
THEOREM TypeCorrect == Spec => []TypeOK
  <1>1. IInv => TypeOK
    BY DEF IInv
  <1> QED
    BY <1>1, Safety, PTL

(* On a bus that keeps every prefix of a connection, nothing that fails,    *)
(* crashes or is killed lets a daemon into its loop half connected.         *)
THEOREM ServesConnected ==
    ASSUME ~SinglePrefix
    PROVE  Spec => []ServingMeansConnected
  <1>1. IInv => ServingMeansConnected
    BY DEF IInv, Phases, Phase, ServingMeansConnected, Connected, Subscribed, Published
  <1> QED
    BY <1>1, Safety, PTL

(* The claim, seen by another process, says its holder is ready.            *)
THEOREM ClaimIsReadiness ==
    ASSUME ~SinglePrefix
    PROVE  Spec => []ClaimMeansReady
  <1>1. IInv => ClaimMeansReady
    BY DEF IInv, Phases, Phase, ClaimMeansReady, Connected, Subscribed, Published, Past
  <1> QED
    BY <1>1, Safety, PTL

(* On a bus that grants a claim once, a process that renews it has it.      *)
THEOREM OneHolder == Spec => []HoldersHaveTheClaim
  <1>1. IInv => HoldersHaveTheClaim
    BY DEF IInv
  <1> QED
    BY <1>1, Safety, PTL
============================================================================
