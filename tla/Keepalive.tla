------------------------------ MODULE Keepalive ------------------------------
(* Who talks on the connections of a running daemon, and when               *)
(* (src/daemon.rs, AgoraSink and run): the loop publishes, a task sends     *)
(* heartbeats on the same connection, another one on the subscribe          *)
(* connection, so that the bus does not prune the daemon from its peers.    *)
(* Between two publishes the loop may work for as long as it likes: the     *)
(* runtime has threads of its own for the two tasks.                        *)
(*                                                                          *)
(* Time passes in steps of Tick.  What tokio would run at once is done      *)
(* before the next Tick, and the bus answers within MaxCall.                *)
EXTENDS Integers, Sequences

CONSTANTS
    TIMEOUT,    \* DEFAULT_HEARTBEAT_TIMEOUT_SECS
    MaxCall,    \* the longest a call on the bus takes
    MaxStartup, \* the longest from the announcements to the tickers
    MaxFaults   \* bound: calls that fail

(* 60 seconds leave room for calls of just under 15, and a start-up of 15.  *)
ASSUME TimeAssumption ==
    /\ {TIMEOUT, MaxCall, MaxStartup, MaxFaults} \subseteq Nat
    /\ 2 * MaxCall < TIMEOUT \div 2
    /\ TIMEOUT \div 2 + MaxStartup + MaxCall <= TIMEOUT

(* Sessions, each a peer with a ticker; callers of the publish connection.  *)
Sessions == {"pub", "sub"}
Callers == {"loop", "heartbeat"}

VARIABLES
    lock,    \* who waits for the client's mutex; the head of the queue has it
    wire,    \* who asked on the publish connection and was not answered
    elapsed, \* how long the call of the one who has the mutex takes
    flight,  \* how long a heartbeat of "sub" is under way, or -1
    left,    \* time to the next tick of each ticker
    owed,    \* ticks that came and were not taken
    ended,   \* heartbeat tasks that returned
    age,     \* time since the bus heard of each session
    delay,   \* history: time since the loop asked for the mutex, if it waits
    faults

calls == <<lock, wire, elapsed>>
tickers == <<left, owed, ended>>
vars == <<calls, flight, tickers, age, delay, faults>>

None == -1

Waits(caller) == \E i \in DOMAIN lock : lock[i] = caller
Has(caller) == lock # <<>> /\ Head(lock) = caller

(* Mutant of Period: a heartbeat per timeout.                               *)
PeriodWhole == TIMEOUT

(* hb_interval                                                              *)
Period == TIMEOUT \div 2

(* The loop begins.  interval() ticks at once, and that tick was skipped;   *)
(* the ticker of "pub" is made as its session is announced, that of "sub"   *)
(* once the claim was dealt with.                                           *)
Init ==
    /\ lock = <<>> /\ wire = <<>> /\ elapsed = 0
    /\ flight = None
    /\ \E late \in 0 .. MaxStartup, spent \in 0 .. MaxStartup :
          /\ spent <= late /\ spent < Period
          /\ left = [pub |-> Period - spent, sub |-> Period]
          /\ age = [pub |-> spent, sub |-> late]
    /\ owed = [s \in Sessions |-> 0]
    /\ ended = {}
    /\ delay = 0
    /\ faults = 0
----------------------------------------------------------------------------
(* The publish connection.                                                  *)

Ask(caller) ==
    /\ ~Waits(caller)
    /\ lock' = Append(lock, caller)
    /\ UNCHANGED <<wire, elapsed>>

(* Mutant of Publish: it is sent without the mutex.                         *)
PublishUnlocked ==
    /\ "loop" \notin {wire[i] : i \in DOMAIN wire}
    /\ wire' = Append(wire, "loop")
    /\ UNCHANGED <<lock, elapsed, flight, tickers, age, delay, faults>>

(* AgoraSink::publish, at any time the loop is at it.                       *)
Publish ==
    /\ Ask("loop")
    /\ UNCHANGED <<flight, tickers, age, delay, faults>>

(* The call goes out once the mutex is had.                                 *)
Send ==
    /\ lock # <<>> /\ wire = <<>>
    /\ wire' = <<Head(lock)>>
    /\ UNCHANGED <<lock, elapsed, flight, tickers, age, delay, faults>>

(* Mutant of Release: the loop gets the mutex back before those who wait.   *)
ReleaseBarging ==
    /\ lock' = IF Head(lock) = "loop" /\ Len(lock) > 1 THEN lock ELSE Tail(lock)
    /\ wire' = Tail(wire)
    /\ elapsed' = 0

(* The guard is dropped and the mutex handed to the one that waits longest. *)
Release ==
    /\ lock' = Tail(lock)
    /\ wire' = Tail(wire)
    /\ elapsed' = 0

(* The reply is read by the one who has the mutex.                          *)
Answered(caller) == Has(caller) /\ wire # <<>>

Fault == faults < MaxFaults /\ faults' = faults + 1

(* Accepted, refused, or failed: the loop goes on.                          *)
PublishReturns ==
    /\ Answered("loop")
    /\ Release
    /\ delay' = 0
    /\ UNCHANGED faults \/ Fault
    /\ UNCHANGED <<flight, tickers, age>>

(* Mutant of HeartbeatReturns: the guard is taken once, outside the loop.   *)
ReturnsLocked ==
    /\ Answered("heartbeat")
    /\ \E ago \in 0 .. elapsed : age' = [age EXCEPT !["pub"] = ago]
    /\ wire' = Tail(wire) /\ elapsed' = 0
    /\ UNCHANGED <<lock, flight, tickers, delay, faults>>

(* The bus heard it at some moment between the request and the reply.       *)
HeartbeatReturns ==
    /\ Answered("heartbeat")
    /\ \E ago \in 0 .. elapsed : age' = [age EXCEPT !["pub"] = ago]
    /\ Release
    /\ UNCHANGED <<flight, tickers, delay, faults>>

(* One failure ends the task for good.                                      *)
HeartbeatFails ==
    /\ Answered("heartbeat")
    /\ Fault
    /\ ended' = ended \cup {"pub"}
    /\ Release
    /\ UNCHANGED <<flight, left, owed, age, delay>>

Reply == PublishReturns \/ HeartbeatReturns \/ HeartbeatFails
----------------------------------------------------------------------------
(* The tickers.                                                             *)

TakeTick(s) ==
    /\ s \notin ended
    /\ owed[s] > 0
    /\ owed' = [owed EXCEPT ![s] = @ - 1]

(* The task of "pub" waits for the mutex like the loop does.                *)
PubHeartbeat ==
    /\ TakeTick("pub")
    /\ Ask("heartbeat")
    /\ UNCHANGED <<flight, left, ended, age, delay, faults>>

(* The task of "sub" writes on its half of the connection and reads no      *)
(* reply: the loop reads it and skips it.                                   *)
SubHeartbeat ==
    /\ TakeTick("sub")
    /\ flight = None
    /\ flight' = 0
    /\ UNCHANGED <<calls, left, ended, age, delay, faults>>

SubHeard ==
    /\ flight # None
    /\ flight' = None
    /\ age' = [age EXCEPT !["sub"] = 0]
    /\ UNCHANGED <<calls, tickers, delay, faults>>

SubFails ==
    /\ flight # None
    /\ Fault
    /\ flight' = None
    /\ ended' = ended \cup {"sub"}
    /\ UNCHANGED <<calls, left, owed, age, delay>>

Beat == PubHeartbeat \/ SubHeartbeat

(* What has to happen before time passes.                                   *)
Urgent ==
    \/ lock # <<>> /\ wire = <<>>
    \/ wire # <<>> /\ elapsed >= MaxCall
    \/ "pub" \notin ended /\ owed["pub"] > 0 /\ ~Waits("heartbeat")
    \/ "sub" \notin ended /\ owed["sub"] > 0 /\ flight = None
    \/ flight >= MaxCall

(* Ages are told apart up to the timeout only, and delays up to what a      *)
(* publish may take.                                                        *)
Older(a) == IF a > TIMEOUT THEN a ELSE a + 1

Later(d) == IF d > 2 * MaxCall THEN d ELSE d + 1

Tick ==
    /\ ~Urgent
    /\ elapsed' = IF wire = <<>> THEN elapsed ELSE elapsed + 1
    /\ flight' = IF flight = None THEN None ELSE flight + 1
    /\ left' = [s \in Sessions |-> IF s \in ended THEN left[s]
                                   ELSE IF left[s] = 1 THEN Period ELSE left[s] - 1]
    /\ owed' = [s \in Sessions |-> IF s \notin ended /\ left[s] = 1
                                   THEN owed[s] + 1 ELSE owed[s]]
    /\ age' = [s \in Sessions |-> Older(age[s])]
    /\ delay' = IF Waits("loop") THEN Later(delay) ELSE delay
    /\ UNCHANGED <<lock, wire, ended, faults>>

Next ==
    \/ Publish
    \/ Send
    \/ Reply
    \/ Beat
    \/ SubHeard
    \/ SubFails
    \/ Tick

Spec == Init /\ [][Next]_vars

(* The bus answers, or the call fails.                                      *)
FairSpec == Spec /\ WF_vars(Send) /\ WF_vars(Reply)
----------------------------------------------------------------------------
(* Every variable stays in its type.                                        *)
TypeOK ==
    /\ lock \in Seq(Callers) /\ Len(lock) <= 2
    /\ wire \in Seq(Callers)
    /\ elapsed \in 0 .. MaxCall
    /\ flight \in -1 .. MaxCall
    /\ left \in [Sessions -> 1 .. TIMEOUT \div 2]
    /\ owed \in [Sessions -> Nat]
    /\ ended \subseteq Sessions
    /\ age \in [Sessions -> 0 .. TIMEOUT + 1]
    /\ delay \in 0 .. 2 * MaxCall + 1
    /\ faults \in Nat

(* A session of a daemon that runs is pruned by the bus only if its         *)
(* heartbeat failed once: never because the loop was busy with inference,   *)
(* because publish after publish wanted the same connection, or because     *)
(* start-up took its time before the first tick.                            *)
NotPruned == \A s \in Sessions : age[s] > TIMEOUT => s \in ended

(* A reply on the publish connection is read by the one who asked: there is *)
(* one request at a time, and it is that of the one who has the mutex.      *)
RepliesAreOwn == wire # <<>> => lock # <<>> /\ wire = <<Head(lock)>>

(* The heartbeats cost the loop one call at most: a publish is back within  *)
(* the time of two calls, its own and one that was before it, so that it is *)
(* the bus, and never its own heartbeat task, that holds up a transcript.   *)
PublishIsPrompt == delay <= 2 * MaxCall

(* A publish returns to the loop, whatever becomes of the heartbeats.       *)
PublishComesBack == Waits("loop") ~> ~Waits("loop")
============================================================================
