-------------------------- MODULE KeepaliveProofs --------------------------
(* Theorems about Keepalive, for every timeout, every bound on calls and    *)
(* start-up that fits it, and any number of failures.                       *)
(*                                                                          *)
(* IInv adds up, for each ticker, how old its session is and how long it is *)
(* to the next tick: without a heartbeat on its way the sum is a period;    *)
(* with one, the ticker tells how long it has been waiting, a call of the   *)
(* loop and its own at most.                                                *)
EXTENDS Keepalive, SequenceTheorems, TLAPS

Locks ==
    {<<>>, <<"loop">>, <<"heartbeat">>, <<"loop", "heartbeat">>, <<"heartbeat", "loop">>}

Waiting == lock \in {<<"heartbeat">>, <<"loop", "heartbeat">>, <<"heartbeat", "loop">>}

Connection ==
    /\ lock \in Locks
    /\ wire = <<>> => elapsed = 0
    /\ wire # <<>> => lock # <<>> /\ wire = <<Head(lock)>>

PubInTime ==
    "pub" \notin ended =>
        /\ ~Waiting /\ owed["pub"] = 0 => age["pub"] + left["pub"] <= Period
        /\ ~Waiting /\ owed["pub"] > 0 => age["pub"] <= Period /\ left["pub"] = Period
        /\ owed["pub"] <= 1
        /\ Waiting =>
              /\ owed["pub"] = 0
              /\ age["pub"] + left["pub"] <= 2 * Period
              /\ IF lock = <<"loop", "heartbeat">>
                 THEN left["pub"] >= Period - elapsed
                 ELSE /\ left["pub"] >= Period - MaxCall - elapsed
                      /\ left["pub"] <= Period - elapsed

SubInTime ==
    "sub" \notin ended =>
        /\ flight = None /\ owed["sub"] = 0 => age["sub"] + left["sub"] <= Period + MaxStartup
        /\ flight = None /\ owed["sub"] > 0 =>
              age["sub"] <= Period + MaxStartup /\ left["sub"] = Period
        /\ owed["sub"] <= 1
        /\ flight # None =>
              /\ owed["sub"] = 0
              /\ left["sub"] + flight = Period
              /\ age["sub"] <= Period + MaxStartup + flight

Typed ==
    /\ elapsed \in 0 .. MaxCall
    /\ flight \in -1 .. MaxCall
    /\ left \in [Sessions -> 1 .. Period]
    /\ owed \in [Sessions -> Nat]
    /\ ended \subseteq Sessions
    /\ age \in [Sessions -> 0 .. TIMEOUT + 1]
    /\ delay \in 0 .. 2 * MaxCall + 1
    /\ faults \in Nat

(* How long a publish has waited: since the call before it began, and since *)
(* its own did.                                                             *)
Prompt ==
    /\ lock \in {<<>>, <<"heartbeat">>} => delay = 0
    /\ lock = <<"heartbeat", "loop">> => delay <= elapsed
    /\ lock \in {<<"loop">>, <<"loop", "heartbeat">>} => delay <= MaxCall + elapsed

IInv == Typed /\ Connection /\ PubInTime /\ SubInTime /\ Prompt
----------------------------------------------------------------------------
LEMMA Times ==
    /\ TIMEOUT \in Nat /\ MaxCall \in Nat /\ MaxStartup \in Nat /\ MaxFaults \in Nat
    /\ Period \in Nat /\ Period > 0 /\ 2 * Period <= TIMEOUT
    /\ 2 * MaxCall < Period
    /\ Period + MaxStartup + MaxCall <= TIMEOUT
<1>1. TIMEOUT \in Nat /\ MaxCall \in Nat /\ MaxStartup \in Nat /\ MaxFaults \in Nat
  BY TimeAssumption
<1>2. Period \in Nat /\ 2 * Period <= TIMEOUT
  BY <1>1 DEF Period
<1> QED
  BY <1>1, <1>2, TimeAssumption DEF Period

(* The queue of the mutex, by cases.                                        *)
LEMMA LockCases ==
    ASSUME lock \in Locks
    PROVE  /\ Waits("loop") <=> lock \in {<<"loop">>, <<"loop", "heartbeat">>, <<"heartbeat", "loop">>}
           /\ Waits("heartbeat") <=> Waiting
           /\ Has("loop") <=> lock \in {<<"loop">>, <<"loop", "heartbeat">>}
           /\ Has("heartbeat") <=> lock \in {<<"heartbeat">>, <<"heartbeat", "loop">>}
BY DEF Locks, Waits, Waiting, Has

LEMMA AppendPair ==
    ASSUME NEW first, NEW second
    PROVE  Append(<<first>>, second) = <<first, second>>
<1> DEFINE S == {first, second}
           joined == Append(<<first>>, second)
<1>1. <<first>> \in Seq(S) /\ Len(<<first>>) = 1 /\ <<first>>[1] = first
  OBVIOUS
<1>2. /\ joined \in Seq(S) /\ Len(joined) = 2
      /\ joined[1] = first /\ joined[2] = second
  BY <1>1, AppendProperties
<1>3. <<first, second>> \in Seq(S) /\ Len(<<first, second>>) = 2
  OBVIOUS
<1>4. \A i \in 1 .. Len(joined) : joined[i] = <<first, second>>[i]
  BY <1>2
<1> HIDE DEF joined, S
<1>5. joined = <<first, second>>
  BY <1>2, <1>3, <1>4, SeqEqual
<1> QED
  BY <1>5 DEF joined

LEMMA AskCases ==
    ASSUME lock \in Locks, NEW caller \in Callers, Ask(caller)
    PROVE  \/ lock = <<>> /\ lock' = <<caller>>
           \/ caller = "loop" /\ lock = <<"heartbeat">> /\ lock' = <<"heartbeat", "loop">>
           \/ caller = "heartbeat" /\ lock = <<"loop">> /\ lock' = <<"loop", "heartbeat">>
<1>1. lock' = Append(lock, caller) /\ ~Waits(caller)
  BY DEF Ask
<1>2. CASE lock = <<>>
  BY <1>1, <1>2
<1>3. CASE lock = <<"loop">>
  <2>1. caller # "loop"
    BY <1>1, <1>3 DEF Waits
  <2>2. caller = "heartbeat"
    BY <2>1 DEF Callers
  <2>3. Append(<<"loop">>, caller) = <<"loop", caller>>
    BY AppendPair
  <2> QED
    BY <1>1, <1>3, <2>2, <2>3
<1>4. CASE lock = <<"heartbeat">>
  <2>1. caller # "heartbeat"
    BY <1>1, <1>4 DEF Waits
  <2>2. caller = "loop"
    BY <2>1 DEF Callers
  <2>3. Append(<<"heartbeat">>, caller) = <<"heartbeat", caller>>
    BY AppendPair
  <2> QED
    BY <1>1, <1>4, <2>2, <2>3
<1>5. lock # <<"loop", "heartbeat">> /\ lock # <<"heartbeat", "loop">>
  BY <1>1, LockCases DEF Callers, Waiting
<1> QED
  BY <1>2, <1>3, <1>4, <1>5 DEF Locks

LEMMA ReleaseCases ==
    ASSUME Connection, NEW caller \in Callers, Answered(caller), Release
    PROVE  /\ wire' = <<>> /\ elapsed' = 0
           /\ \/ lock = <<caller>> /\ lock' = <<>>
              \/ caller = "loop" /\ lock = <<"loop", "heartbeat">> /\ lock' = <<"heartbeat">>
              \/ caller = "heartbeat" /\ lock = <<"heartbeat", "loop">> /\ lock' = <<"loop">>
<1>1. lock # <<>> /\ Head(lock) = caller /\ wire = <<Head(lock)>> /\ lock \in Locks
  BY DEF Connection, Answered, Has
<1>2. lock' = Tail(lock) /\ wire' = <<>> /\ elapsed' = 0
  BY <1>1 DEF Release
<1>3. CASE lock = <<"loop">> \/ lock = <<"heartbeat">>
  BY <1>1, <1>2, <1>3
<1>4. CASE lock = <<"loop", "heartbeat">>
  BY <1>1, <1>2, <1>4
<1>5. CASE lock = <<"heartbeat", "loop">>
  BY <1>1, <1>2, <1>5
<1> QED
  BY <1>1, <1>2, <1>3, <1>4, <1>5 DEF Locks

LEMMA InitInv == Init => IInv
<1> SUFFICES ASSUME Init PROVE IInv
  OBVIOUS
<1> USE Times
<1>1. PICK late \in 0 .. MaxStartup, spent \in 0 .. MaxStartup :
        /\ spent <= late /\ spent < Period
        /\ left = [pub |-> Period - spent, sub |-> Period]
        /\ age = [pub |-> spent, sub |-> late]
  BY DEF Init
<1>2. Typed
  BY <1>1 DEF Init, Typed, Sessions, None
<1>3. Connection
  BY DEF Init, Connection, Locks
<1>4. PubInTime /\ SubInTime
  BY <1>1 DEF Init, PubInTime, SubInTime, Waiting, Sessions, None
<1>5. Prompt
  BY DEF Init, Prompt
<1> QED
  BY <1>2, <1>3, <1>4, <1>5 DEF IInv
----------------------------------------------------------------------------
(* What a step on the publish connection leaves to the other ticker.        *)
LEMMA SubUntouched ==
    ASSUME SubInTime, UNCHANGED <<flight, left>>,
           owed'["sub"] = owed["sub"], age'["sub"] = age["sub"],
           "sub" \in ended => "sub" \in ended'
    PROVE  SubInTime'
BY DEF SubInTime

LEMMA PubUntouched ==
    ASSUME PubInTime, UNCHANGED <<lock, elapsed, left>>,
           owed'["pub"] = owed["pub"], age'["pub"] = age["pub"],
           "pub" \in ended => "pub" \in ended'
    PROVE  PubInTime'
BY DEF PubInTime, Waiting

LEMMA PublishInv ==
    ASSUME IInv, Publish
    PROVE  IInv'
<1> USE Times DEF IInv
<1>1. /\ UNCHANGED <<wire, elapsed, flight, left, owed, ended, age, delay, faults>>
      /\ \/ lock = <<>> /\ lock' = <<"loop">>
         \/ lock = <<"heartbeat">> /\ lock' = <<"heartbeat", "loop">>
  BY AskCases DEF Publish, Ask, tickers, Connection, Callers
<1>2. Typed' /\ SubInTime'
  BY <1>1 DEF Typed, SubInTime
<1>3. Connection'
  BY <1>1 DEF Connection, Locks
<1>4. PubInTime'
  <2>1. Waiting' <=> Waiting
    BY <1>1 DEF Waiting
  <2>2. lock' # <<"loop", "heartbeat">> /\ lock # <<"loop", "heartbeat">>
    BY <1>1
  <2> QED
    BY <1>1, <2>1, <2>2 DEF PubInTime
<1>5. Prompt'
  BY <1>1 DEF Prompt, Typed
<1> QED
  BY <1>2, <1>3, <1>4, <1>5

LEMMA SendInv ==
    ASSUME IInv, Send
    PROVE  IInv'
<1> USE DEF IInv
<1>1. Typed' /\ SubInTime' /\ PubInTime' /\ Prompt'
  BY DEF Send, tickers, Typed, SubInTime, PubInTime, Waiting, Prompt
<1>2. Connection'
  BY DEF Send, Connection, Locks
<1> QED
  BY <1>1, <1>2

LEMMA PublishReturnsInv ==
    ASSUME IInv, PublishReturns
    PROVE  IInv'
<1> USE Times DEF IInv
<1>1. /\ wire' = <<>> /\ elapsed' = 0 /\ UNCHANGED <<flight, left, owed, ended, age>>
      /\ delay' = 0 /\ faults' \in Nat
      /\ \/ lock = <<"loop">> /\ lock' = <<>>
         \/ lock = <<"loop", "heartbeat">> /\ lock' = <<"heartbeat">>
  BY ReleaseCases DEF PublishReturns, tickers, Typed, Fault, Callers
<1>2. Typed' /\ SubInTime'
  BY <1>1 DEF Typed, SubInTime
<1>3. Connection'
  BY <1>1 DEF Connection, Locks
<1>4. PubInTime'
  <2>1. elapsed \in 0 .. MaxCall /\ left["pub"] \in 1 .. Period
    BY DEF Typed, Sessions
  <2>2. CASE lock = <<"loop">> /\ lock' = <<>>
    <3>1. ~Waiting /\ ~Waiting'
      BY <2>2 DEF Waiting
    <3> QED
      BY <1>1, <3>1 DEF PubInTime
  <2>3. CASE lock = <<"loop", "heartbeat">> /\ lock' = <<"heartbeat">>
    <3>1. Waiting /\ Waiting' /\ lock' # <<"loop", "heartbeat">>
      BY <2>3 DEF Waiting
    <3> QED
      BY <1>1, <2>1, <2>3, <3>1 DEF PubInTime
  <2> QED
    BY <1>1, <2>2, <2>3
<1>5. Prompt'
  BY <1>1 DEF Prompt
<1> QED
  BY <1>2, <1>3, <1>4, <1>5

LEMMA HeartbeatReturnsInv ==
    ASSUME IInv, HeartbeatReturns
    PROVE  IInv'
<1> USE Times DEF IInv
<1>1. /\ wire' = <<>> /\ elapsed' = 0 /\ UNCHANGED <<flight, left, owed, ended, delay, faults>>
      /\ \/ lock = <<"heartbeat">> /\ lock' = <<>>
         \/ lock = <<"heartbeat", "loop">> /\ lock' = <<"loop">>
  BY ReleaseCases DEF HeartbeatReturns, tickers, Callers
<1>2. PICK ago \in 0 .. elapsed : age' = [age EXCEPT !["pub"] = ago]
  BY DEF HeartbeatReturns
<1>3. /\ elapsed \in 0 .. MaxCall /\ left["pub"] \in 1 .. Period
      /\ age'["pub"] = ago /\ age'["sub"] = age["sub"]
  BY <1>2 DEF Typed, Sessions
<1>4. Typed'
  BY <1>1, <1>2, <1>3 DEF Typed, Sessions
<1>5. Connection' /\ SubInTime'
  BY <1>1, <1>3, SubUntouched DEF Connection, Locks
<1>6. PubInTime'
  <2>1. Waiting /\ ~Waiting' /\ lock # <<"loop", "heartbeat">>
    <3>1. CASE lock = <<"heartbeat">> /\ lock' = <<>>
      BY <3>1 DEF Waiting
    <3>2. CASE lock = <<"heartbeat", "loop">> /\ lock' = <<"loop">>
      BY <3>2 DEF Waiting
    <3> QED
      BY <1>1, <3>1, <3>2
  <2> QED
    BY <1>1, <1>3, <2>1 DEF PubInTime
<1>7. Prompt'
  <2>1. CASE lock = <<"heartbeat">> /\ lock' = <<>>
    BY <1>1, <2>1 DEF Prompt
  <2>2. CASE lock = <<"heartbeat", "loop">> /\ lock' = <<"loop">>
    <3>1. delay <= elapsed
      BY <2>2 DEF Prompt
    <3>2. delay <= MaxCall /\ lock' \notin {<<>>, <<"heartbeat">>, <<"heartbeat", "loop">>}
      BY <1>3, <2>2, <3>1 DEF Typed
    <3> QED
      BY <1>1, <3>2 DEF Prompt
  <2> QED
    BY <1>1, <2>1, <2>2
<1> QED
  BY <1>4, <1>5, <1>6, <1>7

LEMMA HeartbeatFailsInv ==
    ASSUME IInv, HeartbeatFails
    PROVE  IInv'
<1> USE Times DEF IInv
<1>1. /\ wire' = <<>> /\ elapsed' = 0 /\ UNCHANGED <<flight, left, owed, age, delay>>
      /\ ended' = ended \cup {"pub"} /\ faults' \in Nat
      /\ \/ lock = <<"heartbeat">> /\ lock' = <<>>
         \/ lock = <<"heartbeat", "loop">> /\ lock' = <<"loop">>
  BY ReleaseCases DEF HeartbeatFails, Callers, Fault, Typed
<1>2. Typed' /\ Connection'
  BY <1>1 DEF Typed, Sessions, Connection, Locks
<1>3. PubInTime' /\ SubInTime'
  BY <1>1 DEF PubInTime, SubInTime
<1>4. Prompt'
  <2>1. CASE lock = <<"heartbeat">> /\ lock' = <<>>
    BY <1>1, <2>1 DEF Prompt
  <2>2. CASE lock = <<"heartbeat", "loop">> /\ lock' = <<"loop">>
    <3>1. delay <= elapsed /\ elapsed \in 0 .. MaxCall /\ delay \in 0 .. 2 * MaxCall + 1
      BY <2>2 DEF Prompt, Typed
    <3>2. delay <= MaxCall /\ lock' \notin {<<>>, <<"heartbeat">>, <<"heartbeat", "loop">>}
      BY <2>2, <3>1
    <3> QED
      BY <1>1, <3>2 DEF Prompt
  <2> QED
    BY <1>1, <2>1, <2>2
<1> QED
  BY <1>2, <1>3, <1>4

LEMMA PubHeartbeatInv ==
    ASSUME IInv, PubHeartbeat
    PROVE  IInv'
<1> USE Times DEF IInv
<1>1. /\ UNCHANGED <<wire, elapsed, flight, left, ended, age, delay, faults>>
      /\ "pub" \notin ended /\ owed["pub"] > 0
      /\ owed' = [owed EXCEPT !["pub"] = owed["pub"] - 1]
      /\ \/ lock = <<>> /\ lock' = <<"heartbeat">>
         \/ lock = <<"loop">> /\ lock' = <<"loop", "heartbeat">>
  BY AskCases DEF PubHeartbeat, TakeTick, Ask, Callers, Connection
<1>2. owed["pub"] \in Nat /\ owed'["pub"] = owed["pub"] - 1 /\ owed'["sub"] = owed["sub"]
  BY <1>1 DEF Typed, Sessions
<1>3. Typed'
  BY <1>1, <1>2 DEF Typed, Sessions
<1>4. Connection' /\ SubInTime'
  BY <1>1, <1>2, SubUntouched DEF Connection, Locks
<1>5. PubInTime'
  <2>1. /\ elapsed \in 0 .. MaxCall /\ left["pub"] \in 1 .. Period
        /\ age["pub"] \in 0 .. TIMEOUT + 1
        /\ lock = <<>> => elapsed = 0
    BY DEF Typed, Sessions, Connection
  <2>2. ~Waiting /\ Waiting'
    BY <1>1 DEF Waiting
  <2>3. owed["pub"] = 1 /\ age["pub"] <= Period /\ left["pub"] = Period
    BY <1>1, <1>2, <2>2 DEF PubInTime
  <2>4. lock' # <<"loop", "heartbeat">> => elapsed = 0
    BY <1>1, <2>1
  <2> QED
    BY <1>1, <1>2, <2>1, <2>2, <2>3, <2>4 DEF PubInTime
<1>6. Prompt'
  BY <1>1 DEF Prompt
<1> QED
  BY <1>3, <1>4, <1>5, <1>6

LEMMA SubHeartbeatInv ==
    ASSUME IInv, SubHeartbeat
    PROVE  IInv'
<1> USE Times DEF IInv
<1>1. /\ UNCHANGED <<lock, wire, elapsed, left, ended, age, delay, faults>>
      /\ flight = None /\ flight' = 0
      /\ "sub" \notin ended /\ owed["sub"] > 0
      /\ owed' = [owed EXCEPT !["sub"] = owed["sub"] - 1]
  BY DEF SubHeartbeat, TakeTick, calls
<1>2. owed["sub"] \in Nat /\ owed'["sub"] = owed["sub"] - 1 /\ owed'["pub"] = owed["pub"]
      /\ left["sub"] \in 1 .. Period /\ age["sub"] \in 0 .. TIMEOUT + 1
  BY <1>1 DEF Typed, Sessions
<1>3. Typed'
  BY <1>1, <1>2 DEF Typed, Sessions
<1>4. Connection' /\ PubInTime' /\ Prompt'
  BY <1>1, <1>2, PubUntouched DEF Connection, Prompt
<1>5. SubInTime'
  <2>1. owed["sub"] = 1 /\ age["sub"] <= Period + MaxStartup /\ left["sub"] = Period
    BY <1>1, <1>2 DEF SubInTime
  <2> QED
    BY <1>1, <1>2, <2>1 DEF SubInTime, None
<1> QED
  BY <1>3, <1>4, <1>5

LEMMA SubHeardInv ==
    ASSUME IInv, SubHeard \/ SubFails
    PROVE  IInv'
<1> USE Times DEF IInv
<1>1. /\ UNCHANGED <<lock, wire, elapsed, left, owed, delay>>
      /\ flight # None /\ flight' = None
      /\ \/ age' = [age EXCEPT !["sub"] = 0] /\ UNCHANGED <<ended, faults>>
         \/ UNCHANGED age /\ ended' = ended \cup {"sub"} /\ faults' \in Nat
  BY DEF SubHeard, SubFails, calls, tickers, Fault, Typed
<1>2. /\ age'["pub"] = age["pub"] /\ ("pub" \in ended' <=> "pub" \in ended)
      /\ left["sub"] \in 1 .. Period
  BY <1>1 DEF Typed, Sessions
<1>3. Typed'
  <2>1. age' \in [Sessions -> 0 .. TIMEOUT + 1]
    BY <1>1 DEF Typed
  <2>2. ended' \subseteq Sessions /\ faults' \in Nat
    BY <1>1 DEF Typed, Sessions
  <2>3. flight' \in -1 .. MaxCall
    BY <1>1 DEF None
  <2> QED
    BY <1>1, <2>1, <2>2, <2>3 DEF Typed
<1>4. Connection' /\ Prompt'
  BY <1>1 DEF Connection, Prompt
<1>5. PubInTime'
  BY <1>1, <1>2, PubUntouched
<1>6. SubInTime'
  <2>1. CASE "sub" \in ended'
    BY <2>1 DEF SubInTime
  <2>2. CASE "sub" \notin ended'
    <3>1. age'["sub"] = 0 /\ "sub" \notin ended /\ owed'["sub"] = 0
      BY <1>1, <2>2 DEF Typed, Sessions, SubInTime
    <3> QED
      BY <1>1, <1>2, <3>1 DEF SubInTime
  <2> QED
    BY <2>1, <2>2
<1> QED
  BY <1>3, <1>4, <1>5, <1>6
----------------------------------------------------------------------------
(* Time passes: nothing is due, so a tick that was owed is being answered.  *)
LEMMA TickInv ==
    ASSUME IInv, Tick
    PROVE  IInv'
<1> USE Times DEF IInv
<1>1. /\ UNCHANGED <<lock, wire, ended, faults>>
      /\ lock # <<>> => wire # <<>>
      /\ wire # <<>> => elapsed' = elapsed + 1 /\ elapsed < MaxCall
      /\ wire = <<>> => elapsed' = elapsed
      /\ flight = None => flight' = None
      /\ flight # None => flight' = flight + 1 /\ flight < MaxCall
  BY DEF Tick, Urgent, Typed, None
<1>2. \A s \in Sessions :
        /\ age[s] \in 0 .. TIMEOUT + 1 /\ left[s] \in 1 .. Period /\ owed[s] \in Nat
        /\ age'[s] = IF age[s] > TIMEOUT THEN age[s] ELSE age[s] + 1
        /\ s \notin ended /\ left[s] = 1 => left'[s] = Period /\ owed'[s] = owed[s] + 1
        /\ s \notin ended /\ left[s] # 1 => left'[s] = left[s] - 1 /\ owed'[s] = owed[s]
  BY DEF Tick, Typed, Older
<1>3. elapsed \in 0 .. MaxCall /\ flight \in -1 .. MaxCall
  BY DEF Typed
<1>4. Typed'
  <2>1. age' \in [Sessions -> 0 .. TIMEOUT + 1]
    BY <1>2 DEF Tick
  <2>2. left' \in [Sessions -> 1 .. Period]
    BY <1>2 DEF Tick
  <2>3. owed' \in [Sessions -> Nat]
    BY <1>2 DEF Tick
  <2>4. elapsed' \in 0 .. MaxCall /\ flight' \in -1 .. MaxCall
    BY <1>1, <1>3 DEF None
  <2>5. delay' \in 0 .. 2 * MaxCall + 1
    BY DEF Tick, Later, Typed
  <2> QED
    BY <1>1, <2>1, <2>2, <2>3, <2>4, <2>5 DEF Typed
<1>5. Connection'
  BY <1>1 DEF Connection
<1>6. PubInTime'
  <2>1. CASE "pub" \in ended
    BY <1>1, <2>1 DEF PubInTime
  <2>2. CASE "pub" \notin ended
    <3>1. Waiting' <=> Waiting
      BY <1>1 DEF Waiting
    <3>2. Waiting => wire # <<>>
      BY <1>1, <1>5 DEF Waiting
    <3>3. ~Waiting => owed["pub"] = 0
      <4>1. Waits("heartbeat") <=> Waiting
        BY LockCases DEF Connection
      <4> QED
        BY <1>2, <2>2, <4>1 DEF Tick, Urgent, Sessions
    <3>4. /\ age["pub"] \in 0 .. TIMEOUT + 1 /\ left["pub"] \in 1 .. Period
          /\ age["pub"] <= TIMEOUT => age'["pub"] = age["pub"] + 1
          /\ left["pub"] = 1 => left'["pub"] = Period /\ owed'["pub"] = owed["pub"] + 1
          /\ left["pub"] # 1 => left'["pub"] = left["pub"] - 1 /\ owed'["pub"] = owed["pub"]
      BY <1>2, <2>2 DEF Sessions
    <3>5. CASE Waiting
      BY <1>1, <1>3, <2>2, <3>1, <3>2, <3>4, <3>5 DEF PubInTime
    <3>6. CASE ~Waiting
      BY <1>1, <2>2, <3>1, <3>3, <3>4, <3>6 DEF PubInTime
    <3> QED
      BY <3>5, <3>6
  <2> QED
    BY <2>1, <2>2
<1>7. SubInTime'
  <2>1. CASE "sub" \in ended
    BY <1>1, <2>1 DEF SubInTime
  <2>2. CASE "sub" \notin ended
    <3>1. flight = None => owed["sub"] = 0
      BY <1>2, <2>2 DEF Tick, Urgent, Sessions
    <3>2. /\ age["sub"] \in 0 .. TIMEOUT + 1 /\ left["sub"] \in 1 .. Period
          /\ age["sub"] <= TIMEOUT => age'["sub"] = age["sub"] + 1
          /\ left["sub"] = 1 => left'["sub"] = Period /\ owed'["sub"] = owed["sub"] + 1
          /\ left["sub"] # 1 => left'["sub"] = left["sub"] - 1 /\ owed'["sub"] = owed["sub"]
      BY <1>2, <2>2 DEF Sessions
    <3>3. CASE flight = None
      BY <1>1, <2>2, <3>1, <3>2, <3>3 DEF SubInTime
    <3>4. CASE flight # None
      <4>1. /\ owed["sub"] = 0 /\ left["sub"] + flight = Period
            /\ age["sub"] <= Period + MaxStartup + flight
        BY <2>2, <3>4 DEF SubInTime
      <4>2. flight \in 0 .. MaxCall /\ flight < MaxCall /\ flight' = flight + 1
        BY <1>1, <1>3, <3>4 DEF None
      <4>3. left["sub"] # 1 /\ age["sub"] <= TIMEOUT
        BY <3>2, <4>1, <4>2
      <4>4. /\ owed'["sub"] = 0 /\ left'["sub"] + flight' = Period
            /\ age'["sub"] <= Period + MaxStartup + flight'
        BY <3>2, <4>1, <4>2, <4>3
      <4>5. flight' # None
        BY <4>2 DEF None
      <4> QED
        BY <4>4, <4>5 DEF SubInTime
    <3> QED
      BY <3>3, <3>4
  <2> QED
    BY <2>1, <2>2
<1>8. Prompt'
  <2>1. Waits("loop") <=> lock \in {<<"loop">>, <<"loop", "heartbeat">>, <<"heartbeat", "loop">>}
    BY LockCases DEF Connection
  <2>2. /\ delay \in 0 .. 2 * MaxCall + 1
        /\ Waits("loop") => delay' = IF delay > 2 * MaxCall THEN delay ELSE delay + 1
        /\ ~Waits("loop") => delay' = delay
    BY DEF Tick, Later, Typed
  <2>3. lock # <<>> => elapsed' = elapsed + 1
    BY <1>1
  <2>4. CASE lock \in {<<>>, <<"heartbeat">>}
    <3>1. lock' = lock /\ delay' = delay /\ delay = 0
      BY <1>1, <2>1, <2>2, <2>4 DEF Prompt
    <3> QED
      BY <2>4, <3>1 DEF Prompt
  <2>5. CASE lock = <<"heartbeat", "loop">>
    <3>1. lock' = lock /\ delay' <= delay + 1 /\ delay <= elapsed
      BY <1>1, <2>1, <2>2, <2>5 DEF Prompt
    <3> QED
      BY <1>3, <2>2, <2>3, <2>5, <3>1 DEF Prompt
  <2>6. CASE lock \in {<<"loop">>, <<"loop", "heartbeat">>}
    <3>1. lock' = lock /\ delay' <= delay + 1 /\ delay <= MaxCall + elapsed
      BY <1>1, <2>1, <2>2, <2>6 DEF Prompt
    <3> QED
      BY <1>3, <2>2, <2>3, <2>6, <3>1 DEF Prompt
  <2> QED
    BY <2>4, <2>5, <2>6 DEF Connection, Locks
<1> QED
  BY <1>4, <1>5, <1>6, <1>7, <1>8
----------------------------------------------------------------------------
LEMMA NextInv == IInv /\ [Next]_vars => IInv'
<1> SUFFICES ASSUME IInv, [Next]_vars PROVE IInv'
  OBVIOUS
<1>1. CASE Publish
  BY <1>1, PublishInv
<1>2. CASE Send
  BY <1>2, SendInv
<1>3. CASE Reply
  BY <1>3, PublishReturnsInv, HeartbeatReturnsInv, HeartbeatFailsInv DEF Reply
<1>4. CASE Beat
  BY <1>4, PubHeartbeatInv, SubHeartbeatInv DEF Beat
<1>5. CASE SubHeard \/ SubFails
  BY <1>5, SubHeardInv
<1>6. CASE Tick
  BY <1>6, TickInv
<1>7. CASE UNCHANGED vars
  BY <1>7 DEF vars, calls, tickers, IInv, Typed, Connection, PubInTime, SubInTime, Waiting, Prompt
<1> QED
  BY <1>1, <1>2, <1>3, <1>4, <1>5, <1>6, <1>7 DEF Next

LEMMA Invariance == Spec => []IInv
BY InitInv, NextInv, PTL DEF Spec

LEMMA OneCaller ==
    ASSUME NEW a \in Callers
    PROVE  <<a>> \in Seq(Callers) /\ Len(<<a>>) <= 2
OBVIOUS

LEMMA TwoCallers ==
    ASSUME NEW a \in Callers, NEW b \in Callers
    PROVE  <<a, b>> \in Seq(Callers) /\ Len(<<a, b>>) <= 2
OBVIOUS

(* Nobody but the loop and a heartbeat ever waits for the mutex of          *)
(* AgoraSink, and a reply is awaited from one of them.                      *)
THEOREM TypeCorrect == Spec => []TypeOK
<1>1. IInv => TypeOK
  <2> SUFFICES ASSUME IInv PROVE TypeOK
    OBVIOUS
  <2>1. lock \in Seq(Callers) /\ Len(lock) <= 2
    <3>1. CASE lock = <<>>
      BY <3>1
    <3> "loop" \in Callers /\ "heartbeat" \in Callers
      BY DEF Callers
    <3>2. CASE lock = <<"loop">> \/ lock = <<"heartbeat">>
      BY <3>2, OneCaller
    <3>3. CASE lock = <<"loop", "heartbeat">> \/ lock = <<"heartbeat", "loop">>
      BY <3>3, TwoCallers
    <3> QED
      BY <3>1, <3>2, <3>3 DEF IInv, Connection, Locks
  <2>2. wire \in Seq(Callers)
    <3>1. CASE wire = <<>>
      BY <3>1
    <3>2. CASE wire # <<>>
      BY <2>1, <3>2 DEF IInv, Connection
    <3> QED
      BY <3>1, <3>2
  <2> QED
    BY <2>1, <2>2 DEF IInv, Typed, TypeOK, Period
<1> QED
  BY <1>1, Invariance, PTL

(* run() keeps its sessions: however long the loop works and however often  *)
(* it publishes, the bus hears of a session whose heartbeats did not fail   *)
(* within its timeout, if its calls and the start-up fit in half of it.     *)
THEOREM PeersStay == Spec => []NotPruned
<1>1. IInv => NotPruned
  <2> SUFFICES ASSUME IInv, NEW s \in Sessions, s \notin ended
               PROVE  ~(age[s] > TIMEOUT)
    BY DEF NotPruned
  <2>1. /\ age[s] \in 0 .. TIMEOUT + 1 /\ left[s] \in 1 .. Period /\ owed[s] \in Nat
        /\ elapsed \in 0 .. MaxCall /\ flight \in -1 .. MaxCall
    BY DEF IInv, Typed
  <2>2. CASE s = "pub"
    <3>1. CASE Waiting
      BY Times, <2>1, <2>2, <3>1 DEF IInv, PubInTime
    <3>2. CASE ~Waiting
      BY Times, <2>1, <2>2, <3>2 DEF IInv, PubInTime
    <3> QED
      BY <3>1, <3>2
  <2>3. CASE s = "sub"
    BY Times, <2>1, <2>3 DEF IInv, SubInTime
  <2> QED
    BY <2>2, <2>3 DEF Sessions
<1> QED
  BY <1>1, Invariance, PTL

(* However many heartbeats are due, AgoraSink::publish waits for one of them *)
(* at most: it is back within twice the longest call of the bus.            *)
THEOREM PromptPublishes == Spec => []PublishIsPrompt
<1>1. IInv => PublishIsPrompt
  <2> SUFFICES ASSUME IInv PROVE delay <= 2 * MaxCall
    BY DEF PublishIsPrompt
  <2>1. elapsed \in 0 .. MaxCall /\ delay \in 0 .. 2 * MaxCall + 1 /\ lock \in Locks
    BY DEF IInv, Typed, Connection
  <2> QED
    BY Times, <2>1 DEF IInv, Prompt, Locks
<1> QED
  BY <1>1, Invariance, PTL

(* AgoraSink's mutex: a reply on the publish connection goes to the one who *)
(* asked.                                                                   *)
THEOREM OwnReplies == Spec => []RepliesAreOwn
<1>1. IInv => RepliesAreOwn
  BY DEF IInv, Connection, RepliesAreOwn
<1> QED
  BY <1>1, Invariance, PTL
============================================================================
