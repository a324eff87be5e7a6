----------------------------- MODULE TimersProofs -----------------------------
(***************************************************************************)
(* Invariants of Timers, and the phase of recurring timers, proved for every   *)
(* set of timers, every due time and period, and every lag.                   *)
(***************************************************************************)
EXTENDS Timers, ListProofs

TimerInv == ExecutingAlone /\ NoIdleTrigger

-----------------------------------------------------------------------------
(* Arithmetic.                                                              *)

LEMMA MultipleOfPeriod ==
    ASSUME NEW p \in Nat, p > 0, NEW k \in Int
    PROVE  (p * k) % p = 0
<1> DEFINE r == (p * k) % p
           q == (p * k) \div p
<1>1. r \in Int /\ q \in Int /\ 0 <= r /\ r < p /\ p * k = p * q + r
  OBVIOUS
<1> HIDE DEF r, q
<1>2. PICK d \in Int : d = k - q
  BY <1>1
<1>3. p * d = r
  BY <1>1, <1>2
<1>4. d >= 1 => p * d >= p
  OBVIOUS
<1>5. d <= -1 => p * d <= -p
  OBVIOUS
<1>6. d = 0
  BY <1>1, <1>3, <1>4, <1>5
<1>7. r = 0
  BY <1>3, <1>6
<1> QED
  BY <1>7 DEF r

LEMMA RemainderFacts ==
    ASSUME NEW p \in Nat, p > 0, NEW n \in Nat
    PROVE  /\ n % p \in 0..(p - 1)
           /\ \E k \in Int : n - (n % p) = p * k
<1>1. n = (p * (n \div p)) + (n % p) /\ n \div p \in Int /\ n % p \in 0..(p - 1)
  OBVIOUS
<1> QED
  BY <1>1

(* The next expiration of a timer with a period: a whole number of periods after  *)
(* the last one, not in the past, and none that lies ahead left out.           *)
LEMMA NextExpirationPhase ==
    ASSUME NEW time \in Int, NEW p \in Nat, p > 0
    PROVE  \A next \in NextExpiration(time, p) :
               /\ next \in Int
               /\ (next - time) % p = 0
               /\ next >= 0
               /\ next <= p \/ next = time + p
<1>1. time # Wrapped /\ time # Infinite
  BY TimersAssumption
<1>2. CASE time + p >= 0
  <2>1. NextExpiration(time, p) = {time + p}
    BY <1>1, <1>2 DEF NextExpiration
  <2>2. (p * 1) % p = 0
    BY MultipleOfPeriod
  <2>3. (time + p) - time = p * 1
    OBVIOUS
  <2> QED
    BY <1>2, <2>1, <2>2, <2>3
<1>3. CASE time + p < 0
  <2>1. NextExpiration(time, p) = {p - ((-(time + p)) % p)}
    BY <1>1, <1>3 DEF NextExpiration
  <2>2. PICK n \in Nat : n = -(time + p)
    BY <1>3
  <2>3. PICK r \in 0..(p - 1), k \in Int : r = n % p /\ n - r = p * k
    BY RemainderFacts
  <2>4. NextExpiration(time, p) = {p - r}
    BY <2>1, <2>2, <2>3
  <2>5. (p - r) - time = p * (k + 2)
    <3>1. (p - r) - time = p * k + 2 * p
      BY <2>2, <2>3
    <3>2. p * (k + 2) = p * k + 2 * p
      OBVIOUS
    <3> QED
      BY <3>1, <3>2
  <2>6. (p * (k + 2)) % p = 0
    <3>1. k + 2 \in Int
      OBVIOUS
    <3> QED
      BY <3>1, MultipleOfPeriod
  <2>7. ((p - r) - time) % p = 0
    BY <2>5, <2>6
  <2> QED
    BY <2>3, <2>4, <2>7
<1> QED
  BY <1>2, <1>3

-----------------------------------------------------------------------------
(* The timer thread.                                                        *)

LEMMA TimerTypes ==
    ASSUME TimerInv
    PROVE  /\ timers \in Seq(Timers) /\ IsInjective(timers)
           /\ \A t : Exists(t) <=> \E k \in DOMAIN timers : timers[k] = t
           /\ enabled \in [Timers -> BOOLEAN] /\ recurring \in [Timers -> BOOLEAN]
           /\ triggered \in [Timers -> BOOLEAN] /\ executing \in [Timers -> BOOLEAN]
           /\ expire \in [Timers -> Times] /\ frequency \in [Timers -> Int]
           /\ last \in Times /\ running \in Timers \cup {NoTimer}
           /\ \A t \in Timers : executing[t] => running = t /\ ~triggered[t]
           /\ \A t \in Timers : Exists(t) /\ triggered[t] => running # NoTimer
BY DEF TimerInv, ExecutingAlone, NoIdleTrigger, TypeOK, Exists, Contains

LEMMA NextExpirationType ==
    ASSUME NEW time \in Times, NEW period \in Int
    PROVE  NextExpiration(time, period) \subseteq Times
<1>1. MaxLag \in Nat /\ Wrapped \in Times /\ Infinite \in Times /\ Int \subseteq Times
  BY TimersAssumption DEF Times
<1>2. CASE time = Wrapped \/ time = Infinite
  BY <1>1, <1>2, TimersAssumption DEF NextExpiration
<1>3. CASE time \in Int /\ period > 0
  <2>1. NextExpiration(time, period) \subseteq Int
    BY <1>3, NextExpirationPhase
  <2> QED
    BY <1>1, <2>1
<1>4. CASE time \in Int /\ period <= 0
  <2>1. time # Wrapped /\ time # Infinite
    BY <1>4, TimersAssumption
  <2>2. NextExpiration(time, period) =
            IF time + period >= 0 THEN {time + period}
            ELSE IF period < 0 THEN {-MaxLag} ELSE {0, time}
    BY <1>4, <2>1 DEF NextExpiration
  <2>3. NextExpiration(time, period) \subseteq Int
    BY <1>1, <1>4, <2>2
  <2> QED
    BY <1>1, <2>3
<1> QED
  BY <1>2, <1>3, <1>4 DEF Times

LEMMA RescheduleType ==
    ASSUME TimerInv, NEW t \in Timers
    PROVE  Reschedule(t) \subseteq [Timers -> Times]
<1>1. expire \in [Timers -> Times] /\ last \in Times /\ frequency[t] \in Int
  BY TimerTypes
<1>2. NextExpiration(last, frequency[t]) \subseteq Times
  BY <1>1, NextExpirationType
<1> QED
  BY <1>1, <1>2 DEF Reschedule

(* SpawnTimer gives a parked timer thread to the first triggered timer, and      *)
(* leaves it parked only when there is none.                                 *)
LEMMA SpawnTimerFacts ==
    ASSUME TimerInv, NEW trig \in [Timers -> BOOLEAN], NEW exec \in [Timers -> BOOLEAN],
           NEW exp \in [Timers -> Times], NEW parked \in BOOLEAN,
           SpawnTimer(trig, exec, exp, parked),
           ~parked => running # NoTimer,
           \A t \in Timers : exec[t] => ~parked /\ running = t /\ ~trig[t]
    PROVE  /\ timers' \in Seq(Timers) /\ IsInjective(timers')
           /\ triggered' \in [Timers -> BOOLEAN] /\ executing' \in [Timers -> BOOLEAN]
           /\ expire' \in [Timers -> Times] /\ last' \in Times
           /\ running' \in Timers \cup {NoTimer}
           /\ \A t \in Timers : executing'[t] => running' = t /\ ~triggered'[t]
           /\ \A t \in Timers : Contains(timers', t) /\ triggered'[t] => running' # NoTimer
<1>1. Infinite \in Times
  BY DEF Times
<1>2. ASSUME NEW k \in DOMAIN timers, parked,
             running' = timers[k], last' = exp[timers[k]],
             expire' = [exp EXCEPT ![timers[k]] = Infinite],
             executing' = [exec EXCEPT ![timers[k]] = TRUE],
             triggered' = [trig EXCEPT ![timers[k]] = FALSE],
             timers' = LinkAtBack(timers, timers[k])
      PROVE  /\ timers' \in Seq(Timers) /\ IsInjective(timers')
             /\ triggered' \in [Timers -> BOOLEAN] /\ executing' \in [Timers -> BOOLEAN]
             /\ expire' \in [Timers -> Times] /\ last' \in Times
             /\ running' \in Timers \cup {NoTimer}
             /\ \A t \in Timers : executing'[t] => running' = t /\ ~triggered'[t]
             /\ running' # NoTimer
  <2>1. PICK u \in Timers : u = timers[k]
    BY TimerTypes
  <2>2. timers' \in Seq(Timers) /\ IsInjective(timers')
    BY <1>2, <2>1, TimerTypes, LinkAtBackFacts
  <2>3. u # NoTimer
    BY TimersAssumption
  <2>4. \A t \in Timers : executing'[t] => t = u
    BY <1>2, <2>1
  <2> QED
    BY <1>1, <1>2, <2>1, <2>2, <2>3, <2>4
<1>3. ASSUME ~parked \/ \A k \in DOMAIN timers : ~trig[timers[k]],
             running' = IF parked THEN NoTimer ELSE running,
             last' = IF parked THEN Infinite ELSE last,
             expire' = exp, executing' = exec, triggered' = trig, UNCHANGED timers
      PROVE  /\ timers' \in Seq(Timers) /\ IsInjective(timers')
             /\ triggered' \in [Timers -> BOOLEAN] /\ executing' \in [Timers -> BOOLEAN]
             /\ expire' \in [Timers -> Times] /\ last' \in Times
             /\ running' \in Timers \cup {NoTimer}
             /\ \A t \in Timers : executing'[t] => running' = t /\ ~triggered'[t]
             /\ \A t \in Timers : Contains(timers', t) /\ triggered'[t] => running' # NoTimer
  <2>1. \A t \in Timers : Contains(timers', t) /\ triggered'[t] => running' # NoTimer
    BY <1>3, TimerTypes DEF Exists
  <2> QED
    BY <1>1, <1>3, <2>1, TimerTypes
<1> QED
  BY <1>2, <1>3 DEF SpawnTimer

LEMMA SpawnKeeps ==
    ASSUME TimerInv, UNCHANGED <<flags, frequency>>,
           timers' \in Seq(Timers), IsInjective(timers'),
           triggered' \in [Timers -> BOOLEAN], executing' \in [Timers -> BOOLEAN],
           expire' \in [Timers -> Times], last' \in Times,
           running' \in Timers \cup {NoTimer},
           \A t \in Timers : executing'[t] => running' = t /\ ~triggered'[t],
           \A t \in Timers : Contains(timers', t) /\ triggered'[t] => running' # NoTimer
    PROVE  TimerInv'
<1>1. UNCHANGED <<enabled, recurring, frequency>>
  BY DEF flags
<1>2. TypeOK'
  BY <1>1, TimerTypes DEF TypeOK
<1>3. ExecutingAlone' /\ NoIdleTrigger'
  BY <1>2 DEF ExecutingAlone, NoIdleTrigger, Exists
<1> QED
  BY <1>3 DEF TimerInv

LEMMA CheckTimersInv ==
    ASSUME TimerInv, CheckTimers
    PROVE  TimerInv'
<1> DEFINE trig == [t \in Timers |-> Trigger(t)]
<1>1. trig \in [Timers -> BOOLEAN]
  BY TimerTypes DEF Trigger
<1>2. \A t \in Timers : executing[t] => running = t /\ ~trig[t]
  BY TimerTypes DEF Trigger
<1>3. PICK parked \in BOOLEAN : parked = (running = NoTimer)
  OBVIOUS
<1>4. SpawnTimer(trig, executing, expire, parked)
  BY <1>3 DEF CheckTimers
<1>5. \A t \in Timers : executing[t] => ~parked
  BY <1>2, <1>3, TimersAssumption
<1> HIDE DEF trig
<1>6. /\ timers' \in Seq(Timers) /\ IsInjective(timers')
      /\ triggered' \in [Timers -> BOOLEAN] /\ executing' \in [Timers -> BOOLEAN]
      /\ expire' \in [Timers -> Times] /\ last' \in Times
      /\ running' \in Timers \cup {NoTimer}
      /\ \A t \in Timers : executing'[t] => running' = t /\ ~triggered'[t]
      /\ \A t \in Timers : Contains(timers', t) /\ triggered'[t] => running' # NoTimer
  BY <1>1, <1>2, <1>3, <1>4, <1>5, TimerTypes, SpawnTimerFacts
<1>7. UNCHANGED <<flags, frequency>>
  BY DEF CheckTimers
<1> QED
  BY <1>6, <1>7, SpawnKeeps

LEMMA CallbackEndsInv ==
    ASSUME TimerInv, CallbackEnds
    PROVE  TimerInv'
<1> DEFINE exec == NoLongerExecuting(running)
<1>1. running \in Timers /\ \E exp \in Reschedule(running) : SpawnTimer(triggered, exec, exp, TRUE)
  BY TimerTypes DEF CallbackEnds
<1>2. exec \in [Timers -> BOOLEAN] /\ \A t \in Timers : ~exec[t]
  BY <1>1, TimerTypes DEF NoLongerExecuting
<1> HIDE DEF exec
<1>3. PICK exp \in Reschedule(running) : SpawnTimer(triggered, exec, exp, TRUE)
  BY <1>1
<1>4. exp \in [Timers -> Times]
  BY <1>1, RescheduleType
<1>5. /\ timers' \in Seq(Timers) /\ IsInjective(timers')
      /\ triggered' \in [Timers -> BOOLEAN] /\ executing' \in [Timers -> BOOLEAN]
      /\ expire' \in [Timers -> Times] /\ last' \in Times
      /\ running' \in Timers \cup {NoTimer}
      /\ \A t \in Timers : executing'[t] => running' = t /\ ~triggered'[t]
      /\ \A t \in Timers : Contains(timers', t) /\ triggered'[t] => running' # NoTimer
  BY <1>2, <1>3, <1>4, TimerTypes, SpawnTimerFacts
<1>6. UNCHANGED <<flags, frequency>>
  BY DEF CallbackEnds
<1> QED
  BY <1>5, <1>6, SpawnKeeps

-----------------------------------------------------------------------------
(* The program and the clock.                                               *)

LEMMA ConfigureType ==
    ASSUME TimerInv, NEW t \in Timers, NEW arg \in Arguments,
           NEW wasEnabled \in BOOLEAN, NEW wasRecurring \in BOOLEAN,
           Configure(t, arg[1], arg[2], wasEnabled, wasRecurring)
    PROVE  /\ enabled' \in [Timers -> BOOLEAN] /\ recurring' \in [Timers -> BOOLEAN]
           /\ expire' \in [Timers -> Times] /\ frequency' \in [Timers -> Int]
<1>1. PICK due \in Int \cup {Infinite}, period \in Int : due = arg[1] /\ period = arg[2]
  BY TimersAssumption
<1>2. /\ frequency' = [frequency EXCEPT ![t] = period]
      /\ expire' = [expire EXCEPT ![t] = IF due \in Int /\ due < 0 THEN -MaxLag ELSE due]
      /\ \/ /\ due \in Int /\ due < 0
            /\ enabled' = [enabled EXCEPT ![t] = wasEnabled]
            /\ recurring' = [recurring EXCEPT ![t] = wasRecurring]
         \/ /\ ~(due \in Int /\ due < 0)
            /\ enabled' = [enabled EXCEPT ![t] = due # Infinite]
            /\ recurring' = [recurring EXCEPT ![t] =
                                IF period < 0 THEN wasRecurring ELSE period > 0]
  BY <1>1 DEF Configure
<1>3. -MaxLag \in Times /\ due \in Times
  BY TimersAssumption DEF Times
<1>4. expire' \in [Timers -> Times] /\ frequency' \in [Timers -> Int]
  BY <1>2, <1>3, TimerTypes
<1>5. enabled' \in [Timers -> BOOLEAN]
  BY <1>2, TimerTypes
<1>6. PICK again \in BOOLEAN : recurring' = [recurring EXCEPT ![t] = again]
  <2>1. CASE due \in Int /\ due < 0
    BY <1>2, <2>1
  <2>2. CASE ~(due \in Int /\ due < 0) /\ period < 0
    BY <1>2, <2>2
  <2>3. CASE ~(due \in Int /\ due < 0) /\ ~(period < 0)
    <3>1. recurring' = [recurring EXCEPT ![t] = period > 0]
      BY <1>2, <2>3, Zenon
    <3>2. (period > 0) \in BOOLEAN
      OBVIOUS
    <3> QED
      BY <3>1, <3>2, Zenon
  <2> QED
    BY <2>1, <2>2, <2>3
<1>7. recurring' \in [Timers -> BOOLEAN]
  BY <1>6, TimerTypes
<1> QED
  BY <1>4, <1>5, <1>7

LEMMA InvParts ==
    ASSUME timers' \in Seq(Timers), IsInjective(timers'),
           enabled' \in [Timers -> BOOLEAN], recurring' \in [Timers -> BOOLEAN],
           triggered' \in [Timers -> BOOLEAN], executing' \in [Timers -> BOOLEAN],
           expire' \in [Timers -> Times], frequency' \in [Timers -> Int], last' \in Times,
           running' \in Timers \cup {NoTimer},
           \A t \in Timers : executing'[t] => running' = t /\ ~triggered'[t],
           \A t \in Timers : Contains(timers', t) /\ triggered'[t] => running' # NoTimer
    PROVE  TimerInv'
BY DEF TimerInv, ExecutingAlone, NoIdleTrigger, TypeOK, Exists

LEMMA ProgramInv ==
    ASSUME TimerInv, NEW t \in Timers, Program(t)
    PROVE  TimerInv'
<1>1. ASSUME NEW arg \in Arguments, Create(t, arg[1], arg[2])
      PROVE  TimerInv'
  <2>1. /\ ~Contains(timers, t) /\ timers' = Append(timers, t)
        /\ Configure(t, arg[1], arg[2], FALSE, FALSE)
        /\ triggered' = [triggered EXCEPT ![t] = FALSE]
        /\ executing' = [executing EXCEPT ![t] = FALSE]
        /\ last' = (IF running = t THEN -MaxLag ELSE last) /\ running' = running
    BY <1>1 DEF Create, Exists
  <2>2. /\ timers' \in Seq(Timers) /\ IsInjective(timers')
        /\ \A u : Contains(timers', u) <=> Contains(timers, u) \/ u = t
    BY <2>1, TimerTypes, AppendFacts
  <2>3. /\ enabled' \in [Timers -> BOOLEAN] /\ recurring' \in [Timers -> BOOLEAN]
        /\ expire' \in [Timers -> Times] /\ frequency' \in [Timers -> Int]
    BY <2>1, ConfigureType
  <2>4. last' \in Times
    BY <2>1, TimerTypes, TimersAssumption DEF Times
  <2>5. /\ triggered' \in [Timers -> BOOLEAN] /\ executing' \in [Timers -> BOOLEAN]
        /\ \A u \in Timers : executing'[u] => running' = u /\ ~triggered'[u]
        /\ \A u \in Timers : Contains(timers', u) /\ triggered'[u] => running' # NoTimer
    BY <2>1, <2>2, TimerTypes DEF Exists
  <2> QED
    BY <2>1, <2>2, <2>3, <2>4, <2>5, TimerTypes, InvParts
<1>2. ASSUME NEW arg \in Arguments, Change(t, arg[1], arg[2])
      PROVE  TimerInv'
  <2>1. PICK wasEnabled \in BOOLEAN, wasRecurring \in BOOLEAN :
            wasEnabled = enabled[t] /\ wasRecurring = recurring[t]
    BY TimerTypes
  <2>2. /\ Configure(t, arg[1], arg[2], wasEnabled, wasRecurring)
        /\ UNCHANGED <<timers, triggered, executing, last, running>>
    BY <1>2, <2>1 DEF Change
  <2>3. /\ enabled' \in [Timers -> BOOLEAN] /\ recurring' \in [Timers -> BOOLEAN]
        /\ expire' \in [Timers -> Times] /\ frequency' \in [Timers -> Int]
    BY <2>2, ConfigureType
  <2> QED
    BY <2>2, <2>3, TimerTypes, InvParts DEF Exists
<1>3. CASE Dispose(t)
  BY <1>3, TimerTypes, InvParts DEF Dispose, Exists
<1>4. CASE Collect(t)
  <2>1. /\ timers' \in Seq(Timers) /\ IsInjective(timers')
        /\ \A u : Contains(timers', u) => Contains(timers, u)
    BY <1>4, TimerTypes, UnlinkFacts DEF Collect
  <2>2. /\ enabled' \in [Timers -> BOOLEAN] /\ recurring' \in [Timers -> BOOLEAN]
        /\ triggered' \in [Timers -> BOOLEAN] /\ executing' \in [Timers -> BOOLEAN]
        /\ expire' \in [Timers -> Times] /\ frequency' \in [Timers -> Int]
    BY <1>4, TimerTypes DEF Collect, Times
  <2>3. /\ \A u \in Timers : executing'[u] => running' = u /\ ~triggered'[u]
        /\ \A u \in Timers : Contains(timers', u) /\ triggered'[u] => running' # NoTimer
    BY <1>4, <2>1, TimerTypes DEF Collect, Exists
  <2>4. UNCHANGED <<last, running>>
    BY <1>4 DEF Collect
  <2> QED
    BY <2>1, <2>2, <2>3, <2>4, TimerTypes, InvParts
<1> QED
  BY <1>1, <1>2, <1>3, <1>4 DEF Program

LEMMA TickInv ==
    ASSUME TimerInv, Tick
    PROVE  TimerInv'
<1>1. \A time \in Times : Later(time) \in Times
  BY TimersAssumption DEF Later, Times
<1>2. expire' \in [Timers -> Times] /\ last' \in Times
  BY <1>1, TimerTypes DEF Tick
<1> QED
  BY <1>2, TimerTypes, InvParts DEF Tick, flags, Exists

LEMMA NextTimer == TimerInv /\ [Next]_vars => TimerInv'
<1>1. ASSUME TimerInv, UNCHANGED vars
      PROVE  TimerInv'
  BY <1>1 DEF vars, flags, TimerInv, ExecutingAlone, NoIdleTrigger, TypeOK, Exists
<1> QED
  BY <1>1, CheckTimersInv, CallbackEndsInv, TickInv, ProgramInv DEF Next

LEMMA InitTimer == Init => TimerInv
<1> SUFFICES ASSUME Init
             PROVE  TimerInv
  OBVIOUS
<1>1. timers = <<>> /\ timers \in Seq(Timers)
  BY DEF Init
<1>2. IsInjective(timers)
  BY <1>1 DEF IsInjective
<1>3. TypeOK
  BY <1>1, <1>2, TimersAssumption DEF Init, TypeOK, Times
<1>4. \A t \in Timers : ~executing[t] /\ ~triggered[t]
  BY DEF Init
<1> QED
  BY <1>3, <1>4 DEF TimerInv, ExecutingAlone, NoIdleTrigger

-----------------------------------------------------------------------------
(* Theorems.                                                                *)

(* Every variable keeps its type, and the list holds no timer twice: also after a *)
(* Change that was refused, and whatever Reschedule's remainder by a period of 0   *)
(* gives.                                                                   *)
THEOREM TypeCorrect == Spec => []TypeOK
<1>1. Init => TimerInv
  BY InitTimer
<1>2. TimerInv /\ [Next]_vars => TimerInv'
  BY NextTimer
<1>3. TimerInv => TypeOK
  BY DEF TimerInv, ExecutingAlone
<1>4. QED
  BY <1>1, <1>2, <1>3, PTL DEF Spec

(* c_Executing is set for the timer of the timer thread only, and no expiration  *)
(* during a callback is kept as a second trigger.                            *)
THEOREM ExecutingAloneCorrect == Spec => []ExecutingAlone
<1>1. Init => TimerInv
  BY InitTimer
<1>2. TimerInv /\ [Next]_vars => TimerInv'
  BY NextTimer
<1>3. TimerInv => ExecutingAlone
  BY DEF TimerInv
<1>4. QED
  BY <1>1, <1>2, <1>3, PTL DEF Spec

(* A parked timer thread has no triggered timer to run: CheckTimers and the end   *)
(* of each callback hand the thread on.                                       *)
THEOREM NoIdleTriggerCorrect == Spec => []NoIdleTrigger
<1>1. Init => TimerInv
  BY InitTimer
<1>2. TimerInv /\ [Next]_vars => TimerInv'
  BY NextTimer
<1>3. TimerInv => NoIdleTrigger
  BY DEF TimerInv
<1>4. QED
  BY <1>1, <1>2, <1>3, PTL DEF Spec

InPhase(t) ==
    CallbackEnds /\ running = t /\ running' # t
        /\ recurring[t] /\ enabled[t] /\ last \in Int /\ frequency[t] > 0 =>
            /\ (expire'[t] - last) % frequency[t] = 0
            /\ expire'[t] >= 0
            /\ expire'[t] <= frequency[t] \/ expire'[t] = last + frequency[t]

LEMMA CallbackInPhase ==
    ASSUME TimerInv, NEW t \in Timers
    PROVE  InPhase(t)
<1> SUFFICES ASSUME CallbackEnds, running = t, running' # t, recurring[t], enabled[t],
                    last \in Int, frequency[t] > 0
             PROVE  /\ (expire'[t] - last) % frequency[t] = 0
                    /\ expire'[t] >= 0
                    /\ expire'[t] <= frequency[t] \/ expire'[t] = last + frequency[t]
  BY DEF InPhase
<1>1. PICK p \in Nat : p = frequency[t] /\ p > 0
  BY TimerTypes
<1>2. Reschedule(t) = {[expire EXCEPT ![t] = next] : next \in NextExpiration(last, p)}
  BY <1>1 DEF Reschedule
<1>3. PICK exp \in Reschedule(running) :
          SpawnTimer(triggered, NoLongerExecuting(running), exp, TRUE)
  BY DEF CallbackEnds
<1>4. exp \in [Timers -> Times]
  BY <1>3, RescheduleType
<1>5. exp[t] \in NextExpiration(last, p)
  <2>1. PICK next \in NextExpiration(last, p) : exp = [expire EXCEPT ![t] = next]
    BY <1>2, <1>3
  <2> QED
    BY <2>1, TimerTypes
<1>6. expire'[t] = exp[t]
  <2>1. ASSUME NEW k \in DOMAIN timers, running' = timers[k],
               expire' = [exp EXCEPT ![timers[k]] = Infinite]
        PROVE  expire'[t] = exp[t]
    BY <1>4, <2>1
  <2> QED
    BY <1>3, <2>1 DEF SpawnTimer
<1> QED
  BY <1>1, <1>5, <1>6, NextExpirationPhase

(* A recurring timer stays in phase, for every period and however late it is:     *)
(* its next expiration is a whole number of periods after the last, not past, and  *)
(* the first of those.                                                      *)
THEOREM KeepsPhaseCorrect == Spec => KeepsPhase
<1>1. Init => TimerInv
  BY InitTimer
<1>2. TimerInv /\ [Next]_vars => TimerInv'
  BY NextTimer
<1>3. TimerInv /\ [Next]_vars =>
          [\A t \in Timers :
               CallbackEnds /\ running = t /\ running' # t
                   /\ recurring[t] /\ enabled[t] /\ last \in Int /\ frequency[t] > 0 =>
                       /\ (expire'[t] - last) % frequency[t] = 0
                       /\ expire'[t] >= 0
                       /\ expire'[t] <= frequency[t] \/ expire'[t] = last + frequency[t]]_vars
  BY CallbackInPhase DEF InPhase
<1>4. QED
  BY <1>1, <1>2, <1>3, PTL DEF Spec, KeepsPhase
=============================================================================
