-------------------------------- MODULE Timers --------------------------------
(***************************************************************************)
(* Managed timers: CLR_RT_HeapBlock_Timer, the list m_timers, CheckTimers    *)
(* and the one system thread, m_timerThread, that runs the callbacks of all  *)
(* timers one after another.                                                *)
(*                                                                          *)
(* Times are relative to the clock: 0 is now, a negative time is past.       *)
(***************************************************************************)
EXTENDS Lists

CONSTANTS
    Timers,     \* the nodes of the event heap that timers are made of
    Arguments,  \* the pairs <<dueTime, period>> of constructor and Change
    MaxLag,     \* bound: times further back than this are not told apart
    Infinite,   \* TIMEOUT_INFINITE
    Wrapped,    \* a time whose sum left the range of CLR_INT64
    NoTimer

(* A negative argument is out of range; -1 milliseconds is Infinite; period 0 *)
(* is no period, as is an Infinite one, which is left out.                    *)
ASSUME TimersAssumption ==
    /\ Arguments \subseteq (Int \cup {Infinite}) \X Int
    /\ Infinite \notin Int /\ Wrapped \notin Int /\ Infinite # Wrapped
    /\ MaxLag \in Nat \ {0}
    /\ NoTimer \notin Timers

VARIABLES
    timers,     \* m_timers: the timers that exist, in the order of their turns
    enabled,    \* c_EnabledTimer
    recurring,  \* c_Recurring
    triggered,  \* c_Triggered
    executing,  \* c_Executing
    expire,     \* m_timeExpire
    frequency,  \* m_timeFrequency
    last,       \* m_timeLastExpiration of the timer whose callback runs
    running     \* m_terminationParameter of m_timerThread; NoTimer: it is parked

flags == <<enabled, recurring>>
vars == <<timers, flags, triggered, executing, expire, frequency, last, running>>

Exists(t) == Contains(timers, t)
Times == Int \cup {Infinite, Wrapped}

TypeOK ==
    /\ timers \in Seq(Timers) /\ IsInjective(timers)
    /\ enabled \in [Timers -> BOOLEAN]
    /\ recurring \in [Timers -> BOOLEAN]
    /\ triggered \in [Timers -> BOOLEAN]
    /\ executing \in [Timers -> BOOLEAN]
    /\ expire \in [Timers -> Times]
    /\ frequency \in [Timers -> Int]
    /\ last \in Times
    /\ running \in Timers \cup {NoTimer}

Init ==
    /\ timers = <<>>
    /\ enabled = [t \in Timers |-> FALSE]
    /\ recurring = [t \in Timers |-> FALSE]
    /\ triggered = [t \in Timers |-> FALSE]
    /\ executing = [t \in Timers |-> FALSE]
    /\ expire = [t \in Timers |-> Infinite]
    /\ frequency = [t \in Timers |-> 0]
    /\ last = Infinite
    /\ running = NoTimer

-----------------------------------------------------------------------------
(* The timer thread.                                                        *)

(* ExecutionEngine::SpawnTimer with the flags trig and exec and the times exp. *)
(* The first triggered timer of the list gets the timer thread, unless the    *)
(* thread is busy, and goes to the back of the list.                         *)
SpawnTimer(trig, exec, exp, parked) ==
    \/ \E k \in DOMAIN timers :
        LET t == timers[k]
        IN  /\ parked
            /\ trig[t]
            /\ \A j \in 1..(k - 1) : ~trig[timers[j]]
            /\ running' = t
            /\ last' = exp[t]
            /\ expire' = [exp EXCEPT ![t] = Infinite]
            /\ executing' = [exec EXCEPT ![t] = TRUE]
            /\ triggered' = [trig EXCEPT ![t] = FALSE]
            /\ timers' = LinkAtBack(timers, t)
    \/ /\ ~parked \/ \A k \in DOMAIN timers : ~trig[timers[k]]
       /\ running' = IF parked THEN NoTimer ELSE running
       /\ last' = IF parked THEN Infinite ELSE last
       /\ expire' = exp
       /\ executing' = exec
       /\ triggered' = trig
       /\ UNCHANGED timers

IsTimeExpired(time) == time = Wrapped \/ (time \in Int /\ time <= 0)

Expired(t) == Exists(t) /\ enabled[t] /\ IsTimeExpired(expire[t])

\* Variant: a timer is triggered although its callback runs.
TriggerAlways(t) == triggered[t] \/ Expired(t)
Trigger(t) == triggered[t] \/ (Expired(t) /\ ~executing[t])

(* ProcessTimer, between two quanta or before the engine goes to sleep.      *)
CheckTimers ==
    /\ \E t \in Timers : Expired(t)
    /\ SpawnTimer([t \in Timers |-> Trigger(t)], executing, expire, running = NoTimer)
    /\ UNCHANGED <<flags, frequency>>

(* The next expiration: a period after the last one, and if that is past the  *)
(* first one in the same phase that lies ahead.  A last expiration that is    *)
(* Infinite (Change put it off after the trigger) gives a sum beyond CLR_INT64, *)
(* read as a negative number; so does every later sum.  A Change that failed   *)
(* leaves its period, negative or 0, on a timer that is recurring still: a     *)
(* negative one gives a time that is past as well, and a remainder by 0 is 0   *)
(* or the dividend, as the processor has it.                                 *)
\* Variant: the time computed for a timer that fell back is not ahead.
LatestBefore(time, period) ==
    IF time \notin Int \/ period <= 0 THEN {time}
    ELSE IF time + period >= 0 THEN {time + period}
    ELSE {-((-(time + period)) % period)}
NextExpiration(time, period) ==
    CASE time = Wrapped -> {Wrapped}
      [] time = Infinite -> IF period > 0 THEN {Wrapped} ELSE {Infinite}
      [] time \in Int ->
             IF time + period >= 0 THEN {time + period}
             ELSE IF period > 0 THEN {period - ((-(time + period)) % period)}
             ELSE IF period < 0 THEN {-MaxLag}
             ELSE {0, time}

(* The expirations that a recurring timer can be left with.                   *)
Reschedule(t) ==
    IF recurring[t] /\ enabled[t]
    THEN {[expire EXCEPT ![t] = next] : next \in NextExpiration(last, frequency[t])}
    ELSE {expire}

\* Variant: c_Executing is not reset.
StillExecuting(t) == executing
NoLongerExecuting(t) == [executing EXCEPT ![t] = FALSE]

\* Variant: the end of a callback does not hand the thread on.
EndsOnly ==
    /\ running # NoTimer
    /\ running' = NoTimer
    /\ last' = Infinite
    /\ executing' = NoLongerExecuting(running)
    /\ expire' \in Reschedule(running)
    /\ UNCHANGED <<timers, flags, triggered, frequency>>

(* The callback returns or fails: Passivate parks the thread and calls        *)
(* ThreadTerminationCallback, which may start the next callback at once.      *)
CallbackEnds ==
    /\ running # NoTimer
    /\ \E exp \in Reschedule(running) :
           SpawnTimer(triggered, NoLongerExecuting(running), exp, TRUE)
    /\ UNCHANGED <<flags, frequency>>

-----------------------------------------------------------------------------
(* The program.                                                             *)

(* ConfigureObject with c_ACTION_Change.  An argument out of range is found   *)
(* when the fields have been written: the call fails, the timer is changed.   *)
Configure(t, due, period, wasEnabled, wasRecurring) ==
    /\ frequency' = [frequency EXCEPT ![t] = period]
    /\ expire' = [expire EXCEPT ![t] = IF due \in Int /\ due < 0 THEN -MaxLag ELSE due]
    /\ \/ /\ due \in Int /\ due < 0
          /\ enabled' = [enabled EXCEPT ![t] = wasEnabled]
          /\ recurring' = [recurring EXCEPT ![t] = wasRecurring]
       \/ /\ ~(due \in Int /\ due < 0)
          /\ enabled' = [enabled EXCEPT ![t] = due # Infinite]
          /\ recurring' = [recurring EXCEPT ![t] =
                              IF period < 0 THEN wasRecurring ELSE period > 0]

(* The constructor.  The node may be one that a collected timer left, also    *)
(* one whose callback still runs.                                           *)
Create(t, due, period) ==
    /\ ~Exists(t)
    /\ timers' = Append(timers, t)
    /\ Configure(t, due, period, FALSE, FALSE)
    /\ triggered' = [triggered EXCEPT ![t] = FALSE]
    /\ executing' = [executing EXCEPT ![t] = FALSE]
    /\ last' = IF running = t THEN -MaxLag ELSE last
    /\ UNCHANGED running

(* Change; a disposed timer can be changed too, as CheckDisposed looks for a  *)
(* flag that nobody sets.                                                   *)
Change(t, due, period) ==
    /\ Exists(t)
    /\ Configure(t, due, period, enabled[t], recurring[t])
    /\ UNCHANGED <<timers, triggered, executing, last, running>>

(* Dispose: a trigger that is pending stays.                                *)
Dispose(t) ==
    /\ Exists(t)
    /\ enabled' = [enabled EXCEPT ![t] = FALSE]
    /\ UNCHANGED <<timers, recurring, triggered, executing, expire, frequency, last, running>>

(* The garbage collector finds no reference to the managed timer object:      *)
(* RecoverFromGC frees the timer, whether its callback runs or not.          *)
Collect(t) ==
    /\ Exists(t)
    /\ timers' = Unlink(timers, t)
    /\ enabled' = [enabled EXCEPT ![t] = FALSE]
    /\ recurring' = [recurring EXCEPT ![t] = FALSE]
    /\ triggered' = [triggered EXCEPT ![t] = FALSE]
    /\ executing' = [executing EXCEPT ![t] = FALSE]
    /\ expire' = [expire EXCEPT ![t] = Infinite]
    /\ frequency' = [frequency EXCEPT ![t] = 0]
    /\ UNCHANGED <<last, running>>

Later(time) ==
    IF time \notin Int THEN time ELSE IF time > -MaxLag THEN time - 1 ELSE time

(* The clock.                                                               *)
Tick ==
    /\ expire' = [t \in Timers |-> Later(expire[t])]
    /\ last' = Later(last)
    /\ UNCHANGED <<timers, flags, triggered, executing, frequency, running>>

-----------------------------------------------------------------------------
(* The specification.                                                       *)

Program(t) ==
    \/ \E arg \in Arguments : Create(t, arg[1], arg[2]) \/ Change(t, arg[1], arg[2])
    \/ Dispose(t)
    \/ Collect(t)

Next ==
    \/ CheckTimers
    \/ CallbackEnds
    \/ Tick
    \/ \E t \in Timers : Program(t)

(* Time goes on, the engine checks the timers after every quantum and before  *)
(* it sleeps, and the callbacks of the program return.                       *)
Fairness ==
    /\ WF_vars(Tick)
    /\ WF_vars(CheckTimers)
    /\ WF_vars(CallbackEnds)

Spec == Init /\ [][Next]_vars /\ Fairness

-----------------------------------------------------------------------------
(* Properties.                                                              *)

(* c_Executing is set for the timer of the timer thread only, so that no two   *)
(* callbacks run at once and no flag is left over that would silence a timer   *)
(* for ever; and an expiration during the callback is not a second trigger.   *)
ExecutingAlone ==
    /\ TypeOK
    /\ \A t \in Timers : executing[t] => running = t /\ ~triggered[t]

(* No triggered timer waits for a timer thread that is parked: the engine      *)
(* hands the thread on at each trigger and at each end of a callback.         *)
NoIdleTrigger ==
    (\E t \in Timers : Exists(t) /\ triggered[t]) => running # NoTimer

(* A recurring timer stays in phase, however late its callback was started    *)
(* and however long it took: the next expiration is a whole number of periods  *)
(* after the last, not in the past, and none that lies ahead is left out.     *)
KeepsPhase ==
    [][\A t \in Timers :
           CallbackEnds /\ running = t /\ running' # t
               /\ recurring[t] /\ enabled[t] /\ last \in Int /\ frequency[t] > 0 =>
                   /\ (expire'[t] - last) % frequency[t] = 0
                   /\ expire'[t] >= 0
                   /\ expire'[t] <= frequency[t] \/ expire'[t] = last + frequency[t]]_vars

(* When the program leaves the timers alone, every enabled timer with an       *)
(* expiration fires: none is lost while another callback, or the timer's own,  *)
(* keeps the timer thread busy.                                             *)
EnabledFires ==
    <>[][\A t \in Timers : ~Program(t)]_vars =>
        \A t \in Timers :
            []<>(Exists(t) /\ enabled[t] /\ expire[t] # Infinite => running = t)

(* "We need to compute the next expiration in the future, to avoid an          *)
(* avalanche effect" (Reschedule).                                          *)
NextInFuture ==
    [][\A t \in Timers :
           CallbackEnds /\ running = t /\ running' # t /\ recurring[t] /\ enabled[t] =>
               ~IsTimeExpired(expire'[t]) \/ expire'[t] = 0]_vars

(* The same of the remainder that Reschedule takes for it: a recurring timer    *)
(* always has the period to compute the next expiration with, also after a     *)
(* call of Change that was refused.                                          *)
RecurringHasPeriod == \A t \in Timers : recurring[t] => frequency[t] # 0
=============================================================================
