------------------------------- MODULE Scheduler -------------------------------
(***************************************************************************)
(* CLR_RT_ExecutionEngine::ScheduleThreads: the choice of the thread to run, *)
(* the execution counters it is based on and the order of m_threadsReady.    *)
(*                                                                          *)
(* A thread's place in the ready list depends on its execution counter plus  *)
(* its priority.  Each quantum is paid for by decrementing the counter, more *)
(* for a low priority than for a high one, so that counters only fall; when  *)
(* the lowest, m_GlobalExecutionCounter, passes a threshold all of them are  *)
(* raised again.  The threshold, the adjustment and the number of priorities *)
(* are constants here, as they are in the code.                              *)
(***************************************************************************)
EXTENDS Lists

CONSTANTS
    Threads,            \* every CLR_RT_Thread
    SystemThreads,      \* those with TH_F_System
    Main,               \* the thread the program starts with
    SystemHighest,      \* ThreadPriority::System_Highest
    Normal,             \* ThreadPriority::Normal
    SystemPriority,     \* the priority each system thread is created with
    CounterMaximum,     \* EXECUTION_COUNTER_MAXIMUM
    CounterAdjustment,  \* EXECUTION_COUNTER_ADJUSTMENT
    MaxContextSwitch,   \* the argument of ScheduleThreads
    Suspendable,        \* the threads Thread.Suspend is called on (a bound)
    NoThread

ASSUME SchedulerAssumption ==
    /\ SystemThreads \subseteq Threads
    /\ Main \in Threads \ SystemThreads
    /\ SystemHighest \in Nat \ {0}
    /\ Normal \in 0..(SystemHighest - 1)
    /\ SystemPriority \in [SystemThreads -> 0..SystemHighest]
    /\ CounterAdjustment \in Nat /\ CounterMaximum \in Nat
    /\ MaxContextSwitch \in Nat \ {0}
    /\ Suspendable \subseteq Threads \ SystemThreads
    /\ NoThread \notin Threads
    /\ MaxContextSwitch * (2 ^ SystemHighest + 1) <= CounterAdjustment
    /\ CounterAdjustment + 2 ^ SystemHighest + 1 <= CounterMaximum

(* The provers know nothing of powers; TLC evaluates this on every instance.  *)
ASSUME PowersAssumption ==
    \A n \in 0..SystemHighest : 2 ^ n \in 1..(2 ^ SystemHighest)

VARIABLES
    status,     \* m_status
    suspended,  \* TH_F_Suspended
    ready,      \* m_threadsReady; the running thread stays linked in it
    counter,    \* m_executionCounter
    priority,   \* m_priority of the current subthread
    global,     \* m_GlobalExecutionCounter
    switches,   \* what is left of maxContextSwitch; 0: outside ScheduleThreads
    current     \* the thread in CLR_RT_Thread::Execute

vars == <<status, suspended, ready, counter, priority, global, switches, current>>

Managed == Threads \ SystemThreads
Priorities == 0..SystemHighest
ManagedPriorities == 0..(SystemHighest - 1)

TypeOK ==
    /\ status \in [Threads -> {"Unstarted", "Ready", "Waiting", "Terminated"}]
    /\ suspended \in [Threads -> BOOLEAN]
    /\ ready \in Seq(Threads)
    /\ counter \in [Threads -> Int]
    /\ priority \in [Threads -> Priorities]
    /\ global \in Int
    /\ switches \in 0..MaxContextSwitch
    /\ current \in Threads \cup {NoThread}

Init ==
    /\ status = [t \in Threads |-> IF t = Main THEN "Ready" ELSE "Unstarted"]
    /\ suspended = [t \in Threads |-> FALSE]
    /\ ready = <<Main>>
    /\ counter = [t \in Threads |-> 0]
    /\ priority = [t \in Threads |-> IF t \in SystemThreads THEN SystemPriority[t] ELSE Normal]
    /\ global = 0
    /\ switches = 0
    /\ current = NoThread

-----------------------------------------------------------------------------
(* Counters.                                                                *)

\* Variant: 1 >> n for 1 << n.
QuantumDebitShiftedRight(p) == IF p = SystemHighest THEN 1 ELSE 0
QuantumDebit(p) == 2 ^ (SystemHighest - p)

Window == 2 ^ SystemHighest + 1

\* Variant: the credit of a thread is never cut off.
CounterAsItIs(c, g) == c
(* BringExecCounterToDate: a thread that has not run for a while gets no more *)
(* than Window of credit.                                                    *)
BringToDate(c, g) == IF c - g > Window THEN g + Window ELSE c

(* AdjustExecutionCounter over the ready, the waiting and the zombie list: a  *)
(* thread not created yet is in none of them.                                *)
AdjustExecutionCounter(threads, g) ==
    [t \in Threads |-> IF t \in threads THEN BringToDate(counter[t] + CounterAdjustment, g)
                       ELSE counter[t]]

\* Variant: only the ready threads are adjusted.
InReadyList == {t \in Threads : Contains(ready, t)}
InAnyList == Threads \ {t \in Managed : status[t] = "Unstarted"}

-----------------------------------------------------------------------------
(* Lists.                                                                   *)

Linked(t) == Contains(ready, t)

(* InsertThreadRoundRobin: before the first thread with a smaller key.       *)
InsertThreadRoundRobin(t, count, prio) ==
    LET q == Unlink(ready, t)
        Smaller(k) == count[q[k]] + prio[q[k]] < count[t] + prio[t]
    IN  \E k \in 1..(Len(q) + 1) :
            /\ \A j \in 1..(k - 1) : ~Smaller(j)
            /\ k <= Len(q) => Smaller(k)
            /\ ready' = InsertAt(q, k, t)

(* PutInProperList for a thread with status s; only the ready list has an     *)
(* order that matters here.                                                  *)
PutInProperList(t, s, susp, count, prio) ==
    /\ status' = [status EXCEPT ![t] = s]
    /\ IF s = "Ready" /\ ~susp
       THEN InsertThreadRoundRobin(t, count, prio)
       ELSE ready' = Unlink(ready, t)

-----------------------------------------------------------------------------
(* The engine.                                                              *)

(* The prologue of ScheduleThreads: all counters are raised when the lowest  *)
(* one has fallen below the threshold.                                       *)
EnterScheduleThreads ==
    /\ current = NoThread
    /\ switches = 0
    /\ switches' = MaxContextSwitch
    /\ \/ /\ global < -CounterMaximum
          /\ global' = global + CounterAdjustment
          /\ counter' = AdjustExecutionCounter(InAnyList, global')
       \/ /\ global >= -CounterMaximum
          /\ UNCHANGED <<global, counter>>
    /\ UNCHANGED <<status, suspended, ready, priority, current>>

(* The first thread of the ready list pays for a quantum and runs.           *)
Schedule ==
    /\ current = NoThread
    /\ switches > 0
    /\ ready # <<>>
    /\ LET t == Head(ready)
           paid == BringToDate(counter[t], global) - QuantumDebit(priority[t])
       IN  /\ counter' = [counter EXCEPT ![t] = paid]
           /\ global' = IF paid < global THEN paid ELSE global
           /\ current' = t
    /\ switches' = switches - 1
    /\ UNCHANGED <<status, suspended, ready, priority>>

(* Nothing is ready: ScheduleThreads returns and the engine waits.           *)
NoReadyThreads ==
    /\ current = NoThread
    /\ switches > 0
    /\ ready = <<>>
    /\ switches' = 0
    /\ UNCHANGED <<status, suspended, ready, counter, priority, global, current>>

(* Restart by the engine: a timeout, an event, a completed request.          *)
Awaken(t) ==
    /\ current = NoThread
    /\ status[t] = "Waiting"
    /\ PutInProperList(t, "Ready", suspended[t], counter, priority)
    /\ UNCHANGED <<suspended, counter, priority, global, switches, current>>

(* SpawnTimer, SpawnFinalizer, interrupts: a parked system thread is reused.  *)
SpawnSystem(t) ==
    /\ current = NoThread
    /\ t \in SystemThreads
    /\ status[t] = "Unstarted"
    /\ PutInProperList(t, "Ready", FALSE, counter, priority)
    /\ UNCHANGED <<suspended, counter, priority, global, switches, current>>

-----------------------------------------------------------------------------
(* The running thread.                                                      *)

(* The quantum has expired; PutInProperList puts the thread back.            *)
QuantumExpired(t) ==
    /\ current = t
    /\ PutInProperList(t, "Ready", suspended[t], counter, priority)
    /\ current' = NoThread
    /\ UNCHANGED <<suspended, counter, priority, global, switches>>

(* Thread.Sleep(0): UpdateToLowestExecutionCounter and reschedule.           *)
SleepZero(t) ==
    /\ current = t
    /\ counter' = [counter EXCEPT ![t] = global - 1]
    /\ PutInProperList(t, "Ready", suspended[t], counter', priority)
    /\ current' = NoThread
    /\ UNCHANGED <<suspended, priority, global, switches>>

(* Any wait: Sleep, a lock, a handle, an event.                              *)
Wait(t) ==
    /\ current = t
    /\ PutInProperList(t, "Waiting", suspended[t], counter, priority)
    /\ current' = NoThread
    /\ UNCHANGED <<suspended, counter, priority, global, switches>>

(* The thread ends; a system thread is parked.                               *)
Exit(t) ==
    /\ current = t
    /\ PutInProperList(t, IF t \in SystemThreads THEN "Unstarted" ELSE "Terminated",
                       FALSE, counter, priority)
    /\ suspended' = [suspended EXCEPT ![t] = FALSE]
    /\ current' = NoThread
    /\ UNCHANGED <<counter, priority, global, switches>>

(* Thread.Start: NewThread.  The counter of a new thread is 0.               *)
Start(t, u, p) ==
    /\ current = t
    /\ u \in Managed
    /\ status[u] = "Unstarted"
    /\ counter' = [counter EXCEPT ![u] = 0]
    /\ priority' = [priority EXCEPT ![u] = p]
    /\ PutInProperList(u, "Ready", FALSE, counter', priority')
    /\ UNCHANGED <<suspended, global, switches, current>>

(* Thread.Priority: the list is not sorted again.  Raising a thread above    *)
(* oneself reschedules.                                                      *)
SetPriority(t, u, p) ==
    /\ current = t
    /\ u \in Managed
    /\ status[u] \in {"Ready", "Waiting"}
    /\ priority' = [priority EXCEPT ![u] = p]
    /\ \/ /\ p > priority'[t]
          /\ PutInProperList(t, "Ready", suspended[t], counter, priority')
          /\ current' = NoThread
       \/ /\ p <= priority'[t]
          /\ UNCHANGED <<status, ready, current>>
    /\ UNCHANGED <<suspended, counter, global, switches>>

(* Thread.Suspend; on itself it also reschedules.                            *)
Suspend(t, u) ==
    /\ current = t
    /\ u \in Suspendable
    /\ status[u] \in {"Ready", "Waiting"} /\ ~suspended[u]
    /\ suspended' = [suspended EXCEPT ![u] = TRUE]
    /\ PutInProperList(u, status[u], TRUE, counter, priority)
    /\ current' = IF u = t THEN NoThread ELSE t
    /\ UNCHANGED <<counter, priority, global, switches>>

(* Thread.Resume.                                                           *)
Resume(t, u) ==
    /\ current = t
    /\ u \in Managed
    /\ status[u] \in {"Ready", "Waiting"} /\ suspended[u]
    /\ suspended' = [suspended EXCEPT ![u] = FALSE]
    /\ PutInProperList(u, status[u], FALSE, counter, priority)
    /\ UNCHANGED <<counter, priority, global, switches, current>>

(* A thread restarted by the running one: Monitor.Exit, Set, Abort.          *)
Wake(t, u) ==
    /\ current = t
    /\ status[u] = "Waiting"
    /\ PutInProperList(u, "Ready", suspended[u], counter, priority)
    /\ UNCHANGED <<suspended, counter, priority, global, switches, current>>

-----------------------------------------------------------------------------
(* The specification.                                                       *)

EndOfQuantum(t) == QuantumExpired(t) \/ SleepZero(t) \/ Wait(t) \/ Exit(t)

Call(t) ==
    \/ \E u \in Threads, p \in ManagedPriorities : Start(t, u, p) \/ SetPriority(t, u, p)
    \/ \E u \in Threads : Suspend(t, u) \/ Resume(t, u) \/ Wake(t, u)

Engine ==
    \/ EnterScheduleThreads
    \/ Schedule
    \/ NoReadyThreads

Next ==
    \/ Engine
    \/ \E t \in Threads : Awaken(t) \/ SpawnSystem(t) \/ EndOfQuantum(t) \/ Call(t)

(* The engine's loop never stops while there are threads, and a quantum ends *)
(* whatever the thread does: the quantum timer sets m_timeQuantumExpired.    *)
Fairness ==
    /\ WF_vars(Engine)
    /\ WF_vars(\E t \in Threads : QuantumExpired(t))

Spec == Init /\ [][Next]_vars /\ Fairness

-----------------------------------------------------------------------------
(* Properties.                                                              *)

(* The ready list holds each ready thread that is not suspended exactly once *)
(* and no other thread, the running one included: no suspension, resumption, *)
(* wake-up or end during someone's quantum loses a thread or runs it twice.  *)
ReadyListed ==
    /\ IsInjective(ready)
    /\ \A t \in Threads : Linked(t) <=> status[t] = "Ready" /\ ~suspended[t]

(* m_GlobalExecutionCounter is a lower bound of the counters, but for the    *)
(* one unit Sleep(0) goes below it: this is what makes the debt of the other  *)
(* threads, and with it the time until they run, bounded.                    *)
GlobalIsLowest == \A t \in Threads : counter[t] >= global - 1

(* One call of ScheduleThreads takes no counter further below the threshold  *)
(* than its context switches cost, and the adjustment never lifts one above   *)
(* the 0 a new thread starts with: the int counters cannot overflow.         *)
CountersInRange ==
    \A t \in Threads :
        counter[t] \in -(CounterMaximum + MaxContextSwitch * Window + 1) .. 0

(* Once the running threads do nothing but use their quantum up, sleep, wait or *)
(* end, no ready thread starves: a low priority costs it more for a quantum,  *)
(* and it runs again and again all the same, whatever the priorities were set  *)
(* to before and however often the engine wakes threads whose timeout or      *)
(* event is due or starts the system thread again.                          *)
NoStarvation ==
    <>[][current # NoThread => EndOfQuantum(current)]_vars =>
        \A t \in Threads : []<>(current = t \/ ~Linked(t))

(* "The thread with highest m_executionCounter is chosen for execution."     *)
(* (ScheduleThreads): no ready thread is ahead of it both in the counter and  *)
(* in the counter plus priority the ready list is meant to be sorted by.      *)
HighestIsChosen ==
    [][Schedule => \A t \in Threads :
           Linked(t) => \/ counter[t] <= counter[current']
                        \/ counter[t] + priority[t] <= counter[current'] + priority[current']]_vars
=============================================================================
