---------------------------- MODULE SchedulerProofs ----------------------------
(***************************************************************************)
(* Invariants of Scheduler proved for every set of threads and every value  *)
(* of the thresholds, among them that no execution counter overflows.       *)
(***************************************************************************)
EXTENDS Scheduler, ListProofs, SequenceTheorems

(* Only threads that were created are linked in the ready list.             *)
ReadyCreated == ready \in Seq(InAnyList)

(* The lowest counter stays below 0, the counter a new thread starts with,   *)
(* and within what the remaining context switches may cost of the threshold. *)
GlobalBounded ==
    /\ global <= 0
    /\ global >= -(CounterMaximum + (MaxContextSwitch - switches) * Window)

(* A thread that was not created yet has not paid for anything.             *)
NewAreUnpaid == \A t \in Managed : status[t] = "Unstarted" => counter[t] = 0

CountersBelowZero == \A t \in Threads : counter[t] <= 0

TypeInv == TypeOK /\ ReadyCreated

(* A thread that ends loses its suspension, and only a thread that was started  *)
(* can be suspended.                                                        *)
SuspendedStarted == \A t \in Threads : suspended[t] => status[t] \in {"Ready", "Waiting"}

ReadyInv == TypeInv /\ ReadyListed /\ SuspendedStarted

CounterInv ==
    /\ TypeInv
    /\ GlobalBounded
    /\ NewAreUnpaid
    /\ CountersBelowZero
    /\ GlobalIsLowest

-----------------------------------------------------------------------------
(* Constants and sequences.                                                 *)

LEMMA WindowType ==
    /\ Window \in Nat
    /\ \A p \in Priorities : QuantumDebit(p) \in 1..(Window - 1)
<1>1. 2 ^ SystemHighest \in 1..(2 ^ SystemHighest)
  BY SchedulerAssumption, PowersAssumption
<1>2. Window \in Nat
  BY <1>1 DEF Window
<1>3. ASSUME NEW p \in Priorities
      PROVE  QuantumDebit(p) \in 1..(Window - 1)
  <2>1. SystemHighest - p \in 0..SystemHighest
    BY SchedulerAssumption DEF Priorities
  <2>2. 2 ^ (SystemHighest - p) \in 1..(2 ^ SystemHighest)
    BY <2>1, PowersAssumption
  <2>3. QED
    BY <1>1, <2>2 DEF QuantumDebit, Window
<1>4. QED
  BY <1>2, <1>3

LEMMA SeqMonotone ==
    ASSUME NEW S, NEW T, S \subseteq T, NEW q \in Seq(S)
    PROVE  q \in Seq(T)
OBVIOUS

(* PutInProperList changes the place of one thread only.                    *)
LEMMA PutType ==
    ASSUME NEW S, ready \in Seq(S), NEW t \in S,
           NEW s, NEW susp, NEW count, NEW prio,
           PutInProperList(t, s, susp, count, prio)
    PROVE  ready' \in Seq(S)
<1>1. Unlink(ready, t) \in Seq(S)
  BY UnlinkType
<1>2. CASE s = "Ready" /\ ~susp
  <2>1. PICK k \in 1..(Len(Unlink(ready, t)) + 1) :
            ready' = InsertAt(Unlink(ready, t), k, t)
    BY <1>2 DEF PutInProperList, InsertThreadRoundRobin
  <2>2. QED
    BY <1>1, <2>1, InsertAtPositions
<1>3. CASE ~(s = "Ready" /\ ~susp)
  BY <1>1, <1>3 DEF PutInProperList
<1>4. QED
  BY <1>2, <1>3

-----------------------------------------------------------------------------
(* Types.                                                                   *)

Statuses == {"Unstarted", "Ready", "Waiting", "Terminated"}

(* A thread that is put in a list with a status it may have is created.      *)
LEMMA PutPreservesLists ==
    ASSUME TypeInv, NEW t \in Threads, NEW s \in Statuses,
           NEW susp, NEW count, NEW prio,
           PutInProperList(t, s, susp, count, prio),
           t \in SystemThreads \/ s # "Unstarted"
    PROVE  /\ status' \in [Threads -> Statuses]
           /\ ready' \in Seq(Threads)
           /\ ReadyCreated'
           /\ InAnyList' = InAnyList \cup {t}
<1>1. status' = [status EXCEPT ![t] = s]
  BY DEF PutInProperList
<1>2. status \in [Threads -> Statuses]
  BY DEF TypeInv, TypeOK, Statuses
<1>3. status' \in [Threads -> Statuses]
  BY <1>1, <1>2
<1>4. InAnyList' = InAnyList \cup {t}
  BY <1>1, <1>2 DEF InAnyList, Managed
<1>5. ready \in Seq(InAnyList')
  <2>1. ready \in Seq(InAnyList) /\ InAnyList \subseteq InAnyList'
    BY <1>4 DEF TypeInv, ReadyCreated
  <2>2. QED
    BY <2>1, SeqMonotone
<1>6. t \in InAnyList'
  BY <1>4
<1>7. ready' \in Seq(InAnyList')
  BY <1>5, <1>6, PutType
<1>8. InAnyList' \subseteq Threads
  BY DEF InAnyList
<1>9. ready' \in Seq(Threads)
  BY <1>7, <1>8, SeqMonotone
<1>10. QED
  BY <1>3, <1>4, <1>7, <1>9 DEF ReadyCreated

LEMMA InitType == Init => TypeInv
<1>1. ASSUME Init PROVE TypeOK
  <2>1. ready = <<Main>> /\ Main \in Threads
    BY <1>1, SchedulerAssumption DEF Init
  <2>2. ready \in Seq(Threads)
    BY <2>1
  <2>3. Normal \in Priorities
    BY SchedulerAssumption DEF Priorities
  <2>4. priority \in [Threads -> Priorities]
    BY <1>1, <2>3, SchedulerAssumption DEF Init, Priorities
  <2>5. QED
    BY <1>1, <2>2, <2>4, SchedulerAssumption DEF Init, TypeOK
<1>2. ASSUME Init PROVE ReadyCreated
  <2>1. Main \in InAnyList
    BY <1>2, SchedulerAssumption DEF Init, InAnyList, Managed
  <2>2. QED
    BY <1>2, <2>1 DEF Init, ReadyCreated
<1>3. QED
  BY <1>1, <1>2 DEF TypeInv

(* BringToDate keeps a counter an integer and never raises it.              *)
LEMMA BringToDateType ==
    ASSUME NEW c \in Int, NEW g \in Int
    PROVE  /\ BringToDate(c, g) \in Int
           /\ BringToDate(c, g) <= c
           /\ BringToDate(c, g) <= g + Window
           /\ c >= g - 1 => BringToDate(c, g) >= g - 1
BY WindowType DEF BringToDate

(* What a thread pays for a quantum.                                        *)
LEMMA PaidType ==
    ASSUME NEW c \in Int, NEW g \in Int, NEW p \in Priorities
    PROVE  /\ BringToDate(c, g) - QuantumDebit(p) \in Int
           /\ BringToDate(c, g) - QuantumDebit(p) <= c
           /\ c >= g - 1 => BringToDate(c, g) - QuantumDebit(p) >= g - Window
<1>1. QuantumDebit(p) \in 1..(Window - 1) /\ Window \in Nat
  BY WindowType
<1>2. /\ BringToDate(c, g) \in Int /\ BringToDate(c, g) <= c
      /\ c >= g - 1 => BringToDate(c, g) >= g - 1
  BY BringToDateType
<1>3. QED
  BY <1>1, <1>2

LEMMA EngineType ==
    ASSUME TypeInv, Engine
    PROVE  TypeInv'
<1> USE DEF TypeInv
<1>1. CASE EnterScheduleThreads
  <2>1. counter' \in [Threads -> Int] /\ global' \in Int
    <3>1. CASE global < -CounterMaximum
      <4>1. /\ global' = global + CounterAdjustment
            /\ counter' = AdjustExecutionCounter(InAnyList, global')
        BY <1>1, <3>1, SchedulerAssumption DEF EnterScheduleThreads, TypeOK
      <4>2. global' \in Int
        BY <4>1, SchedulerAssumption DEF TypeOK
      <4>3. \A t \in Threads : counter[t] + CounterAdjustment \in Int
        BY SchedulerAssumption DEF TypeOK
      <4>4. \A t \in Threads : BringToDate(counter[t] + CounterAdjustment, global') \in Int
        BY <4>2, <4>3, BringToDateType
      <4>5. \A t \in Threads :
                (IF t \in InAnyList
                 THEN BringToDate(counter[t] + CounterAdjustment, global')
                 ELSE counter[t]) \in Int
        BY <4>4 DEF TypeOK
      <4>6. QED
        BY <4>1, <4>2, <4>5 DEF AdjustExecutionCounter
    <3>2. CASE ~(global < -CounterMaximum)
      BY <1>1, <3>2, SchedulerAssumption DEF EnterScheduleThreads, TypeOK
    <3>3. QED
      BY <3>1, <3>2
  <2>2. UNCHANGED <<status, suspended, ready, priority, current>>
    BY <1>1 DEF EnterScheduleThreads
  <2>3. switches' \in 0..MaxContextSwitch
    BY <1>1, SchedulerAssumption DEF EnterScheduleThreads
  <2>4. ReadyCreated'
    BY <2>2 DEF ReadyCreated, InAnyList
  <2>5. QED
    BY <2>1, <2>2, <2>3, <2>4 DEF TypeOK
<1>2. CASE Schedule
  <2>1. Head(ready) \in Threads
    BY <1>2 DEF Schedule, TypeOK
  <2>2. PICK t \in Threads : t = Head(ready)
    BY <2>1
  <2> DEFINE paid == BringToDate(counter[t], global) - QuantumDebit(priority[t])
  <2>3. paid \in Int
    <3>1. counter[t] \in Int /\ global \in Int /\ priority[t] \in Priorities
      BY DEF TypeOK
    <3>2. QED
      BY <3>1, PaidType
  <2>4. /\ counter' = [counter EXCEPT ![t] = paid]
        /\ global' = IF paid < global THEN paid ELSE global
        /\ current' = t
    BY <1>2, <2>2 DEF Schedule
  <2> HIDE DEF paid
  <2>5. UNCHANGED <<status, suspended, ready, priority>>
    BY <1>2 DEF Schedule
  <2>6. switches' \in 0..MaxContextSwitch
    BY <1>2, SchedulerAssumption DEF Schedule, TypeOK
  <2>7. ReadyCreated'
    BY <2>5 DEF ReadyCreated, InAnyList
  <2>8. counter' \in [Threads -> Int] /\ global' \in Int
    BY <2>3, <2>4 DEF TypeOK
  <2>9. QED
    BY <2>4, <2>5, <2>6, <2>7, <2>8 DEF TypeOK
<1>3. CASE NoReadyThreads
  BY <1>3, SchedulerAssumption DEF NoReadyThreads, TypeOK, ReadyCreated, InAnyList
<1>4. QED
  BY <1>1, <1>2, <1>3 DEF Engine

(* What every action but those of the engine does: one thread is put in its  *)
(* list and the counters and priorities keep their types.                    *)
LEMMA OneThreadType ==
    ASSUME TypeInv, NEW t \in Threads, NEW s \in Statuses,
           NEW susp, NEW count, NEW prio,
           PutInProperList(t, s, susp, count, prio),
           t \in SystemThreads \/ s # "Unstarted",
           suspended' \in [Threads -> BOOLEAN],
           counter' \in [Threads -> Int], priority' \in [Threads -> Priorities],
           global' = global, switches' = switches,
           current' \in Threads \cup {NoThread}
    PROVE  TypeInv'
<1>1. status' \in [Threads -> Statuses] /\ ready' \in Seq(Threads) /\ ReadyCreated'
  BY PutPreservesLists
<1>2. QED
  BY <1>1 DEF TypeInv, TypeOK, Statuses


LEMMA ThreadType ==
    ASSUME TypeInv, NEW t \in Threads,
           Awaken(t) \/ SpawnSystem(t) \/ EndOfQuantum(t)
    PROVE  TypeInv'
<1> USE DEF Statuses
<1>1. CASE Awaken(t)
  <2>1. PutInProperList(t, "Ready", suspended[t], counter, priority)
    BY <1>1 DEF Awaken
  <2>2. QED
    BY <1>1, <2>1, OneThreadType DEF Awaken, TypeInv, TypeOK
<1>2. CASE SpawnSystem(t)
  <2>1. PutInProperList(t, "Ready", FALSE, counter, priority)
    BY <1>2 DEF SpawnSystem
  <2>2. QED
    BY <1>2, <2>1, OneThreadType DEF SpawnSystem, TypeInv, TypeOK
<1>3. CASE QuantumExpired(t)
  <2>1. PutInProperList(t, "Ready", suspended[t], counter, priority)
    BY <1>3 DEF QuantumExpired
  <2>2. QED
    BY <1>3, <2>1, OneThreadType DEF QuantumExpired, TypeInv, TypeOK
<1>4. CASE SleepZero(t)
  <2>1. PutInProperList(t, "Ready", suspended[t], counter', priority)
    BY <1>4 DEF SleepZero
  <2>2. counter' \in [Threads -> Int]
    BY <1>4 DEF SleepZero, TypeInv, TypeOK
  <2>3. QED
    BY <1>4, <2>1, <2>2, OneThreadType DEF SleepZero, TypeInv, TypeOK
<1>5. CASE Wait(t)
  <2>1. PutInProperList(t, "Waiting", suspended[t], counter, priority)
    BY <1>5 DEF Wait
  <2>2. QED
    BY <1>5, <2>1, OneThreadType DEF Wait, TypeInv, TypeOK
<1>6. CASE Exit(t)
  <2>1. CASE t \in SystemThreads
    <3>1. PutInProperList(t, "Unstarted", FALSE, counter, priority)
      BY <1>6, <2>1 DEF Exit
    <3>2. suspended' \in [Threads -> BOOLEAN]
      BY <1>6 DEF Exit, TypeInv, TypeOK
    <3>3. QED
      BY <1>6, <2>1, <3>1, <3>2, OneThreadType DEF Exit, TypeInv, TypeOK
  <2>2. CASE t \notin SystemThreads
    <3>1. PutInProperList(t, "Terminated", FALSE, counter, priority)
      BY <1>6, <2>2 DEF Exit
    <3>2. suspended' \in [Threads -> BOOLEAN]
      BY <1>6 DEF Exit, TypeInv, TypeOK
    <3>3. QED
      BY <1>6, <3>1, <3>2, OneThreadType DEF Exit, TypeInv, TypeOK
  <2>3. QED
    BY <2>1, <2>2
<1>7. QED
  BY <1>1, <1>2, <1>3, <1>4, <1>5, <1>6 DEF EndOfQuantum

LEMMA CallType ==
    ASSUME TypeInv, NEW t \in Threads, Call(t)
    PROVE  TypeInv'
<1> USE DEF Statuses
<1>1. ASSUME NEW u \in Threads, NEW p \in ManagedPriorities, Start(t, u, p)
      PROVE  TypeInv'
  <2>1. PutInProperList(u, "Ready", FALSE, counter', priority')
    BY <1>1 DEF Start
  <2>2. p \in Priorities
    BY SchedulerAssumption DEF ManagedPriorities, Priorities
  <2>3. /\ counter' \in [Threads -> Int]
        /\ priority' \in [Threads -> Priorities]
    BY <1>1, <2>2 DEF Start, TypeInv, TypeOK
  <2>4. QED
    BY <1>1, <2>1, <2>3, OneThreadType DEF Start, TypeInv, TypeOK
<1>2. ASSUME NEW u \in Threads, NEW p \in ManagedPriorities, SetPriority(t, u, p)
      PROVE  TypeInv'
  <2>1. p \in Priorities
    BY SchedulerAssumption DEF ManagedPriorities, Priorities
  <2>2. priority' \in [Threads -> Priorities]
    BY <1>2, <2>1 DEF SetPriority, TypeInv, TypeOK
  <2>3. CASE PutInProperList(t, "Ready", suspended[t], counter, priority') /\ current' = NoThread
    BY <1>2, <2>2, <2>3, OneThreadType DEF SetPriority, TypeInv, TypeOK
  <2>4. CASE UNCHANGED <<status, ready, current>>
    <3>1. ReadyCreated'
      BY <2>4 DEF TypeInv, ReadyCreated, InAnyList
    <3>2. QED
      BY <1>2, <2>2, <2>4, <3>1 DEF SetPriority, TypeInv, TypeOK
  <2>5. QED
    BY <1>2, <2>3, <2>4 DEF SetPriority
<1>3. ASSUME NEW u \in Threads, Suspend(t, u)
      PROVE  TypeInv'
  <2>1. PICK s \in {"Ready", "Waiting"} : s = status[u]
    BY <1>3 DEF Suspend
  <2>2. PutInProperList(u, s, TRUE, counter, priority)
    BY <1>3, <2>1 DEF Suspend
  <2>3. suspended' \in [Threads -> BOOLEAN]
    BY <1>3 DEF Suspend, TypeInv, TypeOK
  <2>4. QED
    BY <1>3, <2>2, <2>3, OneThreadType DEF Suspend, TypeInv, TypeOK
<1>4. ASSUME NEW u \in Threads, Resume(t, u)
      PROVE  TypeInv'
  <2>1. PICK s \in {"Ready", "Waiting"} : s = status[u]
    BY <1>4 DEF Resume
  <2>2. PutInProperList(u, s, FALSE, counter, priority)
    BY <1>4, <2>1 DEF Resume
  <2>3. suspended' \in [Threads -> BOOLEAN]
    BY <1>4 DEF Resume, TypeInv, TypeOK
  <2>4. QED
    BY <1>4, <2>2, <2>3, OneThreadType DEF Resume, TypeInv, TypeOK
<1>5. ASSUME NEW u \in Threads, Wake(t, u)
      PROVE  TypeInv'
  <2>1. PutInProperList(u, "Ready", suspended[u], counter, priority)
    BY <1>5 DEF Wake
  <2>2. QED
    BY <1>5, <2>1, OneThreadType DEF Wake, TypeInv, TypeOK
<1>6. QED
  BY <1>1, <1>2, <1>3, <1>4, <1>5 DEF Call

LEMMA NextType == TypeInv /\ [Next]_vars => TypeInv'
<1>1. ASSUME TypeInv, Next PROVE TypeInv'
  BY <1>1, EngineType, ThreadType, CallType DEF Next
<1>2. ASSUME TypeInv, UNCHANGED vars PROVE TypeInv'
  BY <1>2 DEF vars, TypeInv, TypeOK, ReadyCreated, InAnyList
<1>3. QED
  BY <1>1, <1>2

(* Every variable of the scheduler keeps its type; the ready list holds       *)
(* threads that were created, so that Head(ready) can always be run.         *)
THEOREM TypeCorrect == Spec => []TypeOK
<1>1. Init => TypeInv
  BY InitType
<1>2. TypeInv /\ [Next]_vars => TypeInv'
  BY NextType
<1>3. TypeInv => TypeOK
  BY DEF TypeInv
<1>4. QED
  BY <1>1, <1>2, <1>3, PTL DEF Spec

-----------------------------------------------------------------------------
(* Counters.                                                                *)

(* What the context switches of one call of ScheduleThreads may cost.       *)
LEMMA CostBounds ==
    /\ MaxContextSwitch * Window \in Nat
    /\ \A n \in 0..MaxContextSwitch :
           /\ (MaxContextSwitch - n) * Window \in Nat
           /\ (MaxContextSwitch - n) * Window <= MaxContextSwitch * Window
    /\ \A n \in 1..MaxContextSwitch :
           (MaxContextSwitch - (n - 1)) * Window = (MaxContextSwitch - n) * Window + Window
    /\ (MaxContextSwitch - 0) * Window = MaxContextSwitch * Window
    /\ (MaxContextSwitch - MaxContextSwitch) * Window = 0
    /\ MaxContextSwitch * Window <= CounterAdjustment
    /\ CounterAdjustment + Window <= CounterMaximum
<1>1. Window \in Nat /\ MaxContextSwitch \in Nat
  BY WindowType, SchedulerAssumption
<1>2. PICK w \in Nat : w = Window
  BY <1>1
<1>3. MaxContextSwitch * w \in Nat
  BY <1>1
<1>4. ASSUME NEW n \in 0..MaxContextSwitch
      PROVE  /\ (MaxContextSwitch - n) * w \in Nat
             /\ (MaxContextSwitch - n) * w <= MaxContextSwitch * w
  <2>1. MaxContextSwitch - n \in Nat /\ n \in Nat
    BY <1>1
  <2>2. (MaxContextSwitch - n) * w \in Nat /\ n * w \in Nat
    BY <2>1
  <2>3. MaxContextSwitch * w = (MaxContextSwitch - n) * w + n * w
    BY <1>1, <2>1
  <2>4. QED
    BY <1>3, <2>2, <2>3
<1>5. ASSUME NEW n \in 1..MaxContextSwitch
      PROVE  (MaxContextSwitch - (n - 1)) * w = (MaxContextSwitch - n) * w + w
  BY <1>1
<1>6. (MaxContextSwitch - 0) * w = MaxContextSwitch * w
      /\ (MaxContextSwitch - MaxContextSwitch) * w = 0
  BY <1>1
<1>7. 2 ^ SystemHighest \in Nat /\ w = 2 ^ SystemHighest + 1
  BY <1>2, SchedulerAssumption, PowersAssumption DEF Window
<1>8. MaxContextSwitch * w <= CounterAdjustment
  BY <1>7, SchedulerAssumption
<1>9. CounterAdjustment + w <= CounterMaximum
  <2>1. CounterAdjustment + 2 ^ SystemHighest + 1 <= CounterMaximum
    BY SchedulerAssumption
  <2>2. QED
    BY <1>7, <2>1, SchedulerAssumption
<1>10. QED
  BY <1>2, <1>3, <1>4, <1>5, <1>6, <1>8, <1>9

LEMMA EnterCounters ==
    ASSUME CounterInv, EnterScheduleThreads
    PROVE  CounterInv'
<1>1. TypeInv'
  BY EngineType DEF Engine, CounterInv
<1>2. /\ counter \in [Threads -> Int] /\ global \in Int
      /\ CounterMaximum \in Nat /\ CounterAdjustment \in Nat
  BY SchedulerAssumption DEF CounterInv, TypeInv, TypeOK
<1>3. PICK cost \in Nat : cost = MaxContextSwitch * Window
  BY CostBounds
<1>4. PICK w \in Nat : w = Window
  BY WindowType
<1>5. /\ cost <= CounterAdjustment /\ CounterAdjustment + w <= CounterMaximum
      /\ (MaxContextSwitch - 0) * Window = cost
      /\ (MaxContextSwitch - MaxContextSwitch) * Window = 0
  BY <1>3, <1>4, CostBounds
<1>6. /\ switches = 0 /\ switches' = MaxContextSwitch
      /\ UNCHANGED <<status, suspended, ready, priority, current>>
  BY DEF EnterScheduleThreads
<1>7. global >= -(CounterMaximum + cost) /\ global <= 0
  BY <1>5, <1>6 DEF CounterInv, GlobalBounded
<1>8. CASE global < -CounterMaximum
  <2>1. /\ global' = global + CounterAdjustment
        /\ counter' = AdjustExecutionCounter(InAnyList, global')
    BY <1>2, <1>8 DEF EnterScheduleThreads
  <2>2. /\ global' \in Int /\ global' >= -CounterMaximum /\ global' + w <= 0
        /\ global' <= 0
    BY <1>2, <1>5, <1>7, <1>8, <2>1
  <2>3. ASSUME NEW t \in Threads
        PROVE  /\ counter'[t] >= global' - 1 /\ counter'[t] <= 0
               /\ t \in Managed /\ status[t] = "Unstarted" => counter'[t] = 0
    <3>1. counter[t] \in Int /\ counter[t] >= global - 1 /\ counter[t] <= 0
      BY <1>2 DEF CounterInv, GlobalIsLowest, CountersBelowZero
    <3>2. CASE t \in InAnyList
      <4>1. counter'[t] = BringToDate(counter[t] + CounterAdjustment, global')
        BY <2>1, <3>2 DEF AdjustExecutionCounter
      <4>2. PICK c \in Int : c = counter[t] + CounterAdjustment
        BY <1>2, <3>1
      <4>3. c >= global' - 1
        BY <1>2, <2>1, <3>1, <4>2
      <4>4. /\ BringToDate(c, global') \in Int
            /\ BringToDate(c, global') <= global' + w
            /\ BringToDate(c, global') >= global' - 1
        BY <1>4, <2>2, <4>3, BringToDateType
      <4>5. ~(t \in Managed /\ status[t] = "Unstarted")
        BY <3>2 DEF InAnyList
      <4>6. PICK d \in Int : d = BringToDate(c, global')
        BY <4>4
      <4>7. counter'[t] = d /\ d <= global' + w /\ d >= global' - 1
        BY <4>1, <4>2, <4>4, <4>6
      <4>8. d <= 0
        <5>1. PICK g \in Int : g = global' /\ g + w <= 0
          BY <2>2
        <5>2. d <= g + w
          BY <4>7, <5>1
        <5>3. g + w <= 0
          BY <5>1
        <5>4. QED
          BY <5>2, <5>3
      <4>9. QED
        BY <4>5, <4>7, <4>8
    <3>3. CASE t \notin InAnyList
      <4>1. counter'[t] = counter[t]
        BY <2>1, <3>3 DEF AdjustExecutionCounter
      <4>2. t \in Managed /\ status[t] = "Unstarted"
        BY <3>3 DEF InAnyList
      <4>3. counter[t] = 0
        BY <4>2 DEF CounterInv, NewAreUnpaid
      <4>4. counter'[t] = 0
        BY <4>1, <4>3
      <4>5. PICK g \in Int : g = global' /\ g + w <= 0
        BY <2>2
      <4>6. g + w <= 0
        BY <4>5
      <4>7. 0 >= g - 1 /\ 0 <= 0
        BY <4>6
      <4>8. QED
        BY <4>4, <4>5, <4>7, Zenon
    <3>4. QED
      BY <3>2, <3>3
  <2>4. GlobalBounded'
    BY <1>2, <1>5, <1>6, <2>2 DEF GlobalBounded, Window
  <2>5. QED
    BY <1>1, <1>6, <2>3, <2>4 DEF CounterInv, NewAreUnpaid, CountersBelowZero,
                                  GlobalIsLowest, Managed
<1>9. CASE ~(global < -CounterMaximum)
  <2>1. UNCHANGED <<global, counter>>
    BY <1>9 DEF EnterScheduleThreads
  <2>2. GlobalBounded'
    BY <1>2, <1>5, <1>6, <1>7, <1>9, <2>1 DEF GlobalBounded, Window
  <2>3. QED
    BY <1>1, <1>6, <2>1, <2>2 DEF CounterInv, NewAreUnpaid, CountersBelowZero, GlobalIsLowest
<1>10. QED
  BY <1>8, <1>9

LEMMA ScheduleCounters ==
    ASSUME CounterInv, Schedule
    PROVE  CounterInv'
<1>1. TypeInv'
  BY EngineType DEF Engine, CounterInv
<1>2. /\ counter \in [Threads -> Int] /\ global \in Int /\ priority \in [Threads -> Priorities]
      /\ switches \in 1..MaxContextSwitch /\ CounterMaximum \in Nat
  BY SchedulerAssumption DEF CounterInv, TypeInv, TypeOK, Schedule
<1>3. Head(ready) \in InAnyList
  BY DEF Schedule, CounterInv, TypeInv, ReadyCreated
<1>4. PICK t \in InAnyList : t = Head(ready)
  BY <1>3
<1>5. t \in Threads /\ ~(t \in Managed /\ status[t] = "Unstarted")
  BY DEF InAnyList
<1>6. counter[t] \in Int /\ counter[t] >= global - 1 /\ counter[t] <= 0
  BY <1>2, <1>5 DEF CounterInv, GlobalIsLowest, CountersBelowZero
<1>7. PICK w \in Nat : w = Window
  BY WindowType
<1>8. \E d \in Int : /\ d = BringToDate(counter[t], global) - QuantumDebit(priority[t])
                     /\ d <= 0 /\ d >= global - w
  <2>1. priority[t] \in Priorities
    BY <1>2, <1>5
  <2>2. PICK c \in Int, p \in Priorities : c = counter[t] /\ p = priority[t]
    BY <1>6, <2>1
  <2>3. /\ BringToDate(c, global) - QuantumDebit(p) \in Int
        /\ BringToDate(c, global) - QuantumDebit(p) <= c
        /\ c >= global - 1 => BringToDate(c, global) - QuantumDebit(p) >= global - w
    BY <1>2, <1>7, PaidType
  <2>4. PICK d \in Int : d = BringToDate(c, global) - QuantumDebit(p)
    BY <2>3
  <2>5. d <= 0 /\ d >= global - w
    BY <1>2, <1>6, <2>2, <2>3, <2>4
  <2>6. QED
    BY <2>2, <2>4, <2>5
<1>9. PICK d \in Int : /\ d = BringToDate(counter[t], global) - QuantumDebit(priority[t])
                       /\ d <= 0 /\ d >= global - w
  BY <1>8
<1>10. /\ counter' = [counter EXCEPT ![t] = d]
       /\ global' = IF d < global THEN d ELSE global
       /\ switches' = switches - 1
       /\ UNCHANGED <<status, suspended, ready, priority>>
  BY <1>4, <1>9 DEF Schedule
<1>11. \A u \in Threads : counter'[u] = IF u = t THEN d ELSE counter[u]
  BY <1>2, <1>10
<1>12. global' \in Int /\ global' <= global /\ global' <= d /\ global' >= global - w
  BY <1>2, <1>9, <1>10
<1>13. CountersBelowZero' /\ NewAreUnpaid'
  BY <1>2, <1>5, <1>9, <1>10, <1>11 DEF CounterInv, CountersBelowZero, NewAreUnpaid, Managed
<1>14. GlobalIsLowest'
  <2>1. ASSUME NEW u \in Threads PROVE counter'[u] >= global' - 1
    <3>1. counter[u] \in Int /\ counter[u] >= global - 1
      BY <1>2 DEF CounterInv, GlobalIsLowest
    <3>2. QED
      BY <1>2, <1>9, <1>11, <1>12, <3>1
  <2>2. QED
    BY <2>1 DEF GlobalIsLowest
<1>15. GlobalBounded'
  <2>1. PICK n \in 1..MaxContextSwitch : n = switches
    BY <1>2
  <2>2. (MaxContextSwitch - (n - 1)) * Window = (MaxContextSwitch - n) * Window + w
    BY <1>7, CostBounds
  <2>3. (MaxContextSwitch - n) * Window \in Nat
    BY CostBounds
  <2>4. PICK cost \in Nat : cost = (MaxContextSwitch - n) * Window
    BY <2>3
  <2>5. global <= 0 /\ global >= -(CounterMaximum + cost)
    BY <2>1, <2>4 DEF CounterInv, GlobalBounded
  <2>6. (MaxContextSwitch - switches') * Window = cost + w
    BY <1>10, <2>1, <2>2, <2>4
  <2>7. global' <= 0 /\ global' >= -(CounterMaximum + (cost + w))
    BY <1>2, <1>12, <2>5
  <2>8. QED
    BY <2>6, <2>7 DEF GlobalBounded, Window
<1>16. QED
  BY <1>1, <1>13, <1>14, <1>15 DEF CounterInv

LEMMA NoReadyCounters ==
    ASSUME CounterInv, NoReadyThreads
    PROVE  CounterInv'
<1>1. TypeInv'
  BY EngineType DEF Engine, CounterInv
<1>2. /\ switches' = 0 /\ switches \in 0..MaxContextSwitch
      /\ UNCHANGED <<status, counter, global>>
      /\ global \in Int /\ CounterMaximum \in Nat
  BY SchedulerAssumption DEF NoReadyThreads, CounterInv, TypeInv, TypeOK
<1>3. PICK cost \in Nat : cost = (MaxContextSwitch - switches) * Window
  BY <1>2, CostBounds
<1>4. PICK most \in Nat : most = MaxContextSwitch * Window
  BY CostBounds
<1>5. cost <= most /\ (MaxContextSwitch - 0) * Window = most
  BY <1>2, <1>3, <1>4, CostBounds
<1>6. global <= 0 /\ global >= -(CounterMaximum + cost)
  BY <1>3 DEF CounterInv, GlobalBounded
<1>7. global' >= -(CounterMaximum + most)
  BY <1>2, <1>5, <1>6
<1>8. GlobalBounded'
  BY <1>2, <1>5, <1>6, <1>7 DEF GlobalBounded, Window
<1>9. QED
  BY <1>1, <1>2, <1>8 DEF CounterInv, NewAreUnpaid, CountersBelowZero, GlobalIsLowest

(* The other actions leave the global counter and the switches alone, and     *)
(* change the counter of at most one thread, which then exists or is new.     *)
LEMMA OneCounter ==
    ASSUME CounterInv, TypeInv', UNCHANGED <<global, switches>>,
           NEW t \in Threads, NEW s \in Statuses, NEW susp, NEW count, NEW prio,
           PutInProperList(t, s, susp, count, prio),
           t \in SystemThreads \/ s # "Unstarted",
           NEW c \in Int, c <= 0, c >= global - 1,
           counter' = [counter EXCEPT ![t] = c]
    PROVE  CounterInv'
<1>1. counter \in [Threads -> Int] /\ global \in Int /\ status \in [Threads -> Statuses]
  BY DEF CounterInv, TypeInv, TypeOK, Statuses
<1>2. status' = [status EXCEPT ![t] = s]
  BY DEF PutInProperList
<1>3. GlobalBounded'
  BY DEF CounterInv, GlobalBounded, Window
<1>4. NewAreUnpaid'
  BY <1>1, <1>2 DEF CounterInv, NewAreUnpaid, Managed
<1>5. CountersBelowZero' /\ GlobalIsLowest'
  BY <1>1 DEF CounterInv, CountersBelowZero, GlobalIsLowest
<1>6. QED
  BY <1>3, <1>4, <1>5 DEF CounterInv

LEMMA OneList ==
    ASSUME CounterInv, TypeInv', UNCHANGED <<global, switches, counter>>,
           NEW t \in Threads, NEW s \in Statuses, NEW susp, NEW count, NEW prio,
           PutInProperList(t, s, susp, count, prio),
           t \in SystemThreads \/ s # "Unstarted"
    PROVE  CounterInv'
<1>1. counter \in [Threads -> Int] /\ status \in [Threads -> Statuses]
  BY DEF CounterInv, TypeInv, TypeOK, Statuses
<1>2. counter[t] \in Int /\ counter[t] <= 0 /\ counter[t] >= global - 1
  BY <1>1 DEF CounterInv, CountersBelowZero, GlobalIsLowest
<1>3. PICK c \in Int : c = counter[t]
  BY <1>2
<1>4. counter' = [counter EXCEPT ![t] = c]
  BY <1>1, <1>3
<1>5. QED
  BY <1>2, <1>3, <1>4, OneCounter

LEMMA ThreadCounters ==
    ASSUME CounterInv, NEW t \in Threads,
           Awaken(t) \/ SpawnSystem(t) \/ EndOfQuantum(t)
    PROVE  CounterInv'
<1> USE DEF Statuses
<1>1. TypeInv'
  BY ThreadType DEF CounterInv
<1>2. CASE Awaken(t)
  <2>1. PutInProperList(t, "Ready", suspended[t], counter, priority)
    BY <1>2 DEF Awaken
  <2>2. QED
    BY <1>1, <1>2, <2>1, OneList DEF Awaken
<1>3. CASE SpawnSystem(t)
  <2>1. PutInProperList(t, "Ready", FALSE, counter, priority)
    BY <1>3 DEF SpawnSystem
  <2>2. QED
    BY <1>1, <1>3, <2>1, OneList DEF SpawnSystem
<1>4. CASE QuantumExpired(t)
  <2>1. PutInProperList(t, "Ready", suspended[t], counter, priority)
    BY <1>4 DEF QuantumExpired
  <2>2. QED
    BY <1>1, <1>4, <2>1, OneList DEF QuantumExpired
<1>5. CASE SleepZero(t)
  <2>1. PutInProperList(t, "Ready", suspended[t], counter', priority)
    BY <1>5 DEF SleepZero
  <2>2. global \in Int /\ global <= 0
    BY DEF CounterInv, TypeInv, TypeOK, GlobalBounded
  <2>3. PICK c \in Int : c = global - 1
    BY <2>2
  <2>4. c <= 0 /\ c >= global - 1
    BY <2>2, <2>3
  <2>5. counter' = [counter EXCEPT ![t] = c]
    BY <1>5, <2>3 DEF SleepZero
  <2>6. QED
    BY <1>1, <1>5, <2>1, <2>4, <2>5, OneCounter DEF SleepZero
<1>6. CASE Wait(t)
  <2>1. PutInProperList(t, "Waiting", suspended[t], counter, priority)
    BY <1>6 DEF Wait
  <2>2. QED
    BY <1>1, <1>6, <2>1, OneList DEF Wait
<1>7. CASE Exit(t)
  <2>1. CASE t \in SystemThreads
    <3>1. PutInProperList(t, "Unstarted", FALSE, counter, priority)
      BY <1>7, <2>1 DEF Exit
    <3>2. QED
      BY <1>1, <1>7, <2>1, <3>1, OneList DEF Exit
  <2>2. CASE t \notin SystemThreads
    <3>1. PutInProperList(t, "Terminated", FALSE, counter, priority)
      BY <1>7, <2>2 DEF Exit
    <3>2. QED
      BY <1>1, <1>7, <3>1, OneList DEF Exit
  <2>3. QED
    BY <2>1, <2>2
<1>8. QED
  BY <1>2, <1>3, <1>4, <1>5, <1>6, <1>7 DEF EndOfQuantum

LEMMA CallCounters ==
    ASSUME CounterInv, NEW t \in Threads, Call(t)
    PROVE  CounterInv'
<1> USE DEF Statuses
<1>1. TypeInv'
  BY CallType DEF CounterInv
<1>2. ASSUME NEW u \in Threads, NEW p \in ManagedPriorities, Start(t, u, p)
      PROVE  CounterInv'
  <2>1. PutInProperList(u, "Ready", FALSE, counter', priority')
    BY <1>2 DEF Start
  <2>2. global \in Int /\ global <= 0
    BY DEF CounterInv, TypeInv, TypeOK, GlobalBounded
  <2>3. PICK c \in Int : c = 0
    OBVIOUS
  <2>4. counter' = [counter EXCEPT ![u] = c] /\ UNCHANGED <<global, switches>>
    BY <1>2, <2>3 DEF Start
  <2>5. c <= 0 /\ c >= global - 1
    BY <2>2, <2>3
  <2>6. QED
    BY <1>1, <2>1, <2>4, <2>5, OneCounter
<1>3. ASSUME NEW u \in Threads, NEW p \in ManagedPriorities, SetPriority(t, u, p)
      PROVE  CounterInv'
  <2>1. CASE PutInProperList(t, "Ready", suspended[t], counter, priority')
    BY <1>1, <1>3, <2>1, OneList DEF SetPriority
  <2>2. CASE UNCHANGED <<status, ready, current>>
    BY <1>1, <1>3, <2>2 DEF SetPriority, CounterInv, GlobalBounded, NewAreUnpaid,
                            CountersBelowZero, GlobalIsLowest, Window
  <2>3. QED
    BY <1>3, <2>1, <2>2 DEF SetPriority
<1>4. ASSUME NEW u \in Threads, Suspend(t, u)
      PROVE  CounterInv'
  <2>1. PICK s \in {"Ready", "Waiting"} : s = status[u]
    BY <1>4 DEF Suspend
  <2>2. PutInProperList(u, s, TRUE, counter, priority)
    BY <1>4, <2>1 DEF Suspend
  <2>3. QED
    BY <1>1, <1>4, <2>2, OneList DEF Suspend
<1>5. ASSUME NEW u \in Threads, Resume(t, u)
      PROVE  CounterInv'
  <2>1. PICK s \in {"Ready", "Waiting"} : s = status[u]
    BY <1>5 DEF Resume
  <2>2. PutInProperList(u, s, FALSE, counter, priority)
    BY <1>5, <2>1 DEF Resume
  <2>3. QED
    BY <1>1, <1>5, <2>2, OneList DEF Resume
<1>6. ASSUME NEW u \in Threads, Wake(t, u)
      PROVE  CounterInv'
  <2>1. PutInProperList(u, "Ready", suspended[u], counter, priority)
    BY <1>6 DEF Wake
  <2>2. QED
    BY <1>1, <1>6, <2>1, OneList DEF Wake
<1>7. QED
  BY <1>2, <1>3, <1>4, <1>5, <1>6 DEF Call

LEMMA NextCounters == CounterInv /\ [Next]_vars => CounterInv'
<1>1. ASSUME CounterInv, Next PROVE CounterInv'
  BY <1>1, EnterCounters, ScheduleCounters, NoReadyCounters, ThreadCounters, CallCounters
     DEF Next, Engine
<1>2. ASSUME CounterInv, UNCHANGED vars PROVE CounterInv'
  <2>1. TypeInv'
    BY <1>2, NextType DEF CounterInv
  <2>2. QED
    BY <1>2, <2>1 DEF vars, CounterInv, GlobalBounded, NewAreUnpaid, CountersBelowZero,
                      GlobalIsLowest, Window
<1>3. QED
  BY <1>1, <1>2

LEMMA InitCounters == Init => CounterInv
<1>1. ASSUME Init PROVE GlobalBounded
  <2>1. (MaxContextSwitch - 0) * Window \in Nat /\ CounterMaximum \in Nat
    BY CostBounds, SchedulerAssumption
  <2>2. PICK cost \in Nat : cost = (MaxContextSwitch - 0) * Window
    BY <2>1
  <2>3. 0 >= -(CounterMaximum + cost)
    BY <2>1
  <2>4. QED
    BY <1>1, <2>2, <2>3 DEF Init, GlobalBounded
<1>2. ASSUME Init PROVE NewAreUnpaid /\ CountersBelowZero /\ GlobalIsLowest
  BY <1>2 DEF Init, NewAreUnpaid, CountersBelowZero, GlobalIsLowest, Managed
<1>3. QED
  BY <1>1, <1>2, InitType DEF CounterInv

(* m_GlobalExecutionCounter stays a lower bound of all execution counters    *)
(* through every wake-up, Sleep(0), adjustment and creation.                 *)
THEOREM GlobalIsLowestCorrect == Spec => []GlobalIsLowest
<1>1. Init => CounterInv
  BY InitCounters
<1>2. CounterInv /\ [Next]_vars => CounterInv'
  BY NextCounters
<1>3. CounterInv => GlobalIsLowest
  BY DEF CounterInv
<1>4. QED
  BY <1>1, <1>2, <1>3, PTL DEF Spec

LEMMA CounterInvRange == CounterInv => CountersInRange
<1>1. SUFFICES ASSUME CounterInv, NEW t \in Threads
               PROVE  counter[t] \in -(CounterMaximum + MaxContextSwitch * Window + 1) .. 0
  BY DEF CountersInRange
<1>2. /\ counter[t] \in Int /\ global \in Int /\ switches \in 0..MaxContextSwitch
      /\ CounterMaximum \in Nat
  BY <1>1, SchedulerAssumption DEF CounterInv, TypeInv, TypeOK
<1>3. PICK cost \in Nat : cost = (MaxContextSwitch - switches) * Window
  BY <1>2, CostBounds
<1>4. PICK most \in Nat : most = MaxContextSwitch * Window
  BY CostBounds
<1>5. cost <= most
  BY <1>2, <1>3, <1>4, CostBounds
<1>6. global >= -(CounterMaximum + cost)
  BY <1>1, <1>3 DEF CounterInv, GlobalBounded
<1>7. counter[t] >= global - 1 /\ counter[t] <= 0
  BY <1>1 DEF CounterInv, GlobalIsLowest, CountersBelowZero
<1>8. PICK c \in Int : c = counter[t]
  BY <1>2
<1>9. c \in -(CounterMaximum + most + 1) .. 0
  BY <1>2, <1>5, <1>6, <1>7, <1>8
<1>10. QED
  BY <1>4, <1>8, <1>9

(* For thresholds that leave room for the adjustment and for one call's       *)
(* context switches, no execution counter ever leaves its range: with the     *)
(* code's 0x70000000 and 0x60000000 the int counters do not overflow.        *)
THEOREM CountersInRangeCorrect == Spec => []CountersInRange
<1>1. Init => CounterInv
  BY InitCounters
<1>2. CounterInv /\ [Next]_vars => CounterInv'
  BY NextCounters
<1>3. CounterInv => CountersInRange
  BY CounterInvRange
<1>4. QED
  BY <1>1, <1>2, <1>3, PTL DEF Spec

-----------------------------------------------------------------------------
(* The ready list.                                                          *)

(* PutInProperList unlinks the thread first: it is in the list once or not at  *)
(* all, as its status and its suspension say, and the others stay.            *)
LEMMA PutListed ==
    ASSUME ready \in Seq(Threads), status \in [Threads -> Statuses], ReadyListed,
           NEW t \in Threads, NEW s \in Statuses, NEW susp \in BOOLEAN, NEW count, NEW prio,
           PutInProperList(t, s, susp, count, prio),
           suspended'[t] = susp, \A u \in Threads : u # t => suspended'[u] = suspended[u]
    PROVE  ReadyListed'
<1> DEFINE q == Unlink(ready, t)
<1>1. /\ q \in Seq(Threads) /\ IsInjective(q)
      /\ \A u : Contains(q, u) <=> Contains(ready, u) /\ u # t
  BY UnlinkFacts DEF ReadyListed
<1>2. \A u \in Threads : Contains(ready, u) <=> status[u] = "Ready" /\ ~suspended[u]
  BY DEF ReadyListed, Linked
<1>3. \A u \in Threads : status'[u] = IF u = t THEN s ELSE status[u]
  BY DEF PutInProperList
<1>4. CASE s = "Ready" /\ ~susp
  <2>1. PICK k \in 1..(Len(q) + 1) : ready' = InsertAt(q, k, t)
    BY <1>4 DEF PutInProperList, InsertThreadRoundRobin
  <2> HIDE DEF q
  <2>2. ~Contains(q, t)
    BY <1>1
  <2>3. IsInjective(ready') /\ \A u : Contains(ready', u) <=> Contains(q, u) \/ u = t
    BY <1>1, <2>1, <2>2, InsertAtFacts
  <2> QED
    BY <1>1, <1>2, <1>3, <1>4, <2>3 DEF ReadyListed, Linked
<1>5. CASE ~(s = "Ready" /\ ~susp)
  <2>1. ready' = q
    BY <1>5 DEF PutInProperList
  <2> QED
    BY <1>1, <1>2, <1>3, <1>5, <2>1 DEF ReadyListed, Linked
<1> QED
  BY <1>4, <1>5

(* The same of the suspensions.                                              *)
LEMMA PutSuspended ==
    ASSUME status \in [Threads -> Statuses], SuspendedStarted,
           NEW t \in Threads, NEW s \in Statuses, NEW susp \in BOOLEAN, NEW count, NEW prio,
           PutInProperList(t, s, susp, count, prio),
           susp => s \in {"Ready", "Waiting"},
           suspended'[t] = susp, \A u \in Threads : u # t => suspended'[u] = suspended[u]
    PROVE  SuspendedStarted'
<1>1. \A u \in Threads : status'[u] = IF u = t THEN s ELSE status[u]
  BY DEF PutInProperList
<1> QED
  BY <1>1 DEF SuspendedStarted

LEMMA PutReady ==
    ASSUME ReadyInv, TypeInv', NEW t \in Threads, NEW s \in Statuses, NEW susp \in BOOLEAN,
           NEW count, NEW prio,
           PutInProperList(t, s, susp, count, prio),
           susp => s \in {"Ready", "Waiting"},
           suspended' = [suspended EXCEPT ![t] = susp]
    PROVE  ReadyInv'
<1>1. ready \in Seq(Threads) /\ status \in [Threads -> Statuses] /\ suspended \in [Threads -> BOOLEAN]
  BY DEF ReadyInv, TypeInv, TypeOK, Statuses
<1>2. suspended'[t] = susp /\ \A u \in Threads : u # t => suspended'[u] = suspended[u]
  BY <1>1
<1>3. ReadyListed' /\ SuspendedStarted'
  BY <1>1, <1>2, PutListed, PutSuspended DEF ReadyInv
<1> QED
  BY <1>3 DEF ReadyInv

(* The suspension of a thread that is only moved stays what it was.            *)
LEMMA MoveReady ==
    ASSUME ReadyInv, TypeInv', UNCHANGED suspended, NEW t \in Threads,
           NEW s \in {"Ready", "Waiting"}, NEW count, NEW prio,
           PutInProperList(t, s, suspended[t], count, prio)
    PROVE  ReadyInv'
<1>1. suspended \in [Threads -> BOOLEAN]
  BY DEF ReadyInv, TypeInv, TypeOK
<1>2. PICK susp \in BOOLEAN : susp = suspended[t]
  BY <1>1
<1>3. suspended' = [suspended EXCEPT ![t] = susp]
  BY <1>1, <1>2
<1>4. PutInProperList(t, s, susp, count, prio) /\ s \in Statuses
  BY <1>2 DEF Statuses
<1> QED
  BY <1>3, <1>4, PutReady

LEMMA ThreadReady ==
    ASSUME ReadyInv, NEW t \in Threads,
           Awaken(t) \/ SpawnSystem(t) \/ EndOfQuantum(t)
    PROVE  ReadyInv'
<1>1. TypeInv'
  BY ThreadType DEF ReadyInv
<1>2. suspended \in [Threads -> BOOLEAN]
  BY DEF ReadyInv, TypeInv, TypeOK
<1>3. CASE Awaken(t)
  BY <1>1, <1>3, MoveReady DEF Awaken
<1>4. CASE SpawnSystem(t)
  <2>1. PutInProperList(t, "Ready", FALSE, counter, priority)
    BY <1>4 DEF SpawnSystem
  <2>2. ~suspended[t]
    BY <1>4 DEF SpawnSystem, ReadyInv, SuspendedStarted
  <2>3. suspended' = [suspended EXCEPT ![t] = FALSE]
    BY <1>2, <1>4, <2>2 DEF SpawnSystem
  <2> QED
    BY <1>1, <2>1, <2>3, PutReady DEF Statuses
<1>5. CASE QuantumExpired(t)
  BY <1>1, <1>5, MoveReady DEF QuantumExpired
<1>6. CASE SleepZero(t)
  BY <1>1, <1>6, MoveReady DEF SleepZero
<1>7. CASE Wait(t)
  BY <1>1, <1>7, MoveReady DEF Wait
<1>8. CASE Exit(t)
  <2>1. PICK s \in {"Unstarted", "Terminated"} : PutInProperList(t, s, FALSE, counter, priority)
    BY <1>8 DEF Exit
  <2> QED
    BY <1>1, <1>8, <2>1, PutReady DEF Exit, Statuses
<1> QED
  BY <1>3, <1>4, <1>5, <1>6, <1>7, <1>8 DEF EndOfQuantum

LEMMA CallReady ==
    ASSUME ReadyInv, NEW t \in Threads, Call(t)
    PROVE  ReadyInv'
<1>1. TypeInv'
  BY CallType DEF ReadyInv
<1>2. suspended \in [Threads -> BOOLEAN]
  BY DEF ReadyInv, TypeInv, TypeOK
<1>3. ASSUME NEW u \in Threads, NEW p \in ManagedPriorities, Start(t, u, p)
      PROVE  ReadyInv'
  <2>1. PutInProperList(u, "Ready", FALSE, counter', priority')
    BY <1>3 DEF Start
  <2>2. ~suspended[u]
    BY <1>3 DEF Start, ReadyInv, SuspendedStarted
  <2>3. suspended' = [suspended EXCEPT ![u] = FALSE]
    BY <1>2, <1>3, <2>2 DEF Start
  <2> QED
    BY <1>1, <2>1, <2>3, PutReady DEF Statuses
<1>4. ASSUME NEW u \in Threads, NEW p \in ManagedPriorities, SetPriority(t, u, p)
      PROVE  ReadyInv'
  <2>1. CASE PutInProperList(t, "Ready", suspended[t], counter, priority')
    BY <1>1, <1>4, <2>1, MoveReady DEF SetPriority
  <2>2. CASE UNCHANGED <<status, ready, current>>
    BY <1>1, <1>4, <2>2 DEF SetPriority, ReadyInv, ReadyListed, SuspendedStarted, Linked
  <2> QED
    BY <1>4, <2>1, <2>2 DEF SetPriority
<1>5. ASSUME NEW u \in Threads, Suspend(t, u)
      PROVE  ReadyInv'
  <2>1. PICK s \in {"Ready", "Waiting"} : s = status[u]
    BY <1>5 DEF Suspend
  <2>2. /\ PutInProperList(u, s, TRUE, counter, priority) /\ s \in Statuses
        /\ suspended' = [suspended EXCEPT ![u] = TRUE]
    BY <1>5, <2>1 DEF Suspend, Statuses
  <2> QED
    BY <1>1, <2>1, <2>2, PutReady
<1>6. ASSUME NEW u \in Threads, Resume(t, u)
      PROVE  ReadyInv'
  <2>1. PICK s \in {"Ready", "Waiting"} : s = status[u]
    BY <1>6 DEF Resume
  <2>2. /\ PutInProperList(u, s, FALSE, counter, priority) /\ s \in Statuses
        /\ suspended' = [suspended EXCEPT ![u] = FALSE]
    BY <1>6, <2>1 DEF Resume, Statuses
  <2> QED
    BY <1>1, <2>1, <2>2, PutReady
<1>7. ASSUME NEW u \in Threads, Wake(t, u)
      PROVE  ReadyInv'
  BY <1>1, <1>7, MoveReady DEF Wake
<1> QED
  BY <1>3, <1>4, <1>5, <1>6, <1>7 DEF Call

LEMMA NextReady == ReadyInv /\ [Next]_vars => ReadyInv'
<1> SUFFICES ASSUME ReadyInv, [Next]_vars
             PROVE  ReadyInv'
  OBVIOUS
<1>1. TypeInv'
  BY NextType DEF ReadyInv
<1>2. CASE Engine \/ UNCHANGED vars
  <2>1. UNCHANGED <<status, suspended, ready>>
    BY <1>2 DEF Engine, EnterScheduleThreads, Schedule, NoReadyThreads, vars
  <2> QED
    BY <1>1, <2>1 DEF ReadyInv, ReadyListed, SuspendedStarted, Linked
<1>3. CASE \E t \in Threads : Awaken(t) \/ SpawnSystem(t) \/ EndOfQuantum(t) \/ Call(t)
  BY <1>3, ThreadReady, CallReady
<1> QED
  BY <1>2, <1>3 DEF Next

LEMMA InitReady == Init => ReadyInv
<1> SUFFICES ASSUME Init
             PROVE  ReadyInv
  OBVIOUS
<1>1. TypeInv
  BY InitType
<1>2. ready = <<Main>> /\ Main \in Threads
  BY SchedulerAssumption DEF Init
<1>3. Len(ready) = 1 /\ ready[1] = Main /\ DOMAIN ready = {1} /\ 1..Len(ready) = {1}
  BY <1>2
<1>4. IsInjective(ready) /\ \A t : Contains(ready, t) <=> t = Main
  BY <1>3 DEF IsInjective, Contains
<1>5. \A t \in Threads : ~suspended[t] /\ (status[t] = "Ready" <=> t = Main)
  BY DEF Init
<1> QED
  BY <1>1, <1>4, <1>5 DEF ReadyInv, ReadyListed, SuspendedStarted, Linked

(* The ready list holds each ready thread that is not suspended exactly once  *)
(* and no other, whatever is suspended, resumed, woken, started or ended       *)
(* during a quantum: PutInProperList unlinks a thread before it inserts it.    *)
THEOREM ReadyListedCorrect == Spec => []ReadyListed
<1>1. Init => ReadyInv
  BY InitReady
<1>2. ReadyInv /\ [Next]_vars => ReadyInv'
  BY NextReady
<1>3. ReadyInv => ReadyListed
  BY DEF ReadyInv
<1>4. QED
  BY <1>1, <1>2, <1>3, PTL DEF Spec
=============================================================================
