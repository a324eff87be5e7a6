----------------------------- MODULE Completions -----------------------------
(***************************************************************************)
(* The completions of the platform layer: calls due at a time, in a sorted     *)
(* list of which the first arms the one compare register (a FreeRTOS timer),   *)
(* and the engine that waits for events and runs what the timer leaves to it.  *)
(*                                                                          *)
(* Two tasks: the engine's, and that of the timer, which calls DequeueAndExec. *)
(* Both take the global lock for what is one step here; WaitForInterrupts       *)
(* takes none and is a step for each of its accesses.                        *)
(***************************************************************************)
EXTENDS Integers, Sequences, SequencesExt, Functions, TLC

CONSTANTS
    Calls,     \* the completions
    InIsr,     \* those with ExecuteInISR; the others are left to the engine
    Again,     \* Again[c]: the callback of c enqueues c again this much later; 0: not
    Deltas,    \* how far ahead the program enqueues completions
    Timeouts,  \* how long the engine waits for events
    Scale,     \* units of HAL_Time_CurrentTime in a system tick
    Rounds,    \* how many continuations ProcessActivity runs, 10 in the code
    TailTicks, \* what EnqueueTicks reads behind the list head as EventTimeTicks
    MaxTime,   \* bound on time
    Idle       \* HAL_COMPLETION_IDLE_VALUE

CompletionsAssumption ==
    /\ InIsr \subseteq Calls /\ Again \in [Calls -> Nat]
    /\ Deltas \cup Timeouts \subseteq Nat \ {0} /\ {Scale, Rounds} \subseteq Nat \ {0}
    /\ TailTicks \in Nat /\ MaxTime \in Nat /\ Idle \notin Nat

VARIABLES
    now,       \* HAL_Time_CurrentSysTicks
    list,      \* g_HAL_Completion_List
    due,       \* due[c]: EventTimeTicks
    conts,     \* g_HAL_Continuation_List
    armed,     \* when the timer fires, or Idle
    asked,     \* the completions whose callback the program still waits for
    woken,     \* an event of m_wakeupEvents is set
    pc,        \* where the engine is
    expire,    \* expireTimeInTicks
    more,      \* runContinuations
    round,     \* i of the loop of ProcessActivity
    compare    \* the local state of WaitForInterrupts: which compares it sets

queue == <<list, due, conts, armed, asked, woken>>
engine == <<pc, expire, more, round, compare>>
vars == <<now, queue, engine>>

TypeOK ==
    /\ now \in 0 .. MaxTime
    /\ list \in Seq(Calls) /\ conts \in Seq(Calls)
    /\ due \in [Calls -> Nat]
    /\ armed \in Nat \cup {Idle}
    /\ asked \subseteq Calls /\ woken \in BOOLEAN
    /\ pc \in {"run", "activity", "events", "check", "wait", "set", "sleep"}
    /\ expire \in Nat /\ more \in BOOLEAN /\ round \in 0 .. Rounds
    /\ compare \in {"none", "reset", "nil"}

Init ==
    /\ now = 1 /\ list = <<>> /\ due = [c \in Calls |-> 0] /\ conts = <<>>
    /\ armed = Idle /\ asked = {} /\ woken = FALSE
    /\ pc = "run" /\ expire = 0 /\ more = TRUE /\ round = 0 /\ compare = "none"

-----------------------------------------------------------------------------
(* The lists.  s is a record of list, due, conts, armed, asked and woken.        *)

Queue == [list |-> list, due |-> due, conts |-> conts,
          armed |-> armed, asked |-> asked, woken |-> woken]

Becomes(next) ==
    \E s \in {next} :
        /\ list' = s.list /\ due' = s.due /\ conts' = s.conts
        /\ armed' = s.armed /\ asked' = s.asked /\ woken' = s.woken

(* Unlink: the node leaves whichever list it is in.                            *)
Unlink(s, c) == [s EXCEPT !.list = Remove(@, c), !.conts = Remove(@, c)]

\* Variant: the comparison the other way round.
Sooner(s, t) == SelectInSeq(s.list, LAMBDA d : s.due[d] < t)
(* The first node that is due later than t, or 0.                              *)
Later(s, t) == SelectInSeq(s.list, LAMBDA d : t < s.due[d])

(* InsertBeforeNode, with the node that the search of EnqueueTicks ended with.     *)
(* In a list that is not empty a search without a result goes on to the list      *)
(* head, takes what it reads there for a time, and ends with NULL if that is not   *)
(* later either: then nothing is inserted.                                    *)
Inserted(s, c, t) ==
    LET k == Later(s, t)
        rest == Unlink(s, c)
    IN  CASE k # 0 -> [rest EXCEPT !.list =
                          InsertAt(@, SelectInSeq(@, LAMBDA d : d = s.list[k]), c)]
          [] k = 0 /\ (s.list = <<>> \/ t < TailTicks) -> [rest EXCEPT !.list = Append(@, c)]
          [] OTHER -> s

(* The test of DequeueAndExec: HAL_Time_CurrentTime against EventTimeTicks.       *)
Expired(s, c) == now * Scale >= s.due[c]

(* F of the value of x, which is computed once.                                 *)
Of(x, F(_)) == CHOOSE r \in {F(v) : v \in {x}} : TRUE

RECURSIVE SetCompare(_, _)

\* Variant: the completion that has run arms the timer whatever became of it.
NextCompareIdle(s, c) == Idle
(* What DequeueAndExec arms the timer with after c, which is not in the list any    *)
(* more if it has run: its own time, if it is linked again, anywhere.             *)
NextCompare(s, c) ==
    IF c \in Range(s.list) \/ c \in Range(s.conts) THEN s.due[c] ELSE Idle

\* Variant: the timer is set only for a list that was empty.
OnlyOne(q, c) == q.list = <<c>>
FirstNode(q, c) == q.list # <<>> /\ Head(q.list) = c

(* EnqueueTicks.                                                             *)
EnqueueTicks(s, c, t) ==
    LET timed == [s EXCEPT !.due[c] = t, !.asked = @ \cup {c}]
    IN  Of(Inserted(timed, c, t), LAMBDA q : IF FirstNode(q, c) THEN SetCompare(q, t) ELSE q)

(* The callback of a completion.                                              *)
Callback(s, c) ==
    LET ran == [s EXCEPT !.asked = @ \ {c}]
    IN  IF Again[c] # 0 /\ now + Again[c] <= MaxTime
        THEN EnqueueTicks(ran, c, now + Again[c]) ELSE ran

(* HAL_COMPLETION::Execute.                                                   *)
Execute(s, c) == IF c \in InIsr THEN Callback(s, c) ELSE [s EXCEPT !.conts = Append(@, c)]

DequeueAndExec(s) ==
    IF s.list = <<>> THEN s
    ELSE LET c == Head(s.list)
         IN  Of(IF Expired(s, c) THEN Execute([Unlink(s, c) EXCEPT !.woken = TRUE], c) ELSE s,
                LAMBDA q : SetCompare(q, NextCompare(q, c)))

(* Time_SetCompare: what is due is done at once.                                *)
SetCompare(s, t) ==
    CASE t = Idle -> s
      [] t # Idle /\ now >= t -> DequeueAndExec(s)
      [] OTHER -> [s EXCEPT !.armed = t]

-----------------------------------------------------------------------------
(* The program.                                                              *)

Enqueue(c) ==
    /\ pc = "run"
    /\ \E d \in Deltas :
        /\ now + d <= MaxTime
        /\ Becomes(EnqueueTicks(Queue, c, now + d))
    /\ UNCHANGED <<now, engine>>

(* HAL_COMPLETION::Abort.                                                     *)
Abort(c) ==
    /\ pc = "run" /\ c \in asked
    /\ LET gone == [Unlink(Queue, c) EXCEPT !.asked = @ \ {c}]
       IN  IF FirstNode(Queue, c)
           THEN Becomes(SetCompare(gone, IF gone.list = <<>> THEN Idle
                                         ELSE due[Head(gone.list)]))
           ELSE Becomes(gone)
    /\ UNCHANGED <<now, engine>>

(* ScheduleThreads calls ProcessActivity, or waits until something is up.         *)
ProcessActivity ==
    /\ pc = "run" /\ pc' = "activity"
    /\ UNCHANGED <<now, queue, expire, more, round, compare>>

WaitSystemEvents ==
    /\ pc = "run" /\ pc' = "check"
    /\ \E d \in Timeouts : expire' = now + d
    /\ more' = TRUE
    /\ UNCHANGED <<now, queue, round, compare>>

(* Dequeue_And_Execute, which ProcessActivity repeats while there is something to   *)
(* run and at most Rounds times.  Then it takes the events, and what has been       *)
(* queued meanwhile stays for the next time.                                   *)
DequeueAndExecute(s) == Callback([s EXCEPT !.conts = Tail(@)], Head(s.conts))

Continuation ==
    /\ pc = "activity" /\ conts # <<>> /\ round < Rounds
    /\ Becomes(DequeueAndExecute(Queue))
    /\ round' = round + 1
    /\ UNCHANGED <<now, pc, expire, more, compare>>

NoContinuation ==
    /\ pc = "activity" /\ (conts = <<>> \/ round = Rounds)
    /\ round' = 0 /\ pc' = "events"
    /\ UNCHANGED <<now, queue, expire, more, compare>>

GetEvents ==
    /\ pc = "events"
    /\ woken' = FALSE /\ pc' = "run"
    /\ UNCHANGED <<now, list, due, conts, armed, asked, expire, more, round, compare>>

-----------------------------------------------------------------------------
(* Events_WaitForEvents.                                                      *)

Wakes ==
    /\ pc = "check" /\ (woken \/ expire <= now)
    /\ pc' = "activity" /\ expire' = 0 /\ more' = TRUE
    /\ UNCHANGED <<now, queue, round, compare>>

Waits ==
    /\ pc = "check" /\ ~(woken \/ expire <= now)
    /\ pc' = "wait"
    /\ UNCHANGED <<now, queue, expire, more, round, compare>>

WaitContinuation ==
    /\ pc = "wait" /\ more
    /\ more' = (conts # <<>>)
    /\ IF conts = <<>> THEN UNCHANGED queue ELSE Becomes(DequeueAndExecute(Queue))
    /\ pc' = "check"
    /\ UNCHANGED <<now, expire, round, compare>>

(* WaitForInterrupts: the first completion decides, and it may be gone by the      *)
(* time the compare is set.                                                   *)
WaitForInterrupts ==
    /\ pc = "wait" /\ ~more
    /\ more' = TRUE
    /\ compare' = CASE list = <<>> -> "nil"
                    [] list # <<>> /\ due[Head(list)] > expire -> "reset"
                    [] OTHER -> "none"
    /\ pc' = IF compare' = "none" THEN "sleep" ELSE "set"
    /\ UNCHANGED <<now, queue, expire, round>>

SetForExpiry ==
    /\ pc = "set" /\ pc' = "sleep"
    /\ Becomes(SetCompare(Queue, expire))
    /\ UNCHANGED <<now, expire, more, round, compare>>

(* The compare after CPU_Sleep; with an empty list the time behind the list head.   *)
CompareAfter ==
    CASE compare = "reset" /\ list # <<>> -> due[Head(list)]
      [] compare = "reset" /\ list = <<>> -> TailTicks
      [] OTHER -> Idle

Sleeps ==
    /\ pc = "sleep" /\ pc' = "check"
    /\ Becomes(SetCompare(Queue, CompareAfter))
    /\ compare' = "none"
    /\ UNCHANGED <<now, expire, more, round>>

-----------------------------------------------------------------------------
(* NextEventTimer_Callback: the timer fires once.                              *)
TimerFires ==
    /\ armed # Idle /\ armed <= now
    /\ Becomes(DequeueAndExec([Queue EXCEPT !.armed = Idle]))
    /\ UNCHANGED <<now, engine>>

(* Another interrupt sets an event.                                           *)
Interrupt ==
    /\ ~woken /\ woken' = TRUE
    /\ UNCHANGED <<now, list, due, conts, armed, asked, engine>>

Tick ==
    /\ now < MaxTime /\ now' = now + 1
    /\ UNCHANGED <<queue, engine>>

Engine ==
    \/ ProcessActivity \/ Continuation \/ NoContinuation \/ GetEvents \/ WaitSystemEvents
    \/ Wakes \/ Waits \/ WaitContinuation \/ WaitForInterrupts \/ SetForExpiry \/ Sleeps

Next == Engine \/ TimerFires \/ Interrupt \/ Tick \/ \E c \in Calls : Enqueue(c) \/ Abort(c)

(* The engine's loop and the timer's task go on, the clock too; the engine does     *)
(* not wait for ever without looking after what has happened.                    *)
Fairness ==
    /\ WF_vars(Tick) /\ WF_vars(TimerFires)
    /\ WF_vars(Engine) /\ SF_vars(ProcessActivity)

Spec == Init /\ [][Next]_vars /\ Fairness

-----------------------------------------------------------------------------
(* Properties.                                                              *)

(* The list stays in the order of the times whatever is enqueued, enqueued again   *)
(* with another time, aborted or run while others are; a completion is in at most   *)
(* one place, and in one of the lists exactly as long as its callback is due.       *)
ListSorted ==
    /\ TypeOK
    /\ \A j, k \in DOMAIN list : j < k => due[list[j]] <= due[list[k]]
    /\ IsInjective(list \o conts)
    /\ Range(list \o conts) = asked

(* The timer is never armed for later than the first completion, nor left unarmed   *)
(* while there is one: through insertions in front, repetitions, aborts, the        *)
(* compare the waiting engine borrows and gives back, and completions taken by the   *)
(* 100 ns clock before their tick.                                             *)
ArmedForFirst == list # <<>> => armed # Idle /\ armed <= due[Head(list)]

(* A completion never runs, nor is it left to the engine to run, before its time.    *)
NeverEarly ==
    [][\A c \in Range(list) : c \notin Range(list') => due[c] <= now \/ Abort(c)]_vars

(* Whatever is enqueued runs in the end, unless it is aborted: the timer is always   *)
(* armed for what comes next.                                                 *)
Served == \A c \in Calls : []<>(c \notin asked)
=============================================================================
