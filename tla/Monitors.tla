------------------------------- MODULE Monitors -------------------------------
(***************************************************************************)
(* Object locks (Monitor.Enter / Monitor.Exit) of the execution engine:     *)
(* CLR_RT_HeapBlock_Lock, its owner entries and lock requests, the request  *)
(* counters of threads and subthreads, and every path that wakes, moves,    *)
(* interrupts or ends a thread while locks are held or wanted (Abort,       *)
(* Suspend, Resume, sleep timeouts, execution constraints, termination).    *)
(*                                                                          *)
(* A subthread is a pair <<t, i>>: the i-th element of t's m_subThreads.    *)
(* Managed code runs between scheduler decisions, so an operation of the    *)
(* running thread is one step.  CLR_RT_SubThread::DestroyInstance is a loop *)
(* over lists it changes itself; it is run one iteration per step, and no   *)
(* other step is enabled while it runs (variable walk).                     *)
(***************************************************************************)
EXTENDS Integers, Sequences, FiniteSets, SequencesExt

CONSTANTS
    Threads,        \* every CLR_RT_Thread
    SystemThreads,  \* those with TH_F_System (timer, finalizer, ... threads)
    Objects,        \* the objects used as locks
    MaxSub,         \* bound: nesting of subthreads in a thread
    MaxRecursion,   \* bound: nesting of Enter on one object
    MaxPending,     \* bound: requests a thread may have queued at once
    NoThread, NoWalk

ASSUME MonitorsAssumption ==
    /\ SystemThreads \subseteq Threads
    /\ MaxSub \in Nat \ {0}
    /\ MaxRecursion \in Nat \ {0}
    /\ MaxPending \in Nat \ {0}
    /\ NoThread \notin Threads

VARIABLES
    status,      \* m_status
    list,        \* the engine list the thread is linked in
    suspended,   \* TH_F_Suspended
    exception,   \* m_currentException is set
    hasFrames,   \* m_stackFrames is not empty
    sleeping,    \* m_waitForEvents_Timeout is not TIMEOUT_INFINITE
    entering,    \* <<o, i>>: top frame is Monitor.Enter(o), waiting for <<t, i>>
    subs,        \* length of m_subThreads
    expiries,    \* time constraint of a subthread: 0 armed, 1 triggered, 2 off
    thCount,     \* CLR_RT_Thread::m_lockRequestsCount
    sthCount,    \* CLR_RT_SubThread::m_lockRequestsCount
    owner,       \* m_owningThread of the object's lock; NoThread: no lock
    recursion,   \* m_recursion of a subthread's owner entry; 0: no entry
    requests,    \* m_requests: the subthreads waiting, oldest first
    current,     \* the thread in CLR_RT_Thread::Execute
    walk         \* the DestroyInstance loop in progress

threadVars == <<status, list, suspended, exception, hasFrames, sleeping, entering>>
subVars == <<subs, expiries>>
countVars == <<thCount, sthCount>>
lockVars == <<owner, recursion, requests>>
vars == <<threadVars, subVars, countVars, lockVars, current, walk>>

SubThreads == Threads \X (1..MaxSub)
Managed == Threads \ SystemThreads
NotEntering == <<>>

Walks ==
    [th : Threads, base : 0..MaxSub, self : BOOLEAN, todo : SUBSET Objects]

ASSUME WalkAssumption == NoWalk \notin Walks

TypeOK ==
    /\ status \in [Threads -> {"Ready", "Waiting", "Terminated", "Unstarted"}]
    /\ list \in [Threads -> {"ready", "waiting", "zombie"}]
    /\ suspended \in [Threads -> BOOLEAN]
    /\ exception \in [Threads -> BOOLEAN]
    /\ hasFrames \in [Threads -> BOOLEAN]
    /\ sleeping \in [Threads -> BOOLEAN]
    /\ entering \in [Threads -> (Objects \X (1..MaxSub)) \cup {NotEntering}]
    /\ subs \in [Threads -> 0..MaxSub]
    /\ expiries \in [SubThreads -> 0..2]
    /\ thCount \in [Threads -> Int]
    /\ sthCount \in [SubThreads -> Int]
    /\ owner \in [Objects -> Threads \cup {NoThread}]
    /\ recursion \in [Objects -> [SubThreads -> Nat]]
    /\ requests \in [Objects -> Seq(SubThreads)]
    /\ current \in Threads \cup {NoThread}
    /\ walk \in Walks \cup {NoWalk}

Init ==
    /\ status = [t \in Threads |-> IF t \in SystemThreads THEN "Unstarted" ELSE "Ready"]
    /\ list = [t \in Threads |-> IF t \in SystemThreads THEN "zombie" ELSE "ready"]
    /\ suspended = [t \in Threads |-> FALSE]
    /\ exception = [t \in Threads |-> FALSE]
    /\ hasFrames = [t \in Threads |-> t \in Managed]
    /\ sleeping = [t \in Threads |-> FALSE]
    /\ entering = [t \in Threads |-> NotEntering]
    /\ subs = [t \in Threads |-> 1]
    /\ expiries = [s \in SubThreads |-> 2]
    /\ thCount = [t \in Threads |-> 0]
    /\ sthCount = [s \in SubThreads |-> 0]
    /\ owner = [o \in Objects |-> NoThread]
    /\ recursion = [o \in Objects |-> [s \in SubThreads |-> 0]]
    /\ requests = [o \in Objects |-> <<>>]
    /\ current = NoThread
    /\ walk = NoWalk

-----------------------------------------------------------------------------
(* State functions.                                                         *)

Locks(t) == {o \in Objects : owner[o] = t}          \* m_locks, unordered
Live(s) == s[2] <= subs[s[1]]                       \* in its m_subThreads
\* Variant: the search of DeleteLockRequests in the ready list only.
ListedReady(o) == owner[o] # NoThread /\ list[owner[o]] = "ready"
Listed(o) == owner[o] # NoThread /\ list[owner[o]] \in {"ready", "waiting"}
IsQueued(o, s) == \E k \in DOMAIN requests[o] : requests[o][k] = s
NoOwners(r) == \A s \in SubThreads : r[s] = 0
\* Variant: a lock is entered again by the subthread that holds it only.
FreeOrEntered(o, s) == owner[o] = NoThread \/ recursion[o][s] > 0
CanTake(o, s) == owner[o] \in {NoThread, s[1]}
HasOwnerEntry(o, s) == owner[o] = s[1] /\ recursion[o][s] > 0

Idle == current = NoThread /\ walk = NoWalk
InQuantum(t) == current = t /\ walk = NoWalk /\ hasFrames[t]
Running(t) == InQuantum(t) /\ ~exception[t] /\ entering[t] = NotEntering

(* The subthread of the frame that calls Enter or Exit: the current one, or *)
(* the one below it when the caller is the frame that owns the current one. *)
CallerLevels(t) == {i \in 1..MaxSub : i \in {subs[t] - 1, subs[t]}}

-----------------------------------------------------------------------------
(* Helpers: each one fixes the variables its name says.                     *)

\* Variant: a suspended thread that is restarted joins the ready list.
RestartAlwaysReady(t, deleteEvent) ==
    /\ status' = [status EXCEPT ![t] = "Ready"]
    /\ list' = [list EXCEPT ![t] = "ready"]
    /\ sleeping' = [sleeping EXCEPT ![t] = FALSE]
(* CLR_RT_Thread::Restart: Ready, then PutInProperList.  Linking in the      *)
(* ready list (InsertThreadRoundRobin) also clears the wait state.           *)
Restart(t, deleteEvent) ==
    /\ status' = [status EXCEPT ![t] = "Ready"]
    /\ list' = [list EXCEPT ![t] = IF suspended[t] THEN "waiting" ELSE "ready"]
    /\ sleeping' = [sleeping EXCEPT ![t] = @ /\ suspended[t] /\ ~deleteEvent]

\* Variant: every grant restarts the thread.
RestartOnEveryGrant(s, diff) ==
    /\ thCount' = [thCount EXCEPT ![s[1]] = @ + diff]
    /\ sthCount' = [sthCount EXCEPT ![s] = @ + diff]
    /\ Restart(s[1], FALSE)
\* Variant: the count of the thread is forgotten.
ChangeSubThreadCountOnly(s, diff) ==
    /\ sthCount' = [sthCount EXCEPT ![s] = @ + diff]
    /\ Restart(s[1], FALSE)
    /\ UNCHANGED thCount
ChangeLockRequestCount(s, diff) ==
    LET th == s[1]
        n == thCount[th] + diff
    IN  /\ thCount' = [thCount EXCEPT ![th] = n]
        /\ sthCount' = [sthCount EXCEPT ![s] = @ + diff]
        /\ \/ n = 0 /\ Restart(th, FALSE)
           \/ /\ n # 0
              /\ status' = [status EXCEPT ![th] = "Waiting"]
              /\ UNCHANGED <<list, sleeping>>

(* The lock o has lost its last owner entry: hand it to the oldest request, *)
(* or free it.  The request must name a live subthread: past a request that *)
(* names a freed one the code reads freed memory, and nothing is modelled.  *)
ChangeOwner(o) ==
    \/ /\ requests[o] = <<>>
       /\ owner' = [owner EXCEPT ![o] = NoThread]
       /\ recursion' = [recursion EXCEPT ![o] = [s \in SubThreads |-> 0]]
       /\ UNCHANGED <<requests, status, list, sleeping, countVars>>
    \/ /\ requests[o] # <<>>
       /\ LET sth == Head(requests[o])
          IN  /\ Live(sth)
              /\ requests' = [requests EXCEPT ![o] = Tail(@)]
              /\ ChangeLockRequestCount(sth, -1)
              /\ owner' = [owner EXCEPT ![o] = sth[1]]
              /\ recursion' = [recursion EXCEPT ![o] =
                                  [s \in SubThreads |-> IF s = sth THEN 1 ELSE 0]]

\* Variant: the last Exit leaves the lock with its owner.
KeepWithoutOwners(o, r) ==
    /\ recursion' = [recursion EXCEPT ![o] = r]
    /\ UNCHANGED <<owner, requests, status, list, sleeping, countVars>>
\* Variant: the last Exit frees the lock with requests queued.
FreeWithRequests(o, r) ==
    /\ recursion' = [recursion EXCEPT ![o] = r]
    /\ owner' = [owner EXCEPT ![o] = IF NoOwners(r) THEN NoThread ELSE @]
    /\ requests' = [requests EXCEPT ![o] = IF NoOwners(r) THEN <<>> ELSE @]
    /\ UNCHANGED <<status, list, sleeping, countVars>>
(* The owner entries of lock o become r.                                    *)
SetOwners(o, r) ==
    \/ NoOwners(r) /\ ChangeOwner(o)
    \/ /\ ~NoOwners(r)
       /\ recursion' = [recursion EXCEPT ![o] = r]
       /\ UNCHANGED <<owner, requests, status, list, sleeping, countVars>>

\* Variant: only a destruction of the whole thread visits the locks.
WalkLocksAtEndOnly(t, base, self) ==
    walk' = [th |-> t, base |-> base, self |-> self,
             todo |-> IF base = 0 THEN Locks(t) ELSE {}]
StartWalk(t, base, self) ==
    walk' = [th |-> t, base |-> base, self |-> self, todo |-> Locks(t)]

(* PutInProperList at the end of a quantum, for a thread that goes on.      *)
Requeue(t) ==
    /\ list' = [list EXCEPT ![t] =
                   IF status[t] = "Ready" /\ ~suspended[t] THEN "ready" ELSE "waiting"]
    /\ current' = NoThread

-----------------------------------------------------------------------------
(* The scheduler and the time checks it makes between quanta.               *)

(* ScheduleThreads takes a thread of the ready list; Execute runs it         *)
(* whatever its m_status says.                                              *)
Schedule(t) ==
    /\ Idle
    /\ list[t] = "ready"
    /\ current' = t
    /\ UNCHANGED <<threadVars, subVars, countVars, lockVars, walk>>

(* The quantum expires, or the thread asks to be rescheduled.               *)
QuantumExpired(t) ==
    /\ Running(t)
    /\ Requeue(t)
    /\ UNCHANGED <<status, suspended, exception, hasFrames, sleeping, entering,
                   subVars, countVars, lockVars, walk>>

(* CheckThreads: the timeout of a Sleep has passed.                         *)
SleepExpired(t) ==
    /\ Idle
    /\ sleeping[t]
    /\ Restart(t, TRUE)
    /\ UNCHANGED <<suspended, exception, hasFrames, entering, subVars,
                   countVars, lockVars, current, walk>>

(* CheckThreads: the time constraint of subthread i has passed.  The first   *)
(* time the thread gets an exception and some time to clean up; the second   *)
(* time the subthread's frames, locks and requests are taken from it.        *)
ConstraintExpired(t, i) ==
    /\ Idle
    /\ i \in 2..subs[t]
    /\ expiries[<<t, i>>] < 2
    /\ expiries' = [expiries EXCEPT ![<<t, i>>] = @ + 1]
    /\ exception' = [exception EXCEPT ![t] = TRUE]
    /\ \/ /\ expiries[<<t, i>>] = 0
          /\ Restart(t, TRUE)
          /\ UNCHANGED <<entering, walk>>
       \/ /\ expiries[<<t, i>>] = 1
          /\ entering' = [entering EXCEPT ![t] = NotEntering]
          /\ StartWalk(t, i, FALSE)
          /\ UNCHANGED <<status, list, sleeping>>
    /\ UNCHANGED <<suspended, hasFrames, subs, countVars, lockVars, current>>

(* SpawnTimer, SpawnFinalizer: a parked system thread gets a delegate to run *)
(* (EnsureSystemThread, CanThreadBeReused, PushThreadProcDelegate).          *)
SpawnSystem(t) ==
    /\ Idle
    /\ t \in SystemThreads
    /\ status[t] \in {"Terminated", "Unstarted"}
    /\ hasFrames' = [hasFrames EXCEPT ![t] = TRUE]
    /\ Restart(t, TRUE)
    /\ UNCHANGED <<suspended, exception, entering, subVars, countVars,
                   lockVars, current, walk>>

-----------------------------------------------------------------------------
(* Operations of the running thread.                                        *)

(* Monitor.Enter, m_customState 0: LockObject and IncrementOwnership.        *)
Enter(t, o, i) ==
    LET s == <<t, i>>
    IN  /\ Running(t)
        /\ i \in CallerLevels(t)
        /\ \/ /\ CanTake(o, s)
              /\ recursion[o][s] < MaxRecursion
              /\ owner' = [owner EXCEPT ![o] = t]
              /\ recursion' = [recursion EXCEPT ![o][s] = @ + 1]
              /\ UNCHANGED <<status, list, entering, countVars, requests, current>>
           \/ /\ ~CanTake(o, s)
              /\ thCount[t] < MaxPending
              /\ requests' = [requests EXCEPT ![o] = Append(@, s)]
              /\ thCount' = [thCount EXCEPT ![t] = @ + 1]
              /\ sthCount' = [sthCount EXCEPT ![s] = @ + 1]
              /\ entering' = [entering EXCEPT ![t] = <<o, i>>]
              /\ status' = [status EXCEPT ![t] = "Waiting"]
              /\ list' = [list EXCEPT ![t] = "waiting"]
              /\ current' = NoThread
              /\ UNCHANGED <<owner, recursion>>
        /\ UNCHANGED <<suspended, exception, hasFrames, sleeping, subVars, walk>>

(* Monitor.Enter, m_customState 1: the woken thread takes S_OK for an answer *)
(* without looking at the lock again.                                        *)
EnterReturns(t) ==
    /\ InQuantum(t)
    /\ ~exception[t]
    /\ entering[t] # NotEntering
    /\ entering' = [entering EXCEPT ![t] = NotEntering]
    /\ UNCHANGED <<status, list, suspended, exception, hasFrames, sleeping,
                   subVars, countVars, lockVars, current, walk>>

(* Monitor.Exit: UnlockObject and DecrementOwnership.  A caller that has no  *)
(* owner entry gets a synchronization exception.                             *)
Exit(t, o, i) ==
    LET s == <<t, i>>
    IN  /\ Running(t)
        /\ i \in CallerLevels(t)
        /\ \/ /\ HasOwnerEntry(o, s)
              /\ SetOwners(o, [recursion[o] EXCEPT ![s] = @ - 1])
              /\ UNCHANGED exception
           \/ /\ ~HasOwnerEntry(o, s)
              /\ exception' = [exception EXCEPT ![t] = TRUE]
              /\ UNCHANGED <<lockVars, status, list, sleeping, countVars>>
        /\ UNCHANGED <<suspended, hasFrames, entering, subVars, current, walk>>

(* Thread.Sleep with a timeout.                                             *)
Sleep(t) ==
    /\ Running(t)
    /\ sleeping' = [sleeping EXCEPT ![t] = TRUE]
    /\ status' = [status EXCEPT ![t] = "Waiting"]
    /\ list' = [list EXCEPT ![t] = "waiting"]
    /\ current' = NoThread
    /\ UNCHANGED <<suspended, exception, hasFrames, entering, subVars,
                   countVars, lockVars, walk>>

(* Thread.Suspend on a started managed thread; on itself it also reschedules. *)
Suspend(t, u) ==
    /\ Running(t)
    /\ u \in Managed
    /\ ~suspended[u] /\ status[u] # "Terminated"
    /\ suspended' = [suspended EXCEPT ![u] = TRUE]
    /\ list' = [list EXCEPT ![u] = "waiting"]
    /\ current' = IF u = t THEN NoThread ELSE current
    /\ UNCHANGED <<status, exception, hasFrames, sleeping, entering, subVars,
                   countVars, lockVars, walk>>

(* Thread.Resume.                                                           *)
Resume(t, u) ==
    /\ Running(t)
    /\ u \in Managed
    /\ suspended[u] /\ status[u] # "Terminated"
    /\ suspended' = [suspended EXCEPT ![u] = FALSE]
    /\ list' = [list EXCEPT ![u] = IF status[u] = "Ready" THEN "ready" ELSE "waiting"]
    /\ sleeping' = [sleeping EXCEPT ![u] = @ /\ status[u] # "Ready"]
    /\ UNCHANGED <<status, exception, hasFrames, entering, subVars, countVars,
                   lockVars, current, walk>>

(* Thread.Abort on another thread, which is not taken off the queue of a     *)
(* lock it waits for.  A thread whose frames are gone is left out: the       *)
(* exception would be processed on an empty stack.                           *)
Abort(t, u) ==
    /\ Running(t)
    /\ u \in Managed \ {t}
    /\ status[u] # "Terminated" /\ hasFrames[u]
    /\ exception' = [exception EXCEPT ![u] = TRUE]
    /\ Restart(u, TRUE)
    /\ UNCHANGED <<suspended, hasFrames, entering, subVars, countVars,
                   lockVars, current, walk>>

(* ExecutionConstraint.Install: a new subthread with a time constraint, or   *)
(* the constraint of the current one set again.                              *)
InstallConstraint(t) ==
    /\ Running(t)
    /\ \/ /\ subs[t] < MaxSub
          /\ subs' = [subs EXCEPT ![t] = @ + 1]
          /\ expiries' = [expiries EXCEPT ![<<t, subs[t] + 1>>] = 0]
          /\ sthCount' = [sthCount EXCEPT ![<<t, subs[t] + 1>>] = 0]
       \/ /\ subs[t] > 1
          /\ expiries[<<t, subs[t]>>] = 2
          /\ expiries' = [expiries EXCEPT ![<<t, subs[t]>>] = 1]
          /\ UNCHANGED <<subs, sthCount>>
    /\ UNCHANGED <<threadVars, thCount, lockVars, current, walk>>

-----------------------------------------------------------------------------
(* Exceptions and the end of threads.                                       *)

(* A handler of the thread catches the exception; the frames above it,       *)
(* Monitor.Enter's included, are popped.                                     *)
Catch(t) ==
    /\ InQuantum(t)
    /\ exception[t]
    /\ exception' = [exception EXCEPT ![t] = FALSE]
    /\ entering' = [entering EXCEPT ![t] = NotEntering]
    /\ UNCHANGED <<status, list, suspended, hasFrames, sleeping, subVars,
                   countVars, lockVars, current, walk>>

(* StackFrame::Pop of the frame that owns the current subthread.            *)
PopFrame(t) ==
    /\ InQuantum(t)
    /\ exception[t] \/ entering[t] = NotEntering
    /\ subs[t] > 1
    /\ entering' = [entering EXCEPT ![t] = NotEntering]
    /\ StartWalk(t, subs[t], TRUE)
    /\ UNCHANGED <<status, list, suspended, exception, hasFrames, sleeping,
                   subVars, countVars, lockVars, current>>

(* The stack of the running thread is empty: it returned, nothing caught its *)
(* exception, or it was put in the ready list after its end.  PutInProperList *)
(* passivates it; a system thread keeps its subthread and its locks.          *)
Passivate(t) ==
    /\ current = t /\ walk = NoWalk
    /\ exception[t] \/ entering[t] = NotEntering
    /\ subs[t] <= 1
    /\ suspended' = [suspended EXCEPT ![t] = FALSE]
    /\ list' = [list EXCEPT ![t] = "zombie"]
    /\ sleeping' = [sleeping EXCEPT ![t] = FALSE]
    /\ exception' = [exception EXCEPT ![t] = FALSE]
    /\ hasFrames' = [hasFrames EXCEPT ![t] = FALSE]
    /\ entering' = [entering EXCEPT ![t] = NotEntering]
    /\ current' = NoThread
    /\ \/ /\ t \in Managed
          /\ status' = [status EXCEPT ![t] = "Terminated"]
          /\ IF subs[t] > 0 THEN StartWalk(t, 0, TRUE) ELSE UNCHANGED walk
       \/ /\ t \in SystemThreads
          /\ status' = [status EXCEPT ![t] = "Unstarted"]
          /\ UNCHANGED walk
    /\ UNCHANGED <<subVars, countVars, lockVars>>

-----------------------------------------------------------------------------
(* CLR_RT_SubThread::DestroyInstance(th, sthBase, flags).                    *)

WalkTop == <<walk.th, subs[walk.th]>>

(* One iteration of the loop over th->m_locks: DestroyOwner.  The next node  *)
(* was read before the body, so a lock handed back to the same thread, which *)
(* is linked at the back of the list, is visited again only if the loop had  *)
(* not reached the end of the list.                                          *)
WalkLock(o) ==
    LET th == walk.th
        rest == walk.todo \ {o}
    IN  /\ walk # NoWalk
        /\ o \in walk.todo
        /\ SetOwners(o, [recursion[o] EXCEPT ![WalkTop] = 0])
        /\ walk' = [walk EXCEPT !.todo =
                       IF rest # {} /\ requests'[o] # requests[o] /\ owner'[o] = th
                       THEN walk.todo ELSE rest]
        /\ UNCHANGED <<suspended, exception, hasFrames, entering, subVars, current>>

(* One iteration of DeleteLockRequests, which finds the locks through the    *)
(* ready and the waiting list only.                                          *)
WalkRequest(o) ==
    /\ walk # NoWalk
    /\ walk.todo = {}
    /\ sthCount[WalkTop] # 0
    /\ Listed(o)
    /\ \E k \in DOMAIN requests[o] :
          /\ requests[o][k] = WalkTop
          /\ requests' = [requests EXCEPT ![o] = RemoveAt(@, k)]
    /\ ChangeLockRequestCount(WalkTop, -1)
    /\ UNCHANGED <<suspended, exception, hasFrames, entering, subVars, owner,
                   recursion, current, walk>>

(* The subthread has no more requests to delete: it is freed (unless it is   *)
(* the one whose constraint expired), and the loop goes on to the next.      *)
WalkPop ==
    LET th == walk.th
        top == subs[th]
        last == top = walk.base \/ top = 1
    IN  /\ walk # NoWalk
        /\ walk.todo = {}
        /\ sthCount[WalkTop] = 0 \/ \A o \in Objects : ~(Listed(o) /\ IsQueued(o, WalkTop))
        /\ subs' = [subs EXCEPT ![th] = IF top = walk.base /\ ~walk.self THEN @ ELSE @ - 1]
        /\ \/ /\ last
              /\ walk' = NoWalk
              /\ \/ walk.self /\ UNCHANGED <<status, list, sleeping>>
                 \/ ~walk.self /\ Restart(th, TRUE)
           \/ /\ ~last
              /\ StartWalk(th, walk.base, walk.self)
              /\ UNCHANGED <<status, list, sleeping>>
        /\ UNCHANGED <<suspended, exception, hasFrames, entering, expiries,
                       countVars, lockVars, current>>

-----------------------------------------------------------------------------
(* The specification.                                                       *)

Operation(t) ==
    \/ QuantumExpired(t)
    \/ EnterReturns(t)
    \/ Sleep(t)
    \/ InstallConstraint(t)
    \/ Catch(t)
    \/ PopFrame(t)
    \/ Passivate(t)
    \/ \E o \in Objects, i \in 1..MaxSub : Enter(t, o, i) \/ Exit(t, o, i)
    \/ \E u \in Threads : Suspend(t, u) \/ Resume(t, u) \/ Abort(t, u)

Engine(t) ==
    \/ Schedule(t)
    \/ SleepExpired(t)
    \/ SpawnSystem(t)
    \/ \E i \in 1..MaxSub : ConstraintExpired(t, i)

Destroy ==
    \/ \E o \in Objects : WalkLock(o) \/ WalkRequest(o)
    \/ WalkPop

Next ==
    \/ \E t \in Threads : Operation(t) \/ Engine(t)
    \/ Destroy

Spec == Init /\ [][Next]_vars

-----------------------------------------------------------------------------
(* Properties.                                                              *)

(* What a lock object means: a lock that exists has an owner entry, all its  *)
(* entries belong to the thread it names as its owner, and an object without *)
(* a lock has neither entries nor requests.  ChangeOwner, DestroyOwner and   *)
(* DecrementOwnership must keep the three in step on every hand-over.        *)
LockStructure ==
    \A o \in Objects :
        IF owner[o] = NoThread
        THEN requests[o] = <<>> /\ NoOwners(recursion[o])
        ELSE /\ ~NoOwners(recursion[o])
             /\ \A s \in SubThreads : recursion[o][s] > 0 => s[1] = owner[o]

(* The request counter that decides whether a thread may run is the number  *)
(* of its requests in all queues, through grants, aborts and destruction.    *)
RequestCounts ==
    \A t \in Threads :
        thCount[t] = Cardinality({q \in UNION {{o} \X DOMAIN requests[o] : o \in Objects} :
                                    requests[q[1]][q[2]][1] = t})

(* A thread blocked in Monitor.Enter has its request in the queue or has     *)
(* been made owner: no hand-over or deletion loses a waiter.                 *)
NoLostWaiter ==
    \A t \in Threads :
        entering[t] # NotEntering /\ ~exception[t] =>
            LET o == entering[t][1]
                s == <<t, entering[t][2]>>
            IN  IsQueued(o, s) \/ recursion[o][s] > 0

(* A thread that blocked in Monitor.Enter is made ready only as an owner of  *)
(* the lock, or to process an exception: when Enter answers S_OK without     *)
(* looking at the lock, the caller does hold it.                             *)
WokenOwnsLock ==
    \A t \in Threads :
        list[t] = "ready" /\ entering[t] # NotEntering /\ ~exception[t] =>
            recursion[entering[t][1]][<<t, entering[t][2]>>] > 0

(* No thread waits in Monitor.Enter for a lock it owns itself.               *)
NoSelfWait ==
    \A t \in Threads :
        entering[t] # NotEntering /\ ~exception[t] =>
            LET o == entering[t][1]
            IN  IsQueued(o, <<t, entering[t][2]>>) => owner[o] # t

(* A thread is linked in the list that PutInProperList chooses for its       *)
(* status and its suspension, also in the middle of a destruction.           *)
ListMatchesStatus ==
    \A t \in Threads :
        list[t] = IF status[t] \in {"Terminated", "Unstarted"} THEN "zombie"
                  ELSE IF status[t] = "Ready" /\ ~suspended[t] THEN "ready"
                  ELSE "waiting"

(* A lock never outlives the subthread that took it: an owner entry names a  *)
(* subthread that still exists ("Release all the locks for this subthread",  *)
(* CLR_RT_SubThread::DestroyInstance).                                       *)
LocksReleased ==
    \A o \in Objects, s \in SubThreads : recursion[o][s] > 0 => Live(s)

(* A lock request never outlives the subthread that made it ("Release all    *)
(* the lock requests").                                                      *)
RequestsReleased ==
    \A o \in Objects : \A k \in DOMAIN requests[o] : Live(requests[o][k])
=============================================================================
