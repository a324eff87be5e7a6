------------------------------ MODULE WaitHandles ------------------------------
(***************************************************************************)
(* CLR_RT_HeapBlock_WaitForObject: WaitHandle.WaitOne, WaitAny and WaitAll   *)
(* on auto-reset and manual-reset events, Thread.Join, time-outs, and what   *)
(* Thread.Suspend, Resume and Abort do to threads that wait.                *)
(*                                                                          *)
(* The engine runs one thread at a time and a native call is never           *)
(* preempted.  SignalObject walks m_threadsWaiting while it moves threads    *)
(* within that very list, so each turn of its loop is a step of its own;     *)
(* no other action is taken before the loop has ended.                      *)
(***************************************************************************)
EXTENDS Lists

CONSTANTS
    Threads,        \* started threads and their managed Thread objects
    AutoReset,      \* AutoResetEvents: HB_SignalAutoReset
    ManualReset,    \* ManualResetEvents
    HandleLists,    \* the arrays of handles the program waits for
    Suspendable,    \* the threads the program suspends
    SkipSuspended,  \* NANOCLR_ENABLE_SOURCELEVELDEBUGGING is defined
    NoWait, NoWalk, End

Events == AutoReset \cup ManualReset
Objects == Events \cup Threads

(* A call of Wait; WaitOne and Join wait for a list of one handle.             *)
Waits == [objects : HandleLists \cup {<<u>> : u \in Threads}, all : BOOLEAN, timed : BOOLEAN]
Walks == [object : Objects, th : Threads, next : Threads \cup {End}]

ASSUME WaitHandlesAssumption ==
    /\ AutoReset \cap ManualReset = {}
    /\ Events \cap Threads = {}
    /\ HandleLists \subseteq Seq(Events)
    /\ <<>> \notin HandleLists
    /\ Suspendable \subseteq Threads
    /\ SkipSuspended \in BOOLEAN
    /\ NoWait \notin Waits /\ NoWalk \notin Walks /\ End \notin Threads

VARIABLES
    status,       \* m_status
    suspended,    \* TH_F_Suspended
    waitingList,  \* m_threadsWaiting
    wait,         \* m_waitForObject
    result,       \* m_waitForObject_Result while a call of Wait is in progress
    aborting,     \* a ThreadAbortException is the current exception
    signaled,     \* HB_Signaled
    walk          \* the loop of SignalObject: its object, th and thNext

vars == <<status, suspended, waitingList, wait, result, aborting, signaled, walk>>

\* The values of m_waitForObject_Result, and one for a field nobody reads.
Idle == -2
TH_WAIT_RESULT_INIT == -1
TH_WAIT_RESULT_HANDLE_0 == 0
TH_WAIT_RESULT_TIMEOUT == 258
TH_WAIT_RESULT_HANDLE_ALL == 259

Handles == {TH_WAIT_RESULT_HANDLE_0 + k - 1 : k \in {1} \cup UNION {DOMAIN l : l \in HandleLists}}
Results == Handles \cup {TH_WAIT_RESULT_HANDLE_ALL, TH_WAIT_RESULT_TIMEOUT, TH_WAIT_RESULT_INIT, Idle}

TypeOK ==
    /\ status \in [Threads -> {"Ready", "Waiting", "Terminated"}]
    /\ suspended \in [Threads -> BOOLEAN]
    /\ waitingList \in Seq(Threads)
    /\ wait \in [Threads -> Waits \cup {NoWait}]
    /\ result \in [Threads -> Results]
    /\ aborting \in [Threads -> BOOLEAN]
    /\ signaled \in [Objects -> BOOLEAN]
    /\ walk \in Walks \cup {NoWalk}

Init ==
    /\ status = [t \in Threads |-> "Ready"]
    /\ suspended = [t \in Threads |-> FALSE]
    /\ waitingList = <<>>
    /\ wait = [t \in Threads |-> NoWait]
    /\ result = [t \in Threads |-> Idle]
    /\ aborting = [t \in Threads |-> FALSE]
    /\ signaled \in {f \in [Objects -> BOOLEAN] : \A t \in Threads : ~f[t]}
    /\ walk = NoWalk

-----------------------------------------------------------------------------
(* Lists.                                                                   *)

\* Variant: a restarted thread keeps its wait object.
KeepWait(t, s, susp) ==
    /\ status' = [status EXCEPT ![t] = s]
    /\ waitingList' = IF s = "Waiting" \/ (s = "Ready" /\ susp)
                      THEN LinkAtBack(waitingList, t) ELSE Unlink(waitingList, t)
    /\ wait' = wait
(* PutInProperList for a thread with status s: a ready thread that is not     *)
(* suspended goes to the ready list, and InsertThreadRoundRobin then frees    *)
(* its wait object; a terminated one is passivated, which frees it too.      *)
PutInProperList(t, s, susp) ==
    /\ status' = [status EXCEPT ![t] = s]
    /\ IF s = "Waiting" \/ (s = "Ready" /\ susp)
       THEN /\ waitingList' = LinkAtBack(waitingList, t)
            /\ wait' = wait
       ELSE /\ waitingList' = Unlink(waitingList, t)
            /\ wait' = [wait EXCEPT ![t] = NoWait]

Restart(t) == PutInProperList(t, "Ready", suspended[t])

Successor(list, t) ==
    LET k == CHOOSE k \in DOMAIN list : list[k] = t
    IN  IF k = Len(list) THEN End ELSE list[k + 1]

-----------------------------------------------------------------------------
(* TryWaitForSignal.                                                        *)

SomeSignaled(w) == \E k \in DOMAIN w.objects : signaled[w.objects[k]]
CanReturn(w) ==
    IF w.all THEN \A k \in DOMAIN w.objects : signaled[w.objects[k]]
    ELSE SomeSignaled(w)

FirstSignaled(w) ==
    CHOOSE k \in DOMAIN w.objects :
        /\ signaled[w.objects[k]]
        /\ \A j \in 1..(k - 1) : ~signaled[w.objects[j]]

WaitResult(w) ==
    IF w.all THEN TH_WAIT_RESULT_HANDLE_ALL ELSE TH_WAIT_RESULT_HANDLE_0 + FirstSignaled(w) - 1

(* The auto-reset events among the handles that ended the wait are reset.    *)
Consumed(w) ==
    AutoReset \cap (IF w.all THEN Range(w.objects) ELSE {w.objects[FirstSignaled(w)]})

ResetConsumed(w) ==
    signaled' = [o \in Objects |-> signaled[o] /\ o \notin Consumed(w)]

-----------------------------------------------------------------------------
(* The calls of a running thread.                                           *)

Running(t) == walk = NoWalk /\ status[t] = "Ready" /\ ~suspended[t] /\ ~aborting[t]
Free(t) == Running(t) /\ result[t] = Idle

(* WaitForSignal the first time: it returns at once or blocks the thread.    *)
WaitForSignal(t, w) ==
    /\ Free(t)
    /\ \/ /\ CanReturn(w)
          /\ ResetConsumed(w)
          /\ UNCHANGED <<status, waitingList, wait, result>>
       \/ /\ ~CanReturn(w)
          /\ status' = [status EXCEPT ![t] = "Waiting"]
          /\ waitingList' = LinkAtBack(waitingList, t)
          /\ wait' = [wait EXCEPT ![t] = w]
          /\ result' = [result EXCEPT ![t] = TH_WAIT_RESULT_INIT]
          /\ UNCHANGED signaled
    /\ UNCHANGED <<suspended, aborting, walk>>

(* WaitForSignal the second time, m_customState being 1: the call returns     *)
(* what m_waitForObject_Result says.                                         *)
WaitReturns(t) ==
    /\ Running(t)
    /\ result[t] # Idle
    /\ result' = [result EXCEPT ![t] = Idle]
    /\ UNCHANGED <<status, suspended, waitingList, wait, aborting, signaled, walk>>

(* Thread.Join: a wait for the Thread object, unless it has terminated.      *)
Join(t, u, timed) ==
    /\ u # t
    /\ status[u] # "Terminated"
    /\ WaitForSignal(t, [objects |-> <<u>>, all |-> FALSE, timed |-> timed])

(* SignalObject up to its loop.                                             *)
SignalObject(o, list) ==
    /\ signaled' = [signaled EXCEPT ![o] = TRUE]
    /\ walk' = IF list = <<>> THEN NoWalk
               ELSE [object |-> o, th |-> Head(list), next |-> Successor(list, Head(list))]

Set(t, o) ==
    /\ Free(t)
    /\ SignalObject(o, waitingList)
    /\ UNCHANGED <<status, suspended, waitingList, wait, result, aborting>>

Reset(t, o) ==
    /\ Free(t)
    /\ signaled' = [signaled EXCEPT ![o] = FALSE]
    /\ UNCHANGED <<status, suspended, waitingList, wait, result, aborting, walk>>

\* Variant: the loop stops at the first freed thread, whatever the event is.
BreakWhenFreed(o, freed) == freed
(* One turn of the loop: thNext was read before th is restarted.            *)
BreakLoop(o, freed) == ~signaled'[o]

\* Variant: the loop starts again after each freed thread.
FromTheFront(list, freed) ==
    IF freed /\ list # <<>>
    THEN [walk EXCEPT !.th = Head(list), !.next = Successor(list, Head(list))]
    ELSE IF walk.next = End THEN NoWalk
    ELSE [walk EXCEPT !.th = walk.next, !.next = Successor(list, walk.next)]
NextTurn(list, freed) ==
    IF walk.next = End THEN NoWalk
    ELSE [walk EXCEPT !.th = walk.next, !.next = Successor(list, walk.next)]

SignalStep ==
    /\ walk # NoWalk
    /\ LET t == walk.th
           w == wait[t]
           freed == w # NoWait /\ CanReturn(w)
       IN  /\ IF freed
              THEN /\ result' = [result EXCEPT ![t] = WaitResult(w)]
                   /\ ResetConsumed(w)
                   /\ Restart(t)
              ELSE UNCHANGED <<result, signaled, status, waitingList, wait>>
           /\ walk' = IF BreakLoop(walk.object, freed) THEN NoWalk
                      ELSE NextTurn(waitingList', freed)
    /\ UNCHANGED <<suspended, aborting>>

-----------------------------------------------------------------------------
(* Thread control.                                                          *)

Suspend(t, u) ==
    /\ Free(t)
    /\ u \in Suspendable
    /\ ~suspended[u]
    /\ status[u] # "Terminated"
    /\ suspended' = [suspended EXCEPT ![u] = TRUE]
    /\ PutInProperList(u, status[u], TRUE)
    /\ UNCHANGED <<result, aborting, signaled, walk>>

Resume(t, u) ==
    /\ Free(t)
    /\ suspended[u]
    /\ status[u] # "Terminated"
    /\ suspended' = [suspended EXCEPT ![u] = FALSE]
    /\ PutInProperList(u, status[u], FALSE)
    /\ UNCHANGED <<result, aborting, signaled, walk>>

Abort(t, u) ==
    /\ Free(t)
    /\ u # t
    /\ status[u] # "Terminated"
    /\ aborting' = [aborting EXCEPT ![u] = TRUE]
    /\ Restart(u)
    /\ UNCHANGED <<suspended, result, signaled, walk>>

(* The exception unwinds the frame of Wait; a handler resets the abort.      *)
AbortCaught(t) ==
    /\ walk = NoWalk
    /\ status[t] = "Ready" /\ ~suspended[t] /\ aborting[t]
    /\ aborting' = [aborting EXCEPT ![t] = FALSE]
    /\ result' = [result EXCEPT ![t] = Idle]
    /\ UNCHANGED <<status, suspended, waitingList, wait, signaled, walk>>

(* The thread ends, by returning or by an exception: Passivate, then          *)
(* OnThreadTerminated signals the Thread object.                             *)
Exit(t) ==
    /\ walk = NoWalk
    /\ status[t] = "Ready" /\ ~suspended[t]
    /\ result[t] = Idle \/ aborting[t]
    /\ PutInProperList(t, "Terminated", FALSE)
    /\ SignalObject(t, waitingList')
    /\ result' = [result EXCEPT ![t] = Idle]
    /\ aborting' = [aborting EXCEPT ![t] = FALSE]
    /\ UNCHANGED suspended

(* CheckThreads finds the time-out of a wait expired.                       *)
TimeoutExpired(t) ==
    /\ walk = NoWalk
    /\ wait[t] # NoWait
    /\ wait[t].timed
    /\ SkipSuspended => ~suspended[t]
    /\ result' = [result EXCEPT ![t] = TH_WAIT_RESULT_TIMEOUT]
    /\ Restart(t)
    /\ UNCHANGED <<suspended, aborting, signaled, walk>>

-----------------------------------------------------------------------------
(* The specification.                                                       *)

Next ==
    \/ SignalStep
    \/ \E t \in Threads :
        \/ \E l \in HandleLists, all \in BOOLEAN, timed \in BOOLEAN :
               WaitForSignal(t, [objects |-> l, all |-> all, timed |-> timed])
        \/ \E u \in Threads, timed \in BOOLEAN : Join(t, u, timed)
        \/ \E o \in Events : Set(t, o) \/ Reset(t, o)
        \/ \E u \in Threads : Suspend(t, u) \/ Resume(t, u) \/ Abort(t, u)
        \/ WaitReturns(t) \/ AbortCaught(t) \/ Exit(t) \/ TimeoutExpired(t)

(* Only the loop has to go on by itself: it is native code.                 *)
Fairness == WF_vars(SignalStep)

Spec == Init /\ [][Next]_vars /\ Fairness

-----------------------------------------------------------------------------
(* Properties.                                                              *)

(* No signal is missed: between two calls no thread stays blocked although    *)
(* the handles it waits for are signaled, whatever the order of waits, sets,  *)
(* resets, time-outs, suspensions and aborts, and although the loop stops at  *)
(* the first thread that takes an auto-reset event.                          *)
NoMissedSignal ==
    walk = NoWalk =>
        \A t \in Threads : status[t] = "Waiting" => ~CanReturn(wait[t])

(* m_threadsWaiting holds once each thread that is blocked or suspended, and  *)
(* no other, so that the loop and the time-outs see them all.                *)
WaitingListed ==
    /\ TypeOK
    /\ IsInjective(waitingList)
    /\ \A t \in Threads : Contains(waitingList, t) <=> status[t] = "Waiting" \/ suspended[t]

(* A wait ends once: after a signal or the time-out ended it no other signal  *)
(* is consumed and no late time-out replaces its result, until the thread     *)
(* reads it.  Suspended threads are left out: see SignalFreesThread.         *)
WaitEndsOnce ==
    [][\A t \in Threads :
           result[t] # TH_WAIT_RESULT_INIT /\ result[t] # Idle /\ ~suspended[t] =>
               result'[t] \in {result[t], Idle}]_vars

(* A call of Set ends, and so does the termination of a thread that others    *)
(* join: the loop over the list it reorders visits no thread forever.        *)
SetEnds == walk # NoWalk ~> walk = NoWalk

(* "As this object can only free one thread": the turn of the loop that       *)
(* consumes an auto-reset event frees a blocked thread.                      *)
SignalFreesThread ==
    [][\A o \in AutoReset :
           SignalStep /\ signaled[o] /\ ~signaled'[o] =>
               \E t \in Threads : status[t] = "Waiting" /\ status'[t] = "Ready"]_vars
=============================================================================
