--------------------------- MODULE WaitHandlesProofs ---------------------------
(***************************************************************************)
(* Invariants of WaitHandles proved for every set of threads, events and      *)
(* arrays of handles: the list of waiting threads, that no signal is missed,   *)
(* and that a wait ends once.                                                *)
(***************************************************************************)
EXTENDS WaitHandles, ListProofs

Statuses == {"Ready", "Waiting", "Terminated"}

(* CanReturn for handles that are signaled as s says.                         *)
CanEnd(s, w) ==
    IF w.all THEN \A k \in DOMAIN w.objects : s[w.objects[k]]
    ELSE \E k \in DOMAIN w.objects : s[w.objects[k]]

(* A blocked thread waits for something and has no result yet; a wait object    *)
(* that a thread keeps after its wait has ended belongs to a suspended thread.  *)
WaitsInProgress ==
    \A t \in Threads :
        /\ status[t] = "Waiting" => wait[t] # NoWait /\ result[t] = TH_WAIT_RESULT_INIT
        /\ wait[t] # NoWait => status[t] = "Waiting" \/ suspended[t]

(* A terminated thread is not suspended: Suspend does nothing to it.            *)
EndedNotSuspended == \A t \in Threads : status[t] = "Terminated" => ~suspended[t]

(* What does not depend on the loop.                                         *)
ThreadsListed ==
    /\ status \in [Threads -> Statuses]
    /\ suspended \in [Threads -> BOOLEAN]
    /\ waitingList \in Seq(Threads) /\ IsInjective(waitingList)
    /\ wait \in [Threads -> Waits \cup {NoWait}]
    /\ result \in [Threads -> Results]
    /\ \A t \in Threads : Contains(waitingList, t) <=> status[t] = "Waiting" \/ suspended[t]
    /\ WaitsInProgress
    /\ EndedNotSuspended

(* The loop of SignalObject stands at a node of the list and knows the next.    *)
WalkLinked ==
    walk # NoWalk =>
        /\ Contains(waitingList, walk.th)
        /\ walk.next = Successor(waitingList, walk.th)

ListInv == WaitingListed /\ WaitsInProgress /\ EndedNotSuspended /\ WalkLinked

(* While the loop runs the object is signaled, and a thread that could be freed  *)
(* could not without the object and has not been passed by.                     *)
WalkAhead ==
    walk # NoWalk =>
        /\ signaled[walk.object]
        /\ \A t \in Threads :
               status[t] = "Waiting" /\ CanReturn(wait[t]) =>
                   /\ t = walk.th \/ Before(waitingList, walk.th, t)
                   /\ ~CanEnd([signaled EXCEPT ![walk.object] = FALSE], wait[t])

SignalInv == ListInv /\ WalkAhead /\ NoMissedSignal

-----------------------------------------------------------------------------
(* Waits.                                                                   *)

LEMMA WaitType ==
    ASSUME NEW w \in Waits
    PROVE  /\ w.all \in BOOLEAN
           /\ \A k \in DOMAIN w.objects : k \in Nat /\ k >= 1 /\ w.objects[k] \in Objects
           /\ \A k \in DOMAIN w.objects : TH_WAIT_RESULT_HANDLE_0 + k - 1 \in Handles
<1>1. CASE w.objects \in HandleLists
  <2>1. w.objects \in Seq(Events)
    BY <1>1, WaitHandlesAssumption
  <2>2. \A k \in DOMAIN w.objects : k \in Nat /\ k >= 1 /\ w.objects[k] \in Events
    BY <2>1
  <2>3. \A k \in DOMAIN w.objects : TH_WAIT_RESULT_HANDLE_0 + k - 1 \in Handles
    BY <1>1 DEF Handles
  <2> QED
    BY <2>2, <2>3 DEF Waits, Objects
<1>2. ASSUME NEW u \in Threads, w.objects = <<u>>
      PROVE  /\ \A k \in DOMAIN w.objects : k \in Nat /\ k >= 1 /\ w.objects[k] \in Objects
             /\ \A k \in DOMAIN w.objects : TH_WAIT_RESULT_HANDLE_0 + k - 1 \in Handles
  <2>1. DOMAIN w.objects = {1} /\ w.objects[1] = u
    BY <1>2
  <2> QED
    BY <2>1 DEF Handles, Objects
<1> QED
  BY <1>1, <1>2 DEF Waits

(* Waits can end for a handle more, never for a handle less.                  *)
LEMMA CanEndMonotone ==
    ASSUME NEW w \in Waits, NEW s, NEW r, \A o \in Objects : s[o] => r[o], CanEnd(s, w)
    PROVE  CanEnd(r, w)
<1>1. \A k \in DOMAIN w.objects : w.objects[k] \in Objects
  BY WaitType
<1> QED
  BY <1>1 DEF CanEnd

LEMMA CanReturnIsCanEnd ==
    ASSUME NEW w
    PROVE  CanReturn(w) <=> CanEnd(signaled, w)
BY DEF CanReturn, SomeSignaled, CanEnd

(* A wait for any of the handles that can return returns the first of them.    *)
LEMMA FirstSignaledType ==
    ASSUME NEW w \in Waits, SomeSignaled(w)
    PROVE  FirstSignaled(w) \in DOMAIN w.objects
<1> DEFINE T == {k \in DOMAIN w.objects : signaled[w.objects[k]]}
<1>1. T \in SUBSET Nat /\ T # {}
  BY WaitType DEF SomeSignaled
<1>2. PICK k \in T : \A j \in T : k <= j
  BY <1>1, LeastNumber
<1>3. \A j \in 1..(k - 1) : j \in DOMAIN w.objects => ~signaled[w.objects[j]]
  <2> SUFFICES ASSUME NEW j \in 1..(k - 1), j \in T
               PROVE  FALSE
    OBVIOUS
  <2>1. k \in Nat /\ j \in Nat /\ k <= j
    BY <1>1, <1>2
  <2> QED
    BY <2>1
<1>4. \A j \in 1..(k - 1) : j \in DOMAIN w.objects
  <2>1. k \in DOMAIN w.objects /\ k \in Nat
    BY <1>1, <1>2
  <2>2. PICK n \in Nat : DOMAIN w.objects = 1..n
    <3>1. CASE w.objects \in HandleLists
      <4>1. w.objects \in Seq(Events)
        BY <3>1, WaitHandlesAssumption
      <4> QED
        BY <4>1
    <3>2. CASE \E u \in Threads : w.objects = <<u>>
      BY <3>2
    <3> QED
      BY <3>1, <3>2 DEF Waits
  <2> QED
    BY <2>1, <2>2
<1>5. \E i \in DOMAIN w.objects : /\ signaled[w.objects[i]]
                                  /\ \A j \in 1..(i - 1) : ~signaled[w.objects[j]]
  BY <1>2, <1>3, <1>4
<1> QED
  BY <1>5 DEF FirstSignaled

LEMMA WaitResultType ==
    ASSUME NEW w \in Waits, CanReturn(w)
    PROVE  WaitResult(w) \in Results /\ WaitResult(w) # Idle
<1>1. CASE w.all
  BY <1>1 DEF WaitResult, Results, TH_WAIT_RESULT_HANDLE_ALL, Idle
<1>2. CASE ~w.all
  <2>1. FirstSignaled(w) \in DOMAIN w.objects
    BY <1>2, FirstSignaledType DEF CanReturn
  <2>2. FirstSignaled(w) \in Nat /\ FirstSignaled(w) >= 1
    BY <2>1, WaitType
  <2>3. TH_WAIT_RESULT_HANDLE_0 + FirstSignaled(w) - 1 \in Handles
    BY <2>1, WaitType
  <2> QED
    BY <1>2, <2>2, <2>3 DEF WaitResult, Results, TH_WAIT_RESULT_HANDLE_0, Idle
<1> QED
  BY <1>1, <1>2

-----------------------------------------------------------------------------
(* The list.                                                                *)

LEMMA SuccessorFacts ==
    ASSUME NEW q \in Seq(Threads), IsInjective(q), NEW t \in Threads, Contains(q, t)
    PROVE  /\ Successor(q, t) \in Threads \cup {End}
           /\ Successor(q, t) = End => \A u : ~Before(q, t, u)
           /\ Successor(q, t) # End =>
                  /\ Contains(q, Successor(q, t))
                  /\ Successor(q, t) # t
                  /\ \A u : Before(q, t, u) =>
                         u = Successor(q, t) \/ Before(q, Successor(q, t), u)
<1> DEFINE k == CHOOSE k \in DOMAIN q : q[k] = t
<1>1. k \in 1..Len(q) /\ q[k] = t
  BY DEF Contains
<1>2. Successor(q, t) = IF k = Len(q) THEN End ELSE q[k + 1]
  BY DEF Successor
<1> HIDE DEF k
<1>3. \A i, j \in 1..Len(q) : q[i] = q[j] => i = j
  BY DEF IsInjective
<1>4. \A u : Before(q, t, u) => \E j \in 1..Len(q) : k < j /\ q[j] = u
  BY <1>1, <1>3 DEF Before
<1>5. CASE k = Len(q)
  <2>1. Successor(q, t) = End
    BY <1>2, <1>5
  <2>2. \A u : ~Before(q, t, u)
    BY <1>1, <1>4, <1>5
  <2> QED
    BY <2>1, <2>2
<1>6. CASE k # Len(q)
  <2>1. k + 1 \in 1..Len(q) /\ Successor(q, t) = q[k + 1] /\ q[k + 1] \in Threads
    BY <1>1, <1>2, <1>6
  <2>2. q[k + 1] # t
    BY <1>1, <1>3, <2>1
  <2>3. q[k + 1] # End
    BY <2>1, WaitHandlesAssumption
  <2>4. ASSUME NEW u, Before(q, t, u), u # q[k + 1]
        PROVE  Before(q, q[k + 1], u)
    <3>1. PICK j \in 1..Len(q) : k < j /\ q[j] = u
      BY <1>4, <2>4
    <3>2. k + 1 < j
      BY <1>1, <2>4, <3>1
    <3> QED
      BY <2>1, <3>1, <3>2 DEF Before
  <2> QED
    BY <2>1, <2>2, <2>3, <2>4 DEF Contains
<1> QED
  BY <1>5, <1>6

(* PutInProperList moves one thread, and the others keep their order.          *)
LEMMA PutFacts ==
    ASSUME WaitingListed, NEW t \in Threads, NEW s \in Statuses, NEW susp \in BOOLEAN,
           PutInProperList(t, s, susp)
    PROVE  /\ status' = [status EXCEPT ![t] = s]
           /\ waitingList' \in Seq(Threads) /\ IsInjective(waitingList')
           /\ \A u : Contains(waitingList', u) <=>
                         IF u = t THEN s = "Waiting" \/ (s = "Ready" /\ susp)
                         ELSE Contains(waitingList, u)
           /\ \A u, v : u # t /\ v # t =>
                         (Before(waitingList', u, v) <=> Before(waitingList, u, v))
           /\ wait' = IF s = "Waiting" \/ (s = "Ready" /\ susp) THEN wait
                      ELSE [wait EXCEPT ![t] = NoWait]
<1>1. waitingList \in Seq(Threads) /\ IsInjective(waitingList)
  BY DEF WaitingListed, TypeOK
<1>2. CASE s = "Waiting" \/ (s = "Ready" /\ susp)
  <2>1. /\ waitingList' = LinkAtBack(waitingList, t) /\ wait' = wait
        /\ status' = [status EXCEPT ![t] = s]
    BY <1>2 DEF PutInProperList
  <2> QED
    BY <1>1, <1>2, <2>1, LinkAtBackFacts
<1>3. CASE ~(s = "Waiting" \/ (s = "Ready" /\ susp))
  <2>1. /\ waitingList' = Unlink(waitingList, t) /\ wait' = [wait EXCEPT ![t] = NoWait]
        /\ status' = [status EXCEPT ![t] = s]
    BY <1>3 DEF PutInProperList
  <2> QED
    BY <1>1, <1>3, <2>1, UnlinkFacts
<1> QED
  BY <1>2, <1>3

(* What the invariant says of one thread is kept by every PutInProperList that  *)
(* leaves no thread blocked that was not.                                    *)
LEMMA PutKeeps ==
    ASSUME ListInv, NEW t \in Threads, NEW s \in Statuses, NEW susp \in BOOLEAN,
           PutInProperList(t, s, susp),
           suspended' = [suspended EXCEPT ![t] = susp],
           NEW r \in Results, result' = [result EXCEPT ![t] = r],
           s = "Waiting" => status[t] = "Waiting" /\ r = result[t],
           s = "Terminated" => ~susp
    PROVE  ThreadsListed'
<1>1. /\ status \in [Threads -> Statuses] /\ suspended \in [Threads -> BOOLEAN]
      /\ wait \in [Threads -> Waits \cup {NoWait}] /\ result \in [Threads -> Results]
  BY DEF ListInv, WaitingListed, TypeOK, Statuses
<1>2. /\ status' = [status EXCEPT ![t] = s]
      /\ waitingList' \in Seq(Threads) /\ IsInjective(waitingList')
      /\ \A u : Contains(waitingList', u) <=>
                    IF u = t THEN s = "Waiting" \/ (s = "Ready" /\ susp)
                    ELSE Contains(waitingList, u)
      /\ wait' = IF s = "Waiting" \/ (s = "Ready" /\ susp) THEN wait
                 ELSE [wait EXCEPT ![t] = NoWait]
  BY PutFacts DEF ListInv
<1>3. \A u \in Threads : Contains(waitingList, u) <=> status[u] = "Waiting" \/ suspended[u]
  BY DEF ListInv, WaitingListed
<1>4. wait' \in [Threads -> Waits \cup {NoWait}]
  BY <1>1, <1>2
<1>5. \A u \in Threads : Contains(waitingList', u) <=> status'[u] = "Waiting" \/ suspended'[u]
  BY <1>1, <1>2, <1>3 DEF Statuses
<1>6. WaitsInProgress'
  <2> SUFFICES ASSUME NEW u \in Threads
               PROVE  /\ status'[u] = "Waiting" => /\ wait'[u] # NoWait
                                                   /\ result'[u] = TH_WAIT_RESULT_INIT
                      /\ wait'[u] # NoWait => status'[u] = "Waiting" \/ suspended'[u]
    BY DEF WaitsInProgress
  <2>1. /\ status[u] = "Waiting" => wait[u] # NoWait /\ result[u] = TH_WAIT_RESULT_INIT
        /\ wait[u] # NoWait => status[u] = "Waiting" \/ suspended[u]
    BY DEF ListInv, WaitsInProgress
  <2>2. CASE u # t
    BY <1>1, <1>2, <2>1, <2>2
  <2>3. CASE u = t
    BY <1>1, <1>2, <2>1, <2>3
  <2> QED
    BY <2>2, <2>3
<1>7. EndedNotSuspended'
  BY <1>1, <1>2 DEF ListInv, EndedNotSuspended
<1> QED
  BY <1>1, <1>2, <1>4, <1>5, <1>6, <1>7 DEF ThreadsListed

-----------------------------------------------------------------------------
(* The loop of SignalObject.                                                *)

LEMMA SignalObjectFacts ==
    ASSUME NEW list \in Seq(Threads), IsInjective(list), NEW o \in Objects,
           signaled \in [Objects -> BOOLEAN], SignalObject(o, list)
    PROVE  /\ signaled' = [signaled EXCEPT ![o] = TRUE]
           /\ walk' \in Walks \cup {NoWalk}
           /\ list = <<>> => walk' = NoWalk
           /\ list # <<>> => /\ walk' # NoWalk /\ walk'.object = o
                             /\ walk'.th = Head(list) /\ Contains(list, walk'.th)
                             /\ walk'.next = Successor(list, walk'.th)
<1>1. CASE list = <<>>
  BY <1>1 DEF SignalObject
<1>2. CASE list # <<>>
  <2> DEFINE t == Head(list)
  <2>1. 1 \in 1..Len(list) /\ list[1] = t /\ t \in Threads
    BY <1>2
  <2> HIDE DEF t
  <2>2. Contains(list, t)
    BY <2>1 DEF Contains
  <2>3. Successor(list, t) \in Threads \cup {End}
    BY <2>1, <2>2, SuccessorFacts
  <2>4. walk' = [object |-> o, th |-> t, next |-> Successor(list, t)]
    BY <1>2 DEF SignalObject, t
  <2>5. walk' \in Walks
    BY <2>1, <2>3, <2>4 DEF Walks
  <2>6. walk' # NoWalk
    BY <2>5, WaitHandlesAssumption
  <2>7. signaled' = [signaled EXCEPT ![o] = TRUE]
    BY DEF SignalObject
  <2> QED
    BY <1>2, <2>2, <2>4, <2>5, <2>6, <2>7 DEF t
<1> QED
  BY <1>1, <1>2

LEMMA ResetConsumedFacts ==
    ASSUME NEW w, signaled \in [Objects -> BOOLEAN], ResetConsumed(w)
    PROVE  /\ signaled' \in [Objects -> BOOLEAN]
           /\ \A o \in Objects : signaled'[o] => signaled[o]
BY DEF ResetConsumed

(* The thread that was next before the list was changed is still in it.        *)
LEMMA NextTurnFacts ==
    ASSUME ListInv, walk # NoWalk,
           waitingList' \in Seq(Threads), IsInjective(waitingList'),
           \A u : u # walk.th /\ Contains(waitingList, u) => Contains(waitingList', u),
           NEW freed, walk' = NextTurn(waitingList', freed)
    PROVE  /\ walk' \in Walks \cup {NoWalk}
           /\ walk.next = End => walk' = NoWalk
           /\ walk.next # End => /\ walk' # NoWalk /\ walk'.object = walk.object
                                 /\ walk'.th = walk.next
                                 /\ Contains(waitingList', walk'.th)
                                 /\ walk'.next = Successor(waitingList', walk'.th)
<1>1. CASE walk.next = End
  BY <1>1 DEF NextTurn
<1>2. CASE walk.next # End
  <2>1. /\ walk \in Walks /\ waitingList \in Seq(Threads) /\ IsInjective(waitingList)
        /\ Contains(waitingList, walk.th) /\ walk.next = Successor(waitingList, walk.th)
    BY DEF ListInv, WaitingListed, TypeOK, WalkLinked
  <2>2. walk.th \in Threads /\ walk.object \in Objects
    BY <2>1 DEF Walks
  <2>3. Contains(waitingList, walk.next) /\ walk.next # walk.th /\ walk.next \in Threads
    BY <1>2, <2>1, <2>2, SuccessorFacts
  <2>4. Contains(waitingList', walk.next)
    BY <2>3
  <2>5. Successor(waitingList', walk.next) \in Threads \cup {End}
    BY <2>3, <2>4, SuccessorFacts
  <2>6. walk' = [walk EXCEPT !.th = walk.next, !.next = Successor(waitingList', walk.next)]
    BY <1>2 DEF NextTurn
  <2>7. /\ walk' \in Walks /\ walk'.object = walk.object /\ walk'.th = walk.next
        /\ walk'.next = Successor(waitingList', walk.next)
    BY <2>1, <2>2, <2>3, <2>5, <2>6 DEF Walks
  <2>8. walk' # NoWalk
    BY <2>7, WaitHandlesAssumption
  <2> QED
    BY <1>2, <2>4, <2>7, <2>8
<1> QED
  BY <1>1, <1>2

(* One turn of the loop frees its thread, or leaves everything as it is.       *)
LEMMA SignalStepFacts ==
    ASSUME ListInv, SignalStep
    PROVE  /\ walk # NoWalk /\ walk \in Walks /\ walk.th \in Threads
           /\ \/ /\ wait[walk.th] \in Waits
                 /\ CanReturn(wait[walk.th])
                 /\ result' = [result EXCEPT ![walk.th] = WaitResult(wait[walk.th])]
                 /\ ResetConsumed(wait[walk.th])
                 /\ PutInProperList(walk.th, "Ready", suspended[walk.th])
              \/ /\ wait[walk.th] = NoWait \/ ~CanReturn(wait[walk.th])
                 /\ UNCHANGED <<result, signaled, status, waitingList, wait>>
           /\ \/ walk' = NoWalk /\ ~signaled'[walk.object]
              \/ signaled'[walk.object] /\ \E freed : walk' = NextTurn(waitingList', freed)
           /\ UNCHANGED <<suspended, aborting>>
<1>1. walk # NoWalk /\ walk \in Walks
  BY DEF SignalStep, ListInv, WaitingListed, TypeOK
<1>2. walk.th \in Threads
  BY <1>1 DEF Walks
<1>3. wait[walk.th] \in Waits \cup {NoWait}
  BY <1>2 DEF ListInv, WaitingListed, TypeOK
<1> DEFINE t == walk.th
           freed == wait[t] # NoWait /\ CanReturn(wait[t])
<1>4. \/ walk' = NoWalk /\ ~signaled'[walk.object]
      \/ signaled'[walk.object] /\ walk' = NextTurn(waitingList', freed)
  BY DEF SignalStep, BreakLoop
<1>5. \/ walk' = NoWalk /\ ~signaled'[walk.object]
      \/ signaled'[walk.object] /\ \E f : walk' = NextTurn(waitingList', f)
  <2> HIDE DEF freed
  <2> QED
    BY <1>4
<1>6. CASE freed
  <2>1. /\ result' = [result EXCEPT ![t] = WaitResult(wait[t])]
        /\ ResetConsumed(wait[t]) /\ Restart(t) /\ UNCHANGED <<suspended, aborting>>
    BY <1>6 DEF SignalStep
  <2>2. PutInProperList(t, "Ready", suspended[t])
    BY <2>1 DEF Restart
  <2> QED
    BY <1>1, <1>2, <1>3, <1>5, <1>6, <2>1, <2>2
<1>7. CASE ~freed
  <2>1. UNCHANGED <<result, signaled, status, waitingList, wait, suspended, aborting>>
    BY <1>7 DEF SignalStep
  <2> QED
    BY <1>1, <1>2, <1>3, <1>5, <1>7, <2>1
<1> QED
  BY <1>6, <1>7

LEMMA SignalStepList ==
    ASSUME ListInv, SignalStep
    PROVE  ListInv'
<1>1. /\ walk # NoWalk /\ walk \in Walks /\ walk.th \in Threads
      /\ \/ walk' = NoWalk /\ ~signaled'[walk.object]
         \/ \E freed : walk' = NextTurn(waitingList', freed)
      /\ UNCHANGED <<suspended, aborting>>
  BY SignalStepFacts
<1> DEFINE t == walk.th
<1>2. TypeOK /\ suspended \in [Threads -> BOOLEAN] /\ signaled \in [Objects -> BOOLEAN]
  BY DEF ListInv, WaitingListed, TypeOK
<1>3. /\ ThreadsListed' /\ signaled' \in [Objects -> BOOLEAN]
      /\ \A u : u # t /\ Contains(waitingList, u) => Contains(waitingList', u)
  <2>1. CASE UNCHANGED <<result, signaled, status, waitingList, wait>>
    BY <1>1, <1>2, <2>1 DEF ListInv, WaitingListed, TypeOK, Statuses, ThreadsListed,
                            WaitsInProgress, EndedNotSuspended
  <2>2. CASE /\ wait[t] \in Waits /\ CanReturn(wait[t])
             /\ result' = [result EXCEPT ![t] = WaitResult(wait[t])]
             /\ ResetConsumed(wait[t]) /\ PutInProperList(t, "Ready", suspended[t])
    <3>1. PICK r \in Results : r = WaitResult(wait[t])
      BY <2>2, WaitResultType
    <3>2. PICK susp \in BOOLEAN : susp = suspended[t]
      BY <1>1, <1>2
    <3>3. suspended' = [suspended EXCEPT ![t] = susp]
      BY <1>1, <1>2, <3>2
    <3>4. PutInProperList(t, "Ready", susp) /\ result' = [result EXCEPT ![t] = r]
      BY <2>2, <3>1, <3>2
    <3>5. signaled' \in [Objects -> BOOLEAN]
      BY <1>2, <2>2, ResetConsumedFacts
    <3>6. ThreadsListed'
      BY <1>1, <3>3, <3>4, PutKeeps DEF Statuses
    <3>7. \A u : u # t /\ Contains(waitingList, u) => Contains(waitingList', u)
      BY <1>1, <3>4, PutFacts DEF ListInv, Statuses
    <3> QED
      BY <3>5, <3>6, <3>7
  <2> QED
    BY <2>1, <2>2, SignalStepFacts
<1>4. walk' \in Walks \cup {NoWalk} /\ WalkLinked'
  <2>1. CASE walk' = NoWalk
    BY <2>1 DEF WalkLinked
  <2>2. CASE \E freed : walk' = NextTurn(waitingList', freed)
    BY <1>1, <1>3, <2>2, NextTurnFacts DEF WalkLinked, ThreadsListed
  <2> QED
    BY <1>1, <2>1, <2>2
<1>5. aborting' \in [Threads -> BOOLEAN]
  BY <1>1, <1>2 DEF TypeOK
<1> QED
  BY <1>3, <1>4, <1>5 DEF ListInv, WaitingListed, TypeOK, Statuses, ThreadsListed

-----------------------------------------------------------------------------
(* The other actions.                                                       *)

(* No thread is blocked by the step, and who stays blocked waits for the same.  *)
NoneBlocked ==
    \A t \in Threads : status'[t] = "Waiting" => status[t] = "Waiting" /\ wait'[t] = wait[t]

LEMMA ListTypes ==
    ASSUME ListInv
    PROVE  /\ status \in [Threads -> Statuses] /\ suspended \in [Threads -> BOOLEAN]
           /\ waitingList \in Seq(Threads) /\ IsInjective(waitingList)
           /\ wait \in [Threads -> Waits \cup {NoWait}] /\ result \in [Threads -> Results]
           /\ aborting \in [Threads -> BOOLEAN] /\ signaled \in [Objects -> BOOLEAN]
           /\ walk \in Walks \cup {NoWalk}
           /\ ThreadsListed
BY DEF ListInv, WaitingListed, TypeOK, Statuses, ThreadsListed

LEMMA ListInvParts ==
    ASSUME ThreadsListed', aborting' \in [Threads -> BOOLEAN],
           signaled' \in [Objects -> BOOLEAN], walk' \in Walks \cup {NoWalk}, WalkLinked'
    PROVE  ListInv'
BY DEF ListInv, WaitingListed, TypeOK, Statuses, ThreadsListed

(* The actions that call PutInProperList for one thread.                      *)
LEMMA PutAction ==
    ASSUME ListInv, NEW t \in Threads, NEW s \in Statuses, NEW susp \in BOOLEAN,
           PutInProperList(t, s, susp),
           suspended' = [suspended EXCEPT ![t] = susp],
           NEW r \in Results, result' = [result EXCEPT ![t] = r],
           s = "Waiting" => status[t] = "Waiting" /\ r = result[t],
           s = "Terminated" => ~susp
    PROVE  ThreadsListed' /\ NoneBlocked
<1>1. ThreadsListed'
  BY PutKeeps
<1>2. /\ status' = [status EXCEPT ![t] = s]
      /\ wait' = IF s = "Waiting" \/ (s = "Ready" /\ susp) THEN wait
                 ELSE [wait EXCEPT ![t] = NoWait]
  BY PutFacts DEF ListInv
<1>3. NoneBlocked
  BY <1>2, ListTypes DEF NoneBlocked
<1> QED
  BY <1>1, <1>3

LEMMA WaitForSignalList ==
    ASSUME ListInv, NEW t \in Threads, NEW w \in Waits, WaitForSignal(t, w)
    PROVE  /\ ListInv' /\ walk = NoWalk /\ walk' = NoWalk
           /\ result[t] = Idle /\ \A u \in Threads : u # t => result'[u] = result[u]
           /\ signaled' \in [Objects -> BOOLEAN]
           /\ \A o \in Objects : signaled'[o] => signaled[o]
           /\ \A u \in Threads : status'[u] = "Waiting" =>
                  \/ status[u] = "Waiting" /\ wait'[u] = wait[u]
                  \/ wait'[u] \in Waits /\ ~CanReturn(wait'[u])
<1>1. /\ walk = NoWalk /\ result[t] = Idle /\ status[t] = "Ready" /\ ~suspended[t]
      /\ UNCHANGED <<suspended, aborting, walk>>
  BY DEF WaitForSignal, Free, Running
<1>2. CASE ResetConsumed(w) /\ UNCHANGED <<status, waitingList, wait, result>>
  <2>1. signaled' \in [Objects -> BOOLEAN] /\ \A o \in Objects : signaled'[o] => signaled[o]
    BY <1>2, ListTypes, ResetConsumedFacts
  <2>2. ThreadsListed'
    BY <1>1, <1>2, ListTypes DEF ThreadsListed, WaitsInProgress, EndedNotSuspended
  <2>3. ListInv'
    BY <1>1, <2>1, <2>2, ListTypes, ListInvParts DEF WalkLinked
  <2> QED
    BY <1>1, <1>2, <2>1, <2>3
<1>3. CASE /\ ~CanReturn(w) /\ status' = [status EXCEPT ![t] = "Waiting"]
           /\ waitingList' = LinkAtBack(waitingList, t) /\ wait' = [wait EXCEPT ![t] = w]
           /\ result' = [result EXCEPT ![t] = TH_WAIT_RESULT_INIT] /\ UNCHANGED signaled
  <2>1. /\ waitingList' \in Seq(Threads) /\ IsInjective(waitingList')
        /\ \A u : Contains(waitingList', u) <=> Contains(waitingList, u) \/ u = t
    BY <1>3, ListTypes, LinkAtBackFacts
  <2>2. w # NoWait
    BY WaitHandlesAssumption
  <2>3. ThreadsListed'
    <3>1. /\ status' \in [Threads -> Statuses] /\ wait' \in [Threads -> Waits \cup {NoWait}]
          /\ result' \in [Threads -> Results]
      BY <1>3, ListTypes DEF Statuses, Results
    <3>2. \A u \in Threads : Contains(waitingList', u) <=>
                                 status'[u] = "Waiting" \/ suspended'[u]
      BY <1>1, <1>3, <2>1, ListTypes DEF ThreadsListed
    <3>3. WaitsInProgress' /\ EndedNotSuspended'
      BY <1>1, <1>3, <2>2, ListTypes DEF ThreadsListed, WaitsInProgress, EndedNotSuspended
    <3> QED
      BY <1>1, <2>1, <3>1, <3>2, <3>3, ListTypes DEF ThreadsListed
  <2>4. ListInv'
    BY <1>1, <1>3, <2>3, ListTypes, ListInvParts DEF WalkLinked
  <2>5. \A u \in Threads : u # t => result'[u] = result[u]
    BY <1>3, ListTypes
  <2>6. \A u \in Threads : status'[u] = "Waiting" =>
            \/ status[u] = "Waiting" /\ wait'[u] = wait[u]
            \/ wait'[u] \in Waits /\ ~CanReturn(wait'[u])
    BY <1>3, ListTypes
  <2> QED
    BY <1>1, <1>3, <2>4, <2>5, <2>6, ListTypes
<1> QED
  BY <1>2, <1>3 DEF WaitForSignal

LEMMA WaitReturnsList ==
    ASSUME ListInv, NEW t \in Threads, WaitReturns(t) \/ AbortCaught(t)
    PROVE  /\ ListInv' /\ NoneBlocked /\ walk = NoWalk /\ UNCHANGED <<signaled, walk>>
           /\ result' = [result EXCEPT ![t] = Idle]
<1>1. /\ walk = NoWalk /\ status[t] = "Ready" /\ result' = [result EXCEPT ![t] = Idle]
      /\ UNCHANGED <<status, suspended, waitingList, wait, signaled, walk>>
      /\ aborting' \in [Threads -> BOOLEAN]
  BY ListTypes DEF WaitReturns, AbortCaught, Running
<1>2. result' \in [Threads -> Results]
  BY <1>1, ListTypes DEF Results
<1>3. ThreadsListed'
  BY <1>1, <1>2, ListTypes DEF ThreadsListed, WaitsInProgress, EndedNotSuspended
<1> QED
  BY <1>1, <1>3, ListTypes, ListInvParts DEF WalkLinked, NoneBlocked

LEMMA SetList ==
    ASSUME ListInv, NEW t \in Threads, NEW o \in Events, Set(t, o)
    PROVE  /\ ListInv' /\ NoneBlocked /\ walk = NoWalk /\ UNCHANGED result
           /\ signaled' = [signaled EXCEPT ![o] = TRUE]
           /\ SignalObject(o, waitingList')
<1>1. /\ walk = NoWalk /\ SignalObject(o, waitingList) /\ o \in Objects
      /\ UNCHANGED <<status, suspended, waitingList, wait, result, aborting>>
  BY DEF Set, Free, Running, Objects
<1>2. /\ signaled' = [signaled EXCEPT ![o] = TRUE] /\ walk' \in Walks \cup {NoWalk}
      /\ WalkLinked'
  BY <1>1, ListTypes, SignalObjectFacts DEF WalkLinked
<1>3. ThreadsListed'
  BY <1>1, ListTypes DEF ThreadsListed, WaitsInProgress, EndedNotSuspended
<1>4. signaled' \in [Objects -> BOOLEAN]
  BY <1>2, ListTypes
<1>5. ListInv'
  BY <1>1, <1>2, <1>3, <1>4, ListTypes, ListInvParts
<1> QED
  BY <1>1, <1>2, <1>5 DEF NoneBlocked

LEMMA ResetList ==
    ASSUME ListInv, NEW t \in Threads, NEW o \in Events, Reset(t, o)
    PROVE  /\ ListInv' /\ NoneBlocked /\ walk = NoWalk /\ UNCHANGED <<result, walk>>
           /\ \A p \in Objects : signaled'[p] => signaled[p]
<1>1. /\ walk = NoWalk /\ signaled' = [signaled EXCEPT ![o] = FALSE]
      /\ UNCHANGED <<status, suspended, waitingList, wait, result, aborting, walk>>
  BY DEF Reset, Free, Running
<1>2. ThreadsListed'
  BY <1>1, ListTypes DEF ThreadsListed, WaitsInProgress, EndedNotSuspended
<1>3. signaled' \in [Objects -> BOOLEAN] /\ \A p \in Objects : signaled'[p] => signaled[p]
  BY <1>1, ListTypes
<1>4. ListInv'
  BY <1>1, <1>2, <1>3, ListTypes, ListInvParts DEF WalkLinked
<1> QED
  BY <1>1, <1>3, <1>4 DEF NoneBlocked

LEMMA ControlList ==
    ASSUME ListInv, NEW t \in Threads, NEW u \in Threads,
           Suspend(t, u) \/ Resume(t, u) \/ Abort(t, u)
    PROVE  ListInv' /\ NoneBlocked /\ walk = NoWalk /\ UNCHANGED <<result, signaled, walk>>
<1>1. /\ walk = NoWalk /\ UNCHANGED <<result, signaled, walk>>
      /\ aborting' \in [Threads -> BOOLEAN]
  BY ListTypes DEF Suspend, Resume, Abort, Free, Running
<1>2. PICK r \in Results : r = result[u]
  BY ListTypes
<1>3. result' = [result EXCEPT ![u] = r]
  BY <1>1, <1>2, ListTypes
<1>4. \E s \in Statuses, susp \in BOOLEAN :
          /\ PutInProperList(u, s, susp)
          /\ suspended' = [suspended EXCEPT ![u] = susp]
          /\ s = "Waiting" => status[u] = "Waiting"
          /\ s = "Terminated" => ~susp
  <2>1. PICK s \in Statuses : s = status[u]
    BY ListTypes
  <2>2. CASE Suspend(t, u)
    <3>1. PutInProperList(u, s, TRUE) /\ suspended' = [suspended EXCEPT ![u] = TRUE]
      BY <2>1, <2>2 DEF Suspend
    <3>2. s # "Terminated"
      BY <2>1, <2>2 DEF Suspend
    <3> QED
      BY <2>1, <3>1, <3>2
  <2>3. CASE Resume(t, u)
    <3>1. PutInProperList(u, s, FALSE) /\ suspended' = [suspended EXCEPT ![u] = FALSE]
      BY <2>1, <2>3 DEF Resume
    <3> QED
      BY <2>1, <3>1
  <2>4. CASE Abort(t, u)
    <3>1. PICK susp \in BOOLEAN : susp = suspended[u]
      BY ListTypes
    <3>2. PutInProperList(u, "Ready", susp) /\ suspended' = [suspended EXCEPT ![u] = susp]
      BY <2>4, <3>1, ListTypes DEF Abort, Restart
    <3> QED
      BY <3>2 DEF Statuses
  <2> QED
    BY <2>2, <2>3, <2>4
<1>5. PICK s \in Statuses, susp \in BOOLEAN :
          /\ PutInProperList(u, s, susp)
          /\ suspended' = [suspended EXCEPT ![u] = susp]
          /\ s = "Waiting" => status[u] = "Waiting"
          /\ s = "Terminated" => ~susp
  BY <1>4
<1>6. ThreadsListed' /\ NoneBlocked
  <2>1. s = "Waiting" => status[u] = "Waiting" /\ r = result[u]
    BY <1>2, <1>5
  <2> QED
    BY <1>3, <1>5, <2>1, PutAction, Zenon
<1> QED
  BY <1>1, <1>6, ListTypes, ListInvParts DEF WalkLinked

LEMMA ExitList ==
    ASSUME ListInv, NEW t \in Threads, Exit(t)
    PROVE  /\ ListInv' /\ NoneBlocked /\ walk = NoWalk
           /\ result' = [result EXCEPT ![t] = Idle]
           /\ signaled' = [signaled EXCEPT ![t] = TRUE]
           /\ SignalObject(t, waitingList')
<1>1. /\ walk = NoWalk /\ ~suspended[t] /\ UNCHANGED suspended
      /\ PutInProperList(t, "Terminated", FALSE)
      /\ SignalObject(t, waitingList')
      /\ result' = [result EXCEPT ![t] = Idle] /\ t \in Objects
      /\ aborting' \in [Threads -> BOOLEAN]
  BY ListTypes DEF Exit, Objects
<1>2. suspended' = [suspended EXCEPT ![t] = FALSE]
  BY <1>1, ListTypes
<1>3. ThreadsListed' /\ NoneBlocked
  BY <1>1, <1>2, PutAction DEF Statuses, Results
<1>4. waitingList' \in Seq(Threads) /\ IsInjective(waitingList')
  BY <1>3 DEF ThreadsListed
<1>5. /\ signaled' = [signaled EXCEPT ![t] = TRUE] /\ walk' \in Walks \cup {NoWalk}
      /\ WalkLinked'
  BY <1>1, <1>4, ListTypes, SignalObjectFacts DEF WalkLinked
<1>6. signaled' \in [Objects -> BOOLEAN]
  BY <1>5, ListTypes
<1>7. ListInv'
  BY <1>1, <1>3, <1>5, <1>6, ListInvParts
<1> QED
  BY <1>1, <1>3, <1>5, <1>7

LEMMA TimeoutList ==
    ASSUME ListInv, NEW t \in Threads, TimeoutExpired(t)
    PROVE  /\ ListInv' /\ NoneBlocked /\ walk = NoWalk /\ UNCHANGED <<signaled, walk>>
           /\ status[t] = "Waiting" \/ suspended[t]
           /\ result' = [result EXCEPT ![t] = TH_WAIT_RESULT_TIMEOUT]
<1>1. /\ walk = NoWalk /\ UNCHANGED <<suspended, aborting, signaled, walk>>
      /\ PutInProperList(t, "Ready", suspended[t]) /\ wait[t] # NoWait
      /\ result' = [result EXCEPT ![t] = TH_WAIT_RESULT_TIMEOUT]
  BY DEF TimeoutExpired, Restart
<1>2. PICK susp \in BOOLEAN : susp = suspended[t]
  BY ListTypes
<1>3. PutInProperList(t, "Ready", susp) /\ suspended' = [suspended EXCEPT ![t] = susp]
  BY <1>1, <1>2, ListTypes
<1>4. ThreadsListed' /\ NoneBlocked
  BY <1>1, <1>3, PutAction DEF Statuses, Results
<1>5. status[t] = "Waiting" \/ suspended[t]
  BY <1>1 DEF ListInv, WaitsInProgress
<1> QED
  BY <1>1, <1>4, <1>5, ListTypes, ListInvParts DEF WalkLinked

-----------------------------------------------------------------------------
(* The list.                                                                *)

LEMMA NextList == ListInv /\ [Next]_vars => ListInv'
<1> SUFFICES ASSUME ListInv, [Next]_vars
             PROVE  ListInv'
  OBVIOUS
<1>1. CASE SignalStep
  BY <1>1, SignalStepList
<1>2. ASSUME NEW t \in Threads, NEW l \in HandleLists, NEW all \in BOOLEAN, NEW timed \in BOOLEAN,
             WaitForSignal(t, [objects |-> l, all |-> all, timed |-> timed])
      PROVE  ListInv'
  <2>1. [objects |-> l, all |-> all, timed |-> timed] \in Waits
    BY DEF Waits
  <2> QED
    BY <1>2, <2>1, WaitForSignalList
<1>3. ASSUME NEW t \in Threads, NEW u \in Threads, NEW timed \in BOOLEAN, Join(t, u, timed)
      PROVE  ListInv'
  <2>1. [objects |-> <<u>>, all |-> FALSE, timed |-> timed] \in Waits
    BY DEF Waits
  <2> QED
    BY <1>3, <2>1, WaitForSignalList DEF Join
<1>4. ASSUME NEW t \in Threads, NEW o \in Events, Set(t, o) \/ Reset(t, o)
      PROVE  ListInv'
  BY <1>4, SetList, ResetList
<1>5. ASSUME NEW t \in Threads, NEW u \in Threads, Suspend(t, u) \/ Resume(t, u) \/ Abort(t, u)
      PROVE  ListInv'
  BY <1>5, ControlList
<1>6. ASSUME NEW t \in Threads, WaitReturns(t) \/ AbortCaught(t) \/ Exit(t) \/ TimeoutExpired(t)
      PROVE  ListInv'
  BY <1>6, WaitReturnsList, ExitList, TimeoutList
<1>7. CASE UNCHANGED vars
  BY <1>7 DEF vars, ListInv, WaitingListed, TypeOK, WaitsInProgress, EndedNotSuspended, WalkLinked
<1> QED
  BY <1>1, <1>2, <1>3, <1>4, <1>5, <1>6, <1>7 DEF Next

LEMMA InitList == Init => ListInv
<1> SUFFICES ASSUME Init
             PROVE  ListInv
  OBVIOUS
<1>1. waitingList = <<>> /\ waitingList \in Seq(Threads)
  BY DEF Init
<1>2. IsInjective(waitingList) /\ \A t : ~Contains(waitingList, t)
  BY <1>1 DEF IsInjective, Contains
<1>3. TypeOK
  BY <1>1 DEF Init, TypeOK, Results
<1>4. \A t \in Threads : status[t] = "Ready" /\ ~suspended[t] /\ wait[t] = NoWait
  BY DEF Init
<1>5. walk = NoWalk
  BY DEF Init
<1> QED
  BY <1>2, <1>3, <1>4, <1>5 DEF ListInv, WaitingListed, WaitsInProgress, EndedNotSuspended,
                               WalkLinked

(* Every variable keeps its type, among them the results of Wait: a wait for    *)
(* any handle that can return has a first signaled handle.                    *)
THEOREM TypeCorrect == Spec => []TypeOK
<1>1. Init => ListInv
  BY InitList
<1>2. ListInv /\ [Next]_vars => ListInv'
  BY NextList
<1>3. ListInv => TypeOK
  BY DEF ListInv, WaitingListed
<1>4. QED
  BY <1>1, <1>2, <1>3, PTL DEF Spec

(* m_threadsWaiting holds once each thread that is blocked or suspended, and    *)
(* no other, also while SignalObject moves threads within the list it walks.    *)
THEOREM WaitingListedCorrect == Spec => []WaitingListed
<1>1. Init => ListInv
  BY InitList
<1>2. ListInv /\ [Next]_vars => ListInv'
  BY NextList
<1>3. ListInv => WaitingListed
  BY DEF ListInv
<1>4. QED
  BY <1>1, <1>2, <1>3, PTL DEF Spec

-----------------------------------------------------------------------------
(* A wait ends once.                                                        *)

EndsOnce(t) ==
    result[t] # TH_WAIT_RESULT_INIT /\ result[t] # Idle /\ ~suspended[t] =>
        result'[t] \in {result[t], Idle}

LEMMA NextEndsOnce ==
    ASSUME ListInv, [Next]_vars, NEW u \in Threads
    PROVE  EndsOnce(u)
<1> SUFFICES ASSUME result[u] # TH_WAIT_RESULT_INIT, result[u] # Idle, ~suspended[u]
             PROVE  result'[u] \in {result[u], Idle}
  BY DEF EndsOnce
<1>1. status[u] # "Waiting" /\ wait[u] = NoWait
  BY DEF ListInv, WaitsInProgress
<1>2. CASE SignalStep
  <2>1. \/ /\ wait[walk.th] \in Waits
           /\ result' = [result EXCEPT ![walk.th] = WaitResult(wait[walk.th])]
        \/ UNCHANGED result
    BY <1>2, SignalStepFacts
  <2>2. wait[walk.th] \in Waits => walk.th # u
    BY <1>1, WaitHandlesAssumption
  <2> QED
    BY <2>1, <2>2, ListTypes
<1>3. ASSUME NEW t \in Threads, NEW w \in Waits, WaitForSignal(t, w)
      PROVE  result'[u] = result[u]
  <2>1. result[t] = Idle /\ \A v \in Threads : v # t => result'[v] = result[v]
    BY <1>3, WaitForSignalList
  <2> QED
    BY <2>1
<1>4. ASSUME NEW t \in Threads, NEW l \in HandleLists, NEW all \in BOOLEAN, NEW timed \in BOOLEAN,
             WaitForSignal(t, [objects |-> l, all |-> all, timed |-> timed])
      PROVE  result'[u] = result[u]
  <2>1. [objects |-> l, all |-> all, timed |-> timed] \in Waits
    BY DEF Waits
  <2> QED
    BY <1>3, <1>4, <2>1
<1>5. ASSUME NEW t \in Threads, NEW v \in Threads, NEW timed \in BOOLEAN, Join(t, v, timed)
      PROVE  result'[u] = result[u]
  <2>1. [objects |-> <<v>>, all |-> FALSE, timed |-> timed] \in Waits
    BY DEF Waits
  <2> QED
    BY <1>3, <1>5, <2>1 DEF Join
<1>6. ASSUME NEW t \in Threads, NEW o \in Events, Set(t, o) \/ Reset(t, o)
      PROVE  result'[u] = result[u]
  BY <1>6 DEF Set, Reset
<1>7. ASSUME NEW t \in Threads, NEW v \in Threads, Suspend(t, v) \/ Resume(t, v) \/ Abort(t, v)
      PROVE  result'[u] = result[u]
  BY <1>7, ControlList
<1>8. ASSUME NEW t \in Threads, WaitReturns(t) \/ AbortCaught(t) \/ Exit(t)
      PROVE  result'[u] \in {result[u], Idle}
  <2>1. result' = [result EXCEPT ![t] = Idle]
    BY <1>8, WaitReturnsList, ExitList
  <2> QED
    BY <2>1, ListTypes
<1>9. ASSUME NEW t \in Threads, TimeoutExpired(t)
      PROVE  result'[u] = result[u]
  <2>1. /\ status[t] = "Waiting" \/ suspended[t]
        /\ result' = [result EXCEPT ![t] = TH_WAIT_RESULT_TIMEOUT]
    BY <1>9, TimeoutList
  <2>2. t # u
    BY <1>1, <2>1
  <2> QED
    BY <2>1, <2>2, ListTypes
<1>10. CASE UNCHANGED vars
  BY <1>10 DEF vars
<1> QED
  BY <1>2, <1>4, <1>5, <1>6, <1>7, <1>8, <1>9, <1>10 DEF Next

(* A wait ends once: no second signal is consumed for it and no late time-out   *)
(* replaces its result, because the wait object goes when the thread does.     *)
THEOREM WaitEndsOnceCorrect == Spec => WaitEndsOnce
<1>1. Init => ListInv
  BY InitList
<1>2. ListInv /\ [Next]_vars => ListInv'
  BY NextList
<1>3. ListInv /\ [Next]_vars => \A t \in Threads : EndsOnce(t)
  BY NextEndsOnce
<1>4. ListInv /\ [Next]_vars =>
          [\A t \in Threads :
               result[t] # TH_WAIT_RESULT_INIT /\ result[t] # Idle /\ ~suspended[t] =>
                   result'[t] \in {result[t], Idle}]_vars
  BY <1>3 DEF EndsOnce
<1>5. QED
  BY <1>1, <1>2, <1>4, PTL DEF Spec, WaitEndsOnce

-----------------------------------------------------------------------------
(* No signal is missed.                                                     *)

(* A step between two calls that blocks nobody and signals nothing.           *)
LEMMA QuietSignal ==
    ASSUME SignalInv, ListInv', walk = NoWalk, walk' = NoWalk,
           \A o \in Objects : signaled'[o] => signaled[o],
           \A t \in Threads : status'[t] = "Waiting" =>
               \/ status[t] = "Waiting" /\ wait'[t] = wait[t]
               \/ wait'[t] \in Waits /\ ~CanReturn(wait'[t])
    PROVE  SignalInv'
<1> SUFFICES ASSUME NEW t \in Threads, status'[t] = "Waiting", CanReturn(wait[t])'
             PROVE  FALSE
  BY DEF SignalInv, WalkAhead, NoMissedSignal
<1>1. wait'[t] \in Waits
  BY ListTypes DEF ListInv, WaitsInProgress, WaitingListed, TypeOK
<1>2. PICK w \in Waits : w = wait'[t]
  BY <1>1
<1>3. CanEnd(signaled', w)
  BY <1>2 DEF CanReturn, SomeSignaled, CanEnd
<1>4. CanReturn(w)
  BY <1>3, CanEndMonotone, CanReturnIsCanEnd
<1>5. status[t] = "Waiting" => ~CanReturn(wait[t])
  BY DEF SignalInv, NoMissedSignal
<1> QED
  BY <1>2, <1>4, <1>5

(* An object is signaled between two calls: all threads it could free are        *)
(* ahead of the loop, and none of them could be freed without it.              *)
LEMMA SignalAhead ==
    ASSUME SignalInv, ListInv', walk = NoWalk, NoneBlocked,
           NEW o \in Objects, signaled' = [signaled EXCEPT ![o] = TRUE],
           SignalObject(o, waitingList')
    PROVE  SignalInv'
<1> DEFINE list == waitingList'
<1>1. /\ list \in Seq(Threads) /\ IsInjective(list)
      /\ \A t \in Threads : Contains(list, t) <=> status'[t] = "Waiting" \/ suspended'[t]
      /\ signaled \in [Objects -> BOOLEAN]
  BY ListTypes DEF SignalInv, ListInv, WaitingListed, TypeOK
<1>2. /\ list = <<>> => walk' = NoWalk
      /\ list # <<>> => walk' # NoWalk /\ walk'.object = o /\ walk'.th = Head(list)
  BY <1>1, SignalObjectFacts
<1>3. ASSUME NEW t \in Threads, status'[t] = "Waiting", CanReturn(wait[t])'
      PROVE  /\ list # <<>>
             /\ t = Head(list) \/ Before(list, Head(list), t)
             /\ ~CanEnd([signaled' EXCEPT ![o] = FALSE], wait'[t])
  <2>1. Contains(list, t)
    BY <1>1, <1>3
  <2>2. PICK k \in 1..Len(list) : list[k] = t
    BY <2>1 DEF Contains
  <2>3. list # <<>> /\ 1 \in 1..Len(list) /\ Head(list) = list[1]
    BY <1>1, <2>2
  <2>4. t = Head(list) \/ Before(list, Head(list), t)
    <3>1. CASE k = 1
      BY <2>2, <2>3, <3>1
    <3>2. CASE k # 1
      <4>1. 1 < k
        BY <3>2
      <4> QED
        BY <2>2, <2>3, <4>1 DEF Before
    <3> QED
      BY <3>1, <3>2
  <2>5. status[t] = "Waiting" /\ wait'[t] = wait[t] /\ ~CanReturn(wait[t])
    BY <1>3 DEF NoneBlocked, SignalInv, NoMissedSignal
  <2>6. PICK w \in Waits : w = wait[t]
    BY <2>5, ListTypes DEF SignalInv, ListInv, WaitsInProgress
  <2>7. \A p \in Objects : [signaled' EXCEPT ![o] = FALSE][p] => signaled[p]
    BY <1>1
  <2>8. ~CanEnd([signaled' EXCEPT ![o] = FALSE], w)
    BY <2>5, <2>6, <2>7, CanEndMonotone, CanReturnIsCanEnd
  <2> QED
    BY <2>3, <2>4, <2>5, <2>6, <2>8
<1>4. signaled'[o] = TRUE
  BY <1>1
<1>5. WalkAhead'
  BY <1>2, <1>3, <1>4 DEF WalkAhead
<1>6. NoMissedSignal'
  BY <1>2, <1>3 DEF NoMissedSignal
<1> QED
  BY <1>5, <1>6 DEF SignalInv

(* A turn of the loop: a thread that still could be freed is behind the one      *)
(* whose turn it was, and needs the object of the loop.                       *)
LEMMA SignalStepAhead ==
    ASSUME SignalInv, SignalStep
    PROVE  SignalInv'
<1>1. ListInv /\ ListInv'
  BY SignalStepList DEF SignalInv
<1>2. walk # NoWalk /\ walk \in Walks
  BY <1>1, SignalStepFacts
<1> PICK th \in Threads, o \in Objects : th = walk.th /\ o = walk.object
  BY <1>2 DEF Walks
<1>3. /\ \/ walk' = NoWalk /\ ~signaled'[o]
         \/ signaled'[o] /\ \E freed : walk' = NextTurn(waitingList', freed)
      /\ UNCHANGED suspended
  BY <1>1, SignalStepFacts
<1>4. /\ signaled \in [Objects -> BOOLEAN]
      /\ \A p \in Objects : signaled'[p] => signaled[p]
      /\ \A u, v : u # th /\ v # th =>
             (Before(waitingList', u, v) <=> Before(waitingList, u, v))
      /\ \A u : u # th /\ Contains(waitingList, u) => Contains(waitingList', u)
      /\ \A t \in Threads : status'[t] = "Waiting" /\ CanReturn(wait[t])' =>
             /\ t # th /\ status[t] = "Waiting" /\ wait'[t] = wait[t]
  <2>1. CASE /\ wait[th] = NoWait \/ ~CanReturn(wait[th])
             /\ UNCHANGED <<result, signaled, status, waitingList, wait>>
    <3>1. status[th] = "Waiting" => ~CanReturn(wait[th])
      BY <1>1, <1>3, <2>1 DEF ListInv, WaitsInProgress
    <3>2. \A t \in Threads : CanReturn(wait[t])' <=> CanReturn(wait[t])
      BY <2>1 DEF CanReturn, SomeSignaled
    <3> QED
      BY <1>1, <2>1, <3>1, <3>2, ListTypes
  <2>2. CASE /\ wait[th] \in Waits /\ ResetConsumed(wait[th])
             /\ PutInProperList(th, "Ready", suspended[th])
    <3>1. PICK susp \in BOOLEAN : susp = suspended[th]
      BY <1>1, <1>3, ListTypes
    <3>2. PutInProperList(th, "Ready", susp)
      BY <2>2, <3>1
    <3>3. /\ status' = [status EXCEPT ![th] = "Ready"]
          /\ \A u : u # th /\ Contains(waitingList, u) => Contains(waitingList', u)
          /\ \A u, v : u # th /\ v # th =>
                 (Before(waitingList', u, v) <=> Before(waitingList, u, v))
          /\ wait' = IF susp THEN wait ELSE [wait EXCEPT ![th] = NoWait]
      BY <1>1, <1>3, <3>2, PutFacts DEF ListInv, Statuses
    <3>4. \A t \in Threads : status'[t] = "Waiting" =>
              t # th /\ status[t] = "Waiting" /\ wait'[t] = wait[t]
      BY <1>1, <3>3, ListTypes
    <3>5. \A p \in Objects : signaled'[p] => signaled[p]
      BY <1>1, <2>2, ListTypes, ResetConsumedFacts
    <3> QED
      BY <1>1, <3>3, <3>4, <3>5, ListTypes
  <2> QED
    BY <1>1, <2>1, <2>2, SignalStepFacts
<1>5. ASSUME NEW t \in Threads, status'[t] = "Waiting", CanReturn(wait[t])'
      PROVE  /\ Before(waitingList, th, t) /\ t # th
             /\ signaled'[o]
             /\ ~CanEnd([signaled' EXCEPT ![o] = FALSE], wait'[t])
  <2>1. t # th /\ status[t] = "Waiting" /\ wait'[t] = wait[t]
    BY <1>4, <1>5
  <2>2. PICK w \in Waits : w = wait[t]
    BY <1>1, <2>1, ListTypes DEF ListInv, WaitsInProgress
  <2>3. CanEnd(signaled', w)
    BY <1>5, <2>1, <2>2 DEF CanReturn, SomeSignaled, CanEnd
  <2>4. CanReturn(w)
    BY <1>4, <2>3, CanEndMonotone, CanReturnIsCanEnd
  <2>5. Before(waitingList, th, t) /\ ~CanEnd([signaled EXCEPT ![o] = FALSE], w)
    BY <1>2, <2>1, <2>2, <2>4 DEF SignalInv, WalkAhead
  <2>6. signaled' \in [Objects -> BOOLEAN]
    BY <1>1, ListTypes DEF ListInv, WaitingListed, TypeOK
  <2>7. signaled'[o]
    <3> SUFFICES ASSUME ~signaled'[o]
                 PROVE  FALSE
      OBVIOUS
    <3>1. \A p \in Objects : signaled'[p] => [signaled EXCEPT ![o] = FALSE][p]
      BY <1>4
    <3> QED
      BY <2>3, <2>5, <3>1, CanEndMonotone
  <2>8. \A p \in Objects : [signaled' EXCEPT ![o] = FALSE][p] =>
                               [signaled EXCEPT ![o] = FALSE][p]
    BY <1>4, <2>6
  <2>9. ~CanEnd([signaled' EXCEPT ![o] = FALSE], w)
    BY <2>5, <2>8, CanEndMonotone
  <2> QED
    BY <2>1, <2>2, <2>5, <2>7, <2>9
<1>6. CASE walk' = NoWalk /\ ~signaled'[o]
  BY <1>1, <1>5, <1>6 DEF SignalInv, WalkAhead, NoMissedSignal
<1>7. CASE signaled'[o] /\ \E freed : walk' = NextTurn(waitingList', freed)
  <2>1. PICK freed : walk' = NextTurn(waitingList', freed)
    BY <1>7
  <2>2. waitingList' \in Seq(Threads) /\ IsInjective(waitingList')
    BY <1>1 DEF ListInv, WaitingListed, TypeOK
  <2>3. /\ walk.next = End => walk' = NoWalk
        /\ walk.next # End => walk' # NoWalk /\ walk'.object = o /\ walk'.th = walk.next
    BY <1>2, <1>1, <1>4, <2>1, <2>2, NextTurnFacts
  <2>4. /\ walk.next = End => \A u : ~Before(waitingList, th, u)
        /\ walk.next # End => /\ walk.next # th
                              /\ \A u : Before(waitingList, th, u) =>
                                     u = walk.next \/ Before(waitingList, walk.next, u)
    <3>1. /\ Contains(waitingList, th) /\ walk.next = Successor(waitingList, th)
          /\ waitingList \in Seq(Threads) /\ IsInjective(waitingList)
      BY <1>2, <1>1, ListTypes DEF ListInv, WalkLinked
    <3> QED
      BY <3>1, SuccessorFacts
  <2>5. CASE walk.next = End
    BY <1>1, <1>5, <2>3, <2>4, <2>5 DEF SignalInv, WalkAhead, NoMissedSignal
  <2>6. CASE walk.next # End
    <3>1. ASSUME NEW t \in Threads, status'[t] = "Waiting", CanReturn(wait[t])'
          PROVE  /\ t = walk.next \/ Before(waitingList', walk.next, t)
                 /\ ~CanEnd([signaled' EXCEPT ![o] = FALSE], wait'[t])
      BY <1>4, <1>5, <2>4, <2>6, <3>1
    <3>2. WalkAhead'
      BY <1>7, <2>3, <2>6, <3>1 DEF WalkAhead
    <3> QED
      BY <1>1, <2>3, <2>6, <3>2 DEF SignalInv, NoMissedSignal
  <2> QED
    BY <2>5, <2>6
<1> QED
  BY <1>3, <1>6, <1>7

LEMMA NextSignal == SignalInv /\ [Next]_vars => SignalInv'
<1> SUFFICES ASSUME SignalInv, [Next]_vars
             PROVE  SignalInv'
  OBVIOUS
<1>1. ListInv /\ ListInv'
  BY NextList DEF SignalInv
<1>2. CASE SignalStep
  BY <1>2, SignalStepAhead
<1>3. ASSUME NEW t \in Threads, NEW w \in Waits, WaitForSignal(t, w)
      PROVE  SignalInv'
  BY <1>1, <1>3, WaitForSignalList, QuietSignal
<1>4. ASSUME NEW t \in Threads, NEW l \in HandleLists, NEW all \in BOOLEAN, NEW timed \in BOOLEAN,
             WaitForSignal(t, [objects |-> l, all |-> all, timed |-> timed])
      PROVE  SignalInv'
  <2>1. [objects |-> l, all |-> all, timed |-> timed] \in Waits
    BY DEF Waits
  <2> QED
    BY <1>3, <1>4, <2>1
<1>5. ASSUME NEW t \in Threads, NEW u \in Threads, NEW timed \in BOOLEAN, Join(t, u, timed)
      PROVE  SignalInv'
  <2>1. [objects |-> <<u>>, all |-> FALSE, timed |-> timed] \in Waits
    BY DEF Waits
  <2> QED
    BY <1>3, <1>5, <2>1 DEF Join
<1>6. ASSUME NEW t \in Threads, NEW o \in Events, Set(t, o)
      PROVE  SignalInv'
  <2>1. o \in Objects
    BY DEF Objects
  <2> QED
    BY <1>1, <1>6, <2>1, SetList, SignalAhead
<1>7. ASSUME NEW t \in Threads, Exit(t)
      PROVE  SignalInv'
  <2>1. t \in Objects
    BY DEF Objects
  <2> QED
    BY <1>1, <1>7, <2>1, ExitList, SignalAhead
<1>8. ASSUME NoneBlocked, walk = NoWalk, walk' = walk,
             \A p \in Objects : signaled'[p] => signaled[p]
      PROVE  SignalInv'
  BY <1>1, <1>8, QuietSignal DEF NoneBlocked
<1>9. ASSUME NEW t \in Threads, NEW o \in Events, Reset(t, o)
      PROVE  SignalInv'
  BY <1>1, <1>8, <1>9, ResetList
<1>10. ASSUME NEW t \in Threads, NEW u \in Threads, Suspend(t, u) \/ Resume(t, u) \/ Abort(t, u)
       PROVE  SignalInv'
  BY <1>1, <1>8, <1>10, ControlList
<1>11. ASSUME NEW t \in Threads, WaitReturns(t) \/ AbortCaught(t) \/ TimeoutExpired(t)
       PROVE  SignalInv'
  BY <1>1, <1>8, <1>11, WaitReturnsList, TimeoutList
<1>12. CASE UNCHANGED vars
  BY <1>1, <1>12 DEF vars, SignalInv, WalkAhead, NoMissedSignal, CanReturn, SomeSignaled
<1> QED
  BY <1>2, <1>4, <1>5, <1>6, <1>7, <1>9, <1>10, <1>11, <1>12 DEF Next

(* No signal is missed: between two calls no thread stays blocked although the  *)
(* handles it waits for are signaled, for any number of threads and handles and  *)
(* whatever is suspended, aborted or timed out while the loop has the list.     *)
THEOREM NoMissedSignalCorrect == Spec => []NoMissedSignal
<1>1. Init => SignalInv
  <2>1. Init => \A t \in Threads : status[t] = "Ready"
    BY DEF Init
  <2>2. Init => walk = NoWalk
    BY DEF Init
  <2> QED
    BY <2>1, <2>2, InitList DEF SignalInv, WalkAhead, NoMissedSignal
<1>2. SignalInv /\ [Next]_vars => SignalInv'
  BY NextSignal
<1>3. SignalInv => NoMissedSignal
  BY DEF SignalInv
<1>4. QED
  BY <1>1, <1>2, <1>3, PTL DEF Spec
=============================================================================
