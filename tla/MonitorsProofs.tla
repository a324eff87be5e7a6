---------------------------- MODULE MonitorsProofs ----------------------------
(***************************************************************************)
(* Invariants of Monitors proved for every set of threads and objects and   *)
(* every value of the bounds.                                               *)
(***************************************************************************)
EXTENDS Monitors, ListProofs, SequenceTheorems, FunctionTheorems, FiniteSetTheorems,
        TLAPS

(* An element other than the one removed is still in the queue.             *)
LEMMA RemoveAtKeeps ==
    ASSUME NEW S, NEW q \in Seq(S), NEW k \in DOMAIN q, NEW j \in DOMAIN q,
           j # k
    PROVE  \E m \in DOMAIN RemoveAt(q, k) : RemoveAt(q, k)[m] = q[j]
<1>1. k \in 1..Len(q) /\ j \in 1..Len(q)
  OBVIOUS
<1>2. PICK r \in Seq(S) :
          /\ r = RemoveAt(q, k) /\ Len(r) = Len(q) - 1
          /\ \A m \in 1..(Len(q) - 1) : r[m] = IF m < k THEN q[m] ELSE q[m + 1]
  BY <1>1, RemoveAtPositions
<1>3. CASE j < k
  <2>1. j \in DOMAIN r /\ r[j] = q[j]
    BY <1>1, <1>2, <1>3
  <2> QED
    BY <1>2, <2>1
<1>4. CASE j > k
  <2>1. j - 1 \in DOMAIN r /\ r[j - 1] = q[j]
    BY <1>1, <1>2, <1>4
  <2> QED
    BY <1>2, <2>1
<1> QED
  BY <1>1, <1>3, <1>4

-----------------------------------------------------------------------------
(* Types.  A destruction works on a subthread that exists; without this the  *)
(* number of subthreads would not stay in its range.                         *)

WalkLive == walk # NoWalk => subs[walk.th] >= 1

TypeInv == TypeOK /\ WalkLive

StatusType ==
    /\ status \in [Threads -> {"Ready", "Waiting", "Terminated", "Unstarted"}]
    /\ list \in [Threads -> {"ready", "waiting", "zombie"}]
    /\ sleeping \in [Threads -> BOOLEAN]
CountType == thCount \in [Threads -> Int] /\ sthCount \in [SubThreads -> Int]
LockType ==
    /\ owner \in [Objects -> Threads \cup {NoThread}]
    /\ recursion \in [Objects -> [SubThreads -> Nat]]
    /\ requests \in [Objects -> Seq(SubThreads)]

LEMMA RestartType ==
    ASSUME TypeOK, NEW t \in Threads, NEW d \in BOOLEAN, Restart(t, d)
    PROVE  StatusType'
<1>1. (sleeping[t] /\ suspended[t] /\ ~d) \in BOOLEAN
  OBVIOUS
<1>2. QED
  BY <1>1 DEF TypeOK, Restart, StatusType

LEMMA ChangeLockRequestCountType ==
    ASSUME TypeOK, NEW s \in SubThreads, NEW d \in Int,
           ChangeLockRequestCount(s, d)
    PROVE  StatusType' /\ CountType'
<1>1. s[1] \in Threads
  BY DEF SubThreads
<1>2. CountType'
  BY <1>1 DEF ChangeLockRequestCount, TypeOK, CountType
<1>3. CASE Restart(s[1], FALSE)
  BY <1>1, <1>2, <1>3, RestartType
<1>4. CASE /\ status' = [status EXCEPT ![s[1]] = "Waiting"]
           /\ UNCHANGED <<list, sleeping>>
  BY <1>1, <1>2, <1>4 DEF TypeOK, StatusType
<1>5. QED
  BY <1>3, <1>4 DEF ChangeLockRequestCount

LEMMA HeadTailType ==
    ASSUME NEW S, NEW q \in Seq(S), q # <<>>
    PROVE  Head(q) \in S /\ Tail(q) \in Seq(S)
  OBVIOUS

LEMMA ChangeOwnerType ==
    ASSUME TypeOK, NEW o \in Objects, ChangeOwner(o)
    PROVE  StatusType' /\ CountType' /\ LockType'
<1>1. requests[o] \in Seq(SubThreads)
  BY DEF TypeOK
<1>2. CASE requests[o] = <<>>
  <2>1. /\ owner' = [owner EXCEPT ![o] = NoThread]
        /\ recursion' = [recursion EXCEPT ![o] = [s \in SubThreads |-> 0]]
        /\ UNCHANGED <<requests, status, list, sleeping, countVars>>
    BY <1>2 DEF ChangeOwner
  <2>2. StatusType' /\ CountType'
    BY <2>1 DEF TypeOK, StatusType, CountType, countVars
  <2>3. LockType'
    BY <2>1 DEF TypeOK, LockType
  <2>4. QED
    BY <2>2, <2>3
<1>3. CASE requests[o] # <<>>
  <2> DEFINE sth == Head(requests[o])
  <2>1. /\ ChangeLockRequestCount(sth, -1)
        /\ requests' = [requests EXCEPT ![o] = Tail(@)]
        /\ owner' = [owner EXCEPT ![o] = sth[1]]
        /\ recursion' = [recursion EXCEPT ![o] =
                            [s \in SubThreads |-> IF s = sth THEN 1 ELSE 0]]
    BY <1>3 DEF ChangeOwner
  <2>2. sth \in SubThreads /\ Tail(requests[o]) \in Seq(SubThreads)
    BY <1>1, <1>3, HeadTailType
  <2> HIDE DEF sth
  <2>3. StatusType' /\ CountType'
    BY <2>1, <2>2, ChangeLockRequestCountType
  <2>4. sth[1] \in Threads
    BY <2>2 DEF SubThreads
  <2>5. LockType'
    BY <2>1, <2>2, <2>4 DEF TypeOK, LockType
  <2>6. QED
    BY <2>3, <2>5
<1>4. QED
  BY <1>2, <1>3

LEMMA SetOwnersType ==
    ASSUME TypeOK, NEW o \in Objects, NEW r \in [SubThreads -> Nat],
           SetOwners(o, r)
    PROVE  StatusType' /\ CountType' /\ LockType'
<1>1. CASE ChangeOwner(o)
  BY <1>1, ChangeOwnerType
<1>2. CASE /\ recursion' = [recursion EXCEPT ![o] = r]
           /\ UNCHANGED <<owner, requests, status, list, sleeping, countVars>>
  BY <1>2 DEF TypeOK, StatusType, CountType, LockType, countVars
<1>3. QED
  BY <1>1, <1>2 DEF SetOwners

LEMMA StartWalkType ==
    ASSUME TypeOK, NEW t \in Threads, NEW base \in 0..MaxSub,
           NEW self \in BOOLEAN, StartWalk(t, base, self)
    PROVE  walk' \in Walks /\ walk'.th = t
  BY DEF StartWalk, Walks, Locks

LEMMA InitType == Init => TypeInv
<1> SUFFICES ASSUME Init PROVE TypeInv
  OBVIOUS
<1>1. \A t \in Threads : 1 \in 0..MaxSub
  BY MonitorsAssumption
<1>2. status \in [Threads -> {"Ready", "Waiting", "Terminated", "Unstarted"}]
  BY DEF Init
<1>3. list \in [Threads -> {"ready", "waiting", "zombie"}]
  BY DEF Init
<1>4. hasFrames \in [Threads -> BOOLEAN]
  BY DEF Init
<1>5. /\ owner \in [Objects -> Threads \cup {NoThread}]
      /\ recursion \in [Objects -> [SubThreads -> Nat]]
      /\ requests \in [Objects -> Seq(SubThreads)]
  BY DEF Init
<1>6. /\ subs \in [Threads -> 0..MaxSub]
      /\ expiries \in [SubThreads -> 0..2]
      /\ thCount \in [Threads -> Int]
      /\ sthCount \in [SubThreads -> Int]
  BY <1>1 DEF Init
<1>7. /\ suspended \in [Threads -> BOOLEAN]
      /\ exception \in [Threads -> BOOLEAN]
      /\ sleeping \in [Threads -> BOOLEAN]
      /\ entering \in [Threads -> (Objects \X (1..MaxSub)) \cup {NotEntering}]
  BY DEF Init
<1>8. QED
  BY <1>2, <1>3, <1>4, <1>5, <1>6, <1>7 DEF Init, TypeInv, TypeOK, WalkLive

(* What a step of a destruction knows about the subthread it works on.       *)
LEMMA WalkTopType ==
    ASSUME TypeInv, walk # NoWalk
    PROVE  /\ walk \in Walks /\ walk.th \in Threads
           /\ walk.base \in 0..MaxSub /\ walk.self \in BOOLEAN
           /\ WalkTop \in SubThreads
<1>1. walk \in Walks
  BY DEF TypeInv, TypeOK
<1>2. walk.th \in Threads /\ walk.base \in 0..MaxSub /\ walk.self \in BOOLEAN
  BY <1>1 DEF Walks
<1>3. subs[walk.th] \in 1..MaxSub
  BY <1>2, MonitorsAssumption DEF TypeInv, TypeOK, WalkLive
<1>4. QED
  BY <1>1, <1>2, <1>3 DEF WalkTop, SubThreads

LEMMA EngineType ==
    ASSUME TypeInv, NEW t \in Threads, Engine(t)
    PROVE  TypeInv'
<1> USE DEF TypeInv
<1>1. CASE Schedule(t)
  BY <1>1 DEF Schedule, TypeOK, WalkLive, Idle, threadVars, subVars, countVars, lockVars
<1>2. CASE SleepExpired(t)
  <2>1. StatusType'
    BY <1>2, RestartType DEF SleepExpired
  <2>2. QED
    BY <1>2, <2>1 DEF SleepExpired, StatusType, TypeOK, WalkLive, subVars, countVars, lockVars
<1>3. CASE SpawnSystem(t)
  <2>1. StatusType'
    BY <1>3, RestartType DEF SpawnSystem
  <2>2. QED
    BY <1>3, <2>1 DEF SpawnSystem, StatusType, TypeOK, WalkLive, subVars, countVars, lockVars
<1>4. ASSUME NEW i \in 1..MaxSub, ConstraintExpired(t, i)
      PROVE  TypeInv'
  <2>1. /\ <<t, i>> \in SubThreads /\ expiries[<<t, i>>] \in 0..1
        /\ subs[t] >= 1 /\ i \in 0..MaxSub
    BY <1>4, MonitorsAssumption DEF ConstraintExpired, SubThreads, TypeOK
  <2>2. /\ expiries' \in [SubThreads -> 0..2]
        /\ exception' \in [Threads -> BOOLEAN]
    BY <1>4, <2>1 DEF ConstraintExpired, TypeOK
  <2>3. CASE Restart(t, TRUE) /\ UNCHANGED <<entering, walk>>
    <3>1. StatusType'
      BY <2>3, RestartType
    <3>2. QED
      BY <1>4, <2>2, <2>3, <3>1
      DEF ConstraintExpired, StatusType, TypeOK, WalkLive, countVars, lockVars
  <2>4. CASE /\ entering' = [entering EXCEPT ![t] = NotEntering]
             /\ StartWalk(t, i, FALSE)
             /\ UNCHANGED <<status, list, sleeping>>
    <3>1. walk' \in Walks /\ walk'.th = t
      BY <2>1, <2>4, StartWalkType
    <3>2. entering' \in [Threads -> (Objects \X (1..MaxSub)) \cup {NotEntering}]
      BY <2>4 DEF TypeOK
    <3>3. TypeOK'
      BY <1>4, <2>2, <2>4, <3>1, <3>2 DEF ConstraintExpired, TypeOK, countVars, lockVars
    <3>4. WalkLive'
      BY <1>4, <2>1, <3>1 DEF ConstraintExpired, WalkLive
    <3>5. QED
      BY <3>3, <3>4
  <2>5. QED
    BY <1>4, <2>3, <2>4 DEF ConstraintExpired
<1>5. QED
  BY <1>1, <1>2, <1>3, <1>4 DEF Engine

LEMMA DestroyType ==
    ASSUME TypeInv, Destroy
    PROVE  TypeInv'
<1>1. walk # NoWalk
  BY DEF Destroy, WalkLock, WalkRequest, WalkPop
<1>2. /\ walk \in Walks /\ walk.th \in Threads
      /\ walk.base \in 0..MaxSub /\ walk.self \in BOOLEAN
      /\ WalkTop \in SubThreads
  BY <1>1, WalkTopType
<1>3. TypeOK /\ WalkLive
  BY DEF TypeInv
<1>4. ASSUME NEW o \in Objects, WalkLock(o)
      PROVE  TypeInv'
  <2>1. [recursion[o] EXCEPT ![WalkTop] = 0] \in [SubThreads -> Nat]
    BY <1>3 DEF TypeOK
  <2>2. StatusType' /\ CountType' /\ LockType'
    BY <1>3, <1>4, <2>1, SetOwnersType DEF WalkLock
  <2>3. walk' \in Walks /\ walk'.th = walk.th
    BY <1>2, <1>4 DEF WalkLock, Walks
  <2>4. QED
    BY <1>2, <1>3, <1>4, <2>2, <2>3
    DEF WalkLock, TypeInv, TypeOK, WalkLive, StatusType, CountType, LockType, subVars
<1>5. ASSUME NEW o \in Objects, WalkRequest(o)
      PROVE  TypeInv'
  <2>1. requests[o] \in Seq(SubThreads)
    BY <1>3 DEF TypeOK
  <2>2. PICK k \in DOMAIN requests[o] :
            requests' = [requests EXCEPT ![o] = RemoveAt(@, k)]
    BY <1>5 DEF WalkRequest
  <2>3. requests' \in [Objects -> Seq(SubThreads)]
    <3>1. RemoveAt(requests[o], k) \in Seq(SubThreads)
      BY <2>1, <2>2, RemoveAtPositions
    <3> QED
      BY <1>3, <2>2, <3>1 DEF TypeOK
  <2>4. StatusType' /\ CountType'
    BY <1>2, <1>3, <1>5, ChangeLockRequestCountType DEF WalkRequest
  <2>5. QED
    BY <1>3, <1>5, <2>3, <2>4
    DEF WalkRequest, TypeInv, TypeOK, WalkLive, StatusType, CountType, subVars
<1>6. CASE WalkPop
  <2> DEFINE th == walk.th
             top == subs[th]
  <2>1. top \in 1..MaxSub /\ subs \in [Threads -> 0..MaxSub]
    BY <1>1, <1>2, <1>3, MonitorsAssumption DEF TypeOK, WalkLive
  <2>2. subs' \in [Threads -> 0..MaxSub]
    <3>1. /\ top - 1 \in 0..MaxSub
          /\ (IF top = walk.base /\ ~walk.self THEN top ELSE top - 1) \in 0..MaxSub
      BY <2>1, MonitorsAssumption
    <3>2. subs' = [subs EXCEPT ![th] =
                      IF top = walk.base /\ ~walk.self THEN top ELSE top - 1]
      BY <1>6 DEF WalkPop
    <3>3. QED
      BY <2>1, <3>1, <3>2
  <2>3. CASE walk' = NoWalk
    <3>1. StatusType'
      <4>1. CASE UNCHANGED <<status, list, sleeping>>
        BY <1>3, <4>1 DEF TypeOK, StatusType
      <4>2. CASE Restart(th, TRUE)
        BY <1>2, <1>3, <4>2, RestartType
      <4>3. CASE StartWalk(th, walk.base, walk.self) /\ UNCHANGED <<status, list, sleeping>>
        BY <4>1, <4>3
      <4>4. QED
        BY <1>6, <4>1, <4>2, <4>3 DEF WalkPop
    <3>2. QED
      BY <1>3, <1>6, <2>2, <2>3, <3>1
      DEF WalkPop, TypeInv, TypeOK, WalkLive, StatusType, countVars, lockVars
  <2>4. CASE /\ ~(top = walk.base \/ top = 1)
             /\ StartWalk(th, walk.base, walk.self)
             /\ UNCHANGED <<status, list, sleeping>>
    <3>1. walk' \in Walks /\ walk'.th = th
      BY <1>2, <1>3, <2>4, StartWalkType
    <3>2. subs'[th] >= 1
      BY <1>2, <1>6, <2>1, <2>4 DEF WalkPop
    <3>3. QED
      BY <1>3, <1>6, <2>2, <2>4, <3>1, <3>2
      DEF WalkPop, TypeInv, TypeOK, WalkLive, countVars, lockVars
  <2>5. QED
    BY <1>6, <2>3, <2>4 DEF WalkPop
<1>7. QED
  BY <1>4, <1>5, <1>6 DEF Destroy

(* Operations that touch neither locks nor counters.                        *)
LEMMA ThreadOperationType ==
    ASSUME TypeInv, NEW t \in Threads,
           \/ QuantumExpired(t) \/ EnterReturns(t) \/ Sleep(t)
           \/ InstallConstraint(t) \/ Catch(t)
           \/ \E u \in Threads : Suspend(t, u) \/ Resume(t, u) \/ Abort(t, u)
    PROVE  TypeInv'
<1> USE DEF TypeInv
<1>1. CASE QuantumExpired(t)
  BY <1>1 DEF QuantumExpired, Requeue, TypeOK, WalkLive, subVars, countVars, lockVars
<1>2. CASE EnterReturns(t)
  BY <1>2 DEF EnterReturns, TypeOK, WalkLive, subVars, countVars, lockVars
<1>3. CASE Sleep(t)
  BY <1>3 DEF Sleep, TypeOK, WalkLive, subVars, countVars, lockVars
<1>4. CASE InstallConstraint(t)
  <2>1. walk = NoWalk /\ UNCHANGED walk
    BY <1>4 DEF InstallConstraint, Running, InQuantum
  <2>2. /\ subs' \in [Threads -> 0..MaxSub]
        /\ expiries' \in [SubThreads -> 0..2]
        /\ sthCount' \in [SubThreads -> Int]
    <3>1. CASE /\ subs[t] < MaxSub
               /\ subs' = [subs EXCEPT ![t] = @ + 1]
               /\ expiries' = [expiries EXCEPT ![<<t, subs[t] + 1>>] = 0]
               /\ sthCount' = [sthCount EXCEPT ![<<t, subs[t] + 1>>] = 0]
      <4>1. subs[t] + 1 \in 1..MaxSub
        BY <3>1, MonitorsAssumption DEF TypeOK
      <4>2. <<t, subs[t] + 1>> \in SubThreads /\ 0 \in 0..2 /\ 0 \in Int
        BY <4>1 DEF SubThreads
      <4>3. subs' \in [Threads -> 0..MaxSub]
        BY <3>1, <4>1 DEF TypeOK
      <4>4. expiries' \in [SubThreads -> 0..2]
        BY <3>1, <4>2 DEF TypeOK
      <4>5. sthCount' \in [SubThreads -> Int]
        BY <3>1, <4>2 DEF TypeOK
      <4>6. QED
        BY <4>3, <4>4, <4>5
    <3>2. CASE /\ subs[t] > 1
               /\ expiries' = [expiries EXCEPT ![<<t, subs[t]>>] = 1]
               /\ UNCHANGED <<subs, sthCount>>
      <4>1. <<t, subs[t]>> \in SubThreads /\ 1 \in 0..2
        BY <3>2, MonitorsAssumption DEF TypeOK, SubThreads
      <4>2. expiries' \in [SubThreads -> 0..2]
        BY <3>2, <4>1 DEF TypeOK
      <4>3. QED
        BY <3>2, <4>2 DEF TypeOK
    <3>3. QED
      BY <1>4, <3>1, <3>2 DEF InstallConstraint
  <2>3. QED
    BY <1>4, <2>1, <2>2
    DEF InstallConstraint, TypeOK, WalkLive, threadVars, lockVars
<1>5. CASE Catch(t)
  BY <1>5 DEF Catch, TypeOK, WalkLive, subVars, countVars, lockVars
<1>6. ASSUME NEW u \in Threads, Suspend(t, u)
      PROVE  TypeInv'
  BY <1>6 DEF Suspend, TypeOK, WalkLive, subVars, countVars, lockVars
<1>7. ASSUME NEW u \in Threads, Resume(t, u)
      PROVE  TypeInv'
  <2>1. (sleeping[u] /\ status[u] # "Ready") \in BOOLEAN
    OBVIOUS
  <2>2. sleeping' \in [Threads -> BOOLEAN]
    BY <1>7, <2>1 DEF Resume, TypeOK
  <2>3. QED
    BY <1>7, <2>2 DEF Resume, TypeOK, WalkLive, subVars, countVars, lockVars
<1>8. ASSUME NEW u \in Threads, Abort(t, u)
      PROVE  TypeInv'
  <2>1. StatusType'
    BY <1>8, RestartType DEF Abort
  <2>2. QED
    BY <1>8, <2>1 DEF Abort, StatusType, TypeOK, WalkLive, subVars, countVars, lockVars
<1>9. QED
  BY <1>1, <1>2, <1>3, <1>4, <1>5, <1>6, <1>7, <1>8

LEMMA LockOperationType ==
    ASSUME TypeInv, NEW t \in Threads, NEW o \in Objects, NEW i \in 1..MaxSub,
           Enter(t, o, i) \/ Exit(t, o, i)
    PROVE  TypeInv'
<1> DEFINE s == <<t, i>>
<1>1. s \in SubThreads /\ <<o, i>> \in Objects \X (1..MaxSub)
  BY DEF SubThreads
<1>2. walk = NoWalk /\ UNCHANGED walk /\ TypeOK
  BY DEF Enter, Exit, Running, InQuantum, TypeInv
<1>3. CASE Enter(t, o, i)
  <2>1. CASE /\ owner' = [owner EXCEPT ![o] = t]
             /\ recursion' = [recursion EXCEPT ![o][s] = @ + 1]
             /\ UNCHANGED <<status, list, entering, countVars, requests, current>>
    <3>1. recursion' \in [Objects -> [SubThreads -> Nat]]
      BY <1>1, <1>2, <2>1 DEF TypeOK
    <3>2. QED
      BY <1>2, <1>3, <2>1, <3>1
      DEF Enter, TypeInv, TypeOK, WalkLive, subVars, countVars
  <2>2. CASE /\ requests' = [requests EXCEPT ![o] = Append(@, s)]
             /\ thCount' = [thCount EXCEPT ![t] = @ + 1]
             /\ sthCount' = [sthCount EXCEPT ![s] = @ + 1]
             /\ entering' = [entering EXCEPT ![t] = <<o, i>>]
             /\ status' = [status EXCEPT ![t] = "Waiting"]
             /\ list' = [list EXCEPT ![t] = "waiting"]
             /\ current' = NoThread
             /\ UNCHANGED <<owner, recursion>>
    <3>1. requests' \in [Objects -> Seq(SubThreads)]
      BY <1>1, <1>2, <2>2 DEF TypeOK
    <3>2. CountType'
      BY <1>1, <1>2, <2>2 DEF TypeOK, CountType
    <3>3. entering' \in [Threads -> (Objects \X (1..MaxSub)) \cup {NotEntering}]
      BY <1>1, <1>2, <2>2 DEF TypeOK
    <3>4. QED
      BY <1>2, <1>3, <2>2, <3>1, <3>2, <3>3
      DEF Enter, TypeInv, TypeOK, WalkLive, CountType, subVars
  <2>3. QED
    BY <1>3, <2>1, <2>2 DEF Enter
<1>4. CASE Exit(t, o, i)
  <2>1. CASE /\ HasOwnerEntry(o, s)
             /\ SetOwners(o, [recursion[o] EXCEPT ![s] = @ - 1])
             /\ UNCHANGED exception
    <3>1. [recursion[o] EXCEPT ![s] = @ - 1] \in [SubThreads -> Nat]
      BY <1>1, <1>2, <2>1 DEF TypeOK, HasOwnerEntry
    <3>2. StatusType' /\ CountType' /\ LockType'
      BY <1>2, <2>1, <3>1, SetOwnersType
    <3>3. QED
      BY <1>2, <1>4, <2>1, <3>2
      DEF Exit, TypeInv, TypeOK, WalkLive, StatusType, CountType, LockType, subVars
  <2>2. CASE /\ exception' = [exception EXCEPT ![t] = TRUE]
             /\ UNCHANGED <<lockVars, status, list, sleeping, countVars>>
    BY <1>2, <1>4, <2>2 DEF Exit, TypeInv, TypeOK, WalkLive, subVars, countVars, lockVars
  <2>3. QED
    BY <1>4, <2>1, <2>2 DEF Exit
<1>5. QED
  BY <1>3, <1>4

(* The end of a frame or of a thread starts a destruction.                  *)
LEMMA UnwindType ==
    ASSUME TypeInv, NEW t \in Threads, PopFrame(t) \/ Passivate(t)
    PROVE  TypeInv'
<1>1. TypeOK
  BY DEF TypeInv
<1>2. CASE PopFrame(t)
  <2>1. subs[t] \in 0..MaxSub /\ subs[t] >= 1
    BY <1>1, <1>2 DEF PopFrame, TypeOK
  <2>2. walk' \in Walks /\ walk'.th = t
    BY <1>1, <1>2, <2>1, StartWalkType DEF PopFrame
  <2>3. QED
    BY <1>1, <1>2, <2>1, <2>2
    DEF PopFrame, TypeInv, TypeOK, WalkLive, subVars, countVars, lockVars
<1>3. CASE Passivate(t)
  <2>1. subs[t] \in 0..MaxSub /\ 0 \in 0..MaxSub
    BY <1>1, MonitorsAssumption DEF TypeOK
  <2>2. CASE subs[t] > 0 /\ StartWalk(t, 0, TRUE)
    <3>1. walk' \in Walks /\ walk'.th = t
      BY <1>1, <2>1, <2>2, StartWalkType
    <3>2. StatusType'
      BY <1>1, <1>3 DEF Passivate, TypeOK, StatusType
    <3>3. TypeOK'
      BY <1>1, <1>3, <3>1, <3>2
      DEF Passivate, TypeOK, StatusType, subVars, countVars, lockVars
    <3>4. WalkLive'
      BY <1>3, <2>1, <2>2, <3>1 DEF Passivate, WalkLive, subVars
    <3>5. QED
      BY <3>3, <3>4 DEF TypeInv
  <2>3. CASE UNCHANGED walk
    BY <1>1, <1>3, <2>3
    DEF Passivate, TypeInv, TypeOK, WalkLive, subVars, countVars, lockVars
  <2>4. QED
    BY <1>3, <2>2, <2>3 DEF Passivate
<1>4. QED
  BY <1>2, <1>3

LEMMA NextType == TypeInv /\ [Next]_vars => TypeInv'
<1> SUFFICES ASSUME TypeInv, [Next]_vars PROVE TypeInv'
  OBVIOUS
<1>1. ASSUME NEW t \in Threads, Operation(t)
      PROVE  TypeInv'
  BY <1>1, ThreadOperationType, LockOperationType, UnwindType DEF Operation
<1>2. ASSUME NEW t \in Threads, Engine(t)
      PROVE  TypeInv'
  BY <1>2, EngineType
<1>3. CASE Destroy
  BY <1>3, DestroyType
<1>4. CASE UNCHANGED vars
  BY <1>4 DEF vars, threadVars, subVars, countVars, lockVars, TypeInv, TypeOK, WalkLive
<1>5. QED
  BY <1>1, <1>2, <1>3, <1>4 DEF Next

(* Every variable keeps its type, whatever threads, objects and bounds there *)
(* are: threads are in one of the engine's lists and states, owner entries    *)
(* count from zero, queues hold subthreads, and the number of subthreads of a *)
(* thread stays within its bound through every destruction.                  *)
THEOREM TypeCorrect == Spec => []TypeOK
<1>1. Init => TypeInv
  BY InitType
<1>2. TypeInv /\ [Next]_vars => TypeInv'
  BY NextType
<1>3. TypeInv => TypeOK
  BY DEF TypeInv
<1>4. QED
  BY <1>1, <1>2, <1>3, PTL DEF Spec

-----------------------------------------------------------------------------
(* Lock objects.                                                            *)

LEMMA ChangeOwnerStructure ==
    ASSUME TypeOK, LockStructure, NEW o \in Objects, ChangeOwner(o)
    PROVE  LockStructure'
<1>1. requests[o] \in Seq(SubThreads)
  BY DEF TypeOK
<1>2. CASE requests[o] = <<>>
  <2>1. /\ owner' = [owner EXCEPT ![o] = NoThread]
        /\ recursion' = [recursion EXCEPT ![o] = [s \in SubThreads |-> 0]]
        /\ requests' = requests
    BY <1>2 DEF ChangeOwner
  <2>2. QED
    BY <1>2, <2>1 DEF TypeOK, LockStructure, NoOwners
<1>3. CASE requests[o] # <<>>
  <2> DEFINE sth == Head(requests[o])
  <2>1. /\ requests' = [requests EXCEPT ![o] = Tail(@)]
        /\ owner' = [owner EXCEPT ![o] = sth[1]]
        /\ recursion' = [recursion EXCEPT ![o] =
                            [s \in SubThreads |-> IF s = sth THEN 1 ELSE 0]]
    BY <1>3 DEF ChangeOwner
  <2>2. sth \in SubThreads
    BY <1>1, <1>3, HeadTailType
  <2> HIDE DEF sth
  <2>3. sth[1] \in Threads /\ sth[1] # NoThread
    BY <2>2, MonitorsAssumption DEF SubThreads
  <2>4. ASSUME NEW p \in Objects, p # o
        PROVE  owner'[p] = owner[p] /\ recursion'[p] = recursion[p]
               /\ requests'[p] = requests[p]
    BY <2>1, <2>4 DEF TypeOK
  <2>5. owner'[o] = sth[1] /\ recursion'[o][sth] = 1
        /\ \A s \in SubThreads : recursion'[o][s] > 0 => s = sth
    BY <2>1, <2>2 DEF TypeOK
  <2>6. QED
    BY <2>2, <2>3, <2>4, <2>5 DEF LockStructure, NoOwners
<1>4. QED
  BY <1>2, <1>3

LEMMA SetOwnersStructure ==
    ASSUME TypeOK, LockStructure, NEW o \in Objects,
           NEW r \in [SubThreads -> Nat],
           \A s \in SubThreads : r[s] > 0 => recursion[o][s] > 0,
           SetOwners(o, r)
    PROVE  LockStructure'
<1>1. CASE ChangeOwner(o)
  BY <1>1, ChangeOwnerStructure
<1>2. CASE /\ ~NoOwners(r)
           /\ recursion' = [recursion EXCEPT ![o] = r]
           /\ UNCHANGED <<owner, requests, status, list, sleeping, countVars>>
  <2>1. PICK s \in SubThreads : r[s] > 0
    BY <1>2 DEF NoOwners
  <2>2. owner[o] # NoThread
    BY <2>1 DEF TypeOK, LockStructure, NoOwners
  <2>3. QED
    BY <1>2, <2>1, <2>2 DEF TypeOK, LockStructure, NoOwners
<1>3. QED
  BY <1>1, <1>2 DEF SetOwners

LEMMA LockOperationStructure ==
    ASSUME TypeInv, LockStructure,
           NEW t \in Threads, NEW o \in Objects, NEW i \in 1..MaxSub,
           Enter(t, o, i) \/ Exit(t, o, i)
    PROVE  LockStructure'
<1> DEFINE s == <<t, i>>
<1>1. s \in SubThreads /\ s[1] = t /\ t # NoThread /\ TypeOK
  BY MonitorsAssumption DEF SubThreads, TypeInv
<1>2. CASE Enter(t, o, i)
  <2>1. CASE /\ CanTake(o, s)
             /\ owner' = [owner EXCEPT ![o] = t]
             /\ recursion' = [recursion EXCEPT ![o][s] = @ + 1]
             /\ requests' = requests
    <3> HIDE DEF s
    <3>1. recursion[o] \in [SubThreads -> Nat]
      BY <1>1 DEF TypeOK
    <3>2. /\ recursion'[o][s] > 0
          /\ \A x \in SubThreads : x # s => recursion'[o][x] = recursion[o][x]
          /\ \A p \in Objects : p # o => recursion'[p] = recursion[p]
      BY <1>1, <2>1, <3>1 DEF TypeOK
    <3>3. \A x \in SubThreads : recursion[o][x] > 0 => x[1] = t
      BY <1>1, <2>1, <3>1 DEF CanTake, LockStructure, NoOwners
    <3>4. /\ owner'[o] = t
          /\ \A p \in Objects : p # o => owner'[p] = owner[p]
      BY <1>1, <2>1 DEF TypeOK
    <3>5. QED
      BY <1>1, <2>1, <3>2, <3>3, <3>4 DEF LockStructure, NoOwners
  <2>2. CASE /\ ~CanTake(o, s)
             /\ requests' = [requests EXCEPT ![o] = Append(@, s)]
             /\ UNCHANGED <<owner, recursion>>
    BY <1>1, <2>2 DEF CanTake, TypeOK, LockStructure, NoOwners
  <2>3. QED
    BY <1>2, <2>1, <2>2 DEF Enter
<1>3. CASE Exit(t, o, i)
  <2>1. CASE /\ HasOwnerEntry(o, s)
             /\ SetOwners(o, [recursion[o] EXCEPT ![s] = @ - 1])
    <3> DEFINE r == [recursion[o] EXCEPT ![s] = @ - 1]
    <3>1. recursion[o] \in [SubThreads -> Nat] /\ recursion[o][s] > 0
      BY <1>1, <2>1 DEF TypeOK, HasOwnerEntry
    <3>2. r \in [SubThreads -> Nat]
      BY <1>1, <3>1
    <3>3. \A x \in SubThreads : r[x] > 0 => recursion[o][x] > 0
      BY <1>1, <3>1
    <3> HIDE DEF r
    <3>4. SetOwners(o, r)
      BY <2>1 DEF r
    <3>5. QED
      BY <1>1, <3>2, <3>3, <3>4, SetOwnersStructure
  <2>2. CASE UNCHANGED lockVars
    BY <2>2 DEF lockVars, LockStructure, NoOwners
  <2>3. QED
    BY <1>3, <2>1, <2>2 DEF Exit
<1>4. QED
  BY <1>2, <1>3

LEMMA DestroyStructure ==
    ASSUME TypeInv, LockStructure, Destroy
    PROVE  LockStructure'
<1>1. TypeOK /\ WalkTop \in SubThreads
  BY WalkTopType DEF TypeInv, Destroy, WalkLock, WalkRequest, WalkPop
<1>2. ASSUME NEW o \in Objects, WalkLock(o)
      PROVE  LockStructure'
  <2> DEFINE r == [recursion[o] EXCEPT ![WalkTop] = 0]
  <2>1. recursion[o] \in [SubThreads -> Nat]
    BY <1>1 DEF TypeOK
  <2>2. /\ r \in [SubThreads -> Nat]
        /\ \A x \in SubThreads : r[x] > 0 => recursion[o][x] > 0
    BY <1>1, <2>1
  <2>3. SetOwners(o, r)
    BY <1>2 DEF WalkLock
  <2> HIDE DEF r
  <2>4. QED
    BY <1>1, <2>2, <2>3, SetOwnersStructure
<1>3. ASSUME NEW o \in Objects, WalkRequest(o)
      PROVE  LockStructure'
  <2>1. /\ owner[o] # NoThread
        /\ \A p \in Objects : p # o => requests'[p] = requests[p]
        /\ UNCHANGED <<owner, recursion>>
    BY <1>1, <1>3 DEF WalkRequest, Listed, TypeOK
  <2>2. QED
    BY <2>1 DEF LockStructure, NoOwners
<1>4. CASE WalkPop
  BY <1>4 DEF WalkPop, lockVars, LockStructure, NoOwners
<1>5. QED
  BY <1>2, <1>3, <1>4 DEF Destroy

LEMMA NextStructure ==
    TypeInv /\ LockStructure /\ [Next]_vars => LockStructure'
<1> SUFFICES ASSUME TypeInv, LockStructure, [Next]_vars PROVE LockStructure'
  OBVIOUS
<1>1. CASE UNCHANGED lockVars
  BY <1>1 DEF lockVars, LockStructure, NoOwners
<1>2. ASSUME NEW t \in Threads, Operation(t)
      PROVE  LockStructure'
  <2>1. CASE \E o \in Objects, i \in 1..MaxSub : Enter(t, o, i) \/ Exit(t, o, i)
    BY <2>1, LockOperationStructure
  <2>2. CASE \/ QuantumExpired(t) \/ EnterReturns(t) \/ Sleep(t)
             \/ InstallConstraint(t) \/ Catch(t) \/ PopFrame(t) \/ Passivate(t)
             \/ \E u \in Threads : Suspend(t, u) \/ Resume(t, u) \/ Abort(t, u)
    BY <2>2, <1>1
    DEF QuantumExpired, EnterReturns, Sleep, InstallConstraint, Catch, PopFrame,
        Passivate, Suspend, Resume, Abort
  <2>3. QED
    BY <1>2, <2>1, <2>2 DEF Operation
<1>3. ASSUME NEW t \in Threads, Engine(t)
      PROVE  LockStructure'
  BY <1>1, <1>3 DEF Engine, Schedule, SleepExpired, SpawnSystem, ConstraintExpired
<1>4. CASE Destroy
  BY <1>4, DestroyStructure
<1>5. CASE UNCHANGED vars
  BY <1>1, <1>5 DEF vars
<1>6. QED
  BY <1>2, <1>3, <1>4, <1>5 DEF Next

(* A lock that exists has an owner entry and all its entries belong to its   *)
(* owning thread; an object without a lock has neither entries nor waiters.  *)
(* It holds with any number of pending requests, and although a destruction  *)
(* hands locks over in the middle of its loop.                               *)
THEOREM LockStructureCorrect == Spec => []LockStructure
<1>1. Init => TypeInv /\ LockStructure
  BY InitType DEF Init, LockStructure, NoOwners
<1>2. TypeInv /\ LockStructure /\ [Next]_vars => (TypeInv /\ LockStructure)'
  BY NextType, NextStructure
<1>3. QED
  BY <1>1, <1>2, PTL DEF Spec

-----------------------------------------------------------------------------
(* Waiters.  HasPlace: the subthread is in the queue of the lock, or owns it. *)

HasPlace(p, e) == IsQueued(p, e) \/ recursion[p][e] > 0

WalkClear == walk # NoWalk => entering[walk.th] = NotEntering

(* A step keeps NoLostWaiter if it changes the place, the wait or the         *)
(* exception of one thread only, and that thread does not wait afterwards.    *)
LEMMA OthersKeepPlace ==
    ASSUME TypeOK, NoLostWaiter, NEW t \in Threads,
           \A p \in Objects, e \in SubThreads :
               e[1] # t /\ HasPlace(p, e) => HasPlace(p, e)',
           \A u \in Threads \ {t} :
               entering'[u] = entering[u] /\ exception'[u] = exception[u],
           entering'[t] = NotEntering \/ exception'[t]
    PROVE  NoLostWaiter'
<1> SUFFICES ASSUME NEW u \in Threads,
                    entering'[u] # NotEntering, ~exception'[u]
             PROVE  HasPlace(entering[u][1], <<u, entering[u][2]>>)'
  BY DEF NoLostWaiter, HasPlace
<1>1. u # t /\ entering'[u] = entering[u] /\ ~exception[u]
  OBVIOUS
<1>2. entering[u] \in Objects \X (1..MaxSub)
  BY <1>1 DEF TypeOK
<1> DEFINE p == entering[u][1]
           e == <<u, entering[u][2]>>
<1>3. p \in Objects /\ e \in SubThreads /\ e[1] # t
  BY <1>1, <1>2 DEF SubThreads
<1>4. HasPlace(p, e)
  BY <1>1 DEF NoLostWaiter, HasPlace
<1>5. HasPlace(p, e)'
  <2>1. p' = p /\ e' = e
    BY <1>1
  <2> HIDE DEF p, e
  <2>2. QED
    BY <1>3, <1>4, <2>1 DEF HasPlace, IsQueued
<1>6. QED
  BY <1>5

LEMMA SameLocksKeepPlace ==
    ASSUME UNCHANGED <<recursion, requests>>
    PROVE  \A p \in Objects, e \in SubThreads : HasPlace(p, e) => HasPlace(p, e)'
  BY DEF HasPlace, IsQueued

(* Tail moves the later elements of a sequence one place to the front.        *)
LEMMA TailShift ==
    ASSUME NEW S, NEW q \in Seq(S), NEW k \in 2..Len(q)
    PROVE  k - 1 \in DOMAIN Tail(q) /\ Tail(q)[k - 1] = q[k]
  OBVIOUS

(* A hand-over keeps the place of every subthread that keeps its entries.     *)
LEMMA SetOwnersKeepsPlace ==
    ASSUME TypeOK, NEW o \in Objects, NEW r \in [SubThreads -> Nat],
           SetOwners(o, r), NEW p \in Objects, NEW e \in SubThreads,
           HasPlace(p, e), r[e] = recursion[o][e]
    PROVE  HasPlace(p, e)'
<1>1. requests[o] \in Seq(SubThreads)
  BY DEF TypeOK
<1>2. CASE ~NoOwners(r) /\ recursion' = [recursion EXCEPT ![o] = r] /\ requests' = requests
  BY <1>2 DEF HasPlace, IsQueued, TypeOK
<1>3. CASE NoOwners(r) /\ requests[o] = <<>> /\ ChangeOwner(o)
  <2>1. /\ recursion' = [recursion EXCEPT ![o] = [s \in SubThreads |-> 0]]
        /\ requests' = requests
    BY <1>3 DEF ChangeOwner
  <2>2. p # o
    <3>1. r[e] = 0
      BY <1>3 DEF NoOwners
    <3>2. ~HasPlace(o, e)
      BY <1>3, <3>1 DEF HasPlace, IsQueued
    <3>3. QED
      BY <3>2
  <2>3. QED
    BY <2>1, <2>2 DEF HasPlace, IsQueued, TypeOK
<1>4. CASE NoOwners(r) /\ requests[o] # <<>> /\ ChangeOwner(o)
  <2> DEFINE sth == Head(requests[o])
  <2>1. /\ requests' = [requests EXCEPT ![o] = Tail(@)]
        /\ recursion' = [recursion EXCEPT ![o] =
                            [s \in SubThreads |-> IF s = sth THEN 1 ELSE 0]]
    BY <1>4 DEF ChangeOwner
  <2>2. CASE p # o
    BY <2>1, <2>2 DEF HasPlace, IsQueued, TypeOK
  <2>3. CASE p = o
    <3>1. IsQueued(o, e)
      BY <1>4, <2>3 DEF HasPlace, NoOwners
    <3>2. PICK k \in DOMAIN requests[o] : requests[o][k] = e
      BY <3>1 DEF IsQueued
    <3>3. CASE k = 1
      <4>1. e = sth
        BY <1>1, <3>2, <3>3
      <4>2. recursion'[o][e] = 1
        BY <2>1, <4>1 DEF TypeOK
      <4>3. QED
        BY <2>3, <4>2 DEF HasPlace
    <3>4. CASE k # 1
      <4>1. k - 1 \in DOMAIN Tail(requests[o]) /\ Tail(requests[o])[k - 1] = e
        <5>1. k \in 2..Len(requests[o])
          BY <1>1, <3>2, <3>4
        <5>2. QED
          BY <1>1, <3>2, <5>1, TailShift
      <4>2. requests'[o] = Tail(requests[o])
        BY <2>1 DEF TypeOK
      <4>3. QED
        BY <2>3, <4>1, <4>2 DEF HasPlace, IsQueued
    <3>5. QED
      BY <3>3, <3>4
  <2>4. QED
    BY <2>2, <2>3
<1>5. QED
  BY <1>2, <1>3, <1>4 DEF SetOwners

LEMMA WalkRequestKeepsPlace ==
    ASSUME TypeOK, NEW o \in Objects, WalkRequest(o),
           NEW p \in Objects, NEW e \in SubThreads, e # WalkTop, HasPlace(p, e)
    PROVE  HasPlace(p, e)'
<1>1. requests[o] \in Seq(SubThreads)
  BY DEF TypeOK
<1>2. PICK k \in DOMAIN requests[o] :
          /\ requests[o][k] = WalkTop
          /\ requests' = [requests EXCEPT ![o] = RemoveAt(@, k)]
  BY DEF WalkRequest
<1>3. recursion' = recursion
  BY DEF WalkRequest
<1>4. CASE IsQueued(o, e) /\ p = o
  <2>1. PICK j \in DOMAIN requests[o] : requests[o][j] = e
    BY <1>4 DEF IsQueued
  <2>2. j # k
    BY <1>2, <2>1
  <2>3. requests'[o] = RemoveAt(requests[o], k)
    BY <1>2 DEF TypeOK
  <2>4. QED
    BY <1>1, <1>4, <2>1, <2>2, <2>3, RemoveAtKeeps DEF HasPlace, IsQueued
<1>5. CASE ~(IsQueued(o, e) /\ p = o)
  BY <1>2, <1>3, <1>5 DEF HasPlace, IsQueued, TypeOK
<1>6. QED
  BY <1>4, <1>5

LEMMA EnterWaiters ==
    ASSUME TypeOK, NoLostWaiter,
           NEW t \in Threads, NEW o \in Objects, NEW i \in 1..MaxSub, Enter(t, o, i)
    PROVE  NoLostWaiter'
<1> DEFINE s == <<t, i>>
<1>1. s \in SubThreads /\ s[1] = t /\ entering[t] = NotEntering /\ exception' = exception
  BY DEF SubThreads, Enter, Running
<1>2. CASE /\ recursion' = [recursion EXCEPT ![o][s] = @ + 1]
           /\ UNCHANGED <<entering, requests>>
  <2>1. ASSUME NEW p \in Objects, NEW e \in SubThreads, e[1] # t, HasPlace(p, e)
        PROVE  HasPlace(p, e)'
    <3>1. e # s
      BY <1>1, <2>1
    <3> HIDE DEF s
    <3>2. recursion'[p][e] = recursion[p][e]
      BY <1>2, <3>1 DEF TypeOK
    <3>3. QED
      BY <1>2, <2>1, <3>2 DEF HasPlace, IsQueued
  <2>2. QED
    BY <1>1, <1>2, <2>1, OthersKeepPlace
<1>3. CASE /\ requests' = [requests EXCEPT ![o] = Append(@, s)]
           /\ entering' = [entering EXCEPT ![t] = <<o, i>>]
           /\ recursion' = recursion
  <2>1. /\ requests[o] \in Seq(SubThreads)
        /\ requests'[o] = Append(requests[o], s)
        /\ \A p \in Objects : p # o => requests'[p] = requests[p]
    BY <1>3 DEF TypeOK
  <2>2. IsQueued(o, s)'
    <3>1. requests'[o][Len(requests[o]) + 1] = s
      BY <1>1, <2>1
    <3>2. Len(requests[o]) + 1 \in DOMAIN requests'[o]
      BY <1>1, <2>1
    <3>3. QED
      BY <3>1, <3>2 DEF IsQueued
  <2>3. ASSUME NEW p \in Objects, NEW e \in SubThreads, HasPlace(p, e)
        PROVE  HasPlace(p, e)'
    <3>1. CASE p = o /\ IsQueued(o, e)
      <4>1. PICK k \in DOMAIN requests[o] : requests[o][k] = e
        BY <3>1 DEF IsQueued
      <4>2. k \in DOMAIN requests'[o] /\ requests'[o][k] = e
        BY <1>1, <2>1, <4>1
      <4>3. QED
        BY <3>1, <4>2 DEF HasPlace, IsQueued
    <3>2. CASE ~(p = o /\ IsQueued(o, e))
      BY <1>3, <2>1, <2>3, <3>2 DEF HasPlace, IsQueued
    <3>3. QED
      BY <3>1, <3>2
  <2>4. SUFFICES ASSUME NEW u \in Threads,
                        entering'[u] # NotEntering, ~exception'[u]
                 PROVE  HasPlace(entering[u][1], <<u, entering[u][2]>>)'
    BY DEF NoLostWaiter, HasPlace
  <2>5. CASE u = t
    <3>1. entering'[t] = <<o, i>>
      BY <1>3 DEF TypeOK
    <3>2. entering'[t][1] = o /\ <<t, entering'[t][2]>> = s
      BY <3>1
    <3>3. IsQueued(entering[u][1], <<u, entering[u][2]>>)'
      BY <2>2, <2>5, <3>2 DEF IsQueued
    <3>4. QED
      BY <3>3 DEF HasPlace
  <2>6. CASE u # t
    <3>1. entering'[u] = entering[u] /\ ~exception[u]
      BY <1>1, <1>3, <2>4, <2>6 DEF TypeOK
    <3>2. /\ entering[u][1] \in Objects
          /\ <<u, entering[u][2]>> \in SubThreads
      BY <2>4, <3>1 DEF TypeOK, SubThreads
    <3>3. HasPlace(entering[u][1], <<u, entering[u][2]>>)
      BY <2>4, <3>1 DEF NoLostWaiter, HasPlace
    <3> DEFINE p == entering[u][1]
               e == <<u, entering[u][2]>>
    <3>4. p' = p /\ e' = e
      BY <3>1
    <3>5. p \in Objects /\ e \in SubThreads /\ HasPlace(p, e)
      BY <3>2, <3>3
    <3> HIDE DEF p, e
    <3>6. HasPlace(p, e)'
      BY <2>3, <3>4, <3>5 DEF HasPlace, IsQueued
    <3>7. QED
      BY <3>6 DEF p, e
  <2>7. QED
    BY <2>5, <2>6
<1>4. QED
  BY <1>2, <1>3 DEF Enter

LEMMA ExitWaiters ==
    ASSUME TypeOK, NoLostWaiter,
           NEW t \in Threads, NEW o \in Objects, NEW i \in 1..MaxSub, Exit(t, o, i)
    PROVE  NoLostWaiter'
<1> DEFINE s == <<t, i>>
           r == [recursion[o] EXCEPT ![s] = @ - 1]
<1>1. /\ s \in SubThreads /\ s[1] = t
      /\ entering[t] = NotEntering /\ entering' = entering
      /\ \A u \in Threads \ {t} : exception'[u] = exception[u]
  BY DEF SubThreads, Exit, Running, TypeOK
<1>2. CASE HasOwnerEntry(o, s) /\ SetOwners(o, r)
  <2>1. recursion[o] \in [SubThreads -> Nat] /\ recursion[o][s] > 0
    BY <1>1, <1>2 DEF TypeOK, HasOwnerEntry
  <2>2. r \in [SubThreads -> Nat] /\ \A e \in SubThreads : e # s => r[e] = recursion[o][e]
    BY <1>1, <2>1
  <2> HIDE DEF r
  <2>3. ASSUME NEW p \in Objects, NEW e \in SubThreads, e[1] # t, HasPlace(p, e)
        PROVE  HasPlace(p, e)'
    <3>1. e # s
      BY <1>1, <2>3
    <3>2. r[e] = recursion[o][e]
      BY <2>2, <3>1
    <3>3. QED
      BY <1>2, <2>2, <2>3, <3>2, SetOwnersKeepsPlace
  <2>4. QED
    BY <1>1, <2>3, OthersKeepPlace
<1>3. CASE UNCHANGED lockVars
  BY <1>1, <1>3, SameLocksKeepPlace, OthersKeepPlace DEF lockVars
<1>4. QED
  BY <1>2, <1>3 DEF Exit

LEMMA DestroyWaiters ==
    ASSUME TypeInv, WalkClear, NoLostWaiter, Destroy
    PROVE  NoLostWaiter'
<1>1. walk # NoWalk
  BY DEF Destroy, WalkLock, WalkRequest, WalkPop
<1>2. /\ TypeOK /\ walk.th \in Threads /\ WalkTop \in SubThreads
      /\ entering[walk.th] = NotEntering /\ WalkTop[1] = walk.th
  BY <1>1, WalkTopType DEF TypeInv, WalkClear, WalkTop
<1>3. entering' = entering /\ exception' = exception
  BY DEF Destroy, WalkLock, WalkRequest, WalkPop
<1>4. ASSUME \A p \in Objects, e \in SubThreads :
                 e[1] # walk.th /\ HasPlace(p, e) => HasPlace(p, e)'
      PROVE  NoLostWaiter'
  BY <1>2, <1>3, <1>4, OthersKeepPlace
<1>5. ASSUME NEW o \in Objects, WalkLock(o)
      PROVE  NoLostWaiter'
  <2> DEFINE r == [recursion[o] EXCEPT ![WalkTop] = 0]
  <2>1. recursion[o] \in [SubThreads -> Nat]
    BY <1>2 DEF TypeOK
  <2>2. /\ r \in [SubThreads -> Nat]
        /\ \A e \in SubThreads : e # WalkTop => r[e] = recursion[o][e]
    BY <1>2, <2>1
  <2>3. SetOwners(o, r)
    BY <1>5 DEF WalkLock
  <2> HIDE DEF r
  <2>4. \A p \in Objects, e \in SubThreads :
            e[1] # walk.th /\ HasPlace(p, e) => HasPlace(p, e)'
    BY <1>2, <2>2, <2>3, SetOwnersKeepsPlace
  <2>5. QED
    BY <1>4, <2>4
<1>6. ASSUME NEW o \in Objects, WalkRequest(o)
      PROVE  NoLostWaiter'
  BY <1>2, <1>4, <1>6, WalkRequestKeepsPlace
<1>7. CASE WalkPop
  BY <1>4, <1>7, SameLocksKeepPlace DEF WalkPop, lockVars
<1>8. QED
  BY <1>5, <1>6, <1>7 DEF Destroy

(* The thread whose subthreads are being destroyed waits for no lock.         *)
LEMMA NextWalkClear == TypeInv /\ WalkClear /\ [Next]_vars => WalkClear'
<1> SUFFICES ASSUME TypeInv, WalkClear, [Next]_vars PROVE WalkClear'
  OBVIOUS
<1>1. TypeOK
  BY DEF TypeInv
<1>2. ASSUME NEW t \in Threads, Operation(t)
      PROVE  WalkClear'
  <2>1. CASE PopFrame(t)
    BY <1>1, <2>1 DEF PopFrame, StartWalk, WalkClear, TypeOK
  <2>2. CASE Passivate(t)
    BY <1>1, <2>2 DEF Passivate, StartWalk, WalkClear, TypeOK
  <2>3. CASE UNCHANGED walk /\ walk = NoWalk
    BY <2>3 DEF WalkClear
  <2>4. QED
    BY <1>2, <2>1, <2>2, <2>3
    DEF Operation, QuantumExpired, EnterReturns, Sleep, InstallConstraint, Catch,
        Enter, Exit, Suspend, Resume, Abort, InQuantum, Running
<1>3. ASSUME NEW t \in Threads, Engine(t)
      PROVE  WalkClear'
  <2>1. ASSUME NEW i \in 1..MaxSub, ConstraintExpired(t, i)
        PROVE  WalkClear'
    <3>1. CASE UNCHANGED walk
      BY <2>1, <3>1 DEF ConstraintExpired, WalkClear, Idle
    <3>2. CASE /\ entering' = [entering EXCEPT ![t] = NotEntering]
               /\ StartWalk(t, i, FALSE)
      BY <1>1, <3>2 DEF StartWalk, WalkClear, TypeOK
    <3>3. QED
      BY <2>1, <3>1, <3>2 DEF ConstraintExpired
  <2>2. CASE UNCHANGED walk /\ walk = NoWalk
    BY <2>2 DEF WalkClear
  <2>3. QED
    BY <1>3, <2>1, <2>2 DEF Engine, Schedule, SleepExpired, SpawnSystem, Idle
<1>4. CASE Destroy
  <2>1. walk # NoWalk /\ entering' = entering /\ (walk' = NoWalk \/ walk'.th = walk.th)
    <3>1. walk # NoWalk /\ walk \in Walks
      BY <1>1, <1>4 DEF Destroy, WalkLock, WalkRequest, WalkPop, TypeOK
    <3>2. ASSUME NEW o \in Objects, WalkLock(o) \/ WalkRequest(o)
          PROVE  entering' = entering /\ walk'.th = walk.th
      BY <3>1, <3>2 DEF WalkLock, WalkRequest, Walks
    <3>3. CASE WalkPop
      <4>1. CASE StartWalk(walk.th, walk.base, walk.self)
        <5>1. walk'.th = walk.th
          BY <4>1 DEF StartWalk
        <5>2. QED
          BY <3>1, <3>3, <5>1 DEF WalkPop
      <4>2. QED
        BY <3>1, <3>3, <4>1 DEF WalkPop
    <3>4. QED
      BY <1>4, <3>1, <3>2, <3>3 DEF Destroy
  <2>2. QED
    BY <2>1 DEF WalkClear
<1>5. CASE UNCHANGED vars
  BY <1>5 DEF vars, threadVars, WalkClear
<1>6. QED
  BY <1>2, <1>3, <1>4, <1>5 DEF Next

LEMMA NextWaiters ==
    TypeInv /\ WalkClear /\ NoLostWaiter /\ [Next]_vars => NoLostWaiter'
<1> SUFFICES ASSUME TypeInv, WalkClear, NoLostWaiter, [Next]_vars
             PROVE  NoLostWaiter'
  OBVIOUS
<1>1. TypeOK
  BY DEF TypeInv
<1>2. ASSUME NEW t \in Threads, UNCHANGED <<recursion, requests>>,
             \A u \in Threads \ {t} :
                 entering'[u] = entering[u] /\ exception'[u] = exception[u],
             entering'[t] = NotEntering \/ exception'[t]
      PROVE  NoLostWaiter'
  BY <1>1, <1>2, SameLocksKeepPlace, OthersKeepPlace
<1>3. CASE UNCHANGED <<entering, exception, recursion, requests>>
  BY <1>3 DEF NoLostWaiter, IsQueued
<1>4. ASSUME NEW t \in Threads, Operation(t)
      PROVE  NoLostWaiter'
  <2>1. CASE QuantumExpired(t) \/ Sleep(t) \/ InstallConstraint(t)
    BY <1>3, <2>1 DEF QuantumExpired, Sleep, InstallConstraint, threadVars, lockVars
  <2>2. CASE EnterReturns(t) \/ Catch(t) \/ PopFrame(t) \/ Passivate(t)
    BY <1>1, <1>2, <2>2
    DEF EnterReturns, Catch, PopFrame, Passivate, lockVars, TypeOK
  <2>3. ASSUME NEW o \in Objects, NEW i \in 1..MaxSub, Enter(t, o, i) \/ Exit(t, o, i)
        PROVE  NoLostWaiter'
    BY <1>1, <2>3, EnterWaiters, ExitWaiters
  <2>4. ASSUME NEW u \in Threads, Suspend(t, u) \/ Resume(t, u)
        PROVE  NoLostWaiter'
    BY <1>3, <2>4 DEF Suspend, Resume, lockVars
  <2>5. ASSUME NEW u \in Threads, Abort(t, u)
        PROVE  NoLostWaiter'
    BY <1>1, <1>2, <2>5 DEF Abort, lockVars, TypeOK
  <2>6. QED
    BY <1>4, <2>1, <2>2, <2>3, <2>4, <2>5 DEF Operation
<1>5. ASSUME NEW t \in Threads, Engine(t)
      PROVE  NoLostWaiter'
  <2>1. CASE Schedule(t) \/ SleepExpired(t) \/ SpawnSystem(t)
    BY <1>3, <2>1 DEF Schedule, SleepExpired, SpawnSystem, threadVars, lockVars
  <2>2. ASSUME NEW i \in 1..MaxSub, ConstraintExpired(t, i)
        PROVE  NoLostWaiter'
    BY <1>1, <1>2, <2>2 DEF ConstraintExpired, lockVars, TypeOK
  <2>3. QED
    BY <1>5, <2>1, <2>2 DEF Engine
<1>6. CASE Destroy
  BY <1>6, DestroyWaiters
<1>7. CASE UNCHANGED vars
  BY <1>3, <1>7 DEF vars, threadVars, lockVars
<1>8. QED
  BY <1>4, <1>5, <1>6, <1>7 DEF Next

(* A thread blocked in Monitor.Enter is in the queue of the lock or owns it,  *)
(* whatever hand-overs, deletions of requests, aborts and destructions of     *)
(* other threads happen meanwhile: no waiter is ever lost.                    *)
THEOREM NoLostWaiterCorrect == Spec => []NoLostWaiter
<1> DEFINE Inv == TypeInv /\ WalkClear /\ NoLostWaiter
<1>1. Init => Inv
  BY InitType DEF Init, WalkClear, NoLostWaiter
<1>2. Inv /\ [Next]_vars => Inv'
  BY NextType, NextWalkClear, NextWaiters
<1>3. Inv => NoLostWaiter
  OBVIOUS
<1>4. QED
  BY <1>1, <1>2, <1>3, PTL DEF Spec

-----------------------------------------------------------------------------
(* The places of the requests of thread t in the queues rs.                  *)
Places(rs, t) ==
    {q \in UNION {{o} \X DOMAIN rs[o] : o \in Objects} : rs[q[1]][q[2]][1] = t}

LEMMA PlacesAre ==
    ASSUME NEW rs, NEW t, NEW q
    PROVE  q \in Places(rs, t) <=>
               \E o \in Objects : \E k \in DOMAIN rs[o] : q = <<o, k>> /\ rs[o][k][1] = t
<1>1. ASSUME q \in Places(rs, t)
      PROVE  \E o \in Objects : \E k \in DOMAIN rs[o] : q = <<o, k>> /\ rs[o][k][1] = t
  <2>1. PICK o \in Objects : q \in {o} \X DOMAIN rs[o]
    BY <1>1 DEF Places
  <2>2. PICK k \in DOMAIN rs[o] : q = <<o, k>>
    BY <2>1
  <2>3. rs[o][k][1] = t
    BY <1>1, <2>2 DEF Places
  <2> QED
    BY <2>2, <2>3
<1>2. ASSUME NEW o \in Objects, NEW k \in DOMAIN rs[o], q = <<o, k>>, rs[o][k][1] = t
      PROVE  q \in Places(rs, t)
  BY <1>2 DEF Places
<1> QED
  BY <1>1, <1>2

(* The queues r2 are rs with s appended to the queue of o, or without s, which *)
(* is at place k of that queue.                                              *)
Appended(rs, r2, o, s) ==
    /\ \A p \in Objects : p # o => r2[p] = rs[p]
    /\ r2[o] = Append(rs[o], s)
Dropped(rs, r2, o, k, s) ==
    /\ k \in 1..Len(rs[o]) /\ rs[o][k] = s
    /\ \A p \in Objects : p # o => r2[p] = rs[p]
    /\ Len(r2[o]) = Len(rs[o]) - 1
    /\ \A j \in 1..(Len(rs[o]) - 1) : r2[o][j] = IF j < k THEN rs[o][j] ELSE rs[o][j + 1]

(* A request linked at the back of a queue adds one place to its thread's.    *)
LEMMA AppendPlaces ==
    ASSUME NEW rs \in [Objects -> Seq(SubThreads)], NEW o \in Objects,
           NEW s \in SubThreads, NEW t, IsFiniteSet(Places(rs, t)),
           NEW r2 \in [Objects -> Seq(SubThreads)], Appended(rs, r2, o, s)
    PROVE  /\ IsFiniteSet(Places(r2, t))
           /\ s[1] = t => Cardinality(Places(r2, t)) = Cardinality(Places(rs, t)) + 1
           /\ s[1] # t => Cardinality(Places(r2, t)) = Cardinality(Places(rs, t))
<1>1. PICK q \in Seq(SubThreads) : q = rs[o]
  OBVIOUS
<1>2. PICK n \in Nat : n = Len(q)
  OBVIOUS
<1>3. /\ r2[o] = Append(q, s)
      /\ \A p \in Objects : p # o => r2[p] = rs[p]
  BY <1>1 DEF Appended
<1>4. /\ DOMAIN q = 1..n /\ DOMAIN Append(q, s) = 1..(n + 1)
      /\ Append(q, s)[n + 1] = s
      /\ \A k \in 1..n : Append(q, s)[k] = q[k]
  BY <1>2
<1>5. \A x : x \in Places(r2, t) <=> x \in Places(rs, t) \/ (x = <<o, n + 1>> /\ s[1] = t)
  <2> SUFFICES ASSUME NEW x
               PROVE  x \in Places(r2, t) <=> x \in Places(rs, t) \/ (x = <<o, n + 1>> /\ s[1] = t)
    OBVIOUS
  <2>1. ASSUME NEW p \in Objects, NEW k \in DOMAIN r2[p], x = <<p, k>>, r2[p][k][1] = t
        PROVE  x \in Places(rs, t) \/ (x = <<o, n + 1>> /\ s[1] = t)
    <3>1. CASE p # o
      BY <1>3, <2>1, <3>1, PlacesAre
    <3>2. CASE p = o /\ k = n + 1
      BY <1>3, <1>4, <2>1, <3>2
    <3>3. CASE p = o /\ k # n + 1
      <4>1. k \in 1..n
        BY <1>3, <1>4, <2>1, <3>3
      <4>2. k \in DOMAIN rs[o] /\ rs[o][k][1] = t
        BY <1>1, <1>3, <1>4, <2>1, <3>3, <4>1
      <4> QED
        BY <2>1, <3>3, <4>2, PlacesAre
    <3> QED
      BY <3>1, <3>2, <3>3
  <2>2. ASSUME NEW p \in Objects, NEW k \in DOMAIN rs[p], x = <<p, k>>, rs[p][k][1] = t
        PROVE  x \in Places(r2, t)
    <3>1. CASE p # o
      BY <1>3, <2>2, <3>1, PlacesAre
    <3>2. CASE p = o
      <4>1. k \in 1..n /\ k \in 1..(n + 1)
        BY <1>1, <1>4, <2>2, <3>2
      <4>2. k \in DOMAIN r2[o] /\ r2[o][k][1] = t
        BY <1>1, <1>3, <1>4, <2>2, <3>2, <4>1
      <4> QED
        BY <2>2, <3>2, <4>2, PlacesAre
    <3> QED
      BY <3>1, <3>2
  <2>3. ASSUME x = <<o, n + 1>>, s[1] = t
        PROVE  x \in Places(r2, t)
    <3>1. n + 1 \in DOMAIN r2[o] /\ r2[o][n + 1][1] = t
      BY <1>3, <1>4, <2>3
    <3> QED
      BY <2>3, <3>1, PlacesAre
  <2>4. ASSUME x \in Places(r2, t)
        PROVE  x \in Places(rs, t) \/ (x = <<o, n + 1>> /\ s[1] = t)
    <3>1. PICK p \in Objects : \E k \in DOMAIN r2[p] : x = <<p, k>> /\ r2[p][k][1] = t
      BY <2>4, PlacesAre
    <3> QED
      BY <2>1, <3>1
  <2>5. ASSUME x \in Places(rs, t)
        PROVE  x \in Places(r2, t)
    <3>1. PICK p \in Objects : \E k \in DOMAIN rs[p] : x = <<p, k>> /\ rs[p][k][1] = t
      BY <2>5, PlacesAre
    <3> QED
      BY <2>2, <3>1
  <2> QED
    BY <2>3, <2>4, <2>5
<1>6. <<o, n + 1>> \notin Places(rs, t)
  <2> SUFFICES ASSUME <<o, n + 1>> \in Places(rs, t) PROVE FALSE
    OBVIOUS
  <2>1. PICK p \in Objects : \E k \in DOMAIN rs[p] : <<o, n + 1>> = <<p, k>> /\ rs[p][k][1] = t
    BY PlacesAre
  <2>2. n + 1 \in DOMAIN rs[o]
    BY <2>1
  <2> QED
    BY <1>1, <1>2, <1>4, <2>2
<1>7. CASE s[1] = t
  <2>1. Places(r2, t) = Places(rs, t) \cup {<<o, n + 1>>}
    BY <1>5, <1>7
  <2>2. /\ IsFiniteSet(Places(rs, t) \cup {<<o, n + 1>>})
        /\ Cardinality(Places(rs, t) \cup {<<o, n + 1>>}) = Cardinality(Places(rs, t)) + 1
    BY <1>6, FS_AddElement, Zenon
  <2> QED
    BY <1>7, <2>1, <2>2
<1>8. CASE s[1] # t
  <2>1. Places(r2, t) = Places(rs, t)
    BY <1>5, <1>8
  <2> QED
    BY <1>8, <2>1
<1> QED
  BY <1>7, <1>8

(* A request that leaves its queue, wherever it stands, takes one place away. *)
LEMMA RemovePlaces ==
    ASSUME NEW rs \in [Objects -> Seq(SubThreads)], NEW o \in Objects,
           NEW k \in Nat, NEW s \in SubThreads, NEW t, IsFiniteSet(Places(rs, t)),
           NEW r2 \in [Objects -> Seq(SubThreads)], Dropped(rs, r2, o, k, s)
    PROVE  /\ IsFiniteSet(Places(r2, t))
           /\ s[1] = t => Cardinality(Places(rs, t)) = Cardinality(Places(r2, t)) + 1
           /\ s[1] # t => Cardinality(Places(r2, t)) = Cardinality(Places(rs, t))
<1>0. /\ k \in 1..Len(rs[o]) /\ rs[o][k] = s
      /\ \A p \in Objects : p # o => r2[p] = rs[p]
      /\ Len(r2[o]) = Len(rs[o]) - 1
      /\ \A j \in 1..(Len(rs[o]) - 1) : r2[o][j] = IF j < k THEN rs[o][j] ELSE rs[o][j + 1]
  BY DEF Dropped
<1>1. PICK q \in Seq(SubThreads), q2 \in Seq(SubThreads) : q = rs[o] /\ q2 = r2[o]
  OBVIOUS
<1>2. PICK n \in Nat : n = Len(q) /\ DOMAIN q = 1..n /\ DOMAIN q2 = 1..(n - 1) /\ k \in 1..n
  BY <1>0, <1>1
<1>3. /\ \A j \in 1..(n - 1) : j < k => q2[j] = q[j]
      /\ \A j \in 1..(n - 1) : ~(j < k) => q2[j] = q[j + 1]
  BY <1>0, <1>1, <1>2
<1> DEFINE A == Places(r2, t)
           B == Places(rs, t) \ {<<o, k>>}
           f == [x \in A |-> IF x[1] = o /\ ~(x[2] < k) THEN <<o, x[2] + 1>> ELSE x]
<1>4. ASSUME NEW x \in A
      PROVE  /\ f[x] \in B
             /\ \/ x[1] # o /\ f[x] = x
                \/ x[1] = o /\ x[2] \in 1..(n - 1) /\ x[2] < k /\ x = <<o, x[2]>> /\ f[x] = x
                \/ x[1] = o /\ x[2] \in 1..(n - 1) /\ ~(x[2] < k) /\ x = <<o, x[2]>> /\ f[x] = <<o, x[2] + 1>>
             /\ f[x][1] = x[1]
  <2>1. PICK p \in Objects : \E j \in DOMAIN r2[p] : x = <<p, j>> /\ r2[p][j][1] = t
    BY PlacesAre
  <2>2. PICK j \in DOMAIN r2[p] : x = <<p, j>> /\ r2[p][j][1] = t
    BY <2>1
  <2>3. CASE p # o
    <3>1. f[x] = x
      BY <2>2, <2>3
    <3>2. x \in Places(rs, t)
      BY <1>0, <2>2, <2>3, PlacesAre
    <3> QED
      BY <2>2, <2>3, <3>1, <3>2
  <2>4. CASE p = o /\ j < k
    <3>1. j \in 1..(n - 1) /\ f[x] = x
      BY <1>1, <1>2, <2>2, <2>4
    <3>2. j \in DOMAIN rs[o] /\ rs[o][j][1] = t /\ j # k
      BY <1>1, <1>2, <1>3, <2>2, <2>4, <3>1
    <3>3. x \in Places(rs, t)
      BY <2>2, <2>4, <3>2, PlacesAre
    <3> QED
      BY <2>2, <2>4, <3>1, <3>2, <3>3
  <2>5. CASE p = o /\ ~(j < k)
    <3>1. j \in 1..(n - 1) /\ f[x] = <<o, j + 1>>
      BY <1>1, <1>2, <2>2, <2>5
    <3>2. j + 1 \in DOMAIN rs[o] /\ rs[o][j + 1][1] = t /\ j + 1 # k
      BY <1>1, <1>2, <1>3, <2>2, <2>5, <3>1
    <3>3. <<o, j + 1>> \in Places(rs, t)
      BY <3>2, PlacesAre
    <3> QED
      BY <2>2, <2>5, <3>1, <3>2, <3>3
  <2> QED
    BY <2>3, <2>4, <2>5
<1>5. ASSUME NEW y \in B
      PROVE  \E x \in A : f[x] = y
  <2>1. PICK p \in Objects : \E j \in DOMAIN rs[p] : y = <<p, j>> /\ rs[p][j][1] = t
    BY PlacesAre
  <2>2. PICK j \in DOMAIN rs[p] : y = <<p, j>> /\ rs[p][j][1] = t
    BY <2>1
  <2>3. CASE p # o
    <3>1. y \in A
      BY <1>0, <2>2, <2>3, PlacesAre
    <3> QED
      BY <2>2, <2>3, <3>1
  <2>4. CASE p = o /\ j < k
    <3>1. j \in 1..(n - 1)
      BY <1>1, <1>2, <2>2, <2>4
    <3>2. j \in DOMAIN r2[o] /\ r2[o][j][1] = t
      BY <1>1, <1>2, <1>3, <2>2, <2>4, <3>1
    <3>3. y \in A
      BY <2>2, <2>4, <3>2, PlacesAre
    <3> QED
      BY <2>2, <2>4, <3>3
  <2>5. CASE p = o /\ j > k
    <3>1. j - 1 \in 1..(n - 1) /\ ~(j - 1 < k) /\ (j - 1) + 1 = j
      BY <1>1, <1>2, <2>2, <2>5
    <3>2. j - 1 \in DOMAIN r2[o] /\ r2[o][j - 1][1] = t
      BY <1>1, <1>2, <1>3, <2>2, <2>5, <3>1
    <3>3. <<o, j - 1>> \in A
      BY <3>2, PlacesAre
    <3>4. f[<<o, j - 1>>] = <<o, (j - 1) + 1>>
      BY <3>1, <3>3
    <3> QED
      BY <2>2, <2>5, <3>1, <3>3, <3>4
  <2>6. p # o \/ j # k
    BY <2>2
  <2>7. p = o => j \in 1..n
    BY <1>1, <1>2, <2>2
  <2> QED
    BY <1>2, <2>3, <2>4, <2>5, <2>6, <2>7
<1>6. f \in [A -> B]
  BY <1>4
<1> HIDE DEF f
<1>7. \A x, y \in A : f[x] = f[y] => x = y
  <2> SUFFICES ASSUME NEW x \in A, NEW y \in A, f[x] = f[y] PROVE x = y
    OBVIOUS
  <2> HIDE DEF A, B
  <2>1. f[x][1] = x[1] /\ f[y][1] = y[1]
    BY <1>4
  <2>2. CASE x[1] # o
    <3>1. f[x] = x /\ f[y] = y
      BY <1>4, <2>1, <2>2
    <3> QED
      BY <3>1
  <2>3. CASE x[1] = o
    <3>1. /\ x[2] \in 1..(n - 1) /\ x = <<o, x[2]>>
          /\ f[x][2] = IF x[2] < k THEN x[2] ELSE x[2] + 1
      BY <1>4, <2>3
    <3>2. /\ y[2] \in 1..(n - 1) /\ y = <<o, y[2]>>
          /\ f[y][2] = IF y[2] < k THEN y[2] ELSE y[2] + 1
      BY <1>4, <2>1, <2>3
    <3>3. x[2] = y[2]
      BY <1>2, <3>1, <3>2
    <3> QED
      BY <3>1, <3>2, <3>3
  <2> QED
    BY <2>2, <2>3
<1>8. f \in Bijection(A, B)
  BY <1>5, <1>6, <1>7, Fun_IsBij
<1>9. ExistsBijection(B, A)
  <2>1. ExistsBijection(A, B)
    BY <1>8 DEF ExistsBijection
  <2> QED
    BY <2>1, Fun_ExistsBijSymmetric
<1>10. /\ IsFiniteSet(B)
       /\ Cardinality(B) = IF <<o, k>> \in Places(rs, t) THEN Cardinality(Places(rs, t)) - 1
                           ELSE Cardinality(Places(rs, t))
  BY FS_RemoveElement
<1>11. IsFiniteSet(A) /\ Cardinality(A) = Cardinality(B)
  <2> HIDE DEF A, B
  <2> QED
    BY <1>9, <1>10, FS_Bijection
<1>12. <<o, k>> \in Places(rs, t) <=> rs[o][k][1] = t
  <2>1. k \in DOMAIN rs[o]
    BY <1>1, <1>2
  <2>2. rs[o][k][1] = t => <<o, k>> \in Places(rs, t)
    BY <2>1, PlacesAre
  <2>3. ASSUME <<o, k>> \in Places(rs, t)
        PROVE  rs[o][k][1] = t
    <3>1. \E p \in Objects : \E j \in DOMAIN rs[p] : <<o, k>> = <<p, j>> /\ rs[p][j][1] = t
      BY <2>3, PlacesAre
    <3> QED
      BY <3>1
  <2> QED
    BY <2>2, <2>3
<1> QED
  <2>1. IsFiniteSet(A) /\ Cardinality(A) \in Nat /\ Cardinality(Places(rs, t)) \in Nat
    BY <1>11, FS_CardinalityType, Zenon
  <2> HIDE DEF B
  <2> QED
    BY <1>0, <1>10, <1>11, <1>12, <2>1

-----------------------------------------------------------------------------
(* The request counters.  That the queues of a thread hold finitely many of  *)
(* its requests is part of the invariant: there may be any number of objects. *)

PlaceCounts ==
    \A t \in Threads :
        /\ IsFiniteSet(Places(requests, t))
        /\ thCount[t] = Cardinality(Places(requests, t))

LEMMA SamePlaces ==
    ASSUME PlaceCounts, UNCHANGED <<requests, thCount>>
    PROVE  PlaceCounts'
<1>1. \A t \in Threads : Places(requests, t)' = Places(requests, t)
  BY DEF Places
<1> QED
  BY <1>1 DEF PlaceCounts

(* Taking the request at place k from the queue of o, and one from the count  *)
(* of its thread, is what a hand-over and a deletion have in common.          *)
LEMMA DropRequestCounts ==
    ASSUME TypeOK, PlaceCounts, NEW o \in Objects, NEW k \in Nat, NEW s \in SubThreads,
           requests' \in [Objects -> Seq(SubThreads)],
           Dropped(requests, requests', o, k, s),
           ChangeLockRequestCount(s, -1)
    PROVE  PlaceCounts'
<1>1. requests \in [Objects -> Seq(SubThreads)] /\ thCount \in [Threads -> Int]
  BY DEF TypeOK
<1>2. s[1] \in Threads /\ thCount' = [thCount EXCEPT ![s[1]] = @ - 1]
  BY DEF ChangeLockRequestCount, SubThreads
<1>3. ASSUME NEW t \in Threads
      PROVE  /\ IsFiniteSet(Places(requests', t))
             /\ thCount'[t] = Cardinality(Places(requests', t))
  <2>1. IsFiniteSet(Places(requests, t)) /\ thCount[t] = Cardinality(Places(requests, t))
    BY DEF PlaceCounts
  <2>2. /\ IsFiniteSet(Places(requests', t))
        /\ s[1] = t =>
               Cardinality(Places(requests, t)) = Cardinality(Places(requests', t)) + 1
        /\ s[1] # t =>
               Cardinality(Places(requests', t)) = Cardinality(Places(requests, t))
    BY <1>1, <2>1, RemovePlaces, SMTT(60)
  <2>3. Cardinality(Places(requests', t)) \in Nat
    BY <2>2, FS_CardinalityType, Zenon
  <2> QED
    BY <1>1, <1>2, <2>1, <2>2, <2>3
<1> QED
  BY <1>3 DEF PlaceCounts, Places

LEMMA SetOwnersCounts ==
    ASSUME TypeOK, PlaceCounts, NEW o \in Objects, NEW r \in [SubThreads -> Nat],
           SetOwners(o, r)
    PROVE  PlaceCounts'
<1>1. CASE UNCHANGED <<requests, thCount>>
  BY <1>1, SamePlaces
<1>2. CASE requests[o] # <<>> /\ ChangeOwner(o)
  <2>1. PICK q \in Seq(SubThreads) : q = requests[o]
    BY DEF TypeOK
  <2>2. /\ requests' = [requests EXCEPT ![o] = Tail(@)]
        /\ ChangeLockRequestCount(Head(requests[o]), -1)
    BY <1>2 DEF ChangeOwner
  <2>3. /\ Len(q) \in Nat /\ 1 \in 1..Len(q) /\ Head(q) = q[1]
        /\ Len(Tail(q)) = Len(q) - 1
        /\ \A j \in 1..(Len(q) - 1) : Tail(q)[j] = q[j + 1] /\ ~(j < 1)
    BY <1>2, <2>1
  <2>4. /\ requests'[o] = Tail(q)
        /\ \A p \in Objects : p # o => requests'[p] = requests[p]
    BY <2>1, <2>2 DEF TypeOK
  <2>5. requests' \in [Objects -> Seq(SubThreads)]
    BY SetOwnersType DEF LockType
  <2>6. Dropped(requests, requests', o, 1, Head(requests[o]))
    BY <2>1, <2>3, <2>4 DEF Dropped
  <2>7. Head(requests[o]) \in SubThreads
    BY <2>1, <2>3
  <2> QED
    BY <2>2, <2>5, <2>6, <2>7, DropRequestCounts
<1> QED
  BY <1>1, <1>2 DEF SetOwners, ChangeOwner, countVars

LEMMA WalkRequestCounts ==
    ASSUME TypeInv, PlaceCounts, NEW o \in Objects, WalkRequest(o)
    PROVE  PlaceCounts'
<1>1. PICK k \in DOMAIN requests[o] :
          /\ requests[o][k] = WalkTop
          /\ requests' = [requests EXCEPT ![o] = RemoveAt(@, k)]
  BY DEF WalkRequest
<1>2. PICK q \in Seq(SubThreads) : q = requests[o]
  BY DEF TypeInv, TypeOK
<1>3. k \in 1..Len(q)
  BY <1>1, <1>2
<1>4. /\ RemoveAt(q, k) \in Seq(SubThreads)
      /\ Len(RemoveAt(q, k)) = Len(q) - 1
      /\ \A j \in 1..(Len(q) - 1) : RemoveAt(q, k)[j] = IF j < k THEN q[j] ELSE q[j + 1]
  BY <1>3, RemoveAtPositions
<1>5. /\ requests' \in [Objects -> Seq(SubThreads)]
      /\ requests'[o] = RemoveAt(q, k)
      /\ \A p \in Objects : p # o => requests'[p] = requests[p]
  BY <1>1, <1>2, <1>4 DEF TypeInv, TypeOK
<1>6. ChangeLockRequestCount(WalkTop, -1) /\ WalkTop \in SubThreads
  BY WalkTopType DEF WalkRequest
<1>7. Dropped(requests, requests', o, k, WalkTop)
  BY <1>1, <1>2, <1>3, <1>4, <1>5 DEF Dropped
<1>8. k \in Nat
  BY <1>3
<1> QED
  BY <1>5, <1>6, <1>7, <1>8, DropRequestCounts DEF TypeInv

LEMMA EnterCounts ==
    ASSUME TypeInv, PlaceCounts,
           NEW t \in Threads, NEW o \in Objects, NEW i \in 1..MaxSub, Enter(t, o, i)
    PROVE  PlaceCounts'
<1>1. PICK s \in SubThreads : s = <<t, i>>
  BY DEF SubThreads
<1>2. CASE UNCHANGED <<requests, thCount>>
  BY <1>2, SamePlaces
<1>3. CASE /\ requests' = [requests EXCEPT ![o] = Append(@, s)]
           /\ thCount' = [thCount EXCEPT ![t] = @ + 1]
  <2>1. /\ requests \in [Objects -> Seq(SubThreads)] /\ thCount \in [Threads -> Int]
        /\ requests' \in [Objects -> Seq(SubThreads)]
    <3>1. TypeInv'
      BY LockOperationType
    <3> QED
      BY <3>1 DEF TypeInv, TypeOK
  <2>2. Appended(requests, requests', o, s)
    BY <1>3, <2>1 DEF Appended
  <2>3. ASSUME NEW u \in Threads
        PROVE  /\ IsFiniteSet(Places(requests', u))
               /\ thCount'[u] = Cardinality(Places(requests', u))
    <3>1. IsFiniteSet(Places(requests, u)) /\ thCount[u] = Cardinality(Places(requests, u))
      BY DEF PlaceCounts
    <3>2. /\ IsFiniteSet(Places(requests', u))
          /\ s[1] = u => Cardinality(Places(requests', u)) = Cardinality(Places(requests, u)) + 1
          /\ s[1] # u => Cardinality(Places(requests', u)) = Cardinality(Places(requests, u))
      BY <2>1, <2>2, <3>1, AppendPlaces, Zenon
    <3> QED
      BY <1>1, <1>3, <2>1, <3>1, <3>2
  <2> QED
    BY <2>3 DEF PlaceCounts, Places
<1> QED
  BY <1>1, <1>2, <1>3 DEF Enter, countVars

LEMMA InitCounts == Init => PlaceCounts
<1> SUFFICES ASSUME Init, NEW t \in Threads
             PROVE  /\ IsFiniteSet(Places(requests, t))
                    /\ thCount[t] = Cardinality(Places(requests, t))
  BY DEF PlaceCounts
<1>1. ASSUME NEW q \in Places(requests, t)
      PROVE  FALSE
  <2>1. PICK o \in Objects : \E k \in DOMAIN requests[o] : q = <<o, k>> /\ requests[o][k][1] = t
    BY PlacesAre
  <2> QED
    BY <2>1 DEF Init
<1>2. Places(requests, t) = {}
  BY <1>1
<1> QED
  BY <1>2, FS_EmptySet DEF Init

LEMMA NextCounts == TypeInv /\ PlaceCounts /\ [Next]_vars => PlaceCounts'
<1> SUFFICES ASSUME TypeInv, PlaceCounts, [Next]_vars PROVE PlaceCounts'
  OBVIOUS
<1>1. TypeOK
  BY DEF TypeInv
<1>2. CASE UNCHANGED <<requests, thCount>>
  BY <1>2, SamePlaces
<1>3. ASSUME NEW t \in Threads, Operation(t)
      PROVE  PlaceCounts'
  <2>1. CASE \/ QuantumExpired(t) \/ EnterReturns(t) \/ Sleep(t) \/ InstallConstraint(t)
             \/ Catch(t) \/ PopFrame(t) \/ Passivate(t)
    BY <1>2, <2>1
    DEF QuantumExpired, EnterReturns, Sleep, InstallConstraint, Catch, PopFrame, Passivate,
        countVars, lockVars
  <2>2. ASSUME NEW o \in Objects, NEW i \in 1..MaxSub, Enter(t, o, i)
        PROVE  PlaceCounts'
    BY <2>2, EnterCounts
  <2>3. ASSUME NEW o \in Objects, NEW i \in 1..MaxSub, Exit(t, o, i)
        PROVE  PlaceCounts'
    <3>1. CASE /\ HasOwnerEntry(o, <<t, i>>)
               /\ SetOwners(o, [recursion[o] EXCEPT ![<<t, i>>] = @ - 1])
      <4>1. <<t, i>> \in SubThreads
        BY DEF SubThreads
      <4>2. [recursion[o] EXCEPT ![<<t, i>>] = @ - 1] \in [SubThreads -> Nat]
        BY <1>1, <3>1, <4>1 DEF TypeOK, HasOwnerEntry
      <4> QED
        BY <1>1, <3>1, <4>2, SetOwnersCounts
    <3>2. CASE UNCHANGED <<requests, thCount>>
      BY <1>2, <3>2
    <3> QED
      BY <2>3, <3>1, <3>2 DEF Exit, lockVars, countVars
  <2>4. ASSUME NEW u \in Threads, Suspend(t, u) \/ Resume(t, u) \/ Abort(t, u)
        PROVE  PlaceCounts'
    BY <1>2, <2>4 DEF Suspend, Resume, Abort, countVars, lockVars
  <2> QED
    BY <1>3, <2>1, <2>2, <2>3, <2>4 DEF Operation
<1>4. ASSUME NEW t \in Threads, Engine(t)
      PROVE  PlaceCounts'
  BY <1>2, <1>4
  DEF Engine, Schedule, SleepExpired, SpawnSystem, ConstraintExpired, countVars, lockVars
<1>5. ASSUME NEW o \in Objects, WalkLock(o)
      PROVE  PlaceCounts'
  <2>1. recursion[o] \in [SubThreads -> Nat]
    BY <1>1 DEF TypeOK
  <2>2. [recursion[o] EXCEPT ![WalkTop] = 0] \in [SubThreads -> Nat]
    BY <2>1
  <2> QED
    BY <1>1, <1>5, <2>2, SetOwnersCounts DEF WalkLock
<1>6. CASE WalkPop
  BY <1>2, <1>6 DEF WalkPop, countVars, lockVars
<1>7. CASE UNCHANGED vars
  BY <1>2, <1>7 DEF vars, countVars, lockVars
<1> QED
  BY <1>3, <1>4, <1>5, <1>6, <1>7, WalkRequestCounts DEF Next, Destroy

(* The counter that decides whether a thread may run, m_lockRequestsCount, is *)
(* the number of its requests in all the queues there are, whatever grants,   *)
(* aborts, interrupted waits and destructions happen: a thread is neither      *)
(* left waiting for a request that is gone nor woken while one is queued.      *)
THEOREM RequestCountsCorrect == Spec => []RequestCounts
<1> DEFINE Inv == TypeInv /\ PlaceCounts
<1>1. Init => Inv
  BY InitType, InitCounts
<1>2. Inv /\ [Next]_vars => Inv'
  BY NextType, NextCounts
<1>3. Inv => RequestCounts
  BY DEF PlaceCounts, RequestCounts, Places
<1>4. QED
  BY <1>1, <1>2, <1>3, PTL DEF Spec

-----------------------------------------------------------------------------
(* A thread woken in Monitor.Enter.  Ready or listed as ready, it has no       *)
(* request left in any queue, and so its place is that of an owner.            *)

SleepClear ==
    \A t \in Threads :
        sleeping[t] => list[t] # "ready" /\ current # t /\ entering[t] = NotEntering
EndedClear ==
    \A t \in Threads : status[t] \in {"Terminated", "Unstarted"} => entering[t] = NotEntering
WokenHasNone ==
    \A t \in Threads :
        /\ entering[t] # NotEntering /\ ~exception[t]
        /\ status[t] = "Ready" \/ list[t] = "ready"
        => thCount[t] = 0
WakeInv == SleepClear /\ EndedClear /\ WokenHasNone

(* The three are statements about one thread each.                           *)
Wakes(t) ==
    /\ sleeping[t] => list[t] # "ready" /\ current # t /\ entering[t] = NotEntering
    /\ status[t] \in {"Terminated", "Unstarted"} => entering[t] = NotEntering
    /\ /\ entering[t] # NotEntering /\ ~exception[t]
       /\ status[t] = "Ready" \/ list[t] = "ready"
       => thCount[t] = 0

LEMMA WakeInvIs == WakeInv <=> \A t \in Threads : Wakes(t)
  BY DEF WakeInv, SleepClear, EndedClear, WokenHasNone, Wakes

(* A step that changes the state of thread t only.                            *)
LEMMA OthersWake ==
    ASSUME WakeInv, NEW t \in Threads, Wakes(t)',
           \A u \in Threads \ {t} :
               /\ status'[u] = status[u] /\ list'[u] = list[u]
               /\ sleeping'[u] = sleeping[u] /\ entering'[u] = entering[u]
               /\ exception'[u] = exception[u] /\ thCount'[u] = thCount[u],
           current' \in {current, NoThread, t}
    PROVE  WakeInv'
<1>1. ASSUME NEW u \in Threads \ {t}
      PROVE  Wakes(u)'
  <2>1. Wakes(u)
    BY WakeInvIs
  <2>2. u # NoThread /\ u # t
    BY MonitorsAssumption
  <2> QED
    BY <2>1, <2>2 DEF Wakes
<1> QED
  BY <1>1 DEF WakeInv, SleepClear, EndedClear, WokenHasNone, Wakes

(* What Restart does to the thread it restarts, and that it does nothing else. *)
LEMMA RestartFacts ==
    ASSUME TypeOK, NEW t \in Threads, NEW d \in BOOLEAN, Restart(t, d)
    PROVE  /\ status'[t] = "Ready"
           /\ sleeping'[t] => sleeping[t] /\ list'[t] # "ready"
           /\ \A u \in Threads \ {t} :
                  status'[u] = status[u] /\ list'[u] = list[u] /\ sleeping'[u] = sleeping[u]
<1>1. PICK susp \in BOOLEAN, slp \in BOOLEAN : susp = suspended[t] /\ slp = sleeping[t]
  BY DEF TypeOK
<1>2. /\ status'[t] = "Ready"
      /\ list'[t] = IF susp THEN "waiting" ELSE "ready"
      /\ sleeping'[t] = (slp /\ susp /\ ~d)
      /\ \A u \in Threads \ {t} :
             status'[u] = status[u] /\ list'[u] = list[u] /\ sleeping'[u] = sleeping[u]
  BY <1>1 DEF Restart, TypeOK
<1>3. CASE susp
  BY <1>1, <1>2, <1>3
<1>4. CASE ~susp
  BY <1>1, <1>2, <1>4
<1> QED
  BY <1>2, <1>3, <1>4

(* One request less: its thread is woken only with the last one.               *)
LEMMA DropRequestWakes ==
    ASSUME TypeOK, WakeInv, NEW s \in SubThreads, ChangeLockRequestCount(s, -1),
           thCount[s[1]] # 0,
           UNCHANGED <<entering, exception, current>>
    PROVE  WakeInv'
<1>1. PICK t \in Threads : t = s[1]
  BY DEF SubThreads
<1>2. PICK n \in Int : n = thCount[t] - 1 /\ n # -1
  BY <1>1 DEF TypeOK
<1>3. thCount'[t] = n /\ \A u \in Threads \ {t} : thCount'[u] = thCount[u]
  BY <1>1, <1>2 DEF ChangeLockRequestCount, TypeOK
<1>4. Wakes(t)
  BY WakeInvIs
<1>5. CASE n = 0 /\ Restart(t, FALSE)
  <2>1. /\ status'[t] = "Ready"
        /\ sleeping'[t] => sleeping[t] /\ list'[t] # "ready"
        /\ \A u \in Threads \ {t} :
               status'[u] = status[u] /\ list'[u] = list[u] /\ sleeping'[u] = sleeping[u]
    BY <1>5, RestartFacts
  <2>2. Wakes(t)'
    BY <1>3, <1>4, <1>5, <2>1 DEF Wakes
  <2> QED
    BY <1>3, <2>1, <2>2, OthersWake
<1>6. CASE /\ n # 0
           /\ status' = [status EXCEPT ![t] = "Waiting"]
           /\ UNCHANGED <<list, sleeping>>
  <2>1. /\ status'[t] = "Waiting"
        /\ \A u \in Threads \ {t} : status'[u] = status[u]
    BY <1>6 DEF TypeOK
  <2>2. Wakes(t)'
    BY <1>1, <1>3, <1>4, <1>6, <2>1 DEF Wakes
  <2> QED
    BY <1>3, <1>6, <2>1, <2>2, OthersWake
<1> QED
  BY <1>1, <1>2, <1>5, <1>6 DEF ChangeLockRequestCount

(* The thread of a queued request has a count above zero.                     *)
LEMMA PlacesCount ==
    ASSUME NEW rs, NEW t, IsFiniteSet(Places(rs, t)), NEW o \in Objects, NEW k \in DOMAIN rs[o],
           rs[o][k][1] = t
    PROVE  Cardinality(Places(rs, t)) \in Nat /\ Cardinality(Places(rs, t)) # 0
<1>1. <<o, k>> \in Places(rs, t)
  BY PlacesAre
<1>2. Cardinality(Places(rs, t)) \in Nat
  BY FS_CardinalityType, Zenon
<1>3. Cardinality(Places(rs, t)) = 0 => Places(rs, t) = {}
  BY FS_EmptySet, Zenon
<1> QED
  BY <1>1, <1>2, <1>3

LEMMA QueuedCounts ==
    ASSUME TypeOK, PlaceCounts, NEW o \in Objects, NEW s \in SubThreads, IsQueued(o, s)
    PROVE  thCount[s[1]] \in Nat /\ thCount[s[1]] # 0
<1>1. PICK t \in Threads : t = s[1]
  BY DEF SubThreads
<1>2. PICK k \in DOMAIN requests[o] : requests[o][k] = s
  BY DEF IsQueued
<1>3. IsFiniteSet(Places(requests, t)) /\ thCount[t] = Cardinality(Places(requests, t))
  BY DEF PlaceCounts
<1> QED
  BY <1>1, <1>2, <1>3, PlacesCount

LEMMA SetOwnersWakes ==
    ASSUME TypeOK, PlaceCounts, WakeInv, NEW o \in Objects, NEW r, SetOwners(o, r),
           UNCHANGED <<entering, current>>, exception' = exception
    PROVE  WakeInv'
<1>1. CASE UNCHANGED <<status, list, sleeping, thCount>>
  BY <1>1 DEF WakeInv, SleepClear, EndedClear, WokenHasNone
<1>2. CASE requests[o] # <<>> /\ ChangeOwner(o)
  <2>1. PICK s \in SubThreads : s = Head(requests[o]) /\ s = requests[o][1]
    BY <1>2 DEF TypeOK
  <2>2. ChangeLockRequestCount(s, -1)
    BY <1>2, <2>1 DEF ChangeOwner
  <2>3. 1 \in DOMAIN requests[o]
    BY <1>2 DEF TypeOK
  <2>4. IsQueued(o, s)
    BY <2>1, <2>3 DEF IsQueued
  <2> QED
    BY <2>2, <2>4, QueuedCounts, DropRequestWakes
<1> QED
  BY <1>1, <1>2 DEF SetOwners, ChangeOwner, countVars

LEMMA OperationWakes ==
    ASSUME TypeInv, PlaceCounts, WakeInv, NEW t \in Threads, Operation(t)
    PROVE  WakeInv'
<1>1. TypeOK /\ Wakes(t)
  BY WakeInvIs DEF TypeInv
<1>2. CASE QuantumExpired(t)
  <2>1. /\ list' = [list EXCEPT ![t] = IF status[t] = "Ready" /\ ~suspended[t] THEN "ready"
                                       ELSE "waiting"]
        /\ current' = NoThread /\ current = t /\ entering[t] = NotEntering
        /\ UNCHANGED <<status, sleeping, entering, exception, thCount>>
    BY <1>2 DEF QuantumExpired, Requeue, Running, InQuantum, countVars
  <2>2. Wakes(t)'
    BY <1>1, <2>1 DEF Wakes, TypeOK
  <2> QED
    BY <1>1, <2>1, <2>2, OthersWake DEF TypeOK
<1>3. CASE EnterReturns(t) \/ Catch(t) \/ PopFrame(t)
  <2>1. /\ entering' = [entering EXCEPT ![t] = NotEntering]
        /\ exception' \in {exception, [exception EXCEPT ![t] = FALSE]}
        /\ UNCHANGED <<status, list, sleeping, thCount, current>>
    BY <1>3 DEF EnterReturns, Catch, PopFrame, countVars
  <2>2. Wakes(t)'
    BY <1>1, <2>1 DEF Wakes, TypeOK
  <2> QED
    BY <1>1, <2>1, <2>2, OthersWake DEF TypeOK
<1>4. CASE Sleep(t)
  <2>1. /\ sleeping' = [sleeping EXCEPT ![t] = TRUE]
        /\ status' = [status EXCEPT ![t] = "Waiting"]
        /\ list' = [list EXCEPT ![t] = "waiting"]
        /\ current' = NoThread /\ t # NoThread /\ entering[t] = NotEntering
        /\ UNCHANGED <<entering, exception, thCount>>
    BY <1>4, MonitorsAssumption DEF Sleep, Running, countVars
  <2>2. Wakes(t)'
    BY <1>1, <2>1 DEF Wakes, TypeOK
  <2> QED
    BY <1>1, <2>1, <2>2, OthersWake DEF TypeOK
<1>5. CASE InstallConstraint(t)
  BY <1>5 DEF InstallConstraint, threadVars, WakeInv, SleepClear, EndedClear, WokenHasNone
<1>6. CASE Passivate(t)
  <2>1. /\ sleeping' = [sleeping EXCEPT ![t] = FALSE]
        /\ entering' = [entering EXCEPT ![t] = NotEntering]
        /\ exception' = [exception EXCEPT ![t] = FALSE]
        /\ list' = [list EXCEPT ![t] = "zombie"]
        /\ \/ status' = [status EXCEPT ![t] = "Terminated"]
           \/ status' = [status EXCEPT ![t] = "Unstarted"]
        /\ current' = NoThread
        /\ UNCHANGED thCount
    BY <1>6 DEF Passivate, countVars
  <2>2. Wakes(t)'
    BY <1>1, <2>1 DEF Wakes, TypeOK
  <2> QED
    BY <1>1, <2>1, <2>2, OthersWake DEF TypeOK
<1>7. ASSUME NEW o \in Objects, NEW i \in 1..MaxSub, Enter(t, o, i)
      PROVE  WakeInv'
  <2>1. CASE UNCHANGED <<status, list, entering, countVars, current>>
    BY <1>7, <2>1
    DEF Enter, countVars, WakeInv, SleepClear, EndedClear, WokenHasNone
  <2>2. CASE /\ thCount' = [thCount EXCEPT ![t] = @ + 1]
             /\ entering' = [entering EXCEPT ![t] = <<o, i>>]
             /\ status' = [status EXCEPT ![t] = "Waiting"]
             /\ list' = [list EXCEPT ![t] = "waiting"]
             /\ current' = NoThread
    <3>1. ~sleeping[t] /\ UNCHANGED <<sleeping, exception>>
      BY <1>1, <1>7 DEF Enter, Running, InQuantum, Wakes
    <3>2. Wakes(t)'
      BY <1>1, <2>2, <3>1 DEF Wakes, TypeOK
    <3> QED
      BY <1>1, <2>2, <3>1, <3>2, OthersWake DEF TypeOK
  <2> QED
    BY <1>7, <2>1, <2>2 DEF Enter
<1>8. ASSUME NEW o \in Objects, NEW i \in 1..MaxSub, Exit(t, o, i)
      PROVE  WakeInv'
  <2>1. CASE /\ SetOwners(o, [recursion[o] EXCEPT ![<<t, i>>] = @ - 1])
             /\ UNCHANGED exception
    BY <1>1, <1>8, <2>1, SetOwnersWakes DEF Exit
  <2>2. CASE /\ exception' = [exception EXCEPT ![t] = TRUE]
             /\ UNCHANGED <<status, list, sleeping, countVars>>
    <3>1. UNCHANGED <<entering, current, thCount, status, list, sleeping>>
      BY <1>8, <2>2 DEF Exit, countVars
    <3>2. Wakes(t)'
      BY <1>1, <2>2, <3>1 DEF Wakes, TypeOK
    <3> QED
      BY <1>1, <2>2, <3>1, <3>2, OthersWake DEF TypeOK
  <2> QED
    BY <1>8, <2>1, <2>2 DEF Exit
<1>9. ASSUME NEW u \in Threads, Suspend(t, u)
      PROVE  WakeInv'
  <2>1. /\ list' = [list EXCEPT ![u] = "waiting"]
        /\ current' \in {current, NoThread}
        /\ UNCHANGED <<status, sleeping, entering, exception, thCount>>
    BY <1>9 DEF Suspend, countVars
  <2>2. Wakes(u) /\ u # NoThread
    BY WakeInvIs, MonitorsAssumption
  <2>3. Wakes(u)'
    BY <1>1, <2>1, <2>2 DEF Wakes, TypeOK
  <2> QED
    BY <1>1, <2>1, <2>3, OthersWake DEF TypeOK
<1>10. ASSUME NEW u \in Threads, Resume(t, u)
       PROVE  WakeInv'
  <2>1. PICK slp \in BOOLEAN : slp = sleeping[u]
    BY <1>1 DEF TypeOK
  <2>2. /\ list'[u] = IF status[u] = "Ready" THEN "ready" ELSE "waiting"
        /\ sleeping'[u] = (slp /\ status[u] # "Ready")
        /\ \A v \in Threads \ {u} : list'[v] = list[v] /\ sleeping'[v] = sleeping[v]
        /\ UNCHANGED <<status, entering, exception, thCount, current>>
    BY <1>1, <1>10, <2>1 DEF Resume, countVars, TypeOK
  <2>3. Wakes(u)
    BY WakeInvIs
  <2>4. CASE status[u] = "Ready"
    BY <2>1, <2>2, <2>3, <2>4, OthersWake DEF Wakes
  <2>5. CASE status[u] # "Ready"
    BY <2>1, <2>2, <2>3, <2>5, OthersWake DEF Wakes
  <2> QED
    BY <2>4, <2>5
<1>11. ASSUME NEW u \in Threads, Abort(t, u)
       PROVE  WakeInv'
  <2>1. /\ exception' = [exception EXCEPT ![u] = TRUE]
        /\ Restart(u, TRUE)
        /\ UNCHANGED <<entering, thCount, current>>
    BY <1>11 DEF Abort, countVars
  <2>2. /\ status'[u] = "Ready"
        /\ sleeping'[u] => sleeping[u] /\ list'[u] # "ready"
        /\ \A v \in Threads \ {u} :
               status'[v] = status[v] /\ list'[v] = list[v] /\ sleeping'[v] = sleeping[v]
    BY <1>1, <2>1, RestartFacts
  <2>3. Wakes(u)
    BY WakeInvIs
  <2>4. exception'[u] = TRUE /\ \A v \in Threads \ {u} : exception'[v] = exception[v]
    BY <1>1, <2>1 DEF TypeOK
  <2>5. Wakes(u)'
    BY <2>1, <2>2, <2>3, <2>4 DEF Wakes
  <2> QED
    BY <2>1, <2>2, <2>4, <2>5, OthersWake
<1> QED
  BY <1>2, <1>3, <1>4, <1>5, <1>6, <1>7, <1>8, <1>9, <1>10, <1>11 DEF Operation

LEMMA EngineWakes ==
    ASSUME TypeInv, WakeInv, NEW t \in Threads, Engine(t)
    PROVE  WakeInv'
<1>1. TypeOK /\ Wakes(t)
  BY WakeInvIs DEF TypeInv
<1>2. CASE Schedule(t)
  <2>1. /\ list[t] = "ready" /\ current' = t
        /\ UNCHANGED <<status, list, sleeping, entering, exception, thCount>>
    BY <1>2 DEF Schedule, threadVars, countVars
  <2>2. Wakes(t)'
    BY <1>1, <2>1 DEF Wakes
  <2> QED
    BY <2>1, <2>2, OthersWake
<1>3. ASSUME Restart(t, TRUE), entering[t] = NotEntering,
             UNCHANGED <<entering, exception, thCount, current>>
      PROVE  WakeInv'
  <2>1. /\ status'[t] = "Ready"
        /\ sleeping'[t] => sleeping[t] /\ list'[t] # "ready"
        /\ \A u \in Threads \ {t} :
               status'[u] = status[u] /\ list'[u] = list[u] /\ sleeping'[u] = sleeping[u]
    BY <1>1, <1>3, RestartFacts
  <2>2. Wakes(t)'
    BY <1>1, <1>3, <2>1 DEF Wakes
  <2> QED
    BY <1>3, <2>1, <2>2, OthersWake
<1>4. CASE SleepExpired(t)
  BY <1>1, <1>3, <1>4 DEF SleepExpired, Wakes, countVars
<1>5. CASE SpawnSystem(t)
  BY <1>1, <1>3, <1>5 DEF SpawnSystem, Wakes, countVars
<1>6. ASSUME NEW i \in 1..MaxSub, ConstraintExpired(t, i)
      PROVE  WakeInv'
  <2>1. /\ exception'[t] = TRUE
        /\ \A u \in Threads \ {t} : exception'[u] = exception[u]
        /\ UNCHANGED <<thCount, current>>
    BY <1>1, <1>6 DEF ConstraintExpired, TypeOK, countVars
  <2>2. CASE Restart(t, TRUE) /\ UNCHANGED entering
    <3>1. /\ status'[t] = "Ready"
          /\ sleeping'[t] => sleeping[t] /\ list'[t] # "ready"
          /\ \A u \in Threads \ {t} :
                 status'[u] = status[u] /\ list'[u] = list[u] /\ sleeping'[u] = sleeping[u]
      BY <1>1, <2>2, RestartFacts
    <3>2. Wakes(t)'
      BY <1>1, <2>1, <2>2, <3>1 DEF Wakes
    <3> QED
      BY <2>1, <2>2, <3>1, <3>2, OthersWake
  <2>3. CASE /\ entering' = [entering EXCEPT ![t] = NotEntering]
             /\ UNCHANGED <<status, list, sleeping>>
    <3>1. Wakes(t)'
      BY <1>1, <2>1, <2>3 DEF Wakes, TypeOK
    <3> QED
      BY <1>1, <2>1, <2>3, <3>1, OthersWake DEF TypeOK
  <2> QED
    BY <1>6, <2>2, <2>3 DEF ConstraintExpired
<1> QED
  BY <1>2, <1>4, <1>5, <1>6 DEF Engine

LEMMA DestroyWakes ==
    ASSUME TypeInv, WalkClear, PlaceCounts, WakeInv, Destroy
    PROVE  WakeInv'
<1>1. walk # NoWalk /\ TypeOK
  BY DEF TypeInv, Destroy, WalkLock, WalkRequest, WalkPop
<1>2. walk.th \in Threads /\ WalkTop \in SubThreads /\ entering[walk.th] = NotEntering
  BY <1>1, WalkTopType DEF WalkClear
<1>3. ASSUME NEW o \in Objects, WalkLock(o)
      PROVE  WakeInv'
  BY <1>1, <1>3, SetOwnersWakes DEF WalkLock
<1>4. ASSUME NEW o \in Objects, WalkRequest(o)
      PROVE  WakeInv'
  <2>1. IsQueued(o, WalkTop)
    BY <1>4 DEF WalkRequest, IsQueued
  <2> QED
    BY <1>1, <1>2, <1>4, <2>1, QueuedCounts, DropRequestWakes DEF WalkRequest
<1>5. CASE WalkPop
  <2>1. UNCHANGED <<entering, exception, thCount, current>>
    BY <1>5 DEF WalkPop, countVars
  <2>2. CASE UNCHANGED <<status, list, sleeping>>
    BY <2>1, <2>2 DEF WakeInv, SleepClear, EndedClear, WokenHasNone
  <2>3. CASE Restart(walk.th, TRUE)
    <3>1. PICK t \in Threads : t = walk.th
      BY <1>2
    <3>2. /\ status'[t] = "Ready"
          /\ sleeping'[t] => sleeping[t] /\ list'[t] # "ready"
          /\ \A u \in Threads \ {t} :
                 status'[u] = status[u] /\ list'[u] = list[u] /\ sleeping'[u] = sleeping[u]
      BY <1>1, <2>3, <3>1, RestartFacts
    <3>3. Wakes(t)
      BY WakeInvIs
    <3>4. Wakes(t)'
      BY <1>2, <2>1, <3>1, <3>2, <3>3 DEF Wakes
    <3> QED
      BY <2>1, <3>2, <3>4, OthersWake
  <2> QED
    BY <1>5, <2>2, <2>3 DEF WalkPop
<1> QED
  BY <1>3, <1>4, <1>5 DEF Destroy

LEMMA NextWakes ==
    TypeInv /\ WalkClear /\ PlaceCounts /\ WakeInv /\ [Next]_vars => WakeInv'
<1> SUFFICES ASSUME TypeInv, WalkClear, PlaceCounts, WakeInv, [Next]_vars PROVE WakeInv'
  OBVIOUS
<1>1. CASE UNCHANGED vars
  BY <1>1
  DEF vars, threadVars, countVars, WakeInv, SleepClear, EndedClear, WokenHasNone
<1> QED
  BY <1>1, OperationWakes, EngineWakes, DestroyWakes DEF Next

(* When Monitor.Enter is executed again after a wait it answers S_OK without  *)
(* looking at the lock (m_customState 1).  It may: a thread that waits in it    *)
(* and is made ready, by whatever path, is an owner of the lock or has an       *)
(* exception to process.                                                       *)
THEOREM WokenOwnsLockCorrect == Spec => []WokenOwnsLock
<1> DEFINE Inv == TypeInv /\ WalkClear /\ NoLostWaiter /\ PlaceCounts /\ WakeInv
<1>1. Init => Inv
  BY InitType, InitCounts
  DEF Init, WalkClear, NoLostWaiter, WakeInv, SleepClear, EndedClear, WokenHasNone
<1>2. Inv /\ [Next]_vars => Inv'
  BY NextType, NextWalkClear, NextWaiters, NextCounts, NextWakes
<1>3. Inv => WokenOwnsLock
  <2> SUFFICES ASSUME Inv, NEW t \in Threads,
                      list[t] = "ready", entering[t] # NotEntering, ~exception[t]
               PROVE  recursion[entering[t][1]][<<t, entering[t][2]>>] > 0
    BY DEF WokenOwnsLock
  <2>0. entering[t] \in Objects \X (1..MaxSub)
    BY DEF TypeInv, TypeOK
  <2>1. PICK o \in Objects, i \in 1..MaxSub : entering[t] = <<o, i>>
    BY <2>0
  <2>2. PICK s \in SubThreads : s = <<t, i>>
    BY DEF SubThreads
  <2>3. IsQueued(o, s) \/ recursion[o][s] > 0
    <3>1. \/ IsQueued(entering[t][1], <<t, entering[t][2]>>)
          \/ recursion[entering[t][1]][<<t, entering[t][2]>>] > 0
      BY DEF NoLostWaiter
    <3>2. entering[t][1] = o /\ <<t, entering[t][2]>> = s
      BY <2>1, <2>2
    <3> QED
      BY <3>1, <3>2
  <2>4. thCount[t] = 0
    BY DEF WakeInv, WokenHasNone
  <2>5. ~IsQueued(o, s)
    BY <2>2, <2>4, QueuedCounts DEF TypeInv
  <2> QED
    BY <2>1, <2>2, <2>3, <2>5
<1>4. QED
  BY <1>1, <1>2, <1>3, PTL DEF Spec

-----------------------------------------------------------------------------
(* Waiting for oneself.  Nothing in the code stops a thread that was          *)
(* interrupted in Monitor.Enter from asking for the same lock again while its *)
(* first request is still queued; the lock is then granted to the first one.  *)
(* A thread that never has two requests queued cannot get there.              *)

CountsBounded == \A t \in Threads : thCount[t] <= MaxPending

LEMMA DropRequestBounded ==
    ASSUME TypeOK, CountsBounded, NEW s \in SubThreads, ChangeLockRequestCount(s, -1)
    PROVE  CountsBounded'
<1>1. PICK t \in Threads : t = s[1]
  BY DEF SubThreads
<1>2. thCount' = [thCount EXCEPT ![t] = @ - 1] /\ thCount \in [Threads -> Int]
  BY <1>1 DEF ChangeLockRequestCount, TypeOK
<1> QED
  BY <1>2, MonitorsAssumption DEF CountsBounded

LEMMA SetOwnersBounded ==
    ASSUME TypeOK, CountsBounded, NEW o \in Objects, NEW r, SetOwners(o, r)
    PROVE  CountsBounded'
<1>1. CASE UNCHANGED thCount
  BY <1>1 DEF CountsBounded
<1>2. CASE requests[o] # <<>> /\ ChangeOwner(o)
  <2>1. Head(requests[o]) \in SubThreads
    BY <1>2, HeadTailType DEF TypeOK
  <2> QED
    BY <1>2, <2>1, DropRequestBounded DEF ChangeOwner
<1> QED
  BY <1>1, <1>2 DEF SetOwners, ChangeOwner, countVars

LEMMA NextBounded == TypeInv /\ CountsBounded /\ [Next]_vars => CountsBounded'
<1> SUFFICES ASSUME TypeInv, CountsBounded, [Next]_vars PROVE CountsBounded'
  OBVIOUS
<1>1. TypeOK
  BY DEF TypeInv
<1>2. CASE UNCHANGED thCount
  BY <1>2 DEF CountsBounded
<1>3. ASSUME NEW t \in Threads, Operation(t)
      PROVE  CountsBounded'
  <2>1. CASE \/ QuantumExpired(t) \/ EnterReturns(t) \/ Sleep(t) \/ InstallConstraint(t)
             \/ Catch(t) \/ PopFrame(t) \/ Passivate(t)
    BY <1>2, <2>1
    DEF QuantumExpired, EnterReturns, Sleep, InstallConstraint, Catch, PopFrame, Passivate,
        countVars
  <2>2. ASSUME NEW o \in Objects, NEW i \in 1..MaxSub, Enter(t, o, i)
        PROVE  CountsBounded'
    <3>1. CASE thCount[t] < MaxPending /\ thCount' = [thCount EXCEPT ![t] = @ + 1]
      BY <1>1, <3>1, MonitorsAssumption DEF CountsBounded, TypeOK
    <3> QED
      BY <1>2, <2>2, <3>1 DEF Enter, countVars
  <2>3. ASSUME NEW o \in Objects, NEW i \in 1..MaxSub, Exit(t, o, i)
        PROVE  CountsBounded'
    BY <1>1, <1>2, <2>3, SetOwnersBounded DEF Exit, countVars
  <2>4. ASSUME NEW u \in Threads, Suspend(t, u) \/ Resume(t, u) \/ Abort(t, u)
        PROVE  CountsBounded'
    BY <1>2, <2>4 DEF Suspend, Resume, Abort, countVars
  <2> QED
    BY <1>3, <2>1, <2>2, <2>3, <2>4 DEF Operation
<1>4. ASSUME NEW t \in Threads, Engine(t)
      PROVE  CountsBounded'
  BY <1>2, <1>4
  DEF Engine, Schedule, SleepExpired, SpawnSystem, ConstraintExpired, countVars
<1>5. ASSUME NEW o \in Objects, WalkLock(o)
      PROVE  CountsBounded'
  BY <1>1, <1>5, SetOwnersBounded DEF WalkLock
<1>6. ASSUME NEW o \in Objects, WalkRequest(o)
      PROVE  CountsBounded'
  BY <1>1, <1>6, WalkTopType, DropRequestBounded DEF WalkRequest
<1>7. CASE WalkPop
  BY <1>2, <1>7 DEF WalkPop, countVars
<1>8. CASE UNCHANGED vars
  BY <1>2, <1>8 DEF vars, countVars
<1> QED
  BY <1>3, <1>4, <1>5, <1>6, <1>7, <1>8 DEF Next, Destroy

(* The queued requests of a step were queued before it, but for the one that  *)
(* Enter links.                                                              *)
LEMMA SetOwnersQueues ==
    ASSUME TypeOK, NEW o \in Objects, NEW r, SetOwners(o, r),
           NEW p \in Objects, NEW e \in SubThreads, IsQueued(p, e)'
    PROVE  /\ IsQueued(p, e)
           /\ owner'[p] \in {owner[p], NoThread} \/ thCount'[owner'[p]] = thCount[owner'[p]] - 1
<1>1. CASE UNCHANGED <<requests, owner>>
  BY <1>1 DEF IsQueued
<1>2. CASE requests[o] = <<>> /\ ChangeOwner(o)
  BY <1>2 DEF ChangeOwner, IsQueued, TypeOK
<1>3. CASE requests[o] # <<>> /\ ChangeOwner(o)
  <2>1. PICK q \in Seq(SubThreads) : q = requests[o] /\ q # <<>>
    BY <1>3 DEF TypeOK
  <2>2. PICK s \in SubThreads : s = Head(q)
    BY <2>1
  <2>3. /\ requests' = [requests EXCEPT ![o] = Tail(q)]
        /\ owner' = [owner EXCEPT ![o] = s[1]]
        /\ thCount' = [thCount EXCEPT ![s[1]] = @ - 1]
    BY <1>3, <2>1, <2>2 DEF ChangeOwner, ChangeLockRequestCount
  <2>4. s[1] \in Threads
    BY DEF SubThreads
  <2>5. CASE p # o
    BY <2>3, <2>5 DEF IsQueued, TypeOK
  <2>6. CASE p = o
    <3>1. owner'[o] = s[1] /\ thCount'[s[1]] = thCount[s[1]] - 1
      BY <2>3, <2>4 DEF TypeOK
    <3>2. PICK j \in DOMAIN Tail(q) : Tail(q)[j] = e
      BY <2>3, <2>6 DEF IsQueued, TypeOK
    <3>3. j + 1 \in DOMAIN q /\ q[j + 1] = e
      BY <2>1, <3>2
    <3> QED
      BY <2>1, <2>6, <3>1, <3>3 DEF IsQueued
  <2> QED
    BY <2>5, <2>6
<1> QED
  BY <1>1, <1>2, <1>3 DEF SetOwners

LEMMA WalkRequestQueues ==
    ASSUME TypeOK, NEW o \in Objects, WalkRequest(o),
           NEW p \in Objects, NEW e \in SubThreads, IsQueued(p, e)'
    PROVE  IsQueued(p, e)
<1>1. PICK k \in DOMAIN requests[o] : requests' = [requests EXCEPT ![o] = RemoveAt(@, k)]
  BY DEF WalkRequest
<1>2. PICK q \in Seq(SubThreads) : q = requests[o]
  BY DEF TypeOK
<1>3. CASE p # o
  BY <1>1, <1>3 DEF IsQueued, TypeOK
<1>4. CASE p = o
  <2>0. k \in 1..Len(q)
    BY <1>1, <1>2, <1>4
  <2>1. /\ RemoveAt(q, k) \in Seq(SubThreads)
        /\ Len(RemoveAt(q, k)) = Len(q) - 1
        /\ \A j \in 1..(Len(q) - 1) : RemoveAt(q, k)[j] = IF j < k THEN q[j] ELSE q[j + 1]
    BY <2>0, RemoveAtPositions
  <2>2. requests'[o] = RemoveAt(q, k)
    BY <1>1, <1>2 DEF TypeOK
  <2>3. PICK j \in DOMAIN RemoveAt(q, k) : RemoveAt(q, k)[j] = e
    BY <1>4, <2>2 DEF IsQueued
  <2>4. j \in DOMAIN q /\ j + 1 \in DOMAIN q /\ (e = q[j] \/ e = q[j + 1])
    BY <2>0, <2>1, <2>3
  <2> QED
    BY <1>2, <1>4, <2>4 DEF IsQueued
<1> QED
  BY <1>3, <1>4

SelfWaits(t) ==
    /\ entering[t] # NotEntering /\ ~exception[t]
    /\ IsQueued(entering[t][1], <<t, entering[t][2]>>)
    /\ owner[entering[t][1]] = t

LEMMA NoSelfWaitIs == NoSelfWait <=> \A t \in Threads : ~SelfWaits(t)
  BY DEF NoSelfWait, SelfWaits

LEMMA NextNoSelfWait ==
    ASSUME MaxPending = 1, TypeInv, PlaceCounts, CountsBounded, NoSelfWait, [Next]_vars
    PROVE  NoSelfWait'
<1>1. TypeOK
  BY DEF TypeInv
<1>2. PlaceCounts' /\ TypeOK' /\ CountsBounded'
  BY NextType, NextCounts, NextBounded DEF TypeInv
<1> SUFFICES ASSUME NEW u \in Threads, SelfWaits(u)'
             PROVE  FALSE
  BY DEF NoSelfWait, SelfWaits
<1>3. ~SelfWaits(u)
  BY NoSelfWaitIs
<1>4. entering'[u] \in Objects \X (1..MaxSub)
  BY <1>2 DEF SelfWaits, TypeOK
<1>5. PICK o \in Objects, i \in 1..MaxSub : entering'[u] = <<o, i>>
  BY <1>4
<1>6. PICK s \in SubThreads : s = <<u, i>>
  BY DEF SubThreads
<1>7. IsQueued(o, s)' /\ owner'[o] = u /\ ~exception'[u] /\ entering'[u] # NotEntering
  <2>1. entering'[u][1] = o /\ <<u, entering'[u][2]>> = s
    BY <1>5, <1>6
  <2> QED
    BY <2>1 DEF SelfWaits, IsQueued
<1>8. thCount'[u] = 1
  <2>1. thCount'[u] \in Nat /\ thCount'[u] # 0
    <3>1. PICK k \in DOMAIN requests'[o] : requests'[o][k] = s /\ s[1] = u
      BY <1>6, <1>7 DEF IsQueued
    <3>2. IsFiniteSet(Places(requests', u)) /\ thCount'[u] = Cardinality(Places(requests', u))
      BY <1>2 DEF PlaceCounts, Places
    <3> QED
      BY <3>1, <3>2, PlacesCount
  <2> QED
    BY <1>2, <2>1 DEF CountsBounded
(* Whoever was in its place before the step waited for itself already.        *)
<1>9. ASSUME entering'[u] = entering[u], ~exception[u], IsQueued(o, s), owner[o] = u
      PROVE  FALSE
  <2>1. entering[u][1] = o /\ <<u, entering[u][2]>> = s
    BY <1>5, <1>6, <1>9
  <2> QED
    BY <1>3, <1>7, <1>9, <2>1 DEF SelfWaits
<1>10. CASE UNCHANGED <<entering, requests, owner>> /\ (exception[u] => exception'[u])
  BY <1>7, <1>9, <1>10 DEF IsQueued
<1>11. ASSUME NEW p \in Objects, NEW r, SetOwners(p, r), UNCHANGED <<entering, exception>>
       PROVE  FALSE
  <2>1. /\ IsQueued(o, s)
        /\ owner'[o] \in {owner[o], NoThread} \/ thCount'[owner'[o]] = thCount[owner'[o]] - 1
    BY <1>1, <1>7, <1>11, SetOwnersQueues
  <2>2. CASE owner'[o] = owner[o]
    BY <1>7, <1>9, <1>11, <2>1, <2>2
  <2>3. CASE thCount'[u] = thCount[u] - 1
    <3>1. thCount[u] = 2
      BY <1>1, <1>8, <2>3 DEF TypeOK
    <3> QED
      BY <3>1 DEF CountsBounded
  <2> QED
    BY <1>7, <2>1, <2>2, <2>3, MonitorsAssumption
<1>12. ASSUME NEW t \in Threads, Operation(t)
       PROVE  FALSE
  <2>1. CASE QuantumExpired(t) \/ Sleep(t) \/ InstallConstraint(t)
    BY <1>10, <2>1 DEF QuantumExpired, Sleep, InstallConstraint, threadVars, lockVars
  <2>2. CASE EnterReturns(t) \/ Catch(t) \/ PopFrame(t) \/ Passivate(t)
    <3>1. CASE u = t
      BY <1>1, <1>7, <2>2, <3>1 DEF EnterReturns, Catch, PopFrame, Passivate, TypeOK
    <3>2. CASE u # t
      <4>1. /\ entering'[u] = entering[u] /\ exception'[u] = exception[u]
            /\ UNCHANGED <<requests, owner>>
        BY <1>1, <2>2, <3>2 DEF EnterReturns, Catch, PopFrame, Passivate, lockVars, TypeOK
      <4> QED
        BY <1>7, <1>9, <4>1 DEF IsQueued
    <3> QED
      BY <3>1, <3>2
  <2>3. ASSUME NEW p \in Objects, NEW j \in 1..MaxSub, Enter(t, p, j)
        PROVE  FALSE
    <3>0. entering[t] = NotEntering /\ exception' = exception
      BY <2>3 DEF Enter, Running
    <3>1. CASE owner' = [owner EXCEPT ![p] = t] /\ UNCHANGED <<entering, requests>>
      <4>1. u # t
        BY <1>7, <3>0, <3>1
      <4>2. owner[o] = u
        BY <1>1, <1>7, <3>1, <4>1 DEF TypeOK
      <4> QED
        BY <1>7, <1>9, <3>0, <3>1, <4>2 DEF IsQueued
    <3>2. CASE /\ ~CanTake(p, <<t, j>>)
               /\ requests' = [requests EXCEPT ![p] = Append(@, <<t, j>>)]
               /\ entering' = [entering EXCEPT ![t] = <<p, j>>]
               /\ UNCHANGED owner
      <4>1. CASE u = t
        <5>1. o = p
          BY <1>1, <1>5, <3>2, <4>1 DEF TypeOK
        <5> QED
          BY <1>7, <3>2, <4>1, <5>1 DEF CanTake
      <4>2. CASE u # t
        <5>1. entering'[u] = entering[u] /\ owner[o] = u /\ ~exception[u]
          BY <1>1, <1>7, <3>0, <3>2, <4>2 DEF TypeOK
        <5>2. IsQueued(o, s)
          <6>1. PICK q \in Seq(SubThreads) : q = requests[p]
            BY <1>1 DEF TypeOK
          <6>2. CASE o # p
            BY <1>1, <1>7, <3>2, <6>2 DEF IsQueued, TypeOK
          <6>3. CASE o = p
            <7>1. requests'[p] = Append(q, <<t, j>>)
              BY <1>1, <3>2, <6>1 DEF TypeOK
            <7>2. PICK k \in DOMAIN Append(q, <<t, j>>) : Append(q, <<t, j>>)[k] = s
              BY <1>7, <6>3, <7>1 DEF IsQueued
            <7>3. s # <<t, j>>
              BY <1>6, <4>2
            <7>4. k \in DOMAIN q /\ q[k] = s
              BY <6>1, <7>2, <7>3
            <7> QED
              BY <6>1, <6>3, <7>4 DEF IsQueued
          <6> QED
            BY <6>2, <6>3
        <5> QED
          BY <1>9, <5>1, <5>2
      <4> QED
        BY <4>1, <4>2
    <3> QED
      BY <2>3, <3>1, <3>2 DEF Enter
  <2>4. ASSUME NEW p \in Objects, NEW j \in 1..MaxSub, Exit(t, p, j)
        PROVE  FALSE
    <3>1. CASE /\ SetOwners(p, [recursion[p] EXCEPT ![<<t, j>>] = @ - 1])
               /\ UNCHANGED exception
      BY <1>11, <2>4, <3>1 DEF Exit
    <3>2. CASE exception' = [exception EXCEPT ![t] = TRUE] /\ UNCHANGED lockVars
      BY <1>1, <1>10, <2>4, <3>2 DEF Exit, lockVars, TypeOK
    <3> QED
      BY <2>4, <3>1, <3>2 DEF Exit
  <2>5. ASSUME NEW v \in Threads, Suspend(t, v) \/ Resume(t, v) \/ Abort(t, v)
        PROVE  FALSE
    BY <1>1, <1>10, <2>5 DEF Suspend, Resume, Abort, lockVars, TypeOK
  <2> QED
    BY <1>12, <2>1, <2>2, <2>3, <2>4, <2>5 DEF Operation
<1>13. ASSUME NEW t \in Threads, Engine(t)
       PROVE  FALSE
  <2>1. CASE Schedule(t) \/ SleepExpired(t) \/ SpawnSystem(t)
    BY <1>10, <2>1 DEF Schedule, SleepExpired, SpawnSystem, threadVars, lockVars
  <2>2. ASSUME NEW j \in 1..MaxSub, ConstraintExpired(t, j)
        PROVE  FALSE
    <3>1. u # t
      BY <1>1, <1>7, <2>2 DEF ConstraintExpired, TypeOK
    <3>2. /\ entering'[u] = entering[u] /\ exception'[u] = exception[u]
          /\ UNCHANGED <<requests, owner>>
      BY <1>1, <2>2, <3>1 DEF ConstraintExpired, lockVars, TypeOK
    <3> QED
      BY <1>7, <1>9, <3>2 DEF IsQueued
  <2> QED
    BY <1>13, <2>1, <2>2 DEF Engine
<1>14. CASE Destroy
  <2>1. ASSUME NEW p \in Objects, WalkLock(p)
        PROVE  FALSE
    BY <1>11, <2>1 DEF WalkLock
  <2>2. ASSUME NEW p \in Objects, WalkRequest(p)
        PROVE  FALSE
    <3>1. IsQueued(o, s) /\ UNCHANGED <<owner, entering, exception>>
      BY <1>1, <1>7, <2>2, WalkRequestQueues DEF WalkRequest
    <3> QED
      BY <1>7, <1>9, <3>1
  <2>3. CASE WalkPop
    BY <1>10, <2>3 DEF WalkPop, lockVars
  <2> QED
    BY <1>14, <2>1, <2>2, <2>3 DEF Destroy
<1>15. CASE UNCHANGED vars
  BY <1>10, <1>15 DEF vars, threadVars, lockVars
<1> QED
  BY <1>12, <1>13, <1>14, <1>15 DEF Next

(* As long as no thread has two requests queued at once, no thread waits in   *)
(* Monitor.Enter for a lock it owns.  (With two, one abort and a second Enter *)
(* are enough.)                                                              *)
THEOREM NoSelfWaitCorrect ==
    ASSUME MaxPending = 1
    PROVE  Spec => []NoSelfWait
<1> DEFINE Inv == TypeInv /\ PlaceCounts /\ CountsBounded /\ NoSelfWait
<1>1. Init => Inv
  BY InitType, InitCounts, MonitorsAssumption DEF Init, CountsBounded, NoSelfWait
<1>2. Inv /\ [Next]_vars => Inv'
  BY NextType, NextCounts, NextBounded, NextNoSelfWait
<1>3. Inv => NoSelfWait
  OBVIOUS
<1>4. QED
  BY <1>1, <1>2, <1>3, PTL DEF Spec

-----------------------------------------------------------------------------
(* The lists of the scheduler.  A thread is linked where PutInProperList would  *)
(* put it, in the middle of a destruction as well; the one that runs is in the  *)
(* ready list, which a hand-over to it must not change, and a managed thread    *)
(* is never unstarted, which Suspend and Resume do not look at.                *)

Settled(t) ==
    /\ status[t] \in {"Terminated", "Unstarted"} => list[t] = "zombie"
    /\ status[t] = "Ready" => list[t] = IF suspended[t] THEN "waiting" ELSE "ready"
    /\ status[t] = "Waiting" => list[t] = "waiting"
    /\ current = t => list[t] = "ready"
    /\ t \in Managed => status[t] # "Unstarted"

AllSettled == \A t \in Threads : Settled(t)

LEMMA SettledLists == TypeOK /\ AllSettled => ListMatchesStatus
  BY DEF TypeOK, AllSettled, Settled, ListMatchesStatus

LEMMA InitSettled == Init => AllSettled
  BY MonitorsAssumption DEF Init, AllSettled, Settled, Managed

(* A step that changes the state of thread t only.                            *)
LEMMA OthersSettled ==
    ASSUME AllSettled, NEW t \in Threads, Settled(t)',
           \A u \in Threads \ {t} :
               status'[u] = status[u] /\ list'[u] = list[u] /\ suspended'[u] = suspended[u],
           current' \in {current, NoThread, t}
    PROVE  AllSettled'
<1>1. ASSUME NEW u \in Threads \ {t}
      PROVE  Settled(u)'
  <2>1. Settled(u) /\ u # NoThread /\ u # t
    BY MonitorsAssumption DEF AllSettled
  <2> QED
    BY <2>1 DEF Settled
<1> QED
  BY <1>1 DEF AllSettled

LEMMA SameSettled ==
    ASSUME AllSettled, UNCHANGED <<status, list, suspended>>, current' \in {current, NoThread}
    PROVE  AllSettled'
<1>1. ASSUME NEW u \in Threads
      PROVE  Settled(u)'
  <2>1. Settled(u) /\ u # NoThread
    BY MonitorsAssumption DEF AllSettled
  <2> QED
    BY <2>1 DEF Settled
<1> QED
  BY <1>1 DEF AllSettled

LEMMA RestartSettled ==
    ASSUME TypeOK, AllSettled, NEW t \in Threads, NEW d \in BOOLEAN, Restart(t, d),
           suspended' = suspended, current' = current
    PROVE  AllSettled'
<1>1. PICK susp \in BOOLEAN : susp = suspended[t]
  BY DEF TypeOK
<1>2. /\ status'[t] = "Ready"
      /\ list'[t] = IF susp THEN "waiting" ELSE "ready"
      /\ \A u \in Threads \ {t} : status'[u] = status[u] /\ list'[u] = list[u]
  BY <1>1 DEF Restart, TypeOK
<1>3. Settled(t)
  BY DEF AllSettled
<1>4. Settled(t)'
  <2>1. current = t => ~susp
    <3>1. status[t] \in {"Ready", "Waiting", "Terminated", "Unstarted"}
      BY DEF TypeOK
    <3> QED
      BY <1>1, <1>3, <3>1 DEF Settled
  <2> QED
    BY <1>1, <1>2, <2>1 DEF Settled
<1> QED
  BY <1>2, <1>4, OthersSettled

(* The last request of a thread with one: the thread is restarted.             *)
LEMMA DropRequestRestarts ==
    ASSUME MaxPending = 1, TypeOK, CountsBounded, NEW s \in SubThreads,
           ChangeLockRequestCount(s, -1), thCount[s[1]] \in Nat, thCount[s[1]] # 0
    PROVE  Restart(s[1], FALSE)
<1>1. PICK t \in Threads : t = s[1]
  BY DEF SubThreads
<1>2. PICK n \in Int : n = thCount[t] - 1
  BY <1>1
<1>3. n = 0
  BY <1>1, <1>2 DEF CountsBounded
<1> QED
  BY <1>1, <1>2, <1>3 DEF ChangeLockRequestCount

LEMMA SetOwnersSettled ==
    ASSUME MaxPending = 1, TypeOK, PlaceCounts, CountsBounded, AllSettled,
           NEW o \in Objects, NEW r, SetOwners(o, r), suspended' = suspended, current' = current
    PROVE  AllSettled'
<1>1. CASE UNCHANGED <<status, list>>
  BY <1>1, SameSettled
<1>2. CASE requests[o] # <<>> /\ ChangeOwner(o)
  <2>1. PICK s \in SubThreads : s = Head(requests[o]) /\ s = requests[o][1]
    BY <1>2 DEF TypeOK
  <2>2. ChangeLockRequestCount(s, -1)
    BY <1>2, <2>1 DEF ChangeOwner
  <2>3. 1 \in DOMAIN requests[o]
    BY <1>2 DEF TypeOK
  <2>4. IsQueued(o, s)
    BY <2>1, <2>3 DEF IsQueued
  <2>5. Restart(s[1], FALSE) /\ s[1] \in Threads
    BY <2>2, <2>4, QueuedCounts, DropRequestRestarts DEF SubThreads
  <2> QED
    BY <2>5, RestartSettled
<1> QED
  BY <1>1, <1>2 DEF SetOwners, ChangeOwner, countVars

LEMMA OperationSettled ==
    ASSUME MaxPending = 1, TypeInv, PlaceCounts, CountsBounded, AllSettled,
           NEW t \in Threads, Operation(t)
    PROVE  AllSettled'
<1>1. TypeOK /\ Settled(t) /\ t # NoThread
  BY MonitorsAssumption DEF TypeInv, AllSettled
<1>2. CASE QuantumExpired(t)
  <2>1. /\ list' = [list EXCEPT ![t] = IF status[t] = "Ready" /\ ~suspended[t] THEN "ready"
                                       ELSE "waiting"]
        /\ current' = NoThread /\ current = t
        /\ UNCHANGED <<status, suspended>>
    BY <1>2 DEF QuantumExpired, Requeue, Running, InQuantum
  <2>2. Settled(t)'
    BY <1>1, <2>1 DEF Settled, TypeOK
  <2> QED
    BY <1>1, <2>1, <2>2, OthersSettled DEF TypeOK
<1>3. CASE EnterReturns(t) \/ Catch(t) \/ PopFrame(t) \/ InstallConstraint(t)
  BY <1>3, SameSettled DEF EnterReturns, Catch, PopFrame, InstallConstraint, threadVars
<1>4. CASE Sleep(t)
  <2>1. /\ status' = [status EXCEPT ![t] = "Waiting"]
        /\ list' = [list EXCEPT ![t] = "waiting"]
        /\ current' = NoThread /\ suspended' = suspended
    BY <1>4 DEF Sleep
  <2>2. Settled(t)'
    BY <1>1, <2>1 DEF Settled, TypeOK
  <2> QED
    BY <1>1, <2>1, <2>2, OthersSettled DEF TypeOK
<1>5. CASE Passivate(t)
  <2>1. /\ suspended' = [suspended EXCEPT ![t] = FALSE]
        /\ list' = [list EXCEPT ![t] = "zombie"]
        /\ \/ status' = [status EXCEPT ![t] = "Terminated"]
           \/ status' = [status EXCEPT ![t] = "Unstarted"] /\ t \in SystemThreads
        /\ current' = NoThread
    BY <1>5 DEF Passivate
  <2>2. Settled(t)'
    BY <1>1, <2>1 DEF Settled, TypeOK, Managed
  <2> QED
    BY <1>1, <2>1, <2>2, OthersSettled DEF TypeOK
<1>6. ASSUME NEW o \in Objects, NEW i \in 1..MaxSub, Enter(t, o, i)
      PROVE  AllSettled'
  <2>0. suspended' = suspended
    BY <1>6 DEF Enter
  <2>1. CASE UNCHANGED <<status, list, current>>
    BY <2>0, <2>1, SameSettled
  <2>2. CASE /\ status' = [status EXCEPT ![t] = "Waiting"]
             /\ list' = [list EXCEPT ![t] = "waiting"]
             /\ current' = NoThread
    <3>1. Settled(t)'
      BY <1>1, <2>0, <2>2 DEF Settled, TypeOK
    <3> QED
      BY <1>1, <2>0, <2>2, <3>1, OthersSettled DEF TypeOK
  <2> QED
    BY <1>6, <2>1, <2>2 DEF Enter
<1>7. ASSUME NEW o \in Objects, NEW i \in 1..MaxSub, Exit(t, o, i)
      PROVE  AllSettled'
  <2>0. suspended' = suspended /\ current' = current
    BY <1>7 DEF Exit
  <2>1. CASE SetOwners(o, [recursion[o] EXCEPT ![<<t, i>>] = @ - 1])
    BY <1>1, <2>0, <2>1, SetOwnersSettled
  <2>2. CASE UNCHANGED <<status, list>>
    BY <2>0, <2>2, SameSettled
  <2> QED
    BY <1>7, <2>1, <2>2 DEF Exit
<1>8. ASSUME NEW u \in Threads, Suspend(t, u)
      PROVE  AllSettled'
  <2>1. /\ u \in Managed /\ status[u] # "Terminated"
        /\ list' = [list EXCEPT ![u] = "waiting"]
        /\ suspended' = [suspended EXCEPT ![u] = TRUE]
        /\ current = t /\ current' = IF u = t THEN NoThread ELSE current
        /\ status' = status
    BY <1>8 DEF Suspend, Running, InQuantum
  <2>2. Settled(u) /\ u # NoThread
    BY MonitorsAssumption DEF AllSettled
  <2>3. Settled(u)'
    BY <1>1, <2>1, <2>2 DEF Settled, TypeOK
  <2> QED
    BY <1>1, <2>1, <2>3, OthersSettled DEF TypeOK
<1>9. ASSUME NEW u \in Threads, Resume(t, u)
      PROVE  AllSettled'
  <2>1. /\ u \in Managed /\ status[u] # "Terminated" /\ suspended[u]
        /\ list' = [list EXCEPT ![u] = IF status[u] = "Ready" THEN "ready" ELSE "waiting"]
        /\ suspended' = [suspended EXCEPT ![u] = FALSE]
        /\ current' = current /\ status' = status
    BY <1>9 DEF Resume
  <2>2. Settled(u)
    BY DEF AllSettled
  <2>3. Settled(u)'
    BY <1>1, <2>1, <2>2 DEF Settled, TypeOK
  <2> QED
    BY <1>1, <2>1, <2>3, OthersSettled DEF TypeOK
<1>10. ASSUME NEW u \in Threads, Abort(t, u)
       PROVE  AllSettled'
  BY <1>1, <1>10, RestartSettled DEF Abort
<1> QED
  BY <1>2, <1>3, <1>4, <1>5, <1>6, <1>7, <1>8, <1>9, <1>10 DEF Operation

LEMMA EngineSettled ==
    ASSUME TypeInv, AllSettled, NEW t \in Threads, Engine(t)
    PROVE  AllSettled'
<1>1. TypeOK /\ Settled(t)
  BY DEF TypeInv, AllSettled
<1>2. CASE Schedule(t)
  <2>1. list[t] = "ready" /\ current' = t /\ UNCHANGED <<status, list, suspended>>
    BY <1>2 DEF Schedule, threadVars
  <2>2. Settled(t)'
    BY <1>1, <2>1 DEF Settled
  <2> QED
    BY <2>1, <2>2, OthersSettled
<1>3. CASE SleepExpired(t) \/ SpawnSystem(t)
  BY <1>1, <1>3, RestartSettled DEF SleepExpired, SpawnSystem
<1>4. ASSUME NEW i \in 1..MaxSub, ConstraintExpired(t, i)
      PROVE  AllSettled'
  <2>1. suspended' = suspended /\ current' = current
    BY <1>4 DEF ConstraintExpired
  <2>2. Restart(t, TRUE) \/ UNCHANGED <<status, list>>
    BY <1>4 DEF ConstraintExpired
  <2> QED
    BY <1>1, <2>1, <2>2, RestartSettled, SameSettled
<1> QED
  BY <1>2, <1>3, <1>4 DEF Engine

LEMMA DestroySettled ==
    ASSUME MaxPending = 1, TypeInv, PlaceCounts, CountsBounded, AllSettled, Destroy
    PROVE  AllSettled'
<1>1. walk # NoWalk /\ TypeOK
  BY DEF TypeInv, Destroy, WalkLock, WalkRequest, WalkPop
<1>2. walk.th \in Threads /\ WalkTop \in SubThreads
  BY <1>1, WalkTopType
<1>3. ASSUME NEW o \in Objects, WalkLock(o)
      PROVE  AllSettled'
  BY <1>1, <1>3, SetOwnersSettled DEF WalkLock
<1>4. ASSUME NEW o \in Objects, WalkRequest(o)
      PROVE  AllSettled'
  <2>1. IsQueued(o, WalkTop)
    BY <1>4 DEF WalkRequest, IsQueued
  <2>2. Restart(WalkTop[1], FALSE) /\ WalkTop[1] \in Threads
    BY <1>1, <1>2, <1>4, <2>1, QueuedCounts, DropRequestRestarts DEF WalkRequest, SubThreads
  <2>3. suspended' = suspended /\ current' = current
    BY <1>4 DEF WalkRequest
  <2> QED
    BY <1>1, <2>2, <2>3, RestartSettled
<1>5. CASE WalkPop
  <2>1. suspended' = suspended /\ current' = current
    BY <1>5 DEF WalkPop
  <2>2. UNCHANGED <<status, list>> \/ Restart(walk.th, TRUE)
    BY <1>5 DEF WalkPop
  <2> QED
    BY <1>1, <1>2, <2>1, <2>2, RestartSettled, SameSettled
<1> QED
  BY <1>3, <1>4, <1>5 DEF Destroy

LEMMA NextSettled ==
    ASSUME MaxPending = 1, TypeInv, PlaceCounts, CountsBounded, AllSettled, [Next]_vars
    PROVE  AllSettled'
<1>1. CASE UNCHANGED vars
  BY <1>1, SameSettled DEF vars, threadVars
<1> QED
  BY <1>1, OperationSettled, EngineSettled, DestroySettled DEF Next

LEMMA InitBounded == Init => CountsBounded
  BY MonitorsAssumption DEF Init, CountsBounded

(* Restart, Suspend, Resume, Requeue and the hand-over of a lock each choose    *)
(* the list of a thread for themselves, and they agree: every thread is where its    *)
(* status and its suspension want it, also during a destruction.  With two       *)
(* requests queued, the first that is granted changes the status of a thread     *)
(* that an abort has made ready, and leaves it in its list.                    *)
THEOREM ListMatchesStatusCorrect ==
    ASSUME MaxPending = 1
    PROVE  Spec => []ListMatchesStatus
<1> DEFINE Inv == TypeInv /\ PlaceCounts /\ CountsBounded /\ AllSettled
<1>1. Init => Inv
  BY InitType, InitCounts, InitBounded, InitSettled
<1>2. Inv /\ [Next]_vars => Inv'
  BY NextType, NextCounts, NextBounded, NextSettled
<1>3. Inv => ListMatchesStatus
  BY SettledLists DEF TypeInv
<1>4. QED
  BY <1>1, <1>2, <1>3, PTL DEF Spec

-----------------------------------------------------------------------------
(* What a destruction has passed.  A thread with a request in the queue of a     *)
(* lock does not own that lock: with one request at a time it cannot have been    *)
(* granted it, and Enter does not queue for a lock of one's own.                *)

NoOwnRequest == \A o \in Objects, s \in SubThreads : IsQueued(o, s) => owner[o] # s[1]

(* A destruction still has to visit the locks that its subthread holds, and no   *)
(* lock of another thread.                                                  *)
ToRelease(own, rec, t, i, todo) ==
    /\ \A o \in todo : own[o] = t
    /\ \A o \in Objects : rec[o][<<t, i>>] > 0 => o \in todo
WalkReleased ==
    walk # NoWalk => ToRelease(owner, recursion, walk.th, subs[walk.th], walk.todo)

LEMMA NextNoOwnRequest ==
    ASSUME MaxPending = 1, TypeInv, LockStructure, PlaceCounts, CountsBounded, NoOwnRequest,
           [Next]_vars
    PROVE  NoOwnRequest'
<1>1. TypeOK
  BY DEF TypeInv
<1>2. PlaceCounts' /\ TypeOK' /\ CountsBounded'
  BY NextType, NextCounts, NextBounded DEF TypeInv
<1> SUFFICES ASSUME NEW p \in Objects, NEW e \in SubThreads,
                    IsQueued(p, e)', owner'[p] = e[1]
             PROVE  FALSE
  BY DEF NoOwnRequest
<1>3. PICK u \in Threads : u = e[1] /\ u # NoThread
  BY MonitorsAssumption DEF SubThreads
<1>4. thCount'[u] = 1
  <2>1. thCount'[u] \in Nat /\ thCount'[u] # 0
    <3>1. PICK k \in DOMAIN requests'[p] : requests'[p][k] = e
      BY DEF IsQueued
    <3>2. IsFiniteSet(Places(requests', u)) /\ thCount'[u] = Cardinality(Places(requests', u))
      BY <1>2 DEF PlaceCounts, Places
    <3> QED
      BY <1>3, <3>1, <3>2, PlacesCount
  <2> QED
    BY <1>2, <2>1 DEF CountsBounded
<1>5. ASSUME IsQueued(p, e), owner[p] = u
      PROVE  FALSE
  BY <1>3, <1>5 DEF NoOwnRequest
<1>6. CASE UNCHANGED <<requests, owner>>
  BY <1>3, <1>5, <1>6 DEF IsQueued
<1>7. ASSUME NEW o \in Objects, NEW r, SetOwners(o, r)
      PROVE  FALSE
  <2>1. /\ IsQueued(p, e)
        /\ owner'[p] \in {owner[p], NoThread} \/ thCount'[owner'[p]] = thCount[owner'[p]] - 1
    BY <1>1, <1>7, SetOwnersQueues
  <2>2. CASE thCount'[u] = thCount[u] - 1
    <3>1. thCount[u] = 2
      BY <1>1, <1>4, <2>2 DEF TypeOK
    <3> QED
      BY <3>1 DEF CountsBounded
  <2> QED
    BY <1>3, <1>5, <2>1, <2>2
<1>8. ASSUME NEW t \in Threads, NEW o \in Objects, NEW i \in 1..MaxSub, Enter(t, o, i)
      PROVE  FALSE
  <2>1. CASE /\ CanTake(o, <<t, i>>)
             /\ owner' = [owner EXCEPT ![o] = t]
             /\ UNCHANGED requests
    <3>1. IsQueued(p, e)
      BY <2>1 DEF IsQueued
    <3>2. owner[p] # NoThread
      BY <3>1 DEF LockStructure, IsQueued
    <3>3. CASE p # o
      BY <1>1, <1>3, <1>5, <2>1, <3>1, <3>3 DEF TypeOK
    <3>4. CASE p = o
      BY <1>1, <1>3, <1>5, <2>1, <3>1, <3>2, <3>4 DEF TypeOK, CanTake
    <3> QED
      BY <3>3, <3>4
  <2>2. CASE /\ ~CanTake(o, <<t, i>>)
             /\ requests' = [requests EXCEPT ![o] = Append(@, <<t, i>>)]
             /\ UNCHANGED owner
    <3>1. CASE p # o
      BY <1>1, <1>3, <1>5, <2>2, <3>1 DEF IsQueued, TypeOK
    <3>2. CASE p = o
      <4>1. PICK q \in Seq(SubThreads) : q = requests[o]
        BY <1>1 DEF TypeOK
      <4>2. requests'[o] = Append(q, <<t, i>>)
        BY <1>1, <2>2, <4>1 DEF TypeOK
      <4>3. PICK k \in DOMAIN Append(q, <<t, i>>) : Append(q, <<t, i>>)[k] = e
        BY <3>2, <4>2 DEF IsQueued
      <4>4. e # <<t, i>>
        BY <1>3, <2>2, <3>2 DEF CanTake
      <4>5. k \in DOMAIN q /\ q[k] = e
        BY <4>1, <4>3, <4>4
      <4> QED
        BY <1>3, <1>5, <2>2, <3>2, <4>1, <4>5 DEF IsQueued
    <3> QED
      BY <3>1, <3>2
  <2> QED
    BY <1>8, <2>1, <2>2 DEF Enter
<1>9. ASSUME NEW o \in Objects, WalkRequest(o)
      PROVE  FALSE
  BY <1>1, <1>3, <1>5, <1>9, WalkRequestQueues DEF WalkRequest
<1>10. ASSUME NEW t \in Threads, Operation(t)
       PROVE  FALSE
  <2>1. CASE \/ QuantumExpired(t) \/ EnterReturns(t) \/ Sleep(t) \/ InstallConstraint(t)
             \/ Catch(t) \/ PopFrame(t) \/ Passivate(t)
    BY <1>6, <2>1
    DEF QuantumExpired, EnterReturns, Sleep, InstallConstraint, Catch, PopFrame, Passivate,
        lockVars
  <2>2. ASSUME NEW o \in Objects, NEW i \in 1..MaxSub, Exit(t, o, i)
        PROVE  FALSE
    BY <1>6, <1>7, <2>2 DEF Exit, lockVars
  <2>3. ASSUME NEW u1 \in Threads, Suspend(t, u1) \/ Resume(t, u1) \/ Abort(t, u1)
        PROVE  FALSE
    BY <1>6, <2>3 DEF Suspend, Resume, Abort, lockVars
  <2> QED
    BY <1>8, <1>10, <2>1, <2>2, <2>3 DEF Operation
<1>11. ASSUME NEW t \in Threads, Engine(t)
       PROVE  FALSE
  BY <1>6, <1>11 DEF Engine, Schedule, SleepExpired, SpawnSystem, ConstraintExpired, lockVars
<1>12. CASE Destroy
  BY <1>6, <1>7, <1>9, <1>12 DEF Destroy, WalkLock, WalkPop, lockVars
<1>13. CASE UNCHANGED vars
  BY <1>6, <1>13 DEF vars, lockVars
<1> QED
  BY <1>10, <1>11, <1>12, <1>13 DEF Next

(* The entries of a lock after a hand-over: those that were left to it, or the   *)
(* one of the request that was granted.                                       *)
LEMMA SetOwnersEntries ==
    ASSUME TypeOK, NEW o \in Objects, NEW r \in [SubThreads -> Nat], SetOwners(o, r),
           NEW p \in Objects, NEW e \in SubThreads, recursion'[p][e] > 0
    PROVE  \/ p # o /\ recursion[p][e] > 0
           \/ p = o /\ r[e] > 0
           \/ p = o /\ Live(e) /\ IsQueued(o, e)
<1>1. CASE recursion' = [recursion EXCEPT ![o] = r]
  BY <1>1 DEF TypeOK
<1>2. CASE recursion' = [recursion EXCEPT ![o] = [s \in SubThreads |-> 0]]
  BY <1>2 DEF TypeOK
<1>3. CASE requests[o] # <<>> /\ ChangeOwner(o)
  <2>1. PICK q \in Seq(SubThreads) : q = requests[o] /\ q # <<>>
    BY <1>3 DEF TypeOK
  <2>2. PICK h \in SubThreads : h = Head(q) /\ h = q[1] /\ 1 \in DOMAIN q
    BY <2>1
  <2>3. /\ Live(h)
        /\ recursion' = [recursion EXCEPT ![o] = [s \in SubThreads |-> IF s = h THEN 1 ELSE 0]]
    BY <1>3, <2>1, <2>2 DEF ChangeOwner
  <2>4. IsQueued(o, h)
    BY <2>1, <2>2 DEF IsQueued
  <2>5. p = o => e = h
    BY <2>3 DEF TypeOK
  <2> QED
    BY <2>3, <2>4, <2>5 DEF TypeOK
<1> QED
  BY <1>1, <1>2, <1>3 DEF SetOwners, ChangeOwner

LEMMA StartWalkReleased ==
    ASSUME LockStructure, TypeInv', NEW t \in Threads, NEW base, NEW self,
           StartWalk(t, base, self), owner' = owner, recursion' = recursion
    PROVE  WalkReleased'
<1> SUFFICES ASSUME walk' # NoWalk
             PROVE  ToRelease(owner', recursion', walk'.th, subs'[walk'.th], walk'.todo)
  BY DEF WalkReleased
<1>1. walk'.th = t /\ walk'.todo = Locks(t)
  BY DEF StartWalk
<1>2. PICK i \in 1..MaxSub : i = subs'[t]
  BY <1>1, MonitorsAssumption DEF TypeInv, TypeOK, WalkLive
<1>3. PICK s \in SubThreads : s = <<t, i>>
  BY DEF SubThreads
<1>4. ASSUME NEW o \in Objects, recursion[o][s] > 0
      PROVE  o \in Locks(t)
  <2>1. owner[o] # NoThread
    BY <1>4 DEF LockStructure, NoOwners
  <2> QED
    BY <1>3, <1>4, <2>1 DEF LockStructure, Locks
<1> QED
  BY <1>1, <1>2, <1>3, <1>4 DEF ToRelease, Locks

LEMMA FewerEntries ==
    ASSUME NEW f \in [SubThreads -> Nat], NEW s \in SubThreads, NEW n \in Nat, n <= f[s]
    PROVE  \E r \in [SubThreads -> Nat] :
               /\ r = [f EXCEPT ![s] = n]
               /\ r[s] = n
               /\ \A e \in SubThreads : r[e] > 0 => f[e] > 0
<1> DEFINE r == [f EXCEPT ![s] = n]
<1>1. r \in [SubThreads -> Nat] /\ r[s] = n
  OBVIOUS
<1>2. ASSUME NEW e \in SubThreads, r[e] > 0
      PROVE  f[e] > 0
  <2>1. CASE e = s
    BY <1>1, <1>2, <2>1
  <2>2. CASE e # s
    BY <1>2, <2>2
  <2> QED
    BY <2>1, <2>2
<1> QED
  BY <1>1, <1>2

LEMMA SameWalkReleased ==
    ASSUME WalkReleased, walk' = walk, owner' = owner, recursion' = recursion, subs' = subs
    PROVE  WalkReleased'
BY Zenon DEF WalkReleased

(* Both hold as long as no entry is added and no subthread is lost.             *)
LEMMA SameReleased ==
    ASSUME LocksReleased, recursion' = recursion, \A t \in Threads : subs'[t] >= subs[t],
           TypeOK, TypeOK'
    PROVE  LocksReleased'
<1> SUFFICES ASSUME NEW o \in Objects, NEW s \in SubThreads, recursion'[o][s] > 0
             PROVE  Live(s)'
  BY DEF LocksReleased
<1>1. PICK t \in Threads, i \in 1..MaxSub : s = <<t, i>>
  BY DEF SubThreads
<1>2. i <= subs[t] /\ subs'[t] >= subs[t]
  BY <1>1 DEF LocksReleased, Live
<1>3. subs[t] \in Int /\ subs'[t] \in Int
  BY DEF TypeOK
<1> QED
  BY <1>1, <1>2, <1>3 DEF Live

LEMMA OperationReleased ==
    ASSUME TypeInv, TypeInv', LockStructure, LocksReleased, NEW t \in Threads, Operation(t)
    PROVE  WalkReleased' /\ LocksReleased'
<1>1. TypeOK /\ TypeOK' /\ walk = NoWalk
  BY DEF TypeInv, Operation, QuantumExpired, EnterReturns, Sleep, InstallConstraint, Catch,
         PopFrame, Passivate, Enter, Exit, Suspend, Resume, Abort, Running, InQuantum
<1>2. ASSUME UNCHANGED <<recursion, subs>>
      PROVE  LocksReleased'
  BY <1>2 DEF LocksReleased, Live
<1>3. CASE \/ QuantumExpired(t) \/ EnterReturns(t) \/ Sleep(t) \/ Catch(t)
           \/ \E u \in Threads : Suspend(t, u) \/ Resume(t, u) \/ Abort(t, u)
  BY <1>1, <1>2, <1>3
  DEF QuantumExpired, EnterReturns, Sleep, Catch, Suspend, Resume, Abort, WalkReleased,
      lockVars, subVars
<1>4. CASE InstallConstraint(t)
  <2>1. recursion' = recursion /\ walk' = walk
    BY <1>4 DEF InstallConstraint, lockVars
  <2>2. subs' = subs \/ subs' = [subs EXCEPT ![t] = @ + 1]
    BY <1>4 DEF InstallConstraint
  <2>3. \A u \in Threads : subs'[u] >= subs[u]
    BY <1>1, <2>2 DEF TypeOK
  <2> QED
    BY <1>1, <2>1, <2>3, SameReleased DEF WalkReleased
<1>5. CASE PopFrame(t) \/ Passivate(t)
  <2>1. recursion' = recursion /\ subs' = subs /\ owner' = owner
    BY <1>5 DEF PopFrame, Passivate, lockVars, subVars
  <2>2. walk' = walk \/ \E b, f : StartWalk(t, b, f)
    BY <1>5 DEF PopFrame, Passivate
  <2> QED
    BY <1>1, <1>2, <2>1, <2>2, StartWalkReleased DEF WalkReleased
<1>6. ASSUME NEW o \in Objects, NEW i \in 1..MaxSub, Enter(t, o, i)
      PROVE  WalkReleased' /\ LocksReleased'
  <2>1. walk' = walk /\ subs' = subs /\ i \in CallerLevels(t)
    BY <1>6 DEF Enter, subVars
  <2>2. PICK s \in SubThreads : s = <<t, i>>
    BY DEF SubThreads
  <2>3. Live(s)
    BY <1>1, <2>1, <2>2 DEF Live, CallerLevels, TypeOK
  <2>4. CASE recursion' = [recursion EXCEPT ![o][s] = @ + 1]
    <3> SUFFICES ASSUME NEW p \in Objects, NEW e \in SubThreads, recursion'[p][e] > 0
                 PROVE  Live(e)'
      BY <1>1, <2>1 DEF LocksReleased, WalkReleased
    <3>1. recursion[p][e] > 0 \/ e = s
      BY <1>1, <2>4 DEF TypeOK
    <3> QED
      BY <2>1, <2>3, <3>1 DEF LocksReleased, Live
  <2> QED
    BY <1>1, <1>2, <1>6, <2>1, <2>2, <2>4 DEF Enter, WalkReleased
<1>7. ASSUME NEW o \in Objects, NEW i \in 1..MaxSub, Exit(t, o, i)
      PROVE  WalkReleased' /\ LocksReleased'
  <2>1. walk' = walk /\ subs' = subs
    BY <1>7 DEF Exit, subVars
  <2>2. PICK s \in SubThreads : s = <<t, i>>
    BY DEF SubThreads
  <2>3. CASE HasOwnerEntry(o, s) /\ SetOwners(o, [recursion[o] EXCEPT ![s] = @ - 1])
    <3>1. PICK r \in [SubThreads -> Nat] :
              /\ r = [recursion[o] EXCEPT ![s] = @ - 1]
              /\ \A e \in SubThreads : r[e] > 0 => recursion[o][e] > 0
      <4>1. PICK f \in [SubThreads -> Nat] : f = recursion[o]
        BY <1>1 DEF TypeOK
      <4>2. PICK n \in Nat : n = f[s] - 1
        BY <2>3, <4>1 DEF HasOwnerEntry
      <4>3. n <= f[s]
        BY <4>1, <4>2
      <4>4. [recursion[o] EXCEPT ![s] = @ - 1] = [f EXCEPT ![s] = n]
        BY <4>1, <4>2
      <4>5. PICK r \in [SubThreads -> Nat] :
                r = [f EXCEPT ![s] = n] /\ \A e \in SubThreads : r[e] > 0 => f[e] > 0
        BY <4>3, FewerEntries
      <4> QED
        BY <4>1, <4>4, <4>5, Zenon
    <3>2. SetOwners(o, r)
      BY <2>3, <3>1
    <3> SUFFICES ASSUME NEW p \in Objects, NEW e \in SubThreads, recursion'[p][e] > 0
                 PROVE  Live(e)'
      BY <1>1, <2>1 DEF LocksReleased, WalkReleased
    <3>3. recursion[p][e] > 0 \/ Live(e)
      BY <1>1, <3>1, <3>2, SetOwnersEntries
    <3> QED
      BY <2>1, <3>3 DEF LocksReleased, Live
  <2> QED
    BY <1>1, <1>2, <1>7, <2>1, <2>2, <2>3 DEF Exit, WalkReleased, lockVars
<1> QED
  BY <1>3, <1>4, <1>5, <1>6, <1>7 DEF Operation

LEMMA EngineReleased ==
    ASSUME TypeInv, TypeInv', LockStructure, LocksReleased, WalkReleased,
           NEW t \in Threads, Engine(t)
    PROVE  WalkReleased' /\ LocksReleased'
<1>1. recursion' = recursion /\ subs' = subs /\ owner' = owner
  BY DEF Engine, Schedule, SleepExpired, SpawnSystem, ConstraintExpired, lockVars, subVars
<1>2. walk' = walk \/ \E b, f : StartWalk(t, b, f)
  BY DEF Engine, Schedule, SleepExpired, SpawnSystem, ConstraintExpired
<1>3. LocksReleased'
  BY <1>1 DEF LocksReleased, Live
<1>4. CASE walk' = walk
  BY <1>1, <1>3, <1>4, SameWalkReleased
<1> QED
  BY <1>1, <1>2, <1>3, <1>4, StartWalkReleased

(* The lock is visited and no longer the subthread's, although a destruction      *)
(* hands it to a request: that is another thread's.                            *)
LEMMA WalkLockReleased ==
    ASSUME TypeInv, LockStructure, NoOwnRequest, WalkReleased, LocksReleased,
           NEW o \in Objects, WalkLock(o)
    PROVE  WalkReleased' /\ LocksReleased'
<1>1. /\ TypeOK /\ walk \in Walks /\ walk.th \in Threads /\ walk # NoWalk /\ o \in walk.todo
      /\ WalkTop \in SubThreads
  BY WalkTopType DEF TypeInv, WalkLock
<1>2. PICK th \in Threads, i \in 1..MaxSub, top \in SubThreads :
          th = walk.th /\ i = subs[th] /\ top = <<th, i>> /\ top = WalkTop
  BY <1>1, MonitorsAssumption DEF TypeInv, TypeOK, WalkLive, WalkTop
<1>3. PICK todo \in SUBSET Objects : todo = walk.todo
  BY <1>1 DEF Walks
<1>4. ToRelease(owner, recursion, th, i, todo)
  BY <1>1, <1>2, <1>3 DEF WalkReleased
<1>5. PICK r \in [SubThreads -> Nat] :
          /\ r = [recursion[o] EXCEPT ![top] = 0]
          /\ r[top] = 0
          /\ \A e \in SubThreads : r[e] > 0 => recursion[o][e] > 0
  <2>1. PICK f \in [SubThreads -> Nat] : f = recursion[o]
    BY <1>1 DEF TypeOK
  <2>2. 0 \in Nat /\ 0 <= f[top]
    OBVIOUS
  <2> QED
    BY <2>1, <2>2, FewerEntries
<1>6. SetOwners(o, r) /\ subs' = subs
  BY <1>2, <1>5 DEF WalkLock, subVars
<1>7. /\ walk'.th = th
      /\ walk'.todo \in {todo, todo \ {o}}
      /\ walk'.todo = todo /\ todo # todo \ {o} => owner'[o] = th
  <2>1. walk' = [walk EXCEPT !.todo = walk'.todo]
    BY <1>1 DEF WalkLock, Walks
  <2>2. walk'.todo = IF todo \ {o} # {} /\ requests'[o] # requests[o] /\ owner'[o] = th
                     THEN todo ELSE todo \ {o}
    BY <1>1, <1>2, <1>3 DEF WalkLock, Walks
  <2>3. walk'.th = th
    BY <1>1, <1>2 DEF WalkLock, Walks
  <2> QED
    BY <2>2, <2>3
<1>8. ASSUME NEW p \in Objects, NEW e \in SubThreads, recursion'[p][e] > 0
      PROVE  /\ recursion[p][e] > 0 \/ Live(e)
             /\ e = top => p # o /\ recursion[p][top] > 0
  <2>1. \/ p # o /\ recursion[p][e] > 0
        \/ p = o /\ r[e] > 0
        \/ p = o /\ Live(e) /\ IsQueued(o, e)
    BY <1>1, <1>6, <1>8, SetOwnersEntries
  <2>2. ~IsQueued(o, top)
    <3>1. owner[o] = th /\ top[1] = th
      BY <1>1, <1>2, <1>3, <1>4 DEF ToRelease
    <3> QED
      BY <3>1 DEF NoOwnRequest
  <2> QED
    BY <1>5, <2>1, <2>2
<1>9. LocksReleased'
  BY <1>6, <1>8 DEF LocksReleased, Live
<1>10. ASSUME NEW p \in walk'.todo
       PROVE  owner'[p] = th
  <2>1. p \in todo
    BY <1>7
  <2>2. owner[p] = th
    BY <1>4, <2>1 DEF ToRelease
  <2>3. CASE p # o
    BY <1>1, <1>6, <2>1, <2>2, <2>3 DEF SetOwners, ChangeOwner, TypeOK
  <2>4. CASE p = o
    BY <1>7, <2>1, <2>4
  <2> QED
    BY <2>3, <2>4
<1>11. ASSUME NEW p \in Objects, recursion'[p][top] > 0
       PROVE  p \in walk'.todo
  <2>1. p # o /\ recursion[p][top] > 0
    BY <1>8, <1>11
  <2>2. p \in todo
    BY <1>2, <1>4, <2>1 DEF ToRelease
  <2> QED
    BY <1>7, <2>1, <2>2
<1>12. ToRelease(owner', recursion', th, i, walk'.todo)
  BY <1>2, <1>10, <1>11 DEF ToRelease
<1>13. subs'[th] = i
  BY <1>2, <1>6
<1> QED
  BY <1>7, <1>9, <1>12, <1>13 DEF WalkReleased

LEMMA WalkPopReleased ==
    ASSUME TypeInv, TypeInv', LockStructure, WalkReleased, LocksReleased, WalkPop
    PROVE  WalkReleased' /\ LocksReleased'
<1>1. /\ TypeOK /\ walk \in Walks /\ walk.th \in Threads /\ walk # NoWalk /\ walk.todo = {}
      /\ WalkTop \in SubThreads
      /\ recursion' = recursion /\ owner' = owner
  BY WalkTopType DEF TypeInv, WalkPop, lockVars
<1>2. PICK th \in Threads, i \in 1..MaxSub, top \in SubThreads :
          th = walk.th /\ i = subs[th] /\ top = <<th, i>> /\ top = WalkTop
  BY <1>1, MonitorsAssumption DEF TypeInv, TypeOK, WalkLive, WalkTop
<1>3. \A o \in Objects : ~(recursion[o][top] > 0)
  BY <1>1, <1>2 DEF WalkReleased, ToRelease
<1>4. walk' = NoWalk \/ StartWalk(th, walk.base, walk.self)
  BY <1>2 DEF WalkPop
<1>5. subs' = [subs EXCEPT ![th] = i] \/ subs' = [subs EXCEPT ![th] = i - 1]
  BY <1>2 DEF WalkPop
<1>6. ASSUME NEW o \in Objects, NEW e \in SubThreads, recursion[o][e] > 0
      PROVE  Live(e)'
  <2>1. PICK u \in Threads, j \in 1..MaxSub : e = <<u, j>>
    BY DEF SubThreads
  <2>2. j <= subs[u]
    BY <1>6, <2>1 DEF LocksReleased, Live
  <2>3. u = th => j # i
    BY <1>2, <1>3, <1>6, <2>1
  <2>4. j <= subs'[u]
    BY <1>1, <1>2, <1>5, <2>2, <2>3 DEF TypeOK
  <2> QED
    BY <2>1, <2>4 DEF Live
<1>7. LocksReleased'
  BY <1>1, <1>6 DEF LocksReleased
<1> QED
  BY <1>1, <1>4, <1>7, StartWalkReleased DEF WalkReleased

LEMMA NextReleased ==
    ASSUME TypeInv, LockStructure, NoOwnRequest, WalkReleased, LocksReleased, [Next]_vars
    PROVE  WalkReleased' /\ LocksReleased'
<1>1. TypeInv'
  BY NextType
<1>2. ASSUME NEW o \in Objects, WalkRequest(o)
      PROVE  WalkReleased' /\ LocksReleased'
  BY <1>2 DEF WalkRequest, WalkReleased, LocksReleased, Live, subVars
<1>3. CASE UNCHANGED vars
  BY <1>3 DEF vars, lockVars, subVars, WalkReleased, LocksReleased, Live
<1> QED
  BY <1>1, <1>2, <1>3, OperationReleased, EngineReleased, WalkLockReleased, WalkPopReleased
  DEF Next, Destroy

LEMMA InitReleased == Init => NoOwnRequest /\ WalkReleased /\ LocksReleased
  BY DEF Init, NoOwnRequest, IsQueued, WalkReleased, LocksReleased

(* A subthread is freed only after every lock that it owned has been handed on      *)
(* or freed, also those that it was granted while the destruction was going on      *)
(* (DestroyOwner, ChangeOwner), with any number of threads, locks and subthreads.   *)
(* With two requests of one thread queued it would be granted a lock that has      *)
(* been visited.                                                             *)
THEOREM LocksReleasedCorrect ==
    ASSUME MaxPending = 1
    PROVE  Spec => []LocksReleased
<1> DEFINE Inv == /\ TypeInv /\ LockStructure /\ PlaceCounts /\ CountsBounded
                  /\ NoOwnRequest /\ WalkReleased /\ LocksReleased
<1>1. Init => Inv
  BY InitType, InitCounts, InitBounded, InitReleased DEF Init, LockStructure, NoOwners
<1>2. Inv /\ [Next]_vars => Inv'
  BY NextType, NextStructure, NextCounts, NextBounded, NextNoOwnRequest, NextReleased
<1>3. Inv => LocksReleased
  OBVIOUS
<1>4. QED
  BY <1>1, <1>2, <1>3, PTL DEF Spec

-----------------------------------------------------------------------------
(* Requests.  DeleteLockRequests looks for the requests of a subthread while     *)
(* the subthread's counter says that there are some, in the locks of the threads  *)
(* that are ready or waiting.                                                 *)

SubCounts ==
    \A s \in SubThreads :
        /\ sthCount[s] \in Nat
        /\ \A o \in Objects : IsQueued(o, s) => sthCount[s] # 0

(* A managed thread that has ended has no subthread, or is the one that is being *)
(* destroyed: no lock of a parked thread is out of reach of DeleteLockRequests.   *)
Ending(t) == walk # NoWalk /\ walk.th = t /\ walk.base = 0 /\ walk.self
EndedEmpty == \A t \in Managed : list[t] = "zombie" => subs[t] = 0 \/ Ending(t)

(* A hand-over or a deletion takes the only request of its thread.              *)
LEMMA DropRequestSub ==
    ASSUME MaxPending = 1, TypeOK, TypeOK', PlaceCounts, PlaceCounts', CountsBounded, SubCounts,
           NEW o \in Objects, NEW s \in SubThreads, IsQueued(o, s),
           ChangeLockRequestCount(s, -1),
           \A p \in Objects, e \in SubThreads : IsQueued(p, e)' => IsQueued(p, e)
    PROVE  SubCounts'
<1>1. PICK t \in Threads : t = s[1]
  BY DEF SubThreads
<1>2. thCount[t] \in Nat /\ thCount[t] # 0 /\ thCount[t] <= 1
  BY <1>1, QueuedCounts DEF CountsBounded
<1>3. thCount'[t] = 0
  <2>1. PICK n \in Int : n = thCount[t] - 1 /\ n = 0
    BY <1>2
  <2> QED
    BY <1>1, <2>1 DEF ChangeLockRequestCount, TypeOK
<1>4. ASSUME NEW p \in Objects
      PROVE  ~IsQueued(p, s)'
  <2> SUFFICES ASSUME IsQueued(p, s)' PROVE FALSE
    OBVIOUS
  <2>1. PICK k \in DOMAIN requests'[p] : requests'[p][k] = s
    BY DEF IsQueued
  <2>2. IsFiniteSet(Places(requests', t)) /\ thCount'[t] = Cardinality(Places(requests', t))
    BY DEF PlaceCounts, Places
  <2> QED
    BY <1>1, <1>3, <2>1, <2>2, PlacesCount
<1>5. sthCount'[s] = sthCount[s] - 1 /\ \A e \in SubThreads : e # s => sthCount'[e] = sthCount[e]
  BY DEF ChangeLockRequestCount, TypeOK
<1>6. sthCount[s] \in Nat /\ sthCount[s] # 0
  BY DEF SubCounts
<1>7. sthCount'[s] \in Nat
  BY <1>5, <1>6
<1>8. ASSUME NEW e \in SubThreads
      PROVE  sthCount'[e] \in Nat /\ \A p \in Objects : IsQueued(p, e)' => sthCount'[e] # 0
  <2>1. CASE e = s
    BY <1>4, <1>7, <2>1
  <2>2. CASE e # s
    BY <1>5, <2>2 DEF SubCounts
  <2> QED
    BY <2>1, <2>2
<1> QED
  BY <1>8 DEF SubCounts

LEMMA SetOwnersSub ==
    ASSUME MaxPending = 1, TypeOK, TypeOK', PlaceCounts, PlaceCounts', CountsBounded, SubCounts,
           NEW o \in Objects, NEW r, SetOwners(o, r)
    PROVE  SubCounts'
<1>1. \A p \in Objects, e \in SubThreads : IsQueued(p, e)' => IsQueued(p, e)
  BY SetOwnersQueues
<1>2. CASE UNCHANGED sthCount
  BY <1>1, <1>2 DEF SubCounts
<1>3. CASE requests[o] # <<>> /\ ChangeOwner(o)
  <2>1. PICK s \in SubThreads : s = Head(requests[o]) /\ s = requests[o][1]
    BY <1>3 DEF TypeOK
  <2>2. ChangeLockRequestCount(s, -1)
    BY <1>3, <2>1 DEF ChangeOwner
  <2>3. 1 \in DOMAIN requests[o]
    BY <1>3 DEF TypeOK
  <2>4. IsQueued(o, s)
    BY <2>1, <2>3 DEF IsQueued
  <2> QED
    BY <1>1, <2>2, <2>4, DropRequestSub
<1> QED
  BY <1>2, <1>3 DEF SetOwners, ChangeOwner, countVars

(* Requests after Enter: the old ones, and that of the caller.                  *)
LEMMA AppendQueued ==
    ASSUME TypeOK, NEW o \in Objects, NEW s \in SubThreads,
           requests' = [requests EXCEPT ![o] = Append(@, s)],
           NEW p \in Objects, NEW e \in SubThreads, IsQueued(p, e)'
    PROVE  IsQueued(p, e) \/ e = s
<1>1. PICK q \in Seq(SubThreads) : q = requests[o]
  BY DEF TypeOK
<1>2. CASE p # o
  BY <1>2 DEF IsQueued, TypeOK
<1>3. CASE p = o
  <2>1. requests'[o] = Append(q, s)
    BY <1>1 DEF TypeOK
  <2>2. PICK k \in DOMAIN Append(q, s) : Append(q, s)[k] = e
    BY <1>3, <2>1 DEF IsQueued
  <2>3. e = s \/ (k \in DOMAIN q /\ q[k] = e)
    BY <1>1, <2>2
  <2> QED
    BY <1>1, <1>3, <2>3 DEF IsQueued
<1> QED
  BY <1>2, <1>3

LEMMA QueuedLive ==
    ASSUME TypeOK
    PROVE  RequestsReleased <=> \A o \in Objects, s \in SubThreads : IsQueued(o, s) => Live(s)
<1>1. \A o \in Objects : \A k \in DOMAIN requests[o] : requests[o][k] \in SubThreads
  BY DEF TypeOK
<1> QED
  BY <1>1 DEF RequestsReleased, IsQueued

LEMMA NextSubCounts ==
    ASSUME MaxPending = 1, TypeInv, PlaceCounts, CountsBounded, SubCounts, RequestsReleased,
           [Next]_vars
    PROVE  SubCounts'
<1>1. TypeOK /\ TypeOK' /\ PlaceCounts'
  BY NextType, NextCounts DEF TypeInv
<1>2. ASSUME requests' = requests, sthCount' = sthCount
      PROVE  SubCounts'
  BY <1>2 DEF SubCounts, IsQueued
<1>3. ASSUME NEW t \in Threads, Operation(t)
      PROVE  SubCounts'
  <2>1. CASE \/ QuantumExpired(t) \/ EnterReturns(t) \/ Sleep(t)
             \/ Catch(t) \/ PopFrame(t) \/ Passivate(t)
             \/ \E u \in Threads : Suspend(t, u) \/ Resume(t, u) \/ Abort(t, u)
    BY <1>2, <2>1
    DEF QuantumExpired, EnterReturns, Sleep, Catch, PopFrame, Passivate, Suspend, Resume, Abort,
        countVars, lockVars
  <2>2. CASE InstallConstraint(t)
    <3>1. requests' = requests
      BY <2>2 DEF InstallConstraint, lockVars
    <3>2. CASE sthCount' = sthCount
      BY <1>2, <3>1, <3>2
    <3>3. CASE subs[t] < MaxSub /\ sthCount' = [sthCount EXCEPT ![<<t, subs[t] + 1>>] = 0]
      <4>1. PICK i \in 1..MaxSub : i = subs[t] + 1
        BY <1>1, <3>3, MonitorsAssumption DEF TypeOK
      <4>2. PICK s \in SubThreads : s = <<t, i>>
        BY DEF SubThreads
      <4>3. ~Live(s)
        BY <1>1, <4>1, <4>2 DEF Live, TypeOK
      <4>4. \A o \in Objects : ~IsQueued(o, s)
        BY <1>1, <4>3, QueuedLive
      <4>5. sthCount'[s] = 0 /\ \A e \in SubThreads : e # s => sthCount'[e] = sthCount[e]
        BY <1>1, <3>3, <4>1, <4>2 DEF TypeOK
      <4> QED
        BY <3>1, <4>4, <4>5 DEF SubCounts, IsQueued
    <3> QED
      BY <2>2, <3>2, <3>3 DEF InstallConstraint
  <2>3. ASSUME NEW o \in Objects, NEW i \in 1..MaxSub, Enter(t, o, i)
        PROVE  SubCounts'
    <3>1. PICK s \in SubThreads : s = <<t, i>>
      BY DEF SubThreads
    <3>2. CASE /\ requests' = [requests EXCEPT ![o] = Append(@, s)]
               /\ sthCount' = [sthCount EXCEPT ![s] = @ + 1]
      <4>1. sthCount'[s] = sthCount[s] + 1 /\ \A e \in SubThreads : e # s => sthCount'[e] = sthCount[e]
        BY <1>1, <3>2 DEF TypeOK
      <4>2. sthCount[s] \in Nat
        BY DEF SubCounts
      <4>3. sthCount'[s] \in Nat /\ sthCount'[s] # 0
        BY <4>1, <4>2
      <4>4. \A p \in Objects, e \in SubThreads : IsQueued(p, e)' => IsQueued(p, e) \/ e = s
        BY <1>1, <3>2, AppendQueued
      <4> QED
        BY <4>1, <4>3, <4>4 DEF SubCounts
    <3> QED
      BY <1>2, <2>3, <3>1, <3>2 DEF Enter, countVars
  <2>4. ASSUME NEW o \in Objects, NEW i \in 1..MaxSub, Exit(t, o, i)
        PROVE  SubCounts'
    BY <1>1, <1>2, <2>4, SetOwnersSub DEF Exit, countVars, lockVars
  <2> QED
    BY <1>3, <2>1, <2>2, <2>3, <2>4 DEF Operation
<1>4. ASSUME NEW t \in Threads, Engine(t)
      PROVE  SubCounts'
  BY <1>2, <1>4
  DEF Engine, Schedule, SleepExpired, SpawnSystem, ConstraintExpired, countVars, lockVars
<1>5. ASSUME NEW o \in Objects, WalkLock(o)
      PROVE  SubCounts'
  BY <1>1, <1>5, SetOwnersSub DEF WalkLock
<1>6. ASSUME NEW o \in Objects, WalkRequest(o)
      PROVE  SubCounts'
  <2>1. WalkTop \in SubThreads /\ IsQueued(o, WalkTop) /\ ChangeLockRequestCount(WalkTop, -1)
    BY <1>6, WalkTopType DEF WalkRequest, IsQueued
  <2>2. \A p \in Objects, e \in SubThreads : IsQueued(p, e)' => IsQueued(p, e)
    BY <1>1, <1>6, WalkRequestQueues
  <2> QED
    BY <1>1, <2>1, <2>2, DropRequestSub
<1>7. CASE WalkPop
  BY <1>2, <1>7 DEF WalkPop, countVars, lockVars
<1>8. CASE UNCHANGED vars
  BY <1>2, <1>8 DEF vars, countVars, lockVars
<1> QED
  BY <1>3, <1>4, <1>5, <1>6, <1>7, <1>8 DEF Next, Destroy

LEMMA OthersEnded ==
    ASSUME EndedEmpty,
           \A u \in Threads : list'[u] = "zombie" => list[u] = "zombie" /\ subs'[u] = subs[u],
           walk = NoWalk \/ (walk'.th = walk.th /\ walk'.base = walk.base
                             /\ walk'.self = walk.self /\ walk' # NoWalk)
    PROVE  EndedEmpty'
<1> SUFFICES ASSUME NEW u \in Managed, list'[u] = "zombie"
             PROVE  subs'[u] = 0 \/ Ending(u)'
  BY DEF EndedEmpty
<1>1. list[u] = "zombie" /\ subs'[u] = subs[u]
  BY DEF Managed
<1>2. subs[u] = 0 \/ Ending(u)
  BY <1>1 DEF EndedEmpty
<1> QED
  BY <1>1, <1>2 DEF Ending

LEMMA RestartListed ==
    ASSUME TypeOK, NEW t \in Threads, NEW d, Restart(t, d),
           NEW u \in Threads, list'[u] = "zombie"
    PROVE  list[u] = "zombie"
BY DEF Restart, TypeOK

LEMMA ChangeCountListed ==
    ASSUME TypeOK, NEW s \in SubThreads, ChangeLockRequestCount(s, -1),
           NEW u \in Threads, list'[u] = "zombie"
    PROVE  list[u] = "zombie"
<1>1. s[1] \in Threads
  BY DEF SubThreads
<1> QED
  BY <1>1, RestartListed DEF ChangeLockRequestCount

LEMMA SetOwnersListed ==
    ASSUME TypeOK, NEW o \in Objects, NEW r, SetOwners(o, r),
           NEW u \in Threads, list'[u] = "zombie"
    PROVE  list[u] = "zombie"
<1>1. CASE list' = list
  BY <1>1
<1>2. CASE requests[o] # <<>> /\ ChangeOwner(o)
  <2>1. Head(requests[o]) \in SubThreads
    BY <1>2, HeadTailType DEF TypeOK
  <2> QED
    BY <1>2, <2>1, ChangeCountListed DEF ChangeOwner
<1> QED
  BY <1>1, <1>2 DEF SetOwners, ChangeOwner

LEMMA OperationEnded ==
    ASSUME TypeInv, AllSettled, EndedEmpty, NEW t \in Threads, Operation(t)
    PROVE  EndedEmpty'
<1>1. TypeOK /\ walk = NoWalk /\ Settled(t) /\ current = t
  BY DEF TypeInv, AllSettled, Operation, QuantumExpired, EnterReturns, Sleep,
         InstallConstraint, Catch, PopFrame, Passivate, Enter, Exit, Suspend, Resume, Abort,
         Running, InQuantum
<1>2. list[t] = "ready"
  BY <1>1 DEF Settled
<1>3. ASSUME \A u \in Threads : list'[u] = "zombie" => list[u] = "zombie", subs' = subs
      PROVE  EndedEmpty'
  BY <1>1, <1>3, OthersEnded
<1>4. CASE \/ QuantumExpired(t) \/ EnterReturns(t) \/ Sleep(t) \/ Catch(t) \/ PopFrame(t)
           \/ \E u \in Threads : Suspend(t, u) \/ Resume(t, u)
  <2>1. /\ subs' = subs
        /\ list' = list \/ \E u \in Threads : \E l \in {"ready", "waiting"} : list' = [list EXCEPT ![u] = l]
    BY <1>4
    DEF QuantumExpired, EnterReturns, Sleep, Catch, PopFrame, Suspend, Resume, Requeue, subVars
  <2> QED
    BY <1>1, <1>3, <2>1 DEF TypeOK
<1>5. ASSUME NEW u \in Threads, Abort(t, u)
      PROVE  EndedEmpty'
  BY <1>1, <1>3, <1>5, RestartListed DEF Abort, subVars
<1>6. CASE InstallConstraint(t)
  <2>1. list' = list /\ (subs' = subs \/ subs' = [subs EXCEPT ![t] = @ + 1])
    BY <1>6 DEF InstallConstraint, threadVars
  <2>2. \A u \in Threads : u # t => subs'[u] = subs[u]
    BY <1>1, <2>1 DEF TypeOK
  <2> QED
    BY <1>1, <1>2, <2>1, <2>2, OthersEnded
<1>7. CASE Passivate(t)
  <2>1. list' = [list EXCEPT ![t] = "zombie"] /\ subs' = subs
    BY <1>7 DEF Passivate, subVars
  <2> SUFFICES ASSUME NEW u \in Managed, list'[u] = "zombie"
               PROVE  subs'[u] = 0 \/ Ending(u)'
    BY DEF EndedEmpty
  <2>2. CASE u # t
    <3>1. list[u] = "zombie"
      BY <1>1, <2>1, <2>2 DEF TypeOK, Managed
    <3> QED
      BY <1>1, <2>1, <3>1 DEF EndedEmpty, Ending
  <2>3. CASE u = t
    <3>1. subs[t] \in Nat
      BY <1>1 DEF TypeOK
    <3>2. CASE subs[t] > 0
      <4>1. walk' = [th |-> t, base |-> 0, self |-> TRUE, todo |-> Locks(t)]
        BY <1>7, <2>3, <3>2 DEF Passivate, Managed, StartWalk
      <4>2. walk' # NoWalk
        <5>1. StartWalk(t, 0, TRUE)
          BY <1>7, <2>3, <3>2 DEF Passivate, Managed
        <5>2. 0 \in 0..MaxSub /\ TRUE \in BOOLEAN
          BY MonitorsAssumption
        <5> QED
          BY <1>1, <5>1, <5>2, StartWalkType, WalkAssumption
      <4> QED
        BY <2>3, <4>1, <4>2 DEF Ending
    <3> QED
      BY <2>1, <2>3, <3>1, <3>2
  <2> QED
    BY <2>2, <2>3
<1>8. ASSUME NEW o \in Objects, NEW i \in 1..MaxSub, Enter(t, o, i)
      PROVE  EndedEmpty'
  <2>1. subs' = subs /\ (list' = list \/ list' = [list EXCEPT ![t] = "waiting"])
    BY <1>8 DEF Enter, subVars
  <2> QED
    BY <1>1, <1>3, <2>1 DEF TypeOK
<1>9. ASSUME NEW o \in Objects, NEW i \in 1..MaxSub, Exit(t, o, i)
      PROVE  EndedEmpty'
  <2>1. subs' = subs
    BY <1>9 DEF Exit, subVars
  <2>2. CASE SetOwners(o, [recursion[o] EXCEPT ![<<t, i>>] = @ - 1])
    BY <1>1, <1>3, <2>1, <2>2, SetOwnersListed
  <2>3. CASE list' = list
    BY <1>3, <2>1, <2>3
  <2> QED
    BY <1>9, <2>2, <2>3 DEF Exit
<1> QED
  BY <1>4, <1>5, <1>6, <1>7, <1>8, <1>9 DEF Operation

LEMMA EngineEnded ==
    ASSUME TypeInv, EndedEmpty, NEW t \in Threads, Engine(t)
    PROVE  EndedEmpty'
<1>1. TypeOK /\ walk = NoWalk /\ subs' = subs
  BY DEF TypeInv, Engine, Schedule, SleepExpired, SpawnSystem, ConstraintExpired, Idle, subVars
<1>2. list' = list \/ Restart(t, TRUE)
  BY DEF Engine, Schedule, SleepExpired, SpawnSystem, ConstraintExpired, threadVars
<1>3. ASSUME NEW u \in Threads, list'[u] = "zombie"
      PROVE  list[u] = "zombie"
  BY <1>1, <1>2, <1>3, RestartListed
<1> QED
  BY <1>1, <1>3, OthersEnded

LEMMA DestroyEnded ==
    ASSUME TypeInv, EndedEmpty, Destroy
    PROVE  EndedEmpty'
<1>1. /\ TypeOK /\ walk \in Walks /\ walk.th \in Threads /\ walk # NoWalk
      /\ WalkTop \in SubThreads /\ walk.base \in 0..MaxSub /\ walk.self \in BOOLEAN
  BY WalkTopType DEF TypeInv, Destroy, WalkLock, WalkRequest, WalkPop
<1>2. ASSUME NEW o \in Objects, WalkLock(o)
      PROVE  EndedEmpty'
  <2>1. \A u \in Threads : list'[u] = "zombie" => list[u] = "zombie" /\ subs'[u] = subs[u]
    BY <1>1, <1>2, SetOwnersListed DEF WalkLock, subVars
  <2>2. walk'.th = walk.th /\ walk'.base = walk.base /\ walk'.self = walk.self /\ walk' \in Walks
    BY <1>1, <1>2 DEF WalkLock, Walks
  <2> QED
    BY <2>1, <2>2, OthersEnded, WalkAssumption
<1>3. ASSUME NEW o \in Objects, WalkRequest(o)
      PROVE  EndedEmpty'
  <2>1. \A u \in Threads : list'[u] = "zombie" => list[u] = "zombie" /\ subs'[u] = subs[u]
    BY <1>1, <1>3, ChangeCountListed DEF WalkRequest, subVars
  <2>2. walk' = walk
    BY <1>3 DEF WalkRequest
  <2> QED
    BY <1>1, <2>1, <2>2, OthersEnded
<1>4. CASE WalkPop
  <2>1. PICK th \in Threads, i \in 1..MaxSub : th = walk.th /\ i = subs[th]
    BY <1>1, MonitorsAssumption DEF TypeInv, TypeOK, WalkLive
  <2>2. ASSUME NEW u \in Threads, list'[u] = "zombie"
        PROVE  list[u] = "zombie"
    <3>1. list' = list \/ Restart(th, TRUE)
      BY <1>4, <2>1 DEF WalkPop
    <3> QED
      BY <1>1, <2>2, <3>1, RestartListed
  <2>3. subs' = [subs EXCEPT ![th] = IF i = walk.base /\ ~walk.self THEN i ELSE i - 1]
    BY <1>4, <2>1 DEF WalkPop
  <2> SUFFICES ASSUME NEW u \in Managed, list'[u] = "zombie"
               PROVE  subs'[u] = 0 \/ Ending(u)'
    BY DEF EndedEmpty
  <2>4. u \in Threads /\ (subs[u] = 0 \/ Ending(u))
    BY <2>2 DEF EndedEmpty, Managed
  <2>5. CASE subs[u] = 0
    BY <1>1, <2>1, <2>3, <2>4, <2>5 DEF TypeOK
  <2>6. CASE Ending(u)
    <3>1. u = th /\ walk.base = 0 /\ walk.self
      BY <2>1, <2>6 DEF Ending
    <3>2. subs'[u] = i - 1
      BY <1>1, <2>1, <2>3, <3>1 DEF TypeOK
    <3>3. CASE i = 1
      BY <3>2, <3>3
    <3>4. CASE i # 1
      <4>0. subs[walk.th] # walk.base /\ subs[walk.th] # 1
        BY <2>1, <3>1, <3>4
      <4>1. StartWalk(th, walk.base, walk.self)
        BY <1>4, <2>1, <4>0 DEF WalkPop
      <4>2. walk' \in Walks /\ walk' # NoWalk
        BY <1>1, <4>1, StartWalkType, WalkAssumption
      <4> QED
        BY <3>1, <4>1, <4>2 DEF Ending, StartWalk
    <3> QED
      BY <3>3, <3>4
  <2> QED
    BY <2>4, <2>5, <2>6
<1> QED
  BY <1>2, <1>3, <1>4 DEF Destroy

LEMMA NextEnded ==
    ASSUME TypeInv, AllSettled, EndedEmpty, [Next]_vars
    PROVE  EndedEmpty'
<1>1. CASE UNCHANGED vars
  BY <1>1 DEF vars, threadVars, subVars, EndedEmpty, Ending
<1> QED
  BY <1>1, OperationEnded, EngineEnded, DestroyEnded DEF Next

(* Why DeleteLockRequests finds every request of the subthread: the lock has an    *)
(* owner entry, of a subthread that exists, of a thread that is not the one being   *)
(* destroyed; so that one has not ended, and is ready or waiting.                *)
LEMMA RequestsFound ==
    ASSUME SystemThreads = {}, TypeInv, LockStructure, NoOwnRequest, LocksReleased, EndedEmpty,
           walk # NoWalk, NEW o \in Objects, IsQueued(o, WalkTop)
    PROVE  Listed(o)
<1>1. TypeOK /\ WalkTop \in SubThreads /\ WalkTop[1] = walk.th
  BY WalkTopType DEF TypeInv, WalkTop
<1>2. owner[o] # NoThread
  BY DEF IsQueued, LockStructure
<1>3. PICK v \in Threads : v = owner[o] /\ v # walk.th
  BY <1>1, <1>2 DEF TypeOK, NoOwnRequest
<1>4. PICK e \in SubThreads : recursion[o][e] > 0 /\ e[1] = v
  <2>1. PICK e \in SubThreads : recursion[o][e] # 0
    BY <1>2 DEF LockStructure, NoOwners
  <2>2. recursion[o][e] > 0
    BY <1>1, <2>1 DEF TypeOK
  <2> QED
    BY <1>2, <1>3, <2>2 DEF LockStructure
<1>5. subs[v] # 0
  <2>1. e[2] <= subs[v] /\ e[2] \in 1..MaxSub
    BY <1>4 DEF LocksReleased, Live, SubThreads
  <2> QED
    BY <1>1, <2>1 DEF TypeOK
<1>6. list[v] # "zombie"
  BY <1>3, <1>5 DEF EndedEmpty, Ending, Managed
<1> QED
  BY <1>1, <1>2, <1>3, <1>6 DEF Listed, TypeOK

LEMMA NextRequestsReleased ==
    ASSUME SystemThreads = {}, TypeInv, LockStructure, NoOwnRequest, LocksReleased, EndedEmpty,
           SubCounts, RequestsReleased, [Next]_vars
    PROVE  RequestsReleased'
<1>1. TypeOK /\ TypeOK'
  BY NextType DEF TypeInv
<1> SUFFICES ASSUME NEW p \in Objects, NEW e \in SubThreads, IsQueued(p, e)'
             PROVE  Live(e)'
  <2>1. \A o \in Objects : \A k \in DOMAIN requests'[o] : requests'[o][k] \in SubThreads
    BY <1>1 DEF TypeOK
  <2> QED
    BY <2>1 DEF RequestsReleased, IsQueued
<1>2. ASSUME IsQueued(p, e), subs' = subs
      PROVE  Live(e)'
  BY <1>1, <1>2, QueuedLive DEF Live
<1>3. ASSUME requests' = requests
      PROVE  IsQueued(p, e)
  BY <1>3 DEF IsQueued
<1>4. ASSUME NEW t \in Threads, Operation(t)
      PROVE  Live(e)'
  <2>1. CASE \/ QuantumExpired(t) \/ EnterReturns(t) \/ Sleep(t)
             \/ Catch(t) \/ PopFrame(t) \/ Passivate(t)
             \/ \E u \in Threads : Suspend(t, u) \/ Resume(t, u) \/ Abort(t, u)
    BY <1>2, <1>3, <2>1
    DEF QuantumExpired, EnterReturns, Sleep, Catch, PopFrame, Passivate, Suspend, Resume, Abort,
        subVars, lockVars
  <2>2. CASE InstallConstraint(t)
    <3>1. IsQueued(p, e) /\ (subs' = subs \/ subs' = [subs EXCEPT ![t] = @ + 1])
      BY <1>3, <2>2 DEF InstallConstraint, lockVars
    <3>2. PICK u \in Threads, j \in 1..MaxSub : e = <<u, j>>
      BY DEF SubThreads
    <3>3. j <= subs[u]
      BY <1>1, <3>1, <3>2, QueuedLive DEF Live
    <3>4. j <= subs'[u]
      <4>1. subs \in [Threads -> 0..MaxSub] /\ MaxSub \in Nat
        BY <1>1, MonitorsAssumption DEF TypeOK
      <4>2. CASE subs' = subs
        BY <3>3, <4>2
      <4>3. CASE subs' = [subs EXCEPT ![t] = @ + 1]
        BY <3>2, <3>3, <4>1, <4>3
      <4> QED
        BY <3>1, <4>2, <4>3
    <3> QED
      BY <3>2, <3>4 DEF Live
  <2>3. ASSUME NEW o \in Objects, NEW i \in 1..MaxSub, Enter(t, o, i)
        PROVE  Live(e)'
    <3>1. PICK s \in SubThreads : s = <<t, i>>
      BY DEF SubThreads
    <3>2. subs' = subs /\ Live(s)
      <4>1. subs' = subs /\ i \in CallerLevels(t)
        BY <2>3 DEF Enter, subVars
      <4>2. Live(s)
        <5>1. i = subs[t] - 1 \/ i = subs[t]
          BY <4>1 DEF CallerLevels
        <5>2. subs[t] \in 0..MaxSub /\ MaxSub \in Nat
          BY <1>1, MonitorsAssumption DEF TypeOK
        <5>3. i <= subs[t]
          BY <5>1, <5>2
        <5> QED
          BY <3>1, <5>3 DEF Live
      <4> QED
        BY <4>1, <4>2
    <3>3. CASE requests' = [requests EXCEPT ![o] = Append(@, s)]
      <4>1. IsQueued(p, e) \/ e = s
        BY <1>1, <3>3, AppendQueued
      <4> QED
        BY <1>2, <3>2, <4>1 DEF Live
    <3> QED
      BY <1>2, <1>3, <2>3, <3>1, <3>2, <3>3 DEF Enter
  <2>4. ASSUME NEW o \in Objects, NEW i \in 1..MaxSub, Exit(t, o, i)
        PROVE  Live(e)'
    BY <1>1, <1>2, <1>3, <2>4, SetOwnersQueues DEF Exit, lockVars, subVars
  <2> QED
    BY <1>4, <2>1, <2>2, <2>3, <2>4 DEF Operation
<1>5. ASSUME NEW t \in Threads, Engine(t)
      PROVE  Live(e)'
  BY <1>2, <1>3, <1>5
  DEF Engine, Schedule, SleepExpired, SpawnSystem, ConstraintExpired, subVars, lockVars
<1>6. ASSUME NEW o \in Objects, WalkLock(o)
      PROVE  Live(e)'
  BY <1>1, <1>2, <1>6, SetOwnersQueues DEF WalkLock, subVars
<1>7. ASSUME NEW o \in Objects, WalkRequest(o)
      PROVE  Live(e)'
  BY <1>1, <1>2, <1>7, WalkRequestQueues DEF WalkRequest, subVars
<1>8. CASE WalkPop
  <2>1. /\ walk # NoWalk /\ IsQueued(p, e)
        /\ WalkTop \in SubThreads /\ walk.th \in Threads
    BY <1>3, <1>8, WalkTopType DEF WalkPop, lockVars
  <2>2. PICK th \in Threads, i \in 1..MaxSub, top \in SubThreads :
            th = walk.th /\ i = subs[th] /\ top = <<th, i>> /\ top = WalkTop
    <3>1. TypeOK /\ WalkLive /\ walk \in Walks
      BY <2>1 DEF TypeInv, TypeOK
    <3>2. subs[walk.th] \in 1..MaxSub
      BY <2>1, <3>1, MonitorsAssumption DEF TypeOK, WalkLive
    <3> QED
      BY <2>1, <3>2 DEF WalkTop
  <2>3. e # top
    <3> SUFFICES ASSUME e = top PROVE FALSE
      OBVIOUS
    <3>1. sthCount[top] # 0
      BY <2>1 DEF SubCounts
    <3>2. ~(Listed(p) /\ IsQueued(p, WalkTop))
      BY <1>8, <2>2, <3>1 DEF WalkPop
    <3> QED
      BY <2>1, <2>2, <3>2, RequestsFound
  <2>4. PICK u \in Threads, j \in 1..MaxSub : e = <<u, j>>
    BY DEF SubThreads
  <2>5. j <= subs[u] /\ (u = th => j # i)
    BY <1>1, <2>1, <2>2, <2>3, <2>4, QueuedLive DEF Live
  <2>6. subs' = [subs EXCEPT ![th] = i] \/ subs' = [subs EXCEPT ![th] = i - 1]
    BY <1>8, <2>2 DEF WalkPop
  <2>7. j <= subs'[u]
    <3>1. subs \in [Threads -> 0..MaxSub] /\ MaxSub \in Nat
      BY <1>1, MonitorsAssumption DEF TypeOK
    <3>2. CASE u = th
      BY <2>2, <2>4, <2>5, <2>6, <3>1, <3>2
    <3>3. CASE u # th
      BY <2>4, <2>5, <2>6, <3>1, <3>3
    <3> QED
      BY <3>2, <3>3
  <2> QED
    BY <2>4, <2>7 DEF Live
<1>9. CASE UNCHANGED vars
  BY <1>2, <1>3, <1>9 DEF vars, subVars, lockVars
<1> QED
  BY <1>4, <1>5, <1>6, <1>7, <1>8, <1>9 DEF Next, Destroy

LEMMA InitRequests == Init => SubCounts /\ EndedEmpty /\ RequestsReleased
<1> SUFFICES ASSUME Init PROVE SubCounts /\ EndedEmpty /\ RequestsReleased
  OBVIOUS
<1>1. SubCounts /\ RequestsReleased
  BY DEF Init, SubCounts, RequestsReleased, IsQueued
<1>2. EndedEmpty
  BY DEF Init, EndedEmpty, Managed
<1> QED
  BY <1>1, <1>2

(* No request names a subthread that has been freed, so that a hand-over never     *)
(* reads one: DeleteLockRequests has taken them all out of the queues, wherever     *)
(* they stood.  A system thread can be parked with a lock of its own, whose queue   *)
(* DeleteLockRequests does not come to; without system threads this holds for any  *)
(* number of threads, locks and subthreads.                                    *)
THEOREM RequestsReleasedCorrect ==
    ASSUME MaxPending = 1, SystemThreads = {}
    PROVE  Spec => []RequestsReleased
<1> DEFINE Inv == /\ TypeInv /\ LockStructure /\ PlaceCounts /\ CountsBounded /\ AllSettled
                  /\ NoOwnRequest /\ WalkReleased /\ LocksReleased
                  /\ SubCounts /\ EndedEmpty /\ RequestsReleased
<1>1. Init => Inv
  BY InitType, InitCounts, InitBounded, InitSettled, InitReleased, InitRequests
  DEF Init, LockStructure, NoOwners
<1>2. Inv /\ [Next]_vars => Inv'
  BY NextType, NextStructure, NextCounts, NextBounded, NextSettled, NextNoOwnRequest,
     NextReleased, NextSubCounts, NextEnded, NextRequestsReleased
<1>3. Inv => RequestsReleased
  OBVIOUS
<1>4. QED
  BY <1>1, <1>2, <1>3, PTL DEF Spec
=============================================================================
