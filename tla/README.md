# Formal models of the nanoCLR execution engine

TLA+ specifications of the control logic of the nanoCLR, the .NET runtime in
this repository (`src/src`): which thread runs, owns a lock and is woken; how
exceptions unwind; what the garbage collector keeps and moves; how time-outs
and interrupts reach managed code; how the debugger's line recovers from
damage; and the collections. TLC checks them on small instances; TLAPS proves
theorems about them for every value of their constants.

- [1. The system](#1-the-system): components, state, operations, what is hard
- [2. Modules](#2-modules): what models what, and how faithfully
- [3. Runs](#3-runs): what is checked, bounds, fairness
- [4. Proofs](#4-proofs): what is proved, from what, along which argument
- [5. Findings](#5-findings): where code and comments disagree
- [6. Not modelled](#6-not-modelled)
- [7. Plan](#7-plan)

To repeat the checks, in this directory:

    tlc -workers 2 -config Monitors.cfg MCMonitors.tla
    tlapm MonitorsProofs.tla    # and the other ...Proofs modules

A configuration whose name continues that of a module (`MonitorsAbandonedLock.cfg`)
belongs to the same MC module. Paths below leave out the leading `src/src/`;
`Execution.cpp`, `Thread.cpp` and so on are in `CLR/Core`.

## 1. The system

The nanoCLR interprets .NET IL on a microcontroller. There is **one native
thread**: `CLR_RT_ExecutionEngine::Execute` loops over *check time-outs - start
system threads - run up to N quanta - wait for an interrupt*. A managed thread
runs one quantum in `CLR_RT_Thread::Execute`, and is not preempted inside a
native call. The concurrency is therefore an interleaving of quanta, engine
housekeeping and interrupts, but it is real: a managed thread can be stopped
between any two IL instructions, a native call that blocks is entered twice
(`m_customState` 0 and 1) with anything in between, and interrupts and the
timer task of the operating system run between any two native instructions
outside the global lock.

| Component | State | Operations | Hard because | Correct when | Module |
|---|---|---|---|---|---|
| **Object locks** (`CLR_RT_HeapBlock_Lock`, `_LockRequest`, `Thread.cpp`, `Monitor.cpp`) | a lock per object: owning thread, owner entries with recursion per subthread, queue of requests; two request counters | Enter, Exit, hand-over, subthread creation and destruction | aborts, time constraints and thread ends happen while a thread waits or owns; destruction edits the lists it walks | owners and entries agree, nobody is lost, nobody believes to own a lock it does not own, dead subthreads own and want nothing | `Monitors` |
| **Scheduler** (`Execution.cpp` 1072-1478) | ready, waiting, zombie list; counter and priority per thread; global counter | ScheduleThreads, PutInProperList, InsertThreadRoundRobin, AdjustExecutionCounter; Start, Sleep, Suspend, Resume, Priority | the running thread stays in the ready list; counters only fall and are `int`; the sort key changes while linked | every ready thread is listed once, counters stay in range, nobody starves | `Scheduler` |
| **Wait handles, Join** (`CLR_RT_HeapBlock_WaitForObject.cpp`) | wait object and result per thread, signaled flag per event | WaitOne/Any/All, Set, Reset, Join, time-out | `SignalObject` walks `m_threadsWaiting` while it relinks threads in it; time-outs race signals; suspended threads keep their wait object | no missed signal, one end per wait, Set ends | `WaitHandles` |
| **Managed timers** (`CLR_RT_HeapBlock_Timer.cpp`) | flags enabled, triggered, executing, recurring per timer | Trigger, SpawnTimer, Reschedule, Change, Dispose | expires while its callback runs | one callback at a time, none lost for a recurring timer | `Timers` |
| **Interpreter: exceptions and frames** (`Interpreter.cpp`, `Thread.cpp` 1040-1440) | stack frames, the stack of exceptions in progress | throw, rethrow, leave, endfinally, endfilter, ret, abort | two passes; finally blocks and filters run managed code in the middle of both; the exception stack overflows | every finally block runs once, the entries fit the frames | `Exceptions` |
| **Garbage collector, finalizers, weak references** (`GarbageCollector*.cpp`, `CLR_RT_HeapBlock_Finalizer.cpp`) | marks, mark stacks, alive and pending finalizers | Mark, sweep, SuppressFinalize, ReRegisterForFinalize, SpawnFinalizer | the mark stack is bounded and gives up parts of the graph; resurrection | exactly the unreachable is freed, each registration finalizes once | `Collector` |
| **Heap clusters, compaction, event cache** (`CLR_RT_HeapCluster.cpp`, `GarbageCollector_Compaction.cpp`, `Cache.cpp`) | block headers, free lists, relocation table, lists of recycled nodes | allocate, release, recover, compact, recycle | the compactor edits the free lists it walks; the table fills up halfway | lists and headers agree, references follow, pinned blocks stay | `HeapCluster` |
| **Completions, system events** (`PAL/AsyncProcCall`, `PAL/Events`) | sorted list of deadlines, continuations, compare register, event bits | EnqueueTicks, Abort, DequeueAndExec, WaitForInterrupts | the timer task runs between the engine's steps and changes what it armed | sorted, nothing early, everything served | `Completions` |
| **Native events** (`InterruptHandler.cpp`, `NativeEventDispatcher.cpp`) | ring buffer of interrupt records, application queue, dispatchers | interrupt, transfer, dispatch, dispose, collect | interrupts between peek and pop; records name dispatchers by address | each event once, in order, and never for a dead dispatcher | `NativeEvents` |
| **Wire protocol** (`CLR/WireProtocol`) | state of the receiver, bytes so far, time-out | receive, resynchronise, process, reply | lost and changed bytes, pieces of any length | never deaf; a clean packet is answered at once | `Wire` |
| **Queue, Stack, ArrayList, Hashtable; ring buffer** | an array with indices into it; buckets | Enqueue, Push, Insert, grow, remove, enumerate | wrap-around, growth, holes left by removal | a sequence; a map | `Collections`, `Hashtable` |
| **Static constructors** (`Execution.cpp` 900-1070) | `m_cctorThread` | SpawnStaticConstructor | runs alone, its end starts the next | all of them run before anything else | not modelled |
| **Debugger** (`CLR/Debugger`) | Stopped flag, breakpoints | commands | asynchronous commands | - | not modelled |
| **Type system, serialization, text, graphics, HAL, targets** | tables, buffers, registers | look-up, conversion, I/O | - | - | not modelled |

How they interact: locks, wait handles, timers, finalizers and native events
all act through three shared things, the thread's `m_status`, its list, and
`Restart`/`PutInProperList`. The modules for threads keep their own copy of that
protocol, translated from the same lines; `ListMatchesStatus`, `ReadyListed` and
`WaitingListed` state what it must guarantee to the others. `Completions` sets
the system events the engine waits for; `NativeEvents` takes one of them as its
wake-up. `Collector` decides what is garbage, `HeapCluster` what becomes of its
space; `Timers` and `NativeEvents` have the collector as an action that may free
their nodes.

`PROJECT.json` lists every component with its sources, and every hazard with
the line where it bites and the property that covers it.

## 2. Modules

### Lists.tla - the lists of the runtime

The doubly linked lists as sequences of nodes: `Unlink`, and `LinkAtBack`, which
unlinks the node first, as `InsertBeforeNode` does. `Scheduler`, `WaitHandles` and
`Timers` extend it. That a node is in its list once is what these modules state and
prove, and not built into the representation.

### Monitors.tla - locks, requests, subthreads

| Variable | Code |
|---|---|
| `status`, `list`, `suspended`, `exception` | `m_status`, the engine list, `TH_F_Suspended`, `m_currentException` |
| `hasFrames`, `entering` | a non-empty `m_stackFrames`; the top frame is `Monitor.Enter` in custom state 1 |
| `sleeping`, `expiries` | armed `m_waitForEvents_Timeout`; state of a subthread's `m_timeConstraint` |
| `subs` | length of `m_subThreads`; subthread *i* of *t* is `<<t, i>>` |
| `thCount`, `sthCount` | `m_lockRequestsCount` of thread and subthread |
| `owner`, `recursion`, `requests` | `m_owningThread`, the owner entries with `m_recursion`, `m_requests` of the object's lock |
| `current`, `walk` | the thread in `Execute`; the `DestroyInstance` loop in progress |

One action per operation: `Enter`, `EnterReturns`, `Exit`, `Sleep`, `Suspend`,
`Resume`, `Abort`, `InstallConstraint`, `Catch`, `PopFrame`, `Passivate`,
`QuantumExpired` for the running thread; `Schedule`, `SleepExpired`,
`ConstraintExpired`, `SpawnSystem` for the engine. Exceptions are data only as
far as they wake, interrupt and unwind.
`CLR_RT_SubThread::DestroyInstance` is the one native routine modelled in
smaller steps (`WalkLock`, `WalkRequest`, `WalkPop`): it changes the lists it
walks, and each iteration is one step with all others disabled, so that the
invariants are also checked between iterations. The order of `m_locks` is
abstracted: any lock of the thread may be visited next, and a lock that comes
back to its owner is visited again only if the walk had not passed the end.

`ChangeOwner` requires that the request it dequeues names a live subthread. Past
a request that names a freed one the code reads freed memory, for which there
is nothing to model; `RequestsReleased` says when that cannot happen, and
`MonitorsDanglingRequest.cfg` shows that it can.

### Scheduler.tla - who runs

`ready` is `m_threadsReady` with its order, `counter`, `priority` and `global`
are `m_executionCounter`, `m_priority` and `m_GlobalExecutionCounter`;
`switches` counts what is left of `maxContextSwitch` in one call of
`ScheduleThreads`. The running thread stays linked, as in the code. The
threshold, the adjustment, the context switches of one call and the priorities are
constants; the real values (0x70000000, 0x60000000, 20, 0 to 5) satisfy
`SchedulerAssumption`; `SchedulerHighest.cfg` uses them, run `scheduler` shrinks
them so that the adjustment happens in small instances. The program gives its own
threads the priorities below `SystemHighest`; `SystemPriority` is what a system thread was created
with (`Normal` for timers, `BelowNormal` for finalizers, `System_Highest` for
interrupts). `Wait`, `Wake` and `Awaken`
stand for all reasons to block and to be restarted.

### WaitHandles.tla - waiting and signalling

`wait` and `result` are `m_waitForObject` and `m_waitForObject_Result`,
`signaled` the `HB_Signaled` flags, `waitingList` is `m_threadsWaiting` in its
order. `SignalObject` is one step per turn of its loop (`SignalStep`), with
`walk` holding the event, the thread and the *prefetched* next thread; nothing
else is enabled until the loop ends. `SkipSuspended` is whether
`NANOCLR_ENABLE_SOURCELEVELDEBUGGING` is defined, in which case `CheckThreads`
skips suspended threads.

### Timers.tla - managed timers

| Variable | Code |
|---|---|
| `timers` | the list `m_timers`, in its order |
| `enabled`, `recurring`, `triggered`, `executing` | the flags of the timer |
| `expire`, `frequency` | `m_timeExpire` relative to the clock, `m_timeFrequency` |
| `running`, `last` | the timer whose callback `m_timerThread` runs (`m_terminationParameter`), and its `m_timeLastExpiration` |

`Create`, `Change`, `Dispose` are the program's calls (`ConfigureObject` for
all three), `Collect` is the garbage collector, `CheckTimers` what
`ProcessTimer` does after each quantum and before the engine sleeps,
`CallbackEnds` is `ThreadTerminationCallback` with the next `SpawnTimer` it
makes, `Tick` the clock. Times are relative to now, so `Tick` shifts them;
`Wrapped` stands for a sum beyond `CLR_INT64`, which the code reads as a
negative time. A timer that is collected while its callback runs leaves
`running` pointing to its node, which `Create` may reuse, as in the code.
`Change` works on a disposed timer, because `CheckDisposed` tests a flag that
nobody sets; a `Change` that fails for its due time has already written its
fields. If its period was 0 and the timer is recurring, `Reschedule` takes a
remainder by 0 (finding 20), which is undefined: `NextExpiration` is a set, and has
both results that a processor without a trap gives, 0 and the dividend. A period of
`Infinite` means none, as 0 does, and is left out.

### Exceptions.tla - throw, leave, filters, finally

| Variable | Code |
|---|---|
| `frames` | `m_stackFrames`: method, `m_IP` as a position, `c_PseudoStackFrameForFilter` |
| `nested` | `m_nestedExceptions` with phase, block, handler frame and clause |
| `current`, `aborted` | `m_currentException`, `TH_F_Aborted` |
| `astray` | the code read `m_nestedExceptions[-1]` or a frame that is gone |
| `owed` | history: how often each finally block has still to run |

What a method computes is open: at each position its frame may go on (`Step`),
`Call`, `Ret`, `Throw`, `Rethrow`, `Leave`, `EndFinally` or `EndFilter` if it is
at such a place. `ProcessException`, called by each of them, is one operator: it
is the loop of the code over phase 1 (search), phase 2 (finally blocks and the
handler), with `PushEH` and `PopEH` as they are, the overflow of the exception
stack included. `Abort` may come at any point.

### Collector.tla - mark, finalize, sweep; Reachability.tla

Marking goes iteration by iteration: `TakeFromWork`, `TakeFromStack`, `MoreStack`
and `GiveUp` are the cases of the loop of
`ComputeReachabilityGraphForMultipleBlocks`, `Slow` is `MarkSlow`, `Finalize` and
`MarkDone` are the walk over `m_finalizersAlive`, `Sweep` the rest. In between
runs a program: `New`, `Store`, `Load`, `Drop`, `GetWeak`, `Suppress`,
`ReRegister`, and the finalizer thread. `Reachability` is what is promised: a
collection keeps what can be reached from the program and from the finalizers
that are due, and hands every dead finalizable object to its finalizer or keeps
it reachable from one that is. `KeepsReachable == Reach!Spec` says that
`Collector` implements it, with the marking as stuttering steps. `RemoveInstance`
removes the first entry of an object only, as the code does; `OneEntry` is why that
is enough.

### HeapCluster.tla - allocate, recycle, compact

| Variable | Code |
|---|---|
| `blocks` | the headers: length, kind and object of the block at an address |
| `free`, `lastUsed` | `m_freeList` of each cluster, `m_lastHcUsed` |
| `cache` | `m_events[]` of the event cache, in size classes |
| `ref` | the program's reference to each object |
| `pc`, `from`, `source`, `hole`, `regions` | `Heap_Compact`: `currentSource_hc`, `currentSource`, `freeRegion`, `m_relocBlocks` |

`NewObject` and `NewEvent` allocate (first fit from the front and from the back,
with a collection when there is no room), `ReleaseEvent` recycles, `Collect` is
the recovery of free blocks, and the compaction goes one turn of its loop at a
time (`NextCluster`, `TryNextHole`, `Relocate`, `Move`, `SourceEnds`) with nothing
else enabled. `Relocated` is the bisection of `Heap_Relocate`.

### Completions.tla - deadlines and the sleeping engine

`list`, `due` and `conts` are the two lists and `EventTimeTicks`, `armed` the
compare register, `now` the tick count, `woken` an event of the wake-up mask.
Two tasks: `TimerFires` and `Interrupt` are steps of the timer task and of an
interrupt, the rest is the engine, with `pc` at each point where it holds no lock:
`WaitForInterrupts` takes none, and is a step for each of its accesses
(`WaitForInterrupts`, `SetForExpiry`, `CompareAfter`, `Sleeps`). `ProcessActivity` is its
loop over the continuations, one step each (`Continuation`), that ends when there is none or
after `Rounds` of them (`NoContinuation`; 10 in the code), and then `GetEvents`. Three facts of
the build are constants: `InIsr`, the units of the clock (`Scale`), and what is
behind the list head (`TailTicks`). The timer is that of the ESP32 port.

### NativeEvents.tla - from the interrupt to the delegate

`slots`, `reader`, `writer` and `full` are the ring buffer of the HAL, `app` and
`queued` the application queue, `thread` the record the interrupt thread delivers,
`sink` the context of the EventSink driver. An `Interrupt` may come between any two
steps of the engine, which has `engine` at *peek, copy, pop* of a transfer and at
*remove, push, assign* of the removal that `Dispose` and the collector do.
`Windows` names two timings that run `native_events` leaves out and findings 12 and
13 are about.

### Wire.tla - the receiver of debugger packets

`rxState`, `header`, `payload` and `expiry` are the receiver; `line` the bytes
under way, `Fault` loses or changes one of them, or loses a reply; `SyncToMessageStart` looks
for either of the two markers, that of a packet and that of the debugger; the host, which
is not in the repository, repeats a request that is not answered. Bytes are model
values; `SizeOf` is the size that a byte stands for when it ends up in the place of
`m_size`. Each reception may deliver any part of what is there. `crc` is the build
option.

### Collections.tla, Hashtable.tla - containers; Container.tla, Map.tla

`items` is the array, `size`, `head` and `tail` the indices, of the collection that
`kind` names; `buckets`, `count`, `bucket` and `stale` are a hash table and its
enumerator. Every native call is one step, and `call` or `request` records it with
its answer. Copying, growing, probing (`InitHash`) and moving slots are modelled
index by index, as the code does them. `Container` is the abstract sequence with
the answers that each call owes and the objects that may be kept alive; `Map` is a
finite function with an enumerator that visits each entry once. `IsSequence` and
`IsMap` are the refinements. Calls that need memory may fail: in the abstract
modules always, in `Collections` at `MaxCapacity`, in `Hashtable` at any allocation of
a bucket or of a larger array, also of a bucket in an array that was just made larger.
`ObjectArrays`, `Optimizes` and `Holes` name what findings 16 to 18 are about.

### Proof and model-checking modules

`MonitorsProofs`, `SchedulerProofs`, `WaitHandlesProofs`, `TimersProofs`,
`CollectorProofs`, `CollectionsProofs` and `NativeEventsProofs` extend their
component; `ListProofs` holds the lemmas about lists that the first five and the last share. The
modules `MC...` give constants their values; `MCCollections` holds one collection or
one hash table at a time, so that both are checked in one run. An operator whose
comment begins with "Variant:" is a plausible wrong version of the definition that
follows it (a dropped guard, a forgotten reset). It is used by no action;
`PROJECT.json` pairs each checked property with a variant that breaks it, as
evidence that the property constrains the code.

## 3. Runs

| Run | Instance | States | Shows |
|---|---|---|---|
| `monitors` | 2 threads, 2 objects, 2 subthread levels, 1 pending request each | 864,913 | `NoSelfWait`, `ListMatchesStatus`, `LocksReleased`, `RequestsReleased` |
| `monitors_pending` | 2 threads + a system thread, 2 objects, up to 2 pending requests | 1,187,435 | `LockStructure`, `RequestCounts`, `NoLostWaiter`, `WokenOwnsLock` |
| `scheduler` | 2 threads with priorities 0 and 1 that change, the finalizer thread, one thread suspendable, threshold 10, adjustment 5, one context switch | 1,099,885 | `ReadyListed`, `GlobalIsLowest`, `CountersInRange`, `NoStarvation` |
| `waithandles` | 3 threads, one event of each kind, one thread suspendable, WaitAny and WaitAll over both events | 252,924 | `NoMissedSignal`, `WaitingListed`, `WaitEndsOnce`, `SetEnds` |
| `timers` | 2 timers, 6 kinds of arguments, lag up to 3 | 107,895 | `ExecutingAlone`, `NoIdleTrigger`, `KeepsPhase`, `EnabledFires` |
| `exceptions` | 3 methods, 6 clauses of every kind, 2 exceptions and abort, depth 4 | 5,296 | `EntriesMatch`, `FinallyOnce`, `NoFrameOwes` |
| `collector` | 3 objects with up to 2 fields, 2 finalizable, a weak reference, a mark stack of one element and one more | 1,234,333 | `Consistent`, `CollectionEnds`, `KeepsReachable` |
| `heap` | clusters of 5 and 2 blocks, 3 objects, one of them pinnable, events of 4 and 5 blocks, 2 relocation regions | 204,608 | `ListsExact`, `RefsFollow`, `PinnedStays`, `Compacts` |
| `completions` | 3 completions, one periodic, 5 ticks of 2 units, 2 continuations a round | 358,743 | `ListSorted`, `ArmedForFirst`, `Served` |
| `native_events` | 2 dispatchers, 2 slots, 4 interrupts | 126,126 | `OnceInOrder`, `NoDanglingContext`, `Delivered` |
| `wire` | a header of 4 bytes, a payload of 2, 3 faults, with and without CRC | 6,346 | `Answered`, `FirstTry` |
| `collections` | arrays of up to 4 slots, 2 values and null; 3 keys, 2 of them colliding, tables of 3 and 7 buckets, any allocation of which fails | 60,553 | `IsSequence`, `IsMap` |

Further configurations, each of which TLC ends with a counterexample. Where a run's
own configuration is named, change it as the second column says:

| Configuration | Differs from the run in | Property | Finding |
|---|---|---|---|
| `MonitorsAbandonedLock` | 2 pending requests | `LocksReleased` | 1 |
| `MonitorsDanglingRequest` | a system thread | `RequestsReleased` | 2 |
| `SchedulerHighest` | 3 threads, the real constants | `HighestIsChosen` | 3 |
| `WaitHandlesLostSignal` | single handles | `SignalFreesThread` | 4 |
| `WaitHandlesEndlessLoop` | two threads suspendable | `SetEnds` | 5 |
| `TimersAvalanche` | infinite due times in Change | `NextInFuture` | 6 |
| `ExceptionsGuarded`, `ExceptionsSibling` | the program | `EntryLasts`, `FilterOnly` | 7, 8 |
| `CompletionsIsr` | `InIsr` | `Served` | 9 |
| `CompletionsUnits` | the property checked | `NeverEarly` | 11 |
| `Completions` | `TailTicks = 0` | `ListSorted` | 10 |
| `NativeEvents` | `Windows = {"burst"}` | `OnceInOrder` | 12 |
| `NativeEvents` | `Windows = {"strand"}` | `Delivered` | 13 |
| `NativeEvents` | the same with 3 dispatchers, 4 slots, 5 interrupts | `NoDanglingContext` | 13 |
| `WireSlow` | pauses within a packet | `GapOnly` | 14 |
| `Wire` | the invariant checked | `MarkedOnly` | 15 |
| `Collections` | `ObjectArrays = TRUE` | `IsSequence` | 16 |
| `Collections` | `Holes = TRUE` | `IsMap` | 18 |
| `Collections` | `HashOf <- MCZeroHash` | `IsMap` | 19 |
| `Timers` | the invariant checked | `RecurringHasPeriod` | 20 |

**Why the bounds are enough.**
*Locks.* Every operation of a lock concerns its owner, one waiter and the thread
that interrupts one of them. Two managed threads on two objects give the crossing
cases (owner of one waits for the other, cyclic waits, aborts in both directions),
and a system thread is the only other kind of thread; a second subthread level is
what separates "the thread owns the lock" from "this subthread does".
`MaxRecursion = 1` lets one subthread enter once, while two subthreads of a thread
still share a lock; the recursion count itself is covered by the theorems.
*Wait handles.* One thread signals, one consumes, one is left; the hazards of the
list walk need a thread moved behind the walk's position, which happens with two
waiters.
*Scheduler.* The counters are unbounded in the code's structure; the small
threshold makes the state space finite and passes through the adjustment many
times. With `SystemHighest = 2` the program has two priorities to choose from, `SetPriority`
changes the sort key of a thread that is linked and reschedules or not, and a quantum costs 4 or 2;
the finalizer thread has the lower priority of the two.
One suspendable thread and one context switch a call keep the instance small; both are
parameters of the theorems.
*Timers.* One keeps the timer thread busy while the other is triggered, changed or
collected; times further back than `MaxLag` are not told apart, and 3 is the first
lag at which a timer of period 2 has to skip an expiration. Two timers cannot show
that one of three starves behind two recurring ones (`LinkAtBack` prevents that).
*Exceptions.* Each clause kind occurs inside and around another one, calls happen
inside try, catch, filter and finally, and one method is called from all of these;
depth 4 is the whole depth of the program. `MaxNested = 6` is filled by exceptions
in finally blocks.
*Collector.* A stack with room for one element overflows as soon as an object has
two fields to look at; three objects are the least with a shared or cyclic
substructure behind what was given up.
*Heap.* Two regions overflow in a compaction that moves three runs; a large object
and a pinned one make holes that do not fit and runs that are cut.
*Completions.* Three are needed for a middle of the list. With two units in a tick the first of
them is taken early, after which the timer must still be armed for the next; two continuations
a round leave one for the next round. *Native events.* Two slots
are full after two interrupts, and four overwrite both while one is in hand.
*Wire.* A fault in each of marker, header and payload, plus one; the payload is equal
to the other marker and begins like the packet's, so that resynchronising in it is tempted. *Collections.* Growth from
2 to 4 slots happens at every position of the head; four slots are then reached in
one piece and around the end. Two keys with one hash code and a third one collide in
a table of three buckets, and part ways in one of seven. A table expands at its third key, with
and without memory for it, and removals empty buckets in front of the entries that are left.

**What passing runs exclude.** Each exclusion is named by a constant or a bound and
lifted by one of the configurations above. `NoSelfWait`, `ListMatchesStatus`, `LocksReleased`
and `RequestsReleased` hold when a thread has at most one request queued (`MaxPending = 1`), the
last one also needs that no lock is held by a parked system thread (none in run `monitors`); the
other lock properties are checked, and proved, without either condition. `SetEnds` holds with one
suspendable thread. Run `exceptions` uses a program in which no method called from a
finally block leaves a catch block, and no catch clause stands beside a filter. Run
`completions` leaves all callbacks to the engine and takes
what lies behind the list head as late. Run `native_events` has no burst of
interrupts that overwrites the record in hand and no allocation that fails when
records are moved already. Run `collections` removes any entry of a hash table, but does not set
or add a key while its entry lies behind an emptied bucket (getting, finding, removing and
enumerating it are in); it has no hash code 0, and calls `OptimizeSequence` only
for contents behind a gap that is as long as they are.

**Deadlock.** All configurations switch the deadlock check off: every thread may
legally have ended, be suspended for ever, or wait for a lock in a cycle the
program made; time, interrupts and faults are bounded.

**Fairness.** `Scheduler`: `WF(Engine)`, because `Execute` calls
`ScheduleThreads` in a loop without other condition, and
`WF(QuantumExpired)` for some thread, because the quantum timer sets
`m_timeQuantumExpired` whatever the thread does. Nothing is assumed of threads
(they may or may not sleep, wait or exit) nor of events. `WaitHandles`:
`WF(SignalStep)` only, a native loop that runs to its end by itself; so do
`Collector` and `HeapCluster` with the steps of a collection and of a compaction.
`Timers`: `WF(Tick)`, the clock; `WF(CheckTimers)`, because `ScheduleThreads`
and `WaitForActivity` call `ProcessTimer` each time round; `WF(CallbackEnds)`,
an assumption on the program: its callbacks return. `EnabledFires` is about
behaviours in which the program leaves the timers alone in the end; a program
that keeps changing a timer keeps it from firing.
`Completions`: `WF(Tick)`, `WF(TimerFires)` (the operating system's timer task has a
higher priority), `WF(Engine)`, and `SF(ProcessActivity)`: an engine that is ready to
look for activity again and again does so, although the program may busy it in
between. `NativeEvents`: `WF` of the engine's native steps, `SF(ProcessInterrupts)` for
the same reason, `SF(DelegateReturns)`: the program's delegates return. `Wire`: `WF` of
the receiver loop, of the clock and of the host's repetition. The host waits longer
than the device's time-outs: with a shorter `RetryAfter` the repetition always falls
into the time in which the device still waits for the rest of the damaged packet, and
`Answered` does not hold.
`Monitors` and `Exceptions` have no liveness property: whether a thread leaves its
locks or its methods is up to the program.

`NoStarvation` is conditional on the threads eventually making no more calls
that start, wake, resume or promote each other: a pair of threads that wake each
other in turn is always inserted in front (finding 3), so the unconditional
form is false. `Sleep(0)`, waits, exits and wake-ups by the engine go on for
ever in the fair behaviours that the run checks.

**Refinements.** `Collector` implements `Reachability`, `Collections` implements
`Container`, `Hashtable` implements `Map`; each is a property of a run, with the
refinement mapping in the detailed module.

## 4. Proofs

Every theorem holds for all values of the constants that meet the assumption of its
module; every inductive invariant was checked by TLC on the instance of section 3
before it was proved. `tlapm` takes about six minutes for the native events, five for the locks, three for the
collections, and one for each other module.

**ListProofs** has one lemma per operation on a list in which every node occurs once
(`RemoveAtFacts`, `UnlinkFacts`, `AppendFacts`, `InsertAtFacts`, `LinkAtBackFacts`): the
result is such a list again, which nodes it has, and which of two nodes comes first
(`Before`).

**MonitorsProofs** assumes `MonitorsAssumption` (finite bounds above zero,
`NoThread` is not a thread) and `WalkAssumption` (`NoWalk` is not a destruction).

1. `TypeCorrect`: `Spec => []TypeOK`. `TypeOK` alone is not inductive: a
   destruction reads the top subthread, so it must know that the thread it
   destroys has one. The invariant is `TypeInv == TypeOK /\ WalkLive`. Helpers
   (`Restart`, `ChangeLockRequestCount`, `ChangeOwner`, `SetOwners`) have a
   typing lemma each, the actions are grouped into `EngineType`,
   `ThreadOperationType`, `LockOperationType`, `UnwindType`, `DestroyType`.
2. `LockStructureCorrect`: inductive relative to `TypeInv`. The core is
   `ChangeOwnerStructure` (a lock with no entries left is handed to the head of
   the queue with exactly one entry, or freed) and `SetOwnersStructure`.
3. `NoLostWaiterCorrect`: a blocked `Enter` keeps its request or becomes owner,
   for any number of threads, through aborts, re-entrance and destruction. It
   needs `WalkClear`: the thread under destruction is not in `Monitor.Enter`,
   since destruction is the only step that deletes a request without granting it. `HasPlace` is
   "queued or owner"; `SetOwnersKeepsPlace` and `WalkRequestKeepsPlace` show
   that no step on a lock costs another subthread its place.
4. `RequestCountsCorrect`: the counter of a thread is the number of its requests.
   `PlaceCounts` restates it over `Places`, the pairs of an object and a position in
   its queue, and adds that they are finitely many, which is not clear, as the number
   of objects is not bounded. A request that goes shifts those behind it: `AppendPlaces`
   and `RemovePlaces` give the bijection between the places before and after.
5. `WokenOwnsLockCorrect`: whoever is awake in `Enter` has no request in any queue
   (`WokenHasNone`, with `PlaceCounts`), so that the place which `NoLostWaiter` gives it is
   that of an owner. `WokenHasNone` needs to know that threads that sleep or have ended are
   not in `Enter` (`SleepClear`, `EndedClear`): a wake-up does not look at the lock.
6. `NoSelfWaitCorrect` assumes `MaxPending = 1`, as run `monitors` does: with an older
   request of its own in another queue a thread may become owner of the very lock that it
   waits for. It follows from `CountsBounded`: a subthread that is granted a lock had its only
   request in that queue.
7. `ListMatchesStatusCorrect` (`MaxPending = 1`), from `AllSettled`: each of `Restart`, `Suspend`,
   `Resume`, `Requeue` and the hand-over of a lock chooses a list for itself, and they agree. The
   invariant adds that the running thread is in the ready list and that only system threads are
   ever unstarted, a status that `Suspend` and `Resume` do not look at. With two requests queued it fails: see finding 1.
8. `LocksReleasedCorrect` (`MaxPending = 1`, with or without system threads), from `WalkReleased`:
   the locks still to be visited are among those of the dying subthread, and it has no entry in
   any other. That a lock handed on does not come back to the dying thread after the visit is `NoOwnRequest`:
   no thread has a request for a lock that it owns.
9. `RequestsReleasedCorrect` (`MaxPending = 1`, no system threads). `DeleteLockRequests` must find
   every request of the dying subthread, though it searches only locks of threads that are ready or
   waiting (`RequestsFound`): such a lock has an owner entry (`LockStructure`), of another thread
   (`NoOwnRequest`), of a subthread that still exists (`LocksReleased`), and a thread that has ended
   has none, except while its own destruction is at work (`EndedEmpty`). That it is called at all
   for a subthread with requests is `SubCounts`: whoever is queued is counted.

**SchedulerProofs** assumes `SchedulerAssumption` (one `ScheduleThreads` costs
no more than an adjustment; an adjustment plus a window fits under the
threshold) and `PowersAssumption` (bounds of powers of two, which no prover
knows; TLC evaluates it in every run).

1. `TypeCorrect`: with `ReadyCreated`, only threads that exist are linked.
2. `GlobalIsLowestCorrect` and `CountersInRangeCorrect`, from
   `CounterInv == TypeInv /\ GlobalBounded /\ NewAreUnpaid /\ CountersBelowZero
   /\ GlobalIsLowest`. `GlobalBounded` says how far one `ScheduleThreads` has
   got below the threshold, by the context switches it has left;
   `NewAreUnpaid` is needed because the adjustment does not reach threads that
   do not exist yet, which start at 0. The hard case is `EnterCounters`: the
   adjustment must lift the lowest counter enough and cut the others off
   (`BringToDate`) so that none gets above 0. The real constants satisfy the
   assumptions, so the `int` counters of the code never overflow.

3. `ReadyListedCorrect`, from `ReadyInv == TypeInv /\ ReadyListed /\ SuspendedStarted`: only
   threads that were started and have not ended are suspended, or a resumed thread would be
   linked that must not run.

**WaitHandlesProofs** assumes `WaitHandlesAssumption` (the values that stand for "none" are
not among the others).

1. `TypeCorrect` and `WaitingListedCorrect`, from `ListInv`: besides `WaitingListed`, a thread that
   waits has a wait that is not over (`WaitsInProgress`), no thread that has ended is suspended, and
   the thread that a `SignalObject` loop is at is linked, with the successor that the loop has
   read ahead (`WalkLinked`), although the loop itself takes threads out and links them again.
2. `NoMissedSignalCorrect`: the loop stops at the first thread that consumes an auto-reset event,
   and skips those in front of where it started a turn. `WalkAhead` says why this is enough:
   while it runs, a thread that could be freed is at its position or behind (`Before`), and could
   not be freed without the object. Outside the loop nobody can be freed.
3. `WaitEndsOnceCorrect`, an action property: by cases over `Next` from `ListInv`. A result is written
   only for threads that wait, or that are suspended, which the property leaves out.

**TimersProofs** assumes `TimersAssumption`.

1. `TypeCorrect`, `ExecutingAloneCorrect`, `NoIdleTriggerCorrect`, from their conjunction `TimerInv`.
   No due time and no period is excluded: where `Reschedule` takes a remainder by 0 the theorems hold
   for each of its results (finding 20).
2. `KeepsPhaseCorrect`, an action property: `NextExpirationPhase` is the arithmetic of `Reschedule` for
   every period and every time, by the facts of division (`MultipleOfPeriod`, `RemainderFacts`).

**CollectorProofs** assumes `CollectorAssumption` (a mark stack holds at least one element).

1. `ConsistentCorrect`: `Spec => []Consistent`, type correctness, `OneEntry` and `NoDangling`. That a
   collection frees nothing that is in use is an invariant of its marking, `MarkInv`:
   - `RootsOwed`: what the program and the finalizers refer to is marked or noted. It counts the block
     in hand only while the stack is empty (`Owed`), because a full stack makes the loop drop it.
   - `FieldsCovered`: what a marked object refers to is marked, noted, or will be looked at, because
     the pass of `MarkSlow` has not come to the object or because `out` orders another pass. It
     is why `GiveUp` may drop references: it sets `out`, and they come from a marked object.
   - `SweepReady`: when the sweep begins nothing is noted and nothing has been given up since the last
     pass, so that the two above say that everything in use is marked.

   `FreeClear` (a free address refers to nothing) carries it over to new objects, and `AscendingFacts`
   shows that the order in which a frame's references are listed leaves none out.
   That everything unreachable is freed is `KeepsReachable`, which is only model-checked.

**CollectionsProofs** assumes `CollectionsAssumption` (the positions of a call are
integers, the blocks are sequences, and capacities are above zero).

1. `IndicesCorrect`: `Spec => []IndicesAgree`. `IndicesAgree` is inductive: the
   indices lie in the array, and `head + size` is `tail` or `tail` plus the length,
   so that a queue or a ring buffer that is full is told from an empty one by its
   size only. One lemma per collection (`QueueKeeps`, `StackKeeps`, `ListKeeps`,
   `RingKeeps`) shows that its calls keep it, by `Establish` where the array grows and
   by `Keep` where it does not; `SlotCount` gives the length of an array from its
   domain, `Successor` replaces the remainder by a case distinction. It excludes
   `OptimizeSequence` on contents that go around the end, which leaves the write
   index of a full buffer behind the end (finding 17).
2. `SequenceImplemented`: `Spec => IsSequence` (`Promise!Spec`, all of `Container`), if
   `Optimizes \subseteq {"ahead"}` and not `ObjectArrays`: findings 16 and 17 are the
   violations otherwise, so neither condition can go, and `Collections.cfg` checks the
   same instance. The refinement mapping needs more than the
   indices: `SequenceInv` adds that every slot outside the contents of a queue, a stack or a list is
   `Null` (otherwise `held` would name objects that were taken out) and that a ring buffer
   has `Capacity` slots. TLC agrees that it is an invariant. `Slot` and `Used` say
   without remainders which slot holds which element (`Around`, `ContentsIs`, `SlotIn`,
   `SlotOf`), from which `HeldIs` follows. `Reached` is the step every call uses: an
   array of n slots that agrees with a sequence s element by element is `SequenceInv'`
   and the promise's `Becomes(s)`; `FailIs` is the call that fails. One lemma per
   call (`EnqueueImplements` to `OptimizeSequenceImplements`) shows that its array is
   what `Append`, `Tail`, `InsertAt`, `RemoveAt`, `SubSeq` or `\o` give of the sequence:
   `CopiedIs` for the two pieces of a growing queue, `RoomIs` for a growing list,
   `MovedDownIs` for a memcpy whose direction is left open.

**NativeEventsProofs** assumes `NativeEventsAssumption` (a ring buffer has a slot), and of
`Windows` that `"burst"` is left out, for the second theorem `"strand"` as well: findings 12
and 13 are the violations otherwise.

1. `EventsOnceInOrder`: `Spec => []OnceInOrder`, from `Inv == Typed /\ InHand /\ PathFlow`. An
   interrupt may come between any two steps of the engine, and moves reader and writer under it.
   - `Ring` is the buffer as a sequence, oldest record first. `PushIndices`, `PopIndices` and
     `DropIndices` say what the operations do to the indices, `RingTail` and its like what that
     is of the sequence.
   - `InHand` says which slot the engine holds at each point of a transfer or a removal, and
     why an interrupt does not reach it: without a burst, the slot under transfer is still the
     oldest when it is popped, and the slot that a removal took out lies in front of the reader until
     it is pushed again. A single slot is a case of its own: the record that is pushed then
     is its own source.
   - `Flow` is the property on two sequences, the records that have left the buffer and those in
     it: nothing twice, everything accounted for, in order. A removal turns the buffer by its whole
     length, so that between its steps the first `left` records are older than those put back
     behind them (`InOrder`); when none is left the buffer is in order again. One lemma per
     effect (a record arrives, is dropped, moves over, goes to the thread, is turned, is
     thrown away) shows that `Flow` is kept, and each action is one or two of them.
   - `Others` drops the records of a dispatcher from a sequence and is defined by recursion over
     its length. That it keeps the order is proved by contradiction, from the shortest sequence
     for which it does not (`LeastNumber`), which needs no induction principle.
2. `ContextsExist`: `Spec => []NoDanglingContext`, from `OwnInv`. `Collect` frees a dispatcher
   that has been disposed, and looks for its records in the application queue only: `Dispose` must
   have left none in the buffer, so all records there are of dispatchers not disposed. While
   the last removal goes on, those of its dispatcher are among the `left` still to be looked at,
   and no driver adds one (`sink` is `Nobody`). The loop over the application queue is complete when
   the thread is busy; when it is idle, the callback for a record taken out may start a delivery
   that ends the loop early. It is idle only while the queue is empty, except within a transfer,
   where no record of the queue is of a disposed dispatcher. `"strand"` breaks just this.

**Only model-checked:**

- liveness (`NoStarvation`, `SetEnds`, `EnabledFires`, `CollectionEnds`, `Compacts`, `Served`, `Delivered`,
  `Answered`), which the provers cannot handle under fairness;
- the refinements `KeepsReachable` and `IsMap`: `Reachability` is a closure computed by a recursive
  function, whose values TLC computes and the provers cannot, and so are sizes and folds in
  `HeapCluster` (`ListsExact`, `RefsFollow`, `PinnedStays`);
- everything in `Exceptions`, `Completions`, `Wire` and `Hashtable`: `EntriesMatch` and `FinallyOnce` would need the
  exception handling of a program's text as an invariant, `ListSorted` holds for the arbitrary constant
  `TailTicks` only where no deadline exceeds it, and its module has a recursive operator that must go first.

What the proofs changed in the models: the two arms of `NextExpiration` in `Timers` overlapped, so that
it was not a function of its arguments where both applied; `Collector` removed all finalizer entries of an
object where the code removes the first; the records of a dispatcher were dropped from a queue with
`SelectSeq`, which hides its recursion, and `Others` walks the queue as the loop of `ReleaseWhenDeadEx`
does; assumptions on constants that were tacit are stated. No
property had to be weakened.

## 5. Findings

`PROJECT.json` quotes the lines; the table in section 3 says which configuration ends
with the trace.

1. **A dead subthread can own a lock** (`Thread.cpp:68`). Destruction hands
   locks over before it deletes the dying subthread's own requests; with a
   stale request from an aborted `Enter` the lock returns to the dying
   subthread for good. Looking for a proof of `ListMatchesStatus` showed that stale requests
   have a second effect: a thread that was aborted twice, and is ready again, has its status
   set to waiting when the first of two requests is granted (`Thread.cpp:107`), and stays in the ready list
   (`Monitors.cfg` with `MaxPending = 2`).
2. **A request can outlive its subthread** (`Thread.cpp:77`,
   `Execution.cpp:2451`). `DeleteLockRequests` does not search locks of threads
   in the zombie list, where system threads are parked with their locks.
3. **The chosen thread need not have the highest counter**
   (`Execution.cpp:1149`): threads inserted during a quantum are placed in
   front of the still-linked running thread.
4. **An auto-reset signal can free nobody**
   (`CLR_RT_HeapBlock_WaitForObject.cpp:158`): a suspended thread whose wait is
   over keeps its wait object and consumes the next signal.
5. **Set can loop for ever** with two suspended waiters
   (`Execution.cpp:1260`, the loop at `CLR_RT_HeapBlock_WaitForObject.cpp:151`).
6. **A recurring timer can fire without a pause**
   (`CLR_RT_HeapBlock_Timer.cpp:155`): put off with an infinite due time while
   its trigger waits for the timer thread, then made recurring in its callback,
   it gets a next expiration that overflows and is always past.
7. **The entry of a running finally block can be popped by another method**
   (`Interpreter.cpp:395`): a leave in a called method pops entries by the block of its
   own target only; the finally block then ends with an empty exception stack.
8. **A filter that throws can be answered by the clause beside it**
   (`Interpreter.cpp:513`): the handler of the method runs in the pseudo-frame of the
   filter.
9. **The compare register is armed from the node that has just run**
   (`AsyncCompletions.cpp:74`): with `ExecuteInISR` the completions behind it wait for
   the engine to sleep.
10. **EnqueueTicks compares with what is behind the list head**
    (`AsyncCompletions.cpp:104`), and then inserts before NULL, which does nothing.
11. **Expiration compares two units of time** (`AsyncCompletions.cpp:58`), where a tick is
    not 100 ns: completions run early. Run `completions` has such a tick, and what must hold all
    the same is that the timer stays armed for what is left (`ArmedForFirst`).
12. **A burst of interrupts overwrites the record that is being transferred**
    (`InterruptHandler.cpp:84`): one event comes twice and out of order.
13. **A failed allocation strands the records moved before it**
    (`InterruptHandler.cpp:127`), until the next interrupt. The attempt to prove that no record outlives
   its dispatcher found a second consequence: with the thread idle and records of d3, d2 and d3
   stranded, the collection of d3 removes the first, hands the next one, that of d2, to the thread, and
   ends on the link that this has cleared: the last record names a dispatcher that is gone.
14. **The inter-character time-out bounds the whole payload**
    (`WireProtocol_Message.c:488`).
15. **A header need not begin with the marker** (`WireProtocol_Message.c:404`), unless the
    CRC is compiled in.
16. **A queue can be overwritten by its copy** (`CLR_RT_HeapBlock_Queue.cpp:137`): the
    arguments of memcpy are the wrong way round for targets of element type Object.
17. **OptimizeSequence loses the last byte** of contents around the end
    (`nanoRingBuffer.c:35`), and moves overlapping bytes with memcpy: `Collections.cfg`
    with `Optimizes = {"wrapped"}`.
18. **A key can be in a hash table twice** (`..._Hashtable.cpp:239`): insertion stops at a
    bucket whose entry was removed, before it comes to the key further on: `Collections.cfg` with
    `Holes = TRUE`.
19. **Looking up a key with hash code 0 can read through NULL**
    (`..._Hashtable.cpp:337`): `Collections.cfg` with `HashOf <- MCZeroHash`.
20. **A refused Change can leave a recurring timer without a period**
    (`CLR_RT_HeapBlock_Timer.cpp:164`): the fields are written before the due time is found
    out of range, and the next end of a callback takes a remainder by 0.

Read but not run: `UpdateToLowestExecutionCounter` promises that a thread that
calls `Sleep(0)` "will be executed last" (`Execution.cpp:1087`), but the ready
list is sorted by counter *plus priority*, so a thread of high priority can stay
ahead of one of low priority.

## 6. Not modelled

- *Threads*: `[MethodImpl(Synchronized)]` (`HandleSynchronized` and the pending flags of a
  frame), failed allocations, application domains, requests with a time-out (no caller
  makes one), the static-constructor thread's exclusive scheduling, the debugger's Stopped
  flag, the first creation of system threads. In `Timers`: fixed timers (`c_AnyChange`,
  `ProcessTimeEvent`; no library call makes one), a callback that cannot be started for
  lack of memory, timers paused by the debugger.
- *Exceptions*: evaluation stacks and IL data, native and inlined frames, stops of the
  debugger, frames of other application domains.
- *Collector, heap*: how each data type lays out its references, assemblies and static
  fields, application domains, restored weak references, an entry or a thread for
  finalizers for which there is no memory. All mark stacks are taken to have one length.
- *Completions*: other ports than the ESP32 (the Cortex-M0 variant of `Events_Get` is built
  by no target), `Uninitialize`, sleep levels. The cast to a signed time-out in
  `WaitSystemEvents` (`Execution.cpp:3777`) is harmless, waits are capped at 60 seconds.
- *Native events*: clean-up routines of drivers other than EventSink, `RebootPending`, an
  interrupt thread that cannot be created.
- *Wire*: the commands themselves, and the drop of repeated sequence numbers, which only
  nanoBooter has.
- *Collections*: `CopyTo` with another index or a target that is too small, negative
  lengths, the managed parts of the library, keys that are equal with different hash codes.
  The 32-bit wrap of the product in `InitHash` only changes the step, which stays in range.
- *Type system, string table, serialization, mathematics, text*: data without interleaving,
  and more than half of the repository's lines; tests reach them better than a model checker.
  This is why the share of the source that the models map stays small.
- *HAL, block storage, boot, graphics, targets*: thin layers over drivers, or vendored code.

## 7. Plan

Left, the most shared behaviour first:

1. The debugger's **Stopped** flag, which stops threads in the middle of the lists of Scheduler.
2. **Synchronized methods** in Monitors: the pending flags `ChangeOwner` sets.
3. An abstract specification of a monitor (free, held by t, with waiters) that
   `Monitors` implements wherever findings 1 and 2 do not apply.
4. Proofs: `ListSorted` (`Completions` has a recursive operator that would be rewritten
   first), `EntriesMatch`, and the steps of `Hashtable` as steps of `Map`.
5. The fixed timers, and the composition of `Collector` with `HeapCluster` once blocks of
   the compactor carry fields.

Runs are kept few: each component has one, and shares it where two are small.
