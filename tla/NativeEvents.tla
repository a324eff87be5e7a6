---------------------------- MODULE NativeEvents ----------------------------
(***************************************************************************)
(* The way of a hardware event to managed code: an interrupt writes a record    *)
(* into the ring buffer of the HAL, the engine copies the records into the      *)
(* application queue, and the interrupt thread runs the delegate of the event   *)
(* dispatcher for one of them after the other.  Dispatchers are disposed and    *)
(* collected meanwhile.                                                      *)
(*                                                                          *)
(* An interrupt may come between any two steps of the engine; the engine holds  *)
(* the global lock only for single calls of the ring buffer.                   *)
(***************************************************************************)
EXTENDS Integers, Sequences, FiniteSets, SequencesExt, FiniteSetsExt

CONSTANTS
    Dispatchers,  \* the nodes event dispatchers are made of
    Size,         \* InterruptRecords(): slots of the ring buffer
    MaxEvents,    \* bound on the number of interrupts
    Windows       \* the timings that are allowed on top, see Interrupt and OutOfMemory

NativeEventsAssumption ==
    /\ Size \in Nat \ {0} /\ MaxEvents \in Nat /\ Windows \subseteq {"burst", "strand"}

ASSUME NativeEventsAssumption

Nobody == "nobody"
NoSlot == Size

VARIABLES
    slots, reader, writer, full,  \* m_HalQueue
    app,      \* m_applicationQueue
    queued,   \* m_queuedInterrupts
    thread,   \* what m_interruptThread delivers: <<>> or one record
    status,   \* the dispatchers: "none", "alive", or "disposed" (Dispose has run)
    sink,     \* g_Context: where the driver posts events
    hwEvent,  \* SYSTEM_EVENT_HW_INTERRUPT is set
    engine,   \* what the engine is doing, with the slots it has in hand
    raised,   \* the number of interrupts so far
    gone,     \* history: the events delivered, or given up on purpose
    shuffled  \* history: an interrupt came while Dispose turned the ring buffer

ring == <<slots, reader, writer, full>>
path == <<app, queued, thread, gone>>
vars == <<ring, path, status, sink, hwEvent, engine, raised, shuffled>>

Records == [event : 1 .. MaxEvents, disp : Dispatchers]
NoRecord == [event |-> 0, disp |-> Nobody]
Indices == 0 .. Size - 1

Running == [pc |-> "run", slot |-> NoSlot, to |-> NoSlot, left |-> 0, disp |-> Nobody, last |-> FALSE]

TypeOK ==
    /\ slots \in [Indices -> Records \cup {NoRecord}]
    /\ reader \in Indices /\ writer \in Indices /\ full \in BOOLEAN
    /\ app \in Seq(Records) /\ queued \in Nat
    /\ thread \in Seq(Records) /\ Len(thread) =< 1
    /\ status \in [Dispatchers -> {"none", "alive", "disposed"}]
    /\ sink \in Dispatchers \cup {Nobody} /\ hwEvent \in BOOLEAN
    /\ engine.pc \in {"run", "peek", "copy", "pop", "remove", "push", "assign", "fault"}
    /\ raised \in 0 .. MaxEvents /\ gone \subseteq 1 .. MaxEvents /\ shuffled \in BOOLEAN

Init ==
    /\ slots = [i \in Indices |-> NoRecord] /\ reader = 0 /\ writer = 0 /\ full = FALSE
    /\ app = <<>> /\ queued = 0 /\ thread = <<>>
    /\ status = [d \in Dispatchers |-> "none"] /\ sink = Nobody /\ hwEvent = FALSE
    /\ engine = Running /\ raised = 0 /\ gone = {} /\ shuffled = FALSE

-----------------------------------------------------------------------------
(* The ring buffer.                                                          *)
Incremented(i) == (i + 1) % Size

IsEmpty == writer = reader /\ ~full
NumberOfElements == IF full THEN Size ELSE (writer - reader) % Size
Content == [i \in 1 .. NumberOfElements |-> slots[(reader + i - 1) % Size]]

-----------------------------------------------------------------------------
(* Interrupts.                                                               *)

\* SaveToHALQueue.  A full buffer drops its oldest record.
SaveToHALQueue(record) ==
    /\ slots' = [slots EXCEPT ![writer] = record]
    /\ writer' = Incremented(writer)
    /\ reader' = IF full THEN Incremented(reader) ELSE reader
    /\ full' = (writer' = reader')
    /\ gone' = gone \cup IF full THEN {slots[reader].event} ELSE {}

\* The record the engine has in hand is written over only with the window "burst".
Interrupt ==
    /\ engine.pc # "fault"
    /\ raised < MaxEvents /\ sink # Nobody
    /\ "burst" \notin Windows => writer # engine.slot
    /\ SaveToHALQueue([event |-> raised + 1, disp |-> sink])
    /\ raised' = raised + 1
    /\ hwEvent' = TRUE
    /\ shuffled' = (shuffled \/ engine.pc \in {"remove", "push", "assign"})
    /\ UNCHANGED <<app, queued, thread, status, sink, engine>>

-----------------------------------------------------------------------------
(* Delivery.  The operators take and return a record of app, queued, thread    *)
(* and gone.                                                                 *)
Path == [app |-> app, queued |-> queued, thread |-> thread, gone |-> gone]

Becomes(p) == app' = p.app /\ queued' = p.queued /\ thread' = p.thread /\ gone' = p.gone

\* SpawnDispatcher takes the first record if the thread can be reused.  A dispatcher
\* without a managed object fails StartDispatch: its record is released by the callback,
\* which calls SpawnDispatcher again.
SpawnDispatcher(p, live) ==
    LET startable == {i \in DOMAIN p.app : p.app[i].disp \in live}
        taken == IF startable = {} THEN Len(p.app) ELSE Min(startable)
        given == {p.app[i].event : i \in 1 .. taken}
        started == IF startable = {} THEN <<>> ELSE <<p.app[taken]>>
    IN  IF p.thread # <<>> THEN p
        ELSE [app |-> SubSeq(p.app, taken + 1, Len(p.app)), queued |-> p.queued - taken,
              thread |-> started,
              gone |-> p.gone \cup (given \ {r.event : r \in ToSet(started)})]

Live == {d \in Dispatchers : status[d] # "none"}

\* Variant: the callback does not look for the next record.
JustEnds ==
    /\ engine.pc = "run" /\ thread # <<>>
    /\ Becomes([Path EXCEPT !.thread = <<>>, !.gone = @ \cup {thread[1].event}])
    /\ UNCHANGED <<ring, status, sink, hwEvent, engine, raised, shuffled>>

\* The delegate returns: Passivate makes the thread reusable and then calls
\* ThreadTerminationCallback.
DelegateReturns ==
    /\ engine.pc = "run" /\ thread # <<>>
    /\ Becomes(SpawnDispatcher([Path EXCEPT !.thread = <<>>, !.gone = @ \cup {thread[1].event}], Live))
    /\ UNCHANGED <<ring, status, sink, hwEvent, engine, raised, shuffled>>

-----------------------------------------------------------------------------
(* TransferAllInterruptsToApplicationQueue.                                   *)
ProcessInterrupts ==
    /\ engine.pc = "run" /\ hwEvent
    /\ hwEvent' = FALSE
    /\ engine' = [engine EXCEPT !.pc = "peek"]
    /\ UNCHANGED <<ring, path, status, sink, raised, shuffled>>

Peek ==
    /\ engine.pc = "peek"
    /\ IF IsEmpty
       THEN engine' = Running /\ Becomes(SpawnDispatcher(Path, Live))
       ELSE engine' = [engine EXCEPT !.pc = "copy", !.slot = reader] /\ UNCHANGED path
    /\ UNCHANGED <<ring, status, sink, hwEvent, raised, shuffled>>

\* Variant: the record is put at the front.
LinkAtFront(p, record) == [p EXCEPT !.app = <<record>> \o @, !.queued = @ + 1]

LinkAtBack(p, record) == [p EXCEPT !.app = Append(@, record), !.queued = @ + 1]

\* The allocation succeeded: the record is copied without the lock.
Copy ==
    /\ engine.pc = "copy"
    /\ Becomes(LinkAtBack(Path, slots[engine.slot]))
    /\ engine' = [engine EXCEPT !.pc = "pop"]
    /\ UNCHANGED <<ring, status, sink, hwEvent, raised, shuffled>>

Pop == reader' = Incremented(reader) /\ full' = FALSE /\ UNCHANGED <<slots, writer>>

PopTransferred ==
    /\ engine.pc = "pop" /\ ~IsEmpty
    /\ Pop
    /\ engine' = [engine EXCEPT !.pc = "peek", !.slot = NoSlot]
    /\ UNCHANGED <<path, status, sink, hwEvent, raised, shuffled>>

\* The allocation fails: the buffer is emptied and nothing is spawned.  With an idle
\* thread that leaves what was moved before without anybody to deliver it, which is
\* allowed with the window "strand".
OutOfMemory ==
    /\ engine.pc = "copy"
    /\ "strand" \notin Windows => (thread # <<>> \/ app = <<>>)
    /\ reader' = writer /\ full' = FALSE
    /\ gone' = gone \cup {r.event : r \in ToSet(Content)}
    /\ engine' = Running
    /\ UNCHANGED <<slots, writer, app, queued, thread, status, sink, hwEvent, raised, shuffled>>

-----------------------------------------------------------------------------
(* The program and the collector.                                             *)

\* Constructor: InitializeEventSink makes the new dispatcher the one events are posted to.
CreateInstance(d) ==
    /\ engine.pc = "run" /\ status[d] = "none"
    /\ status' = [status EXCEPT ![d] = "alive"]
    /\ sink' = d
    /\ UNCHANGED <<ring, path, hwEvent, engine, raised, shuffled>>

\* Dispose, from the program or the finalizer: RemoveFromHALQueue, then the cleanup of the
\* driver, which stops the events and calls RemoveFromHALQueue again.
StartRemoval(d, last) ==
    engine' = [Running EXCEPT !.pc = "remove", !.left = NumberOfElements, !.disp = d, !.last = last]

Dispose(d) ==
    /\ engine.pc = "run" /\ status[d] = "alive"
    /\ StartRemoval(d, FALSE)
    /\ UNCHANGED <<ring, path, status, sink, hwEvent, raised, shuffled>>

\* Variant: the driver's cleanup only stops the events.
CleanupStops(d) ==
    /\ sink' = Nobody
    /\ status' = [status EXCEPT ![d] = "disposed"]
    /\ engine' = Running

CleanupEventSink(d) ==
    /\ sink' = Nobody
    /\ StartRemoval(d, TRUE)
    /\ UNCHANGED status

\* A record that is not the dispatcher's is in hand until it is written back.
RemoveNext ==
    /\ engine.pc = "remove" /\ engine.left > 0
    /\ Pop
    /\ LET mine == slots[reader].disp = engine.disp
           rest == [engine EXCEPT !.left = @ - 1]
       IN  /\ engine' = IF mine THEN rest ELSE [rest EXCEPT !.pc = "push", !.slot = reader]
           /\ gone' = gone \cup IF mine THEN {slots[reader].event} ELSE {}
    /\ UNCHANGED <<app, queued, thread, status, sink, hwEvent, raised, shuffled>>

\* Push returns NULL when the buffer is full, and AssignFrom writes through it.
PushBack ==
    /\ engine.pc = "push"
    /\ IF full
       THEN engine' = [engine EXCEPT !.pc = "fault"] /\ UNCHANGED <<writer, full>>
       ELSE /\ writer' = Incremented(writer)
            /\ full' = (writer' = reader)
            /\ engine' = [engine EXCEPT !.pc = "assign", !.to = writer]
    /\ UNCHANGED <<slots, reader, path, status, sink, hwEvent, raised, shuffled>>

AssignFrom ==
    /\ engine.pc = "assign"
    /\ slots' = [slots EXCEPT ![engine.to] = slots[engine.slot]]
    /\ engine' = [engine EXCEPT !.pc = "remove", !.slot = NoSlot, !.to = NoSlot]
    /\ UNCHANGED <<reader, writer, full, path, status, sink, hwEvent, raised, shuffled>>

RemovalEnds ==
    /\ engine.pc = "remove" /\ engine.left = 0
    /\ IF engine.last
       THEN /\ status' = [status EXCEPT ![engine.disp] = "disposed"]
            /\ engine' = Running
            /\ UNCHANGED sink
       ELSE CleanupEventSink(engine.disp)
    /\ UNCHANGED <<ring, path, hwEvent, raised, shuffled>>

\* The records of a queue that are not the dispatcher's, in their order.
Others(q, d) ==
    LET kept[n \in 0 .. Len(q)] ==
            IF n = 0 THEN <<>>
            ELSE IF q[n].disp = d THEN kept[n - 1] ELSE Append(kept[n - 1], q[n])
    IN  kept[Len(q)]

\* ReleaseWhenDeadEx takes the records of a dead dispatcher out of the application queue.
\* The callback for the first one may start a delivery if the thread is idle: a next node
\* that SpawnDispatcher has unlinked ends the loop, as it has no Next.
ReleaseQueued(p, d, live) ==
    LET mine == {i \in DOMAIN p.app : p.app[i].disp = d}
        Without(q) == [q EXCEPT !.app = Others(@, d),
                                !.queued = @ - (Len(q.app) - Len(Others(q.app, d))),
                                !.gone = @ \cup {r.event : r \in {x \in ToSet(q.app) : x.disp = d}}]
        first == Min(mine)
        spawned == SpawnDispatcher([p EXCEPT !.app = RemoveAt(@, first), !.queued = @ - 1,
                                             !.gone = @ \cup {p.app[first].event}], live)
    IN  IF mine = {} THEN p
        ELSE IF p.thread # <<>> THEN Without(p)
        ELSE IF first < Len(p.app) /\ p.app[first + 1] \in ToSet(spawned.app) THEN Without(spawned)
        ELSE spawned

\* A collection, in a quantum or in the allocation of the transfer, finds a disposed (or
\* finalized) dispatcher without a managed object.
Collect(d) ==
    /\ engine.pc \in {"run", "copy"} /\ status[d] = "disposed"
    /\ status' = [status EXCEPT ![d] = "none"]
    /\ Becomes(ReleaseQueued(Path, d, Live \ {d}))
    /\ UNCHANGED <<ring, sink, hwEvent, engine, raised, shuffled>>

-----------------------------------------------------------------------------
Steps ==
    \/ ProcessInterrupts \/ Peek \/ Copy \/ PopTransferred
    \/ RemoveNext \/ PushBack \/ AssignFrom \/ RemovalEnds

Next ==
    \/ Interrupt \/ Steps \/ DelegateReturns \/ OutOfMemory
    \/ \E d \in Dispatchers : CreateInstance(d) \/ Dispose(d) \/ Collect(d)

\* The engine goes on and looks at its events before every quantum, and every delegate
\* returns in the end.
Fairness == WF_vars(Steps) /\ SF_vars(ProcessInterrupts) /\ SF_vars(DelegateReturns)

Spec == Init /\ [][Next]_vars /\ Fairness

-----------------------------------------------------------------------------
(* Properties.                                                               *)

\* The records of the buffer that are the only copy of their event, in order: without the
\* one that was copied and not yet removed, or the slot that was pushed and not yet written,
\* and with the record in hand.
HalRecords ==
    CASE engine.pc = "pop" -> IF IsEmpty THEN <<>> ELSE Tail(Content)
      [] engine.pc = "push" -> Append(Content, slots[engine.slot])
      [] engine.pc = "assign" ->
            [i \in DOMAIN Content |-> IF (reader + i - 1) % Size = engine.to
                                      THEN slots[engine.slot] ELSE Content[i]]
      [] OTHER -> Content

InTransit == thread \o app \o HalRecords

\* The events on their way, oldest first.
Events == [i \in DOMAIN InTransit |-> InTransit[i].event]

\* Every event is in one place, until it is delivered or given up on purpose: none is
\* delivered twice, none vanishes, the counter agrees with the application queue, and they
\* are delivered in the order of the interrupts, unless one of these came while Dispose was
\* turning the buffer (TransferAllInterruptsToApplicationQueue, RemoveFromHALQueue).
OnceInOrder ==
    /\ TypeOK
    /\ engine.pc # "fault"
    /\ queued = Len(app)
    /\ IsInjective(Events)
    /\ ToSet(Events) \cap gone = {}
    /\ ToSet(Events) \cup gone = 1 .. raised
    /\ shuffled \/ engine.pc \in {"remove", "push", "assign"}
       \/ \A i, j \in DOMAIN Events : i < j => Events[i] < Events[j]

\* The context of a queued record is a dispatcher that exists: Dispose and the collector's
\* ReleaseWhenDeadEx leave no record of a freed one in either queue.
NoDanglingContext == \A r \in ToSet(app \o HalRecords) : r.disp \in Live

\* Every event is delivered or given up in the end; none waits in a queue while the
\* interrupt thread is idle (SpawnDispatcher, ThreadTerminationCallback).
Delivered == \A e \in 1 .. MaxEvents : e =< raised ~> e \in gone
=============================================================================
