----------------------------- MODULE Exceptions -----------------------------
(***************************************************************************)
(* Two-pass exception handling of one managed thread: the stack frames, the  *)
(* stack m_nestedExceptions of exceptions being processed, and the           *)
(* instructions throw, rethrow, leave, endfinally, endfilter and ret.        *)
(*                                                                          *)
(* A method is a range of positions with a table of clauses, the innermost   *)
(* first.  What the method computes is left open: at each position its frame *)
(* may do whatever the instruction set allows there.  A stack frame is        *)
(* identified by its depth, 0 standing for NULL.  The debugger's stops, the   *)
(* inlined frames and the application domains are left out.                  *)
(***************************************************************************)
EXTENDS Integers, Sequences, FiniteSets

CONSTANTS
    Size,        \* Size[m]: the positions of method m are 1 .. Size[m]
    Clauses,     \* Clauses[m]: the exception clauses of m
    Calls,       \* Calls[m]: the pairs <<position, method>> of its calls
    Main,        \* the method the thread starts in
    Thrown,      \* the exceptions that programs throw
    ThreadAbort, \* ThreadAbortException
    MaxDepth,    \* bound: frames that there is memory for
    MaxNested,   \* c_MaxStackUnwindDepth
    None

Methods == DOMAIN Size
Positions(m) == 1 .. Size[m]
Regions == {"try", "filter", "handler"}

ExceptionsAssumption ==
    /\ Main \in Methods
    /\ \A m \in Methods : \A c \in DOMAIN Clauses[m] :
        /\ Clauses[m][c].kind \in {"catch", "filter", "finally"}
        /\ \A r \in Regions : Clauses[m][c][r] \subseteq Positions(m)
        /\ Clauses[m][c].types \subseteq Thrown \cup {ThreadAbort}
    /\ MaxDepth \in Nat \ {0} /\ MaxNested \in Nat \ {0}
    /\ None \notin Thrown \cup {ThreadAbort}

VARIABLES
    frames,   \* m_stackFrames: method, m_IP, c_PseudoStackFrameForFilter
    nested,   \* m_nestedExceptions[0 .. m_nestedExceptionsPos - 1]
    current,  \* m_currentException
    aborted,  \* TH_F_Aborted
    astray,   \* the code read m_nestedExceptions[-1] or a frame that is gone
    owed      \* history: per frame, how often each finally block has still to run

vars == <<frames, nested, current, aborted, astray, owed>>

Top == Len(frames)
First(set) == CHOOSE p \in set : \A q \in set : p <= q
Highest(set) == CHOOSE p \in set : \A q \in set : p >= q

(* An entry of m_nestedExceptions.  block is the range m_currentBlockStart ..  *)
(* m_currentBlockEnd with its method, clause is m_handlerBlockStart.           *)
NoBlock == [method |-> None, at |-> {}]
Block(m, set) == [method |-> m, at |-> set]
Entry(f, exc, p) == [stack |-> f, exc |-> exc, phase |-> p, ip |-> 0,
                     block |-> NoBlock, handlerStack |-> 0, clause |-> 0,
                     continue |-> FALSE]

TypeOK ==
    /\ \A f \in DOMAIN frames :
        /\ frames[f].method \in Methods
        /\ frames[f].ip \in Positions(frames[f].method)
        /\ frames[f].pseudo \in BOOLEAN
    /\ Len(frames) <= MaxDepth /\ Len(nested) <= MaxNested
    /\ \A k \in DOMAIN nested :
        /\ nested[k].phase \in {"search", "finallys", "handler", "leave"}
        /\ nested[k].exc \in Thrown \cup {ThreadAbort, None}
        /\ (nested[k].exc = None) = (nested[k].phase = "leave")
    /\ current \in Thrown \cup {ThreadAbort, None}
    /\ aborted \in BOOLEAN /\ astray \in BOOLEAN
    /\ DOMAIN owed = DOMAIN frames

NothingOwed(m) == [c \in DOMAIN Clauses[m] |-> 0]
Frame(m, ip, pseudo) == [method |-> m, ip |-> ip, pseudo |-> pseudo]

Init ==
    /\ frames = <<Frame(Main, 1, FALSE)>>
    /\ nested = <<>>
    /\ current = None
    /\ aborted = FALSE
    /\ astray = FALSE
    /\ owed = <<NothingOwed(Main)>>

-----------------------------------------------------------------------------
(* Clauses.                                                                 *)

In(m, ip, c, r) == ip \in Clauses[m][c][r]

(* FindEhBlock(stack, from, to, eh, onlyFinallys): the clauses that match.  A   *)
(* search that starts inside the filter of a clause goes on after that clause  *)
(* as from the start of its try block.                                       *)
From(m, ip, c) ==
    LET filters == {d \in 1 .. c - 1 : In(m, ip, d, "filter")}
    IN  IF filters = {} THEN ip
        ELSE First(Clauses[m][Highest(filters)].try)
Protects(m, ip, c) ==
    ~In(m, ip, c, "filter") /\ In(m, From(m, ip, c), c, "try")

\* Variant: only a jump within the method runs finally blocks.
FinallysOfLeave(m, ip, to) ==
    {c \in DOMAIN Clauses[m] :
        /\ Clauses[m][c].kind = "finally"
        /\ Protects(m, ip, c)
        /\ to # 0 /\ ~In(m, to, c, "try")}
Finallys(m, ip, to) ==
    {c \in DOMAIN Clauses[m] :
        /\ Clauses[m][c].kind = "finally"
        /\ Protects(m, ip, c)
        /\ to = 0 \/ ~In(m, to, c, "try")}

\* Variant: a search that ended in a filter starts again with that filter.
FilterAgain(m, ip, exc, full) ==
    {c \in DOMAIN Clauses[m] :
        \/ Clauses[m][c].kind = "catch" /\ exc \in Clauses[m][c].types /\ Protects(m, ip, c)
        \/ Clauses[m][c].kind = "filter" /\ ~full /\ In(m, From(m, ip, c), c, "filter")
        \/ Clauses[m][c].kind = "filter" /\ ~full /\ Protects(m, ip, c)}
Catches(m, ip, exc, full) ==
    {c \in DOMAIN Clauses[m] :
        /\ Protects(m, ip, c)
        /\ \/ Clauses[m][c].kind = "catch" /\ exc \in Clauses[m][c].types
           \/ Clauses[m][c].kind = "filter" /\ ~full}

(* Moving from one position to another enters the try blocks around it.        *)
Enter(o, m, from, to) ==
    [c \in DOMAIN o |->
        IF /\ Clauses[m][c].kind = "finally"
           /\ In(m, to, c, "try") /\ ~In(m, from, c, "try")
        THEN o[c] + 1 ELSE o[c]]

-----------------------------------------------------------------------------
(* The stack of exceptions.                                                 *)

(* PushEH: when the stack is full the oldest entry goes, and the new one keeps *)
(* whatever the entry before it held, except for what ProcessException sets.  *)
PushEH(ns, us) ==
    IF Len(ns) < MaxNested THEN Append(ns, us)
    ELSE Append(Tail(ns), [ns[Len(ns)] EXCEPT !.stack = us.stack, !.exc = us.exc,
                                              !.phase = us.phase, !.continue = FALSE])

Holds(us, m, ip) == us.block.method = m /\ ip \in us.block.at

(* PopEH: leaving for position ip of frame f pops every entry above the last    *)
(* one whose block holds ip, whatever frame the entries belong to; ip 0 is     *)
(* none.                                                                     *)
PopEH(ns, f, m, ip) ==
    IF ns = <<>> \/ ns[Len(ns)].stack # f THEN ns
    ELSE LET holding == {k \in DOMAIN ns : Holds(ns[k], m, ip)}
         IN  SubSeq(ns, 1, IF holding = {} THEN 0 ELSE Highest(holding))

-----------------------------------------------------------------------------
(* ProcessException.  fr, ns, ow and exc are the frames, the entries, the      *)
(* history and m_currentException when it is called; the last entry of ns is   *)
(* the one to process.                                                      *)

Run(fr, ns, ow, exc) ==
    /\ frames' = fr
    /\ nested' = ns
    /\ owed' = ow
    /\ current' = exc
    /\ astray' = FALSE

GoesAstray == astray' = TRUE /\ UNCHANGED <<frames, nested, current, owed>>

SetLast(ns, us) == [ns EXCEPT ![Len(ns)] = us]

(* ProcessException_Phase2 for entry us: frames are popped down to one that has *)
(* a finally block to run, holds the handler, or is the pseudo-frame of a      *)
(* filter.                                                                   *)
Phase2(fr, ns, ow, us, exc) ==
    LET Target(k) == IF us.handlerStack = k
                     THEN First(Clauses[fr[k].method][us.clause].handler) ELSE 0
        Pending(k) == Finallys(fr[k].method, fr[k].ip, Target(k))
        stops == {k \in DOMAIN fr : Pending(k) # {} \/ k = us.handlerStack \/ fr[k].pseudo}
        k == Highest(stops)
        m == fr[k].method
        RunFinally(c) ==
            Run([SubSeq(fr, 1, k) EXCEPT ![k].ip = First(Clauses[m][c].handler)],
                SetLast(ns, [us EXCEPT !.stack = k, !.ip = 0, !.phase = "finallys",
                                       !.block = Block(m, Clauses[m][c].handler)]),
                [SubSeq(ow, 1, k) EXCEPT ![k][c] = @ - 1], None)
        RunHandler ==
            LET handler == Clauses[m][us.clause].handler
            IN  Run([SubSeq(fr, 1, k) EXCEPT ![k].ip = First(handler)],
                    SetLast(ns, [us EXCEPT !.stack = k, !.phase = "handler",
                                           !.block = Block(m, handler)]),
                    SubSeq(ow, 1, k), None)
        (* An exception inside a filter: as if the filter had answered no.     *)
        DropFilter ==
            LET rest == SubSeq(ns, 1, Len(ns) - 1)
                other == rest[Len(rest)]
            IN  IF rest = <<>> THEN GoesAstray
                ELSE IF other.handlerStack \notin 1 .. k - 1 THEN GoesAstray
                ELSE Run(SubSeq(fr, 1, k - 1),
                         SetLast(rest, [other EXCEPT !.ip = First(other.block.at),
                                                     !.stack = 0, !.continue = TRUE]),
                         SubSeq(ow, 1, k - 1), other.exc)
    IN  IF stops = {} THEN Run(<<>>, <<>>, <<>>, exc)
        ELSE IF Pending(k) # {} THEN RunFinally(First(Pending(k)))
        ELSE IF k = us.handlerStack THEN RunHandler
        ELSE DropFilter

(* ProcessException_Phase1: from the frame where the last filter was found, or  *)
(* from the top, down to the first frame with a clause for the exception and   *)
(* no further than a pseudo-frame.  A filter runs in a pseudo-frame of its own; *)
(* when there is no memory for one it is passed over.                         *)
Phase1(fr, ns, ow, us, exc) ==
    LET start == IF us.handlerStack # 0 THEN us.handlerStack ELSE Len(fr)
        IP(k) == IF k = start /\ us.ip # 0 THEN us.ip ELSE fr[k].ip
        Willing(k) == Catches(fr[k].method, IP(k), exc, Len(fr) = MaxDepth)
        ends == {k \in 1 .. start : Willing(k) # {} \/ fr[k].pseudo}
        k == Highest(ends)
        m == fr[k].method
        c == First(Willing(k))
        searched == [us EXCEPT !.ip = 0]
        found == [searched EXCEPT !.handlerStack = k, !.clause = c]
        nobody == [searched EXCEPT !.handlerStack = 0, !.phase = "finallys"]
    IN  IF ends = {} THEN Phase2(fr, SetLast(ns, nobody), ow, nobody, exc)
        ELSE IF Willing(k) = {} THEN Phase2(fr, SetLast(ns, nobody), ow, nobody, exc)
        ELSE IF Clauses[m][c].kind = "filter"
        THEN Run(Append(fr, Frame(m, First(Clauses[m][c].filter), TRUE)),
                 SetLast(ns, [found EXCEPT !.stack = Len(fr) + 1,
                                           !.block = Block(m, Clauses[m][c].filter)]),
                 Append(ow, NothingOwed(m)), None)
        ELSE LET us2 == [found EXCEPT !.phase = "finallys"]
             IN  Phase2(fr, SetLast(ns, us2), ow, us2, exc)

ProcessException(fr, ns, ow, exc) ==
    LET top == ns[Len(ns)]
        resumed == ns # <<>> /\ top.continue
        stack == IF resumed THEN SetLast(ns, [top EXCEPT !.continue = FALSE])
                 ELSE PushEH(ns, Entry(Len(fr), exc, "search"))
        us == stack[Len(stack)]
    IN  IF us.phase = "search" THEN Phase1(fr, stack, ow, us, us.exc)
        ELSE Phase2(fr, stack, ow, us, us.exc)

-----------------------------------------------------------------------------
(* The instructions of the frame at the top.  Running is when Execute_IL runs. *)

Running == frames # <<>> /\ current = None /\ ~astray

method == frames[Top].method
here == frames[Top].ip

RegionsAt(m, ip) == {<<c, r>> \in (DOMAIN Clauses[m]) \X Regions : In(m, ip, c, r)}
Extent(m, region) == Clauses[m][region[1]][region[2]]
(* The innermost region around ip that is not a try block.                     *)
HandlersAt(m, ip) == {region \in RegionsAt(m, ip) : region[2] # "try"}
IsInnermost(m, ip, region) ==
    \A other \in RegionsAt(m, ip) : Extent(m, region) \subseteq Extent(m, other)
InFinally(region) == Clauses[method][region[1]].kind = "finally" /\ region[2] = "handler"
InCatch(region) == Clauses[method][region[1]].kind # "finally" /\ region[2] = "handler"

GoTo(ip) ==
    /\ frames' = [frames EXCEPT ![Top].ip = ip]
    /\ owed' = [owed EXCEPT ![Top] = Enter(@, method, here, ip)]

(* Control falls into a try block, and into or out of nothing else.            *)
Step ==
    /\ Running /\ here + 1 \in Positions(method)
    /\ RegionsAt(method, here) \subseteq RegionsAt(method, here + 1)
    /\ HandlersAt(method, here) = HandlersAt(method, here + 1)
    /\ GoTo(here + 1)
    /\ UNCHANGED <<nested, current, aborted, astray>>

Call ==
    /\ Running /\ Top < MaxDepth
    /\ \E m \in Methods :
        /\ <<here, m>> \in Calls[method]
        /\ frames' = Append(frames, Frame(m, 1, FALSE))
        /\ owed' = Append(owed, NothingOwed(m))
    /\ UNCHANGED <<nested, current, aborted, astray>>

(* CEE_RET and CLR_RT_StackFrame::Pop.                                        *)
Ret ==
    /\ Running /\ RegionsAt(method, here) = {}
    /\ frames' = SubSeq(frames, 1, Top - 1)
    /\ owed' = SubSeq(owed, 1, Top - 1)
    /\ nested' = PopEH(nested, Top, method, 0)
    /\ UNCHANGED <<current, aborted, astray>>

Throw ==
    /\ Running
    /\ \E exc \in Thrown : ProcessException(frames, nested, owed, exc)
    /\ UNCHANGED aborted

(* CEE_RETHROW takes the exception of the entry at the top off the stack.      *)
Rethrow ==
    /\ Running
    /\ \E region \in RegionsAt(method, here) :
        IsInnermost(method, here, region) /\ InCatch(region)
    /\ IF nested = <<>> THEN GoesAstray
       ELSE IF nested[Len(nested)].exc = None THEN GoesAstray
       ELSE ProcessException(frames, SubSeq(nested, 1, Len(nested) - 1), owed,
                             nested[Len(nested)].exc)
    /\ UNCHANGED aborted

(* Where leave may go from here: out of at least one region, of no finally     *)
(* block and of no filter, and into none.                                    *)
LeaveTargets ==
    {q \in Positions(method) :
        /\ RegionsAt(method, q) \subseteq RegionsAt(method, here)
        /\ RegionsAt(method, q) # RegionsAt(method, here)
        /\ \A region \in RegionsAt(method, here) \ RegionsAt(method, q) :
            region[2] # "filter" /\ ~InFinally(region)}

(* CEE_LEAVE: a finally block on the way runs first, with an entry that has no  *)
(* exception; without one an aborted thread throws again, and the instruction  *)
(* pointer that ProcessException backs up is that of the target.              *)
Leave ==
    /\ Running
    /\ \E q \in LeaveTargets :
        LET popped == PopEH(nested, Top, method, q)
            pending == Finallys(method, here, q)
            c == First(pending)
        IN  IF pending # {}
            THEN /\ frames' = [frames EXCEPT ![Top].ip = First(Clauses[method][c].handler)]
                 /\ owed' = [owed EXCEPT ![Top][c] = @ - 1]
                 /\ nested' = PushEH(popped, [Entry(Top, None, "leave") EXCEPT
                        !.ip = q, !.block = Block(method, Clauses[method][c].handler)])
                 /\ UNCHANGED <<current, astray>>
            ELSE IF aborted
            THEN ProcessException([frames EXCEPT ![Top].ip = q - 1], popped, owed, ThreadAbort)
            ELSE /\ GoTo(q)
                 /\ nested' = popped
                 /\ UNCHANGED <<current, astray>>
    /\ UNCHANGED aborted

\* Variant: the leave goes to its target whatever other finally block it passes.
LeaveAtOnce(us) ==
    /\ nested' = SubSeq(nested, 1, Len(nested) - 1)
    /\ GoTo(us.ip)
    /\ UNCHANGED <<current, astray>>
(* A finally block that a leave ran is done: the next one, or the target.      *)
ContinueLeave(us) ==
    LET pending == Finallys(method, here, us.ip)
        c == First(pending)
        handler == Clauses[method][c].handler
    IN  IF us.stack # Top THEN GoesAstray
        ELSE IF pending = {}
        THEN /\ nested' = SubSeq(nested, 1, Len(nested) - 1)
             /\ GoTo(us.ip)
             /\ UNCHANGED <<current, astray>>
        ELSE /\ nested' = SetLast(nested, [us EXCEPT !.block = Block(method, handler)])
             /\ frames' = [frames EXCEPT ![Top].ip = First(handler)]
             /\ owed' = [owed EXCEPT ![Top][c] = @ - 1]
             /\ UNCHANGED <<current, astray>>

(* CEE_ENDFINALLY and ProcessException_EndFinally.                            *)
EndFinally ==
    /\ Running
    /\ \E region \in RegionsAt(method, here) :
        IsInnermost(method, here, region) /\ InFinally(region)
    /\ IF nested = <<>> THEN GoesAstray
       ELSE LET us == nested[Len(nested)]
            IN  IF us.ip # 0 THEN ContinueLeave(us)
                ELSE IF us.exc # None
                THEN ProcessException(frames, SetLast(nested, [us EXCEPT !.continue = TRUE]),
                                      owed, None)
                ELSE GoesAstray
    /\ UNCHANGED aborted

(* CEE_ENDFILTER and ProcessException_EndFilter: the filter's answer.          *)
EndFilter ==
    /\ Running
    /\ \E region \in RegionsAt(method, here) :
        IsInnermost(method, here, region) /\ region[2] = "filter"
    /\ \E accepts \in BOOLEAN :
        IF nested = <<>> THEN GoesAstray
        ELSE LET us == nested[Len(nested)]
                 us2 == [us EXCEPT !.stack = 0, !.continue = TRUE,
                            !.phase = IF accepts THEN "finallys" ELSE @,
                            !.ip = IF accepts THEN @ ELSE First(us.block.at)]
             IN  IF us.handlerStack \notin 1 .. Top - 1 THEN GoesAstray
                 ELSE ProcessException(SubSeq(frames, 1, Top - 1), SetLast(nested, us2),
                                       SubSeq(owed, 1, Top - 1), None)
    /\ UNCHANGED aborted

(* The next turn of CLR_RT_Thread::Execute for an exception that is still set.  *)
Resume ==
    /\ frames # <<>> /\ current # None /\ ~astray
    /\ ProcessException(frames, nested, owed, current)
    /\ UNCHANGED aborted

(* Another thread calls Abort; bound: once.                                    *)
Abort ==
    /\ frames # <<>> /\ ~aborted /\ ~astray
    /\ aborted' = TRUE
    /\ current' = ThreadAbort
    /\ UNCHANGED <<frames, nested, astray, owed>>

Next ==
    \/ Step \/ Call \/ Ret \/ Throw \/ Rethrow \/ Leave
    \/ EndFinally \/ EndFilter \/ Resume \/ Abort

Spec == Init /\ [][Next]_vars

-----------------------------------------------------------------------------
(* Properties.                                                              *)

(* A frame that executes a catch block, a finally block or a filter executes   *)
(* it for an entry of m_nestedExceptions, and the entry of the frame at the    *)
(* top is the last one, the one that endfinally, endfilter and rethrow take    *)
(* without looking at whose it is.                                           *)
OwnEntryOnTop ==
    Running => \A f \in DOMAIN frames :
        LET m == frames[f].method
        IN  \A region \in HandlersAt(m, frames[f].ip) :
                /\ \E k \in DOMAIN nested : /\ nested[k].stack = f
                                            /\ nested[k].block = Block(m, Extent(m, region))
                /\ f = Top /\ IsInnermost(m, here, region) =>
                    /\ nested[Len(nested)].stack = f
                    /\ nested[Len(nested)].block = Block(m, Extent(m, region))

(* A finally block is owed exactly while control is inside its try block: it   *)
(* neither runs twice nor is passed by, whichever way control leaves.          *)
FinallyOnce ==
    ~astray => \A f \in DOMAIN frames : ~frames[f].pseudo =>
        \A c \in DOMAIN owed[f] :
            owed[f][c] = IF /\ Clauses[frames[f].method][c].kind = "finally"
                            /\ In(frames[f].method, frames[f].ip, c, "try")
                         THEN 1 ELSE 0

(* No frame goes, by ret, by unwinding or with its thread, that still owes a   *)
(* finally block.                                                            *)
NoFrameOwes ==
    [][\A f \in DOMAIN frames : f \notin DOMAIN frames' =>
        \A c \in DOMAIN owed[f] : owed[f][c] = 0]_vars

(* Between the pass that finds the handler and the one that runs it the        *)
(* handler's frame stays, inside the try block of the clause that was found.   *)
HandlerAwaits ==
    Running /\ nested # <<>> =>
        LET us == nested[Len(nested)]
        IN  us.phase = "finallys" /\ us.handlerStack # 0 =>
                /\ us.handlerStack \in DOMAIN frames
                /\ In(frames[us.handlerStack].method, frames[us.handlerStack].ip, us.clause, "try")

(* m_nestedExceptions agrees with what the frames execute, as every pass of      *)
(* exception handling takes for granted.                                     *)
EntriesMatch == TypeOK /\ OwnEntryOnTop /\ HandlerAwaits

(* Thread.cpp on PushEH: an entry lasts until its handler gets executed or     *)
(* something out-of-band pops the stack frame.  So every finally block that    *)
(* ends finds the entry it ran for.                                          *)
EntryLasts == ~astray

(* Thread.cpp on an exception inside a filter: it is swallowed, as if the      *)
(* filter had returned false.  So a filter's pseudo-frame runs nothing but the *)
(* filter.                                                                   *)
FilterOnly ==
    \A f \in DOMAIN frames : frames[f].pseudo =>
        \E c \in DOMAIN Clauses[frames[f].method] :
            In(frames[f].method, frames[f].ip, c, "filter")
=============================================================================
