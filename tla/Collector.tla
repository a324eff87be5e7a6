------------------------------ MODULE Collector ------------------------------
(***************************************************************************)
(* The garbage collector's mark phase with its bounded mark stack, the        *)
(* finalizers and the weak references, among a program that allocates,        *)
(* stores and drops references between collections.                          *)
(*                                                                          *)
(* A collection stops the program, but marking is modelled iteration by        *)
(* iteration of ComputeReachabilityGraphForMultipleBlocks: what matters is     *)
(* that it gives up part of the graph whenever the mark stack is full, and     *)
(* comes back for it.  Objects are numbered in the order of their addresses.  *)
(***************************************************************************)
EXTENDS Integers, Sequences, FiniteSets, SequencesExt

CONSTANTS
    Size,        \* the objects are 1 .. Size
    Fields,      \* Fields[o]: how many references o holds
    Finalizable, \* the objects whose class has a finalizer
    Watched,     \* bound: the program sets its weak reference to these
    MinimumSpace,\* c_minimumSpaceForGC less the sentinel of a mark stack
    MaxStacks,   \* bound: mark stacks that the free heap has room for
    Null

Objects == 1 .. Size

ASSUME CollectorAssumption ==
    /\ Size \in Nat /\ MinimumSpace \in Nat \ {0} /\ MaxStacks \in Nat
    /\ Fields \in [Objects -> Nat]
    /\ Finalizable \subseteq Objects /\ Watched \subseteq Objects
    /\ Null \notin Objects

VARIABLES
    live,       \* the objects that are allocated
    refs,       \* refs[o]: what the fields of o refer to
    held,       \* what arguments, locals and evaluation stacks refer to
    alive,      \* m_finalizersAlive, each entry by its m_object
    pending,    \* m_finalizersPending
    moved,      \* history: how many entries this collection has put there
    finalizing, \* m_dlg->m_object of m_finalizerThread while it runs
    weak,       \* m_targetDirect of a weak reference that is itself alive
    pc,         \* where Mark is; "run": no collection
    todo,       \* calls of CheckMultipleBlocks to come
    pass,       \* MarkSlow: the next address of its pass; beyond the heap: none
    work,       \* lst, num: the references the marking loop looks at next
    stack,      \* the elements of the mark stacks, without the sentinels
    stacks,     \* the length of m_markStackList
    marked,     \* HB_Alive
    out         \* m_fOutOfStackSpaceForGC

program == <<live, refs, held, alive, pending, finalizing, weak>>
marking == <<pc, todo, pass, work, stack, stacks, marked, out>>
vars == <<program, moved, marking>>

NullFields(o) == [k \in 1 .. Fields[o] |-> Null]

TypeOK ==
    /\ live \subseteq Objects /\ held \subseteq Objects /\ marked \subseteq Objects
    /\ DOMAIN refs = Objects
    /\ \A o \in Objects : refs[o] \in [1 .. Fields[o] -> Objects \cup {Null}]
    /\ alive \in Seq(Objects) /\ pending \in Seq(Objects)
    /\ moved \in 0 .. Len(pending)
    /\ finalizing \in Objects \cup {Null} /\ weak \in Objects \cup {Null}
    /\ pc \in {"run", "roots", "finalizers", "sweep"}
    /\ work \in Seq(Objects \cup {Null}) /\ pass \in 1 .. Size + 1
    /\ {todo, stack} \subseteq Seq(Seq(Objects \cup {Null}))
    /\ \A k \in DOMAIN stack : stack[k] # <<>>
    /\ stacks \in 1 .. MaxStacks + 1 /\ Len(stack) <= stacks * MinimumSpace
    /\ out \in BOOLEAN

Init ==
    /\ live = {} /\ held = {}
    /\ refs = [o \in Objects |-> NullFields(o)]
    /\ alive = <<>> /\ pending = <<>> /\ moved = 0
    /\ finalizing = Null /\ weak = Null
    /\ pc = "run" /\ todo = <<>> /\ pass = Size + 1
    /\ work = <<>> /\ stack = <<>> /\ stacks = 1
    /\ marked = {} /\ out = FALSE

-----------------------------------------------------------------------------
(* The program, and the finalizer thread.                                    *)

Running == pc = "run"
InReach == held \cup ({finalizing} \ {Null})

(* CLR_RT_HeapBlock_Finalizer::CreateInstance.                                *)
Register(o, list) == IF o \in Finalizable THEN Append(list, o) ELSE list

(* NewObject at the first free address; WeakReference.set_Target follows for the *)
(* objects that the program watches.                                          *)
New ==
    /\ Running /\ live # Objects
    /\ LET o == CHOOSE p \in Objects \ live : \A q \in Objects \ live : p <= q
       IN  /\ live' = live \cup {o}
           /\ held' = held \cup {o}
           /\ alive' = Register(o, alive)
           /\ weak' = IF o \in Watched THEN o ELSE weak
    /\ UNCHANGED <<refs, pending, finalizing, moved, marking>>

Store ==
    /\ Running
    /\ \E o \in InReach : \E k \in 1 .. Fields[o] : \E v \in InReach :
        refs' = [refs EXCEPT ![o][k] = v]
    /\ UNCHANGED <<live, held, alive, pending, finalizing, weak, moved, marking>>

Load ==
    /\ Running
    /\ \E o \in InReach : \E k \in 1 .. Fields[o] :
        refs[o][k] # Null /\ held' = held \cup {refs[o][k]}
    /\ UNCHANGED <<live, refs, alive, pending, finalizing, weak, moved, marking>>

Drop ==
    /\ Running
    /\ \E o \in held : held' = held \ {o}
    /\ UNCHANGED <<live, refs, alive, pending, finalizing, weak, moved, marking>>

(* WeakReference.get_Target.                                                  *)
GetWeak ==
    /\ Running /\ weak # Null
    /\ held' = held \cup {weak}
    /\ UNCHANGED <<live, refs, alive, pending, finalizing, weak, moved, marking>>

(* It ends at the first entry of the object.                                   *)
RemoveInstance(o, list) ==
    IF Contains(list, o)
    THEN RemoveAt(list, CHOOSE k \in DOMAIN list :
                            list[k] = o /\ \A j \in 1 .. k - 1 : list[j] # o)
    ELSE list

SuppressFinalize(o) ==
    /\ alive' = RemoveInstance(o, alive)
    /\ pending' = RemoveInstance(o, pending)

Suppress ==
    /\ Running
    /\ \E o \in InReach : SuppressFinalize(o)
    /\ UNCHANGED <<live, refs, held, finalizing, weak, moved, marking>>

ReRegisterForFinalize(o) ==
    /\ alive' = Register(o, RemoveInstance(o, alive))
    /\ pending' = RemoveInstance(o, pending)

ReRegister ==
    /\ Running
    /\ \E o \in InReach : ReRegisterForFinalize(o)
    /\ UNCHANGED <<live, refs, held, finalizing, weak, moved, marking>>

(* SpawnFinalizer, when the finalizer thread is free; and the end of the        *)
(* finalizer.                                                                *)
SpawnFinalizer ==
    /\ Running /\ finalizing = Null /\ pending # <<>>
    /\ finalizing' = Head(pending)
    /\ pending' = Tail(pending)
    /\ UNCHANGED <<live, refs, held, alive, weak, moved, marking>>

FinalizerEnds ==
    /\ Running /\ finalizing # Null
    /\ finalizing' = Null
    /\ UNCHANGED <<live, refs, held, alive, pending, weak, moved, marking>>

-----------------------------------------------------------------------------
(* The marking loop.                                                        *)

Ascending(set) ==
    [k \in 1 .. Cardinality(set) |-> CHOOSE a \in set : Cardinality({b \in set : b < a}) = k - 1]

(* Mark: the roots are the pending finalizers, one by one, the finalizer's      *)
(* delegate and the blocks of a stack frame, one of which refers to nothing.    *)
Collect ==
    /\ Running
    /\ pc' = "roots"
    /\ todo' = [k \in DOMAIN pending |-> <<pending[k]>>]
               \o <<<<finalizing>>, Append(Ascending(held), Null)>>
    /\ marked' = {} /\ out' = FALSE /\ stacks' = 1
    /\ UNCHANGED <<program, moved, pass, work, stack>>

Marks == pc # "run" /\ pc # "sweep"
Idle == work = <<>> /\ stack = <<>>
Ready == Idle /\ todo = <<>> /\ \A o \in marked : o < pass

Check ==
    /\ Marks /\ Idle /\ todo # <<>>
    /\ work' = Head(todo)
    /\ todo' = Tail(todo)
    /\ UNCHANGED <<program, moved, pc, pass, stack, stacks, marked, out>>

(* MarkSlow: the next object that is marked when its turn comes.                *)
CheckHeap ==
    /\ Marks /\ Idle /\ todo = <<>>
    /\ \E o \in marked :
        /\ o >= pass /\ \A p \in marked : p < pass \/ o <= p
        /\ work' = refs[o]
        /\ pass' = o + 1
    /\ UNCHANGED <<program, moved, pc, todo, stack, stacks, marked, out>>

(* A reference to an object that is not marked: it is marked, and its fields    *)
(* come next.                                                                *)
Visit(o) ==
    IF o \in {Null} \cup marked
    THEN work' = <<>> /\ marked' = marked
    ELSE work' = refs[o] /\ marked' = marked \cup {o}

TakeFromStack ==
    /\ Marks /\ work = <<>> /\ stack # <<>>
    /\ LET top == stack[Len(stack)]
           below == SubSeq(stack, 1, Len(stack) - 1)
       IN  /\ Visit(Head(top))
           /\ stack' = IF Len(top) = 1 THEN below ELSE Append(below, Tail(top))
    /\ UNCHANGED <<program, moved, pc, todo, pass, stacks, out>>

Room == Len(stack) < stacks * MinimumSpace

TakeFromWork ==
    /\ Marks /\ work # <<>>
    /\ Len(work) = 1 \/ Room
    /\ Visit(Head(work))
    /\ stack' = IF Len(work) = 1 THEN stack ELSE Append(stack, Tail(work))
    /\ UNCHANGED <<program, moved, pc, todo, pass, stacks, out>>

Full == Marks /\ Len(work) > 1 /\ ~Room

(* The mark stack is full: another one from the free heap.                     *)
MoreStack ==
    /\ Full /\ ~out /\ stacks <= MaxStacks
    /\ stacks' = stacks + 1
    /\ UNCHANGED <<program, moved, pc, todo, pass, work, stack, marked, out>>

(* There is none: the blocks are left for MarkSlow.  Once out, no other         *)
(* allocation is tried.                                                      *)
\* Variant: MarkSlow passes over the heap once, whatever it leaves in turn.
LeaveInPass == out' = (out \/ pass > Size)
LeaveBlocks == out' = TRUE

GiveUp ==
    /\ Full
    /\ LeaveBlocks
    /\ work' = <<>>
    /\ UNCHANGED <<program, moved, pc, todo, pass, stack, stacks, marked>>

\* Variant: m_fOutOfStackSpaceForGC stays set.
StillOut == pass' = 1 /\ out' = out /\ pc' = pc
(* Another pass of MarkSlow over the heap.                                     *)
MarkSlow == pass' = 1 /\ out' = FALSE /\ pc' = pc

(* Mark, after the roots and at its end.                                      *)
Slow ==
    /\ Marks /\ Ready /\ out
    /\ pc = "finalizers" => ToSet(alive) \subseteq marked
    /\ MarkSlow
    /\ UNCHANGED <<program, moved, todo, work, stack, stacks, marked>>

RootsDone ==
    /\ pc = "roots" /\ Ready /\ ~out
    /\ pc' = "finalizers" /\ pass' = Size + 1
    /\ UNCHANGED <<program, moved, todo, work, stack, stacks, marked, out>>

MoveToPending(k) == alive' = RemoveAt(alive, k) /\ pending' = Append(pending, alive[k])

(* The first dead object of m_finalizersAlive is marked one last time.          *)
Finalize ==
    /\ pc = "finalizers" /\ Ready
    /\ \E k \in DOMAIN alive :
        /\ alive[k] \notin marked
        /\ \A j \in 1 .. k - 1 : alive[j] \in marked
        /\ MoveToPending(k) /\ moved' = moved + 1
        /\ work' = <<alive[k]>>
    /\ UNCHANGED <<live, refs, held, finalizing, weak, pc, todo, pass, stack, stacks, marked, out>>

MarkDone ==
    /\ pc = "finalizers" /\ Ready /\ ~out
    /\ ToSet(alive) \subseteq marked
    /\ pc' = "sweep" /\ pass' = Size + 1
    /\ UNCHANGED <<program, moved, todo, work, stack, stacks, marked, out>>

(* MarkWeak.                                                                *)
\* Variant: the target of a weak reference is not looked at.
WeakStays == weak
WeakTarget == IF weak \in marked THEN weak ELSE Null

(* MarkWeak and Sweep: what is not marked is free, and the marks go.            *)
Sweep ==
    /\ pc = "sweep"
    /\ live' = live \cap marked
    /\ refs' = [o \in Objects |-> IF o \in marked THEN refs[o] ELSE NullFields(o)]
    /\ weak' = WeakTarget
    /\ marked' = {} /\ stacks' = 1 /\ moved' = 0
    /\ pc' = "run"
    /\ UNCHANGED <<held, alive, pending, finalizing, todo, pass, work, stack, out>>

Program ==
    \/ New \/ Store \/ Load \/ Drop \/ GetWeak \/ Suppress \/ ReRegister
    \/ SpawnFinalizer \/ FinalizerEnds
Collection ==
    \/ Check \/ CheckHeap \/ TakeFromStack \/ TakeFromWork \/ MoreStack \/ GiveUp \/ Slow
    \/ RootsDone \/ Finalize \/ MarkDone \/ Sweep
Next == Program \/ Collect \/ Collection

(* The collector runs to its end, and nothing else does until then.            *)
Fairness == WF_vars(Collection)
Spec == Init /\ [][Next]_vars /\ Fairness

-----------------------------------------------------------------------------
(* Properties.                                                              *)

(* Nothing that can still be used refers to memory that was freed: no object   *)
(* that is held, referred to by a field, finalized or waiting for it, and no    *)
(* finalizer entry and no weak reference.                                     *)
NoDangling ==
    /\ held \cup ToSet(alive) \cup ToSet(pending) \subseteq live
    /\ {finalizing, weak} \subseteq live \cup {Null}
    /\ \A o \in live : \A k \in DOMAIN refs[o] : refs[o][k] \in live \cup {Null}

(* An object has at most one entry in the two lists of finalizers, so that      *)
(* one registration never runs two finalizers.                               *)
OneEntry == IsInjective(alive \o pending)

(* The two lists of finalizers and all references agree with the heap, through   *)
(* every operation of the program and every step of a collection.              *)
Consistent == TypeOK /\ NoDangling /\ OneEntry

(* Every collection ends, however often the mark stack overflows.              *)
CollectionEnds == pc # "run" ~> pc = "run"

(* The collector implements Reachability: the collection happens at its sweep,  *)
(* and until then the entries it has moved count as where they were.           *)
waiting == ToSet(SubSeq(pending, 1, Len(pending) - moved))
Reach == INSTANCE Reachability WITH
    awaiting <- ToSet(alive) \cup (ToSet(pending) \ waiting), pending <- waiting

(* A collection frees an object exactly if nothing the program, or a finalizer  *)
(* that has still to run, can reach it, and clears a weak reference exactly     *)
(* if its target is freed, whether or not the mark stack was large enough.      *)
KeepsReachable == Reach!Spec
=============================================================================
