---------------------------- MODULE Reachability ----------------------------
(***************************************************************************)
(* What garbage collection promises to the program, without a word of how:   *)
(* a collection keeps exactly what can be reached from the program, from the  *)
(* finalizers that have to run, and from the objects it hands to them.       *)
(***************************************************************************)
EXTENDS Integers, FiniteSets

CONSTANTS
    Objects,  \* object addresses
    Fields,   \* Fields[o]: how many references o holds
    Null

VARIABLES
    live,       \* the objects that are allocated
    refs,       \* refs[o]: what the fields of o refer to
    held,       \* what the stack frames refer to
    awaiting,   \* finalizable objects that are in use
    pending,    \* objects whose finalizer has to run
    finalizing, \* the object whose finalizer runs
    weak        \* the target of the weak reference

vars == <<live, refs, held, awaiting, pending, finalizing, weak>>

References(o, r) == {r[o][k] : k \in DOMAIN r[o]} \ {Null}

(* What can be reached from a set of objects: as many steps as there are        *)
(* objects are enough.                                                       *)
Closure(set, r) ==
    LET step[n \in 0 .. Cardinality(Objects)] ==
            IF n = 0 THEN set
            ELSE step[n - 1] \cup UNION {References(o, r) : o \in step[n - 1]}
    IN  step[Cardinality(Objects)]

Roots == held \cup ({finalizing} \ {Null})

Init ==
    /\ live = {} /\ held = {}
    /\ refs = [o \in Objects |-> [k \in 1 .. Fields[o] |-> Null]]
    /\ awaiting = {} /\ pending = {}
    /\ finalizing = Null /\ weak = Null

(* Whatever the program does to objects it holds; it gets at no other object.   *)
Mutate ==
    /\ live \subseteq live' /\ live' \ live \subseteq held'
    /\ held' \subseteq Closure(Roots, refs) \cup (live' \ live) \cup ({weak} \ {Null})
    /\ \A o \in Objects : refs'[o] # refs[o] =>
        o \in Roots /\ References(o, refs') \subseteq References(o, refs) \cup Roots
    /\ awaiting' \subseteq awaiting \cup Roots' /\ pending' \subseteq pending
    /\ weak' \in {weak} \cup held'
    /\ \/ finalizing' \in {finalizing, Null}
       \/ finalizing' \in pending \ pending'

(* A collection: every dead object with a finalizer is kept one last time, and  *)
(* handed to its finalizer unless another one that is handed over reaches it.   *)
Collect ==
    LET reached == Closure(Roots \cup pending, refs)
        dead == awaiting \ reached
    IN  \E handed \in SUBSET dead :
        LET kept == reached \cup Closure(handed, refs)
        IN  /\ dead \subseteq kept
            /\ live' = live \cap kept
            /\ pending' = pending \cup handed
            /\ awaiting' = awaiting \ handed
            /\ weak' = IF weak \in kept THEN weak ELSE Null
            /\ refs' = [o \in Objects |-> IF o \in kept THEN refs[o]
                                          ELSE [k \in 1 .. Fields[o] |-> Null]]
            /\ UNCHANGED <<held, finalizing>>

Next == Mutate \/ Collect
Spec == Init /\ [][Next]_vars
=============================================================================
