----------------------------- MODULE HeapCluster -----------------------------
(***************************************************************************)
(* The managed heap: clusters of blocks with their free lists, the event       *)
(* cache that recycles unmovable blocks, the sweep of the collector and the    *)
(* compaction, which slides objects into the free blocks in front of them      *)
(* while the program's references are still the old ones.                     *)
(*                                                                          *)
(* Addresses and lengths count heap blocks.  What the collector finds          *)
(* reachable is module Collector's: here an object is reachable while the      *)
(* program has a reference to it, and its block loses its name with that.       *)
(***************************************************************************)
EXTENDS Integers, Sequences, FiniteSets, SequencesExt, FiniteSetsExt, Functions, TLC

CONSTANTS
    Clusters,    \* Clusters[c]: <<m_payloadStart, m_payloadEnd>>
    Objects,     \* names of the objects that are in use at a time, 1 .. n
    SizeOf,      \* SizeOf[o]: the length of object o
    EventSizes,  \* lengths of events
    FastLists,   \* c_maxFastLists
    RelocMax,    \* c_minimumSpaceForCompact
    Pinnable,    \* the objects that the program may pin
    MaxEvents,   \* bound: events in use at a time
    Null

HeapAssumption ==
    /\ Clusters \in Seq((Nat \ {0}) \X Nat) /\ Clusters # <<>>
    /\ \A c \in DOMAIN Clusters : Clusters[c][1] < Clusters[c][2]
    /\ \A c, d \in DOMAIN Clusters : c < d => Clusters[c][2] < Clusters[d][1]
    /\ Objects \in SUBSET (Nat \ {0}) /\ Pinnable \subseteq Objects /\ MaxEvents \in Nat
    /\ SizeOf \in [Objects -> Nat \ {0}] /\ EventSizes \subseteq Nat \ {0}
    /\ FastLists \in Nat \ {0} /\ RelocMax \in Nat \ {0}
    /\ Null \notin Nat

VARIABLES
    blocks,   \* the headers: the length, kind and object of the block at an address
    free,     \* free[c]: m_freeList
    lastUsed, \* m_lastHcUsed, or 0
    cache,    \* cache[n]: m_events[n]
    ref,      \* ref[o]: the program's reference to object o
    pc,       \* where Heap_Compact is; "run": nowhere
    from,     \* currentSource_hc
    source,   \* currentSource
    hole,     \* freeRegion
    regions   \* m_relocBlocks

program == <<lastUsed, cache>>
compaction == <<pc, from, source, hole, regions>>
vars == <<blocks, free, program, ref, compaction>>

-----------------------------------------------------------------------------
(* Blocks.                                                                  *)

Numbers == DOMAIN Clusters
Start(c) == Clusters[c][1]
Stop(c) == Clusters[c][2]
ClusterOf(a) == CHOOSE c \in Numbers : Start(c) <= a /\ a < Stop(c)

Block(length, kind, o) == [size |-> length, kind |-> kind, object |-> o]
Free(length) == Block(length, "free", Null)

End(b, a) == a + b[a].size
In(b, c) == {a \in DOMAIN b : Start(c) <= a /\ a < Stop(c)}
Where(b, kinds) == {a \in DOMAIN b : b[a].kind \in kinds}
Addresses == [a \in 1 .. Stop(Len(Clusters)) |-> a]
Ascending(set) == SelectSeq(Addresses, LAMBDA a : a \in set)
Without(b, set) == Restrict(b, DOMAIN b \ set)

(* Where an object is.                                                       *)
Holders(o) == {a \in DOMAIN blocks : blocks[a].object = o}

TypeOK ==
    /\ \A a \in DOMAIN blocks :
        /\ blocks[a].kind \in {"free", "object", "pinned", "event", "cached"}
        /\ blocks[a].size \in Nat \ {0}
        /\ blocks[a].object \in Objects \cup {Null}
    /\ \A c \in Numbers : Start(c) \in DOMAIN blocks
    /\ \A a \in DOMAIN blocks : \E c \in Numbers :
        a >= Start(c) /\ End(blocks, a) \in In(blocks, c) \cup {Stop(c)}
    /\ lastUsed \in Numbers \cup {0}
    /\ \A o \in Objects : ref[o] \in DOMAIN blocks \cup Nat \cup {Null}
    /\ pc \in {"run", "outer", "inner"}
    /\ Len(regions) <= RelocMax

Init ==
    /\ blocks = [a \in {Start(c) : c \in Numbers} |-> Free(Stop(ClusterOf(a)) - a)]
    /\ free = [c \in Numbers |-> <<Start(c)>>]
    /\ lastUsed = 0
    /\ cache = [n \in 0 .. FastLists - 1 |-> <<>>]
    /\ ref = [o \in Objects |-> Null]
    /\ pc = "run" /\ from = 1 /\ source = Null /\ hole = Null /\ regions = <<>>

-----------------------------------------------------------------------------
(* Allocation.  A heap is a record of blocks and free lists.                   *)

Heap == [blocks |-> blocks, free |-> free]

Fitting(h, c, length) == {k \in DOMAIN h.free[c] : h.blocks[h.free[c][k]].size >= length}

\* Variant: the rest of a block that an event was cut from leaves the free list.
EventUnlinks(list, k, length, rest, event) ==
    IF rest = 0 \/ event THEN RemoveAt(list, k) ELSE [list EXCEPT ![k] = @ + length]
(* What becomes of the free list: an event is cut from the end of its block,     *)
(* an object from the start.                                                  *)
Relinked(list, k, length, rest, event) ==
    CASE rest = 0 -> RemoveAt(list, k)
      [] rest # 0 /\ event -> list
      [] OTHER -> [list EXCEPT ![k] = @ + length]

(* ExtractBlocks: first fit, from the front for an object, from the back for     *)
(* an event; the heap afterwards, and the address of the new block.             *)
ExtractBlocks(h, c, event, block) ==
    LET fits == Fitting(h, c, block.size)
        k == IF event THEN Max(fits) ELSE Min(fits)
        a == h.free[c][k]
        rest == h.blocks[a].size - block.size
        new == IF event THEN a + rest ELSE a
        left == IF event THEN a ELSE a + block.size
    IN  [at |-> new,
         blocks |-> (new :> block) @@ (IF rest = 0 THEN <<>> ELSE left :> Free(rest))
                                   @@ h.blocks,
         free |-> (c :> Relinked(h.free[c], k, block.size, rest, event)) @@ h.free]

(* The clusters in the order ExtractHeapBlocks tries them.                     *)
Tried(event, last) ==
    IF event THEN Reverse(Ascending(Numbers))
    ELSE (IF last = 0 THEN <<>> ELSE <<last>>) \o Ascending(Numbers)

(* The cluster that has room, or 0.                                           *)
Choice(h, event, length, last) ==
    LET order == Tried(event, last)
        k == SelectInSeq(order, LAMBDA c : Fitting(h, c, length) # {})
    IN  IF k = 0 THEN 0 ELSE order[k]

(* RecoverFromGC: every run of dead blocks becomes one free block.               *)
Recovered(b) ==
    LET Dead(a) == b[a].kind # "event" /\ b[a].object = Null
        Heads(c) == {a \in In(b, c) : Dead(a) /\ ~\E d \in In(b, c) : Dead(d) /\ End(b, d) = a}
        Until(c, a) == Min({d \in In(b, c) : d > a /\ ~Dead(d)} \cup {Stop(c)})
        alive == {a \in DOMAIN b : ~Dead(a)}
        heads == UNION {Heads(c) : c \in Numbers}
    IN  [blocks |-> [a \in alive \cup heads |->
                        IF a \in alive THEN b[a] ELSE Free(Until(ClusterOf(a), a) - a)],
         free |-> [c \in Numbers |-> Ascending(Heads(c))]]

(* ExecuteGarbageCollection on the heap: what is in the cache is free again.     *)
Collected == Recovered(blocks)
EmptyCache == [n \in DOMAIN cache |-> <<>>]

(* ExtractHeapBlocks, with one collection if there is no room; nothing is       *)
(* allocated if that does not help.                                           *)
Extract(event, block) ==
    LET c == Choice(Heap, event, block.size, lastUsed)
        clean == Collected
        d == Choice(clean, event, block.size, 0)
        Done(h, cluster, last) ==
            LET x == ExtractBlocks(h, cluster, event, block)
            IN  /\ blocks' = x.blocks /\ free' = x.free
                /\ ref' = IF event THEN ref ELSE [ref EXCEPT ![block.object] = x.at]
                /\ lastUsed' = IF event THEN last ELSE cluster
    IN  \/ c # 0 /\ Done(Heap, c, lastUsed) /\ cache' = cache
        \/ c = 0 /\ d # 0 /\ Done(clean, d, 0) /\ cache' = EmptyCache
        \/ /\ c = 0 /\ d = 0
           /\ blocks' = clean.blocks /\ free' = clean.free
           /\ lastUsed' = 0 /\ cache' = EmptyCache /\ ref' = ref

Running == pc = "run"

NewObject ==
    /\ Running
    /\ \E o \in Objects :
        /\ ref[o] = Null
        /\ Extract(FALSE, Block(SizeOf[o], "object", o))
    /\ UNCHANGED compaction

(* The program loses its reference.                                           *)
Drop ==
    /\ Running
    /\ \E o \in Objects :
        /\ ref[o] # Null
        /\ ref' = [ref EXCEPT ![o] = Null]
        /\ blocks' = [blocks EXCEPT ![ref[o]].object = Null]
    /\ UNCHANGED <<free, program, compaction>>

(* Pin and Unpin.                                                            *)
Pin ==
    /\ Running
    /\ \E o \in Pinnable : ref[o] # Null /\
        blocks' = [blocks EXCEPT ![ref[o]].kind = IF @ = "object" THEN "pinned" ELSE "object"]
    /\ UNCHANGED <<free, program, ref, compaction>>

Collect ==
    /\ Running
    /\ blocks' = Collected.blocks /\ free' = Collected.free
    /\ cache' = EmptyCache /\ lastUsed' = 0
    /\ UNCHANGED <<ref, compaction>>

-----------------------------------------------------------------------------
(* The event cache.                                                          *)

List(length) == IF length < FastLists THEN length ELSE 0
Cached(length) == Block(length, "cached", Null)
Event(length) == Block(length, "event", Null)

(* Append_Node.                                                              *)
AppendNode(lists, a, length) == [lists EXCEPT ![List(length)] = Append(@, a)]

ReleaseEvent ==
    /\ Running
    /\ \E a \in Where(blocks, {"event"}) :
        /\ blocks' = [blocks EXCEPT ![a] = Cached(@.size)]
        /\ cache' = AppendNode(cache, a, blocks[a].size)
    /\ UNCHANGED <<free, lastUsed, ref, compaction>>

(* Extract_Node_Slow looks for the block of the very length, or else for the     *)
(* smallest that wastes at most a quarter.                                     *)
Candidates(length) ==
    LET list == cache[0]
        Exact == {k \in DOMAIN list : blocks[list[k]].size = length}
        Larger == {k \in DOMAIN list : blocks[list[k]].size >= length
                                       /\ blocks[list[k]].size <= (length * 20) \div 16}
        Smallest == {k \in Larger : \A j \in Larger :
                        \/ blocks[list[k]].size < blocks[list[j]].size
                        \/ blocks[list[k]].size = blocks[list[j]].size /\ k <= j}
    IN  IF Exact # {} THEN {Min(Exact)} ELSE Smallest

(* The node is taken from its list; its tail, if any, is a node of its own.      *)
Reuse(n, k, length) ==
    LET a == cache[n][k]
        rest == blocks[a].size - length
        taken == [cache EXCEPT ![n] = RemoveAt(@, k)]
    IN  /\ blocks' = (a :> Event(length))
                     @@ (IF rest = 0 THEN <<>> ELSE (a + length) :> Cached(rest)) @@ blocks
        /\ cache' = IF rest = 0 THEN taken ELSE AppendNode(taken, a + length, rest)
        /\ UNCHANGED <<free, lastUsed, ref>>

(* Extract_Node.                                                            *)
NewEvent ==
    /\ Running /\ Cardinality(Where(blocks, {"event"})) < MaxEvents
    /\ \E length \in EventSizes :
        LET found == IF length < FastLists
                     THEN {1} \cap DOMAIN cache[length] ELSE Candidates(length)
        IN  \/ \E k \in found : Reuse(List(length), k, length)
            \/ found = {} /\ Extract(TRUE, Event(length))
    /\ UNCHANGED compaction

-----------------------------------------------------------------------------
(* Heap_Compact.                                                             *)

\* Variant: a pinned object is moved like any other.
PinnedMoves(b, a) == b[a].kind \in {"object", "pinned"}
Movable(b, a) == b[a].kind = "object"

(* The first free block of the clusters from c on, by their free lists.           *)
FirstHole(lists, c) ==
    LET having == {d \in Numbers : d >= c /\ lists[d] # <<>>}
    IN  IF having = {} THEN Null ELSE lists[Min(having)][1]

(* The first movable block of cluster c from a on, or the end of the cluster.   *)
Skip(c, a) == Min({d \in In(blocks, c) : d >= a /\ Movable(blocks, d)} \cup {Stop(c)})

\* Variant: the bisection takes the right bound for an element of its range.
BisectShort(a, l, r) == [right |-> (l + r) \div 2 - 1, left |-> (l + r) \div 2 + 1]
Bisect(a, l, r) == [right |-> (l + r) \div 2, left |-> (l + r) \div 2 + 1]

(* Heap_Relocate of one reference: bisection of the table, which is in the order  *)
(* in which its regions were filled in.                                        *)
Relocated(a) ==
    LET find[l \in 0 .. Len(regions) + 1, r \in -1 .. Len(regions)] ==
            LET region == regions[(l + r) \div 2 + 1]
            IN  CASE l >= r -> a
                  [] l < r /\ a < region.start -> find[l, Bisect(a, l, r).right]
                  [] l < r /\ a >= region.end -> find[Bisect(a, l, r).left, r]
                  [] OTHER -> a + region.destination - region.start
    IN  find[0, Len(regions)]

AllRelocated == [o \in Objects |-> IF ref[o] = Null THEN Null ELSE Relocated(ref[o])]

(* InsertInOrder: the heap afterwards, and where the free block begins.           *)
InsertInOrder(h, a, length) ==
    LET c == ClusterOf(a)
        before == {k \in DOMAIN h.free[c] : h.free[c][k] < a}
        at == Cardinality(before) + 1
        list == InsertAt(h.free[c], at, a)
        follows == at < Len(list) /\ list[at + 1] = a + length
        precedes == at > 1 /\ End(h.blocks, list[at - 1]) = a
        start == IF precedes THEN list[at - 1] ELSE a
        stop == IF follows THEN End(h.blocks, list[at + 1]) ELSE a + length
        gone == {k \in DOMAIN list : (k = at + 1 /\ follows) \/ (k = at /\ precedes)}
        goneAt == {list[k] : k \in gone}
    IN  [at |-> start,
         blocks |-> (start :> Free(stop - start)) @@ Without(h.blocks, goneAt),
         free |-> (c :> SelectSeq(list, LAMBDA d : d \notin goneAt)) @@ h.free]

StartCompaction ==
    /\ Running
    /\ pc' = "outer" /\ from' = 1 /\ hole' = Null /\ regions' = <<>>
    /\ UNCHANGED <<blocks, free, program, ref, source>>

(* The next cluster, from its start, with a free block to fill.                  *)
NextCluster ==
    /\ pc = "outer" /\ from \in Numbers
    /\ hole' = IF hole = Null THEN FirstHole(free, 1) ELSE hole
    /\ hole' # Null
    /\ source' = Start(from)
    /\ pc' = "inner"
    /\ UNCHANGED <<blocks, free, program, ref, from, regions>>

CompactionEnds ==
    /\ pc = "outer"
    /\ from \notin Numbers \/ (hole = Null /\ FirstHole(free, 1) = Null)
    /\ ref' = AllRelocated
    /\ pc' = "run" /\ from' = 1 /\ source' = Null /\ hole' = Null /\ regions' = <<>>
    /\ lastUsed' = 0
    /\ UNCHANGED <<blocks, free, cache>>

(* Objects only move to lower addresses; the block that comes next.               *)
Cluster == IF source < hole THEN ClusterOf(hole) ELSE from
Source == Skip(Cluster, IF source < hole THEN hole ELSE source)

SourceEnds ==
    /\ pc = "inner" /\ Source = Stop(Cluster)
    /\ pc' = "outer" /\ from' = Cluster + 1
    /\ UNCHANGED <<blocks, free, program, ref, source, hole, regions>>

(* The table is full: the references are brought up to date halfway.               *)
Relocate ==
    /\ pc = "inner" /\ Source # Stop(Cluster)
    /\ Len(regions) = RelocMax
    /\ ref' = AllRelocated /\ regions' = <<>>
    /\ from' = Cluster /\ source' = Source
    /\ UNCHANGED <<blocks, free, program, pc, hole>>

(* A run of movable blocks slides over the free block in front of it whatever      *)
(* its length; elsewhere as much of the run moves as the free block holds.         *)
Slides == Source = End(blocks, hole)
MoveEnd ==
    LET c == Cluster
        s == Source
        run == Min({d \in In(blocks, c) : d >= s /\ ~Movable(blocks, d)} \cup {Stop(c)})
        bounds == {d \in In(blocks, c) \cup {Stop(c)} : s <= d /\ d <= run}
    IN  IF Slides THEN run ELSE Max({d \in bounds : d - s <= blocks[hole].size})

(* The free block that follows in the list.                                     *)
NextInList(a) ==
    LET list == free[ClusterOf(a)]
    IN  IF a = Last(list) THEN Null
        ELSE list[CHOOSE k \in DOMAIN list : k > 1 /\ list[k - 1] = a]

(* What the iteration leaves: the free block to go on with, if need be from the    *)
(* clusters behind; without one the next cluster has its turn.                   *)
Continue(next, lists) ==
    LET chosen == IF next = Null THEN FirstHole(lists, ClusterOf(hole) + 1) ELSE next
    IN  /\ hole' = chosen
        /\ pc' = IF chosen = Null THEN "outer" ELSE "inner"
        /\ from' = IF chosen = Null THEN Cluster + 1 ELSE Cluster

Filling == pc = "inner" /\ Source # Stop(Cluster) /\ Len(regions) < RelocMax

(* The first object of the run does not fit.                                    *)
\* Variant: the same free block is tried again.
SameHole(a) == a
OtherHole(a) == NextInList(a)

TryNextHole ==
    /\ Filling /\ MoveEnd = Source
    /\ Continue(OtherHole(hole), free)
    /\ source' = Source
    /\ UNCHANGED <<blocks, free, program, ref, regions>>

(* The run moves to the start of the free block; what is left of that, and the     *)
(* space the run has left, are free blocks again, merged with their neighbours.    *)
Emptied(s, e) ==
    LET run == {d \in DOMAIN blocks : s <= d /\ d < e}
    IN  [at |-> NextInList(hole),
         blocks |-> [a \in {d + hole - s : d \in run} |-> blocks[a - hole + s]]
                    @@ Without(blocks, run \cup {hole}),
         free |-> (ClusterOf(hole) :> Remove(free[ClusterOf(hole)], hole)) @@ free]

Filled(h, length, left) == IF left = 0 THEN h ELSE InsertInOrder(h, hole + length, left)

(* The free block made last may have swallowed the one that was being filled.      *)
Vacated(h, s, length) ==
    LET v == InsertInOrder(h, s, length)
        swallowed == h.at # Null /\ v.at < h.at /\ h.at < End(v.blocks, v.at)
    IN  [v EXCEPT !.at = IF swallowed THEN @ ELSE h.at]

Move ==
    /\ Filling
    /\ \E s \in {Source}, e \in {MoveEnd} :
        /\ e # s
        /\ \E h \in {Emptied(s, e)} :
           \E f \in {Filled(h, e - s, blocks[hole].size - IF Slides THEN 0 ELSE e - s)} :
           \E v \in {IF Slides THEN f ELSE Vacated(f, s, e - s)} :
            /\ blocks' = v.blocks /\ free' = v.free
            /\ Continue(v.at, v.free)
        /\ regions' = Append(regions, [start |-> s, end |-> e, destination |-> hole])
        /\ source' = Skip(Cluster, e)
    /\ UNCHANGED <<program, ref>>

Program == NewObject \/ Drop \/ Pin \/ Collect \/ NewEvent \/ ReleaseEvent
Compaction ==
    \/ NextCluster \/ SourceEnds \/ Relocate \/ TryNextHole \/ Move \/ CompactionEnds
Next == Program \/ StartCompaction \/ Compaction

(* Heap_Compact runs to its end before anything else does.                       *)
Fairness == WF_vars(Compaction)
Spec == Init /\ [][Next]_vars /\ Fairness

-----------------------------------------------------------------------------
(* Properties.                                                              *)

(* Every free list holds the free blocks of its cluster in the order of their      *)
(* addresses, and no two free blocks are neighbours; every list of the event        *)
(* cache holds recycled blocks of its length, and each such block is in one list.   *)
(* A block is never both in use and on a list, during a compaction neither.         *)
ListsExact ==
    /\ TypeOK
    /\ \A c \in Numbers : free[c] = Ascending(In(blocks, c) \cap Where(blocks, {"free"}))
    /\ \A a, b \in Where(blocks, {"free"}) : End(blocks, a) # b
    /\ \A n \in DOMAIN cache : \A k \in DOMAIN cache[n] : List(blocks[cache[n][k]].size) = n
    /\ LET all == FlattenSeq([n \in 1 .. FastLists |-> cache[n - 1]])
       IN  IsInjective(all) /\ Range(all) = Where(blocks, {"cached"})

(* At every step of a compaction the references, once relocated by the table as    *)
(* it stands, lead to the objects they led to before; nothing is copied over an     *)
(* object that is still in use.                                                *)
RefsFollow ==
    \A o \in Objects : ref[o] # Null =>
        /\ Relocated(ref[o]) \in Holders(o)
        /\ Cardinality(Holders(o)) = 1

(* A pinned object stays where it is as long as it is pinned and in use.            *)
PinnedStays ==
    [][\A a \in Where(blocks, {"pinned"}) :
        LET o == blocks[a].object
        IN  o # Null /\ ref'[o] # Null => a \in DOMAIN blocks' /\ blocks'[a].object = o]_vars

(* Every compaction comes to its end.                                           *)
Compacts == pc # "run" ~> pc = "run"
=============================================================================
