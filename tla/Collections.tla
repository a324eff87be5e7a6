----------------------------- MODULE Collections -----------------------------
(***************************************************************************)
(* The queue, the stack and the list of the managed library, and the ring       *)
(* buffer of bytes of the helpers: an array with one or two indices into it,    *)
(* which is replaced by a larger one when it is full.  Every native call is one  *)
(* step: the engine runs no other thread meanwhile.  Arrays count from 0.        *)
(***************************************************************************)
EXTENDS Integers, Sequences, FiniteSets, Functions, SequencesExt

CONSTANTS
    Values,          \* what programs put in collections; Null may be put there as well
    Null,
    Positions,       \* the positions and lengths that programs ask for
    Blocks,          \* the blocks of bytes that programs write
    DefaultCapacity, \* c_DefaultCapacity
    MaxCapacity,     \* bound: larger arrays do not fit in the heap
    Capacity,        \* the size of the byte buffer
    ObjectArrays,    \* whether arrays of Object have m_typeOfElement DATATYPE_OBJECT
    Optimizes        \* what OptimizeSequence is called for: "ahead", "overlap", "wrapped"

CollectionsAssumption ==
    /\ Null \notin Values
    /\ Positions \subseteq Int /\ Blocks \subseteq Seq(Values)
    /\ {DefaultCapacity, Capacity} \subseteq Nat \ {0} /\ MaxCapacity >= DefaultCapacity
    /\ ObjectArrays \in BOOLEAN /\ Optimizes \subseteq {"ahead", "overlap", "wrapped"}

ASSUME CollectionsAssumption

VARIABLES
    kind,   \* which collection it is
    items,  \* m_array, m_items, _buffer
    size,   \* m_size, _size
    head,   \* m_head, _read_index
    tail,   \* m_tail, _write_index
    call    \* the last call: its name and argument, and the answer

array == <<items, size, head, tail>>
vars == <<kind, array, call>>

Length == Cardinality(DOMAIN items)
Nothing(n) == [i \in 0 .. n - 1 |-> Null]

TypeOK ==
    /\ kind \in {"queue", "stack", "list", "ring"}
    /\ items \in [0 .. Length - 1 -> Values \cup {Null}]
    /\ size \in 0 .. Length /\ head \in 0 .. Length - 1 /\ tail \in 0 .. Length - 1

Ok == "ok"
Failed == "failed"
NoCall == [op |-> "new", arg |-> 0, answer |-> Ok]
Answers(op, arg, answer) == UNCHANGED kind /\ call' = [op |-> op, arg |-> arg, answer |-> answer]
Fails(op, arg) == Answers(op, arg, Failed) /\ UNCHANGED array

Init ==
    /\ kind \in {"queue", "stack", "list", "ring"}
    /\ items = Nothing(IF kind = "ring" THEN Capacity ELSE DefaultCapacity)
    /\ size = 0 /\ head = 0 /\ tail = 0 /\ call = NoCall

-----------------------------------------------------------------------------
(* The queue.                                                                *)

\* Variant: one piece, whether or not the contents go around the end.
CopiedInOne(target) ==
    [i \in DOMAIN target |-> IF i < size /\ head + i < Length THEN items[head + i] ELSE target[i]]
(* CopyTo at index 0: in two pieces if the contents go around the end.           *)
Copied(target) ==
    LET first == Length - head
    IN  [i \in DOMAIN target |->
            CASE size > 0 /\ head < tail /\ i < size -> items[head + i]
              [] size > 0 /\ head >= tail /\ i < first -> items[head + i]
              [] size > 0 /\ head >= tail /\ i \in first .. first + tail - 1 -> items[i - first]
              [] OTHER -> target[i]]

(* ObjArrayMemcpy copies from the target to the queue.                          *)
CopiedBack(target) ==
    [i \in DOMAIN items |->
        CASE size > 0 /\ head < tail /\ i \in head .. tail - 1 -> target[i - head]
          [] size > 0 /\ head >= tail /\ i >= head -> target[i - head]
          [] size > 0 /\ head >= tail /\ i < tail -> target[i + Length - head]
          [] OTHER -> items[i]]

(* The larger array of Enqueue.                                               *)
Moved(n) == IF ObjectArrays THEN Nothing(n) ELSE Copied(Nothing(n))

Enqueue ==
    /\ kind = "queue"
    /\ \E v \in Values \cup {Null} :
        LET full == size = Length
            n == IF full THEN 2 * Length ELSE Length
            at == IF full THEN size ELSE tail
            new == IF full THEN Moved(n) ELSE items
        IN  IF n > MaxCapacity THEN Fails("Enqueue", v)
            ELSE /\ items' = [new EXCEPT ![at] = v]
                 /\ tail' = (at + 1) % n
                 /\ head' = IF full THEN 0 ELSE head
                 /\ size' = size + 1
                 /\ Answers("Enqueue", v, Ok)

Dequeue ==
    /\ kind = "queue"
    /\ IF size = 0 THEN Fails("Dequeue", 0)
       ELSE /\ items' = [items EXCEPT ![head] = Null]
            /\ head' = (head + 1) % Length
            /\ size' = size - 1
            /\ Answers("Dequeue", 0, items[head])
            /\ UNCHANGED tail

PeekQueue ==
    /\ kind = "queue"
    /\ Answers("Peek", 0, IF size = 0 THEN Failed ELSE items[head])
    /\ UNCHANGED array

(* Clear of a queue; ClearElements for each piece.                             *)
ClearQueue ==
    /\ kind = "queue"
    /\ items' = [i \in DOMAIN items |->
                    IF size > 0 /\ (IF head < tail THEN i \in head .. head + size - 1
                                    ELSE i >= head \/ i < tail) THEN Null ELSE items[i]]
    /\ size' = 0 /\ head' = 0 /\ tail' = 0
    /\ Answers("Clear", 0, Ok)

(* CopyTo, into an array that is just large enough.                             *)
CopyTo ==
    /\ kind = "queue"
    /\ LET target == Nothing(size)
           copy == IF ObjectArrays THEN target ELSE Copied(target)
       IN  /\ items' = IF ObjectArrays THEN CopiedBack(target) ELSE items
           /\ Answers("CopyTo", 0, [i \in 1 .. size |-> copy[i - 1]])
    /\ UNCHANGED <<size, head, tail>>

-----------------------------------------------------------------------------
(* The stack, which lies at the end of its array.                               *)

(* The larger array of Push: the contents at its end.                           *)
Grown(n) == [i \in 0 .. n - 1 |-> IF i >= size THEN items[i - size] ELSE Null]

Push ==
    /\ kind = "stack"
    /\ \E v \in Values \cup {Null} :
        LET n == IF size = Length THEN 2 * Length ELSE Length
            new == IF size = Length THEN Grown(n) ELSE items
        IN  IF n > MaxCapacity THEN Fails("Push", v)
            ELSE /\ items' = [new EXCEPT ![n - (size + 1)] = v]
                 /\ size' = size + 1
                 /\ Answers("Push", v, Ok)
                 /\ UNCHANGED <<head, tail>>

Pop ==
    /\ kind = "stack"
    /\ IF size = 0 THEN Fails("Pop", 0)
       ELSE /\ items' = [items EXCEPT ![Length - size] = Null]
            /\ size' = size - 1
            /\ Answers("Pop", 0, items[Length - size])
            /\ UNCHANGED <<head, tail>>

PeekStack ==
    /\ kind = "stack"
    /\ Answers("Peek", 0, IF size = 0 THEN Failed ELSE items[Length - size])
    /\ UNCHANGED array

ClearStack ==
    /\ kind = "stack"
    /\ items' = [i \in DOMAIN items |-> IF i >= Length - size THEN Null ELSE items[i]]
    /\ size' = 0
    /\ Answers("Clear", 0, Ok)
    /\ UNCHANGED <<head, tail>>

-----------------------------------------------------------------------------
(* The list.                                                                 *)

(* SetCapacity: the length of the new array, which is never below the default.   *)
NewCapacity(n) == IF n < DefaultCapacity THEN DefaultCapacity ELSE n
Resized(n) == [i \in 0 .. n - 1 |-> IF i < size THEN items[i] ELSE Null]

(* EnsureCapacity(size + 1): half as long again, and at least one longer.         *)
Larger ==
    LET n == (Length * 3) \div 2
    IN  NewCapacity(IF n < size + 1 THEN size + 1 ELSE n)

(* The array in which there is room for another element.                         *)
Room == IF size = Length THEN Resized(Larger) ELSE items
HasRoom == size < Length \/ Larger <= MaxCapacity

Add ==
    /\ kind = "list"
    /\ \E v \in Values \cup {Null} :
        IF ~HasRoom THEN Fails("Add", v)
        ELSE /\ items' = [Room EXCEPT ![size] = v]
             /\ size' = size + 1
             /\ Answers("Add", v, Ok)
             /\ UNCHANGED <<head, tail>>

(* Insert: everything behind index moves up one slot.                            *)
Insert ==
    /\ kind = "list"
    /\ \E k \in Positions, v \in Values \cup {Null} :
        IF k < 0 \/ k > size \/ ~HasRoom THEN Fails("Insert", k)
        ELSE /\ items' = [i \in DOMAIN Room |->
                            CASE i = k -> v
                              [] i > k /\ i <= size -> Room[i - 1]
                              [] OTHER -> Room[i]]
             /\ size' = size + 1
             /\ Answers("Insert", k, Ok)
             /\ UNCHANGED <<head, tail>>

(* RemoveAt: everything behind index moves down one slot.                        *)
RemoveItem ==
    /\ kind = "list"
    /\ \E k \in Positions :
        IF k < 0 \/ k >= size THEN Fails("RemoveAt", k)
        ELSE /\ items' = [i \in DOMAIN items |->
                            CASE i = size - 1 -> Null
                              [] i >= k /\ i < size - 1 -> items[i + 1]
                              [] OTHER -> items[i]]
             /\ size' = size - 1
             /\ Answers("RemoveAt", k, Ok)
             /\ UNCHANGED <<head, tail>>

SetItem ==
    /\ kind = "list"
    /\ \E k \in Positions, v \in Values \cup {Null} :
        IF k < 0 \/ k >= size THEN Fails("SetItem", k)
        ELSE /\ items' = [items EXCEPT ![k] = v]
             /\ Answers("SetItem", k, Ok)
             /\ UNCHANGED <<size, head, tail>>

GetItem ==
    /\ kind = "list"
    /\ \E k \in Positions :
        Answers("GetItem", k, IF k < 0 \/ k >= size THEN Failed ELSE items[k])
    /\ UNCHANGED array

ClearList ==
    /\ kind = "list"
    /\ items' = [i \in DOMAIN items |-> IF i < size THEN Null ELSE items[i]]
    /\ size' = 0
    /\ Answers("Clear", 0, Ok)
    /\ UNCHANGED <<head, tail>>

SetCapacity ==
    /\ kind = "list"
    /\ \E n \in Positions \cap Nat :
        IF n # Length /\ (n < size \/ NewCapacity(n) > MaxCapacity) THEN Fails("SetCapacity", n)
        ELSE /\ items' = IF n = Length THEN items ELSE Resized(NewCapacity(n))
             /\ Answers("SetCapacity", n, Ok)
             /\ UNCHANGED <<size, head, tail>>

-----------------------------------------------------------------------------
(* The ring buffer.  What is popped stays in its slots.                         *)

Smaller(n, m) == IF n <= m THEN n ELSE m
Wrapped(i) == IF i = Length THEN 0 ELSE i

PushN ==
    /\ kind = "ring"
    /\ \E data \in Blocks :
        LET n == Smaller(Len(data), Length - size)
            first == Length - tail
        IN  /\ IF n <= first
               THEN /\ items' = [i \in DOMAIN items |->
                                    IF i \in tail .. tail + n - 1 THEN data[i - tail + 1] ELSE items[i]]
                    /\ tail' = Wrapped(tail + n)
               ELSE /\ items' = [i \in DOMAIN items |->
                                    CASE i >= tail -> data[i - tail + 1]
                                      [] i < n - first -> data[first + i + 1]
                                      [] OTHER -> items[i]]
                    /\ tail' = n - first
            /\ size' = size + n
            /\ Answers("PushN", data, n)
    /\ UNCHANGED head

(* PopN; Pop does the same and returns no bytes.                                *)
PopN ==
    /\ kind = "ring"
    /\ \E length \in Positions \cap Nat :
        LET n == Smaller(length, size)
            first == Length - head
            read == IF n <= first THEN Wrapped(head + n) ELSE n - first
            empty == n > 0 /\ size = n /\ tail = read
        IN  /\ head' = IF empty THEN 0 ELSE read
            /\ tail' = IF empty THEN 0 ELSE tail
            /\ size' = size - n
            /\ Answers("PopN", length, [i \in 1 .. n |-> IF i <= first THEN items[head + i - 1]
                                                        ELSE items[i - first - 1]])
    /\ UNCHANGED items

(* What memcpy of n bytes from src to 0 may leave of b: the order in which it     *)
(* copies is its own, and shows where the two overlap.                           *)
MovedDown(b, src, n) ==
    LET upwards == [i \in DOMAIN b |-> IF i < n THEN b[i + src] ELSE b[i]]
        \* from the last byte to the first: what was overwritten is read again
        source(i) == CHOOSE j \in DOMAIN b : j >= n /\ j <= n + src - 1 /\ (j - i) % src = 0
        downwards == [i \in DOMAIN b |-> IF i < n THEN b[source(i)] ELSE b[i]]
    IN  {upwards, downwards}

OptimizeSequence ==
    /\ kind = "ring"
    /\ IF size = 0 \/ head = 0 THEN UNCHANGED array
       ELSE /\ \/ /\ head < tail
                  /\ (IF size <= head THEN "ahead" ELSE "overlap") \in Optimizes
                  /\ items' \in MovedDown(items, head, size)
               \/ /\ head >= tail /\ "wrapped" \in Optimizes
                  /\ tail > 0
                  /\ LET first == Length - head
                         rest == tail - 1
                     IN  \E moved \in MovedDown(items, head, first) :
                            items' = [i \in DOMAIN items |->
                                        IF i \in first .. first + rest - 1
                                        THEN items[i - first] ELSE moved[i]]
            /\ head' = 0 /\ tail' = size /\ UNCHANGED size
    /\ Answers("OptimizeSequence", 0, Ok)

-----------------------------------------------------------------------------
Next ==
    \/ Enqueue \/ Dequeue \/ PeekQueue \/ ClearQueue \/ CopyTo
    \/ Push \/ Pop \/ PeekStack \/ ClearStack
    \/ Add \/ Insert \/ RemoveItem \/ SetItem \/ GetItem \/ ClearList \/ SetCapacity
    \/ PushN \/ PopN \/ OptimizeSequence

Spec == Init /\ [][Next]_vars

-----------------------------------------------------------------------------
Contents ==
    [i \in 1 .. size |->
        CASE kind = "list" -> items[i - 1]
          [] kind = "stack" -> items[Length - size + i - 1]
          [] OTHER -> items[(head + i - 1) % Length]]

(* The garbage collector follows every slot of a managed array.                  *)
Held == (IF kind = "ring" THEN ToSet(Contents) ELSE Range(items)) \ {Null}

Promise == INSTANCE Container WITH contents <- Contents, held <- Held

(* A queue, a stack, a list and a ring buffer behave as sequences: whatever        *)
(* calls came before, around the end of the array and through its growth, each    *)
(* call returns and changes what it should, a failed one changes nothing, and no   *)
(* object is kept alive by a slot that it has left                                *)
(* (CLR_RT_HeapBlock_Queue.cpp, _Stack.cpp, _ArrayList.cpp, nanoRingBuffer.c).     *)
IsSequence == Promise!Spec
=============================================================================
