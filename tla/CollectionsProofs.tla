-------------------------- MODULE CollectionsProofs --------------------------
(***************************************************************************)
(* The indices of Collections proved to stay within the array, and to agree    *)
(* with its size, for every capacity, growth and argument of a call; and then   *)
(* the collections proved to be the sequences that Container promises.          *)
(***************************************************************************)
EXTENDS Collections, FiniteSetTheorems, TLAPS

(* The array has slots 0 .. Length - 1, and both indices are among them.          *)
InArray ==
    /\ Length \in Nat \ {0} /\ DOMAIN items = 0 .. Length - 1
    /\ size \in 0 .. Length /\ head \in 0 .. Length - 1 /\ tail \in 0 .. Length - 1

Circular == kind \in {"queue", "ring"}

(* From head on, size slots lead to tail, around the end if need be; a stack and a  *)
(* list have no such indices.                                                  *)
TailFollows ==
    IF Circular THEN head + size \in {tail, tail + Length} ELSE head = 0 /\ tail = 0

IndexInv == kind \in {"queue", "stack", "list", "ring"} /\ InArray /\ TailFollows

(* No call uses a slot outside the array, and the two indices of a queue and of a   *)
(* ring buffer enclose exactly size slots.  OptimizeSequence on contents around the *)
(* end is left out: it puts the write index of a full buffer behind the end.        *)
IndicesAgree == "wrapped" \notin Optimizes => IndexInv

-----------------------------------------------------------------------------
(* Lengths and remainders.                                                   *)

LEMMA SlotCount ==
    ASSUME NEW n \in Nat \ {0}, NEW f, DOMAIN f = 0 .. n - 1
    PROVE  Cardinality(DOMAIN f) = n
  BY FS_Interval

LEMMA Successor ==
    ASSUME NEW n \in Nat \ {0}, NEW i \in 0 .. n - 1
    PROVE  (i + 1) % n = IF i + 1 = n THEN 0 ELSE i + 1
  BY SMTT(60)

(* A call leaves an array of n slots with indices that agree.                    *)
LEMMA Establish ==
    ASSUME NEW n \in Nat \ {0}, DOMAIN items' = 0 .. n - 1,
           size' \in 0 .. n, head' \in 0 .. n - 1, tail' \in 0 .. n - 1,
           kind' = kind, kind \in {"queue", "stack", "list", "ring"},
           IF Circular THEN head' + size' \in {tail', tail' + n} ELSE head' = 0 /\ tail' = 0
    PROVE  IndexInv'
<1>1. Length' = n
  BY SlotCount DEF Length
<1> QED
  BY <1>1 DEF IndexInv, InArray, TailFollows, Circular

(* A call that leaves the array as long as it was.                               *)
LEMMA Keep ==
    ASSUME IndexInv, UNCHANGED kind, DOMAIN items' = DOMAIN items,
           size' \in 0 .. Length, head' \in 0 .. Length - 1, tail' \in 0 .. Length - 1,
           IF Circular THEN head' + size' \in {tail', tail' + Length} ELSE head' = 0 /\ tail' = 0
    PROVE  IndexInv'
  BY Establish DEF IndexInv, InArray

LEMMA Nowhere ==
    ASSUME IndexInv, UNCHANGED <<kind, array>>
    PROVE  IndexInv'
  BY Keep DEF IndexInv, InArray, TailFollows, array

-----------------------------------------------------------------------------
(* The calls of each collection.                                               *)

LEMMA QueueKeeps ==
    ASSUME IndexInv, Enqueue \/ Dequeue \/ PeekQueue \/ ClearQueue \/ CopyTo
    PROVE  IndexInv'
<1> USE DEF IndexInv, InArray, TailFollows, Circular
<1>1. CASE Enqueue
  <2> Circular
    BY <1>1 DEF Enqueue
  <2>1. CASE size = Length
    <3>1. \/ UNCHANGED <<kind, array>>
          \/ \E v : /\ items' = [Moved(2 * Length) EXCEPT ![size] = v]
                    /\ tail' = (size + 1) % (2 * Length) /\ head' = 0 /\ size' = size + 1
                    /\ UNCHANGED kind
      BY <1>1, <2>1 DEF Enqueue, Fails, Answers
    <3>2. DOMAIN Moved(2 * Length) = 0 .. 2 * Length - 1
      BY DEF Moved, Copied, Nothing
    <3>3. (size + 1) % (2 * Length) = IF size + 1 = 2 * Length THEN 0 ELSE size + 1
      <4>1. 2 * Length \in Nat \ {0} /\ size \in 0 .. 2 * Length - 1
        BY <2>1
      <4> QED
        BY <4>1, Successor
    <3>4. CASE \E v : /\ items' = [Moved(2 * Length) EXCEPT ![size] = v]
                      /\ tail' = (size + 1) % (2 * Length) /\ head' = 0 /\ size' = size + 1
                      /\ UNCHANGED kind
      <4>1. DOMAIN items' = 0 .. 2 * Length - 1
        BY <3>2, <3>4
      <4>2. /\ 2 * Length \in Nat \ {0}
            /\ size' \in 0 .. 2 * Length /\ head' \in 0 .. 2 * Length - 1
            /\ tail' \in 0 .. 2 * Length - 1
            /\ head' + size' \in {tail', tail' + 2 * Length}
        BY <2>1, <3>3, <3>4
      <4> QED
        BY <3>4, <4>1, <4>2, Establish
    <3> QED
      BY <3>1, <3>4, Nowhere
  <2>2. CASE size # Length
    <3>1. \/ UNCHANGED <<kind, array>>
          \/ \E v : /\ items' = [items EXCEPT ![tail] = v]
                    /\ tail' = (tail + 1) % Length /\ head' = head /\ size' = size + 1
                    /\ UNCHANGED kind
      BY <1>1, <2>2 DEF Enqueue, Fails, Answers
    <3>2. (tail + 1) % Length = IF tail + 1 = Length THEN 0 ELSE tail + 1
      BY Successor
    <3>3. CASE \E v : /\ items' = [items EXCEPT ![tail] = v]
                      /\ tail' = (tail + 1) % Length /\ head' = head /\ size' = size + 1
                      /\ UNCHANGED kind
      <4>1. DOMAIN items' = DOMAIN items /\ UNCHANGED kind
        BY <3>3
      <4>2. /\ size' \in 0 .. Length /\ head' \in 0 .. Length - 1 /\ tail' \in 0 .. Length - 1
            /\ head' + size' \in {tail', tail' + Length}
        BY <2>2, <3>2, <3>3
      <4> QED
        BY <4>1, <4>2, Keep
    <3> QED
      BY <3>1, <3>3, Nowhere
  <2> QED
    BY <2>1, <2>2
<1>2. CASE Dequeue
  <2>1. CASE size = 0
    BY <1>2, <2>1, Nowhere DEF Dequeue, Fails, Answers
  <2>2. CASE size # 0
    <3>1. /\ items' = [items EXCEPT ![head] = Null] /\ head' = (head + 1) % Length
          /\ size' = size - 1 /\ UNCHANGED <<kind, tail>>
      BY <1>2, <2>2 DEF Dequeue, Answers
    <3>2. head' = IF head + 1 = Length THEN 0 ELSE head + 1
      BY <3>1, Successor
    <3> QED
      BY <1>2, <2>2, <3>1, <3>2, Keep DEF Dequeue
  <2> QED
    BY <2>1, <2>2
<1>3. CASE PeekQueue
  BY <1>3, Nowhere DEF PeekQueue, Answers
<1>4. CASE ClearQueue
  BY <1>4, Keep DEF ClearQueue, Answers
<1>5. CASE CopyTo
  BY <1>5, Keep DEF CopyTo, CopiedBack, Answers
<1> QED
  BY <1>1, <1>2, <1>3, <1>4, <1>5

LEMMA StackKeeps ==
    ASSUME IndexInv, Push \/ Pop \/ PeekStack \/ ClearStack
    PROVE  IndexInv'
<1> USE DEF IndexInv, InArray, TailFollows, Circular
<1>1. CASE Push
  <2>1. \/ UNCHANGED <<kind, array>>
        \/ \E v : /\ items' = [(IF size = Length THEN Grown(2 * Length) ELSE items) EXCEPT
                                  ![(IF size = Length THEN 2 * Length ELSE Length) - (size + 1)] = v]
                  /\ size' = size + 1 /\ UNCHANGED <<kind, head, tail>>
    BY <1>1 DEF Push, Fails, Answers
  <2>2. DOMAIN Grown(2 * Length) = 0 .. 2 * Length - 1
    BY DEF Grown
  <2>3. kind = "stack"
    BY <1>1 DEF Push
  <2>4. CASE size = Length
    <3>1. \/ UNCHANGED <<kind, array>>
          \/ DOMAIN items' = 0 .. 2 * Length - 1 /\ size' = size + 1 /\ UNCHANGED <<kind, head, tail>>
      BY <2>1, <2>2, <2>4
    <3>2. CASE DOMAIN items' = 0 .. 2 * Length - 1 /\ size' = size + 1 /\ UNCHANGED <<kind, head, tail>>
      <4>1. 2 * Length \in Nat \ {0} /\ size' \in 0 .. 2 * Length
        BY <2>4, <3>2
      <4> QED
        BY <2>3, <3>2, <4>1, Establish
    <3> QED
      BY <3>1, <3>2, Nowhere
  <2>5. CASE size # Length
    BY <2>1, <2>3, <2>5, Keep, Nowhere
  <2> QED
    BY <2>4, <2>5
<1>2. CASE Pop
  BY <1>2, Keep, Nowhere DEF Pop, Fails, Answers
<1>3. CASE PeekStack
  BY <1>3, Nowhere DEF PeekStack, Answers
<1>4. CASE ClearStack
  BY <1>4, Keep DEF ClearStack, Answers
<1> QED
  BY <1>1, <1>2, <1>3, <1>4

(* The arrays that a list grows into.                                            *)
LEMMA LargerFits ==
    ASSUME IndexInv
    PROVE  Larger \in Nat \ {0} /\ Larger >= size + 1
<1>1. (Length * 3) \div 2 \in Nat /\ size \in Nat
  BY DEF IndexInv, InArray
<1>2. DefaultCapacity \in Nat \ {0}
  BY CollectionsAssumption DEF CollectionsAssumption
<1> QED
  BY <1>1, <1>2 DEF Larger, NewCapacity

LEMMA RoomFits ==
    ASSUME IndexInv
    PROVE  \E n \in Nat \ {0} : DOMAIN Room = 0 .. n - 1 /\ n >= size + 1
<1>1. CASE size = Length
  BY <1>1, LargerFits DEF Room, Resized, IndexInv, InArray
<1>2. CASE size # Length
  BY <1>2 DEF Room, IndexInv, InArray
<1> QED
  BY <1>1, <1>2

(* A call on a list moves neither head nor tail, which are 0.                     *)
LEMMA ListEstablish ==
    ASSUME IndexInv, kind = "list", UNCHANGED <<kind, head, tail>>,
           NEW n \in Nat \ {0}, DOMAIN items' = 0 .. n - 1, size' \in 0 .. n
    PROVE  IndexInv'
  BY Establish DEF IndexInv, InArray, TailFollows, Circular

LEMMA ListKeeps ==
    ASSUME IndexInv,
           Add \/ Insert \/ RemoveItem \/ SetItem \/ GetItem \/ ClearList \/ SetCapacity
    PROVE  IndexInv'
<1>1. PICK n \in Nat \ {0} : DOMAIN Room = 0 .. n - 1 /\ n >= size + 1
  BY RoomFits
<1>2. CASE Add
  <2>1. \/ UNCHANGED <<kind, array>>
        \/ \E v : /\ items' = [Room EXCEPT ![size] = v]
                  /\ size' = size + 1 /\ UNCHANGED <<kind, head, tail>>
    BY <1>2 DEF Add, Fails, Answers
  <2>2. CASE \E v : /\ items' = [Room EXCEPT ![size] = v]
                    /\ size' = size + 1 /\ UNCHANGED <<kind, head, tail>>
    <3>1. DOMAIN items' = 0 .. n - 1 /\ size' \in 0 .. n
      BY <1>1, <2>2 DEF IndexInv, InArray
    <3> QED
      BY <1>1, <1>2, <2>2, <3>1, ListEstablish DEF Add
  <2> QED
    BY <2>1, <2>2, Nowhere
<1>3. CASE Insert
  <2>1. \/ UNCHANGED <<kind, array>>
        \/ /\ DOMAIN items' = DOMAIN Room
           /\ size' = size + 1 /\ UNCHANGED <<kind, head, tail>>
    BY <1>3 DEF Insert, Fails, Answers
  <2>2. CASE /\ DOMAIN items' = DOMAIN Room
             /\ size' = size + 1 /\ UNCHANGED <<kind, head, tail>>
    <3>1. DOMAIN items' = 0 .. n - 1 /\ size' \in 0 .. n
      BY <1>1, <2>2 DEF IndexInv, InArray
    <3> QED
      BY <1>1, <1>3, <2>2, <3>1, ListEstablish DEF Insert
  <2> QED
    BY <2>1, <2>2, Nowhere
<1>4. CASE RemoveItem
  <2>1. kind = "list" /\ UNCHANGED kind
    BY <1>4 DEF RemoveItem, Fails, Answers
  <2>2. \/ UNCHANGED array
        \/ /\ \E k \in Positions : ~(k < 0 \/ k >= size)
           /\ DOMAIN items' = DOMAIN items /\ size' = size - 1 /\ UNCHANGED <<head, tail>>
    BY <1>4 DEF RemoveItem, Fails
  <2>3. (\E k \in Positions : ~(k < 0 \/ k >= size)) => size > 0
    BY CollectionsAssumption DEF CollectionsAssumption, IndexInv, InArray
  <2> QED
    BY <2>1, <2>2, <2>3, Keep, Nowhere DEF IndexInv, InArray, TailFollows, Circular
<1>5. CASE SetItem
  <2>1. UNCHANGED kind /\ \/ UNCHANGED array
                          \/ DOMAIN items' = DOMAIN items /\ UNCHANGED <<size, head, tail>>
    BY <1>5 DEF SetItem, Fails, Answers
  <2> QED
    BY <2>1, Keep, Nowhere DEF IndexInv, InArray, TailFollows
<1>6. CASE GetItem
  BY <1>6, Nowhere DEF GetItem, Answers
<1>7. CASE ClearList
  BY <1>7, Keep DEF ClearList, Answers, IndexInv, InArray, TailFollows, Circular
<1>8. CASE SetCapacity
  <2>1. \/ UNCHANGED <<kind, array>>
        \/ \E m \in Positions \cap Nat : /\ m >= size
                                       /\ items' = Resized(NewCapacity(m))
                                       /\ UNCHANGED <<kind, size, head, tail>>
    BY <1>8, CollectionsAssumption
       DEF SetCapacity, Fails, Answers, array, CollectionsAssumption, IndexInv, InArray
  <2>2. ASSUME NEW m \in Positions \cap Nat, m >= size, items' = Resized(NewCapacity(m)),
               UNCHANGED <<kind, size, head, tail>>
        PROVE  IndexInv'
    <3>1. DefaultCapacity \in Nat \ {0}
      BY CollectionsAssumption DEF CollectionsAssumption
    <3>2. NewCapacity(m) \in Nat \ {0} /\ NewCapacity(m) >= size
      BY <2>2, <3>1 DEF NewCapacity, IndexInv, InArray
    <3>3. DOMAIN items' = 0 .. NewCapacity(m) - 1 /\ size' \in 0 .. NewCapacity(m)
      BY <2>2, <3>2 DEF Resized, IndexInv, InArray
    <3> QED
      BY <1>8, <2>2, <3>2, <3>3, ListEstablish DEF SetCapacity
  <2> QED
    BY <2>1, <2>2, Nowhere
<1> QED
  BY <1>2, <1>3, <1>4, <1>5, <1>6, <1>7, <1>8

-----------------------------------------------------------------------------
(* The ring buffer.                                                          *)

LEMMA RingKeeps ==
    ASSUME IndexInv, "wrapped" \notin Optimizes, PushN \/ PopN \/ OptimizeSequence
    PROVE  IndexInv'
<1> USE DEF IndexInv, InArray, TailFollows, Circular
<1>1. CASE PushN
  <2>1. kind = "ring" /\ UNCHANGED <<kind, head>>
    BY <1>1 DEF PushN, Answers
  <2>2. PICK data \in Blocks :
            LET n == Smaller(Len(data), Length - size)
                first == Length - tail
            IN  /\ DOMAIN items' = DOMAIN items /\ size' = size + n
                /\ tail' = IF n <= first THEN Wrapped(tail + n) ELSE n - first
    BY <1>1 DEF PushN
  <2>3. Len(data) \in Nat
    BY CollectionsAssumption DEF CollectionsAssumption
  <2>4. PICK n \in 0 .. Length - size :
            /\ DOMAIN items' = DOMAIN items /\ size' = size + n
            /\ tail' = IF n <= Length - tail THEN Wrapped(tail + n) ELSE n - (Length - tail)
    <3>1. Smaller(Len(data), Length - size) \in 0 .. Length - size
      BY <2>3 DEF Smaller
    <3> QED
      BY <2>2, <3>1
  <2>5. /\ size' \in 0 .. Length /\ tail' \in 0 .. Length - 1
        /\ head + size' \in {tail', tail' + Length}
    <3>1. CASE n <= Length - tail
      <4>1. tail' = IF tail + n = Length THEN 0 ELSE tail + n
        BY <2>4, <3>1 DEF Wrapped
      <4> QED
        BY <2>1, <2>4, <3>1, <4>1
    <3>2. CASE n > Length - tail
      <4>1. tail' = n - (Length - tail)
        BY <2>4, <3>2
      <4> QED
        BY <2>1, <2>4, <3>2, <4>1
    <3> QED
      BY <3>1, <3>2
  <2> QED
    BY <2>1, <2>4, <2>5, Keep
<1>2. CASE PopN
  <2>1. kind = "ring" /\ UNCHANGED <<kind, items>>
    BY <1>2 DEF PopN, Answers
  <2>2. PICK length \in Positions \cap Nat :
            LET n == Smaller(length, size)
                first == Length - head
                read == IF n <= first THEN Wrapped(head + n) ELSE n - first
                empty == n > 0 /\ size = n /\ tail = read
            IN  /\ head' = (IF empty THEN 0 ELSE read) /\ tail' = (IF empty THEN 0 ELSE tail)
                /\ size' = size - n
    BY <1>2 DEF PopN
  <2>3. PICK n \in 0 .. size :
            LET read == IF n <= Length - head THEN Wrapped(head + n) ELSE n - (Length - head)
                empty == n > 0 /\ size = n /\ tail = read
            IN  /\ head' = (IF empty THEN 0 ELSE read) /\ tail' = (IF empty THEN 0 ELSE tail)
                /\ size' = size - n
    <3>1. Smaller(length, size) \in 0 .. size
      BY DEF Smaller
    <3> QED
      BY <2>2, <3>1
  <2> DEFINE read == IF n <= Length - head THEN Wrapped(head + n) ELSE n - (Length - head)
  <2>4. /\ read \in 0 .. Length - 1
        /\ read + (size - n) \in {tail, tail + Length}
    <3>1. CASE n <= Length - head
      <4>1. read = IF head + n = Length THEN 0 ELSE head + n
        BY <3>1 DEF Wrapped
      <4> QED
        BY <2>1, <3>1, <4>1
    <3>2. CASE n > Length - head
      <4>1. read = n - (Length - head)
        BY <3>2
      <4> QED
        BY <2>1, <3>2, <4>1
    <3> QED
      BY <3>1, <3>2
  <2>5. size' \in 0 .. Length /\ UNCHANGED kind /\ DOMAIN items' = DOMAIN items
    BY <2>1, <2>3
  <2>6. CASE n > 0 /\ size = n /\ tail = read
    BY <2>3, <2>5, <2>6, Keep
  <2>7. CASE ~(n > 0 /\ size = n /\ tail = read)
    <3>1. head' = read /\ tail' = tail /\ size' = size - n
      BY <2>3, <2>7
    <3> QED
      BY <2>1, <2>4, <2>5, <3>1, Keep
  <2> QED
    BY <2>6, <2>7
<1>3. CASE OptimizeSequence
  <2>1. kind = "ring" /\ UNCHANGED kind
    BY <1>3 DEF OptimizeSequence, Answers
  <2>2. \/ UNCHANGED array
        \/ /\ head < tail /\ items' \in MovedDown(items, head, size)
           /\ head' = 0 /\ tail' = size /\ UNCHANGED size
    BY <1>3 DEF OptimizeSequence
  <2>3. items' \in MovedDown(items, head, size) => DOMAIN items' = DOMAIN items
    BY DEF MovedDown
  <2> QED
    BY <2>1, <2>2, <2>3, Keep, Nowhere
<1> QED
  BY <1>1, <1>2, <1>3

-----------------------------------------------------------------------------
(* Every index stays within the array, for every capacity and every sequence of      *)
(* calls, and the slots between head and tail are as many as size says              *)
(* (CLR_RT_HeapBlock_Queue.cpp, _Stack.cpp, _ArrayList.cpp, nanoRingBuffer.c).        *)
THEOREM IndicesCorrect == Spec => []IndicesAgree
<1>1. Init => IndicesAgree
  <2> SUFFICES ASSUME Init PROVE IndexInv
    BY DEF IndicesAgree
  <2>1. PICK n \in Nat \ {0} : items = Nothing(n)
    BY CollectionsAssumption DEF Init, CollectionsAssumption
  <2>2. DOMAIN items = 0 .. n - 1
    BY <2>1 DEF Nothing
  <2>3. Length = n
    BY <2>2, SlotCount DEF Length
  <2> QED
    BY <2>2, <2>3 DEF Init, IndexInv, InArray, TailFollows
<1>2. IndicesAgree /\ [Next]_vars => IndicesAgree'
  <2> SUFFICES ASSUME IndexInv, "wrapped" \notin Optimizes, [Next]_vars PROVE IndexInv'
    BY DEF IndicesAgree
  <2>1. CASE Next
    BY <2>1, QueueKeeps, StackKeeps, ListKeeps, RingKeeps DEF Next
  <2>2. CASE UNCHANGED vars
    BY <2>2, Nowhere DEF vars
  <2> QED
    BY <2>1, <2>2
<1> QED
  BY <1>1, <1>2, PTL DEF Spec

-----------------------------------------------------------------------------
(* The array as a sequence.                                                   *)

(* What a slot may hold.                                                      *)
Elements == Values \cup {Null}

(* The slot of the element at position j, from 1.                                *)
Slot(k, n, h, s, j) ==
    CASE k = "list" -> j - 1
      [] k = "stack" -> n - s + j - 1
      [] OTHER -> IF h + j - 1 < n THEN h + j - 1 ELSE h + j - 1 - n

(* Whether slot i holds an element.                                             *)
Used(k, n, h, s, i) ==
    CASE k = "list" -> i < s
      [] k = "stack" -> i >= n - s
      [] OTHER -> IF h + s <= n THEN i >= h /\ i < h + s ELSE i >= h \/ i < h + s - n

(* The indices agree, and every slot that holds no element is Null: a queue, a     *)
(* stack and a list forget what they return.  What is popped from a ring buffer     *)
(* stays in its slots, and its array is never replaced.                            *)
SequenceInv ==
    /\ IndexInv
    /\ items \in [0 .. Length - 1 -> Elements]
    /\ kind # "ring" => \A i \in 0 .. Length - 1 :
            Used(kind, Length, head, size, i) \/ items[i] = Null
    /\ kind = "ring" => Length = Capacity

(* A remainder by n of less than twice n.                                    *)
LEMMA Around ==
    ASSUME NEW n \in Nat \ {0}, NEW d \in 0 .. 2 * n - 1
    PROVE  d % n = IF d < n THEN d ELSE d - n
<1> DEFINE q == d \div n
<1>1. q \in Int /\ d = n * q + (d % n) /\ d % n \in 0 .. n - 1
  OBVIOUS
<1> HIDE DEF q
<1>2. q < 2
  <2> SUFFICES ASSUME q >= 2 PROVE FALSE
    BY <1>1
  <2>1. n * q >= n * 2
    BY <1>1, SMTT(30)
  <2> QED
    BY <1>1, <2>1
<1>3. q > -1
  <2> SUFFICES ASSUME q <= -1 PROVE FALSE
    BY <1>1
  <2>1. n * q <= n * (-1)
    BY <1>1, SMTT(30)
  <2> QED
    BY <1>1, <2>1
<1>4. q = 0 \/ q = 1
  BY <1>1, <1>2, <1>3
<1>5. CASE q = 0
  BY <1>1, <1>5
<1>6. CASE q = 1
  BY <1>1, <1>6
<1> QED
  BY <1>4, <1>5, <1>6

(* The slot of an element is one of the array, and is in use.                *)
LEMMA SlotIn ==
    ASSUME NEW k \in {"queue", "stack", "list", "ring"}, NEW n \in Nat \ {0},
           NEW h \in 0 .. n - 1, NEW s \in 0 .. n, NEW j \in 1 .. s
    PROVE  Slot(k, n, h, s, j) \in 0 .. n - 1 /\ Used(k, n, h, s, Slot(k, n, h, s, j))
  BY DEF Slot, Used

(* A slot in use is that of an element.                                      *)
LEMMA SlotOf ==
    ASSUME NEW k \in {"queue", "stack", "list", "ring"}, NEW n \in Nat \ {0},
           NEW h \in 0 .. n - 1, NEW s \in 0 .. n,
           NEW i \in 0 .. n - 1, Used(k, n, h, s, i)
    PROVE  \E j \in 1 .. s : i = Slot(k, n, h, s, j)
<1> DEFINE j == CASE k = "list" -> i + 1
                  [] k = "stack" -> i - (n - s) + 1
                  [] OTHER -> IF i >= h THEN i - h + 1 ELSE i + n - h + 1
<1>1. j \in 1 .. s /\ i = Slot(k, n, h, s, j)
  BY DEF Slot, Used
<1> QED
  BY <1>1

(* Contents, without remainders.                                             *)
LEMMA ContentsIs ==
    IndexInv => (Contents = [i \in 1 .. size |-> items[Slot(kind, Length, head, size, i)]])
<1> SUFFICES ASSUME IndexInv
             PROVE  Contents = [i \in 1 .. size |-> items[Slot(kind, Length, head, size, i)]]
  OBVIOUS
<1>1. /\ kind \in {"queue", "stack", "list", "ring"} /\ Length \in Nat \ {0} /\ head \in 0 .. Length - 1
      /\ size \in 0 .. Length
  BY DEF IndexInv, InArray
<1>2. \A i \in 1 .. size : (head + i - 1) % Length = IF head + i - 1 < Length THEN head + i - 1
        ELSE head + i - 1 - Length
  <2> TAKE i \in 1 .. size
  <2> DEFINE d == head + i - 1
  <2>1. d \in 0 .. 2 * Length - 1
    BY <1>1
  <2> HIDE DEF d
  <2>2. d % Length = IF d < Length THEN d ELSE d - Length
    BY <1>1, <2>1, Around
  <2> QED
    BY <1>1, <2>2 DEF d
<1>3. CASE kind \in {"queue", "ring"}
  BY <1>2, <1>3 DEF Contents, Slot
<1>4. CASE kind = "stack"
  BY <1>4 DEF Contents, Slot
<1>5. CASE kind = "list"
  BY <1>5 DEF Contents, Slot
<1> QED
  BY <1>1, <1>3, <1>4, <1>5

(* The same after a step.                                                    *)
LEMMA ContentsIsNext ==
    IndexInv' => (Contents' = [i \in 1 .. size' |-> items'[Slot(kind', Length', head', size', i)]])
<1>1. (IndexInv => (Contents = [i \in 1 .. size |-> items[Slot(kind, Length, head, size, i)]]))'
  BY ContentsIs, PTL
<1> QED
  BY <1>1

(* What the collection keeps alive is what it contains.                      *)
LEMMA HeldIs == SequenceInv => (Held = ToSet(Contents) \ {Null})
<1> SUFFICES ASSUME SequenceInv, kind # "ring" PROVE Range(items) \ {Null} = ToSet(Contents) \ {Null}
  BY DEF Held
<1>1. /\ kind \in {"queue", "stack", "list", "ring"} /\ Length \in Nat \ {0} /\ head \in 0 .. Length - 1
      /\ size \in 0 .. Length
  BY DEF SequenceInv, IndexInv, InArray
<1>2. DOMAIN items = 0 .. Length - 1
  BY DEF SequenceInv, IndexInv, InArray
<1>3. Contents = [j \in 1 .. size |-> items[Slot(kind, Length, head, size, j)]]
  BY ContentsIs DEF SequenceInv
<1>4. \A j \in 1 .. size : Slot(kind, Length, head, size, j) \in 0 .. Length - 1
  BY <1>1, SlotIn
<1>5. ASSUME NEW i \in 0 .. Length - 1, items[i] # Null
      PROVE  \E j \in 1 .. size : i = Slot(kind, Length, head, size, j)
  <2>1. Used(kind, Length, head, size, i)
    BY <1>5 DEF SequenceInv
  <2> QED
    BY <1>1, <2>1, SlotOf
<1> QED
  BY <1>2, <1>3, <1>4, <1>5 DEF Range, ToSet

(* The same after a step.                                                    *)
LEMMA HeldIsNext == SequenceInv' => (Held' = ToSet(Contents') \ {Null})
<1>1. (SequenceInv => (Held = ToSet(Contents) \ {Null}))'
  BY HeldIs, PTL
<1> QED
  BY <1>1 DEF ToSet

(* The contents as a sequence.                                               *)
LEMMA ContentsSeq ==
    ASSUME SequenceInv
    PROVE  /\ Contents \in Seq(Elements) /\ Len(Contents) = size /\ DOMAIN Contents = 1 .. size
           /\ \A i \in 1 .. size : Contents[i] = items[Slot(kind, Length, head, size, i)]
<1>1. Contents = [i \in 1 .. size |-> items[Slot(kind, Length, head, size, i)]] /\ size \in Nat
  BY ContentsIs DEF SequenceInv, IndexInv, InArray
<1>2. \A j \in 1 .. size : Slot(kind, Length, head, size, j) \in 0 .. Length - 1
  BY SlotIn DEF SequenceInv, IndexInv, InArray
<1>3. Contents \in [1 .. size -> Elements]
  BY <1>1, <1>2 DEF SequenceInv
<1> QED
  BY <1>1, <1>3

(* What the invariant says of the array.                                     *)
LEMMA Shape ==
    ASSUME SequenceInv
    PROVE  /\ kind \in {"queue", "stack", "list", "ring"} /\ Length \in Nat \ {0}
                /\ DOMAIN items = 0 .. Length - 1
           /\ head \in 0 .. Length - 1 /\ tail \in 0 .. Length - 1 /\ size \in 0 .. Length
           /\ items \in [0 .. Length - 1 -> Elements] /\ IndexInv
  BY DEF SequenceInv, IndexInv, InArray

(* The contents after a call, element by element.                            *)
LEMMA NewContents ==
    ASSUME IndexInv', NEW s \in Seq(Elements), Len(s) = size',
           \A j \in 1 .. size' : s[j] = items'[Slot(kind', Length', head', size', j)]
    PROVE  Contents' = s
<1>1. Contents' = [j \in 1 .. size' |-> items'[Slot(kind', Length', head', size', j)]]
  BY ContentsIsNext
<1>2. s = [j \in 1 .. Len(s) |-> s[j]]
  OBVIOUS
<1> QED
  BY <1>1, <1>2

(* What the promise says of a call that leaves the contents s.               *)
LEMMA BecomesIf ==
    ASSUME SequenceInv', UNCHANGED kind, NEW s, Contents' = s
    PROVE  Promise!Becomes(s)
<1>1. Held' = ToSet(Contents') \ {Null}
  BY HeldIsNext
<1> QED
  BY <1>1 DEF Promise!Becomes, Promise!ToSet, ToSet

(* A call after which the array of n slots holds the sequence s, and nothing else. *)
LEMMA Reached ==
    ASSUME IndexInv', UNCHANGED kind, NEW n \in Nat \ {0},
           items' \in [0 .. n - 1 -> Elements],
           kind # "ring" => \A i \in 0 .. n - 1 : Used(kind, n, head', size', i) \/ items'[i] = Null,
           kind = "ring" => n = Capacity,
           NEW s \in Seq(Elements), Len(s) = size',
           \A j \in 1 .. size' : s[j] = items'[Slot(kind, n, head', size', j)]
    PROVE  SequenceInv' /\ Promise!Becomes(s)
<1>1. DOMAIN items' = 0 .. n - 1
  OBVIOUS
<1>2. Length' = n
  BY <1>1, SlotCount DEF Length
<1>3. SequenceInv'
  BY <1>2 DEF SequenceInv
<1>4. Contents' = s
  BY <1>2, NewContents
<1> QED
  BY <1>3, <1>4, BecomesIf

(* A call that leaves the array alone.                                       *)
LEMMA StaysIf ==
    ASSUME SequenceInv, UNCHANGED <<kind, array>>
    PROVE  SequenceInv' /\ Promise!Stays
<1>1. UNCHANGED <<kind, items, size, head, tail>> /\ UNCHANGED Length
  BY DEF array, Length
<1>2. IndexInv'
  BY Nowhere DEF SequenceInv
<1>3. SequenceInv'
  BY <1>1, <1>2 DEF SequenceInv, Used
<1>4. UNCHANGED <<Contents, Held>>
  BY <1>1 DEF Contents, Held
<1> QED
  BY <1>1, <1>3, <1>4 DEF Promise!Stays

(* The answers of the two specifications are the same.                       *)
LEMMA AnswerIs ==
    ASSUME NEW op, NEW arg, NEW answer, Answers(op, arg, answer)
    PROVE  Promise!Answers(op, arg, answer) /\ UNCHANGED kind
  BY DEF Answers, Promise!Answers

(* A call that fails.                                                        *)
LEMMA FailIs ==
    ASSUME SequenceInv, NEW op, NEW arg, Fails(op, arg)
    PROVE  SequenceInv' /\ Promise!Stays /\ Promise!Answers(op, arg, Promise!Failed)
  BY StaysIf, AnswerIs DEF Fails, Promise!Failed, Failed, Answers, Promise!Answers

(* The pieces of a copy are the contents, in order. *)
LEMMA CopiedIs ==
    ASSUME SequenceInv, kind = "queue", NEW n \in Nat, n >= size, NEW i \in 0 .. n - 1
    PROVE  Copied(Nothing(n))[i] = IF i < size THEN items[Slot(kind, Length, head, size, i + 1)]
             ELSE Null
<1>1. DOMAIN Nothing(n) = 0 .. n - 1 /\ Nothing(n)[i] = Null
  BY DEF Nothing
<1>2. Copied(Nothing(n))[i] =
            CASE size > 0 /\ head < tail /\ i < size -> items[head + i]
              [] size > 0 /\ head >= tail /\ i < Length - head -> items[head + i]
              [] size > 0 /\ head >= tail
                /\ i \in Length - head .. (Length - head) + tail - 1 -> items[i - (Length - head)]
              [] OTHER -> Null
  BY <1>1 DEF Copied
<1>3. /\ Length \in Nat \ {0} /\ head \in 0 .. Length - 1 /\ tail \in 0 .. Length - 1
           /\ size \in 0 .. Length
      /\ head + size \in {tail, tail + Length}
  BY Shape DEF IndexInv, TailFollows, Circular
<1>4. CASE size > 0 /\ head < tail
  BY <1>2, <1>3, <1>4 DEF Slot
<1>5. CASE size > 0 /\ head >= tail
  BY <1>2, <1>3, <1>5 DEF Slot
<1>6. CASE size = 0
  BY <1>2, <1>3, <1>6 DEF Slot
<1> QED
  BY <1>3, <1>4, <1>5, <1>6

(* A call that puts v at its end of the sequence, or fails.                  *)
LEMMA PutIs ==
    ASSUME SequenceInv, NEW v \in Elements,
           NEW op, \/ op = "Enqueue" /\ kind = "queue"
                   \/ op = "Add" /\ kind = "list"
                   \/ op = "Push" /\ kind = "stack",
           \/ Fails(op, v)
           \/ Promise!Becomes(IF op = "Push" THEN <<v>> \o Contents ELSE Append(Contents, v))
                /\ Answers(op, v, Ok)
    PROVE  Promise!Put
<1>1. \/ Promise!Stays /\ Promise!Answers(op, v, Promise!Failed)
      \/ /\ Promise!Becomes(IF op = "Push" THEN <<v>> \o Contents ELSE Append(Contents, v))
         /\ Promise!Answers(op, v, Promise!Ok)
  BY FailIs, AnswerIs DEF Ok, Promise!Ok
<1> QED
  BY <1>1 DEF Promise!Put, Elements

(* The elements of a longer sequence.                                        *)
LEMMA Appended ==
    ASSUME NEW s \in Seq(Elements), NEW v \in Elements
    PROVE  /\ Append(s, v) \in Seq(Elements) /\ Len(Append(s, v)) = Len(s) + 1
           /\ \A j \in 1 .. Len(s) + 1 : Append(s, v)[j] = IF j <= Len(s) THEN s[j] ELSE v
  OBVIOUS

(* Enqueue appends, whether or not the array is replaced.                    *)
LEMMA EnqueueImplements ==
    ASSUME SequenceInv, ~ObjectArrays, Enqueue
    PROVE  SequenceInv' /\ Promise!Put
<1>1. kind = "queue" /\ UNCHANGED kind /\ IndexInv'
  BY QueueKeeps, Shape DEF Enqueue, Fails, Answers
<1>2. /\ Length \in Nat \ {0} /\ head \in 0 .. Length - 1 /\ tail \in 0 .. Length - 1
           /\ size \in 0 .. Length
      /\ head + size \in {tail, tail + Length} /\ items \in [0 .. Length - 1 -> Elements]
  BY <1>1, Shape DEF IndexInv, TailFollows, Circular
<1>3. \A i \in 0 .. Length - 1 : Used(kind, Length, head, size, i) \/ items[i] = Null
  BY <1>1 DEF SequenceInv
<1>4. PICK v \in Elements :
        \/ Fails("Enqueue", v)
        \/ /\ size = Length /\ items' = [Copied(Nothing(2 * Length)) EXCEPT ![size] = v] /\ head' = 0
           /\ size' = size + 1 /\ Answers("Enqueue", v, Ok)
        \/ /\ size # Length /\ items' = [items EXCEPT ![tail] = v] /\ head' = head
           /\ size' = size + 1 /\ Answers("Enqueue", v, Ok)
  BY DEF Enqueue, Moved, Elements
<1> DEFINE s == Append(Contents, v)
<1>5. /\ Contents \in Seq(Elements) /\ Len(Contents) = size
      /\ \A j \in 1 .. size : Contents[j] = items[Slot(kind, Length, head, size, j)]
  BY ContentsSeq
<1>6. /\ s \in Seq(Elements) /\ Len(s) = size + 1
      /\ \A j \in 1 .. size + 1 :
            s[j] = IF j <= size THEN items[Slot(kind, Length, head, size, j)] ELSE v
  BY <1>2, <1>5, Appended
<1> HIDE DEF s
<1>7. CASE Fails("Enqueue", v)
  BY <1>1, <1>7, FailIs, PutIs
<1>8. CASE /\ size = Length /\ items' = [Copied(Nothing(2 * Length)) EXCEPT ![size] = v] /\ head' = 0
           /\ size' = size + 1 /\ Answers("Enqueue", v, Ok)
  <2>1. \A i \in 0 .. 2 * Length - 1 :
            Copied(Nothing(2 * Length))[i] =
                IF i < size THEN items[Slot(kind, Length, head, size, i + 1)] ELSE Null
    BY <1>1, <1>2, CopiedIs
  <2>2. DOMAIN Copied(Nothing(2 * Length)) = 0 .. 2 * Length - 1
    BY DEF Copied, Nothing
  <2>3. \A i \in 0 .. 2 * Length - 1 :
            items'[i] = IF i = size THEN v
                        ELSE IF i < size THEN items[Slot(kind, Length, head, size, i + 1)] ELSE Null
    <3> DEFINE copy == Copied(Nothing(2 * Length))
    <3>1. DOMAIN copy = 0 .. 2 * Length - 1 /\ items' = [copy EXCEPT ![size] = v]
      BY <1>8, <2>2
    <3> HIDE DEF copy
    <3>2. \A i \in 0 .. 2 * Length - 1 : items'[i] = IF i = size THEN v ELSE copy[i]
      BY <1>2, <3>1
    <3> QED
      BY <2>1, <3>2, Zenon DEF copy
  <2>4. \A j \in 1 .. size : Slot(kind, Length, head, size, j) \in 0 .. Length - 1
    BY <1>1, <1>2, SlotIn
  <2>5. DOMAIN items' = 0 .. 2 * Length - 1
    BY <1>8, <2>2
  <2>6. items' \in [0 .. 2 * Length - 1 -> Elements]
    <3>1. \A i \in 0 .. 2 * Length - 1 : items'[i] \in Elements
      BY <1>2, <2>3, <2>4 DEF Elements
    <3>2. items' = [i \in 0 .. 2 * Length - 1 |-> items'[i]]
      BY <1>8, <2>2
    <3> QED
      BY <3>1, <3>2
  <2>7. \A i \in 0 .. 2 * Length - 1 : Used(kind, 2 * Length, head', size', i) \/ items'[i] = Null
    BY <1>1, <1>2, <1>8, <2>3 DEF Used
  <2>8. \A j \in 1 .. size' : s[j] = items'[Slot(kind, 2 * Length, head', size', j)]
    <3> TAKE j \in 1 .. size'
    <3>1. Slot(kind, 2 * Length, head', size', j) = j - 1
      BY <1>1, <1>2, <1>8 DEF Slot
    <3>2. size' = size + 1 /\ size = Length
      BY <1>8
    <3>3. CASE j = size + 1
      <4>1. j - 1 = size /\ size \in 0 .. 2 * Length - 1 /\ j \in 1 .. size + 1 /\ ~(j <= size)
        BY <1>2, <3>2, <3>3
      <4>2. items'[j - 1] = v
        BY <2>3, <4>1, Zenon
      <4>3. s[j] = v
        BY <1>6, <4>1, Zenon
      <4> QED
        BY <3>1, <4>2, <4>3
    <3>4. CASE j # size + 1
      <4>1. j - 1 \in 0 .. 2 * Length - 1 /\ j - 1 < size /\ (j - 1) + 1 = j /\ j \in 1 .. size
        BY <1>2, <3>2, <3>4
      <4>2. items'[j - 1] = items[Slot(kind, Length, head, size, j)]
        BY <2>3, <4>1
      <4> QED
        BY <1>2, <1>6, <3>1, <4>1, <4>2
    <3> QED
      BY <3>3, <3>4
  <2>9. SequenceInv' /\ Promise!Becomes(s)
    <3>1. 2 * Length \in Nat \ {0} /\ kind # "ring" /\ size' = size + 1
      BY <1>1, <1>2, <1>8
    <3> QED
      BY <1>1, <1>6, <2>6, <2>7, <2>8, <3>1, Reached
  <2> QED
    BY <1>1, <1>8, <2>9, PutIs DEF s
<1>9. CASE /\ size # Length /\ items' = [items EXCEPT ![tail] = v] /\ head' = head
           /\ size' = size + 1 /\ Answers("Enqueue", v, Ok)
  <2>1. items' \in [0 .. Length - 1 -> Elements]
    BY <1>2, <1>9
  <2>2. \A i \in 0 .. Length - 1 : Used(kind, Length, head', size', i) \/ items'[i] = Null
    BY <1>1, <1>2, <1>3, <1>9 DEF Used
  <2>3. \A j \in 1 .. size' : s[j] = items'[Slot(kind, Length, head', size', j)]
    <3> TAKE j \in 1 .. size'
    <3>1. j <= size => Slot(kind, Length, head, size, j) # tail
      BY <1>1, <1>2, <1>9 DEF Slot
    <3>2. Slot(kind, Length, head', size', j) = Slot(kind, Length, head, size, j)
      BY <1>1, <1>2, <1>9 DEF Slot
    <3>3. j = size + 1 => Slot(kind, Length, head, size, j) = tail
      BY <1>1, <1>2, <1>9 DEF Slot
    <3>4. j <= size => Slot(kind, Length, head, size, j) \in 0 .. Length - 1
      BY <1>1, <1>2, <1>9 DEF Slot
    <3> QED
      BY <1>2, <1>6, <1>9, <3>1, <3>2, <3>3, <3>4
  <2>4. SequenceInv' /\ Promise!Becomes(s)
    BY <1>1, <1>2, <1>6, <1>9, <2>1, <2>2, <2>3, Reached
  <2> QED
    BY <1>1, <1>9, <2>4, PutIs DEF s
<1> QED
  BY <1>4, <1>7, <1>8, <1>9

(* The indices of a queue and of a ring buffer enclose its contents.         *)
LEMMA Enclosed ==
    ASSUME SequenceInv, kind \in {"queue", "ring"}
    PROVE  head + size \in {tail, tail + Length}
  BY DEF SequenceInv, IndexInv, TailFollows, Circular

(* The elements of what is behind the first.                                 *)
LEMMA Tailed ==
    ASSUME NEW s \in Seq(Elements), s # <<>>
    PROVE  /\ Tail(s) \in Seq(Elements) /\ Len(Tail(s)) = Len(s) - 1 /\ Head(s) = s[1]
           /\ \A j \in 1 .. Len(s) - 1 : Tail(s)[j] = s[j + 1]
  OBVIOUS

(* No contents is no size.                                                   *)
LEMMA EmptyIs ==
    ASSUME SequenceInv
    PROVE  /\ Contents = <<>> <=> size = 0
           /\ size # 0 => Head(Contents) = items[Slot(kind, Length, head, size, 1)]
  BY Shape, ContentsSeq

(* A call that leaves no element. *)
LEMMA Emptied ==
    ASSUME SequenceInv, kind # "ring", Answers("Clear", 0, Ok), size' = 0,
           DOMAIN items' = DOMAIN items, IndexInv',
           \A i \in DOMAIN items : items'[i] = Null, items' = [i \in DOMAIN items |-> items'[i]]
    PROVE  SequenceInv' /\ Promise!Clear
<1>1. items' \in [0 .. Length - 1 -> Elements] /\ Length \in Nat \ {0} /\ UNCHANGED kind
  BY Shape DEF Elements, Answers
<1> DEFINE s == <<>>
<1>2. s \in Seq(Elements) /\ Len(s) = size'
        /\ \A j \in 1 .. size' : s[j] = items'[Slot(kind, Length, head', size', j)]
  OBVIOUS
<1>3. \A i \in 0 .. Length - 1 : items'[i] = Null
  BY Shape
<1> HIDE DEF s
<1>4. SequenceInv' /\ Promise!Becomes(s)
  BY <1>1, <1>2, <1>3, Reached
<1> QED
  BY <1>4, AnswerIs DEF s, Promise!Clear, Ok, Promise!Ok

(* Dequeue takes the first.                                                  *)
LEMMA DequeueImplements ==
    ASSUME SequenceInv, Dequeue
    PROVE  SequenceInv' /\ Promise!Take
<1>1. kind = "queue" /\ UNCHANGED kind /\ IndexInv'
  BY QueueKeeps, Shape DEF Dequeue, Fails, Answers
<1>2. CASE size = 0
  <2>1. SequenceInv' /\ Promise!Stays /\ Promise!Answers("Dequeue", 0, Promise!Failed)
    BY <1>2, FailIs DEF Dequeue
  <2> QED
    BY <1>1, <1>2, <2>1, EmptyIs DEF Promise!Take
<1>3. CASE size # 0
  <2>1. /\ Length \in Nat \ {0} /\ head \in 0 .. Length - 1 /\ tail \in 0 .. Length - 1
             /\ size \in 0 .. Length
        /\ head + size \in {tail, tail + Length} /\ items \in [0 .. Length - 1 -> Elements]
    BY <1>1, Shape, Enclosed
  <2>2. /\ items' = [items EXCEPT ![head] = Null] /\ size' = size - 1
        /\ head' = IF head + 1 = Length THEN 0 ELSE head + 1
    BY <1>3, <2>1, Successor DEF Dequeue
  <2> DEFINE s == Tail(Contents)
  <2>3. /\ s \in Seq(Elements) /\ Len(s) = size'
        /\ \A j \in 1 .. size' : s[j] = items[Slot(kind, Length, head, size, j + 1)]
    <3>1. Contents # <<>> /\ Contents \in Seq(Elements) /\ Len(Contents) = size
      BY <1>3, EmptyIs, ContentsSeq
    <3>2. \A j \in 1 .. size : Contents[j] = items[Slot(kind, Length, head, size, j)]
      BY ContentsSeq
    <3>3. \A j \in 1 .. size' : s[j] = Contents[j + 1] /\ j + 1 \in 1 .. size
      BY <2>1, <2>2, <3>1, Tailed
    <3> QED
      BY <2>2, <3>1, <3>2, <3>3, Tailed
  <2> HIDE DEF s
  <2>4. items' \in [0 .. Length - 1 -> Elements]
    BY <2>1, <2>2 DEF Elements
  <2>5. \A i \in 0 .. Length - 1 : Used(kind, Length, head', size', i) \/ items'[i] = Null
    <3>1. \A i \in 0 .. Length - 1 : Used(kind, Length, head, size, i) \/ items[i] = Null
      BY <1>1 DEF SequenceInv
    <3> QED
      BY <1>1, <1>3, <2>1, <2>2, <3>1 DEF Used
  <2>6. \A j \in 1 .. size' : s[j] = items'[Slot(kind, Length, head', size', j)]
    <3> TAKE j \in 1 .. size'
    <3> DEFINE at == IF head + j < Length THEN head + j ELSE head + j - Length
    <3>1. at \in 0 .. Length - 1 /\ at # head
      BY <2>1, <2>2
    <3>2. Slot(kind, Length, head, size, j + 1) = at
      BY <1>1, <2>1, <2>2 DEF Slot
    <3>3. Slot(kind, Length, head', size', j) = at
      <4>1. Slot(kind, Length, head', size', j) =
                IF head' + j - 1 < Length THEN head' + j - 1 ELSE head' + j - 1 - Length
        BY <1>1 DEF Slot
      <4> QED
        BY <2>1, <2>2, <4>1
    <3> QED
      BY <2>1, <2>2, <2>3, <3>1, <3>2, <3>3
  <2>7. SequenceInv' /\ Promise!Becomes(s)
    BY <1>1, <2>1, <2>3, <2>4, <2>5, <2>6, Reached
  <2>8. Promise!Answers("Dequeue", 0, Head(Contents))
    <3>1. Slot(kind, Length, head, size, 1) = head
      BY <1>1, <2>1 DEF Slot
    <3>2. Head(Contents) = items[head]
      BY <1>3, <3>1, EmptyIs
    <3> QED
      BY <1>3, <3>2 DEF Dequeue, Answers, Promise!Answers
  <2> QED
    BY <1>1, <1>3, <2>7, <2>8, EmptyIs DEF s, Promise!Take
<1> QED
  BY <1>2, <1>3

(* Peek shows the first.                                                     *)
LEMMA PeekImplements ==
    ASSUME SequenceInv, PeekQueue \/ PeekStack
    PROVE  SequenceInv' /\ Promise!Peek
<1>1. kind \in {"queue", "stack"} /\ UNCHANGED <<kind, array>>
  BY DEF PeekQueue, PeekStack, Answers
<1>2. SequenceInv' /\ Promise!Stays
  BY <1>1, StaysIf
<1>3. Answers("Peek", 0, IF size = 0 THEN Failed ELSE items[Slot(kind, Length, head, size, 1)])
  <2>1. /\ kind = "queue" => Slot(kind, Length, head, size, 1) = head
        /\ kind = "stack" => Slot(kind, Length, head, size, 1) = Length - size
    BY Shape DEF Slot
  <2> QED
    BY <2>1 DEF PeekQueue, PeekStack
<1>4. Promise!Answers("Peek", 0, IF Contents = <<>> THEN Promise!Failed ELSE Head(Contents))
  BY <1>3, EmptyIs DEF Answers, Promise!Answers, Failed, Promise!Failed
<1> QED
  BY <1>1, <1>2, <1>4 DEF Promise!Peek

(* Clear leaves nothing, in any slot.                                        *)
LEMMA ClearImplements ==
    ASSUME SequenceInv, ClearQueue \/ ClearStack \/ ClearList
    PROVE  SequenceInv' /\ Promise!Clear
<1>1. IndexInv' /\ kind # "ring"
  BY QueueKeeps, StackKeeps, ListKeeps, Shape DEF ClearQueue, ClearStack, ClearList
<1>2. /\ Length \in Nat \ {0} /\ head \in 0 .. Length - 1 /\ tail \in 0 .. Length - 1
           /\ size \in 0 .. Length
      /\ DOMAIN items = 0 .. Length - 1
  BY Shape
<1>3. \A i \in 0 .. Length - 1 : Used(kind, Length, head, size, i) \/ items[i] = Null
  BY <1>1 DEF SequenceInv
<1>4. /\ DOMAIN items' = DOMAIN items /\ items' = [i \in DOMAIN items |-> items'[i]]
      /\ size' = 0 /\ Answers("Clear", 0, Ok)
  BY DEF ClearQueue, ClearStack, ClearList
<1>5. \A i \in 0 .. Length - 1 : items'[i] = Null
  <2>1. CASE ClearQueue
    <3>1. head + size \in {tail, tail + Length} /\ kind = "queue"
      BY <2>1, Enclosed DEF ClearQueue
    <3> QED
      BY <1>2, <1>3, <2>1, <3>1 DEF ClearQueue, Used
  <2>2. CASE ClearStack
    BY <1>2, <1>3, <2>2 DEF ClearStack, Used
  <2>3. CASE ClearList
    BY <1>2, <1>3, <2>3 DEF ClearList, Used
  <2> QED
    BY <2>1, <2>2, <2>3
<1> QED
  BY <1>1, <1>2, <1>4, <1>5, Emptied

(* CopyTo answers with the contents.                                         *)
LEMMA CopyToImplements ==
    ASSUME SequenceInv, ~ObjectArrays, CopyTo
    PROVE  SequenceInv' /\ Promise!CopyTo
<1>1. /\ kind = "queue" /\ UNCHANGED <<kind, array>>
      /\ Answers("CopyTo", 0, [i \in 1 .. size |-> Copied(Nothing(size))[i - 1]])
  BY DEF CopyTo, Answers, array
<1>2. Contents = [i \in 1 .. size |-> Copied(Nothing(size))[i - 1]]
  <2>1. size \in Nat /\ Contents = [i \in 1 .. size |-> items[Slot(kind, Length, head, size, i)]]
    BY ContentsIs, Shape
  <2>2. \A i \in 1 .. size : Copied(Nothing(size))[i - 1] = items[Slot(kind, Length, head, size, i)]
    <3> TAKE i \in 1 .. size
    <3>1. i - 1 \in 0 .. size - 1 /\ i - 1 < size /\ (i - 1) + 1 = i /\ size >= size
      BY <2>1
    <3>2. Copied(Nothing(size))[i - 1] = items[Slot(kind, Length, head, size, (i - 1) + 1)]
      BY <1>1, <2>1, <3>1, CopiedIs
    <3> QED
      BY <3>1, <3>2
  <2> QED
    BY <2>1, <2>2
<1> QED
  BY <1>1, <1>2, StaysIf, AnswerIs DEF Promise!CopyTo

-----------------------------------------------------------------------------
(* The elements of a sequence with another in front.                         *)
LEMMA Pushed ==
    ASSUME NEW s \in Seq(Elements), NEW v \in Elements
    PROVE  /\ <<v>> \o s \in Seq(Elements) /\ Len(<<v>> \o s) = Len(s) + 1
           /\ \A j \in 1 .. Len(s) + 1 : (<<v>> \o s)[j] = IF j = 1 THEN v ELSE s[j - 1]
  OBVIOUS

(* Push puts one in front, whether or not the array is replaced.             *)
LEMMA PushImplements ==
    ASSUME SequenceInv, Push
    PROVE  SequenceInv' /\ Promise!Put
<1>1. kind = "stack" /\ UNCHANGED kind /\ IndexInv'
  BY StackKeeps, Shape DEF Push, Fails, Answers
<1>2. /\ Length \in Nat \ {0} /\ size \in 0 .. Length /\ items \in [0 .. Length - 1 -> Elements]
  BY Shape
<1>3. \A i \in 0 .. Length - 1 : i >= Length - size \/ items[i] = Null
  BY <1>1 DEF SequenceInv, Used
<1>4. PICK v \in Elements :
        \/ Fails("Push", v)
        \/ \E n \in Nat \ {0} :
              /\ n = IF size = Length THEN 2 * Length ELSE Length
              /\ items' = [(IF size = Length THEN Grown(n) ELSE items) EXCEPT ![n - (size + 1)] = v]
              /\ size' = size + 1 /\ Answers("Push", v, Ok)
  <2>1. (IF size = Length THEN 2 * Length ELSE Length) \in Nat \ {0}
    BY <1>2
  <2> QED
    BY <2>1 DEF Push, Elements
<1> DEFINE s == <<v>> \o Contents
<1>5. /\ Contents \in Seq(Elements) /\ Len(Contents) = size
      /\ \A j \in 1 .. size : Contents[j] = items[Length - size + j - 1]
  BY <1>1, ContentsSeq DEF Slot
<1>6. /\ s \in Seq(Elements) /\ Len(s) = size + 1
      /\ \A j \in 1 .. size + 1 : s[j] = IF j = 1 THEN v ELSE items[Length - size + (j - 1) - 1]
  BY <1>2, <1>5, Pushed
<1> HIDE DEF s
<1>7. CASE Fails("Push", v)
  BY <1>1, <1>7, FailIs, PutIs
<1>8. ASSUME NEW n \in Nat \ {0}, n = IF size = Length THEN 2 * Length ELSE Length,
             items' = [(IF size = Length THEN Grown(n) ELSE items) EXCEPT ![n - (size + 1)] = v],
             size' = size + 1, Answers("Push", v, Ok)
      PROVE  SequenceInv' /\ Promise!Put
  <2> DEFINE new == IF size = Length THEN Grown(n) ELSE items
  <2>1. /\ new \in [0 .. n - 1 -> Elements]
        /\ \A i \in 0 .. n - 1 : new[i] = IF i >= n - size THEN items[i - (n - Length)] ELSE Null
    <3>1. CASE size = Length
      BY <1>2, <1>8, <3>1 DEF Grown, Elements
    <3>2. CASE size # Length
      BY <1>2, <1>3, <1>8, <3>2
    <3> QED
      BY <3>1, <3>2
  <2>2. items' = [new EXCEPT ![n - (size + 1)] = v] /\ n >= size + 1
    BY <1>2, <1>8
  <2> HIDE DEF new
  <2>3. /\ items' \in [0 .. n - 1 -> Elements]
        /\ \A i \in 0 .. n - 1 : items'[i] = IF i = n - size' THEN v
                                             ELSE IF i >= n - size THEN items[i - (n - Length)] ELSE Null
    <3>1. n - size' = n - (size + 1) /\ n - size' \in 0 .. n - 1
      BY <1>2, <1>8, <2>2
    <3>2. \A i \in 0 .. n - 1 : items'[i] = IF i = n - size' THEN v ELSE new[i]
      BY <2>1, <2>2, <3>1
    <3>3. items' \in [0 .. n - 1 -> Elements]
      BY <2>1, <2>2
    <3>4. \A i \in 0 .. n - 1 : items'[i] = IF i = n - size' THEN v
                                             ELSE IF i >= n - size THEN items[i - (n - Length)] ELSE Null
      BY <2>1, <3>2, Zenon
    <3> QED
      BY <3>3, <3>4
  <2>4. \A i \in 0 .. n - 1 : Used(kind, n, head', size', i) \/ items'[i] = Null
    BY <1>1, <1>2, <1>8, <2>3 DEF Used
  <2>5. \A j \in 1 .. size' : s[j] = items'[Slot(kind, n, head', size', j)]
    <3> TAKE j \in 1 .. size'
    <3>1. Slot(kind, n, head', size', j) = n - size' + j - 1
      BY <1>1 DEF Slot
    <3>2. n - size' + j - 1 \in 0 .. n - 1 /\ j \in 1 .. size + 1
      BY <1>2, <1>8, <2>2
    <3>3. CASE j = 1
      BY <1>2, <1>6, <1>8, <2>3, <3>1, <3>2, <3>3
    <3>4. CASE j # 1
      <4>1. items'[n - size' + j - 1] = items[n - size' + j - 1 - (n - Length)]
        <5> DEFINE i == n - size' + j - 1
        <5>1. i \in 0 .. n - 1 /\ i # n - size' /\ i >= n - size
          BY <1>2, <1>8, <2>2, <3>2, <3>4
        <5> HIDE DEF i
        <5>2. items'[i] = items[i - (n - Length)]
          BY <2>3, <5>1
        <5> QED
          BY <1>2, <1>8, <3>2, <5>2 DEF i
      <4>2. n - size' + j - 1 - (n - Length) = Length - size + (j - 1) - 1
        BY <1>2, <1>8
      <4> QED
        BY <1>6, <3>1, <3>2, <3>4, <4>1, <4>2
    <3> QED
      BY <3>3, <3>4
  <2>6. SequenceInv' /\ Promise!Becomes(s)
    BY <1>1, <1>6, <1>8, <2>3, <2>4, <2>5, Reached
  <2> QED
    BY <1>1, <1>8, <2>6, PutIs DEF s
<1> QED
  BY <1>4, <1>7, <1>8

(* Pop takes the first.                                                      *)
LEMMA PopImplements ==
    ASSUME SequenceInv, Pop
    PROVE  SequenceInv' /\ Promise!Take
<1>1. kind = "stack" /\ UNCHANGED kind /\ IndexInv'
  BY StackKeeps, Shape DEF Pop, Fails, Answers
<1>2. CASE size = 0
  <2>1. SequenceInv' /\ Promise!Stays /\ Promise!Answers("Pop", 0, Promise!Failed)
    BY <1>2, FailIs DEF Pop
  <2> QED
    BY <1>1, <1>2, <2>1, EmptyIs DEF Promise!Take
<1>3. CASE size # 0
  <2>1. Length \in Nat \ {0} /\ size \in 0 .. Length /\ items \in [0 .. Length - 1 -> Elements]
    BY Shape
  <2>2. items' = [items EXCEPT ![Length - size] = Null] /\ size' = size - 1
    BY <1>3 DEF Pop
  <2> DEFINE s == Tail(Contents)
  <2>3. /\ s \in Seq(Elements) /\ Len(s) = size'
        /\ \A j \in 1 .. size' : s[j] = items[Length - size + j]
    <3>1. Contents # <<>> /\ Contents \in Seq(Elements) /\ Len(Contents) = size
      BY <1>3, EmptyIs, ContentsSeq
    <3>2. \A j \in 1 .. size : Contents[j] = items[Length - size + j - 1]
      BY <1>1, ContentsSeq DEF Slot
    <3>3. \A j \in 1 .. size' : s[j] = Contents[j + 1] /\ j + 1 \in 1 .. size
      BY <2>1, <2>2, <3>1, Tailed
    <3> QED
      BY <2>1, <2>2, <3>1, <3>2, <3>3, Tailed
  <2> HIDE DEF s
  <2>4. items' \in [0 .. Length - 1 -> Elements]
    BY <2>1, <2>2 DEF Elements
  <2>5. \A i \in 0 .. Length - 1 : Used(kind, Length, head', size', i) \/ items'[i] = Null
    <3>1. \A i \in 0 .. Length - 1 : Used(kind, Length, head, size, i) \/ items[i] = Null
      BY <1>1 DEF SequenceInv
    <3> QED
      BY <1>1, <1>3, <2>1, <2>2, <3>1 DEF Used
  <2>6. \A j \in 1 .. size' : s[j] = items'[Slot(kind, Length, head', size', j)]
    BY <1>1, <1>3, <2>1, <2>2, <2>3 DEF Slot
  <2>7. SequenceInv' /\ Promise!Becomes(s)
    BY <1>1, <2>1, <2>3, <2>4, <2>5, <2>6, Reached
  <2>8. Promise!Answers("Pop", 0, Head(Contents))
    <3>1. Slot(kind, Length, head, size, 1) = Length - size
      BY <1>1, <2>1 DEF Slot
    <3>2. Head(Contents) = items[Length - size]
      BY <1>3, <3>1, EmptyIs
    <3> QED
      BY <1>3, <3>2 DEF Pop, Answers, Promise!Answers
  <2> QED
    BY <1>1, <1>3, <2>7, <2>8, EmptyIs DEF s, Promise!Take
<1> QED
  BY <1>2, <1>3

-----------------------------------------------------------------------------
(* What the invariant says of a list.                                        *)
LEMMA ListShape ==
    ASSUME SequenceInv, kind = "list"
    PROVE  /\ Contents \in Seq(Elements) /\ Len(Contents) = size /\ DOMAIN Contents = 1 .. size
           /\ \A j \in 1 .. size : Contents[j] = items[j - 1]
           /\ \A i \in 0 .. Length - 1 : i < size \/ items[i] = Null
  BY ContentsSeq DEF SequenceInv, Used, Slot

(* The list after a call. *)
LEMMA ListReached ==
    ASSUME IndexInv', UNCHANGED kind, kind = "list", NEW n \in Nat \ {0},
           items' \in [0 .. n - 1 -> Elements],
           \A i \in 0 .. n - 1 : i < size' \/ items'[i] = Null,
           NEW s \in Seq(Elements), Len(s) = size', \A j \in 1 .. size' : s[j] = items'[j - 1]
    PROVE  SequenceInv' /\ Promise!Becomes(s)
<1>1. \A i \in 0 .. n - 1 : Used(kind, n, head', size', i) \/ items'[i] = Null
  BY DEF Used
<1>2. \A j \in 1 .. size' : s[j] = items'[Slot(kind, n, head', size', j)]
  BY DEF Slot
<1> QED
  BY <1>1, <1>2, Reached

(* In the array with room for another element, the others are where they were. *)
LEMMA RoomIs ==
    ASSUME SequenceInv, kind = "list"
    PROVE  \E n \in Nat \ {0} : /\ n >= size + 1 /\ Room \in [0 .. n - 1 -> Elements]
                                /\ \A i \in 0 .. n - 1 : Room[i] = IF i < size THEN items[i] ELSE Null
<1>1. Length \in Nat \ {0} /\ size \in 0 .. Length /\ items \in [0 .. Length - 1 -> Elements]
  BY Shape
<1>2. CASE size = Length
  <2>1. Larger \in Nat \ {0} /\ Larger >= size + 1
    BY LargerFits, Shape
  <2> QED
    BY <1>1, <1>2, <2>1 DEF Room, Resized, Elements
<1>3. CASE size # Length
  <2>1. Room = items /\ Length >= size + 1
    BY <1>1, <1>3 DEF Room
  <2>2. \A i \in 0 .. Length - 1 : i < size \/ items[i] = Null
    BY ListShape
  <2> QED
    BY <1>1, <2>1, <2>2
<1> QED
  BY <1>2, <1>3

(* Add appends.                                                              *)
LEMMA AddImplements ==
    ASSUME SequenceInv, Add
    PROVE  SequenceInv' /\ Promise!Put
<1>1. kind = "list" /\ UNCHANGED kind /\ IndexInv' /\ size \in Nat
  BY ListKeeps, Shape DEF Add, Fails, Answers
<1>2. PICK v \in Elements :
        \/ Fails("Add", v)
        \/ items' = [Room EXCEPT ![size] = v] /\ size' = size + 1 /\ Answers("Add", v, Ok)
  BY DEF Add, Elements
<1>3. CASE Fails("Add", v)
  BY <1>1, <1>3, FailIs, PutIs
<1>4. CASE items' = [Room EXCEPT ![size] = v] /\ size' = size + 1 /\ Answers("Add", v, Ok)
  <2>1. PICK n \in Nat \ {0} : /\ n >= size + 1 /\ Room \in [0 .. n - 1 -> Elements]
                               /\ \A i \in 0 .. n - 1 : Room[i] = IF i < size THEN items[i] ELSE Null
    BY <1>1, RoomIs
  <2> DEFINE s == Append(Contents, v)
  <2>2. /\ s \in Seq(Elements) /\ Len(s) = size + 1
        /\ \A j \in 1 .. size + 1 : s[j] = IF j <= size THEN items[j - 1] ELSE v
    BY <1>1, ListShape, Appended
  <2> HIDE DEF s
  <2>3. /\ items' \in [0 .. n - 1 -> Elements]
        /\ \A i \in 0 .. n - 1 : items'[i] = IF i = size THEN v ELSE Room[i]
    BY <1>1, <1>4, <2>1
  <2>4. SequenceInv' /\ Promise!Becomes(s)
    <3>1. \A i \in 0 .. n - 1 : i < size' \/ items'[i] = Null
      BY <1>1, <1>4, <2>1, <2>3
    <3>2. \A j \in 1 .. size' : s[j] = items'[j - 1]
      BY <1>1, <1>4, <2>1, <2>2, <2>3
    <3> QED
      BY <1>1, <1>4, <2>2, <2>3, <3>1, <3>2, ListReached
  <2> QED
    BY <1>1, <1>4, <2>4, PutIs DEF s
<1> QED
  BY <1>2, <1>3, <1>4

(* The elements of two sequences, one behind the other.                      *)
LEMMA Joined ==
    ASSUME NEW s \in Seq(Elements), NEW t \in Seq(Elements)
    PROVE  /\ s \o t \in Seq(Elements) /\ Len(s \o t) = Len(s) + Len(t)
           /\ \A j \in 1 .. Len(s) + Len(t) : (s \o t)[j] = IF j <= Len(s) THEN s[j] ELSE t[j - Len(s)]
  OBVIOUS

(* The elements of a sequence with one more between them.                    *)
LEMMA Inserted ==
    ASSUME NEW s \in Seq(Elements), NEW k \in 0 .. Len(s), NEW v \in Elements
    PROVE  /\ Promise!InsertAt(s, k + 1, v) \in Seq(Elements)
           /\ Len(Promise!InsertAt(s, k + 1, v)) = Len(s) + 1
           /\ \A j \in 1 .. Len(s) + 1 : Promise!InsertAt(s, k + 1, v)[j] =
                    IF j <= k THEN s[j] ELSE IF j = k + 1 THEN v ELSE s[j - 1]
<1> DEFINE a == SubSeq(s, 1, (k + 1) - 1)
           b == SubSeq(s, k + 1, Len(s))
           c == a \o <<v>>
<1>1. a \in Seq(Elements) /\ Len(a) = k /\ \A j \in 1 .. k : a[j] = s[j]
  OBVIOUS
<1>2. b \in Seq(Elements) /\ Len(b) = Len(s) - k /\ \A j \in 1 .. Len(s) - k : b[j] = s[k + j]
  OBVIOUS
<1>3. Promise!InsertAt(s, k + 1, v) = c \o b
  BY DEF Promise!InsertAt
<1> HIDE DEF a, b
<1>4. <<v>> \in Seq(Elements) /\ Len(<<v>>) = 1 /\ <<v>>[1] = v
  OBVIOUS
<1>5. c \in Seq(Elements) /\ Len(c) = k + 1 /\ \A j \in 1 .. k + 1 : c[j] = IF j <= k THEN s[j] ELSE v
  BY <1>1, <1>4, Joined
<1> HIDE DEF c
<1>6. /\ c \o b \in Seq(Elements) /\ Len(c \o b) = Len(s) + 1
      /\ \A j \in 1 .. Len(s) + 1 : (c \o b)[j] = IF j <= k + 1 THEN c[j] ELSE b[j - (k + 1)]
  BY <1>2, <1>5, Joined
<1>7. ASSUME NEW j \in 1 .. Len(s) + 1
      PROVE  (c \o b)[j] = IF j <= k THEN s[j] ELSE IF j = k + 1 THEN v ELSE s[j - 1]
  <2>1. CASE j <= k + 1
    BY <1>5, <1>6, <2>1
  <2>2. CASE j > k + 1
    <3>1. j - (k + 1) \in 1 .. Len(s) - k /\ k + (j - (k + 1)) = j - 1
      BY <2>2
    <3>2. b[j - (k + 1)] = s[k + (j - (k + 1))]
      BY <1>2, <3>1
    <3> QED
      BY <1>6, <2>2, <3>1, <3>2
  <2>3. j <= k + 1 \/ j > k + 1
    OBVIOUS
  <2> QED
    BY <2>1, <2>2, <2>3, Zenon
<1>8. \A j \in 1 .. Len(s) + 1 : (c \o b)[j] = IF j <= k THEN s[j] ELSE IF j = k + 1 THEN v
        ELSE s[j - 1]
  BY <1>7, Zenon
<1> DEFINE t == Promise!InsertAt(s, k + 1, v)
           d == c \o b
<1>9. t = d
  BY <1>3
<1>10. /\ d \in Seq(Elements) /\ Len(d) = Len(s) + 1
       /\ \A j \in 1 .. Len(s) + 1 : d[j] = IF j <= k THEN s[j] ELSE IF j = k + 1 THEN v ELSE s[j - 1]
  BY <1>6, <1>8
<1> HIDE DEF t, d
<1>11. /\ t \in Seq(Elements) /\ Len(t) = Len(s) + 1
       /\ \A j \in 1 .. Len(s) + 1 : t[j] = IF j <= k THEN s[j] ELSE IF j = k + 1 THEN v ELSE s[j - 1]
  BY <1>9, <1>10
<1> QED
  BY <1>11 DEF t

(* The elements of a sequence with one less.                                 *)
LEMMA Removed ==
    ASSUME NEW s \in Seq(Elements), NEW k \in 0 .. Len(s) - 1
    PROVE  /\ Promise!RemoveAt(s, k + 1) \in Seq(Elements)
           /\ Len(Promise!RemoveAt(s, k + 1)) = Len(s) - 1
           /\ \A j \in 1 .. Len(s) - 1 : Promise!RemoveAt(s, k + 1)[j] = IF j <= k THEN s[j]
                ELSE s[j + 1]
<1> DEFINE a == SubSeq(s, 1, (k + 1) - 1)
           b == SubSeq(s, (k + 1) + 1, Len(s))
<1>1. a \in Seq(Elements) /\ Len(a) = k /\ \A j \in 1 .. k : a[j] = s[j]
  OBVIOUS
<1>2. b \in Seq(Elements) /\ Len(b) = Len(s) - k - 1
        /\ \A j \in 1 .. Len(s) - k - 1 : b[j] = s[k + 1 + j]
  OBVIOUS
<1>3. Promise!RemoveAt(s, k + 1) = a \o b
  BY DEF Promise!RemoveAt
<1> HIDE DEF a, b
<1>4. /\ a \o b \in Seq(Elements) /\ Len(a \o b) = Len(s) - 1
      /\ \A j \in 1 .. Len(s) - 1 : (a \o b)[j] = IF j <= k THEN a[j] ELSE b[j - k]
  <2>1. /\ a \o b \in Seq(Elements) /\ Len(a \o b) = Len(a) + Len(b)
        /\ \A j \in 1 .. Len(a) + Len(b) : (a \o b)[j] = IF j <= Len(a) THEN a[j] ELSE b[j - Len(a)]
    BY <1>1, <1>2, Joined
  <2>2. Len(a) = k /\ Len(a) + Len(b) = Len(s) - 1
    BY <1>1, <1>2
  <2> QED
    BY <2>1, <2>2, Zenon
<1>5. ASSUME NEW j \in 1 .. Len(s) - 1, j > k
      PROVE  b[j - k] = s[j + 1]
  <2>1. j - k \in 1 .. Len(s) - k - 1 /\ k + 1 + (j - k) = j + 1
    BY <1>5
  <2> QED
    BY <1>2, <2>1
<1>6. ASSUME NEW j \in 1 .. Len(s) - 1
      PROVE  (a \o b)[j] = IF j <= k THEN s[j] ELSE s[j + 1]
  <2>1. j \in Int /\ k \in Int
    OBVIOUS
  <2> QED
    BY <1>1, <1>4, <1>5, <2>1
<1> QED
  BY <1>3, <1>4, <1>6, Zenon

(* Insert puts one at a position.                                            *)
LEMMA InsertImplements ==
    ASSUME SequenceInv, Insert
    PROVE  SequenceInv' /\ Promise!Insert
<1>1. kind = "list" /\ UNCHANGED kind /\ IndexInv' /\ size \in Nat
  <2>1. kind = "list" /\ UNCHANGED kind
    BY DEF Insert, Fails, Answers
  <2> QED
    BY <2>1, ListKeeps, Shape
<1>2. PICK k \in Positions, v \in Elements :
        \/ Fails("Insert", k)
        \/ /\ k \in 0 .. size
           /\ items' = [i \in DOMAIN Room |-> CASE i = k -> v
                                                [] i > k /\ i <= size -> Room[i - 1]
                                                [] OTHER -> Room[i]]
           /\ size' = size + 1 /\ Answers("Insert", k, Ok)
  <2>1. Positions \subseteq Int
    BY CollectionsAssumption DEF CollectionsAssumption
  <2>2. PICK k \in Positions, v \in Elements :
            IF k < 0 \/ k > size \/ ~HasRoom THEN Fails("Insert", k)
            ELSE /\ items' = [i \in DOMAIN Room |-> CASE i = k -> v
                                                       [] i > k /\ i <= size -> Room[i - 1]
                                                       [] OTHER -> Room[i]]
                 /\ size' = size + 1 /\ Answers("Insert", k, Ok)
    BY DEF Insert, Elements
  <2>3. k \in Int
    BY <2>1
  <2> QED
    BY <1>1, <2>2, <2>3
<1>3. CASE Fails("Insert", k)
  BY <1>3, FailIs DEF Promise!Insert, Elements
<1>4. CASE /\ k \in 0 .. size
           /\ items' = [i \in DOMAIN Room |-> CASE i = k -> v
                                                [] i > k /\ i <= size -> Room[i - 1]
                                                [] OTHER -> Room[i]]
           /\ size' = size + 1 /\ Answers("Insert", k, Ok)
  <2>1. PICK n \in Nat \ {0} : /\ n >= size + 1 /\ Room \in [0 .. n - 1 -> Elements]
                               /\ \A i \in 0 .. n - 1 : Room[i] = IF i < size THEN items[i] ELSE Null
    BY <1>1, RoomIs
  <2> DEFINE s == Promise!InsertAt(Contents, k + 1, v)
  <2>2. /\ s \in Seq(Elements) /\ Len(s) = size + 1
        /\ \A j \in 1 .. size + 1 :
              s[j] = IF j <= k THEN items[j - 1] ELSE IF j = k + 1 THEN v ELSE items[(j - 1) - 1]
    <3>1. Contents \in Seq(Elements) /\ Len(Contents) = size
            /\ \A j \in 1 .. size : Contents[j] = items[j - 1]
      BY <1>1, ListShape
    <3>2. /\ s \in Seq(Elements) /\ Len(s) = size + 1
          /\ \A j \in 1 .. size + 1 : s[j] = IF j <= k THEN Contents[j] ELSE IF j = k + 1 THEN v
               ELSE Contents[j - 1]
      BY <1>4, <3>1, Inserted
    <3> HIDE DEF s
    <3> QED
      BY <1>1, <1>4, <3>1, <3>2
  <2> HIDE DEF s
  <2>3. /\ items' \in [0 .. n - 1 -> Elements]
        /\ \A i \in 0 .. n - 1 : items'[i] = CASE i = k -> v
                                              [] i > k /\ i <= size -> items[i - 1]
                                              [] i < k -> items[i]
                                              [] OTHER -> Null
    <3>1. DOMAIN items' = 0 .. n - 1 /\ \A i \in 0 .. n - 1 : items'[i] = CASE i = k -> v
                                                [] i > k /\ i <= size -> Room[i - 1]
                                                [] OTHER -> Room[i]
      BY <1>4, <2>1
    <3>2. \A i \in 0 .. n - 1 : items'[i] \in Elements
      BY <1>4, <2>1, <3>1
    <3>3. items' = [i \in 0 .. n - 1 |-> items'[i]]
      BY <1>4, <2>1
    <3> QED
      BY <1>1, <1>4, <2>1, <3>1, <3>2, <3>3
  <2>4. SequenceInv' /\ Promise!Becomes(s)
    <3>1. \A i \in 0 .. n - 1 : i < size' \/ items'[i] = Null
      BY <1>1, <1>4, <2>1, <2>3
    <3>2. \A j \in 1 .. size' : s[j] = items'[j - 1]
      <4> TAKE j \in 1 .. size'
      <4>1. j - 1 \in 0 .. n - 1 /\ j \in 1 .. size + 1
        BY <1>1, <1>4, <2>1
      <4>2. CASE j <= k
        BY <1>1, <1>4, <2>2, <2>3, <4>1, <4>2
      <4>3. CASE j = k + 1
        BY <1>1, <1>4, <2>2, <2>3, <4>1, <4>3
      <4>4. CASE j > k + 1
        <5>1. j - 1 > k /\ j - 1 <= size /\ ~(j <= k) /\ j # k + 1 /\ j - 1 # k
          BY <1>1, <1>4, <4>1, <4>4
        <5>2. s[j] = items[(j - 1) - 1]
          BY <2>2, <4>1, <5>1
        <5>3. items'[j - 1] = items[(j - 1) - 1]
          <6>1. k \in Int /\ size \in Int
            BY <1>1, <1>4
          <6> QED
            BY <2>3, <4>1, <5>1, <6>1
        <5> QED
          BY <5>2, <5>3
      <4> QED
        BY <1>4, <4>1, <4>2, <4>3, <4>4
    <3> QED
      BY <1>1, <1>4, <2>2, <2>3, <3>1, <3>2, ListReached
  <2>5. Promise!Answers("Insert", k, Promise!Ok)
    BY <1>4, AnswerIs DEF Ok, Promise!Ok
  <2>6. Promise!At("Insert", k, k \in 0 .. Len(Contents), s, Promise!Ok)
    BY <1>1, <1>4, <2>4, <2>5, ListShape DEF Promise!At
  <2> QED
    BY <2>4, <2>6 DEF s, Promise!Insert, Elements
<1> QED
  BY <1>2, <1>3, <1>4

(* A call with a position that is not there. *)
LEMMA NotThere ==
    ASSUME SequenceInv, NEW op, NEW k, NEW there, ~there, NEW s, NEW answer, Fails(op, k)
    PROVE  SequenceInv' /\ Promise!At(op, k, there, s, answer)
  BY FailIs DEF Promise!At

(* The positions that a list has.                                            *)
LEMMA There ==
    ASSUME SequenceInv, kind = "list", NEW k \in Positions
    PROVE  k + 1 \in DOMAIN Contents <=> k \in 0 .. size - 1
<1>1. k \in Int /\ size \in Nat
  BY Shape, CollectionsAssumption DEF CollectionsAssumption
<1> QED
  BY <1>1, ListShape

(* RemoveAt takes one from a position.                                       *)
LEMMA RemoveItemImplements ==
    ASSUME SequenceInv, RemoveItem
    PROVE  SequenceInv' /\ Promise!Position
<1>1. kind = "list" /\ UNCHANGED kind /\ IndexInv'
  BY ListKeeps, Shape DEF RemoveItem, Fails, Answers
<1>2. Length \in Nat \ {0} /\ size \in 0 .. Length /\ items \in [0 .. Length - 1 -> Elements]
  BY Shape
<1>3. PICK k \in Positions :
        \/ k \notin 0 .. size - 1 /\ Fails("RemoveAt", k)
        \/ /\ k \in 0 .. size - 1
           /\ items' = [i \in DOMAIN items |-> CASE i = size - 1 -> Null
                                                 [] i >= k /\ i < size - 1 -> items[i + 1]
                                                 [] OTHER -> items[i]]
           /\ size' = size - 1 /\ Answers("RemoveAt", k, Ok)
  <2>1. Positions \subseteq Int
    BY CollectionsAssumption DEF CollectionsAssumption
  <2> QED
    BY <1>2, <2>1 DEF RemoveItem
<1> DEFINE s == Promise!RemoveAt(Contents, k + 1)
<1>4. SequenceInv' /\ Promise!At("RemoveAt", k, k + 1 \in DOMAIN Contents, s, Promise!Ok)
  <2>1. CASE k \notin 0 .. size - 1 /\ Fails("RemoveAt", k)
    BY <1>1, <2>1, There, NotThere
  <2>2. CASE /\ k \in 0 .. size - 1
             /\ items' = [i \in DOMAIN items |-> CASE i = size - 1 -> Null
                                                   [] i >= k /\ i < size - 1 -> items[i + 1]
                                                   [] OTHER -> items[i]]
             /\ size' = size - 1 /\ Answers("RemoveAt", k, Ok)
    <3>1. /\ s \in Seq(Elements) /\ Len(s) = size'
          /\ \A j \in 1 .. size - 1 : s[j] = IF j <= k THEN items[j - 1] ELSE items[j]
      <4>1. Contents \in Seq(Elements) /\ Len(Contents) = size
              /\ \A j \in 1 .. size : Contents[j] = items[j - 1]
        BY <1>1, ListShape
      <4>2. /\ s \in Seq(Elements) /\ Len(s) = size - 1
            /\ \A j \in 1 .. size - 1 : s[j] = IF j <= k THEN Contents[j] ELSE Contents[j + 1]
        BY <2>2, <4>1, Removed
      <4> HIDE DEF s
      <4> QED
        <5>1. \A j \in 1 .. size - 1 : j \in 1 .. size /\ j + 1 \in 1 .. size /\ (j + 1) - 1 = j
          BY <1>2
        <5>2. \A j \in 1 .. size - 1 : Contents[j] = items[j - 1] /\ Contents[j + 1] = items[j]
          BY <4>1, <5>1
        <5>3. size' = size - 1
          BY <2>2
        <5> QED
          BY <4>2, <5>2, <5>3
    <3> HIDE DEF s
    <3>2. \A i \in 0 .. Length - 1 : items'[i] = CASE i = size - 1 -> Null
                                                   [] i >= k /\ i < size - 1 -> items[i + 1]
                                                   [] OTHER -> items[i]
      BY <1>2, <2>2
    <3>3. items' \in [0 .. Length - 1 -> Elements]
      <4>1. \A i \in 0 .. Length - 1 : items'[i] \in Elements
        BY <1>2, <2>2, <3>2 DEF Elements
      <4> QED
        BY <1>2, <2>2, <4>1
    <3>4. \A i \in 0 .. Length - 1 : i < size' \/ items'[i] = Null
      BY <1>1, <1>2, <2>2, <3>2, ListShape
    <3>5. \A j \in 1 .. size' : s[j] = items'[j - 1]
      BY <1>2, <2>2, <3>1, <3>2
    <3>6. SequenceInv' /\ Promise!Becomes(s)
      BY <1>1, <1>2, <3>1, <3>3, <3>4, <3>5, ListReached
    <3> QED
      BY <1>1, <2>2, <3>6, There, AnswerIs DEF Promise!At, Ok, Promise!Ok
  <2> QED
    BY <1>3, <2>1, <2>2
<1> QED
  BY <1>4 DEF Promise!Position

(* SetItem replaces the one at a position.                                   *)
LEMMA SetItemImplements ==
    ASSUME SequenceInv, SetItem
    PROVE  SequenceInv' /\ Promise!Position
<1>1. kind = "list" /\ UNCHANGED kind /\ IndexInv'
  BY ListKeeps, Shape DEF SetItem, Fails, Answers
<1>2. Length \in Nat \ {0} /\ size \in 0 .. Length /\ items \in [0 .. Length - 1 -> Elements]
  BY Shape
<1>3. PICK k \in Positions, v \in Elements :
        \/ k \notin 0 .. size - 1 /\ Fails("SetItem", k)
        \/ k \in 0 .. size - 1 /\ items' = [items EXCEPT ![k] = v] /\ size' = size
             /\ Answers("SetItem", k, Ok)
  <2>1. Positions \subseteq Int
    BY CollectionsAssumption DEF CollectionsAssumption
  <2> QED
    BY <1>2, <2>1 DEF SetItem, Elements
<1> DEFINE s == [Contents EXCEPT ![k + 1] = v]
<1>4. SequenceInv' /\ Promise!At("SetItem", k, k + 1 \in DOMAIN Contents, s, Promise!Ok)
  <2>1. CASE k \notin 0 .. size - 1 /\ Fails("SetItem", k)
    BY <1>1, <2>1, There, NotThere
  <2>2. CASE k \in 0 .. size - 1 /\ items' = [items EXCEPT ![k] = v] /\ size' = size
               /\ Answers("SetItem", k, Ok)
    <3>1. /\ s \in Seq(Elements) /\ Len(s) = size
          /\ \A j \in 1 .. size : s[j] = IF j = k + 1 THEN v ELSE items[j - 1]
      BY <1>1, <1>2, <2>2, ListShape
    <3> HIDE DEF s
    <3>2. items' \in [0 .. Length - 1 -> Elements]
            /\ \A i \in 0 .. Length - 1 : items'[i] = IF i = k THEN v ELSE items[i]
      BY <1>2, <2>2
    <3>3. \A i \in 0 .. Length - 1 : i < size' \/ items'[i] = Null
      BY <1>1, <1>2, <2>2, <3>2, ListShape
    <3>4. \A j \in 1 .. size' : s[j] = items'[j - 1]
      BY <1>2, <2>2, <3>1, <3>2
    <3>5. SequenceInv' /\ Promise!Becomes(s)
      BY <1>1, <1>2, <2>2, <3>1, <3>2, <3>3, <3>4, ListReached
    <3> QED
      BY <1>1, <2>2, <3>5, There, AnswerIs DEF Promise!At, Ok, Promise!Ok
  <2> QED
    BY <1>3, <2>1, <2>2
<1> QED
  BY <1>4 DEF Promise!Position, Elements

(* GetItem shows the one at a position.                                      *)
LEMMA GetItemImplements ==
    ASSUME SequenceInv, GetItem
    PROVE  SequenceInv' /\ Promise!Position
<1>1. kind = "list" /\ UNCHANGED <<kind, array>>
  BY DEF GetItem, Answers
<1>2. SequenceInv' /\ Promise!Stays
  BY <1>1, StaysIf
<1>3. PICK k \in Positions : Answers("GetItem", k, IF k < 0 \/ k >= size THEN Failed ELSE items[k])
  BY DEF GetItem
<1>4. size \in Nat /\ k \in Int
  BY Shape, CollectionsAssumption DEF CollectionsAssumption
<1>5. Held = ToSet(Contents) \ {Null}
  BY HeldIs
<1>6. Promise!At("GetItem", k, k + 1 \in DOMAIN Contents, Contents, Contents[k + 1])
  <2>1. CASE k \in 0 .. size - 1
    <3>1. Contents[k + 1] = items[k]
      <4>1. k + 1 \in 1 .. size /\ (k + 1) - 1 = k
        BY <1>4, <2>1
      <4>2. Contents[k + 1] = items[(k + 1) - 1]
        BY <1>1, <4>1, ListShape
      <4> QED
        BY <4>1, <4>2
    <3>2. Promise!Answers("GetItem", k, Contents[k + 1])
      BY <1>3, <1>4, <2>1, <3>1, AnswerIs
    <3>3. Promise!Becomes(Contents)
      BY <1>2, <1>5 DEF Promise!Stays, Promise!Becomes, Promise!ToSet, ToSet
    <3> QED
      BY <1>1, <2>1, <3>2, <3>3, There DEF Promise!At
  <2>2. CASE k \notin 0 .. size - 1
    <3>1. Promise!Answers("GetItem", k, Promise!Failed)
      BY <1>3, <1>4, <2>2, AnswerIs DEF Failed, Promise!Failed
    <3> QED
      BY <1>1, <1>2, <2>2, <3>1, There DEF Promise!At
  <2> QED
    BY <2>1, <2>2
<1> QED
  BY <1>2, <1>6 DEF Promise!Position

(* A call that gives the sequence it had changes nothing that is promised. *)
LEMMA StaysWhen ==
    ASSUME SequenceInv, Promise!Becomes(Contents)
    PROVE  Promise!Stays
<1>1. Held = ToSet(Contents) \ {Null}
  BY HeldIs
<1> QED
  BY <1>1 DEF Promise!Stays, Promise!Becomes, Promise!ToSet, ToSet

(* SetCapacity changes no contents.                                          *)
LEMMA SetCapacityImplements ==
    ASSUME SequenceInv, SetCapacity
    PROVE  SequenceInv' /\ Promise!SetCapacity
<1>1. kind = "list" /\ UNCHANGED kind /\ IndexInv'
  BY ListKeeps, Shape DEF SetCapacity, Fails, Answers
<1>2. Length \in Nat \ {0} /\ size \in 0 .. Length /\ items \in [0 .. Length - 1 -> Elements]
  BY Shape
<1>3. Len(Contents) = size
  BY <1>1, ListShape
<1>4. PICK n \in Positions \cap Nat :
        \/ Fails("SetCapacity", n)
        \/ n = Length /\ UNCHANGED <<kind, array>> /\ Answers("SetCapacity", n, Ok)
        \/ n >= size /\ items' = Resized(NewCapacity(n)) /\ UNCHANGED size
             /\ Answers("SetCapacity", n, Ok)
  <2>1. PICK n \in Positions \cap Nat :
            IF n # Length /\ (n < size \/ NewCapacity(n) > MaxCapacity) THEN Fails("SetCapacity", n)
            ELSE /\ items' = IF n = Length THEN items ELSE Resized(NewCapacity(n))
                 /\ Answers("SetCapacity", n, Ok) /\ UNCHANGED <<size, head, tail>>
    BY DEF SetCapacity
  <2> QED
    BY <1>1, <1>2, <2>1 DEF array
<1>5. CASE Fails("SetCapacity", n)
  <2>1. SequenceInv' /\ Promise!Stays /\ Promise!Answers("SetCapacity", n, Promise!Failed)
    BY <1>5, FailIs
  <2> QED
    BY <2>1 DEF Promise!SetCapacity
<1>6. CASE n = Length /\ UNCHANGED <<kind, array>> /\ Answers("SetCapacity", n, Ok)
  <2>1. SequenceInv' /\ Promise!Stays /\ Promise!Answers("SetCapacity", n, Promise!Ok)
    BY <1>6, StaysIf, AnswerIs DEF Ok, Promise!Ok
  <2>2. ~(n < Len(Contents))
    BY <1>2, <1>3, <1>6
  <2> QED
    BY <2>1, <2>2 DEF Promise!SetCapacity
<1>7. CASE n >= size /\ items' = Resized(NewCapacity(n)) /\ UNCHANGED size
             /\ Answers("SetCapacity", n, Ok)
  <2> DEFINE m == NewCapacity(n)
  <2>1. m \in Nat \ {0} /\ m >= size
    BY <1>2, <1>7, CollectionsAssumption DEF NewCapacity, CollectionsAssumption
  <2> HIDE DEF m
  <2>2. items' = [i \in 0 .. m - 1 |-> IF i < size THEN items[i] ELSE Null]
    BY <1>7 DEF Resized, m
  <2>3. items' \in [0 .. m - 1 -> Elements]
    BY <1>2, <2>1, <2>2 DEF Elements
  <2>4. \A i \in 0 .. m - 1 : i < size' \/ items'[i] = Null
    BY <1>7, <2>2
  <2>5. /\ Contents \in Seq(Elements)
        /\ \A j \in 1 .. size' : Contents[j] = items'[j - 1]
    BY <1>1, <1>2, <1>7, <2>1, <2>2, ListShape
  <2>6. SequenceInv' /\ Promise!Becomes(Contents)
    BY <1>1, <1>3, <1>7, <2>1, <2>3, <2>4, <2>5, ListReached
  <2>7. Promise!Stays /\ Promise!Answers("SetCapacity", n, Promise!Ok)
    BY <1>7, <2>6, StaysWhen, AnswerIs DEF Ok, Promise!Ok
  <2>8. ~(n < Len(Contents))
    BY <1>2, <1>3, <1>7
  <2> QED
    BY <2>6, <2>7, <2>8 DEF Promise!SetCapacity
<1> QED
  BY <1>4, <1>5, <1>6, <1>7

-----------------------------------------------------------------------------
(* What the invariant says of a ring buffer.                                 *)
LEMMA RingShape ==
    ASSUME SequenceInv, kind = "ring"
    PROVE  /\ Length \in Nat \ {0} /\ Length = Capacity /\ items \in [0 .. Length - 1 -> Elements]
           /\ head \in 0 .. Length - 1 /\ tail \in 0 .. Length - 1 /\ size \in 0 .. Length
           /\ head + size \in {tail, tail + Length}
           /\ Contents \in Seq(Elements) /\ Len(Contents) = size
           /\ \A j \in 1 .. size :
                Contents[j] = items[IF head + j - 1 < Length THEN head + j - 1
                  ELSE head + j - 1 - Length]
<1>1. \A j \in 1 .. size : Slot(kind, Length, head, size, j) =
            IF head + j - 1 < Length THEN head + j - 1 ELSE head + j - 1 - Length
  BY DEF Slot
<1>2. \A j \in 1 .. size : Contents[j] = items[Slot(kind, Length, head, size, j)]
  BY ContentsSeq
<1> QED
  BY <1>1, <1>2, Shape, Enclosed, ContentsSeq DEF SequenceInv

(* The ring buffer after a call.                                             *)
LEMMA RingReached ==
    ASSUME SequenceInv, IndexInv', kind = "ring", UNCHANGED kind,
           items' \in [0 .. Length - 1 -> Elements],
           NEW s \in Seq(Elements), Len(s) = size',
           \A j \in 1 .. size' :
              s[j] = items'[IF head' + j - 1 < Length THEN head' + j - 1 ELSE head' + j - 1 - Length]
    PROVE  SequenceInv' /\ Promise!Becomes(s)
<1>1. \A j \in 1 .. size' : s[j] = items'[Slot(kind, Length, head', size', j)]
  BY DEF Slot
<1> QED
  BY <1>1, RingShape, Reached

(* Push appends as many bytes as there is room for, in one piece or two.     *)
LEMMA PushNImplements ==
    ASSUME SequenceInv, "wrapped" \notin Optimizes, PushN
    PROVE  SequenceInv' /\ Promise!PushN
<1>1. kind = "ring" /\ UNCHANGED <<kind, head>>
  BY DEF PushN, Answers
<1>2. IndexInv'
  BY Shape, RingKeeps
<1>3. PICK data \in Blocks :
        LET n == Smaller(Len(data), Length - size)
        IN  /\ items' = (IF n <= Length - tail
                         THEN [i \in DOMAIN items |->
                                  IF i \in tail .. tail + n - 1 THEN data[i - tail + 1] ELSE items[i]]
                         ELSE [i \in DOMAIN items |->
                                  CASE i >= tail -> data[i - tail + 1]
                                    [] i < n - (Length - tail) -> data[(Length - tail) + i + 1]
                                    [] OTHER -> items[i]])
            /\ size' = size + n /\ Answers("PushN", data, n)
  BY DEF PushN
<1> DEFINE n == Smaller(Len(data), Length - size)
           s == Contents \o SubSeq(data, 1, n)
<1>4. data \in Seq(Elements) /\ Len(data) \in Nat
  BY CollectionsAssumption DEF CollectionsAssumption, Elements
<1>5. /\ Length \in Nat \ {0} /\ Length = Capacity /\ items \in [0 .. Length - 1 -> Elements]
      /\ head \in 0 .. Length - 1 /\ tail \in 0 .. Length - 1 /\ size \in 0 .. Length
      /\ head + size \in {tail, tail + Length}
  BY <1>1, RingShape
<1>6. n \in 0 .. Length - size /\ n <= Len(data)
  BY <1>4, <1>5 DEF Smaller
<1>7. n = IF Len(data) + Len(Contents) > Capacity THEN Capacity - Len(Contents) ELSE Len(data)
  BY <1>1, <1>4, <1>5, RingShape DEF Smaller
<1>8. /\ items' = (IF n <= Length - tail
                   THEN [i \in DOMAIN items |->
                            IF i \in tail .. tail + n - 1 THEN data[i - tail + 1] ELSE items[i]]
                   ELSE [i \in DOMAIN items |->
                            CASE i >= tail -> data[i - tail + 1]
                              [] i < n - (Length - tail) -> data[(Length - tail) + i + 1]
                              [] OTHER -> items[i]])
      /\ size' = size + n /\ Answers("PushN", data, n)
  BY <1>3
<1> HIDE DEF n
<1>9. /\ s \in Seq(Elements) /\ Len(s) = size + n
      /\ \A j \in 1 .. size + n : s[j] = IF j <= size THEN Contents[j] ELSE data[j - size]
  <2>1. SubSeq(data, 1, n) \in Seq(Elements) /\ Len(SubSeq(data, 1, n)) = n
          /\ \A j \in 1 .. n : SubSeq(data, 1, n)[j] = data[j]
    BY <1>4, <1>5, <1>6
  <2> DEFINE t == SubSeq(data, 1, n)
  <2> HIDE DEF t
  <2>2. t \in Seq(Elements) /\ Len(t) = n /\ \A j \in 1 .. n : t[j] = data[j]
    BY <2>1 DEF t
  <2>3. Contents \in Seq(Elements) /\ Len(Contents) = size
    BY <1>1, RingShape
  <2>4. /\ Contents \o t \in Seq(Elements) /\ Len(Contents \o t) = size + n
        /\ \A j \in 1 .. size + n : (Contents \o t)[j] = IF j <= size THEN Contents[j] ELSE t[j - size]
    BY <2>2, <2>3, Joined
  <2>5. \A j \in 1 .. size + n : j > size => t[j - size] = data[j - size]
    BY <1>5, <1>6, <2>2
  <2>6. s = Contents \o t
    BY DEF t
  <2>7. \A j \in 1 .. size + n : (Contents \o t)[j] = IF j <= size THEN Contents[j] ELSE data[j - size]
    <3> TAKE j \in 1 .. size + n
    <3>1. j \in Int /\ size \in Int
      BY <1>5, <1>6
    <3>2. CASE j <= size
      BY <2>4, <3>2
    <3>3. CASE j > size
      BY <2>4, <2>5, <3>1, <3>3
    <3>4. j <= size \/ j > size
      BY <3>1
    <3> QED
      BY <3>2, <3>3, <3>4, Zenon
  <2> QED
    BY <2>4, <2>6, <2>7
<1> HIDE DEF s
<1>10. ASSUME NEW i \in 0 .. Length - 1
       PROVE  IF n <= Length - tail
              THEN /\ i \in tail .. tail + n - 1 => items'[i] = data[i - tail + 1]
                   /\ i \notin tail .. tail + n - 1 => items'[i] = items[i]
              ELSE /\ i >= tail => items'[i] = data[i - tail + 1]
                   /\ i < tail /\ i < n - (Length - tail) => items'[i] = data[(Length - tail) + i + 1]
                   /\ i < tail /\ i >= n - (Length - tail) => items'[i] = items[i]
  <2>1. CASE n <= Length - tail
    BY <1>5, <1>8, <2>1
  <2>2. CASE ~(n <= Length - tail)
    BY <1>5, <1>6, <1>8, <2>2
  <2> QED
    BY <2>1, <2>2
<1>11. items' \in [0 .. Length - 1 -> Elements]
  <2>1. ASSUME NEW i \in 0 .. Length - 1 PROVE items'[i] \in Elements
    <3>1. \A q \in 1 .. Len(data) : data[q] \in Elements
      BY <1>4
    <3>2. CASE n <= Length - tail
      <4>1. i \in tail .. tail + n - 1 => i - tail + 1 \in 1 .. Len(data)
        BY <1>4, <1>5, <1>6
      <4> QED
        BY <1>5, <1>10, <3>1, <3>2, <4>1
    <3>3. CASE ~(n <= Length - tail)
      <4>1. /\ i >= tail => i - tail + 1 \in 1 .. Len(data)
            /\ i < n - (Length - tail) => (Length - tail) + i + 1 \in 1 .. Len(data)
        BY <1>4, <1>5, <1>6, <3>3
      <4> QED
        BY <1>5, <1>6, <1>10, <3>1, <3>3, <4>1
    <3> QED
      BY <3>2, <3>3
  <2>2. items' = [i \in 0 .. Length - 1 |-> items'[i]]
    <3>1. CASE n <= Length - tail
      BY <1>5, <1>8, <3>1
    <3>2. CASE ~(n <= Length - tail)
      BY <1>5, <1>8, <3>2
    <3> QED
      BY <3>1, <3>2
  <2> QED
    BY <2>1, <2>2
<1>12. \A j \in 1 .. size' :
          s[j] = items'[IF head' + j - 1 < Length THEN head' + j - 1 ELSE head' + j - 1 - Length]
  <2> TAKE j \in 1 .. size'
  <2> DEFINE p == IF head + j - 1 < Length THEN head + j - 1 ELSE head + j - 1 - Length
  <2>1. j \in 1 .. size + n /\ head' = head
    BY <1>1, <1>8
  <2>2. p \in 0 .. Length - 1
    BY <1>5, <1>6, <2>1
  <2>3. CASE j <= size
    <3>1. IF n <= Length - tail THEN ~(p \in tail .. tail + n - 1) ELSE ~(p >= tail)
            /\ ~(p < n - (Length - tail))
      BY <1>5, <1>6, <2>1, <2>3
    <3>2. s[j] = items[p]
      BY <1>1, <1>5, <1>9, <2>1, <2>3, RingShape
    <3> HIDE DEF p
    <3>3. items'[p] = items[p]
      BY <1>5, <1>6, <1>10, <2>2, <3>1
    <3> QED
      BY <2>1, <3>2, <3>3 DEF p
  <2>4. CASE j > size
    <3>1. IF n <= Length - tail THEN p \in tail .. tail + n - 1 /\ p - tail + 1 = j - size
          ELSE IF p >= tail THEN p - tail + 1 = j - size
          ELSE p < n - (Length - tail) /\ (Length - tail) + p + 1 = j - size
      BY <1>5, <1>6, <2>1, <2>4
    <3>2. s[j] = data[j - size]
      BY <1>5, <1>9, <2>1, <2>4
    <3> HIDE DEF p
    <3>3. items'[p] = data[j - size]
      <4>1. CASE n <= Length - tail
        BY <1>10, <2>2, <3>1, <4>1
      <4>2. CASE ~(n <= Length - tail) /\ p >= tail
        BY <1>10, <2>2, <3>1, <4>2
      <4>3. CASE ~(n <= Length - tail) /\ p < tail
        <5>1. ~(p >= tail)
          BY <1>5, <2>2, <4>3
        <5> QED
          BY <1>10, <2>2, <3>1, <4>3, <5>1
      <4>4. p >= tail \/ p < tail
        BY <1>5, <2>2
      <4> QED
        BY <4>1, <4>2, <4>3, <4>4
    <3> QED
      BY <2>1, <3>2, <3>3 DEF p
  <2> QED
    BY <1>5, <2>1, <2>3, <2>4
<1>13. SequenceInv' /\ Promise!Becomes(s)
  BY <1>1, <1>2, <1>8, <1>9, <1>11, <1>12, RingReached
<1> QED
  BY <1>7, <1>8, <1>13, AnswerIs DEF s, Promise!PushN

(* The elements of a part of a sequence.                                     *)
LEMMA Part ==
    ASSUME NEW s \in Seq(Elements), NEW m \in 1 .. Len(s) + 1, NEW n \in m - 1 .. Len(s)
    PROVE  /\ SubSeq(s, m, n) \in Seq(Elements) /\ Len(SubSeq(s, m, n)) = n - m + 1
           /\ \A j \in 1 .. n - m + 1 : SubSeq(s, m, n)[j] = s[m + j - 1]
  OBVIOUS

(* Pop takes as many bytes as there are, from one piece or two.              *)
LEMMA PopNImplements ==
    ASSUME SequenceInv, "wrapped" \notin Optimizes, PopN
    PROVE  SequenceInv' /\ Promise!PopN
<1>1. kind = "ring" /\ UNCHANGED <<kind, items>>
  BY DEF PopN, Answers
<1>2. IndexInv'
  BY Shape, RingKeeps
<1>3. PICK length \in Positions \cap Nat :
        LET n == Smaller(length, size)
            read == IF n <= Length - head THEN Wrapped(head + n) ELSE n - (Length - head)
            empty == n > 0 /\ size = n /\ tail = read
        IN  /\ head' = (IF empty THEN 0 ELSE read) /\ size' = size - n
            /\ Answers("PopN", length, [i \in 1 .. n |-> IF i <= Length - head THEN items[head + i - 1]
                                                        ELSE items[i - (Length - head) - 1]])
  BY DEF PopN
<1> DEFINE n == Smaller(length, size)
           read == IF n <= Length - head THEN Wrapped(head + n) ELSE n - (Length - head)
           s == SubSeq(Contents, n + 1, Len(Contents))
           answer == [i \in 1 .. n |-> IF i <= Length - head THEN items[head + i - 1]
                                       ELSE items[i - (Length - head) - 1]]
<1>4. /\ Length \in Nat \ {0} /\ items \in [0 .. Length - 1 -> Elements]
      /\ head \in 0 .. Length - 1 /\ size \in 0 .. Length
      /\ Contents \in Seq(Elements) /\ Len(Contents) = size
  BY <1>1, RingShape
<1>5. n \in 0 .. size
  BY <1>4 DEF Smaller
<1>6. n = IF length > Len(Contents) THEN Len(Contents) ELSE length
  BY <1>4 DEF Smaller
<1>7. /\ head' = (IF n > 0 /\ size = n /\ tail = read THEN 0 ELSE read) /\ size' = size - n
      /\ Answers("PopN", length, answer)
  BY <1>3
<1> HIDE DEF n
<1>8. read = IF head + n < Length THEN head + n ELSE head + n - Length
  BY <1>4, <1>5 DEF Wrapped
<1> HIDE DEF read
<1>9. answer = SubSeq(Contents, 1, n)
  <2> DEFINE t == SubSeq(Contents, 1, n)
  <2>1. t \in Seq(Elements) /\ Len(t) = n - 1 + 1
          /\ \A j \in 1 .. n - 1 + 1 : t[j] = Contents[1 + j - 1]
    BY <1>4, <1>5, Part
  <2> HIDE DEF t
  <2>2. Len(t) = n /\ \A j \in 1 .. n : t[j] = Contents[j]
    BY <1>4, <1>5, <2>1
  <2>3. \A j \in 1 .. n : t[j] = IF j <= Length - head THEN items[head + j - 1]
                                 ELSE items[j - (Length - head) - 1]
    <3> TAKE j \in 1 .. n
    <3>1. j \in 1 .. size /\ (j <= Length - head <=> head + j - 1 < Length)
          /\ j - (Length - head) - 1 = head + j - 1 - Length
      BY <1>4, <1>5
    <3>2. Contents[j] = items[IF head + j - 1 < Length THEN head + j - 1 ELSE head + j - 1 - Length]
      BY <1>1, <3>1, RingShape
    <3> QED
      BY <2>2, <3>1, <3>2
  <2>4. t = [j \in 1 .. n |-> t[j]]
    BY <2>1, <2>2
  <2>5. answer = t
    BY <2>3, <2>4
  <2> QED
    BY <2>5 DEF t
<1> HIDE DEF answer
<1>10. /\ s \in Seq(Elements) /\ Len(s) = size'
       /\ \A j \in 1 .. size' : s[j] = Contents[n + j]
  <2>1. /\ s \in Seq(Elements) /\ Len(s) = size - (n + 1) + 1
        /\ \A j \in 1 .. size - (n + 1) + 1 : s[j] = Contents[n + 1 + j - 1]
    BY <1>4, <1>5, Part
  <2> HIDE DEF s
  <2>2. size' = size - (n + 1) + 1 /\ size' = size - n
    BY <1>4, <1>5, <1>7
  <2>3. \A j \in 1 .. size' : n + 1 + j - 1 = n + j
    BY <1>4, <1>5, <2>2
  <2> QED
    BY <2>1, <2>2, <2>3
<1> HIDE DEF s
<1>11. \A j \in 1 .. size' :
          s[j] = items'[IF head' + j - 1 < Length THEN head' + j - 1 ELSE head' + j - 1 - Length]
  <2> TAKE j \in 1 .. size'
  <2>1. j \in 1 .. size - n /\ n + j \in 1 .. size /\ head' = read
    BY <1>4, <1>5, <1>7
  <2>2. Contents[n + j] = items[IF head + (n + j) - 1 < Length THEN head + (n + j) - 1
          ELSE head + (n + j) - 1 - Length]
    BY <1>1, <2>1, RingShape
  <2>3. (IF head + (n + j) - 1 < Length THEN head + (n + j) - 1 ELSE head + (n + j) - 1 - Length)
        = (IF read + j - 1 < Length THEN read + j - 1 ELSE read + j - 1 - Length)
    BY <1>4, <1>5, <1>8, <2>1
  <2> QED
    BY <1>1, <1>10, <2>1, <2>2, <2>3
<1>12. SequenceInv' /\ Promise!Becomes(s)
  BY <1>1, <1>2, <1>4, <1>10, <1>11, RingReached
<1> QED
  BY <1>6, <1>7, <1>9, <1>12, AnswerIs DEF s, Promise!PopN

(* Where the two pieces do not overlap, memcpy copies, whatever its order. *)
LEMMA MovedDownIs ==
    ASSUME NEW m \in Nat \ {0}, NEW b \in [0 .. m - 1 -> Elements],
           NEW src \in Nat \ {0}, NEW n \in 0 .. src, src + n <= m,
           NEW c \in MovedDown(b, src, n)
    PROVE  c \in [0 .. m - 1 -> Elements] /\ \A i \in 0 .. n - 1 : c[i] = b[i + src]
<1> DEFINE source(i) == CHOOSE j \in DOMAIN b : j >= n /\ j <= n + src - 1 /\ (j - i) % src = 0
<1>1. ASSUME NEW i \in 0 .. n - 1
      PROVE  source(i) = i + src
  <2>1. ASSUME NEW j \in DOMAIN b, j >= n, j <= n + src - 1
        PROVE  (j - i) % src = 0 <=> j = i + src
    <3> DEFINE d == j - i
    <3>1. d \in 0 .. 2 * src - 1 /\ d > 0 /\ (d = src <=> j = i + src)
      BY <2>1
    <3> HIDE DEF d
    <3>2. d % src = IF d < src THEN d ELSE d - src
      BY <3>1, Around
    <3>3. d % src = 0 <=> j = i + src
      BY <3>1, <3>2
    <3> QED
      BY <3>3 DEF d
  <2>2. i + src \in DOMAIN b /\ i + src >= n /\ i + src <= n + src - 1
    OBVIOUS
  <2>3. (i + src - i) % src = 0
    BY <2>1, <2>2
  <2> QED
    BY <2>1, <2>2
<1>2. c \in {[i \in DOMAIN b |-> IF i < n THEN b[i + src] ELSE b[i]],
             [i \in DOMAIN b |-> IF i < n THEN b[source(i)] ELSE b[i]]}
  BY DEF MovedDown
<1> HIDE DEF source
<1>3. c = [i \in DOMAIN b |-> IF i < n THEN b[i + src] ELSE b[i]]
  <2>1. \A i \in DOMAIN b : i < n => source(i) = i + src
    BY <1>1
  <2> QED
    BY <1>2, <2>1
<1> QED
  BY <1>3

(* OptimizeSequence moves the bytes and changes none.                        *)
LEMMA OptimizeSequenceImplements ==
    ASSUME SequenceInv, Optimizes \subseteq {"ahead"}, OptimizeSequence
    PROVE  SequenceInv' /\ Promise!OptimizeSequence
<1>1. kind = "ring" /\ UNCHANGED kind /\ Answers("OptimizeSequence", 0, Ok)
  BY DEF OptimizeSequence, Answers
<1>2. IndexInv'
  BY Shape, RingKeeps
<1>3. \/ UNCHANGED array
      \/ /\ size # 0 /\ head # 0 /\ head < tail /\ size <= head
         /\ items' \in MovedDown(items, head, size)
         /\ head' = 0 /\ UNCHANGED size
  BY DEF OptimizeSequence
<1>4. SequenceInv' /\ Promise!Stays
  <2>1. CASE UNCHANGED array
    BY <1>1, <2>1, StaysIf
  <2>2. CASE /\ size # 0 /\ head # 0 /\ head < tail /\ size <= head
             /\ items' \in MovedDown(items, head, size)
             /\ head' = 0 /\ UNCHANGED size
    <3>1. /\ Length \in Nat \ {0} /\ items \in [0 .. Length - 1 -> Elements]
          /\ head \in 0 .. Length - 1 /\ tail \in 0 .. Length - 1 /\ size \in 0 .. Length
          /\ head + size = tail
      BY <1>1, <2>2, RingShape
    <3>2. items' \in [0 .. Length - 1 -> Elements]
            /\ \A i \in 0 .. size - 1 : items'[i] = items[i + head]
      BY <2>2, <3>1, MovedDownIs
    <3>3. Contents \in Seq(Elements) /\ Len(Contents) = size'
      BY <1>1, <2>2, RingShape
    <3>4. \A j \in 1 .. size' :
              Contents[j] = items'[IF head' + j - 1 < Length THEN head' + j - 1
                ELSE head' + j - 1 - Length]
      <4> TAKE j \in 1 .. size'
      <4>1. /\ j \in 1 .. size /\ j - 1 \in 0 .. size - 1 /\ (j - 1) + head = head + j - 1
            /\ (IF head' + j - 1 < Length THEN head' + j - 1 ELSE head' + j - 1 - Length) = j - 1
            /\ head + j - 1 < Length
        BY <2>2, <3>1
      <4>2. Contents[j] = items[head + j - 1]
        BY <1>1, <4>1, RingShape
      <4> QED
        BY <3>2, <4>1, <4>2
    <3> QED
      BY <1>1, <1>2, <3>2, <3>3, <3>4, RingReached, StaysWhen
  <2> QED
    BY <1>3, <2>1, <2>2
<1> QED
  BY <1>1, <1>4, AnswerIs DEF Promise!OptimizeSequence, Ok, Promise!Ok

-----------------------------------------------------------------------------
(* Every queue, stack, list and ring buffer is a sequence to its users, for every     *)
(* capacity, growth, content and sequence of calls: the calls that go around the end   *)
(* of the array and those that replace it return and leave what they promise, and      *)
(* nothing stays alive in a slot that it has left (CLR_RT_HeapBlock_Queue.cpp,         *)
(* _Stack.cpp, _ArrayList.cpp, nanoRingBuffer.c).  It excludes the two places where    *)
(* they do not: CopyTo and growth of a queue with targets of DATATYPE_OBJECT, which    *)
(* copy backwards, and OptimizeSequence unless the contents fit in front of the read   *)
(* index.                                                                          *)
THEOREM SequenceImplemented ==
    ASSUME Optimizes \subseteq {"ahead"}, ~ObjectArrays
    PROVE  Spec => IsSequence
<1>1. Init => SequenceInv /\ Promise!Init
  <2> SUFFICES ASSUME Init PROVE SequenceInv /\ Promise!Init
    OBVIOUS
  <2>1. PICK n \in Nat \ {0} : items = Nothing(n) /\ (kind = "ring" => n = Capacity)
    BY CollectionsAssumption DEF Init, CollectionsAssumption
  <2>2. DOMAIN items = 0 .. n - 1 /\ items \in [0 .. n - 1 -> Elements]
    BY <2>1 DEF Nothing, Elements
  <2>3. Length = n
    BY <2>2, SlotCount DEF Length
  <2>4. IndexInv
    BY <2>2, <2>3 DEF Init, IndexInv, InArray, TailFollows
  <2>5. SequenceInv
    BY <2>1, <2>2, <2>3, <2>4 DEF SequenceInv, Nothing
  <2>6. Contents = <<>>
    BY <2>5, EmptyIs DEF Init
  <2>7. Held = {}
    BY <2>5, <2>6, HeldIs DEF ToSet
  <2> QED
    BY <2>5, <2>6, <2>7 DEF Init, Promise!Init, NoCall, Promise!NoCall, Ok, Promise!Ok
<1>2. SequenceInv /\ [Next]_vars => SequenceInv' /\ [Promise!Next]_<<kind, Contents, Held, call>>
  <2> SUFFICES ASSUME SequenceInv, [Next]_vars
               PROVE  SequenceInv' /\ [Promise!Next]_<<kind, Contents, Held, call>>
    OBVIOUS
  <2>1. CASE Enqueue \/ Push \/ Add
    BY <2>1, EnqueueImplements, PushImplements, AddImplements DEF Promise!Next
  <2>2. CASE Dequeue \/ Pop
    BY <2>2, DequeueImplements, PopImplements DEF Promise!Next
  <2>3. CASE PeekQueue \/ PeekStack
    BY <2>3, PeekImplements DEF Promise!Next
  <2>4. CASE ClearQueue \/ ClearStack \/ ClearList
    BY <2>4, ClearImplements DEF Promise!Next
  <2>5. CASE CopyTo
    BY <2>5, CopyToImplements DEF Promise!Next
  <2>6. CASE Insert \/ RemoveItem \/ SetItem \/ GetItem \/ SetCapacity
    <3>1. kind = "list"
      BY <2>6 DEF Insert, RemoveItem, SetItem, GetItem, SetCapacity
    <3> QED
      BY <2>6, <3>1, InsertImplements, RemoveItemImplements, SetItemImplements, GetItemImplements,
         SetCapacityImplements DEF Promise!Next, Promise!List
  <2>7. CASE PushN \/ PopN \/ OptimizeSequence
    <3>1. kind = "ring"
      BY <2>7 DEF PushN, PopN, OptimizeSequence
    <3> QED
      BY <2>7, <3>1, PushNImplements, PopNImplements, OptimizeSequenceImplements
           DEF Promise!Next, Promise!Ring
  <2>8. CASE UNCHANGED vars
    <3>1. UNCHANGED <<kind, array>> /\ UNCHANGED call
      BY <2>8 DEF vars
    <3> QED
      BY <3>1, StaysIf DEF Promise!Stays
  <2> QED
    BY <2>1, <2>2, <2>3, <2>4, <2>5, <2>6, <2>7, <2>8 DEF Next
<1> QED
  BY <1>1, <1>2, PTL DEF Spec, IsSequence, Promise!Spec
=============================================================================
