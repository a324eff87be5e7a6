-------------------------- MODULE NativeEventsProofs --------------------------
(***************************************************************************)
(* What holds of the way of a hardware event for every number of dispatchers,   *)
(* slots and events.                                                         *)
(*                                                                          *)
(* The ring buffer is the sequence of its records (Ring), the state of the      *)
(* transfer or the removal says which of its slots the engine has in hand       *)
(* (InHand), and every step is one of a few on two sequences: the records that   *)
(* have left the buffer and those that are in it (Flow).                       *)
(***************************************************************************)
EXTENDS NativeEvents, SequenceTheorems, TLAPS

Lists == INSTANCE ListProofs

-----------------------------------------------------------------------------
(* The ring buffer as a sequence.                                             *)

(* The slot of the i-th record when r is the reader.                           *)
At(r, i) == (r + i - 1) % Size

Count(r, w, f) == IF f THEN Size ELSE (w - r) % Size

Ring(sl, r, n) == [i \in 1..n |-> sl[At(r, i)]]

RingOK(r, w, f) ==
    /\ r \in Indices /\ w \in Indices /\ f \in BOOLEAN
    /\ f => w = r

(* The slots, with the record that was pushed as AssignFrom is about to write it. *)
Written(sl, en) == IF en.pc = "assign" THEN [sl EXCEPT ![en.to] = sl[en.slot]] ELSE sl

(* HalRecords of any state.                                                   *)
Hal(sl, r, n, en) ==
    IF en.pc = "pop" THEN Tail(Ring(sl, r, n))
    ELSE IF en.pc = "push" THEN Append(Ring(sl, r, n), sl[en.slot])
    ELSE Ring(Written(sl, en), r, n)

EngineType ==
    [pc : {"run", "peek", "copy", "pop", "remove", "push", "assign"},
     slot : 0..Size, to : 0..Size, left : Nat, disp : Dispatchers \cup {Nobody}, last : BOOLEAN]

Removing(en) == en.pc \in {"remove", "push", "assign"}

(* The slots the engine has in hand: the oldest one while it is copied and        *)
(* popped; during a removal the one in front of the reader, which no interrupt      *)
(* reaches, and the one that was pushed, which is in the buffer.                *)
InHand(r, n, f, en) ==
    /\ en.pc \in {"run", "peek", "remove"} => en.slot = NoSlot
    /\ en.pc \in {"copy", "pop"} => en.slot = r /\ n >= 1
    /\ en.pc = "remove" => en.left <= n
    /\ en.pc = "push" =>
          /\ en.slot \in Indices /\ r = Incremented(en.slot) /\ ~f
          /\ en.left <= n
    /\ en.pc = "assign" =>
          /\ en.slot \in Indices /\ en.to \in Indices
          /\ en.left <= n - 1
          /\ \/ en.to = en.slot /\ f
             \/ /\ en.to # en.slot /\ r = Incremented(en.slot) /\ ~f
                /\ \E i \in 1..n : en.to = At(r, i)
    /\ ~Removing(en) => en.left = 0

-----------------------------------------------------------------------------
(* The events on their way: tr are the records that have left the buffer, in the  *)
(* thread and in the application queue, and hal those that are in it.            *)

Once(tr, hal) ==
    /\ \A i, j \in 1..Len(tr) : tr[i].event = tr[j].event => i = j
    /\ \A i, j \in 1..Len(hal) : hal[i].event = hal[j].event => i = j
    /\ \A i \in 1..Len(tr), j \in 1..Len(hal) : tr[i].event # hal[j].event

Accounted(tr, hal, g, k) ==
    /\ g \subseteq 1..k
    /\ \A i \in 1..Len(tr) : tr[i].event \in 1..k /\ tr[i].event \notin g
    /\ \A i \in 1..Len(hal) : hal[i].event \in 1..k /\ hal[i].event \notin g
    /\ \A e \in 1..k : \/ e \in g
                       \/ \E i \in 1..Len(tr) : tr[i].event = e
                       \/ \E i \in 1..Len(hal) : hal[i].event = e

(* A removal has l of the records of the buffer before it: those are older than    *)
(* the ones it has put back behind them.                                      *)
InOrder(tr, hal, l) ==
    /\ \A i, j \in 1..Len(tr) : i < j => tr[i].event < tr[j].event
    /\ \A i \in 1..Len(tr), j \in 1..Len(hal) : tr[i].event < hal[j].event
    /\ \A i, j \in 1..Len(hal) : i < j /\ (j <= l \/ l < i) => hal[i].event < hal[j].event
    /\ \A i, j \in 1..Len(hal) : i <= l /\ l < j => hal[j].event < hal[i].event

Flow(tr, hal, g, k, l, s) ==
    /\ tr \in Seq(Records) /\ hal \in Seq(Records)
    /\ Once(tr, hal)
    /\ Accounted(tr, hal, g, k)
    /\ s \/ InOrder(tr, hal, l)

-----------------------------------------------------------------------------
(* Arithmetic modulo the size.                                                *)

LEMMA Sizes == Size \in Nat /\ Size >= 1 /\ MaxEvents \in Nat
BY NativeEventsAssumption DEF NativeEventsAssumption

LEMMA Around ==
    ASSUME NEW x \in 0..(2 * Size - 1)
    PROVE  x % Size = IF x < Size THEN x ELSE x - Size
<1>1. Size \in Nat /\ Size >= 1 /\ x \in Nat
  BY Sizes
<1>3. CASE x < Size
  BY <1>1, <1>3
<1>4. CASE x >= Size
  BY <1>1, <1>4
<1> QED
  BY <1>1, <1>3, <1>4

LEMMA AtValue ==
    ASSUME NEW r \in Indices, NEW i \in 1..(Size + 1)
    PROVE  /\ At(r, i) \in Indices
           /\ r + i - 1 < Size => At(r, i) = r + i - 1
           /\ r + i - 1 >= Size => At(r, i) = r + i - 1 - Size
<1>1. Size \in Nat /\ Size >= 1 /\ r \in Int /\ i \in Int
  BY Sizes DEF Indices
<1>2. CASE r + i - 1 <= 2 * Size - 1
  <2>1. r + i - 1 \in 0..(2 * Size - 1)
    BY <1>1, <1>2 DEF Indices
  <2> QED
    BY <2>1, <1>1, Around DEF At, Indices
<1>3. CASE r + i - 1 > 2 * Size - 1
  BY <1>1, <1>3 DEF Indices
<1> QED
  BY <1>1, <1>2, <1>3

LEMMA IncrementedValue ==
    ASSUME NEW i \in Indices
    PROVE  /\ Incremented(i) \in Indices
           /\ i + 1 < Size => Incremented(i) = i + 1
           /\ i + 1 >= Size => Incremented(i) = 0
<1>1. Size \in Nat /\ Size >= 1 /\ i + 1 \in 0..(2 * Size - 1)
  BY Sizes DEF Indices
<1> QED
  BY <1>1, Around DEF Incremented, Indices

(* The count, without a modulus.                                              *)
LEMMA CountValue ==
    ASSUME NEW r, NEW w, NEW f, RingOK(r, w, f)
    PROVE  /\ Count(r, w, f) \in 0..Size
           /\ f => Count(r, w, f) = Size
           /\ ~f /\ r <= w => Count(r, w, f) = w - r
           /\ ~f /\ w < r => Count(r, w, f) = w - r + Size
<1>1. Size \in Nat /\ Size >= 1 /\ r \in 0..(Size - 1) /\ w \in 0..(Size - 1) /\ f \in BOOLEAN
  BY Sizes DEF RingOK, Indices
<1>2. CASE f
  BY <1>1, <1>2 DEF Count
<1>3. CASE ~f /\ r <= w
  <2>1. w - r \in 0..(2 * Size - 1) /\ w - r < Size
    BY <1>1, <1>3
  <2> QED
    BY <1>1, <1>3, <2>1, Around DEF Count
<1>4. CASE ~f /\ w < r
  <2>1. w - r = (w - r + Size) - Size /\ w - r + Size \in 0..(Size - 1)
    BY <1>1, <1>4
  <2>2. (w - r) % Size = w - r + Size
    BY <1>1, <1>4, <2>1
  <2> QED
    BY <1>1, <1>4, <2>1, <2>2 DEF Count
<1> QED
  BY <1>1, <1>2, <1>3, <1>4

LEMMA AtInjective ==
    ASSUME NEW r \in Indices, NEW i \in 1..Size, NEW j \in 1..Size, At(r, i) = At(r, j)
    PROVE  i = j
<1>1. i \in 1..(Size + 1) /\ j \in 1..(Size + 1) /\ Size \in Nat /\ r \in Int
  BY Sizes DEF Indices
<1> QED
  BY <1>1, AtValue DEF Indices

(* The writer is the slot behind the last record.                              *)
LEMMA WriterAt ==
    ASSUME NEW r, NEW w, NEW f, RingOK(r, w, f)
    PROVE  w = At(r, Count(r, w, f) + 1)
<1> DEFINE n == Count(r, w, f)
<1>1. Size \in Nat /\ Size >= 1 /\ r \in Indices /\ w \in Indices
  BY Sizes DEF RingOK
<1>2. n \in 0..Size /\ (f => n = Size /\ w = r) /\ (~f /\ r <= w => n = w - r)
      /\ (~f /\ w < r => n = w - r + Size)
  BY CountValue DEF RingOK
<1> HIDE DEF n
<1>3. n + 1 \in 1..(Size + 1)
  BY <1>1, <1>2
<1>4. /\ r + (n + 1) - 1 < Size => At(r, n + 1) = r + (n + 1) - 1
      /\ r + (n + 1) - 1 >= Size => At(r, n + 1) = r + (n + 1) - 1 - Size
  BY <1>1, <1>3, AtValue
<1>5. w = At(r, n + 1)
  BY <1>1, <1>2, <1>4 DEF Indices
<1> QED
  BY <1>5 DEF n

-----------------------------------------------------------------------------
(* What the operations of the ring buffer do to its indices.                     *)

LEMMA PushIndices ==
    ASSUME NEW r, NEW w, NEW f, RingOK(r, w, f), ~f
    PROVE  LET w2 == Incremented(w)
               f2 == w2 = r
           IN  RingOK(r, w2, f2) /\ Count(r, w2, f2) = Count(r, w, f) + 1
<1> DEFINE w2 == Incremented(w)
           f2 == w2 = r
<1>1. Size \in Nat /\ Size >= 1 /\ r \in Indices /\ w \in Indices
  BY Sizes DEF RingOK
<1>2. w2 \in Indices /\ (w + 1 < Size => w2 = w + 1) /\ (w + 1 >= Size => w2 = 0)
  BY <1>1, IncrementedValue
<1>3. RingOK(r, w2, f2)
  BY <1>1, <1>2 DEF RingOK
<1>4. (r <= w => Count(r, w, f) = w - r) /\ (w < r => Count(r, w, f) = w - r + Size)
  BY CountValue
<1>5. f2 <=> w2 = r
  OBVIOUS
<1> HIDE DEF w2, f2
<1>6. /\ f2 => Count(r, w2, f2) = Size
      /\ ~f2 /\ r <= w2 => Count(r, w2, f2) = w2 - r
      /\ ~f2 /\ w2 < r => Count(r, w2, f2) = w2 - r + Size
  BY <1>3, CountValue
<1>7. Count(r, w2, f2) = Count(r, w, f) + 1
  BY <1>1, <1>2, <1>4, <1>5, <1>6 DEF Indices
<1> QED
  BY <1>3, <1>7 DEF w2, f2

LEMMA PopIndices ==
    ASSUME NEW r, NEW w, NEW f, RingOK(r, w, f), Count(r, w, f) >= 1
    PROVE  /\ RingOK(Incremented(r), w, FALSE)
           /\ Count(Incremented(r), w, FALSE) = Count(r, w, f) - 1
<1> DEFINE r2 == Incremented(r)
<1>1. Size \in Nat /\ Size >= 1 /\ r \in Indices /\ w \in Indices /\ (f => w = r)
  BY Sizes DEF RingOK
<1>2. r2 \in Indices /\ (r + 1 < Size => r2 = r + 1) /\ (r + 1 >= Size => r2 = 0)
  BY <1>1, IncrementedValue
<1>3. RingOK(r2, w, FALSE)
  BY <1>1, <1>2 DEF RingOK
<1>4. /\ f => Count(r, w, f) = Size
      /\ ~f /\ r <= w => Count(r, w, f) = w - r
      /\ ~f /\ w < r => Count(r, w, f) = w - r + Size
  BY CountValue
<1> DEFINE n == Count(r, w, f)
           n2 == Count(r2, w, FALSE)
<1>5. /\ r2 <= w => n2 = w - r2
      /\ w < r2 => n2 = w - r2 + Size
  BY <1>3, CountValue
<1>6. /\ f => n = Size
      /\ ~f /\ r <= w => n = w - r
      /\ ~f /\ w < r => n = w - r + Size
      /\ n >= 1 /\ n \in Int
  BY <1>4, CountValue, Sizes
<1>7. r \in Int /\ w \in Int /\ r2 \in Int /\ 0 <= r /\ r < Size /\ 0 <= w /\ w < Size
      /\ f \in BOOLEAN
  BY <1>1, <1>2 DEF Indices, RingOK
<1> HIDE DEF r2, n, n2
<1>8. n2 = n - 1
  BY <1>1, <1>2, <1>5, <1>6, <1>7
<1> QED
  BY <1>3, <1>8 DEF r2, n, n2

LEMMA EmptyIndices ==
    ASSUME NEW r, NEW w, NEW f, RingOK(r, w, f)
    PROVE  Count(r, w, f) = 0 <=> w = r /\ ~f
<1>1. Size \in Nat /\ Size >= 1 /\ r \in Indices /\ w \in Indices /\ (f => w = r)
  BY Sizes DEF RingOK
<1> QED
  BY <1>1, CountValue DEF Indices

LEMMA FullIndices ==
    ASSUME NEW r, NEW w, NEW f, RingOK(r, w, f)
    PROVE  Count(r, w, f) = Size <=> f
<1>1. Size \in Nat /\ Size >= 1 /\ r \in Indices /\ w \in Indices /\ f \in BOOLEAN
  BY Sizes DEF RingOK
<1> QED
  BY <1>1, CountValue DEF Indices

LEMMA DropIndices ==
    ASSUME NEW r, NEW w, NEW f, RingOK(r, w, f), f
    PROVE  /\ RingOK(Incremented(r), Incremented(w), TRUE)
           /\ Count(Incremented(r), Incremented(w), TRUE) = Size
<1>1. w = r /\ r \in Indices
  BY DEF RingOK
<1> QED
  BY <1>1, IncrementedValue DEF RingOK, Count

-----------------------------------------------------------------------------
(* What they do to its records.                                               *)

LEMMA RingLength ==
    ASSUME NEW sl, NEW r, NEW n \in Nat
    PROVE  Len(Ring(sl, r, n)) = n /\ \A i \in 1..n : Ring(sl, r, n)[i] = sl[At(r, i)]
BY DEF Ring

LEMMA RingTail ==
    ASSUME NEW sl, NEW r \in Indices, NEW n \in 1..Size
    PROVE  Ring(sl, Incremented(r), n - 1) = Tail(Ring(sl, r, n))
<1>1. Size \in Nat /\ Size >= 1 /\ n \in Nat /\ n >= 1
  BY Sizes
<1>2. Tail(Ring(sl, r, n)) = [i \in 1..(n - 1) |-> sl[At(r, i + 1)]]
  BY <1>1 DEF Ring
<1>3. ASSUME NEW i \in 1..(n - 1)
      PROVE  At(Incremented(r), i) = At(r, i + 1)
  <2>1. i \in 1..(Size + 1) /\ i + 1 \in 1..(Size + 1)
    BY <1>1
  <2>2. /\ Incremented(r) \in Indices
        /\ r + 1 < Size => Incremented(r) = r + 1
        /\ r + 1 >= Size => Incremented(r) = 0
    BY IncrementedValue
  <2>3. /\ Incremented(r) + i - 1 < Size => At(Incremented(r), i) = Incremented(r) + i - 1
        /\ Incremented(r) + i - 1 >= Size => At(Incremented(r), i) = Incremented(r) + i - 1 - Size
    BY <2>1, <2>2, AtValue
  <2>4. /\ r + (i + 1) - 1 < Size => At(r, i + 1) = r + (i + 1) - 1
        /\ r + (i + 1) - 1 >= Size => At(r, i + 1) = r + (i + 1) - 1 - Size
    BY <2>1, AtValue
  <2> QED
    BY <1>1, <2>1, <2>2, <2>3, <2>4 DEF Indices
<1> QED
  BY <1>2, <1>3 DEF Ring

Slots == [Indices -> Records \cup {NoRecord}]

LEMMA RingType ==
    ASSUME NEW sl \in Slots, NEW r \in Indices, NEW n \in 0..Size
    PROVE  Ring(sl, r, n) \in Seq(Records \cup {NoRecord})
<1>1. \A i \in 1..n : At(r, i) \in Indices
  BY AtValue, Sizes
<1>2. \A i \in 1..n : sl[At(r, i)] \in Records \cup {NoRecord}
  BY <1>1 DEF Slots
<1>3. n \in Nat
  BY Sizes
<1> QED
  BY <1>2, <1>3 DEF Ring

(* sl2 is sl with x in the slot w.                                              *)
Put(sl2, sl, w, x) == sl2 \in Slots /\ sl2[w] = x /\ \A i \in Indices : i # w => sl2[i] = sl[i]

LEMMA PutIs ==
    ASSUME NEW sl \in Slots, NEW w \in Indices, NEW x \in Records \cup {NoRecord}
    PROVE  Put([sl EXCEPT ![w] = x], sl, w, x)
BY DEF Put, Slots

LEMMA RingPut ==
    ASSUME NEW sl \in Slots, NEW r \in Indices, NEW n \in 0..(Size - 1), NEW m, m = n + 1,
           NEW w, w = At(r, m), NEW x, NEW sl2, Put(sl2, sl, w, x)
    PROVE  Ring(sl2, r, m) = Append(Ring(sl, r, n), x)
<1>1. Size \in Nat /\ n \in Nat /\ m \in 1..(Size + 1)
  BY Sizes
<1>2. w \in Indices
  BY <1>1, AtValue
<1> DEFINE All == Records \cup {NoRecord}
<1>0. n \in 0..Size /\ x \in All
  BY <1>1, <1>2 DEF Slots, Put
<1>s. Ring(sl, r, n) \in Seq(All)
  BY <1>0, RingType
<1> HIDE DEF All
<1>3. \A i \in 1..n : At(r, i) \in Indices /\ At(r, i) # w
  <2> SUFFICES ASSUME NEW i \in 1..n
               PROVE  At(r, i) \in Indices /\ At(r, i) # w
    OBVIOUS
  <2>1. i \in 1..(Size + 1) /\ i \in 1..Size /\ m \in 1..Size /\ i # m
    BY <1>1
  <2> QED
    BY <2>1, AtValue, AtInjective
<1>4. \A i \in 1..n : sl2[At(r, i)] = sl[At(r, i)]
  BY <1>3 DEF Put
<1>5. sl2[At(r, m)] = x
  BY DEF Put
<1>6. Len(Ring(sl, r, n)) = n
  BY <1>1, RingLength
<1>7. Append(Ring(sl, r, n), x) = [i \in 1..(n + 1) |-> IF i = n + 1 THEN x ELSE sl[At(r, i)]]
  BY <1>0, <1>1, <1>s, <1>6 DEF Ring
<1>8. Ring(sl2, r, n + 1) = [i \in 1..(n + 1) |-> IF i = n + 1 THEN x ELSE sl[At(r, i)]]
  <2>1. \A i \in 1..(n + 1) : sl2[At(r, i)] = IF i = n + 1 THEN x ELSE sl[At(r, i)]
    BY <1>1, <1>4, <1>5
  <2> QED
    BY <2>1 DEF Ring
<1> QED
  BY <1>7, <1>8, Zenon

-----------------------------------------------------------------------------
(* The steps of the flow.                                                     *)

LEMMA RecordsType == \A x \in Records : x.event \in 1..MaxEvents /\ x.disp \in Dispatchers
BY DEF Records

(* An interrupt comes after all others.                                        *)
LEMMA FlowRaised ==
    ASSUME NEW tr, NEW hal, NEW g, NEW k \in Nat, NEW l \in Nat, NEW s, Flow(tr, hal, g, k, l, s),
           NEW x \in Records, x.event = k + 1, NEW s2, s => s2, s2 \/ l = 0
    PROVE  Flow(tr, Append(hal, x), g, k + 1, l, s2)
<1> DEFINE hal2 == Append(hal, x)
<1>1. tr \in Seq(Records) /\ hal \in Seq(Records) /\ hal2 \in Seq(Records)
  BY DEF Flow
<1>2. Len(hal) \in Nat /\ Len(tr) \in Nat /\ Len(hal2) = Len(hal) + 1
  BY <1>1
<1>3. \A i \in 1..Len(hal) : hal2[i] = hal[i]
  BY <1>1
<1>4. hal2[Len(hal) + 1] = x
  BY <1>1
<1> HIDE DEF hal2
<1>5. \A i \in 1..Len(hal2) : i \in 1..Len(hal) \/ i = Len(hal) + 1
  BY <1>2
<1>6. /\ \A i \in 1..Len(tr) : tr[i].event \in Int /\ tr[i].event \in 1..k
      /\ \A i \in 1..Len(hal) : hal[i].event \in Int /\ hal[i].event \in 1..k
  BY DEF Flow, Accounted
<1>7. Once(tr, hal2)
  <2>1. Once(tr, hal)
    BY DEF Flow
  <2>2. \A i \in 1..Len(hal) : hal2[i].event # x.event
    BY <1>3, <1>6
  <2>3. \A i \in 1..Len(tr) : tr[i].event # x.event
    BY <1>6
  <2>4. \A i, j \in 1..Len(hal2) : hal2[i].event = hal2[j].event => i = j
    <3> SUFFICES ASSUME NEW i \in 1..Len(hal2), NEW j \in 1..Len(hal2),
                        hal2[i].event = hal2[j].event
                 PROVE  i = j
      OBVIOUS
    <3>1. CASE i \in 1..Len(hal) /\ j \in 1..Len(hal)
      BY <1>3, <2>1, <3>1 DEF Once
    <3>2. CASE i = Len(hal) + 1 \/ j = Len(hal) + 1
      BY <1>4, <1>5, <2>2, <3>2
    <3> QED
      BY <1>5, <3>1, <3>2
  <2>5. \A i \in 1..Len(tr), j \in 1..Len(hal2) : tr[i].event # hal2[j].event
    BY <1>3, <1>4, <1>5, <2>1, <2>3 DEF Once
  <2> QED
    BY <2>1, <2>4, <2>5 DEF Once
<1>8. Accounted(tr, hal2, g, k + 1)
  <2>1. Accounted(tr, hal, g, k)
    BY DEF Flow
  <2>2. \A e \in 1..(k + 1) : e \in 1..k \/ e = k + 1
    OBVIOUS
  <2>3. \A e \in 1..k : e \in 1..(k + 1)
    OBVIOUS
  <2>4. k + 1 \notin g
    BY <2>1 DEF Accounted
  <2>5. \A i \in 1..Len(hal2) : hal2[i].event \in 1..(k + 1) /\ hal2[i].event \notin g
    BY <1>2, <1>3, <1>4, <1>5, <2>1, <2>3, <2>4 DEF Accounted
  <2>6. \A i \in 1..Len(hal) : i \in 1..Len(hal2)
    BY <1>2
  <2>7. Len(hal) + 1 \in 1..Len(hal2)
    BY <1>2
  <2> QED
    BY <1>3, <1>4, <2>1, <2>2, <2>3, <2>5, <2>6, <2>7 DEF Accounted
<1>9. s2 \/ InOrder(tr, hal2, l)
  <2> SUFFICES ASSUME ~s2
               PROVE  InOrder(tr, hal2, l)
    OBVIOUS
  <2>1. InOrder(tr, hal, l) /\ l = 0
    BY DEF Flow
  <2>2. \A i, j \in 1..Len(hal2) : i < j => hal2[i].event < hal2[j].event
    <3> SUFFICES ASSUME NEW i \in 1..Len(hal2), NEW j \in 1..Len(hal2), i < j
                 PROVE  hal2[i].event < hal2[j].event
      OBVIOUS
    <3>1. i \in 1..Len(hal)
      BY <1>2
    <3>2. CASE j \in 1..Len(hal)
      <4>1. l < i
        BY <2>1
      <4> QED
        BY <1>3, <2>1, <3>1, <3>2, <4>1 DEF InOrder
    <3>3. CASE j = Len(hal) + 1
      BY <1>3, <1>4, <1>6, <3>1, <3>3
    <3> QED
      BY <1>5, <3>2, <3>3
  <2>3. \A i \in 1..Len(tr), j \in 1..Len(hal2) : tr[i].event < hal2[j].event
    <3> SUFFICES ASSUME NEW i \in 1..Len(tr), NEW j \in 1..Len(hal2)
                 PROVE  tr[i].event < hal2[j].event
      OBVIOUS
    <3>1. CASE j \in 1..Len(hal)
      BY <1>3, <2>1, <3>1 DEF InOrder
    <3>2. CASE j = Len(hal) + 1
      BY <1>4, <1>6, <3>2
    <3> QED
      BY <1>5, <3>1, <3>2
  <2>4. \A i \in 1..Len(hal2) : ~(i <= l)
    BY <1>2, <2>1
  <2> QED
    BY <2>1, <2>2, <2>3, <2>4 DEF InOrder
<1> QED
  BY <1>1, <1>7, <1>8, <1>9 DEF Flow, hal2

(* Once interrupts have come in the middle of a removal no order is left to keep.     *)
LEMMA FlowShuffled ==
    ASSUME NEW tr, NEW hal, NEW g, NEW k, NEW l, NEW s, Flow(tr, hal, g, k, l, s), NEW l2,
           NEW s2, s2
    PROVE  Flow(tr, hal, g, k, l2, s2)
BY DEF Flow

(* The oldest record of the buffer is given up.                                  *)
LEMMA FlowDropped ==
    ASSUME NEW tr, NEW hal, NEW g, NEW k \in Nat, NEW l \in Nat, NEW s, Flow(tr, hal, g, k, l, s),
           hal # <<>>, NEW l2 \in Nat, l2 = IF l = 0 THEN 0 ELSE l - 1
    PROVE  Flow(tr, Tail(hal), g \cup {Head(hal).event}, k, l2, s)
<1> DEFINE hal2 == Tail(hal)
           h == Head(hal)
           g2 == g \cup {h.event}
<1>1. tr \in Seq(Records) /\ hal \in Seq(Records) /\ hal2 \in Seq(Records)
  BY DEF Flow
<1>2. Len(hal) \in Nat /\ Len(tr) \in Nat /\ Len(hal) >= 1 /\ Len(hal2) = Len(hal) - 1
  BY <1>1
<1>3. \A i \in 1..Len(hal2) : hal2[i] = hal[i + 1]
  BY <1>1
<1>4. h = hal[1]
  BY <1>1
<1> HIDE DEF hal2, h
<1>5. \A i \in 1..Len(hal2) : i + 1 \in 1..Len(hal) /\ i + 1 # 1 /\ i \in Int
  BY <1>2
<1>6. 1 \in 1..Len(hal)
  BY <1>2
<1>7. \A i \in 1..Len(hal) : i = 1 \/ (i - 1 \in 1..Len(hal2) /\ (i - 1) + 1 = i)
  BY <1>2
<1>8. Once(tr, hal2) /\ \A i \in 1..Len(hal2) : hal2[i].event # h.event
  <2>1. Once(tr, hal)
    BY DEF Flow
  <2>2. \A i, j \in 1..Len(hal2) : hal2[i].event = hal2[j].event => i + 1 = j + 1
    BY <1>3, <1>5, <2>1 DEF Once
  <2>3. \A i, j \in 1..Len(hal2) : i + 1 = j + 1 => i = j
    BY <1>5
  <2>4. \A i \in 1..Len(hal2) : hal2[i].event # h.event
    BY <1>3, <1>4, <1>5, <1>6, <2>1 DEF Once
  <2> QED
    BY <1>3, <1>5, <2>1, <2>2, <2>3, <2>4 DEF Once
<1>9. Accounted(tr, hal2, g2, k)
  <2>1. Accounted(tr, hal, g, k) /\ Once(tr, hal)
    BY DEF Flow
  <2>2. \A i \in 1..Len(tr) : tr[i].event \in 1..k /\ tr[i].event \notin g2
    BY <1>4, <1>6, <2>1 DEF Accounted, Once
  <2>3. \A i \in 1..Len(hal2) : hal2[i].event \in 1..k /\ hal2[i].event \notin g2
    BY <1>3, <1>5, <1>8, <2>1 DEF Accounted
  <2>4. \A i \in 1..Len(hal) : hal[i].event \in g2 \/ \E j \in 1..Len(hal2) : hal2[j] = hal[i]
    BY <1>3, <1>4, <1>7
  <2>5. g2 \subseteq 1..k
    BY <1>4, <1>6, <2>1 DEF Accounted
  <2>6. \A e \in 1..k : \/ e \in g2
                        \/ \E i \in 1..Len(tr) : tr[i].event = e
                        \/ \E i \in 1..Len(hal2) : hal2[i].event = e
    <3> SUFFICES ASSUME NEW e \in 1..k, e \notin g, ~\E i \in 1..Len(tr) : tr[i].event = e
                 PROVE  e \in g2 \/ \E i \in 1..Len(hal2) : hal2[i].event = e
      OBVIOUS
    <3>1. PICK i \in 1..Len(hal) : hal[i].event = e
      BY <2>1 DEF Accounted
    <3> QED
      BY <2>4, <3>1
  <2> QED
    BY <2>2, <2>3, <2>5, <2>6 DEF Accounted
<1>10. s \/ InOrder(tr, hal2, l2)
  <2> SUFFICES ASSUME ~s
               PROVE  InOrder(tr, hal2, l2)
    OBVIOUS
  <2>1. InOrder(tr, hal, l)
    BY DEF Flow
  <2>2. \A i, j \in 1..Len(hal2) : i < j /\ (j <= l2 \/ l2 < i) => hal2[i].event < hal2[j].event
    <3> SUFFICES ASSUME NEW i \in 1..Len(hal2), NEW j \in 1..Len(hal2), i < j, j <= l2 \/ l2 < i
                 PROVE  hal2[i].event < hal2[j].event
      OBVIOUS
    <3>1. i + 1 < j + 1 /\ (j + 1 <= l \/ l < i + 1)
      BY <1>5
    <3> QED
      BY <1>3, <1>5, <2>1, <3>1 DEF InOrder
  <2>3. \A i, j \in 1..Len(hal2) : i <= l2 /\ l2 < j => hal2[j].event < hal2[i].event
    <3> SUFFICES ASSUME NEW i \in 1..Len(hal2), NEW j \in 1..Len(hal2), i <= l2, l2 < j
                 PROVE  hal2[j].event < hal2[i].event
      OBVIOUS
    <3>1. i + 1 <= l /\ l < j + 1
      BY <1>5
    <3> QED
      BY <1>3, <1>5, <2>1, <3>1 DEF InOrder
  <2>4. \A i \in 1..Len(tr), j \in 1..Len(hal2) : tr[i].event < hal2[j].event
    BY <1>3, <1>5, <2>1 DEF InOrder
  <2> QED
    BY <2>1, <2>2, <2>3, <2>4 DEF InOrder
<1> QED
  BY <1>1, <1>8, <1>9, <1>10 DEF Flow, hal2, h

(* The whole buffer is given up.                                                *)
LEMMA FlowCleared ==
    ASSUME NEW tr, NEW hal, NEW g, NEW k, NEW l, NEW s, Flow(tr, hal, g, k, l, s)
    PROVE  Flow(tr, <<>>, g \cup {hal[i].event : i \in 1..Len(hal)}, k, 0, s)
<1> DEFINE g2 == g \cup {hal[i].event : i \in 1..Len(hal)}
<1>1. tr \in Seq(Records) /\ Once(tr, hal) /\ Accounted(tr, hal, g, k) /\ (s \/ InOrder(tr, hal, l))
  BY DEF Flow
<1>2. <<>> \in Seq(Records) /\ Len(<<>>) = 0
  OBVIOUS
<1>3. Once(tr, <<>>)
  BY <1>1, <1>2 DEF Once
<1>4. Accounted(tr, <<>>, g2, k)
  <2>1. \A i \in 1..Len(tr) : tr[i].event \in 1..k /\ tr[i].event \notin g2
    BY <1>1 DEF Accounted, Once
  <2>2. g2 \subseteq 1..k
    BY <1>1 DEF Accounted
  <2>3. \A e \in 1..k : e \in g2 \/ \E i \in 1..Len(tr) : tr[i].event = e
    BY <1>1 DEF Accounted
  <2>4. \A i \in 1..Len(<<>>) : FALSE
    BY <1>2
  <2> HIDE DEF g2
  <2> QED
    BY <2>1, <2>2, <2>3, <2>4 DEF Accounted
<1>5. s \/ InOrder(tr, <<>>, 0)
  BY <1>1, <1>2 DEF InOrder
<1> QED
  BY <1>1, <1>2, <1>3, <1>4, <1>5 DEF Flow

(* The oldest record of the buffer goes to the end of the application queue.        *)
LEMMA FlowMoved ==
    ASSUME NEW tr, NEW hal, NEW g, NEW k, NEW s, Flow(tr, hal, g, k, 0, s), hal # <<>>
    PROVE  Flow(Append(tr, Head(hal)), Tail(hal), g, k, 0, s)
<1> DEFINE hal2 == Tail(hal)
           h == Head(hal)
           tr2 == Append(tr, h)
<1>1. tr \in Seq(Records) /\ hal \in Seq(Records) /\ hal2 \in Seq(Records)
      /\ h \in Records /\ tr2 \in Seq(Records)
  BY DEF Flow
<1>2. Len(hal) \in Nat /\ Len(tr) \in Nat /\ Len(hal) >= 1 /\ Len(hal2) = Len(hal) - 1
      /\ Len(tr2) = Len(tr) + 1
  BY <1>1
<1>3. \A i \in 1..Len(hal2) : hal2[i] = hal[i + 1]
  BY <1>1
<1>4. h = hal[1]
  BY <1>1
<1>5. \A i \in 1..Len(tr) : tr2[i] = tr[i]
  BY <1>1
<1>6. tr2[Len(tr) + 1] = hal[1]
  BY <1>1, <1>4
<1> HIDE DEF hal2, h, tr2
<1>7. \A i \in 1..Len(hal2) : i + 1 \in 1..Len(hal) /\ i + 1 # 1 /\ i \in Int /\ 1 < i + 1
  BY <1>2
<1>8. \A i \in 1..Len(tr2) : i \in 1..Len(tr) \/ i = Len(tr) + 1
  BY <1>2
<1>9. 1 \in 1..Len(hal)
  BY <1>2
<1>10. \A i \in 1..Len(hal) : i = 1 \/ (i - 1 \in 1..Len(hal2) /\ (i - 1) + 1 = i)
  BY <1>2
<1>11. \A i \in 1..Len(tr) : i \in 1..Len(tr2) /\ i < Len(tr) + 1
  BY <1>2
<1>12. Len(tr) + 1 \in 1..Len(tr2)
  BY <1>2
<1>13. Once(tr, hal) /\ Accounted(tr, hal, g, k) /\ (s \/ InOrder(tr, hal, 0))
  BY DEF Flow
<1>14. Once(tr2, hal2)
  <2>1. \A i, j \in 1..Len(hal2) : hal2[i].event = hal2[j].event => i + 1 = j + 1
    BY <1>3, <1>7, <1>13 DEF Once
  <2>2. \A i, j \in 1..Len(hal2) : i + 1 = j + 1 => i = j
    BY <1>7
  <2>3. \A i, j \in 1..Len(tr2) : tr2[i].event = tr2[j].event => i = j
    BY <1>5, <1>6, <1>8, <1>9, <1>13 DEF Once
  <2>4. \A i \in 1..Len(tr2), j \in 1..Len(hal2) : tr2[i].event # hal2[j].event
    <3> SUFFICES ASSUME NEW i \in 1..Len(tr2), NEW j \in 1..Len(hal2)
                 PROVE  tr2[i].event # hal[j + 1].event
      BY <1>3
    <3>1. j + 1 \in 1..Len(hal) /\ j + 1 # 1
      BY <1>7
    <3>2. CASE i \in 1..Len(tr)
      BY <1>5, <1>13, <3>1, <3>2 DEF Once
    <3>3. CASE i = Len(tr) + 1
      BY <1>6, <1>9, <1>13, <3>1, <3>3 DEF Once
    <3> QED
      BY <1>8, <3>2, <3>3
  <2> QED
    BY <2>1, <2>2, <2>3, <2>4 DEF Once
<1>15. Accounted(tr2, hal2, g, k)
  <2>1. \A i \in 1..Len(tr2) : tr2[i].event \in 1..k /\ tr2[i].event \notin g
    BY <1>5, <1>6, <1>8, <1>9, <1>13 DEF Accounted
  <2>2. \A i \in 1..Len(hal2) : hal2[i].event \in 1..k /\ hal2[i].event \notin g
    BY <1>3, <1>7, <1>13 DEF Accounted
  <2>3. \A e \in 1..k : \/ e \in g
                        \/ \E i \in 1..Len(tr2) : tr2[i].event = e
                        \/ \E i \in 1..Len(hal2) : hal2[i].event = e
    <3> SUFFICES ASSUME NEW e \in 1..k, e \notin g
                 PROVE  \/ \E i \in 1..Len(tr2) : tr2[i].event = e
                        \/ \E i \in 1..Len(hal2) : hal2[i].event = e
      OBVIOUS
    <3>1. (\E i \in 1..Len(tr) : tr[i].event = e) \/ (\E i \in 1..Len(hal) : hal[i].event = e)
      BY <1>13 DEF Accounted
    <3>2. CASE \E i \in 1..Len(tr) : tr[i].event = e
      BY <1>5, <1>11, <3>2
    <3>3. CASE \E i \in 1..Len(hal) : hal[i].event = e
      <4>1. PICK i \in 1..Len(hal) : hal[i].event = e
        BY <3>3
      <4>2. CASE i = 1
        BY <1>6, <1>12, <4>1, <4>2
      <4>3. CASE i - 1 \in 1..Len(hal2) /\ (i - 1) + 1 = i
        <5>1. hal2[i - 1] = hal[i]
          BY <1>3, <4>3
        <5> QED
          BY <4>1, <4>3, <5>1
      <4> QED
        BY <1>10, <4>2, <4>3
    <3> QED
      BY <3>1, <3>2, <3>3
  <2> QED
    BY <1>13, <2>1, <2>2, <2>3 DEF Accounted
<1>16. s \/ InOrder(tr2, hal2, 0)
  <2> SUFFICES ASSUME ~s
               PROVE  InOrder(tr2, hal2, 0)
    OBVIOUS
  <2>1. InOrder(tr, hal, 0)
    BY <1>13
  <2>2. \A i, j \in 1..Len(hal) : i < j => hal[i].event < hal[j].event
    BY <1>2, <2>1 DEF InOrder
  <2>3. \A i, j \in 1..Len(hal2) : i < j => hal2[i].event < hal2[j].event
    <3> SUFFICES ASSUME NEW i \in 1..Len(hal2), NEW j \in 1..Len(hal2), i < j
                 PROVE  hal[i + 1].event < hal[j + 1].event
      BY <1>3
    <3>1. i + 1 < j + 1
      BY <1>7
    <3> QED
      BY <1>7, <2>2, <3>1
  <2>4. \A i \in 1..Len(tr2), j \in 1..Len(hal2) : tr2[i].event < hal2[j].event
    <3> SUFFICES ASSUME NEW i \in 1..Len(tr2), NEW j \in 1..Len(hal2)
                 PROVE  tr2[i].event < hal[j + 1].event
      BY <1>3
    <3>1. j + 1 \in 1..Len(hal) /\ 1 < j + 1
      BY <1>7
    <3> QED
      BY <1>5, <1>6, <1>8, <1>9, <2>1, <2>2, <3>1 DEF InOrder
  <2>5. \A i, j \in 1..Len(tr2) : i < j => tr2[i].event < tr2[j].event
    <3> SUFFICES ASSUME NEW i \in 1..Len(tr2), NEW j \in 1..Len(tr2), i < j
                 PROVE  tr2[i].event < tr2[j].event
      OBVIOUS
    <3>1. i \in 1..Len(tr)
      BY <1>2
    <3> QED
      BY <1>5, <1>6, <1>8, <1>9, <2>1, <3>1 DEF InOrder
  <2>6. \A i, j \in 1..Len(hal2) : ~(i <= 0 /\ 0 < j)
    BY <1>2
  <2> QED
    BY <2>3, <2>4, <2>5, <2>6 DEF InOrder
<1> QED
  BY <1>1, <1>14, <1>15, <1>16 DEF Flow, hal2, h, tr2

(* Another order of the records in the buffer.                                  *)
LEMMA FlowPermuted ==
    ASSUME NEW tr, NEW hal, NEW g, NEW k, NEW l, NEW s, Flow(tr, hal, g, k, l, s),
           NEW hal2 \in Seq(Records), Len(hal2) = Len(hal),
           NEW p \in [1..Len(hal) -> 1..Len(hal)],
           \A i, j \in 1..Len(hal) : p[i] = p[j] => i = j,
           \A j \in 1..Len(hal) : \E i \in 1..Len(hal) : p[i] = j,
           \A i \in 1..Len(hal) : hal2[i] = hal[p[i]]
    PROVE  Once(tr, hal2) /\ Accounted(tr, hal2, g, k)
<1>1. Once(tr, hal) /\ Accounted(tr, hal, g, k)
  BY DEF Flow
<1>2. \A i \in 1..Len(hal) : p[i] \in 1..Len(hal)
  OBVIOUS
<1>3. Once(tr, hal2)
  <2>1. ASSUME NEW i \in 1..Len(hal), NEW j \in 1..Len(hal), hal2[i].event = hal2[j].event
        PROVE  i = j
    <3>1. hal[p[i]].event = hal[p[j]].event
      BY <2>1
    <3>2. p[i] = p[j]
      BY <1>1, <1>2, <3>1 DEF Once
    <3> QED
      BY <3>2
  <2>2. \A i \in 1..Len(tr), j \in 1..Len(hal) : tr[i].event # hal[p[j]].event
    BY <1>1, <1>2 DEF Once
  <2>3. \A i \in 1..Len(tr), j \in 1..Len(hal) : tr[i].event # hal2[j].event
    BY <2>2
  <2>4. \A i, j \in 1..Len(tr) : tr[i].event = tr[j].event => i = j
    BY <1>1 DEF Once
  <2> QED
    BY <2>1, <2>3, <2>4 DEF Once
<1>4. Accounted(tr, hal2, g, k)
  <2>1. \A i \in 1..Len(hal) : hal[p[i]].event \in 1..k /\ hal[p[i]].event \notin g
    BY <1>1, <1>2 DEF Accounted
  <2>2. \A i \in 1..Len(hal2) : hal2[i].event \in 1..k /\ hal2[i].event \notin g
    BY <2>1
  <2>3. \A j \in 1..Len(hal) : \E i \in 1..Len(hal2) : hal2[i] = hal[j]
    OBVIOUS
  <2>4. ASSUME NEW e \in 1..k, e \notin g, ~\E i \in 1..Len(tr) : tr[i].event = e
        PROVE  \E i \in 1..Len(hal2) : hal2[i].event = e
    <3>1. PICK j \in 1..Len(hal) : hal[j].event = e
      BY <1>1, <2>4 DEF Accounted
    <3> QED
      BY <2>3, <3>1
  <2>5. g \subseteq 1..k /\ \A i \in 1..Len(tr) : tr[i].event \in 1..k /\ tr[i].event \notin g
    BY <1>1 DEF Accounted
  <2> QED
    BY <2>2, <2>4, <2>5 DEF Accounted
<1> QED
  BY <1>3, <1>4

(* An interrupt while the engine has a record in hand that goes behind all others.     *)
LEMMA FlowInserted ==
    ASSUME NEW tr, NEW c \in Seq(Records), NEW h \in Records, NEW g, NEW k \in Nat,
           NEW l \in Nat, NEW s, Flow(tr, Append(c, h), g, k, l, s),
           NEW x \in Records, x.event = k + 1, NEW s2, s2
    PROVE  Flow(tr, Append(Append(c, x), h), g, k + 1, l, s2)
<1> DEFINE one == Append(Append(c, h), x)
           two == Append(Append(c, x), h)
           n == Len(c)
           p == [i \in 1..(n + 2) |-> IF i = n + 2 THEN n + 1 ELSE IF i = n + 1 THEN n + 2 ELSE i]
<1>1. Flow(tr, one, g, k + 1, l, s2)
  BY FlowRaised
<1>2. one \in Seq(Records) /\ two \in Seq(Records) /\ Len(one) = n + 2 /\ Len(two) = n + 2
      /\ n \in Nat
  OBVIOUS
<1>3. \A i \in 1..n : one[i] = c[i] /\ two[i] = c[i]
  OBVIOUS
<1>4. one[n + 1] = h /\ one[n + 2] = x /\ two[n + 1] = x /\ two[n + 2] = h
  OBVIOUS
<1> HIDE DEF one, two
<1>5. \A i \in 1..(n + 2) : i \in 1..n \/ i = n + 1 \/ i = n + 2
  BY <1>2
<1>6. p \in [1..(n + 2) -> 1..(n + 2)]
  BY <1>2
<1>7. \A i, j \in 1..(n + 2) : p[i] = p[j] => i = j
  BY <1>2
<1>8. \A j \in 1..(n + 2) : \E i \in 1..(n + 2) : p[i] = j
  <2> SUFFICES ASSUME NEW j \in 1..(n + 2)
               PROVE  \E i \in 1..(n + 2) : p[i] = j
    OBVIOUS
  <2>1. p[j] \in 1..(n + 2) /\ p[p[j]] = j
    BY <1>2
  <2> QED
    BY <2>1
<1>9. \A i \in 1..(n + 2) : two[i] = one[p[i]]
  BY <1>2, <1>3, <1>4, <1>5
<1>10. Once(tr, two) /\ Accounted(tr, two, g, k + 1)
  <2>2. /\ p \in [1..Len(one) -> 1..Len(one)]
        /\ \A i, j \in 1..Len(one) : p[i] = p[j] => i = j
        /\ \A j \in 1..Len(one) : \E i \in 1..Len(one) : p[i] = j
        /\ \A i \in 1..Len(one) : two[i] = one[p[i]]
    BY <1>2, <1>6, <1>7, <1>8, <1>9
  <2>3. two \in Seq(Records) /\ Len(two) = Len(one)
    BY <1>2
  <2> HIDE DEF p, n
  <2> DEFINE k2 == k + 1
  <2>4. Flow(tr, one, g, k2, l, s2)
    BY <1>1
  <2> HIDE DEF k2
  <2>5. Once(tr, two) /\ Accounted(tr, two, g, k2)
    BY <2>2, <2>3, <2>4, FlowPermuted
  <2> QED
    BY <2>5 DEF k2
<1>11. tr \in Seq(Records)
  BY DEF Flow
<1> QED
  BY <1>2, <1>10, <1>11 DEF Flow, two

(* A removal puts a record that is not its dispatcher's behind the others.            *)
LEMMA FlowTurned ==
    ASSUME NEW tr, NEW hal, NEW g, NEW k \in Nat, NEW l \in Nat, NEW s,
           Flow(tr, hal, g, k, l, s), l >= 1, l <= Len(hal)
    PROVE  Flow(tr, Append(Tail(hal), Head(hal)), g, k, l - 1, s)
<1> DEFINE n == Len(hal)
           two == Append(Tail(hal), Head(hal))
           p == [i \in 1..n |-> IF i = n THEN 1 ELSE i + 1]
<1>1. tr \in Seq(Records) /\ hal \in Seq(Records) /\ n \in Nat /\ n >= 1
  BY DEF Flow
<1>2. Tail(hal) \in Seq(Records) /\ Len(Tail(hal)) = n - 1 /\ Head(hal) = hal[1]
      /\ hal[1] \in Records /\ \A i \in 1..(n - 1) : Tail(hal)[i] = hal[i + 1]
  BY <1>1
<1>3. two \in Seq(Records) /\ Len(two) = n /\ two[n] = hal[1]
      /\ \A i \in 1..(n - 1) : two[i] = hal[i + 1]
  BY <1>1, <1>2
<1> HIDE DEF two
<1>4. \A i \in 1..n : i \in 1..(n - 1) \/ i = n
  BY <1>1
<1>5. p \in [1..n -> 1..n] /\ \A i, j \in 1..n : p[i] = p[j] => i = j
  BY <1>1
<1>6. \A j \in 1..n : \E i \in 1..n : p[i] = j
  <2> SUFFICES ASSUME NEW j \in 1..n
               PROVE  \E i \in 1..n : p[i] = j
    OBVIOUS
  <2> DEFINE i == IF j = 1 THEN n ELSE j - 1
  <2>1. i \in 1..n /\ p[i] = j
    BY <1>1
  <2> QED
    BY <2>1
<1>7. \A i \in 1..n : two[i] = hal[p[i]]
  BY <1>1, <1>3, <1>4
<1>8. Once(tr, two) /\ Accounted(tr, two, g, k)
  <2> HIDE DEF p
  <2> QED
    BY <1>1, <1>3, <1>5, <1>6, <1>7, FlowPermuted
<1>9. s \/ InOrder(tr, two, l - 1)
  <2> SUFFICES ASSUME ~s
               PROVE  InOrder(tr, two, l - 1)
    OBVIOUS
  <2>1. InOrder(tr, hal, l)
    BY DEF Flow
  <2>2. \A i \in 1..Len(tr), j \in 1..Len(two) : tr[i].event < two[j].event
    <3> SUFFICES ASSUME NEW i \in 1..Len(tr), NEW j \in 1..n
                 PROVE  tr[i].event < hal[p[j]].event
      BY <1>3, <1>7
    <3> QED
      BY <1>5, <2>1 DEF InOrder
  <2>3. ASSUME NEW i \in 1..n, NEW j \in 1..n, i < j, j <= l - 1 \/ l - 1 < i
        PROVE  two[i].event < two[j].event
    <3>1. i \in 1..(n - 1) /\ two[i] = hal[i + 1] /\ i + 1 \in 1..n
      BY <1>1, <1>3, <2>3
    <3>2. CASE j \in 1..(n - 1)
      <4>1. two[j] = hal[j + 1] /\ j + 1 \in 1..n /\ i + 1 < j + 1 /\ (j + 1 <= l \/ l < i + 1)
        BY <1>1, <1>3, <2>3, <3>2
      <4> QED
        BY <2>1, <3>1, <4>1 DEF InOrder
    <3>3. CASE j = n
      <4>1. two[j] = hal[1] /\ 1 \in 1..n /\ 1 <= l /\ l < i + 1
        BY <1>1, <1>3, <2>3, <3>3
      <4> QED
        BY <2>1, <3>1, <4>1 DEF InOrder
    <3> QED
      BY <1>4, <3>2, <3>3
  <2>4. ASSUME NEW i \in 1..n, NEW j \in 1..n, i <= l - 1, l - 1 < j
        PROVE  two[j].event < two[i].event
    <3>1. i \in 1..(n - 1) /\ two[i] = hal[i + 1] /\ i + 1 \in 1..n /\ i + 1 <= l
      BY <1>1, <1>3, <2>4
    <3>2. CASE j \in 1..(n - 1)
      <4>1. two[j] = hal[j + 1] /\ j + 1 \in 1..n /\ l < j + 1
        BY <1>1, <1>3, <2>4, <3>2
      <4> QED
        BY <2>1, <3>1, <4>1 DEF InOrder
    <3>3. CASE j = n
      <4>1. two[j] = hal[1] /\ 1 \in 1..n /\ 1 < i + 1 /\ i + 1 <= l
        BY <1>1, <1>3, <3>1, <3>3
      <4> QED
        BY <2>1, <3>1, <4>1 DEF InOrder
    <3> QED
      BY <1>4, <3>2, <3>3
  <2> QED
    BY <1>3, <2>1, <2>2, <2>3, <2>4 DEF InOrder
<1> QED
  BY <1>1, <1>3, <1>8, <1>9 DEF Flow, two

(* A removal starts with everything before it.                                    *)
LEMMA FlowStarted ==
    ASSUME NEW tr, NEW hal, NEW g, NEW k, NEW s, Flow(tr, hal, g, k, 0, s)
    PROVE  Flow(tr, hal, g, k, Len(hal), s)
<1>1. hal \in Seq(Records) /\ Len(hal) \in Nat
  BY DEF Flow
<1>2. ASSUME InOrder(tr, hal, 0)
      PROVE  InOrder(tr, hal, Len(hal))
  <2>1. \A i, j \in 1..Len(hal) : i < j => hal[i].event < hal[j].event
    BY <1>1, <1>2 DEF InOrder
  <2>2. \A j \in 1..Len(hal) : ~(Len(hal) < j)
    BY <1>1
  <2> QED
    BY <1>2, <2>1, <2>2 DEF InOrder
<1> QED
  BY <1>2 DEF Flow

-----------------------------------------------------------------------------
(* Records leave the application queue: those that stay keep their order.           *)

Thinned(tr, tr2, g, g2) ==
    /\ tr2 \in Seq(Records)
    /\ \A i \in 1..Len(tr2) : \E a \in 1..Len(tr) : tr2[i] = tr[a]
    /\ \A i, j \in 1..Len(tr2) :
          i < j => \E a, b \in 1..Len(tr) : a < b /\ tr2[i] = tr[a] /\ tr2[j] = tr[b]
    /\ \A a \in 1..Len(tr) : tr[a].event \in g2 \/ \E i \in 1..Len(tr2) : tr2[i] = tr[a]
    /\ g \subseteq g2
    /\ \A e \in g2 : e \in g \/ \E a \in 1..Len(tr) : tr[a].event = e
    /\ \A i \in 1..Len(tr2) : tr2[i].event \in g2 => tr2[i].event \in g

LEMMA FlowThinned ==
    ASSUME NEW tr, NEW hal, NEW g, NEW k, NEW l, NEW s, Flow(tr, hal, g, k, l, s),
           NEW tr2, NEW g2, Thinned(tr, tr2, g, g2)
    PROVE  Flow(tr2, hal, g2, k, l, s)
<1>1. tr \in Seq(Records) /\ hal \in Seq(Records) /\ tr2 \in Seq(Records)
      /\ Once(tr, hal) /\ Accounted(tr, hal, g, k)
  BY DEF Flow, Thinned
<1>2. Len(tr) \in Nat /\ Len(tr2) \in Nat
  BY <1>1
<1>3. Once(tr2, hal)
  <2>1. ASSUME NEW i \in 1..Len(tr2), NEW j \in 1..Len(tr2), i < j
        PROVE  tr2[i].event # tr2[j].event
    <3>1. PICK a, b \in 1..Len(tr) : a < b /\ tr2[i] = tr[a] /\ tr2[j] = tr[b]
      BY <2>1 DEF Thinned
    <3>2. a # b
      BY <1>2, <3>1
    <3> QED
      BY <1>1, <3>1, <3>2 DEF Once
  <2>2. \A i, j \in 1..Len(tr2) : tr2[i].event = tr2[j].event => i = j
    <3> SUFFICES ASSUME NEW i \in 1..Len(tr2), NEW j \in 1..Len(tr2), i # j
                 PROVE  tr2[i].event # tr2[j].event
      OBVIOUS
    <3>1. i < j \/ j < i
      BY <1>2
    <3> QED
      BY <2>1, <3>1
  <2>3. \A i \in 1..Len(tr2), j \in 1..Len(hal) : tr2[i].event # hal[j].event
    BY <1>1 DEF Once, Thinned
  <2> QED
    BY <1>1, <2>2, <2>3 DEF Once
<1>4. Accounted(tr2, hal, g2, k)
  <2>1. /\ g \subseteq 1..k
        /\ \A i \in 1..Len(tr) : tr[i].event \in 1..k /\ tr[i].event \notin g
        /\ \A i \in 1..Len(hal) : hal[i].event \in 1..k /\ hal[i].event \notin g
    BY <1>1 DEF Accounted
  <2>2. /\ \A i \in 1..Len(tr2) : \E a \in 1..Len(tr) : tr2[i] = tr[a]
        /\ \A a \in 1..Len(tr) : tr[a].event \in g2 \/ \E i \in 1..Len(tr2) : tr2[i] = tr[a]
        /\ g \subseteq g2
        /\ \A e \in g2 : e \in g \/ \E a \in 1..Len(tr) : tr[a].event = e
        /\ \A i \in 1..Len(tr2) : tr2[i].event \in g2 => tr2[i].event \in g
    BY DEF Thinned
  <2>3. g2 \subseteq 1..k
    BY <2>1, <2>2
  <2>4. \A i \in 1..Len(tr2) : tr2[i].event \in 1..k /\ tr2[i].event \notin g2
    BY <2>1, <2>2
  <2>5. \A i \in 1..Len(hal) : hal[i].event \notin g2
    <3>1. \A a \in 1..Len(tr), i \in 1..Len(hal) : tr[a].event # hal[i].event
      BY <1>1 DEF Once
    <3> SUFFICES ASSUME NEW i \in 1..Len(hal), hal[i].event \in g2
                 PROVE  FALSE
      OBVIOUS
    <3>2. hal[i].event \notin g
      BY <2>1
    <3> QED
      BY <2>2, <3>1, <3>2
  <2>6. ASSUME NEW e \in 1..k, e \notin g2, ~\E i \in 1..Len(hal) : hal[i].event = e
        PROVE  \E i \in 1..Len(tr2) : tr2[i].event = e
    <3>1. PICK a \in 1..Len(tr) : tr[a].event = e
      BY <1>1, <2>2, <2>6 DEF Accounted
    <3> QED
      BY <2>2, <2>6, <3>1
  <2> QED
    BY <2>1, <2>3, <2>4, <2>5, <2>6 DEF Accounted
<1>5. s \/ InOrder(tr2, hal, l)
  <2> SUFFICES ASSUME ~s
               PROVE  InOrder(tr2, hal, l)
    OBVIOUS
  <2>1. InOrder(tr, hal, l)
    BY DEF Flow
  <2>2. \A i, j \in 1..Len(tr2) : i < j => tr2[i].event < tr2[j].event
    <3> SUFFICES ASSUME NEW i \in 1..Len(tr2), NEW j \in 1..Len(tr2), i < j
                 PROVE  tr2[i].event < tr2[j].event
      OBVIOUS
    <3>1. PICK a, b \in 1..Len(tr) : a < b /\ tr2[i] = tr[a] /\ tr2[j] = tr[b]
      BY DEF Thinned
    <3> QED
      BY <2>1, <3>1 DEF InOrder
  <2>3. \A i \in 1..Len(tr2), j \in 1..Len(hal) : tr2[i].event < hal[j].event
    BY <2>1 DEF Thinned, InOrder
  <2> QED
    BY <2>1, <2>2, <2>3 DEF InOrder
<1> QED
  BY <1>1, <1>3, <1>4, <1>5 DEF Flow

(* The records in front of the m-th.                                             *)
LEMMA SuffixThinned ==
    ASSUME NEW tr \in Seq(Records), NEW m \in 1..(Len(tr) + 1), NEW g,
           \A i, j \in 1..Len(tr) : tr[i].event = tr[j].event => i = j
    PROVE  Thinned(tr, SubSeq(tr, m, Len(tr)), g, g \cup {tr[i].event : i \in 1..(m - 1)})
<1> DEFINE tr2 == SubSeq(tr, m, Len(tr))
           before == {tr[i].event : i \in 1..(m - 1)}
<1>1. Len(tr) \in Nat /\ m \in Nat /\ m >= 1
  OBVIOUS
<1>2. tr2 \in Seq(Records) /\ Len(tr2) = Len(tr) - m + 1
      /\ \A i \in 1..(Len(tr) - m + 1) : tr2[i] = tr[m + i - 1]
  BY <1>1
<1> HIDE DEF tr2
<1>3. \A i \in 1..Len(tr2) : i \in Int /\ m + i - 1 \in 1..Len(tr) /\ m + i - 1 \notin 1..(m - 1)
                             /\ tr2[i] = tr[m + i - 1]
  BY <1>1, <1>2
<1>4. \A i, j \in 1..Len(tr2) :
         i < j => \E a, b \in 1..Len(tr) : a < b /\ tr2[i] = tr[a] /\ tr2[j] = tr[b]
  <2> SUFFICES ASSUME NEW i \in 1..Len(tr2), NEW j \in 1..Len(tr2), i < j
               PROVE  \E a, b \in 1..Len(tr) : a < b /\ tr2[i] = tr[a] /\ tr2[j] = tr[b]
    OBVIOUS
  <2>1. m + i - 1 < m + j - 1
    BY <1>1, <1>3
  <2> QED
    BY <1>3, <2>1
<1>5. \A a \in 1..Len(tr) : tr[a].event \in before \/ \E i \in 1..Len(tr2) : tr2[i] = tr[a]
  <2> SUFFICES ASSUME NEW a \in 1..Len(tr), a \notin 1..(m - 1)
               PROVE  \E i \in 1..Len(tr2) : tr2[i] = tr[a]
    OBVIOUS
  <2>1. a - m + 1 \in 1..Len(tr2) /\ m + (a - m + 1) - 1 = a
    BY <1>1, <1>2
  <2> QED
    BY <1>3, <2>1
<1>6. \A e \in before : \E a \in 1..Len(tr) : tr[a].event = e
  BY <1>1
<1>7. \A i \in 1..Len(tr2) : tr2[i].event \notin before
  <2> SUFFICES ASSUME NEW i \in 1..Len(tr2), NEW a \in 1..(m - 1), tr2[i].event = tr[a].event
               PROVE  FALSE
    OBVIOUS
  <2>1. a \in 1..Len(tr)
    BY <1>1
  <2> QED
    BY <1>3, <2>1
<1> HIDE DEF before
<1> QED
  BY <1>2, <1>3, <1>4, <1>5, <1>6, <1>7 DEF Thinned, tr2, before

-----------------------------------------------------------------------------
(* Others: the recursive function exists, and keeps what it should keep.            *)

Keeps(q, d, f, m) ==
    IF m = 0 THEN <<>> ELSE IF q[m].disp = d THEN f[m - 1] ELSE Append(f[m - 1], q[m])

LEMMA KeepsExists ==
    ASSUME NEW q, NEW d, NEW n \in Nat
    PROVE  \E f : f = [m \in 0..n |-> Keeps(q, d, f, m)]
<1> DEFINE E(k) == \E f : f = [m \in 0..k |-> Keeps(q, d, f, m)]
           T == {k \in Nat : ~E(k)}
<1> SUFFICES ASSUME ~E(n)
             PROVE  FALSE
  OBVIOUS
<1>1. T \in SUBSET Nat /\ T # {}
  BY Zenon
<1>2. PICK k \in T : \A j \in T : k <= j
  <2> HIDE DEF T
  <2> QED
    BY <1>1, Lists!LeastNumber, Zenon
<1>3. k \in Nat /\ ~E(k)
  BY Zenon
<1>4. CASE k = 0
  <2> DEFINE f == [m \in 0..0 |-> <<>>]
  <2>1. \A m \in 0..0 : Keeps(q, d, f, m) = <<>>
    BY DEF Keeps
  <2>2. f = [m \in 0..0 |-> Keeps(q, d, f, m)]
    BY <2>1, Zenon
  <2> HIDE DEF f
  <2> QED
    BY <1>3, <1>4, <2>2, Zenon
<1>5. CASE k # 0
  <2>1. k - 1 \in Nat /\ ~(k <= k - 1)
    BY <1>3, <1>5
  <2>2. k - 1 \notin T
    BY <1>2, <2>1, Zenon
  <2>3. E(k - 1)
    BY <2>1, <2>2, Zenon
  <2>4. PICK f : f = [m \in 0..(k - 1) |-> Keeps(q, d, f, m)]
    BY <2>3, Zenon
  <2>5. \A m \in 0..(k - 1) : f[m] = Keeps(q, d, f, m)
    BY <2>4, Zenon
  <2> DEFINE v == Keeps(q, d, f, k)
             h == [m \in 0..k |-> IF m = k THEN v ELSE f[m]]
  <2>6. \A m \in 0..k : h[m] = IF m = k THEN v ELSE f[m]
    BY Zenon
  <2>7. \A m \in 0..k : m = 0 \/ (m - 1 \in 0..(k - 1) /\ m - 1 \in 0..k /\ m - 1 # k)
    BY <1>3
  <2>8. \A m \in 0..k : m = k \/ m \in 0..(k - 1)
    BY <1>3
  <2> HIDE DEF v
  <2>9. \A m \in 0..k : m # 0 => h[m - 1] = f[m - 1]
    BY <2>6, <2>7, Zenon
  <2>10. \A m \in 0..k : Keeps(q, d, h, m) = Keeps(q, d, f, m)
    <3> HIDE DEF h
    <3> QED
      BY <2>9, Zenon DEF Keeps
  <2>11. \A m \in 0..k : (IF m = k THEN v ELSE f[m]) = Keeps(q, d, h, m)
    <3> HIDE DEF h
    <3> QED
      BY <2>5, <2>8, <2>10 DEF v
  <2>12. h = [m \in 0..k |-> Keeps(q, d, h, m)]
    BY <2>11, Zenon
  <2> HIDE DEF h
  <2> QED
    BY <1>3, <2>12, Zenon
<1> QED
  BY <1>4, <1>5

(* What Others has kept of the first n records.                                  *)
Kept(q, d, n, t) ==
    /\ t \in Seq(Records)
    /\ \A i \in 1..Len(t) : t[i].disp # d /\ \E a \in 1..n : t[i] = q[a]
    /\ \A i, j \in 1..Len(t) :
          i < j => \E a, b \in 1..n : a < b /\ t[i] = q[a] /\ t[j] = q[b]
    /\ \A a \in 1..n : q[a].disp # d => \E i \in 1..Len(t) : t[i] = q[a]

LEMMA KeptNext ==
    ASSUME NEW q \in Seq(Records), NEW d, NEW n \in 1..Len(q), NEW t, Kept(q, d, n - 1, t),
           q[n].disp # d
    PROVE  Kept(q, d, n, Append(t, q[n]))
<1> DEFINE u == Append(t, q[n])
<1>1. t \in Seq(Records) /\ q[n] \in Records /\ Len(t) \in Nat /\ n \in Nat /\ n >= 1
  BY DEF Kept
<1>2. u \in Seq(Records) /\ Len(u) = Len(t) + 1 /\ u[Len(t) + 1] = q[n]
      /\ \A i \in 1..Len(t) : u[i] = t[i]
  BY <1>1
<1> HIDE DEF u
<1>3. \A i \in 1..Len(u) : i \in 1..Len(t) \/ i = Len(t) + 1
  BY <1>1, <1>2
<1>4. \A i \in 1..Len(t) : i \in 1..Len(u)
  BY <1>1, <1>2
<1>5. Len(t) + 1 \in 1..Len(u) /\ n \in 1..n
  BY <1>1, <1>2
<1>6. \A a \in 1..(n - 1) : a \in 1..n /\ a < n
  BY <1>1
<1>7. \A a \in 1..n : a \in 1..(n - 1) \/ a = n
  BY <1>1
<1>8. \A i \in 1..Len(t) : t[i].disp # d /\ \E a \in 1..(n - 1) : t[i] = q[a]
  BY DEF Kept
<1>9. \A i \in 1..Len(u) : u[i].disp # d /\ \E a \in 1..n : u[i] = q[a]
  BY <1>2, <1>3, <1>5, <1>6, <1>8
<1>10. \A i, j \in 1..Len(u) :
          i < j => \E a, b \in 1..n : a < b /\ u[i] = q[a] /\ u[j] = q[b]
  <2> SUFFICES ASSUME NEW i \in 1..Len(u), NEW j \in 1..Len(u), i < j
               PROVE  \E a, b \in 1..n : a < b /\ u[i] = q[a] /\ u[j] = q[b]
    OBVIOUS
  <2>1. i \in 1..Len(t)
    BY <1>1, <1>2
  <2>2. CASE j \in 1..Len(t)
    <3>1. \E a, b \in 1..(n - 1) : a < b /\ t[i] = q[a] /\ t[j] = q[b]
      BY <2>1, <2>2 DEF Kept
    <3> QED
      BY <1>2, <1>6, <2>1, <2>2, <3>1
  <2>3. CASE j = Len(t) + 1
    BY <1>2, <1>5, <1>6, <1>8, <2>1, <2>3
  <2> QED
    BY <1>3, <2>2, <2>3
<1>11. \A a \in 1..n : q[a].disp # d => \E i \in 1..Len(u) : u[i] = q[a]
  <2> SUFFICES ASSUME NEW a \in 1..n, q[a].disp # d
               PROVE  \E i \in 1..Len(u) : u[i] = q[a]
    OBVIOUS
  <2>1. CASE a \in 1..(n - 1)
    <3>1. \E i \in 1..Len(t) : t[i] = q[a]
      BY <2>1 DEF Kept
    <3> QED
      BY <1>2, <1>4, <3>1
  <2>2. CASE a = n
    BY <1>2, <1>5, <2>2
  <2> QED
    BY <1>7, <2>1, <2>2
<1> QED
  BY <1>2, <1>9, <1>10, <1>11 DEF Kept, u

LEMMA KeptSkip ==
    ASSUME NEW q \in Seq(Records), NEW d, NEW n \in 1..Len(q), NEW t, Kept(q, d, n - 1, t),
           q[n].disp = d
    PROVE  Kept(q, d, n, t)
<1>1. n \in Nat /\ n >= 1
  OBVIOUS
<1>2. \A a \in 1..(n - 1) : a \in 1..n
  BY <1>1
<1>3. \A a \in 1..n : a \in 1..(n - 1) \/ a = n
  BY <1>1
<1>4. \A i, j \in 1..Len(t) :
         i < j => \E a, b \in 1..n : a < b /\ t[i] = q[a] /\ t[j] = q[b]
  BY <1>2 DEF Kept
<1>5. \A i \in 1..Len(t) : t[i].disp # d /\ \E a \in 1..n : t[i] = q[a]
  BY <1>2 DEF Kept
<1>6. \A a \in 1..n : q[a].disp # d => \E i \in 1..Len(t) : t[i] = q[a]
  BY <1>3 DEF Kept
<1> QED
  BY <1>4, <1>5, <1>6 DEF Kept

LEMMA OthersKept ==
    ASSUME NEW q \in Seq(Records), NEW d
    PROVE  Kept(q, d, Len(q), Others(q, d))
<1> DEFINE f == CHOOSE f : f = [m \in 0..Len(q) |-> Keeps(q, d, f, m)]
           T == {m \in Nat : m <= Len(q) /\ ~Kept(q, d, m, f[m])}
<1>1. Others(q, d) = f[Len(q)]
  BY Zenon DEF Others, Keeps
<1>2. Len(q) \in Nat
  OBVIOUS
<1>3. f = [m \in 0..Len(q) |-> Keeps(q, d, f, m)]
  BY <1>2, KeepsExists, Zenon
<1>4. \A m \in 0..Len(q) : f[m] = Keeps(q, d, f, m)
  BY <1>3, Zenon
<1> HIDE DEF f
<1>5. T = {}
  <2> SUFFICES ASSUME T # {}
               PROVE  FALSE
    OBVIOUS
  <2>1. PICK m \in T : \A j \in T : m <= j
    <3>1. T \in SUBSET Nat
      OBVIOUS
    <3> HIDE DEF T
    <3> QED
      BY <3>1, Lists!LeastNumber, Zenon
  <2>2. m \in Nat /\ m <= Len(q) /\ ~Kept(q, d, m, f[m])
    BY Zenon
  <2>3. m \in 0..Len(q)
    BY <1>2, <2>2
  <2>4. CASE m = 0
    <3>1. f[m] = <<>>
      BY <1>4, <2>3, <2>4 DEF Keeps
    <3>2. <<>> \in Seq(Records) /\ Len(<<>>) = 0
      OBVIOUS
    <3>3. Kept(q, d, 0, <<>>)
      BY <3>2 DEF Kept
    <3> QED
      BY <2>2, <2>4, <3>1, <3>3
  <2>5. CASE m # 0
    <3>1. m - 1 \in Nat /\ m - 1 <= Len(q) /\ ~(m <= m - 1) /\ m \in 1..Len(q)
      BY <1>2, <2>2, <2>5
    <3>2. m - 1 \notin T
      BY <2>1, <3>1, Zenon
    <3>3. Kept(q, d, m - 1, f[m - 1])
      BY <3>1, <3>2, Zenon
    <3>4. f[m] = IF q[m].disp = d THEN f[m - 1] ELSE Append(f[m - 1], q[m])
      BY <1>4, <2>3, <2>5, Zenon DEF Keeps
    <3>5. CASE q[m].disp = d
      <4>1. Kept(q, d, m, f[m - 1])
        BY <3>1, <3>3, <3>5, KeptSkip
      <4> QED
        BY <2>2, <3>4, <3>5, <4>1, Zenon
    <3>6. CASE q[m].disp # d
      <4>1. Kept(q, d, m, Append(f[m - 1], q[m]))
        BY <3>1, <3>3, <3>6, KeptNext
      <4> QED
        BY <2>2, <3>4, <3>6, <4>1, Zenon
    <3> QED
      BY <3>5, <3>6
  <2> QED
    BY <2>4, <2>5
<1>6. Len(q) <= Len(q)
  BY <1>2
<1>7. Kept(q, d, Len(q), f[Len(q)])
  BY <1>2, <1>5, <1>6, Zenon
<1> QED
  BY <1>1, <1>7, Zenon

(* The records of a dispatcher leave the queue.                                   *)
LEMMA OthersThinned ==
    ASSUME NEW q \in Seq(Records), NEW d, NEW g,
           \A i, j \in 1..Len(q) : q[i].event = q[j].event => i = j
    PROVE  Thinned(q, Others(q, d), g,
                   g \cup {r.event : r \in {x \in ToSet(q) : x.disp = d}})
<1> DEFINE t == Others(q, d)
           mine == {r.event : r \in {x \in ToSet(q) : x.disp = d}}
<1>1. Kept(q, d, Len(q), t)
  BY OthersKept
<1> HIDE DEF t
<1>2. \A e \in mine : \E a \in 1..Len(q) : q[a].disp = d /\ q[a].event = e
  BY DEF ToSet
<1>3. \A a \in 1..Len(q) : q[a].disp = d => q[a].event \in mine
  BY DEF ToSet
<1> HIDE DEF mine
<1>4. \A i \in 1..Len(t) : t[i].event \notin mine
  <2> SUFFICES ASSUME NEW i \in 1..Len(t), t[i].event \in mine
               PROVE  FALSE
    OBVIOUS
  <2>1. PICK a \in 1..Len(q) : q[a].disp = d /\ q[a].event = t[i].event
    BY <1>2
  <2>2. PICK b \in 1..Len(q) : t[i] = q[b] /\ t[i].disp # d
    BY <1>1 DEF Kept
  <2>3. a = b
    BY <2>1, <2>2
  <2> QED
    BY <2>1, <2>2, <2>3
<1>5. \A a \in 1..Len(q) : q[a].event \in mine \/ \E i \in 1..Len(t) : t[i] = q[a]
  BY <1>1, <1>3 DEF Kept
<1>6. /\ t \in Seq(Records)
      /\ \A i \in 1..Len(t) : \E a \in 1..Len(q) : t[i] = q[a]
      /\ \A i, j \in 1..Len(t) :
            i < j => \E a, b \in 1..Len(q) : a < b /\ t[i] = q[a] /\ t[j] = q[b]
  BY <1>1 DEF Kept
<1>7. \A e \in g \cup mine : e \in g \/ \E a \in 1..Len(q) : q[a].event = e
  BY <1>2
<1>8. Thinned(q, t, g, g \cup mine)
  BY <1>4, <1>5, <1>6, <1>7 DEF Thinned
<1> QED
  BY <1>8 DEF t, mine

-----------------------------------------------------------------------------
(* SpawnDispatcher and ReleaseQueued on the path of the records.                    *)

PathType ==
    [app : Seq(Records), queued : Nat, thread : Seq(Records), gone : SUBSET (1..MaxEvents)]

PathFlow(p, hal, k, l, s) ==
    /\ p \in PathType /\ k \in 0..MaxEvents
    /\ Len(p.thread) <= 1 /\ p.queued = Len(p.app)
    /\ Flow(p.thread \o p.app, hal, p.gone, k, l, s)

(* The oldest record is given up or delivered.                                    *)
LEMMA FlowGone ==
    ASSUME NEW tr, NEW hal, NEW g, NEW k \in 0..MaxEvents, NEW l, NEW s, Flow(tr, hal, g, k, l, s),
           NEW m \in 1..(Len(tr) + 1)
    PROVE  /\ Flow(SubSeq(tr, m, Len(tr)), hal, g \cup {tr[i].event : i \in 1..(m - 1)}, k, l, s)
           /\ g \cup {tr[i].event : i \in 1..(m - 1)} \subseteq 1..MaxEvents
<1>1. tr \in Seq(Records) /\ \A i, j \in 1..Len(tr) : tr[i].event = tr[j].event => i = j
  BY DEF Flow, Once
<1> DEFINE g2 == g \cup {tr[i].event : i \in 1..(m - 1)}
           tr2 == SubSeq(tr, m, Len(tr))
<1>2. Thinned(tr, tr2, g, g2)
  BY <1>1, SuffixThinned
<1> HIDE DEF g2, tr2
<1>3. Flow(tr2, hal, g2, k, l, s)
  BY <1>2, FlowThinned
<1>4. g2 \subseteq 1..k
  BY <1>3 DEF Flow, Accounted
<1>5. g2 \subseteq 1..MaxEvents
  BY <1>4, Sizes
<1> QED
  BY <1>3, <1>5 DEF g2, tr2

LEMMA ToSetEmpty == ToSet(<<>>) = {}
BY DEF ToSet

LEMMA ToSetOne == ASSUME NEW x PROVE ToSet(<<x>>) = {x}
BY DEF ToSet

LEMMA SuffixEmpty ==
    ASSUME NEW S, NEW q \in Seq(S)
    PROVE  SubSeq(q, Len(q) + 1, Len(q)) = <<>>
OBVIOUS

LEMMA SuffixSplit ==
    ASSUME NEW S, NEW q \in Seq(S), NEW m \in 1..Len(q)
    PROVE  /\ SubSeq(q, m + 1, Len(q)) \in Seq(S)
           /\ Len(SubSeq(q, m + 1, Len(q))) = Len(q) - m
           /\ <<q[m]>> \o SubSeq(q, m + 1, Len(q)) = SubSeq(q, m, Len(q))
<1>1. Len(q) \in m..Len(q) /\ m \in Nat
  OBVIOUS
<1> QED
  BY <1>1, SubSeqRecursiveFirst

LEMMA FirstOfConcat ==
    ASSUME NEW S, NEW x \in S, NEW q \in Seq(S)
    PROVE  /\ <<x>> \o q \in Seq(S) /\ Len(<<x>> \o q) = Len(q) + 1
           /\ (<<x>> \o q)[1] = x
           /\ \A i \in 1..Len(q) : (<<x>> \o q)[i + 1] = q[i]
           /\ SubSeq(<<x>> \o q, 2, Len(<<x>> \o q)) = q
OBVIOUS

(* The state of the path after a record was taken, or when none could be.           *)
LEMMA SpawnedNone ==
    ASSUME NEW ap \in Seq(Records), NEW g, NEW hal, NEW k \in 0..MaxEvents, NEW l, NEW s,
           Flow(ap, hal, g, k, l, s)
    PROVE  PathFlow([app |-> SubSeq(ap, Len(ap) + 1, Len(ap)), queued |-> Len(ap) - Len(ap),
                     thread |-> <<>>,
                     gone |-> g \cup ({ap[i].event : i \in 1..Len(ap)} \ {r.event : r \in ToSet(<<>>)})],
                    hal, k, l, s)
<1> DEFINE left == SubSeq(ap, Len(ap) + 1, Len(ap))
           g2 == g \cup ({ap[i].event : i \in 1..Len(ap)} \ {r.event : r \in ToSet(<<>>)})
           q == [app |-> left, queued |-> Len(ap) - Len(ap), thread |-> <<>>, gone |-> g2]
<1>1. Len(ap) \in Nat /\ Len(ap) + 1 \in 1..(Len(ap) + 1) /\ (Len(ap) + 1) - 1 = Len(ap)
  OBVIOUS
<1>2. left = <<>>
  BY SuffixEmpty
<1>3. g2 = g \cup {ap[i].event : i \in 1..Len(ap)}
  BY ToSetEmpty
<1>4. Flow(left, hal, g2, k, l, s) /\ g2 \subseteq 1..MaxEvents
  <2> DEFINE m == Len(ap) + 1
  <2>1. Flow(SubSeq(ap, m, Len(ap)), hal, g \cup {ap[i].event : i \in 1..(m - 1)}, k, l, s)
        /\ g \cup {ap[i].event : i \in 1..(m - 1)} \subseteq 1..MaxEvents
    <3>1. m \in 1..(Len(ap) + 1)
      BY <1>1
    <3> HIDE DEF m
    <3> QED
      BY <3>1, FlowGone
  <2>2. m - 1 = Len(ap)
    BY <1>1
  <2>3. SubSeq(ap, m, Len(ap)) = left
    OBVIOUS
  <2> HIDE DEF left, g2, m
  <2> QED
    BY <1>3, <2>1, <2>2, <2>3
<1> HIDE DEF left, g2
<1>5. /\ left \in Seq(Records) /\ Len(left) = 0 /\ <<>> \o left = left /\ Len(<<>>) = 0
      /\ <<>> \in Seq(Records)
  BY <1>2
<1>6. q \in PathType
  BY <1>1, <1>4, <1>5 DEF PathType
<1>7. /\ q.app = left /\ q.queued = Len(ap) - Len(ap) /\ q.thread = <<>> /\ q.gone = g2
      /\ Len(ap) - Len(ap) = 0
  BY <1>1
<1> HIDE DEF q
<1>8. PathFlow(q, hal, k, l, s)
  BY <1>4, <1>5, <1>6, <1>7 DEF PathFlow
<1> QED
  BY <1>8 DEF q, left, g2

LEMMA SpawnedOne ==
    ASSUME NEW ap \in Seq(Records), NEW g, NEW hal, NEW k \in 0..MaxEvents, NEW l, NEW s,
           Flow(ap, hal, g, k, l, s), NEW m \in 1..Len(ap)
    PROVE  PathFlow([app |-> SubSeq(ap, m + 1, Len(ap)), queued |-> Len(ap) - m,
                     thread |-> <<ap[m]>>,
                     gone |-> g \cup ({ap[i].event : i \in 1..m} \ {r.event : r \in ToSet(<<ap[m]>>)})],
                    hal, k, l, s)
<1> DEFINE left == SubSeq(ap, m + 1, Len(ap))
           th == <<ap[m]>>
           g2 == g \cup ({ap[i].event : i \in 1..m} \ {r.event : r \in ToSet(<<ap[m]>>)})
           q == [app |-> left, queued |-> Len(ap) - m, thread |-> th, gone |-> g2]
<1>1. Len(ap) \in Nat /\ m \in Nat /\ m >= 1 /\ m <= Len(ap) /\ m \in 1..(Len(ap) + 1)
      /\ ap[m] \in Records
  OBVIOUS
<1>2. left \in Seq(Records) /\ Len(left) = Len(ap) - m /\ th \o left = SubSeq(ap, m, Len(ap))
  BY SuffixSplit
<1>3. g2 = g \cup {ap[i].event : i \in 1..(m - 1)}
  <2>1. \A i, j \in 1..Len(ap) : ap[i].event = ap[j].event => i = j
    BY DEF Flow, Once
  <2>2. \A i \in 1..m : i \in 1..Len(ap) /\ (i \in 1..(m - 1) <=> i # m)
    BY <1>1
  <2>3. {r.event : r \in ToSet(<<ap[m]>>)} = {ap[m].event}
    BY ToSetOne
  <2>4. \A i \in 1..(m - 1) : i \in 1..m
    BY <1>1
  <2>5. {ap[i].event : i \in 1..m} \ {ap[m].event} = {ap[i].event : i \in 1..(m - 1)}
    BY <2>1, <2>2, <2>4
  <2> QED
    BY <2>3, <2>5
<1>4. Flow(th \o left, hal, g2, k, l, s) /\ g2 \subseteq 1..MaxEvents
  <2>1. /\ Flow(SubSeq(ap, m, Len(ap)), hal, g \cup {ap[i].event : i \in 1..(m - 1)}, k, l, s)
        /\ g \cup {ap[i].event : i \in 1..(m - 1)} \subseteq 1..MaxEvents
    BY <1>1, FlowGone
  <2> HIDE DEF left, g2, th
  <2> QED
    BY <1>2, <1>3, <2>1, Zenon
<1>5. th \in Seq(Records) /\ Len(th) = 1
  BY <1>1
<1> HIDE DEF left, g2, th
<1>6. q \in PathType
  BY <1>1, <1>2, <1>4, <1>5 DEF PathType
<1>7. q.app = left /\ q.queued = Len(ap) - m /\ q.thread = th /\ q.gone = g2
  OBVIOUS
<1> HIDE DEF q
<1>8. Len(q.thread) <= 1 /\ q.queued = Len(q.app)
  BY <1>2, <1>5, <1>7
<1>9. Flow(q.thread \o q.app, hal, q.gone, k, l, s)
  BY <1>4, <1>7, Zenon
<1>10. PathFlow(q, hal, k, l, s)
  BY <1>6, <1>8, <1>9 DEF PathFlow
<1> QED
  BY <1>10 DEF q, left, g2, th

LEMMA LeastOf ==
    ASSUME NEW T \in SUBSET Nat, T # {}
    PROVE  Min(T) \in T /\ \A i \in T : Min(T) <= i
<1>1. \E m \in T : \A j \in T : m <= j
  BY Lists!LeastNumber, Zenon
<1> QED
  BY <1>1 DEF Min

LEMMA SpawnedFlow ==
    ASSUME NEW p, NEW hal, NEW k, NEW l, NEW s, PathFlow(p, hal, k, l, s), NEW live
    PROVE  PathFlow(SpawnDispatcher(p, live), hal, k, l, s)
<1> DEFINE startable == {i \in DOMAIN p.app : p.app[i].disp \in live}
<1>1. CASE p.thread # <<>>
  BY <1>1 DEF SpawnDispatcher
<1>2. CASE p.thread = <<>>
  <2>1. p.app \in Seq(Records) /\ p.queued = Len(p.app) /\ Len(p.app) \in Nat /\ k \in 0..MaxEvents
    BY DEF PathFlow, PathType
  <2>2. p.thread \o p.app = p.app
    BY <1>2, <2>1
  <2>3. Flow(p.app, hal, p.gone, k, l, s)
    BY <2>2 DEF PathFlow
  <2>4. CASE startable = {}
    <3>1. SpawnDispatcher(p, live) =
             [app |-> SubSeq(p.app, Len(p.app) + 1, Len(p.app)), queued |-> Len(p.app) - Len(p.app),
              thread |-> <<>>,
              gone |-> p.gone \cup ({p.app[i].event : i \in 1..Len(p.app)}
                                    \ {r.event : r \in ToSet(<<>>)})]
      BY <1>2, <2>1, <2>4 DEF SpawnDispatcher
    <3>2. PathFlow([app |-> SubSeq(p.app, Len(p.app) + 1, Len(p.app)),
                    queued |-> Len(p.app) - Len(p.app), thread |-> <<>>,
                    gone |-> p.gone \cup ({p.app[i].event : i \in 1..Len(p.app)}
                                          \ {r.event : r \in ToSet(<<>>)})], hal, k, l, s)
      BY <2>1, <2>3, SpawnedNone
    <3> QED
      BY <3>1, <3>2, Zenon
  <2>5. CASE startable # {}
    <3>1. startable \in SUBSET Nat /\ startable \subseteq 1..Len(p.app)
      BY <2>1
    <3>2. Min(startable) \in startable
      <4> HIDE DEF startable
      <4> QED
        BY <2>5, <3>1, LeastOf
    <3>3. Min(startable) \in 1..Len(p.app)
      BY <3>1, <3>2, Zenon
    <3> DEFINE m == Min(startable)
    <3>4. SpawnDispatcher(p, live) =
             [app |-> SubSeq(p.app, m + 1, Len(p.app)), queued |-> Len(p.app) - m,
              thread |-> <<p.app[m]>>,
              gone |-> p.gone \cup ({p.app[i].event : i \in 1..m}
                                    \ {r.event : r \in ToSet(<<p.app[m]>>)})]
      BY <1>2, <2>1, <2>5 DEF SpawnDispatcher
    <3>5. m \in 1..Len(p.app)
      BY <3>3
    <3> HIDE DEF m
    <3>6. PathFlow([app |-> SubSeq(p.app, m + 1, Len(p.app)), queued |-> Len(p.app) - m,
                    thread |-> <<p.app[m]>>,
                    gone |-> p.gone \cup ({p.app[i].event : i \in 1..m}
                                          \ {r.event : r \in ToSet(<<p.app[m]>>)})], hal, k, l, s)
      BY <2>1, <2>3, <3>5, SpawnedOne
    <3> QED
      BY <3>4, <3>6, Zenon
  <2> QED
    BY <2>4, <2>5
<1> QED
  BY <1>1, <1>2

LEMMA ConcatParts ==
    ASSUME NEW S, NEW th \in Seq(S), NEW q \in Seq(S)
    PROVE  /\ th \o q \in Seq(S) /\ Len(th \o q) = Len(th) + Len(q)
           /\ \A i \in 1..Len(th) : (th \o q)[i] = th[i]
           /\ \A i \in 1..Len(q) : (th \o q)[Len(th) + i] = q[i]
OBVIOUS

(* The thread has delivered its record.                                           *)
LEMMA ReturnedFlow ==
    ASSUME NEW p, NEW hal, NEW k, NEW l, NEW s, PathFlow(p, hal, k, l, s), p.thread # <<>>
    PROVE  PathFlow([p EXCEPT !.thread = <<>>, !.gone = @ \cup {p.thread[1].event}], hal, k, l, s)
<1> DEFINE x == p.thread[1]
           tr == <<x>> \o p.app
           q == [p EXCEPT !.thread = <<>>, !.gone = @ \cup {p.thread[1].event}]
<1>1. p.thread \in Seq(Records) /\ Len(p.thread) <= 1 /\ p.app \in Seq(Records) /\ p \in PathType
      /\ k \in 0..MaxEvents /\ p.queued = Len(p.app)
  BY DEF PathFlow, PathType
<1>2. p.thread = <<x>> /\ x \in Records
  BY <1>1
<1>3. Flow(tr, hal, p.gone, k, l, s)
  BY <1>2 DEF PathFlow
<1>4. tr[1] = x /\ SubSeq(tr, 2, Len(tr)) = p.app /\ tr \in Seq(Records) /\ Len(tr) = Len(p.app) + 1
  BY <1>1, <1>2, FirstOfConcat
<1> HIDE DEF tr
<1>5. 2 \in 1..(Len(tr) + 1)
  BY <1>1, <1>4
<1>6. /\ Flow(SubSeq(tr, 2, Len(tr)), hal, p.gone \cup {tr[i].event : i \in 1..(2 - 1)}, k, l, s)
      /\ p.gone \cup {tr[i].event : i \in 1..(2 - 1)} \subseteq 1..MaxEvents
  BY <1>1, <1>3, <1>5, FlowGone
<1>7. {tr[i].event : i \in 1..(2 - 1)} = {x.event}
  BY <1>4
<1>8. Flow(p.app, hal, p.gone \cup {x.event}, k, l, s) /\ p.gone \cup {x.event} \subseteq 1..MaxEvents
  BY <1>4, <1>6, <1>7, Zenon
<1> DEFINE g == p.gone \cup {x.event}
<1>9. /\ q.app = p.app /\ q.queued = p.queued /\ q.thread = <<>> /\ q.gone = p.gone \cup {x.event}
      /\ q = [p EXCEPT !.thread = <<>>, !.gone = g]
  BY <1>1 DEF PathType
<1>10. q \in PathType
  <2>1. <<>> \in Seq(Records) /\ g \in SUBSET (1..MaxEvents)
    BY <1>8
  <2> HIDE DEF g, q
  <2> QED
    BY <1>1, <1>9, <2>1 DEF PathType
<1>11. q.thread \o q.app = p.app /\ Len(q.thread) <= 1
  BY <1>1, <1>9
<1> HIDE DEF q, x
<1>12. Flow(q.thread \o q.app, hal, q.gone, k, l, s)
  BY <1>8, <1>9, <1>11, Zenon
<1>13. PathFlow(q, hal, k, l, s)
  BY <1>1, <1>9, <1>10, <1>11, <1>12 DEF PathFlow
<1> QED
  BY <1>13 DEF q

LEMMA DistinctPart ==
    ASSUME NEW th \in Seq(Records), NEW q \in Seq(Records),
           \A i, j \in 1..Len(th \o q) : (th \o q)[i].event = (th \o q)[j].event => i = j
    PROVE  \A i, j \in 1..Len(q) : q[i].event = q[j].event => i = j
<1> DEFINE tr == th \o q
           n == Len(th)
<1>1. /\ Len(tr) = n + Len(q) /\ n \in Nat /\ Len(q) \in Nat
      /\ \A i \in 1..Len(q) : tr[n + i] = q[i]
  BY ConcatParts
<1>2. \A i, j \in 1..Len(tr) : tr[i].event = tr[j].event => i = j
  OBVIOUS
<1> HIDE DEF tr, n
<1>3. \A i \in 1..Len(q) : n + i \in 1..Len(tr)
  BY <1>1
<1>4. \A i, j \in 1..Len(q) : q[i].event = q[j].event => n + i = n + j
  BY <1>1, <1>2, <1>3
<1> QED
  BY <1>1, <1>4

LEMMA ConcatThinned ==
    ASSUME NEW th \in Seq(Records), NEW q \in Seq(Records), NEW q2, NEW g, NEW g2,
           Thinned(q, q2, g, g2),
           \A i, j \in 1..Len(th \o q) : (th \o q)[i].event = (th \o q)[j].event => i = j
    PROVE  Thinned(th \o q, th \o q2, g, g2)
<1> DEFINE a == th \o q
           b == th \o q2
           n == Len(th)
<1>1. q2 \in Seq(Records) /\ n \in Nat /\ Len(q) \in Nat /\ Len(q2) \in Nat
  BY DEF Thinned
<1>2. a \in Seq(Records) /\ Len(a) = n + Len(q) /\ (\A i \in 1..n : a[i] = th[i])
      /\ \A i \in 1..Len(q) : a[n + i] = q[i]
  BY <1>1
<1>3. b \in Seq(Records) /\ Len(b) = n + Len(q2) /\ (\A i \in 1..n : b[i] = th[i])
      /\ \A i \in 1..Len(q2) : b[n + i] = q2[i]
  BY <1>1
<1>4. \A i, j \in 1..Len(a) : a[i].event = a[j].event => i = j
  OBVIOUS
<1> HIDE DEF a, b
<1>5. \A i \in 1..Len(a) : i \in 1..n \/ (i - n \in 1..Len(q) /\ n + (i - n) = i)
  BY <1>1, <1>2
<1>6. \A i \in 1..Len(b) : i \in 1..n \/ (i - n \in 1..Len(q2) /\ n + (i - n) = i)
  BY <1>1, <1>3
<1>7. (\A i \in 1..n : i \in 1..Len(a) /\ i \in 1..Len(b))
      /\ (\A i \in 1..Len(q) : n + i \in 1..Len(a)) /\ (\A i \in 1..Len(q2) : n + i \in 1..Len(b))
  BY <1>1, <1>2, <1>3
<1>8. /\ \A i \in 1..Len(q2) : \E c \in 1..Len(q) : q2[i] = q[c]
      /\ \A i, j \in 1..Len(q2) :
            i < j => \E c, d \in 1..Len(q) : c < d /\ q2[i] = q[c] /\ q2[j] = q[d]
      /\ \A c \in 1..Len(q) : q[c].event \in g2 \/ \E i \in 1..Len(q2) : q2[i] = q[c]
      /\ g \subseteq g2
      /\ \A e \in g2 : e \in g \/ \E c \in 1..Len(q) : q[c].event = e
      /\ \A i \in 1..Len(q2) : q2[i].event \in g2 => q2[i].event \in g
  BY DEF Thinned
<1>9. \A i \in 1..Len(b) : \E c \in 1..Len(a) : b[i] = a[c]
  <2> SUFFICES ASSUME NEW i \in 1..Len(b)
               PROVE  \E c \in 1..Len(a) : b[i] = a[c]
    OBVIOUS
  <2>1. CASE i \in 1..n
    BY <1>2, <1>3, <1>7, <2>1
  <2>2. CASE i - n \in 1..Len(q2) /\ n + (i - n) = i
    <3>1. b[i] = q2[i - n]
      BY <1>3, <2>2
    <3>2. PICK c \in 1..Len(q) : q2[i - n] = q[c]
      BY <1>8, <2>2
    <3> QED
      BY <1>2, <1>7, <3>1, <3>2
  <2> QED
    BY <1>6, <2>1, <2>2
<1>10. \A i, j \in 1..Len(b) :
          i < j => \E c, d \in 1..Len(a) : c < d /\ b[i] = a[c] /\ b[j] = a[d]
  <2> SUFFICES ASSUME NEW i \in 1..Len(b), NEW j \in 1..Len(b), i < j
               PROVE  \E c, d \in 1..Len(a) : c < d /\ b[i] = a[c] /\ b[j] = a[d]
    OBVIOUS
  <2>1. CASE j \in 1..n
    <3>1. i \in 1..n
      BY <1>1, <2>1
    <3> QED
      BY <1>2, <1>3, <1>7, <2>1, <3>1
  <2>2. CASE j - n \in 1..Len(q2) /\ n + (j - n) = j
    <3>1. b[j] = q2[j - n]
      BY <1>3, <2>2
    <3>2. CASE i \in 1..n
      <4>1. PICK d \in 1..Len(q) : q2[j - n] = q[d]
        BY <1>8, <2>2
      <4>2. n + d \in 1..Len(a) /\ i < n + d /\ a[n + d] = q[d] /\ i \in 1..Len(a)
        BY <1>1, <1>2, <1>7, <3>2
      <4> QED
        BY <1>2, <1>3, <3>1, <3>2, <4>1, <4>2
    <3>3. CASE i - n \in 1..Len(q2) /\ n + (i - n) = i
      <4>1. i - n < j - n
        BY <1>1, <2>2, <3>3
      <4>2. PICK c, d \in 1..Len(q) : c < d /\ q2[i - n] = q[c] /\ q2[j - n] = q[d]
        BY <1>8, <2>2, <3>3, <4>1
      <4>3. n + c \in 1..Len(a) /\ n + d \in 1..Len(a) /\ n + c < n + d
            /\ a[n + c] = q[c] /\ a[n + d] = q[d]
        BY <1>1, <1>2, <1>7, <4>2
      <4>4. b[i] = q2[i - n]
        BY <1>3, <3>3
      <4> QED
        BY <3>1, <4>2, <4>3, <4>4
    <3> QED
      BY <1>6, <3>2, <3>3
  <2> QED
    BY <1>6, <2>1, <2>2
<1>11. \A c \in 1..Len(a) : a[c].event \in g2 \/ \E i \in 1..Len(b) : b[i] = a[c]
  <2> SUFFICES ASSUME NEW c \in 1..Len(a), a[c].event \notin g2
               PROVE  \E i \in 1..Len(b) : b[i] = a[c]
    OBVIOUS
  <2>1. CASE c \in 1..n
    BY <1>2, <1>3, <1>7, <2>1
  <2>2. CASE c - n \in 1..Len(q) /\ n + (c - n) = c
    <3>1. a[c] = q[c - n]
      BY <1>2, <2>2
    <3>2. PICK i \in 1..Len(q2) : q2[i] = q[c - n]
      BY <1>8, <2>2, <3>1
    <3> QED
      BY <1>3, <1>7, <3>1, <3>2
  <2> QED
    BY <1>5, <2>1, <2>2
<1>12. \A e \in g2 : e \in g \/ \E c \in 1..Len(a) : a[c].event = e
  <2> SUFFICES ASSUME NEW e \in g2, e \notin g
               PROVE  \E c \in 1..Len(a) : a[c].event = e
    OBVIOUS
  <2>1. PICK c \in 1..Len(q) : q[c].event = e
    BY <1>8
  <2> QED
    BY <1>2, <1>7, <2>1
<1>13. \A i \in 1..Len(b) : b[i].event \in g2 => b[i].event \in g
  <2> SUFFICES ASSUME NEW i \in 1..Len(b), b[i].event \in g2, b[i].event \notin g
               PROVE  FALSE
    OBVIOUS
  <2>1. CASE i \in 1..n
    <3>1. PICK c \in 1..Len(q) : q[c].event = b[i].event
      BY <1>8
    <3>2. a[i] = b[i] /\ a[n + c] = q[c]
      BY <1>2, <1>3, <2>1
    <3>3. i \in 1..Len(a) /\ n + c \in 1..Len(a)
      BY <1>7, <2>1
    <3>4. i # n + c
      BY <1>1, <2>1
    <3> QED
      BY <1>4, <3>1, <3>2, <3>3, <3>4
  <2>2. CASE i - n \in 1..Len(q2) /\ n + (i - n) = i
    <3>1. b[i] = q2[i - n]
      BY <1>3, <2>2
    <3> QED
      BY <1>8, <2>2, <3>1
  <2> QED
    BY <1>6, <2>1, <2>2
<1>14. Thinned(a, b, g, g2)
  BY <1>3, <1>8, <1>9, <1>10, <1>11, <1>12, <1>13 DEF Thinned
<1> QED
  BY <1>14 DEF a, b

(* Records leave the application queue, which the counter follows.                    *)
LEMMA PathThinned ==
    ASSUME NEW p, NEW hal, NEW k, NEW l, NEW s, PathFlow(p, hal, k, l, s),
           NEW ap, NEW g, Thinned(p.app, ap, p.gone, g)
    PROVE  PathFlow([p EXCEPT !.app = ap, !.queued = Len(ap), !.gone = g], hal, k, l, s)
<1> DEFINE q == [p EXCEPT !.app = ap, !.queued = Len(ap), !.gone = g]
<1>1. p \in PathType /\ p.thread \in Seq(Records) /\ Len(p.thread) <= 1 /\ p.app \in Seq(Records)
      /\ k \in 0..MaxEvents /\ Flow(p.thread \o p.app, hal, p.gone, k, l, s)
  BY DEF PathFlow, PathType
<1>2. ap \in Seq(Records) /\ Len(ap) \in Nat
  BY DEF Thinned
<1>3. Thinned(p.thread \o p.app, p.thread \o ap, p.gone, g)
  <2>1. \A i, j \in 1..Len(p.thread \o p.app) :
           (p.thread \o p.app)[i].event = (p.thread \o p.app)[j].event => i = j
    BY <1>1 DEF Flow, Once
  <2> QED
    BY <1>1, <2>1, ConcatThinned
<1>4. Flow(p.thread \o ap, hal, g, k, l, s)
  BY <1>1, <1>3, FlowThinned
<1>5. g \subseteq 1..MaxEvents
  <2>1. g \subseteq 1..k
    BY <1>4 DEF Flow, Accounted
  <2> QED
    BY <1>1, <2>1, Sizes
<1>6. q \in PathType /\ q.app = ap /\ q.queued = Len(ap) /\ q.thread = p.thread /\ q.gone = g
  BY <1>1, <1>2, <1>5 DEF PathType
<1> HIDE DEF q
<1>7. Flow(q.thread \o q.app, hal, q.gone, k, l, s)
  BY <1>4, <1>6, Zenon
<1>8. PathFlow(q, hal, k, l, s)
  BY <1>1, <1>6, <1>7 DEF PathFlow
<1> QED
  BY <1>8 DEF q

LEMMA RemovedThinned ==
    ASSUME NEW q \in Seq(Records), NEW m \in 1..Len(q), NEW g,
           \A i, j \in 1..Len(q) : q[i].event = q[j].event => i = j
    PROVE  Thinned(q, RemoveAt(q, m), g, g \cup {q[m].event}) /\ Len(RemoveAt(q, m)) = Len(q) - 1
<1> DEFINE t == RemoveAt(q, m)
<1>1. /\ t \in Seq(Records) /\ Len(t) = Len(q) - 1
      /\ \A j \in 1..(Len(q) - 1) : t[j] = IF j < m THEN q[j] ELSE q[j + 1]
  BY Lists!RemoveAtPositions DEF RemoveAt, Lists!RemoveAt
<1> HIDE DEF t
<1>2. Len(q) \in Nat /\ Len(q) >= 1 /\ m \in Nat /\ m >= 1 /\ m <= Len(q)
  OBVIOUS
<1> DEFINE from(i) == IF i < m THEN i ELSE i + 1
<1>3. \A i \in 1..Len(t) : t[i] = q[from(i)] /\ from(i) \in 1..Len(q) /\ from(i) # m
  BY <1>1, <1>2
<1>4. \A i, j \in 1..Len(t) : i < j => from(i) < from(j)
  BY <1>1, <1>2
<1>5. \A a \in 1..Len(q) : a = m \/ \E i \in 1..Len(t) : t[i] = q[a]
  <2> SUFFICES ASSUME NEW a \in 1..Len(q), a # m
               PROVE  \E i \in 1..Len(t) : t[i] = q[a]
    OBVIOUS
  <2>1. CASE a < m
    BY <1>1, <1>2, <2>1
  <2>2. CASE m < a
    <3>1. a - 1 \in 1..Len(t) /\ ~(a - 1 < m) /\ (a - 1) + 1 = a
      BY <1>1, <1>2, <2>2
    <3>2. t[a - 1] = q[a]
      BY <1>1, <3>1
    <3> QED
      BY <3>1, <3>2
  <2> QED
    BY <1>2, <2>1, <2>2
<1> HIDE DEF from
<1>6. \A i \in 1..Len(t) : t[i].event # q[m].event
  BY <1>3
<1>7. \A i, j \in 1..Len(t) :
         i < j => \E a, b \in 1..Len(q) : a < b /\ t[i] = q[a] /\ t[j] = q[b]
  BY <1>3, <1>4
<1>8. \A i \in 1..Len(t) : \E a \in 1..Len(q) : t[i] = q[a]
  BY <1>3
<1>9. \A a \in 1..Len(q) : q[a].event \in g \cup {q[m].event} \/ \E i \in 1..Len(t) : t[i] = q[a]
  BY <1>5
<1>10. Thinned(q, t, g, g \cup {q[m].event})
  BY <1>1, <1>6, <1>7, <1>8, <1>9 DEF Thinned
<1> QED
  BY <1>1, <1>10 DEF t

Without(q, d) ==
    [q EXCEPT !.app = Others(@, d),
              !.queued = @ - (Len(q.app) - Len(Others(q.app, d))),
              !.gone = @ \cup {r.event : r \in {x \in ToSet(q.app) : x.disp = d}}]

LEMMA WithoutFlow ==
    ASSUME NEW p, NEW hal, NEW k, NEW l, NEW s, PathFlow(p, hal, k, l, s), NEW d
    PROVE  PathFlow(Without(p, d), hal, k, l, s)
<1> DEFINE ap == Others(p.app, d)
           g == p.gone \cup {r.event : r \in {x \in ToSet(p.app) : x.disp = d}}
<1>1. p \in PathType /\ p.app \in Seq(Records) /\ p.queued = Len(p.app) /\ p.thread \in Seq(Records)
      /\ Flow(p.thread \o p.app, hal, p.gone, k, l, s)
  BY DEF PathFlow, PathType
<1>2. \A i, j \in 1..Len(p.app) : p.app[i].event = p.app[j].event => i = j
  <2>1. \A i, j \in 1..Len(p.thread \o p.app) :
           (p.thread \o p.app)[i].event = (p.thread \o p.app)[j].event => i = j
    BY <1>1 DEF Flow, Once
  <2> QED
    BY <1>1, <2>1, DistinctPart
<1>3. Thinned(p.app, ap, p.gone, g)
  BY <1>1, <1>2, OthersThinned
<1>4. ap \in Seq(Records)
  BY <1>3 DEF Thinned
<1>5. p.queued - (Len(p.app) - Len(ap)) = Len(ap)
  BY <1>1, <1>4
<1>6. Without(p, d) = [p EXCEPT !.app = ap, !.queued = Len(ap), !.gone = g]
  BY <1>1, <1>5 DEF Without, PathType
<1> HIDE DEF ap, g
<1>7. PathFlow([p EXCEPT !.app = ap, !.queued = Len(ap), !.gone = g], hal, k, l, s)
  BY <1>3, PathThinned
<1> QED
  BY <1>6, <1>7, Zenon

LEMMA ReleasedFlow ==
    ASSUME NEW p, NEW hal, NEW k, NEW l, NEW s, PathFlow(p, hal, k, l, s), NEW d, NEW live
    PROVE  PathFlow(ReleaseQueued(p, d, live), hal, k, l, s)
<1> DEFINE mine == {i \in DOMAIN p.app : p.app[i].disp = d}
           first == Min(mine)
           rest == [p EXCEPT !.app = RemoveAt(@, first), !.queued = @ - 1,
                             !.gone = @ \cup {p.app[first].event}]
           spawned == SpawnDispatcher(rest, live)
<1>1. ReleaseQueued(p, d, live) =
         IF mine = {} THEN p
         ELSE IF p.thread # <<>> THEN Without(p, d)
         ELSE IF first < Len(p.app) /\ p.app[first + 1] \in ToSet(spawned.app)
              THEN Without(spawned, d)
         ELSE spawned
  BY DEF ReleaseQueued, Without
<1>2. CASE mine = {}
  BY <1>1, <1>2
<1>3. CASE mine # {} /\ p.thread # <<>>
  BY <1>1, <1>3, WithoutFlow
<1>4. CASE mine # {} /\ p.thread = <<>>
  <2>1. p \in PathType /\ p.app \in Seq(Records) /\ p.queued = Len(p.app)
        /\ Flow(p.thread \o p.app, hal, p.gone, k, l, s)
    BY DEF PathFlow, PathType
  <2>2. p.thread \o p.app = p.app
    BY <1>4, <2>1
  <2>3. \A i, j \in 1..Len(p.app) : p.app[i].event = p.app[j].event => i = j
    BY <2>1, <2>2 DEF Flow, Once
  <2>4. first \in 1..Len(p.app)
    <3>1. mine \in SUBSET Nat /\ mine \subseteq 1..Len(p.app)
      BY <2>1
    <3>2. Min(mine) \in mine
      <4> HIDE DEF mine
      <4> QED
        BY <1>4, <3>1, LeastOf
    <3> QED
      BY <3>1, <3>2, Zenon
  <2> DEFINE ap == RemoveAt(p.app, first)
             g == p.gone \cup {p.app[first].event}
  <2>5. Thinned(p.app, ap, p.gone, g) /\ Len(ap) = Len(p.app) - 1
    <3> HIDE DEF first
    <3> QED
      BY <2>1, <2>3, <2>4, RemovedThinned
  <2>6. rest = [p EXCEPT !.app = ap, !.queued = Len(ap), !.gone = g]
    <3> HIDE DEF first
    <3> QED
      BY <2>1, <2>5 DEF PathType
  <2> HIDE DEF ap, g
  <2>7. PathFlow([p EXCEPT !.app = ap, !.queued = Len(ap), !.gone = g], hal, k, l, s)
    BY <2>5, PathThinned
  <2>8. PathFlow(rest, hal, k, l, s)
    BY <2>6, <2>7, Zenon
  <2> HIDE DEF rest
  <2>9. PathFlow(spawned, hal, k, l, s)
    BY <2>8, SpawnedFlow
  <2> HIDE DEF spawned, first, mine
  <2>10. PathFlow(Without(spawned, d), hal, k, l, s)
    BY <2>9, WithoutFlow
  <2> QED
    BY <1>1, <1>4, <2>9, <2>10
<1> QED
  BY <1>2, <1>3, <1>4

-----------------------------------------------------------------------------
(* What the steps do to the records of the ring buffer.                          *)

LEMMA FirstSlot ==
    ASSUME NEW r \in Indices
    PROVE  At(r, 1) = r
<1>1. 1 \in 1..(Size + 1)
  BY Sizes
<1> QED
  BY <1>1, AtValue, Sizes DEF Indices

LEMMA IncrementedInjective ==
    ASSUME NEW i \in Indices, NEW j \in Indices, Incremented(i) = Incremented(j)
    PROVE  i = j
<1>1. i \in Int /\ j \in Int /\ 0 <= i /\ i < Size /\ 0 <= j /\ j < Size /\ Size \in Nat
  BY Sizes DEF Indices
<1>2. /\ i + 1 < Size => Incremented(i) = i + 1
      /\ i + 1 >= Size => Incremented(i) = 0
      /\ j + 1 < Size => Incremented(j) = j + 1
      /\ j + 1 >= Size => Incremented(j) = 0
  BY IncrementedValue
<1> QED
  BY <1>1, <1>2

LEMMA AppendTail ==
    ASSUME NEW S, NEW c \in Seq(S), c # <<>>, NEW x \in S
    PROVE  Tail(Append(c, x)) = Append(Tail(c), x)
<1>1. Len(c) \in Nat /\ Len(c) >= 1
  OBVIOUS
<1>2. Tail(c) \in Seq(S) /\ Len(Tail(c)) = Len(c) - 1 /\ \A i \in 1..(Len(c) - 1) : Tail(c)[i] = c[i + 1]
  BY <1>1
<1> DEFINE a == Tail(Append(c, x))
           b == Append(Tail(c), x)
<1>3. a \in Seq(S) /\ Len(a) = Len(c) /\ \A i \in 1..Len(c) : a[i] = Append(c, x)[i + 1]
  BY <1>1
<1>4. b \in Seq(S) /\ Len(b) = Len(c) /\ b[Len(c)] = x /\ \A i \in 1..(Len(c) - 1) : b[i] = c[i + 1]
  BY <1>1, <1>2
<1>5. Append(c, x)[Len(c) + 1] = x /\ \A i \in 1..Len(c) : Append(c, x)[i] = c[i]
  OBVIOUS
<1> HIDE DEF a, b
<1>6. \A i \in 1..Len(c) : a[i] = b[i]
  <2> SUFFICES ASSUME NEW i \in 1..Len(c)
               PROVE  a[i] = b[i]
    OBVIOUS
  <2>1. CASE i = Len(c)
    BY <1>3, <1>4, <1>5, <2>1
  <2>2. CASE i # Len(c)
    <3>1. i \in 1..(Len(c) - 1) /\ i + 1 \in 1..Len(c)
      BY <1>1, <2>2
    <3> QED
      BY <1>3, <1>4, <1>5, <3>1
  <2> QED
    BY <2>1, <2>2
<1>7. a = b
  BY <1>3, <1>4, <1>6
<1> QED
  BY <1>7 DEF a, b

LEMMA AppendParts ==
    ASSUME NEW S, NEW X, NEW c \in Seq(S), NEW h \in S, Append(c, h) \in Seq(X)
    PROVE  c \in Seq(X) /\ h \in X
<1> DEFINE a == Append(c, h)
<1>1. Len(a) = Len(c) + 1 /\ Len(c) \in Nat /\ a[Len(c) + 1] = h /\ \A i \in 1..Len(c) : a[i] = c[i]
  OBVIOUS
<1>2. a \in Seq(X)
  OBVIOUS
<1> HIDE DEF a
<1>3. \A i \in 1..Len(a) : a[i] \in X
  BY <1>2
<1>4. h \in X
  BY <1>1, <1>3
<1>5. \A i \in 1..Len(c) : c[i] \in X
  BY <1>1, <1>3
<1> QED
  BY <1>4, <1>5

(* A push to the slot w goes with the writing of another one.                        *)
LEMMA WrittenPut ==
    ASSUME NEW sl \in Slots, NEW w, NEW x, NEW sl2, Put(sl2, sl, w, x),
           NEW to \in Indices, to # w, NEW from \in Indices, from # w
    PROVE  /\ [sl EXCEPT ![to] = sl[from]] \in Slots
           /\ Put([sl2 EXCEPT ![to] = sl2[from]], [sl EXCEPT ![to] = sl[from]], w, x)
BY DEF Slots, Put

(* A state of the ring buffer and of the engine that belong together.              *)
Fits(sl, r, w, f, n, en) ==
    /\ sl \in Slots /\ RingOK(r, w, f) /\ n = Count(r, w, f)
    /\ en \in EngineType /\ InHand(r, n, f, en)

(* The record x is the youngest in the buffer; one that is in hand to be put back    *)
(* behind the others comes after it.                                           *)
Between(hal, x, hal2) ==
    \E c \in Seq(Records), h \in Records : hal = Append(c, h) /\ hal2 = Append(Append(c, x), h)

Grown(pc, hal, x, hal2) ==
    IF pc = "push" THEN Between(hal, x, hal2) ELSE hal2 = Append(hal, x)

(* An interrupt that finds room.                                                *)
LEMMA HalRaised ==
    ASSUME NEW sl, NEW r, NEW w, NEW f, NEW n, NEW en, Fits(sl, r, w, f, n, en), ~f, w # en.slot,
           NEW hal \in Seq(Records), hal = Hal(sl, r, n, en), NEW x,
           NEW sl2, Put(sl2, sl, w, x), NEW m, m = n + 1, NEW hal2, hal2 = Hal(sl2, r, m, en)
    PROVE  Grown(en.pc, hal, x, hal2)
<1> USE DEF Grown, Between
<1> DEFINE All == Records \cup {NoRecord}
<1>0. /\ sl \in Slots /\ RingOK(r, w, f) /\ n = Count(r, w, f)
      /\ en \in EngineType /\ InHand(r, n, f, en)
  BY DEF Fits
<1>1. r \in Indices /\ w \in Indices
  BY <1>0 DEF RingOK
<1>2. n \in 0..Size /\ n # Size
  BY <1>0, CountValue, FullIndices
<1>3. n \in 0..(Size - 1) /\ n \in Nat /\ n \in 0..Size
  BY <1>0, <1>2, Sizes
<1>4. w = At(r, m)
  BY <1>0, WriterAt
<1>5. sl2 \in Slots /\ x \in All
  BY <1>0, <1>1 DEF Slots, Put
<1>7. Ring(sl, r, n) \in Seq(All)
  BY <1>0, <1>1, <1>3, RingType
<1>8. Ring(sl2, r, m) = Append(Ring(sl, r, n), x)
  BY <1>0, <1>1, <1>3, <1>4, RingPut
<1> DEFINE c == Ring(sl, r, n)
<1>11. CASE en.pc = "pop"
  <2>1. n >= 1
    BY <1>0, <1>11 DEF InHand
  <2>2. c # <<>>
    BY <1>0, <1>3, <2>1, RingLength
  <2>3. Hal(sl, r, n, en) = Tail(c) /\ Hal(sl2, r, m, en) = Tail(Append(c, x))
    BY <1>0, <1>8, <1>11 DEF Hal
  <2> HIDE DEF c
  <2>4. c \in Seq(All)
    BY <1>0, <1>7 DEF c
  <2>5. Tail(Append(c, x)) = Append(Tail(c), x)
    BY <1>0, <1>5, <2>2, <2>4, AppendTail
  <2> QED
    BY <1>0, <1>11, <2>3, <2>5
<1>12. CASE en.pc = "push"
  <2>1. en.slot \in Indices
    BY <1>0, <1>12 DEF InHand
  <2> DEFINE h == sl[en.slot]
  <2>2. sl2[en.slot] = h
    BY <1>0, <2>1 DEF Put
  <2>3. Hal(sl, r, n, en) = Append(c, h) /\ Hal(sl2, r, m, en) = Append(Append(c, x), h)
    BY <1>0, <1>8, <1>12, <2>2 DEF Hal
  <2>4. h \in All
    BY <1>0, <2>1 DEF Slots
  <2> HIDE DEF c, h
  <2>5. c \in Seq(Records) /\ h \in Records
    <3>1. c \in Seq(All) /\ Append(c, h) \in Seq(Records)
      BY <1>0, <1>7, <2>3 DEF c
    <3> QED
      BY <1>0, <2>4, <3>1, AppendParts
  <2> QED
    BY <1>0, <1>12, <2>3, <2>5
<1>13. CASE en.pc = "assign"
  <2>1. /\ en.slot \in Indices /\ en.to \in Indices /\ en.to # en.slot
        /\ \E i \in 1..n : en.to = At(r, i)
    BY <1>0, <1>13 DEF InHand
  <2>2. w # en.to
    <3>1. PICK i \in 1..n : en.to = At(r, i)
      BY <1>0, <2>1
    <3>2. i \in 1..Size /\ m \in 1..Size /\ i # m
      BY <1>0, <1>3, Sizes
    <3> QED
      BY <1>0, <1>1, <1>4, <3>1, <3>2, AtInjective
  <2>3. Ring([sl2 EXCEPT ![en.to] = sl2[en.slot]], r, m)
        = Append(Ring([sl EXCEPT ![en.to] = sl[en.slot]], r, n), x)
    <3> DEFINE v == [sl EXCEPT ![en.to] = sl[en.slot]]
               v2 == [sl2 EXCEPT ![en.to] = sl2[en.slot]]
    <3>1. v \in Slots /\ Put(v2, v, w, x)
      BY <1>0, <1>1, <2>1, <2>2, WrittenPut
    <3> HIDE DEF v, v2
    <3>2. Ring(v2, r, m) = Append(Ring(v, r, n), x)
      BY <1>0, <1>1, <1>3, <1>4, <3>1, RingPut
    <3> QED
      BY <1>0, <3>2 DEF v, v2
  <2>4. hal = Ring([sl EXCEPT ![en.to] = sl[en.slot]], r, n)
        /\ hal2 = Ring([sl2 EXCEPT ![en.to] = sl2[en.slot]], r, m)
    BY <1>0, <1>13 DEF Hal, Written
  <2> QED
    BY <1>0, <1>13, <2>3, <2>4, Zenon
<1>14. CASE en.pc \notin {"pop", "push", "assign"}
  <2>1. Hal(sl, r, n, en) = c /\ Hal(sl2, r, m, en) = Ring(sl2, r, m)
    BY <1>0, <1>14 DEF Hal, Written
  <2> QED
    BY <1>0, <1>8, <1>14, <2>1
<1> QED
  BY <1>0, <1>11, <1>12, <1>13, <1>14

(* An interrupt that writes over the oldest record.                               *)
(* The oldest record gave way to x.                                             *)
Replaced(hal, old, x, hal2) == hal # <<>> /\ Head(hal) = old /\ hal2 = Append(Tail(hal), x)

LEMMA HalDropped ==
    ASSUME NEW sl, NEW r, NEW w, NEW f, NEW n, NEW en, Fits(sl, r, w, f, n, en), f, w # en.slot,
           NEW hal, hal = Hal(sl, r, n, en), NEW x, NEW sl2, Put(sl2, sl, w, x),
           NEW hal2, hal2 = Hal(sl2, Incremented(r), Size, en)
    PROVE  n = Size /\ Replaced(hal, sl[r], x, hal2)
<1> DEFINE All == Records \cup {NoRecord}
           c == Ring(sl, r, Size)
<1>0. /\ sl \in Slots /\ RingOK(r, w, f) /\ n = Count(r, w, f) /\ n = Size
      /\ en \in EngineType /\ InHand(r, Size, f, en)
  BY DEF Fits, Count
<1>1. r \in Indices /\ w = r /\ Incremented(r) \in Indices /\ Size \in Nat /\ Size >= 1
  BY <1>0, IncrementedValue, Sizes DEF RingOK
<1>2. sl2 \in Slots /\ x \in All
  BY <1>0, <1>1 DEF Slots, Put
<1>3. Count(r, w, f) = Size
  BY <1>0 DEF Count
<1>4. RingOK(Incremented(r), w, FALSE) /\ Count(Incremented(r), w, FALSE) = Size - 1
  BY <1>0, <1>1, <1>3, PopIndices
<1>5. w = At(Incremented(r), Size)
  <2>1. (Size - 1) + 1 = Size
    BY <1>0, <1>1
  <2>2. w = At(Incremented(r), Count(Incremented(r), w, FALSE) + 1)
    BY <1>4, WriterAt
  <2> QED
    BY <1>4, <2>1, <2>2, Zenon
<1>6. Size \in 1..Size /\ Size - 1 \in 0..(Size - 1) /\ Size - 1 \in 0..Size /\ Size = (Size - 1) + 1
  BY <1>0, <1>1
<1>7. Ring(sl, Incremented(r), Size - 1) = Tail(c)
  BY <1>0, <1>1, <1>6, RingTail
<1>9. Ring(sl2, Incremented(r), Size) = Append(Ring(sl, Incremented(r), Size - 1), x)
  <2> DEFINE m == Size - 1
             r2 == Incremented(r)
  <2>1. m \in 0..(Size - 1) /\ Size = m + 1 /\ r2 \in Indices /\ w = At(r2, Size)
    BY <1>0, <1>1, <1>5, <1>6
  <2> HIDE DEF m, r2, c
  <2>2. Ring(sl2, r2, Size) = Append(Ring(sl, r2, m), x)
    BY <1>0, <2>1, RingPut
  <2> QED
    BY <1>0, <2>2 DEF m, r2
<1>10. Ring(sl2, Incremented(r), Size) = Append(Tail(c), x)
  BY <1>0, <1>7, <1>9, Zenon
<1>11. Len(c) = Size /\ c[1] = sl[r] /\ c \in Seq(All)
  <2>1. 1 \in 1..Size /\ Size \in 0..Size
    BY <1>0, <1>1
  <2> QED
    BY <1>0, <1>1, <2>1, RingLength, RingType, FirstSlot
<1> HIDE DEF c
<1>12. c # <<>> /\ Head(c) = sl[r]
  BY <1>0, <1>1, <1>11
<1>13. Written(sl, en) = sl /\ Written(sl2, en) = sl2 /\ en.pc \notin {"pop", "push"}
  <2>1. en.pc \notin {"pop", "push"}
    BY <1>0, <1>1 DEF InHand
  <2>2. CASE en.pc = "assign"
    <3>1. en.to = en.slot /\ en.slot \in Indices
      BY <1>0, <2>2 DEF InHand
    <3> QED
      BY <1>0, <1>2, <2>1, <2>2, <3>1 DEF Written, Slots
  <2>3. CASE en.pc # "assign"
    BY <1>0, <2>1, <2>3 DEF Written
  <2> QED
    BY <1>0, <2>2, <2>3
<1>14. Hal(sl, r, Size, en) = c /\ Hal(sl2, Incremented(r), Size, en) = Append(Tail(c), x)
  BY <1>0, <1>10, <1>13 DEF Hal, c
<1> QED
  BY <1>0, <1>12, <1>14 DEF Replaced

(* Interrupts leave alone what the engine has in hand.                             *)
LEMMA InHandRaised ==
    ASSUME NEW r, NEW w, NEW f, RingOK(r, w, f), ~f,
           NEW en \in EngineType, NEW n, n = Count(r, w, f), InHand(r, n, f, en), w # en.slot
    PROVE  LET f2 == Incremented(w) = r
           IN  InHand(r, n + 1, f2, en)
<1> DEFINE f2 == Incremented(w) = r
<1>1. r \in Indices /\ w \in Indices /\ n \in Nat /\ en.left \in Nat
  BY CountValue, Sizes DEF RingOK, EngineType
<1>2. en.slot \in Indices /\ r = Incremented(en.slot) => ~f2
  BY <1>1, IncrementedInjective
<1>3. \A i \in 1..n : i \in 1..(n + 1)
  BY <1>1
<1>4. n >= 1 => n + 1 >= 1
  BY <1>1
<1>5. en.left <= n => en.left <= n + 1
  BY <1>1
<1>6. en.left <= n - 1 => en.left <= (n + 1) - 1
  BY <1>1
<1> HIDE DEF f2
<1>7. InHand(r, n + 1, f2, en)
  BY <1>1, <1>2, <1>3, <1>4, <1>5, <1>6, Zenon DEF InHand
<1> QED
  BY <1>7 DEF f2

LEMMA InHandDropped ==
    ASSUME NEW r, NEW w, NEW f, RingOK(r, w, f), f,
           NEW en \in EngineType, InHand(r, Size, f, en), w # en.slot
    PROVE  InHand(Incremented(r), Size, TRUE, en)
<1>1. w = r
  BY DEF RingOK
<1> QED
  BY <1>1 DEF InHand

-----------------------------------------------------------------------------
(* The inductive invariant.                                                   *)

Number == Count(reader, writer, full)
Waiting == Hal(slots, reader, Number, engine)

Typed ==
    /\ slots \in Slots
    /\ status \in [Dispatchers -> {"none", "alive", "disposed"}]
    /\ sink \in Dispatchers \cup {Nobody} /\ hwEvent \in BOOLEAN
    /\ raised \in 0..MaxEvents /\ shuffled \in BOOLEAN
    /\ engine \in EngineType
    /\ RingOK(reader, writer, full)

Inv ==
    /\ Typed
    /\ InHand(reader, Number, full, engine)
    /\ PathFlow(Path, Waiting, raised, engine.left, shuffled)

LEMMA PathParts ==
    ASSUME NEW ap, NEW q, NEW th, NEW g, NEW hal, NEW k, NEW l, NEW s
    PROVE  PathFlow([app |-> ap, queued |-> q, thread |-> th, gone |-> g], hal, k, l, s)
           <=> /\ ap \in Seq(Records) /\ q = Len(ap)
               /\ th \in Seq(Records) /\ Len(th) <= 1
               /\ k \in 0..MaxEvents
               /\ Flow(th \o ap, hal, g, k, l, s)
<1>1. ASSUME k \in 0..MaxEvents, g \subseteq 1..k
      PROVE  g \subseteq 1..MaxEvents
  BY <1>1, Sizes
<1>2. Flow(th \o ap, hal, g, k, l, s) => g \subseteq 1..k
  BY DEF Flow, Accounted
<1>3. ap \in Seq(Records) => Len(ap) \in Nat
  OBVIOUS
<1> QED
  BY <1>1, <1>2, <1>3 DEF PathFlow, PathType

LEMMA InvParts ==
    ASSUME Inv
    PROVE  /\ app \in Seq(Records) /\ queued = Len(app)
           /\ thread \in Seq(Records) /\ Len(thread) <= 1
           /\ raised \in 0..MaxEvents /\ raised \in Nat
           /\ Waiting \in Seq(Records)
           /\ Flow(thread \o app, Waiting, gone, raised, engine.left, shuffled)
           /\ Number \in 0..Size /\ Number \in Nat
           /\ reader \in Indices /\ writer \in Indices
           /\ engine.left \in Nat
<1>1. PathFlow([app |-> app, queued |-> queued, thread |-> thread, gone |-> gone],
               Waiting, raised, engine.left, shuffled)
  BY DEF Inv, Path
<1>2. Flow(thread \o app, Waiting, gone, raised, engine.left, shuffled)
      /\ app \in Seq(Records) /\ queued = Len(app)
      /\ thread \in Seq(Records) /\ Len(thread) <= 1 /\ raised \in 0..MaxEvents
  BY <1>1, PathParts
<1>3. Number \in 0..Size /\ reader \in Indices /\ writer \in Indices /\ engine.left \in Nat
  BY CountValue DEF Inv, Typed, Number, RingOK, EngineType
<1>4. Number \in Nat /\ raised \in Nat
  BY <1>2, <1>3, Sizes
<1>5. Waiting \in Seq(Records)
  BY <1>2 DEF Flow
<1> QED
  BY <1>2, <1>3, <1>4, <1>5

(* The operators of the model and those of the proof are the same.                  *)
LEMMA NumberIs == NumberOfElements = Number
BY DEF NumberOfElements, Number, Count

LEMMA EmptyIs == ASSUME Inv PROVE IsEmpty <=> Number = 0
BY EmptyIndices DEF Inv, Typed, IsEmpty, Number

LEMMA ContentIs == Content = Ring(slots, reader, Number)
BY NumberIs, Zenon DEF Content, Ring, At

LEMMA WaitingIs ==
    ASSUME Inv
    PROVE  HalRecords = Waiting
<1>1. Number \in Nat /\ reader \in Indices /\ writer \in Indices /\ slots \in Slots
  BY InvParts DEF Inv, Typed
<1>2. CASE engine.pc = "pop"
  <2>1. ~IsEmpty
    BY <1>1, <1>2, EmptyIs DEF Inv, InHand
  <2> QED
    BY <1>2, <2>1, ContentIs DEF HalRecords, Waiting, Hal
<1>3. CASE engine.pc = "push"
  BY <1>3, ContentIs DEF HalRecords, Waiting, Hal
<1>4. CASE engine.pc = "assign"
  <2>1. HalRecords = [i \in DOMAIN Content |-> IF At(reader, i) = engine.to
                                               THEN slots[engine.slot] ELSE Content[i]]
    BY <1>4 DEF HalRecords, At
  <2>2. DOMAIN Content = 1..Number /\ \A i \in 1..Number : Content[i] = slots[At(reader, i)]
    BY ContentIs DEF Ring
  <2>3. \A i \in 1..Number : At(reader, i) \in Indices
    <3>1. \A i \in 1..Number : i \in 1..(Size + 1)
      BY InvParts, Sizes
    <3> QED
      BY <1>1, <3>1, AtValue
  <2>4. Waiting = [i \in 1..Number |-> [slots EXCEPT ![engine.to] = slots[engine.slot]][At(reader, i)]]
    BY <1>4 DEF Waiting, Hal, Written, Ring
  <2>5. \A i \in 1..Number :
           [slots EXCEPT ![engine.to] = slots[engine.slot]][At(reader, i)]
           = IF At(reader, i) = engine.to THEN slots[engine.slot] ELSE Content[i]
    BY <1>1, <2>2, <2>3 DEF Slots
  <2> QED
    BY <2>1, <2>2, <2>4, <2>5
<1>5. CASE engine.pc \notin {"pop", "push", "assign"}
  BY <1>5, ContentIs DEF HalRecords, Waiting, Hal, Written
<1> QED
  BY <1>2, <1>3, <1>4, <1>5

LEMMA BecomesIs ==
    ASSUME NEW p, p \in PathType, Becomes(p)
    PROVE  Path' = p
BY DEF Becomes, Path, PathType

LEMMA SamePath == ASSUME UNCHANGED path PROVE Path' = Path
BY DEF path, Path

(* What the invariant says where the engine is not in the middle of anything.          *)
LEMMA Idle ==
    ASSUME Inv, engine.pc \in {"run", "peek", "copy", "remove"}
    PROVE  Waiting = Ring(slots, reader, Number) /\ Len(Waiting) = Number
<1>1. Waiting = Ring(slots, reader, Number)
  BY DEF Waiting, Hal, Written
<1> QED
  BY <1>1, InvParts, RingLength

LEMMA NothingYet ==
    ASSUME NEW p \in PathType, p.app = <<>>, p.thread = <<>>, p.queued = 0, p.gone = {},
           NEW hal, hal = <<>>, NEW k, k = 0, NEW l, NEW s
    PROVE  PathFlow(p, hal, k, l, s)
<1>1. <<>> \o <<>> = <<>> /\ hal \in Seq(Records) /\ Len(hal) = 0 /\ Len(<<>>) = 0 /\ 1..0 = {}
  OBVIOUS
<1>2. k \in 0..MaxEvents /\ 1..k = {}
  BY Sizes
<1> DEFINE tr == p.thread \o p.app
<1>3. tr = <<>> /\ tr \in Seq(Records) /\ Len(tr) = 0
  BY <1>1
<1> HIDE DEF tr
<1>4. Flow(tr, hal, p.gone, k, l, s)
  BY <1>1, <1>2, <1>3 DEF Flow, Once, Accounted, InOrder
<1> QED
  BY <1>1, <1>2, <1>4 DEF PathFlow, tr

LEMMA InitInv == Init => Inv
<1> SUFFICES ASSUME Init
             PROVE  Inv
  OBVIOUS
<1>1. 0 \in Indices /\ Size \in Nat /\ MaxEvents \in Nat
  BY Sizes DEF Indices
<1>2. RingOK(reader, writer, full)
  BY <1>1 DEF Init, RingOK
<1>3. Number = 0
  BY <1>2, EmptyIndices DEF Init, Number
<1>4. Typed
  BY <1>1, <1>2 DEF Init, Typed, Slots, EngineType, Running, NoSlot
<1>5. InHand(reader, Number, full, engine)
  BY <1>3 DEF Init, InHand, Running, Removing, NoSlot
<1>6. Waiting = <<>>
  <2>1. Waiting = Ring(slots, reader, 0)
    BY <1>3 DEF Init, Waiting, Hal, Written, Running
  <2>2. 1..0 = {}
    OBVIOUS
  <2>3. Ring(slots, reader, 0) = [i \in {} |-> slots[At(reader, i)]]
    BY <2>2, Zenon DEF Ring
  <2> QED
    BY <2>1, RingLength, <2>3
<1>7. PathFlow(Path, Waiting, raised, engine.left, shuffled)
  <2>1. /\ Path \in PathType /\ Path.app = <<>> /\ Path.thread = <<>> /\ Path.queued = 0
        /\ Path.gone = {}
    BY DEF Init, Path, PathType
  <2>2. raised = 0 /\ engine.left = 0
    BY DEF Init, Running
  <2> QED
    BY <1>6, <2>1, <2>2, NothingYet
<1> QED
  BY <1>4, <1>5, <1>7 DEF Inv
-----------------------------------------------------------------------------
(* Interrupts.                                                               *)

LEMMA InvFrom ==
    ASSUME Typed', InHand(reader, Number, full, engine)',
           Flow(thread \o app, Waiting, gone, raised, engine.left, shuffled)',
           app' \in Seq(Records), queued' = Len(app'), thread' \in Seq(Records), Len(thread') <= 1
    PROVE  Inv'
<1>1. raised' \in 0..MaxEvents
  BY DEF Typed
<1>2. Flow(thread' \o app', Waiting', gone', raised', engine'.left, shuffled')
  OBVIOUS
<1>3. PathFlow([app |-> app', queued |-> queued', thread |-> thread', gone |-> gone'],
               Waiting', raised', engine'.left, shuffled')
  BY <1>1, <1>2, PathParts
<1>4. PathFlow(Path', Waiting', raised', engine'.left, shuffled')
  BY <1>3 DEF Path
<1> QED
  BY <1>4 DEF Inv

LEMMA RaisedRecord ==
    ASSUME Inv, Interrupt
    PROVE  [event |-> raised + 1, disp |-> sink] \in Records
BY InvParts, Sizes DEF Inv, Typed, Interrupt, Records

LEMMA InterruptStored ==
    ASSUME Inv, Interrupt, "burst" \notin Windows, ~full
    PROVE  Inv' /\ Grown(engine.pc, Waiting, [event |-> raised + 1, disp |-> sink], Waiting')
<1> DEFINE x == [event |-> raised + 1, disp |-> sink]
<1>1. x \in Records /\ x.event = raised + 1
  BY RaisedRecord
<1>2. /\ writer # engine.slot
      /\ slots' = [slots EXCEPT ![writer] = x] /\ writer' = Incremented(writer)
      /\ reader' = reader /\ full' = (Incremented(writer) = reader) /\ gone' = gone
      /\ raised' = raised + 1 /\ raised < MaxEvents
      /\ shuffled' = (shuffled \/ Removing(engine))
      /\ app' = app /\ queued' = queued /\ thread' = thread
      /\ status' = status /\ sink' = sink /\ hwEvent' = TRUE /\ engine' = engine
  BY DEF Interrupt, SaveToHALQueue, Removing
<1> HIDE DEF x
<1>3. /\ slots \in Slots /\ RingOK(reader, writer, full) /\ engine \in EngineType
      /\ InHand(reader, Number, full, engine) /\ writer \in Indices
  BY InvParts DEF Inv, Typed
<1>4. RingOK(reader', writer', full') /\ Number' = Number + 1
  <2>1. RingOK(reader, Incremented(writer), Incremented(writer) = reader)
        /\ Count(reader, Incremented(writer), Incremented(writer) = reader) = Count(reader, writer, full) + 1
    BY <1>3, PushIndices
  <2> QED
    BY <1>2, <2>1, Zenon DEF Number
<1>5. Put(slots', slots, writer, x) /\ slots' \in Slots
  <2>1. Put([slots EXCEPT ![writer] = x], slots, writer, x)
    BY <1>1, <1>3, PutIs
  <2> QED
    BY <1>2, <2>1, Zenon DEF Put
<1>6. raised' \in 0..MaxEvents /\ raised \in Nat /\ engine.left \in Nat
  BY <1>2, InvParts, Sizes
<1>7. Typed'
  BY <1>2, <1>4, <1>5, <1>6 DEF Inv, Typed
<1>8. InHand(reader', Number', full', engine')
  <2>1. InHand(reader, Number + 1, Incremented(writer) = reader, engine)
    BY <1>2, <1>3, InHandRaised DEF Number
  <2> QED
    BY <1>2, <1>4, <2>1, Zenon
<1>10. Grown(engine.pc, Waiting, x, Waiting')
  <2>1. Waiting \in Seq(Records) /\ Waiting = Hal(slots, reader, Number, engine)
        /\ Number = Count(reader, writer, full)
    BY InvParts DEF Waiting, Number
  <2>2. Waiting' = Hal(slots', reader, Number', engine)
    BY <1>2 DEF Waiting
  <2>3. Fits(slots, reader, writer, full, Number, engine)
    BY <1>3, <2>1 DEF Fits
  <2> QED
    BY <1>2, <1>4, <1>5, <2>1, <2>2, <2>3, HalRaised
<1>11. Flow(thread \o app, Waiting, gone, raised, engine.left, shuffled)
  BY InvParts
<1>12. shuffled => shuffled'
  BY <1>2
<1>13. Removing(engine) => shuffled'
  BY <1>2
<1>14. Flow(thread \o app, Waiting', gone, raised + 1, engine.left, shuffled')
  <2>1. CASE engine.pc # "push"
    <3>1. shuffled' \/ engine.left = 0
      BY <1>3, <1>13 DEF InHand
    <3>2. Flow(thread \o app, Append(Waiting, x), gone, raised + 1, engine.left, shuffled')
      BY <1>1, <1>6, <1>11, <1>12, <3>1, FlowRaised
    <3> QED
      BY <1>10, <2>1, <3>2, Zenon DEF Grown
  <2>2. CASE engine.pc = "push"
    <3>1. PICK c \in Seq(Records), h \in Records :
             Waiting = Append(c, h) /\ Waiting' = Append(Append(c, x), h)
      BY <1>10, <2>2 DEF Grown, Between
    <3>2. shuffled'
      BY <1>13, <2>2 DEF Removing
    <3>3. Flow(thread \o app, Append(c, h), gone, raised, engine.left, shuffled)
      BY <1>11, <3>1, Zenon
    <3>4. Flow(thread \o app, Append(Append(c, x), h), gone, raised + 1, engine.left, shuffled')
      BY <1>1, <1>6, <3>2, <3>3, FlowInserted
    <3> QED
      BY <3>1, <3>4, Zenon
  <2> QED
    BY <2>1, <2>2
<1>16. Flow(thread' \o app', Waiting', gone', raised', engine'.left, shuffled')
  BY <1>2, <1>14, Zenon
<1>17. /\ app' \in Seq(Records) /\ queued' = Len(app')
       /\ thread' \in Seq(Records) /\ Len(thread') <= 1
  BY <1>2, InvParts
<1> QED
  BY <1>7, <1>8, <1>10, <1>16, <1>17, InvFrom DEF x

LEMMA InterruptDrops ==
    ASSUME Inv, Interrupt, "burst" \notin Windows, full
    PROVE  Inv' /\ Replaced(Waiting, slots[reader], [event |-> raised + 1, disp |-> sink], Waiting')
<1> DEFINE x == [event |-> raised + 1, disp |-> sink]
           left2 == IF engine.left = 0 THEN 0 ELSE engine.left - 1
<1>1. x \in Records /\ x.event = raised + 1
  BY RaisedRecord
<1>2. /\ writer # engine.slot
      /\ slots' = [slots EXCEPT ![writer] = x] /\ writer' = Incremented(writer)
      /\ reader' = Incremented(reader) /\ full' = (writer' = reader')
      /\ gone' = gone \cup {slots[reader].event}
      /\ raised' = raised + 1 /\ raised < MaxEvents
      /\ shuffled' = (shuffled \/ Removing(engine))
      /\ app' = app /\ queued' = queued /\ thread' = thread
      /\ status' = status /\ sink' = sink /\ hwEvent' = TRUE /\ engine' = engine
  BY DEF Interrupt, SaveToHALQueue, Removing
<1> HIDE DEF x
<1>3. /\ slots \in Slots /\ RingOK(reader, writer, full) /\ engine \in EngineType
      /\ InHand(reader, Number, full, engine) /\ writer \in Indices /\ reader = writer
      /\ Number = Count(reader, writer, full) /\ Number = Size
  BY InvParts DEF Inv, Typed, RingOK, Number, Count
<1>4. RingOK(reader', writer', full') /\ full' = TRUE /\ Number' = Size
  <2>1. full' = TRUE
    BY <1>2, <1>3
  <2>2. RingOK(Incremented(reader), Incremented(writer), TRUE)
        /\ Count(Incremented(reader), Incremented(writer), TRUE) = Size
    BY <1>3, DropIndices
  <2> QED
    BY <1>2, <2>1, <2>2, Zenon DEF Number
<1>5. Put(slots', slots, writer, x) /\ slots' \in Slots
  <2>1. Put([slots EXCEPT ![writer] = x], slots, writer, x)
    BY <1>1, <1>3, PutIs
  <2> QED
    BY <1>2, <2>1, Zenon DEF Put
<1>6. raised' \in 0..MaxEvents /\ raised \in Nat /\ engine.left \in Nat
  BY <1>2, InvParts, Sizes
<1>7. Typed'
  BY <1>2, <1>4, <1>5, <1>6 DEF Inv, Typed
<1>8. InHand(reader', Number', full', engine')
  <2>1. InHand(Incremented(reader), Size, TRUE, engine)
    BY <1>2, <1>3, InHandDropped
  <2> QED
    BY <1>2, <1>4, <2>1, Zenon
<1>9. Replaced(Waiting, slots[reader], x, Waiting')
  <2>1. Waiting = Hal(slots, reader, Number, engine)
    BY DEF Waiting
  <2>2. Waiting' = Hal(slots', Incremented(reader), Size, engine)
    BY <1>2, <1>4, Zenon DEF Waiting
  <2>3. Fits(slots, reader, writer, full, Number, engine)
    BY <1>3 DEF Fits
  <2> QED
    BY <1>2, <1>5, <2>1, <2>2, <2>3, HalDropped
<1>10. Waiting # <<>> /\ Head(Waiting).event = slots[reader].event
       /\ Waiting' = Append(Tail(Waiting), x)
  BY <1>9 DEF Replaced
<1>11. Flow(thread \o app, Waiting, gone, raised, engine.left, shuffled)
  BY InvParts
<1>12. /\ shuffled => shuffled'
       /\ Removing(engine) => shuffled'
  BY <1>2
<1>13. left2 \in Nat
  BY <1>6
<1>14. Flow(thread \o app, Tail(Waiting), gone', raised, left2, shuffled)
  <2>1. Flow(thread \o app, Tail(Waiting), gone \cup {Head(Waiting).event}, raised, left2, shuffled)
    BY <1>6, <1>10, <1>11, <1>13, FlowDropped
  <2> QED
    BY <1>2, <1>10, <2>1, Zenon
<1> DEFINE tail == Tail(Waiting)
           tr == thread \o app
<1> HIDE DEF tail, tr
<1>15. Flow(tr, Append(tail, x), gone', raised + 1, engine.left, shuffled')
  <2>0. Flow(tr, tail, gone', raised, left2, shuffled)
    BY <1>14 DEF tail, tr
  <2>1. CASE engine.left = 0
    <3>1. Flow(tr, tail, gone', raised, engine.left, shuffled)
      BY <2>0, <2>1
    <3> QED
      BY <1>1, <1>6, <1>12, <2>1, <3>1, FlowRaised
  <2>2. CASE engine.left # 0
    <3>1. shuffled'
      BY <1>3, <1>12, <2>2 DEF InHand
    <3>2. Flow(tr, tail, gone', raised, engine.left, shuffled')
      BY <2>0, <3>1, FlowShuffled
    <3> QED
      BY <1>1, <1>6, <3>1, <3>2, FlowRaised
  <2> QED
    BY <2>1, <2>2
<1>16. Flow(thread' \o app', Waiting', gone', raised', engine'.left, shuffled')
  BY <1>2, <1>10, <1>15, Zenon DEF tail, tr
<1>17. /\ app' \in Seq(Records) /\ queued' = Len(app')
       /\ thread' \in Seq(Records) /\ Len(thread') <= 1
  BY <1>2, InvParts
<1> QED
  BY <1>7, <1>8, <1>9, <1>16, <1>17, InvFrom DEF x

LEMMA InterruptInv ==
    ASSUME Inv, Interrupt, "burst" \notin Windows
    PROVE  Inv'
BY InterruptStored, InterruptDrops
-----------------------------------------------------------------------------
(* The transfer.                                                             *)

LEMMA InvFromPath ==
    ASSUME Typed', InHand(reader, Number, full, engine)',
           PathFlow(Path', Waiting', raised', engine'.left, shuffled')
    PROVE  Inv'
BY DEF Inv

LEMMA NoSlotType == NoSlot \in 0..Size
BY Sizes DEF NoSlot

LEMMA SameNumber == ASSUME UNCHANGED ring PROVE Number' = Number
BY DEF ring, Number

LEMMA RingHead ==
    ASSUME NEW sl, NEW r \in Indices, NEW n \in 1..Size
    PROVE  Ring(sl, r, n) # <<>> /\ Head(Ring(sl, r, n)) = sl[r]
<1>1. n \in Nat /\ 1 \in 1..n
  BY Sizes
<1>2. Len(Ring(sl, r, n)) = n /\ Ring(sl, r, n)[1] = sl[r]
  BY <1>1, RingLength, FirstSlot
<1> DEFINE c == Ring(sl, r, n)
<1> HIDE DEF c
<1>3. Len(c) = n /\ c[1] = sl[r]
  BY <1>2 DEF c
<1>4. c # <<>> /\ Head(c) = sl[r]
  BY <1>1, <1>3
<1> QED
  BY <1>4 DEF c

LEMMA RingNone ==
    ASSUME NEW sl, NEW r
    PROVE  Ring(sl, r, 0) = <<>>
<1> DEFINE c == Ring(sl, r, 0)
<1>1. c = [i \in 1..0 |-> sl[At(r, i)]]
  BY DEF Ring
<1> QED
  BY <1>1

LEMMA ProcessInterruptsInv ==
    ASSUME Inv, ProcessInterrupts
    PROVE  Inv' /\ Waiting' = Waiting
<1>1. /\ engine.pc = "run" /\ engine' = [engine EXCEPT !.pc = "peek"] /\ hwEvent' = FALSE
      /\ UNCHANGED <<ring, path, status, sink, raised, shuffled>>
  BY DEF ProcessInterrupts
<1>2. /\ engine \in EngineType /\ engine' \in EngineType /\ engine'.pc = "peek"
      /\ engine'.left = engine.left /\ engine'.slot = engine.slot /\ engine'.to = engine.to
  BY <1>1 DEF Inv, Typed, EngineType
<1>3. Typed'
  BY <1>1, <1>2 DEF Inv, Typed, ring
<1>4. Number' = Number /\ reader' = reader /\ full' = full /\ slots' = slots
  BY <1>1, SameNumber DEF ring
<1>5. InHand(reader', Number', full', engine')
  BY <1>1, <1>2, <1>4 DEF Inv, InHand, Removing
<1>6. Waiting' = Waiting
  BY <1>1, <1>2, <1>4 DEF Waiting, Hal, Written
<1>7. Path' = Path
  BY <1>1, SamePath
<1>8. PathFlow(Path', Waiting', raised', engine'.left, shuffled')
  BY <1>1, <1>2, <1>6, <1>7 DEF Inv
<1> QED
  BY <1>3, <1>5, <1>6, <1>8, InvFromPath

LEMMA RunningType ==
    /\ Running \in EngineType /\ Running.pc = "run" /\ Running.left = 0 /\ Running.slot = NoSlot
    /\ \A r, n, f : InHand(r, n, f, Running)
<1>1. Running \in EngineType /\ Running.pc = "run" /\ Running.left = 0 /\ Running.slot = NoSlot
  BY Sizes DEF Running, EngineType, NoSlot
<1> QED
  BY <1>1 DEF InHand, Removing

(* What SpawnDispatcher returns becomes the path.                                 *)
LEMMA SpawnedPath ==
    ASSUME NEW p, NEW live, PathFlow(p, Waiting, raised, engine.left, shuffled),
           Becomes(SpawnDispatcher(p, live))
    PROVE  PathFlow(Path', Waiting, raised, engine.left, shuffled)
<1> DEFINE q == SpawnDispatcher(p, live)
<1>1. PathFlow(q, Waiting, raised, engine.left, shuffled)
  BY SpawnedFlow
<1>2. Becomes(q)
  OBVIOUS
<1> HIDE DEF q
<1>3. Path' = q
  BY <1>1, <1>2, BecomesIs DEF PathFlow
<1> QED
  BY <1>1, <1>3

LEMMA PeekInv ==
    ASSUME Inv, Peek
    PROVE  Inv' /\ Waiting' = Waiting
<1>1. /\ engine.pc = "peek" /\ UNCHANGED <<ring, status, sink, hwEvent, raised, shuffled>>
  BY DEF Peek
<1>2. Number' = Number /\ reader' = reader /\ writer' = writer /\ full' = full /\ slots' = slots
  BY <1>1, SameNumber DEF ring
<1>3. Waiting = Ring(slots, reader, Number)
  BY <1>1, Idle
<1>4. engine.left = 0 /\ engine \in EngineType
  BY <1>1 DEF Inv, InHand, Removing, Typed
<1>5. CASE IsEmpty
  <2>1. engine' = Running /\ Becomes(SpawnDispatcher(Path, Live))
    BY <1>5 DEF Peek
  <2>2. Typed'
    BY <1>1, <1>2, <2>1, RunningType DEF Inv, Typed
  <2>3. InHand(reader', Number', full', engine')
    BY <2>1, RunningType
  <2>4. Waiting' = Waiting
    BY <1>2, <1>3, <2>1, RunningType DEF Waiting, Hal, Written
  <2>5. PathFlow(Path', Waiting, raised, engine.left, shuffled)
    BY <2>1, SpawnedPath DEF Inv
  <2>6. engine'.left = engine.left
    BY <1>4, <2>1, RunningType
  <2>7. PathFlow(Path', Waiting', raised', engine'.left, shuffled')
    BY <1>1, <2>4, <2>5, <2>6
  <2> QED
    BY <2>2, <2>3, <2>4, <2>7, InvFromPath
<1>6. CASE ~IsEmpty
  <2>1. engine' = [engine EXCEPT !.pc = "copy", !.slot = reader] /\ UNCHANGED path
    BY <1>6 DEF Peek
  <2>2. reader \in 0..Size
    BY InvParts, Sizes DEF Indices
  <2>3. /\ engine' \in EngineType /\ engine'.pc = "copy" /\ engine'.slot = reader
        /\ engine'.left = engine.left
    BY <1>4, <2>1, <2>2 DEF EngineType
  <2>4. Typed'
    BY <1>1, <1>2, <2>3 DEF Inv, Typed
  <2>5. Number >= 1
    BY <1>6, EmptyIs, InvParts
  <2>6. InHand(reader', Number', full', engine')
    BY <1>2, <1>4, <2>3, <2>5 DEF InHand, Removing
  <2>7. Waiting' = Waiting
    BY <1>2, <1>3, <2>3 DEF Waiting, Hal, Written
  <2>8. PathFlow(Path', Waiting', raised', engine'.left, shuffled')
    BY <1>1, <2>1, <2>3, <2>7, SamePath DEF Inv
  <2> QED
    BY <2>4, <2>6, <2>7, <2>8, InvFromPath
<1> QED
  BY <1>5, <1>6

LEMMA AppendConcat ==
    ASSUME NEW S, NEW th \in Seq(S), NEW q \in Seq(S), NEW x \in S
    PROVE  th \o Append(q, x) = Append(th \o q, x)
OBVIOUS

LEMMA CopyInv ==
    ASSUME Inv, Copy
    PROVE  /\ Inv' /\ Waiting # <<>> /\ Waiting' = Tail(Waiting)
           /\ app' = Append(app, Head(Waiting)) /\ thread' = thread
<1> DEFINE x == slots[engine.slot]
           c == Ring(slots, reader, Number)
<1>1. /\ engine.pc = "copy" /\ UNCHANGED <<ring, status, sink, hwEvent, raised, shuffled>>
      /\ engine' = [engine EXCEPT !.pc = "pop"] /\ Becomes(LinkAtBack(Path, x))
  BY DEF Copy
<1>2. Number' = Number /\ reader' = reader /\ writer' = writer /\ full' = full /\ slots' = slots
  BY <1>1, SameNumber DEF ring
<1>3. engine.slot = reader /\ Number >= 1 /\ engine.left = 0 /\ engine \in EngineType
  BY <1>1 DEF Inv, InHand, Removing, Typed
<1>4. /\ engine' \in EngineType /\ engine'.pc = "pop" /\ engine'.slot = reader /\ engine'.left = 0
  BY <1>1, <1>3 DEF EngineType
<1>5. Typed'
  BY <1>1, <1>2, <1>4 DEF Inv, Typed
<1>6. InHand(reader', Number', full', engine')
  BY <1>2, <1>3, <1>4 DEF InHand, Removing
<1>7. Waiting = c /\ Waiting' = Tail(c)
  BY <1>1, <1>2, <1>4, Idle DEF Waiting, Hal
<1>8. Waiting # <<>> /\ Head(Waiting) = x
  <2>1. Number \in 1..Size /\ reader \in Indices
    BY <1>3, InvParts
  <2> QED
    BY <1>3, <1>7, <2>1, RingHead
<1>9. app' = Append(app, x) /\ queued' = queued + 1 /\ thread' = thread /\ gone' = gone
  BY <1>1 DEF Becomes, LinkAtBack, Path
<1>10. Flow(thread \o app, Waiting, gone, raised, 0, shuffled)
       /\ thread \in Seq(Records) /\ app \in Seq(Records) /\ queued = Len(app) /\ Len(thread) <= 1
       /\ Waiting \in Seq(Records)
  BY <1>3, InvParts
<1> HIDE DEF x
<1>11. x \in Records
  BY <1>8, <1>10
<1> DEFINE tr == thread \o app
<1> HIDE DEF tr, c
<1>12. Flow(Append(tr, Head(Waiting)), Tail(Waiting), gone, raised, 0, shuffled)
  <2>1. Flow(tr, Waiting, gone, raised, 0, shuffled)
    BY <1>10 DEF tr
  <2> QED
    BY <1>8, <2>1, FlowMoved
<1>13. thread \o app' = Append(tr, Head(Waiting))
  BY <1>8, <1>9, <1>10, <1>11, AppendConcat DEF tr
<1>14. Waiting' = Tail(Waiting)
  BY <1>7
<1>15. Flow(thread' \o app', Waiting', gone', raised', engine'.left, shuffled')
  BY <1>1, <1>4, <1>9, <1>12, <1>13, <1>14, Zenon
<1>16. /\ app' \in Seq(Records) /\ queued' = Len(app')
       /\ thread' \in Seq(Records) /\ Len(thread') <= 1
  BY <1>9, <1>10, <1>11
<1> QED
  BY <1>5, <1>6, <1>8, <1>9, <1>14, <1>15, <1>16, InvFrom

LEMMA PopTransferredInv ==
    ASSUME Inv, PopTransferred
    PROVE  Inv' /\ Waiting' = Waiting
<1>1. /\ engine.pc = "pop" /\ UNCHANGED <<path, status, sink, hwEvent, raised, shuffled>>
      /\ engine' = [engine EXCEPT !.pc = "peek", !.slot = NoSlot]
      /\ reader' = Incremented(reader) /\ full' = FALSE /\ slots' = slots /\ writer' = writer
  BY DEF PopTransferred, Pop
<1>2. Number >= 1 /\ engine.left = 0 /\ engine \in EngineType /\ Number \in 1..Size
      /\ reader \in Indices /\ RingOK(reader, writer, full)
  BY <1>1, InvParts DEF Inv, InHand, Removing, Typed
<1>3. RingOK(reader', writer', full') /\ Number' = Number - 1
  <2>1. RingOK(Incremented(reader), writer, FALSE)
        /\ Count(Incremented(reader), writer, FALSE) = Number - 1
    BY <1>2, PopIndices DEF Number
  <2> QED
    BY <1>1, <2>1, Zenon DEF Number
<1>4. engine' \in EngineType /\ engine'.pc = "peek" /\ engine'.slot = NoSlot /\ engine'.left = 0
  BY <1>1, <1>2, NoSlotType DEF EngineType
<1>5. Typed'
  BY <1>1, <1>3, <1>4 DEF Inv, Typed
<1>6. InHand(reader', Number', full', engine')
  BY <1>4 DEF InHand, Removing
<1>7. Waiting = Tail(Ring(slots, reader, Number))
  BY <1>1 DEF Waiting, Hal
<1>8. Waiting' = Ring(slots, Incremented(reader), Number - 1)
  BY <1>1, <1>3, <1>4 DEF Waiting, Hal, Written
<1>9. Ring(slots, Incremented(reader), Number - 1) = Tail(Ring(slots, reader, Number))
  BY <1>2, RingTail
<1>10. PathFlow(Path', Waiting', raised', engine'.left, shuffled')
  <2>1. Waiting' = Waiting
    BY <1>7, <1>8, <1>9, Zenon
  <2> QED
    BY <1>1, <1>2, <1>4, <2>1, SamePath DEF Inv
<1> QED
  BY <1>5, <1>6, <1>7, <1>8, <1>9, <1>10, InvFromPath, Zenon

LEMMA ToSetEvents ==
    ASSUME NEW q \in Seq(Records)
    PROVE  {r.event : r \in ToSet(q)} = {q[i].event : i \in 1..Len(q)}
BY DEF ToSet

LEMMA OutOfMemoryInv ==
    ASSUME Inv, OutOfMemory
    PROVE  Inv' /\ Waiting' = <<>>
<1>1. /\ engine.pc = "copy" /\ engine' = Running
      /\ reader' = writer /\ full' = FALSE /\ slots' = slots /\ writer' = writer
      /\ gone' = gone \cup {r.event : r \in ToSet(Content)}
      /\ UNCHANGED <<app, queued, thread, status, sink, hwEvent, raised, shuffled>>
  BY DEF OutOfMemory
<1>2. engine.left = 0 /\ reader \in Indices /\ writer \in Indices
  BY <1>1, InvParts DEF Inv, InHand, Removing
<1>3. RingOK(reader', writer', full') /\ Number' = 0
  <2>1. RingOK(reader', writer', full')
    BY <1>1, <1>2 DEF RingOK
  <2> QED
    BY <1>1, <2>1, EmptyIndices DEF Number
<1>4. Typed'
  BY <1>1, <1>3, RunningType DEF Inv, Typed
<1>5. InHand(reader', Number', full', engine')
  BY <1>1, RunningType
<1>6. Waiting = Content /\ Waiting \in Seq(Records)
      /\ Flow(thread \o app, Waiting, gone, raised, engine.left, shuffled)
  BY <1>1, Idle, ContentIs, InvParts
<1>7. gone' = gone \cup {Waiting[i].event : i \in 1..Len(Waiting)}
  <2>1. {r.event : r \in ToSet(Waiting)} = {Waiting[i].event : i \in 1..Len(Waiting)}
    BY <1>6, ToSetEvents
  <2> QED
    BY <1>1, <1>6, <2>1, Zenon
<1>8. Waiting' = <<>>
  BY <1>1, <1>3, RunningType, RingNone DEF Waiting, Hal, Written
<1>9. Flow(thread \o app, <<>>, gone', raised, 0, shuffled)
  <2>1. Flow(thread \o app, <<>>, gone \cup {Waiting[i].event : i \in 1..Len(Waiting)}, raised, 0, shuffled)
    BY <1>6, FlowCleared
  <2> QED
    BY <1>7, <2>1, Zenon
<1>10. Flow(thread' \o app', Waiting', gone', raised', engine'.left, shuffled')
  BY <1>1, <1>8, <1>9, RunningType, Zenon
<1>11. /\ app' \in Seq(Records) /\ queued' = Len(app')
       /\ thread' \in Seq(Records) /\ Len(thread') <= 1
  BY <1>1, InvParts
<1> QED
  BY <1>4, <1>5, <1>8, <1>10, <1>11, InvFrom

-----------------------------------------------------------------------------
(* The program and the collector.                                              *)

LEMMA CreateInstanceInv ==
    ASSUME Inv, NEW d \in Dispatchers, CreateInstance(d)
    PROVE  Inv' /\ Waiting' = Waiting
<1>1. /\ status' = [status EXCEPT ![d] = "alive"] /\ sink' = d
      /\ UNCHANGED <<ring, path, hwEvent, engine, raised, shuffled>>
  BY DEF CreateInstance
<1>2. Number' = Number /\ reader' = reader /\ writer' = writer /\ full' = full /\ slots' = slots
  BY <1>1, SameNumber DEF ring
<1>3. status' \in [Dispatchers -> {"none", "alive", "disposed"}]
  BY <1>1 DEF Inv, Typed
<1>4. Typed'
  BY <1>1, <1>2, <1>3 DEF Inv, Typed
<1>5. InHand(reader', Number', full', engine')
  BY <1>1, <1>2 DEF Inv
<1>6. Waiting' = Waiting
  BY <1>1, <1>2 DEF Waiting
<1>7. PathFlow(Path', Waiting', raised', engine'.left, shuffled')
  BY <1>1, <1>6, SamePath DEF Inv
<1> QED
  BY <1>4, <1>5, <1>6, <1>7, InvFromPath

(* The removal has all records of the buffer before it.                             *)
LEMMA StartRemovalInv ==
    ASSUME Inv, NEW d \in Dispatchers \cup {Nobody}, NEW last \in BOOLEAN, StartRemoval(d, last),
           engine.pc \in {"run", "remove"}, engine.left = 0,
           status' \in [Dispatchers -> {"none", "alive", "disposed"}],
           sink' \in Dispatchers \cup {Nobody},
           UNCHANGED <<ring, path, hwEvent, raised, shuffled>>
    PROVE  Inv' /\ Waiting' = Waiting /\ engine'.left = Len(Waiting)
<1>1. engine' = [Running EXCEPT !.pc = "remove", !.left = Number, !.disp = d, !.last = last]
  BY NumberIs DEF StartRemoval
<1>2. /\ engine' \in EngineType /\ engine'.pc = "remove" /\ engine'.slot = NoSlot
      /\ engine'.left = Number
  <2>1. Number \in Nat
    BY InvParts
  <2> QED
    BY <1>1, <2>1, RunningType DEF EngineType
<1>3. Number' = Number /\ reader' = reader /\ writer' = writer /\ full' = full /\ slots' = slots
  BY SameNumber DEF ring
<1>4. Typed'
  BY <1>2, <1>3 DEF Inv, Typed
<1>5. InHand(reader', Number', full', engine')
  <2>1. Number \in Nat
    BY InvParts
  <2> QED
    BY <1>2, <1>3, <2>1 DEF InHand, Removing
<1>6. Waiting' = Waiting /\ Len(Waiting) = Number
  BY <1>2, <1>3, Idle DEF Waiting, Hal, Written
<1>7. PathFlow(Path', Waiting', raised', engine'.left, shuffled')
  <2>1. PathFlow(Path, Waiting, raised, engine.left, shuffled) /\ Path' = Path
    BY SamePath DEF Inv
  <2>2. Flow(Path.thread \o Path.app, Waiting, Path.gone, raised, 0, shuffled)
    BY <2>1 DEF PathFlow
  <2>3. Flow(Path.thread \o Path.app, Waiting, Path.gone, raised, Len(Waiting), shuffled)
    BY <2>2, FlowStarted
  <2>4. PathFlow(Path, Waiting, raised, Len(Waiting), shuffled)
    BY <2>1, <2>3 DEF PathFlow
  <2> QED
    BY <1>2, <1>6, <2>1, <2>4
<1> QED
  BY <1>2, <1>4, <1>5, <1>6, <1>7, InvFromPath

LEMMA DisposeInv ==
    ASSUME Inv, NEW d \in Dispatchers, Dispose(d)
    PROVE  Inv' /\ Waiting' = Waiting /\ engine'.left = Len(Waiting)
<1>1. /\ engine.pc = "run" /\ StartRemoval(d, FALSE)
      /\ UNCHANGED <<ring, path, status, sink, hwEvent, raised, shuffled>>
  BY DEF Dispose
<1>2. engine.left = 0
  BY <1>1 DEF Inv, InHand, Removing
<1> QED
  BY <1>1, <1>2, StartRemovalInv DEF Inv, Typed

LEMMA RemovalEndsInv ==
    ASSUME Inv, RemovalEnds
    PROVE  Inv' /\ Waiting' = Waiting /\ (~engine.last => engine'.left = Len(Waiting))
<1>1. /\ engine.pc = "remove" /\ engine.left = 0
      /\ UNCHANGED <<ring, path, hwEvent, raised, shuffled>>
  BY DEF RemovalEnds
<1>2. CASE engine.last
  <2>1. status' = [status EXCEPT ![engine.disp] = "disposed"] /\ engine' = Running /\ sink' = sink
    BY <1>2 DEF RemovalEnds
  <2>2. status' \in [Dispatchers -> {"none", "alive", "disposed"}]
    BY <2>1 DEF Inv, Typed
  <2>3. Number' = Number /\ reader' = reader /\ writer' = writer /\ full' = full /\ slots' = slots
    BY <1>1, SameNumber DEF ring
  <2>4. Typed'
    BY <1>1, <2>1, <2>2, <2>3, RunningType DEF Inv, Typed
  <2>5. InHand(reader', Number', full', engine')
    BY <2>1, RunningType
  <2>6. Waiting' = Waiting
    BY <1>1, <2>1, <2>3, Idle, RunningType DEF Waiting, Hal, Written
  <2>7. PathFlow(Path', Waiting', raised', engine'.left, shuffled')
    BY <1>1, <2>1, <2>6, SamePath, RunningType DEF Inv
  <2> QED
    BY <1>2, <2>4, <2>5, <2>6, <2>7, InvFromPath
<1>3. CASE ~engine.last
  <2>1. StartRemoval(engine.disp, TRUE) /\ sink' = Nobody /\ status' = status
        /\ engine.disp \in Dispatchers \cup {Nobody}
    BY <1>3 DEF RemovalEnds, CleanupEventSink, Inv, Typed, EngineType
  <2> QED
    BY <1>1, <2>1, StartRemovalInv DEF Inv, Typed
<1> QED
  BY <1>2, <1>3

(* The oldest record goes, or turns to the end when it is another dispatcher's.        *)
Removed(hal, d, hal2) ==
    /\ hal # <<>>
    /\ hal2 = IF Head(hal).disp = d THEN Tail(hal) ELSE Append(Tail(hal), Head(hal))

LEMMA RemoveNextInv ==
    ASSUME Inv, RemoveNext
    PROVE  Inv' /\ Removed(Waiting, engine.disp, Waiting')
<1> DEFINE mine == slots[reader].disp = engine.disp
           rest == [engine EXCEPT !.left = @ - 1]
           c == Ring(slots, reader, Number)
<1>1. /\ engine.pc = "remove" /\ engine.left > 0
      /\ reader' = Incremented(reader) /\ full' = FALSE /\ slots' = slots /\ writer' = writer
      /\ engine' = IF mine THEN rest ELSE [rest EXCEPT !.pc = "push", !.slot = reader]
      /\ gone' = gone \cup IF mine THEN {slots[reader].event} ELSE {}
      /\ UNCHANGED <<app, queued, thread, status, sink, hwEvent, raised, shuffled>>
  BY DEF RemoveNext, Pop
<1>2. /\ engine.slot = NoSlot /\ engine.left <= Number /\ engine.left \in Nat /\ engine.left >= 1
      /\ engine \in EngineType /\ Number \in Nat /\ Number \in 1..Size /\ Number >= 1
      /\ reader \in Indices /\ reader \in 0..Size /\ RingOK(reader, writer, full)
  BY <1>1, InvParts, Sizes DEF Inv, InHand, Typed, Indices
<1>3. RingOK(reader', writer', full') /\ Number' = Number - 1
  <2>1. RingOK(Incremented(reader), writer, FALSE)
        /\ Count(Incremented(reader), writer, FALSE) = Number - 1
    BY <1>2, PopIndices DEF Number
  <2> QED
    BY <1>1, <2>1, Zenon DEF Number
<1>4. Waiting = c /\ Waiting # <<>> /\ Head(Waiting) = slots[reader] /\ Len(Waiting) = Number
      /\ Waiting \in Seq(Records)
  BY <1>1, <1>2, Idle, RingHead, InvParts
<1>5. Ring(slots, Incremented(reader), Number - 1) = Tail(Waiting)
  BY <1>2, <1>4, RingTail
<1>6. Flow(thread \o app, Waiting, gone, raised, engine.left, shuffled) /\ raised \in Nat
      /\ app \in Seq(Records) /\ queued = Len(app) /\ thread \in Seq(Records) /\ Len(thread) <= 1
  BY InvParts
<1>7. engine.left - 1 \in Nat /\ engine.left - 1 <= Number - 1
  BY <1>2
<1> DEFINE tr == thread \o app
<1> HIDE DEF c, tr
<1>8. Flow(tr, Waiting, gone, raised, engine.left, shuffled)
  BY <1>6 DEF tr
<1>9. CASE mine
  <2>1. /\ engine' = rest /\ engine' \in EngineType /\ engine'.pc = "remove" /\ engine'.slot = NoSlot
        /\ engine'.left = engine.left - 1 /\ gone' = gone \cup {Head(Waiting).event}
    BY <1>1, <1>2, <1>4, <1>7, <1>9 DEF EngineType
  <2>2. Typed'
    BY <1>1, <1>3, <2>1 DEF Inv, Typed
  <2>3. InHand(reader', Number', full', engine')
    BY <1>3, <1>7, <2>1 DEF InHand, Removing
  <2>4. Waiting' = Tail(Waiting)
    BY <1>1, <1>3, <1>5, <2>1 DEF Waiting, Hal, Written
  <2>5. Flow(tr, Tail(Waiting), gone', raised, engine'.left, shuffled)
    <3>1. engine'.left \in Nat /\ engine'.left = IF engine.left = 0 THEN 0 ELSE engine.left - 1
      BY <1>2, <1>7, <2>1
    <3>2. Flow(tr, Tail(Waiting), gone \cup {Head(Waiting).event}, raised, engine'.left, shuffled)
      BY <1>2, <1>4, <1>6, <1>8, <3>1, FlowDropped
    <3> QED
      BY <2>1, <3>2, Zenon
  <2>6. Flow(thread' \o app', Waiting', gone', raised', engine'.left, shuffled')
    BY <1>1, <2>4, <2>5, Zenon DEF tr
  <2>7. Removed(Waiting, engine.disp, Waiting')
    BY <1>4, <1>9, <2>4 DEF Removed
  <2> QED
    BY <1>1, <1>6, <2>2, <2>3, <2>6, <2>7, InvFrom
<1>10. CASE ~mine
  <2>1. /\ engine' = [rest EXCEPT !.pc = "push", !.slot = reader]
        /\ engine' \in EngineType /\ engine'.pc = "push" /\ engine'.slot = reader
        /\ engine'.left = engine.left - 1 /\ gone' = gone
    BY <1>1, <1>2, <1>7, <1>10 DEF EngineType
  <2>2. Typed'
    BY <1>1, <1>3, <2>1 DEF Inv, Typed
  <2>3. InHand(reader', Number', full', engine')
    BY <1>1, <1>2, <1>3, <1>7, <2>1 DEF InHand, Removing
  <2>4. Waiting' = Append(Tail(Waiting), Head(Waiting))
    <3>1. Waiting' = Append(Ring(slots, Incremented(reader), Number - 1), slots[reader])
      BY <1>1, <1>3, <2>1 DEF Waiting, Hal
    <3> QED
      BY <1>4, <1>5, <3>1, Zenon
  <2>5. Flow(tr, Append(Tail(Waiting), Head(Waiting)), gone, raised, engine.left - 1, shuffled)
    BY <1>2, <1>4, <1>6, <1>8, FlowTurned
  <2>6. Flow(thread' \o app', Waiting', gone', raised', engine'.left, shuffled')
    BY <1>1, <2>1, <2>4, <2>5, Zenon DEF tr
  <2>7. Removed(Waiting, engine.disp, Waiting')
    BY <1>4, <1>10, <2>4 DEF Removed
  <2> QED
    BY <1>1, <1>6, <2>2, <2>3, <2>6, <2>7, InvFrom
<1> QED
  BY <1>9, <1>10

LEMMA PushBackInv ==
    ASSUME Inv, PushBack
    PROVE  Inv' /\ Waiting' = Waiting
<1> DEFINE x == slots[engine.slot]
           c == Ring(slots, reader, Number)
<1>1. engine.pc = "push" /\ UNCHANGED <<slots, reader, path, status, sink, hwEvent, raised, shuffled>>
  BY DEF PushBack
<1>2. /\ engine.slot \in Indices /\ reader = Incremented(engine.slot) /\ ~full
      /\ engine.left <= Number /\ engine.left \in Nat /\ Number \in Nat
      /\ engine \in EngineType /\ writer \in Indices /\ reader \in Indices /\ slots \in Slots
      /\ RingOK(reader, writer, full)
  BY <1>1, InvParts DEF Inv, InHand, Typed
<1>3. /\ writer' = Incremented(writer) /\ full' = (Incremented(writer) = reader)
      /\ engine' = [engine EXCEPT !.pc = "assign", !.to = writer]
      /\ slots' = slots /\ reader' = reader
  BY <1>1, <1>2 DEF PushBack
<1>4. RingOK(reader', writer', full') /\ Number' = Number + 1
  <2>1. RingOK(reader, Incremented(writer), Incremented(writer) = reader)
        /\ Count(reader, Incremented(writer), Incremented(writer) = reader) = Count(reader, writer, full) + 1
    BY <1>2, PushIndices
  <2> QED
    BY <1>3, <2>1, Zenon DEF Number
<1>5. /\ engine' \in EngineType /\ engine'.pc = "assign" /\ engine'.to = writer
      /\ engine'.slot = engine.slot /\ engine'.left = engine.left
  <2>1. writer \in 0..Size
    BY <1>2, Sizes DEF Indices
  <2> QED
    BY <1>2, <1>3, <2>1 DEF EngineType
<1>6. Typed'
  BY <1>1, <1>3, <1>4, <1>5 DEF Inv, Typed
<1>7. writer = At(reader, Number + 1) /\ Number + 1 \in 1..(Number + 1) /\ Number \in 0..(Size - 1)
  <2>1. Number # Size /\ Number \in 0..Size
    BY <1>2, FullIndices, InvParts DEF Number
  <2>2. writer = At(reader, Number + 1)
    BY <1>2, WriterAt DEF Number
  <2> QED
    BY <1>2, <2>1, <2>2, Sizes
<1>8. InHand(reader', Number', full', engine')
  <2>1. engine'.left <= Number' - 1
    BY <1>2, <1>4, <1>5
  <2>2. \E i \in 1..Number' : engine'.to = At(reader', i)
    BY <1>3, <1>4, <1>5, <1>7
  <2>3. CASE writer = engine.slot
    <3>1. full'
      BY <1>2, <1>3, <2>3
    <3> QED
      BY <1>2, <1>5, <2>1, <2>3, <3>1 DEF InHand, Removing
  <2>4. CASE writer # engine.slot
    <3>1. ~full'
      BY <1>2, <1>3, <2>4, IncrementedInjective
    <3> QED
      BY <1>2, <1>3, <1>5, <2>1, <2>2, <2>4, <3>1 DEF InHand, Removing
  <2> QED
    BY <2>3, <2>4
<1>9. Waiting = Append(c, x)
  BY <1>1 DEF Waiting, Hal
<1>10. Waiting' = Append(c, x)
  <2> DEFINE sl2 == [slots EXCEPT ![writer] = x]
             m == Number + 1
  <2>1. x \in Records \cup {NoRecord}
    BY <1>2 DEF Slots
  <2> HIDE DEF x
  <2>2. Put(sl2, slots, writer, x)
    BY <1>2, <2>1, PutIs
  <2>3. Waiting' = Ring(sl2, reader, m)
    BY <1>3, <1>4, <1>5 DEF Waiting, Hal, Written, x
  <2>4. writer = At(reader, m) /\ m = Number + 1
    BY <1>7
  <2> HIDE DEF sl2, m, c
  <2>5. Ring(sl2, reader, m) = Append(Ring(slots, reader, Number), x)
    BY <1>2, <1>7, <2>2, <2>4, RingPut
  <2> QED
    BY <2>3, <2>5, Zenon DEF c
<1>11. PathFlow(Path', Waiting', raised', engine'.left, shuffled')
  <2>1. Waiting' = Waiting
    BY <1>9, <1>10, Zenon
  <2> QED
    BY <1>1, <1>5, <2>1, SamePath DEF Inv
<1> QED
  BY <1>6, <1>8, <1>9, <1>10, <1>11, InvFromPath, Zenon

LEMMA AssignFromInv ==
    ASSUME Inv, AssignFrom
    PROVE  Inv' /\ Waiting' = Waiting
<1>1. /\ engine.pc = "assign" /\ slots' = [slots EXCEPT ![engine.to] = slots[engine.slot]]
      /\ engine' = [engine EXCEPT !.pc = "remove", !.slot = NoSlot, !.to = NoSlot]
      /\ UNCHANGED <<reader, writer, full, path, status, sink, hwEvent, raised, shuffled>>
  BY DEF AssignFrom
<1>2. /\ engine.slot \in Indices /\ engine.left <= Number - 1 /\ engine.left \in Nat
      /\ Number \in Nat /\ engine \in EngineType /\ slots \in Slots
  BY <1>1, InvParts DEF Inv, InHand, Typed
<1>3. Number' = Number
  BY <1>1 DEF Number
<1>4. slots' \in Slots
  BY <1>1, <1>2 DEF Slots
<1>5. /\ engine' \in EngineType /\ engine'.pc = "remove" /\ engine'.slot = NoSlot
      /\ engine'.left = engine.left
  BY <1>1, <1>2, NoSlotType DEF EngineType
<1>6. Typed'
  BY <1>1, <1>4, <1>5 DEF Inv, Typed
<1>7. engine'.left <= Number'
  BY <1>2, <1>3, <1>5
<1>8. InHand(reader', Number', full', engine')
  BY <1>5, <1>7 DEF InHand, Removing
<1>9. Waiting' = Waiting
  BY <1>1, <1>3, <1>5 DEF Waiting, Hal, Written
<1>10. PathFlow(Path', Waiting', raised', engine'.left, shuffled')
  BY <1>1, <1>5, <1>9, SamePath DEF Inv
<1> QED
  BY <1>6, <1>8, <1>9, <1>10, InvFromPath

LEMMA DelegateReturnsInv ==
    ASSUME Inv, DelegateReturns
    PROVE  Inv' /\ Waiting' = Waiting
<1> DEFINE p == [Path EXCEPT !.thread = <<>>, !.gone = @ \cup {thread[1].event}]
<1>1. /\ thread # <<>> /\ Becomes(SpawnDispatcher(p, Live))
      /\ UNCHANGED <<ring, status, sink, hwEvent, engine, raised, shuffled>>
  BY DEF DelegateReturns
<1>2. PathFlow(Path, Waiting, raised, engine.left, shuffled) /\ Path.thread = thread
  BY DEF Inv, Path
<1>3. PathFlow(p, Waiting, raised, engine.left, shuffled)
  <2>1. PathFlow([Path EXCEPT !.thread = <<>>, !.gone = @ \cup {Path.thread[1].event}],
                 Waiting, raised, engine.left, shuffled)
    BY <1>1, <1>2, ReturnedFlow
  <2> QED
    BY <1>2, <2>1
<1> HIDE DEF p
<1>4. PathFlow(Path', Waiting, raised, engine.left, shuffled)
  BY <1>1, <1>3, SpawnedPath
<1>5. Number' = Number /\ reader' = reader /\ writer' = writer /\ full' = full /\ slots' = slots
  BY <1>1, SameNumber DEF ring
<1>6. Typed' /\ InHand(reader', Number', full', engine') /\ Waiting' = Waiting
  BY <1>1, <1>5 DEF Inv, Typed, Waiting
<1>7. PathFlow(Path', Waiting', raised', engine'.left, shuffled')
  BY <1>1, <1>4, <1>6
<1> QED
  BY <1>6, <1>7, InvFromPath

LEMMA CollectInv ==
    ASSUME Inv, NEW d \in Dispatchers, Collect(d)
    PROVE  Inv' /\ Waiting' = Waiting
<1> DEFINE q == ReleaseQueued(Path, d, Live \ {d})
<1>1. /\ status' = [status EXCEPT ![d] = "none"] /\ Becomes(q)
      /\ UNCHANGED <<ring, sink, hwEvent, engine, raised, shuffled>>
  BY DEF Collect
<1>2. PathFlow(q, Waiting, raised, engine.left, shuffled)
  BY ReleasedFlow DEF Inv
<1> HIDE DEF q
<1>3. Path' = q
  BY <1>1, <1>2, BecomesIs DEF PathFlow
<1>4. Number' = Number /\ reader' = reader /\ writer' = writer /\ full' = full /\ slots' = slots
  BY <1>1, SameNumber DEF ring
<1>5. status' \in [Dispatchers -> {"none", "alive", "disposed"}]
  BY <1>1 DEF Inv, Typed
<1>6. Typed' /\ InHand(reader', Number', full', engine') /\ Waiting' = Waiting
  BY <1>1, <1>4, <1>5 DEF Inv, Typed, Waiting
<1>7. PathFlow(Path', Waiting', raised', engine'.left, shuffled')
  BY <1>1, <1>2, <1>3, <1>6
<1> QED
  BY <1>6, <1>7, InvFromPath

-----------------------------------------------------------------------------
(* The theorems.                                                             *)

LEMMA NextInv ==
    ASSUME Inv, [Next]_vars, "burst" \notin Windows
    PROVE  Inv'
<1>1. CASE Interrupt
  BY <1>1, InterruptInv
<1>2. CASE ProcessInterrupts
  BY <1>2, ProcessInterruptsInv
<1>3. CASE Peek
  BY <1>3, PeekInv
<1>4. CASE Copy
  BY <1>4, CopyInv
<1>5. CASE PopTransferred
  BY <1>5, PopTransferredInv
<1>6. CASE RemoveNext
  BY <1>6, RemoveNextInv
<1>7. CASE PushBack
  BY <1>7, PushBackInv
<1>8. CASE AssignFrom
  BY <1>8, AssignFromInv
<1>9. CASE RemovalEnds
  BY <1>9, RemovalEndsInv
<1>10. CASE DelegateReturns
  BY <1>10, DelegateReturnsInv
<1>11. CASE OutOfMemory
  BY <1>11, OutOfMemoryInv
<1>12. ASSUME NEW d \in Dispatchers, CreateInstance(d) \/ Dispose(d) \/ Collect(d)
       PROVE  Inv'
  BY <1>12, CreateInstanceInv, DisposeInv, CollectInv
<1>13. CASE UNCHANGED vars
  <2>1. /\ Number' = Number /\ Path' = Path /\ Waiting' = Waiting
        /\ UNCHANGED <<slots, reader, writer, full, status, sink, hwEvent, engine, raised, shuffled>>
    BY <1>13 DEF vars, ring, path, Number, Path, Waiting
  <2> QED
    BY <2>1 DEF Inv, Typed
<1> QED
  BY <1>1, <1>2, <1>3, <1>4, <1>5, <1>6, <1>7, <1>8, <1>9, <1>10, <1>11, <1>12, <1>13
     DEF Next, Steps

(* Events, and what OnceInOrder says of them.                                     *)
EventsIn(tr, hal) == [i \in DOMAIN (tr \o hal) |-> (tr \o hal)[i].event]

Settled(ev, g, k, l, s) ==
    /\ IsInjective(ev)
    /\ ToSet(ev) \cap g = {}
    /\ ToSet(ev) \cup g = 1..k
    /\ l = 0 => s \/ \A i, j \in DOMAIN ev : i < j => ev[i] < ev[j]

(* What Flow says of the events, once their two parts are one sequence.               *)
LEMMA FlowEvents ==
    ASSUME NEW tr, NEW hal, NEW g, NEW k \in Nat, NEW l, NEW s, Flow(tr, hal, g, k, l, s),
           NEW ev, ev = EventsIn(tr, hal)
    PROVE  Settled(ev, g, k, l, s)
<1>1. tr \in Seq(Records) /\ hal \in Seq(Records)
  BY DEF Flow
<1> DEFINE n == Len(tr)
           m == Len(hal)
           all == tr \o hal
<1>2. /\ n \in Nat /\ m \in Nat /\ all \in Seq(Records) /\ Len(all) = n + m
      /\ \A i \in 1..n : all[i] = tr[i]
      /\ \A i \in 1..m : all[n + i] = hal[i]
  BY <1>1, ConcatParts
<1>3. DOMAIN ev = 1..(n + m) /\ \A i \in 1..(n + m) : ev[i] = all[i].event
  BY <1>2 DEF EventsIn
<1> HIDE DEF all, n, m
<1>4. \A i \in 1..(n + m) : i \in 1..n \/ \E a \in 1..m : i = n + a
  <2> SUFFICES ASSUME NEW i \in 1..(n + m), i \notin 1..n
               PROVE  \E a \in 1..m : i = n + a
    OBVIOUS
  <2>1. i - n \in 1..m /\ i = n + (i - n)
    BY <1>2
  <2> QED
    BY <2>1
<1>5. /\ \A i \in 1..n : i \in 1..(n + m) /\ ev[i] = tr[i].event
      /\ \A a \in 1..m : n + a \in 1..(n + m) /\ ev[n + a] = hal[a].event
  <2>1. /\ \A i \in 1..n : i \in 1..(n + m)
        /\ \A a \in 1..m : n + a \in 1..(n + m)
    BY <1>2
  <2>2. \A i \in 1..n : ev[i] = tr[i].event
    BY <1>2, <1>3, <2>1
  <2>3. \A a \in 1..m : ev[n + a] = hal[a].event
    BY <1>2, <1>3, <2>1
  <2> QED
    BY <2>1, <2>2, <2>3
<1>6. Once(tr, hal) /\ Accounted(tr, hal, g, k)
  BY DEF Flow
<1>7. IsInjective(ev)
  <2>1. ASSUME NEW i \in 1..(n + m), NEW j \in 1..(n + m), ev[i] = ev[j]
        PROVE  i = j
    <3>1. CASE i \in 1..n /\ j \in 1..n
      BY <1>5, <1>6, <2>1, <3>1 DEF Once, n
    <3>2. CASE i \in 1..n /\ j \notin 1..n
      <4>1. PICK b \in 1..m : j = n + b
        BY <1>4, <3>2
      <4> QED
        BY <1>5, <1>6, <2>1, <3>2, <4>1 DEF Once, n, m
    <3>3. CASE i \notin 1..n /\ j \in 1..n
      <4>1. PICK a \in 1..m : i = n + a
        BY <1>4, <3>3
      <4> QED
        BY <1>5, <1>6, <2>1, <3>3, <4>1 DEF Once, n, m
    <3>4. CASE i \notin 1..n /\ j \notin 1..n
      <4>1. PICK a \in 1..m : i = n + a
        BY <1>4, <3>4
      <4>2. PICK b \in 1..m : j = n + b
        BY <1>4, <3>4
      <4>3. hal[a].event = hal[b].event
        BY <1>5, <2>1, <4>1, <4>2
      <4>4. a = b
        BY <1>6, <4>3 DEF Once, m
      <4> QED
        BY <4>1, <4>2, <4>4
    <3> QED
      BY <3>1, <3>2, <3>3, <3>4
  <2> QED
    BY <1>3, <2>1 DEF IsInjective
<1>8. ToSet(ev) = {ev[i] : i \in 1..(n + m)}
  BY <1>3 DEF ToSet
<1>9. \A e \in ToSet(ev) : e \in 1..k /\ e \notin g
  <2> SUFFICES ASSUME NEW i \in 1..(n + m)
               PROVE  ev[i] \in 1..k /\ ev[i] \notin g
    BY <1>8
  <2>1. CASE i \in 1..n
    BY <1>5, <1>6, <2>1 DEF Accounted, n
  <2>2. CASE i \notin 1..n
    <3>1. PICK a \in 1..m : i = n + a
      BY <1>4, <2>2
    <3> QED
      BY <1>5, <1>6, <3>1 DEF Accounted, m
  <2> QED
    BY <2>1, <2>2
<1>10. \A e \in 1..k : e \in ToSet(ev) \/ e \in g
  <2> SUFFICES ASSUME NEW e \in 1..k, e \notin g
               PROVE  e \in ToSet(ev)
    OBVIOUS
  <2>1. CASE \E i \in 1..n : tr[i].event = e
    BY <1>5, <1>8, <2>1
  <2>2. CASE \E a \in 1..m : hal[a].event = e
    BY <1>5, <1>8, <2>2
  <2> QED
    BY <1>6, <2>1, <2>2 DEF Accounted, n, m
<1>11. g \subseteq 1..k
  BY <1>6 DEF Accounted
<1>12. ASSUME l = 0, ~s
       PROVE  \A i, j \in DOMAIN ev : i < j => ev[i] < ev[j]
  <2> SUFFICES ASSUME NEW i \in 1..(n + m), NEW j \in 1..(n + m), i < j
               PROVE  ev[i] < ev[j]
    BY <1>3
  <2>1. InOrder(tr, hal, l)
    BY <1>12 DEF Flow
  <2>2. CASE i \in 1..n /\ j \in 1..n
    BY <1>5, <2>1, <2>2 DEF InOrder, n
  <2>3. CASE i \in 1..n /\ j \notin 1..n
    <3>1. PICK b \in 1..m : j = n + b
      BY <1>4, <2>3
    <3> QED
      BY <1>5, <2>1, <2>3, <3>1 DEF InOrder, n, m
  <2>4. CASE i \notin 1..n
    <3>1. PICK a \in 1..m : i = n + a
      BY <1>4, <2>4
    <3>2. j \notin 1..n
      BY <1>2, <2>4
    <3>3. PICK b \in 1..m : j = n + b
      BY <1>4, <3>2
    <3>4. a < b /\ l < a
      BY <1>2, <1>12, <3>1, <3>3
    <3>5. hal[a].event < hal[b].event
      BY <2>1, <3>4 DEF InOrder, m
    <3> QED
      BY <1>5, <3>1, <3>3, <3>5
  <2> QED
    BY <2>2, <2>3, <2>4
<1>13. ToSet(ev) \cap g = {} /\ ToSet(ev) \cup g = 1..k
  BY <1>9, <1>10, <1>11
<1> QED
  BY <1>7, <1>12, <1>13 DEF Settled

LEMMA InvOnceInOrder ==
    ASSUME Inv
    PROVE  OnceInOrder
<1>1. HalRecords = Waiting
  BY WaitingIs
<1> DEFINE tr == thread \o app
<1>2. Flow(tr, Waiting, gone, raised, engine.left, shuffled) /\ raised \in Nat /\ raised \in 0..MaxEvents
      /\ app \in Seq(Records) /\ queued = Len(app) /\ thread \in Seq(Records) /\ Len(thread) <= 1
  BY InvParts
<1>3. Events = EventsIn(tr, Waiting)
  BY <1>1 DEF Events, InTransit, EventsIn
<1> HIDE DEF tr
<1>4. Settled(Events, gone, raised, engine.left, shuffled)
  BY <1>2, <1>3, FlowEvents
<1>5. engine.pc \in {"run", "peek", "copy", "pop", "remove", "push", "assign"}
  BY DEF Inv, Typed, EngineType
<1>6. engine.pc \in {"remove", "push", "assign"} \/ engine.left = 0
  BY DEF Inv, InHand, Removing
<1>7. gone \subseteq 1..MaxEvents
  BY DEF Inv, PathFlow, PathType, Path
<1>8. TypeOK
  <2>1. queued \in Nat
    BY <1>2
  <2> QED
    BY <1>2, <1>5, <1>7, <2>1 DEF Inv, Typed, Slots, RingOK, TypeOK
<1> QED
  BY <1>2, <1>4, <1>5, <1>6, <1>8 DEF OnceInOrder, Settled

LEMMA SpecInv ==
    ASSUME "burst" \notin Windows
    PROVE  Spec => []Inv
<1>1. Inv /\ [Next]_vars => Inv'
  BY NextInv
<1> QED
  BY <1>1, InitInv, PTL DEF Spec

\* For every number of dispatchers, slots and interrupts: an event is in the ring buffer, in
\* the application queue, with the interrupt thread or given up, in one of them only, and in
\* the order of the interrupts (SaveToHALQueue, TransferAllInterruptsToApplicationQueue,
\* RemoveFromHALQueue, ReleaseWhenDeadEx); Push finds room for the record that Dispose puts
\* back.  The interrupt does not write over the record the engine is just reading.
THEOREM EventsOnceInOrder ==
    ASSUME "burst" \notin Windows
    PROVE  Spec => []OnceInOrder
<1>1. Inv => OnceInOrder
  BY InvOnceInOrder
<1> QED
  BY <1>1, SpecInv, PTL

-----------------------------------------------------------------------------
(* The dispatchers of the records, when no allocation fails in the middle of a      *)
(* transfer: those in the buffer have not been disposed, nor has the one that events   *)
(* are posted to; the last removal leaves none of its dispatcher's behind it, and a     *)
(* thread is idle only while there is nothing to deliver, or nothing disposed.        *)

DispsIn(q, D) == \A i \in 1..Len(q) : q[i].disp \in D

(* No record behind the first l is the dispatcher's.                               *)
NoneBehind(q, l, d) == \A i \in 1..Len(q) : i > l => q[i].disp # d

Alive == {d \in Dispatchers : status[d] = "alive"}

OwnInv ==
    /\ sink # Nobody => sink \in Alive
    /\ DispsIn(app, Live)
    /\ thread = <<>> => DispsIn(app, Alive)
    /\ thread = <<>> => app = <<>> \/ engine.pc \in {"peek", "copy", "pop"}
    /\ DispsIn(Waiting, Alive)
    /\ Removing(engine) => engine.disp \in Alive
    /\ Removing(engine) /\ engine.last => sink = Nobody /\ NoneBehind(Waiting, engine.left, engine.disp)

LEMMA SubsetIn ==
    ASSUME NEW q, NEW C, NEW D, DispsIn(q, C), C \subseteq D
    PROVE  DispsIn(q, D)
BY DEF DispsIn

LEMMA NoneIn ==
    ASSUME NEW q, q = <<>>, NEW D
    PROVE  DispsIn(q, D)
BY DEF DispsIn

LEMMA AppendIn ==
    ASSUME NEW q \in Seq(Records), NEW D, DispsIn(q, D), NEW x \in Records, x.disp \in D,
           NEW q2, q2 = Append(q, x)
    PROVE  DispsIn(q2, D)
<1>1. Len(q) \in Nat /\ Len(q2) = Len(q) + 1 /\ q2[Len(q) + 1] = x
      /\ \A i \in 1..Len(q) : q2[i] = q[i]
  OBVIOUS
<1>2. \A i \in 1..(Len(q) + 1) : i \in 1..Len(q) \/ i = Len(q) + 1
  BY <1>1
<1> QED
  BY <1>1, <1>2 DEF DispsIn

LEMMA TailIn ==
    ASSUME NEW q \in Seq(Records), q # <<>>, NEW D, DispsIn(q, D)
    PROVE  /\ Head(q) \in Records /\ Head(q).disp \in D
           /\ Tail(q) \in Seq(Records) /\ DispsIn(Tail(q), D)
<1> DEFINE t == Tail(q)
<1>1. Len(q) \in Nat /\ Len(q) >= 1 /\ t \in Seq(Records) /\ Len(t) = Len(q) - 1
      /\ \A i \in 1..(Len(q) - 1) : t[i] = q[i + 1]
  OBVIOUS
<1>2. Head(q) = q[1] /\ Head(q) \in Records
  OBVIOUS
<1>3. \A i \in 1..(Len(q) - 1) : i + 1 \in 1..Len(q)
  BY <1>1
<1> HIDE DEF t
<1>4. DispsIn(t, D)
  BY <1>1, <1>3 DEF DispsIn
<1>5. 1 \in 1..Len(q)
  BY <1>1
<1>6. Head(q).disp \in D
  BY <1>2, <1>5 DEF DispsIn
<1> QED
  BY <1>1, <1>2, <1>4, <1>6 DEF t

LEMMA GrownIn ==
    ASSUME NEW pc, NEW hal \in Seq(Records), NEW x \in Records, NEW hal2, Grown(pc, hal, x, hal2),
           NEW D, DispsIn(hal, D), x.disp \in D
    PROVE  DispsIn(hal2, D)
<1>1. CASE pc # "push"
  BY <1>1, AppendIn DEF Grown
<1>2. CASE pc = "push"
  <2>1. PICK c \in Seq(Records), h \in Records : hal = Append(c, h) /\ hal2 = Append(Append(c, x), h)
    BY <1>2 DEF Grown, Between
  <2>2. Len(c) \in Nat /\ Len(hal) = Len(c) + 1 /\ hal[Len(c) + 1] = h
        /\ \A i \in 1..Len(c) : hal[i] = c[i]
    BY <2>1
  <2>3. Len(c) + 1 \in 1..Len(hal) /\ \A i \in 1..Len(c) : i \in 1..Len(hal)
    BY <2>2
  <2>4. DispsIn(c, D) /\ h.disp \in D
    BY <2>2, <2>3 DEF DispsIn
  <2> DEFINE cx == Append(c, x)
  <2>5. cx \in Seq(Records) /\ cx = Append(c, x)
    OBVIOUS
  <2>6. hal2 = Append(cx, h)
    BY <2>1
  <2> HIDE DEF cx
  <2>7. DispsIn(cx, D)
    BY <2>4, <2>5, AppendIn
  <2> QED
    BY <2>4, <2>5, <2>6, <2>7, AppendIn
<1> QED
  BY <1>1, <1>2

LEMMA ReplacedIn ==
    ASSUME NEW hal \in Seq(Records), NEW old, NEW x \in Records, NEW hal2,
           Replaced(hal, old, x, hal2), NEW D, DispsIn(hal, D), x.disp \in D
    PROVE  DispsIn(hal2, D)
<1>1. hal # <<>> /\ hal2 = Append(Tail(hal), x)
  BY DEF Replaced
<1>2. Tail(hal) \in Seq(Records) /\ DispsIn(Tail(hal), D)
  BY <1>1, TailIn
<1> QED
  BY <1>1, <1>2, AppendIn

LEMMA RemovedIn ==
    ASSUME NEW hal \in Seq(Records), NEW d, NEW hal2, Removed(hal, d, hal2), NEW D, DispsIn(hal, D)
    PROVE  DispsIn(hal2, D)
<1>1. hal # <<>> /\ (hal2 = Tail(hal) \/ hal2 = Append(Tail(hal), Head(hal)))
  BY DEF Removed
<1>2. Head(hal) \in Records /\ Head(hal).disp \in D /\ Tail(hal) \in Seq(Records) /\ DispsIn(Tail(hal), D)
  BY <1>1, TailIn
<1> QED
  BY <1>1, <1>2, AppendIn

LEMMA RemovedBehind ==
    ASSUME NEW hal \in Seq(Records), NEW d, NEW hal2, Removed(hal, d, hal2),
           NEW l \in Nat, l >= 1, NoneBehind(hal, l, d)
    PROVE  NoneBehind(hal2, l - 1, d)
<1> DEFINE t == Tail(hal)
           h == Head(hal)
<1>1. hal # <<>> /\ hal2 = IF h.disp = d THEN t ELSE Append(t, h)
  BY DEF Removed
<1>2. Len(hal) \in Nat /\ Len(hal) >= 1 /\ t \in Seq(Records) /\ Len(t) = Len(hal) - 1
      /\ \A i \in 1..(Len(hal) - 1) : t[i] = hal[i + 1]
  BY <1>1
<1>3. h \in Records
  BY <1>1
<1>4. \A i \in 1..(Len(hal) - 1) : i + 1 \in 1..Len(hal) /\ (i > l - 1 => i + 1 > l)
  BY <1>2
<1> HIDE DEF t, h
<1>5. \A i \in 1..Len(t) : i > l - 1 => t[i].disp # d
  BY <1>2, <1>4 DEF NoneBehind
<1>6. CASE h.disp = d
  BY <1>1, <1>5, <1>6 DEF NoneBehind
<1>7. CASE h.disp # d
  <2>1. hal2 = Append(t, h)
    BY <1>1, <1>7
  <2>2. Len(t) \in Nat /\ Len(hal2) = Len(t) + 1 /\ hal2[Len(t) + 1] = h
        /\ \A i \in 1..Len(t) : hal2[i] = t[i]
    BY <1>2, <1>3, <2>1
  <2>3. \A i \in 1..(Len(t) + 1) : i \in 1..Len(t) \/ i = Len(t) + 1
    BY <2>2
  <2> QED
    BY <1>5, <1>7, <2>2, <2>3 DEF NoneBehind
<1> QED
  BY <1>6, <1>7

LEMMA AllBehind ==
    ASSUME NEW q \in Seq(Records), NEW d
    PROVE  NoneBehind(q, Len(q), d)
BY DEF NoneBehind

LEMMA NoneLeft ==
    ASSUME NEW q \in Seq(Records), NEW l, l = 0, NEW d, NoneBehind(q, l, d), NEW D, DispsIn(q, D)
    PROVE  DispsIn(q, D \ {d})
<1>1. \A i \in 1..Len(q) : i > l
  OBVIOUS
<1> QED
  BY <1>1 DEF NoneBehind, DispsIn

(* SpawnDispatcher takes records from the queue, and all of them if it starts none.     *)
LEMMA SpawnedIn ==
    ASSUME NEW p \in PathType, NEW live, NEW D, DispsIn(p.app, D),
           NEW q, q = SpawnDispatcher(p, live)
    PROVE  DispsIn(q.app, D) /\ (q.thread = <<>> => q.app = <<>>)
<1> DEFINE startable == {i \in DOMAIN p.app : p.app[i].disp \in live}
<1>0. p.app \in Seq(Records) /\ Len(p.app) \in Nat
  BY DEF PathType
<1>1. CASE p.thread # <<>>
  BY <1>1 DEF SpawnDispatcher
<1>2. CASE p.thread = <<>> /\ startable = {}
  <2>1. q.app = SubSeq(p.app, Len(p.app) + 1, Len(p.app))
    BY <1>2 DEF SpawnDispatcher
  <2>2. q.app = <<>>
    BY <1>0, <2>1, SuffixEmpty
  <2> QED
    BY <2>2, NoneIn
<1>3. CASE p.thread = <<>> /\ startable # {}
  <2> DEFINE m == Min(startable)
  <2>1. startable \in SUBSET Nat /\ startable \subseteq 1..Len(p.app)
    BY <1>0
  <2>2. m \in startable
    <3> HIDE DEF startable
    <3> QED
      BY <1>3, <2>1, LeastOf
  <2>3. m \in 1..Len(p.app)
    BY <2>1, <2>2, Zenon
  <2>4. q.app = SubSeq(p.app, m + 1, Len(p.app)) /\ q.thread = <<p.app[m]>>
    BY <1>3 DEF SpawnDispatcher
  <2> HIDE DEF m, startable
  <2>5. Len(q.app) = Len(p.app) - m /\ \A i \in 1..(Len(p.app) - m) : q.app[i] = p.app[i + m]
    BY <1>0, <2>3, <2>4
  <2>6. \A i \in 1..(Len(p.app) - m) : i + m \in 1..Len(p.app)
    BY <1>0, <2>3
  <2>7. DispsIn(q.app, D)
    BY <2>5, <2>6 DEF DispsIn
  <2>8. q.thread # <<>>
    BY <2>4
  <2> QED
    BY <2>7, <2>8
<1> QED
  BY <1>1, <1>2, <1>3

(* With the thread at work ReleaseQueued leaves no record of the dispatcher.            *)
LEMMA ReleasedIn ==
    ASSUME NEW p \in PathType, p.thread # <<>>, NEW d, NEW live, NEW D, DispsIn(p.app, D),
           NEW q, q = ReleaseQueued(p, d, live)
    PROVE  DispsIn(q.app, D \ {d}) /\ q.thread = p.thread
<1> DEFINE mine == {i \in DOMAIN p.app : p.app[i].disp = d}
<1>1. p.app \in Seq(Records)
  BY DEF PathType
<1>2. q = IF mine = {} THEN p ELSE Without(p, d)
  BY DEF ReleaseQueued, Without
<1>3. CASE mine = {}
  <2>1. \A i \in 1..Len(p.app) : p.app[i].disp # d
    BY <1>1, <1>3
  <2> QED
    BY <1>2, <1>3, <2>1 DEF DispsIn
<1>4. CASE mine # {}
  <2> HIDE DEF mine
  <2>1. q.app = Others(p.app, d) /\ q.thread = p.thread
    BY <1>2, <1>4 DEF Without, PathType
  <2>2. Kept(p.app, d, Len(p.app), q.app)
    BY <1>1, <2>1, OthersKept
  <2>3. \A i \in 1..Len(q.app) : q.app[i].disp # d /\ \E a \in 1..Len(p.app) : q.app[i] = p.app[a]
    BY <2>2 DEF Kept
  <2> QED
    BY <2>1, <2>3 DEF DispsIn
<1> QED
  BY <1>3, <1>4

-----------------------------------------------------------------------------
(* The dispatchers of the records under the steps.                                *)

LEMMA OwnFacts ==
    ASSUME Inv
    PROVE  /\ app \in Seq(Records) /\ thread \in Seq(Records) /\ Waiting \in Seq(Records)
           /\ Path \in PathType /\ Path.app = app /\ Path.thread = thread
           /\ status \in [Dispatchers -> {"none", "alive", "disposed"}]
           /\ engine \in EngineType /\ Alive \subseteq Live
BY InvParts DEF Inv, Typed, PathFlow, Path, Alive, Live

LEMMA SameOwn == ASSUME status' = status PROVE Alive' = Alive /\ Live' = Live
BY DEF Alive, Live

LEMMA InitOwn == ASSUME Init PROVE OwnInv
<1>1. /\ sink = Nobody /\ app = <<>> /\ thread = <<>> /\ ~Removing(engine) /\ engine.pc = "run"
  BY DEF Init, Running, Removing
<1>2. Waiting = <<>>
  <2>1. 0 \in Indices /\ RingOK(reader, writer, full)
    BY Sizes DEF Init, RingOK, Indices
  <2>2. Number = 0
    BY <2>1, EmptyIndices DEF Init, Number
  <2> QED
    BY <1>1, <2>2, RingNone DEF Waiting, Hal, Written
<1> QED
  BY <1>1, <1>2, NoneIn DEF OwnInv

LEMMA InterruptOwn ==
    ASSUME Inv, OwnInv, Interrupt, "burst" \notin Windows
    PROVE  OwnInv'
<1> DEFINE x == [event |-> raised + 1, disp |-> sink]
<1>1. sink # Nobody /\ UNCHANGED <<app, thread, status, sink, engine>>
  BY DEF Interrupt
<1>2. Alive' = Alive /\ Live' = Live
  BY <1>1, SameOwn
<1>3. x \in Records /\ x.disp \in Alive
  BY <1>1, RaisedRecord DEF OwnInv
<1>4. Waiting \in Seq(Records) /\ DispsIn(Waiting, Alive)
  BY OwnFacts DEF OwnInv
<1>5. DispsIn(Waiting', Alive)
  <2>1. CASE ~full
    <3>1. Grown(engine.pc, Waiting, x, Waiting')
      BY <2>1, InterruptStored
    <3> HIDE DEF x
    <3> QED
      BY <1>3, <1>4, <3>1, GrownIn
  <2>2. CASE full
    <3>1. Replaced(Waiting, slots[reader], x, Waiting')
      BY <2>2, InterruptDrops
    <3> HIDE DEF x
    <3> QED
      BY <1>3, <1>4, <3>1, ReplacedIn
  <2> QED
    BY <2>1, <2>2
<1>6. ~(Removing(engine) /\ engine.last)
  BY <1>1 DEF OwnInv
<1> QED
  BY <1>1, <1>2, <1>5, <1>6 DEF OwnInv

LEMMA PeekOwn ==
    ASSUME Inv, OwnInv, Peek
    PROVE  OwnInv'
<1>1. engine.pc = "peek" /\ UNCHANGED <<status, sink>> /\ Waiting' = Waiting
  BY PeekInv DEF Peek
<1>2. Alive' = Alive /\ Live' = Live
  BY <1>1, SameOwn
<1>3. CASE IsEmpty
  <2> DEFINE q == SpawnDispatcher(Path, Live)
  <2>1. engine' = Running /\ Becomes(q)
    BY <1>3 DEF Peek
  <2>2. DispsIn(q.app, Live) /\ (q.thread = <<>> => q.app = <<>>)
    BY OwnFacts, SpawnedIn DEF OwnInv
  <2> HIDE DEF q
  <2>3. app' = q.app /\ thread' = q.thread
    BY <2>1 DEF Becomes
  <2>4. ~Removing(engine')
    BY <2>1, RunningType DEF Removing
  <2> QED
    BY <1>1, <1>2, <2>2, <2>3, <2>4, NoneIn DEF OwnInv
<1>4. CASE ~IsEmpty
  <2>1. engine' = [engine EXCEPT !.pc = "copy", !.slot = reader] /\ app' = app /\ thread' = thread
    BY <1>4 DEF Peek, path
  <2>2. engine'.pc = "copy"
    BY <2>1, OwnFacts DEF EngineType
  <2>3. ~Removing(engine')
    BY <2>2 DEF Removing
  <2> QED
    BY <1>1, <1>2, <2>1, <2>2, <2>3 DEF OwnInv
<1> QED
  BY <1>3, <1>4

LEMMA CopyOwn ==
    ASSUME Inv, OwnInv, Copy
    PROVE  OwnInv'
<1> DEFINE h == Head(Waiting)
<1>1. /\ engine.pc = "copy" /\ engine' = [engine EXCEPT !.pc = "pop"] /\ UNCHANGED <<status, sink>>
      /\ Waiting # <<>> /\ Waiting' = Tail(Waiting) /\ app' = Append(app, h) /\ thread' = thread
  BY CopyInv DEF Copy
<1>2. Alive' = Alive /\ Live' = Live /\ Alive \subseteq Live
  BY <1>1, SameOwn, OwnFacts
<1>3. engine'.pc = "pop" /\ ~Removing(engine')
  BY <1>1, OwnFacts DEF EngineType, Removing
<1>4. h \in Records /\ h.disp \in Alive /\ DispsIn(Waiting', Alive)
  <2>1. Waiting \in Seq(Records) /\ DispsIn(Waiting, Alive)
    BY OwnFacts DEF OwnInv
  <2> QED
    BY <1>1, <2>1, TailIn
<1> HIDE DEF h
<1>5. app \in Seq(Records)
  BY OwnFacts
<1>6. DispsIn(app', Live)
  BY <1>1, <1>2, <1>4, <1>5, AppendIn DEF OwnInv
<1>7. thread = <<>> => DispsIn(app', Alive)
  BY <1>1, <1>4, <1>5, AppendIn DEF OwnInv
<1> QED
  BY <1>1, <1>2, <1>3, <1>4, <1>6, <1>7 DEF OwnInv

LEMMA CreateInstanceOwn ==
    ASSUME Inv, OwnInv, NEW d \in Dispatchers, CreateInstance(d)
    PROVE  OwnInv'
<1>1. /\ engine.pc = "run" /\ status[d] = "none" /\ status' = [status EXCEPT ![d] = "alive"]
      /\ sink' = d /\ UNCHANGED <<app, thread, engine>> /\ Waiting' = Waiting
  BY CreateInstanceInv DEF CreateInstance, path
<1>2. d \in Alive' /\ Alive \subseteq Alive' /\ Live \subseteq Live'
  BY <1>1, OwnFacts DEF Alive, Live
<1>3. ~Removing(engine)
  BY <1>1 DEF Removing
<1>4. DispsIn(app, Live') /\ DispsIn(Waiting, Alive') /\ (thread = <<>> => DispsIn(app, Alive'))
  BY <1>2, SubsetIn DEF OwnInv
<1> QED
  BY <1>1, <1>2, <1>3, <1>4 DEF OwnInv

LEMMA DisposeOwn ==
    ASSUME Inv, OwnInv, NEW d \in Dispatchers, Dispose(d)
    PROVE  OwnInv'
<1>1. /\ engine.pc = "run" /\ status[d] = "alive" /\ StartRemoval(d, FALSE)
      /\ UNCHANGED <<app, thread, status, sink>> /\ Waiting' = Waiting
  BY DisposeInv DEF Dispose, path
<1>2. Alive' = Alive /\ Live' = Live /\ d \in Alive
  BY <1>1, SameOwn DEF Alive
<1>3. engine'.disp = d /\ ~engine'.last
  BY <1>1 DEF StartRemoval, Running
<1>4. thread = <<>> => app = <<>>
  BY <1>1 DEF OwnInv
<1> QED
  BY <1>1, <1>2, <1>3, <1>4 DEF OwnInv

LEMMA RemovalEndsOwn ==
    ASSUME Inv, OwnInv, RemovalEnds
    PROVE  OwnInv'
<1> DEFINE d == engine.disp
<1>1. /\ engine.pc = "remove" /\ engine.left = 0 /\ UNCHANGED <<app, thread>> /\ Waiting' = Waiting
      /\ ~engine.last => engine'.left = Len(Waiting)
  BY RemovalEndsInv DEF RemovalEnds, path
<1>2. /\ d \in Alive /\ Waiting \in Seq(Records) /\ DispsIn(Waiting, Alive)
      /\ thread = <<>> => app = <<>>
      /\ engine.last => sink = Nobody /\ NoneBehind(Waiting, engine.left, d)
  BY <1>1, OwnFacts DEF OwnInv, Removing
<1>3. CASE engine.last
  <2>1. status' = [status EXCEPT ![d] = "disposed"] /\ engine' = Running /\ sink' = sink
    BY <1>3 DEF RemovalEnds
  <2>2. Alive' = Alive \ {d} /\ Live' = Live
    BY <1>2, <2>1, OwnFacts DEF Alive, Live
  <2> HIDE DEF d
  <2>3. DispsIn(Waiting, Alive')
    BY <1>1, <1>2, <1>3, <2>2, NoneLeft
  <2>4. engine'.pc = "run" /\ ~Removing(engine')
    BY <2>1, RunningType DEF Removing
  <2> QED
    BY <1>1, <1>2, <1>3, <2>1, <2>2, <2>3, <2>4, NoneIn DEF OwnInv
<1>4. CASE ~engine.last
  <2>1. StartRemoval(d, TRUE) /\ sink' = Nobody /\ status' = status
    BY <1>4 DEF RemovalEnds, CleanupEventSink
  <2>2. Alive' = Alive /\ Live' = Live
    BY <2>1, SameOwn
  <2>3. engine'.disp = d
    BY <2>1 DEF StartRemoval, Running
  <2> HIDE DEF d
  <2>4. NoneBehind(Waiting', engine'.left, engine'.disp)
    BY <1>1, <1>2, <1>4, AllBehind
  <2> QED
    BY <1>1, <1>2, <2>1, <2>2, <2>3, <2>4 DEF OwnInv
<1> QED
  BY <1>3, <1>4

LEMMA RemoveNextOwn ==
    ASSUME Inv, OwnInv, RemoveNext
    PROVE  OwnInv'
<1>1. /\ engine.pc = "remove" /\ engine.left > 0 /\ UNCHANGED <<app, thread, status, sink>>
      /\ Removed(Waiting, engine.disp, Waiting')
  BY RemoveNextInv DEF RemoveNext
<1>2. /\ engine'.disp = engine.disp /\ engine'.last = engine.last /\ engine'.left = engine.left - 1
  BY OwnFacts DEF RemoveNext, EngineType
<1>3. Alive' = Alive /\ Live' = Live
  BY <1>1, SameOwn
<1>4. /\ Waiting \in Seq(Records) /\ DispsIn(Waiting, Alive) /\ engine.left \in Nat /\ engine.left >= 1
      /\ engine.disp \in Alive /\ (thread = <<>> => app = <<>>)
      /\ engine.last => sink = Nobody /\ NoneBehind(Waiting, engine.left, engine.disp)
  BY <1>1, OwnFacts DEF OwnInv, Removing, EngineType
<1>5. DispsIn(Waiting', Alive)
  BY <1>1, <1>4, RemovedIn
<1>6. engine.last => NoneBehind(Waiting', engine.left - 1, engine.disp)
  BY <1>1, <1>4, RemovedBehind
<1> QED
  BY <1>1, <1>2, <1>3, <1>4, <1>5, <1>6 DEF OwnInv

(* Steps that move no record and change no dispatcher.                             *)
LEMMA StillOwn ==
    ASSUME Inv, OwnInv, UNCHANGED <<app, thread, status, sink>>, Waiting' = Waiting,
           engine.pc \in {"peek", "copy", "pop"} => engine'.pc \in {"peek", "copy", "pop"},
           Removing(engine') => /\ Removing(engine) /\ engine'.disp = engine.disp
                                /\ engine'.last = engine.last /\ engine'.left = engine.left
    PROVE  OwnInv'
<1>1. Alive' = Alive /\ Live' = Live
  BY SameOwn
<1> QED
  BY <1>1 DEF OwnInv

LEMMA OtherOwn ==
    ASSUME Inv, OwnInv, ProcessInterrupts \/ PopTransferred \/ PushBack \/ AssignFrom \/ UNCHANGED vars
    PROVE  OwnInv'
<1>1. engine \in EngineType
  BY OwnFacts
<1>2. CASE ProcessInterrupts
  <2>1. UNCHANGED <<app, thread, status, sink>> /\ engine.pc = "run" /\ engine'.pc = "peek"
        /\ Waiting' = Waiting
    BY <1>1, <1>2, ProcessInterruptsInv DEF ProcessInterrupts, path, EngineType
  <2> QED
    BY <2>1, StillOwn DEF Removing
<1>3. CASE PopTransferred
  <2>1. UNCHANGED <<app, thread, status, sink>> /\ engine.pc = "pop" /\ engine'.pc = "peek"
        /\ Waiting' = Waiting
    BY <1>1, <1>3, PopTransferredInv DEF PopTransferred, path, EngineType
  <2> QED
    BY <2>1, StillOwn DEF Removing
<1>4. CASE PushBack
  <2>1. ~full
    BY <1>4 DEF PushBack, Inv, InHand
  <2>2. UNCHANGED <<app, thread, status, sink>> /\ engine.pc = "push" /\ Waiting' = Waiting
        /\ engine'.disp = engine.disp /\ engine'.last = engine.last /\ engine'.left = engine.left
    BY <1>1, <1>4, <2>1, PushBackInv DEF PushBack, path, EngineType
  <2> QED
    BY <2>2, StillOwn DEF Removing
<1>5. CASE AssignFrom
  <2>1. UNCHANGED <<app, thread, status, sink>> /\ engine.pc = "assign" /\ Waiting' = Waiting
        /\ engine'.disp = engine.disp /\ engine'.last = engine.last /\ engine'.left = engine.left
    BY <1>1, <1>5, AssignFromInv DEF AssignFrom, path, EngineType
  <2> QED
    BY <2>1, StillOwn DEF Removing
<1>6. CASE UNCHANGED vars
  <2>1. UNCHANGED <<app, thread, status, sink, engine, slots, reader, writer, full>>
    BY <1>6 DEF vars, ring, path
  <2>2. Waiting' = Waiting
    BY <2>1 DEF Waiting, Number
  <2> QED
    BY <2>1, <2>2, StillOwn
<1> QED
  BY <1>2, <1>3, <1>4, <1>5, <1>6

LEMMA OutOfMemoryOwn ==
    ASSUME Inv, OwnInv, OutOfMemory, "strand" \notin Windows
    PROVE  OwnInv'
<1>1. /\ thread # <<>> \/ app = <<>>
      /\ engine' = Running /\ Waiting' = <<>> /\ UNCHANGED <<app, thread, status, sink>>
  BY OutOfMemoryInv DEF OutOfMemory
<1>2. Alive' = Alive /\ Live' = Live
  BY <1>1, SameOwn
<1>3. ~Removing(engine')
  BY <1>1, RunningType DEF Removing
<1> QED
  BY <1>1, <1>2, <1>3, NoneIn DEF OwnInv

LEMMA DelegateReturnsOwn ==
    ASSUME Inv, OwnInv, DelegateReturns
    PROVE  OwnInv'
<1> DEFINE p == [Path EXCEPT !.thread = <<>>, !.gone = @ \cup {thread[1].event}]
           q == SpawnDispatcher(p, Live)
<1>1. /\ engine.pc = "run" /\ thread # <<>> /\ Becomes(q)
      /\ UNCHANGED <<status, sink, engine>> /\ Waiting' = Waiting
  BY DelegateReturnsInv DEF DelegateReturns
<1>2. Alive' = Alive /\ Live' = Live
  BY <1>1, SameOwn
<1>3. p \in PathType /\ p.app = app
  <2>1. thread[1].event \in 1..MaxEvents
    <3>1. thread[1] \in Records
      BY <1>1, OwnFacts
    <3> QED
      BY <3>1, RecordsType
  <2>2. <<>> \in Seq(Records)
    OBVIOUS
  <2> QED
    BY <2>1, <2>2, OwnFacts DEF PathType
<1> HIDE DEF p
<1>4. DispsIn(q.app, Live) /\ (q.thread = <<>> => q.app = <<>>)
  BY <1>3, SpawnedIn DEF OwnInv
<1> HIDE DEF q
<1>5. app' = q.app /\ thread' = q.thread
  BY <1>1 DEF Becomes
<1>6. ~Removing(engine)
  BY <1>1 DEF Removing
<1> QED
  BY <1>1, <1>2, <1>4, <1>5, <1>6, NoneIn DEF OwnInv

LEMMA CollectOwn ==
    ASSUME Inv, OwnInv, NEW d \in Dispatchers, Collect(d)
    PROVE  OwnInv'
<1> DEFINE q == ReleaseQueued(Path, d, Live \ {d})
<1>1. /\ engine.pc \in {"run", "copy"} /\ status[d] = "disposed"
      /\ status' = [status EXCEPT ![d] = "none"] /\ Becomes(q)
      /\ UNCHANGED <<sink, engine>> /\ Waiting' = Waiting
  BY CollectInv DEF Collect
<1>2. Alive' = Alive /\ Live' = Live \ {d} /\ d \notin Alive
  BY <1>1, OwnFacts DEF Alive, Live
<1>3. ~Removing(engine)
  BY <1>1 DEF Removing
<1>4. CASE thread # <<>>
  <2>1. Path \in PathType /\ Path.app = app /\ Path.thread = thread /\ DispsIn(app, Live)
    BY OwnFacts DEF OwnInv
  <2>2. DispsIn(q.app, Live \ {d}) /\ q.thread = thread
    BY <1>4, <2>1, ReleasedIn
  <2> HIDE DEF q
  <2>3. app' = q.app /\ thread' = thread
    BY <1>1, <2>2 DEF Becomes
  <2> QED
    BY <1>1, <1>2, <1>3, <1>4, <2>2, <2>3 DEF OwnInv
<1>5. CASE thread = <<>>
  <2>1. DispsIn(app, Alive) /\ app \in Seq(Records)
    BY <1>5, OwnFacts DEF OwnInv
  <2>2. {i \in DOMAIN app : app[i].disp = d} = {}
    BY <1>2, <2>1 DEF DispsIn
  <2>3. q = Path
    BY <2>2, OwnFacts DEF ReleaseQueued
  <2>4. app' = app /\ thread' = thread
    BY <1>1, <2>3, OwnFacts DEF Becomes
  <2>5. DispsIn(app, Live')
    BY <1>2, <2>1, OwnFacts, SubsetIn
  <2> QED
    BY <1>1, <1>2, <1>3, <2>1, <2>4, <2>5 DEF OwnInv
<1> QED
  BY <1>4, <1>5

LEMMA NextOwn ==
    ASSUME Inv, OwnInv, [Next]_vars, "burst" \notin Windows, "strand" \notin Windows
    PROVE  OwnInv'
<1>1. ASSUME NEW d \in Dispatchers, CreateInstance(d) \/ Dispose(d) \/ Collect(d)
      PROVE  OwnInv'
  BY <1>1, CreateInstanceOwn, DisposeOwn, CollectOwn
<1> QED
  BY <1>1, InterruptOwn, PeekOwn, CopyOwn, RemovalEndsOwn, RemoveNextOwn, OtherOwn, OutOfMemoryOwn,
     DelegateReturnsOwn DEF Next, Steps

LEMMA InvNoDanglingContext ==
    ASSUME Inv, OwnInv
    PROVE  NoDanglingContext
<1>1. HalRecords = Waiting /\ app \in Seq(Records) /\ Waiting \in Seq(Records) /\ Alive \subseteq Live
  BY WaitingIs, OwnFacts
<1>2. DispsIn(app, Live) /\ DispsIn(Waiting, Live)
  BY <1>1, SubsetIn DEF OwnInv
<1> DEFINE all == app \o Waiting
<1>3. /\ all \in Seq(Records) /\ Len(all) = Len(app) + Len(Waiting)
      /\ Len(app) \in Nat /\ Len(Waiting) \in Nat
      /\ \A i \in 1..Len(app) : all[i] = app[i]
      /\ \A i \in 1..Len(Waiting) : all[Len(app) + i] = Waiting[i]
  BY <1>1, ConcatParts
<1> HIDE DEF all
<1>4. \A i \in 1..Len(all) : all[i].disp \in Live
  <2> SUFFICES ASSUME NEW i \in 1..Len(all)
               PROVE  all[i].disp \in Live
    OBVIOUS
  <2>1. CASE i \in 1..Len(app)
    BY <1>2, <1>3, <2>1 DEF DispsIn
  <2>2. CASE i \notin 1..Len(app)
    <3>1. i - Len(app) \in 1..Len(Waiting) /\ i = Len(app) + (i - Len(app))
      BY <1>3, <2>2
    <3>2. PICK b \in 1..Len(Waiting) : i = Len(app) + b
      BY <3>1
    <3>3. all[i] = Waiting[b]
      BY <1>3, <3>2
    <3> QED
      BY <1>2, <3>2, <3>3 DEF DispsIn
  <2> QED
    BY <2>1, <2>2
<1>5. \A x \in ToSet(all) : x.disp \in Live
  BY <1>3, <1>4 DEF ToSet
<1> QED
  BY <1>1, <1>5 DEF NoDanglingContext, all

\* For every number of dispatchers, slots and interrupts: the context of a record in either
\* queue is a dispatcher that exists (Dispose, RemoveFromHALQueue, ReleaseWhenDeadEx), if
\* no transfer is given up with records in the queue and an idle thread.
THEOREM ContextsExist ==
    ASSUME "burst" \notin Windows, "strand" \notin Windows
    PROVE  Spec => []NoDanglingContext
<1>1. Init => Inv /\ OwnInv
  BY InitInv, InitOwn
<1>2. Inv /\ OwnInv /\ [Next]_vars => (Inv /\ OwnInv)'
  BY NextInv, NextOwn
<1>3. Inv /\ OwnInv => NoDanglingContext
  BY InvNoDanglingContext
<1> QED
  BY <1>1, <1>2, <1>3, PTL DEF Spec
=============================================================================
