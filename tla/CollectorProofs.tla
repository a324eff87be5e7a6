---------------------------- MODULE CollectorProofs ----------------------------
(***************************************************************************)
(* No collection frees what is in use, proved for every number of objects, every *)
(* graph of references and every size of the mark stacks.                     *)
(***************************************************************************)
EXTENDS Collector, ListProofs, SequenceTheorems, FiniteSetTheorems

-----------------------------------------------------------------------------
(* The elements of sequences.                                               *)

LEMMA ElementsContained ==
    ASSUME NEW S, NEW s \in Seq(S), NEW x
    PROVE  x \in ToSet(s) <=> Contains(s, x)
BY DEF ToSet, Contains

LEMMA ElementsTyped ==
    ASSUME NEW S, NEW s \in Seq(S)
    PROVE  ToSet(s) \subseteq S
BY DEF ToSet

LEMMA AppendElements ==
    ASSUME NEW S, NEW s \in Seq(S), NEW x \in S
    PROVE  /\ Append(s, x) \in Seq(S)
           /\ Append(s, x) # <<>>
           /\ ToSet(Append(s, x)) = ToSet(s) \cup {x}
<1>1. Len(s) \in Nat /\ DOMAIN s = 1..Len(s)
  OBVIOUS
<1>2. PICK t \in Seq(S) : /\ t = Append(s, x) /\ t # <<>> /\ Len(t) = Len(s) + 1
                          /\ \A k \in 1..Len(s) : t[k] = s[k]
                          /\ t[Len(s) + 1] = x
  BY AppendProperties
<1>3. DOMAIN t = (1..Len(s)) \cup {Len(s) + 1}
  BY <1>1, <1>2
<1>4. ToSet(t) = ToSet(s) \cup {x}
  BY <1>1, <1>2, <1>3 DEF ToSet
<1> QED
  BY <1>2, <1>4

LEMMA HeadElements ==
    ASSUME NEW S, NEW s \in Seq(S), s # <<>>
    PROVE  /\ Head(s) \in S /\ Tail(s) \in Seq(S) /\ Len(Tail(s)) = Len(s) - 1
           /\ ToSet(s) = {Head(s)} \cup ToSet(Tail(s))
           /\ Len(s) = 1 => ToSet(s) = {Head(s)}
           /\ Len(s) # 1 => Tail(s) # <<>>
           /\ IsInjective(s) => IsInjective(Tail(s)) /\ Head(s) \notin ToSet(Tail(s))
<1>1. Len(s) \in Nat /\ DOMAIN s = 1..Len(s) /\ Len(s) > 0 /\ Head(s) = s[1]
  OBVIOUS
<1> DEFINE t == Tail(s)
<1>2. t \in Seq(S) /\ Len(t) = Len(s) - 1 /\ \A k \in 1..(Len(s) - 1) : t[k] = s[k + 1]
  BY HeadTailProperties
<1> HIDE DEF t
<1>3. DOMAIN t = 1..(Len(s) - 1)
  BY <1>2
<1>4. ToSet(s) = {s[1]} \cup ToSet(t)
  <2>1. \A k \in 1..Len(s) : k = 1 \/ (k - 1 \in 1..(Len(s) - 1) /\ t[k - 1] = s[k])
    BY <1>1, <1>2
  <2>2. \A k \in 1..(Len(s) - 1) : k + 1 \in 1..Len(s) /\ t[k] = s[k + 1]
    BY <1>1, <1>2
  <2>3. 1 \in 1..Len(s)
    BY <1>1
  <2>4. ASSUME NEW x \in ToSet(s)
        PROVE  x = s[1] \/ x \in ToSet(t)
    <3>1. PICK k \in 1..Len(s) : x = s[k]
      BY <1>1 DEF ToSet
    <3> QED
      BY <1>3, <2>1, <3>1 DEF ToSet
  <2>5. ASSUME NEW x \in ToSet(t)
        PROVE  x \in ToSet(s)
    <3>1. PICK k \in 1..(Len(s) - 1) : x = t[k]
      BY <1>3 DEF ToSet
    <3> QED
      BY <1>1, <2>2, <3>1 DEF ToSet
  <2>6. s[1] \in ToSet(s)
    BY <1>1, <2>3 DEF ToSet
  <2> QED
    BY <2>4, <2>5, <2>6
<1>5. Len(s) = 1 => ToSet(t) = {}
  BY <1>3 DEF ToSet
<1>6. Len(s) # 1 => t # <<>>
  BY <1>1, <1>2
<1>7. ASSUME IsInjective(s)
      PROVE  IsInjective(t) /\ s[1] \notin ToSet(t)
  <2>1. \A j, k \in 1..Len(s) : s[j] = s[k] => j = k
    BY <1>1, <1>7 DEF IsInjective
  <2>2. \A k \in 1..(Len(s) - 1) : k + 1 \in 1..Len(s) /\ 1 \in 1..Len(s) /\ t[k] = s[k + 1]
    BY <1>1, <1>2
  <2> QED
    BY <1>3, <2>1, <2>2 DEF IsInjective, ToSet
<1> QED
  BY <1>1, <1>2, <1>4, <1>5, <1>6, <1>7 DEF t

(* Two lists, one behind the other.                                           *)
LEMMA TwoLists ==
    ASSUME NEW S, NEW s \in Seq(S), NEW t \in Seq(S)
    PROVE  IsInjective(s \o t) <=>
               IsInjective(s) /\ IsInjective(t) /\ ToSet(s) \cap ToSet(t) = {}
<1>1. /\ Len(s) \in Nat /\ DOMAIN s = 1..Len(s)
      /\ Len(t) \in Nat /\ DOMAIN t = 1..Len(t)
  OBVIOUS
<1> DEFINE u == s \o t
<1>2. /\ u \in Seq(S) /\ Len(u) = Len(s) + Len(t)
      /\ \A k \in 1..(Len(s) + Len(t)) : /\ k <= Len(s) => u[k] = s[k]
                                         /\ k > Len(s) => u[k] = t[k - Len(s)]
  BY <1>1
<1> HIDE DEF u
<1>3. DOMAIN u = 1..(Len(s) + Len(t))
  BY <1>2
<1>4. \A k \in 1..Len(s) : k \in DOMAIN u /\ u[k] = s[k]
  BY <1>1, <1>2, <1>3
<1>5. \A k \in 1..Len(t) : Len(s) + k \in DOMAIN u /\ u[Len(s) + k] = t[k]
  BY <1>1, <1>2, <1>3
<1>6. \A k \in DOMAIN u : k \in 1..Len(s) \/ (k > Len(s) /\ k - Len(s) \in 1..Len(t) /\ k \in Int)
  BY <1>1, <1>3
<1>7. ASSUME IsInjective(u)
      PROVE  IsInjective(s) /\ IsInjective(t) /\ ToSet(s) \cap ToSet(t) = {}
  <2>1. \A j, k \in DOMAIN u : u[j] = u[k] => j = k
    BY <1>7 DEF IsInjective
  <2>2. IsInjective(s)
    BY <1>1, <1>4, <2>1 DEF IsInjective
  <2>3. IsInjective(t)
    BY <1>1, <1>5, <2>1 DEF IsInjective
  <2>4. \A j \in 1..Len(s), k \in 1..Len(t) : s[j] # t[k]
    BY <1>1, <1>4, <1>5, <2>1
  <2> QED
    BY <1>1, <2>2, <2>3, <2>4 DEF ToSet
<1>8. ASSUME IsInjective(s), IsInjective(t), ToSet(s) \cap ToSet(t) = {}
      PROVE  IsInjective(u)
  <2>1. \A j \in 1..Len(s), k \in 1..Len(t) : s[j] # t[k]
    BY <1>1, <1>8 DEF ToSet
  <2>2. \A k \in DOMAIN u : k \in 1..Len(s) \/ u[k] = t[k - Len(s)]
    BY <1>2, <1>3, <1>6
  <2>3. ASSUME NEW j \in DOMAIN u, NEW k \in DOMAIN u, u[j] = u[k]
        PROVE  j = k
    <3>1. CASE j \in 1..Len(s) /\ k \in 1..Len(s)
      BY <1>1, <1>4, <1>8, <2>3, <3>1 DEF IsInjective
    <3>2. CASE j \in 1..Len(s) /\ k \notin 1..Len(s)
      BY <1>4, <1>6, <2>1, <2>2, <2>3, <3>2
    <3>3. CASE j \notin 1..Len(s) /\ k \in 1..Len(s)
      BY <1>4, <1>6, <2>1, <2>2, <2>3, <3>3
    <3>4. CASE j \notin 1..Len(s) /\ k \notin 1..Len(s)
      <4>1. j - Len(s) = k - Len(s)
        BY <1>1, <1>6, <1>8, <2>2, <2>3, <3>4 DEF IsInjective
      <4> QED
        BY <1>1, <1>6, <3>4, <4>1
    <3> QED
      BY <3>1, <3>2, <3>3, <3>4
  <2> QED
    BY <2>3 DEF IsInjective
<1> QED
  BY <1>7, <1>8 DEF u

(* What one list of sequences leads to.                                       *)
Elements(seqs) == UNION {ToSet(seqs[k]) : k \in DOMAIN seqs}

LEMMA EmptyElements == Elements(<<>>) = {} /\ ToSet(<<>>) = {}
BY DEF Elements, ToSet

LEMMA AppendSequence ==
    ASSUME NEW S, NEW q \in Seq(Seq(S)), NEW s \in Seq(S)
    PROVE  /\ Append(q, s) \in Seq(Seq(S))
           /\ Elements(Append(q, s)) = Elements(q) \cup ToSet(s)
           /\ Len(Append(q, s)) = Len(q) + 1
           /\ (\A k \in DOMAIN q : q[k] # <<>>) /\ s # <<>> =>
                  \A k \in DOMAIN Append(q, s) : Append(q, s)[k] # <<>>
<1>1. Len(q) \in Nat /\ DOMAIN q = 1..Len(q)
  OBVIOUS
<1>2. PICK r \in Seq(Seq(S)) : /\ r = Append(q, s) /\ Len(r) = Len(q) + 1
                               /\ \A k \in 1..Len(q) : r[k] = q[k]
                               /\ r[Len(q) + 1] = s
  BY AppendProperties
<1>3. DOMAIN r = (1..Len(q)) \cup {Len(q) + 1}
  BY <1>1, <1>2
<1>4. Elements(r) = Elements(q) \cup ToSet(s)
  BY <1>1, <1>2, <1>3 DEF Elements
<1>5. (\A k \in DOMAIN q : q[k] # <<>>) /\ s # <<>> => \A k \in DOMAIN r : r[k] # <<>>
  BY <1>1, <1>2, <1>3
<1> QED
  BY <1>2, <1>4, <1>5

LEMMA HeadSequence ==
    ASSUME NEW S, NEW q \in Seq(Seq(S)), q # <<>>
    PROVE  /\ Head(q) \in Seq(S) /\ Tail(q) \in Seq(Seq(S))
           /\ Elements(q) = ToSet(Head(q)) \cup Elements(Tail(q))
<1>1. Len(q) \in Nat /\ DOMAIN q = 1..Len(q) /\ Len(q) > 0 /\ Head(q) = q[1]
  OBVIOUS
<1> DEFINE r == Tail(q)
<1>2. r \in Seq(Seq(S)) /\ Len(r) = Len(q) - 1 /\ \A k \in 1..(Len(q) - 1) : r[k] = q[k + 1]
  BY HeadTailProperties
<1> HIDE DEF r
<1>3. DOMAIN r = 1..(Len(q) - 1)
  BY <1>2
<1>4. \A k \in 1..Len(q) : k = 1 \/ (k - 1 \in 1..(Len(q) - 1) /\ r[k - 1] = q[k])
  BY <1>1, <1>2
<1>5. \A k \in 1..(Len(q) - 1) : k + 1 \in 1..Len(q) /\ r[k] = q[k + 1]
  BY <1>1, <1>2
<1>6. 1 \in 1..Len(q)
  BY <1>1
<1>7. Elements(q) = ToSet(q[1]) \cup Elements(r)
  BY <1>1, <1>3, <1>4, <1>5, <1>6 DEF Elements
<1> QED
  BY <1>1, <1>2, <1>7 DEF r

(* A stack of sequences: its top, and what is below.                           *)
LEMMA TopSequence ==
    ASSUME NEW S, NEW q \in Seq(Seq(S)), q # <<>>
    PROVE  /\ q[Len(q)] \in Seq(S)
           /\ SubSeq(q, 1, Len(q) - 1) \in Seq(Seq(S))
           /\ Len(SubSeq(q, 1, Len(q) - 1)) = Len(q) - 1
           /\ Elements(q) = ToSet(q[Len(q)]) \cup Elements(SubSeq(q, 1, Len(q) - 1))
           /\ (\A k \in DOMAIN q : q[k] # <<>>) =>
                  /\ q[Len(q)] # <<>>
                  /\ \A k \in DOMAIN SubSeq(q, 1, Len(q) - 1) : SubSeq(q, 1, Len(q) - 1)[k] # <<>>
<1>1. Len(q) \in Nat /\ DOMAIN q = 1..Len(q) /\ Len(q) > 0 /\ Len(q) \in 1..Len(q)
  OBVIOUS
<1> DEFINE r == SubSeq(q, 1, Len(q) - 1)
<1>2. r \in Seq(Seq(S)) /\ Len(r) = Len(q) - 1 /\ \A k \in 1..(Len(q) - 1) : r[k] = q[k]
  BY <1>1
<1> HIDE DEF r
<1>3. DOMAIN q = DOMAIN r \cup {Len(q)} /\ DOMAIN r = 1..(Len(q) - 1)
  BY <1>1, <1>2
<1>4. Elements(q) = ToSet(q[Len(q)]) \cup Elements(r)
  BY <1>2, <1>3 DEF Elements
<1>5. q[Len(q)] \in Seq(S)
  BY <1>1
<1>6. (\A k \in DOMAIN q : q[k] # <<>>) => q[Len(q)] # <<>> /\ \A k \in DOMAIN r : r[k] # <<>>
  BY <1>1, <1>2, <1>3
<1> QED
  BY <1>2, <1>4, <1>5, <1>6 DEF r

-----------------------------------------------------------------------------
(* The objects of a set in the order of their addresses.                       *)

LEMMA AscendingFacts ==
    ASSUME NEW set \in SUBSET Objects
    PROVE  /\ Ascending(set) \in Seq(set)
           /\ ToSet(Ascending(set)) = set
<1> DEFINE n == Cardinality(set)
           below(a) == {b \in set : b < a}
           f == [a \in set |-> Cardinality(below(a)) + 1]
<1>1. IsFiniteSet(set) /\ n \in Nat /\ set \subseteq Int
  <2>1. Size \in Int /\ set \subseteq 1..Size
    BY CollectorAssumption DEF Objects
  <2>2. IsFiniteSet(1..Size)
    BY <2>1, FS_Interval
  <2>3. IsFiniteSet(set)
    BY <2>1, <2>2, FS_Subset
  <2> QED
    BY <2>1, <2>3, FS_CardinalityType
<1>2. ASSUME NEW a \in set
      PROVE  /\ IsFiniteSet(below(a)) /\ Cardinality(below(a)) \in Nat
             /\ Cardinality(below(a)) < n
  <2>1. below(a) \in SUBSET set /\ a \notin below(a)
    BY <1>1
  <2>2. IsFiniteSet(below(a)) /\ Cardinality(below(a)) <= n /\ (n = Cardinality(below(a)) => set = below(a))
    BY <1>1, <2>1, FS_Subset
  <2>3. Cardinality(below(a)) \in Nat
    BY <2>2, FS_CardinalityType
  <2>4. n # Cardinality(below(a))
    BY <2>1, <2>2
  <2> HIDE DEF n, below
  <2> QED
    BY <1>1, <2>2, <2>3, <2>4
<1>3. ASSUME NEW a \in set, NEW b \in set, a < b
      PROVE  Cardinality(below(a)) # Cardinality(below(b))
  <2>1. \A c \in set : c \in Int
    BY <1>1
  <2>2. \A c \in set : c < a => c < b
    BY <1>3, <2>1
  <2>3. ~(a < a)
    BY <2>1
  <2>4. below(a) \in SUBSET below(b) /\ a \in below(b) /\ a \notin below(a)
    BY <1>3, <2>2, <2>3
  <2>5. Cardinality(below(b)) = Cardinality(below(a)) => below(b) = below(a)
    BY <1>2, <2>4, FS_Subset
  <2> QED
    BY <2>4, <2>5
<1>4. f \in Injection(set, 1..n)
  <2>1. f \in [set -> 1..n]
    <3>1. \A a \in set : Cardinality(below(a)) + 1 \in 1..n
      <4> HIDE DEF n, below
      <4> QED
        BY <1>1, <1>2
    <3> QED
      BY <3>1
  <2>2. ASSUME NEW a \in set, NEW b \in set, f[a] = f[b]
        PROVE  a = b
    <3>1. Cardinality(below(a)) = Cardinality(below(b))
      <4>1. Cardinality(below(a)) + 1 = Cardinality(below(b)) + 1
        BY <2>2
      <4> HIDE DEF below
      <4> QED
        BY <1>2, <4>1
    <3>2. ~(a < b) /\ ~(b < a)
      BY <1>3, <3>1
    <3> QED
      BY <1>1, <3>2
  <2> HIDE DEF f, n
  <2> QED
    BY <2>1, <2>2 DEF Injection, IsInjective
<1>5. IsFiniteSet(1..n) /\ Cardinality(1..n) = n
  <2> HIDE DEF n
  <2>1. IsFiniteSet(1..n) /\ Cardinality(1..n) = IF 1 > n THEN 0 ELSE n - 1 + 1
    BY <1>1, FS_Interval
  <2> QED
    BY <1>1, <2>1
<1>6. f \in Surjection(set, 1..n)
  <2> HIDE DEF f
  <2> QED
    BY <1>4, <1>5, FS_Injection
<1>7. \A k \in 1..n : \E a \in set : Cardinality(below(a)) = k - 1
  <2>1. \A k \in 1..n : \E a \in set : f[a] = k
    <3> HIDE DEF f
    <3> QED
      BY <1>6 DEF Surjection
  <2>2. \A k \in 1..n : \E a \in set : Cardinality(below(a)) + 1 = k
    BY <2>1
  <2> HIDE DEF n, below, f
  <2> QED
    BY <1>2, <2>2
<1>8. \A a \in set : Cardinality(below(a)) + 1 \in 1..n
  <2> HIDE DEF n, below
  <2> QED
    BY <1>1, <1>2
<1>9. \A a, b \in set : Cardinality(below(a)) = Cardinality(below(b)) => a = b
  <2> SUFFICES ASSUME NEW a \in set, NEW b \in set, Cardinality(below(a)) = Cardinality(below(b))
               PROVE  a = b
    OBVIOUS
  <2>1. ~(a < b) /\ ~(b < a)
    BY <1>3
  <2> QED
    BY <1>1, <2>1
<1>10. PICK s : s = Ascending(set)
  OBVIOUS
<1>11. s = [k \in 1..n |-> CHOOSE a \in set : Cardinality(below(a)) = k - 1]
  BY <1>10 DEF Ascending
<1> HIDE DEF n, below
<1>12. \A k \in 1..n : s[k] \in set /\ Cardinality(below(s[k])) = k - 1
  BY <1>7, <1>11
<1>13. s \in Seq(set) /\ DOMAIN s = 1..n
  BY <1>1, <1>11, <1>12
<1>14. \A a \in set : s[Cardinality(below(a)) + 1] = a
  BY <1>2, <1>8, <1>9, <1>12
<1>15. ToSet(s) = set
  BY <1>8, <1>12, <1>13, <1>14 DEF ToSet
<1> QED
  BY <1>10, <1>13, <1>15

-----------------------------------------------------------------------------
(* The inductive invariant.                                                 *)

(* References that the marking loop has still to look at.                      *)
Gray == Elements(todo) \cup Elements(stack) \cup ToSet(work)

(* What the marking loop never gives up: the blocks that it leaves when it is out *)
(* of stack space come from an object, so that only they count while nothing is  *)
(* on the stack.                                                            *)
Owed == {Null} \cup marked \cup Elements(todo) \cup Elements(stack)
            \cup (IF stack = <<>> THEN ToSet(work) ELSE {})

Roots == held \cup {finalizing} \cup ToSet(pending)

FreeClear == \A o \in Objects \ live : refs[o] = NullFields(o)

RunClear == pc = "run" => Idle /\ todo = <<>> /\ marked = {} /\ moved = 0

RootsOwed == pc # "run" => Roots \subseteq Owed

(* What a marked object refers to is marked, or looked at later: because it is    *)
(* noted, because the pass of MarkSlow has not come to the object, or because     *)
(* there will be another pass.                                               *)
FieldsCovered ==
    \A o \in marked : out \/ o >= pass \/
        \A k \in DOMAIN refs[o] : refs[o][k] \in {Null} \cup marked \cup Gray

SweepReady ==
    pc = "sweep" =>
        Idle /\ todo = <<>> /\ ~out /\ pass = Size + 1 /\ ToSet(alive) \subseteq marked

MarkInv == RunClear /\ RootsOwed /\ FieldsCovered /\ SweepReady
CollectorInv == Consistent /\ FreeClear /\ MarkInv

LEMMA InitCollector == Init => CollectorInv
<1> SUFFICES ASSUME Init
             PROVE  CollectorInv
  OBVIOUS
<1>1. /\ live = {} /\ held = {} /\ marked = {} /\ out = FALSE
      /\ refs = [o \in Objects |-> NullFields(o)]
      /\ alive = <<>> /\ pending = <<>> /\ moved = 0
      /\ finalizing = Null /\ weak = Null
      /\ pc = "run" /\ todo = <<>> /\ pass = Size + 1
      /\ work = <<>> /\ stack = <<>> /\ stacks = 1
  BY DEF Init
<1>2. Size \in Nat /\ MinimumSpace \in Nat /\ MaxStacks \in Nat
  BY CollectorAssumption
<1>3. \A o \in Objects : NullFields(o) \in [1 .. Fields[o] -> Objects \cup {Null}]
  BY DEF NullFields
<1>4. TypeOK
  <2>1. pass \in 1 .. Size + 1 /\ stacks \in 1 .. MaxStacks + 1
    BY <1>1, <1>2
  <2>2. Len(stack) <= stacks * MinimumSpace
    BY <1>1, <1>2
  <2>3. moved \in 0 .. Len(pending)
    BY <1>1
  <2>4. \A o \in Objects : refs[o] \in [1 .. Fields[o] -> Objects \cup {Null}]
    BY <1>1, <1>3
  <2>5. /\ live \subseteq Objects /\ held \subseteq Objects /\ marked \subseteq Objects
        /\ DOMAIN refs = Objects
        /\ finalizing \in Objects \cup {Null} /\ weak \in Objects \cup {Null}
    BY <1>1
  <2>6. /\ alive \in Seq(Objects) /\ pending \in Seq(Objects)
        /\ work \in Seq(Objects \cup {Null})
        /\ {todo, stack} \subseteq Seq(Seq(Objects \cup {Null}))
        /\ \A k \in DOMAIN stack : stack[k] # <<>>
    BY <1>1
  <2>7. pc \in {"run", "roots", "finalizers", "sweep"} /\ out \in BOOLEAN
    BY <1>1
  <2> HIDE DEF Objects
  <2> QED
    BY <2>1, <2>2, <2>3, <2>4, <2>5, <2>6, <2>7 DEF TypeOK
<1>5. NoDangling
  BY <1>1, EmptyElements DEF NoDangling
<1>6. OneEntry
  BY <1>1 DEF OneEntry, IsInjective
<1>7. FreeClear
  BY <1>1 DEF FreeClear
<1>8. MarkInv
  BY <1>1 DEF MarkInv, RunClear, RootsOwed, FieldsCovered, SweepReady, Idle
<1> QED
  BY <1>4, <1>5, <1>6, <1>7, <1>8 DEF CollectorInv, Consistent

-----------------------------------------------------------------------------
(* The program.                                                             *)

(* The two lists of finalizers, each entry at most once and for a live object.   *)
Entries(a, p, l) ==
    /\ a \in Seq(Objects) /\ p \in Seq(Objects)
    /\ IsInjective(a) /\ IsInjective(p)
    /\ ToSet(a) \cap ToSet(p) = {}
    /\ ToSet(a) \cup ToSet(p) \subseteq l

LEMMA EntriesOf ==
    ASSUME Consistent
    PROVE  Entries(alive, pending, live)
BY TwoLists DEF Consistent, TypeOK, NoDangling, OneEntry, Entries

LEMMA RegisterFacts ==
    ASSUME NEW a \in Seq(Objects), NEW o \in Objects, IsInjective(a), o \notin ToSet(a)
    PROVE  /\ Register(o, a) \in Seq(Objects)
           /\ IsInjective(Register(o, a))
           /\ ToSet(Register(o, a)) \subseteq ToSet(a) \cup {o}
<1>1. ~Contains(a, o)
  BY ElementsContained
<1>2. Append(a, o) \in Seq(Objects) /\ IsInjective(Append(a, o))
  BY <1>1, AppendFacts
<1>3. ToSet(Append(a, o)) = ToSet(a) \cup {o}
  BY AppendElements
<1> QED
  BY <1>2, <1>3 DEF Register

LEMMA RemoveInstanceFacts ==
    ASSUME NEW a \in Seq(Objects), NEW o \in Objects, IsInjective(a)
    PROVE  /\ RemoveInstance(o, a) \in Seq(Objects)
           /\ IsInjective(RemoveInstance(o, a))
           /\ ToSet(RemoveInstance(o, a)) = ToSet(a) \ {o}
<1>1. CASE Contains(a, o)
  <2>1. PICK k \in 1..Len(a) : a[k] = o
    BY <1>1 DEF Contains
  <2>2. \A j \in 1..(k - 1) : j \in 1..Len(a) /\ j # k
    OBVIOUS
  <2>3. \A j \in 1..(k - 1) : a[j] # o
    BY <2>1, <2>2 DEF IsInjective
  <2>4. PICK m \in DOMAIN a : /\ a[m] = o
                              /\ m = CHOOSE i \in DOMAIN a : a[i] = o /\ \A j \in 1 .. i - 1 : a[j] # o
    BY <2>1, <2>3
  <2>5. PICK r : r = RemoveAt(a, m)
    OBVIOUS
  <2>6. RemoveInstance(o, a) = r
    BY <1>1, <2>4, <2>5 DEF RemoveInstance
  <2>7. /\ r \in Seq(Objects) /\ IsInjective(r)
        /\ \A y : Contains(r, y) <=> Contains(a, y) /\ y # a[m]
    <3>1. m \in 1..Len(a)
      BY <2>4
    <3> QED
      BY <2>5, <3>1, RemoveAtFacts, Zenon
  <2>8. \A y : (y \in ToSet(r) <=> Contains(r, y)) /\ (y \in ToSet(a) <=> Contains(a, y))
    BY <2>7, ElementsContained
  <2>9. ToSet(r) = ToSet(a) \ {o}
    BY <2>4, <2>7, <2>8
  <2> QED
    BY <2>6, <2>7, <2>9
<1>2. CASE ~Contains(a, o)
  <2>1. RemoveInstance(o, a) = a
    BY <1>2 DEF RemoveInstance
  <2> QED
    BY <1>2, <2>1, ElementsContained
<1> QED
  BY <1>1, <1>2

(* The rest of the heap: what a step of the program may change besides the lists. *)
HeapOK(l, r, h, f, w) ==
    /\ l \subseteq Objects /\ h \subseteq l
    /\ DOMAIN r = Objects
    /\ \A o \in Objects : r[o] \in [1 .. Fields[o] -> Objects \cup {Null}]
    /\ f \in l \cup {Null} /\ w \in l \cup {Null}
    /\ \A o \in l : \A k \in DOMAIN r[o] : r[o][k] \in l \cup {Null}
    /\ \A o \in Objects \ l : r[o] = NullFields(o)

LEMMA HeapOf ==
    ASSUME Consistent, FreeClear
    PROVE  HeapOK(live, refs, held, finalizing, weak)
BY DEF Consistent, FreeClear, TypeOK, NoDangling, HeapOK

(* A step of the program keeps the invariant if it keeps the heap and the lists in *)
(* order: no marking goes on.                                                *)
LEMMA ProgramKeeps ==
    ASSUME CollectorInv, Running, UNCHANGED <<moved, marking>>,
           Entries(alive', pending', live'),
           HeapOK(live', refs', held', finalizing', weak')
    PROVE  CollectorInv'
<1>1. /\ moved' = moved /\ pc' = pc /\ todo' = todo /\ pass' = pass /\ work' = work
      /\ stack' = stack /\ stacks' = stacks /\ marked' = marked /\ out' = out
  BY DEF marking
<1>2. pc = "run" /\ moved = 0 /\ marked = {} /\ RunClear
  BY DEF CollectorInv, MarkInv, RunClear, Running
<1>3. OneEntry'
  BY TwoLists DEF OneEntry, Entries
<1>4. NoDangling'
  <2>1. held' \cup ToSet(alive') \cup ToSet(pending') \subseteq live'
    BY DEF Entries, HeapOK
  <2>2. finalizing' \in live' \cup {Null} /\ weak' \in live' \cup {Null}
    BY DEF HeapOK
  <2>3. \A o \in live' : \A k \in DOMAIN refs'[o] : refs'[o][k] \in live' \cup {Null}
    BY DEF HeapOK
  <2> QED
    BY <2>1, <2>2, <2>3 DEF NoDangling
<1>5. TypeOK'
  <2>1. TypeOK
    BY DEF CollectorInv, Consistent
  <2>2. /\ live' \subseteq Objects /\ held' \subseteq Objects /\ DOMAIN refs' = Objects
        /\ \A o \in Objects : refs'[o] \in [1 .. Fields[o] -> Objects \cup {Null}]
        /\ finalizing' \in Objects \cup {Null} /\ weak' \in Objects \cup {Null}
    BY DEF HeapOK
  <2>3. alive' \in Seq(Objects) /\ pending' \in Seq(Objects)
    BY DEF Entries
  <2>4. moved' \in 0 .. Len(pending')
    BY <1>1, <1>2, <2>3
  <2> QED
    BY <1>1, <2>1, <2>2, <2>3, <2>4 DEF TypeOK
<1>6. FreeClear'
  BY DEF FreeClear, HeapOK
<1>7. MarkInv'
  BY <1>1, <1>2 DEF MarkInv, RunClear, RootsOwed, FieldsCovered, SweepReady, Idle
<1> QED
  BY <1>3, <1>4, <1>5, <1>6, <1>7 DEF CollectorInv, Consistent

LEMMA InReachLive ==
    ASSUME CollectorInv
    PROVE  InReach \subseteq live /\ InReach \subseteq Objects /\ Null \notin Objects
BY CollectorAssumption DEF CollectorInv, Consistent, TypeOK, NoDangling, InReach

LEMMA NewKeeps ==
    ASSUME CollectorInv, New
    PROVE  CollectorInv'
<1>1. /\ Running /\ UNCHANGED <<moved, marking>>
      /\ refs' = refs /\ pending' = pending /\ finalizing' = finalizing
  BY DEF New
<1>2. PICK h : h = CHOOSE p \in Objects \ live : \A q \in Objects \ live : p <= q
  OBVIOUS
<1>3. h \in Objects \ live
  <2>1. Objects \ live \in SUBSET Nat /\ Objects \ live # {}
    <3>1. live \subseteq Objects /\ live # Objects
      BY DEF New, CollectorInv, Consistent, TypeOK
    <3>2. Objects \subseteq Nat
      BY CollectorAssumption DEF Objects
    <3> QED
      BY <3>1, <3>2
  <2>2. \E p \in Objects \ live : \A q \in Objects \ live : p <= q
    BY <2>1, LeastNumber
  <2> QED
    BY <1>2, <2>2
<1>4. /\ live' = live \cup {h} /\ held' = held \cup {h}
      /\ alive' = Register(h, alive) /\ weak' \in {weak, h}
  BY <1>2 DEF New
<1>5. Entries(alive, pending, live) /\ HeapOK(live, refs, held, finalizing, weak)
  BY EntriesOf, HeapOf DEF CollectorInv
<1>6. Entries(alive', pending', live')
  <2>1. /\ Register(h, alive) \in Seq(Objects) /\ IsInjective(Register(h, alive))
        /\ ToSet(Register(h, alive)) \subseteq ToSet(alive) \cup {h}
    BY <1>3, <1>5, RegisterFacts DEF Entries
  <2> QED
    BY <1>1, <1>3, <1>4, <1>5, <2>1 DEF Entries
<1>7. HeapOK(live', refs', held', finalizing', weak')
  <2>1. refs[h] = NullFields(h)
    BY <1>3, <1>5 DEF HeapOK
  <2>2. \A k \in DOMAIN refs[h] : refs[h][k] = Null
    BY <2>1 DEF NullFields
  <2> QED
    BY <1>1, <1>3, <1>4, <1>5, <2>2 DEF HeapOK
<1> QED
  BY <1>1, <1>6, <1>7, ProgramKeeps

LEMMA StoreKeeps ==
    ASSUME CollectorInv, Store
    PROVE  CollectorInv'
<1>1. /\ Running /\ UNCHANGED <<moved, marking>>
      /\ live' = live /\ held' = held /\ alive' = alive /\ pending' = pending
      /\ finalizing' = finalizing /\ weak' = weak
  BY DEF Store
<1>2. PICK o \in InReach : \E k \in 1 .. Fields[o] : \E v \in InReach :
                               refs' = [refs EXCEPT ![o][k] = v]
  BY DEF Store
<1>3. PICK k \in 1 .. Fields[o], v \in InReach : refs' = [refs EXCEPT ![o][k] = v]
  BY <1>2
<1>4. o \in live /\ o \in Objects /\ v \in live /\ v \in Objects
  BY InReachLive
<1>5. Entries(alive, pending, live) /\ HeapOK(live, refs, held, finalizing, weak)
  BY EntriesOf, HeapOf DEF CollectorInv
<1>6. DOMAIN refs = Objects /\ refs[o] \in [1 .. Fields[o] -> Objects \cup {Null}]
  BY <1>4, <1>5 DEF HeapOK
<1>7. /\ DOMAIN refs' = Objects
      /\ \A p \in Objects : p # o => refs'[p] = refs[p]
      /\ refs'[o] = [refs[o] EXCEPT ![k] = v]
  BY <1>3, <1>4, <1>6
<1>8. /\ refs'[o] \in [1 .. Fields[o] -> Objects \cup {Null}]
      /\ \A j \in DOMAIN refs'[o] : j \in DOMAIN refs[o] /\ refs'[o][j] \in {v, refs[o][j]}
  BY <1>4, <1>6, <1>7
<1>9. HeapOK(live', refs', held', finalizing', weak')
  <2>1. \A p \in Objects : refs'[p] \in [1 .. Fields[p] -> Objects \cup {Null}]
    BY <1>5, <1>7, <1>8 DEF HeapOK
  <2>2. \A j \in DOMAIN refs'[o] : refs'[o][j] \in live \cup {Null}
    BY <1>4, <1>5, <1>8 DEF HeapOK
  <2>3. \A p \in live : \A j \in DOMAIN refs'[p] : refs'[p][j] \in live \cup {Null}
    BY <1>5, <1>7, <2>2 DEF HeapOK
  <2>4. \A p \in Objects \ live : refs'[p] = NullFields(p)
    BY <1>4, <1>5, <1>7 DEF HeapOK
  <2> QED
    BY <1>1, <1>5, <1>7, <2>1, <2>3, <2>4 DEF HeapOK
<1> QED
  BY <1>1, <1>5, <1>9, ProgramKeeps

LEMMA HandlesKeep ==
    ASSUME CollectorInv, Load \/ Drop \/ GetWeak \/ FinalizerEnds
    PROVE  CollectorInv'
<1>1. Entries(alive, pending, live) /\ HeapOK(live, refs, held, finalizing, weak)
  BY EntriesOf, HeapOf DEF CollectorInv
<1>2. /\ Running /\ UNCHANGED <<moved, marking>>
      /\ live' = live /\ refs' = refs /\ alive' = alive /\ pending' = pending /\ weak' = weak
  BY DEF Load, Drop, GetWeak, FinalizerEnds
<1>3. held' \subseteq live /\ finalizing' \in live \cup {Null}
  <2>1. CASE Load
    <3>1. PICK o \in InReach : \E k \in 1 .. Fields[o] :
              refs[o][k] # Null /\ held' = held \cup {refs[o][k]}
      BY <2>1 DEF Load
    <3>2. PICK k \in 1 .. Fields[o] : refs[o][k] # Null /\ held' = held \cup {refs[o][k]}
      BY <3>1
    <3>3. o \in live /\ k \in DOMAIN refs[o] /\ finalizing' = finalizing
      BY <1>1, <2>1, InReachLive DEF HeapOK, Load
    <3> QED
      BY <1>1, <3>2, <3>3 DEF HeapOK
  <2>2. CASE Drop
    BY <1>1, <2>2 DEF Drop, HeapOK
  <2>3. CASE GetWeak
    BY <1>1, <2>3 DEF GetWeak, HeapOK
  <2>4. CASE FinalizerEnds
    BY <1>1, <2>4 DEF FinalizerEnds, HeapOK
  <2> QED
    BY <2>1, <2>2, <2>3, <2>4
<1>4. HeapOK(live', refs', held', finalizing', weak')
  BY <1>1, <1>2, <1>3 DEF HeapOK
<1> QED
  BY <1>1, <1>2, <1>4, ProgramKeeps

LEMMA EntriesKeep ==
    ASSUME CollectorInv, Suppress \/ ReRegister \/ SpawnFinalizer
    PROVE  CollectorInv'
<1>1. Entries(alive, pending, live) /\ HeapOK(live, refs, held, finalizing, weak)
  BY EntriesOf, HeapOf DEF CollectorInv
<1>2. /\ Running /\ UNCHANGED <<moved, marking>>
      /\ live' = live /\ refs' = refs /\ held' = held /\ weak' = weak
  BY DEF Suppress, ReRegister, SpawnFinalizer
<1>3. ASSUME NEW o \in InReach
      PROVE  Entries(RemoveInstance(o, alive), RemoveInstance(o, pending), live)
  <2>1. o \in Objects /\ alive \in Seq(Objects) /\ pending \in Seq(Objects)
        /\ IsInjective(alive) /\ IsInjective(pending)
    BY <1>1, InReachLive DEF Entries
  <2>2. /\ RemoveInstance(o, alive) \in Seq(Objects)
        /\ IsInjective(RemoveInstance(o, alive))
        /\ ToSet(RemoveInstance(o, alive)) = ToSet(alive) \ {o}
    BY <2>1, RemoveInstanceFacts
  <2>3. /\ RemoveInstance(o, pending) \in Seq(Objects)
        /\ IsInjective(RemoveInstance(o, pending))
        /\ ToSet(RemoveInstance(o, pending)) = ToSet(pending) \ {o}
    BY <2>1, RemoveInstanceFacts
  <2> QED
    BY <1>1, <2>2, <2>3 DEF Entries
<1>4. CASE Suppress
  <2>1. PICK o \in InReach : /\ alive' = RemoveInstance(o, alive)
                             /\ pending' = RemoveInstance(o, pending)
                             /\ finalizing' = finalizing
    BY <1>4 DEF Suppress, SuppressFinalize
  <2>2. Entries(alive', pending', live')
    BY <1>2, <1>3, <2>1
  <2> QED
    BY <1>1, <1>2, <2>1, <2>2, ProgramKeeps
<1>5. CASE ReRegister
  <2>1. PICK o \in InReach : /\ alive' = Register(o, RemoveInstance(o, alive))
                             /\ pending' = RemoveInstance(o, pending)
                             /\ finalizing' = finalizing
    BY <1>5 DEF ReRegister, ReRegisterForFinalize
  <2>2. PICK a : a = RemoveInstance(o, alive)
    OBVIOUS
  <2>3. o \in live /\ o \in Objects
    BY InReachLive
  <2>4. Entries(a, pending', live)
    BY <1>3, <2>1, <2>2
  <2>5. o \notin ToSet(a) /\ o \notin ToSet(pending')
    BY <1>1, <2>1, <2>2, <2>3, RemoveInstanceFacts DEF Entries
  <2>6. /\ Register(o, a) \in Seq(Objects) /\ IsInjective(Register(o, a))
        /\ ToSet(Register(o, a)) \subseteq ToSet(a) \cup {o}
    BY <2>3, <2>4, <2>5, RegisterFacts DEF Entries
  <2>7. Entries(alive', pending', live')
    BY <1>2, <2>1, <2>2, <2>3, <2>4, <2>5, <2>6 DEF Entries
  <2> QED
    BY <1>1, <1>2, <2>1, <2>7, ProgramKeeps
<1>6. CASE SpawnFinalizer
  <2>1. pending # <<>> /\ finalizing' = Head(pending) /\ pending' = Tail(pending) /\ alive' = alive
    BY <1>6 DEF SpawnFinalizer
  <2>2. /\ Tail(pending) \in Seq(Objects) /\ IsInjective(Tail(pending))
        /\ ToSet(pending) = {Head(pending)} \cup ToSet(Tail(pending))
    BY <1>1, <2>1, HeadElements DEF Entries
  <2>3. Entries(alive', pending', live')
    BY <1>1, <1>2, <2>1, <2>2 DEF Entries
  <2>4. finalizing' \in live
    BY <1>1, <2>1, <2>2 DEF Entries
  <2>5. HeapOK(live', refs', held', finalizing', weak')
    BY <1>1, <1>2, <2>4 DEF HeapOK
  <2> QED
    BY <1>2, <2>3, <2>5, ProgramKeeps
<1> QED
  BY <1>4, <1>5, <1>6

-----------------------------------------------------------------------------
(* The marking loop.                                                        *)

LEMMA MarkingKeeps ==
    ASSUME CollectorInv, UNCHANGED <<program, moved>>, TypeOK', MarkInv'
    PROVE  CollectorInv'
<1>1. /\ live' = live /\ refs' = refs /\ held' = held /\ alive' = alive /\ pending' = pending
      /\ finalizing' = finalizing /\ weak' = weak
  BY DEF program
<1>2. NoDangling' /\ OneEntry' /\ FreeClear'
  BY <1>1 DEF CollectorInv, Consistent, NoDangling, OneEntry, FreeClear
<1> QED
  BY <1>2 DEF CollectorInv, Consistent

(* What a step of the marking loop must keep of the type invariant.            *)
MarkingTypes ==
    /\ marked \subseteq Objects
    /\ pc \in {"run", "roots", "finalizers", "sweep"}
    /\ work \in Seq(Objects \cup {Null}) /\ pass \in 1 .. Size + 1
    /\ todo \in Seq(Seq(Objects \cup {Null})) /\ stack \in Seq(Seq(Objects \cup {Null}))
    /\ \A k \in DOMAIN stack : stack[k] # <<>>
    /\ stacks \in 1 .. MaxStacks + 1 /\ Len(stack) <= stacks * MinimumSpace
    /\ out \in BOOLEAN

LEMMA MarkingTypesOf ==
    ASSUME TypeOK
    PROVE  MarkingTypes
BY DEF TypeOK, MarkingTypes

LEMMA TypesKeep ==
    ASSUME TypeOK, UNCHANGED <<program, moved>>, MarkingTypes'
    PROVE  TypeOK'
<1>1. /\ live' = live /\ refs' = refs /\ held' = held /\ alive' = alive /\ pending' = pending
      /\ finalizing' = finalizing /\ weak' = weak /\ moved' = moved
  BY DEF program
<1> QED
  BY <1>1 DEF TypeOK, MarkingTypes

LEMMA FieldTypes ==
    ASSUME TypeOK, NEW o \in Objects
    PROVE  /\ refs[o] \in Seq(Objects \cup {Null})
           /\ \A k \in DOMAIN refs[o] : refs[o][k] \in ToSet(refs[o])
<1>1. Fields[o] \in Nat /\ refs[o] \in [1 .. Fields[o] -> Objects \cup {Null}]
  BY CollectorAssumption DEF TypeOK
<1> QED
  BY <1>1 DEF ToSet

LEMMA CheckKeeps ==
    ASSUME CollectorInv, Check
    PROVE  CollectorInv'
<1>1. /\ pc # "run" /\ pc # "sweep" /\ work = <<>> /\ stack = <<>> /\ todo # <<>>
      /\ work' = Head(todo) /\ todo' = Tail(todo)
      /\ UNCHANGED <<program, moved>>
      /\ pc' = pc /\ pass' = pass /\ stack' = stack /\ stacks' = stacks
      /\ marked' = marked /\ out' = out
  BY DEF Check, Marks, Idle
<1>2. TypeOK /\ MarkingTypes
  BY MarkingTypesOf DEF CollectorInv, Consistent
<1>3. /\ Head(todo) \in Seq(Objects \cup {Null})
      /\ Tail(todo) \in Seq(Seq(Objects \cup {Null}))
      /\ Elements(todo) = ToSet(Head(todo)) \cup Elements(Tail(todo))
  BY <1>1, <1>2, HeadSequence DEF MarkingTypes
<1>4. TypeOK'
  <2>1. MarkingTypes'
    BY <1>1, <1>2, <1>3 DEF MarkingTypes
  <2> QED
    BY <1>1, <1>2, <2>1, TypesKeep
<1>5. Gray' = Gray /\ Owed' = Owed
  BY <1>1, <1>3, EmptyElements DEF Gray, Owed
<1>6. refs' = refs /\ Roots' = Roots
  BY <1>1 DEF program, Roots
<1>7. MarkInv'
  BY <1>1, <1>5, <1>6
  DEF CollectorInv, MarkInv, RunClear, RootsOwed, FieldsCovered, SweepReady
<1> QED
  BY <1>1, <1>4, <1>7, MarkingKeeps

LEMMA CheckHeapKeeps ==
    ASSUME CollectorInv, CheckHeap
    PROVE  CollectorInv'
<1>1. /\ pc # "run" /\ pc # "sweep" /\ work = <<>> /\ stack = <<>> /\ todo = <<>>
      /\ UNCHANGED <<program, moved>>
      /\ pc' = pc /\ todo' = todo /\ stack' = stack /\ stacks' = stacks
      /\ marked' = marked /\ out' = out
  BY DEF CheckHeap, Marks, Idle
<1>2. PICK o \in marked : /\ o >= pass /\ \A p \in marked : p < pass \/ o <= p
                          /\ work' = refs[o] /\ pass' = o + 1
  BY DEF CheckHeap
<1>3. TypeOK /\ MarkingTypes
  BY MarkingTypesOf DEF CollectorInv, Consistent
<1>4. /\ o \in Objects /\ refs[o] \in Seq(Objects \cup {Null})
      /\ \A k \in DOMAIN refs[o] : refs[o][k] \in ToSet(refs[o])
  BY <1>3, FieldTypes DEF MarkingTypes
<1>5. o \in 1..Size /\ Size \in Nat /\ marked \subseteq 1..Size /\ pass \in Int
  BY <1>3, <1>4, CollectorAssumption DEF Objects, MarkingTypes
<1>6. TypeOK'
  <2>1. o + 1 \in 1 .. Size + 1
    BY <1>5
  <2>2. MarkingTypes'
    BY <1>1, <1>2, <1>3, <1>4, <2>1 DEF MarkingTypes
  <2> QED
    BY <1>1, <1>3, <2>2, TypesKeep
<1>7. refs' = refs /\ Roots' = Roots
  BY <1>1 DEF program, Roots
<1>8. RootsOwed'
  BY <1>1, <1>7, EmptyElements DEF CollectorInv, MarkInv, RootsOwed, Owed
<1>9. FieldsCovered'
  <2> SUFFICES ASSUME NEW p \in marked, ~out, ~(p >= o + 1), NEW k \in DOMAIN refs[p]
               PROVE  refs[p][k] \in {Null} \cup marked \cup Gray'
    BY <1>1, <1>2, <1>7 DEF FieldsCovered
  <2>1. CASE p < pass
    <3>1. ~(p >= pass)
      BY <1>5, <2>1
    <3>2. refs[p][k] \in {Null} \cup marked \cup Gray
      BY <3>1 DEF CollectorInv, MarkInv, FieldsCovered
    <3>3. Gray = {}
      BY <1>1, EmptyElements DEF Gray
    <3> QED
      BY <3>2, <3>3
  <2>2. CASE ~(p < pass)
    <3>1. p = o
      BY <1>2, <1>5, <2>2
    <3> QED
      BY <1>2, <1>4, <3>1 DEF Gray
  <2> QED
    BY <2>1, <2>2
<1>10. MarkInv'
  BY <1>1, <1>8, <1>9 DEF MarkInv, RunClear, SweepReady
<1> QED
  BY <1>1, <1>6, <1>10, MarkingKeeps

(* One reference is looked at, and the others of its block stay on the stack.     *)
LEMMA VisitKeeps ==
    ASSUME CollectorInv, Marks, NEW h \in Objects \cup {Null}, Visit(h),
           UNCHANGED <<program, moved, pc, todo, pass, stacks, out>>,
           stack' \in Seq(Seq(Objects \cup {Null})),
           \A k \in DOMAIN stack' : stack'[k] # <<>>,
           Len(stack') <= stacks * MinimumSpace,
           Elements(stack') \cup {h} = Elements(stack) \cup ToSet(work)
    PROVE  CollectorInv'
<1>1. /\ pc # "run" /\ pc # "sweep"
      /\ UNCHANGED <<program, moved>>
      /\ pc' = pc /\ todo' = todo /\ pass' = pass /\ stacks' = stacks /\ out' = out
  BY DEF Marks
<1>2. TypeOK /\ MarkingTypes
  BY MarkingTypesOf DEF CollectorInv, Consistent
<1>3. refs' = refs /\ Roots' = Roots
  BY <1>1 DEF program, Roots
<1>4. /\ marked \subseteq marked' /\ marked' \subseteq Objects
      /\ h \in {Null} \cup marked'
      /\ work' \in Seq(Objects \cup {Null})
      /\ \A p \in marked' \ marked : \A k \in DOMAIN refs[p] : refs[p][k] \in ToSet(work')
  <2>1. CASE h \in {Null} \cup marked
    <3>1. work' = <<>> /\ marked' = marked
      BY <2>1 DEF Visit
    <3> QED
      BY <1>2, <2>1, <3>1 DEF MarkingTypes
  <2>2. CASE h \notin {Null} \cup marked
    <3>1. work' = refs[h] /\ marked' = marked \cup {h} /\ h \in Objects
      BY <2>2 DEF Visit
    <3>2. /\ refs[h] \in Seq(Objects \cup {Null})
          /\ \A k \in DOMAIN refs[h] : refs[h][k] \in ToSet(refs[h])
      BY <1>2, <3>1, FieldTypes
    <3> QED
      BY <1>2, <3>1, <3>2 DEF MarkingTypes
  <2> QED
    BY <2>1, <2>2
<1>5. TypeOK'
  <2>1. MarkingTypes'
    BY <1>1, <1>2, <1>4 DEF MarkingTypes
  <2> QED
    BY <1>1, <1>2, <2>1, TypesKeep
<1>6. RootsOwed'
  <2>1. Owed \subseteq {Null} \cup marked \cup Elements(todo) \cup Elements(stack) \cup ToSet(work)
    BY DEF Owed
  <2>2. {Null} \cup marked' \cup Elements(todo) \cup Elements(stack') \subseteq Owed'
    BY <1>1 DEF Owed
  <2>3. Owed \subseteq Owed'
    BY <1>4, <2>1, <2>2
  <2> QED
    BY <1>1, <1>3, <2>3 DEF CollectorInv, MarkInv, RootsOwed
<1>7. FieldsCovered'
  <2> SUFFICES ASSUME NEW p \in marked', ~out, ~(p >= pass), NEW k \in DOMAIN refs[p]
               PROVE  refs[p][k] \in {Null} \cup marked' \cup Gray'
    BY <1>1, <1>3 DEF FieldsCovered
  <2>1. CASE p \in marked
    <3>1. refs[p][k] \in {Null} \cup marked \cup Gray
      BY <2>1 DEF CollectorInv, MarkInv, FieldsCovered
    <3>2. Gray \subseteq Gray' \cup {h}
      BY <1>1 DEF Gray
    <3> QED
      BY <1>4, <3>1, <3>2
  <2>2. CASE p \notin marked
    BY <1>4, <2>2 DEF Gray
  <2> QED
    BY <2>1, <2>2
<1>8. MarkInv'
  BY <1>1, <1>6, <1>7 DEF MarkInv, RunClear, SweepReady
<1> QED
  BY <1>1, <1>5, <1>8, MarkingKeeps

LEMMA SpaceType ==
    ASSUME MarkingTypes
    PROVE  /\ stacks \in Nat /\ stacks >= 1 /\ stacks * MinimumSpace \in Nat
           /\ stacks * MinimumSpace >= 1
           /\ (stacks + 1) * MinimumSpace >= stacks * MinimumSpace
<1>1. stacks \in Nat /\ stacks >= 1 /\ MinimumSpace \in Nat /\ MinimumSpace >= 1
  BY CollectorAssumption DEF MarkingTypes
<1>2. \A a, b \in Nat : a * b \in Nat
  OBVIOUS
<1>3. \A a, b \in Nat : a >= 1 /\ b >= 1 => a * b >= 1
  OBVIOUS
<1>4. \A a, b \in Nat : (a + 1) * b = (a * b) + b
  OBVIOUS
<1> QED
  BY <1>1, <1>2, <1>3, <1>4

LEMMA TakeFromStackKeeps ==
    ASSUME CollectorInv, TakeFromStack
    PROVE  CollectorInv'
<1> DEFINE top == stack[Len(stack)]
           below == SubSeq(stack, 1, Len(stack) - 1)
<1>1. /\ Marks /\ work = <<>> /\ stack # <<>>
      /\ Visit(Head(top))
      /\ stack' = IF Len(top) = 1 THEN below ELSE Append(below, Tail(top))
      /\ UNCHANGED <<program, moved, pc, todo, pass, stacks, out>>
  BY DEF TakeFromStack
<1>2. MarkingTypes
  BY MarkingTypesOf DEF CollectorInv, Consistent
<1>3. /\ stack \in Seq(Seq(Objects \cup {Null})) /\ \A k \in DOMAIN stack : stack[k] # <<>>
      /\ Len(stack) \in Nat /\ Len(stack) <= stacks * MinimumSpace
      /\ stacks * MinimumSpace \in Nat
  BY <1>2, SpaceType DEF MarkingTypes
<1>4. /\ top \in Seq(Objects \cup {Null}) /\ top # <<>>
      /\ below \in Seq(Seq(Objects \cup {Null}))
      /\ Len(below) = Len(stack) - 1
      /\ Elements(stack) = ToSet(top) \cup Elements(below)
      /\ \A k \in DOMAIN below : below[k] # <<>>
  BY <1>1, <1>3, TopSequence
<1> HIDE DEF top, below
<1>5. /\ Head(top) \in Objects \cup {Null} /\ Tail(top) \in Seq(Objects \cup {Null})
      /\ ToSet(top) = {Head(top)} \cup ToSet(Tail(top))
      /\ Len(top) = 1 => ToSet(top) = {Head(top)}
      /\ Len(top) # 1 => Tail(top) # <<>>
  BY <1>4, HeadElements
<1>6. ToSet(work) = {}
  BY <1>1, EmptyElements
<1>7. /\ stack' \in Seq(Seq(Objects \cup {Null}))
      /\ \A k \in DOMAIN stack' : stack'[k] # <<>>
      /\ Len(stack') <= stacks * MinimumSpace
      /\ Elements(stack') \cup {Head(top)} = Elements(stack) \cup ToSet(work)
  <2>1. CASE Len(top) = 1
    <3>1. stack' = below
      BY <1>1, <2>1
    <3>2. Len(below) <= stacks * MinimumSpace
      BY <1>3, <1>4
    <3>3. Elements(below) \cup {Head(top)} = Elements(stack) \cup ToSet(work)
      BY <1>4, <1>5, <1>6, <2>1
    <3> QED
      BY <1>4, <3>1, <3>2, <3>3
  <2>2. CASE Len(top) # 1
    <3>1. stack' = Append(below, Tail(top))
      BY <1>1, <2>2
    <3>2. PICK r : r = Append(below, Tail(top))
      OBVIOUS
    <3>3. /\ r \in Seq(Seq(Objects \cup {Null}))
          /\ Elements(r) = Elements(below) \cup ToSet(Tail(top))
          /\ Len(r) = Len(below) + 1
          /\ \A k \in DOMAIN r : r[k] # <<>>
      BY <1>4, <1>5, <2>2, <3>2, AppendSequence
    <3>4. Len(r) <= stacks * MinimumSpace
      BY <1>3, <1>4, <3>3
    <3>5. Elements(r) \cup {Head(top)} = Elements(stack) \cup ToSet(work)
      BY <1>4, <1>5, <1>6, <3>3
    <3> QED
      BY <3>1, <3>2, <3>3, <3>4, <3>5
  <2> QED
    BY <2>1, <2>2
<1> QED
  BY <1>1, <1>5, <1>7, VisitKeeps

LEMMA TakeFromWorkKeeps ==
    ASSUME CollectorInv, TakeFromWork
    PROVE  CollectorInv'
<1>1. /\ Marks /\ work # <<>> /\ (Len(work) = 1 \/ Room)
      /\ Visit(Head(work))
      /\ stack' = IF Len(work) = 1 THEN stack ELSE Append(stack, Tail(work))
      /\ UNCHANGED <<program, moved, pc, todo, pass, stacks, out>>
  BY DEF TakeFromWork
<1>2. MarkingTypes
  BY MarkingTypesOf DEF CollectorInv, Consistent
<1>3. /\ stack \in Seq(Seq(Objects \cup {Null})) /\ \A k \in DOMAIN stack : stack[k] # <<>>
      /\ Len(stack) \in Nat /\ Len(stack) <= stacks * MinimumSpace
      /\ stacks * MinimumSpace \in Nat /\ work \in Seq(Objects \cup {Null})
  BY <1>2, SpaceType DEF MarkingTypes
<1>4. /\ Head(work) \in Objects \cup {Null} /\ Tail(work) \in Seq(Objects \cup {Null})
      /\ ToSet(work) = {Head(work)} \cup ToSet(Tail(work))
      /\ Len(work) = 1 => ToSet(work) = {Head(work)}
      /\ Len(work) # 1 => Tail(work) # <<>>
  BY <1>1, <1>3, HeadElements
<1>5. /\ stack' \in Seq(Seq(Objects \cup {Null}))
      /\ \A k \in DOMAIN stack' : stack'[k] # <<>>
      /\ Len(stack') <= stacks * MinimumSpace
      /\ Elements(stack') \cup {Head(work)} = Elements(stack) \cup ToSet(work)
  <2>1. CASE Len(work) = 1
    <3>1. stack' = stack
      BY <1>1, <2>1
    <3> QED
      BY <1>3, <1>4, <2>1, <3>1
  <2>2. CASE Len(work) # 1
    <3>1. stack' = Append(stack, Tail(work)) /\ Len(stack) < stacks * MinimumSpace
      BY <1>1, <2>2 DEF Room
    <3>2. PICK r : r = Append(stack, Tail(work))
      OBVIOUS
    <3>3. /\ r \in Seq(Seq(Objects \cup {Null}))
          /\ Elements(r) = Elements(stack) \cup ToSet(Tail(work))
          /\ Len(r) = Len(stack) + 1
          /\ \A k \in DOMAIN r : r[k] # <<>>
      BY <1>3, <1>4, <2>2, <3>2, AppendSequence
    <3>4. Len(r) <= stacks * MinimumSpace
      BY <1>3, <3>1, <3>3
    <3>5. Elements(r) \cup {Head(work)} = Elements(stack) \cup ToSet(work)
      BY <1>4, <3>3
    <3> QED
      BY <3>1, <3>2, <3>3, <3>4, <3>5
  <2> QED
    BY <2>1, <2>2
<1> QED
  BY <1>1, <1>4, <1>5, VisitKeeps

LEMMA MoreStackKeeps ==
    ASSUME CollectorInv, MoreStack
    PROVE  CollectorInv'
<1>1. /\ pc # "run" /\ pc # "sweep" /\ stacks <= MaxStacks /\ stacks' = stacks + 1
      /\ UNCHANGED <<program, moved>>
      /\ pc' = pc /\ todo' = todo /\ pass' = pass /\ work' = work /\ stack' = stack
      /\ marked' = marked /\ out' = out
  BY DEF MoreStack, Full, Marks
<1>2. TypeOK /\ MarkingTypes
  BY MarkingTypesOf DEF CollectorInv, Consistent
<1>3. TypeOK'
  <2>1. stacks' \in 1 .. MaxStacks + 1
    BY <1>1, <1>2, CollectorAssumption DEF MarkingTypes
  <2>2. Len(stack) <= (stacks + 1) * MinimumSpace
    <3>1. \A a, b \in Nat : a * b \in Nat
      OBVIOUS
    <3>2. /\ (stacks + 1) * MinimumSpace \in Nat /\ stacks * MinimumSpace \in Nat
          /\ (stacks + 1) * MinimumSpace >= stacks * MinimumSpace
      BY <1>2, <3>1, SpaceType, CollectorAssumption
    <3>3. Len(stack) \in Nat /\ Len(stack) <= stacks * MinimumSpace
      BY <1>2 DEF MarkingTypes
    <3> QED
      BY <3>2, <3>3
  <2>3. MarkingTypes'
    BY <1>1, <1>2, <2>1, <2>2 DEF MarkingTypes
  <2> QED
    BY <1>1, <1>2, <2>3, TypesKeep
<1>4. refs' = refs /\ Roots' = Roots /\ Gray' = Gray /\ Owed' = Owed
  BY <1>1 DEF program, Roots, Gray, Owed
<1>5. MarkInv'
  BY <1>1, <1>4 DEF CollectorInv, MarkInv, RunClear, RootsOwed, FieldsCovered, SweepReady
<1> QED
  BY <1>1, <1>3, <1>5, MarkingKeeps

LEMMA GiveUpKeeps ==
    ASSUME CollectorInv, GiveUp
    PROVE  CollectorInv'
<1>1. /\ pc # "run" /\ pc # "sweep" /\ ~Room /\ out' = TRUE /\ work' = <<>>
      /\ UNCHANGED <<program, moved>>
      /\ pc' = pc /\ todo' = todo /\ pass' = pass /\ stack' = stack /\ stacks' = stacks
      /\ marked' = marked
  BY DEF GiveUp, Full, Marks, LeaveBlocks
<1>2. TypeOK /\ MarkingTypes
  BY MarkingTypesOf DEF CollectorInv, Consistent
<1>3. TypeOK'
  <2>1. MarkingTypes'
    BY <1>1, <1>2 DEF MarkingTypes
  <2> QED
    BY <1>1, <1>2, <2>1, TypesKeep
<1>4. stack # <<>>
  <2>1. stacks * MinimumSpace \in Nat /\ stacks * MinimumSpace >= 1
    BY <1>2, SpaceType
  <2>2. ~(Len(stack) < stacks * MinimumSpace)
    BY <1>1 DEF Room
  <2> QED
    BY <2>1, <2>2
<1>5. refs' = refs /\ Roots' = Roots /\ Owed' = Owed
  BY <1>1, <1>4 DEF program, Roots, Owed
<1>6. MarkInv'
  BY <1>1, <1>5 DEF CollectorInv, MarkInv, RunClear, RootsOwed, FieldsCovered, SweepReady
<1> QED
  BY <1>1, <1>3, <1>6, MarkingKeeps

(* The three steps between passes change the program counter, pass and out only.   *)
LEMMA PassKeeps ==
    ASSUME CollectorInv, Slow \/ RootsDone \/ MarkDone
    PROVE  CollectorInv'
<1>1. /\ UNCHANGED <<program, moved>>
      /\ todo' = todo /\ work' = work /\ stack' = stack /\ stacks' = stacks
      /\ marked' = marked
  BY DEF Slow, RootsDone, MarkDone
<1>2. /\ pc # "run" /\ pc # "sweep" /\ Idle /\ todo = <<>> /\ \A o \in marked : o < pass
  BY DEF Slow, RootsDone, MarkDone, Marks, Ready
<1>3. TypeOK /\ MarkingTypes /\ Size \in Nat /\ pass \in Int /\ marked \subseteq 1..Size
  BY MarkingTypesOf, CollectorAssumption DEF CollectorInv, Consistent, MarkingTypes, Objects
<1>4. /\ refs' = refs /\ Roots' = Roots /\ Gray' = Gray /\ Owed' = Owed
      /\ ToSet(alive') = ToSet(alive)
  BY <1>1 DEF program, Roots, Gray, Owed
<1>5. /\ pc' \in {"roots", "finalizers", "sweep"}
      /\ pass' \in {1, Size + 1} /\ out' \in BOOLEAN
      /\ pc' = "sweep" => ToSet(alive) \subseteq marked /\ ~out' /\ pass' = Size + 1
      /\ pass' # 1 => out' = out /\ ~out
  <2>1. CASE Slow
    BY <1>2, <1>3, <2>1 DEF Slow, MarkSlow, MarkingTypes
  <2>2. CASE RootsDone
    BY <1>3, <2>2 DEF RootsDone, MarkingTypes
  <2>3. CASE MarkDone
    BY <1>3, <2>3 DEF MarkDone, MarkingTypes
  <2> QED
    BY <2>1, <2>2, <2>3
<1>6. TypeOK'
  <2>1. pass' \in 1 .. Size + 1
    BY <1>3, <1>5
  <2>2. MarkingTypes'
    BY <1>1, <1>3, <1>5, <2>1 DEF MarkingTypes
  <2> QED
    BY <1>1, <1>3, <2>2, TypesKeep
<1>7. FieldsCovered'
  <2>1. CASE pass' = 1
    BY <1>1, <1>3, <2>1 DEF FieldsCovered
  <2>2. CASE pass' # 1
    <3>1. \A o \in marked : ~(o >= pass) /\ ~out
      BY <1>2, <1>3, <1>5, <2>2
    <3> QED
      BY <1>1, <1>4, <3>1 DEF CollectorInv, MarkInv, FieldsCovered
  <2> QED
    BY <2>1, <2>2
<1>8. MarkInv'
  BY <1>1, <1>2, <1>4, <1>5, <1>7
  DEF CollectorInv, MarkInv, RunClear, RootsOwed, SweepReady, Idle
<1> QED
  BY <1>1, <1>6, <1>8, MarkingKeeps

-----------------------------------------------------------------------------
(* The steps of a collection that change the lists or the heap.                 *)

LEMMA FinalizeKeeps ==
    ASSUME CollectorInv, Finalize
    PROVE  CollectorInv'
<1>1. /\ pc = "finalizers" /\ work = <<>> /\ stack = <<>> /\ todo = <<>>
      /\ moved' = moved + 1
      /\ live' = live /\ refs' = refs /\ held' = held /\ finalizing' = finalizing /\ weak' = weak
      /\ pc' = pc /\ todo' = todo /\ pass' = pass /\ stack' = stack /\ stacks' = stacks
      /\ marked' = marked /\ out' = out
  BY DEF Finalize, Ready, Idle
<1>2. PICK k \in DOMAIN alive : /\ alive' = RemoveAt(alive, k)
                                /\ pending' = Append(pending, alive[k])
                                /\ work' = <<alive[k]>>
  BY DEF Finalize, MoveToPending
<1>3. TypeOK /\ Entries(alive, pending, live) /\ HeapOK(live, refs, held, finalizing, weak)
  BY EntriesOf, HeapOf DEF CollectorInv, Consistent
<1>4. PICK x : x = alive[k]
  OBVIOUS
<1>5. /\ k \in 1..Len(alive) /\ x \in Objects /\ x \in ToSet(alive) /\ x \notin ToSet(pending)
      /\ alive \in Seq(Objects) /\ pending \in Seq(Objects)
      /\ IsInjective(alive) /\ IsInjective(pending)
  BY <1>3, <1>4 DEF Entries, ToSet
<1>6. /\ alive' \in Seq(Objects) /\ IsInjective(alive')
      /\ \A y : Contains(alive', y) <=> Contains(alive, y) /\ y # alive[k]
  BY <1>2, <1>5, RemoveAtFacts, Zenon
<1>7. ToSet(alive') = ToSet(alive) \ {x}
  <2>1. \A y : (y \in ToSet(alive') <=> Contains(alive', y))
               /\ (y \in ToSet(alive) <=> Contains(alive, y))
    BY <1>5, <1>6, ElementsContained
  <2> QED
    BY <1>4, <1>6, <2>1
<1>8. /\ pending' \in Seq(Objects) /\ IsInjective(pending')
      /\ ToSet(pending') = ToSet(pending) \cup {x}
      /\ Len(pending') = Len(pending) + 1
  <2>1. ~Contains(pending, x)
    BY <1>5, ElementsContained
  <2>2. Append(pending, x) \in Seq(Objects) /\ IsInjective(Append(pending, x))
    BY <1>5, <2>1, AppendFacts
  <2>3. ToSet(Append(pending, x)) = ToSet(pending) \cup {x}
    BY <1>5, AppendElements
  <2>4. Len(Append(pending, x)) = Len(pending) + 1
    BY <1>5
  <2> QED
    BY <1>2, <1>4, <2>2, <2>3, <2>4
<1>9. Entries(alive', pending', live')
  BY <1>1, <1>3, <1>5, <1>6, <1>7, <1>8 DEF Entries
<1>10. OneEntry' /\ NoDangling' /\ FreeClear'
  <2>1. OneEntry'
    BY <1>9, TwoLists DEF OneEntry, Entries
  <2>2. NoDangling'
    BY <1>1, <1>3, <1>9 DEF NoDangling, Entries, HeapOK
  <2>3. FreeClear'
    BY <1>1 DEF CollectorInv, FreeClear
  <2> QED
    BY <2>1, <2>2, <2>3
<1>11. work' \in Seq(Objects \cup {Null}) /\ ToSet(work') = {x}
  BY <1>2, <1>4, <1>5 DEF ToSet
<1>12. TypeOK'
  <2>1. moved' \in 0 .. Len(pending')
    BY <1>1, <1>3, <1>5, <1>8 DEF TypeOK
  <2>2. alive' \in Seq(Objects) /\ pending' \in Seq(Objects)
    BY <1>6, <1>8
  <2> QED
    BY <1>1, <1>3, <1>11, <2>1, <2>2 DEF TypeOK
<1>13. Roots' = Roots \cup {x} /\ Owed' = Owed \cup {x} /\ Gray' = Gray \cup {x}
  BY <1>1, <1>8, <1>11, EmptyElements DEF Roots, Owed, Gray
<1>14. MarkInv'
  BY <1>1, <1>13
  DEF CollectorInv, MarkInv, RunClear, RootsOwed, FieldsCovered, SweepReady
<1> QED
  BY <1>10, <1>12, <1>14 DEF CollectorInv, Consistent

(* The sweep frees nothing that is in use: all roots are marked, and all that marked *)
(* objects refer to.                                                         *)
LEMMA SweepKeeps ==
    ASSUME CollectorInv, Sweep
    PROVE  CollectorInv'
<1>1. /\ pc = "sweep" /\ live' = live \cap marked
      /\ refs' = [o \in Objects |-> IF o \in marked THEN refs[o] ELSE NullFields(o)]
      /\ weak' = IF weak \in marked THEN weak ELSE Null
      /\ marked' = {} /\ stacks' = 1 /\ moved' = 0 /\ pc' = "run"
      /\ held' = held /\ alive' = alive /\ pending' = pending /\ finalizing' = finalizing
      /\ todo' = todo /\ pass' = pass /\ work' = work /\ stack' = stack /\ out' = out
  BY DEF Sweep, WeakTarget
<1>2. /\ TypeOK /\ NoDangling /\ OneEntry /\ MarkingTypes
      /\ Entries(alive, pending, live) /\ HeapOK(live, refs, held, finalizing, weak)
  BY EntriesOf, HeapOf, MarkingTypesOf DEF CollectorInv, Consistent
<1>3. /\ work = <<>> /\ stack = <<>> /\ todo = <<>> /\ ~out /\ pass = Size + 1
      /\ ToSet(alive) \subseteq marked
  BY <1>1 DEF CollectorInv, MarkInv, SweepReady, Idle
<1>4. Roots \subseteq {Null} \cup marked
  BY <1>1, <1>3, EmptyElements DEF CollectorInv, MarkInv, RootsOwed, Owed
<1>5. \A o \in marked : \A k \in DOMAIN refs[o] : refs[o][k] \in {Null} \cup marked
  <2>1. Gray = {}
    BY <1>3, EmptyElements DEF Gray
  <2>2. \A o \in marked : ~(o >= pass)
    <3>1. marked \subseteq 1..Size /\ Size \in Nat
      BY <1>2, CollectorAssumption DEF MarkingTypes, Objects
    <3> QED
      BY <1>3, <3>1
  <2> QED
    BY <1>3, <2>1, <2>2 DEF CollectorInv, MarkInv, FieldsCovered
<1>6. Null \notin Objects /\ live \subseteq Objects /\ held \subseteq Objects
      /\ ToSet(pending) \subseteq Objects /\ marked \subseteq Objects
  BY <1>2, CollectorAssumption DEF Entries, HeapOK, MarkingTypes
<1>7. /\ DOMAIN refs' = Objects
      /\ \A o \in marked : refs'[o] = refs[o]
      /\ \A o \in Objects \ marked : refs'[o] = NullFields(o)
  BY <1>1, <1>6
<1>8. NoDangling'
  <2>1. held \cup ToSet(alive) \cup ToSet(pending) \subseteq live \cap marked
    BY <1>2, <1>3, <1>4, <1>6 DEF Roots, NoDangling
  <2>2. {finalizing, weak'} \subseteq (live \cap marked) \cup {Null}
    BY <1>1, <1>2, <1>4 DEF Roots, NoDangling
  <2>3. \A o \in live \cap marked : \A k \in DOMAIN refs'[o] :
            refs'[o][k] \in (live \cap marked) \cup {Null}
    BY <1>2, <1>5, <1>7 DEF NoDangling
  <2> QED
    BY <1>1, <2>1, <2>2, <2>3 DEF NoDangling
<1>9. OneEntry'
  BY <1>1, <1>2 DEF OneEntry
<1>10. FreeClear'
  BY <1>1, <1>7 DEF CollectorInv, FreeClear
<1>11. TypeOK'
  <2>1. \A o \in Objects : NullFields(o) \in [1 .. Fields[o] -> Objects \cup {Null}]
    BY DEF NullFields
  <2>2. \A o \in Objects : refs'[o] \in [1 .. Fields[o] -> Objects \cup {Null}]
    BY <1>2, <1>7, <2>1 DEF TypeOK
  <2>3. stacks' \in 1 .. MaxStacks + 1 /\ Len(stack') <= stacks' * MinimumSpace
    BY <1>1, <1>3, CollectorAssumption
  <2>4. moved' \in 0 .. Len(pending')
    BY <1>1, <1>2 DEF TypeOK
  <2>5. weak' \in Objects \cup {Null} /\ live' \subseteq Objects /\ marked' \subseteq Objects
    BY <1>1, <1>2, <1>6 DEF TypeOK
  <2> QED
    BY <1>1, <1>2, <1>7, <2>2, <2>3, <2>4, <2>5 DEF TypeOK
<1>12. MarkInv'
  BY <1>1, <1>3 DEF MarkInv, RunClear, RootsOwed, FieldsCovered, SweepReady, Idle
<1> QED
  BY <1>8, <1>9, <1>10, <1>11, <1>12 DEF CollectorInv, Consistent

LEMMA ConcatSequences ==
    ASSUME NEW S, NEW q \in Seq(Seq(S)), NEW r \in Seq(Seq(S))
    PROVE  /\ q \o r \in Seq(Seq(S))
           /\ Elements(q) \cup Elements(r) \subseteq Elements(q \o r)
<1>1. /\ Len(q) \in Nat /\ DOMAIN q = 1..Len(q)
      /\ Len(r) \in Nat /\ DOMAIN r = 1..Len(r)
  OBVIOUS
<1> DEFINE u == q \o r
<1>2. /\ u \in Seq(Seq(S)) /\ Len(u) = Len(q) + Len(r)
      /\ \A k \in 1..(Len(q) + Len(r)) : /\ k <= Len(q) => u[k] = q[k]
                                         /\ k > Len(q) => u[k] = r[k - Len(q)]
  BY <1>1
<1> HIDE DEF u
<1>3. DOMAIN u = 1..(Len(q) + Len(r))
  BY <1>2
<1>4. \A k \in 1..Len(q) : k \in DOMAIN u /\ u[k] = q[k]
  BY <1>1, <1>2, <1>3
<1>5. ASSUME NEW k \in 1..Len(r)
      PROVE  Len(q) + k \in DOMAIN u /\ u[Len(q) + k] = r[k]
  <2>1. PICK j : j = Len(q) + k
    OBVIOUS
  <2>2. j \in 1..(Len(q) + Len(r)) /\ j > Len(q) /\ j - Len(q) = k
    BY <1>1, <2>1
  <2> QED
    BY <1>2, <1>3, <2>1, <2>2
<1>6. Elements(q) \subseteq Elements(u)
  BY <1>1, <1>4 DEF Elements
<1>7. Elements(r) \subseteq Elements(u)
  BY <1>1, <1>5 DEF Elements
<1> QED
  BY <1>2, <1>6, <1>7 DEF u

LEMMA CollectKeeps ==
    ASSUME CollectorInv, Collect
    PROVE  CollectorInv'
<1> DEFINE singles == [k \in DOMAIN pending |-> <<pending[k]>>]
           frame == Append(Ascending(held), Null)
           others == <<<<finalizing>>, frame>>
<1>1. /\ pc = "run" /\ pc' = "roots" /\ todo' = singles \o others
      /\ marked' = {} /\ out' = FALSE /\ stacks' = 1
      /\ UNCHANGED <<program, moved>>
      /\ pass' = pass /\ work' = work /\ stack' = stack
  BY DEF Collect, Running
<1>2. TypeOK /\ MarkingTypes
  BY MarkingTypesOf DEF CollectorInv, Consistent
<1>3. work = <<>> /\ stack = <<>>
  BY <1>1 DEF CollectorInv, MarkInv, RunClear, Idle
<1>4. /\ pending \in Seq(Objects) /\ finalizing \in Objects \cup {Null}
      /\ held \in SUBSET Objects
  BY <1>2 DEF TypeOK
<1>5. frame \in Seq(Objects \cup {Null}) /\ held \subseteq ToSet(frame)
  <2>1. PICK s : s = Ascending(held)
    OBVIOUS
  <2>2. s \in Seq(held) /\ ToSet(s) = held
    BY <1>4, <2>1, AscendingFacts
  <2>3. s \in Seq(Objects \cup {Null})
    BY <1>4, <2>2
  <2>4. Append(s, Null) \in Seq(Objects \cup {Null}) /\ ToSet(Append(s, Null)) = ToSet(s) \cup {Null}
    BY <2>3, AppendElements
  <2> QED
    BY <2>1, <2>2, <2>4
<1> HIDE DEF frame
<1>6. singles \in Seq(Seq(Objects \cup {Null})) /\ ToSet(pending) \subseteq Elements(singles)
  <2>1. /\ DOMAIN singles = 1..Len(pending) /\ DOMAIN pending = 1..Len(pending)
        /\ Len(pending) \in Nat
    BY <1>4
  <2>2. \A k \in 1..Len(pending) : /\ singles[k] = <<pending[k]>>
                                   /\ pending[k] \in Objects \cup {Null}
    BY <1>4, <2>1
  <2>3. \A v \in Objects \cup {Null} : <<v>> \in Seq(Objects \cup {Null}) /\ v \in ToSet(<<v>>)
    BY DEF ToSet
  <2> HIDE DEF singles
  <2>4. \A k \in 1..Len(pending) : /\ singles[k] \in Seq(Objects \cup {Null})
                                   /\ pending[k] \in ToSet(singles[k])
    BY <2>2, <2>3
  <2>5. singles = [k \in 1..Len(pending) |-> singles[k]]
    BY <2>1 DEF singles
  <2>6. singles \in Seq(Seq(Objects \cup {Null}))
    BY <2>1, <2>4, <2>5
  <2>7. ToSet(pending) \subseteq Elements(singles)
    BY <2>1, <2>4 DEF Elements, ToSet
  <2> QED
    BY <2>6, <2>7
<1>7. /\ others \in Seq(Seq(Objects \cup {Null}))
      /\ {finalizing} \cup held \subseteq Elements(others)
  <2>1. <<finalizing>> \in Seq(Objects \cup {Null}) /\ finalizing \in ToSet(<<finalizing>>)
    BY <1>4 DEF ToSet
  <2>2. PICK f : f = <<finalizing>>
    OBVIOUS
  <2>3. /\ others = <<f, frame>> /\ DOMAIN others = {1, 2}
        /\ others[1] = f /\ others[2] = frame
        /\ f \in Seq(Objects \cup {Null}) /\ finalizing \in ToSet(f)
    BY <2>1, <2>2
  <2>4. others \in Seq(Seq(Objects \cup {Null}))
    <3>1. \A T : \A a, b \in T : <<a, b>> \in Seq(T)
      OBVIOUS
    <3> QED
      BY <1>5, <2>3, <3>1, Zenon
  <2> HIDE DEF others
  <2>5. {finalizing} \cup held \subseteq Elements(others)
    BY <1>5, <2>3 DEF Elements
  <2> QED
    BY <2>4, <2>5
<1> HIDE DEF singles, others
<1>8. todo' \in Seq(Seq(Objects \cup {Null})) /\ Roots \subseteq Elements(todo')
  <2>1. /\ singles \o others \in Seq(Seq(Objects \cup {Null}))
        /\ Elements(singles) \cup Elements(others) \subseteq Elements(singles \o others)
    BY <1>6, <1>7, ConcatSequences
  <2> QED
    BY <1>1, <1>6, <1>7, <2>1 DEF Roots
<1>9. TypeOK'
  <2>1. stacks' \in 1 .. MaxStacks + 1 /\ Len(stack') <= stacks' * MinimumSpace
    BY <1>1, <1>3, CollectorAssumption
  <2>2. MarkingTypes'
    BY <1>1, <1>2, <1>8, <2>1 DEF MarkingTypes
  <2> QED
    BY <1>1, <1>2, <2>2, TypesKeep
<1>10. Roots' = Roots /\ Elements(todo') \subseteq Owed'
  BY <1>1 DEF program, Roots, Owed
<1>11. MarkInv'
  BY <1>1, <1>8, <1>10 DEF MarkInv, RunClear, RootsOwed, FieldsCovered, SweepReady
<1> QED
  BY <1>1, <1>9, <1>11, MarkingKeeps

-----------------------------------------------------------------------------

LEMMA NextCollector == CollectorInv /\ [Next]_vars => CollectorInv'
<1> SUFFICES ASSUME CollectorInv, [Next]_vars
             PROVE  CollectorInv'
  OBVIOUS
<1>1. CASE Program
  BY <1>1, NewKeeps, StoreKeeps, HandlesKeep, EntriesKeep DEF Program
<1>2. CASE Collect
  BY <1>2, CollectKeeps
<1>3. CASE Collection
  BY <1>3, CheckKeeps, CheckHeapKeeps, TakeFromStackKeeps, TakeFromWorkKeeps, MoreStackKeeps,
     GiveUpKeeps, PassKeeps, FinalizeKeeps, SweepKeeps DEF Collection
<1>4. CASE UNCHANGED vars
  BY <1>4
  DEF CollectorInv, Consistent, TypeOK, NoDangling, OneEntry, FreeClear, MarkInv, RunClear,
      RootsOwed, FieldsCovered, SweepReady, Idle, Roots, Owed, Gray, vars, program, marking
<1> QED
  BY <1>1, <1>2, <1>3, <1>4 DEF Next

(* No collection frees an object that is held, that a field refers to or whose      *)
(* finalizer has to run, however often the mark stack overflows, and no object has   *)
(* two finalizer entries: for every heap, graph of references and mark stack.      *)
THEOREM ConsistentCorrect == Spec => []Consistent
<1>1. Init => CollectorInv
  BY InitCollector
<1>2. CollectorInv /\ [Next]_vars => CollectorInv'
  BY NextCollector
<1>3. CollectorInv => Consistent
  BY DEF CollectorInv
<1> QED
  BY <1>1, <1>2, <1>3, PTL DEF Spec
=============================================================================
