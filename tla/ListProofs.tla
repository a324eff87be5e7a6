------------------------------ MODULE ListProofs ------------------------------
(***************************************************************************)
(* What unlinking, inserting and appending do to a list in which every node    *)
(* occurs once: its nodes, and their order.                                   *)
(***************************************************************************)
EXTENDS Lists, WellFoundedInduction, TLAPS

(* a is in front of b.                                                       *)
Before(q, a, b) == \E i, j \in 1..Len(q) : i < j /\ q[i] = a /\ q[j] = b

-----------------------------------------------------------------------------
(* A set of numbers that is not empty has a least element.                    *)
LEMMA LeastNumber ==
    ASSUME NEW T \in SUBSET Nat, T # {}
    PROVE  \E m \in T : \A k \in T : m <= k
<1> DEFINE less == OpToRel(<, Nat)
<1>1. IsWellFoundedOn(less, Nat)
  BY NatLessThanWellFounded
<1>2. \A x, y \in Nat : <<y, x>> \in less <=> y < x
  BY DEF OpToRel
<1> HIDE DEF less
<1>3. \E x \in T : \A y \in T : ~(<<y, x>> \in less)
  BY <1>1, WFMin, Zenon
<1>4. PICK m \in T : \A y \in T : ~(<<y, m>> \in less)
  BY <1>3
<1>5. ASSUME NEW k \in T
      PROVE  m <= k
  <2>1. m \in Nat /\ k \in Nat
    OBVIOUS
  <2>2. ~(k < m)
    BY <1>2, <1>4, <2>1, Zenon
  <2> QED
    BY <2>1, <2>2
<1> QED
  BY <1>5

-----------------------------------------------------------------------------
(* RemoveAt and InsertAt by position.                                         *)

LEMMA RemoveAtPositions ==
    ASSUME NEW S, NEW q \in Seq(S), NEW k \in 1..Len(q)
    PROVE  /\ RemoveAt(q, k) \in Seq(S)
           /\ Len(RemoveAt(q, k)) = Len(q) - 1
           /\ \A j \in 1..(Len(q) - 1) : RemoveAt(q, k)[j] = IF j < k THEN q[j] ELSE q[j + 1]
<1> DEFINE a == SubSeq(q, 1, k - 1)
           b == SubSeq(q, k + 1, Len(q))
<1>1. a \in Seq(S) /\ Len(a) = k - 1 /\ \A j \in 1..(k - 1) : a[j] = q[j]
  OBVIOUS
<1>2. b \in Seq(S) /\ Len(b) = Len(q) - k /\ \A j \in 1..(Len(q) - k) : b[j] = q[k + j]
  OBVIOUS
<1>3. RemoveAt(q, k) = a \o b
  BY DEF RemoveAt
<1> HIDE DEF a, b
<1>4. RemoveAt(q, k) \in Seq(S) /\ Len(RemoveAt(q, k)) = Len(q) - 1
  BY <1>1, <1>2, <1>3
<1>5. ASSUME NEW j \in 1..(Len(q) - 1)
      PROVE  RemoveAt(q, k)[j] = IF j < k THEN q[j] ELSE q[j + 1]
  <2>1. CASE j < k
    BY <1>1, <1>2, <1>3, <2>1
  <2>2. CASE j >= k
    <3>1. (a \o b)[j] = b[j - (k - 1)]
      BY <1>1, <1>2, <2>2
    <3>2. j - (k - 1) \in 1..(Len(q) - k) /\ k + (j - (k - 1)) = j + 1
      BY <2>2
    <3> QED
      BY <1>2, <1>3, <2>2, <3>1, <3>2
  <2> QED
    BY <2>1, <2>2
<1> QED
  BY <1>4, <1>5

LEMMA InsertAtPositions ==
    ASSUME NEW S, NEW q \in Seq(S), NEW k \in 1..(Len(q) + 1), NEW x \in S
    PROVE  /\ InsertAt(q, k, x) \in Seq(S)
           /\ Len(InsertAt(q, k, x)) = Len(q) + 1
           /\ \A j \in 1..(Len(q) + 1) : /\ j < k => InsertAt(q, k, x)[j] = q[j]
                                         /\ j = k => InsertAt(q, k, x)[j] = x
                                         /\ j > k => InsertAt(q, k, x)[j] = q[j - 1]
<1> DEFINE a == SubSeq(q, 1, k - 1)
           b == SubSeq(q, k, Len(q))
           c == a \o <<x>>
<1>1. a \in Seq(S) /\ Len(a) = k - 1 /\ \A j \in 1..(k - 1) : a[j] = q[j]
  OBVIOUS
<1>2. b \in Seq(S) /\ Len(b) = Len(q) + 1 - k /\ \A j \in 1..(Len(q) + 1 - k) : b[j] = q[k + j - 1]
  OBVIOUS
<1>3. InsertAt(q, k, x) = c \o b
  BY DEF InsertAt
<1> HIDE DEF a, b
<1>4. c \in Seq(S) /\ Len(c) = k /\ c[k] = x /\ \A j \in 1..(k - 1) : c[j] = q[j]
  BY <1>1
<1> HIDE DEF c
<1>5. InsertAt(q, k, x) \in Seq(S) /\ Len(InsertAt(q, k, x)) = Len(q) + 1
  <2>1. c \in Seq(S) /\ b \in Seq(S)
    BY <1>2, <1>4
  <2>2. c \o b \in Seq(S) /\ Len(c \o b) = Len(c) + Len(b)
    BY <2>1
  <2>3. Len(c) = k /\ Len(b) = Len(q) + 1 - k /\ Len(q) \in Nat
    BY <1>2, <1>4
  <2> QED
    BY <1>3, <2>2, <2>3
<1>6. ASSUME NEW j \in 1..(Len(q) + 1)
      PROVE  /\ j < k => InsertAt(q, k, x)[j] = q[j]
             /\ j = k => InsertAt(q, k, x)[j] = x
             /\ j > k => InsertAt(q, k, x)[j] = q[j - 1]
  <2>1. CASE j <= k
    BY <1>2, <1>3, <1>4, <2>1
  <2>2. CASE j > k
    <3>1. (c \o b)[j] = b[j - k]
      BY <1>2, <1>4, <2>2
    <3>2. j - k \in 1..(Len(q) + 1 - k) /\ k + (j - k) - 1 = j - 1
      BY <2>2
    <3> QED
      BY <1>2, <1>3, <2>2, <3>1, <3>2
  <2> QED
    BY <2>1, <2>2
<1> QED
  BY <1>5, <1>6

(* Unlinking a node keeps the type of a list, whatever else it holds.           *)
LEMMA UnlinkType ==
    ASSUME NEW S, NEW q \in Seq(S), NEW x
    PROVE  Unlink(q, x) \in Seq(S)
<1>1. CASE Contains(q, x)
  <2> DEFINE k == CHOOSE k \in DOMAIN q : q[k] = x
  <2>1. k \in 1..Len(q)
    BY <1>1 DEF Contains
  <2>2. Unlink(q, x) = RemoveAt(q, k)
    BY <1>1 DEF Unlink
  <2> HIDE DEF k
  <2> QED
    BY <2>1, <2>2, RemoveAtPositions
<1>2. CASE ~Contains(q, x)
  BY <1>2 DEF Unlink
<1> QED
  BY <1>1, <1>2

-----------------------------------------------------------------------------
(* Lists in which every node occurs once.                                     *)

(* Removing the node at position k keeps the others, in their order.           *)
LEMMA RemoveAtFacts ==
    ASSUME NEW S, NEW q \in Seq(S), IsInjective(q), NEW k \in 1..Len(q)
    PROVE  /\ RemoveAt(q, k) \in Seq(S)
           /\ IsInjective(RemoveAt(q, k))
           /\ \A y : Contains(RemoveAt(q, k), y) <=> Contains(q, y) /\ y # q[k]
           /\ \A y, z : Before(RemoveAt(q, k), y, z) <=> Before(q, y, z) /\ y # q[k] /\ z # q[k]
<1> DEFINE r == RemoveAt(q, k)
           from(j) == IF j < k THEN j ELSE j + 1
           to(j) == IF j < k THEN j ELSE j - 1
<1>1. r \in Seq(S) /\ Len(r) = Len(q) - 1
  BY RemoveAtPositions
<1>2. \A j \in 1..Len(r) : /\ from(j) \in 1..Len(q) /\ from(j) # k
                           /\ r[j] = q[from(j)]
  <2>1. \A j \in 1..(Len(q) - 1) : r[j] = IF j < k THEN q[j] ELSE q[j + 1]
    BY RemoveAtPositions
  <2> HIDE DEF r
  <2> QED
    BY <1>1, <2>1
<1>3. \A j \in 1..Len(q) : j # k => to(j) \in 1..Len(r) /\ r[to(j)] = q[j]
  <2> SUFFICES ASSUME NEW j \in 1..Len(q), j # k
               PROVE  to(j) \in 1..Len(r) /\ r[to(j)] = q[j]
    OBVIOUS
  <2>1. to(j) \in 1..Len(r) /\ from(to(j)) = j
    BY <1>1
  <2> QED
    BY <1>2, <2>1
<1>4. \A i, j \in 1..Len(r) : i < j <=> from(i) < from(j)
  BY <1>1
<1>5. \A i, j \in 1..Len(q) : i # k /\ j # k /\ i < j => to(i) < to(j)
  OBVIOUS
<1>6. \A i, j \in 1..Len(q) : q[i] = q[j] => i = j
  BY DEF IsInjective
<1>7. DOMAIN r = 1..Len(r)
  BY <1>1
<1> HIDE DEF r, from, to
<1>8. IsInjective(r)
  <2> SUFFICES ASSUME NEW i \in 1..Len(r), NEW j \in 1..Len(r), r[i] = r[j]
               PROVE  i = j
    BY <1>7 DEF IsInjective
  <2>1. from(i) = from(j)
    BY <1>2, <1>6
  <2>2. i \in Int /\ j \in Int /\ from(i) \in Int /\ from(j) \in Int
    BY <1>2
  <2>3. ~(i < j) /\ ~(j < i)
    BY <1>4, <2>1, <2>2
  <2> QED
    BY <2>2, <2>3
<1>9. ASSUME NEW y
      PROVE  Contains(r, y) <=> Contains(q, y) /\ y # q[k]
  <2>1. ASSUME Contains(r, y)
        PROVE  Contains(q, y) /\ y # q[k]
    BY <1>2, <1>6, <2>1 DEF Contains
  <2>2. ASSUME Contains(q, y), y # q[k]
        PROVE  Contains(r, y)
    BY <1>3, <2>2 DEF Contains
  <2> QED
    BY <2>1, <2>2
<1>10. ASSUME NEW y, NEW z
       PROVE  Before(r, y, z) <=> Before(q, y, z) /\ y # q[k] /\ z # q[k]
  <2>1. ASSUME Before(r, y, z)
        PROVE  Before(q, y, z) /\ y # q[k] /\ z # q[k]
    BY <1>2, <1>4, <1>6, <2>1 DEF Before
  <2>2. ASSUME Before(q, y, z), y # q[k], z # q[k]
        PROVE  Before(r, y, z)
    BY <1>3, <1>5, <2>2 DEF Before
  <2> QED
    BY <2>1, <2>2
<1> QED
  BY <1>1, <1>8, <1>9, <1>10 DEF r

LEMMA UnlinkFacts ==
    ASSUME NEW S, NEW q \in Seq(S), IsInjective(q), NEW x
    PROVE  /\ Unlink(q, x) \in Seq(S)
           /\ IsInjective(Unlink(q, x))
           /\ \A y : Contains(Unlink(q, x), y) <=> Contains(q, y) /\ y # x
           /\ \A y, z : Before(Unlink(q, x), y, z) <=> Before(q, y, z) /\ y # x /\ z # x
<1>1. CASE Contains(q, x)
  <2> DEFINE k == CHOOSE k \in DOMAIN q : q[k] = x
  <2>1. k \in 1..Len(q) /\ q[k] = x
    BY <1>1 DEF Contains
  <2>2. Unlink(q, x) = RemoveAt(q, k)
    BY <1>1 DEF Unlink
  <2> HIDE DEF k
  <2> QED
    BY <2>1, <2>2, RemoveAtFacts
<1>2. CASE ~Contains(q, x)
  BY <1>2 DEF Unlink, Contains, Before
<1> QED
  BY <1>1, <1>2

(* A node linked at the back comes after all the others.                       *)
LEMMA AppendFacts ==
    ASSUME NEW S, NEW q \in Seq(S), IsInjective(q), NEW x \in S, ~Contains(q, x)
    PROVE  /\ Append(q, x) \in Seq(S)
           /\ IsInjective(Append(q, x))
           /\ \A y : Contains(Append(q, x), y) <=> Contains(q, y) \/ y = x
           /\ \A y, z : Before(Append(q, x), y, z) <=>
                            Before(q, y, z) \/ (Contains(q, y) /\ z = x)
<1> DEFINE r == Append(q, x)
<1>1. r \in Seq(S) /\ Len(r) = Len(q) + 1 /\ DOMAIN r = 1..Len(r)
  OBVIOUS
<1>2. (\A j \in 1..Len(q) : r[j] = q[j] /\ r[j] # x) /\ r[Len(q) + 1] = x
  BY DEF Contains
<1>3. \A i, j \in 1..Len(q) : q[i] = q[j] => i = j
  BY DEF IsInjective
<1>4. Len(q) \in Nat
  OBVIOUS
<1>5. 1..Len(r) = (1..Len(q)) \cup {Len(q) + 1}
  BY <1>1, <1>4
<1> HIDE DEF r
<1>6. IsInjective(r)
  BY <1>1, <1>2, <1>3, <1>5 DEF IsInjective
<1>7. \A y : Contains(r, y) <=> Contains(q, y) \/ y = x
  BY <1>2, <1>5 DEF Contains
<1>8. ASSUME NEW y, NEW z
      PROVE  Before(r, y, z) <=> Before(q, y, z) \/ (Contains(q, y) /\ z = x)
  <2>1. ASSUME Before(r, y, z)
        PROVE  Before(q, y, z) \/ (Contains(q, y) /\ z = x)
    <3>1. PICK i, j \in 1..Len(r) : i < j /\ r[i] = y /\ r[j] = z
      BY <2>1 DEF Before
    <3>2. i \in 1..Len(q)
      BY <1>1, <1>4, <3>1
    <3> QED
      BY <1>2, <1>5, <3>1, <3>2 DEF Before, Contains
  <2>2. ASSUME Before(q, y, z)
        PROVE  Before(r, y, z)
    BY <1>2, <1>5, <2>2 DEF Before
  <2>3. ASSUME Contains(q, y), z = x
        PROVE  Before(r, y, z)
    BY <1>2, <1>4, <1>5, <2>3 DEF Before, Contains
  <2> QED
    BY <2>1, <2>2, <2>3
<1> QED
  BY <1>1, <1>6, <1>7, <1>8 DEF r

(* A node inserted anywhere leaves the others as they are.                     *)
LEMMA InsertAtFacts ==
    ASSUME NEW S, NEW q \in Seq(S), IsInjective(q), NEW x \in S, ~Contains(q, x),
           NEW k \in 1..(Len(q) + 1)
    PROVE  /\ InsertAt(q, k, x) \in Seq(S)
           /\ IsInjective(InsertAt(q, k, x))
           /\ \A y : Contains(InsertAt(q, k, x), y) <=> Contains(q, y) \/ y = x
<1>0. /\ InsertAt(q, k, x) \in Seq(S) /\ Len(InsertAt(q, k, x)) = Len(q) + 1
      /\ \A j \in 1..(Len(q) + 1) : /\ j < k => InsertAt(q, k, x)[j] = q[j]
                                    /\ j = k => InsertAt(q, k, x)[j] = x
                                    /\ j > k => InsertAt(q, k, x)[j] = q[j - 1]
  BY InsertAtPositions, SMTT(30)
<1> DEFINE r == InsertAt(q, k, x)
           from(j) == IF j < k THEN j ELSE j - 1
           to(j) == IF j < k THEN j ELSE j + 1
<1>1. r \in Seq(S) /\ Len(r) = Len(q) + 1
  BY <1>0
<1>2. \A j \in 1..(Len(q) + 1) : /\ j < k => r[j] = q[j]
                                 /\ j = k => r[j] = x
                                 /\ j > k => r[j] = q[j - 1]
  BY <1>0
<1>3. DOMAIN r = 1..Len(r)
  BY <1>1
<1> HIDE DEF r
<1>4. r[k] = x /\ k \in 1..Len(r)
  BY <1>1, <1>2
<1>5. \A j \in 1..Len(r) : j # k => from(j) \in 1..Len(q) /\ r[j] = q[from(j)]
  BY <1>1, <1>2
<1>6. \A j \in 1..Len(q) : to(j) \in 1..Len(r) /\ r[to(j)] = q[j]
  BY <1>1, <1>2
<1>7. \A i, j \in 1..Len(r) : i # k /\ j # k /\ from(i) = from(j) => i = j
  BY <1>1
<1>8. \A i, j \in 1..Len(q) : q[i] = q[j] => i = j
  BY DEF IsInjective
<1>9. \A j \in 1..Len(q) : q[j] # x
  BY DEF Contains
<1> HIDE DEF from, to
<1>10. IsInjective(r)
  BY <1>3, <1>4, <1>5, <1>7, <1>8, <1>9 DEF IsInjective
<1>11. \A y : Contains(r, y) => Contains(q, y) \/ y = x
  BY <1>4, <1>5 DEF Contains
<1>12. \A y : Contains(q, y) \/ y = x => Contains(r, y)
  BY <1>4, <1>6 DEF Contains
<1> QED
  BY <1>1, <1>10, <1>11, <1>12 DEF r

LEMMA LinkAtBackFacts ==
    ASSUME NEW S, NEW q \in Seq(S), IsInjective(q), NEW x \in S
    PROVE  /\ LinkAtBack(q, x) \in Seq(S)
           /\ IsInjective(LinkAtBack(q, x))
           /\ \A y : Contains(LinkAtBack(q, x), y) <=> Contains(q, y) \/ y = x
           /\ \A y, z : Before(LinkAtBack(q, x), y, z) <=>
                            \/ Before(q, y, z) /\ y # x /\ z # x
                            \/ Contains(q, y) /\ y # x /\ z = x
<1>1. /\ Unlink(q, x) \in Seq(S) /\ IsInjective(Unlink(q, x)) /\ ~Contains(Unlink(q, x), x)
      /\ \A y : Contains(Unlink(q, x), y) <=> Contains(q, y) /\ y # x
      /\ \A y, z : Before(Unlink(q, x), y, z) <=> Before(q, y, z) /\ y # x /\ z # x
  BY UnlinkFacts
<1> DEFINE u == Unlink(q, x)
<1> HIDE DEF u
<1>2. /\ u \in Seq(S) /\ IsInjective(u) /\ ~Contains(u, x)
      /\ \A y : Contains(u, y) <=> Contains(q, y) /\ y # x
      /\ \A y, z : Before(u, y, z) <=> Before(q, y, z) /\ y # x /\ z # x
  BY <1>1 DEF u
<1>3. LinkAtBack(q, x) = Append(u, x)
  BY DEF LinkAtBack, u
<1>4. /\ Append(u, x) \in Seq(S)
      /\ IsInjective(Append(u, x))
      /\ \A y : Contains(Append(u, x), y) <=> Contains(u, y) \/ y = x
      /\ \A y, z : Before(Append(u, x), y, z) <=> Before(u, y, z) \/ (Contains(u, y) /\ z = x)
  BY <1>2, AppendFacts
<1> QED
  BY <1>2, <1>3, <1>4
=============================================================================
