------------------------------ MODULE Hashtable ------------------------------
(***************************************************************************)
(* The hash table of the managed library: an array of buckets, probed by        *)
(* double hashing.  A removed entry leaves its bucket behind, without a key.     *)
(* Every native call is one step; between them other threads may have any.       *)
(***************************************************************************)
EXTENDS Integers, Sequences, FiniteSets, FiniteSetsExt, Functions

CONSTANTS
    Keys,        \* the keys that programs use
    Entries,     \* the values that they store
    NoEntry,     \* NULL
    HashOf,      \* HashOf[k]: the hash code of k
    Primes,      \* s_primes
    LoadPercent, \* the load factor
    Holes        \* whether a key is set again that lies behind an emptied bucket

HashtableAssumption ==
    /\ NoEntry \notin Keys \cup Entries /\ HashOf \in [Keys -> Nat]
    /\ Primes \in Seq(Nat) /\ Primes # <<>> /\ Primes[1] > 1
    /\ \A i, j \in DOMAIN Primes : i < j => Primes[i] < Primes[j]
    /\ LoadPercent \in 1 .. 100 /\ (LoadPercent * Primes[1]) \div 100 < Primes[1]
    /\ Holes \in BOOLEAN

ASSUME HashtableAssumption

VARIABLES
    buckets,  \* _buckets
    count,    \* _count
    bucket,   \* _bucket of the enumerator
    stale,    \* whether its _version differs from that of the table
    request   \* the last call, and its answer

tableVars == <<buckets, count, bucket, stale, request>>

NoBucket == [hash |-> 0, key |-> NoEntry, value |-> NoEntry, made |-> FALSE]
Emptied == [NoBucket EXCEPT !.made = TRUE]
Buckets(n) == [i \in 0 .. n - 1 |-> NoBucket]
Size == Cardinality(DOMAIN buckets)
LoadSize(n) == (LoadPercent * n) \div 100

Done == "done"
Refused == "refused"
Wild == "wild"
NoRequest == [op |-> "new", key |-> NoEntry, answer |-> Done]
Replies(op, key, answer) == request' = [op |-> op, key |-> key, answer |-> answer]

TableInit ==
    /\ buckets = Buckets(Primes[1])
    /\ count = 0 /\ bucket = 0 /\ stale = FALSE /\ request = NoRequest

-----------------------------------------------------------------------------
(* InitHash: the buckets in the order in which hash code h tries n of them.       *)
Increment(h, n) == 1 + ((h * 101) % (n - 1))
Probe(h, n) == [i \in 0 .. n - 1 |-> ((h % n) + i * Increment(h, n)) % n]

(* The first of the buckets in set that h comes to, if any, as a set.             *)
FirstOf(b, h, set) ==
    LET way == Probe(h, Cardinality(DOMAIN b))
        turns == {i \in DOMAIN way : way[i] \in set}
    IN  IF turns = {} THEN {} ELSE {way[Min(turns)]}

\* Variant: the hash codes alone are compared.
FoundByHash(k) ==
    FirstOf(buckets, HashOf[k],
            {i \in DOMAIN buckets : buckets[i].key # NoEntry /\ buckets[i].hash = HashOf[k]})
(* Where Contains and Remove find k.                                           *)
Found(k) ==
    FirstOf(buckets, HashOf[k],
            {i \in DOMAIN buckets : buckets[i].key = k /\ buckets[i].hash = HashOf[k]})

-----------------------------------------------------------------------------
(* Expand: the larger array, with the entries in the order of their buckets.     *)
NewSize ==
    LET large == {i \in DOMAIN Primes : Primes[i] >= 2 * Size}
    IN  IF large = {} THEN 0 ELSE Primes[Min(large)]

Expanded(n) ==
    LET put[i \in -1 .. Size - 1] ==
            IF i = -1 THEN Buckets(n)
            ELSE LET r == buckets[i]
                     free == FirstOf(put[i - 1], r.hash, {j \in 0 .. n - 1 : put[i - 1][j].key = NoEntry})
                 IN  IF r.key = NoEntry THEN put[i - 1]
                     ELSE [j \in DOMAIN put[i - 1] |-> IF j \in free THEN r ELSE put[i - 1][j]]
    IN  put[Size - 1]

(* "this bucket is empty": it was never made, or its entry was removed.           *)
Free(r) == r.key = NoEntry

(* The loop of InsertNative: the first bucket that is empty or has the key.  A     *)
(* bucket that was never made is allocated, if there is memory.                  *)
InsertInto(b, k, v, add, expanded, memory) ==
    LET op == IF add THEN "Add" ELSE "Set"
        there == FirstOf(b, HashOf[k], {i \in DOMAIN b : Free(b[i]) \/ b[i].key = k})
        Refuses == Replies(op, k, Refused) /\ buckets' = b /\ count' = count /\ stale' = (stale \/ expanded)
    IN  IF there = {} THEN Refuses
        ELSE LET i == CHOOSE j \in there : TRUE
                 entry == [hash |-> HashOf[k], key |-> k, value |-> v, made |-> TRUE]
             IN  CASE ~b[i].made /\ ~memory -> Refuses
                   [] b[i].key = k /\ add -> Refuses
                   [] OTHER ->
                        /\ buckets' = [b EXCEPT ![i] =
                                IF Free(@) THEN entry ELSE [@ EXCEPT !.value = v]]
                        /\ count' = IF Free(b[i]) THEN count + 1 ELSE count
                        /\ stale' = TRUE
                        /\ Replies(op, k, Done)

(* Whether key k is in the table, and its way there leads past a bucket that has     *)
(* lost its entry.                                                             *)
BehindEmptied(k) ==
    \E i \in Found(k) :
        FirstOf(buckets, HashOf[k], {i} \cup {j \in DOMAIN buckets : Free(buckets[j])}) # {i}

(* A full table is expanded first.  Either allocation may fail, and an insertion     *)
(* that fails after the table was expanded leaves it expanded.                    *)
InsertNative ==
    /\ \/ /\ count < LoadSize(Size)
          /\ \E k \in {j \in Keys : Holes \/ ~BehindEmptied(j)} :
                \E v \in Entries, add, memory \in BOOLEAN :
                    InsertInto(buckets, k, v, add, FALSE, memory)
       \/ /\ count >= LoadSize(Size)
          /\ \E k \in Keys, op \in {"Add", "Set"} : Replies(op, k, Refused)
          /\ UNCHANGED <<buckets, count, stale>>
       \/ /\ count >= LoadSize(Size) /\ NewSize # 0
          /\ \E larger \in {Expanded(NewSize)} :
                \E k \in Keys, v \in Entries, add, memory \in BOOLEAN :
                    InsertInto(larger, k, v, add, TRUE, memory)
    /\ UNCHANGED bucket

RemoveNative ==
    /\ \E k \in Keys :
        /\ buckets' = [i \in DOMAIN buckets |-> IF i \in Found(k) THEN Emptied ELSE buckets[i]]
        /\ count' = count - Cardinality(Found(k))
        /\ stale' = (stale \/ Found(k) # {})
        /\ Replies("Remove", k, Done)
    /\ UNCHANGED bucket

(* GetNative has no test for a bucket without key: it reads through NULL if that   *)
(* bucket, whose hash is 0, is the first with the hash of the key.                *)
GetNative ==
    /\ \E k \in Keys :
        LET at == FirstOf(buckets, HashOf[k],
                    {i \in DOMAIN buckets : /\ buckets[i].made /\ buckets[i].hash = HashOf[k]
                                            /\ buckets[i].key \in {k, NoEntry}})
        IN  Replies("Get", k,
                IF at = {} THEN NoEntry
                ELSE LET r == buckets[CHOOSE i \in at : TRUE]
                     IN  IF r.key = NoEntry THEN Wild ELSE r.value)
    /\ UNCHANGED <<buckets, count, bucket, stale>>

ContainsNative ==
    /\ \E k \in Keys : Replies("Contains", k, Found(k) # {})
    /\ UNCHANGED <<buckets, count, bucket, stale>>

Clear ==
    /\ buckets' = IF count = 0 THEN buckets
                  ELSE [i \in DOMAIN buckets |-> IF buckets[i].made THEN Emptied ELSE NoBucket]
    /\ count' = 0
    /\ stale' = (stale \/ count # 0)
    /\ Replies("Clear", NoEntry, Done)
    /\ UNCHANGED bucket

(* Properties and the enumerator's constructor, in managed code.                 *)
Count ==
    /\ Replies("Count", NoEntry, count)
    /\ UNCHANGED <<buckets, count, bucket, stale>>

GetEnumerator ==
    /\ bucket' = Size /\ stale' = FALSE
    /\ Replies("GetEnumerator", NoEntry, Done)
    /\ UNCHANGED <<buckets, count>>

(* HashtableEnumerator.MoveNext goes from the last bucket to the first.           *)
MoveNext ==
    /\ LET ahead == {i \in 0 .. bucket - 1 : buckets[i].key # NoEntry}
       IN  CASE stale -> Replies("MoveNext", NoEntry, Refused) /\ bucket' = bucket
             [] ~stale /\ ahead = {} -> Replies("MoveNext", NoEntry, FALSE) /\ bucket' = 0
             [] OTHER -> /\ bucket' = Max(ahead)
                         /\ Replies("MoveNext", buckets[Max(ahead)].key, buckets[Max(ahead)].value)
    /\ UNCHANGED <<buckets, count, stale>>

TableNext ==
    \/ InsertNative \/ RemoveNative \/ GetNative \/ ContainsNative
    \/ Clear \/ Count \/ GetEnumerator \/ MoveNext

TableSpec == TableInit /\ [][TableNext]_tableVars

-----------------------------------------------------------------------------
KeysIn(set) == {buckets[i].key : i \in set} \ {NoEntry}

Contract == INSTANCE Map WITH
    map <- [k \in KeysIn(DOMAIN buckets) |->
               (CHOOSE r \in Range(buckets) : r.key = k).value],
    unseen <- IF stale THEN {} ELSE KeysIn(0 .. bucket - 1)

(* The hash table is a map, whatever collisions, growth and removed entries        *)
(* there are in its buckets: what was set is found with its last value, a key       *)
(* is in it once, a call that fails changes nothing, and an enumerator comes to    *)
(* each entry once or reports that the table has changed                          *)
(* (nf_system_collections_System_Collections_Hashtable.cpp).                      *)
IsMap == Contract!Spec
=============================================================================
