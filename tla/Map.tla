-------------------------------- MODULE Map --------------------------------
(***************************************************************************)
(* What a hash table promises: a finite function from keys to values, and an   *)
(* enumerator that visits every entry once, as long as the table stays as it    *)
(* was when the enumerator was made.  Hashtable implements this module.          *)
(***************************************************************************)
EXTENDS Integers, FiniteSets, Functions

CONSTANTS Keys, Entries, NoEntry

VARIABLES
    map,      \* the function
    unseen,   \* the keys that the enumerator has not visited
    stale,    \* the table is no longer the one that it enumerates
    request   \* the last call and its answer

Done == "done"
Refused == "refused"
NoRequest == [op |-> "new", key |-> NoEntry, answer |-> Done]
Replies(op, key, answer) == request' = [op |-> op, key |-> key, answer |-> answer]

Init ==
    /\ map = [k \in {} |-> NoEntry]
    /\ unseen = {} /\ stale = FALSE /\ request = NoRequest

Has(k) == k \in DOMAIN map

(* A change of the table ends the enumeration.                                *)
Ends(b) == stale' = b /\ unseen' = IF b THEN {} ELSE unseen

(* Insertion may fail for want of memory, or because the table cannot grow; it    *)
(* may end an enumeration even then.                                          *)
Insert ==
    \E k \in Keys, add \in BOOLEAN :
        LET op == IF add THEN "Add" ELSE "Set"
        IN  \/ /\ Replies(op, k, Done)
               /\ add => ~Has(k)
               /\ \E v \in Entries :
                    map' = [j \in DOMAIN map \cup {k} |-> IF j = k THEN v ELSE map[j]]
               /\ Ends(TRUE)
            \/ /\ Replies(op, k, Refused)
               /\ map' = map /\ \E b \in {stale, TRUE} : Ends(b)

Remove ==
    \E k \in Keys :
        /\ Replies("Remove", k, Done)
        /\ map' = Restrict(map, DOMAIN map \ {k})
        /\ Ends(stale \/ Has(k))

Get ==
    \E k \in Keys :
        /\ \/ Replies("Get", k, IF Has(k) THEN map[k] ELSE NoEntry)
           \/ Replies("Contains", k, Has(k))
        /\ UNCHANGED <<map, unseen, stale>>

Clear ==
    /\ Replies("Clear", NoEntry, Done)
    /\ map' = [k \in {} |-> NoEntry]
    /\ Ends(stale \/ map # map')

Count == Replies("Count", NoEntry, Cardinality(DOMAIN map)) /\ UNCHANGED <<map, unseen, stale>>

GetEnumerator ==
    /\ Replies("GetEnumerator", NoEntry, Done)
    /\ unseen' = DOMAIN map /\ stale' = FALSE /\ map' = map

(* An enumerator of a table that has changed is refused; another goes to an entry   *)
(* it has not visited, or is at the end.                                       *)
MoveNext ==
    /\ UNCHANGED stale
    /\ \/ stale /\ Replies("MoveNext", NoEntry, Refused) /\ UNCHANGED unseen
       \/ ~stale /\ unseen = {} /\ Replies("MoveNext", NoEntry, FALSE) /\ UNCHANGED unseen
       \/ ~stale /\ \E k \in unseen :
                        Replies("MoveNext", k, map[k]) /\ unseen' = unseen \ {k}
    /\ UNCHANGED map

Next == Insert \/ Remove \/ Get \/ Clear \/ Count \/ GetEnumerator \/ MoveNext

Spec == Init /\ [][Next]_<<map, unseen, stale, request>>
=============================================================================
