---------------------------- MODULE MCCollections ----------------------------
(* A program that uses one collection or one hash table.                        *)
EXTENDS Collections, Hashtable, TLC

CONSTANTS v1, v2, k1, k2, k3

MCValues == {v1, v2}
MCBlocks == {<<>>, <<v1>>, <<v1, v2>>, <<v2, v1, v1>>, <<v1, v2, v2, v1, v2>>}
MCPositions == -1 .. 5

MCKeys == {k1, k2, k3}
MCHashOf == (k1 :> 1) @@ (k2 :> 8) @@ (k3 :> 8)
MCZeroHash == (k1 :> 0) @@ (k2 :> 0) @@ (k3 :> 3)
MCPrimes == <<3, 7>>

AnyInit == Init /\ TableInit

OneOfThem ==
    \/ request = NoRequest /\ Next /\ UNCHANGED tableVars
    \/ call = NoCall /\ kind = "queue" /\ TableNext /\ UNCHANGED vars

AnySpec == AnyInit /\ [][OneOfThem]_<<vars, tableVars>>
=============================================================================
