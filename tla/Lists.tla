--------------------------------- MODULE Lists ---------------------------------
(***************************************************************************)
(* The doubly linked lists of the runtime: CLR_RT_DblLinkedList of            *)
(* CLR_RT_HeapBlock_Nodes, as the sequence of its nodes.  A node carries its    *)
(* own links, so that it is unlinked from wherever it is before it is linked    *)
(* anywhere.                                                                *)
(***************************************************************************)
EXTENDS Integers, Sequences, SequencesExt

\* Variant: a node is linked again without being unlinked.
LeaveLinked(q, x) == q
Unlink(q, x) ==
    IF Contains(q, x)
    THEN RemoveAt(q, CHOOSE k \in DOMAIN q : q[k] = x)
    ELSE q

LinkAtBack(q, x) == Append(Unlink(q, x), x)
=============================================================================
