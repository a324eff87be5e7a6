------------------------------ MODULE Container ------------------------------
(***************************************************************************)
(* What the collections promise: a queue, a stack, a list and a byte buffer    *)
(* are sequences, which a program sees from different ends.                   *)
(*                                                                          *)
(* A call and its answer are one step.  A call that needs memory may fail, and  *)
(* then leaves everything as it was.                                          *)
(***************************************************************************)
EXTENDS Integers, Sequences, SequencesExt

CONSTANTS
    Values, Null,
    Positions,   \* the positions that programs ask for, from 0
    Blocks,      \* the blocks of bytes that they write
    Capacity     \* of the byte buffer

VARIABLES
    kind,      \* "queue", "stack", "list" or "ring"
    contents,  \* the sequence
    held,      \* the objects that the collection keeps alive
    call       \* the last call: its name and argument, and the answer

Ok == "ok"
Failed == "failed"
NoCall == [op |-> "new", arg |-> 0, answer |-> Ok]
Answers(op, arg, answer) == call' = [op |-> op, arg |-> arg, answer |-> answer]

Becomes(s) == contents' = s /\ held' = ToSet(s) \ {Null} /\ UNCHANGED kind
Stays == UNCHANGED <<kind, contents, held>>

Init ==
    /\ kind \in {"queue", "stack", "list", "ring"}
    /\ contents = <<>> /\ held = {} /\ call = NoCall

-----------------------------------------------------------------------------
(* A queue and a list grow at their ends, a stack at its front.                 *)
Put ==
    \E v \in Values \cup {Null} : \E op \in {"Enqueue", "Add", "Push"} :
        /\ kind = (CASE op = "Enqueue" -> "queue" [] op = "Add" -> "list" [] op = "Push" -> "stack")
        /\ \/ /\ Becomes(IF op = "Push" THEN <<v>> \o contents ELSE Append(contents, v))
              /\ Answers(op, v, Ok)
           \/ Stays /\ Answers(op, v, Failed)

(* A queue and a stack are taken from at their fronts.                          *)
Take ==
    \E op \in {"Dequeue", "Pop"} :
        /\ kind = (IF op = "Pop" THEN "stack" ELSE "queue")
        /\ IF contents = <<>> THEN Stays /\ Answers(op, 0, Failed)
           ELSE Becomes(Tail(contents)) /\ Answers(op, 0, Head(contents))

Peek ==
    /\ kind \in {"queue", "stack"} /\ Stays
    /\ Answers("Peek", 0, IF contents = <<>> THEN Failed ELSE Head(contents))

CopyTo == kind = "queue" /\ Stays /\ Answers("CopyTo", 0, contents)

Clear == kind # "ring" /\ Becomes(<<>>) /\ Answers("Clear", 0, Ok)

-----------------------------------------------------------------------------
(* Positions of a list; a call with one that is not there changes nothing.       *)
At(op, k, there, s, answer) ==
    IF there THEN Becomes(s) /\ Answers(op, k, answer)
    ELSE Stays /\ Answers(op, k, Failed)

Insert ==
    \E k \in Positions, v \in Values \cup {Null} :
        \/ At("Insert", k, k \in 0 .. Len(contents), InsertAt(contents, k + 1, v), Ok)
        \/ Stays /\ Answers("Insert", k, Failed)

Position ==
    \E k \in Positions, v \in Values \cup {Null} :
        LET there == k + 1 \in DOMAIN contents
        IN  \/ At("RemoveAt", k, there, RemoveAt(contents, k + 1), Ok)
            \/ At("SetItem", k, there, [contents EXCEPT ![k + 1] = v], Ok)
            \/ At("GetItem", k, there, contents, contents[k + 1])

SetCapacity ==
    \E n \in Positions, answer \in {Ok, Failed} :
        /\ n < Len(contents) => answer = Failed
        /\ Stays /\ Answers("SetCapacity", n, answer)

List == kind = "list" /\ (Insert \/ Position \/ SetCapacity)

-----------------------------------------------------------------------------
(* The byte buffer takes and returns as much as it has room or contents for.     *)
PushN ==
    \E data \in Blocks :
        LET n == IF Len(data) + Len(contents) > Capacity
                 THEN Capacity - Len(contents) ELSE Len(data)
        IN  Becomes(contents \o SubSeq(data, 1, n)) /\ Answers("PushN", data, n)

PopN ==
    \E k \in Positions \cap Nat :
        LET n == IF k > Len(contents) THEN Len(contents) ELSE k
        IN  /\ Becomes(SubSeq(contents, n + 1, Len(contents)))
            /\ Answers("PopN", k, SubSeq(contents, 1, n))

OptimizeSequence == Stays /\ Answers("OptimizeSequence", 0, Ok)

Ring == kind = "ring" /\ (PushN \/ PopN \/ OptimizeSequence)

Next == Put \/ Take \/ Peek \/ CopyTo \/ Clear \/ List \/ Ring

Spec == Init /\ [][Next]_<<kind, contents, held, call>>
=============================================================================
