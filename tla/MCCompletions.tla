---------------------------- MODULE MCCompletions ----------------------------
(***************************************************************************)
(* Three completions, one of which enqueues itself again when it has run.      *)
(***************************************************************************)
EXTENDS Completions

CONSTANTS c1, c2, c3

ASSUME CompletionsAssumption

Three == {c1, c2, c3}
Periodic == c1 :> 2 @@ c2 :> 0 @@ c3 :> 0
Once == [c \in Three |-> 0]
Just1 == {c1}
=============================================================================
