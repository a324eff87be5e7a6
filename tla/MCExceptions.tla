----------------------------- MODULE MCExceptions -----------------------------
(***************************************************************************)
(* Exceptions on small programs.                                            *)
(***************************************************************************)
EXTENDS Exceptions

CONSTANTS e1, e2

ASSUME ExceptionsAssumption

Catch(try, handler, types) ==
    [kind |-> "catch", try |-> try, filter |-> {}, handler |-> handler, types |-> types]
Finally(try, handler) ==
    [kind |-> "finally", try |-> try, filter |-> {}, handler |-> handler, types |-> {}]
Filter(try, filter, handler) ==
    [kind |-> "filter", try |-> try, filter |-> filter, handler |-> handler, types |-> {}]

TwoExceptions == {e1, e2}

(* main:  1; try { try { try { 2: work() } catch (e1, abort) { 3: leaf() } }    *)
(*        finally { 4: leaf() } } finally { 5 } 6                            *)
(* work:  1; try { 2; try { 3: leaf() } finally { 4: leaf() } }                *)
(*        when { 5: leaf() } { 6; try { 7: leaf() } catch (e2) { 8 } 9 } 10    *)
(* leaf:  1                                                                 *)
LayeredSize == [main |-> 6, work |-> 10, leaf |-> 1]
LayeredClauses ==
    [main |-> <<Catch({2}, {3}, {e1, ThreadAbort}), Finally({2, 3}, {4}),
                Finally({2, 3, 4}, {5})>>,
     work |-> <<Finally({3}, {4}), Catch({7}, {8}, {e2}),
                Filter({2, 3, 4}, {5}, {6, 7, 8, 9})>>,
     leaf |-> <<>>]
LayeredCalls ==
    [main |-> {<<2, "work">>, <<3, "leaf">>, <<4, "leaf">>},
     work |-> {<<3, "leaf">>, <<4, "leaf">>, <<5, "leaf">>, <<7, "leaf">>},
     leaf |-> {}]

(* main:   1; try { 2 } finally { 3: guard() } 4                               *)
(* guard:  1; try { 2 } catch (e1) { 3 } 4                                    *)
GuardedSize == [main |-> 4, guard |-> 4]
GuardedClauses ==
    [main |-> <<Finally({2}, {3})>>, guard |-> <<Catch({2}, {3}, {e1})>>]
GuardedCalls == [main |-> {<<3, "guard">>}, guard |-> {}]

(* main:  1; try { 2 } when { 3 } { 4 } catch (e2) { 5 } 6                      *)
SiblingSize == [main |-> 6]
SiblingClauses == [main |-> <<Filter({2}, {3}, {4}), Catch({2}, {5}, {e2})>>]
SiblingCalls == [main |-> {}]

mainMethod == "main"
=============================================================================
