----------------------------- MODULE MCScheduler -----------------------------
(***************************************************************************)
(* Scheduler on small instances.                                            *)
(***************************************************************************)
EXTENDS Scheduler, TLC

CONSTANTS t1, t2, t3, s1

TwoThreads == {t1, t2}
ThreeThreads == {t1, t2, t3}
WithSystem == {t1, t2, s1}
JustSystem == {s1}
JustOne == {t2}

(* The one system thread is the finalizer thread, created below Normal.       *)
BelowNormal == [s \in {s1} |-> 0]
NoSystem == << >>
=============================================================================
