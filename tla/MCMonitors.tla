----------------------------- MODULE MCMonitors -----------------------------
(***************************************************************************)
(* Monitors on small instances.                                             *)
(***************************************************************************)
EXTENDS Monitors, TLC

CONSTANTS t1, t2, t3, s1, o1, o2

TwoThreads == {t1, t2}
ThreeThreads == {t1, t2, t3}
WithSystem == {t1, t2, s1}
JustSystem == {s1}
OneObject == {o1}
TwoObjects == {o1, o2}
=============================================================================
