------------------------------- MODULE MCTimers -------------------------------
(***************************************************************************)
(* Timers on small instances.                                               *)
(***************************************************************************)
EXTENDS Timers, TLC

CONSTANTS t1, t2

TwoTimers == {t1, t2}
(* A single shot, two periods, a timer put off, and a due time out of range     *)
(* with a period and without.                                               *)
AllKinds == {<<1, 0>>, <<0, 1>>, <<1, 2>>, <<Infinite, 0>>, <<-1, 2>>, <<-1, 0>>}
ShotsAndPeriods == {<<0, 0>>, <<0, 1>>, <<Infinite, 1>>}
=============================================================================
