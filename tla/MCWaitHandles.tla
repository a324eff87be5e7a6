----------------------------- MODULE MCWaitHandles -----------------------------
(***************************************************************************)
(* WaitHandles on small instances.                                          *)
(***************************************************************************)
EXTENDS WaitHandles, TLC

CONSTANTS t1, t2, t3, a, m

ThreeThreads == {t1, t2, t3}
OneSuspendable == {t1}
TwoSuspendable == {t1, t2}
OneAuto == {a}
OneManual == {m}
SingleAndPair == {<<a>>, <<m, a>>}
Singles == {<<a>>, <<m>>}
=============================================================================
