---------------------------- MODULE MCHeapCluster ----------------------------
(***************************************************************************)
(* Two clusters of five and two blocks; a large object fills the smaller one,  *)
(* and no event fits in it.                                                   *)
(***************************************************************************)
EXTENDS HeapCluster

ASSUME HeapAssumption

TwoClusters == <<<<1, 6>>, <<7, 9>>>>
Sizes == <<1, 1, 2>>
=============================================================================
