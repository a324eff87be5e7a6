----------------------------- MODULE MCCollector -----------------------------
(***************************************************************************)
(* The collector on three objects; a mark stack that holds one element, and   *)
(* room for one more.                                                        *)
(***************************************************************************)
EXTENDS Collector

FieldsOf == <<2, 2, 0>>
=============================================================================
