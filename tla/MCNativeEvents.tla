---------------------------- MODULE MCNativeEvents ----------------------------
(***************************************************************************)
(* Two dispatchers and a ring buffer that a few interrupts fill.               *)
(***************************************************************************)
EXTENDS NativeEvents

CONSTANTS d1, d2

Two == {d1, d2}
=============================================================================
