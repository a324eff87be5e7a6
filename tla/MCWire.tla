-------------------------------- MODULE MCWire --------------------------------
(***************************************************************************)
(* A header of four bytes and a payload that looks like the other marker.       *)
(***************************************************************************)
EXTENDS Wire, TLC

ASSUME WireAssumption

MarkerBytes == <<"n", "f">>
DebuggerBytes == <<"n", "p">>
RestBytes == <<"s", "z">>
PayloadBytes == <<"n", "p">>
Sizes == "n" :> 0 @@ "f" :> 1 @@ "s" :> 3 @@ "z" :> 2 @@ "p" :> 4 @@ "x" :> 2
=============================================================================
