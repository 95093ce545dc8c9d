----------------------------- MODULE MCHandover ------------------------------
(***************************************************************************)
(* A call for one, two or three keys, of which the limit of two refuses    *)
(* the largest, and a call for one key next to it.                         *)
(***************************************************************************)
EXTENDS GenerateAndTransfer

MCCall  == {"c1", "c2"}
MCKey   == {"k1", "k2", "k3", "k4"}
MCCallOf == [k \in MCKey |-> IF k = "k4" THEN "c2" ELSE "c1"]
=============================================================================
