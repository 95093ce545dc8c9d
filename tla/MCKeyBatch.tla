----------------------------- MODULE MCKeyBatch ------------------------------
(***************************************************************************)
(* POST /keys/multi with two requests, and one with no request at all.     *)
(* The first request asks for one or two keys, the second for one; with a  *)
(* limit of two, the largest call is refused.                              *)
(***************************************************************************)
EXTENDS KeyCreation

MCCall  == {"batch", "empty"}
MCJob   == {"j1", "j2"}
MCKey   == {"k1", "k2", "k3"}
MCCallOf == [j \in MCJob |-> "batch"]
MCJobOf  == [k \in MCKey |-> IF k = "k3" THEN "j2" ELSE "j1"]
=============================================================================
