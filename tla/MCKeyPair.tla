------------------------------ MODULE MCKeyPair ------------------------------
(***************************************************************************)
(* POST /keys/multi with two requests of one key each.                     *)
(***************************************************************************)
EXTENDS KeyCreation

MCCall  == {"batch"}
MCJob   == {"j1", "j2"}
MCKey   == {"k1", "k2"}
MCCallOf == [j \in MCJob |-> "batch"]
MCJobOf  == [k \in MCKey |-> IF k = "k2" THEN "j2" ELSE "j1"]
=============================================================================
