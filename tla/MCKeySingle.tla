----------------------------- MODULE MCKeySingle -----------------------------
(***************************************************************************)
(* POST /keys for one or two keys, within the limit.                       *)
(***************************************************************************)
EXTENDS KeyCreation

MCCall  == {"single"}
MCMulti == {}
MCJob   == {"j1"}
MCKey   == {"k1", "k2"}
MCCallOf == [j \in MCJob |-> "single"]
MCJobOf  == [k \in MCKey |-> "j1"]
=============================================================================
