------------------------------ MODULE MCCommands ------------------------------
(***************************************************************************)
(* One request - requests share nothing but the chain - and four blocks.   *)
(* Two facts at most are missing, each before the request or from the      *)
(* first block after it on; a key does not become valid again.             *)
(***************************************************************************)
EXTENDS DeviceCommands

MCReq == {"r"}
Blocks == 1 .. 4
Gaps(f) == {{}, 3 .. 4} \cup (IF f = "valid" THEN {1 .. 4} ELSE {1 .. 2})
Without(f, H, g, I) == [h \in Blocks |-> {x \in Facts : ~(x = f /\ h \in H) /\ ~(x = g /\ h \in I)}]
MCHistories ==
  UNION {{Without(f, H, g, I) : H \in Gaps(f), I \in Gaps(g)} : f, g \in Facts}
=============================================================================
