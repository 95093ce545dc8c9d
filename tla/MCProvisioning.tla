---------------------------- MODULE MCProvisioning ----------------------------
(***************************************************************************)
(* Two requests of any kind; the fees of the code and, in the same unit of *)
(* 10^5, the grants of config.ts (default) and of .env.example.            *)
(***************************************************************************)
EXTENDS Provisioning, FiniteSets

MCReq == {"r1", "r2"}
MCAlias == {"alias"}
MCItem == {"item"}
MCConfigurations == {
  [user |-> 10, device |-> 10, salted |-> TRUE],
  [user |-> 100, device |-> 100, salted |-> TRUE],
  [user |-> 100, device |-> 100, salted |-> FALSE]}

(* Two items to rename, of which one at most comes with data, two setups.  *)
Renames == {{"fund", "entry", "script"}, {"fund", "entry", "script", "data"}}
Setups == {{"dappData"}, {"alias", "dappData"}, {"dappScript", "alias", "dappData"}}
MCMayMeet == ({W \in SUBSET Renames : W # {}} \ {{{"fund", "entry", "script", "data"}}})
               \cup {W \in SUBSET Setups : Cardinality(W) \in {1, 2}}
=============================================================================
