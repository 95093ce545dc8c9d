------------------------------ MODULE MCAdmins ------------------------------
(***************************************************************************)
(* Two requests on the table an earlier run has left: one account or      *)
(* none.  Startup gives one more id, and each request either takes one or  *)
(* frees the root email so that the next startup takes one: four in all.   *)
(***************************************************************************)
EXTENDS AdminAccounts

MCReq   == {"r1", "r2"}
MCEmail == {"root", "other"}
MCMaxId == 4
=============================================================================
