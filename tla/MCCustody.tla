------------------------------ MODULE MCCustody ------------------------------
(***************************************************************************)
(* Two requests of any kind about one key, of a device and with a user and *)
(* an organisation that may hold it.                                       *)
(***************************************************************************)
EXTENDS KeyCustody

MCReq == {"r1", "r2"}
MCKey == {"key"}
MCDevice == {"device"}
MCOrganisation == {"org"}
MCRecipient == {"user", "org"}
MCDeviceOf == [k \in MCKey |-> "device"]
=============================================================================
