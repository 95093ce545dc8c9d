------------------------------- MODULE MCDevices -------------------------------
(***************************************************************************)
(* Two requests of any kind about one device and one item of the supplier. *)
(***************************************************************************)
EXTENDS DeviceLifecycle

MCReq == {"r1", "r2"}
MCDevice == {"device"}
MCItem == {"item"}
MCEditKeys == {{"lat", "type"}, {"active"}}
=============================================================================
