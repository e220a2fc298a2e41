----------------------------- MODULE MCDevices -----------------------------
(***************************************************************************)
(* Model-checking Devices: every two of the devices.                       *)
(***************************************************************************)
EXTENDS Devices

AllKinds == {"server", "client", "udp", "fio", "mfio", "stdio", "ttt"}
=============================================================================
