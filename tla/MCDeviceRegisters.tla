------------------------- MODULE MCDeviceRegisters -------------------------
(***************************************************************************)
(* DeviceRegisters with two processes, for TLC: all the devices, and the   *)
(* transmission error, 4, or no failure.                                   *)
(***************************************************************************)
EXTENDS DeviceRegisters
==============================================================================
