------------------------------- MODULE MCDevices -------------------------------
(* DevicePairing for TLC: Devices.cfg names the goroutines and the devices. *)
EXTENDS DevicePairing
================================================================================
