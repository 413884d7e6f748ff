---------------------------- MODULE MCDeviceHub ----------------------------
(* Instances of DeviceHub for TLC. *)
EXTENDS DeviceHub, TLC

\* Connections are alike, and so are devices.
Alike == Permutations(Conn) \cup Permutations(Dev)
============================================================================
