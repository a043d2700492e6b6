--------------------------- MODULE MCDeviceHealth ---------------------------
(***************************************************************************)
(* Instances of DeviceHealth for TLC: one GPU as a whole and one with a    *)
(* static MIG device.                                                      *)
(***************************************************************************)
EXTENDS DeviceHealth

CONSTANTS g1, g2, d1, d2

Parents == [d \in Devices |-> IF d = d1 THEN g1 ELSE g2]
=============================================================================
