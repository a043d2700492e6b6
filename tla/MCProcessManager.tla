--------------------------- MODULE MCProcessManager ---------------------------
(***************************************************************************)
(* Instances of ProcessManager for TLC.                                    *)
(***************************************************************************)
EXTENDS ProcessManager

BothModes == {"dns", "ips"}
=============================================================================
