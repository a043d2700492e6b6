------------------------- MODULE MCDomainController -------------------------
(***************************************************************************)
(* The instance of DomainController for TLC.                               *)
(***************************************************************************)
EXTENDS DomainController
=============================================================================
