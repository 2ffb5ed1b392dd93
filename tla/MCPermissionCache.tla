-------------------------- MODULE MCPermissionCache --------------------------
(***************************************************************************)
(* Instances of PermissionCache for TLC.                                   *)
(***************************************************************************)
EXTENDS PermissionCache, TLC
=============================================================================
