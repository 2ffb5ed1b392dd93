------------------------ MODULE MCServerStartHistory ------------------------
(***************************************************************************)
(* Instances of ServerStartHistory for TLC.                                *)
(***************************************************************************)
EXTENDS ServerStartHistory, TLC
=============================================================================
