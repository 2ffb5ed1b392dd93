------------------------------- MODULE MCMcPing -------------------------------
(***************************************************************************)
(* Instances of McPing for TLC: integers of 5 bits in groups of 2, so that *)
(* a VarInt has up to 3 bytes, the last with one bit that counts, just as  *)
(* 32 bits in groups of 7 have up to 5, the last with 4.                   *)
(***************************************************************************)
EXTENDS McPing, TLC
=============================================================================
