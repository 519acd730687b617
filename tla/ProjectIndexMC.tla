---------------------------- MODULE ProjectIndexMC ----------------------------
(* TLC instances of ProjectIndex.                                          *)
EXTENDS ProjectIndex, TLC
=============================================================================
