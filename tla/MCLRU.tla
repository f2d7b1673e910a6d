------------------------------- MODULE MCLRU --------------------------------
(***************************************************************************)
(* LRU for TLC: the constants are given in the configuration.              *)
(***************************************************************************)
EXTENDS LRU
=============================================================================
