------------------------- MODULE MCResourceManager -------------------------
(***************************************************************************)
(* ResourceManager for TLC.  TOTAL is small enough that two or three       *)
(* workers deadlock.                                                       *)
(***************************************************************************)
EXTENDS ResourceManager

TwoOfOne == [j \in Resources |-> 2]
OneEach  == [j \in Resources |-> 1]
=============================================================================
