------------------------------ MODULE MCHouse ------------------------------
(***************************************************************************)
(* House for TLC.  The visitors are model values; no symmetry, which is    *)
(* not sound for the liveness properties.                                  *)
(***************************************************************************)
EXTENDS House
=============================================================================
