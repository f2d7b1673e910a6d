----------------------------- MODULE MCBooking ------------------------------
(***************************************************************************)
(* Booking for TLC: the constants are given in the configuration.          *)
(***************************************************************************)
EXTENDS Booking
=============================================================================
