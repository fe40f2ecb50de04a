------------------------ MODULE MCTemperatureSensing ------------------------
(***************************************************************************)
(* A small instance: bytes of base 4 and three bytes looked at in an event *)
(* for 50, so that an event may lose an odd or an even number of bytes.    *)
(* The values differ in both bytes; one is below the zero of Celsius, one  *)
(* too large for the node's int.                                           *)
(***************************************************************************)
EXTENDS TemperatureSensing

MCValues == {1, 6, 9}
MCSmallValues == {1, 6}
=============================================================================
