------------------------ MODULE MCEthSocketReceiver ------------------------
(***************************************************************************)
(* A small instance: bytes of base 4, a buffer of 5 bytes, frames padded   *)
(* to 2.  The frames cover the empty one, one below the minimum, two whose *)
(* sizes differ in two bytes of the header, and one too large.             *)
(***************************************************************************)
EXTENDS EthSocketReceiver

MCGuestFrames == {<<>>, <<1>>, <<2, 3, 1>>, <<1, 2, 3, 2, 1>>, <<3, 3, 2, 2, 1, 1>>}
=============================================================================
