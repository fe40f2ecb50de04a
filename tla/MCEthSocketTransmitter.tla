----------------------- MODULE MCEthSocketTransmitter -----------------------
(***************************************************************************)
(* A small instance: bytes of base 4, an empty frame, one whose bytes look *)
(* like a size, and one of five bytes, whose size fills two bytes of the   *)
(* header.  The window is smaller than a header with a frame, so the       *)
(* handler has to wait for QEMU inside a header and inside a frame.        *)
(***************************************************************************)
EXTENDS EthSocketTransmitter

MCBusFrames == {<<>>, <<0, 0, 1>>, <<3, 0, 0, 2, 1>>}
=============================================================================
