---------------------------- MODULE MCEthAdapter ----------------------------
(***************************************************************************)
(* A small instance: a frame that passes and one whose answer is too large *)
(* for the adapter's buffer.  A frame with its size does not fit into the  *)
(* window to QEMU, and only one answer fits into the one back, so each     *)
(* side can be made to wait for the other; three frames are enough for a   *)
(* handler that writes while QEMU owes an answer and another one waits.    *)
(***************************************************************************)
EXTENDS EthAdapter

MCFrames == {<<1>>, <<2, 3, 1>>}
=============================================================================
