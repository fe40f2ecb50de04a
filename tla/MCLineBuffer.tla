---------------------------- MODULE MCLineBuffer ----------------------------
(***************************************************************************)
(* A small instance: a buffer of four characters and its terminating 0,    *)
(* events of up to three, so that one event may bring more newlines than   *)
(* are searched for, fill the buffer exactly, or overfill it.  The texts   *)
(* typed are just below, at and above what the output buffer takes.        *)
(***************************************************************************)
EXTENDS LineBuffer

MCTextLengths == {0, 1, 2, 3, 4, 5, 6}
=============================================================================
