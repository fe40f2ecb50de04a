----------------------------- MODULE FrameRelay -----------------------------
(***************************************************************************)
(* What the adapter promises of one direction, from QEMU to SIL Kit: the   *)
(* frames are relayed one by one and in order, each padded to the minimum  *)
(* size.  When the link is lost at most one more frame comes out, of the   *)
(* size of the frame that was under way but of any content, and then       *)
(* nothing.                                                                *)
(***************************************************************************)
EXTENDS EthWire

CONSTANTS GuestFrames, MaxFrames

VARIABLES
    written,    \* the frames the guest has sent
    relayed,    \* the frames SIL Kit has got
    linkUp      \* the adapter is relaying

vars == <<written, relayed, linkUp>>

Init == written = <<>> /\ relayed = <<>> /\ linkUp = TRUE

Write ==
    /\ Len(written) < MaxFrames
    /\ \E frame \in GuestFrames : written' = Append(written, frame)
    /\ UNCHANGED <<relayed, linkUp>>

Pending == Len(relayed) < Len(written)
NextFrame == PadFrame(written[Len(relayed) + 1])

Relay ==
    /\ linkUp /\ Pending
    /\ relayed' = Append(relayed, NextFrame)
    /\ UNCHANGED <<written, linkUp>>

LinkLost ==
    /\ linkUp
    /\ linkUp' = FALSE
    /\ \/ relayed' = relayed
       \/ /\ Pending
          /\ \E damaged \in [1 .. Len(NextFrame) -> Byte] : relayed' = Append(relayed, damaged)
    /\ UNCHANGED written

Next == Write \/ Relay \/ LinkLost

Spec == Init /\ [][Next]_vars

\* A frame that waits is relayed, or the link is lost.
FairSpec == Spec /\ WF_vars(Pending /\ (Relay \/ LinkLost))
=============================================================================
