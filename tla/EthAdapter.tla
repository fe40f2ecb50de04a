----------------------------- MODULE EthAdapter -----------------------------
(***************************************************************************)
(* One Ethernet adapter as a whole: the io_context thread that reads       *)
(* (EthSocketReceiver) and SIL Kit's thread that writes                    *)
(* (EthSocketTransmitter) share one socket and one QEMU.  Either thread    *)
(* may find it broken; only the io_context thread closes it.               *)
(*                                                                         *)
(* QEMU is external.  It is taken to be the least obliging one: its guest  *)
(* answers every frame, and it reads no further before the answer fits     *)
(* into the connection.                                                    *)
(***************************************************************************)
EXTENDS EthWire, SequencesExt

CONSTANTS
    Frames,         \* the frames of the bus, which the guest sends back
    MaxFrames,      \* bound: how many frames the bus delivers
    Window,         \* how many bytes the connection holds on the way to QEMU
    AnswerWindow    \* how many on the way back: at least one frame with its size

ASSUME FramesAssumption == Frames \subseteq {f \in Seq(Byte) : Len(f) < SizeLimit}
ASSUME MaxFramesAssumption == MaxFrames \in Nat
ASSUME WindowAssumption == Window \in Nat /\ Window > 0
ASSUME AnswerWindowAssumption ==
    AnswerWindow \in Nat /\ \A frame \in Frames : Len(Encode(frame)) <= AnswerWindow

VARIABLES
    socketOpen, peerClosed,                                     \* of both components
    written, starts, stream, cut, pos, sizeBuf, dataBuf, op,    \* of EthSocketReceiver
    ioStopped, interrupts, busFrames,
    delivered, phase, rest, waiting, unread, partial, guestFrames   \* of EthSocketTransmitter

sharedVars == <<socketOpen, peerClosed>>
inVars == <<written, starts, stream, cut, pos, sizeBuf, dataBuf, op, ioStopped, interrupts, busFrames>>
outVars == <<delivered, phase, rest, waiting, unread, partial, guestFrames>>
vars == <<sharedVars, inVars, outVars>>

In == INSTANCE EthSocketReceiver WITH GuestFrames <- Frames
Out == INSTANCE EthSocketTransmitter WITH BusFrames <- Frames, MaxDeliveries <- MaxFrames

Init == In!Init /\ Out!Init

----------------------------------------------------------------------------
\* Mutant: one thread does it all and reads only between two frames it writes.
IoThreadWhenIdle ==
    /\ phase = "idle"
    /\ (\E n \in 1 .. op.want : In!ReadSome(n)) \/ In!OnSizeRead \/ In!OnBodyRead
    /\ UNCHANGED outVars

\* The io_context thread; in a handler that shuts the adapter down it closes the socket.
IoThread ==
    /\ (\E n \in 1 .. op.want : In!ReadSome(n)) \/ In!OnSizeRead \/ In!OnBodyRead
    /\ UNCHANGED outVars

\* SIL Kit's thread.
FrameArrives == (\E frame \in Frames : Out!OnFrame(frame)) /\ UNCHANGED inVars

\* Mutant: the exception is caught and the socket closed, by the wrong thread.
ThrowAndClose ==
    /\ phase # "idle" /\ ~waiting /\ rest # <<>> /\ Out!Broken
    /\ Out!LeaveHandler
    /\ socketOpen' = FALSE
    /\ UNCHANGED <<peerClosed, inVars, delivered, waiting, unread, partial, guestFrames>>

Throws == Out!WriteThrows /\ UNCHANGED inVars

FrameHandler ==
    \/ /\ (\E n \in 1 .. Len(rest) : Out!WriteSome(n)) \/ Out!Waits \/ Out!Wakes \/ Out!WriteReturns
       /\ UNCHANGED inVars
    \/ Throws

UserStop == In!UserStop /\ UNCHANGED outVars

----------------------------------------------------------------------------
(* QEMU *)

Owes == Len(written) < Len(guestFrames)

OwedAnswer == guestFrames[Len(written) + 1]
FitsIntoConnection(frame) == Len(stream) - pos + Len(Encode(frame)) <= AnswerWindow

\* The guest sends back a frame of the bus; it has no answer to anything else.
QemuAnswers(frame) ==
    /\ Owes /\ frame = OwedAnswer
    /\ FitsIntoConnection(frame)
    /\ In!GuestSend(frame)
    /\ UNCHANGED outVars

QemuReads == ~Owes /\ Out!QemuReads /\ UNCHANGED inVars

\* QEMU goes away for both directions at once.
QemuGoes == Out!QemuGoes /\ \E k \in 0 .. Len(stream) : In!PeerClose(k)

----------------------------------------------------------------------------
Next ==
    \/ IoThread
    \/ FrameArrives \/ FrameHandler
    \/ UserStop
    \/ \E frame \in Frames : QemuAnswers(frame)
    \/ QemuReads \/ QemuGoes

Spec == Init /\ [][Next]_vars

\* Both threads run, and QEMU answers and reads when it can.
FairSpec ==
    /\ Spec
    /\ WF_vars(IoThread) /\ WF_vars(FrameHandler)
    /\ WF_vars(\E frame \in Frames : QemuAnswers(frame)) /\ WF_vars(QemuReads)

----------------------------------------------------------------------------
\* The whole is a receiver and a transmitter, so what is shown of either holds in it.
ServesBothDirections == In!Spec /\ Out!Spec

(***************************************************************************)
(* While the socket is open the frames the adapter has put on the bus are  *)
(* the answers to the frames it was handed from there, in order and        *)
(* padded: one socket for both directions mixes nothing up.                *)
(***************************************************************************)
AnswersInOrder ==
    socketOpen =>
        /\ Len(busFrames) <= Len(delivered)
        /\ \A i \in DOMAIN busFrames : busFrames[i] = PadFrame(delivered[i])

\* What joins the two directions in that argument: the guest answers what it got, in order.
AnswersFollowFrames == IsPrefix(written, guestFrames)

(***************************************************************************)
(* The two directions never wait for each other: every frame from the bus  *)
(* is answered on it, even by a QEMU that must get rid of its answers      *)
(* before it reads on, unless the adapter is stopped or QEMU goes.         *)
(***************************************************************************)
EveryFrameAnswered ==
    \A n \in 1 .. MaxFrames :
        Len(delivered) >= n ~> (Len(busFrames) >= n \/ ioStopped \/ peerClosed)

(***************************************************************************)
(* Only a circle of waits strands SIL Kit's thread in the frame handler,   *)
(* and only the end of the reading closes it, by main's stop or by a       *)
(* shutdown: nobody takes what QEMU has sent, so QEMU does not get rid of  *)
(* the answer it owes, so it does not read, so the write has no room.      *)
(* Closing the socket does not break the circle.                           *)
(***************************************************************************)
WaitsInCircle ==
    /\ waiting /\ Len(unread) = Window
    /\ Owes /\ ~FitsIntoConnection(OwedAnswer)
    /\ ioStopped

HandlerStrandedInCircleOnly == phase # "idle" ~> (phase = "idle" \/ WaitsInCircle)
=============================================================================
