------------------------ MODULE EthSocketTransmitter ------------------------
(***************************************************************************)
(* From SIL Kit to QEMU: the frame handler the adapter registers with its  *)
(* Ethernet controller.  SIL Kit calls it on a thread of its own; it calls *)
(* SendEthernetFrameToQemu, two blocking asio::write calls on the socket   *)
(* that the io_context thread reads from and may close at any moment.      *)
(*                                                                         *)
(* Frames are neither padded nor limited in this direction: of EthWire     *)
(* only the encoding is used.                                              *)
(***************************************************************************)
EXTENDS EthWire, SequencesExt

CONSTANTS
    BusFrames,      \* the frames the bus may deliver
    MaxDeliveries,  \* bound: how many frames the bus delivers
    Window          \* how many bytes the connection holds between the two ends

ASSUME BusFramesAssumption ==
    BusFrames \subseteq {f \in Seq(Byte) : Len(f) < SizeLimit}
ASSUME MaxDeliveriesAssumption == MaxDeliveries \in Nat
ASSUME WindowAssumption == Window \in Nat /\ Window > 0

VARIABLES
    delivered,      \* the frames the handler was called for, in order
    phase,          \* where the handler is: not running, or in which asio::write
    rest,           \* what the current asio::write has still to write
    waiting,        \* it waits, in poll, for room in the connection
    unread,         \* the bytes on their way to QEMU
    socketOpen,     \* _socket is open
    peerClosed,     \* QEMU's end of the connection is gone
    partial,        \* the bytes QEMU has read of a frame that is not complete
    guestFrames     \* the frames QEMU has given to the guest, in order

handlerVars == <<delivered, phase, rest, waiting>>
qemuVars == <<peerClosed, partial, guestFrames>>
vars == <<handlerVars, unread, socketOpen, qemuVars>>

Init ==
    /\ delivered = <<>>
    /\ phase = "idle"
    /\ rest = <<>>
    /\ waiting = FALSE
    /\ unread = <<>>
    /\ socketOpen = TRUE
    /\ peerClosed = FALSE
    /\ partial = <<>>
    /\ guestFrames = <<>>

----------------------------------------------------------------------------
(* The SIL Kit thread. *)

\* Mutant: the size counts its own four bytes.
FrameSizeWithHeader(frame) == WriteUintBe(Len(frame) + HeaderSize)

\* Mutant: the size of a frame as the receiver would see it, padded.
FrameSizePadded(frame) == WriteUintBe(Len(PadFrame(frame)))

\* Mutant: the size is not converted to 32 bits but written in the eight bytes of a std::size_t.
FrameSizeOfEightBytes(frame) == <<0, 0, 0, 0>> \o WriteUintBe(Len(frame))

FrameSizeBytes(frame) == WriteUintBe(Len(frame))

\* The handler is called and starts the first asio::write.
OnFrame(frame) ==
    /\ phase = "idle"
    /\ Len(delivered) < MaxDeliveries
    /\ delivered' = Append(delivered, frame)
    /\ phase' = "header"
    /\ rest' = FrameSizeBytes(frame)
    /\ UNCHANGED <<waiting, unread, socketOpen, qemuVars>>

(***************************************************************************)
(* The current asio::write hands n bytes to the socket.  Bytes written     *)
(* after QEMU has gone are lost.                                           *)
(***************************************************************************)
WriteSome(n) ==
    /\ phase # "idle" /\ ~waiting /\ socketOpen
    /\ n \in 1 .. Len(rest)
    /\ Len(unread) + n <= Window
    /\ rest' = SubSeq(rest, n + 1, Len(rest))
    /\ unread' = IF peerClosed THEN unread ELSE unread \o SubSeq(rest, 1, n)
    /\ UNCHANGED <<delivered, phase, waiting, socketOpen, qemuVars>>

\* The connection is full: the write waits until there is room.
Waits ==
    /\ phase # "idle" /\ ~waiting /\ socketOpen
    /\ rest # <<>> /\ Len(unread) = Window
    /\ waiting' = TRUE
    /\ UNCHANGED <<delivered, phase, rest, unread, socketOpen, qemuVars>>

(***************************************************************************)
(* QEMU has made room, or is gone.  Only that ends the wait: closing the   *)
(* descriptor in another thread does not, and what waits for the           *)
(* connection keeps it in being.                                           *)
(***************************************************************************)
Wakes ==
    /\ waiting
    /\ Len(unread) < Window \/ peerClosed
    /\ waiting' = FALSE
    /\ UNCHANGED <<delivered, phase, rest, unread, socketOpen, qemuVars>>

\* Mutant: the frame is padded, but its size has been sent.
PaddedFrameBytes(frame) == PadFrame(frame)

FrameBytes(frame) == frame

\* The current asio::write returns; a write of nothing returns at once.
WriteReturns ==
    /\ phase # "idle" /\ rest = <<>>
    /\ IF phase = "header"
       THEN phase' = "body" /\ rest' = FrameBytes(Last(delivered))
       ELSE phase' = "idle" /\ rest' = <<>>
    /\ UNCHANGED <<delivered, waiting, unread, socketOpen, qemuVars>>

Broken == peerClosed \/ ~socketOpen

\* Mutant: the handler catches the exception and sends the frame again.
SendAgain == phase' = "header" /\ rest' = FrameSizeBytes(Last(delivered))

LeaveHandler == phase' = "idle" /\ rest' = <<>>

\* asio::write throws; the exception leaves the handler and the frame is lost.
WriteThrows ==
    /\ phase # "idle" /\ ~waiting /\ rest # <<>>
    /\ Broken
    /\ LeaveHandler
    /\ UNCHANGED <<delivered, waiting, unread, socketOpen, qemuVars>>

----------------------------------------------------------------------------
\* The io_context thread shuts the adapter down while the handler may be writing.
IoThreadCloses ==
    /\ socketOpen
    /\ socketOpen' = FALSE
    /\ UNCHANGED <<handlerVars, unread, qemuVars>>

----------------------------------------------------------------------------
(* QEMU. *)

\* The frame that the given bytes are complete with: its size says how long it is.
CompleteWith(bytes) ==
    Len(bytes) >= HeaderSize /\ Len(bytes) = HeaderSize + DecodeFrameSize(bytes)

\* QEMU reads the next byte; reading several at once comes to the same.
QemuReads ==
    LET bytes == Append(partial, Head(unread))
    IN  /\ ~peerClosed /\ unread # <<>>
        /\ unread' = Tail(unread)
        /\ IF CompleteWith(bytes)
           THEN /\ partial' = <<>>
                /\ guestFrames' =
                    Append(guestFrames, SubSeq(bytes, HeaderSize + 1, Len(bytes)))
           ELSE partial' = bytes /\ UNCHANGED guestFrames
        /\ UNCHANGED <<handlerVars, socketOpen, peerClosed>>

\* QEMU exits, crashes or resets the connection; what it has not read is lost.
QemuGoes ==
    /\ ~peerClosed
    /\ peerClosed' = TRUE
    /\ unread' = <<>>
    /\ UNCHANGED <<handlerVars, socketOpen, partial, guestFrames>>

\* QEMU has read everything from a socket the adapter has closed and does not wait for.
EndOfStream == ~socketOpen /\ ~waiting /\ unread = <<>>
QemuSeesEnd == EndOfStream /\ QemuGoes

----------------------------------------------------------------------------
Handler ==
    (\E n \in 1 .. Len(rest) : WriteSome(n)) \/ Waits \/ Wakes \/ WriteReturns \/ WriteThrows

Next ==
    \/ \E frame \in BusFrames : OnFrame(frame)
    \/ \E n \in 1 .. Len(rest) : WriteSome(n)
    \/ Waits
    \/ Wakes
    \/ WriteReturns
    \/ WriteThrows
    \/ IoThreadCloses
    \/ QemuReads
    \/ QemuGoes

Spec == Init /\ [][Next]_vars

(***************************************************************************)
(* A handler that can go on does; QEMU keeps reading and notices the end   *)
(* of the stream (both are assumptions about QEMU).                        *)
(***************************************************************************)
FairSpec ==
    Spec /\ WF_vars(Handler) /\ WF_vars(QemuReads) /\ WF_vars(QemuSeesEnd)

----------------------------------------------------------------------------
TypeOK ==
    /\ delivered \in Seq(BusFrames)
    /\ phase \in {"idle", "header", "body"}
    /\ rest \in Seq(Byte)
    /\ phase = "header" => Len(rest) <= HeaderSize
    /\ waiting \in BOOLEAN
    /\ unread \in Seq(Byte)
    /\ Len(unread) <= Window
    /\ socketOpen \in BOOLEAN
    /\ peerClosed \in BOOLEAN
    /\ partial \in Seq(Byte)
    /\ guestFrames \in Seq(Seq(Byte))

(***************************************************************************)
(* The guest gets exactly the frames of the bus, complete, unpadded, in    *)
(* order and with none missing in between, wherever the connection fills   *)
(* up or breaks: half a frame is never taken for a frame.                  *)
(***************************************************************************)
GuestGetsPrefix == IsPrefix(guestFrames, delivered)

EncodeAll(frames) == FlattenSeq([i \in DOMAIN frames |-> Encode(frames[i])])

\* What the handler has not written yet of the frame it was called for.
ToWrite == rest \o IF phase = "header" THEN Last(delivered) ELSE <<>>

(***************************************************************************)
(* While the connection is up no byte is lost or invented: what QEMU has   *)
(* read, what is on its way and what the handler has still to write are    *)
(* together the encodings of the delivered frames.                         *)
(***************************************************************************)
BytesConserved ==
    socketOpen /\ ~peerClosed =>
        EncodeAll(guestFrames) \o partial \o unread \o ToWrite = EncodeAll(delivered)

----------------------------------------------------------------------------
(***************************************************************************)
(* The inductive invariant behind the safety properties.  Over the life of *)
(* a connection QEMU is sent a prefix of the encodings of the delivered    *)
(* frames, also when a write breaks off, and QEMU never holds more of a    *)
(* frame than the frame's size and bytes.                                  *)
(***************************************************************************)
NothingInvented ==
    ~peerClosed => IsPrefix(EncodeAll(guestFrames) \o partial \o unread, EncodeAll(delivered))

PartOfNextFrame ==
    ~peerClosed /\ partial # <<>> =>
        /\ Len(guestFrames) < Len(delivered)
        /\ Len(partial) < HeaderSize + Len(delivered[Len(guestFrames) + 1])

HandlerState ==
    /\ IF phase = "idle" THEN rest = <<>> ELSE delivered # <<>>
    /\ waiting => phase # "idle" /\ rest # <<>>

IInv ==
    /\ TypeOK
    /\ GuestGetsPrefix
    /\ BytesConserved
    /\ NothingInvented
    /\ PartOfNextFrame
    /\ HandlerState

(***************************************************************************)
(* A frame handler always returns as long as QEMU reads or goes, also when *)
(* the io_context thread closes the socket under a write that waits: what  *)
(* QEMU reads then wakes it, and it throws.                                *)
(***************************************************************************)
HandlerReturns == (phase # "idle") ~> (phase = "idle")

----------------------------------------------------------------------------
(* This direction is a frame relay too, one that does not pad. *)
Relay == INSTANCE FrameRelay WITH
    MinFrameSize <- 0, GuestFrames <- BusFrames, MaxFrames <- MaxDeliveries,
    written <- delivered, relayed <- guestFrames, linkUp <- ~peerClosed
RelaySpec == Relay!FairSpec
=============================================================================
