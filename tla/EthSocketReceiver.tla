------------------------- MODULE EthSocketReceiver -------------------------
(***************************************************************************)
(* From QEMU to SIL Kit: the chain of asynchronous reads of                *)
(* EthSocketToEthControllerAdapter::DoReceiveFrameFromQemu.  The adapter   *)
(* reads a 4-byte size, then that many bytes, forwards them as an Ethernet *)
(* frame and reads the next size.  Everything runs on the thread that runs *)
(* the io_context; a completion handler is one step.                       *)
(*                                                                         *)
(* Neither handler returns after it has shut the adapter down: each goes   *)
(* on with whatever its buffer holds.  The steps below keep that.          *)
(***************************************************************************)
EXTENDS EthWire

CONSTANTS
    GuestFrames,    \* the frames the guest may send
    MaxFrames       \* bound: how many frames the guest sends

ASSUME GuestFramesAssumption ==
    GuestFrames \subseteq {f \in Seq(Byte) : Len(f) < SizeLimit}
ASSUME MaxFramesAssumption == MaxFrames \in Nat

VARIABLES
    written,        \* the frames QEMU has written, in order
    starts,         \* starts[i] bytes of the stream precede the i-th frame
    stream,         \* the bytes QEMU has written
    cut,            \* how many of those bytes the connection delivers
    peerClosed,     \* QEMU's end of the connection is gone
    pos,            \* how many bytes the adapter has read
    sizeBuf,        \* _frame_size_buffer
    dataBuf,        \* _frame_data_buffer
    op,             \* the outstanding async_read: its target, its size, what it has got
    socketOpen,     \* _socket is open
    ioStopped,      \* _ioContext is stopped: no handler runs any more
    interrupts,     \* how many SIGINT the adapter has raised
    busFrames       \* the frames given to _ethController->SendFrame, in order

peerVars == <<written, starts, stream, cut, peerClosed>>
readVars == <<pos, sizeBuf, dataBuf, op>>
linkVars == <<socketOpen, ioStopped, interrupts>>
vars == <<peerVars, readVars, linkVars, busFrames>>

----------------------------------------------------------------------------
ReadSize == [kind |-> "size", want |-> HeaderSize, got |-> 0]
ReadBody(size) == [kind |-> "body", want |-> size, got |-> 0]

Init ==
    /\ written = <<>>
    /\ starts = <<0>>
    /\ stream = <<>>
    /\ cut = 0
    /\ peerClosed = FALSE
    /\ pos = 0
    /\ sizeBuf = [i \in 1 .. HeaderSize |-> 0]
    /\ dataBuf = [i \in 1 .. BufferSize |-> 0]
    /\ op = ReadSize
    /\ socketOpen = TRUE
    /\ ioStopped = FALSE
    /\ interrupts = 0
    /\ busFrames = <<>>

----------------------------------------------------------------------------
(* QEMU's end of the connection. *)

GuestSend(frame) ==
    /\ socketOpen /\ ~peerClosed
    /\ Len(written) < MaxFrames
    /\ written' = Append(written, frame)
    /\ stream' = stream \o Encode(frame)
    /\ starts' = Append(starts, Len(stream'))
    /\ cut' = Len(stream')
    /\ UNCHANGED <<peerClosed, readVars, linkVars, busFrames>>

(***************************************************************************)
(* QEMU exits, crashes or resets the connection.  Of what the adapter has  *)
(* not read yet only a part arrives: the cut may be inside a header or     *)
(* inside a frame.                                                         *)
(***************************************************************************)
PeerClose(k) ==
    /\ ~peerClosed
    /\ pos <= k /\ k <= Len(stream)
    /\ peerClosed' = TRUE
    /\ cut' = k
    /\ UNCHANGED <<written, starts, stream, readVars, linkVars, busFrames>>

----------------------------------------------------------------------------
(* The io_context thread. *)

Fill(buf, n) ==
    [i \in DOMAIN buf |-> IF op.got < i /\ i <= op.got + n
                          THEN stream[pos + i - op.got]
                          ELSE buf[i]]

\* The outstanding async_read takes n of the bytes that have arrived.
ReadSome(n) ==
    /\ socketOpen /\ ~ioStopped
    /\ n > 0 /\ op.got + n <= op.want /\ pos + n <= cut
    /\ pos' = pos + n
    /\ op' = [op EXCEPT !.got = @ + n]
    /\ sizeBuf' = IF op.kind = "size" THEN Fill(sizeBuf, n) ELSE sizeBuf
    /\ dataBuf' = IF op.kind = "body" THEN Fill(dataBuf, n) ELSE dataBuf
    /\ UNCHANGED <<peerVars, linkVars, busFrames>>

\* Mutant: only the second handler looks at the error code.
ReadFailedInBodyOnly == op.got < op.want /\ peerClosed /\ pos = cut /\ op.kind = "body"

\* ec || bytes_received != size: the peer is gone before the read is complete.
ReadFailed == op.got < op.want /\ peerClosed /\ pos = cut
ReadDone == op.got = op.want

(***************************************************************************)
(* ShutdownEthSocketToEthControllerAdapter, called the given number of     *)
(* times by one handler: close the socket, stop the io_context and raise   *)
(* SIGINT each time.                                                       *)
(***************************************************************************)
Shutdown(times) ==
    /\ interrupts' = interrupts + times
    /\ IF times = 0 THEN UNCHANGED <<socketOpen, ioStopped>>
                    ELSE socketOpen' = FALSE /\ ioStopped' = TRUE

\* Mutant: off by one.
InvalidSizeByOne(frameSize) == frameSize > BufferSize + 1

InvalidSize(frameSize) == frameSize > BufferSize

\* The completion handler of the first async_read.
OnSizeRead ==
    LET frameSize == DecodeFrameSize(sizeBuf)
        failed == IF ReadFailed THEN 1 ELSE 0
        invalid == IF InvalidSize(frameSize) THEN 1 ELSE 0
    IN  /\ ~ioStopped
        /\ op.kind = "size" /\ (ReadDone \/ ReadFailed)
        /\ Shutdown(failed + invalid)
        /\ op' = ReadBody(frameSize)
        /\ UNCHANGED <<peerVars, pos, sizeBuf, dataBuf, busFrames>>

\* Mutant: only the received bytes.
ForwardedBytes == [i \in 1 .. op.got |-> dataBuf[i]]

\* Mutant: the whole buffer, whatever the size of the frame.
ForwardedBuffer == dataBuf

\* The vector of the announced size that the second handler fills from the frame buffer.
ForwardedFrame == [i \in 1 .. op.want |-> dataBuf[i]]

\* Mutant: a short frame is forwarded as it is.
OnNewFrameUnpadded(frame) == busFrames' = Append(busFrames, frame)

\* _onNewFrameHandler: pad the frame and give it to the Ethernet controller.
OnNewFrame(frame) == busFrames' = Append(busFrames, PadFrame(frame))

\* Mutant: the next read counts on from the last one.
ReadOn == op' = [op EXCEPT !.kind = "size", !.want = HeaderSize]

\* Mutant: the next read is not started.
NoFurtherRead == op' = [kind |-> "none", want |-> 0, got |-> 0]

DoReceiveFrameFromQemu == op' = ReadSize

\* The completion handler of the second async_read.
OnBodyRead ==
    /\ ~ioStopped
    /\ op.kind = "body" /\ (ReadDone \/ ReadFailed)
    /\ Shutdown(IF ReadFailed THEN 1 ELSE 0)
    /\ OnNewFrame(ForwardedFrame)
    /\ DoReceiveFrameFromQemu
    /\ UNCHANGED <<peerVars, pos, sizeBuf, dataBuf>>

\* The user ends the adapter: Stop(ioContext, ...) in main.
UserStop ==
    /\ ~ioStopped
    /\ ioStopped' = TRUE
    /\ UNCHANGED <<peerVars, readVars, socketOpen, interrupts, busFrames>>

----------------------------------------------------------------------------
Receive == (\E n \in 1 .. op.want : ReadSome(n)) \/ OnSizeRead \/ OnBodyRead

Next ==
    \/ \E frame \in GuestFrames : GuestSend(frame)
    \/ \E k \in 0 .. Len(stream) : PeerClose(k)
    \/ \E n \in 1 .. op.want : ReadSome(n)
    \/ OnSizeRead
    \/ OnBodyRead
    \/ UserStop

Spec == Init /\ [][Next]_vars

\* The io_context thread runs: a read that can proceed does, a handler that is due runs.
FairSpec == Spec /\ WF_vars(Receive)

----------------------------------------------------------------------------
TypeOK ==
    /\ written \in Seq(GuestFrames)
    /\ starts \in Seq(Nat)
    /\ stream \in Seq(Byte)
    /\ cut \in 0 .. Len(stream)
    /\ peerClosed \in BOOLEAN
    /\ pos \in 0 .. cut
    /\ sizeBuf \in Header
    /\ dataBuf \in [1 .. BufferSize -> Byte]
    /\ op \in [kind : {"size", "body"}, want : Nat, got : Nat]
    /\ op.got <= op.want
    /\ socketOpen \in BOOLEAN
    /\ ioStopped \in BOOLEAN
    /\ interrupts \in 0 .. 2
    /\ busFrames \in Seq(Seq(Byte))

(***************************************************************************)
(* No byte is written behind the frame buffer.  The handler of the size    *)
(* starts the second read even for a size it has just rejected; nothing    *)
(* but the closed socket and the stopped io_context keeps that read from   *)
(* filling 4096 bytes with more.                                           *)
(***************************************************************************)
NoBufferOverrun ==
    op.kind = "body" /\ op.got > 0 => op.got <= BufferSize

(***************************************************************************)
(* While the connection is up, SIL Kit has got exactly the frames the      *)
(* guest has sent first, in order, each padded and none missing, however   *)
(* TCP cuts the stream into pieces.                                        *)
(***************************************************************************)
RelayedInOrder ==
    socketOpen =>
        /\ Len(busFrames) <= Len(written)
        /\ \A i \in 1 .. Len(busFrames) : busFrames[i] = PadFrame(written[i])

(***************************************************************************)
(* A broken connection damages no more than the frame it interrupts: every *)
(* frame SIL Kit has got, except possibly the last one, is the guest's,    *)
(* and the last one has the announced size.                                *)
(***************************************************************************)
DamageConfined ==
    /\ Len(busFrames) <= Len(written)
    /\ \A i \in 1 .. Len(busFrames) :
        /\ Len(busFrames[i]) = Len(PadFrame(written[i]))
        /\ i < Len(busFrames) => busFrames[i] = PadFrame(written[i])

(***************************************************************************)
(* The adapter closes its socket for a reason only: QEMU's end is gone, or *)
(* the frame it is to read next does not fit into its buffer.  In          *)
(* particular it never mistakes the bytes of a frame for a size, nor the   *)
(* rest of an old size for a new one.                                      *)
(***************************************************************************)
ShutdownJustified ==
    ~socketOpen =>
        \/ peerClosed
        \/ /\ Len(busFrames) < Len(written)
           /\ Len(written[Len(busFrames) + 1]) > BufferSize

(***************************************************************************)
(* The adapter puts no frame on the bus once it has closed its socket.     *)
(* What it logs of a read that has failed is that it closes the socket and *)
(* shuts down; the handler of the second read goes on and forwards its     *)
(* buffer, so this does NOT hold: see the run that shows it violated.      *)
(***************************************************************************)
NothingRelayedOnceClosed == [][~socketOpen' => UNCHANGED busFrames]_vars

\* A frame the guest has sent reaches SIL Kit unless the adapter is stopped.
EveryFrameRelayed ==
    \A n \in 1 .. MaxFrames :
        Len(written) >= n ~> (Len(busFrames) >= n \/ ioStopped)

\* When QEMU goes away the adapter notices it and stops.
LostPeerStopsAdapter == peerClosed ~> ioStopped

----------------------------------------------------------------------------
(* The inductive invariant: where the reader is in the stream. *)

\* The stream is the written frames one after the other, each behind its size.
StreamFramed ==
    /\ Len(starts) = Len(written) + 1
    /\ starts[Len(starts)] = Len(stream)
    /\ \A i \in 1 .. Len(starts) : starts[i] <= Len(stream)
    /\ \A i \in 1 .. Len(written) :
        /\ starts[i + 1] = starts[i] + HeaderSize + Len(written[i])
        /\ starts[i + 1] <= Len(stream)
        /\ \A j \in 1 .. HeaderSize :
            stream[starts[i] + j] = WriteUintBe(Len(written[i]))[j]
        /\ \A j \in 1 .. Len(written[i]) :
            stream[starts[i] + HeaderSize + j] = written[i][j]

Current == Len(busFrames) + 1

\* The outstanding read is at the place in the current frame its kind says.
ReadInStep ==
    socketOpen =>
        /\ Current <= Len(starts)
        /\ op.kind = "size" =>
            /\ op.want = HeaderSize
            /\ pos = starts[Current] + op.got
            /\ \A j \in 1 .. op.got : sizeBuf[j] = stream[starts[Current] + j]
        /\ op.kind = "body" =>
            /\ Current <= Len(written)
            /\ op.want = Len(written[Current])
            /\ op.want <= BufferSize
            /\ pos = starts[Current] + HeaderSize + op.got
            /\ \A j \in 1 .. op.got : dataBuf[j] = written[Current][j]

\* A closed link is stopped for good, and no body read on it has got a byte.
LinkState ==
    /\ socketOpen => interrupts = 0
    /\ ~socketOpen => ioStopped /\ (op.kind = "body" => op.got = 0)

IInv ==
    /\ TypeOK
    /\ StreamFramed
    /\ ReadInStep
    /\ LinkState
    /\ RelayedInOrder
    /\ DamageConfined
    /\ ShutdownJustified

----------------------------------------------------------------------------
(* What the receiver implements. *)
Relay == INSTANCE FrameRelay WITH relayed <- busFrames, linkUp <- ~ioStopped
RelaySpec == Relay!FairSpec
=============================================================================
