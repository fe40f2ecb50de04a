-------------------------- MODULE EthAdapterProofs --------------------------
(***************************************************************************)
(* The composition is no more than its two components: whatever holds of   *)
(* the receiver alone and of the transmitter alone holds in the adapter,   *)
(* for any frames, windows and sizes.                                      *)
(***************************************************************************)
EXTENDS EthAdapter, SequenceLemmas, TLAPS

LinkKnown == socketOpen \in BOOLEAN

USE DEF sharedVars, inVars, outVars

\* A step of the reading side is a step of the receiver, and leaves the rest of the writing side alone.
LEMMA IoThreadStep ==
    ASSUME LinkKnown, IoThread
    PROVE  In!Next /\ (Out!IoThreadCloses \/ UNCHANGED Out!vars) /\ LinkKnown'
<1>1. In!Next
  BY DEF IoThread, In!Next
<1>2. peerClosed' = peerClosed /\ (socketOpen' = socketOpen \/ socketOpen' = FALSE)
  <2>1. ASSUME NEW n \in 1 .. op.want, In!ReadSome(n)
        PROVE  peerClosed' = peerClosed /\ socketOpen' = socketOpen
    BY <2>1 DEF In!ReadSome, In!peerVars, In!linkVars
  <2>2. CASE In!OnSizeRead
    BY <2>2 DEF In!OnSizeRead, In!Shutdown, In!peerVars
  <2>3. CASE In!OnBodyRead
    BY <2>3 DEF In!OnBodyRead, In!Shutdown, In!peerVars
  <2> QED
    BY <2>1, <2>2, <2>3 DEF IoThread
<1>3. UNCHANGED outVars
  BY DEF IoThread
<1> QED
  BY <1>1, <1>2, <1>3 DEF LinkKnown, Out!IoThreadCloses, Out!vars, Out!handlerVars, Out!qemuVars

\* Every step of the adapter is a step or a stutter of either component.
LEMMA ComponentSteps ==
    ASSUME LinkKnown, [Next]_vars
    PROVE  [In!Next]_(In!vars) /\ [Out!Next]_(Out!vars) /\ LinkKnown'
<1> USE DEF In!vars, In!peerVars, In!readVars, In!linkVars, Out!vars, Out!handlerVars, Out!qemuVars
<1>1. CASE IoThread
  BY <1>1, IoThreadStep DEF Out!Next
<1>2. CASE FrameArrives
  BY <1>2 DEF FrameArrives, Out!OnFrame, Out!Next, LinkKnown
<1>3. CASE FrameHandler
  <2>1. ASSUME NEW n \in 1 .. Len(rest), Out!WriteSome(n), UNCHANGED inVars
        PROVE  [In!Next]_(In!vars) /\ [Out!Next]_(Out!vars) /\ LinkKnown'
    BY <2>1 DEF Out!WriteSome, Out!Next, LinkKnown
  <2>2. CASE Out!WriteReturns /\ UNCHANGED inVars
    BY <2>2 DEF Out!WriteReturns, Out!Next, LinkKnown
  <2>3. CASE (Out!Waits \/ Out!Wakes) /\ UNCHANGED inVars
    BY <2>3 DEF Out!Waits, Out!Wakes, Out!Next, LinkKnown
  <2>4. CASE Throws
    BY <2>4 DEF Throws, Out!WriteThrows, Out!Next, LinkKnown
  <2> QED
    BY <1>3, <2>1, <2>2, <2>3, <2>4 DEF FrameHandler
<1>4. CASE UserStop
  BY <1>4 DEF UserStop, In!UserStop, In!Next, LinkKnown
<1>5. ASSUME NEW frame \in Frames, QemuAnswers(frame)
      PROVE  [In!Next]_(In!vars) /\ [Out!Next]_(Out!vars) /\ LinkKnown'
  BY <1>5 DEF QemuAnswers, In!GuestSend, In!Next, LinkKnown
<1>6. CASE QemuReads
  BY <1>6 DEF QemuReads, Out!QemuReads, Out!Next, LinkKnown
<1>7. CASE QemuGoes
  BY <1>7 DEF QemuGoes, Out!QemuGoes, Out!Next, In!PeerClose, In!Next, LinkKnown
<1>8. CASE UNCHANGED vars
  BY <1>8 DEF vars, LinkKnown
<1> QED
  BY <1>1, <1>2, <1>3, <1>4, <1>5, <1>6, <1>7, <1>8 DEF Next

(***************************************************************************)
(* ServesBothDirections, for every set of frames: the adapter implements   *)
(* EthSocketReceiver and EthSocketTransmitter at once, on one socket.      *)
(***************************************************************************)
THEOREM Composition == Spec => ServesBothDirections
<1>1. Init => LinkKnown /\ In!Init /\ Out!Init
  BY DEF Init, In!Init, LinkKnown
<1>2. LinkKnown /\ [Next]_vars => LinkKnown' /\ [In!Next]_(In!vars) /\ [Out!Next]_(Out!vars)
  BY ComponentSteps
<1> QED
  BY <1>1, <1>2, PTL DEF Spec, ServesBothDirections, In!Spec, Out!Spec

----------------------------------------------------------------------------
(***************************************************************************)
(* What is proved of either component, for the constants of the adapter.   *)
(* The two instances repeat the definitions of In and Out, so a formula of *)
(* one is the same formula of the other.                                   *)
(***************************************************************************)
InProofs == INSTANCE EthSocketReceiverProofs WITH GuestFrames <- Frames
OutProofs == INSTANCE EthSocketTransmitterProofs WITH
    BusFrames <- Frames, MaxDeliveries <- MaxFrames

\* What the receiver assumes of the guest's frames is what the adapter assumes of its frames.
LEMMA InFramesAssumption == Frames \subseteq {f \in Seq(InProofs!Byte) : Len(f) < InProofs!SizeLimit}
  BY FramesAssumption DEF Byte, SizeLimit, InProofs!Byte, InProofs!SizeLimit

\* What the transmitter assumes of the frames of the bus is so, too.
LEMMA OutFramesAssumption == Frames \subseteq {f \in Seq(OutProofs!Byte) : Len(f) < OutProofs!SizeLimit}
  BY FramesAssumption DEF Byte, SizeLimit, OutProofs!Byte, OutProofs!SizeLimit

\* A step of the receiver in the adapter is a step of the receiver that is proved about.
LEMMA InSame ==
    /\ In!Init => InProofs!Init
    /\ [In!Next]_(In!vars) => [InProofs!Next]_(InProofs!vars)
<1>1. In!Init => InProofs!Init
  BY DEF In!Init, InProofs!Init, In!HeaderSize, InProofs!HeaderSize, In!ReadSize, InProofs!ReadSize
<1>2. UNCHANGED In!vars => UNCHANGED InProofs!vars
  BY DEF In!vars, In!peerVars, In!readVars, In!linkVars,
         InProofs!vars, InProofs!peerVars, InProofs!readVars, InProofs!linkVars
<1>3. In!Next => InProofs!Next
  BY DEF In!Next, In!GuestSend, In!PeerClose, In!ReadSome, In!OnSizeRead, In!OnBodyRead, In!UserStop,
         In!peerVars, In!readVars, In!linkVars, In!Fill, In!ReadFailed, In!ReadDone, In!Shutdown,
         In!InvalidSize, In!ForwardedFrame, In!OnNewFrame, In!DoReceiveFrameFromQemu,
         In!ReadSize, In!ReadBody, In!HeaderSize, In!DecodeFrameSize, In!PadFrame, In!Encode,
         In!WriteUintBe,
         InProofs!Next, InProofs!GuestSend, InProofs!PeerClose, InProofs!ReadSome,
         InProofs!OnSizeRead, InProofs!OnBodyRead, InProofs!UserStop,
         InProofs!peerVars, InProofs!readVars, InProofs!linkVars, InProofs!Fill,
         InProofs!ReadFailed, InProofs!ReadDone, InProofs!Shutdown,
         InProofs!InvalidSize, InProofs!ForwardedFrame, InProofs!OnNewFrame,
         InProofs!DoReceiveFrameFromQemu, InProofs!ReadSize, InProofs!ReadBody,
         InProofs!HeaderSize, InProofs!DecodeFrameSize, InProofs!PadFrame, InProofs!Encode,
         InProofs!WriteUintBe
<1> QED
  BY <1>1, <1>2, <1>3

\* A step of the transmitter in the adapter is a step of the transmitter that is proved about.
LEMMA OutSame ==
    /\ Out!Init => OutProofs!Init
    /\ [Out!Next]_(Out!vars) => [OutProofs!Next]_(OutProofs!vars)
<1>1. Out!Init => OutProofs!Init
  BY DEF Out!Init, OutProofs!Init
<1>2. UNCHANGED Out!vars => UNCHANGED OutProofs!vars
  BY DEF Out!vars, Out!handlerVars, Out!qemuVars,
         OutProofs!vars, OutProofs!handlerVars, OutProofs!qemuVars
<1>3. Out!Next => OutProofs!Next
  BY DEF Out!Next, Out!OnFrame, Out!WriteSome, Out!Waits, Out!Wakes, Out!WriteReturns, Out!WriteThrows,
         Out!IoThreadCloses, Out!QemuReads, Out!QemuGoes, Out!handlerVars, Out!qemuVars,
         Out!FrameSizeBytes, Out!FrameBytes, Out!Broken, Out!LeaveHandler, Out!CompleteWith,
         Out!HeaderSize, Out!DecodeFrameSize, Out!WriteUintBe, Out!Last,
         OutProofs!Next, OutProofs!OnFrame, OutProofs!WriteSome, OutProofs!Waits, OutProofs!Wakes,
         OutProofs!WriteReturns, OutProofs!WriteThrows, OutProofs!IoThreadCloses, OutProofs!QemuReads, OutProofs!QemuGoes,
         OutProofs!handlerVars, OutProofs!qemuVars,
         OutProofs!FrameSizeBytes, OutProofs!FrameBytes, OutProofs!Broken,
         OutProofs!LeaveHandler, OutProofs!CompleteWith,
         OutProofs!HeaderSize, OutProofs!DecodeFrameSize, OutProofs!WriteUintBe, OutProofs!Last
<1> QED
  BY <1>1, <1>2, <1>3

\* Both invariants hold of the components inside the adapter.
LEMMA ComponentInvariants == Spec => [](InProofs!IInv /\ OutProofs!IInv)
<1>1. InProofs!Spec => []InProofs!IInv
  BY InFramesAssumption, MaxFramesAssumption, ByteBaseAssumption, MinFrameSizeAssumption,
     BufferSizeAssumption, InProofs!Invariance, PTL
<1>2. OutProofs!Spec => []OutProofs!IInv
  BY OutFramesAssumption, MaxFramesAssumption, WindowAssumption, ByteBaseAssumption,
     MinFrameSizeAssumption, BufferSizeAssumption, OutProofs!Invariance, PTL
<1>3. In!Spec => InProofs!Spec
  BY InSame, PTL DEF In!Spec, InProofs!Spec
<1>4. Out!Spec => OutProofs!Spec
  BY OutSame, PTL DEF Out!Spec, OutProofs!Spec
<1> QED
  BY <1>1, <1>2, <1>3, <1>4, Composition, PTL DEF ServesBothDirections

\* What the two invariants say of the variables that the directions share through QEMU.
LEMMA ComponentFacts ==
    ASSUME InProofs!IInv, OutProofs!IInv
    PROVE  /\ written \in Seq(Frames) /\ delivered \in Seq(Frames)
           /\ guestFrames \in Seq(Seq(Byte)) /\ written \in Seq(Seq(Byte))
           /\ delivered \in Seq(Seq(Byte))
           /\ IsPrefix(guestFrames, delivered)
<1>1. written \in Seq(Frames)
  BY DEF InProofs!IInv, InProofs!TypeOK
<1>2. delivered \in Seq(Frames) /\ guestFrames \in Seq(Seq(Byte))
  BY DEF OutProofs!IInv, OutProofs!TypeOK, OutProofs!Byte, Byte
<1>3. IsPrefix(guestFrames, delivered)
  BY DEF OutProofs!IInv, OutProofs!GuestGetsPrefix, OutProofs!IsPrefix, IsPrefix
<1>4. \A s \in Seq(Frames) : s \in Seq(Seq(Byte))
  BY FramesAssumption
<1> QED
  BY <1>1, <1>2, <1>3, <1>4

\* The guest's answers stay a prefix of the frames it got, whoever moves.
LEMMA AnswersStep ==
    ASSUME AnswersFollowFrames, InProofs!IInv, OutProofs!IInv, [Next]_vars
    PROVE  AnswersFollowFrames'
<1>1. /\ written \in Seq(Seq(Byte)) /\ guestFrames \in Seq(Seq(Byte))
      /\ IsPrefix(written, guestFrames)
  BY ComponentFacts DEF AnswersFollowFrames
<1>2. /\ Len(written) \in Nat /\ Len(guestFrames) \in Nat /\ Len(written) <= Len(guestFrames)
      /\ \A i \in 1 .. Len(written) : written[i] = guestFrames[i]
  BY <1>1, PrefixElements
<1>3. CASE UNCHANGED <<written, guestFrames>>
  BY <1>1, <1>3 DEF AnswersFollowFrames
<1>4. ASSUME NEW frame \in Frames, QemuAnswers(frame) PROVE AnswersFollowFrames'
  <2>1. /\ Len(written) < Len(guestFrames) /\ frame = guestFrames[Len(written) + 1]
        /\ written' = Append(written, frame) /\ guestFrames' = guestFrames
        /\ frame \in Seq(Byte)
    BY <1>4, FramesAssumption DEF QemuAnswers, Owes, OwedAnswer, In!GuestSend
  <2>2. /\ written' \in Seq(Seq(Byte)) /\ Len(written') = Len(written) + 1
        /\ \A i \in 1 .. Len(written) : written'[i] = written[i]
        /\ written'[Len(written) + 1] = frame
    BY <1>1, <2>1
  <2>3. \A i \in 1 .. Len(written') : written'[i] = guestFrames[i]
    BY <1>2, <2>1, <2>2
  <2>4. Len(written') <= Len(guestFrames)
    BY <1>2, <2>1, <2>2
  <2> QED
    BY <1>1, <2>1, <2>2, <2>3, <2>4, PrefixElements DEF AnswersFollowFrames
<1>5. ASSUME QemuReads PROVE AnswersFollowFrames'
  <2>1. /\ written' = written
        /\ guestFrames' = guestFrames \/ \E frame : guestFrames' = Append(guestFrames, frame)
    BY <1>5 DEF QemuReads, Out!QemuReads
  <2>2. ASSUME NEW frame, guestFrames' = Append(guestFrames, frame)
        PROVE  AnswersFollowFrames'
    <3> DEFINE longer == Append(guestFrames, frame)
    <3>1. /\ Len(longer) = Len(guestFrames) + 1
          /\ \A i \in 1 .. Len(guestFrames) : longer[i] = guestFrames[i]
      BY <1>1
    <3>2. SubSeq(longer, 1, Len(written)) = SubSeq(guestFrames, 1, Len(written))
      BY <1>2, <3>1
    <3> HIDE DEF longer
    <3>3. IsPrefix(written, longer)
      BY <1>1, <1>2, <3>1, <3>2 DEF IsPrefix
    <3> QED
      BY <2>1, <2>2, <3>3 DEF AnswersFollowFrames, longer
  <2> QED
    BY <1>1, <2>1, <2>2 DEF AnswersFollowFrames
<1>6. ASSUME IoThread \/ FrameArrives \/ FrameHandler \/ UserStop \/ QemuGoes \/ UNCHANGED vars
      PROVE  UNCHANGED <<written, guestFrames>>
  <2>1. CASE IoThread
    BY <2>1 DEF IoThread, In!ReadSome, In!OnSizeRead, In!OnBodyRead, In!peerVars
  <2>2. CASE FrameArrives
    BY <2>2 DEF FrameArrives, Out!OnFrame, Out!qemuVars
  <2>3. CASE FrameHandler
    BY <2>3 DEF FrameHandler, Throws, Out!WriteSome, Out!Waits, Out!Wakes,
               Out!WriteReturns, Out!WriteThrows, Out!qemuVars
  <2>4. CASE UserStop
    BY <2>4 DEF UserStop, In!UserStop, In!peerVars
  <2>5. CASE QemuGoes
    BY <2>5 DEF QemuGoes, Out!QemuGoes, In!PeerClose
  <2>6. CASE UNCHANGED vars
    BY <2>6 DEF vars
  <2> QED
    BY <1>6, <2>1, <2>2, <2>3, <2>4, <2>5, <2>6
<1> QED
  BY <1>3, <1>4, <1>5, <1>6 DEF Next

\* The guest has written back only frames that it got, in the order it got them.
LEMMA AnswersFollow == Spec => []AnswersFollowFrames
<1>1. Init => AnswersFollowFrames
  BY DEF Init, In!Init, Out!Init, AnswersFollowFrames, IsPrefix
<1>2. AnswersFollowFrames /\ InProofs!IInv /\ OutProofs!IInv /\ [Next]_vars => AnswersFollowFrames'
  BY AnswersStep
<1> QED
  BY <1>1, <1>2, ComponentInvariants, PTL DEF Spec

\* A frame on the bus is paired with the frame from the bus that has the same number.
LEMMA SameNumber ==
    ASSUME InProofs!IInv, OutProofs!IInv, AnswersFollowFrames
    PROVE  /\ Len(written) <= Len(delivered)
           /\ \A i \in 1 .. Len(written) : written[i] = delivered[i]
<1>1. /\ written \in Seq(Seq(Byte)) /\ guestFrames \in Seq(Seq(Byte)) /\ delivered \in Seq(Seq(Byte))
      /\ IsPrefix(written, guestFrames) /\ IsPrefix(guestFrames, delivered)
  BY ComponentFacts DEF AnswersFollowFrames
<1>2. /\ Len(written) <= Len(guestFrames) /\ \A i \in 1 .. Len(written) : written[i] = guestFrames[i]
  BY <1>1, PrefixElements
<1>3. /\ Len(guestFrames) <= Len(delivered)
      /\ \A i \in 1 .. Len(guestFrames) : guestFrames[i] = delivered[i]
  BY <1>1, PrefixElements
<1>4. Len(written) \in Nat /\ Len(guestFrames) \in Nat /\ Len(delivered) \in Nat
  BY <1>1
<1> QED
  BY <1>2, <1>3, <1>4

(***************************************************************************)
(* The two directions of one socket together: while it is open, what the   *)
(* adapter puts on the bus answers, one by one and in order, what it was   *)
(* handed from there, for any frames, windows and interleaving of the two  *)
(* threads, QEMU and the user.                                             *)
(***************************************************************************)
THEOREM AnswersComeInOrder == Spec => []AnswersInOrder
<1>1. InProofs!IInv /\ OutProofs!IInv /\ AnswersFollowFrames => AnswersInOrder
  <2> SUFFICES ASSUME InProofs!IInv, OutProofs!IInv, AnswersFollowFrames, socketOpen
               PROVE  /\ Len(busFrames) <= Len(delivered)
                      /\ \A i \in DOMAIN busFrames : busFrames[i] = PadFrame(delivered[i])
    BY DEF AnswersInOrder
  <2>1. /\ Len(written) <= Len(delivered)
        /\ \A i \in 1 .. Len(written) : written[i] = delivered[i]
    BY SameNumber
  <2>2. /\ Len(busFrames) <= Len(written)
        /\ \A i \in 1 .. Len(busFrames) : busFrames[i] = PadFrame(written[i])
    BY DEF InProofs!IInv, InProofs!RelayedInOrder, InProofs!PadFrame, PadFrame
  <2>3. /\ Len(busFrames) \in Nat /\ Len(written) \in Nat /\ Len(delivered) \in Nat
        /\ DOMAIN busFrames = 1 .. Len(busFrames)
    BY ComponentFacts DEF InProofs!IInv, InProofs!TypeOK
  <2> QED
    BY <2>1, <2>2, <2>3
<1> QED
  BY <1>1, ComponentInvariants, AnswersFollow, PTL

(***************************************************************************)
(* And after the socket has been closed too: only the last frame on the    *)
(* bus may differ from the answer, and there are never more answers than   *)
(* frames.                                                                 *)
(***************************************************************************)
THEOREM OnlyLastAnswerDamaged ==
    Spec => [](/\ Len(busFrames) <= Len(delivered)
               /\ \A i \in 1 .. Len(busFrames) - 1 : busFrames[i] = PadFrame(delivered[i]))
<1>1. InProofs!IInv /\ OutProofs!IInv /\ AnswersFollowFrames =>
        /\ Len(busFrames) <= Len(delivered)
        /\ \A i \in 1 .. Len(busFrames) - 1 : busFrames[i] = PadFrame(delivered[i])
  <2> SUFFICES ASSUME InProofs!IInv, OutProofs!IInv, AnswersFollowFrames
               PROVE  /\ Len(busFrames) <= Len(delivered)
                      /\ \A i \in 1 .. Len(busFrames) - 1 : busFrames[i] = PadFrame(delivered[i])
    OBVIOUS
  <2>1. /\ Len(written) <= Len(delivered)
        /\ \A i \in 1 .. Len(written) : written[i] = delivered[i]
    BY SameNumber
  <2>2. /\ Len(busFrames) \in Nat /\ Len(written) \in Nat /\ Len(delivered) \in Nat
    BY ComponentFacts DEF InProofs!IInv, InProofs!TypeOK
  <2>3. /\ Len(busFrames) <= Len(written)
        /\ \A i \in 1 .. Len(busFrames) - 1 : busFrames[i] = PadFrame(written[i])
    BY <2>2 DEF InProofs!IInv, InProofs!DamageConfined, InProofs!PadFrame, PadFrame
  <2> QED
    BY <2>1, <2>2, <2>3
<1> QED
  BY <1>1, ComponentInvariants, AnswersFollow, PTL
=============================================================================
