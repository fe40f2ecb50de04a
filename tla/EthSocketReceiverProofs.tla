---------------------- MODULE EthSocketReceiverProofs ----------------------
(***************************************************************************)
(* Proofs about the receiving direction, for every byte base, buffer size, *)
(* minimum size, set of guest frames and number of frames.                 *)
(***************************************************************************)
EXTENDS EthSocketReceiver, SequenceLemmas

\* Four bytes are written whatever the size.
LEMMA WrittenHeader ==
    ASSUME NEW n \in Nat
    PROVE  WriteUintBe(n) \in Seq(Byte) /\ Len(WriteUintBe(n)) = HeaderSize
<1>1. ASSUME NEW m \in Nat PROVE m \div ByteBase \in Nat /\ m % ByteBase \in Byte
  <2>1. ByteBase \in Nat \ {0}
    BY ByteBaseAssumption
  <2> QED
    BY <2>1, Remainder DEF Byte
<1> QED
  BY <1>1 DEF WriteUintBe, HeaderSize

(***************************************************************************)
(* What DoReceiveFrameFromQemu decodes is what was encoded: for a size of  *)
(* up to 32 bits the header stands for exactly that size.                  *)
(***************************************************************************)
THEOREM DecodeInvertsWrite ==
    ASSUME NEW n \in Nat, n < SizeLimit
    PROVE  DecodeFrameSize(WriteUintBe(n)) = n
<1> DEFINE header == WriteUintBe(n)
           high == n \div ByteBase
           higher == high \div ByteBase
           highest == higher \div ByteBase
<1>1. /\ header[1] = highest % ByteBase /\ header[2] = higher % ByteBase
      /\ header[3] = high % ByteBase /\ header[4] = n % ByteBase
  BY DEF WriteUintBe
<1>2. n < ByteBase * (ByteBase * (ByteBase * ByteBase)) /\ ByteBase \in Nat \ {0}
  BY ByteBaseAssumption DEF SizeLimit
<1> HIDE DEF header, high, higher, highest
<1>3. (((highest % ByteBase) * ByteBase + (higher % ByteBase)) * ByteBase + (high % ByteBase)) * ByteBase
          + (n % ByteBase) = n
  BY <1>2, FourDigits DEF high, higher, highest
<1>4. DecodeFrameSize(header) = n
  BY <1>1, <1>3, Zenon DEF DecodeFrameSize
<1> QED
  BY <1>4 DEF header

\* The encoding of a frame is its header followed by its bytes.
LEMMA EncodedBytes ==
    ASSUME NEW frame \in Seq(Byte)
    PROVE  /\ Encode(frame) \in Seq(Byte)
           /\ Len(Encode(frame)) = HeaderSize + Len(frame)
           /\ \A j \in 1 .. HeaderSize : Encode(frame)[j] = WriteUintBe(Len(frame))[j]
           /\ \A j \in 1 .. Len(frame) : Encode(frame)[HeaderSize + j] = frame[j]
<1> DEFINE header == WriteUintBe(Len(frame))
<1>1. header \in Seq(Byte) /\ Len(header) = HeaderSize /\ frame \in Seq(Byte)
  BY WrittenHeader
<1> HIDE DEF header
<1>2. /\ header \o frame \in Seq(Byte)
      /\ Len(header \o frame) = Len(header) + Len(frame)
      /\ \A i \in 1 .. Len(header) : (header \o frame)[i] = header[i]
      /\ \A i \in 1 .. Len(frame) : (header \o frame)[Len(header) + i] = frame[i]
  <2>1. header \in Seq(Byte) /\ frame \in Seq(Byte)
    BY <1>1
  <2> QED
    BY <2>1, ConcatElements
<1> QED
  BY <1>1, <1>2, Zenon DEF Encode, header

\* A padded frame is a sequence of bytes of at least the minimum size that begins with the frame.
LEMMA PaddedFrame ==
    ASSUME NEW frame \in Seq(Byte)
    PROVE  /\ PadFrame(frame) \in Seq(Byte)
           /\ Len(PadFrame(frame)) = IF Len(frame) < MinFrameSize THEN MinFrameSize ELSE Len(frame)
           /\ \A i \in 1 .. Len(frame) : PadFrame(frame)[i] = frame[i]
<1>1. 0 \in Byte
  BY ByteBaseAssumption DEF Byte
<1>2. CASE Len(frame) < MinFrameSize
  <2>1. PadFrame(frame) \in [1 .. MinFrameSize -> Byte]
    BY <1>1, <1>2, MinFrameSizeAssumption DEF PadFrame
  <2> QED
    BY <1>2, <2>1, MinFrameSizeAssumption DEF PadFrame
<1>3. CASE ~(Len(frame) < MinFrameSize)
  BY <1>3 DEF PadFrame
<1> QED
  BY <1>2, <1>3

----------------------------------------------------------------------------

\* What is read off the constants.
LEMMA GuestFrame ==
    ASSUME NEW frame \in GuestFrames
    PROVE  frame \in Seq(Byte) /\ Len(frame) \in Nat /\ Len(frame) < SizeLimit
  BY GuestFramesAssumption

\* The same of a frame of the guest.
LEMMA EncodedFrame ==
    ASSUME NEW frame \in GuestFrames
    PROVE  /\ Encode(frame) \in Seq(Byte)
           /\ Len(Encode(frame)) = HeaderSize + Len(frame)
           /\ \A j \in 1 .. HeaderSize : Encode(frame)[j] = WriteUintBe(Len(frame))[j]
           /\ \A j \in 1 .. Len(frame) : Encode(frame)[HeaderSize + j] = frame[j]
  BY GuestFrame, EncodedBytes

\* Before anything is written the first read waits for the first header.
LEMMA InitIInv == Init => IInv
<1> SUFFICES ASSUME Init PROVE IInv
  OBVIOUS
<1> USE DEF Init
<1>1. 0 \in Byte
  BY ByteBaseAssumption DEF Byte
<1>2. /\ written \in Seq(GuestFrames) /\ Len(written) = 0
      /\ stream \in Seq(Byte) /\ Len(stream) = 0
      /\ busFrames \in Seq(Seq(Byte)) /\ Len(busFrames) = 0
      /\ starts \in Seq(Nat) /\ Len(starts) = 1 /\ starts[1] = 0
  OBVIOUS
<1>3. sizeBuf \in Header /\ dataBuf \in [1 .. BufferSize -> Byte]
  BY <1>1 DEF Header
<1>4. TypeOK
  <2>1. op \in [kind : {"size", "body"}, want : Nat, got : Nat] /\ op.got <= op.want
    BY DEF ReadSize, HeaderSize
  <2>2. cut \in 0 .. Len(stream) /\ pos \in 0 .. cut /\ interrupts \in 0 .. 2
    BY <1>2
  <2>3. peerClosed \in BOOLEAN /\ socketOpen \in BOOLEAN /\ ioStopped \in BOOLEAN
    OBVIOUS
  <2> QED
    BY <1>2, <1>3, <2>1, <2>2, <2>3, Zenon DEF TypeOK
<1>5. StreamFramed
  BY <1>2 DEF StreamFramed
<1>6. ReadInStep
  BY <1>2 DEF ReadInStep, Current, ReadSize
<1>7. LinkState /\ RelayedInOrder /\ DamageConfined /\ ShutdownJustified
  BY <1>2 DEF LinkState, RelayedInOrder, DamageConfined, ShutdownJustified
<1> QED
  BY <1>4, <1>5, <1>6, <1>7 DEF IInv

\* A new frame of the guest only prolongs the stream: what has been read of it stays where it was.
LEMMA GuestSendIInv ==
    ASSUME IInv, NEW frame \in GuestFrames, GuestSend(frame)
    PROVE  IInv'
<1> DEFINE n == Len(written)
<1>1. /\ written \in Seq(GuestFrames) /\ starts \in Seq(Nat) /\ stream \in Seq(Byte)
      /\ n \in Nat /\ Len(stream) \in Nat /\ Len(starts) = n + 1
  BY DEF IInv, TypeOK, StreamFramed
<1>2. /\ Encode(frame) \in Seq(Byte) /\ Len(Encode(frame)) = HeaderSize + Len(frame)
      /\ Len(frame) \in Nat /\ HeaderSize = 4
  BY EncodedFrame, GuestFrame DEF HeaderSize
<1>3. /\ written' \in Seq(GuestFrames) /\ Len(written') = n + 1
      /\ \A i \in 1 .. n : written'[i] = written[i]
      /\ written'[n + 1] = frame
  BY <1>1 DEF GuestSend
<1>4. /\ stream' \in Seq(Byte) /\ Len(stream') = Len(stream) + HeaderSize + Len(frame)
      /\ \A i \in 1 .. Len(stream) : stream'[i] = stream[i]
      /\ \A i \in 1 .. HeaderSize + Len(frame) : stream'[Len(stream) + i] = Encode(frame)[i]
  <2> DEFINE longer == stream \o Encode(frame)
  <2>1. /\ longer \in Seq(Byte) /\ Len(longer) = Len(stream) + Len(Encode(frame))
        /\ \A i \in 1 .. Len(stream) : longer[i] = stream[i]
        /\ \A i \in 1 .. Len(Encode(frame)) : longer[Len(stream) + i] = Encode(frame)[i]
    <3>1. stream \in Seq(Byte) /\ Encode(frame) \in Seq(Byte)
      BY <1>1, <1>2
    <3> QED
      BY <3>1, ConcatElements, SMTT(20)
  <2>2. stream' = longer
    BY DEF GuestSend
  <2> HIDE DEF longer
  <2> QED
    BY <1>1, <1>2, <2>1, <2>2
<1>5. /\ starts' \in Seq(Nat) /\ Len(starts') = n + 2
      /\ \A i \in 1 .. n + 1 : starts'[i] = starts[i]
      /\ starts'[n + 2] = Len(stream')
  BY <1>1, <1>4 DEF GuestSend
<1> HIDE DEF n
<1>6. TypeOK'
  <2>1. TypeOK
    BY DEF IInv
  <2>2. UNCHANGED <<peerClosed, pos, sizeBuf, dataBuf, op, socketOpen, ioStopped, interrupts, busFrames>>
    BY DEF GuestSend, readVars, linkVars
  <2>3. cut' = Len(stream') /\ Len(stream) <= Len(stream') /\ Len(stream') \in Nat
    BY <1>1, <1>2, <1>4 DEF GuestSend
  <2>4. cut' \in 0 .. Len(stream') /\ pos' \in 0 .. cut'
    BY <1>1, <2>1, <2>2, <2>3 DEF TypeOK
  <2> QED
    BY <1>3, <1>4, <1>5, <2>1, <2>2, <2>4 DEF TypeOK
<1>7. StreamFramed'
  <2>0. Len(stream) \in Nat
    BY <1>1
  <2>1. starts[n + 1] = Len(stream) /\ \A i \in 1 .. n + 1 : starts[i] \in Nat /\ starts[i] <= Len(stream)
    BY <1>1 DEF IInv, StreamFramed
  <2>2. ASSUME NEW i \in 1 .. n + 1
        PROVE  /\ starts'[i + 1] = starts'[i] + HeaderSize + Len(written'[i])
               /\ starts'[i + 1] <= Len(stream')
               /\ \A j \in 1 .. HeaderSize : stream'[starts'[i] + j] = WriteUintBe(Len(written'[i]))[j]
               /\ \A j \in 1 .. Len(written'[i]) : stream'[starts'[i] + HeaderSize + j] = written'[i][j]
    <3>1. CASE i <= n
      <4>1. /\ starts[i + 1] = starts[i] + HeaderSize + Len(written[i])
            /\ starts[i + 1] <= Len(stream)
        BY <1>1, <3>1 DEF IInv, StreamFramed, n
      <4>2. /\ \A j \in 1 .. HeaderSize : stream[starts[i] + j] = WriteUintBe(Len(written[i]))[j]
            /\ \A j \in 1 .. Len(written[i]) : stream[starts[i] + HeaderSize + j] = written[i][j]
        <5>1. i \in 1 .. Len(written)
          BY <1>1, <3>1 DEF n
        <5> QED
          BY <5>1, Zenon DEF IInv, StreamFramed
      <4>3. starts'[i] = starts[i] /\ starts'[i + 1] = starts[i + 1] /\ written'[i] = written[i]
        BY <1>1, <1>3, <1>5, <3>1
      <4>4. Len(written[i]) \in Nat /\ starts[i] \in Nat /\ HeaderSize = 4
        <5>1. written[i] \in GuestFrames /\ starts[i] \in Nat
          BY <1>1, <2>1, <3>1 DEF n
        <5> QED
          BY <5>1, GuestFrame DEF HeaderSize
      <4>5. ASSUME NEW j \in 1 .. HeaderSize
            PROVE  stream'[starts[i] + j] = stream[starts[i] + j]
        <5>1. j \in Nat /\ 1 <= j /\ j <= 4
          BY <4>4
        <5>2. starts[i] + j <= Len(stream)
          BY <2>0, <4>1, <4>4, <5>1
        <5>3. starts[i] + j \in 1 .. Len(stream)
          BY <2>0, <4>4, <5>1, <5>2
        <5> QED
          BY <1>4, <5>3
      <4>6. ASSUME NEW j \in 1 .. Len(written[i])
            PROVE  stream'[starts[i] + HeaderSize + j] = stream[starts[i] + HeaderSize + j]
        <5>1. starts[i] + HeaderSize + j \in 1 .. Len(stream)
          BY <2>0, <4>1, <4>4
        <5> QED
          BY <1>4, <5>1
      <4>7. starts[i + 1] <= Len(stream')
        BY <1>2, <1>4, <2>0, <4>1, <4>4
      <4> QED
        BY <4>1, <4>2, <4>3, <4>5, <4>6, <4>7
    <3>2. CASE i = n + 1
      <4>1. starts'[i] = Len(stream) /\ starts'[i + 1] = Len(stream') /\ written'[i] = frame
        BY <1>1, <1>3, <1>5, <2>1, <3>2
      <4>2. /\ \A j \in 1 .. HeaderSize : stream'[Len(stream) + j] = WriteUintBe(Len(frame))[j]
            /\ \A j \in 1 .. Len(frame) : stream'[Len(stream) + HeaderSize + j] = frame[j]
        <5>1. ASSUME NEW j \in 1 .. Len(frame)
              PROVE  stream'[Len(stream) + HeaderSize + j] = frame[j]
          <6>1. HeaderSize + j \in 1 .. HeaderSize + Len(frame)
                /\ Len(stream) + HeaderSize + j = Len(stream) + (HeaderSize + j)
            BY <1>1, <1>2
          <6> QED
            BY <1>4, <6>1, EncodedFrame
        <5>2. \A j \in 1 .. HeaderSize : j \in 1 .. HeaderSize + Len(frame)
          BY <1>2
        <5> QED
          BY <1>4, <5>1, <5>2, EncodedFrame
      <4> QED
        BY <1>2, <1>4, <4>1, <4>2
    <3> QED
      BY <1>1, <3>1, <3>2
  <2>3. ASSUME NEW i \in 1 .. n + 2 PROVE starts'[i] <= Len(stream')
    <3>1. CASE i = n + 2
      BY <1>1, <1>4, <1>5, <3>1
    <3>2. CASE i <= n + 1
      BY <1>1, <1>2, <1>4, <1>5, <2>1, <3>2
    <3> QED
      BY <1>1, <3>1, <3>2
  <2>4. 1 .. Len(written') = 1 .. n + 1 /\ 1 .. Len(starts') = 1 .. n + 2 /\ Len(starts') = Len(written') + 1
    BY <1>1, <1>3, <1>5
  <2>5. starts'[Len(starts')] = Len(stream')
    BY <1>5
  <2> QED
    BY <2>2, <2>3, <2>4, <2>5 DEF StreamFramed
<1>8. ReadInStep'
  <2> SUFFICES ASSUME socketOpen' PROVE ReadInStep'
    BY DEF ReadInStep
  <2>1. ReadInStep /\ socketOpen /\ UNCHANGED <<op, pos, sizeBuf, dataBuf, busFrames, Current>>
    BY DEF IInv, GuestSend, readVars, linkVars, Current
  <2>2. Current \in Nat \ {0} /\ Current <= n + 1 /\ op.got \in Nat /\ op.want \in Nat
    BY <1>1, <2>1 DEF IInv, TypeOK, Current, ReadInStep
  <2>3. starts'[Current] = starts[Current] /\ Current <= Len(starts')
    BY <1>1, <1>5, <2>2
  <2>4. op.kind = "size" => \A j \in 1 .. op.got : stream'[starts[Current] + j] = stream[starts[Current] + j]
    <3>1. op.kind = "size" => pos = starts[Current] + op.got /\ starts[Current] \in Nat /\ pos <= Len(stream)
      BY <1>1, <2>1, <2>2 DEF IInv, TypeOK, ReadInStep
    <3>2. ASSUME op.kind = "size", NEW j \in 1 .. op.got
          PROVE  starts[Current] + j \in 1 .. Len(stream)
      BY <1>1, <2>2, <3>1, <3>2
    <3> QED
      BY <1>4, <3>2
  <2>5. op.kind = "body" => Current <= n /\ written'[Current] = written[Current]
    BY <1>1, <1>3, <2>1, <2>2 DEF ReadInStep, n
  <2> QED
    BY <1>1, <1>3, <2>1, <2>2, <2>3, <2>4, <2>5 DEF ReadInStep
<1>9. LinkState'
  BY DEF IInv, LinkState, GuestSend, readVars, linkVars
<1>10. RelayedInOrder' /\ DamageConfined' /\ ShutdownJustified'
  <2>0. ShutdownJustified'
    BY DEF GuestSend, linkVars, ShutdownJustified
  <2>1. Len(busFrames) \in Nat /\ Len(busFrames) <= n
    BY <1>1 DEF IInv, TypeOK, DamageConfined, n
  <2>2. \A i \in 1 .. Len(busFrames) : written'[i] = written[i]
    BY <1>1, <1>3, <2>1
  <2>3. busFrames' = busFrames /\ socketOpen' = socketOpen
    BY DEF GuestSend, linkVars
  <2>4. RelayedInOrder /\ DamageConfined
    BY DEF IInv
  <2>5. Len(written') \in Nat /\ Len(busFrames) <= Len(written')
    BY <1>1, <1>3, <2>1
  <2>6. RelayedInOrder'
    BY <2>2, <2>3, <2>4, <2>5 DEF RelayedInOrder
  <2>7. DamageConfined'
    BY <2>2, <2>3, <2>4, <2>5 DEF DamageConfined
  <2> QED
    BY <2>0, <2>6, <2>7
<1> QED
  BY <1>6, <1>7, <1>8, <1>9, <1>10 DEF IInv

\* QEMU's end of the connection cuts the stream behind what has been read.
LEMMA PeerCloseIInv ==
    ASSUME IInv, NEW k \in 0 .. Len(stream), PeerClose(k)
    PROVE  IInv'
<1> USE DEF PeerClose, readVars, linkVars
<1>1. TypeOK'
  BY DEF IInv, TypeOK
<1>2. StreamFramed'
  BY DEF IInv, StreamFramed
<1>3. ReadInStep' /\ LinkState'
  BY DEF IInv, ReadInStep, Current, LinkState
<1>4. RelayedInOrder' /\ DamageConfined' /\ ShutdownJustified'
  BY DEF IInv, RelayedInOrder, DamageConfined, ShutdownJustified
<1> QED
  BY <1>1, <1>2, <1>3, <1>4 DEF IInv

\* main's stop changes no buffer and no place in the stream.
LEMMA UserStopIInv ==
    ASSUME IInv, UserStop
    PROVE  IInv'
<1> USE DEF UserStop, readVars, peerVars
<1>1. TypeOK'
  BY DEF IInv, TypeOK
<1>2. StreamFramed'
  BY DEF IInv, StreamFramed
<1>3. ReadInStep' /\ LinkState'
  BY DEF IInv, ReadInStep, Current, LinkState
<1>4. RelayedInOrder' /\ DamageConfined' /\ ShutdownJustified'
  BY DEF IInv, RelayedInOrder, DamageConfined, ShutdownJustified
<1> QED
  BY <1>1, <1>2, <1>3, <1>4 DEF IInv

(***************************************************************************)
(* A read adds the next bytes of the stream to the bytes its buffer holds. *)
(***************************************************************************)
LEMMA FilledBuffer ==
    ASSUME IInv, NEW n \in Nat, n > 0, pos + n <= cut,
           NEW buf, NEW last \in Nat, buf \in [1 .. last -> Byte]
    PROVE  /\ Fill(buf, n) \in [1 .. last -> Byte]
           /\ \A i \in 1 .. last : op.got < i /\ i <= op.got + n =>
                Fill(buf, n)[i] = stream[pos + i - op.got]
           /\ \A i \in 1 .. last : i <= op.got => Fill(buf, n)[i] = buf[i]
<1>1. /\ stream \in Seq(Byte) /\ Len(stream) \in Nat /\ pos \in Nat /\ cut \in Nat
      /\ cut <= Len(stream) /\ op.got \in Nat /\ DOMAIN buf = 1 .. last
  BY DEF IInv, TypeOK
<1>2. ASSUME NEW i \in 1 .. last, op.got < i, i <= op.got + n
      PROVE  stream[pos + i - op.got] \in Byte
  <2>1. pos + i - op.got \in 1 .. Len(stream)
    BY <1>1, <1>2
  <2> QED
    BY <1>1, <2>1
<1>3. ASSUME NEW i \in 1 .. last
      PROVE  (IF op.got < i /\ i <= op.got + n THEN stream[pos + i - op.got] ELSE buf[i]) \in Byte
  BY <1>2
<1> QED
  BY <1>1, <1>3 DEF Fill

\* A part of a read advances the place in the stream by the bytes it puts into the buffer.
LEMMA ReadSomeIInv ==
    ASSUME IInv, NEW n \in 1 .. op.want, ReadSome(n)
    PROVE  IInv'
<1> DEFINE got == op.got
<1>0. op \in [kind : {"size", "body"}, want : Nat, got : Nat]
  BY DEF IInv, TypeOK
<1>1. /\ got \in Nat /\ op.want \in Nat /\ pos \in Nat /\ cut \in Nat /\ n \in Nat /\ n > 0
      /\ got + n <= op.want /\ pos + n <= cut
      /\ op.kind \in {"size", "body"} /\ sizeBuf \in Header /\ dataBuf \in [1 .. BufferSize -> Byte]
      /\ cut <= Len(stream) /\ stream \in Seq(Byte) /\ Len(stream) \in Nat
  <2>1. got \in Nat /\ op.want \in Nat /\ op.kind \in {"size", "body"} /\ n \in Nat /\ n > 0
    BY <1>0
  <2>2. got + n <= op.want /\ pos + n <= cut
    BY DEF ReadSome
  <2>3. /\ pos \in Nat /\ cut \in Nat /\ cut <= Len(stream) /\ stream \in Seq(Byte) /\ Len(stream) \in Nat
        /\ sizeBuf \in Header /\ dataBuf \in [1 .. BufferSize -> Byte]
    BY DEF IInv, TypeOK
  <2> QED
    BY <2>1, <2>2, <2>3
<1>2. /\ pos' = pos + n /\ socketOpen
      /\ op' \in [kind : {"size", "body"}, want : Nat, got : Nat]
      /\ op'.kind = op.kind /\ op'.want = op.want /\ op'.got = got + n
  BY <1>0, <1>1 DEF ReadSome
<1>3. UNCHANGED <<written, starts, stream, cut, peerClosed, socketOpen, ioStopped, interrupts, busFrames>>
  BY DEF ReadSome, peerVars, linkVars
<1>4. /\ Fill(sizeBuf, n) \in Header
      /\ \A i \in 1 .. HeaderSize : got < i /\ i <= got + n => Fill(sizeBuf, n)[i] = stream[pos + i - got]
      /\ \A i \in 1 .. HeaderSize : i <= got => Fill(sizeBuf, n)[i] = sizeBuf[i]
  <2>1. sizeBuf \in [1 .. HeaderSize -> Byte] /\ HeaderSize \in Nat
    BY <1>1 DEF Header, HeaderSize
  <2> QED
    BY <1>1, <2>1, FilledBuffer DEF Header
<1>5. /\ Fill(dataBuf, n) \in [1 .. BufferSize -> Byte]
      /\ \A i \in 1 .. BufferSize : got < i /\ i <= got + n => Fill(dataBuf, n)[i] = stream[pos + i - got]
      /\ \A i \in 1 .. BufferSize : i <= got => Fill(dataBuf, n)[i] = dataBuf[i]
  BY <1>1, FilledBuffer, BufferSizeAssumption
<1>6. TypeOK'
  <2>1. sizeBuf' \in Header /\ dataBuf' \in [1 .. BufferSize -> Byte]
    BY <1>1, <1>4, <1>5 DEF ReadSome
  <2>2. pos' \in 0 .. cut /\ op'.got <= op'.want
    BY <1>1, <1>2
  <2> QED
    BY <1>2, <1>3, <2>1, <2>2 DEF IInv, TypeOK
<1>7. StreamFramed'
  BY <1>3 DEF IInv, StreamFramed
<1>8. Current' = Current /\ Current \in Nat \ {0} /\ Current <= Len(starts)
  BY <1>2, <1>3 DEF Current, IInv, TypeOK, ReadInStep
<1>9. ReadInStep'
  <2>1. CASE op.kind = "size"
    <3>1. /\ op.want = HeaderSize /\ pos = starts[Current] + got
          /\ \A j \in 1 .. got : sizeBuf[j] = stream[starts[Current] + j]
      BY <1>2, <2>1 DEF IInv, ReadInStep
    <3>2. starts[Current] \in Nat
      BY <1>8 DEF IInv, TypeOK
    <3>3. pos' = starts[Current] + (got + n)
      BY <1>1, <1>2, <3>1, <3>2
    <3>4. ASSUME NEW j \in 1 .. got + n
          PROVE  Fill(sizeBuf, n)[j] = stream[starts[Current] + j]
      <4>1. j \in 1 .. HeaderSize
        BY <1>1, <3>1
      <4>2. CASE j <= got
        BY <1>1, <1>4, <3>1, <4>1, <4>2
      <4>3. CASE got < j
        <5>1. pos + j - got = starts[Current] + j
          BY <1>1, <3>1, <3>2
        <5> QED
          BY <1>1, <1>4, <4>1, <4>3, <5>1
      <4> QED
        BY <1>1, <4>2, <4>3
    <3>5. sizeBuf' = Fill(sizeBuf, n)
      BY <2>1 DEF ReadSome
    <3> QED
      BY <1>2, <1>3, <1>8, <2>1, <3>1, <3>3, <3>4, <3>5 DEF ReadInStep
  <2>2. CASE op.kind = "body"
    <3>1. /\ Current <= Len(written) /\ op.want = Len(written[Current]) /\ op.want <= BufferSize
          /\ pos = starts[Current] + HeaderSize + got
          /\ \A j \in 1 .. got : dataBuf[j] = written[Current][j]
      BY <1>2, <2>2 DEF IInv, ReadInStep
    <3>2. starts[Current] \in Nat /\ Current \in 1 .. Len(written) /\ HeaderSize \in Nat
      <4>1. starts \in Seq(Nat) /\ written \in Seq(GuestFrames)
        BY DEF IInv, TypeOK
      <4> QED
        BY <1>8, <3>1, <4>1 DEF HeaderSize
    <3>3. pos' = starts[Current] + HeaderSize + (got + n)
      <4>1. got \in Nat /\ n \in Nat /\ pos' = pos + n
        BY <1>1, <1>2
      <4> QED
        BY <3>1, <3>2, <4>1
    <3>4. ASSUME NEW j \in 1 .. got + n
          PROVE  Fill(dataBuf, n)[j] = written[Current][j]
      <4>1. j \in 1 .. BufferSize /\ j \in 1 .. op.want
        BY <1>1, <3>1, BufferSizeAssumption
      <4>2. CASE j <= got
        BY <1>1, <1>5, <3>1, <4>1, <4>2
      <4>3. CASE got < j
        <5>1. pos + j - got = starts[Current] + HeaderSize + j
          BY <1>1, <3>1, <3>2
        <5>2. stream[starts[Current] + HeaderSize + j] = written[Current][j]
          BY <3>1, <3>2, <4>1, Zenon DEF IInv, StreamFramed
        <5> QED
          BY <1>1, <1>5, <4>1, <4>3, <5>1, <5>2
      <4> QED
        BY <1>1, <4>2, <4>3
    <3>5. dataBuf' = Fill(dataBuf, n)
      BY <2>2 DEF ReadSome
    <3> QED
      BY <1>2, <1>3, <1>8, <2>2, <3>1, <3>3, <3>4, <3>5 DEF ReadInStep
  <2> QED
    BY <1>1, <2>1, <2>2
<1>10. LinkState' /\ RelayedInOrder' /\ DamageConfined' /\ ShutdownJustified'
  BY <1>2, <1>3 DEF IInv, LinkState, RelayedInOrder, DamageConfined, ShutdownJustified
<1> QED
  BY <1>6, <1>7, <1>9, <1>10 DEF IInv

(***************************************************************************)
(* A size read that is complete has read the header of the current frame,  *)
(* so what it decodes is that frame's size.                                *)
(***************************************************************************)
LEMMA SizeReadDecodes ==
    ASSUME IInv, socketOpen, op.kind = "size", ReadDone
    PROVE  /\ Current \in 1 .. Len(written)
           /\ DecodeFrameSize(sizeBuf) = Len(written[Current])
           /\ pos = starts[Current] + HeaderSize
<1>1. /\ op.got = HeaderSize /\ HeaderSize = 4
      /\ Current \in Nat /\ Current >= 1 /\ Current <= Len(starts)
      /\ pos = starts[Current] + HeaderSize
      /\ \A j \in 1 .. HeaderSize : sizeBuf[j] = stream[starts[Current] + j]
  <2>1. /\ op \in [kind : {"size", "body"}, want : Nat, got : Nat]
        /\ Len(busFrames) \in Nat
    BY DEF IInv, TypeOK
  <2>2. /\ Current <= Len(starts) /\ op.want = HeaderSize /\ pos = starts[Current] + op.got
        /\ \A j \in 1 .. op.got : sizeBuf[j] = stream[starts[Current] + j]
    BY DEF IInv, ReadInStep
  <2> QED
    BY <2>1, <2>2 DEF ReadDone, Current, HeaderSize
<1>2. /\ Len(starts) = Len(written) + 1 /\ starts[Len(starts)] = Len(stream)
      /\ Len(written) \in Nat /\ Len(stream) \in Nat /\ pos \in Nat /\ pos <= Len(stream)
  BY DEF IInv, TypeOK, StreamFramed
<1>3. Current # Len(starts)
  BY <1>1, <1>2
<1>4. Current \in 1 .. Len(written)
  BY <1>1, <1>2, <1>3
<1>5. written[Current] \in GuestFrames
  BY <1>4 DEF IInv, TypeOK
<1> DEFINE header == WriteUintBe(Len(written[Current]))
<1>6. ASSUME NEW j \in 1 .. HeaderSize PROVE sizeBuf[j] = header[j]
  <2>1. stream[starts[Current] + j] = header[j]
    BY <1>4, Zenon DEF IInv, StreamFramed
  <2> QED
    BY <1>1, <2>1
<1>7. DecodeFrameSize(header) = Len(written[Current])
  BY <1>5, GuestFrame, DecodeInvertsWrite
<1> HIDE DEF header
<1>8. DecodeFrameSize(sizeBuf) = DecodeFrameSize(header)
  <2>1. sizeBuf[1] = header[1] /\ sizeBuf[2] = header[2] /\ sizeBuf[3] = header[3] /\ sizeBuf[4] = header[4]
    BY <1>1, <1>6
  <2> QED
    BY <2>1, Zenon DEF DecodeFrameSize
<1> QED
  BY <1>1, <1>4, <1>7, <1>8

\* Any four bytes denote a natural number.
LEMMA DecodedSize ==
    ASSUME NEW bytes \in Header
    PROVE  DecodeFrameSize(bytes) \in Nat
<1>1. bytes[1] \in Nat /\ bytes[2] \in Nat /\ bytes[3] \in Nat /\ bytes[4] \in Nat
  BY ByteBaseAssumption DEF Header, HeaderSize, Byte
<1> QED
  BY <1>1, ByteBaseAssumption DEF DecodeFrameSize

\* The handler of the size: behind a whole header it waits for the frame the header belongs
\* to; else the link is lost.
LEMMA OnSizeReadIInv ==
    ASSUME IInv, OnSizeRead
    PROVE  IInv'
<1> DEFINE frameSize == DecodeFrameSize(sizeBuf)
           failed == IF ReadFailed THEN 1 ELSE 0
           invalid == IF frameSize > BufferSize THEN 1 ELSE 0
<1>1. /\ ~ioStopped /\ op.kind = "size" /\ (ReadDone \/ ReadFailed)
      /\ interrupts' = interrupts + (failed + invalid)
      /\ failed + invalid = 0 => socketOpen' = socketOpen /\ ioStopped' = ioStopped
      /\ failed + invalid # 0 => socketOpen' = FALSE /\ ioStopped' = TRUE
      /\ op' = ReadBody(frameSize)
  BY DEF OnSizeRead, Shutdown, InvalidSize
<1>2. UNCHANGED <<written, starts, stream, cut, peerClosed, pos, sizeBuf, dataBuf, busFrames>>
  BY DEF OnSizeRead, peerVars
<1>3. socketOpen /\ interrupts = 0
  BY <1>1 DEF IInv, TypeOK, LinkState
<1>4. frameSize \in Nat
  BY DecodedSize DEF IInv, TypeOK
<1>5. failed \in 0 .. 1 /\ invalid \in 0 .. 1
      /\ (failed = 0 <=> ~ReadFailed) /\ (invalid = 0 <=> frameSize <= BufferSize)
  BY <1>4, BufferSizeAssumption
<1> HIDE DEF frameSize, failed, invalid
<1>6. /\ op' \in [kind : {"size", "body"}, want : Nat, got : Nat]
      /\ op'.kind = "body" /\ op'.want = frameSize /\ op'.got = 0
  BY <1>1, <1>4 DEF ReadBody
<1>link.
       \/ socketOpen' = TRUE /\ ioStopped' = FALSE /\ interrupts' = 0
       \/ socketOpen' = FALSE /\ ioStopped' = TRUE /\ interrupts' \in 1 .. 2
  <2>1. socketOpen = TRUE /\ ioStopped = FALSE
    BY <1>1, <1>3 DEF IInv, TypeOK
  <2>2. failed + invalid \in 0 .. 2
    BY <1>5
  <2>3. CASE failed + invalid = 0
    BY <1>1, <1>3, <2>1, <2>3
  <2>4. CASE failed + invalid # 0
    <3>1. interrupts' \in 1 .. 2
      BY <1>1, <1>3, <2>2, <2>4
    <3> QED
      BY <1>1, <2>4, <3>1
  <2> QED
    BY <2>3, <2>4
<1>7. TypeOK'
  <2>1. interrupts' \in 0 .. 2
    BY <1>1, <1>3, <1>5
  <2>2. socketOpen' \in BOOLEAN /\ ioStopped' \in BOOLEAN
    BY <1>link, Zenon
  <2>3. op'.got <= op'.want
    BY <1>4, <1>6
  <2> QED
    BY <1>2, <1>6, <2>1, <2>2, <2>3 DEF IInv, TypeOK
<1>8. StreamFramed'
  BY <1>2 DEF IInv, StreamFramed
<1>9. ReadInStep'
  <2> SUFFICES ASSUME socketOpen' PROVE ReadInStep'
    BY DEF ReadInStep
  <2>1. failed = 0 /\ invalid = 0
    BY <1>1, <1>5
  <2>2. /\ Current \in 1 .. Len(written) /\ frameSize = Len(written[Current])
        /\ pos = starts[Current] + HeaderSize
    BY <1>1, <1>3, <1>5, <2>1, SizeReadDecodes DEF frameSize
  <2>3. Current' = Current /\ Current <= Len(starts)
    BY <1>2, <1>3 DEF Current, IInv, ReadInStep
  <2>4. pos = starts[Current] + HeaderSize + 0
    BY <2>2 DEF IInv, TypeOK
  <2> QED
    BY <1>2, <1>5, <1>6, <2>1, <2>2, <2>3, <2>4 DEF ReadInStep
<1>10. LinkState'
  <2>1. op'.kind = "body" => op'.got = 0
    BY <1>6
  <2> QED
    BY <1>link, <2>1, Zenon DEF LinkState
<1>11. RelayedInOrder' /\ DamageConfined'
  BY <1>2, <1>3 DEF IInv, RelayedInOrder, DamageConfined
<1>12. ShutdownJustified'
  <2> SUFFICES ASSUME ~socketOpen', ~peerClosed
               PROVE  /\ Len(busFrames) < Len(written)
                      /\ Len(written[Len(busFrames) + 1]) > BufferSize
    BY <1>2 DEF ShutdownJustified
  <2>1. failed = 0 /\ ReadDone
    BY <1>1, <1>5 DEF ReadFailed
  <2>2. invalid # 0
    <3>1. failed + invalid # 0
      BY <1>1, <1>3
    <3> QED
      BY <2>1, <3>1
  <2>3. frameSize > BufferSize
    BY <1>4, <1>5, <2>2, BufferSizeAssumption
  <2>4. Current \in 1 .. Len(written) /\ frameSize = Len(written[Current])
    BY <1>1, <1>3, <2>1, SizeReadDecodes DEF frameSize
  <2> QED
    BY <2>3, <2>4 DEF Current, IInv, TypeOK
<1> QED
  BY <1>7, <1>8, <1>9, <1>10, <1>11, <1>12 DEF IInv

\* The size of a padded frame depends on the size of the frame alone.
LEMMA PaddedSize ==
    ASSUME NEW f \in Seq(Byte), NEW g \in Seq(Byte), Len(f) = Len(g)
    PROVE  Len(PadFrame(f)) = Len(PadFrame(g))
  BY PaddedFrame

(***************************************************************************)
(* What the second handler forwards: a frame of the size of the current    *)
(* one, and the current one itself if the read is complete.                *)
(***************************************************************************)
LEMMA BodyForwarded ==
    ASSUME IInv, socketOpen, op.kind = "body"
    PROVE  LET n == Len(busFrames)
           IN  /\ n \in Nat /\ n + 1 <= Len(written) /\ Len(written) \in Nat
               /\ written[n + 1] \in Seq(Byte)
               /\ op.want = Len(written[n + 1]) /\ op.want \in Nat
               /\ pos = starts[n + 1] + HeaderSize + op.got
               /\ ForwardedFrame \in Seq(Byte)
               /\ Len(ForwardedFrame) = Len(written[n + 1])
               /\ ReadDone => ForwardedFrame = written[n + 1]
<1> DEFINE n == Len(busFrames)
           frame == ForwardedFrame
<1>1. /\ n \in Nat /\ Current = n + 1 /\ n + 1 <= Len(written) /\ Len(written) \in Nat
      /\ op.want = Len(written[n + 1]) /\ op.want <= BufferSize /\ op.want \in Nat
      /\ op.got \in Nat /\ pos = starts[n + 1] + HeaderSize + op.got
      /\ \A j \in 1 .. op.got : dataBuf[j] = written[n + 1][j]
      /\ written[n + 1] \in Seq(Byte)
  <2>1. op \in [kind : {"size", "body"}, want : Nat, got : Nat] /\ n \in Nat /\ Len(written) \in Nat
    BY DEF IInv, TypeOK
  <2>2. /\ Current = n + 1 /\ n + 1 <= Len(written)
        /\ op.want = Len(written[n + 1]) /\ op.want <= BufferSize
        /\ pos = starts[n + 1] + HeaderSize + op.got
        /\ \A j \in 1 .. op.got : dataBuf[j] = written[n + 1][j]
    BY DEF IInv, ReadInStep, Current
  <2>3. written[n + 1] \in Seq(Byte)
    BY <2>1, <2>2, GuestFrame DEF IInv, TypeOK
  <2> QED
    BY <2>1, <2>2, <2>3
<1>2. /\ frame \in Seq(Byte) /\ Len(frame) = Len(written[n + 1])
      /\ \A i \in 1 .. op.want : frame[i] = dataBuf[i]
  <2>1. ASSUME NEW i \in 1 .. op.want PROVE dataBuf[i] \in Byte
    BY <1>1, BufferSizeAssumption DEF IInv, TypeOK
  <2>2. frame \in [1 .. op.want -> Byte]
    BY <2>1 DEF ForwardedFrame
  <2> QED
    BY <1>1, <2>2 DEF ForwardedFrame
<1> HIDE DEF frame
<1>3. ASSUME ReadDone PROVE frame = written[n + 1]
  <2>1. ASSUME NEW i \in 1 .. Len(frame) PROVE frame[i] = written[n + 1][i]
    BY <1>1, <1>2, <1>3 DEF ReadDone
  <2> QED
    BY <1>1, <1>2, <2>1, SeqEqual
<1> QED
  BY <1>1, <1>2, <1>3 DEF frame

\* The handler of the frame: it relays the current frame and waits for the header of the next.
LEMMA OnBodyReadIInv ==
    ASSUME IInv, OnBodyRead
    PROVE  IInv'
<1> DEFINE frame == ForwardedFrame
           n == Len(busFrames)
           failed == IF ReadFailed THEN 1 ELSE 0
<1>1. /\ ~ioStopped /\ op.kind = "body" /\ (ReadDone \/ ReadFailed)
      /\ interrupts' = interrupts + failed
      /\ failed = 0 => socketOpen' = socketOpen /\ ioStopped' = ioStopped
      /\ failed # 0 => socketOpen' = FALSE /\ ioStopped' = TRUE
      /\ busFrames' = Append(busFrames, PadFrame(frame))
      /\ op' = ReadSize
  BY DEF OnBodyRead, Shutdown, OnNewFrame, DoReceiveFrameFromQemu
<1>2. UNCHANGED <<written, starts, stream, cut, peerClosed, pos, sizeBuf, dataBuf>>
  BY DEF OnBodyRead, peerVars
<1>3. socketOpen /\ interrupts = 0
  BY <1>1 DEF IInv, TypeOK, LinkState
<1>4. failed \in 0 .. 1 /\ (failed = 0 <=> ~ReadFailed)
  OBVIOUS
<1> HIDE DEF failed
<1>5. /\ n \in Nat /\ n + 1 <= Len(written) /\ Len(written) \in Nat
      /\ written[n + 1] \in Seq(Byte)
      /\ op.want = Len(written[n + 1]) /\ op.want \in Nat
      /\ pos = starts[n + 1] + HeaderSize + op.got
      /\ frame \in Seq(Byte) /\ Len(frame) = Len(written[n + 1])
      /\ ReadDone => frame = written[n + 1]
  BY <1>1, <1>3, BodyForwarded
<1> HIDE DEF frame
<1>7. /\ PadFrame(frame) \in Seq(Byte)
      /\ Len(PadFrame(frame)) = Len(PadFrame(written[n + 1]))
  BY <1>5, PaddedFrame, PaddedSize
<1>9. /\ busFrames' \in Seq(Seq(Byte)) /\ Len(busFrames') = n + 1
      /\ \A i \in 1 .. n : busFrames'[i] = busFrames[i]
      /\ busFrames'[n + 1] = PadFrame(frame)
  <2>1. busFrames \in Seq(Seq(Byte))
    BY DEF IInv, TypeOK
  <2> QED
    BY <1>1, <1>7, <2>1, AppendProperties
<1>10. /\ op' \in [kind : {"size", "body"}, want : Nat, got : Nat]
       /\ op'.kind = "size" /\ op'.want = HeaderSize /\ op'.got = 0
  BY <1>1 DEF ReadSize, HeaderSize
<1>link.
       \/ socketOpen' = TRUE /\ ioStopped' = FALSE /\ interrupts' = 0
       \/ socketOpen' = FALSE /\ ioStopped' = TRUE /\ interrupts' \in 1 .. 2
  <2>1. socketOpen = TRUE /\ ioStopped = FALSE
    BY <1>1, <1>3 DEF IInv, TypeOK
  <2>2. failed \in 0 .. 2
    BY <1>4
  <2>3. CASE failed = 0
    BY <1>1, <1>3, <2>1, <2>3
  <2>4. CASE failed # 0
    <3>1. interrupts' \in 1 .. 2
      BY <1>1, <1>3, <2>2, <2>4
    <3> QED
      BY <1>1, <2>4, <3>1
  <2> QED
    BY <2>3, <2>4
<1>11. TypeOK'
  <2>1. interrupts' \in 0 .. 2
    BY <1>1, <1>3, <1>4
  <2>2. socketOpen' \in BOOLEAN /\ ioStopped' \in BOOLEAN
    BY <1>link, Zenon
  <2>3. op'.got <= op'.want
    BY <1>10 DEF HeaderSize
  <2> QED
    BY <1>2, <1>9, <1>10, <2>1, <2>2, <2>3 DEF IInv, TypeOK
<1>12. StreamFramed'
  BY <1>2 DEF IInv, StreamFramed
<1>13. ReadInStep'
  <2> SUFFICES ASSUME socketOpen' PROVE ReadInStep'
    BY DEF ReadInStep
  <2>1. op.got = op.want
    BY <1>1, <1>4 DEF ReadDone
  <2>2. Current' = n + 2 /\ n + 2 <= Len(starts)
    BY <1>5, <1>9 DEF Current, IInv, StreamFramed
  <2>3. pos = starts[n + 2]
    <3>1. n + 1 \in 1 .. Len(written) /\ (n + 1) + 1 = n + 2
      BY <1>5
    <3>2. starts[n + 2] = starts[n + 1] + HeaderSize + Len(written[n + 1])
      BY <3>1 DEF IInv, StreamFramed
    <3> QED
      BY <1>5, <2>1, <3>2
  <2>4. pos' = starts'[n + 2] + op'.got
    BY <1>2, <1>10, <2>3 DEF IInv, TypeOK
  <2> QED
    BY <1>2, <1>10, <2>2, <2>4 DEF ReadInStep
<1>14. LinkState'
  <2>1. op'.kind = "body" => op'.got = 0
    BY <1>10
  <2> QED
    BY <1>link, <2>1, Zenon DEF LinkState
<1>15. RelayedInOrder /\ DamageConfined
  BY DEF IInv
<1>16. RelayedInOrder'
  <2> SUFFICES ASSUME socketOpen', NEW i \in 1 .. n + 1
               PROVE  busFrames'[i] = PadFrame(written[i])
    BY <1>2, <1>5, <1>9 DEF RelayedInOrder
  <2>1. CASE i = n + 1
    BY <1>1, <1>4, <1>5, <1>9, <2>1
  <2>2. CASE i \in 1 .. n
    BY <1>3, <1>9, <1>15, <2>2 DEF RelayedInOrder
  <2> QED
    BY <1>5, <2>1, <2>2
<1>17. DamageConfined'
  <2> SUFFICES ASSUME NEW i \in 1 .. n + 1
               PROVE  /\ Len(busFrames'[i]) = Len(PadFrame(written[i]))
                      /\ i < n + 1 => busFrames'[i] = PadFrame(written[i])
    BY <1>2, <1>5, <1>9 DEF DamageConfined
  <2>1. CASE i = n + 1
    BY <1>5, <1>7, <1>9, <2>1
  <2>2. CASE i \in 1 .. n
    BY <1>3, <1>9, <1>15, <2>2 DEF RelayedInOrder
  <2> QED
    BY <1>5, <2>1, <2>2
<1>18. ShutdownJustified'
  <2> SUFFICES ASSUME ~socketOpen' PROVE peerClosed'
    BY DEF ShutdownJustified
  <2>1. failed # 0
    BY <1>1, <1>3
  <2> QED
    BY <1>2, <1>4, <2>1 DEF ReadFailed
<1> QED
  BY <1>11, <1>12, <1>13, <1>14, <1>16, <1>17, <1>18 DEF IInv

----------------------------------------------------------------------------
\* Every reachable state satisfies the inductive invariant.
THEOREM Invariance == Spec => []IInv
<1>1. Init => IInv
  BY InitIInv
<1>2. IInv /\ [Next]_vars => IInv'
  <2> SUFFICES ASSUME IInv, [Next]_vars PROVE IInv'
    OBVIOUS
  <2>1. CASE \E frame \in GuestFrames : GuestSend(frame)
    BY <2>1, GuestSendIInv
  <2>2. CASE \E k \in 0 .. Len(stream) : PeerClose(k)
    BY <2>2, PeerCloseIInv
  <2>3. CASE \E n \in 1 .. op.want : ReadSome(n)
    BY <2>3, ReadSomeIInv
  <2>4. CASE OnSizeRead
    BY <2>4, OnSizeReadIInv
  <2>5. CASE OnBodyRead
    BY <2>5, OnBodyReadIInv
  <2>6. CASE UserStop
    BY <2>6, UserStopIInv
  <2>7. CASE UNCHANGED vars
    <3> USE <2>7 DEF vars, peerVars, readVars, linkVars
    <3>1. TypeOK' /\ StreamFramed'
      BY DEF IInv, TypeOK, StreamFramed
    <3>2. ReadInStep' /\ LinkState' /\ RelayedInOrder' /\ DamageConfined' /\ ShutdownJustified'
      BY DEF IInv, ReadInStep, Current, LinkState, RelayedInOrder, DamageConfined, ShutdownJustified
    <3> QED
      BY <3>1, <3>2 DEF IInv
  <2> QED
    BY <2>1, <2>2, <2>3, <2>4, <2>5, <2>6, <2>7 DEF Next
<1> QED
  BY <1>1, <1>2, PTL DEF Spec

\* The buffers, the stream and the outstanding read always have their types.
THEOREM TypeCorrect == Spec => []TypeOK
<1>1. IInv => TypeOK
  BY DEF IInv
<1> QED
  BY <1>1, Invariance, PTL

\* The frame buffer is never overrun, whatever size the peer announces.
THEOREM BufferSafe == Spec => []NoBufferOverrun
<1>1. IInv => NoBufferOverrun
  <2> SUFFICES ASSUME IInv, op.kind = "body", op.got > 0 PROVE op.got <= BufferSize
    BY DEF NoBufferOverrun
  <2>1. op.got \in Nat /\ op.want \in Nat /\ op.got <= op.want
    BY DEF IInv, TypeOK
  <2>2. socketOpen
    BY <2>1 DEF IInv, LinkState
  <2>3. op.want <= BufferSize
    BY <2>2 DEF IInv, ReadInStep
  <2> QED
    BY <2>1, <2>3, BufferSizeAssumption
<1> QED
  BY <1>1, Invariance, PTL

\* While the link is up the frames come out complete, in order and padded.
THEOREM InOrder == Spec => []RelayedInOrder
<1>1. IInv => RelayedInOrder
  BY DEF IInv
<1> QED
  BY <1>1, Invariance, PTL

\* A lost link damages at most the last frame, and keeps its size.
THEOREM OneDamagedFrame == Spec => []DamageConfined
<1>1. IInv => DamageConfined
  BY DEF IInv
<1> QED
  BY <1>1, Invariance, PTL

\* The adapter gives its socket up only for a lost peer or a frame too large for its buffer.
THEOREM JustifiedShutdown == Spec => []ShutdownJustified
<1>1. IInv => ShutdownJustified
  BY DEF IInv
<1> QED
  BY <1>1, Invariance, PTL

(***************************************************************************)
(* The chain of reads implements the abstract relay: every step is a step  *)
(* of FrameRelay or leaves what it sees unchanged.                         *)
(***************************************************************************)
THEOREM Refinement == Spec => Relay!Spec
<1>1. Init => Relay!Init
  BY DEF Init, Relay!Init
<1>2. IInv /\ [Next]_vars => [Relay!Next]_Relay!vars
  <2> SUFFICES ASSUME IInv, [Next]_vars PROVE [Relay!Next]_Relay!vars
    OBVIOUS
  <2> DEFINE n == Len(busFrames)
  <2>1. ASSUME NEW frame \in GuestFrames, GuestSend(frame) PROVE Relay!Write
    BY <2>1 DEF GuestSend, linkVars, Relay!Write
  <2>2. CASE \E k \in 0 .. Len(stream) : PeerClose(k)
    BY <2>2 DEF PeerClose, linkVars, Relay!vars
  <2>3. CASE \E i \in 1 .. op.want : ReadSome(i)
    BY <2>3 DEF ReadSome, peerVars, linkVars, Relay!vars
  <2>4. ASSUME OnSizeRead PROVE Relay!LinkLost \/ UNCHANGED Relay!vars
    <3>1. /\ ~ioStopped /\ written' = written /\ busFrames' = busFrames
          /\ ioStopped' = ioStopped \/ ioStopped' = TRUE
      BY <2>4 DEF OnSizeRead, Shutdown, peerVars
    <3> QED
      BY <3>1 DEF Relay!LinkLost, Relay!vars
  <2>5. ASSUME OnBodyRead PROVE Relay!LinkLost \/ Relay!Relay
    <3>1. /\ ~ioStopped /\ op.kind = "body" /\ written' = written
          /\ busFrames' = Append(busFrames, PadFrame(ForwardedFrame))
          /\ ReadFailed => ioStopped' = TRUE
          /\ ~ReadFailed => ioStopped' = ioStopped /\ ReadDone
      BY <2>5 DEF OnBodyRead, Shutdown, OnNewFrame, peerVars
    <3>2. socketOpen
      BY <3>1 DEF IInv, LinkState
    <3>3. /\ n \in Nat /\ n + 1 <= Len(written) /\ Len(written) \in Nat
          /\ written[n + 1] \in Seq(Byte)
          /\ ForwardedFrame \in Seq(Byte) /\ Len(ForwardedFrame) = Len(written[n + 1])
          /\ ReadDone => ForwardedFrame = written[n + 1]
      BY <3>1, <3>2, BodyForwarded
    <3>4. Relay!Pending /\ Relay!NextFrame = PadFrame(written[n + 1])
      BY <3>3 DEF Relay!Pending, Relay!NextFrame, Relay!PadFrame, PadFrame
    <3>5. PadFrame(ForwardedFrame) \in [1 .. Len(Relay!NextFrame) -> Byte]
      <4>1. /\ PadFrame(ForwardedFrame) \in Seq(Byte)
            /\ Len(PadFrame(ForwardedFrame)) = Len(Relay!NextFrame)
        BY <3>3, <3>4, PaddedFrame, PaddedSize
      <4> QED
        BY <4>1
    <3>6. CASE ReadFailed
      BY <3>1, <3>4, <3>5, <3>6 DEF Relay!LinkLost, Relay!Byte, Byte
    <3>7. CASE ~ReadFailed
      BY <3>1, <3>3, <3>4, <3>7 DEF Relay!Relay
    <3> QED
      BY <3>6, <3>7
  <2>6. ASSUME UserStop PROVE Relay!LinkLost
    BY <2>6 DEF UserStop, peerVars, Relay!LinkLost
  <2>7. CASE UNCHANGED vars
    BY <2>7 DEF vars, peerVars, linkVars, Relay!vars
  <2> QED
    BY <2>1, <2>2, <2>3, <2>4, <2>5, <2>6, <2>7 DEF Next, Relay!Next
<1> QED
  BY <1>1, <1>2, Invariance, PTL DEF Spec, Relay!Spec
=============================================================================
