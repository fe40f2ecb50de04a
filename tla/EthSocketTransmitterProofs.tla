--------------------- MODULE EthSocketTransmitterProofs ---------------------
(***************************************************************************)
(* Proofs about the writing direction, for every byte base, set of bus     *)
(* frames, number of frames and window.                                    *)
(***************************************************************************)
EXTENDS EthSocketTransmitter, SequenceLemmas

\* Four bytes are written whatever the size.
LEMMA WrittenHeader ==
    ASSUME NEW n \in Nat
    PROVE  WriteUintBe(n) \in Seq(Byte) /\ Len(WriteUintBe(n)) = HeaderSize
<1>1. ASSUME NEW m \in Nat PROVE m \div ByteBase \in Nat /\ m % ByteBase \in Byte
  <2>1. ByteBase \in Nat \ {0}
    BY ByteBaseAssumption
  <2> QED
    BY <2>1, Remainder DEF Byte
<1> QED
  BY <1>1 DEF WriteUintBe, HeaderSize

\* What QEMU decodes is the size the adapter has written.
LEMMA DecodeInvertsWrite ==
    ASSUME NEW n \in Nat, n < SizeLimit
    PROVE  DecodeFrameSize(WriteUintBe(n)) = n
<1> DEFINE header == WriteUintBe(n)
           high == n \div ByteBase
           higher == high \div ByteBase
           highest == higher \div ByteBase
<1>1. /\ header[1] = highest % ByteBase /\ header[2] = higher % ByteBase
      /\ header[3] = high % ByteBase /\ header[4] = n % ByteBase
  BY DEF WriteUintBe
<1>2. n < ByteBase * (ByteBase * (ByteBase * ByteBase)) /\ ByteBase \in Nat \ {0}
  BY ByteBaseAssumption DEF SizeLimit
<1> HIDE DEF header, high, higher, highest
<1>3. (((highest % ByteBase) * ByteBase + (higher % ByteBase)) * ByteBase + (high % ByteBase)) * ByteBase
          + (n % ByteBase) = n
  BY <1>2, FourDigits DEF high, higher, highest
<1>4. DecodeFrameSize(header) = n
  BY <1>1, <1>3, Zenon DEF DecodeFrameSize
<1> QED
  BY <1>4 DEF header

\* The encoding of a frame is its header followed by its bytes.
LEMMA EncodedBytes ==
    ASSUME NEW frame \in Seq(Byte)
    PROVE  /\ Encode(frame) \in Seq(Byte)
           /\ Len(Encode(frame)) = HeaderSize + Len(frame)
           /\ \A j \in 1 .. HeaderSize : Encode(frame)[j] = WriteUintBe(Len(frame))[j]
           /\ \A j \in 1 .. Len(frame) : Encode(frame)[HeaderSize + j] = frame[j]
<1> DEFINE header == WriteUintBe(Len(frame))
<1>1. header \in Seq(Byte) /\ Len(header) = HeaderSize /\ frame \in Seq(Byte)
  BY WrittenHeader
<1> HIDE DEF header
<1>2. /\ header \o frame \in Seq(Byte)
      /\ Len(header \o frame) = Len(header) + Len(frame)
      /\ \A i \in 1 .. Len(header) : (header \o frame)[i] = header[i]
      /\ \A i \in 1 .. Len(frame) : (header \o frame)[Len(header) + i] = frame[i]
  <2>1. header \in Seq(Byte) /\ frame \in Seq(Byte)
    BY <1>1
  <2> QED
    BY <2>1, ConcatElements
<1> QED
  BY <1>1, <1>2, Zenon DEF Encode, header

----------------------------------------------------------------------------

\* What is read off the constants.
LEMMA BusFrame ==
    ASSUME NEW frame \in BusFrames
    PROVE  frame \in Seq(Byte) /\ Len(frame) \in Nat /\ Len(frame) < SizeLimit
  BY BusFramesAssumption

\* Frames of the bus are sequences of bytes.
LEMMA BusFrameSequence ==
    ASSUME NEW frames \in Seq(BusFrames)
    PROVE  frames \in Seq(Seq(Byte))
  BY BusFramesAssumption

----------------------------------------------------------------------------
(* The encoding of a sequence of frames. *)

\* One more frame is one more encoding at the end.
LEMMA EncodeAllAppend ==
    ASSUME NEW frames \in Seq(Seq(Byte)), NEW frame \in Seq(Byte)
    PROVE  /\ EncodeAll(frames) \in Seq(Byte)
           /\ EncodeAll(Append(frames, frame)) = EncodeAll(frames) \o Encode(frame)
<1> DEFINE longer == Append(frames, frame)
           encoded == [i \in DOMAIN frames |-> Encode(frames[i])]
           encodedLonger == [i \in DOMAIN longer |-> Encode(longer[i])]
<1>1. /\ longer \in Seq(Seq(Byte)) /\ Len(longer) = Len(frames) + 1 /\ Len(frames) \in Nat
      /\ longer[Len(frames) + 1] = frame /\ \A i \in 1 .. Len(frames) : longer[i] = frames[i]
      /\ DOMAIN longer = 1 .. Len(frames) + 1 /\ DOMAIN frames = 1 .. Len(frames)
      /\ \A i \in 1 .. Len(frames) : frames[i] \in Seq(Byte)
  OBVIOUS
<1>2. Encode(frame) \in Seq(Byte) /\ \A i \in 1 .. Len(frames) : Encode(frames[i]) \in Seq(Byte)
  BY <1>1, EncodedBytes
<1>3. encoded \in Seq(Seq(Byte)) /\ Len(encoded) = Len(frames)
      /\ \A i \in 1 .. Len(frames) : encoded[i] = Encode(frames[i])
  BY <1>1, <1>2
<1>4. encodedLonger = Append(encoded, Encode(frame))
  <2> HIDE DEF longer
  <2>1. /\ encodedLonger \in Seq(Seq(Byte)) /\ Len(encodedLonger) = Len(frames) + 1
        /\ \A i \in 1 .. Len(frames) : encodedLonger[i] = Encode(frames[i])
        /\ encodedLonger[Len(frames) + 1] = Encode(frame)
    <3>1. \A i \in 1 .. Len(frames) + 1 : Encode(longer[i]) \in Seq(Byte)
      <4>1. \A i \in 1 .. Len(frames) + 1 : longer[i] \in Seq(Byte)
        BY <1>1
      <4> QED
        BY <4>1, EncodedBytes
    <3>2. encodedLonger = [i \in 1 .. Len(frames) + 1 |-> Encode(longer[i])]
      BY <1>1, Zenon
    <3>3. Len(frames) + 1 \in Nat /\ Len(frames) + 1 \in 1 .. Len(frames) + 1
      BY <1>1
    <3>4. \A i \in 1 .. Len(frames) : i \in 1 .. Len(frames) + 1
      BY <1>1
    <3> HIDE DEF encodedLonger
    <3>5. encodedLonger \in Seq(Seq(Byte)) /\ Len(encodedLonger) = Len(frames) + 1
      BY <3>1, <3>2, <3>3
    <3>6. \A i \in 1 .. Len(frames) + 1 : encodedLonger[i] = Encode(longer[i])
      BY <3>2
    <3> QED
      BY <1>1, <3>3, <3>4, <3>5, <3>6
  <2> HIDE DEF encoded, encodedLonger
  <2>2. /\ Append(encoded, Encode(frame)) \in Seq(Seq(Byte))
        /\ Len(Append(encoded, Encode(frame))) = Len(frames) + 1
        /\ \A i \in 1 .. Len(frames) : Append(encoded, Encode(frame))[i] = encoded[i]
        /\ Append(encoded, Encode(frame))[Len(frames) + 1] = Encode(frame)
    BY <1>2, <1>3
  <2>3. \A i \in 1 .. Len(frames) + 1 : encodedLonger[i] = Append(encoded, Encode(frame))[i]
    BY <1>1, <1>3, <2>1, <2>2
  <2> QED
    BY <2>1, <2>2, <2>3, SeqEqual
<1> HIDE DEF encoded, encodedLonger
<1>5. FlattenSeq(encoded) \in Seq(Byte) /\ FlattenSeq(encodedLonger) = FlattenSeq(encoded) \o Encode(frame)
  BY <1>2, <1>3, <1>4, FlattenAppend
<1> QED
  BY <1>5 DEF EncodeAll, encoded, encodedLonger

\* The encoding of no frame is empty.
LEMMA EncodeAllEmpty == EncodeAll(<<>>) = <<>>
<1>1. [i \in DOMAIN <<>> |-> Encode(<<>>[i])] = <<>>
  OBVIOUS
<1> QED
  BY <1>1, FlattenEmpty DEF EncodeAll

\* After the encoding of the first k frames comes that of the next one.
LEMMA EncodeAllNext ==
    ASSUME NEW frames \in Seq(Seq(Byte)), NEW k \in Nat, k < Len(frames)
    PROVE  /\ EncodeAll(SubSeq(frames, 1, k)) \in Seq(Byte)
           /\ frames[k + 1] \in Seq(Byte)
           /\ \E t \in Seq(Byte) : EncodeAll(frames) =
                (EncodeAll(SubSeq(frames, 1, k)) \o Encode(frames[k + 1])) \o t
<1> DEFINE encoded == [i \in DOMAIN frames |-> Encode(frames[i])]
           F(n) == FlattenSeq(SubSeq(encoded, 1, n))
<1>1. /\ DOMAIN frames = 1 .. Len(frames) /\ Len(frames) \in Nat
      /\ \A i \in 1 .. Len(frames) : frames[i] \in Seq(Byte)
  OBVIOUS
<1>2. \A i \in 1 .. Len(frames) : Encode(frames[i]) \in Seq(Byte)
  BY <1>1, EncodedBytes
<1>3. encoded \in Seq(Seq(Byte)) /\ Len(encoded) = Len(frames)
      /\ \A i \in 1 .. Len(frames) : encoded[i] = Encode(frames[i])
  BY <1>1, <1>2
<1> HIDE DEF encoded
<1>4. \A n \in 0 .. Len(frames) : EncodeAll(SubSeq(frames, 1, n)) = F(n)
  <2> SUFFICES ASSUME NEW n \in 0 .. Len(frames)
               PROVE  [i \in DOMAIN SubSeq(frames, 1, n) |-> Encode(SubSeq(frames, 1, n)[i])]
                        = SubSeq(encoded, 1, n)
    BY DEF EncodeAll
  <2> DEFINE short == SubSeq(frames, 1, n)
  <2>1. /\ short \in Seq(Seq(Byte)) /\ DOMAIN short = 1 .. n
        /\ \A i \in 1 .. n : short[i] = frames[i]
    OBVIOUS
  <2> HIDE DEF short
  <2> DEFINE map == [i \in DOMAIN short |-> Encode(short[i])]
  <2>2. map \in Seq(Seq(Byte)) /\ Len(map) = n /\ \A i \in 1 .. n : map[i] = Encode(frames[i])
    BY <1>1, <1>2, <2>1
  <2>3. /\ SubSeq(encoded, 1, n) \in Seq(Seq(Byte)) /\ Len(SubSeq(encoded, 1, n)) = n
        /\ \A i \in 1 .. n : SubSeq(encoded, 1, n)[i] = encoded[i]
    BY <1>3
  <2> HIDE DEF map
  <2>4. map = SubSeq(encoded, 1, n)
    BY <1>3, <2>2, <2>3, SeqEqual
  <2> QED
    BY <2>4 DEF map, short
<1>6. EncodeAll(frames) = FlattenSeq(encoded)
  BY DEF EncodeAll, encoded
<1>7. PICK t \in Seq(Byte) : FlattenSeq(encoded) = F(k + 1) \o t
  <2>1. k + 1 \in 0 .. Len(encoded)
    BY <1>3
  <2> QED
    BY <1>3, <2>1, FlattenBegins
<1>8. F(k + 1) = F(k) \o Encode(frames[k + 1]) /\ F(k) \in Seq(Byte)
  <2>1. /\ SubSeq(encoded, 1, k) \in Seq(Seq(Byte)) /\ encoded[k + 1] \in Seq(Byte)
        /\ SubSeq(encoded, 1, k + 1) = Append(SubSeq(encoded, 1, k), encoded[k + 1])
    BY <1>3, OneMoreElement
  <2>2. encoded[k + 1] = Encode(frames[k + 1])
    BY <1>3
  <2> QED
    BY <2>1, <2>2, FlattenAppend, Zenon
<1>9. EncodeAll(SubSeq(frames, 1, k)) = F(k) /\ frames[k + 1] \in Seq(Byte)
  BY <1>1, <1>4
<1> HIDE DEF F
<1> QED
  BY <1>6, <1>7, <1>8, <1>9, Zenon

----------------------------------------------------------------------------
(* The inductive invariant. *)

\* What QEMU has been sent.
Sent == EncodeAll(guestFrames) \o partial \o unread

\* The types of what the invariant speaks of.
LEMMA Types ==
    ASSUME TypeOK
    PROVE  /\ delivered \in Seq(Seq(Byte)) /\ guestFrames \in Seq(Seq(Byte))
           /\ EncodeAll(delivered) \in Seq(Byte) /\ EncodeAll(guestFrames) \in Seq(Byte)
           /\ partial \in Seq(Byte) /\ unread \in Seq(Byte) /\ rest \in Seq(Byte)
           /\ Sent \in Seq(Byte)
<1>1. /\ delivered \in Seq(Seq(Byte)) /\ guestFrames \in Seq(Seq(Byte))
      /\ partial \in Seq(Byte) /\ unread \in Seq(Byte) /\ rest \in Seq(Byte)
  BY BusFrameSequence DEF TypeOK
<1>2. EncodeAll(delivered) \in Seq(Byte) /\ EncodeAll(guestFrames) \in Seq(Byte)
  <2>1. <<>> \in Seq(Byte)
    OBVIOUS
  <2> QED
    BY <1>1, <2>1, EncodeAllAppend
<1> DEFINE e == EncodeAll(guestFrames)
<1> HIDE DEF e
<1>3. e \in Seq(Byte) => (e \o partial) \o unread \in Seq(Byte)
  BY <1>1
<1> QED
  BY <1>1, <1>2, <1>3 DEF Sent, e

\* Before the first frame nothing is written and nothing is read.
LEMMA InitIInv == Init => IInv
<1> SUFFICES ASSUME Init PROVE IInv
  OBVIOUS
<1>1. TypeOK
  <2>1. /\ <<>> \in Seq(BusFrames) /\ <<>> \in Seq(Byte) /\ <<>> \in Seq(Seq(Byte))
        /\ Len(<<>>) <= Window
    BY WindowAssumption
  <2> QED
    BY <2>1 DEF Init, TypeOK
<1>2. ToWrite = <<>>
  BY DEF Init, ToWrite
<1>3. (EncodeAll(guestFrames) \o partial) \o unread = <<>> /\ EncodeAll(delivered) = <<>>
  BY EncodeAllEmpty DEF Init
<1>4. GuestGetsPrefix /\ IsPrefix(<<>>, <<>>)
  BY DEF Init, GuestGetsPrefix, IsPrefix
<1>5. BytesConserved
  BY <1>2, <1>3 DEF BytesConserved
<1>6. NothingInvented
  BY <1>3, <1>4 DEF NothingInvented
<1>7. PartOfNextFrame /\ HandlerState
  BY DEF Init, PartOfNextFrame, HandlerState
<1> QED
  BY <1>1, <1>4, <1>5, <1>6, <1>7 DEF IInv

\* The call of the handler adds one encoded frame to what is to be written.
LEMMA OnFrameIInv ==
    ASSUME IInv, NEW frame \in BusFrames, OnFrame(frame)
    PROVE  IInv'
<1>1. /\ TypeOK /\ GuestGetsPrefix /\ BytesConserved /\ NothingInvented /\ PartOfNextFrame
      /\ HandlerState
  BY DEF IInv
<1>2. /\ phase = "idle" /\ rest = <<>>
      /\ delivered' = Append(delivered, frame)
      /\ phase' = "header" /\ rest' = WriteUintBe(Len(frame))
      /\ UNCHANGED <<waiting, unread, socketOpen, peerClosed, partial, guestFrames>>
  BY <1>1 DEF OnFrame, qemuVars, HandlerState, FrameSizeBytes
<1>3. frame \in Seq(Byte) /\ Len(frame) \in Nat /\ WriteUintBe(Len(frame)) \in Seq(Byte)
  BY BusFrame, WrittenHeader
<1>4. /\ delivered \in Seq(Seq(Byte)) /\ guestFrames \in Seq(Seq(Byte)) /\ Sent \in Seq(Byte)
      /\ EncodeAll(delivered) \in Seq(Byte)
  BY <1>1, Types
<1>5. /\ delivered' \in Seq(BusFrames) /\ Len(delivered') = Len(delivered) + 1
      /\ Last(delivered') = frame
      /\ \A i \in 1 .. Len(delivered) : delivered'[i] = delivered[i]
  BY <1>1, <1>2 DEF TypeOK, Last
<1>6. TypeOK'
  <2>1. Len(rest') <= HeaderSize
    <3>1. Len(rest') = HeaderSize
      BY <1>2, <1>3, WrittenHeader
    <3> QED
      BY <3>1 DEF HeaderSize
  <2> QED
    BY <1>1, <1>2, <1>3, <1>5, <2>1 DEF TypeOK
<1>7. EncodeAll(delivered') = EncodeAll(delivered) \o Encode(frame) /\ Encode(frame) \in Seq(Byte)
  BY <1>2, <1>3, <1>4, EncodeAllAppend, EncodedBytes
<1>8. Sent' = Sent
  BY <1>2 DEF Sent
<1>9. GuestGetsPrefix'
  <2>1. IsPrefix(guestFrames, delivered \o <<frame>>) /\ delivered \o <<frame>> = Append(delivered, frame)
    <3>1. <<frame>> \in Seq(Seq(Byte))
      BY <1>3
    <3>2. IsPrefix(guestFrames, delivered \o <<frame>>)
      BY <1>1, <1>4, <3>1, PrefixOfLonger DEF GuestGetsPrefix
    <3> QED
      BY <1>3, <1>4, <3>2
  <2> QED
    BY <1>2, <2>1 DEF GuestGetsPrefix
<1>10. BytesConserved'
  <2> SUFFICES ASSUME socketOpen, ~peerClosed
               PROVE  Sent \o ToWrite' = EncodeAll(delivered')
    BY <1>2, <1>8 DEF BytesConserved, Sent
  <2>1. ToWrite = <<>>
    BY <1>2 DEF ToWrite
  <2>2. Sent \o <<>> = EncodeAll(delivered)
    BY <1>1, <2>1 DEF BytesConserved, Sent
  <2>3. Sent = EncodeAll(delivered)
    BY <1>4, <2>2
  <2>4. ToWrite' = Encode(frame)
    BY <1>2, <1>5 DEF ToWrite, Encode
  <2> QED
    BY <1>7, <2>3, <2>4
<1>11. NothingInvented'
  <2> SUFFICES ASSUME ~peerClosed PROVE IsPrefix(Sent, EncodeAll(delivered'))
    BY <1>2, <1>8 DEF NothingInvented, Sent
  <2>1. IsPrefix(Sent, EncodeAll(delivered))
    BY <1>1 DEF NothingInvented, Sent
  <2> QED
    BY <1>4, <1>7, <2>1, PrefixOfLonger
<1>12. PartOfNextFrame'
  BY <1>1, <1>2, <1>4, <1>5 DEF PartOfNextFrame
<1>13. HandlerState'
  <2>1. delivered' # <<>>
    BY <1>4, <1>5
  <2>2. ~waiting'
    BY <1>1, <1>2 DEF HandlerState
  <2> QED
    BY <1>2, <2>1, <2>2 DEF HandlerState
<1> QED
  BY <1>6, <1>9, <1>10, <1>11, <1>12, <1>13 DEF IInv

\* A part of a write moves bytes from the buffer to the connection and leaves their order alone.
LEMMA WriteSomeIInv ==
    ASSUME IInv, NEW n \in 1 .. Len(rest), WriteSome(n)
    PROVE  IInv'
<1>0. AssociativeOver(Byte)
  BY Associative, Zenon
<1>1. /\ TypeOK /\ GuestGetsPrefix /\ BytesConserved /\ NothingInvented /\ PartOfNextFrame
      /\ HandlerState
  BY DEF IInv
<1>2. /\ phase # "idle" /\ socketOpen /\ Len(unread) + n <= Window
      /\ rest' = SubSeq(rest, n + 1, Len(rest))
      /\ unread' = IF peerClosed THEN unread ELSE unread \o SubSeq(rest, 1, n)
      /\ ~waiting
      /\ UNCHANGED <<delivered, phase, waiting, socketOpen, peerClosed, partial, guestFrames>>
  BY DEF WriteSome, qemuVars
<1>3. /\ rest \in Seq(Byte) /\ unread \in Seq(Byte) /\ partial \in Seq(Byte)
      /\ EncodeAll(guestFrames) \in Seq(Byte) /\ Sent \in Seq(Byte)
      /\ EncodeAll(delivered) \in Seq(Byte) /\ delivered \in Seq(Seq(Byte))
  BY <1>1, Types
<1> DEFINE now == SubSeq(rest, 1, n)
           later == SubSeq(rest, n + 1, Len(rest))
<1>4. now \in Seq(Byte) /\ Len(now) = n /\ later \in Seq(Byte) /\ rest = now \o later
  <2>1. n \in 0 .. Len(rest) /\ rest \in Seq(Byte)
    BY <1>3
  <2> QED
    BY <2>1, CutInTwo, Zenon
<1>5. rest' = later /\ unread' = IF peerClosed THEN unread ELSE unread \o now
  BY <1>2
<1> HIDE DEF now, later
<1>6. TypeOK'
  <2>1. unread' \in Seq(Byte) /\ Len(unread') <= Window
    BY <1>1, <1>2, <1>3, <1>4, <1>5 DEF TypeOK
  <2>2. Len(later) <= Len(rest)
    BY <1>3 DEF later
  <2>3. phase = "header" => Len(later) <= HeaderSize
    <3>1. Len(later) \in Nat /\ Len(rest) \in Nat
      BY <1>3, <1>4
    <3>2. phase = "header" => Len(rest) <= HeaderSize
      BY <1>1 DEF TypeOK
    <3> QED
      BY <2>2, <3>1, <3>2 DEF HeaderSize
  <2> QED
    BY <1>1, <1>2, <1>4, <1>5, <2>1, <2>3 DEF TypeOK
<1>7. GuestGetsPrefix'
  BY <1>1, <1>2 DEF GuestGetsPrefix
<1>8. ~peerClosed => Sent' = Sent \o now /\ Sent' \in Seq(Byte)
  <2> SUFFICES ASSUME ~peerClosed PROVE Sent' = Sent \o now /\ Sent' \in Seq(Byte)
    OBVIOUS
  <2> DEFINE e == EncodeAll(guestFrames) \o partial
  <2>1. e \in Seq(Byte)
    BY <1>3
  <2>2. Sent = e \o unread /\ Sent' = e \o (unread \o now)
    BY <1>2, <1>5 DEF Sent
  <2> HIDE DEF e
  <2>3. (e \o unread) \o now = e \o (unread \o now)
    <3>1. unread \in Seq(Byte) /\ now \in Seq(Byte)
      BY <1>3, <1>4
    <3> QED
      BY <1>0, <2>1, <3>1, Zenon DEF AssociativeOver
  <2>4. Sent' = Sent \o now
    BY <2>2, <2>3, Zenon
  <2> QED
    BY <1>3, <1>4, <2>4
<1>9. ~peerClosed => Sent' \o ToWrite' = EncodeAll(delivered')
  <2> SUFFICES ASSUME ~peerClosed PROVE Sent' \o ToWrite' = EncodeAll(delivered)
    BY <1>2
  <2> DEFINE body == IF phase = "header" THEN Last(delivered) ELSE <<>>
  <2>1. body \in Seq(Byte)
    BY <1>1, <1>2, <1>3 DEF HandlerState, Last
  <2>2. ToWrite = rest \o body /\ ToWrite' = later \o body
    BY <1>2, <1>5 DEF ToWrite
  <2> HIDE DEF body
  <2>3. rest \o body = now \o (later \o body) /\ later \o body \in Seq(Byte)
    BY <1>0, <1>4, <2>1, Zenon DEF AssociativeOver
  <2>4. Sent \o (now \o (later \o body)) = EncodeAll(delivered)
    BY <1>1, <1>2, <2>2, <2>3, Zenon DEF BytesConserved, Sent
  <2>5. (Sent \o now) \o (later \o body) = Sent \o (now \o (later \o body))
    <3>1. Sent \in Seq(Byte) /\ now \in Seq(Byte) /\ later \o body \in Seq(Byte)
      BY <1>3, <1>4, <2>3
    <3> QED
      BY <1>0, <3>1, Zenon DEF AssociativeOver
  <2> QED
    BY <1>8, <2>2, <2>4, <2>5, Zenon
<1>10. BytesConserved'
  BY <1>2, <1>9 DEF BytesConserved, Sent
<1>11. NothingInvented'
  <2> SUFFICES ASSUME ~peerClosed PROVE IsPrefix(Sent', EncodeAll(delivered'))
    BY <1>2 DEF NothingInvented, Sent
  <2>1. ToWrite' \in Seq(Byte)
    <3>1. Last(delivered) \in Seq(Byte)
      BY <1>1, <1>2, <1>3 DEF HandlerState, Last
    <3>2. later \o Last(delivered) \in Seq(Byte) /\ later \o <<>> \in Seq(Byte)
      BY <1>4, <3>1
    <3> QED
      BY <1>2, <1>5, <3>2 DEF ToWrite
  <2> DEFINE s == Sent' w == ToWrite'
  <2>2. s \in Seq(Byte) /\ w \in Seq(Byte) /\ s \o w = EncodeAll(delivered')
    BY <1>8, <1>9, <2>1
  <2> HIDE DEF s, w
  <2>3. IsPrefix(s, EncodeAll(delivered'))
    BY <2>2, PrefixOfConcat
  <2> QED
    BY <2>3 DEF s
<1>12. PartOfNextFrame' /\ HandlerState'
  BY <1>1, <1>2 DEF PartOfNextFrame, HandlerState
<1> QED
  BY <1>6, <1>7, <1>10, <1>11, <1>12 DEF IInv

\* Nothing of a write is left when it returns, so that the frame follows its header, or the
\* handler ends.
LEMMA WriteReturnsIInv == ASSUME IInv, WriteReturns PROVE IInv'
<1>1. /\ TypeOK /\ GuestGetsPrefix /\ BytesConserved /\ NothingInvented /\ PartOfNextFrame
      /\ HandlerState
  BY DEF IInv
<1>2. /\ phase # "idle" /\ rest = <<>>
      /\ UNCHANGED <<delivered, waiting, unread, socketOpen, peerClosed, partial, guestFrames>>
      /\ phase = "header" => phase' = "body" /\ rest' = Last(delivered)
      /\ phase # "header" => phase' = "idle" /\ rest' = <<>>
  BY DEF WriteReturns, qemuVars, FrameBytes
<1>3. Last(delivered) \in Seq(Byte) /\ delivered # <<>>
  BY <1>1, <1>2, Types DEF HandlerState, Last
<1>4. ToWrite' = ToWrite
  BY <1>2, <1>3 DEF ToWrite
<1>5. TypeOK' /\ HandlerState'
  BY <1>1, <1>2, <1>3 DEF TypeOK, HandlerState
<1>6. GuestGetsPrefix' /\ BytesConserved' /\ NothingInvented' /\ PartOfNextFrame'
  BY <1>1, <1>2, <1>4 DEF GuestGetsPrefix, BytesConserved, NothingInvented, PartOfNextFrame
<1> QED
  BY <1>5, <1>6 DEF IInv

\* A write that throws finds the socket closed or QEMU gone, so no claim about the rest is lost.
LEMMA WriteThrowsIInv == ASSUME IInv, WriteThrows PROVE IInv'
<1>1. /\ TypeOK /\ GuestGetsPrefix /\ BytesConserved /\ NothingInvented /\ PartOfNextFrame
      /\ HandlerState
  BY DEF IInv
<1>2. /\ peerClosed \/ ~socketOpen
      /\ phase' = "idle" /\ rest' = <<>> /\ ~waiting
      /\ UNCHANGED <<delivered, waiting, unread, socketOpen, peerClosed, partial, guestFrames>>
  BY DEF WriteThrows, LeaveHandler, Broken, qemuVars
<1>3. TypeOK' /\ HandlerState'
  BY <1>1, <1>2 DEF TypeOK, HandlerState
<1>4. GuestGetsPrefix' /\ BytesConserved' /\ NothingInvented' /\ PartOfNextFrame'
  BY <1>1, <1>2 DEF GuestGetsPrefix, BytesConserved, NothingInvented, PartOfNextFrame
<1> QED
  BY <1>3, <1>4 DEF IInv

\* Waiting for room, or no longer, leaves all bytes where they are.
LEMMA WaitingIInv == ASSUME IInv, Waits \/ Wakes PROVE IInv'
<1>1. /\ TypeOK /\ GuestGetsPrefix /\ BytesConserved /\ NothingInvented /\ PartOfNextFrame
      /\ HandlerState
  BY DEF IInv
<1>2. /\ waiting' \in BOOLEAN /\ (waiting' => phase # "idle" /\ rest # <<>>)
      /\ UNCHANGED <<delivered, phase, rest, unread, socketOpen, peerClosed, partial, guestFrames>>
  BY DEF Waits, Wakes, qemuVars
<1>3. TypeOK' /\ HandlerState'
  BY <1>1, <1>2 DEF TypeOK, HandlerState
<1>4. GuestGetsPrefix' /\ BytesConserved' /\ NothingInvented' /\ PartOfNextFrame'
  <2>1. ToWrite' = ToWrite
    BY <1>2 DEF ToWrite
  <2> QED
    BY <1>1, <1>2, <2>1 DEF GuestGetsPrefix, BytesConserved, NothingInvented, PartOfNextFrame
<1> QED
  BY <1>3, <1>4 DEF IInv

\* The other thread's closing of the socket leaves all bytes where they are.
LEMMA IoThreadClosesIInv == ASSUME IInv, IoThreadCloses PROVE IInv'
<1>1. /\ TypeOK /\ GuestGetsPrefix /\ NothingInvented /\ PartOfNextFrame /\ HandlerState
  BY DEF IInv
<1>2. socketOpen' = FALSE
      /\ UNCHANGED <<delivered, phase, rest, waiting, unread, peerClosed, partial, guestFrames>>
  BY DEF IoThreadCloses, handlerVars, qemuVars
<1>3. TypeOK' /\ HandlerState' /\ BytesConserved'
  BY <1>1, <1>2 DEF TypeOK, HandlerState, BytesConserved
<1>4. GuestGetsPrefix' /\ NothingInvented' /\ PartOfNextFrame'
  BY <1>1, <1>2 DEF GuestGetsPrefix, NothingInvented, PartOfNextFrame
<1> QED
  BY <1>3, <1>4 DEF IInv

\* When QEMU goes, what is in the connection is lost; what QEMU has got stays.
LEMMA QemuGoesIInv == ASSUME IInv, QemuGoes PROVE IInv'
<1>1. TypeOK /\ GuestGetsPrefix /\ HandlerState
  BY DEF IInv
<1>2. /\ peerClosed' = TRUE /\ unread' = <<>>
      /\ UNCHANGED <<delivered, phase, rest, waiting, socketOpen, partial, guestFrames>>
  BY DEF QemuGoes, handlerVars
<1>3. TypeOK'
  <2>1. <<>> \in Seq(Byte) /\ Len(<<>>) <= Window
    BY WindowAssumption
  <2> QED
    BY <1>1, <1>2, <2>1 DEF TypeOK
<1>4. GuestGetsPrefix' /\ HandlerState'
  BY <1>1, <1>2 DEF GuestGetsPrefix, HandlerState
<1>5. BytesConserved' /\ NothingInvented' /\ PartOfNextFrame'
  BY <1>2 DEF BytesConserved, NothingInvented, PartOfNextFrame
<1> QED
  BY <1>3, <1>4, <1>5 DEF IInv

\* The frame QEMU is to complete next, and what it has of it with one more byte.
NextFrame == delivered[Len(guestFrames) + 1]
Received == Append(partial, Head(unread))

\* What QEMU holds after one more byte is the beginning of the next frame's encoding.
LEMMA ReceivedBytes ==
    ASSUME IInv, ~peerClosed, unread # <<>>
    PROVE  /\ Len(guestFrames) \in Nat /\ Len(guestFrames) < Len(delivered)
           /\ guestFrames = SubSeq(delivered, 1, Len(guestFrames))
           /\ NextFrame \in BusFrames
           /\ Received \in Seq(Byte) /\ Len(Received) <= HeaderSize + Len(NextFrame)
           /\ \A i \in 1 .. Len(Received) : Received[i] = Encode(NextFrame)[i]
           /\ Sent = (EncodeAll(guestFrames) \o Received) \o Tail(unread)
<1> DEFINE g == Len(guestFrames)
           e == EncodeAll(guestFrames)
           d == EncodeAll(delivered)
<1>0. AssociativeOver(Byte)
  BY Associative, Zenon
<1>1. TypeOK /\ GuestGetsPrefix /\ NothingInvented /\ PartOfNextFrame
  BY DEF IInv
<1>2. /\ delivered \in Seq(Seq(Byte)) /\ guestFrames \in Seq(Seq(Byte))
      /\ e \in Seq(Byte) /\ d \in Seq(Byte) /\ partial \in Seq(Byte) /\ unread \in Seq(Byte)
      /\ Sent \in Seq(Byte)
  BY <1>1, Types
<1>3. g \in Nat /\ g <= Len(delivered) /\ guestFrames = SubSeq(delivered, 1, g)
  <2>1. guestFrames = SubSeq(guestFrames, 1, g)
    BY <1>2
  <2> QED
    BY <1>1, <1>2, <2>1 DEF GuestGetsPrefix, IsPrefix
<1> DEFINE bytes == Append(partial, Head(unread))
           tail == Tail(unread)
<1>4. /\ bytes \in Seq(Byte) /\ Len(bytes) = Len(partial) + 1 /\ tail \in Seq(Byte)
      /\ bytes \o tail = partial \o unread
  BY <1>2, MoveHead
<1> HIDE DEF bytes, tail
<1>5. Sent = (e \o bytes) \o tail
  <2>0. e \in Seq(Byte)
    BY <1>2
  <2>1. Sent = (e \o partial) \o unread
    BY DEF Sent
  <2> HIDE DEF e
  <2>2. (e \o partial) \o unread = e \o (partial \o unread)
    <3>1. e \in Seq(Byte) /\ partial \in Seq(Byte) /\ unread \in Seq(Byte)
      BY <1>2, <2>0
    <3> QED
      BY <1>0, <3>1, Zenon DEF AssociativeOver
  <2>3. (e \o bytes) \o tail = e \o (bytes \o tail)
    <3>1. e \in Seq(Byte) /\ bytes \in Seq(Byte) /\ tail \in Seq(Byte)
      BY <1>4, <2>0
    <3> QED
      BY <1>0, <3>1, Zenon DEF AssociativeOver
  <2>4. bytes \o tail = partial \o unread
    BY <1>4
  <2> QED
    BY <2>1, <2>2, <2>3, <2>4, Zenon
<1> HIDE DEF e, d
<1>6. /\ Len(e) \in Nat /\ Len(bytes) \in Nat /\ Len(bytes) > 0
      /\ Len(Sent) >= Len(e) + Len(bytes)
      /\ \A i \in 1 .. Len(bytes) : Sent[Len(e) + i] = bytes[i]
  <2> DEFINE start == e \o bytes
  <2>1. /\ start \in Seq(Byte) /\ Len(start) = Len(e) + Len(bytes)
        /\ \A i \in 1 .. Len(bytes) : start[Len(e) + i] = bytes[i]
    <3>1. e \in Seq(Byte) /\ bytes \in Seq(Byte)
      BY <1>2, <1>4
    <3> QED
      BY <3>1, ConcatElements
  <2>2. Sent = start \o tail
    BY <1>5
  <2> HIDE DEF start
  <2>3. /\ Len(Sent) = Len(start) + Len(tail)
        /\ \A i \in 1 .. Len(start) : Sent[i] = start[i]
    <3>1. start \in Seq(Byte) /\ tail \in Seq(Byte)
      BY <1>4, <2>1
    <3> QED
      BY <2>2, <3>1, ConcatElements
  <2>4. Len(e) \in Nat /\ Len(bytes) \in Nat /\ Len(bytes) > 0 /\ Len(tail) \in Nat
    BY <1>2, <1>4
  <2> QED
    BY <2>1, <2>3, <2>4
<1>7. Len(Sent) <= Len(d) /\ \A i \in 1 .. Len(Sent) : Sent[i] = d[i]
  <2>1. IsPrefix(Sent, d)
    BY <1>1 DEF NothingInvented, Sent, d
  <2> QED
    BY <1>2, <2>1, PrefixElements
<1>8. g < Len(delivered)
  <2> SUFFICES ASSUME g = Len(delivered) PROVE FALSE
    BY <1>2, <1>3
  <2>1. guestFrames = delivered
    <3>1. SubSeq(delivered, 1, Len(delivered)) = delivered
      BY <1>2
    <3> QED
      BY <1>3, <3>1, Zenon
  <2>2. e = d
    BY <2>1 DEF e, d
  <2>3. Len(Sent) \in Nat
    BY <1>2
  <2> QED
    BY <1>6, <1>7, <2>2, <2>3
<1> DEFINE f == delivered[g + 1]
<1>9. f \in BusFrames /\ f \in Seq(Byte) /\ Len(f) \in Nat
  <2>1. f \in BusFrames
    BY <1>1, <1>3, <1>8 DEF TypeOK
  <2> QED
    BY <2>1, BusFrame
<1>10. PICK t \in Seq(Byte) : d = (e \o Encode(f)) \o t
  <2>1. \E t \in Seq(Byte) : d = (EncodeAll(SubSeq(delivered, 1, g)) \o Encode(f)) \o t
    BY <1>2, <1>3, <1>8, EncodeAllNext DEF d
  <2> QED
    BY <1>3, <2>1, Zenon DEF e
<1> HIDE DEF f
<1>11. /\ Len(Encode(f)) = HeaderSize + Len(f)
       /\ \A i \in 1 .. HeaderSize + Len(f) : d[Len(e) + i] = Encode(f)[i]
  <2> DEFINE c == Encode(f)
             start == e \o c
  <2>1. c \in Seq(Byte) /\ Len(c) = HeaderSize + Len(f)
    BY <1>9, EncodedBytes
  <2> HIDE DEF c
  <2>2. /\ start \in Seq(Byte) /\ Len(start) = Len(e) + Len(c)
        /\ \A i \in 1 .. Len(c) : start[Len(e) + i] = c[i]
    <3>1. e \in Seq(Byte) /\ c \in Seq(Byte)
      BY <1>2, <2>1
    <3> QED
      BY <3>1, ConcatElements
  <2>3. d = start \o t
    BY <1>10 DEF c
  <2> HIDE DEF start
  <2>4. \A i \in 1 .. Len(start) : d[i] = start[i]
    BY <2>2, <2>3, ConcatElements
  <2>5. Len(e) \in Nat /\ Len(c) \in Nat
    BY <1>2, <2>1
  <2>6. \A i \in 1 .. Len(c) : d[Len(e) + i] = c[i]
    BY <2>2, <2>4, <2>5
  <2> QED
    BY <2>1, <2>6 DEF c
<1>12. Len(bytes) <= HeaderSize + Len(f)
  <2>1. CASE partial = <<>>
    BY <1>4, <1>9, <2>1 DEF HeaderSize
  <2>2. CASE partial # <<>>
    <3>1. Len(partial) < HeaderSize + Len(f)
      BY <1>1, <2>2 DEF PartOfNextFrame, f
    <3> QED
      BY <1>2, <1>4, <1>9, <3>1 DEF HeaderSize
  <2> QED
    BY <2>1, <2>2
<1>13. ASSUME NEW i \in 1 .. Len(bytes) PROVE bytes[i] = Encode(f)[i]
  <2>1. /\ i \in 1 .. HeaderSize + Len(f) /\ Len(e) + i \in 1 .. Len(Sent)
    BY <1>2, <1>6, <1>9, <1>12 DEF HeaderSize
  <2> QED
    BY <1>6, <1>7, <1>11, <2>1
<1> QED
  BY <1>3, <1>4, <1>5, <1>8, <1>9, <1>12, <1>13 DEF NextFrame, Received, bytes, tail, e, f

\* So QEMU takes what it holds for complete when it is exactly the next frame, and only then.
LEMMA CompleteFrame ==
    ASSUME IInv, ~peerClosed, unread # <<>>
    PROVE  /\ CompleteWith(Received) <=> Len(Received) = HeaderSize + Len(NextFrame)
           /\ CompleteWith(Received) =>
                /\ Received = Encode(NextFrame)
                /\ SubSeq(Received, HeaderSize + 1, Len(Received)) = NextFrame
<1>1. /\ NextFrame \in BusFrames
      /\ Received \in Seq(Byte) /\ Len(Received) <= HeaderSize + Len(NextFrame)
      /\ \A i \in 1 .. Len(Received) : Received[i] = Encode(NextFrame)[i]
  BY ReceivedBytes
<1> DEFINE f == NextFrame
           r == Received
           c == Encode(f)
           h == WriteUintBe(Len(f))
<1>2. f \in Seq(Byte) /\ Len(f) \in Nat /\ Len(f) < SizeLimit
  BY <1>1, BusFrame
<1>3. /\ c \in Seq(Byte) /\ Len(c) = HeaderSize + Len(f)
      /\ \A j \in 1 .. HeaderSize : c[j] = h[j]
      /\ \A j \in 1 .. Len(f) : c[HeaderSize + j] = f[j]
  BY <1>2, EncodedBytes
<1>4. DecodeFrameSize(h) = Len(f)
  BY <1>2, DecodeInvertsWrite
<1>5. /\ r \in Seq(Byte) /\ Len(r) \in Nat /\ Len(r) <= HeaderSize + Len(f)
      /\ \A i \in 1 .. Len(r) : r[i] = c[i]
  BY <1>1
<1> HIDE DEF c, h, r, f
<1>6. Len(r) >= HeaderSize => DecodeFrameSize(r) = Len(f)
  <2> SUFFICES ASSUME Len(r) >= HeaderSize PROVE DecodeFrameSize(r) = Len(f)
    OBVIOUS
  <2>1. r[1] = h[1] /\ r[2] = h[2] /\ r[3] = h[3] /\ r[4] = h[4]
    BY <1>3, <1>5 DEF HeaderSize
  <2>2. DecodeFrameSize(r) = DecodeFrameSize(h)
    BY <2>1, Zenon DEF DecodeFrameSize
  <2> QED
    BY <1>4, <2>2
<1>7. CompleteWith(r) <=> Len(r) = HeaderSize + Len(f)
  BY <1>2, <1>5, <1>6 DEF CompleteWith, HeaderSize
<1>8. ASSUME Len(r) = HeaderSize + Len(f) PROVE r = c /\ SubSeq(r, HeaderSize + 1, Len(r)) = f
  <2>1. r = c
    BY <1>3, <1>5, <1>8, SeqEqual
  <2> DEFINE body == SubSeq(r, HeaderSize + 1, Len(r))
  <2>2. /\ body \in Seq(Byte) /\ Len(body) = Len(f)
        /\ \A j \in 1 .. Len(f) : body[j] = r[HeaderSize + j]
    BY <1>2, <1>5, <1>8 DEF HeaderSize
  <2> HIDE DEF body
  <2>3. \A j \in 1 .. Len(f) : body[j] = f[j]
    BY <1>3, <2>1, <2>2
  <2>4. body = f
    BY <1>2, <2>2, <2>3, SeqEqual
  <2> QED
    BY <2>1, <2>4 DEF body
<1> QED
  BY <1>7, <1>8 DEF c, r, f

\* A frame that QEMU completes moves from what it holds to what the guest has.
LEMMA QemuReadsIInv == ASSUME IInv, QemuReads PROVE IInv'
<1>1. /\ TypeOK /\ GuestGetsPrefix /\ BytesConserved /\ NothingInvented /\ PartOfNextFrame
      /\ HandlerState
  BY DEF IInv
<1>2. /\ ~peerClosed /\ unread # <<>> /\ unread' = Tail(unread)
      /\ UNCHANGED <<delivered, phase, rest, waiting, socketOpen, peerClosed>>
      /\ CompleteWith(Received) =>
            /\ partial' = <<>>
            /\ guestFrames' = Append(guestFrames, SubSeq(Received, HeaderSize + 1, Len(Received)))
      /\ ~CompleteWith(Received) => partial' = Received /\ guestFrames' = guestFrames
  BY DEF QemuReads, handlerVars, Received
<1>3. /\ Len(guestFrames) \in Nat /\ Len(guestFrames) < Len(delivered)
      /\ guestFrames = SubSeq(delivered, 1, Len(guestFrames))
      /\ NextFrame \in BusFrames
      /\ Received \in Seq(Byte) /\ Len(Received) <= HeaderSize + Len(NextFrame)
      /\ Sent = (EncodeAll(guestFrames) \o Received) \o Tail(unread)
  BY <1>2, ReceivedBytes
<1>4. NextFrame \in Seq(Byte) /\ Len(NextFrame) \in Nat
  BY <1>3, BusFrame
<1>5. /\ delivered \in Seq(Seq(Byte)) /\ guestFrames \in Seq(Seq(Byte))
      /\ unread \in Seq(Byte) /\ EncodeAll(guestFrames) \in Seq(Byte)
  BY <1>1, Types
<1>6. ASSUME CompleteWith(Received)
      PROVE  /\ guestFrames' = Append(guestFrames, NextFrame)
             /\ guestFrames' = SubSeq(delivered, 1, Len(guestFrames) + 1)
             /\ partial' = <<>> /\ Sent' = Sent
  <2>1. /\ Received = Encode(NextFrame)
        /\ SubSeq(Received, HeaderSize + 1, Len(Received)) = NextFrame
    BY <1>2, <1>6, CompleteFrame
  <2>2. guestFrames' = Append(guestFrames, NextFrame) /\ partial' = <<>>
    BY <1>2, <1>6, <2>1
  <2>3. SubSeq(delivered, 1, Len(guestFrames) + 1) = Append(guestFrames, NextFrame)
    BY <1>3, <1>5, OneMoreElement DEF NextFrame
  <2>4. EncodeAll(guestFrames') = EncodeAll(guestFrames) \o Received
    BY <1>4, <1>5, <2>1, <2>2, EncodeAllAppend
  <2>5. EncodeAll(guestFrames') \o <<>> = EncodeAll(guestFrames')
    <3>1. EncodeAll(guestFrames) \o Received \in Seq(Byte)
      BY <1>3, <1>5
    <3> QED
      BY <2>4, <3>1
  <2>6. Sent' = (EncodeAll(guestFrames') \o <<>>) \o Tail(unread)
    BY <1>2, <2>2 DEF Sent
  <2>7. Sent' = Sent
    BY <1>3, <2>4, <2>5, <2>6, Zenon
  <2> QED
    BY <2>2, <2>3, <2>7
<1>7. ASSUME ~CompleteWith(Received)
      PROVE  guestFrames' = guestFrames /\ partial' = Received /\ Sent' = Sent
    BY <1>2, <1>3, <1>7 DEF Sent
<1>8. Sent' = Sent
  BY <1>6, <1>7
<1>9. TypeOK'
  <2>1. Tail(unread) \in Seq(Byte) /\ Len(Tail(unread)) <= Len(unread)
    BY <1>2, <1>5
  <2>2. unread' \in Seq(Byte) /\ Len(unread') <= Window
    <3>1. Len(unread) <= Window /\ Len(unread) \in Nat /\ Len(Tail(unread)) \in Nat /\ Window \in Nat
      BY <1>1, <1>5, <2>1, WindowAssumption DEF TypeOK
    <3> QED
      BY <1>2, <2>1, <3>1
  <2>3. partial' \in Seq(Byte) /\ guestFrames' \in Seq(Seq(Byte))
    <3>1. Append(guestFrames, NextFrame) \in Seq(Seq(Byte)) /\ <<>> \in Seq(Byte)
      BY <1>4, <1>5
    <3> QED
      BY <1>3, <1>5, <1>6, <1>7, <3>1
  <2> QED
    BY <1>1, <1>2, <2>2, <2>3 DEF TypeOK
<1>10. GuestGetsPrefix'
  <2>1. CASE CompleteWith(Received)
    <3> DEFINE k == Len(guestFrames) + 1
               taken == SubSeq(delivered, 1, k)
    <3>1. k \in Nat /\ k <= Len(delivered) /\ taken \in Seq(Seq(Byte)) /\ Len(taken) = k
      BY <1>3, <1>5
    <3>2. SubSeq(taken, 1, k) = taken
      BY <3>1
    <3>3. IsPrefix(taken, delivered)
      BY <3>1, <3>2 DEF IsPrefix
    <3>4. guestFrames' = taken /\ delivered' = delivered
      BY <1>2, <1>6, <2>1
    <3> QED
      BY <3>3, <3>4, Zenon DEF GuestGetsPrefix
  <2>2. CASE ~CompleteWith(Received)
    BY <1>1, <1>2, <1>7, <2>2 DEF GuestGetsPrefix
  <2> QED
    BY <2>1, <2>2
<1>11. BytesConserved' /\ NothingInvented'
  <2>1. ToWrite' = ToWrite
    BY <1>2 DEF ToWrite
  <2>2. socketOpen => Sent' \o ToWrite' = EncodeAll(delivered')
    BY <1>1, <1>2, <1>8, <2>1 DEF BytesConserved, Sent
  <2>3. IsPrefix(Sent', EncodeAll(delivered'))
    BY <1>1, <1>2, <1>8 DEF NothingInvented, Sent
  <2> QED
    BY <1>2, <2>2, <2>3 DEF BytesConserved, NothingInvented, Sent
<1>12. PartOfNextFrame'
  <2>1. CASE CompleteWith(Received)
    BY <1>6, <2>1 DEF PartOfNextFrame
  <2>2. CASE ~CompleteWith(Received)
    <3>1. Len(Received) # HeaderSize + Len(NextFrame)
      BY <1>2, <2>2, CompleteFrame
    <3>2. Len(Received) < HeaderSize + Len(NextFrame)
      BY <1>3, <1>4, <3>1 DEF HeaderSize
    <3> QED
      BY <1>2, <1>3, <1>7, <2>2, <3>2 DEF PartOfNextFrame, NextFrame
  <2> QED
    BY <2>1, <2>2
<1>13. HandlerState'
  BY <1>1, <1>2 DEF HandlerState
<1> QED
  BY <1>9, <1>10, <1>11, <1>12, <1>13 DEF IInv

----------------------------------------------------------------------------
(***************************************************************************)
(* The invariant holds throughout, whichever of the three threads of       *)
(* control moves.                                                          *)
(***************************************************************************)
THEOREM Invariance == Spec => []IInv
<1>1. Init => IInv
  BY InitIInv
<1>2. IInv /\ [Next]_vars => IInv'
  <2> SUFFICES ASSUME IInv, [Next]_vars PROVE IInv'
    OBVIOUS
  <2>1. CASE UNCHANGED vars
    <3>1. UNCHANGED <<delivered, phase, rest, waiting, unread, socketOpen, peerClosed, partial, guestFrames>>
      BY <2>1 DEF vars, handlerVars, qemuVars
    <3> QED
      BY <3>1 DEF IInv, TypeOK, GuestGetsPrefix, BytesConserved, NothingInvented,
                  PartOfNextFrame, HandlerState, ToWrite
  <2> QED
    BY <2>1, OnFrameIInv, WriteSomeIInv, WriteReturnsIInv, WriteThrowsIInv, WaitingIInv,
       IoThreadClosesIInv, QemuReadsIInv, QemuGoesIInv DEF Next
<1> QED
  BY <1>1, <1>2, PTL DEF Spec

\* The variables of the writing direction keep their types, and the connection its bound.
THEOREM TypeCorrect == Spec => []TypeOK
<1>1. IInv => TypeOK
  BY DEF IInv
<1> QED
  BY <1>1, Invariance, PTL

(***************************************************************************)
(* The guest gets the frames of the bus complete, in order and with none   *)
(* missing in between, for any frames of less than 2^32 bytes, wherever a  *)
(* write is cut and whenever the socket is closed or QEMU goes.            *)
(***************************************************************************)
THEOREM WholeFramesInOrder == Spec => []GuestGetsPrefix
<1>1. IInv => GuestGetsPrefix
  BY DEF IInv
<1> QED
  BY <1>1, Invariance, PTL

\* While the connection is up no byte is lost or invented on the way to QEMU.
THEOREM NoByteLost == Spec => []BytesConserved
<1>1. IInv => BytesConserved
  BY DEF IInv
<1> QED
  BY <1>1, Invariance, PTL

(***************************************************************************)
(* The two blocking writes implement the abstract relay: calling the       *)
(* handler is Write, the byte that completes a frame is Relay, and QEMU's  *)
(* going is LinkLost; every other step leaves what the relay sees alone.   *)
(***************************************************************************)
THEOREM Refinement == Spec => Relay!Spec
<1>1. Init => Relay!Init
  BY DEF Init, Relay!Init
<1>2. IInv /\ [Next]_vars => [Relay!Next]_Relay!vars
  <2> SUFFICES ASSUME IInv, [Next]_vars PROVE [Relay!Next]_Relay!vars
    OBVIOUS
  <2>1. ASSUME NEW frame \in BusFrames, OnFrame(frame) PROVE Relay!Write
    BY <2>1 DEF OnFrame, qemuVars, Relay!Write
  <2>2. ASSUME NEW n \in 1 .. Len(rest), WriteSome(n) PROVE UNCHANGED Relay!vars
    BY <2>2 DEF WriteSome, qemuVars, Relay!vars
  <2>3. CASE Waits \/ Wakes \/ WriteReturns \/ WriteThrows \/ IoThreadCloses
    BY <2>3 DEF Waits, Wakes, WriteReturns, WriteThrows, IoThreadCloses, handlerVars, qemuVars, Relay!vars
  <2>4. ASSUME QemuReads PROVE Relay!Relay \/ UNCHANGED Relay!vars
    <3>1. ~peerClosed /\ unread # <<>> /\ delivered' = delivered /\ peerClosed' = peerClosed
      BY <2>4 DEF QemuReads, handlerVars
    <3>2. CASE ~CompleteWith(Received)
      BY <2>4, <3>1, <3>2 DEF QemuReads, Received, Relay!vars
    <3>3. CASE CompleteWith(Received)
      <4>1. guestFrames' = Append(guestFrames, NextFrame)
        BY <2>4, <3>1, <3>3, CompleteFrame DEF QemuReads, Received
      <4>2. /\ Len(guestFrames) \in Nat /\ Len(guestFrames) < Len(delivered)
            /\ NextFrame \in BusFrames
        BY <3>1, ReceivedBytes
      <4>3. Relay!Pending
        BY <4>2 DEF Relay!Pending
      <4>4. Relay!NextFrame = NextFrame
        <5>1. ~(Len(NextFrame) < 0)
          BY <4>2, BusFrame
        <5> QED
          BY <5>1 DEF Relay!NextFrame, Relay!PadFrame, NextFrame
      <4> QED
        BY <3>1, <4>1, <4>3, <4>4 DEF Relay!Relay
    <3> QED
      BY <3>2, <3>3
  <2>5. ASSUME QemuGoes PROVE Relay!LinkLost
    BY <2>5 DEF QemuGoes, handlerVars, Relay!LinkLost
  <2>6. CASE UNCHANGED vars
    BY <2>6 DEF vars, handlerVars, qemuVars, Relay!vars
  <2> QED
    BY <2>1, <2>2, <2>3, <2>4, <2>5, <2>6 DEF Next, Relay!Next
<1> QED
  BY <1>1, <1>2, Invariance, PTL DEF Spec, Relay!Spec
=============================================================================
