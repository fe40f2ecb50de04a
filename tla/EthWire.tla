------------------------------ MODULE EthWire ------------------------------
(***************************************************************************)
(* The wire format between QEMU's "-netdev socket" and the adapter: every  *)
(* Ethernet frame is preceded by its size, an unsigned 32-bit number in    *)
(* big-endian order.  The adapter reads a frame into a fixed buffer and    *)
(* pads a short frame with zeros before it gives it to SIL Kit.            *)
(*                                                                         *)
(* In the program ByteBase is 256, MinFrameSize 60 and BufferSize 4096;    *)
(* they are parameters so that TLC can use small ones.                     *)
(***************************************************************************)
EXTENDS Naturals, Sequences

CONSTANTS
    ByteBase,       \* how many values a byte has
    MinFrameSize,   \* a shorter frame is padded to this size
    BufferSize      \* size of the adapter's frame buffer

ASSUME ByteBaseAssumption == ByteBase \in Nat /\ ByteBase > 1
ASSUME MinFrameSizeAssumption == MinFrameSize \in Nat
ASSUME BufferSizeAssumption == BufferSize \in Nat

Byte == 0 .. ByteBase - 1

HeaderSize == 4
Header == [1 .. HeaderSize -> Byte]

(***************************************************************************)
(* The four bytes of a size, the most significant first.  A size beyond    *)
(* 32 bits loses its upper part, as the conversion to std::uint32_t does.  *)
(***************************************************************************)
WriteUintBe(value) ==
    LET high == value \div ByteBase
        higher == high \div ByteBase
        highest == higher \div ByteBase
    IN  <<highest % ByteBase, higher % ByteBase, high % ByteBase, value % ByteBase>>

\* Mutant: the bytes taken in the order of the host.
DecodeFrameSizeLittleEndian(bytes) ==
    ((bytes[4] * ByteBase + bytes[3]) * ByteBase + bytes[2]) * ByteBase + bytes[1]

\* The size that four received bytes denote.
DecodeFrameSize(bytes) ==
    ((bytes[1] * ByteBase + bytes[2]) * ByteBase + bytes[3]) * ByteBase + bytes[4]

\* The sizes four bytes can denote are those below this one.
SizeLimit == ByteBase * (ByteBase * (ByteBase * ByteBase))

\* What the adapter hands to SIL Kit for the bytes of a received frame.
PadFrame(bytes) ==
    IF Len(bytes) < MinFrameSize
    THEN [i \in 1 .. MinFrameSize |-> IF i <= Len(bytes) THEN bytes[i] ELSE 0]
    ELSE bytes

\* A frame as it travels on the socket.
Encode(frame) == WriteUintBe(Len(frame)) \o frame
=============================================================================
