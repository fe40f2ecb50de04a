----------------------------- MODULE HeaderCodec -----------------------------
(***************************************************************************)
(* How the echo device writes a header into a buffer and reads one out of  *)
(* it: field by field with a cursor that moves on (BufferWriter and        *)
(* BufferReader for IPv4 and the writing of ICMP, WriteUintBe and          *)
(* ReadUintBe with an advancing buffer for the others).  The cursor sums   *)
(* up the bytes it passes; the IPv4 checksum is put into its field last.   *)
(* The buffer may be too short, and a frame may end anywhere.              *)
(***************************************************************************)
EXTENDS InternetChecksum, SequencesExt

CONSTANT Headers        \* [format, values, checksumField, room] to be written

Kinds == {"number", "address", "bytes", "gap"}
Number(size) == [kind |-> "number", size |-> size]      \* an unsigned or enum of that size
Address(size) == [kind |-> "address", size |-> size]    \* what ReadEthernetAddress reads
Bytes(size) == [kind |-> "bytes", size |-> size]        \* what ReadInto reads
Gap(size) == [kind |-> "gap", size |-> size]            \* skipped

EthernetAddress == Address(6)
Ip4Address == Address(4)
VlanTag == <<Number(2), Number(2)>>
EthernetFormat(tags) ==
    <<EthernetAddress, EthernetAddress>> \o FlattenSeq([i \in 1 .. tags |-> VlanTag]) \o <<Number(2)>>
ArpFormat ==
    <<Number(2), Number(2), Number(1), Number(1), Number(2),
      EthernetAddress, Ip4Address, EthernetAddress, Ip4Address>>
Ip4Format ==
    <<Number(1), Number(1), Number(2), Number(2), Number(2), Number(1), Number(1), Number(2),
      Bytes(4), Bytes(4)>>
Ip4ChecksumField == 8
IcmpFormat == <<Number(1), Number(1), Number(2)>>

\* The offset behind the first n fields.
OffsetAfter(format, n) ==
    LET offset[i \in 0 .. Len(format)] ==
            IF i = 0 THEN 0 ELSE offset[i - 1] + format[i].size
    IN  offset[n]

SizeOf(format) == OffsetAfter(format, Len(format))

\* value >> count * 8u
Shifted(value, count) ==
    LET shifted[i \in 0 .. count] == IF i = 0 THEN value ELSE shifted[i - 1] \div ByteBase
    IN  shifted[count]

\* What a field may hold: an unsigned of its size, an array of its size.
HasValue(field, value) ==
    /\ field.kind = "number" => value \in Nat /\ Shifted(value, field.size) = 0
    /\ field.kind \in {"address", "bytes"} => value \in [1 .. field.size -> Octet]

\* An IPv4 checksum is summed up as a word of its own, which is zero at first.
HasChecksumField(h) ==
    /\ h.format[h.checksumField] = Number(2) /\ h.values[h.checksumField] = 0
    /\ OffsetAfter(h.format, h.checksumField - 1) % 2 = 0
    /\ \A i \in 1 .. h.checksumField - 1 : h.format[i].kind # "gap"
    /\ SizeOf(h.format) < 2 * WordBase

ASSUME HeadersAssumption ==
    \A h \in Headers :
        /\ h.format \in Seq([kind : Kinds, size : Nat])
        /\ DOMAIN h.values = DOMAIN h.format
        /\ \A i \in DOMAIN h.format : HasValue(h.format[i], h.values[i])
        /\ h.checksumField \in 0 .. Len(h.format)
        /\ h.checksumField # 0 => HasChecksumField(h)
        /\ h.room \in Nat

VARIABLES
    header,     \* what is written
    pc,         \* "write", "read", "done", or "thrown" by either
    buffer,     \* the frame's bytes
    cursor,     \* the offset and the checksum of the BufferWriter, then the BufferReader
    passed,     \* the bytes the cursor has summed up
    got         \* the values read so far

vars == <<header, pc, buffer, cursor, passed, got>>

NewCursor == [offset |-> 0, field |-> 1, checksum |-> NewChecksum]

\* AllocateBuffer gives zeros.
Init ==
    /\ header \in Headers
    /\ pc = "write"
    /\ buffer = [i \in 1 .. header.room |-> 0]
    /\ cursor = NewCursor
    /\ passed = <<>>
    /\ got = <<>>

----------------------------------------------------------------------------
\* Mutant: the bytes in the order of the host.
LittleEndian(value, size) == [i \in 1 .. size |-> Shifted(value, i - 1) % ByteBase]

BigEndian(value, size) == [i \in 1 .. size |-> Shifted(value, size - i) % ByteBase]

\* The bytes joined, the first the uppermost.
FromBigEndian(bytes) ==
    LET value[i \in 0 .. Len(bytes)] == IF i = 0 THEN 0 ELSE value[i - 1] * ByteBase + bytes[i]
    IN  value[Len(bytes)]

\* Mutant: the last byte of the buffer is not used.
FitsBelow(offset, count) == count = 0 \/ offset + count < Len(buffer)

\* CheckPutAt and CheckGetAt; a buffer advanced behind its end is empty.
Fits(offset, count) == count = 0 \/ offset + count <= Len(buffer)

Put(offset, bytes) ==
    [i \in DOMAIN buffer |->
        IF i \in offset + 1 .. offset + Len(bytes) THEN bytes[i - offset] ELSE buffer[i]]
Get(offset, count) == SubSeq(buffer, offset + 1, offset + count)

\* The field at the cursor; there is none behind the last.
AtField == cursor.field <= Len(header.format)
Field == header.format[cursor.field]
Value == header.values[cursor.field]

Pass(bytes) ==
    /\ cursor' = [offset |-> cursor.offset + Field.size, field |-> cursor.field + 1,
                  checksum |-> AddBuffer(cursor.checksum, bytes)]
    /\ passed' = passed \o bytes

Throw == pc' = "thrown" /\ UNCHANGED <<cursor, passed, got>>

Skip ==
    /\ pc \in {"write", "read"} /\ AtField /\ Field.kind = "gap"
    /\ Pass(<<>>)
    /\ got' = IF pc = "read" THEN Append(got, 0) ELSE got
    /\ UNCHANGED <<header, pc, buffer>>

\* Write, WriteBe, WriteEthernetAddress; the last copies what fits before it throws.
WriteField ==
    LET bytes == IF Field.kind = "number" THEN BigEndian(Value, Field.size) ELSE Value
    IN  /\ pc = "write" /\ AtField /\ Field.kind # "gap"
        /\ IF Fits(cursor.offset, Field.size)
           THEN buffer' = Put(cursor.offset, bytes) /\ Pass(bytes) /\ UNCHANGED <<pc, got>>
           ELSE /\ buffer' = IF Field.kind = "address" THEN Put(cursor.offset, bytes) ELSE buffer
                /\ Throw
        /\ UNCHANGED header

\* Mutant: the checksum is put where the cursor is.
PatchedAtCursor == Put(cursor.offset, BigEndian(GetChecksum(cursor.checksum), 2))

\* WriteIp4Header puts the checksum into the field it has left zero; the cursor stays.
Patched ==
    IF header.checksumField = 0 THEN buffer
    ELSE Put(OffsetAfter(header.format, header.checksumField - 1),
             BigEndian(GetChecksum(cursor.checksum), 2))

\* The header is complete, and the frame ends behind its first n bytes where it is read.
Arrive(n) ==
    /\ pc = "write" /\ ~AtField
    /\ buffer' = SubSeq(Patched, 1, n)
    /\ pc' = "read" /\ cursor' = NewCursor /\ passed' = <<>>
    /\ UNCHANGED <<header, got>>

\* ReadInto, ReadBe.
ReadField ==
    LET bytes == Get(cursor.offset, Field.size)
        value == IF Field.kind = "number" THEN FromBigEndian(bytes) ELSE bytes
    IN  /\ pc = "read" /\ AtField /\ Field.kind # "gap"
        /\ IF Fits(cursor.offset, Field.size)
           THEN got' = Append(got, value) /\ Pass(bytes) /\ UNCHANGED pc
           ELSE Throw
        /\ UNCHANGED <<header, buffer>>

Return ==
    /\ pc = "read" /\ ~AtField
    /\ pc' = "done"
    /\ UNCHANGED <<header, buffer, cursor, passed, got>>

Next ==
    \/ Skip \/ WriteField
    \/ \E n \in 0 .. Len(buffer) : Arrive(n)
    \/ ReadField \/ Return

Spec == Init /\ [][Next]_vars

----------------------------------------------------------------------------
TypeOK ==
    /\ pc \in {"write", "read", "done", "thrown"}
    /\ buffer \in Seq(Octet)
    /\ cursor.offset \in Nat /\ cursor.checksum.accumulator \in Nat
    /\ Len(cursor.checksum.partial) = Len(passed) % 2
    /\ passed \in Seq(Octet)
    /\ Len(got) <= Len(header.format)

(***************************************************************************)
(* The sum depends on the bytes only, never on how the fields cut them     *)
(* into buffers: an odd field followed by an even one, an empty one in     *)
(* between, a single last byte.                                            *)
(***************************************************************************)
ChunkingIndependent == Total(cursor.checksum) = WordSum(passed)

\* What is read are the values that were written, up to where the frame ends.
FieldsReadBack ==
    \A i \in DOMAIN got :
        header.format[i].kind # "gap" /\ i # header.checksumField => got[i] = header.values[i]

(***************************************************************************)
(* A receiver accepts the header whenever adding the two halves of the sum *)
(* carries no further.  (Where it does carry the checksum is wrong:        *)
(* EchoNetwork shows what comes of it.)                                    *)
(***************************************************************************)
AcceptedWithoutSecondCarry ==
    LET sum == Total(cursor.checksum)
        carries == FoldOnce(sum - got[header.checksumField]) >= WordBase
    IN  pc = "done" /\ header.checksumField # 0 => carries \/ FoldCarries[sum] = AllOnes

(***************************************************************************)
(* A header that does not fit is refused and one that does is not, whether *)
(* it is written or read: nothing is taken from behind the end, where the  *)
(* rest of an earlier frame or foreign memory would be.                    *)
(***************************************************************************)
RefusedWhenShort ==
    LET IsLast(i) == \A j \in i + 1 .. Len(header.format) : header.format[j].size = 0
        endsInField ==
            \E i \in DOMAIN header.format :
                header.format[i].kind # "gap" /\ header.format[i].size > 0 /\ IsLast(i)
    IN  /\ pc = "thrown" => Len(buffer) < SizeOf(header.format)
        /\ pc = "done" /\ endsInField => Len(buffer) >= SizeOf(header.format)
=============================================================================
