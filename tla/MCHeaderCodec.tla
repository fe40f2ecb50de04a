--------------------------- MODULE MCHeaderCodec ---------------------------
(***************************************************************************)
(* The device's five formats, with bytes of base 4, and three of every     *)
(* order of odd, even, empty and skipped fields: their words are small, so *)
(* sums carry.  The values of a field are all zeros, all ones and one      *)
(* whose bytes differ; the buffer fits or is one byte short.  The checksum *)
(* of an ICMP message is written as zero.                                  *)
(***************************************************************************)
EXTENDS HeaderCodec

\* The bytes of a field's value, by the kind of filling and the place of the field.
Filling(fill, i, size) ==
    [j \in 1 .. size |->
        CASE fill = "zeros" -> 0 [] fill = "ones" -> ByteBase - 1 [] OTHER -> (i + j) % ByteBase]

ValuesOf(format, fill, checksumField) ==
    [i \in DOMAIN format |->
        CASE i = checksumField -> 0
          [] format[i].kind = "number" -> FromBigEndian(Filling(fill, i, format[i].size))
          [] OTHER -> Filling(fill, i, format[i].size)]

HeadersIn(format, checksumField) ==
    {[format |-> format, values |-> ValuesOf(format, fill, checksumField),
      checksumField |-> checksumField, room |-> room] :
        fill \in {"zeros", "ones", "mixed"}, room \in {SizeOf(format), SizeOf(format) + 1} \cup
            (IF SizeOf(format) = 0 THEN {} ELSE {SizeOf(format) - 1})}

SmallFields == {Number(1), Number(2), Bytes(3), Address(0), Gap(1)}

MCHeaders ==
    UNION {HeadersIn(format, 0) :
        format \in {EthernetFormat(0), EthernetFormat(1), EthernetFormat(2), ArpFormat}
            \cup [1 .. 3 -> SmallFields]}
    \cup {[h EXCEPT !.values[3] = 0] : h \in HeadersIn(IcmpFormat, 0)}
    \cup HeadersIn(Ip4Format, Ip4ChecksumField)
    \cup HeadersIn(<<Number(2), Number(2), Bytes(3), Number(1)>>, 2)
=============================================================================
