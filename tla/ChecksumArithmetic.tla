------------------------- MODULE ChecksumArithmetic -------------------------
(***************************************************************************)
(* The arithmetic of the Internet checksum: the sum of the data's 16-bit   *)
(* words, folded to 16 bits and complemented.  ByteBase is 256 in the      *)
(* program.                                                                *)
(***************************************************************************)
EXTENDS Naturals, Sequences

CONSTANT ByteBase

ASSUME ChecksumByteBaseAssumption == ByteBase \in Nat /\ ByteBase > 1

Octet == 0 .. ByteBase - 1
WordBase == ByteBase * ByteBase
AllOnes == WordBase - 1

\* The word of two bytes.
Pair(a, b) == a * ByteBase + b

\* std::uint16_t(accumulator >> 16) and std::uint16_t(accumulator).
High(sum) == (sum \div WordBase) % WordBase
Low(sum) == sum % WordBase

\* The two halves added once; what they carry is not added again.
FoldOnce(sum) == High(sum) + Low(sum)

\* The complement of the folded sum, cut to 16 bits.
ChecksumOf(sum) == AllOnes - (FoldOnce(sum) % WordBase)

----------------------------------------------------------------------------
(* The definition of RFC 1071: carries are added until none is left. *)

FoldCarries[sum \in Nat] ==
    IF sum < WordBase THEN sum ELSE FoldCarries[(sum \div WordBase) + (sum % WordBase)]

\* A receiver adds up data and checksum and accepts the packet when the result is all ones.
Accepts(sum, checksum) == FoldCarries[sum + checksum] = AllOnes

\* The sum of the words of a sequence of bytes, an odd last one being an upper half.
WordSum(bytes) ==
    LET sum[i \in 0 .. Len(bytes)] ==
            IF i = 0 THEN 0
            ELSE sum[i - 1] + bytes[i] * (IF i % 2 = 1 THEN ByteBase ELSE 1)
    IN  sum[Len(bytes)]
=============================================================================
