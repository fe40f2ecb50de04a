-------------------------- MODULE InternetChecksum --------------------------
(***************************************************************************)
(* The class InternetChecksum, which BufferReader and BufferWriter feed    *)
(* with each field they read or write.  Fields have odd and even sizes, so *)
(* a byte without a partner is kept until the next one comes.  An object   *)
(* is a record of its accumulator and of the partial pair: no byte or one. *)
(***************************************************************************)
EXTENDS ChecksumArithmetic

NewChecksum == [accumulator |-> 0, partial |-> <<>>]

\* The pairs of the buffer, count of them, from the byte behind the first ones on.
PairsFrom(buffer, first, count) ==
    LET sum[i \in 0 .. count] ==
            IF i = 0 THEN 0
            ELSE sum[i - 1] + Pair(buffer[first + (2 * i - 1)], buffer[first + 2 * i])
    IN  sum[count]

\* Mutant: every buffer starts a new word.
NothingTaken(checksum, buffer) == 0

\* How many bytes complete the pair that was left open.
Taken(checksum, buffer) == IF checksum.partial # <<>> /\ buffer # <<>> THEN 1 ELSE 0

\* Mutant: the odd byte at the end is dropped.
NothingKept(checksum, buffer) == <<>>

\* The byte that is left without a partner.
Kept(checksum, buffer) ==
    IF (Len(buffer) - Taken(checksum, buffer)) % 2 = 1 THEN <<buffer[Len(buffer)]>>
    ELSE IF Taken(checksum, buffer) = 1 THEN <<>>
    ELSE checksum.partial

AddBuffer(checksum, buffer) ==
    LET taken == Taken(checksum, buffer)
        completed == IF taken = 1 THEN Pair(checksum.partial[1], buffer[1]) ELSE 0
        count == (Len(buffer) - taken) \div 2
    IN  [accumulator |-> checksum.accumulator + completed + PairsFrom(buffer, taken, count),
         partial |-> Kept(checksum, buffer)]

\* The sum GetChecksum folds.
Total(checksum) ==
    checksum.accumulator
        + (IF checksum.partial = <<>> THEN 0 ELSE checksum.partial[1] * ByteBase)

GetChecksum(checksum) == ChecksumOf(Total(checksum))
=============================================================================
