-------------------------- MODULE HeaderCodecProofs --------------------------
(***************************************************************************)
(* Proofs about the header codecs, for every byte base and every set of    *)
(* headers that HeadersAssumption admits.                                  *)
(***************************************************************************)
EXTENDS HeaderCodec, SequenceLemmas, TLAPS

(* What the recursive functions of the model compute. *)

\* What a byte at a place counts in the sum.
Weight(i) == IF i % 2 = 1 THEN ByteBase ELSE 1

\* The sums of the first bytes.
Sums(bytes, f) ==
    /\ f \in [0 .. Len(bytes) -> Nat] /\ f[0] = 0
    /\ \A i \in 1 .. Len(bytes) : f[i] = f[i - 1] + bytes[i] * Weight(i)

\* A product of naturals is natural.
LEMMA Product == \A a, b \in Nat : a * b \in Nat
  OBVIOUS

\* Bytes, their number and words are naturals.
LEMMA Numbers ==
    /\ ByteBase \in Nat /\ ByteBase > 1 /\ Octet \subseteq Nat /\ 0 \in Octet
    /\ \A i \in Nat : Weight(i) \in Nat
    /\ WordBase \in Nat /\ WordBase > ByteBase /\ AllOnes \in Nat
<1>1. ByteBase \in Nat /\ ByteBase > 1
  BY ChecksumByteBaseAssumption
<1>2. ByteBase * ByteBase \in Nat /\ ByteBase * ByteBase > ByteBase
  BY <1>1, Z3
<1> QED
  BY <1>1, <1>2 DEF Octet, Weight, WordBase, AllOnes

\* There are such sums, and WordSum is the last of them.
LEMMA WordSumValue ==
    ASSUME NEW bytes \in Seq(Octet)
    PROVE  /\ \E f : Sums(bytes, f)
           /\ \A f : Sums(bytes, f) => WordSum(bytes) = f[Len(bytes)]
<1> DEFINE n == Len(bytes)
           Step == [p \in (1 .. n) \X Nat |-> p[2] + bytes[p[1]] * Weight(p[1])]
           Equation(f) ==
              f = [i \in 0 .. n |->
                     IF i = 0 THEN 0 ELSE f[i - 1] + bytes[i] * (IF i % 2 = 1 THEN ByteBase ELSE 1)]
<1>1. n \in Nat /\ \A i \in 1 .. n : bytes[i] \in Octet
  OBVIOUS
<1>2. \A i \in 1 .. n : bytes[i] * Weight(i) \in Nat
  <2> TAKE i \in 1 .. n
  <2>1. i \in Nat /\ bytes[i] \in Octet
    BY <1>1
  <2>2. bytes[i] \in Nat /\ Weight(i) \in Nat
    BY <2>1, Numbers, Zenon
  <2> QED
    BY <2>2, Product
<1>3. \E f : Sums(bytes, f)
  <2>1. \A i \in 1 .. n : \A v \in Nat : Step[<<i, v>>] = v + bytes[i] * Weight(i)
    OBVIOUS
  <2> HIDE DEF Step
  <2>2. ASSUME NEW i \in 1 .. n, NEW v \in Nat PROVE Step[<<i, v>>] \in Nat
    <3>1. bytes[i] * Weight(i) \in Nat
      BY <1>2
    <3>2. \A w \in Nat : v + w \in Nat
      OBVIOUS
    <3> QED
      BY <2>1, <3>1, <3>2, Zenon
  <2>3. PICK f \in [0 .. n -> Nat] : Recursion(0, n, Step, f)
    BY <1>1, <2>2, RecursionExists
  <2>4. ASSUME NEW i \in 1 .. n PROVE f[i] = f[i - 1] + bytes[i] * Weight(i)
    <3>1. i - 1 \in 0 .. n
      BY <1>1
    <3>2. f[i - 1] \in Nat /\ f[i] = Step[<<i, f[i - 1]>>]
      BY <2>3, <3>1 DEF Recursion
    <3> QED
      BY <2>1, <3>2, Zenon
  <2>5. Sums(bytes, f)
    BY <2>3, <2>4 DEF Sums, Recursion
  <2> QED
    BY <2>5
<1>4. ASSUME NEW f, Sums(bytes, f) PROVE WordSum(bytes) = f[n]
  <2>1. \A i \in 0 .. n :
          f[i] = IF i = 0 THEN 0 ELSE f[i - 1] + bytes[i] * (IF i % 2 = 1 THEN ByteBase ELSE 1)
    BY <1>4 DEF Sums, Weight
  <2>2. Equation(f)
    BY <1>4, <2>1 DEF Sums
  <2> DEFINE g == CHOOSE h : Equation(h)
  <2>3. WordSum(bytes) = g[n]
    BY DEF WordSum
  <2>4. Equation(g)
    BY <2>2, Zenon
  <2> HIDE DEF g
  <2>5. g[0] = f[0]
    BY <1>1, <1>4, <2>4 DEF Sums
  <2>6. ASSUME NEW i \in 1 .. n, g[i - 1] = f[i - 1] PROVE g[i] = f[i]
    <3>1. i \in 0 .. n /\ i # 0
      BY <1>1
    <3>2. g[i] = g[i - 1] + bytes[i] * (IF i % 2 = 1 THEN ByteBase ELSE 1)
      BY <2>4, <3>1
    <3> QED
      BY <2>1, <2>6, <3>1, <3>2
  <2>7. \A i \in 0 .. n : g[i] = f[i]
    <3> HIDE DEF Equation
    <3> QED
      BY <1>1, <2>5, <2>6, SameValues
  <2> QED
    BY <1>1, <2>3, <2>7
<1> QED
  BY <1>3, <1>4

\* The offset behind no field is zero, and each field moves it on by its size.
LEMMA Offsets ==
    ASSUME NEW format \in Seq([kind : Kinds, size : Nat])
    PROVE  /\ OffsetAfter(format, 0) = 0
           /\ \A k \in 0 .. Len(format) : OffsetAfter(format, k) \in Nat
           /\ \A k \in 1 .. Len(format) :
                OffsetAfter(format, k) = OffsetAfter(format, k - 1) + format[k].size
<1> DEFINE n == Len(format)
           Step == [p \in (1 .. n) \X Nat |-> p[2] + format[p[1]].size]
           Equation(f) == f = [i \in 0 .. n |-> IF i = 0 THEN 0 ELSE f[i - 1] + format[i].size]
<1>1. n \in Nat /\ \A i \in 1 .. n : format[i].size \in Nat
  <2>1. \A i \in 1 .. n : format[i] \in [kind : Kinds, size : Nat]
    BY ElementOfSeq, Zenon
  <2>2. \A field \in [kind : Kinds, size : Nat] : field.size \in Nat
    OBVIOUS
  <2> QED
    BY <2>1, <2>2
<1>2. \A i \in 1 .. n : \A v \in Nat : Step[<<i, v>>] = v + format[i].size
  OBVIOUS
<1> HIDE DEF Step
<1>3. ASSUME NEW i \in 1 .. n, NEW v \in Nat PROVE Step[<<i, v>>] \in Nat
  <2>1. Step[<<i, v>>] = v + format[i].size /\ format[i].size \in Nat
    BY <1>1, <1>2
  <2> QED
    BY <2>1
<1>4. PICK f \in [0 .. n -> Nat] : Recursion(0, n, Step, f)
  BY <1>1, <1>3, RecursionExists
<1>5. ASSUME NEW i \in 1 .. n PROVE f[i] = f[i - 1] + format[i].size
  <2>1. i - 1 \in 0 .. n
    BY <1>1
  <2>2. f[i - 1] \in Nat /\ f[i] = Step[<<i, f[i - 1]>>]
    BY <1>4, <2>1 DEF Recursion
  <2> QED
    BY <1>2, <2>2, Zenon
<1>6. f[0] = 0
  BY <1>4 DEF Recursion
<1>7. Equation(f)
  BY <1>1, <1>4, <1>5, <1>6
<1> DEFINE g == CHOOSE h : Equation(h)
<1>8. \A k : OffsetAfter(format, k) = g[k]
  BY DEF OffsetAfter
<1>9. Equation(g)
  BY <1>7, Zenon
<1> HIDE DEF g
<1>10. \A k \in 0 .. n : g[k] = f[k]
  <2>1. g[0] = f[0]
    BY <1>1, <1>6, <1>9
  <2>2. ASSUME NEW i \in 1 .. n, g[i - 1] = f[i - 1] PROVE g[i] = f[i]
    BY <1>1, <1>5, <1>9, <2>2
  <2> HIDE DEF Equation
  <2> QED
    BY <1>1, <2>1, <2>2, SameValues
<1> HIDE DEF Equation
<1>11. \A k \in 0 .. n : OffsetAfter(format, k) = f[k] /\ f[k] \in Nat
  BY <1>4, <1>8, <1>10
<1>12. ASSUME NEW k \in 1 .. n
       PROVE  OffsetAfter(format, k) = OffsetAfter(format, k - 1) + format[k].size
  <2>1. k - 1 \in 0 .. n /\ k \in 0 .. n
    BY <1>1
  <2> QED
    BY <1>5, <1>11, <2>1
<1> QED
  BY <1>1, <1>6, <1>11, <1>12

\* Shifting by one byte more divides once more.
LEMMA Shifts ==
    ASSUME NEW value \in Nat
    PROVE  /\ Shifted(value, 0) = value
           /\ \A k \in Nat : Shifted(value, k) \in Nat
           /\ \A k \in Nat : Shifted(value, k + 1) = Shifted(value, k) \div ByteBase
<1> DEFINE Step == [p \in Nat \X Nat |-> p[2] \div ByteBase]
           Equation(n, f) == f = [i \in 0 .. n |-> IF i = 0 THEN value ELSE f[i - 1] \div ByteBase]
           Divides(n, f) == f \in [0 .. n -> Nat] /\ f[0] = value
                            /\ \A i \in 1 .. n : f[i] = f[i - 1] \div ByteBase
<1>1. \A v \in Nat : v \div ByteBase \in Nat
  BY Numbers, Z3
<1>2. ASSUME NEW n \in Nat PROVE \E f : Divides(n, f)
  <2>1. \A i \in 1 .. n : \A v \in Nat : Step[<<i, v>>] = v \div ByteBase
    OBVIOUS
  <2> HIDE DEF Step
  <2>2. \A i \in 1 .. n : \A v \in Nat : Step[<<i, v>>] \in Nat
    BY <1>1, <2>1
  <2>3. PICK f \in [0 .. n -> Nat] : Recursion(value, n, Step, f)
    BY <1>2, <2>2, RecursionExists
  <2>4. ASSUME NEW i \in 1 .. n PROVE f[i] = f[i - 1] \div ByteBase
    <3>1. i - 1 \in 0 .. n
      BY <1>2
    <3>2. f[i - 1] \in Nat /\ f[i] = Step[<<i, f[i - 1]>>]
      BY <2>3, <3>1 DEF Recursion
    <3> QED
      BY <2>1, <3>2, Zenon
  <2>5. f[0] = value
    BY <2>3 DEF Recursion
  <2> QED
    BY <2>3, <2>4, <2>5
<1>3. ASSUME NEW n \in Nat, NEW f, Divides(n, f), NEW k \in Nat, k <= n PROVE Shifted(value, k) = f[k]
  <2> DEFINE g == CHOOSE h : Equation(k, h)
             short == [i \in 0 .. k |-> f[i]]
  <2>1. Shifted(value, k) = g[k]
    BY DEF Shifted
  <2>2. \A i \in 1 .. k : i \in 1 .. n /\ i - 1 \in 0 .. k
    BY <1>3
  <2>3. ASSUME NEW i \in 0 .. k
        PROVE  short[i] = IF i = 0 THEN value ELSE short[i - 1] \div ByteBase
    BY <1>3, <2>2
  <2>4. Equation(k, short)
    <3>1. short = [i \in 0 .. k |-> short[i]]
      OBVIOUS
    <3> HIDE DEF short
    <3> QED
      BY <2>3, <3>1
  <2>5. Equation(k, g)
    <3> HIDE DEF short, Equation
    <3> QED
      BY <2>4, Zenon
  <2> HIDE DEF g
  <2>6. g[0] = f[0]
    BY <1>3, <2>5
  <2>7. ASSUME NEW i \in 1 .. k, g[i - 1] = f[i - 1] PROVE g[i] = f[i]
    BY <1>3, <2>2, <2>5, <2>7
  <2>8. \A i \in 0 .. k : g[i] = f[i]
    <3> HIDE DEF Equation, Divides
    <3> QED
      BY <1>3, <2>6, <2>7, SameValues
  <2> QED
    BY <1>3, <2>1, <2>8
<1>4. ASSUME NEW k \in Nat
      PROVE  /\ Shifted(value, 0) = value /\ Shifted(value, k) \in Nat
             /\ Shifted(value, k + 1) = Shifted(value, k) \div ByteBase
  <2>1. k + 1 \in Nat /\ k <= k + 1 /\ k + 1 <= k + 1 /\ 0 <= k + 1 /\ 0 \in Nat
    OBVIOUS
  <2>2. PICK f : Divides(k + 1, f)
    BY <1>2, <2>1
  <2> HIDE DEF Divides
  <2>3. Shifted(value, 0) = f[0] /\ Shifted(value, k) = f[k] /\ Shifted(value, k + 1) = f[k + 1]
    BY <1>3, <2>1, <2>2
  <2>4. f[0] = value /\ f[k] \in Nat /\ f[k + 1] = f[k] \div ByteBase
    <3>1. k + 1 \in 1 .. k + 1 /\ (k + 1) - 1 = k /\ k \in 0 .. k + 1
      OBVIOUS
    <3> QED
      BY <2>2, <3>1 DEF Divides
  <2> QED
    BY <2>3, <2>4
<1> QED
  BY <1>4

\* Joining bytes goes on from the value of the bytes before.
LEMMA Joins ==
    ASSUME NEW bytes \in Seq(Octet)
    PROVE  \E f : /\ f \in [0 .. Len(bytes) -> Nat] /\ f[0] = 0
                  /\ \A i \in 1 .. Len(bytes) : f[i] = f[i - 1] * ByteBase + bytes[i]
                  /\ FromBigEndian(bytes) = f[Len(bytes)]
<1> DEFINE n == Len(bytes)
           Step == [p \in (1 .. n) \X Nat |-> p[2] * ByteBase + bytes[p[1]]]
           Equation(f) == f = [i \in 0 .. n |-> IF i = 0 THEN 0 ELSE f[i - 1] * ByteBase + bytes[i]]
<1>1. n \in Nat /\ \A i \in 1 .. n : bytes[i] \in Nat
  <2>1. \A i \in 1 .. n : bytes[i] \in Octet
    OBVIOUS
  <2>2. n \in Nat
    OBVIOUS
  <2> QED
    BY <2>1, <2>2, Numbers, Zenon
<1>2. \A i \in 1 .. n : \A v \in Nat : Step[<<i, v>>] = v * ByteBase + bytes[i]
  OBVIOUS
<1> HIDE DEF Step
<1>3. ASSUME NEW i \in 1 .. n, NEW v \in Nat PROVE Step[<<i, v>>] \in Nat
  <2>1. Step[<<i, v>>] = v * ByteBase + bytes[i] /\ bytes[i] \in Nat
    BY <1>1, <1>2
  <2>2. v * ByteBase \in Nat
    BY Product, Numbers
  <2> QED
    BY <2>1, <2>2
<1>4. PICK f \in [0 .. n -> Nat] : Recursion(0, n, Step, f)
  BY <1>1, <1>3, RecursionExists
<1>5. ASSUME NEW i \in 1 .. n PROVE f[i] = f[i - 1] * ByteBase + bytes[i]
  <2>1. i - 1 \in 0 .. n
    BY <1>1
  <2>2. f[i - 1] \in Nat /\ f[i] = Step[<<i, f[i - 1]>>]
    BY <1>4, <2>1 DEF Recursion
  <2> QED
    BY <1>2, <2>2, Zenon
<1>6. f[0] = 0
  BY <1>4 DEF Recursion
<1>7. Equation(f)
  BY <1>1, <1>4, <1>5, <1>6
<1> DEFINE g == CHOOSE h : Equation(h)
<1>8. FromBigEndian(bytes) = g[n]
  BY DEF FromBigEndian
<1>9. Equation(g)
  BY <1>7, Zenon
<1> HIDE DEF g
<1>10. \A k \in 0 .. n : g[k] = f[k]
  <2>1. g[0] = f[0]
    BY <1>1, <1>6, <1>9
  <2>2. ASSUME NEW i \in 1 .. n, g[i - 1] = f[i - 1] PROVE g[i] = f[i]
    BY <1>1, <1>5, <1>9, <2>2
  <2> HIDE DEF Equation
  <2> QED
    BY <1>1, <2>1, <2>2, SameValues
<1>11. FromBigEndian(bytes) = f[n]
  BY <1>1, <1>8, <1>10
<1> QED
  BY <1>4, <1>5, <1>6, <1>11

\* A value has as many bytes as its field, and they stand for it when it is not too large.
LEMMA RoundTrip ==
    ASSUME NEW value \in Nat, NEW size \in Nat
    PROVE  /\ BigEndian(value, size) \in [1 .. size -> Octet]
           /\ BigEndian(value, size) \in Seq(Octet) /\ Len(BigEndian(value, size)) = size
           /\ Shifted(value, size) = 0 => FromBigEndian(BigEndian(value, size)) = value
<1> DEFINE bytes == BigEndian(value, size)
           g == [j \in 0 .. size |-> Shifted(value, size - j)]
<1>1. ASSUME NEW m \in Nat
      PROVE  m % ByteBase \in Octet /\ (m \div ByteBase) * ByteBase + (m % ByteBase) = m
  BY ChecksumByteBaseAssumption, Z3 DEF Octet
<1>2. \A j \in 0 .. size : Shifted(value, size - j) \in Nat
  BY Shifts
<1>3. bytes = [i \in 1 .. size |-> Shifted(value, size - i) % ByteBase]
  BY DEF BigEndian
<1> HIDE DEF bytes
<1>4. \A i \in 1 .. size : bytes[i] = Shifted(value, size - i) % ByteBase /\ bytes[i] \in Octet
  <2> TAKE i \in 1 .. size
  <2>1. Shifted(value, size - i) \in Nat
    BY <1>2
  <2>2. bytes[i] = Shifted(value, size - i) % ByteBase
    BY <1>3
  <2> QED
    BY <1>1, <2>1, <2>2
<1>5. bytes \in [1 .. size -> Octet] /\ bytes \in Seq(Octet) /\ Len(bytes) = size
  <2>1. bytes \in [1 .. size -> Octet]
    BY <1>3, <1>4
  <2> QED
    BY <2>1
<1>6. ASSUME Shifted(value, size) = 0 PROVE FromBigEndian(bytes) = value
  <2>1. PICK f : /\ f \in [0 .. size -> Nat] /\ f[0] = 0
                 /\ \A i \in 1 .. size : f[i] = f[i - 1] * ByteBase + bytes[i]
                 /\ FromBigEndian(bytes) = f[size]
    BY <1>5, Joins
  <2>2. f[0] = g[0]
    BY <1>6, <2>1
  <2>3. ASSUME NEW i \in 1 .. size, f[i - 1] = g[i - 1] PROVE f[i] = g[i]
    <3> DEFINE m == Shifted(value, size - i)
    <3>1. m \in Nat /\ g[i] = m /\ i - 1 \in 0 .. size
      BY <1>2
    <3>2. g[i - 1] = m \div ByteBase
      <4>1. size - i \in Nat /\ size - (i - 1) = (size - i) + 1
        OBVIOUS
      <4>2. Shifted(value, (size - i) + 1) = m \div ByteBase
        BY <4>1, Shifts
      <4> QED
        BY <3>1, <4>1, <4>2
    <3>3. f[i] = f[i - 1] * ByteBase + bytes[i] /\ bytes[i] = m % ByteBase
      BY <1>4, <2>1
    <3>4. (m \div ByteBase) * ByteBase + (m % ByteBase) = m
      BY <1>1, <3>1
    <3> HIDE DEF m, g
    <3> QED
      BY <2>3, <3>1, <3>2, <3>3, <3>4, Zenon
  <2>4. \A i \in 0 .. size : f[i] = g[i]
    <3> HIDE DEF g
    <3> QED
      BY <2>2, <2>3, SameValues
  <2>5. g[size] = value /\ size \in 0 .. size
    BY Shifts
  <2> QED
    BY <2>1, <2>4, <2>5
<1> QED
  BY <1>5, <1>6 DEF bytes

\* Pairs are added up one by one.
LEMMA Pairs ==
    ASSUME NEW bytes \in Seq(Octet), NEW first \in Nat
    PROVE  /\ PairsFrom(bytes, first, 0) = 0
           /\ \A k \in Nat : first + 2 * k <= Len(bytes) => PairsFrom(bytes, first, k) \in Nat
           /\ \A k \in Nat \ {0} : first + 2 * k <= Len(bytes) =>
                PairsFrom(bytes, first, k)
                    = PairsFrom(bytes, first, k - 1)
                        + Pair(bytes[first + (2 * k - 1)], bytes[first + 2 * k])
<1> DEFINE P(i) == Pair(bytes[first + (2 * i - 1)], bytes[first + 2 * i])
           Equation(k, f) == f = [i \in 0 .. k |-> IF i = 0 THEN 0 ELSE f[i - 1] + P(i)]
           Adds(n, f) == f \in [0 .. n -> Nat] /\ f[0] = 0
                          /\ \A i \in 1 .. n : f[i] = f[i - 1] + P(i)
<1>1. ASSUME NEW i \in Nat \ {0}, first + 2 * i <= Len(bytes) PROVE P(i) \in Nat
  <2>1. first + (2 * i - 1) \in 1 .. Len(bytes) /\ first + 2 * i \in 1 .. Len(bytes)
    BY <1>1
  <2>2. bytes[first + (2 * i - 1)] \in Nat /\ bytes[first + 2 * i] \in Nat
    <3>1. bytes[first + (2 * i - 1)] \in Octet /\ bytes[first + 2 * i] \in Octet
      BY <2>1, ElementOfSeq, Zenon
    <3> QED
      BY <3>1, Numbers
  <2>3. bytes[first + (2 * i - 1)] * ByteBase \in Nat
    BY <2>2, Product, Numbers
  <2> QED
    BY <2>2, <2>3 DEF Pair
<1> HIDE DEF P
<1>2. ASSUME NEW n \in Nat, first + 2 * n <= Len(bytes) PROVE \E f : Adds(n, f)
  <2> DEFINE Step == [p \in (1 .. n) \X Nat |-> p[2] + P(p[1])]
  <2>1. \A i \in 1 .. n : \A v \in Nat : Step[<<i, v>>] = v + P(i)
    OBVIOUS
  <2>2. \A i \in 1 .. n : P(i) \in Nat
    <3> TAKE i \in 1 .. n
    <3>1. i \in Nat \ {0} /\ first + 2 * i <= Len(bytes)
      BY <1>2
    <3> QED
      BY <1>1, <3>1
  <2> HIDE DEF Step
  <2>3. ASSUME NEW i \in 1 .. n, NEW v \in Nat PROVE Step[<<i, v>>] \in Nat
    <3>1. Step[<<i, v>>] = v + P(i) /\ P(i) \in Nat
      BY <2>1, <2>2
    <3> QED
      BY <3>1
  <2>4. PICK f \in [0 .. n -> Nat] : Recursion(0, n, Step, f)
    BY <1>2, <2>3, RecursionExists
  <2>5. ASSUME NEW i \in 1 .. n PROVE f[i] = f[i - 1] + P(i)
    <3>1. i - 1 \in 0 .. n
      BY <1>2
    <3>2. f[i - 1] \in Nat /\ f[i] = Step[<<i, f[i - 1]>>]
      BY <2>4, <3>1 DEF Recursion
    <3> QED
      BY <2>1, <3>2, Zenon
  <2>6. f[0] = 0
    BY <2>4 DEF Recursion
  <2> QED
    BY <2>4, <2>5, <2>6
<1>3. ASSUME NEW n \in Nat, NEW f, Adds(n, f), NEW k \in Nat, k <= n
      PROVE  PairsFrom(bytes, first, k) = f[k]
  <2> DEFINE g == CHOOSE h : Equation(k, h)
             short == [i \in 0 .. k |-> f[i]]
  <2>1. PairsFrom(bytes, first, k) = g[k]
    BY DEF PairsFrom, P
  <2>2. \A i \in 1 .. k : i \in 1 .. n /\ i - 1 \in 0 .. k
    BY <1>3
  <2>3. ASSUME NEW i \in 0 .. k
        PROVE  short[i] = IF i = 0 THEN 0 ELSE short[i - 1] + P(i)
    BY <1>3, <2>2
  <2>4. Equation(k, short)
    <3>1. short = [i \in 0 .. k |-> short[i]]
      OBVIOUS
    <3> HIDE DEF short
    <3> QED
      BY <2>3, <3>1
  <2>5. Equation(k, g)
    <3> HIDE DEF short, Equation
    <3> QED
      BY <2>4, Zenon
  <2> HIDE DEF g
  <2>6. g[0] = f[0]
    BY <1>3, <2>5
  <2>7. ASSUME NEW i \in 1 .. k, g[i - 1] = f[i - 1] PROVE g[i] = f[i]
    BY <1>3, <2>2, <2>5, <2>7
  <2>8. \A i \in 0 .. k : g[i] = f[i]
    <3> HIDE DEF Equation, Adds, short
    <3> QED
      BY <2>6, <2>7, SameValues
  <2> QED
    BY <1>3, <2>1, <2>8
<1>4. ASSUME NEW k \in Nat, first + 2 * k <= Len(bytes)
      PROVE  /\ PairsFrom(bytes, first, k) \in Nat
             /\ k # 0 => PairsFrom(bytes, first, k) = PairsFrom(bytes, first, k - 1) + P(k)
  <2>1. PICK f : Adds(k, f)
    BY <1>2, <1>4
  <2>2. PairsFrom(bytes, first, k) = f[k]
    <3> HIDE DEF Adds
    <3> QED
      BY <1>3, <1>4, <2>1
  <2>3. ASSUME k # 0 PROVE PairsFrom(bytes, first, k - 1) = f[k - 1]
    <3>1. k - 1 \in Nat /\ k - 1 <= k
      BY <2>3
    <3> HIDE DEF Adds
    <3> QED
      BY <1>3, <2>1, <3>1
  <2> QED
    BY <2>1, <2>2, <2>3
<1>5. PairsFrom(bytes, first, 0) = 0
  <2> DEFINE g == [i \in 0 .. 0 |-> 0]
  <2>1. Adds(0, g)
    OBVIOUS
  <2>2. g[0] = 0
    OBVIOUS
  <2> HIDE DEF Adds, g
  <2> QED
    BY <1>3, <2>1, <2>2
<1> QED
  BY <1>4, <1>5 DEF P

----------------------------------------------------------------------------
(* The checksum object. *)

\* A number is even or one more than an even one.
LEMMA Parity ==
    ASSUME NEW n \in Nat
    PROVE  /\ n % 2 \in {0, 1} /\ (n % 2 = 1 => n > 0)
           /\ n - (n % 2) \in 0 .. n /\ (n - (n % 2)) % 2 = 0
           /\ (n % 2 = 1 => n - (n % 2) = n - 1) /\ (n % 2 # 1 => n - (n % 2) = n)
  OBVIOUS

\* Where the pairs of m bytes lie behind n others.
LEMMA PairPlaces ==
    ASSUME NEW n \in Nat, NEW m \in Nat \ {0}, NEW count, count = (m - (n % 2)) \div 2
    PROVE  /\ n + (n % 2) \in Nat /\ (n + (n % 2)) % 2 = 0 /\ n + (n % 2) <= n + m /\ count \in Nat
           /\ (n + (n % 2)) + 2 * count = (n + m) - ((n + m) % 2)
           /\ (n + m) % 2 = (m - (n % 2)) % 2 /\ (n % 2) + 2 * count <= m /\ n % 2 \in Nat
  OBVIOUS

\* Two bytes at an odd and the next place add a word.
LEMMA SumsPair ==
    ASSUME NEW bytes \in Seq(Octet), NEW f, Sums(bytes, f), NEW e \in Nat, e % 2 = 0, e + 2 <= Len(bytes)
    PROVE  f[e + 2] = f[e] + Pair(bytes[e + 1], bytes[e + 2])
<1>1. /\ e + 1 \in 1 .. Len(bytes) /\ e + 2 \in 1 .. Len(bytes)
      /\ (e + 1) - 1 = e /\ (e + 2) - 1 = e + 1
      /\ (e + 1) % 2 = 1 /\ (e + 2) % 2 = 0 /\ e \in 0 .. Len(bytes)
  OBVIOUS
<1>2. f[e + 1] = f[e] + bytes[e + 1] * ByteBase /\ f[e + 2] = f[e + 1] + bytes[e + 2] * 1
  <2>1. /\ f[e + 1] = f[(e + 1) - 1] + bytes[e + 1] * Weight(e + 1)
        /\ f[e + 2] = f[(e + 2) - 1] + bytes[e + 2] * Weight(e + 2)
    BY <1>1, Zenon DEF Sums
  <2>2. Weight(e + 1) = ByteBase /\ Weight(e + 2) = 1
    BY <1>1 DEF Weight
  <2> QED
    BY <1>1, <2>1, <2>2, Zenon
<1>3. f[e] \in Nat /\ bytes[e + 1] * ByteBase \in Nat /\ bytes[e + 2] \in Nat
  <2>1. bytes[e + 1] \in Nat /\ bytes[e + 2] \in Nat
    <3>1. bytes[e + 1] \in Octet /\ bytes[e + 2] \in Octet
      BY <1>1, ElementOfSeq, Zenon
    <3> QED
      BY <3>1, Numbers
  <2>2. f[e] \in Nat
    BY <1>1 DEF Sums
  <2> QED
    BY <2>1, <2>2, Product, Numbers
<1>4. \A x, y, z \in Nat : (x + y) + z * 1 = x + (y + z)
  OBVIOUS
<1>5. f[e + 2] = (f[e] + bytes[e + 1] * ByteBase) + bytes[e + 2] * 1
  BY <1>2, Zenon
<1>6. (f[e] + bytes[e + 1] * ByteBase) + bytes[e + 2] * 1
        = f[e] + (bytes[e + 1] * ByteBase + bytes[e + 2])
  BY <1>3, <1>4, Zenon
<1> QED
  BY <1>5, <1>6, Zenon DEF Pair

(***************************************************************************)
(* A checksum object stands for the bytes it has been given: the sum of    *)
(* the words they fill, and the last byte when it has no partner yet.      *)
(***************************************************************************)
Summarises(checksum, bytes) ==
    /\ checksum.partial = IF Len(bytes) % 2 = 1 THEN <<bytes[Len(bytes)]>> ELSE <<>>
    /\ \A f : Sums(bytes, f) => checksum.accumulator = f[Len(bytes) - (Len(bytes) % 2)]

\* A new object stands for no byte.
LEMMA NewSummarises == Summarises(NewChecksum, <<>>)
<1>1. Len(<<>>) = 0 /\ 0 % 2 = 0 /\ 0 - 0 = 0
  OBVIOUS
<1> QED
  BY <1>1 DEF Summarises, NewChecksum, Sums

\* The sums of a sequence begin with those of what it begins with.
LEMMA SumsOfFirst ==
    ASSUME NEW s \in Seq(Octet), NEW t \in Seq(Octet), NEW f, Sums(s \o t, f)
    PROVE  \E g : Sums(s, g) /\ \A i \in 0 .. Len(s) : g[i] = f[i]
<1> DEFINE g == [i \in 0 .. Len(s) |-> f[i]]
           whole == s \o t
<1>1. /\ whole \in Seq(Octet) /\ Len(whole) = Len(s) + Len(t)
      /\ \A i \in 1 .. Len(s) : whole[i] = s[i]
  OBVIOUS
<1>2. Len(s) \in Nat /\ Len(t) \in Nat
  OBVIOUS
<1>3. Sums(whole, f)
  OBVIOUS
<1> HIDE DEF whole
<1>4. ASSUME NEW i \in 0 .. Len(s) PROVE g[i] = f[i] /\ f[i] \in Nat
  <2>1. i \in 0 .. Len(whole) /\ f \in [0 .. Len(whole) -> Nat]
    BY <1>1, <1>2, <1>3 DEF Sums
  <2> QED
    BY <2>1
<1>5. g \in [0 .. Len(s) -> Nat] /\ g[0] = 0
  BY <1>2, <1>3, <1>4 DEF Sums
<1>6. ASSUME NEW i \in 1 .. Len(s) PROVE g[i] = g[i - 1] + s[i] * Weight(i)
  <2>1. i \in 1 .. Len(whole) /\ i \in 0 .. Len(s) /\ i - 1 \in 0 .. Len(s)
    BY <1>1, <1>2
  <2>2. f[i] = f[i - 1] + whole[i] * Weight(i)
    BY <1>3, <2>1 DEF Sums
  <2>3. whole[i] = s[i] /\ g[i] = f[i] /\ g[i - 1] = f[i - 1]
    BY <1>1, <1>4, <2>1
  <2> QED
    BY <2>2, <2>3, Zenon
<1> HIDE DEF g
<1> QED
  BY <1>4, <1>5, <1>6 DEF Sums

\* AddBuffer keeps that up, however long the buffer is and whether or not a byte waits.
LEMMA AddBufferSummarises ==
    ASSUME NEW c, NEW p \in Seq(Octet), NEW b \in Seq(Octet), Summarises(c, p)
    PROVE  Summarises(AddBuffer(c, b), p \o b)
<1> DEFINE q == p \o b
           n == Len(p)
           m == Len(b)
           taken == Taken(c, b)
           count == (m - taken) \div 2
           completed == IF taken = 1 THEN Pair(c.partial[1], b[1]) ELSE 0
           new == AddBuffer(c, b)
           e == n + taken
<1>1. /\ q \in Seq(Octet) /\ Len(q) = n + m /\ n \in Nat /\ m \in Nat
      /\ \A i \in 1 .. n : q[i] = p[i]
      /\ \A i \in 1 .. n + m : i > n => q[i] = b[i - n]
  <2>1. /\ q \in Seq(Octet) /\ Len(q) = n + m
        /\ \A i \in 1 .. n + m : q[i] = IF i <= n THEN p[i] ELSE b[i - n]
    BY ConcatParts
  <2>2. n \in Nat /\ m \in Nat
    OBVIOUS
  <2> HIDE DEF q
  <2> QED
    BY <2>1, <2>2
<1>2. /\ new.accumulator = (c.accumulator + completed) + PairsFrom(b, taken, count)
      /\ new.partial = Kept(c, b)
  BY DEF AddBuffer
<1>3. CASE m = 0
  <2>1. b = <<>> /\ q = p
    BY <1>3
  <2>2. taken = 0 /\ count = 0 /\ completed = 0
    BY <1>3, <2>1 DEF Taken
  <2>3. PairsFrom(b, taken, count) = 0
    BY <2>2, Pairs
  <2>4. Kept(c, b) = c.partial
    <3>1. (Len(b) - Taken(c, b)) % 2 = 0 /\ Taken(c, b) = 0
      BY <1>3, <2>2
    <3> QED
      BY <3>1 DEF Kept
  <2>5. PICK f : Sums(p, f)
    BY WordSumValue
  <2>6. c.accumulator \in Nat
    <3>1. n - (n % 2) \in 0 .. n
      BY <1>1
    <3>2. c.accumulator = f[n - (n % 2)]
      BY <2>5 DEF Summarises
    <3> QED
      BY <2>5, <3>1, <3>2 DEF Sums
  <2>7. new.accumulator = c.accumulator /\ new.partial = c.partial
    <3>1. \A x \in Nat : (x + 0) + 0 = x
      OBVIOUS
    <3>2. (c.accumulator + completed) + PairsFrom(b, taken, count) = (c.accumulator + 0) + 0
      BY <2>2, <2>3, Zenon
    <3> HIDE DEF new, taken, count, completed
    <3> QED
      BY <1>2, <2>4, <2>6, <3>1, <3>2, Zenon
  <2> HIDE DEF q, new
  <2> QED
    BY <2>1, <2>7, Zenon DEF Summarises, q, new
<1>4. CASE m > 0
  <2>1. b # <<>> /\ (b = <<>> <=> FALSE)
    BY <1>4
  <2>2. (n % 2 = 1 => c.partial = <<p[n]>>) /\ (n % 2 # 1 => c.partial = <<>>)
    BY DEF Summarises
  <2>3. n % 2 \in {0, 1} /\ (n % 2 = 1 => n > 0)
    BY <1>1, Parity, Zenon
  <2>4. taken = n % 2
    <3>1. CASE n % 2 = 1
      <4>1. c.partial # <<>>
        <5>1. c.partial = <<p[n]>>
          BY <2>2, <3>1
        <5>2. \A x : <<x>> # <<>>
          OBVIOUS
        <5> QED
          BY <5>1, <5>2, Zenon
      <4> QED
        BY <2>1, <3>1, <4>1, Zenon DEF Taken
    <3>2. CASE n % 2 = 0
      <4>1. ~(c.partial # <<>>)
        BY <2>2, <3>2
      <4> QED
        BY <3>2, <4>1, Zenon DEF Taken
    <3> QED
      BY <2>3, <3>1, <3>2
  <2>5. /\ e \in Nat /\ e % 2 = 0 /\ e <= n + m /\ count \in Nat
        /\ e + 2 * count = (n + m) - ((n + m) % 2)
        /\ (n + m) % 2 = (m - taken) % 2 /\ taken + 2 * count <= m /\ taken \in Nat
    <3>1. m \in Nat \ {0} /\ count = (m - (n % 2)) \div 2
      BY <1>1, <1>4, <2>4
    <3> HIDE DEF n, m, count, taken
    <3> QED
      BY <1>1, <2>4, <3>1, PairPlaces, Zenon
  <2> SUFFICES ASSUME NEW f, Sums(q, f)
               PROVE  /\ new.partial = IF Len(q) % 2 = 1 THEN <<q[Len(q)]>> ELSE <<>>
                      /\ new.accumulator = f[Len(q) - (Len(q) % 2)]
    <3>1. \E f : Sums(q, f)
      BY <1>1, WordSumValue
    <3> HIDE DEF q, new
    <3> QED
      BY <3>1, Zenon DEF Summarises, q, new
  <2>6. c.accumulator = f[n - (n % 2)] /\ f[n - (n % 2)] \in Nat
    <3>1. n - (n % 2) \in 0 .. n /\ n - (n % 2) \in 0 .. n + m
      BY <1>1
    <3>2. PICK g : Sums(p, g) /\ \A i \in 0 .. n : g[i] = f[i]
      BY SumsOfFirst
    <3>3. c.accumulator = g[n - (n % 2)]
      BY <3>2 DEF Summarises
    <3>4. f \in [0 .. n + m -> Nat]
      BY <1>1 DEF Sums
    <3> QED
      BY <3>1, <3>2, <3>3, <3>4
  <2> HIDE DEF q, new, taken, count, e
  <2>7. c.accumulator + completed = f[e] /\ f[e] \in Nat
    <3>0. f[e] \in Nat
      <4>1. e \in 0 .. n + m
        BY <1>1, <2>5
      <4>2. f \in [0 .. n + m -> Nat]
        BY <1>1, Zenon DEF Sums
      <4> QED
        BY <4>1, <4>2, Zenon
    <3>1. CASE taken = 0
      <4>1. e = n /\ n - (n % 2) = n /\ completed = 0
        <5>1. n + 0 = n /\ n - 0 = n /\ taken # 1
          BY <1>1, <3>1
        <5> QED
          BY <2>4, <3>1, <5>1, Zenon DEF e, completed
      <4> QED
        BY <2>6, <3>0, <4>1
    <3>2. CASE taken = 1
      <4> DEFINE d == n - 1
      <4>1. /\ d \in Nat /\ d % 2 = 0 /\ d + 2 <= n + m /\ n - (n % 2) = d
            /\ d + 1 = n /\ d + 2 = n + 1 /\ e = n + 1 /\ n > 0
            /\ n + 1 \in 1 .. n + m /\ n + 1 > n /\ (n + 1) - n = 1 /\ n \in 1 .. n
        <5>1. n % 2 = 1 /\ e = n + 1
          BY <2>4, <3>2 DEF e
        <5>2. n \in Nat /\ m \in Nat /\ m > 0
          BY <1>1, <1>4
        <5> HIDE DEF n, m
        <5> QED
          BY <5>1, <5>2
      <4>2. c.partial[1] = p[n]
        BY <2>2, <2>4, <3>2
      <4>3. q[d + 1] = p[n] /\ q[d + 2] = b[1]
        BY <1>1, <4>1, Zenon
      <4> HIDE DEF d
      <4>4. f[d + 2] = f[d] + Pair(q[d + 1], q[d + 2])
        BY <1>1, <4>1, SumsPair
      <4>5. completed = Pair(q[d + 1], q[d + 2])
        BY <3>2, <4>2, <4>3
      <4> HIDE DEF completed
      <4>6. c.accumulator = f[d] /\ e = d + 2
        BY <2>6, <4>1
      <4> QED
        BY <3>0, <4>4, <4>5, <4>6, Zenon
    <3> QED
      BY <2>3, <2>4, <3>1, <3>2
  <2>8. f[e] + PairsFrom(b, taken, count) = f[e + 2 * count]
    <3> DEFINE G == [k \in 0 .. count |-> f[e] + PairsFrom(b, taken, k)]
               F == [k \in 0 .. count |-> f[e + 2 * k]]
    <3>1. G[0] = F[0]
      <4>1. PairsFrom(b, taken, 0) = 0
        BY <2>5, Pairs
      <4> QED
        BY <2>5, <2>7, <4>1
    <3>2. ASSUME NEW k \in 1 .. count, G[k - 1] = F[k - 1] PROVE G[k] = F[k]
      <4> DEFINE d == e + 2 * (k - 1)
      <4>1. /\ k \in Nat \ {0} /\ k - 1 \in Nat /\ k - 1 \in 0 .. count /\ k \in 0 .. count
            /\ taken + 2 * k <= m /\ taken + 2 * (k - 1) <= m
            /\ d \in Nat /\ d % 2 = 0 /\ d + 2 <= n + m /\ d + 2 = e + 2 * k
        BY <2>5
      <4>2. /\ PairsFrom(b, taken, k - 1) \in Nat
            /\ PairsFrom(b, taken, k)
                = PairsFrom(b, taken, k - 1) + Pair(b[taken + (2 * k - 1)], b[taken + 2 * k])
        BY <2>5, <4>1, Pairs
      <4>3. q[d + 1] = b[taken + (2 * k - 1)] /\ q[d + 2] = b[taken + 2 * k]
        <5>1. /\ d + 1 \in 1 .. n + m /\ d + 1 > n /\ (d + 1) - n = taken + (2 * k - 1)
              /\ d + 2 \in 1 .. n + m /\ d + 2 > n /\ (d + 2) - n = taken + 2 * k
          BY <1>1, <2>5, <4>1 DEF e
        <5> QED
          BY <1>1, <5>1, Zenon
      <4>4. f[d + 2] = f[d] + Pair(q[d + 1], q[d + 2])
        <5> HIDE DEF d
        <5> QED
          BY <1>1, <4>1, SumsPair
      <4>5. G[k - 1] = f[e] + PairsFrom(b, taken, k - 1) /\ F[k - 1] = f[d]
        BY <4>1
      <4>6. G[k] = f[e] + PairsFrom(b, taken, k) /\ F[k] = f[d + 2]
        BY <4>1
      <4>7. Pair(q[d + 1], q[d + 2]) \in Nat
        <5>1. d + 1 \in 1 .. Len(q) /\ d + 2 \in 1 .. Len(q)
          BY <1>1, <2>5, <4>1
        <5>2. q[d + 1] \in Octet /\ q[d + 2] \in Octet
          BY <1>1, <5>1, ElementOfSeq, Zenon
        <5>3. q[d + 1] \in Nat /\ q[d + 2] \in Nat
          BY <5>2, Numbers
        <5>4. q[d + 1] * ByteBase \in Nat
          BY <5>3, Product, Numbers
        <5> QED
          BY <5>3, <5>4 DEF Pair
      <4> HIDE DEF d, G, F
      <4>8. f[e] + PairsFrom(b, taken, k - 1) = f[d]
        BY <3>2, <4>5
      <4>9. \A x, y, z \in Nat : x + (y + z) = (x + y) + z
        OBVIOUS
      <4>10. f[e] + (PairsFrom(b, taken, k - 1) + Pair(q[d + 1], q[d + 2]))
               = (f[e] + PairsFrom(b, taken, k - 1)) + Pair(q[d + 1], q[d + 2])
        BY <2>7, <4>2, <4>7, <4>9, Zenon
      <4> QED
        BY <4>2, <4>3, <4>4, <4>6, <4>8, <4>10, Zenon
    <3>3. \A k \in 0 .. count : G[k] = F[k]
      <4> HIDE DEF G, F
      <4> QED
        <5>1. \A k \in 1 .. count : G[k - 1] = F[k - 1] => G[k] = F[k]
          BY <3>2
        <5>2. count \in Nat
          BY <2>5
        <5> HIDE DEF G, F, count
        <5>3. ASSUME NEW x, NEW y, x[0] = y[0],
                     \A k \in 1 .. count : x[k - 1] = y[k - 1] => x[k] = y[k]
              PROVE  \A k \in 0 .. count : x[k] = y[k]
          BY <5>2, <5>3, SameValues, Z3
        <5> QED
          BY <3>1, <5>1, <5>3, Zenon
    <3>4. count \in 0 .. count
      BY <2>5
    <3> QED
      BY <3>3, <3>4
  <2>9. new.accumulator = f[Len(q) - (Len(q) % 2)]
    BY <1>1, <1>2, <2>5, <2>7, <2>8, Zenon
  <2>10. new.partial = IF Len(q) % 2 = 1 THEN <<q[Len(q)]>> ELSE <<>>
    <3>1. new.partial = IF (m - taken) % 2 = 1 THEN <<b[m]>> ELSE IF taken = 1 THEN <<>> ELSE c.partial
      BY <1>2, Zenon DEF Kept, taken
    <3>2. q[n + m] = b[m]
      <4>1. n + m \in 1 .. n + m /\ n + m > n /\ (n + m) - n = m
        BY <1>1, <1>4
      <4> QED
        BY <1>1, <4>1, Zenon
    <3>3. taken # 1 => c.partial = <<>>
      BY <2>2, <2>4
    <3> QED
      BY <1>1, <2>5, <3>1, <3>2, <3>3, Zenon
  <2> QED
    BY <2>9, <2>10
<1> QED
  BY <1>1, <1>3, <1>4

\* The sum that is folded is the sum of the words, the last byte being an upper half.
LEMMA TotalIsWordSum ==
    ASSUME NEW c, NEW bytes \in Seq(Octet), Summarises(c, bytes)
    PROVE  Total(c) = WordSum(bytes) /\ c.accumulator \in Nat
<1> DEFINE n == Len(bytes)
<1>1. PICK f : Sums(bytes, f)
  BY WordSumValue
<1>2. WordSum(bytes) = f[n] /\ n \in Nat
  BY <1>1, WordSumValue
<1>3. c.accumulator = f[n - (n % 2)]
  BY <1>1 DEF Summarises
<1>4. c.accumulator \in Nat
  <2>1. n - (n % 2) \in 0 .. n
    BY <1>2
  <2> QED
    BY <1>1, <1>3, <2>1 DEF Sums
<1>5. CASE n % 2 = 1
  <2>1. n \in 1 .. n /\ n - (n % 2) = n - 1
    <3> HIDE DEF n
    <3> QED
      BY <1>2, <1>5
  <2>2. c.partial = <<bytes[n]>>
    BY <1>5 DEF Summarises
  <2>3. f[n] = f[n - 1] + bytes[n] * Weight(n)
    BY <1>1, <2>1 DEF Sums
  <2>4. Weight(n) = ByteBase
    BY <1>5 DEF Weight
  <2>5. c.partial # <<>> /\ c.partial[1] = bytes[n]
    BY <2>2
  <2>6. Total(c) = c.accumulator + bytes[n] * ByteBase
    BY <2>5, Zenon DEF Total
  <2> QED
    BY <1>2, <1>3, <1>4, <2>1, <2>3, <2>4, <2>6, Zenon
<1>6. CASE n % 2 # 1
  <2>1. n - (n % 2) = n
    BY <1>2, <1>6, Parity, Zenon
  <2>2. c.partial = <<>>
    BY <1>6 DEF Summarises
  <2>3. Total(c) = c.accumulator
    BY <1>4, <2>2 DEF Total
  <2> QED
    BY <1>2, <1>3, <1>4, <2>1, <2>3
<1> QED
  BY <1>5, <1>6

----------------------------------------------------------------------------
(* Fields, and the buffer they are put into. *)

\* The bytes of a field; a gap has none.
FieldBytes(h, i) ==
    CASE h.format[i].kind = "gap" -> <<>>
      [] h.format[i].kind = "number" -> BigEndian(h.values[i], h.format[i].size)
      [] OTHER -> h.values[i]

\* A function of the places up to n is a sequence.
LEMMA TableIsSeq ==
    ASSUME NEW n \in Nat, NEW S, NEW f \in [1 .. n -> S]
    PROVE  f \in Seq(S) /\ Len(f) = n
  OBVIOUS

\* What HeadersAssumption says of a header, and what it means for the bytes of its fields.
LEMMA HeaderFacts ==
    ASSUME NEW h \in Headers
    PROVE  /\ h.format \in Seq([kind : Kinds, size : Nat]) /\ Len(h.format) \in Nat
           /\ h.checksumField \in 0 .. Len(h.format) /\ h.room \in Nat
           /\ h.checksumField # 0 => HasChecksumField(h)
           /\ \A i \in 1 .. Len(h.format) :
                /\ h.format[i].size \in Nat /\ h.format[i].kind \in Kinds
                /\ HasValue(h.format[i], h.values[i])
                /\ FieldBytes(h, i) \in Seq(Octet)
                /\ h.format[i].kind # "gap" => Len(FieldBytes(h, i)) = h.format[i].size
<1>1. /\ h.format \in Seq([kind : Kinds, size : Nat])
      /\ DOMAIN h.values = DOMAIN h.format
      /\ \A i \in DOMAIN h.format : HasValue(h.format[i], h.values[i])
      /\ h.checksumField \in 0 .. Len(h.format)
      /\ h.checksumField # 0 => HasChecksumField(h)
      /\ h.room \in Nat
  BY HeadersAssumption, Zenon
<1>2. Len(h.format) \in Nat /\ DOMAIN h.format = 1 .. Len(h.format)
  BY <1>1
<1>3. ASSUME NEW i \in 1 .. Len(h.format)
      PROVE  /\ h.format[i].size \in Nat /\ h.format[i].kind \in Kinds
             /\ HasValue(h.format[i], h.values[i])
             /\ FieldBytes(h, i) \in Seq(Octet)
             /\ h.format[i].kind # "gap" => Len(FieldBytes(h, i)) = h.format[i].size
  <2> DEFINE field == h.format[i]
             value == h.values[i]
  <2>1. field \in [kind : Kinds, size : Nat]
    BY <1>1, ElementOfSeq, Zenon
  <2>2. field.size \in Nat /\ field.kind \in Kinds
    BY <2>1
  <2>3. HasValue(field, value)
    BY <1>1, <1>2, Zenon
  <2>4. CASE field.kind = "gap"
    BY <2>2, <2>3, <2>4 DEF FieldBytes
  <2>5. CASE field.kind = "number"
    <3>1. FieldBytes(h, i) = BigEndian(value, field.size)
      BY <2>5 DEF FieldBytes
    <3>2. value \in Nat
      BY <2>3, <2>5 DEF HasValue
    <3>3. BigEndian(value, field.size) \in [1 .. field.size -> Octet]
      BY <2>2, <3>2, RoundTrip
    <3> QED
      BY <2>2, <2>3, <3>1, <3>3, TableIsSeq
  <2>6. CASE field.kind \in {"address", "bytes"}
    <3>1. FieldBytes(h, i) = value
      BY <2>6 DEF FieldBytes
    <3>2. value \in [1 .. field.size -> Octet]
      BY <2>3, <2>6 DEF HasValue
    <3> QED
      BY <2>2, <2>3, <3>1, <3>2, TableIsSeq
  <2> QED
    BY <2>2, <2>4, <2>5, <2>6 DEF Kinds
<1> QED
  BY <1>1, <1>2, <1>3

\* What Put leaves is as long as the buffer and differs where the bytes are put.
LEMMA PutParts ==
    ASSUME buffer \in Seq(Octet), NEW offset \in Nat, NEW bytes \in Seq(Octet)
    PROVE  /\ Put(offset, bytes) \in Seq(Octet) /\ Len(Put(offset, bytes)) = Len(buffer)
           /\ \A i \in 1 .. Len(buffer) :
                Put(offset, bytes)[i] =
                    IF i \in offset + 1 .. offset + Len(bytes) THEN bytes[i - offset] ELSE buffer[i]
<1> DEFINE P == Put(offset, bytes)
<1>1. DOMAIN buffer = 1 .. Len(buffer) /\ Len(buffer) \in Nat /\ Len(bytes) \in Nat
  OBVIOUS
<1>2. P = [i \in 1 .. Len(buffer) |->
             IF i \in offset + 1 .. offset + Len(bytes) THEN bytes[i - offset] ELSE buffer[i]]
  BY <1>1 DEF Put
<1>3. ASSUME NEW i \in 1 .. Len(buffer) PROVE P[i] \in Octet
  <2>1. CASE i \in offset + 1 .. offset + Len(bytes)
    <3>1. i - offset \in 1 .. Len(bytes)
      BY <1>1, <2>1
    <3>2. bytes[i - offset] \in Octet
      BY <3>1, ElementOfSeq, Zenon
    <3> QED
      BY <1>2, <2>1, <3>2
  <2>2. CASE i \notin offset + 1 .. offset + Len(bytes)
    <3>1. buffer[i] \in Octet
      BY ElementOfSeq, Zenon
    <3> QED
      BY <1>2, <2>2, <3>1
  <2> QED
    BY <2>1, <2>2
<1>4. P \in [1 .. Len(buffer) -> Octet]
  BY <1>2, <1>3
<1>5. P \in Seq(Octet) /\ Len(P) = Len(buffer)
  <2> HIDE DEF P
  <2> QED
    BY <1>1, <1>4, TableIsSeq
<1> QED
  BY <1>2, <1>5

\* A part of the buffer that fits into it.
LEMMA GetParts ==
    ASSUME buffer \in Seq(Octet), NEW offset \in Nat, NEW count \in Nat, Fits(offset, count)
    PROVE  /\ Get(offset, count) \in Seq(Octet) /\ Len(Get(offset, count)) = count
           /\ \A i \in 1 .. count : Get(offset, count)[i] = buffer[offset + i]
<1>1. CASE count = 0
  BY <1>1 DEF Get
<1>2. CASE count # 0
  <2>1. offset + count <= Len(buffer) /\ Len(buffer) \in Nat
    BY <1>2 DEF Fits
  <2> QED
    BY <2>1 DEF Get
<1> QED
  BY <1>1, <1>2

\* A checksum is a number of two bytes.
LEMMA ChecksumIsWord ==
    ASSUME NEW sum \in Nat
    PROVE  ChecksumOf(sum) \in 0 .. AllOnes
<1> DEFINE once == FoldOnce(sum)
<1>1. \A s \in Nat : s % WordBase \in Nat /\ s % WordBase < WordBase /\ s \div WordBase \in Nat
  BY Numbers, Z3
<1>2. once \in Nat
  BY <1>1 DEF FoldOnce, High, Low
<1>3. once % WordBase \in Nat /\ once % WordBase < WordBase
  BY <1>1, <1>2
<1> HIDE DEF once
<1>4. ChecksumOf(sum) = AllOnes - (once % WordBase)
  BY DEF ChecksumOf, once
<1> QED
  BY <1>3, <1>4, Numbers DEF AllOnes

\* The sum of words is a natural number.
LEMMA WordSumIsNat ==
    ASSUME NEW bytes \in Seq(Octet)
    PROVE  WordSum(bytes) \in Nat
<1>1. PICK f : Sums(bytes, f)
  BY WordSumValue
<1>2. WordSum(bytes) = f[Len(bytes)]
  BY <1>1, WordSumValue
<1> QED
  BY <1>1, <1>2 DEF Sums

\* So is the number joined from bytes.
LEMMA JoinedIsNat ==
    ASSUME NEW bytes \in Seq(Octet)
    PROVE  FromBigEndian(bytes) \in Nat
<1>1. PICK f \in [0 .. Len(bytes) -> Nat] : FromBigEndian(bytes) = f[Len(bytes)]
  BY Joins
<1> QED
  BY <1>1

----------------------------------------------------------------------------
(* The cursor. *)

\* What a reader has got: a number, an address, an array.
Readable == Nat \cup Seq(Octet)

(***************************************************************************)
(* The cursor stands behind the fields it has passed, and its checksum     *)
(* object stands for the bytes it has passed.                              *)
(***************************************************************************)
Moved ==
    /\ header \in Headers
    /\ pc \in {"write", "read", "done", "thrown"}
    /\ buffer \in Seq(Octet) /\ passed \in Seq(Octet) /\ got \in Seq(Readable)
    /\ cursor.field \in 1 .. Len(header.format) + 1
    /\ cursor.offset = OffsetAfter(header.format, cursor.field - 1)
    /\ Summarises(cursor.checksum, passed)
    /\ Len(got) <= cursor.field - 1
    /\ pc = "write" => got = <<>>
    /\ pc \in {"read", "done"} => Len(got) = cursor.field - 1
    /\ pc = "done" => cursor.field = Len(header.format) + 1

\* The cursor starts before the first field, with a new checksum object.
LEMMA InitMoved == Init => Moved
<1> SUFFICES ASSUME Init PROVE Moved
  OBVIOUS
<1>1. header \in Headers /\ header.room \in Nat /\ Len(header.format) \in Nat
      /\ OffsetAfter(header.format, 0) = 0
  BY HeaderFacts, Offsets DEF Init
<1>2. buffer \in Seq(Octet)
  <2>1. buffer \in [1 .. header.room -> Octet]
    BY Numbers DEF Init
  <2> QED
    BY <1>1, <2>1, TableIsSeq
<1>3. cursor.field = 1 /\ cursor.offset = 0 /\ cursor.checksum = NewChecksum
  BY DEF Init, NewCursor
<1> QED
  BY <1>1, <1>2, <1>3, NewSummarises DEF Init, Moved

\* Where the cursor stands in the header.
LEMMA AtCursor ==
    ASSUME Moved
    PROVE  /\ Len(header.format) \in Nat /\ cursor.offset \in Nat /\ cursor.field \in Nat
           /\ AtField => /\ cursor.field \in 1 .. Len(header.format)
                         /\ Field.size \in Nat /\ Field.kind \in Kinds
                         /\ HasValue(Field, Value)
                         /\ FieldBytes(header, cursor.field) \in Seq(Octet)
                         /\ Field.kind # "gap" => Len(FieldBytes(header, cursor.field)) = Field.size
                         /\ OffsetAfter(header.format, cursor.field) = cursor.offset + Field.size
<1>1. header \in Headers /\ cursor.field \in 1 .. Len(header.format) + 1
      /\ cursor.offset = OffsetAfter(header.format, cursor.field - 1)
  BY DEF Moved
<1>2. Len(header.format) \in Nat /\ header.format \in Seq([kind : Kinds, size : Nat])
  BY <1>1, HeaderFacts
<1>3. cursor.field - 1 \in 0 .. Len(header.format) /\ cursor.field \in Nat
  BY <1>1, <1>2
<1>4. cursor.offset \in Nat
  BY <1>1, <1>2, <1>3, Offsets
<1>5. ASSUME AtField PROVE cursor.field \in 1 .. Len(header.format)
  BY <1>1, <1>2, <1>5 DEF AtField
<1> QED
  BY <1>1, <1>2, <1>3, <1>4, <1>5, HeaderFacts, Offsets DEF Field, Value

\* A field that is passed.
LEMMA PassMoves ==
    ASSUME Moved, AtField, NEW bytes \in Seq(Octet), Pass(bytes)
    PROVE  /\ passed' \in Seq(Octet)
           /\ cursor'.field = cursor.field + 1
           /\ cursor'.field \in 1 .. Len(header.format) + 1 /\ cursor'.field - 1 = cursor.field
           /\ cursor'.offset = OffsetAfter(header.format, cursor'.field - 1)
           /\ Summarises(cursor'.checksum, passed')
<1>1. /\ cursor'.offset = cursor.offset + Field.size /\ cursor'.field = cursor.field + 1
      /\ cursor'.checksum = AddBuffer(cursor.checksum, bytes) /\ passed' = passed \o bytes
  BY DEF Pass
<1>2. /\ Len(header.format) \in Nat /\ cursor.field \in 1 .. Len(header.format)
      /\ OffsetAfter(header.format, cursor.field) = cursor.offset + Field.size
  BY AtCursor
<1>3. passed \in Seq(Octet) /\ Summarises(cursor.checksum, passed)
  BY DEF Moved
<1>4. passed \o bytes \in Seq(Octet)
  BY <1>3
<1>5. Summarises(AddBuffer(cursor.checksum, bytes), passed \o bytes)
  BY <1>3, AddBufferSummarises
<1> QED
  BY <1>1, <1>2, <1>4, <1>5

\* What is written of a field are its bytes.
LEMMA WrittenBytes ==
    ASSUME Moved, AtField, Field.kind # "gap"
    PROVE  (IF Field.kind = "number" THEN BigEndian(Value, Field.size) ELSE Value)
               = FieldBytes(header, cursor.field)
  BY AtCursor DEF FieldBytes, Field, Value, Kinds

\* Put or Patched, the buffer keeps its bytes and its length.
LEMMA PatchedParts ==
    ASSUME Moved
    PROVE  /\ Patched \in Seq(Octet) /\ Len(Patched) = Len(buffer)
           /\ BigEndian(GetChecksum(cursor.checksum), 2) \in Seq(Octet)
           /\ Len(BigEndian(GetChecksum(cursor.checksum), 2)) = 2
           /\ GetChecksum(cursor.checksum) \in 0 .. AllOnes
<1>1. header \in Headers /\ buffer \in Seq(Octet)
      /\ passed \in Seq(Octet) /\ Summarises(cursor.checksum, passed)
  BY DEF Moved
<1>2. Total(cursor.checksum) \in Nat
  BY <1>1, TotalIsWordSum, WordSumIsNat
<1>3. GetChecksum(cursor.checksum) \in 0 .. AllOnes
  BY <1>2, ChecksumIsWord DEF GetChecksum
<1>4. GetChecksum(cursor.checksum) \in Nat
  BY <1>3, Numbers
<1>5. /\ BigEndian(GetChecksum(cursor.checksum), 2) \in Seq(Octet)
      /\ Len(BigEndian(GetChecksum(cursor.checksum), 2)) = 2
  BY <1>4, RoundTrip, TableIsSeq
<1>6. CASE header.checksumField = 0
  BY <1>1, <1>3, <1>5, <1>6 DEF Patched
<1>7. CASE header.checksumField # 0
  <2>1. OffsetAfter(header.format, header.checksumField - 1) \in Nat
    <3>1. header.checksumField - 1 \in 0 .. Len(header.format)
      BY <1>1, <1>7, HeaderFacts
    <3> QED
      BY <1>1, <3>1, HeaderFacts, Offsets
  <2> QED
    BY <1>1, <1>3, <1>5, <1>7, <2>1, PutParts DEF Patched
<1> QED
  BY <1>6, <1>7

(***************************************************************************)
(* Every step of the writer and of the reader keeps that: AddBuffer gets   *)
(* exactly the bytes that are passed, also after a throw and after the     *)
(* reader has started anew.                                                *)
(***************************************************************************)
LEMMA StepMoved == Moved /\ [Next]_vars => Moved'
<1> SUFFICES ASSUME Moved, [Next]_vars PROVE Moved'
  OBVIOUS
<1>1. CASE Skip
  <2>1. <<>> \in Seq(Octet)
    OBVIOUS
  <2>2. /\ passed' \in Seq(Octet) /\ cursor'.field = cursor.field + 1
        /\ cursor'.field \in 1 .. Len(header.format) + 1 /\ cursor'.field - 1 = cursor.field
        /\ cursor'.offset = OffsetAfter(header.format, cursor'.field - 1)
        /\ Summarises(cursor'.checksum, passed')
    BY <1>1, <2>1, PassMoves DEF Skip
  <2>3. cursor.field \in Nat
    BY AtCursor
  <2>4. CASE pc = "read"
    <3>1. got' = Append(got, 0) /\ 0 \in Readable
      BY <1>1, <2>4 DEF Skip, Readable
    <3>2. got' \in Seq(Readable) /\ Len(got') = Len(got) + 1
      BY <3>1 DEF Moved
    <3> QED
      BY <1>1, <2>2, <2>3, <2>4, <3>2 DEF Skip, Moved
  <2>5. CASE pc = "write"
    BY <1>1, <2>2, <2>3, <2>5 DEF Skip, Moved
  <2> QED
    BY <1>1, <2>4, <2>5 DEF Skip
<1>2. CASE WriteField
  <2> DEFINE bytes == FieldBytes(header, cursor.field)
  <2>1. pc = "write" /\ AtField /\ Field.kind # "gap" /\ header' = header
    BY <1>2 DEF WriteField
  <2>2. bytes \in Seq(Octet) /\ cursor.offset \in Nat /\ buffer \in Seq(Octet)
    BY <2>1, AtCursor DEF Moved
  <2>3. (IF Field.kind = "number" THEN BigEndian(Value, Field.size) ELSE Value) = bytes
    BY <2>1, WrittenBytes
  <2> HIDE DEF bytes
  <2>4. Put(cursor.offset, bytes) \in Seq(Octet)
    BY <2>2, PutParts
  <2>5. CASE Fits(cursor.offset, Field.size)
    <3>1. buffer' = Put(cursor.offset, bytes) /\ Pass(bytes) /\ pc' = pc /\ got' = got
      BY <1>2, <2>3, <2>5 DEF WriteField
    <3>2. /\ passed' \in Seq(Octet) /\ cursor'.field = cursor.field + 1
          /\ cursor'.field \in 1 .. Len(header.format) + 1 /\ cursor'.field - 1 = cursor.field
          /\ cursor'.offset = OffsetAfter(header.format, cursor'.field - 1)
          /\ Summarises(cursor'.checksum, passed')
      BY <2>1, <2>2, <3>1, PassMoves
    <3>3. got = <<>> /\ cursor.field \in Nat
      BY <2>1, AtCursor DEF Moved
    <3> QED
      BY <2>1, <2>4, <3>1, <3>2, <3>3 DEF Moved
  <2>6. CASE ~Fits(cursor.offset, Field.size)
    <3>1. /\ buffer' = IF Field.kind = "address" THEN Put(cursor.offset, bytes) ELSE buffer
          /\ pc' = "thrown" /\ cursor' = cursor /\ passed' = passed /\ got' = got
      BY <1>2, <2>3, <2>6 DEF WriteField, Throw
    <3> QED
      BY <2>1, <2>2, <2>4, <3>1 DEF Moved
  <2> QED
    BY <2>5, <2>6
<1>3. ASSUME NEW n \in 0 .. Len(buffer), Arrive(n) PROVE Moved'
  <2>1. /\ header' = header /\ got' = got /\ got = <<>> /\ pc' = "read" /\ passed' = <<>>
        /\ cursor'.field = 1 /\ cursor'.offset = 0 /\ cursor'.checksum = NewChecksum
    BY <1>3 DEF Arrive, NewCursor, Moved
  <2>2. buffer' \in Seq(Octet)
    <3>1. buffer' = SubSeq(Patched, 1, n) /\ Patched \in Seq(Octet) /\ n \in 0 .. Len(Patched)
      BY <1>3, PatchedParts DEF Arrive
    <3> QED
      BY <3>1
  <2>3. Len(header.format) \in Nat /\ OffsetAfter(header.format, 0) = 0
    BY HeaderFacts, Offsets DEF Moved
  <2> QED
    BY <2>1, <2>2, <2>3, NewSummarises DEF Moved
<1>4. CASE ReadField
  <2> DEFINE bytes == Get(cursor.offset, Field.size)
             value == IF Field.kind = "number" THEN FromBigEndian(bytes) ELSE bytes
  <2>1. pc = "read" /\ AtField /\ Field.kind # "gap" /\ header' = header /\ buffer' = buffer
    BY <1>4 DEF ReadField
  <2>2. cursor.offset \in Nat /\ Field.size \in Nat /\ buffer \in Seq(Octet) /\ cursor.field \in Nat
    BY <2>1, AtCursor DEF Moved
  <2>3. CASE Fits(cursor.offset, Field.size)
    <3>1. got' = Append(got, value) /\ Pass(bytes) /\ pc' = pc
      BY <1>4, <2>3 DEF ReadField
    <3>2. bytes \in Seq(Octet)
      BY <2>2, <2>3, GetParts
    <3>3. value \in Readable
      <4> HIDE DEF bytes
      <4>1. FromBigEndian(bytes) \in Nat
        BY <3>2, JoinedIsNat
      <4> QED
        BY <3>2, <4>1 DEF Readable
    <3> HIDE DEF bytes, value
    <3>4. /\ passed' \in Seq(Octet) /\ cursor'.field = cursor.field + 1
          /\ cursor'.field \in 1 .. Len(header.format) + 1 /\ cursor'.field - 1 = cursor.field
          /\ cursor'.offset = OffsetAfter(header.format, cursor'.field - 1)
          /\ Summarises(cursor'.checksum, passed')
      BY <2>1, <3>1, <3>2, PassMoves
    <3>5. got' \in Seq(Readable) /\ Len(got') = Len(got) + 1
      BY <3>1, <3>3 DEF Moved
    <3> QED
      BY <2>1, <2>2, <3>1, <3>4, <3>5 DEF Moved
  <2>4. CASE ~Fits(cursor.offset, Field.size)
    <3>1. pc' = "thrown" /\ cursor' = cursor /\ passed' = passed /\ got' = got
      BY <1>4, <2>4 DEF ReadField, Throw
    <3> QED
      BY <2>1, <3>1 DEF Moved
  <2> QED
    BY <2>3, <2>4
<1>5. CASE Return
  <2>1. cursor.field = Len(header.format) + 1
    <3>1. Len(header.format) \in Nat
      BY AtCursor
    <3> QED
      BY <1>5, <3>1 DEF Return, AtField, Moved
  <2> QED
    BY <1>5, <2>1 DEF Return, Moved
<1>6. CASE UNCHANGED vars
  BY <1>6 DEF vars, Moved
<1> QED
  BY <1>1, <1>2, <1>3, <1>4, <1>5, <1>6 DEF Next

\* The cursor of BufferWriter and BufferReader always stands for what it has passed.
THEOREM HeaderMoved == Spec => []Moved
  BY InitMoved, StepMoved, PTL DEF Spec

\* The types follow.
LEMMA MovedTypes == Moved => TypeOK
<1> SUFFICES ASSUME Moved PROVE TypeOK
  OBVIOUS
<1>1. cursor.checksum.accumulator \in Nat
  BY TotalIsWordSum DEF Moved
<1>2. Len(cursor.checksum.partial) = Len(passed) % 2
  <2>1. passed \in Seq(Octet) /\ Len(passed) \in Nat
    BY DEF Moved
  <2>2. Len(passed) % 2 \in {0, 1}
    BY <2>1
  <2> QED
    BY <2>2 DEF Moved, Summarises
<1>3. cursor.offset \in Nat /\ Len(got) <= Len(header.format)
  <2>1. Len(header.format) \in Nat /\ cursor.offset \in Nat
    BY AtCursor
  <2> QED
    BY <2>1 DEF Moved
<1> QED
  BY <1>1, <1>2, <1>3 DEF Moved, TypeOK

\* The buffer holds bytes, and the checksum object of the cursor keeps at most one of them open.
THEOREM HeaderTypeOK == Spec => []TypeOK
  BY MovedTypes, HeaderMoved, PTL

(***************************************************************************)
(* What AddBuffer has been given in pieces, one for each field, sums up to *)
(* what the bytes sum up to as one sequence, for any sizes of the fields.  *)
(***************************************************************************)
THEOREM HeaderChunkingIndependent == Spec => []ChunkingIndependent
<1>1. Moved => ChunkingIndependent
  BY TotalIsWordSum DEF Moved, ChunkingIndependent
<1> QED
  BY <1>1, HeaderMoved, PTL

----------------------------------------------------------------------------
(* Room for the header. *)

\* Offsets grow from field to field, and stay where the fields are empty.
LEMMA OffsetsGrow ==
    ASSUME NEW format \in Seq([kind : Kinds, size : Nat]), NEW i \in 0 .. Len(format),
           NEW j \in i .. Len(format)
    PROVE  /\ OffsetAfter(format, i) \in Nat /\ OffsetAfter(format, j) \in Nat
           /\ OffsetAfter(format, i) <= OffsetAfter(format, j)
           /\ (\A k \in i + 1 .. Len(format) : format[k].size = 0)
                => OffsetAfter(format, j) = OffsetAfter(format, i)
<1> DEFINE n == Len(format)
           empty == \A k \in i + 1 .. n : format[k].size = 0
           Good == {d \in Nat : i + d <= n =>
                      /\ OffsetAfter(format, i) <= OffsetAfter(format, i + d)
                      /\ empty => OffsetAfter(format, i + d) = OffsetAfter(format, i)}
<1>1. n \in Nat /\ i \in Nat /\ i <= n
  OBVIOUS
<1>2. \A k \in 0 .. n : OffsetAfter(format, k) \in Nat
  BY Offsets
<1>3. 0 \in Good
  BY <1>1, <1>2
<1>4. ASSUME NEW d \in Nat, d \in Good PROVE d + 1 \in Good
  <2> SUFFICES ASSUME i + (d + 1) <= n
               PROVE  /\ OffsetAfter(format, i) <= OffsetAfter(format, i + (d + 1))
                      /\ empty => OffsetAfter(format, i + (d + 1)) = OffsetAfter(format, i)
    OBVIOUS
  <2> DEFINE k == i + (d + 1)
  <2>1. /\ k \in 1 .. n /\ k - 1 = i + d /\ k \in 0 .. n /\ k - 1 \in 0 .. n
        /\ i + d <= n /\ k \in i + 1 .. n
    BY <1>1
  <2>2. format[k] \in [kind : Kinds, size : Nat]
    BY <2>1, ElementOfSeq, Zenon
  <2>3. format[k].size \in Nat /\ (empty => format[k].size = 0)
    BY <2>1, <2>2
  <2>4. OffsetAfter(format, k) = OffsetAfter(format, k - 1) + format[k].size
    BY <2>1, Offsets
  <2>5. /\ OffsetAfter(format, i) <= OffsetAfter(format, k - 1)
        /\ empty => OffsetAfter(format, k - 1) = OffsetAfter(format, i)
    BY <1>4, <2>1
  <2>6. OffsetAfter(format, i) \in Nat /\ OffsetAfter(format, k - 1) \in Nat
    BY <1>1, <1>2, <2>1
  <2> HIDE DEF k, empty
  <2>7. /\ OffsetAfter(format, i) <= OffsetAfter(format, k)
        /\ empty => OffsetAfter(format, k) = OffsetAfter(format, i)
    BY <2>3, <2>4, <2>5, <2>6
  <2> QED
    BY <2>7 DEF k
<1>5. \A d \in Nat : d \in Good
  <2> HIDE DEF Good
  <2> QED
    BY <1>3, <1>4, Induction
<1>6. j - i \in Nat /\ i + (j - i) = j /\ i + (j - i) <= n /\ j \in 0 .. n
  BY <1>1
<1>7. j - i \in Good
  BY <1>5, <1>6
<1> QED
  BY <1>1, <1>2, <1>6, <1>7

(***************************************************************************)
(* Every field that was read with at least a byte lay within the buffer,   *)
(* and who has thrown had less room than the header takes.                 *)
(***************************************************************************)
Fitted ==
    /\ pc \in {"read", "done"} =>
        \A j \in 1 .. cursor.field - 1 :
            header.format[j].kind # "gap" /\ header.format[j].size > 0
                => OffsetAfter(header.format, j) <= Len(buffer)
    /\ pc = "thrown" => Len(buffer) < SizeOf(header.format)

\* At first nothing is read and nothing has thrown.
LEMMA InitFitted == Init => Fitted
  BY DEF Init, Fitted

\* A field that does not fit ends behind the buffer, and so does the header.
LEMMA NoRoom ==
    ASSUME Moved, AtField, ~Fits(cursor.offset, Field.size)
    PROVE  Len(buffer) < SizeOf(header.format)
<1>1. /\ Len(header.format) \in Nat /\ cursor.offset \in Nat /\ cursor.field \in 1 .. Len(header.format)
      /\ Field.size \in Nat
      /\ OffsetAfter(header.format, cursor.field) = cursor.offset + Field.size
  BY AtCursor
<1>2. Len(buffer) \in Nat /\ Len(buffer) < cursor.offset + Field.size
  BY <1>1 DEF Fits, Moved
<1>3. header.format \in Seq([kind : Kinds, size : Nat])
  BY HeaderFacts DEF Moved
<1>4. /\ cursor.field \in 0 .. Len(header.format)
      /\ Len(header.format) \in cursor.field .. Len(header.format)
  BY <1>1
<1>5. /\ OffsetAfter(header.format, cursor.field) <= OffsetAfter(header.format, Len(header.format))
      /\ OffsetAfter(header.format, Len(header.format)) \in Nat
  BY <1>3, <1>4, OffsetsGrow
<1> QED
  BY <1>1, <1>2, <1>5 DEF SizeOf

\* Every step keeps it: a field is passed only where it fits.
LEMMA StepFitted == Moved /\ Fitted /\ [Next]_vars => Fitted'
<1> SUFFICES ASSUME Moved, Fitted, [Next]_vars PROVE Fitted'
  OBVIOUS
<1>0. Len(header.format) \in Nat /\ cursor.field \in Nat /\ cursor.offset \in Nat
  BY AtCursor
<1>1. CASE Skip
  <2>1. /\ header' = header /\ pc' = pc /\ buffer' = buffer /\ pc # "thrown"
        /\ cursor'.field = cursor.field + 1 /\ Field.kind = "gap"
    BY <1>1 DEF Skip, Pass
  <2>2. \A j \in 1 .. cursor'.field - 1 : j \in 1 .. cursor.field - 1 \/ j = cursor.field
    BY <1>0, <2>1
  <2> QED
    BY <2>1, <2>2 DEF Fitted, Field
<1>2. CASE WriteField
  <2>1. pc = "write" /\ AtField /\ header' = header
    BY <1>2 DEF WriteField
  <2>2. CASE Fits(cursor.offset, Field.size)
    BY <1>2, <2>1, <2>2 DEF WriteField, Fitted
  <2>3. CASE ~Fits(cursor.offset, Field.size)
    <3> DEFINE bytes == FieldBytes(header, cursor.field)
    <3>1. Field.kind # "gap"
      BY <1>2 DEF WriteField
    <3>2. bytes \in Seq(Octet) /\ buffer \in Seq(Octet)
      BY <2>1, AtCursor DEF Moved
    <3>3. (IF Field.kind = "number" THEN BigEndian(Value, Field.size) ELSE Value) = bytes
      BY <2>1, <3>1, WrittenBytes
    <3> HIDE DEF bytes
    <3>4. Len(Put(cursor.offset, bytes)) = Len(buffer)
      BY <1>0, <3>2, PutParts
    <3>5. /\ buffer' = IF Field.kind = "address" THEN Put(cursor.offset, bytes) ELSE buffer
          /\ pc' = "thrown"
      BY <1>2, <2>3, <3>3 DEF WriteField, Throw
    <3>6. Len(buffer') = Len(buffer)
      BY <3>4, <3>5
    <3>7. Len(buffer) < SizeOf(header.format)
      BY <2>1, <2>3, NoRoom
    <3> QED
      BY <2>1, <3>5, <3>6, <3>7 DEF Fitted
  <2> QED
    BY <2>2, <2>3
<1>3. ASSUME NEW n \in 0 .. Len(buffer), Arrive(n) PROVE Fitted'
  BY <1>3 DEF Arrive, NewCursor, Fitted
<1>4. CASE ReadField
  <2>1. pc = "read" /\ AtField /\ header' = header /\ buffer' = buffer
    BY <1>4 DEF ReadField
  <2>2. CASE Fits(cursor.offset, Field.size)
    <3>1. cursor'.field = cursor.field + 1 /\ pc' = pc
      BY <1>4, <2>2 DEF ReadField, Pass
    <3>2. \A j \in 1 .. cursor'.field - 1 : j \in 1 .. cursor.field - 1 \/ j = cursor.field
      BY <1>0, <3>1
    <3>3. Field.size > 0 => OffsetAfter(header.format, cursor.field) <= Len(buffer)
      BY <2>1, <2>2, AtCursor DEF Fits
    <3> QED
      BY <2>1, <3>1, <3>2, <3>3 DEF Fitted, Field
  <2>3. CASE ~Fits(cursor.offset, Field.size)
    <3>1. pc' = "thrown"
      BY <1>4, <2>3 DEF ReadField, Throw
    <3>2. Len(buffer) < SizeOf(header.format)
      BY <2>1, <2>3, NoRoom
    <3> QED
      BY <2>1, <3>1, <3>2 DEF Fitted
  <2> QED
    BY <2>2, <2>3
<1>5. CASE Return
  BY <1>5 DEF Return, Fitted
<1>6. CASE UNCHANGED vars
  BY <1>6 DEF vars, Fitted
<1> QED
  BY <1>1, <1>2, <1>3, <1>4, <1>5, <1>6 DEF Next

\* So the last field that has bytes decides.
LEMMA FittedRefuses == Moved /\ Fitted => RefusedWhenShort
<1> SUFFICES ASSUME Moved, Fitted PROVE RefusedWhenShort
  OBVIOUS
<1> DEFINE n == Len(header.format)
<1>1. n \in Nat /\ header.format \in Seq([kind : Kinds, size : Nat])
  BY HeaderFacts DEF Moved
<1>2. ASSUME pc = "done", NEW i \in DOMAIN header.format,
             header.format[i].kind # "gap", header.format[i].size > 0,
             \A j \in i + 1 .. n : header.format[j].size = 0
      PROVE  Len(buffer) >= SizeOf(header.format)
  <2>1. i \in 1 .. n /\ i \in 0 .. n /\ n \in i .. n
    BY <1>1
  <2>2. cursor.field = n + 1 /\ i \in 1 .. cursor.field - 1
    BY <1>1, <1>2, <2>1 DEF Moved
  <2>3. OffsetAfter(header.format, i) <= Len(buffer)
    BY <1>2, <2>2 DEF Fitted
  <2>4. /\ OffsetAfter(header.format, n) = OffsetAfter(header.format, i)
        /\ OffsetAfter(header.format, i) \in Nat
    BY <1>1, <1>2, <2>1, OffsetsGrow
  <2>5. Len(buffer) \in Nat
    BY DEF Moved
  <2> QED
    BY <2>3, <2>4, <2>5 DEF SizeOf
<1> QED
  BY <1>2 DEF RefusedWhenShort, Fitted

(***************************************************************************)
(* A header is refused by CheckPutAt or CheckGetAt exactly when it does    *)
(* not fit, whatever its fields are and wherever the frame ends.           *)
(***************************************************************************)
THEOREM HeaderRefusedWhenShort == Spec => []RefusedWhenShort
<1>1. Spec => []Fitted
  BY InitFitted, StepFitted, HeaderMoved, PTL DEF Spec
<1> QED
  BY <1>1, HeaderMoved, FittedRefuses, PTL

----------------------------------------------------------------------------
(* What is written is read. *)

\* A buffer holds the bytes at the offset, those of them that fit into it.
HoldsAt(bytes, offset, whole) ==
    \A k \in 1 .. Len(bytes) : offset + k <= Len(whole) => whole[offset + k] = bytes[k]

\* What is put is held.
LEMMA PutHolds ==
    ASSUME buffer \in Seq(Octet), NEW offset \in Nat, NEW bytes \in Seq(Octet)
    PROVE  HoldsAt(bytes, offset, Put(offset, bytes))
<1> SUFFICES ASSUME NEW k \in 1 .. Len(bytes), offset + k <= Len(buffer)
             PROVE  Put(offset, bytes)[offset + k] = bytes[k]
  BY PutParts DEF HoldsAt
<1>1. /\ offset + k \in 1 .. Len(buffer) /\ offset + k \in offset + 1 .. offset + Len(bytes)
      /\ (offset + k) - offset = k
  OBVIOUS
<1> QED
  BY <1>1, PutParts

\* Bytes put elsewhere leave them alone.
LEMMA PutKeeps ==
    ASSUME buffer \in Seq(Octet), NEW offset \in Nat, NEW bytes \in Seq(Octet),
           NEW o \in Nat, NEW held \in Seq(Octet), HoldsAt(held, o, buffer),
           o + Len(held) <= offset \/ offset + Len(bytes) <= o
    PROVE  HoldsAt(held, o, Put(offset, bytes))
<1> SUFFICES ASSUME NEW k \in 1 .. Len(held), o + k <= Len(buffer)
             PROVE  Put(offset, bytes)[o + k] = held[k]
  BY PutParts DEF HoldsAt
<1>1. o + k \in 1 .. Len(buffer) /\ o + k \notin offset + 1 .. offset + Len(bytes)
  OBVIOUS
<1>2. buffer[o + k] = held[k]
  BY DEF HoldsAt
<1> QED
  BY <1>1, <1>2, PutParts

\* What is cut off behind does not count.
LEMMA CutHolds ==
    ASSUME NEW whole \in Seq(Octet), NEW n \in 0 .. Len(whole), NEW o \in Nat,
           NEW held \in Seq(Octet), HoldsAt(held, o, whole)
    PROVE  HoldsAt(held, o, SubSeq(whole, 1, n))
<1> DEFINE cut == SubSeq(whole, 1, n)
<1>1. Len(cut) = n /\ \A i \in 1 .. n : cut[i] = whole[i]
  OBVIOUS
<1> SUFFICES ASSUME NEW k \in 1 .. Len(held), o + k <= n PROVE cut[o + k] = held[k]
  BY <1>1 DEF HoldsAt
<1>2. o + k \in 1 .. n /\ o + k <= Len(whole)
  OBVIOUS
<1> HIDE DEF cut
<1> QED
  BY <1>1, <1>2 DEF HoldsAt

\* The places of two fields do not overlap.
LEMMA FieldsApart ==
    ASSUME NEW h \in Headers, NEW i \in 1 .. Len(h.format), NEW j \in i + 1 .. Len(h.format)
    PROVE  /\ OffsetAfter(h.format, i - 1) \in Nat /\ OffsetAfter(h.format, j - 1) \in Nat
           /\ OffsetAfter(h.format, i - 1) + Len(FieldBytes(h, i)) <= OffsetAfter(h.format, j - 1)
<1>1. h.format \in Seq([kind : Kinds, size : Nat]) /\ Len(h.format) \in Nat
  BY HeaderFacts
<1>2. /\ i - 1 \in 0 .. Len(h.format) /\ i \in 0 .. Len(h.format)
      /\ j - 1 \in i .. Len(h.format) /\ j - 1 \in 0 .. Len(h.format)
  BY <1>1
<1>3. OffsetAfter(h.format, i - 1) \in Nat /\ OffsetAfter(h.format, j - 1) \in Nat
  BY <1>1, <1>2, Offsets
<1>4. OffsetAfter(h.format, i) = OffsetAfter(h.format, i - 1) + h.format[i].size
  BY <1>1, Offsets
<1>5. OffsetAfter(h.format, i) <= OffsetAfter(h.format, j - 1)
  BY <1>1, <1>2, OffsetsGrow
<1>6. /\ h.format[i].size \in Nat /\ Len(FieldBytes(h, i)) \in Nat
      /\ Len(FieldBytes(h, i)) <= h.format[i].size
  <2>1. CASE h.format[i].kind = "gap"
    <3>1. FieldBytes(h, i) = <<>> /\ h.format[i].size \in Nat
      BY <2>1, HeaderFacts DEF FieldBytes
    <3> QED
      BY <3>1
  <2>2. CASE h.format[i].kind # "gap"
    BY <2>2, HeaderFacts
  <2> QED
    BY <2>1, <2>2
<1> QED
  BY <1>3, <1>4, <1>5, <1>6

\* The value of a field is read out of its bytes.
LEMMA ValueOfBytes ==
    ASSUME NEW h \in Headers, NEW i \in 1 .. Len(h.format), h.format[i].kind # "gap"
    PROVE  (IF h.format[i].kind = "number" THEN FromBigEndian(FieldBytes(h, i)) ELSE FieldBytes(h, i))
               = h.values[i]
<1>1. h.format[i].size \in Nat /\ HasValue(h.format[i], h.values[i])
  BY HeaderFacts
<1>2. CASE h.format[i].kind = "number"
  <2>1. FieldBytes(h, i) = BigEndian(h.values[i], h.format[i].size)
    BY <1>2 DEF FieldBytes
  <2>2. h.values[i] \in Nat /\ Shifted(h.values[i], h.format[i].size) = 0
    BY <1>1, <1>2 DEF HasValue
  <2>3. FromBigEndian(BigEndian(h.values[i], h.format[i].size)) = h.values[i]
    BY <1>1, <2>2, RoundTrip
  <2> QED
    BY <1>2, <2>1, <2>3
<1>3. CASE h.format[i].kind # "number"
  BY <1>3 DEF FieldBytes
<1> QED
  BY <1>2, <1>3

\* The offset of a field.
OffsetOf(i) == OffsetAfter(header.format, i - 1)

(***************************************************************************)
(* What was written stays where it was written, but for the checksum's     *)
(* field, which is written twice.                                          *)
(***************************************************************************)
Stored ==
    /\ pc = "write" =>
        \A j \in 1 .. cursor.field - 1 : HoldsAt(FieldBytes(header, j), OffsetOf(j), buffer)
    /\ pc = "read" =>
        \A j \in 1 .. Len(header.format) :
            j # header.checksumField => HoldsAt(FieldBytes(header, j), OffsetOf(j), buffer)
    /\ FieldsReadBack

\* At first nothing is written and nothing read.
LEMMA InitStored == Init => Stored
<1> SUFFICES ASSUME Init PROVE Stored
  OBVIOUS
<1>1. got = <<>> /\ cursor.field = 1 /\ pc = "write"
  BY DEF Init, NewCursor
<1> QED
  BY <1>1 DEF Stored, FieldsReadBack

\* Nothing is read before everything is written, and what is read then.
LEMMA GotDomain == ASSUME Moved PROVE DOMAIN got = 1 .. Len(got) /\ Len(got) \in Nat
  BY DEF Moved

\* Bytes the buffer holds at the cursor are got there.
LEMMA GetsHeld ==
    ASSUME Moved, AtField, Fits(cursor.offset, Field.size),
           NEW bytes \in Seq(Octet), Len(bytes) = Field.size,
           HoldsAt(bytes, OffsetOf(cursor.field), buffer)
    PROVE  Get(cursor.offset, Field.size) = bytes
<1> DEFINE read == Get(cursor.offset, Field.size)
<1>1. /\ Field.size \in Nat /\ cursor.offset \in Nat /\ buffer \in Seq(Octet)
      /\ cursor.offset = OffsetOf(cursor.field)
  BY AtCursor DEF Moved, OffsetOf
<1>2. /\ read \in Seq(Octet) /\ Len(read) = Field.size
      /\ \A i \in 1 .. Field.size : read[i] = buffer[cursor.offset + i]
  BY <1>1, GetParts
<1> HIDE DEF read
<1>3. ASSUME NEW i \in 1 .. Field.size PROVE read[i] = bytes[i]
  <2>1. cursor.offset + i <= Len(buffer)
    BY <1>1 DEF Fits
  <2> QED
    BY <1>1, <1>2, <2>1 DEF HoldsAt
<1>4. read = bytes
  BY <1>1, <1>2, <1>3, SameElements
<1> QED
  BY <1>4 DEF read

\* The bytes at the cursor are those of its field.
LEMMA GetsField ==
    ASSUME Moved, AtField, Field.kind # "gap", Fits(cursor.offset, Field.size),
           HoldsAt(FieldBytes(header, cursor.field), OffsetOf(cursor.field), buffer)
    PROVE  Get(cursor.offset, Field.size) = FieldBytes(header, cursor.field)
<1>1. /\ FieldBytes(header, cursor.field) \in Seq(Octet)
      /\ Len(FieldBytes(header, cursor.field)) = Field.size
  BY AtCursor
<1> QED
  BY <1>1, GetsHeld

\* A header in the frame that arrives: all is kept but the checksum's field.
LEMMA PatchedHolds ==
    ASSUME Moved, Stored, pc = "write", ~AtField,
           NEW j \in 1 .. Len(header.format), j # header.checksumField
    PROVE  HoldsAt(FieldBytes(header, j), OffsetOf(j), Patched)
<1> DEFINE n == Len(header.format)
           c == header.checksumField
           bytes == FieldBytes(header, j)
           sum == BigEndian(GetChecksum(cursor.checksum), 2)
<1>1. /\ header \in Headers /\ n \in Nat /\ c \in 0 .. n /\ buffer \in Seq(Octet)
      /\ header.format \in Seq([kind : Kinds, size : Nat])
  BY HeaderFacts DEF Moved
<1>2. j \in 1 .. cursor.field - 1
  BY <1>1, AtCursor DEF AtField, Moved
<1>3. HoldsAt(bytes, OffsetOf(j), buffer) /\ bytes \in Seq(Octet)
  BY <1>1, <1>2, HeaderFacts DEF Stored
<1>4. CASE c = 0
  BY <1>3, <1>4 DEF Patched
<1>5. CASE c # 0
  <2>1. c \in 1 .. n /\ j \in 1 .. n
    BY <1>1, <1>5
  <2>2. j - 1 \in 0 .. n /\ c - 1 \in 0 .. n
    BY <1>1, <2>1
  <2>3. OffsetOf(j) \in Nat /\ OffsetOf(c) \in Nat
    BY <1>1, <2>2, Offsets DEF OffsetOf
  <2>4. sum \in Seq(Octet) /\ Len(sum) = 2
    BY PatchedParts
  <2>5. OffsetOf(j) + Len(bytes) <= OffsetOf(c) \/ OffsetOf(c) + Len(sum) <= OffsetOf(j)
    <3>1. CASE j < c
      <4>1. c \in j + 1 .. n
        BY <1>1, <2>1, <3>1
      <4> QED
        BY <1>1, <2>1, <4>1, FieldsApart DEF OffsetOf
    <3>2. CASE c < j
      <4>1. j \in c + 1 .. n
        BY <1>1, <2>1, <3>2
      <4>2. header.format[c] = Number(2)
        BY <1>1, <1>5, HeaderFacts DEF HasChecksumField
      <4>3. Len(FieldBytes(header, c)) = 2
        <5>1. header.format[c].kind # "gap" /\ header.format[c].size = 2
          BY <4>2 DEF Number
        <5> HIDE DEF c
        <5> QED
          BY <1>1, <2>1, <5>1, HeaderFacts
      <4> QED
        BY <1>1, <2>1, <2>4, <4>1, <4>3, FieldsApart DEF OffsetOf
    <3> QED
      BY <1>1, <2>1, <3>1, <3>2
  <2>6. Patched = Put(OffsetOf(c), sum)
    BY <1>5 DEF Patched, OffsetOf
  <2> HIDE DEF n, c, bytes, sum
  <2>7. HoldsAt(bytes, OffsetOf(j), Put(OffsetOf(c), sum))
    BY <1>1, <1>3, <2>3, <2>4, <2>5, PutKeeps
  <2> QED
    BY <2>6, <2>7 DEF bytes
<1> QED
  BY <1>4, <1>5

\* Every step keeps it: fields do not overlap, and what is read of one is what was written of it.
LEMMA StepStored == Moved /\ Stored /\ [Next]_vars => Stored'
<1> SUFFICES ASSUME Moved, Stored, [Next]_vars PROVE Stored'
  OBVIOUS
<1> DEFINE n == Len(header.format)
<1>0. /\ header \in Headers /\ n \in Nat /\ cursor.field \in Nat /\ cursor.offset \in Nat
      /\ header.format \in Seq([kind : Kinds, size : Nat]) /\ buffer \in Seq(Octet)
      /\ got \in Seq(Readable) /\ DOMAIN got = 1 .. Len(got) /\ Len(got) \in Nat
  BY AtCursor, HeaderFacts, GotDomain DEF Moved
<1>1. CASE Skip
  <2>1. /\ header' = header /\ pc' = pc /\ buffer' = buffer /\ pc \in {"write", "read"} /\ AtField
        /\ cursor'.field = cursor.field + 1 /\ Field.kind = "gap"
        /\ got' = IF pc = "read" THEN Append(got, 0) ELSE got
    BY <1>1 DEF Skip, Pass
  <2>2. FieldBytes(header, cursor.field) = <<>>
    BY <2>1 DEF FieldBytes, Field
  <2>3. ASSUME pc' = "write", NEW j \in 1 .. cursor'.field - 1
        PROVE  HoldsAt(FieldBytes(header, j), OffsetOf(j), buffer)
    <3>1. j \in 1 .. cursor.field - 1 \/ j = cursor.field
      BY <1>0, <2>1
    <3>2. CASE j \in 1 .. cursor.field - 1
      BY <2>1, <2>3, <3>2 DEF Stored
    <3>3. CASE j = cursor.field
      BY <2>2, <3>3 DEF HoldsAt
    <3> QED
      BY <3>1, <3>2, <3>3
  <2>4. FieldsReadBack'
    <3>1. CASE pc = "write"
      BY <2>1, <3>1 DEF Stored, FieldsReadBack
    <3>2. CASE pc = "read"
      <4>1. got' = Append(got, 0) /\ Len(got) = cursor.field - 1 /\ 0 \in Readable
        BY <2>1, <3>2 DEF Moved, Readable
      <4>2. DOMAIN got' = 1 .. cursor.field /\ \A i \in 1 .. cursor.field - 1 : got'[i] = got[i]
        BY <1>0, <4>1
      <4>3. \A i \in DOMAIN got' : i \in DOMAIN got \/ i = cursor.field
        BY <1>0, <4>1, <4>2
      <4> QED
        BY <1>0, <2>1, <4>1, <4>2, <4>3 DEF Stored, FieldsReadBack, Field
    <3> QED
      BY <2>1, <3>1, <3>2
  <2> QED
    BY <2>1, <2>3, <2>4 DEF Stored, OffsetOf
<1>2. CASE WriteField
  <2> DEFINE bytes == FieldBytes(header, cursor.field)
  <2>1. pc = "write" /\ AtField /\ Field.kind # "gap" /\ header' = header
    BY <1>2 DEF WriteField
  <2>2. /\ bytes \in Seq(Octet) /\ cursor.field \in 1 .. n
        /\ cursor.offset = OffsetOf(cursor.field)
    BY <2>1, AtCursor DEF Moved, OffsetOf
  <2>3. (IF Field.kind = "number" THEN BigEndian(Value, Field.size) ELSE Value) = bytes
    BY <2>1, WrittenBytes
  <2> HIDE DEF bytes
  <2>4. CASE Fits(cursor.offset, Field.size)
    <3>1. /\ buffer' = Put(cursor.offset, bytes) /\ pc' = pc /\ got' = got
          /\ cursor'.field = cursor.field + 1
      BY <1>2, <2>3, <2>4 DEF WriteField, Pass
    <3>2. ASSUME NEW j \in 1 .. cursor'.field - 1
          PROVE  HoldsAt(FieldBytes(header, j), OffsetOf(j), Put(cursor.offset, bytes))
      <4>1. j \in 1 .. cursor.field - 1 \/ j = cursor.field
        BY <1>0, <3>1
      <4>2. CASE j \in 1 .. cursor.field - 1
        <5>1. j \in 1 .. n /\ cursor.field \in j + 1 .. n
          BY <1>0, <2>2, <4>2
        <5>2. OffsetOf(j) + Len(FieldBytes(header, j)) <= cursor.offset /\ OffsetOf(j) \in Nat
          BY <1>0, <2>2, <5>1, FieldsApart DEF OffsetOf
        <5>3. HoldsAt(FieldBytes(header, j), OffsetOf(j), buffer)
          BY <2>1, <4>2 DEF Stored
        <5>4. FieldBytes(header, j) \in Seq(Octet)
          BY <1>0, <5>1, HeaderFacts
        <5> QED
          BY <1>0, <2>2, <5>2, <5>3, <5>4, PutKeeps
      <4>3. CASE j = cursor.field
        <5>1. HoldsAt(bytes, cursor.offset, Put(cursor.offset, bytes))
          BY <1>0, <2>2, PutHolds
        <5> QED
          BY <2>2, <4>3, <5>1 DEF bytes
      <4> QED
        BY <4>1, <4>2, <4>3
    <3> QED
      BY <2>1, <3>1, <3>2 DEF Stored, OffsetOf, FieldsReadBack
  <2>5. CASE ~Fits(cursor.offset, Field.size)
    BY <1>2, <2>1, <2>5 DEF WriteField, Throw, Stored, FieldsReadBack
  <2> QED
    BY <2>4, <2>5
<1>3. ASSUME NEW m \in 0 .. Len(buffer), Arrive(m) PROVE Stored'
  <2>1. /\ pc = "write" /\ ~AtField /\ header' = header /\ got' = got /\ got = <<>>
        /\ pc' = "read" /\ buffer' = SubSeq(Patched, 1, m)
    BY <1>3 DEF Arrive, Moved
  <2>2. Patched \in Seq(Octet) /\ m \in 0 .. Len(Patched)
    BY <1>3, PatchedParts
  <2>3. ASSUME NEW j \in 1 .. n, j # header.checksumField
        PROVE  HoldsAt(FieldBytes(header, j), OffsetOf(j), SubSeq(Patched, 1, m))
    <3>1. HoldsAt(FieldBytes(header, j), OffsetOf(j), Patched)
      BY <2>1, <2>3, PatchedHolds
    <3>2. j - 1 \in 0 .. n
      BY <1>0
    <3>3. FieldBytes(header, j) \in Seq(Octet) /\ OffsetOf(j) \in Nat
      BY <1>0, <3>2, HeaderFacts, Offsets DEF OffsetOf
    <3> QED
      BY <2>2, <3>1, <3>3, CutHolds
  <2> QED
    BY <2>1, <2>3 DEF Stored, OffsetOf, FieldsReadBack
<1>4. CASE ReadField
  <2> DEFINE bytes == Get(cursor.offset, Field.size)
             value == IF Field.kind = "number" THEN FromBigEndian(bytes) ELSE bytes
  <2>1. pc = "read" /\ AtField /\ Field.kind # "gap" /\ header' = header /\ buffer' = buffer
    BY <1>4 DEF ReadField
  <2>2. Len(got) = cursor.field - 1 /\ cursor.field \in 1 .. n /\ Field.size \in Nat
    BY <2>1, AtCursor DEF Moved
  <2>3. CASE Fits(cursor.offset, Field.size)
    <3>1. got' = Append(got, value) /\ pc' = pc
      BY <1>4, <2>3 DEF ReadField
    <3>2. bytes \in Seq(Octet)
      BY <1>0, <2>2, <2>3, GetParts
    <3>3. cursor.field # header.checksumField => value = header.values[cursor.field]
      <4> SUFFICES ASSUME cursor.field # header.checksumField
                   PROVE  value = header.values[cursor.field]
        OBVIOUS
      <4>1. HoldsAt(FieldBytes(header, cursor.field), OffsetOf(cursor.field), buffer)
        BY <2>1, <2>2 DEF Stored
      <4>2. bytes = FieldBytes(header, cursor.field)
        BY <2>1, <2>3, <4>1, GetsField
      <4> HIDE DEF bytes
      <4> QED
        BY <1>0, <2>1, <2>2, <4>2, ValueOfBytes DEF Field
    <3>4. value \in Readable
      <4> HIDE DEF bytes
      <4>1. FromBigEndian(bytes) \in Nat
        BY <3>2, JoinedIsNat
      <4> QED
        BY <3>2, <4>1 DEF Readable
    <3> HIDE DEF bytes, value
    <3>5. /\ DOMAIN got' = 1 .. cursor.field /\ got'[cursor.field] = value
          /\ \A i \in 1 .. cursor.field - 1 : got'[i] = got[i]
      BY <1>0, <2>2, <3>1, <3>4
    <3>6. \A i \in DOMAIN got' : i \in DOMAIN got \/ i = cursor.field
      BY <1>0, <2>2, <3>5
    <3>7. FieldsReadBack'
      BY <1>0, <2>1, <2>2, <3>3, <3>5, <3>6 DEF Stored, FieldsReadBack
    <3> QED
      BY <2>1, <3>1, <3>7 DEF Stored, OffsetOf
  <2>4. CASE ~Fits(cursor.offset, Field.size)
    BY <1>4, <2>1, <2>4 DEF ReadField, Throw, Stored, FieldsReadBack
  <2> QED
    BY <2>3, <2>4
<1>5. CASE Return
  BY <1>5 DEF Return, Stored, FieldsReadBack
<1>6. CASE UNCHANGED vars
  BY <1>6 DEF vars, Stored, FieldsReadBack, OffsetOf
<1> QED
  BY <1>1, <1>2, <1>3, <1>4, <1>5, <1>6 DEF Next

\* What the writer has put into the buffer, the reader finds there.
THEOREM HeaderStored == Spec => []Stored
  BY InitStored, StepStored, HeaderMoved, PTL DEF Spec

(***************************************************************************)
(* Every value is read as it was written, for all formats, all values that *)
(* fit their fields and all frames, however short: ReadUintBe inverts      *)
(* WriteUintBe, and no field is taken for its neighbour.                   *)
(***************************************************************************)
THEOREM HeaderFieldsReadBack == Spec => []FieldsReadBack
<1>1. Stored => FieldsReadBack
  BY DEF Stored
<1> QED
  BY <1>1, HeaderStored, PTL

----------------------------------------------------------------------------
(* Folding. *)

(***************************************************************************)
(* What folding all carries comes to: the remainder by all ones, which is  *)
(* all ones and not zero where there was anything to add.                  *)
(***************************************************************************)
Folded(s) == IF s = 0 THEN 0 ELSE 1 + ((s - 1) % AllOnes)

\* Adding two halves takes a multiple of all ones away.
LEMMA FoldedHalves ==
    ASSUME NEW s \in Nat, s >= WordBase
    PROVE  LET t == (s \div WordBase) + (s % WordBase)
           IN  t \in Nat /\ t > 0 /\ t < s /\ Folded(t) = Folded(s)
<1> DEFINE q == s \div WordBase
           r == s % WordBase
           t == q + r
<1>1. WordBase \in Nat \ {0} /\ AllOnes \in Nat \ {0} /\ WordBase = AllOnes + 1
  BY Numbers DEF AllOnes
<1>2. q \in Nat /\ r \in 0 .. WordBase - 1 /\ s = q * WordBase + r
  BY <1>1, Remainder
<1> HIDE DEF q, r
<1>3. q > 0
  BY <1>1, <1>2
<1>4. q * WordBase = q * AllOnes + q
  BY <1>1, <1>2
<1>5. q * AllOnes \in Nat /\ q * AllOnes > 0
  BY <1>1, <1>2, <1>3
<1>6. t \in Nat /\ t > 0 /\ t - 1 \in Nat /\ s - 1 = q * AllOnes + (t - 1) /\ t < s
  BY <1>1, <1>2, <1>3, <1>4, <1>5
<1> HIDE DEF t
<1> DEFINE a == (t - 1) \div AllOnes
           b == (t - 1) % AllOnes
<1>7. a \in Nat /\ b \in 0 .. AllOnes - 1 /\ t - 1 = a * AllOnes + b
  BY <1>1, <1>6, Remainder
<1> HIDE DEF a, b
<1>8. q * AllOnes + a * AllOnes = (q + a) * AllOnes
  BY <1>1, <1>2, <1>7
<1>9. s - 1 = (q + a) * AllOnes + b
  BY <1>1, <1>2, <1>5, <1>6, <1>7, <1>8
<1>10. (s - 1) % AllOnes = b
  <2>1. q + a \in Nat
    BY <1>2, <1>7
  <2>2. ((q + a) * AllOnes + b) % AllOnes = b
    BY <1>1, <1>7, <2>1, Quotient
  <2> QED
    BY <1>9, <2>2
<1>11. Folded(t) = Folded(s)
  BY <1>6, <1>10 DEF Folded, b
<1> QED
  BY <1>6, <1>11 DEF t, q, r

\* So there is a function that FoldCarries defines, and it is that one.
LEMMA FoldCarriesStep ==
    ASSUME NEW s \in Nat
    PROVE  FoldCarries[s] = IF s < WordBase THEN s
                            ELSE FoldCarries[(s \div WordBase) + (s % WordBase)]
<1> DEFINE Equation(f) ==
              f = [sum \in Nat |-> IF sum < WordBase THEN sum
                                   ELSE f[(sum \div WordBase) + (sum % WordBase)]]
           g == [sum \in Nat |-> Folded(sum)]
<1>1. ASSUME NEW sum \in Nat
      PROVE  g[sum] = IF sum < WordBase THEN sum ELSE g[(sum \div WordBase) + (sum % WordBase)]
  <2>1. CASE sum < WordBase
    <3>1. AllOnes \in Nat \ {0} /\ WordBase = AllOnes + 1
      BY Numbers DEF AllOnes
    <3>2. CASE sum = 0
      BY <2>1, <3>2 DEF Folded
    <3>3. CASE sum # 0
      <4>1. sum - 1 \in 0 .. AllOnes - 1 /\ 0 * AllOnes + (sum - 1) = sum - 1
        BY <2>1, <3>1, <3>3
      <4>2. (0 * AllOnes + (sum - 1)) % AllOnes = sum - 1
        BY <3>1, <4>1, Quotient
      <4>3. (sum - 1) % AllOnes = sum - 1
        BY <4>1, <4>2
      <4> QED
        BY <2>1, <3>3, <4>3 DEF Folded
    <3> QED
      BY <3>2, <3>3
  <2>2. CASE ~(sum < WordBase)
    <3>1. sum >= WordBase
      BY <2>2, Numbers
    <3>2. /\ (sum \div WordBase) + (sum % WordBase) \in Nat
          /\ Folded((sum \div WordBase) + (sum % WordBase)) = Folded(sum)
      BY <3>1, FoldedHalves
    <3> QED
      BY <2>2, <3>2
  <2> QED
    BY <2>1, <2>2
<1>2. Equation(g)
  BY <1>1, Zenon
<1>3. FoldCarries = CHOOSE f : Equation(f)
  BY DEF FoldCarries
<1>4. Equation(FoldCarries)
  <2> HIDE DEF Equation, g
  <2> QED
    BY <1>2, <1>3, Zenon
<1> QED
  BY <1>4, Zenon

(***************************************************************************)
(* Why a receiver accepts: a sum of two halves h and l that carry no       *)
(* further has the complement AllOnes - (h + l), and h * WordBase + l plus *)
(* that has the halves h and AllOnes - h.                                  *)
(***************************************************************************)
LEMMA AcceptsComplement ==
    ASSUME NEW sum \in Nat, sum < WordBase * WordBase, FoldOnce(sum) < WordBase
    PROVE  FoldCarries[sum + ChecksumOf(sum)] = AllOnes
<1> DEFINE h == sum \div WordBase
           l == sum % WordBase
           c == ChecksumOf(sum)
<1>1. WordBase \in Nat \ {0} /\ AllOnes \in Nat \ {0} /\ AllOnes = WordBase - 1
  BY Numbers DEF AllOnes
<1>2. h \in Nat /\ l \in 0 .. WordBase - 1 /\ sum = h * WordBase + l
  BY <1>1, Remainder
<1>3. h < WordBase
  BY <1>1, <1>2, Z3
<1>4. High(sum) = h
  <2>1. 0 * WordBase + h = h /\ h \in 0 .. WordBase - 1
    BY <1>1, <1>2, <1>3
  <2>2. (0 * WordBase + h) % WordBase = h
    <3> HIDE DEF h
    <3> QED
      BY <1>1, <2>1, Quotient
  <2> QED
    BY <2>1, <2>2 DEF High
<1>5. FoldOnce(sum) = h + l
  BY <1>4 DEF FoldOnce, Low
<1>6. c = AllOnes - (h + l)
  <2>1. 0 * WordBase + (h + l) = h + l /\ h + l \in 0 .. WordBase - 1
    BY <1>1, <1>2, <1>5
  <2>2. (0 * WordBase + (h + l)) % WordBase = h + l
    <3> HIDE DEF h, l
    <3> QED
      BY <1>1, <2>1, Quotient
  <2> QED
    BY <1>5, <2>1, <2>2 DEF ChecksumOf
<1> DEFINE all == sum + c
<1>7. h + l < WordBase
  BY <1>5
<1> HIDE DEF h, l, c
<1>8. /\ h * WordBase \in Nat /\ AllOnes - h \in 0 .. WordBase - 1
      /\ all = h * WordBase + (AllOnes - h) /\ all \in Nat
  <2>1. h * WordBase \in Nat
    BY <1>1, <1>2
  <2> QED
    BY <1>1, <1>2, <1>3, <1>6, <1>7, <2>1
<1> HIDE DEF all
<1>9. all \div WordBase = h /\ all % WordBase = AllOnes - h
  BY <1>1, <1>2, <1>8, Quotient
<1>10. FoldCarries[AllOnes] = AllOnes
  BY <1>1, FoldCarriesStep
<1>11. CASE h = 0
  <2>1. all = AllOnes
    BY <1>1, <1>8, <1>11
  <2> QED
    BY <1>10, <2>1 DEF all, c
<1>12. CASE h # 0
  <2>1. ~(all < WordBase)
    <3>1. h * WordBase >= WordBase
      BY <1>1, <1>2, <1>12
    <3> QED
      BY <1>1, <1>8, <3>1
  <2>2. h + (AllOnes - h) = AllOnes
    BY <1>1, <1>2
  <2>3. FoldCarries[all] = FoldCarries[h + (AllOnes - h)]
    BY <1>8, <1>9, <2>1, FoldCarriesStep
  <2> QED
    BY <1>10, <2>2, <2>3 DEF all, c
<1> QED
  BY <1>11, <1>12

----------------------------------------------------------------------------
(* The sum of a header. *)

\* A word is at most all ones.
LEMMA PairIsWord ==
    ASSUME NEW a \in Octet, NEW b \in Octet
    PROVE  Pair(a, b) \in 0 .. AllOnes /\ a * ByteBase \in Nat
<1>1. /\ a \in Nat /\ b \in Nat /\ ByteBase \in Nat /\ ByteBase > 1
      /\ a <= ByteBase - 1 /\ b <= ByteBase - 1
  BY Numbers DEF Octet
<1>2. (ByteBase - 1) * ByteBase \in Nat /\ (ByteBase - 1) * ByteBase = ByteBase * ByteBase - ByteBase
  BY <1>1, Z3
<1>3. a * ByteBase \in Nat /\ a * ByteBase <= (ByteBase - 1) * ByteBase
  BY <1>1, Z3
<1>4. AllOnes = ByteBase * ByteBase - 1
  BY DEF AllOnes, WordBase
<1>5. ByteBase * ByteBase \in Nat
  BY <1>1, Product
<1> DEFINE square == ByteBase * ByteBase
           upper == a * ByteBase
           most == (ByteBase - 1) * ByteBase
<1>6. upper + b \in 0 .. square - 1
  <2>1. upper \in Nat /\ upper <= most /\ most = square - ByteBase /\ square \in Nat
    BY <1>2, <1>3, <1>5
  <2> HIDE DEF square, upper, most
  <2> QED
    BY <1>1, <2>1
<1> QED
  BY <1>3, <1>4, <1>6 DEF Pair

\* A header's sum has no more than two words.
LEMMA WordSumBound ==
    ASSUME NEW bytes \in Seq(Octet), Len(bytes) < 2 * WordBase
    PROVE  WordSum(bytes) \in Nat /\ WordSum(bytes) < WordBase * WordBase
<1> DEFINE n == Len(bytes)
<1>1. PICK f : Sums(bytes, f)
  BY WordSumValue
<1>2. n \in Nat /\ f[n] \in Nat /\ f[0] = 0 /\ WordSum(bytes) = f[n] /\ f \in [0 .. n -> Nat]
  BY <1>1, WordSumValue DEF Sums
<1>3. AllOnes \in Nat /\ WordBase \in Nat /\ WordBase = AllOnes + 1
  BY Numbers DEF AllOnes
<1> DEFINE Good == {k \in Nat : 2 * k <= n => f[2 * k] <= k * AllOnes}
<1>4. 0 \in Good
  BY <1>2, <1>3
<1>5. ASSUME NEW k \in Nat, k \in Good PROVE k + 1 \in Good
  <2> SUFFICES ASSUME 2 * (k + 1) <= n PROVE f[2 * (k + 1)] <= (k + 1) * AllOnes
    OBVIOUS
  <2> DEFINE e == 2 * k
  <2>1. /\ e \in Nat /\ e % 2 = 0 /\ e + 2 <= n /\ 2 * (k + 1) = e + 2 /\ e <= n /\ e \in 0 .. n
        /\ e + 1 \in 1 .. n /\ e + 2 \in 1 .. n /\ e + 2 \in 0 .. n
    BY <1>2
  <2>2. f[e] <= k * AllOnes
    BY <1>5, <2>1
  <2>3. f[e] \in Nat /\ k * AllOnes \in Nat /\ f[e + 2] \in Nat
    BY <1>2, <1>3, <2>1, Product
  <2>4. (k + 1) * AllOnes = k * AllOnes + AllOnes
    BY <1>3
  <2> HIDE DEF e, n
  <2>5. bytes[e + 1] \in Octet /\ bytes[e + 2] \in Octet
    BY <2>1, ElementOfSeq, Zenon DEF n
  <2>6. f[e + 2] = f[e] + Pair(bytes[e + 1], bytes[e + 2])
    BY <1>1, <2>1, SumsPair DEF n
  <2>7. Pair(bytes[e + 1], bytes[e + 2]) \in 0 .. AllOnes
    BY <2>5, PairIsWord
  <2> DEFINE rest == k * AllOnes
             word == Pair(bytes[e + 1], bytes[e + 2])
  <2>8. rest \in Nat /\ f[e] <= rest /\ f[e + 2] = f[e] + word /\ word \in Nat /\ word <= AllOnes
        /\ (k + 1) * AllOnes = rest + AllOnes
    BY <1>3, <2>2, <2>3, <2>4, <2>6, <2>7
  <2> HIDE DEF rest, word
  <2>9. f[e + 2] <= rest + AllOnes
    BY <1>3, <2>3, <2>8
  <2> QED
    BY <2>1, <2>8, <2>9
<1>6. \A k \in Nat : k \in Good
  <2> HIDE DEF Good
  <2> QED
    BY <1>4, <1>5, Induction
<1>7. PICK k \in Nat : n = 2 * k \/ n = 2 * k + 1
  <2>1. n \div 2 \in Nat /\ (n = 2 * (n \div 2) \/ n = 2 * (n \div 2) + 1)
    BY <1>2
  <2> QED
    BY <2>1
<1>8. f[2 * k] <= k * AllOnes /\ k + 1 <= WordBase /\ k * AllOnes \in Nat /\ f[2 * k] \in Nat
  <2>1. k * AllOnes \in Nat
    BY <1>3, Product
  <2>2. 2 * k <= n /\ 2 * k \in 0 .. n /\ k + 1 <= WordBase
    BY <1>2, <1>3, <1>7
  <2> QED
    BY <1>2, <1>6, <2>1, <2>2
<1>9. f[n] <= k * AllOnes + AllOnes
  <2>1. CASE n = 2 * k
    BY <1>2, <1>3, <1>8, <2>1
  <2>2. CASE n = 2 * k + 1
    <3>1. n \in 1 .. n /\ n - 1 = 2 * k /\ n % 2 = 1
      BY <1>2, <1>7, <2>2
    <3>2. f[n] = f[n - 1] + bytes[n] * Weight(n) /\ Weight(n) = ByteBase
      BY <1>1, <3>1 DEF Sums, Weight
    <3>3. bytes[n] \in Octet
      BY <3>1, ElementOfSeq, Zenon
    <3>4. Pair(bytes[n], 0) \in 0 .. AllOnes /\ Pair(bytes[n], 0) = bytes[n] * ByteBase + 0
          /\ bytes[n] * ByteBase \in Nat
      BY <3>3, PairIsWord, Numbers DEF Pair
    <3>5. f[n] = f[2 * k] + bytes[n] * ByteBase
      BY <3>1, <3>2
    <3> DEFINE last == bytes[n] * ByteBase
               rest == k * AllOnes
    <3>6. last \in Nat /\ last <= AllOnes /\ rest \in Nat /\ f[n] = f[2 * k] + last /\ f[2 * k] <= rest
      BY <1>8, <3>4, <3>5
    <3> HIDE DEF last, rest
    <3>7. f[n] <= rest + AllOnes
      BY <1>3, <1>8, <3>6
    <3> QED
      BY <3>7 DEF rest
  <2> QED
    BY <1>7, <2>1, <2>2
<1>10. k * AllOnes + AllOnes < WordBase * WordBase
  BY <1>3, <1>8, Z3
<1> QED
  BY <1>2, <1>8, <1>9, <1>10, Numbers

(***************************************************************************)
(* A word of zeros that is replaced at an even place adds what it is       *)
(* replaced by.                                                            *)
(***************************************************************************)
LEMMA WordReplaced ==
    ASSUME NEW s \in Seq(Octet), NEW t \in Seq(Octet), Len(s) = Len(t),
           NEW p \in Nat, p % 2 = 0, p + 2 <= Len(s), s[p + 1] = 0, s[p + 2] = 0,
           \A i \in 1 .. Len(s) : i # p + 1 /\ i # p + 2 => s[i] = t[i]
    PROVE  WordSum(t) = WordSum(s) + Pair(t[p + 1], t[p + 2])
<1> DEFINE n == Len(s)
           upper == t[p + 1] * ByteBase
           word == Pair(t[p + 1], t[p + 2])
           Extra(i) == IF i <= p THEN 0 ELSE IF i = p + 1 THEN upper ELSE word
<1>1. PICK f : Sums(s, f)
  BY WordSumValue
<1>2. PICK g : Sums(t, g)
  BY WordSumValue
<1>3. /\ n \in Nat /\ WordSum(s) = f[n] /\ WordSum(t) = g[n]
      /\ f \in [0 .. n -> Nat] /\ g \in [0 .. n -> Nat] /\ f[0] = 0 /\ g[0] = 0
  <2>1. WordSum(s) = f[Len(s)] /\ WordSum(t) = g[Len(t)]
    BY <1>1, <1>2, WordSumValue
  <2>2. f \in [0 .. Len(s) -> Nat] /\ g \in [0 .. Len(t) -> Nat] /\ f[0] = 0 /\ g[0] = 0
    BY <1>1, <1>2, Zenon DEF Sums
  <2>3. Len(s) \in Nat
    OBVIOUS
  <2> QED
    BY <2>1, <2>2, <2>3
<1>4. t[p + 1] \in Octet /\ t[p + 2] \in Octet
  <2>1. p + 1 \in 1 .. Len(t) /\ p + 2 \in 1 .. Len(t)
    BY <1>3
  <2> QED
    BY <2>1, ElementOfSeq, Zenon
<1>5. upper \in Nat /\ word \in Nat /\ word = upper + t[p + 2] /\ t[p + 2] \in Nat
  <2>1. upper \in Nat /\ word \in Nat /\ t[p + 2] \in Nat
    <3>1. word \in 0 .. AllOnes /\ upper \in Nat
      BY <1>4, PairIsWord
    <3>2. t[p + 2] \in Nat
      BY <1>4, Numbers, Zenon
    <3> HIDE DEF upper, word
    <3> QED
      BY <3>1, <3>2, Numbers
  <2> QED
    BY <2>1 DEF Pair
<1> HIDE DEF upper, word
<1> DEFINE Good == {i \in Nat : i <= n => g[i] = f[i] + Extra(i)}
<1>6. 0 \in Good
  BY <1>3
<1>7. ASSUME NEW i \in Nat, i \in Good PROVE i + 1 \in Good
  <2> SUFFICES ASSUME i + 1 <= n PROVE g[i + 1] = f[i + 1] + Extra(i + 1)
    OBVIOUS
  <2> DEFINE j == i + 1
  <2>1. j \in 1 .. n /\ j - 1 = i /\ i \in 0 .. n /\ i <= n /\ j \in 0 .. n /\ j \in 1 .. Len(t)
    BY <1>3
  <2>2. f[j] = f[i] + s[j] * Weight(j) /\ g[j] = g[i] + t[j] * Weight(j)
    <3>1. f[j] = f[j - 1] + s[j] * Weight(j) /\ g[j] = g[j - 1] + t[j] * Weight(j)
      BY <1>1, <1>2, <2>1, Zenon DEF Sums
    <3> QED
      BY <2>1, <3>1, Zenon
  <2>3. g[i] = f[i] + Extra(i) /\ f[i] \in Nat /\ g[i] \in Nat /\ f[j] \in Nat /\ g[j] \in Nat
    BY <1>3, <1>7, <2>1
  <2> HIDE DEF j
  <2>4. s[j] * Weight(j) \in Nat /\ t[j] * Weight(j) \in Nat
    <3>1. s[j] \in Octet /\ t[j] \in Octet /\ j \in Nat
      BY <2>1, ElementOfSeq
    <3>2. s[j] \in Nat /\ t[j] \in Nat /\ Weight(j) \in Nat
      BY <3>1, Numbers
    <3> QED
      BY <3>2, Product
  <2>5. CASE j # p + 1 /\ j # p + 2
    <3>1. s[j] = t[j] /\ Extra(j) = Extra(i) /\ Extra(i) \in Nat
      BY <1>5, <2>1, <2>5
    <3> HIDE DEF Extra
    <3> DEFINE added == t[j] * Weight(j)
    <3>2. f[j] = f[i] + added /\ g[j] = g[i] + added /\ added \in Nat
      BY <2>2, <2>4, <3>1
    <3> HIDE DEF added
    <3>3. g[j] = f[j] + Extra(j)
      BY <2>3, <3>1, <3>2
    <3> QED
      BY <3>3 DEF j
  <2>6. CASE j = p + 1
    <3>1. Weight(j) = ByteBase /\ s[j] = 0 /\ t[j] * Weight(j) = upper /\ i = p
      BY <2>1, <2>6 DEF Weight, upper
    <3>2. s[j] * Weight(j) = 0
      BY <3>1, Numbers
    <3>3. Extra(i) = 0 /\ Extra(j) = upper
      BY <2>6, <3>1
    <3>4. g[j] = f[j] + Extra(j)
      BY <1>5, <2>2, <2>3, <3>1, <3>2, <3>3
    <3> QED
      BY <3>4 DEF j
  <2>7. CASE j = p + 2
    <3>1. Weight(j) = 1 /\ s[j] = 0 /\ i = p + 1 /\ t[j] = t[p + 2]
      BY <2>1, <2>7 DEF Weight
    <3>2. s[j] * Weight(j) = 0 /\ t[j] * Weight(j) = t[p + 2]
      BY <1>5, <3>1
    <3>3. Extra(i) = upper /\ Extra(j) = word
      BY <2>7, <3>1
    <3> HIDE DEF Extra
    <3>4. f[j] = f[i] /\ g[j] = (f[i] + upper) + t[p + 2]
      BY <2>2, <2>3, <3>2, <3>3
    <3>5. g[j] = f[j] + Extra(j)
      BY <1>5, <2>3, <3>3, <3>4
    <3> QED
      BY <3>5 DEF j
  <2> QED
    BY <2>5, <2>6, <2>7
<1>8. \A i \in Nat : i \in Good
  <2> HIDE DEF Good
  <2> QED
    BY <1>6, <1>7, Induction
<1>9. g[n] = f[n] + Extra(n) /\ Extra(n) = word
  <2>1. ~(n <= p) /\ n # p + 1 /\ n <= n
    BY <1>3
  <2>2. g[n] = f[n] + Extra(n)
    BY <1>3, <1>8, <2>1
  <2> QED
    BY <2>1, <2>2
<1> QED
  BY <1>3, <1>9 DEF word

----------------------------------------------------------------------------
(* The bytes that are passed. *)

(***************************************************************************)
(* The bytes of the first fields, one function of their number, with these *)
(* for the checksum.                                                       *)
(***************************************************************************)
Passing(h, word, f) ==
    /\ f \in [0 .. Len(h.format) -> Seq(Octet)] /\ f[0] = <<>>
    /\ \A i \in 1 .. Len(h.format) :
        f[i] = f[i - 1] \o (IF i = h.checksumField THEN word ELSE FieldBytes(h, i))

\* There is such a function.
LEMMA PassingExists ==
    ASSUME NEW h \in Headers, NEW word \in Seq(Octet)
    PROVE  \E f : Passing(h, word, f)
<1> DEFINE n == Len(h.format)
           Piece(i) == IF i = h.checksumField THEN word ELSE FieldBytes(h, i)
           Step == [p \in (1 .. n) \X Seq(Octet) |-> p[2] \o Piece(p[1])]
<1>1. n \in Nat /\ \A i \in 1 .. n : Piece(i) \in Seq(Octet)
  BY HeaderFacts
<1>2. \A i \in 1 .. n : \A v \in Seq(Octet) : Step[<<i, v>>] = v \o Piece(i)
  OBVIOUS
<1> HIDE DEF Step, Piece
<1>3. ASSUME NEW i \in 1 .. n, NEW v \in Seq(Octet) PROVE Step[<<i, v>>] \in Seq(Octet)
  <2>1. Piece(i) \in Seq(Octet)
    BY <1>1
  <2>2. v \o Piece(i) \in Seq(Octet)
    BY <2>1
  <2> QED
    BY <1>2, <2>2
<1>4. <<>> \in Seq(Octet)
  OBVIOUS
<1>5. PICK f \in [0 .. n -> Seq(Octet)] : Recursion(<<>>, n, Step, f)
  <2> DEFINE V == Seq(Octet)
  <2>1. <<>> \in V /\ \A i \in 1 .. n : \A v \in V : Step[<<i, v>>] \in V
    BY <1>3, <1>4
  <2> HIDE DEF V
  <2>2. \E f \in [0 .. n -> V] : Recursion(<<>>, n, Step, f)
    BY <1>1, <2>1, RecursionExists
  <2> QED
    BY <2>2 DEF V
<1>6. ASSUME NEW i \in 1 .. n PROVE f[i] = f[i - 1] \o Piece(i)
  <2>1. i - 1 \in 0 .. n
    BY <1>1
  <2>2. f[i - 1] \in Seq(Octet)
    BY <1>5, <2>1
  <2>3. f[i] = Step[<<i, f[i - 1]>>]
    BY <1>5, Zenon DEF Recursion
  <2> QED
    BY <1>2, <2>2, <2>3, Zenon
<1>7. f[0] = <<>>
  BY <1>5 DEF Recursion
<1>8. Passing(h, word, f)
  BY <1>5, <1>6, <1>7 DEF Passing, Piece
<1> QED
  BY <1>8

\* The pieces, and the first of the fields before and after one.
LEMMA PassingStep ==
    ASSUME NEW h \in Headers, NEW word \in Seq(Octet), NEW f, Passing(h, word, f),
           NEW i \in Nat, i + 1 <= Len(h.format)
    PROVE  /\ f[i] \in Seq(Octet) /\ f[i + 1] \in Seq(Octet) /\ FieldBytes(h, i + 1) \in Seq(Octet)
           /\ f[i + 1] = f[i] \o (IF i + 1 = h.checksumField THEN word ELSE FieldBytes(h, i + 1))
<1>1. Len(h.format) \in Nat
  BY HeaderFacts
<1>2. /\ i \in 0 .. Len(h.format) /\ i + 1 \in 0 .. Len(h.format) /\ i + 1 \in 1 .. Len(h.format)
      /\ (i + 1) - 1 = i
  BY <1>1
<1>3. f[i + 1] = f[(i + 1) - 1] \o (IF i + 1 = h.checksumField THEN word ELSE FieldBytes(h, i + 1))
  BY <1>2, Zenon DEF Passing
<1>4. f[i] \in Seq(Octet) /\ f[i + 1] \in Seq(Octet) /\ FieldBytes(h, i + 1) \in Seq(Octet)
  BY <1>2, HeaderFacts DEF Passing
<1> QED
  BY <1>2, <1>3, <1>4, Zenon

\* A header with a checksum.
LEMMA ChecksumFacts ==
    ASSUME NEW h \in Headers, h.checksumField # 0
    PROVE  /\ h.checksumField \in 1 .. Len(h.format) /\ Len(h.format) \in Nat
           /\ h.format \in Seq([kind : Kinds, size : Nat])
           /\ h.format[h.checksumField].kind = "number" /\ h.format[h.checksumField].size = 2
           /\ h.values[h.checksumField] = 0
           /\ OffsetAfter(h.format, h.checksumField - 1) \in Nat
           /\ OffsetAfter(h.format, h.checksumField - 1) % 2 = 0
           /\ \A i \in 1 .. h.checksumField - 1 : h.format[i].kind # "gap"
           /\ SizeOf(h.format) < 2 * WordBase
<1>1. /\ h.checksumField \in 0 .. Len(h.format) /\ Len(h.format) \in Nat
      /\ h.format \in Seq([kind : Kinds, size : Nat]) /\ HasChecksumField(h)
  BY HeaderFacts
<1>2. h.checksumField \in 1 .. Len(h.format) /\ h.checksumField - 1 \in 0 .. Len(h.format)
  BY <1>1
<1>3. OffsetAfter(h.format, h.checksumField - 1) \in Nat
  BY <1>1, <1>2, Offsets
<1> QED
  BY <1>1, <1>2, <1>3 DEF HasChecksumField, Number

\* Up to a field no more bytes are passed than its offset says, and as many before the checksum.
LEMMA PassedLength ==
    ASSUME NEW h \in Headers, h.checksumField # 0, NEW word \in Seq(Octet), Len(word) = 2,
           NEW f, Passing(h, word, f)
    PROVE  \A i \in 0 .. Len(h.format) :
             /\ Len(f[i]) <= OffsetAfter(h.format, i)
             /\ i < h.checksumField => Len(f[i]) = OffsetAfter(h.format, i)
<1> DEFINE n == Len(h.format)
           c == h.checksumField
           Good == {i \in Nat : i <= n => /\ Len(f[i]) <= OffsetAfter(h.format, i)
                                          /\ i < c => Len(f[i]) = OffsetAfter(h.format, i)}
<1>1. /\ n \in Nat /\ c \in 1 .. n /\ h.format \in Seq([kind : Kinds, size : Nat])
      /\ h.format[c].size = 2 /\ \A i \in 1 .. c - 1 : h.format[i].kind # "gap"
  BY ChecksumFacts
<1>2. 0 \in Good
  <2>1. f[0] = <<>> /\ OffsetAfter(h.format, 0) = 0
    BY <1>1, Offsets DEF Passing
  <2> QED
    BY <2>1
<1>3. ASSUME NEW i \in Nat, i \in Good PROVE i + 1 \in Good
  <2> SUFFICES ASSUME i + 1 <= n
               PROVE  /\ Len(f[i + 1]) <= OffsetAfter(h.format, i + 1)
                      /\ i + 1 < c => Len(f[i + 1]) = OffsetAfter(h.format, i + 1)
    OBVIOUS
  <2> DEFINE j == i + 1
             piece == IF j = c THEN word ELSE FieldBytes(h, j)
  <2>1. j \in 1 .. n /\ j - 1 = i /\ i <= n /\ i \in 0 .. n /\ j \in Nat /\ j \in 0 .. n
    BY <1>1
  <2>2. f[i] \in Seq(Octet) /\ piece \in Seq(Octet) /\ f[j] = f[i] \o piece
    BY PassingStep
  <2>3. OffsetAfter(h.format, j) = OffsetAfter(h.format, i) + h.format[j].size
    BY <1>1, <2>1, Offsets
  <2>4. OffsetAfter(h.format, i) \in Nat /\ h.format[j].size \in Nat
    BY <1>1, <2>1, HeaderFacts, Offsets
  <2> HIDE DEF j, n, c
  <2>5. Len(piece) <= h.format[j].size /\ (j < c => Len(piece) = h.format[j].size)
    <3>1. CASE j = c
      <4>1. Len(piece) = 2 /\ h.format[j].size = 2
        BY <1>1, <3>1
      <4>2. ~(j < c)
        BY <2>1, <3>1
      <4> HIDE DEF piece
      <4> QED
        BY <4>1, <4>2
    <3>2. CASE j # c /\ h.format[j].kind = "gap"
      <4>1. Len(piece) = 0
        BY <3>2 DEF FieldBytes
      <4>2. ~(j < c)
        BY <1>1, <2>1, <3>2
      <4> QED
        BY <2>4, <4>1, <4>2
    <3>3. CASE j # c /\ h.format[j].kind # "gap"
      <4>1. Len(piece) = h.format[j].size
        BY <2>1, <3>3, HeaderFacts DEF n
      <4> QED
        BY <2>4, <4>1
    <3> QED
      BY <3>1, <3>2, <3>3
  <2> HIDE DEF piece
  <2>6. Len(f[j]) = Len(f[i]) + Len(piece) /\ Len(f[i]) \in Nat /\ Len(piece) \in Nat
    BY <2>2
  <2>7. Len(f[i]) <= OffsetAfter(h.format, i) /\ (i < c => Len(f[i]) = OffsetAfter(h.format, i))
    BY <1>3, <2>1
  <2>8. j < c => i < c
    BY <1>1, <2>1
  <2>9. /\ Len(f[j]) <= OffsetAfter(h.format, j)
        /\ j < c => Len(f[j]) = OffsetAfter(h.format, j)
    <3> DEFINE a == Len(f[i])
               b == Len(piece)
               o == OffsetAfter(h.format, i)
               s == h.format[j].size
    <3>1. a \in Nat /\ b \in Nat /\ o \in Nat /\ s \in Nat /\ a <= o /\ b <= s
          /\ (j < c => a = o /\ b = s)
      BY <2>4, <2>5, <2>6, <2>7, <2>8
    <3>2. Len(f[j]) = a + b /\ OffsetAfter(h.format, j) = o + s
      BY <2>3, <2>6
    <3> HIDE DEF a, b, o, s
    <3> QED
      BY <3>1, <3>2
  <2> QED
    BY <2>9 DEF j
<1>4. \A i \in Nat : i \in Good
  <2> HIDE DEF Good
  <2> QED
    BY <1>2, <1>3, Induction
<1> QED
  BY <1>1, <1>4

\* Two sequences that are the same but for a word of zeros behind p bytes.
Apart(p, word, s, t) ==
    /\ Len(s) = Len(t) /\ p + 2 <= Len(s)
    /\ s[p + 1] = 0 /\ s[p + 2] = 0 /\ t[p + 1] = word[1] /\ t[p + 2] = word[2]
    /\ \A i \in 1 .. Len(s) : i # p + 1 /\ i # p + 2 => s[i] = t[i]

\* They stay so when the same is appended.
LEMMA ApartAppend ==
    ASSUME NEW p \in Nat, NEW word, NEW s \in Seq(Octet), NEW t \in Seq(Octet), NEW b \in Seq(Octet),
           Apart(p, word, s, t)
    PROVE  Apart(p, word, s \o b, t \o b)
<1> DEFINE n == Len(s)
           m == Len(b)
           u == s \o b
           v == t \o b
<1>1. n \in Nat /\ m \in Nat /\ Len(t) = n /\ p + 2 <= n
  BY DEF Apart
<1>2. /\ Len(u) = n + m /\ Len(v) = n + m
      /\ \A i \in 1 .. n + m : /\ u[i] = IF i <= n THEN s[i] ELSE b[i - n]
                               /\ v[i] = IF i <= n THEN t[i] ELSE b[i - n]
  <2>1. Len(u) = n + m /\ \A i \in 1 .. n + m : u[i] = IF i <= n THEN s[i] ELSE b[i - n]
    BY ConcatParts
  <2>2. /\ Len(v) = Len(t) + m
        /\ \A i \in 1 .. Len(t) + m : v[i] = IF i <= Len(t) THEN t[i] ELSE b[i - Len(t)]
    BY ConcatParts
  <2> HIDE DEF n, m, u, v
  <2> QED
    BY <1>1, <2>1, <2>2
<1> HIDE DEF n, m, u, v
<1>3. p + 1 \in 1 .. n + m /\ p + 1 <= n /\ p + 2 \in 1 .. n + m /\ p + 2 <= n /\ p + 2 <= n + m
  BY <1>1
<1>4. u[p + 1] = s[p + 1] /\ u[p + 2] = s[p + 2] /\ v[p + 1] = t[p + 1] /\ v[p + 2] = t[p + 2]
  BY <1>2, <1>3
<1>5. ASSUME NEW i \in 1 .. n + m, i # p + 1, i # p + 2 PROVE u[i] = v[i]
  <2>1. i <= n => s[i] = t[i]
    <3>1. i <= n => i \in 1 .. n
      BY <1>1
    <3> QED
      BY <1>5, <3>1 DEF Apart, n
  <2> QED
    BY <1>2, <2>1
<1>6. Apart(p, word, u, v)
  BY <1>2, <1>3, <1>4, <1>5 DEF Apart
<1> QED
  BY <1>6 DEF u, v

\* They become so where a word and zeros are appended to the same.
LEMMA ApartNew ==
    ASSUME NEW s \in Seq(Octet), NEW word \in Seq(Octet), Len(word) = 2
    PROVE  Apart(Len(s), word, s \o <<0, 0>>, s \o word)
<1> DEFINE n == Len(s)
           zeros == <<0, 0>>
<1>1. zeros \in Seq(Octet) /\ Len(zeros) = 2 /\ zeros[1] = 0 /\ zeros[2] = 0
  BY Numbers
<1> HIDE DEF zeros
<1> DEFINE u == s \o zeros
           v == s \o word
<1>2. n \in Nat
  OBVIOUS
<1>3. /\ Len(u) = n + 2 /\ Len(v) = n + 2
      /\ \A i \in 1 .. n + 2 : /\ u[i] = IF i <= n THEN s[i] ELSE zeros[i - n]
                               /\ v[i] = IF i <= n THEN s[i] ELSE word[i - n]
  <2>1. /\ Len(u) = n + Len(zeros)
        /\ \A i \in 1 .. n + Len(zeros) : u[i] = IF i <= n THEN s[i] ELSE zeros[i - n]
    BY <1>1, ConcatParts
  <2>2. /\ Len(v) = n + Len(word)
        /\ \A i \in 1 .. n + Len(word) : v[i] = IF i <= n THEN s[i] ELSE word[i - n]
    BY ConcatParts
  <2> HIDE DEF n, u, v
  <2> QED
    BY <1>1, <2>1, <2>2
<1> HIDE DEF n, u, v
<1>4. /\ n + 1 \in 1 .. n + 2 /\ n + 2 \in 1 .. n + 2 /\ ~(n + 1 <= n) /\ ~(n + 2 <= n)
      /\ (n + 1) - n = 1 /\ (n + 2) - n = 2
  BY <1>2
<1>5. u[n + 1] = 0 /\ u[n + 2] = 0 /\ v[n + 1] = word[1] /\ v[n + 2] = word[2]
  BY <1>1, <1>3, <1>4
<1>6. ASSUME NEW i \in 1 .. n + 2, i # n + 1, i # n + 2 PROVE u[i] = v[i]
  <2>1. i <= n
    BY <1>2, <1>6
  <2> QED
    BY <1>3, <2>1
<1>7. Apart(n, word, u, v)
  BY <1>3, <1>4, <1>5, <1>6 DEF Apart
<1> QED
  BY <1>7 DEF n, u, v, zeros

(***************************************************************************)
(* What is passed with a checksum and what without are the same but for    *)
(* the word of the checksum, at an even place.                             *)
(***************************************************************************)
LEMMA PassedApart ==
    ASSUME NEW h \in Headers, h.checksumField # 0, NEW word \in Seq(Octet), Len(word) = 2,
           NEW f, Passing(h, <<0, 0>>, f), NEW g, Passing(h, word, g)
    PROVE  Apart(OffsetAfter(h.format, h.checksumField - 1), word, f[Len(h.format)], g[Len(h.format)])
<1> DEFINE n == Len(h.format)
           c == h.checksumField
           p == OffsetAfter(h.format, c - 1)
           zeros == <<0, 0>>
           Good == {i \in Nat : i <= n => /\ i < c => f[i] = g[i]
                                          /\ i >= c => Apart(p, word, f[i], g[i])}
<1>1. n \in Nat /\ c \in 1 .. n /\ p \in Nat /\ zeros \in Seq(Octet) /\ Len(zeros) = 2
  BY ChecksumFacts, Numbers
<1>2. 0 \in Good
  BY <1>1 DEF Passing
<1>3. ASSUME NEW i \in Nat, i \in Good PROVE i + 1 \in Good
  <2> SUFFICES ASSUME i + 1 <= n
               PROVE  /\ i + 1 < c => f[i + 1] = g[i + 1]
                      /\ i + 1 >= c => Apart(p, word, f[i + 1], g[i + 1])
    OBVIOUS
  <2>1. i <= n /\ i \in 0 .. n
    BY <1>1
  <2>2. /\ f[i] \in Seq(Octet) /\ FieldBytes(h, i + 1) \in Seq(Octet)
        /\ f[i + 1] = f[i] \o (IF i + 1 = c THEN zeros ELSE FieldBytes(h, i + 1))
    BY <1>1, PassingStep
  <2>3. /\ g[i] \in Seq(Octet)
        /\ g[i + 1] = g[i] \o (IF i + 1 = c THEN word ELSE FieldBytes(h, i + 1))
    BY <1>1, PassingStep
  <2>4. CASE i + 1 < c
    <3>1. f[i] = g[i] /\ i + 1 # c /\ ~(i + 1 >= c)
      BY <1>1, <1>3, <2>1, <2>4
    <3> QED
      BY <2>2, <2>3, <3>1
  <2>5. CASE i + 1 = c
    <3>1. f[i] = g[i] /\ ~(i + 1 < c) /\ i = c - 1 /\ i < c
      BY <1>1, <1>3, <2>1, <2>5
    <3>2. Len(f[i]) = p
      <4>1. Len(f[i]) = OffsetAfter(h.format, i)
        BY <1>1, <2>1, <3>1, PassedLength
      <4> QED
        BY <3>1, <4>1
    <3> HIDE DEF c, p
    <3>3. Apart(Len(f[i]), word, f[i] \o <<0, 0>>, f[i] \o word)
      BY <2>2, ApartNew
    <3>4. f[i + 1] = f[i] \o <<0, 0>> /\ g[i + 1] = f[i] \o word
      BY <2>2, <2>3, <2>5, <3>1
    <3> QED
      BY <3>1, <3>2, <3>3, <3>4
  <2>6. CASE i + 1 > c
    <3>1. Apart(p, word, f[i], g[i]) /\ ~(i + 1 < c) /\ i + 1 # c
      BY <1>1, <1>3, <2>1, <2>6
    <3> HIDE DEF c, p
    <3>2. Apart(p, word, f[i] \o FieldBytes(h, i + 1), g[i] \o FieldBytes(h, i + 1))
      BY <1>1, <2>2, <2>3, <3>1, ApartAppend
    <3>3. f[i + 1] = f[i] \o FieldBytes(h, i + 1) /\ g[i + 1] = g[i] \o FieldBytes(h, i + 1)
      BY <2>2, <2>3, <3>1
    <3> QED
      BY <3>1, <3>2, <3>3
  <2> QED
    BY <1>1, <2>4, <2>5, <2>6
<1>4. \A i \in Nat : i \in Good
  <2> HIDE DEF Good
  <2> QED
    BY <1>2, <1>3, Induction
<1> QED
  BY <1>1, <1>4

----------------------------------------------------------------------------
(* The checksum of a header that was written and read. *)

\* A number of one word in two bytes.
LEMMA WordBytes ==
    ASSUME NEW value \in 0 .. AllOnes
    PROVE  /\ BigEndian(value, 2) \in Seq(Octet) /\ Len(BigEndian(value, 2)) = 2
           /\ Pair(BigEndian(value, 2)[1], BigEndian(value, 2)[2]) = value
           /\ FromBigEndian(BigEndian(value, 2)) = value
<1> DEFINE upper == value \div ByteBase
           lower == value % ByteBase
<1>1. value \in Nat /\ ByteBase \in Nat \ {0} /\ value < ByteBase * ByteBase
  BY Numbers DEF AllOnes, WordBase
<1>2. upper \in Nat /\ lower \in 0 .. ByteBase - 1 /\ value = upper * ByteBase + lower
  BY <1>1, Remainder
<1>3. upper < ByteBase
  <2> HIDE DEF upper, lower
  <2> QED
    BY <1>1, <1>2, Z3
<1>4. Shifted(value, 0) = value /\ Shifted(value, 1) = upper /\ Shifted(value, 2) = upper \div ByteBase
  <2>1. 0 \in Nat /\ 1 \in Nat /\ 0 + 1 = 1 /\ 1 + 1 = 2
    OBVIOUS
  <2>2. Shifted(value, 0) = value
    BY <1>1, Shifts
  <2>3. Shifted(value, 0 + 1) = Shifted(value, 0) \div ByteBase
    BY <1>1, <2>1, Shifts
  <2>4. Shifted(value, 1 + 1) = Shifted(value, 1) \div ByteBase
    BY <1>1, <2>1, Shifts
  <2> QED
    BY <2>1, <2>2, <2>3, <2>4
<1> HIDE DEF upper, lower
<1>5. upper \div ByteBase = 0 /\ upper % ByteBase = upper
  <2>1. upper \in 0 .. ByteBase - 1 /\ 0 * ByteBase + upper = upper
    BY <1>1, <1>2, <1>3
  <2>2. (0 * ByteBase + upper) \div ByteBase = 0 /\ (0 * ByteBase + upper) % ByteBase = upper
    BY <1>1, <2>1, Quotient
  <2> QED
    BY <2>1, <2>2
<1>6. BigEndian(value, 2)[1] = upper /\ BigEndian(value, 2)[2] = lower
  <2>1. 1 \in 1 .. 2 /\ 2 \in 1 .. 2 /\ 2 - 1 = 1 /\ 2 - 2 = 0
    OBVIOUS
  <2>2. /\ BigEndian(value, 2)[1] = Shifted(value, 1) % ByteBase
        /\ BigEndian(value, 2)[2] = Shifted(value, 0) % ByteBase
    BY <2>1 DEF BigEndian
  <2> QED
    BY <1>4, <1>5, <2>2 DEF lower
<1>7. Pair(upper, lower) = value
  BY <1>2 DEF Pair
<1>8. /\ BigEndian(value, 2) \in [1 .. 2 -> Octet] /\ FromBigEndian(BigEndian(value, 2)) = value
  BY <1>1, <1>4, <1>5, RoundTrip
<1> HIDE DEF upper, lower
<1> QED
  BY <1>6, <1>7, <1>8, TableIsSeq

\* A field of the value zero has the bytes zero.
LEMMA ZeroField ==
    ASSUME NEW h \in Headers, h.checksumField # 0
    PROVE  FieldBytes(h, h.checksumField) = <<0, 0>>
<1> DEFINE c == h.checksumField
           bytes == BigEndian(0, 2)
<1>1. FieldBytes(h, c) = bytes
  BY ChecksumFacts DEF FieldBytes
<1>2. 0 \div ByteBase = 0 /\ 0 % ByteBase = 0
  BY Numbers, Z3
<1>3. Shifted(0, 0) = 0 /\ Shifted(0, 1) = 0
  <2>1. 0 \in Nat /\ 0 + 1 = 1
    OBVIOUS
  <2> QED
    BY <1>2, <2>1, Shifts
<1>4. bytes = [i \in 1 .. 2 |-> Shifted(0, 2 - i) % ByteBase]
  BY DEF BigEndian
<1>5. \A i \in 1 .. 2 : Shifted(0, 2 - i) % ByteBase = 0
  BY <1>2, <1>3
<1>6. bytes = [i \in 1 .. 2 |-> 0]
  BY <1>4, <1>5
<1> HIDE DEF bytes
<1>7. bytes = <<0, 0>>
  BY <1>6
<1> QED
  BY <1>1, <1>7

\* The bytes of the checksum of a header whose bytes are those.
ChecksumBytes(bytes) == BigEndian(ChecksumOf(WordSum(bytes)), 2)

(***************************************************************************)
(* The writer has passed the header's bytes with zeros for the checksum,   *)
(* and has put the checksum of these bytes into its field; the reader      *)
(* passes the same bytes with that checksum, and gets it as the value.     *)
(***************************************************************************)
Summed ==
    header.checksumField # 0 =>
        \A f : Passing(header, <<0, 0>>, f) =>
            LET whole == f[Len(header.format)]
            IN  /\ pc = "write" => passed = f[cursor.field - 1]
                /\ pc \in {"read", "done"} =>
                    /\ HoldsAt(ChecksumBytes(whole), OffsetOf(header.checksumField), buffer)
                    /\ \A g : Passing(header, ChecksumBytes(whole), g) => passed = g[cursor.field - 1]
                    /\ cursor.field > header.checksumField
                         => got[header.checksumField] = ChecksumOf(WordSum(whole))

\* At first nothing is passed.
LEMMA InitSummed == Init => Summed
<1> SUFFICES ASSUME Init PROVE Summed
  OBVIOUS
<1>1. cursor.field = 1 /\ pc = "write" /\ passed = <<>> /\ 1 - 1 = 0
  BY DEF Init, NewCursor
<1> QED
  BY <1>1 DEF Summed, Passing

\* The checksum of a whole header.
LEMMA WholeChecksum ==
    ASSUME NEW h \in Headers, h.checksumField # 0, NEW f, Passing(h, <<0, 0>>, f)
    PROVE  LET whole == f[Len(h.format)]
           IN  /\ whole \in Seq(Octet) /\ WordSum(whole) \in Nat /\ WordSum(whole) < WordBase * WordBase
               /\ ChecksumOf(WordSum(whole)) \in 0 .. AllOnes
               /\ ChecksumBytes(whole) \in Seq(Octet) /\ Len(ChecksumBytes(whole)) = 2
               /\ Pair(ChecksumBytes(whole)[1], ChecksumBytes(whole)[2]) = ChecksumOf(WordSum(whole))
               /\ FromBigEndian(ChecksumBytes(whole)) = ChecksumOf(WordSum(whole))
<1> DEFINE n == Len(h.format)
           whole == f[n]
           zeros == <<0, 0>>
<1>1. n \in Nat /\ SizeOf(h.format) < 2 * WordBase /\ n \in 0 .. n
      /\ h.format \in Seq([kind : Kinds, size : Nat])
  <2>1. n \in Nat /\ SizeOf(h.format) < 2 * WordBase /\ h.format \in Seq([kind : Kinds, size : Nat])
    BY ChecksumFacts
  <2> QED
    BY <2>1
<1>2. whole \in Seq(Octet)
  BY <1>1 DEF Passing
<1>3. zeros \in Seq(Octet) /\ Len(zeros) = 2
  BY Numbers
<1>4. Len(whole) <= OffsetAfter(h.format, n)
  <2> HIDE DEF zeros
  <2>1. Passing(h, zeros, f)
    BY DEF zeros
  <2> QED
    BY <1>1, <1>3, <2>1, PassedLength
<1>5. Len(whole) < 2 * WordBase
  <2>1. Len(whole) \in Nat
    BY <1>2
  <2>2. OffsetAfter(h.format, n) \in Nat /\ OffsetAfter(h.format, n) < 2 * WordBase
    BY <1>1, Offsets DEF SizeOf
  <2> HIDE DEF whole, n
  <2> QED
    BY <1>4, <2>1, <2>2, Numbers
<1> HIDE DEF whole
<1>6. WordSum(whole) \in Nat /\ WordSum(whole) < WordBase * WordBase
  BY <1>2, <1>5, WordSumBound
<1>7. ChecksumOf(WordSum(whole)) \in 0 .. AllOnes
  BY <1>6, ChecksumIsWord
<1>8. /\ ChecksumBytes(whole) \in Seq(Octet) /\ Len(ChecksumBytes(whole)) = 2
      /\ Pair(ChecksumBytes(whole)[1], ChecksumBytes(whole)[2]) = ChecksumOf(WordSum(whole))
      /\ FromBigEndian(ChecksumBytes(whole)) = ChecksumOf(WordSum(whole))
  BY <1>7, WordBytes DEF ChecksumBytes
<1> QED
  BY <1>2, <1>6, <1>7, <1>8 DEF whole

\* What the cursor passes next, with this word for the checksum.
LEMMA PassesOn ==
    ASSUME Moved, AtField, NEW word \in Seq(Octet), NEW f, Passing(header, word, f),
           NEW bytes \in Seq(Octet), Pass(bytes), passed = f[cursor.field - 1],
           bytes = IF cursor.field = header.checksumField THEN word
                   ELSE FieldBytes(header, cursor.field)
    PROVE  passed' = f[cursor'.field - 1]
<1>1. cursor.field \in 1 .. Len(header.format) /\ Len(header.format) \in Nat /\ header \in Headers
  BY AtCursor DEF Moved
<1>2. f[cursor.field] = f[cursor.field - 1] \o bytes
  BY <1>1, Zenon DEF Passing
<1>3. cursor'.field = cursor.field + 1 /\ passed' = passed \o bytes
  BY DEF Pass
<1>4. cursor'.field - 1 = cursor.field
  BY <1>1, <1>3
<1> QED
  BY <1>2, <1>3, <1>4

\* What a reader has passed and got once it has passed one more field.
LEMMA ReadSums ==
    ASSUME Moved, Summed, pc = "read", AtField, header.checksumField # 0,
           NEW f, Passing(header, <<0, 0>>, f),
           NEW bytes \in Seq(Octet), Pass(bytes), NEW value \in Readable, got' = Append(got, value),
           bytes = IF cursor.field = header.checksumField THEN ChecksumBytes(f[Len(header.format)])
                   ELSE FieldBytes(header, cursor.field),
           cursor.field = header.checksumField
               => value = ChecksumOf(WordSum(f[Len(header.format)]))
    PROVE  /\ \A g : Passing(header, ChecksumBytes(f[Len(header.format)]), g)
                        => passed' = g[cursor'.field - 1]
           /\ cursor'.field > header.checksumField
                => got'[header.checksumField] = ChecksumOf(WordSum(f[Len(header.format)]))
<1> DEFINE c == header.checksumField
           whole == f[Len(header.format)]
<1>1. header \in Headers /\ c \in Nat \ {0} /\ cursor.field \in Nat
  <2>1. header \in Headers
    BY DEF Moved
  <2> QED
    BY <2>1, AtCursor, ChecksumFacts
<1>2. ChecksumBytes(whole) \in Seq(Octet)
  BY <1>1, WholeChecksum
<1>3. /\ \A g : Passing(header, ChecksumBytes(whole), g) => passed = g[cursor.field - 1]
      /\ cursor.field > c => got[c] = ChecksumOf(WordSum(whole))
  BY DEF Summed
<1>4. ASSUME NEW g, Passing(header, ChecksumBytes(whole), g) PROVE passed' = g[cursor'.field - 1]
  <2>1. passed = g[cursor.field - 1]
    BY <1>3, <1>4
  <2> HIDE DEF whole
  <2>2. bytes = IF cursor.field = header.checksumField THEN ChecksumBytes(whole)
                ELSE FieldBytes(header, cursor.field)
    BY DEF whole
  <2> QED
    BY <1>2, <1>4, <2>1, <2>2, PassesOn
<1>5. cursor'.field = cursor.field + 1 /\ Len(got) = cursor.field - 1 /\ got \in Seq(Readable)
  BY DEF Pass, Moved
<1>6. ASSUME cursor'.field > c PROVE got'[c] = ChecksumOf(WordSum(whole))
  <2>1. CASE c = cursor.field
    <3>1. got'[Len(got) + 1] = value /\ Len(got) + 1 = c
      BY <1>1, <1>5, <2>1
    <3> QED
      BY <2>1, <3>1
  <2>2. CASE c # cursor.field
    <3>1. cursor.field > c /\ c \in 1 .. Len(got)
      BY <1>1, <1>5, <1>6, <2>2
    <3>2. got'[c] = got[c]
      BY <1>5, <3>1
    <3> QED
      BY <1>3, <3>1, <3>2
  <2> QED
    BY <2>1, <2>2
<1> QED
  BY <1>4, <1>6

\* Every step keeps it: the checksum is put once, where its zeros were.
LEMMA StepSummed == Moved /\ Stored /\ Summed /\ [Next]_vars => Summed'
<1> SUFFICES ASSUME Moved, Stored, Summed, [Next]_vars, header.checksumField # 0, header' = header,
                    NEW f, Passing(header, <<0, 0>>, f)
             PROVE  /\ pc' = "write" => passed' = f[cursor'.field - 1]
                    /\ pc' \in {"read", "done"} =>
                        /\ HoldsAt(ChecksumBytes(f[Len(header.format)]),
                                   OffsetOf(header.checksumField), buffer')
                        /\ \A g : Passing(header, ChecksumBytes(f[Len(header.format)]), g)
                                    => passed' = g[cursor'.field - 1]
                        /\ cursor'.field > header.checksumField
                             => got'[header.checksumField] = ChecksumOf(WordSum(f[Len(header.format)]))
  <2>1. [Next]_vars => header' = header
    BY DEF Next, Skip, WriteField, Arrive, ReadField, Return, vars
  <2> QED
    BY <2>1 DEF Summed, OffsetOf
<1> DEFINE n == Len(header.format)
           c == header.checksumField
           whole == f[n]
<1>1. /\ header \in Headers /\ n \in Nat /\ c \in 1 .. n
      /\ cursor.offset \in Nat /\ buffer \in Seq(Octet)
      /\ header.format[c].kind = "number" /\ header.format[c].size = 2
      /\ cursor.field \in 1 .. n + 1 /\ <<0, 0>> \in Seq(Octet)
      /\ FieldBytes(header, c) = <<0, 0>>
  <2>1. header \in Headers /\ buffer \in Seq(Octet) /\ cursor.field \in 1 .. n + 1
    BY DEF Moved
  <2>2. <<0, 0>> \in Seq(Octet)
    BY Numbers
  <2>3. cursor.offset \in Nat
    BY AtCursor
  <2> QED
    BY <2>1, <2>2, <2>3, ChecksumFacts, ZeroField
<1>2. /\ ChecksumBytes(whole) \in Seq(Octet) /\ Len(ChecksumBytes(whole)) = 2
      /\ FromBigEndian(ChecksumBytes(whole)) = ChecksumOf(WordSum(whole))
  BY <1>1, WholeChecksum
<1>3. /\ pc = "write" => passed = f[cursor.field - 1]
      /\ pc \in {"read", "done"} =>
           /\ HoldsAt(ChecksumBytes(whole), OffsetOf(c), buffer)
           /\ \A g : Passing(header, ChecksumBytes(whole), g) => passed = g[cursor.field - 1]
           /\ cursor.field > c => got[c] = ChecksumOf(WordSum(whole))
  BY DEF Summed
<1> HIDE DEF whole
<1>4. CASE Skip
  <2>1. /\ pc' = pc /\ buffer' = buffer /\ pc \in {"write", "read"} /\ AtField /\ Field.kind = "gap"
        /\ Pass(<<>>) /\ got' = IF pc = "read" THEN Append(got, 0) ELSE got
    BY <1>4 DEF Skip
  <2>2. cursor.field # c /\ <<>> \in Seq(Octet) /\ FieldBytes(header, cursor.field) = <<>>
    BY <1>1, <2>1 DEF FieldBytes, Field
  <2>3. CASE pc = "write"
    <3>1. passed' = f[cursor'.field - 1]
      BY <1>1, <1>3, <2>1, <2>2, <2>3, PassesOn
    <3> QED
      BY <2>1, <2>3, <3>1
  <2>4. CASE pc = "read"
    <3>1. got' = Append(got, 0) /\ 0 \in Readable
      BY <2>1, <2>4 DEF Readable
    <3>2. /\ \A g : Passing(header, ChecksumBytes(whole), g) => passed' = g[cursor'.field - 1]
          /\ cursor'.field > c => got'[c] = ChecksumOf(WordSum(whole))
      BY <2>1, <2>2, <2>4, <3>1, ReadSums DEF whole
    <3> QED
      BY <1>3, <2>1, <2>4, <3>2 DEF whole
  <2> QED
    BY <2>1, <2>3, <2>4
<1>5. CASE WriteField
  <2> DEFINE bytes == FieldBytes(header, cursor.field)
  <2>1. pc = "write" /\ AtField /\ Field.kind # "gap"
    BY <1>5 DEF WriteField
  <2>2. bytes \in Seq(Octet)
    BY <2>1, AtCursor
  <2>3. (IF Field.kind = "number" THEN BigEndian(Value, Field.size) ELSE Value) = bytes
    BY <2>1, WrittenBytes
  <2>4. bytes = IF cursor.field = c THEN <<0, 0>> ELSE FieldBytes(header, cursor.field)
    BY <1>1
  <2> HIDE DEF bytes
  <2>5. CASE Fits(cursor.offset, Field.size)
    <3>1. Pass(bytes) /\ pc' = pc
      BY <1>5, <2>3, <2>5 DEF WriteField
    <3>2. passed' = f[cursor'.field - 1]
      BY <1>1, <1>3, <2>1, <2>2, <2>4, <3>1, PassesOn
    <3> QED
      BY <2>1, <3>1, <3>2
  <2>6. CASE ~Fits(cursor.offset, Field.size)
    BY <1>5, <2>6 DEF WriteField, Throw
  <2> QED
    BY <2>5, <2>6
<1>6. ASSUME NEW m \in 0 .. Len(buffer), Arrive(m)
      PROVE  /\ pc' # "write"
             /\ HoldsAt(ChecksumBytes(whole), OffsetOf(c), buffer')
             /\ \A g : Passing(header, ChecksumBytes(whole), g) => passed' = g[cursor'.field - 1]
             /\ ~(cursor'.field > c)
  <2>1. /\ pc = "write" /\ ~AtField /\ pc' = "read" /\ buffer' = SubSeq(Patched, 1, m)
        /\ passed' = <<>> /\ cursor'.field = 1
    BY <1>6 DEF Arrive, NewCursor
  <2>2. cursor.field - 1 = n
    <3>1. ~(cursor.field <= n)
      BY <2>1 DEF AtField
    <3>2. n \in Nat /\ cursor.field \in 1 .. n + 1
      BY <1>1
    <3> HIDE DEF n
    <3> QED
      BY <3>1, <3>2
  <2>3. passed = whole
    BY <1>3, <2>1, <2>2 DEF whole
  <2>4. GetChecksum(cursor.checksum) = ChecksumOf(WordSum(whole))
    <3>1. passed \in Seq(Octet) /\ Summarises(cursor.checksum, passed)
      BY DEF Moved
    <3>2. Total(cursor.checksum) = WordSum(passed)
      BY <3>1, TotalIsWordSum
    <3> QED
      BY <2>3, <3>2 DEF GetChecksum
  <2>5. Patched = Put(OffsetOf(c), ChecksumBytes(whole))
    BY <1>1, <2>4 DEF Patched, OffsetOf, ChecksumBytes
  <2>6. OffsetOf(c) \in Nat
    BY <1>1, ChecksumFacts DEF OffsetOf
  <2>7. HoldsAt(ChecksumBytes(whole), OffsetOf(c), Patched)
    BY <1>1, <1>2, <2>5, <2>6, PutHolds
  <2>8. Patched \in Seq(Octet) /\ m \in 0 .. Len(Patched)
    BY <1>6, PatchedParts
  <2>9. HoldsAt(ChecksumBytes(whole), OffsetOf(c), SubSeq(Patched, 1, m))
    BY <1>2, <2>6, <2>7, <2>8, CutHolds
  <2>10. \A g : Passing(header, ChecksumBytes(whole), g) => g[0] = <<>>
    BY DEF Passing
  <2>11. cursor'.field - 1 = 0
    BY <2>1
  <2>12. ~(cursor'.field > c)
    BY <1>1, <2>1
  <2> QED
    BY <2>1, <2>9, <2>10, <2>11, <2>12
<1>7. CASE ReadField
  <2> DEFINE bytes == Get(cursor.offset, Field.size)
             value == IF Field.kind = "number" THEN FromBigEndian(bytes) ELSE bytes
  <2>1. pc = "read" /\ AtField /\ Field.kind # "gap" /\ buffer' = buffer
    BY <1>7 DEF ReadField
  <2>2. Field.size \in Nat /\ cursor.field \in 1 .. n
    BY <2>1, AtCursor
  <2>3. CASE Fits(cursor.offset, Field.size)
    <3>1. got' = Append(got, value) /\ Pass(bytes) /\ pc' = pc
      BY <1>7, <2>3 DEF ReadField
    <3>2. bytes \in Seq(Octet)
      BY <1>1, <2>2, <2>3, GetParts
    <3>3. value \in Readable
      <4> HIDE DEF bytes
      <4>1. FromBigEndian(bytes) \in Nat
        BY <3>2, JoinedIsNat
      <4> QED
        BY <3>2, <4>1 DEF Readable
    <3>4. /\ bytes = IF cursor.field = c THEN ChecksumBytes(whole) ELSE FieldBytes(header, cursor.field)
          /\ cursor.field = c => value = ChecksumOf(WordSum(whole))
      <4>1. CASE cursor.field = c
        <5>1. Field.kind = "number" /\ Field.size = 2
          BY <1>1, <4>1 DEF Field
        <5>2. HoldsAt(ChecksumBytes(whole), OffsetOf(cursor.field), buffer)
          BY <1>3, <2>1, <4>1
        <5>3. bytes = ChecksumBytes(whole)
          BY <1>2, <2>1, <2>3, <5>1, <5>2, GetsHeld
        <5> HIDE DEF bytes
        <5> QED
          BY <1>2, <4>1, <5>1, <5>3
      <4>2. CASE cursor.field # c
        <5>1. HoldsAt(FieldBytes(header, cursor.field), OffsetOf(cursor.field), buffer)
          BY <2>1, <2>2, <4>2 DEF Stored
        <5>2. bytes = FieldBytes(header, cursor.field)
          BY <2>1, <2>3, <5>1, GetsField
        <5> QED
          BY <4>2, <5>2
      <4> QED
        BY <4>1, <4>2
    <3> HIDE DEF bytes, value
    <3>5. /\ \A g : Passing(header, ChecksumBytes(whole), g) => passed' = g[cursor'.field - 1]
          /\ cursor'.field > c => got'[c] = ChecksumOf(WordSum(whole))
      BY <2>1, <3>1, <3>2, <3>3, <3>4, ReadSums DEF whole
    <3> QED
      BY <1>3, <2>1, <3>1, <3>5 DEF whole
  <2>4. CASE ~Fits(cursor.offset, Field.size)
    BY <1>7, <2>4 DEF ReadField, Throw
  <2> QED
    BY <2>3, <2>4
<1>8. CASE Return
  BY <1>3, <1>8 DEF Return, whole
<1>9. CASE UNCHANGED vars
  BY <1>3, <1>9 DEF vars, whole
<1>10. CASE \E m \in 0 .. Len(buffer) : Arrive(m)
  BY <1>6, <1>10 DEF whole
<1> QED
  BY <1>4, <1>5, <1>7, <1>8, <1>9, <1>10 DEF Next

\* The reader's sum is the writer's and the checksum.
LEMMA SummedAccepts == Moved /\ Summed => AcceptedWithoutSecondCarry
<1> SUFFICES ASSUME Moved, Summed, pc = "done", header.checksumField # 0,
                    ~(FoldOnce(Total(cursor.checksum) - got[header.checksumField]) >= WordBase)
             PROVE  FoldCarries[Total(cursor.checksum)] = AllOnes
  BY DEF AcceptedWithoutSecondCarry
<1> DEFINE n == Len(header.format)
           c == header.checksumField
           p == OffsetAfter(header.format, c - 1)
<1>1. /\ header \in Headers /\ n \in Nat /\ c \in 1 .. n /\ cursor.field = n + 1
      /\ p \in Nat /\ p % 2 = 0 /\ <<0, 0>> \in Seq(Octet)
  <2>1. header \in Headers /\ cursor.field = n + 1
    BY DEF Moved
  <2>2. <<0, 0>> \in Seq(Octet)
    BY Numbers
  <2> QED
    BY <2>1, <2>2, ChecksumFacts
<1>2. PICK f : Passing(header, <<0, 0>>, f)
  BY <1>1, PassingExists
<1> DEFINE whole == f[n]
           word == ChecksumBytes(whole)
           sum == WordSum(whole)
<1>3. /\ whole \in Seq(Octet) /\ sum \in Nat /\ sum < WordBase * WordBase
      /\ ChecksumOf(sum) \in 0 .. AllOnes
      /\ word \in Seq(Octet) /\ Len(word) = 2 /\ Pair(word[1], word[2]) = ChecksumOf(sum)
  BY <1>1, <1>2, WholeChecksum
<1>4. PICK g : Passing(header, word, g)
  BY <1>1, <1>3, PassingExists
<1>5. passed = g[n] /\ got[c] = ChecksumOf(sum)
  <2>1. cursor.field - 1 = n /\ cursor.field > c
    BY <1>1
  <2>2. /\ \A h : Passing(header, ChecksumBytes(f[Len(header.format)]), h)
                    => passed = h[cursor.field - 1]
        /\ cursor.field > header.checksumField
             => got[header.checksumField] = ChecksumOf(WordSum(f[Len(header.format)]))
    BY <1>2 DEF Summed
  <2> QED
    BY <1>4, <2>1, <2>2
<1>6. Apart(p, word, whole, g[n])
  BY <1>1, <1>2, <1>3, <1>4, PassedApart
<1>7. passed \in Seq(Octet) /\ Summarises(cursor.checksum, passed)
  BY DEF Moved
<1>8. Total(cursor.checksum) = WordSum(passed)
  BY <1>7, TotalIsWordSum
<1> HIDE DEF whole, word, p
<1>9. WordSum(passed) = WordSum(whole) + Pair(passed[p + 1], passed[p + 2])
  BY <1>1, <1>3, <1>5, <1>6, <1>7, WordReplaced DEF Apart
<1>10. Pair(passed[p + 1], passed[p + 2]) = ChecksumOf(sum)
  BY <1>3, <1>5, <1>6 DEF Apart
<1>11. Total(cursor.checksum) = sum + ChecksumOf(sum)
  BY <1>8, <1>9, <1>10
<1> HIDE DEF sum
<1>12. ChecksumOf(sum) \in Nat
  BY <1>3, Numbers
<1>13. Total(cursor.checksum) - got[header.checksumField] = sum
  BY <1>3, <1>5, <1>11, <1>12
<1>14. FoldOnce(sum) \in Nat
  BY <1>3, Remainder, Numbers DEF FoldOnce, High, Low
<1>15. FoldOnce(sum) < WordBase
  BY <1>13, <1>14, Numbers
<1> QED
  BY <1>3, <1>11, <1>15, AcceptsComplement

(***************************************************************************)
(* The checksum that WriteIp4Header puts into its field is one a receiver  *)
(* accepts, for every header that takes less than two times WordBase       *)
(* bytes, unless adding the halves of its sum carries once more.           *)
(***************************************************************************)
THEOREM HeaderAcceptedWithoutSecondCarry == Spec => []AcceptedWithoutSecondCarry
<1>1. Spec => []Summed
  BY InitSummed, StepSummed, HeaderMoved, HeaderStored, PTL DEF Spec
<1> QED
  BY <1>1, HeaderMoved, SummedAccepts, PTL
=============================================================================
