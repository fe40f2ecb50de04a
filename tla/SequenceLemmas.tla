--------------------------- MODULE SequenceLemmas ---------------------------
(***************************************************************************)
(* Facts about natural numbers, about functions defined by recursion on    *)
(* them, and about the sequence operators of the model.  Induction is      *)
(* stated with a set of numbers, never with a predicate.                   *)
(***************************************************************************)
EXTENDS Integers, SequencesExt, SequenceTheorems, WellFoundedInduction, TLAPS

\* A set that has zero and, with each number, the next one has every number.
LEMMA Induction ==
    ASSUME NEW S, 0 \in S, \A n \in Nat : n \in S => n + 1 \in S
    PROVE  \A n \in Nat : n \in S
<1> SUFFICES ASSUME Nat \ S # {} PROVE FALSE
  OBVIOUS
<1> DEFINE Less == {pair \in Nat \X Nat : pair[1] < pair[2]}
           Missing == Nat \ S
<1>1. IsWellFoundedOn(Less, Nat)
  BY NatLessThanWellFounded DEF OpToRel
<1>2. Missing \subseteq Nat /\ Missing # {}
  OBVIOUS
<1> HIDE DEF Less, Missing
<1>3. PICK x \in Missing : \A y \in Missing : <<y, x>> \notin Less
  BY <1>1, <1>2, WFMin, Zenon
<1>4. x \in Nat /\ x # 0 /\ x - 1 \in Nat
  BY <1>3 DEF Missing
<1>5. x - 1 \in Missing /\ <<x - 1, x>> \in Less
  BY <1>3, <1>4 DEF Missing, Less
<1> QED
  BY <1>3, <1>5

\* A number is its quotient and its remainder, and it has no others.
LEMMA Remainder ==
    ASSUME NEW m \in Nat \ {0}, NEW n \in Nat
    PROVE  n \div m \in Nat /\ n % m \in 0 .. m - 1 /\ n = (n \div m) * m + (n % m)
  BY Z3

\* A number below the divisor is the remainder of what is composed with it.
LEMMA Quotient ==
    ASSUME NEW m \in Nat \ {0}, NEW q \in Nat, NEW r \in 0 .. m - 1
    PROVE  (q * m + r) \div m = q /\ (q * m + r) % m = r
  BY Z3

\* The quotient of a number below base * m is below m.
LEMMA QuotientBound ==
    ASSUME NEW base \in Nat \ {0}, NEW n \in Nat, NEW m \in Nat, n < base * m
    PROVE  n \div base < m
<1> DEFINE q == n \div base
<1>1. q \in Nat /\ q * base <= n
  <2>1. q \in Nat /\ n % base \in Nat /\ n = q * base + (n % base)
    BY Remainder
  <2>2. q * base \in Nat
    BY <2>1
  <2> QED
    BY <2>1, <2>2
<1>2. SUFFICES ASSUME q >= m PROVE FALSE
  BY <1>1
<1>3. q * base >= m * base
  BY <1>1, <1>2
<1> QED
  BY <1>1, <1>3

\* A number below the fourth power of a base is what four digits of the base denote.
LEMMA FourDigits ==
    ASSUME NEW base \in Nat \ {0}, NEW n \in Nat, n < base * (base * (base * base)),
           NEW high, high = n \div base, NEW higher, higher = high \div base,
           NEW highest, highest = higher \div base
    PROVE  (((highest % base) * base + (higher % base)) * base + (high % base)) * base + (n % base) = n
<1>1. high \in Nat /\ high < base * (base * base) /\ high * base + (n % base) = n
  <2>1. base * (base * base) \in Nat
    OBVIOUS
  <2> QED
    BY <2>1, Remainder, QuotientBound
<1>2. higher \in Nat /\ higher < base * base /\ higher * base + (high % base) = high
  <2>1. base * base \in Nat
    OBVIOUS
  <2> QED
    BY <1>1, <2>1, Remainder, QuotientBound
<1>3. highest \in Nat /\ highest < base /\ highest * base + (higher % base) = higher
  BY <1>2, Remainder, QuotientBound
<1>4. highest % base = highest
  BY <1>3
<1> QED
  BY <1>1, <1>2, <1>3, <1>4, Zenon

(***************************************************************************)
(* Functions on 0 .. n that are defined by recursion on the value before.  *)
(* Step gives the next value from the place and the value before.          *)
(***************************************************************************)
Recursion(base, n, Step, f) ==
    f[0] = base /\ \A i \in 1 .. n : f[i] = Step[<<i, f[i - 1]>>]

\* Such a function exists when every step stays in a set, and its values are in that set.
LEMMA RecursionExists ==
    ASSUME NEW V, NEW base \in V, NEW n \in Nat, NEW Step,
           \A i \in 1 .. n : \A v \in V : Step[<<i, v>>] \in V
    PROVE  \E f \in [0 .. n -> V] : Recursion(base, n, Step, f)
<1> DEFINE Good == {k \in Nat : k <= n => \E f \in [0 .. k -> V] : Recursion(base, k, Step, f)}
<1>1. 0 \in Good
  <2> DEFINE g == [i \in 0 .. 0 |-> base]
  <2>1. g \in [0 .. 0 -> V] /\ Recursion(base, 0, Step, g)
    BY DEF Recursion
  <2> QED
    BY <2>1
<1>2. ASSUME NEW k \in Nat, k \in Good PROVE k + 1 \in Good
  <2> SUFFICES ASSUME k + 1 <= n
               PROVE  \E f \in [0 .. k + 1 -> V] : Recursion(base, k + 1, Step, f)
    OBVIOUS
  <2>1. PICK f \in [0 .. k -> V] : Recursion(base, k, Step, f)
    BY <1>2
  <2> DEFINE g == [i \in 0 .. k + 1 |-> IF i <= k THEN f[i] ELSE Step[<<k + 1, f[k]>>]]
  <2>2. g \in [0 .. k + 1 -> V]
    BY <2>1
  <2>3. g[0] = base
    BY <2>1 DEF Recursion
  <2>4. ASSUME NEW i \in 1 .. k + 1 PROVE g[i] = Step[<<i, g[i - 1]>>]
    <3>1. CASE i <= k
      <4>1. i \in 1 .. k /\ i - 1 \in 0 .. k /\ i - 1 <= k
        BY <3>1
      <4>2. g[i] = f[i] /\ g[i - 1] = f[i - 1]
        BY <3>1, <4>1
      <4> QED
        BY <2>1, <4>1, <4>2 DEF Recursion
    <3>2. CASE i = k + 1
      <4>1. i - 1 = k /\ ~(i <= k) /\ k <= k
        BY <3>2
      <4>2. g[i] = Step[<<k + 1, f[k]>>] /\ g[i - 1] = f[k]
        BY <4>1
      <4> QED
        BY <3>2, <4>2
    <3> QED
      BY <3>1, <3>2
  <2> HIDE DEF g
  <2> QED
    BY <2>2, <2>3, <2>4 DEF Recursion
<1>3. \A k \in Nat : k \in Good
  <2> HIDE DEF Good
  <2> QED
    BY <1>1, <1>2, Induction
<1> QED
  BY <1>3

\* Two functions that start alike and go on alike are the same.
LEMMA SameValues ==
    ASSUME NEW n \in Nat, NEW f, NEW g, f[0] = g[0],
           \A i \in 1 .. n : f[i - 1] = g[i - 1] => f[i] = g[i]
    PROVE  \A i \in 0 .. n : f[i] = g[i]
<1> DEFINE Good == {k \in Nat : k <= n => f[k] = g[k]}
<1>1. 0 \in Good
  OBVIOUS
<1>2. ASSUME NEW k \in Nat, k \in Good PROVE k + 1 \in Good
  <2> SUFFICES ASSUME k + 1 <= n PROVE f[k + 1] = g[k + 1]
    OBVIOUS
  <2>1. k + 1 \in 1 .. n /\ (k + 1) - 1 = k /\ f[k] = g[k]
    BY <1>2
  <2> QED
    BY <2>1
<1>3. \A k \in Nat : k \in Good
  <2> HIDE DEF Good
  <2> QED
    BY <1>1, <1>2, Induction
<1> QED
  BY <1>3

\* Where the elements of a concatenation come from.
LEMMA ConcatParts ==
    ASSUME NEW S, NEW s \in Seq(S), NEW t \in Seq(S)
    PROVE  /\ s \o t \in Seq(S)
           /\ Len(s \o t) = Len(s) + Len(t)
           /\ \A i \in 1 .. Len(s) + Len(t) :
                (s \o t)[i] = IF i <= Len(s) THEN s[i] ELSE t[i - Len(s)]
  BY ConcatProperties

\* The elements of a concatenation, by the part they come from.
LEMMA ConcatElements ==
    ASSUME NEW S, NEW s \in Seq(S), NEW t \in Seq(S)
    PROVE  /\ s \o t \in Seq(S)
           /\ Len(s \o t) = Len(s) + Len(t)
           /\ \A i \in 1 .. Len(s) : (s \o t)[i] = s[i]
           /\ \A i \in 1 .. Len(t) : (s \o t)[Len(s) + i] = t[i]
<1>1. /\ s \o t \in Seq(S) /\ Len(s \o t) = Len(s) + Len(t)
      /\ \A i \in 1 .. Len(s) + Len(t) :
            (s \o t)[i] = IF i <= Len(s) THEN s[i] ELSE t[i - Len(s)]
  BY ConcatParts
<1>2. Len(s) \in Nat /\ Len(t) \in Nat
  OBVIOUS
<1>3. ASSUME NEW i \in 1 .. Len(t) PROVE (s \o t)[Len(s) + i] = t[i]
  <2>1. Len(s) + i \in 1 .. Len(s) + Len(t) /\ ~(Len(s) + i <= Len(s)) /\ (Len(s) + i) - Len(s) = i
    BY <1>2
  <2> QED
    BY <1>1, <2>1
<1> QED
  BY <1>1, <1>2, <1>3

\* Two sequences of the same length with the same elements are the same.
LEMMA SameElements ==
    ASSUME NEW S, NEW s \in Seq(S), NEW t \in Seq(S), Len(s) = Len(t),
           \A i \in 1 .. Len(s) : s[i] = t[i]
    PROVE  s = t
  BY SeqEqual

\* A sequence cut in two is the concatenation of its parts.
LEMMA CutInTwo ==
    ASSUME NEW S, NEW s \in Seq(S), NEW n \in 0 .. Len(s)
    PROVE  /\ SubSeq(s, 1, n) \in Seq(S) /\ Len(SubSeq(s, 1, n)) = n
           /\ SubSeq(s, n + 1, Len(s)) \in Seq(S)
           /\ s = SubSeq(s, 1, n) \o SubSeq(s, n + 1, Len(s))
<1> DEFINE first == SubSeq(s, 1, n)
           second == SubSeq(s, n + 1, Len(s))
<1>1. /\ first \in Seq(S) /\ Len(first) = n /\ \A i \in 1 .. n : first[i] = s[i]
      /\ second \in Seq(S) /\ Len(second) = Len(s) - n
      /\ \A i \in 1 .. Len(s) - n : second[i] = s[n + i]
  OBVIOUS
<1> HIDE DEF first, second
<1> DEFINE joined == first \o second
<1>2. /\ joined \in Seq(S) /\ Len(joined) = Len(first) + Len(second)
      /\ \A i \in 1 .. Len(first) + Len(second) :
            joined[i] = IF i <= Len(first) THEN first[i] ELSE second[i - Len(first)]
  <2>1. first \in Seq(S) /\ second \in Seq(S)
    BY <1>1
  <2> QED
    BY <2>1, ConcatParts
<1> HIDE DEF joined
<1>3. Len(s) \in Nat /\ n \in Nat /\ n <= Len(s) /\ Len(first) + Len(second) = Len(s)
  BY <1>1
<1>4. ASSUME NEW i \in 1 .. Len(s) PROVE joined[i] = s[i]
  <2>1. CASE i <= n
    BY <1>1, <1>2, <1>3, <2>1
  <2>2. CASE ~(i <= n)
    <3>1. i - n \in 1 .. Len(s) - n /\ n + (i - n) = i
      BY <1>3, <2>2
    <3>2. joined[i] = second[i - n]
      BY <1>1, <1>2, <1>3, <2>2
    <3>3. second[i - n] = s[n + (i - n)]
      BY <1>1, <3>1
    <3> QED
      BY <3>1, <3>2, <3>3
  <2> QED
    BY <2>1, <2>2
<1>5. s = joined
  BY <1>2, <1>3, <1>4, SeqEqual
<1> QED
  BY <1>1, <1>5 DEF first, second, joined

\* The first element may move from one sequence to the end of the one before it.
LEMMA MoveHead ==
    ASSUME NEW S, NEW s \in Seq(S), NEW t \in Seq(S), t # <<>>
    PROVE  /\ Append(s, Head(t)) \in Seq(S) /\ Len(Append(s, Head(t))) = Len(s) + 1
           /\ Tail(t) \in Seq(S)
           /\ Append(s, Head(t)) \o Tail(t) = s \o t
<1> DEFINE longer == Append(s, Head(t))
           left == longer \o Tail(t)
           right == s \o t
<1>1. /\ Len(s) \in Nat /\ Len(t) \in Nat /\ Len(t) > 0
      /\ longer \in Seq(S) /\ Len(longer) = Len(s) + 1
      /\ \A i \in 1 .. Len(s) : longer[i] = s[i]
      /\ longer[Len(s) + 1] = t[1]
      /\ Tail(t) \in Seq(S) /\ Len(Tail(t)) = Len(t) - 1
      /\ \A i \in 1 .. Len(t) - 1 : Tail(t)[i] = t[i + 1]
  OBVIOUS
<1> HIDE DEF longer
<1>2. /\ left \in Seq(S) /\ Len(left) = Len(longer) + Len(Tail(t))
      /\ \A i \in 1 .. Len(longer) + Len(Tail(t)) :
            left[i] = IF i <= Len(longer) THEN longer[i] ELSE Tail(t)[i - Len(longer)]
  <2>1. longer \in Seq(S) /\ Tail(t) \in Seq(S)
    BY <1>1
  <2> QED
    BY <2>1, ConcatParts
<1>3. /\ right \in Seq(S) /\ Len(right) = Len(s) + Len(t)
      /\ \A i \in 1 .. Len(s) + Len(t) : right[i] = IF i <= Len(s) THEN s[i] ELSE t[i - Len(s)]
  BY ConcatParts
<1> HIDE DEF left, right
<1>4. /\ Len(left) = Len(s) + Len(t)
      /\ \A i \in 1 .. Len(s) + Len(t) :
            left[i] = IF i <= Len(s) + 1 THEN longer[i] ELSE Tail(t)[i - (Len(s) + 1)]
  <2>1. Len(longer) + Len(Tail(t)) = Len(s) + Len(t)
    BY <1>1
  <2> QED
    BY <1>1, <1>2, <2>1
<1>5. ASSUME NEW i \in 1 .. Len(s) + Len(t) PROVE left[i] = right[i]
  <2>1. CASE i <= Len(s)
    BY <1>1, <1>3, <1>4, <2>1
  <2>2. CASE i = Len(s) + 1
    BY <1>1, <1>3, <1>4, <2>2
  <2>3. CASE i > Len(s) + 1
    <3>1. i - (Len(s) + 1) \in 1 .. Len(t) - 1 /\ (i - (Len(s) + 1)) + 1 = i - Len(s)
      BY <1>1, <2>3
    <3>2. left[i] = Tail(t)[i - (Len(s) + 1)]
      BY <1>1, <1>4, <2>3
    <3>3. Tail(t)[i - (Len(s) + 1)] = t[i - Len(s)]
      BY <1>1, <3>1
    <3>4. right[i] = t[i - Len(s)]
      BY <1>1, <1>3, <2>3
    <3> QED
      BY <3>2, <3>3, <3>4
  <2> QED
    BY <1>1, <2>1, <2>2, <2>3
<1>6. left = right
  BY <1>2, <1>3, <1>4, <1>5, SeqEqual
<1> QED
  BY <1>1, <1>6 DEF longer, left, right

\* A prefix, by its elements.
LEMMA PrefixElements ==
    ASSUME NEW S, NEW s \in Seq(S), NEW t \in Seq(S)
    PROVE  IsPrefix(s, t) <=> Len(s) <= Len(t) /\ \A i \in 1 .. Len(s) : s[i] = t[i]
<1>1. ASSUME Len(s) <= Len(t), \A i \in 1 .. Len(s) : s[i] = t[i]
      PROVE  SubSeq(s, 1, Len(s)) = SubSeq(t, 1, Len(s))
  <2>1. SubSeq(t, 1, Len(s)) \in Seq(S) /\ Len(SubSeq(t, 1, Len(s))) = Len(s)
        /\ \A i \in 1 .. Len(s) : SubSeq(t, 1, Len(s))[i] = t[i]
    BY <1>1
  <2>2. SubSeq(s, 1, Len(s)) = s
    OBVIOUS
  <2> QED
    BY <1>1, <2>1, <2>2, SeqEqual
<1>2. ASSUME Len(s) <= Len(t), SubSeq(s, 1, Len(s)) = SubSeq(t, 1, Len(s)), NEW i \in 1 .. Len(s)
      PROVE  s[i] = t[i]
  <2>1. SubSeq(s, 1, Len(s))[i] = s[i] /\ SubSeq(t, 1, Len(s))[i] = t[i]
    BY <1>2
  <2> QED
    BY <1>2, <2>1
<1> QED
  BY <1>1, <1>2 DEF IsPrefix

\* A sequence is a prefix of its continuations, and a prefix stays one.
LEMMA PrefixOfLonger ==
    ASSUME NEW S, NEW s \in Seq(S), NEW t \in Seq(S), NEW u \in Seq(S), IsPrefix(s, t)
    PROVE  IsPrefix(s, t \o u)
<1>1. Len(s) <= Len(t) /\ \A i \in 1 .. Len(s) : s[i] = t[i]
  BY PrefixElements
<1> DEFINE longer == t \o u
<1>2. longer \in Seq(S) /\ Len(longer) = Len(t) + Len(u) /\ \A i \in 1 .. Len(t) : longer[i] = t[i]
  OBVIOUS
<1> HIDE DEF longer
<1>3. Len(s) <= Len(longer) /\ \A i \in 1 .. Len(s) : s[i] = longer[i]
  BY <1>1, <1>2
<1>4. IsPrefix(s, longer)
  BY <1>2, <1>3, PrefixElements
<1> QED
  BY <1>4 DEF longer

\* A sequence is a prefix of itself with something behind it.
LEMMA PrefixOfConcat ==
    ASSUME NEW S, NEW s \in Seq(S), NEW t \in Seq(S)
    PROVE  IsPrefix(s, s \o t)
<1>1. IsPrefix(s, s)
  BY DEF IsPrefix
<1> QED
  BY <1>1, PrefixOfLonger

\* Concatenation of sequences over a set is associative.
AssociativeOver(S) ==
    \A s, t, u \in Seq(S) : (s \o t) \o u = s \o (t \o u) /\ t \o u \in Seq(S)

\* It is so over every set.
LEMMA Associative == ASSUME NEW S PROVE AssociativeOver(S)
  BY DEF AssociativeOver

(***************************************************************************)
(* FlattenSeq takes the last value of a function that is defined by        *)
(* recursion.  That function exists and is unique, which gives the two     *)
(* equations by which FlattenSeq is used below.                            *)
(***************************************************************************)
Flattened(seqs, n, f) ==
    f = [i \in 1 .. n |-> IF i = 1 THEN seqs[i] ELSE f[i - 1] \o seqs[i]]

\* What the equation says of the values of the function.
LEMMA FlattenedValues ==
    ASSUME NEW seqs, NEW n \in Nat, NEW f, Flattened(seqs, n, f)
    PROVE  \A i \in 1 .. n : f[i] = IF i = 1 THEN seqs[i] ELSE f[i - 1] \o seqs[i]
  BY DEF Flattened

\* The value at the next place adds the next sequence.
LEMMA FlattenedNext ==
    ASSUME NEW seqs, NEW n \in Nat, NEW f, Flattened(seqs, n, f),
           NEW k \in Nat, k > 0, k + 1 <= n
    PROVE  f[k + 1] = f[k] \o seqs[k + 1]
<1>1. k + 1 # 1 /\ k + 1 - 1 = k
  OBVIOUS
<1>2. f[k + 1] = IF k + 1 = 1 THEN seqs[k + 1] ELSE f[k + 1 - 1] \o seqs[k + 1]
  <2>1. k + 1 \in 1 .. n
    OBVIOUS
  <2> QED
    BY <2>1, FlattenedValues
<1>3. f[k + 1] = f[k + 1 - 1] \o seqs[k + 1]
  BY <1>1, <1>2, Zenon
<1> QED
  BY <1>1, <1>3, Zenon

\* FlattenSeq in the words of that equation.
LEMMA FlattenSeqDef ==
    ASSUME NEW S, NEW seqs \in Seq(Seq(S))
    PROVE  FlattenSeq(seqs) = IF Len(seqs) = 0 THEN <<>>
                              ELSE (CHOOSE f : Flattened(seqs, Len(seqs), f))[Len(seqs)]
  BY DEF FlattenSeq, Flattened

\* A function that satisfies the equation exists, for every number of sequences.
LEMMA FlattenedExists ==
    ASSUME NEW seqs, NEW n \in Nat
    PROVE  \E f : Flattened(seqs, n, f)
<1> DEFINE Good == {k \in Nat : \E f : Flattened(seqs, k, f)}
<1>1. 0 \in Good
  <2> DEFINE g == [i \in 1 .. 0 |-> <<>>]
  <2>1. g = [i \in 1 .. 0 |-> IF i = 1 THEN seqs[i] ELSE g[i - 1] \o seqs[i]]
    OBVIOUS
  <2>2. Flattened(seqs, 0, g)
    BY <2>1 DEF Flattened
  <2> QED
    BY <2>2
<1>2. ASSUME NEW k \in Nat, k \in Good PROVE k + 1 \in Good
  <2>1. PICK f : Flattened(seqs, k, f)
    BY <1>2
  <2> DEFINE g == [i \in 1 .. k + 1 |->
                      IF i <= k THEN f[i] ELSE IF i = 1 THEN seqs[i] ELSE f[i - 1] \o seqs[i]]
  <2>2. ASSUME NEW i \in 1 .. k + 1
        PROVE  g[i] = IF i = 1 THEN seqs[i] ELSE g[i - 1] \o seqs[i]
    <3>1. CASE i <= k
      <4>1. i \in 1 .. k /\ (i # 1 => i - 1 \in 1 .. k)
        BY <3>1
      <4>2. f[i] = IF i = 1 THEN seqs[i] ELSE f[i - 1] \o seqs[i]
        BY <2>1, <4>1, FlattenedValues
      <4> QED
        BY <4>1, <4>2
    <3>2. CASE i = k + 1
      BY <3>2
    <3> QED
      BY <3>1, <3>2
  <2>3. g = [i \in 1 .. k + 1 |-> g[i]]
    OBVIOUS
  <2> HIDE DEF g
  <2>4. g = [i \in 1 .. k + 1 |-> IF i = 1 THEN seqs[i] ELSE g[i - 1] \o seqs[i]]
    BY <2>2, <2>3
  <2>5. Flattened(seqs, k + 1, g)
    BY <2>4 DEF Flattened
  <2> QED
    BY <2>5
<1>3. \A k \in Nat : k \in Good
  <2> HIDE DEF Good
  <2> QED
    BY <1>1, <1>2, Induction
<1> QED
  BY <1>3

\* Two such functions agree where both are defined.
LEMMA FlattenedUnique ==
    ASSUME NEW seqs, NEW n \in Nat, NEW m \in Nat, n <= m,
           NEW f, Flattened(seqs, n, f), NEW g, Flattened(seqs, m, g)
    PROVE  \A i \in 1 .. n : f[i] = g[i]
<1> DEFINE Good == {k \in Nat : k \in 1 .. n => f[k] = g[k]}
<1>1. 0 \in Good
  OBVIOUS
<1>2. ASSUME NEW k \in Nat, k \in Good PROVE k + 1 \in Good
  <2> SUFFICES ASSUME k + 1 \in 1 .. n PROVE f[k + 1] = g[k + 1]
    OBVIOUS
  <2>1. k + 1 \in 1 .. m
    OBVIOUS
  <2>2. /\ f[k + 1] = IF k + 1 = 1 THEN seqs[k + 1] ELSE f[k + 1 - 1] \o seqs[k + 1]
        /\ g[k + 1] = IF k + 1 = 1 THEN seqs[k + 1] ELSE g[k + 1 - 1] \o seqs[k + 1]
    BY <2>1, FlattenedValues
  <2>3. k # 0 => f[k] = g[k]
    BY <1>2
  <2> QED
    BY <2>2, <2>3
<1>3. \A k \in Nat : k \in Good
  <2> HIDE DEF Good
  <2> QED
    BY <1>1, <1>2, Induction
<1> QED
  BY <1>3

\* All its values are sequences over the same set.
LEMMA FlattenedType ==
    ASSUME NEW S, NEW seqs \in Seq(Seq(S)), NEW n \in Nat, n <= Len(seqs),
           NEW f, Flattened(seqs, n, f)
    PROVE  \A i \in 1 .. n : f[i] \in Seq(S)
<1> DEFINE Good == {k \in Nat : k \in 1 .. n => f[k] \in Seq(S)}
<1>1. 0 \in Good
  OBVIOUS
<1>2. ASSUME NEW k \in Nat, k \in Good PROVE k + 1 \in Good
  <2> SUFFICES ASSUME k + 1 \in 1 .. n PROVE f[k + 1] \in Seq(S)
    OBVIOUS
  <2>1. f[k + 1] = IF k + 1 = 1 THEN seqs[k + 1] ELSE f[k + 1 - 1] \o seqs[k + 1]
    BY FlattenedValues
  <2>2. seqs[k + 1] \in Seq(S)
    OBVIOUS
  <2>3. k # 0 => f[k] \in Seq(S)
    BY <1>2
  <2>4. ASSUME NEW s \in Seq(S), NEW t \in Seq(S) PROVE s \o t \in Seq(S)
    OBVIOUS
  <2> HIDE DEF Good
  <2> QED
    BY <2>1, <2>2, <2>3, <2>4
<1>3. \A k \in Nat : k \in Good
  <2> HIDE DEF Good
  <2> QED
    BY <1>1, <1>2, Induction
<1> QED
  BY <1>3

\* The value of FlattenSeq by any function of that kind.
LEMMA FlattenSeqValue ==
    ASSUME NEW S, NEW seqs \in Seq(Seq(S)), Len(seqs) > 0,
           NEW f, Flattened(seqs, Len(seqs), f)
    PROVE  FlattenSeq(seqs) = f[Len(seqs)]
<1> DEFINE g == CHOOSE h : Flattened(seqs, Len(seqs), h)
<1>1. Flattened(seqs, Len(seqs), g)
  BY Zenon
<1>2. FlattenSeq(seqs) = g[Len(seqs)]
  <2>1. Len(seqs) # 0
    OBVIOUS
  <2> QED
    BY <2>1, FlattenSeqDef, Zenon
<1> HIDE DEF g
<1>3. \A i \in 1 .. Len(seqs) : g[i] = f[i]
  BY <1>1, FlattenedUnique
<1> QED
  BY <1>2, <1>3

\* Flattening an empty sequence of sequences gives the empty sequence.
LEMMA FlattenEmpty == FlattenSeq(<<>>) = <<>>
  BY DEF FlattenSeq

\* One more sequence at the end is one more piece at the end.
LEMMA FlattenAppend ==
    ASSUME NEW S, NEW seqs \in Seq(Seq(S)), NEW s \in Seq(S)
    PROVE  /\ FlattenSeq(seqs) \in Seq(S)
           /\ FlattenSeq(Append(seqs, s)) = FlattenSeq(seqs) \o s
<1> DEFINE longer == Append(seqs, s)
           n == Len(seqs)
<1>1. /\ longer \in Seq(Seq(S)) /\ Len(longer) = n + 1 /\ n \in Nat
      /\ longer[n + 1] = s /\ \A i \in 1 .. n : longer[i] = seqs[i]
  OBVIOUS
<1> HIDE DEF longer
<1>2. PICK f : Flattened(longer, n + 1, f)
  <2>1. n + 1 \in Nat
    BY <1>1
  <2> QED
    BY <2>1, FlattenedExists, Zenon
<1>3. PICK g : Flattened(seqs, n, g)
  BY <1>1, FlattenedExists, Zenon
<1>4. FlattenSeq(longer) = f[n + 1]
  BY <1>1, <1>2, FlattenSeqValue
<1>5. CASE n = 0
  <2>1. FlattenSeq(seqs) = <<>>
    BY <1>5, FlattenSeqDef
  <2>2. f[n + 1] = s
    BY <1>1, <1>2, <1>5, FlattenedValues
  <2> QED
    BY <1>4, <2>1, <2>2 DEF longer
<1>6. CASE n > 0
  <2>1. FlattenSeq(seqs) = g[n] /\ g[n] \in Seq(S)
    <3>1. n \in 1 .. n /\ n <= n
      BY <1>1, <1>6
    <3>2. FlattenSeq(seqs) = g[n]
      BY <1>3, <1>6, FlattenSeqValue, Zenon
    <3>3. g[n] \in Seq(S)
      BY <1>1, <1>3, <3>1, FlattenedType, Zenon
    <3> QED
      BY <3>2, <3>3
  <2>2. f[n + 1] = f[n] \o s
    <3>1. n + 1 <= n + 1 /\ n + 1 \in Nat
      BY <1>1, <1>6
    <3>2. f[n + 1] = f[n] \o longer[n + 1]
      BY <1>1, <1>2, <1>6, <3>1, FlattenedNext, Zenon
    <3> QED
      BY <1>1, <3>2, Zenon
  <2>3. Flattened(longer, n, g)
    BY <1>1, <1>3 DEF Flattened
  <2>4. g[n] = f[n]
    BY <1>1, <1>2, <1>6, <2>3, FlattenedUnique
  <2> QED
    BY <1>4, <2>1, <2>2, <2>4 DEF longer
<1> QED
  BY <1>1, <1>5, <1>6

\* The first k + 1 elements of a sequence are the first k and the next one.
LEMMA OneMoreElement ==
    ASSUME NEW S, NEW s \in Seq(S), NEW k \in Nat, k < Len(s)
    PROVE  /\ SubSeq(s, 1, k) \in Seq(S) /\ s[k + 1] \in S
           /\ SubSeq(s, 1, k + 1) = Append(SubSeq(s, 1, k), s[k + 1])
<1> DEFINE short == SubSeq(s, 1, k)
           long == SubSeq(s, 1, k + 1)
<1>1. /\ short \in Seq(S) /\ Len(short) = k /\ \A i \in 1 .. k : short[i] = s[i]
      /\ long \in Seq(S) /\ Len(long) = k + 1 /\ \A i \in 1 .. k + 1 : long[i] = s[i]
      /\ s[k + 1] \in S
  OBVIOUS
<1> HIDE DEF short, long
<1>2. /\ Append(short, s[k + 1]) \in Seq(S) /\ Len(Append(short, s[k + 1])) = k + 1
      /\ \A i \in 1 .. k + 1 : Append(short, s[k + 1])[i] = long[i]
  BY <1>1
<1>3. long = Append(short, s[k + 1])
  BY <1>1, <1>2, SeqEqual
<1> QED
  BY <1>1, <1>3 DEF short, long

\* What is flattened of the first sequences is where the whole begins.
LEMMA FlattenBegins ==
    ASSUME NEW S, NEW seqs \in Seq(Seq(S)), NEW k \in 0 .. Len(seqs)
    PROVE  \E t \in Seq(S) : FlattenSeq(seqs) = FlattenSeq(SubSeq(seqs, 1, k)) \o t
<1> DEFINE F(n) == FlattenSeq(SubSeq(seqs, 1, n))
           Reaches(d) == \E t \in Seq(S) : F(k + d) = F(k) \o t
           Good == {d \in Nat : k + d <= Len(seqs) => Reaches(d)}
<1>0. AssociativeOver(S)
  BY Associative, Zenon
<1>1. \A n \in 0 .. Len(seqs) : SubSeq(seqs, 1, n) \in Seq(Seq(S)) /\ F(n) \in Seq(S)
  <2> SUFFICES ASSUME NEW n \in 0 .. Len(seqs)
               PROVE  SubSeq(seqs, 1, n) \in Seq(Seq(S)) /\ F(n) \in Seq(S)
    OBVIOUS
  <2>1. SubSeq(seqs, 1, n) \in Seq(Seq(S)) /\ <<>> \in Seq(S)
    OBVIOUS
  <2> QED
    BY <2>1, FlattenAppend, Zenon
<1>2. ASSUME NEW n \in Nat, n < Len(seqs)
      PROVE  F(n + 1) = F(n) \o seqs[n + 1] /\ seqs[n + 1] \in Seq(S)
  <2>1. /\ SubSeq(seqs, 1, n) \in Seq(Seq(S)) /\ seqs[n + 1] \in Seq(S)
        /\ SubSeq(seqs, 1, n + 1) = Append(SubSeq(seqs, 1, n), seqs[n + 1])
    BY <1>2, OneMoreElement
  <2> QED
    BY <2>1, FlattenAppend, Zenon
<1> HIDE DEF F, Reaches
<1>3. 0 \in Good
  <2>1. F(k) \o <<>> = F(k) /\ <<>> \in Seq(S) /\ k + 0 = k
    BY <1>1
  <2>2. Reaches(0)
    BY <2>1, Zenon DEF Reaches
  <2> QED
    BY <2>2
<1>4. ASSUME NEW d \in Nat, d \in Good PROVE d + 1 \in Good
  <2> SUFFICES ASSUME k + (d + 1) <= Len(seqs)
               PROVE  Reaches(d + 1)
    OBVIOUS
  <2>1. k + d \in Nat /\ k + d < Len(seqs) /\ k + (d + 1) = (k + d) + 1
    OBVIOUS
  <2>2. PICK t \in Seq(S) : F(k + d) = F(k) \o t
    <3>1. Reaches(d)
      BY <1>4, <2>1
    <3> QED
      BY <3>1, Zenon DEF Reaches
  <2> DEFINE s == seqs[(k + d) + 1]
  <2>3. F((k + d) + 1) = F(k + d) \o s /\ s \in Seq(S)
    BY <1>2, <2>1
  <2> HIDE DEF s
  <2> QED
    <3>1. F(k) \in Seq(S)
      BY <1>1
    <3>2. F(k + (d + 1)) = (F(k) \o t) \o s
      BY <2>1, <2>2, <2>3, Zenon
    <3>3. F(k + (d + 1)) = F(k) \o (t \o s) /\ t \o s \in Seq(S)
      BY <1>0, <2>3, <3>1, <3>2, Zenon DEF AssociativeOver
    <3> QED
      BY <3>3, Zenon DEF Reaches
<1>5. \A d \in Nat : d \in Good
  <2> HIDE DEF Good
  <2> QED
    BY <1>3, <1>4, Induction
<1>6. PICK t \in Seq(S) : F(Len(seqs)) = F(k) \o t
  <2>1. Len(seqs) - k \in Nat /\ k + (Len(seqs) - k) = Len(seqs) /\ Len(seqs) <= Len(seqs)
    OBVIOUS
  <2>2. Reaches(Len(seqs) - k)
    BY <1>5, <2>1
  <2> QED
    BY <2>1, <2>2, Zenon DEF Reaches
<1>7. SubSeq(seqs, 1, Len(seqs)) = seqs
  OBVIOUS
<1> QED
  BY <1>6, <1>7 DEF F
=============================================================================
