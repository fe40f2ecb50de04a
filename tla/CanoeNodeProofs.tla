-------------------------- MODULE CanoeNodeProofs --------------------------
(***************************************************************************)
(* Proofs about the CANoe nodes, which keep what is incomplete of a stream *)
(* that comes in pieces: first the text panels, then the sensor of         *)
(* temperatures, for every size of their arrays and however the stream is  *)
(* cut into events.                                                        *)
(*                                                                         *)
(* The panels: cutting strings to the size of their array only takes       *)
(* from the end, so a stored text starts with the old buffer, goes on with *)
(* the new characters, and what it lacks of them is dropped.  And the room *)
(* the rest is moved to is always enough for it.  So every character is    *)
(* shown, dropped or in the buffer (Accounted), and a newline that is      *)
(* stored lies behind the old content, where it is searched for.           *)
(*                                                                         *)
(* The sensor: what is on its way is the end of what was sent              *)
(* (PendingIsRest), and as many bytes are taken as the loop has rounds, so *)
(* the node decodes each value from its own two bytes while none is missed *)
(* (Decoded).                                                              *)
(***************************************************************************)
EXTENDS LineBuffer, TemperatureSensing, SequenceLemmas, TLAPS

\* Every character that came has been shown, has been dropped, or is still in the buffer.
Accounted == 1 .. received \subseteq shown \cup dropped \cup Range(buffer)

IInv == TypeOK /\ Accounted /\ NothingLostInMoving /\ StoredLinesShown

----------------------------------------------------------------------------
(* The string functions. *)

\* The new characters of an event of n.
Added(n) == [i \in 1 .. n |-> received + i]

\* The buffer and the new characters, before they are cut.
Whole(n) == buffer \o Added(n)

\* What strncat leaves in the buffer.
Text(n) == Strncat(buffer, Added(n), InputSize)

\* The type invariant's part of the buffer and the counter.
Typed == received \in Nat /\ buffer \in Seq(1 .. received) /\ Len(buffer) < InputSize

\* The buffer with the new characters behind it, place by place.
LEMMA WholePlaces ==
    ASSUME Typed, NEW n \in Nat \ {0}
    PROVE  /\ Whole(n) \in Seq(1 .. received + n)
           /\ Len(Whole(n)) = Len(buffer) + n
           /\ \A i \in 1 .. Len(buffer) : Whole(n)[i] = buffer[i]
           /\ \A i \in 1 .. n : Whole(n)[Len(buffer) + i] = received + i
  <1>1. /\ Added(n) \in Seq(1 .. received + n) /\ Len(Added(n)) = n
        /\ \A i \in 1 .. n : Added(n)[i] = received + i
    BY DEF Added, Typed
  <1>2. buffer \in Seq(1 .. received + n)
    BY DEF Typed
  <1> QED
    BY <1>1, <1>2 DEF Whole

\* strncat cuts at the end: the text is the beginning of the whole, as long as the array allows.
LEMMA TextPlaces ==
    ASSUME Typed, NEW n \in Nat \ {0}
    PROVE  /\ Text(n) \in Seq(1 .. received + n)
           /\ Len(Text(n)) = IF Len(buffer) + n < InputSize THEN Len(buffer) + n
                                                             ELSE InputSize - 1
           /\ \A i \in 1 .. Len(Text(n)) : Text(n)[i] = Whole(n)[i]
  <1>1. Text(n) = Fit(Whole(n), InputSize)
    BY DEF Text, Strncat, Whole
  <1>2. CASE Len(buffer) + n < InputSize
    BY <1>1, <1>2, WholePlaces DEF Fit
  <1>3. CASE ~(Len(buffer) + n < InputSize)
    <2>1. Text(n) = SubSeq(Whole(n), 1, InputSize - 1)
      BY <1>1, <1>3, WholePlaces DEF Fit
    <2>2. InputSize - 1 \in Nat /\ InputSize - 1 <= Len(Whole(n)) /\ 1 \in Int
      BY <1>3, WholePlaces, SizesAssumption DEF Typed
    <2>3. \A i \in 1 .. InputSize - 1 : Whole(n)[i] \in 1 .. received + n
      <3>1. Whole(n) \in Seq(1 .. received + n)
        BY WholePlaces, Zenon
      <3>2. \A i \in 1 .. Len(Whole(n)) : Whole(n)[i] \in 1 .. received + n
        BY <3>1, ElementOfSeq, Zenon
      <3>3. Len(Whole(n)) \in Nat
        BY <3>1
      <3> QED
        BY <2>2, <3>2, <3>3
    <2>4. /\ Text(n) \in Seq(1 .. received + n)
          /\ Len(Text(n)) = IF 1 <= InputSize - 1 THEN (InputSize - 1) - 1 + 1 ELSE 0
          /\ \A i \in 1 .. (InputSize - 1) - 1 + 1 : Text(n)[i] = Whole(n)[1 + i - 1]
      BY <2>1, <2>2, <2>3, SubSeqProperties
    <2>5. Len(Text(n)) = InputSize - 1
      BY <2>2, <2>4
    <2>6. \A i \in 1 .. Len(Text(n)) : Text(n)[i] = Whole(n)[i]
      BY <2>2, <2>4, <2>5
    <2> QED
      BY <2>4, <2>5, <2>6, <1>3
  <1> QED
    BY <1>2, <1>3

\* The old content is still there, the rest of the text is new.
LEMMA TextParts ==
    ASSUME Typed, NEW n \in Nat \ {0}
    PROVE  /\ Len(Text(n)) \in Nat /\ Len(buffer) <= Len(Text(n)) /\ Len(Text(n)) < InputSize
           /\ Len(Text(n)) <= Len(buffer) + n
           /\ \A i \in 1 .. Len(buffer) : Text(n)[i] = buffer[i]
           /\ \A i \in Len(buffer) + 1 .. Len(Text(n)) :
                Text(n)[i] = received + (i - Len(buffer))
  <1>1. /\ Len(Text(n)) \in Nat /\ Len(buffer) <= Len(Text(n)) /\ Len(Text(n)) < InputSize
        /\ Len(Text(n)) <= Len(buffer) + n /\ Len(buffer) \in Nat
    <2>1. Len(buffer) \in Nat /\ Len(buffer) < InputSize /\ InputSize \in Nat
      BY SizesAssumption DEF Typed
    <2>2. Len(Text(n)) = IF Len(buffer) + n < InputSize THEN Len(buffer) + n
                                                        ELSE InputSize - 1
      BY TextPlaces, Zenon
    <2> DEFINE old == Len(buffer)
               length == Len(Text(n))
    <2> HIDE DEF old, length
    <2>3. /\ old \in Nat /\ old < InputSize /\ InputSize \in Nat
          /\ length = IF old + n < InputSize THEN old + n ELSE InputSize - 1
      BY <2>1, <2>2, Zenon DEF old, length
    <2>4. /\ length \in Nat /\ old <= length /\ length < InputSize /\ length <= old + n
          /\ old \in Nat
      BY <2>3
    <2> QED
      BY <2>4, Zenon DEF old, length
  <1>2. \A i \in 1 .. Len(buffer) : Text(n)[i] = buffer[i]
    BY <1>1, TextPlaces, WholePlaces
  <1>3. ASSUME NEW i \in Len(buffer) + 1 .. Len(Text(n))
        PROVE  Text(n)[i] = received + (i - Len(buffer))
    <2>1. i - Len(buffer) \in 1 .. n /\ i \in 1 .. Len(Text(n))
      BY <1>1
    <2>2. Whole(n)[Len(buffer) + (i - Len(buffer))] = received + (i - Len(buffer))
      BY <2>1, WholePlaces
    <2>3. Len(buffer) + (i - Len(buffer)) = i
      BY <1>1, <2>1
    <2> QED
      BY <2>1, <2>2, <2>3, TextPlaces
  <1> QED
    BY <1>1, <1>2, <1>3

\* What strncat left out is dropped, and if nothing is, the text is the whole.
LEMMA CutIsDropped ==
    ASSUME Typed, NEW n \in Nat \ {0}, Range(Added(n)) \ Range(Text(n)) = {}
    PROVE  Len(Text(n)) = Len(buffer) + n
  <1>1. Added(n)[n] = received + n /\ n \in DOMAIN Added(n)
    BY DEF Added
  <1>2. received + n \in Range(Added(n))
    BY <1>1, Zenon DEF Range
  <1>3. PICK i \in DOMAIN Text(n) : Text(n)[i] = received + n
    BY <1>2 DEF Range
  <1>4. i \in 1 .. Len(Text(n)) /\ Len(buffer) \in Nat /\ received \in Nat
    <2>1. Text(n) \in Seq(1 .. received + n)
      BY TextPlaces, Zenon
    <2> QED
      BY <2>1 DEF Typed
  <1>5. CASE i \in 1 .. Len(buffer)
    <2>1. Text(n)[i] = buffer[i]
      BY <1>5, TextParts, Zenon
    <2>2. buffer[i] \in 1 .. received
      BY <1>5 DEF Typed
    <2> QED
      BY <2>1, <2>2, <1>3, <1>4
  <1>6. CASE i \in Len(buffer) + 1 .. Len(Text(n))
    <2>1. Text(n)[i] = received + (i - Len(buffer))
      BY <1>6, TextParts
    <2>2. i = Len(buffer) + n
      BY <2>1, <1>3, <1>4
    <2> QED
      BY <2>2, <1>4, TextParts
  <1> QED
    BY <1>4, <1>5, <1>6, TextParts

\* strstr_off: 0 only if there is no newline behind the old content.
LEMMA FirstNewlineFound ==
    ASSUME NEW text, NEW from \in Nat, Len(text) \in Nat, NEW breaks
    PROVE  /\ FirstNewline(text, from, breaks) = 0 =>
                \A i \in from + 1 .. Len(text) : text[i] \notin breaks
           /\ FirstNewline(text, from, breaks) # 0 =>
                FirstNewline(text, from, breaks) \in from + 1 .. Len(text)
  <1> DEFINE places == {i \in from + 1 .. Len(text) : text[i] \in breaks}
             Less == OpToRel(<, Nat)
  <1>1. CASE places = {}
    <2>1. FirstNewline(text, from, breaks) = 0
      BY <1>1, Zenon DEF FirstNewline
    <2> QED
      BY <1>1, <2>1
  <1>2. CASE places # {}
    <2>1. places \subseteq Nat /\ places # {}
      BY <1>2
    <2>2. PICK i \in places : \A j \in places : ~(<<j, i>> \in Less)
      <3> HIDE DEF places
      <3> QED
        BY <2>1, WFMin, NatLessThanWellFounded, Zenon
    <2>3. \A j \in places : i <= j
      <3> SUFFICES ASSUME NEW j \in places PROVE i <= j
        OBVIOUS
      <3>1. i \in Nat /\ j \in Nat
        BY <2>1
      <3>2. ~(j < i)
        BY <3>1, <2>2 DEF OpToRel
      <3> HIDE DEF places, Less
      <3> QED
        BY <3>1, <3>2
    <2>4. FirstNewline(text, from, breaks) = CHOOSE k \in places : \A j \in places : k <= j
      BY <1>2, Zenon DEF FirstNewline
    <2>5. FirstNewline(text, from, breaks) \in places
      BY <2>3, <2>4, Zenon
    <2>6. 0 \notin places
      OBVIOUS
    <2> QED
      BY <2>5, <2>6
  <1> QED
    BY <1>1, <1>2

\* The room left behind the newline is enough for all that is moved there.
LEMMA RestFits ==
    ASSUME Typed, NEW n \in Nat \ {0}, NEW place \in Len(buffer) + 1 .. Len(Text(n))
    PROVE  /\ Behind(Text(n), place) \in Seq(1 .. received + n)
           /\ Len(Behind(Text(n), place)) = Len(Text(n)) - place
           /\ \A i \in 1 .. Len(Text(n)) - place :
                Behind(Text(n), place)[i] = Text(n)[place + i]
  <1> DEFINE rest == SubSeq(Text(n), place + 1, Len(Text(n)))
  <1>1. /\ Len(Text(n)) \in Nat /\ Len(buffer) \in Nat /\ Len(Text(n)) < InputSize
        /\ place \in Nat \ {0} /\ place <= Len(Text(n)) /\ InputSize \in Nat
    BY TextParts, SizesAssumption DEF Typed
  <1>2. \A i \in place + 1 .. Len(Text(n)) : Text(n)[i] \in 1 .. received + n
    <2>1. Text(n) \in Seq(1 .. received + n)
      BY TextPlaces, Zenon
    <2>2. \A i \in 1 .. Len(Text(n)) : Text(n)[i] \in 1 .. received + n
      BY <2>1, ElementOfSeq, Zenon
    <2> QED
      BY <1>1, <2>2
  <1>3. /\ rest \in Seq(1 .. received + n)
        /\ Len(rest) = IF place + 1 <= Len(Text(n)) THEN Len(Text(n)) - (place + 1) + 1 ELSE 0
        /\ \A i \in 1 .. Len(Text(n)) - (place + 1) + 1 : rest[i] = Text(n)[(place + 1) + i - 1]
    BY <1>1, <1>2, SubSeqProperties
  <1>4. Len(rest) = Len(Text(n)) - place
    BY <1>1, <1>3
  <1>5. \A i \in 1 .. Len(Text(n)) - place : rest[i] = Text(n)[place + i]
    BY <1>1, <1>3
  <1>6. Behind(Text(n), place) = Fit(rest, InputSize - place)
    BY DEF Behind, SubstrCpy
  <1>7. Len(rest) < InputSize - place
    BY <1>1, <1>4
  <1>8. Behind(Text(n), place) = rest
    BY <1>6, <1>7, Zenon DEF Fit
  <1> QED
    BY <1>3, <1>4, <1>5, <1>8


----------------------------------------------------------------------------
(* One event. *)

\* What the handler does, in two cases: it finds no newline, or one behind the old content.
LEMMA EventCases ==
    ASSUME Typed, NEW n \in Nat \ {0}, NEW breaks, FromChardev(n, breaks)
    PROVE  /\ received' = received + n /\ newlines' = newlines \cup breaks
           /\ dropped' = dropped \cup (Range(Added(n)) \ Range(Text(n)))
           /\ UNCHANGED toChardev
           /\ \/ /\ \A i \in Len(buffer) + 1 .. Len(Text(n)) : Text(n)[i] \notin breaks
                 /\ buffer' = Text(n) /\ UNCHANGED <<textReceived, shown>>
              \/ \E place \in Len(buffer) + 1 .. Len(Text(n)) :
                    /\ buffer' = Behind(Text(n), place)
                    /\ textReceived' = Text(n) /\ shown' = shown \cup Range(Text(n))
  <1> DEFINE place == FirstNewline(Text(n), Len(buffer), breaks)
  <1>1. /\ received' = received + n /\ newlines' = newlines \cup breaks
        /\ dropped' = dropped \cup (Range(Added(n)) \ Range(Text(n)))
        /\ UNCHANGED toChardev
        /\ IF place = 0
           THEN buffer' = Text(n) /\ UNCHANGED <<textReceived, shown>>
           ELSE /\ textReceived' = Text(n) /\ shown' = shown \cup Range(Text(n))
                /\ buffer' = Behind(Text(n), place)
    BY Zenon DEF FromChardev, Text, Added
  <1>2. Len(buffer) \in Nat /\ Len(Text(n)) \in Nat
    <2>1. Len(buffer) \in Nat
      BY DEF Typed
    <2> QED
      BY <2>1, TextParts
  <1>3. /\ place = 0 => \A i \in Len(buffer) + 1 .. Len(Text(n)) : Text(n)[i] \notin breaks
        /\ place # 0 => place \in Len(buffer) + 1 .. Len(Text(n))
    BY <1>2, FirstNewlineFound, Zenon
  <1> HIDE DEF place
  <1> QED
    BY <1>1, <1>3, Zenon

\* Which characters these are.
LEMMA Contents ==
    ASSUME Typed, NEW n \in Nat \ {0}
    PROVE  /\ Range(Added(n)) = received + 1 .. received + n
           /\ Range(Text(n)) \subseteq 1 .. received + n
           /\ Range(buffer) \subseteq Range(Text(n))
           /\ \A c \in Range(Text(n)) : c > received =>
                \E i \in Len(buffer) + 1 .. Len(Text(n)) : Text(n)[i] = c
  <1>1. /\ received \in Nat /\ Len(buffer) \in Nat /\ DOMAIN buffer = 1 .. Len(buffer)
        /\ \A i \in 1 .. Len(buffer) : buffer[i] \in 1 .. received
    BY DEF Typed
  <1>2. Range(Added(n)) = received + 1 .. received + n
    <2>1. Range(Added(n)) = {received + i : i \in 1 .. n}
      BY DEF Range, Added
    <2>2. ASSUME NEW c \in received + 1 .. received + n PROVE c \in {received + i : i \in 1 .. n}
      <3>1. c - received \in 1 .. n /\ received + (c - received) = c
        BY <1>1
      <3> QED
        BY <3>1, Zenon
    <2> QED
      BY <1>1, <2>1, <2>2
  <1>3. /\ DOMAIN Text(n) = 1 .. Len(Text(n)) /\ Len(Text(n)) \in Nat
        /\ \A i \in 1 .. Len(Text(n)) : Text(n)[i] \in 1 .. received + n
    <2>1. Text(n) \in Seq(1 .. received + n)
      BY TextPlaces, Zenon
    <2>2. DOMAIN Text(n) = 1 .. Len(Text(n)) /\ Len(Text(n)) \in Nat
      BY <2>1
    <2> QED
      BY <2>1, <2>2, ElementOfSeq, Zenon
  <1>4. Range(Text(n)) \subseteq 1 .. received + n
    BY <1>3, Zenon DEF Range
  <1>5. Range(buffer) \subseteq Range(Text(n))
    <2> SUFFICES ASSUME NEW i \in 1 .. Len(buffer) PROVE buffer[i] \in Range(Text(n))
      BY <1>1, Zenon DEF Range
    <2>1. i \in DOMAIN Text(n)
      <3>1. Len(buffer) <= Len(Text(n))
        BY TextParts, Zenon
      <3> QED
        BY <1>1, <1>3, <3>1
    <2>2. Text(n)[i] = buffer[i]
      BY TextParts, Zenon
    <2> QED
      BY <2>1, <2>2, Zenon DEF Range
  <1>6. ASSUME NEW c \in Range(Text(n)), c > received
        PROVE  \E i \in Len(buffer) + 1 .. Len(Text(n)) : Text(n)[i] = c
    <2>1. PICK i \in 1 .. Len(Text(n)) : Text(n)[i] = c
      BY <1>3, Zenon DEF Range
    <2>2. ASSUME i \in 1 .. Len(buffer) PROVE FALSE
      <3>1. c \in 1 .. received
        BY <1>1, <2>1, <2>2, TextParts, Zenon
      <3> QED
        BY <1>1, <1>6, <3>1
    <2>3. i \in Len(buffer) + 1 .. Len(Text(n))
      BY <1>1, <1>3, <2>2
    <2> QED
      BY <2>1, <2>3, Zenon
  <1> QED
    BY <1>2, <1>4, <1>5, <1>6, Zenon

\* The type invariant gives the hypothesis of these lemmas.
LEMMA TypedByType == TypeOK => Typed
  BY DEF TypeOK, Typed

\* An event keeps every string within its array.
LEMMA EventTyped ==
    ASSUME TypeOK, NEW n \in Nat \ {0}, NEW breaks \in SUBSET (received + 1 .. received + n),
           received + n <= MaxReceived, FromChardev(n, breaks)
    PROVE  TypeOK'
  <1>1. Typed
    BY TypedByType
  <1> DEFINE all == 1 .. received + n
  <1>2. /\ received' = received + n /\ newlines' = newlines \cup breaks
        /\ dropped' = dropped \cup (Range(Added(n)) \ Range(Text(n))) /\ UNCHANGED toChardev
    BY <1>1, EventCases, Zenon
  <1>3. received \in Nat /\ MaxReceived \in Nat /\ received' \in 0 .. MaxReceived
    BY <1>2, BoundsAssumption DEF TypeOK
  <1>4. 1 .. received \subseteq all /\ received + 1 .. received + n \subseteq all
    BY <1>3
  <1>5. newlines' \subseteq all
    BY <1>2, <1>4 DEF TypeOK
  <1>6. dropped' \subseteq all
    BY <1>1, <1>2, <1>4, Contents DEF TypeOK
  <1>7. /\ Text(n) \in Seq(all) /\ Len(Text(n)) < InputSize /\ Range(Text(n)) \subseteq all
        /\ Len(Text(n)) \in Nat
    BY <1>1, TextPlaces, TextParts, Contents, Zenon
  <1>8. textReceived \in Seq(all) /\ Len(textReceived) < InputSize /\ shown \subseteq all
    BY <1>4 DEF TypeOK
  <1>9. /\ buffer' \in Seq(all) /\ Len(buffer') < InputSize
        /\ textReceived' \in Seq(all) /\ Len(textReceived') < InputSize /\ shown' \subseteq all
    <2>1. CASE buffer' = Text(n) /\ UNCHANGED <<textReceived, shown>>
      BY <1>7, <1>8, <2>1
    <2>2. CASE \E place \in Len(buffer) + 1 .. Len(Text(n)) :
                  /\ buffer' = Behind(Text(n), place)
                  /\ textReceived' = Text(n) /\ shown' = shown \cup Range(Text(n))
      <3>1. PICK place \in Len(buffer) + 1 .. Len(Text(n)) :
                  /\ buffer' = Behind(Text(n), place)
                  /\ textReceived' = Text(n) /\ shown' = shown \cup Range(Text(n))
        BY <2>2, Zenon
      <3>2. /\ Behind(Text(n), place) \in Seq(all)
            /\ Len(Behind(Text(n), place)) = Len(Text(n)) - place
        BY <1>1, RestFits, Zenon
      <3>3. place \in Nat /\ InputSize \in Nat
        BY SizesAssumption DEF TypeOK
      <3>4. Len(Text(n)) - place < InputSize
        BY <1>7, <3>3
      <3> QED
        BY <1>7, <1>8, <3>1, <3>2, <3>4, Zenon
    <2> QED
      BY <1>1, EventCases, <2>1, <2>2, Zenon
  <1>10. toChardev'.length < OutputSize /\ toChardev'.line
    BY <1>2 DEF TypeOK
  <1> QED
    BY <1>2, <1>3, <1>5, <1>6, <1>9, <1>10, Zenon DEF TypeOK

\* Nothing that came goes missing in an event.
LEMMA EventAccounted ==
    ASSUME TypeOK, Accounted, NEW n \in Nat \ {0}, NEW breaks, FromChardev(n, breaks)
    PROVE  Accounted' /\ shown \subseteq shown' /\ Range(Text(n)) \subseteq shown' \cup Range(buffer')
  <1>1. Typed
    BY TypedByType
  <1>2. /\ received' = received + n
        /\ dropped' = dropped \cup (Range(Added(n)) \ Range(Text(n)))
    BY <1>1, EventCases, Zenon
  <1>3. shown \subseteq shown' /\ Range(Text(n)) \subseteq shown' \cup Range(buffer')
    BY <1>1, EventCases
  <1>4. /\ Range(Added(n)) = received + 1 .. received + n
        /\ Range(buffer) \subseteq Range(Text(n)) /\ received \in Nat
    BY <1>1, Contents DEF Typed
  <1>5. ASSUME NEW c \in 1 .. received + n PROVE c \in shown' \cup dropped' \cup Range(buffer')
    <2>1. CASE c \in 1 .. received
      BY <1>2, <1>3, <1>4, <2>1 DEF Accounted
    <2>2. CASE c \in received + 1 .. received + n
      BY <1>2, <1>3, <1>4, <2>2
    <2> QED
      BY <1>4, <2>1, <2>2
  <1> QED
    BY <1>2, <1>3, <1>5 DEF Accounted

\* As long as everything has fitted, the text goes on where the buffer ended.
LEMMA TextContiguous ==
    ASSUME Typed, NEW n \in Nat \ {0}, Contiguous(buffer), buffer # <<>> => Last(buffer) = received,
           Len(Text(n)) = Len(buffer) + n
    PROVE  Contiguous(Text(n)) /\ Text(n)[Len(Text(n))] = received + n
  <1>1. /\ received \in Nat /\ Len(buffer) \in Nat
        /\ \A i \in 1 .. Len(buffer) : buffer[i] \in Nat
        /\ Len(buffer) # 0 => buffer # <<>>
    BY DEF Typed
  <1>2. /\ \A i \in 1 .. Len(buffer) : Text(n)[i] = buffer[i]
        /\ \A i \in Len(buffer) + 1 .. Len(buffer) + n : Text(n)[i] = received + (i - Len(buffer))
    BY TextParts
  <1>3. ASSUME NEW i \in 2 .. Len(buffer) + n PROVE Text(n)[i] = Text(n)[i - 1] + 1
    <2>1. CASE i <= Len(buffer)
      <3>1. i \in 1 .. Len(buffer) /\ i - 1 \in 1 .. Len(buffer) /\ i \in 2 .. Len(buffer)
        BY <1>1, <2>1
      <3>2. buffer[i] = buffer[i - 1] + 1
        BY <3>1 DEF Contiguous
      <3> QED
        BY <1>2, <3>1, <3>2
    <2>2. CASE i = Len(buffer) + 1
      <3>1. i - 1 = Len(buffer) /\ i - 1 \in 1 .. Len(buffer)
            /\ i \in Len(buffer) + 1 .. Len(buffer) + n
        BY <1>1, <2>2
      <3>2. Text(n)[i - 1] = received
        BY <1>1, <1>2, <3>1 DEF Last
      <3>3. Text(n)[i] = received + 1
        BY <1>1, <1>2, <2>2, <3>1
      <3> QED
        BY <3>2, <3>3
    <2>3. CASE i > Len(buffer) + 1
      <3>1. /\ i \in Len(buffer) + 1 .. Len(buffer) + n
            /\ i - 1 \in Len(buffer) + 1 .. Len(buffer) + n
        BY <1>1, <2>3
      <3>2. /\ Text(n)[i] = received + (i - Len(buffer))
            /\ Text(n)[i - 1] = received + ((i - 1) - Len(buffer))
        BY <1>2, <3>1
      <3> QED
        BY <1>1, <3>2
    <2> QED
      BY <1>1, <2>1, <2>2, <2>3
  <1>4. Text(n)[Len(buffer) + n] = received + n
    <2>1. Len(buffer) + n \in Len(buffer) + 1 .. Len(buffer) + n
      BY <1>1
    <2>2. Text(n)[Len(buffer) + n] = received + ((Len(buffer) + n) - Len(buffer))
      BY <1>2, <2>1
    <2> QED
      BY <1>1, <2>2
  <1> QED
    BY <1>3, <1>4 DEF Contiguous


\* Nor has what is left behind the newline a gap, and its end is the text's.
LEMMA RestContiguous ==
    ASSUME Typed, NEW n \in Nat \ {0}, NEW place \in Len(buffer) + 1 .. Len(Text(n)),
           Contiguous(Text(n))
    PROVE  /\ Contiguous(Behind(Text(n), place))
           /\ Behind(Text(n), place) # <<>> =>
                Last(Behind(Text(n), place)) = Text(n)[Len(Text(n))]
  <1> DEFINE rest == Behind(Text(n), place)
  <1>1. /\ Len(Text(n)) \in Nat /\ place \in Nat /\ place <= Len(Text(n)) /\ place >= 1
    BY TextParts DEF Typed
  <1>2. /\ rest \in Seq(1 .. received + n) /\ Len(rest) = Len(Text(n)) - place
        /\ \A i \in 1 .. Len(Text(n)) - place : rest[i] = Text(n)[place + i]
    BY RestFits, Zenon
  <1>3. rest # <<>> => Len(rest) # 0
    BY <1>2
  <1> HIDE DEF rest
  <1>4. ASSUME NEW i \in 2 .. Len(rest) PROVE rest[i] = rest[i - 1] + 1
    <2>1. /\ i \in 1 .. Len(Text(n)) - place /\ i - 1 \in 1 .. Len(Text(n)) - place
          /\ place + i \in 2 .. Len(Text(n)) /\ place + (i - 1) = (place + i) - 1
      BY <1>1, <1>2
    <2>2. Text(n)[place + i] = Text(n)[(place + i) - 1] + 1
      BY <2>1, Zenon DEF Contiguous
    <2> QED
      BY <1>2, <2>1, <2>2, Zenon
  <1>5. ASSUME rest # <<>> PROVE Last(rest) = Text(n)[Len(Text(n))]
    <2>1. /\ Len(rest) \in 1 .. Len(Text(n)) - place /\ place + Len(rest) = Len(Text(n))
      BY <1>1, <1>2, <1>3, <1>5
    <2> QED
      BY <1>2, <2>1, Zenon DEF Last
  <1> QED
    BY <1>4, <1>5, Zenon DEF Contiguous, rest

\* An event loses nothing in moving.
LEMMA EventLosesNothing ==
    ASSUME IInv, NEW n \in Nat \ {0}, NEW breaks, FromChardev(n, breaks), Accounted'
    PROVE  NothingLostInMoving'
  <1>0. Typed
    BY TypedByType DEF IInv
  <1> SUFFICES ASSUME dropped' = {}
               PROVE  /\ Contiguous(buffer') /\ Contiguous(textReceived')
                      /\ buffer' # <<>> => Last(buffer') = received'
                      /\ \A c \in 1 .. received' : c \in shown' \cup Range(buffer')
    BY Zenon DEF NothingLostInMoving, Contiguous
  <1>1. /\ received' = received + n
        /\ dropped' = dropped \cup (Range(Added(n)) \ Range(Text(n)))
    BY <1>0, EventCases, Zenon
  <1>2. dropped = {} /\ Range(Added(n)) \ Range(Text(n)) = {}
    BY <1>1
  <1>3. /\ Contiguous(buffer) /\ Contiguous(textReceived)
        /\ buffer # <<>> => Last(buffer) = received
    BY <1>2, Zenon DEF IInv, NothingLostInMoving
  <1>4. Len(Text(n)) = Len(buffer) + n
    BY <1>0, <1>2, CutIsDropped, Zenon
  <1>5. Contiguous(Text(n)) /\ Text(n)[Len(Text(n))] = received + n
    BY <1>0, <1>3, <1>4, TextContiguous, Zenon
  <1>6. /\ Contiguous(buffer') /\ Contiguous(textReceived')
        /\ buffer' # <<>> => Last(buffer') = received'
    <2>1. CASE buffer' = Text(n) /\ UNCHANGED <<textReceived, shown>>
      BY <1>1, <1>3, <1>5, <2>1, Zenon DEF Last
    <2>2. CASE \E place \in Len(buffer) + 1 .. Len(Text(n)) :
                  /\ buffer' = Behind(Text(n), place)
                  /\ textReceived' = Text(n) /\ shown' = shown \cup Range(Text(n))
      BY <1>0, <1>1, <1>5, <2>2, RestContiguous, Zenon
    <2> QED
      BY <1>0, EventCases, <2>1, <2>2, Zenon
  <1>7. \A c \in 1 .. received' : c \in shown' \cup Range(buffer')
    BY DEF Accounted
  <1> QED
    BY <1>6, <1>7

\* A line that is stored is shown in the same event.
LEMMA EventShows ==
    ASSUME IInv, NEW n \in Nat \ {0}, NEW breaks \in SUBSET (received + 1 .. received + n),
           FromChardev(n, breaks), Accounted'
    PROVE  StoredLinesShown'
  <1>0. Typed /\ received \in Nat
    BY TypedByType DEF IInv, Typed
  <1>1. /\ received' = received + n /\ newlines' = newlines \cup breaks
        /\ dropped' = dropped \cup (Range(Added(n)) \ Range(Text(n)))
    BY <1>0, EventCases, Zenon
  <1>2. shown \subseteq shown' /\ dropped \subseteq dropped'
    BY <1>0, <1>1, EventCases
  <1> SUFFICES ASSUME NEW c \in newlines' \ dropped', NEW d \in 1 .. c
               PROVE  d \in shown' \cup dropped'
    BY Zenon DEF StoredLinesShown
  <1>3. CASE c \in newlines
    <2>1. c \in newlines \ dropped
      BY <1>2, <1>3
    <2> QED
      BY <1>2, <2>1 DEF IInv, StoredLinesShown
  <1>4. CASE c \in breaks
    <2>1. c \in Range(Added(n))
      BY <1>0, <1>4, Contents
    <2>2. c \in Range(Text(n)) /\ c > received
      BY <1>0, <1>1, <1>4, <2>1
    <2>3. PICK i \in Len(buffer) + 1 .. Len(Text(n)) : Text(n)[i] = c
      BY <1>0, <2>2, Contents, Zenon
    <2>4. ~\A j \in Len(buffer) + 1 .. Len(Text(n)) : Text(n)[j] \notin breaks
      BY <1>4, <2>3, Zenon
    <2>5. shown' = shown \cup Range(Text(n))
      BY <1>0, <2>4, EventCases, Zenon
    <2>6. Range(buffer) \subseteq Range(Text(n)) /\ Range(Added(n)) = received + 1 .. received + n
      BY <1>0, Contents, Zenon
    <2>7. CASE d \in 1 .. received
      BY <1>2, <2>5, <2>6, <2>7 DEF IInv, Accounted
    <2>8. CASE d \in received + 1 .. received + n
      BY <1>1, <2>5, <2>6, <2>8
    <2> QED
      BY <1>0, <1>4, <2>7, <2>8
  <1> QED
    BY <1>1, <1>3, <1>4

----------------------------------------------------------------------------
\* The empty panel.
LEMMA InitInv == Init => IInv
  <1> SUFFICES ASSUME Init PROVE IInv
    OBVIOUS
  <1>1. TypeOK
    BY SizesAssumption, BoundsAssumption DEF Init, TypeOK
  <1>2. Accounted /\ NothingLostInMoving /\ StoredLinesShown
    BY DEF Init, Accounted, NothingLostInMoving, StoredLinesShown, Contiguous
  <1> QED
    BY <1>1, <1>2 DEF IInv

\* Typing and sending a text changes nothing of what has been received.
LEMMA TextSent ==
    ASSUME IInv, NEW length \in TextLengths, SendRequested(length)
    PROVE  IInv'
  <1>1. UNCHANGED <<received, newlines, buffer, textReceived, shown, dropped>>
    BY DEF SendRequested
  <1>2. TextLength(length) \in Nat /\ TextLength(length) + 1 < OutputSize
    BY SizesAssumption, BoundsAssumption DEF TextLength
  <1>3. toChardev' = [length |-> TextLength(length), line |-> TextLength(length) + 1 < OutputSize]
    BY Zenon DEF SendRequested
  <1>4. toChardev'.length = TextLength(length) /\ toChardev'.line = (TextLength(length) + 1 < OutputSize)
    BY <1>3
  <1>5. toChardev'.length < OutputSize
    BY <1>2, <1>4, SizesAssumption
  <1>6. toChardev'.line
    BY <1>2, <1>4, Zenon
  <1>7. TypeOK'
    BY <1>1, <1>5, <1>6, Zenon DEF IInv, TypeOK
  <1> QED
    BY <1>1, <1>7, Zenon DEF IInv, Accounted, NothingLostInMoving, StoredLinesShown, Contiguous

\* Every step keeps the invariant.
LEMMA NextInv == IInv /\ [Next]_vars => IInv'
  <1> SUFFICES ASSUME IInv, [Next]_vars PROVE IInv'
    OBVIOUS
  <1>1. ASSUME NEW length \in TextLengths, SendRequested(length) PROVE IInv'
    BY <1>1, TextSent
  <1>2. ASSUME NEW n \in 1 .. MaxEvent, received + n <= MaxReceived,
               NEW breaks \in SUBSET (received + 1 .. received + n), FromChardev(n, breaks)
        PROVE  IInv'
    <2>1. n \in Nat \ {0}
      BY BoundsAssumption
    <2>2. TypeOK'
      BY <1>2, <2>1, EventTyped, Zenon DEF IInv
    <2>3. Accounted'
      BY <1>2, <2>1, EventAccounted, Zenon DEF IInv
    <2>4. NothingLostInMoving' /\ StoredLinesShown'
      BY <1>2, <2>1, <2>3, EventLosesNothing, EventShows, Zenon
    <2> QED
      BY <2>2, <2>3, <2>4, Zenon DEF IInv
  <1>3. CASE UNCHANGED vars
    BY <1>3, Zenon DEF vars, IInv, TypeOK, Accounted, NothingLostInMoving, StoredLinesShown,
                       Contiguous
  <1> QED
    BY <1>1, <1>2, <1>3, Zenon DEF Next

\* The inductive invariant holds in every state of every panel.
THEOREM Invariance == Spec => []IInv
  BY InitInv, NextInv, PTL DEF Spec

\* Every string ends within its array, and a text that is sent always ends with a newline.
THEOREM TypeCorrect == Spec => []TypeOK
  <1>1. IInv => TypeOK
    BY DEF IInv
  <1> QED
    BY <1>1, Invariance, PTL

\* Moving the rest of the buffer to its front loses nothing and keeps the order.
THEOREM MovingLosesNothing == Spec => []NothingLostInMoving
  <1>1. IInv => NothingLostInMoving
    BY DEF IInv
  <1> QED
    BY <1>1, Invariance, PTL

\* A line that has got into the buffer is shown with all that is there of what came before it.
THEOREM LinesShownWhenStored == Spec => []StoredLinesShown
  <1>1. IInv => StoredLinesShown
    BY DEF IInv
  <1> QED
    BY <1>1, Invariance, PTL

\* A full buffer never empties again, and its panel shows the same for ever.
THEOREM FullStaysFull == Spec => FullForEver
  <1>1. ASSUME IInv, [Next]_vars, Len(buffer) = InputSize - 1
        PROVE  UNCHANGED <<buffer, textReceived>>
    <2>0. Typed
      BY <1>1, TypedByType DEF IInv
    <2>1. ASSUME NEW length \in TextLengths, SendRequested(length)
          PROVE  UNCHANGED <<buffer, textReceived>>
      BY <2>1 DEF SendRequested
    <2>2. ASSUME NEW n \in 1 .. MaxEvent, NEW breaks, FromChardev(n, breaks)
          PROVE  UNCHANGED <<buffer, textReceived>>
      <3>1. n \in Nat \ {0}
        BY BoundsAssumption
      <3>2. /\ buffer \in Seq(1 .. received + n) /\ Text(n) \in Seq(1 .. received + n)
            /\ Len(buffer) \in Nat /\ InputSize \in Nat
        <4>1. buffer \in Seq(1 .. received + n) /\ Len(buffer) \in Nat /\ InputSize \in Nat
          BY <2>0, <3>1, SizesAssumption DEF Typed
        <4> QED
          BY <2>0, <3>1, <4>1, TextPlaces, Zenon
      <3>3. Len(Text(n)) = Len(buffer)
        <4>1. Len(Text(n)) \in Nat /\ Len(buffer) <= Len(Text(n)) /\ Len(Text(n)) < InputSize
          BY <2>0, <3>1, TextParts, Zenon
        <4> QED
          BY <1>1, <3>2, <4>1
      <3>4. Text(n) = buffer
        <4>1. \A i \in 1 .. Len(buffer) : Text(n)[i] = buffer[i]
          BY <2>0, <3>1, TextParts, Zenon
        <4> QED
          BY <3>2, <3>3, <4>1, SameElements, Zenon
      <3>5. ~\E place \in Len(buffer) + 1 .. Len(Text(n)) : TRUE
        BY <3>2, <3>3
      <3> QED
        BY <2>0, <2>2, <3>1, <3>4, <3>5, EventCases, Zenon
    <2>3. CASE UNCHANGED vars
      BY <2>3 DEF vars
    <2> QED
      BY <1>1, <2>1, <2>2, <2>3, Zenon DEF Next
  <1>2. IInv /\ [Next]_vars => [Len(buffer) = InputSize - 1 => UNCHANGED <<buffer, textReceived>>]_vars
    BY <1>1
  <1> QED
    BY <1>2, Invariance, PTL DEF Spec, FullForEver

----------------------------------------------------------------------------
(* The temperatures. *)

\* What a byte of the stream is.
StreamByte == 0 .. ByteBase - 1

\* What the loop of an event goes on with.
Nodes == [arrayState : {"Complete", "Incomplete"}, inBuffer : StreamByte, temperatures : Seq(Int)]

\* How many bytes a node has taken: two for each temperature, and the half it keeps.
TakenBy(node) == 2 * Len(node.temperatures) + (IF node.arrayState = "Incomplete" THEN 1 ELSE 0)

(***************************************************************************)
(* A node that has taken the stream from its start: each temperature is of *)
(* the value in its place, and the half it keeps is of the next value.     *)
(***************************************************************************)
Decoded(node) ==
    /\ \A i \in 1 .. Len(node.temperatures) :
        node.temperatures[i] = Temperature(sent[i] % ByteBase, sent[i] \div ByteBase)
    /\ node.arrayState = "Incomplete"
        => node.inBuffer = sent[Len(node.temperatures) + 1] % ByteBase

SensorTyped ==
    /\ sent \in Seq(Values) /\ pending \in Seq(StreamByte)
    /\ started \in BOOLEAN /\ missed \in Nat
    /\ Node \in Nodes
    /\ ~started => arrayState = "Complete"

\* How many bytes of what was sent are no longer on their way.
Gone == 2 * Len(sent) - Len(pending)

\* What is on its way is the end of what was sent, byte by byte.
PendingIsRest ==
    \A i \in 1 .. Len(sent), p \in 1 .. Len(pending) :
        /\ Gone + p = 2 * i - 1 => pending[p] = sent[i] % ByteBase
        /\ Gone + p = 2 * i => pending[p] = sent[i] \div ByteBase

SensorInv ==
    /\ SensorTyped /\ BytesAccounted /\ PendingIsRest
    /\ missed = 0 => Decoded(Node)

\* Places of values and places of their bytes.
LEMMA Places ==
    ASSUME NEW value \in Nat, NEW byte \in Int, NEW count \in Nat
    PROVE  /\ 2 * value = byte => 2 * (value + 1) - 1 = byte + 1
           /\ 2 * value + 1 = byte => 2 * (value + 1) = byte + 1
           /\ 2 * value = byte /\ byte + 1 <= 2 * count => value + 1 <= count
           /\ 2 * value + 1 = byte /\ byte + 1 <= 2 * count => value + 1 <= count
           /\ byte > 2 * value => byte # 2 * value - 1 /\ byte # 2 * value
  OBVIOUS

\* What a node has taken, by its state.
LEMMA TakenByState ==
    ASSUME NEW node \in Nodes
    PROVE  /\ Len(node.temperatures) \in Nat /\ TakenBy(node) \in Nat
           /\ node.arrayState \in {"Complete", "Incomplete"}
           /\ node.arrayState = "Complete" => TakenBy(node) = 2 * Len(node.temperatures)
           /\ node.arrayState = "Incomplete" => TakenBy(node) = 2 * Len(node.temperatures) + 1
<1>1. node.temperatures \in Seq(Int) /\ node.arrayState \in {"Complete", "Incomplete"}
  BY DEF Nodes
<1>2. Len(node.temperatures) \in Nat
  BY <1>1
<1>3. CASE node.arrayState = "Complete"
  <2>1. TakenBy(node) = 2 * Len(node.temperatures) + 0
    BY <1>3 DEF TakenBy
  <2> QED
    BY <1>2, <1>3, <2>1
<1>4. CASE node.arrayState = "Incomplete"
  <2>1. TakenBy(node) = 2 * Len(node.temperatures) + 1
    BY <1>4 DEF TakenBy
  <2> QED
    BY <1>2, <1>4, <2>1
<1> QED
  BY <1>1, <1>3, <1>4

\* What is sent is taken by the node, on its way or missed: BytesAccounted in these words.
LEMMA AccountedByTaken == BytesAccounted <=> 2 * Len(sent) = TakenBy(Node) + Len(pending) + missed
<1>1. Node.temperatures = temperatures /\ Node.arrayState = arrayState
  BY DEF Node
<1> QED
  BY <1>1 DEF BytesAccounted, TakenBy

\* The two bytes of a value are bytes, and the value is put together from them.
LEMMA ValueBytes ==
    ASSUME NEW value \in Values
    PROVE  /\ value \in Nat /\ value < ByteBase * ByteBase
           /\ value % ByteBase \in StreamByte /\ value \div ByteBase \in StreamByte
           /\ (value % ByteBase) + ByteBase * (value \div ByteBase) = value
<1>1. ByteBase \in Nat \ {0} /\ ByteBase * ByteBase \in Nat
  BY ByteBaseAssumption
<1>2. value \in 0 .. ByteBase * ByteBase - 1
  BY ValuesAssumption
<1>3. value \in Nat /\ value < ByteBase * ByteBase
  <2> DEFINE words == ByteBase * ByteBase
  <2>1. words \in Nat /\ value \in 0 .. words - 1
    BY <1>1, <1>2
  <2> HIDE DEF words
  <2>2. value \in Nat /\ value < words
    BY <2>1
  <2> QED
    BY <2>2 DEF words
<1>4. /\ value \div ByteBase \in Nat /\ value % ByteBase \in 0 .. ByteBase - 1
      /\ value = (value \div ByteBase) * ByteBase + (value % ByteBase)
  BY <1>1, <1>3, Remainder
<1>5. value \div ByteBase < ByteBase
  BY <1>1, <1>3, QuotientBound
<1> DEFINE high == value \div ByteBase
           low == value % ByteBase
<1>6. high \in Nat /\ low \in Nat /\ high < ByteBase /\ value = high * ByteBase + low
  BY <1>1, <1>4, <1>5
<1> HIDE DEF high, low
<1>7. low + ByteBase * high = value /\ high \in 0 .. ByteBase - 1
  BY <1>1, <1>6
<1> QED
  BY <1>3, <1>4, <1>7 DEF high, low, StreamByte

\* A temperature is a number.
LEMMA TemperatureIsInt ==
    \A first, second \in StreamByte : Temperature(first, second) \in Int
<1> SUFFICES ASSUME NEW first \in StreamByte, NEW second \in StreamByte
             PROVE  Temperature(first, second) \in Int
  OBVIOUS
<1> DEFINE words == ByteBase * ByteBase
           number == first + ByteBase * second
<1>1. words \in Nat \ {0} /\ number \in Nat
  <2>1. ByteBase \in Nat /\ ByteBase > 1 /\ first \in Nat /\ second \in Nat
    BY ByteBaseAssumption DEF StreamByte
  <2>2. ByteBase * ByteBase \in Nat /\ ByteBase * second \in Nat /\ ByteBase * ByteBase # 0
    BY <2>1, Z3
  <2> QED
    BY <2>1, <2>2
<1>2. Temperature(first, second)
        = (IF (number % words) < words \div 2 THEN number % words ELSE (number % words) - words) - Kelvin
  BY DEF Temperature, SignedInt
<1> HIDE DEF words, number
<1>3. number % words \in Nat
  BY <1>1, Remainder
<1> QED
  BY <1>1, <1>2, <1>3, KelvinAssumption

\* A value that the int can hold comes out as its temperature.
LEMMA TemperatureOfValue ==
    ASSUME NEW value \in Values, Holds(value)
    PROVE  Temperature(value % ByteBase, value \div ByteBase) = value - Kelvin
<1> DEFINE words == ByteBase * ByteBase
<1>1. value \in Nat /\ value < words
      /\ (value % ByteBase) + ByteBase * (value \div ByteBase) = value
  BY ValueBytes
<1>2. words \in Nat
  BY ByteBaseAssumption
<1>3. value < words \div 2
  BY DEF Holds
<1>4. Temperature(value % ByteBase, value \div ByteBase) = SignedInt(value) - Kelvin
  BY <1>1 DEF Temperature
<1>5. SignedInt(value) = IF (value % words) < words \div 2 THEN value % words ELSE (value % words) - words
  BY DEF SignedInt
<1> HIDE DEF words
<1>6. value % words = value
  BY <1>1, <1>2
<1> QED
  BY <1>3, <1>4, <1>5, <1>6

\* A round of the loop takes one byte.
LEMMA OneByteTaken ==
    ASSUME NEW node \in Nodes, NEW byte \in StreamByte
    PROVE  /\ TakeByte(node, byte) \in Nodes
           /\ TakenBy(TakeByte(node, byte)) = TakenBy(node) + 1
<1>1. node.temperatures \in Seq(Int) /\ node.inBuffer \in StreamByte
  BY DEF Nodes
<1>2. Temperature(node.inBuffer, byte) \in Int
  BY <1>1, TemperatureIsInt
<1>3. CASE node.arrayState = "Complete"
  <2>1. TakeByte(node, byte) = [node EXCEPT !.arrayState = "Incomplete", !.inBuffer = byte]
    BY <1>3 DEF TakeByte
  <2>2. /\ TakeByte(node, byte) \in Nodes
        /\ TakeByte(node, byte).arrayState = "Incomplete"
        /\ TakeByte(node, byte).temperatures = node.temperatures
    BY <1>1, <2>1 DEF Nodes
  <2>3. TakenBy(TakeByte(node, byte)) = 2 * Len(node.temperatures) + 1
    BY <2>2, TakenByState
  <2> QED
    BY <1>3, <2>2, <2>3, TakenByState
<1>4. CASE node.arrayState = "Incomplete"
  <2> DEFINE longer == Append(node.temperatures, Temperature(node.inBuffer, byte))
  <2>1. TakeByte(node, byte) = [node EXCEPT !.arrayState = "Complete", !.temperatures = longer]
    BY <1>4 DEF TakeByte
  <2>2. longer \in Seq(Int) /\ Len(longer) = Len(node.temperatures) + 1
    BY <1>1, <1>2
  <2> HIDE DEF longer
  <2>3. /\ TakeByte(node, byte) \in Nodes
        /\ TakeByte(node, byte).arrayState = "Complete"
        /\ TakeByte(node, byte).temperatures = longer
    BY <1>1, <2>1, <2>2 DEF Nodes
  <2>4. TakenBy(TakeByte(node, byte)) = 2 * (Len(node.temperatures) + 1)
    BY <2>2, <2>3, TakenByState
  <2>5. Len(node.temperatures) \in Nat /\ TakenBy(node) = 2 * Len(node.temperatures) + 1
    BY <1>4, TakenByState
  <2> QED
    BY <2>3, <2>4, <2>5
<1> QED
  BY <1>3, <1>4 DEF Nodes

\* A round of the loop decodes the next byte of the stream.
LEMMA OneByteDecoded ==
    ASSUME NEW node \in Nodes, NEW byte \in StreamByte, Decoded(node),
           node.arrayState = "Complete"
             => byte = sent[Len(node.temperatures) + 1] % ByteBase,
           node.arrayState = "Incomplete"
             => byte = sent[Len(node.temperatures) + 1] \div ByteBase
    PROVE  Decoded(TakeByte(node, byte))
<1> DEFINE next == sent[Len(node.temperatures) + 1]
<1>1. node.temperatures \in Seq(Int) /\ node.inBuffer \in StreamByte
  BY DEF Nodes
<1>2. Temperature(node.inBuffer, byte) \in Int
  BY <1>1, TemperatureIsInt
<1>3. CASE node.arrayState = "Complete"
  <2>1. /\ TakeByte(node, byte).temperatures = node.temperatures
        /\ TakeByte(node, byte).inBuffer = byte
    BY <1>3 DEF TakeByte, Nodes
  <2> QED
    BY <1>3, <2>1 DEF Decoded
<1>4. CASE node.arrayState = "Incomplete"
  <2> DEFINE longer == Append(node.temperatures, Temperature(node.inBuffer, byte))
  <2>1. TakeByte(node, byte).arrayState = "Complete" /\ TakeByte(node, byte).temperatures = longer
    BY <1>4 DEF TakeByte, Nodes
  <2>2. /\ Len(longer) = Len(node.temperatures) + 1
        /\ \A i \in 1 .. Len(node.temperatures) : longer[i] = node.temperatures[i]
        /\ longer[Len(node.temperatures) + 1] = Temperature(node.inBuffer, byte)
    BY <1>1, <1>2
  <2>3. Temperature(node.inBuffer, byte) = Temperature(next % ByteBase, next \div ByteBase)
    BY <1>4 DEF Decoded
  <2> HIDE DEF longer
  <2>4. ASSUME NEW i \in 1 .. Len(longer)
        PROVE  longer[i] = Temperature(sent[i] % ByteBase, sent[i] \div ByteBase)
    <3>1. CASE i = Len(node.temperatures) + 1
      BY <2>2, <2>3, <3>1
    <3>2. CASE i # Len(node.temperatures) + 1
      <4>1. i \in 1 .. Len(node.temperatures)
        BY <1>1, <2>2, <3>2
      <4> QED
        BY <2>2, <4>1 DEF Decoded
    <3> QED
      BY <3>1, <3>2
  <2> QED
    BY <2>1, <2>4 DEF Decoded
<1> QED
  BY <1>3, <1>4 DEF Nodes

\* The loop of an event, round by round.
Rounds(bytes, f) ==
    /\ f \in [0 .. Len(bytes) -> Nodes] /\ f[0] = Node
    /\ \A i \in 1 .. Len(bytes) : f[i] = TakeByte(f[i - 1], bytes[i])

\* The model's recursive function is such a loop, and the node it ends with is the last.
LEMMA LoopRounds ==
    ASSUME Node \in Nodes, NEW bytes \in Seq(StreamByte)
    PROVE  \E f : Rounds(bytes, f) /\ NodeAfter(bytes) = f[Len(bytes)]
<1> DEFINE n == Len(bytes)
           Step == [p \in (1 .. n) \X Nodes |-> TakeByte(p[2], bytes[p[1]])]
           Equation(f) == f = [i \in 0 .. n |-> IF i = 0 THEN Node ELSE TakeByte(f[i - 1], bytes[i])]
<1>1. n \in Nat /\ \A i \in 1 .. n : bytes[i] \in StreamByte
  OBVIOUS
<1>2. \A i \in 1 .. n : \A v \in Nodes : Step[<<i, v>>] = TakeByte(v, bytes[i])
  OBVIOUS
<1> HIDE DEF Step, n
<1>3. \A i \in 1 .. n : \A v \in Nodes : Step[<<i, v>>] \in Nodes
  BY <1>1, <1>2, OneByteTaken
<1>4. PICK f \in [0 .. n -> Nodes] : Recursion(Node, n, Step, f)
  BY <1>1, <1>3, RecursionExists
<1>5. f[0] = Node
  BY <1>4 DEF Recursion
<1>6. ASSUME NEW i \in 1 .. n PROVE f[i] = TakeByte(f[i - 1], bytes[i])
  <2>1. i - 1 \in 0 .. n
    BY <1>1
  <2>2. f[i - 1] \in Nodes /\ f[i] = Step[<<i, f[i - 1]>>]
    BY <1>4, <2>1 DEF Recursion
  <2> QED
    BY <1>2, <2>2, Zenon
<1>7. Equation(f)
  <2>1. \A i \in 0 .. n : i # 0 => i \in 1 .. n
    BY <1>1
  <2>2. \A i \in 0 .. n : f[i] = IF i = 0 THEN Node ELSE TakeByte(f[i - 1], bytes[i])
    BY <1>5, <1>6, <2>1
  <2> QED
    BY <1>4, <2>2
<1> DEFINE g == CHOOSE h : Equation(h)
<1>8. Equation(g)
  BY <1>7
<1>9. NodeAfter(bytes) = g[n]
  BY DEF NodeAfter, n
<1> HIDE DEF g
<1>10. g[0] = Node /\ \A i \in 1 .. n : g[i] = TakeByte(g[i - 1], bytes[i])
  <2>1. 0 \in 0 .. n /\ \A i \in 1 .. n : i \in 0 .. n /\ i # 0
    BY <1>1
  <2>2. ASSUME NEW i \in 0 .. n PROVE g[i] = IF i = 0 THEN Node ELSE TakeByte(g[i - 1], bytes[i])
    BY <1>8, Zenon
  <2> QED
    BY <2>1, <2>2
<1>11. \A i \in 0 .. n : f[i] = g[i]
  <2>1. ASSUME NEW i \in 1 .. n, f[i - 1] = g[i - 1] PROVE f[i] = g[i]
    BY <1>6, <1>10, <2>1
  <2>2. f[0] = g[0]
    BY <1>5, <1>10
  <2>3. n \in Nat
    BY <1>1
  <2> HIDE DEF Equation
  <2> QED
    BY <2>1, <2>2, <2>3, SameValues, ZenonT(30)
<1>12. f[n] = g[n]
  BY <1>1, <1>11
<1>13. Rounds(bytes, f)
  BY <1>4, <1>5, <1>6 DEF Rounds, n
<1> QED
  BY <1>9, <1>12, <1>13 DEF n

----------------------------------------------------------------------------
\* The bytes that an event lets the node look at.
InData(n) == SubSeq(pending, 1, LookedAt(n))

\* They are the first on their way, at most EventSize of them.
LEMMA EventBytes ==
    ASSUME SensorTyped, NEW n \in 1 .. Len(pending)
    PROVE  /\ LookedAt(n) \in Nat /\ LookedAt(n) <= n
           /\ InData(n) \in Seq(StreamByte) /\ Len(InData(n)) = LookedAt(n)
           /\ \A i \in 1 .. LookedAt(n) : i \in 1 .. Len(pending) /\ InData(n)[i] = pending[i]
<1>1. pending \in Seq(StreamByte) /\ EventSize \in Nat
  BY EventSizeAssumption DEF SensorTyped
<1>2. LookedAt(n) \in 0 .. Len(pending) /\ LookedAt(n) <= n
  BY <1>1 DEF LookedAt
<1> QED
  BY <1>1, <1>2 DEF InData

(***************************************************************************)
(* The loop takes all the bytes it looks at; if none was missed before, it *)
(* has then decoded the stream so far.                                     *)
(***************************************************************************)
LEMMA EventDecoded ==
    ASSUME SensorInv, NEW n \in 1 .. Len(pending)
    PROVE  /\ NodeAfter(InData(n)) \in Nodes
           /\ TakenBy(NodeAfter(InData(n))) = TakenBy(Node) + LookedAt(n)
           /\ missed = 0 => Decoded(NodeAfter(InData(n)))
<1>1. SensorTyped /\ Node \in Nodes
  BY DEF SensorInv, SensorTyped
<1> DEFINE bytes == InData(n)
           count == LookedAt(n)
<1>2. /\ count \in Nat /\ bytes \in Seq(StreamByte) /\ Len(bytes) = count
      /\ \A i \in 1 .. count : i \in 1 .. Len(pending) /\ bytes[i] = pending[i]
  BY <1>1, EventBytes
<1> HIDE DEF bytes, count
<1>3. PICK f : Rounds(bytes, f) /\ NodeAfter(bytes) = f[Len(bytes)]
  BY <1>1, <1>2, LoopRounds
<1>4. /\ f[0] = Node /\ \A i \in 0 .. count : f[i] \in Nodes
      /\ \A i \in 1 .. count : f[i] = TakeByte(f[i - 1], bytes[i])
      /\ \A i \in 1 .. count : bytes[i] \in StreamByte
  BY <1>2, <1>3 DEF Rounds
<1>5. TakenBy(Node) \in Nat /\ (missed = 0 => TakenBy(Node) = Gone)
  <2>1. sent \in Seq(Values) /\ pending \in Seq(StreamByte) /\ missed \in Nat
    BY <1>1 DEF SensorTyped
  <2>2. TakenBy(Node) \in Nat
    BY <1>1, TakenByState
  <2>3. 2 * Len(sent) = TakenBy(Node) + Len(pending) + missed
    BY AccountedByTaken DEF SensorInv
  <2> QED
    BY <2>1, <2>2, <2>3 DEF Gone
<1> DEFINE Good ==
      {k \in Nat : k <= count =>
          TakenBy(f[k]) = TakenBy(Node) + k /\ (missed = 0 => Decoded(f[k]))}
<1>6. 0 \in Good
  BY <1>4, <1>5 DEF SensorInv
<1>7. ASSUME NEW k \in Nat, k \in Good PROVE k + 1 \in Good
  <2> SUFFICES ASSUME k + 1 <= count
               PROVE  /\ TakenBy(f[k + 1]) = TakenBy(Node) + (k + 1)
                      /\ missed = 0 => Decoded(f[k + 1])
    OBVIOUS
  <2>1. /\ k \in 0 .. count /\ k + 1 \in 1 .. count /\ (k + 1) - 1 = k
        /\ TakenBy(f[k]) = TakenBy(Node) + k /\ (missed = 0 => Decoded(f[k]))
    BY <1>2, <1>7
  <2>2. /\ f[k] \in Nodes /\ bytes[k + 1] \in StreamByte
        /\ f[k + 1] = TakeByte(f[k], bytes[k + 1]) /\ bytes[k + 1] = pending[k + 1]
        /\ k + 1 \in 1 .. Len(pending)
    <3>1. f[k + 1] = TakeByte(f[(k + 1) - 1], bytes[k + 1])
      BY <1>4, <2>1
    <3> QED
      BY <1>2, <1>4, <2>1, <3>1
  <2>3. TakenBy(f[k + 1]) = TakenBy(f[k]) + 1
    BY <2>2, OneByteTaken
  <2>4. ASSUME missed = 0 PROVE Decoded(f[k + 1])
    <3> DEFINE place == Len(f[k].temperatures) + 1
    <3>1. /\ sent \in Seq(Values) /\ pending \in Seq(StreamByte)
          /\ f[k].temperatures \in Seq(Int) /\ f[k].arrayState \in {"Complete", "Incomplete"}
      BY <1>1, <2>2 DEF SensorTyped, Nodes
    <3>2. TakenBy(f[k]) = Gone + k
      BY <1>5, <2>1, <2>4
    <3>3. Gone + (k + 1) <= 2 * Len(sent)
      BY <2>2, <3>1 DEF Gone
    <3>4. CASE f[k].arrayState = "Complete"
      <4>1. 2 * place - 1 = Gone + (k + 1) /\ place \in 1 .. Len(sent)
        <5>1. TakenBy(f[k]) = 2 * Len(f[k].temperatures) /\ Len(f[k].temperatures) \in Nat
          BY <2>2, <3>4, TakenByState
        <5>2. Len(sent) \in Nat /\ Gone + k \in Int /\ (Gone + k) + 1 = Gone + (k + 1)
          BY <3>1 DEF Gone
        <5>3. 2 * place - 1 = Gone + (k + 1) /\ place <= Len(sent)
          BY <3>2, <3>3, <5>1, <5>2, Places
        <5> QED
          BY <5>1, <5>2, <5>3
      <4>2. pending[k + 1] = sent[place] % ByteBase
        BY <2>2, <4>1 DEF SensorInv, PendingIsRest
      <4> QED
        BY <2>1, <2>2, <2>4, <3>4, <4>2, OneByteDecoded
    <3>5. CASE f[k].arrayState = "Incomplete"
      <4>1. 2 * place = Gone + (k + 1) /\ place \in 1 .. Len(sent)
        <5>1. TakenBy(f[k]) = 2 * Len(f[k].temperatures) + 1 /\ Len(f[k].temperatures) \in Nat
          BY <2>2, <3>5, TakenByState
        <5>2. Len(sent) \in Nat /\ Gone + k \in Int /\ (Gone + k) + 1 = Gone + (k + 1)
          BY <3>1 DEF Gone
        <5>3. 2 * place = Gone + (k + 1) /\ place <= Len(sent)
          BY <3>2, <3>3, <5>1, <5>2, Places
        <5> QED
          BY <5>1, <5>2, <5>3
      <4>2. pending[k + 1] = sent[place] \div ByteBase
        BY <2>2, <4>1 DEF SensorInv, PendingIsRest
      <4> QED
        BY <2>1, <2>2, <2>4, <3>5, <4>2, OneByteDecoded
    <3> QED
      BY <3>1, <3>4, <3>5
  <2> QED
    BY <1>5, <2>1, <2>3, <2>4
<1> HIDE DEF Good
<1>8. count \in Good
  BY <1>2, <1>6, <1>7, Induction
<1>9. TakenBy(f[count]) = TakenBy(Node) + count /\ (missed = 0 => Decoded(f[count]))
  BY <1>2, <1>8 DEF Good
<1>10. f[count] \in Nodes /\ NodeAfter(bytes) = f[count]
  BY <1>2, <1>3, <1>4
<1> QED
  BY <1>9, <1>10 DEF bytes, count

\* Nothing is sent, missed or shown at first.
LEMMA SensorInitInv == SensorInit => SensorInv
<1> SUFFICES ASSUME SensorInit PROVE SensorInv
  OBVIOUS
<1>1. 0 \in StreamByte /\ <<>> \in Seq(Int) /\ Len(<<>>) = 0
  BY ByteBaseAssumption DEF StreamByte
<1>2. SensorTyped
  <2>1. Node = [arrayState |-> "Complete", inBuffer |-> 0, temperatures |-> <<>>]
    BY DEF SensorInit, Node
  <2>2. Node \in Nodes
    BY <1>1, <2>1 DEF Nodes
  <2>3. sent \in Seq(Values) /\ pending \in Seq(StreamByte) /\ started = FALSE /\ missed = 0
    BY DEF SensorInit
  <2>4. arrayState = "Complete" /\ started \in BOOLEAN /\ missed \in Nat
    <3>1. arrayState = "Complete"
      BY DEF SensorInit
    <3>2. started \in BOOLEAN
      BY <2>3, Zenon
    <3> QED
      BY <2>3, <3>1, <3>2
  <2> QED
    BY <2>2, <2>3, <2>4 DEF SensorTyped
<1>3. BytesAccounted
  BY <1>1 DEF SensorInit, BytesAccounted
<1>4. PendingIsRest
  BY DEF SensorInit, PendingIsRest
<1>5. Decoded(Node)
  BY <1>1 DEF SensorInit, Decoded, Node
<1> QED
  BY <1>2, <1>3, <1>4, <1>5 DEF SensorInv

\* Two more elements at the end of a sequence.
LEMMA TwoMore ==
    ASSUME NEW S, NEW s \in Seq(S), NEW a \in S, NEW b \in S
    PROVE  /\ s \o <<a, b>> \in Seq(S) /\ Len(s \o <<a, b>>) = Len(s) + 2
           /\ \A p \in 1 .. Len(s) : (s \o <<a, b>>)[p] = s[p]
           /\ (s \o <<a, b>>)[Len(s) + 1] = a /\ (s \o <<a, b>>)[Len(s) + 2] = b
  OBVIOUS

\* A value that is sent adds its two bytes at the end.
LEMMA GuestSendsInv ==
    ASSUME SensorInv, NEW value \in Values, GuestSends(value)
    PROVE  SensorInv'
<1> DEFINE low == value % ByteBase
           high == value \div ByteBase
<1>1. /\ sent \in Seq(Values) /\ pending \in Seq(StreamByte) /\ temperatures \in Seq(Int)
      /\ missed \in Nat
  BY DEF SensorInv, SensorTyped, Node, Nodes
<1>2. low \in StreamByte /\ high \in StreamByte
  BY ValueBytes
<1>3. sent' = Append(sent, value) /\ pending' = pending \o <<low, high>>
      /\ UNCHANGED nodeVars
  BY DEF GuestSends
<1> HIDE DEF low, high
<1>4. /\ sent' \in Seq(Values) /\ Len(sent') = Len(sent) + 1 /\ sent'[Len(sent) + 1] = value
      /\ \A i \in 1 .. Len(sent) : sent'[i] = sent[i]
  BY <1>1, <1>3
<1>5. /\ pending' \in Seq(StreamByte) /\ Len(pending') = Len(pending) + 2
      /\ \A p \in 1 .. Len(pending) : pending'[p] = pending[p]
      /\ pending'[Len(pending) + 1] = low /\ pending'[Len(pending) + 2] = high
  BY <1>1, <1>2, <1>3, TwoMore
<1>6. SensorTyped'
  BY <1>3, <1>4, <1>5 DEF SensorInv, SensorTyped, Node, nodeVars
<1>7. BytesAccounted'
  <2>1. 2 * Len(sent) = TakenBy(Node) + Len(pending) + missed /\ TakenBy(Node) \in Nat
    BY AccountedByTaken, TakenByState DEF SensorInv, SensorTyped
  <2>2. TakenBy(Node)' = TakenBy(Node) /\ missed' = missed
    BY <1>3 DEF TakenBy, Node, nodeVars
  <2>3. (2 * Len(sent) = TakenBy(Node) + Len(pending) + missed)'
    <3>1. Len(sent) \in Nat /\ Len(pending) \in Nat /\ missed \in Nat
      BY <1>1
    <3>2. Len(sent') = Len(sent) + 1 /\ Len(pending') = Len(pending) + 2
      BY <1>4, <1>5
    <3>3. \A a, b, c, d \in Nat : 2 * a = b + c + d => 2 * (a + 1) = b + (c + 2) + d
      OBVIOUS
    <3>4. 2 * (Len(sent) + 1) = TakenBy(Node) + (Len(pending) + 2) + missed
      BY <2>1, <3>1, <3>3
    <3> QED
      BY <2>2, <3>2, <3>4, Zenon
  <2> QED
    BY <2>3, AccountedByTaken, PTL
<1>8. PendingIsRest'
  <2> SUFFICES ASSUME NEW i \in 1 .. Len(sent'), NEW p \in 1 .. Len(pending')
               PROVE  /\ Gone' + p = 2 * i - 1 => pending'[p] = sent'[i] % ByteBase
                      /\ Gone' + p = 2 * i => pending'[p] = sent'[i] \div ByteBase
    BY DEF PendingIsRest
  <2>1. Gone' = Gone /\ Gone = 2 * Len(sent) - Len(pending)
    BY <1>1, <1>4, <1>5 DEF Gone
  <2>2. CASE i = Len(sent) + 1
    <3>1. Gone' + p = 2 * i - 1 => p = Len(pending) + 1
      BY <1>1, <1>5, <2>1, <2>2
    <3>2. Gone' + p = 2 * i => p = Len(pending) + 2
      BY <1>1, <1>5, <2>1, <2>2
    <3> QED
      BY <1>4, <1>5, <2>2, <3>1, <3>2 DEF low, high
  <2>3. CASE i # Len(sent) + 1
    <3>1. i \in 1 .. Len(sent) /\ sent'[i] = sent[i]
      BY <1>1, <1>4, <2>3
    <3>2. CASE p \in 1 .. Len(pending)
      <4>1. pending'[p] = pending[p]
        BY <1>5, <3>2
      <4> QED
        BY <2>1, <3>1, <3>2, <4>1 DEF SensorInv, PendingIsRest
    <3>3. CASE p \notin 1 .. Len(pending)
      <4>1. Gone' + p > 2 * i
        BY <1>1, <1>5, <2>1, <3>1, <3>3
      <4>2. Gone' + p # 2 * i - 1 /\ Gone' + p # 2 * i
        <5>1. Gone' + p \in Int /\ i \in Nat
          BY <1>1, <1>5, <2>1, <3>1
        <5> QED
          BY <4>1, <5>1, Places
      <4> QED
        BY <4>2
    <3> QED
      BY <3>2, <3>3
  <2> QED
    BY <2>2, <2>3
<1>9. missed' = 0 => Decoded(Node)'
  <2> SUFFICES ASSUME missed = 0 PROVE Decoded(Node)'
    BY <1>3 DEF nodeVars
  <2>1. Decoded(Node) /\ 2 * Len(temperatures) + (IF arrayState = "Incomplete" THEN 1 ELSE 0) <= 2 * Len(sent)
    BY <1>1 DEF SensorInv, BytesAccounted
  <2>2. /\ \A i \in 1 .. Len(temperatures) : i \in 1 .. Len(sent)
        /\ arrayState = "Incomplete" => Len(temperatures) + 1 \in 1 .. Len(sent)
    BY <1>1, <2>1
  <2>3. temperatures' = temperatures /\ arrayState' = arrayState /\ inBuffer' = inBuffer
    BY <1>3 DEF nodeVars
  <2> QED
    BY <1>4, <2>1, <2>2, <2>3 DEF Decoded, Node
<1> QED
  BY <1>6, <1>7, <1>8, <1>9 DEF SensorInv

\* Bytes that leave at the front leave the rest what it is.
LEMMA RestStaysRest ==
    ASSUME SensorInv, NEW n \in 1 .. Len(pending),
           pending' = SubSeq(pending, n + 1, Len(pending)), sent' = sent
    PROVE  /\ pending' \in Seq(StreamByte) /\ Len(pending') = Len(pending) - n
           /\ PendingIsRest'
<1>1. sent \in Seq(Values) /\ pending \in Seq(StreamByte)
  BY DEF SensorInv, SensorTyped
<1>2. /\ pending' \in Seq(StreamByte) /\ Len(pending') = Len(pending) - n
      /\ \A p \in 1 .. Len(pending) - n : pending'[p] = pending[p + n]
  BY <1>1
<1>3. PendingIsRest'
  <2> SUFFICES ASSUME NEW i \in 1 .. Len(sent), NEW p \in 1 .. Len(pending')
               PROVE  /\ Gone' + p = 2 * i - 1 => pending'[p] = sent[i] % ByteBase
                      /\ Gone' + p = 2 * i => pending'[p] = sent[i] \div ByteBase
    BY DEF PendingIsRest
  <2>1. /\ n \in 1 .. Len(pending) /\ p \in 1 .. Len(pending) - n
        /\ Len(sent) \in Nat /\ Len(pending) \in Nat
    BY <1>1, <1>2
  <2>2. p + n \in 1 .. Len(pending) /\ pending'[p] = pending[p + n]
    BY <1>2, <2>1
  <2>3. Gone' = 2 * Len(sent) - (Len(pending) - n)
    BY <1>2 DEF Gone
  <2>4. Gone' + p = Gone + (p + n)
    <3>1. Gone = 2 * Len(sent) - Len(pending)
      BY DEF Gone
    <3>2. (2 * Len(sent) - (Len(pending) - n)) + p = (2 * Len(sent) - Len(pending)) + (p + n)
      BY <2>1
    <3> QED
      BY <2>3, <3>1, <3>2, Zenon
  <2> QED
    BY <2>2, <2>4 DEF SensorInv, PendingIsRest
<1> QED
  BY <1>2, <1>3

\* Each step of the guest, the topic and the node preserves the invariant.
LEMMA SensorNextInv == SensorInv /\ [SensorNext]_sensorVars => SensorInv'
<1> SUFFICES ASSUME SensorInv, [SensorNext]_sensorVars PROVE SensorInv'
  OBVIOUS
<1>1. /\ sent \in Seq(Values) /\ pending \in Seq(StreamByte) /\ temperatures \in Seq(Int)
      /\ missed \in Nat /\ Node \in Nodes /\ started \in BOOLEAN
      /\ ~started => arrayState = "Complete"
  BY DEF SensorInv, SensorTyped, Node, Nodes
<1>2. ASSUME NEW value \in Values, GuestSends(value) PROVE SensorInv'
  BY <1>2, GuestSendsInv
<1>3. ASSUME NEW n \in 1 .. Len(pending), GoesUnseen(n) PROVE SensorInv'
  <2>1. /\ pending' = SubSeq(pending, n + 1, Len(pending)) /\ missed' = missed + n
        /\ UNCHANGED <<sent, started, arrayState, inBuffer, temperatures>>
    BY <1>3 DEF GoesUnseen
  <2>2. /\ pending' \in Seq(StreamByte) /\ Len(pending') = Len(pending) - n
        /\ PendingIsRest'
    BY <2>1, RestStaysRest
  <2>3. SensorTyped'
    BY <1>1, <2>1, <2>2 DEF SensorTyped, Node
  <2>4. BytesAccounted'
    <3>1. 2 * Len(sent) = TakenBy(Node) + Len(pending) + missed /\ TakenBy(Node) \in Nat
      BY <1>1, AccountedByTaken, TakenByState DEF SensorInv
    <3>2. TakenBy(Node)' = TakenBy(Node) /\ sent' = sent
      BY <2>1 DEF TakenBy, Node
    <3>3. (2 * Len(sent) = TakenBy(Node) + Len(pending) + missed)'
      BY <1>1, <2>1, <2>2, <3>1, <3>2
    <3> QED
      BY <3>3, AccountedByTaken, PTL
  <2>5. missed' # 0
    BY <1>1, <2>1
  <2> QED
    BY <2>2, <2>3, <2>4, <2>5 DEF SensorInv
<1>4. CASE OnStart
  <2>1. /\ arrayState' = arrayState /\ started' = TRUE
        /\ UNCHANGED <<sent, pending, inBuffer, missed, temperatures>>
    BY <1>1, <1>4 DEF OnStart
  <2> QED
    BY <1>1, <2>1 DEF SensorInv, SensorTyped, BytesAccounted, PendingIsRest, Gone, Decoded, Node
<1>5. ASSUME NEW n \in 1 .. Len(pending), DegreesSensor(n) PROVE SensorInv'
  <2> DEFINE node == NodeAfter(InData(n))
  <2>1. /\ started /\ arrayState' = node.arrayState /\ inBuffer' = node.inBuffer
        /\ temperatures' = node.temperatures /\ missed' = missed + n - LookedAt(n)
        /\ pending' = SubSeq(pending, n + 1, Len(pending)) /\ UNCHANGED <<sent, started>>
    BY <1>5 DEF DegreesSensor, InData
  <2>2. /\ node \in Nodes /\ TakenBy(node) = TakenBy(Node) + LookedAt(n)
        /\ missed = 0 => Decoded(node)
    BY EventDecoded
  <2>3. LookedAt(n) \in Nat /\ LookedAt(n) <= n
    BY EventBytes DEF SensorInv
  <2> HIDE DEF node
  <2>4. Node' = node
    BY <2>1, <2>2 DEF Node, Nodes
  <2>5. /\ pending' \in Seq(StreamByte) /\ Len(pending') = Len(pending) - n
        /\ PendingIsRest'
    BY <2>1, RestStaysRest
  <2>6. missed' \in Nat /\ (missed' = 0 => missed = 0)
    BY <1>1, <2>1, <2>3
  <2>7. SensorTyped'
    BY <1>1, <2>1, <2>2, <2>4, <2>5, <2>6 DEF SensorTyped
  <2>8. BytesAccounted'
    <3>1. 2 * Len(sent) = TakenBy(Node) + Len(pending) + missed /\ TakenBy(Node) \in Nat
      BY <1>1, AccountedByTaken, TakenByState DEF SensorInv
    <3>2. TakenBy(Node)' = TakenBy(Node) + LookedAt(n)
      BY <2>2, <2>4 DEF TakenBy
    <3>3. missed' = missed + n - LookedAt(n) /\ sent' = sent
      BY <2>1
    <3>4. (2 * Len(sent) = TakenBy(Node) + Len(pending) + missed)'
      BY <1>1, <2>3, <2>5, <3>1, <3>2, <3>3
    <3> QED
      BY <3>4, AccountedByTaken, PTL
  <2>9. missed' = 0 => Decoded(Node)'
    <3>1. Decoded(node) => Decoded(Node)'
      BY <2>1, <2>4 DEF Decoded
    <3> QED
      BY <2>2, <2>6, <3>1
  <2> QED
    BY <2>5, <2>7, <2>8, <2>9 DEF SensorInv
<1>6. CASE UNCHANGED sensorVars
  BY <1>6 DEF sensorVars, nodeVars, SensorInv, SensorTyped, BytesAccounted, PendingIsRest, Gone,
              Decoded, Node
<1> QED
  BY <1>2, <1>3, <1>4, <1>5, <1>6 DEF SensorNext

\* What the node has taken and shown is what was sent, as far as it has looked at the bytes.
THEOREM SensorInvariance == SensorSpec => []SensorInv
  BY SensorInitInv, SensorNextInv, PTL DEF SensorSpec

(***************************************************************************)
(* Every byte is shown, kept, on its way or missed, for every size of the  *)
(* events and every number of bytes looked at in one.                      *)
(***************************************************************************)
THEOREM EveryByteAccounted == SensorSpec => []BytesAccounted
<1>1. SensorInv => BytesAccounted
  BY DEF SensorInv
<1> QED
  BY <1>1, SensorInvariance, PTL

(***************************************************************************)
(* The temperatures are those sent, in order, as long as no byte was       *)
(* missed: half a value that an event leaves over is completed by the      *)
(* first byte of the next.                                                 *)
(***************************************************************************)
THEOREM TemperaturesShownAsSent == SensorSpec => []ShownAsSent
<1>1. SensorInv => ShownAsSent
  <2> SUFFICES ASSUME SensorInv, missed = 0
               PROVE  /\ Len(temperatures) <= Len(sent)
                      /\ \A i \in 1 .. Len(temperatures) :
                            Holds(sent[i]) => temperatures[i] = sent[i] - Kelvin
    BY DEF ShownAsSent
  <2>1. sent \in Seq(Values) /\ temperatures \in Seq(Int) /\ pending \in Seq(StreamByte)
    BY DEF SensorInv, SensorTyped, Node, Nodes
  <2>2. Len(temperatures) <= Len(sent)
    BY <2>1 DEF SensorInv, BytesAccounted
  <2>3. ASSUME NEW i \in 1 .. Len(temperatures), Holds(sent[i])
        PROVE  temperatures[i] = sent[i] - Kelvin
    <3>1. sent[i] \in Values
      BY <2>1, <2>2
    <3>2. temperatures[i] = Temperature(sent[i] % ByteBase, sent[i] \div ByteBase)
      BY DEF SensorInv, Decoded, Node
    <3> QED
      BY <2>3, <3>1, <3>2, TemperatureOfValue
  <2> QED
    BY <2>2, <2>3
<1> QED
  BY <1>1, SensorInvariance, PTL
=============================================================================
