----------------------------- MODULE LineBuffer -----------------------------
(***************************************************************************)
(* The text panels of the CANoe demo nodes (InterfaceControl_device; the   *)
(* observer and the QMP panel receive with the same lines).  What comes    *)
(* from the character device is appended to a buffer of fixed size; when a *)
(* newline comes the buffer is shown and moved behind that newline.  The   *)
(* adapter may split a message anywhere, so an event is any part of the    *)
(* stream: half a line, or several.                                        *)
(*                                                                         *)
(* A character is its number in the stream; what counts is whether it is   *)
(* a newline.                                                              *)
(***************************************************************************)
EXTENDS Naturals, SequencesExt

CONSTANTS
    InputSize,      \* elcount(inputTextBuffer), the terminating 0 included
    OutputSize,     \* elcount(outputTextBuffer)
    TextLengths,    \* how long the texts may be that the user types
    MaxReceived,    \* bound: how many characters come from the character device
    MaxEvent        \* bound: how many characters one event brings

ASSUME SizesAssumption ==
    InputSize \in Nat \ {0} /\ OutputSize \in Nat /\ OutputSize > 3
ASSUME BoundsAssumption == MaxReceived \in Nat /\ MaxEvent \in Nat /\ TextLengths \subseteq Nat

VARIABLES
    received,       \* how many characters have come
    newlines,       \* those of them that are newlines
    buffer,         \* inputTextBuffer
    textReceived,   \* UIVariables::TextReceived, what the panel shows
    shown,          \* the characters that have been shown
    dropped,        \* the characters that did not fit
    toChardev       \* the last text sent: its length, and whether it ends with a newline

vars == <<received, newlines, buffer, textReceived, shown, dropped, toChardev>>

Init ==
    /\ received = 0
    /\ newlines = {}
    /\ buffer = <<>>
    /\ textReceived = <<>>
    /\ shown = {}
    /\ dropped = {}
    /\ toChardev = [length |-> 0, line |-> TRUE]

----------------------------------------------------------------------------
(* CAPL's string functions. *)

\* A string in an array of the given size.
Fit(text, size) == IF Len(text) < size THEN text ELSE SubSeq(text, 1, size - 1)

\* Mutant: the terminating 0 is not counted.
StrncatByOne(text, added, size) == Fit(text \o added, size + 1)

\* strncat: as much of the added text as the array has room for.
Strncat(text, added, size) == Fit(text \o added, size)

\* substr_cpy: the text from a place to its end.
SubstrCpy(text, start, size) == Fit(SubSeq(text, start, Len(text)), size)

----------------------------------------------------------------------------
\* Mutant: no room is left for the newline.
LengthOfText(length) == IF length < OutputSize THEN length ELSE OutputSize - 1

\* sysGetVariableString cuts the user's text to elcount - 3 with its terminating 0.
TextLength(length) == IF length < OutputSize - 3 THEN length ELSE OutputSize - 4

\* on sysvar_update UIVariables::SendRequested, the button is released.
SendRequested(length) ==
    /\ toChardev' = [length |-> TextLength(length), line |-> TextLength(length) + 1 < OutputSize]
    /\ UNCHANGED <<received, newlines, buffer, textReceived, shown, dropped>>

\* Mutant: only the first of the new characters is looked at.
FirstNewlineAtOnce(text, from, breaks) ==
    IF from < Len(text) /\ text[from + 1] \in breaks THEN from + 1 ELSE 0

\* strstr_off: the place of the first newline behind the old content, 0 if there is none.
FirstNewline(text, from, breaks) ==
    LET places == {i \in from + 1 .. Len(text) : text[i] \in breaks}
    IN  IF places = {} THEN 0 ELSE CHOOSE i \in places : \A j \in places : i <= j

\* Mutant: the room is one too small.
BehindInLess(text, place) == SubstrCpy(text, place + 1, InputSize - place - 1)

\* The rest is moved to the front; its room is what is left behind the newline.
Behind(text, place) == SubstrCpy(text, place + 1, InputSize - place)

\* on value_update fromChardev: an event of n characters, with newlines among them.
FromChardev(n, breaks) ==
    LET added == [i \in 1 .. n |-> received + i]
        text == Strncat(buffer, added, InputSize)
        place == FirstNewline(text, Len(buffer), breaks)
    IN  /\ received' = received + n
        /\ newlines' = newlines \cup breaks
        /\ dropped' = dropped \cup (Range(added) \ Range(text))
        /\ IF place = 0
           THEN buffer' = text /\ UNCHANGED <<textReceived, shown>>
           ELSE /\ textReceived' = text
                /\ shown' = shown \cup Range(text)
                /\ buffer' = Behind(text, place)
        /\ UNCHANGED toChardev

Next ==
    \/ \E length \in TextLengths : SendRequested(length)
    \/ \E n \in 1 .. MaxEvent :
        /\ received + n <= MaxReceived
        /\ \E breaks \in SUBSET (received + 1 .. received + n) : FromChardev(n, breaks)

Spec == Init /\ [][Next]_vars

----------------------------------------------------------------------------
\* Every string ends within its array, and what is sent is a line: its newline has found room.
TypeOK ==
    /\ received \in 0 .. MaxReceived
    /\ newlines \subseteq 1 .. received
    /\ buffer \in Seq(1 .. received) /\ Len(buffer) < InputSize
    /\ textReceived \in Seq(1 .. received) /\ Len(textReceived) < InputSize
    /\ shown \subseteq 1 .. received
    /\ dropped \subseteq 1 .. received
    /\ toChardev.length < OutputSize /\ toChardev.line

\* The text has no gap.
Contiguous(text) == \A i \in 2 .. Len(text) : text[i] = text[i - 1] + 1

(***************************************************************************)
(* Moving the rest of the buffer to its front loses nothing and keeps the  *)
(* order: as long as everything has fitted, the buffer ends with the last  *)
(* character received and neither it nor the panel has a gap.              *)
(***************************************************************************)
NothingLostInMoving ==
    dropped = {} =>
        /\ Contiguous(buffer) /\ Contiguous(textReceived)
        /\ buffer # <<>> => Last(buffer) = received
        /\ \A c \in 1 .. received : c \in shown \cup Range(buffer)

(***************************************************************************)
(* A line that has got into the buffer is shown with all of it that is     *)
(* there, even if several lines come in one event and only the first       *)
(* newline is searched for: no line waits for the next one to be seen.     *)
(***************************************************************************)
StoredLinesShown ==
    \A c \in newlines \ dropped : 1 .. c \subseteq shown \cup dropped

(***************************************************************************)
(* "Any text sent to the file will show up", says the demo's README.  Not  *)
(* so when the buffer is full before a newline comes: see the run that     *)
(* shows it violated.                                                      *)
(***************************************************************************)
EveryLineShown == newlines \subseteq shown

(***************************************************************************)
(* And this is how it stays: a buffer that is full never empties again.    *)
(***************************************************************************)
FullForEver ==
    [][Len(buffer) = InputSize - 1 => UNCHANGED <<buffer, textReceived>>]_vars
=============================================================================
