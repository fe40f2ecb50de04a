------------------------- MODULE TemperatureSensing -------------------------
(***************************************************************************)
(* The CANoe node that shows a temperature the guest sends: two bytes in   *)
(* Kelvin, the lower one first.  The adapter may split and join what the   *)
(* guest writes, so an event brings any number of bytes; half a value is   *)
(* kept until the next event.                                              *)
(***************************************************************************)
EXTENDS Integers, Sequences

CONSTANTS
    ByteBase,       \* how many values a byte has, 256 in the program
    Kelvin,         \* 273 in the program
    EventSize,      \* elcount(in_data), 50 in the program
    Values,         \* what the guest may send
    MaxValues       \* bound: how many values the guest sends

ASSUME ByteBaseAssumption == ByteBase \in Nat /\ ByteBase > 1 /\ ByteBase % 2 = 0
ASSUME KelvinAssumption == Kelvin \in Nat
ASSUME EventSizeAssumption == EventSize \in Nat \ {0}
ASSUME ValuesAssumption == Values \subseteq 0 .. ByteBase * ByteBase - 1
ASSUME MaxValuesAssumption == MaxValues \in Nat

VARIABLES
    sent,           \* the values the guest has sent, in order
    pending,        \* the bytes on their way
    started,        \* the measurement runs and the node is connected
    arrayState,     \* whether half a value is kept
    inBuffer,       \* in_buffer, the half that is kept
    missed,         \* how many bytes the node has not looked at
    temperatures    \* SensorTemperature: the temperatures shown, in order

nodeVars == <<started, arrayState, inBuffer, missed, temperatures>>
sensorVars == <<sent, pending, nodeVars>>

SensorInit ==
    /\ sent = <<>>
    /\ pending = <<>>
    /\ started = FALSE
    /\ arrayState = "Complete"
    /\ inBuffer = 0
    /\ missed = 0
    /\ temperatures = <<>>

----------------------------------------------------------------------------
\* The shell function of the demo: send 273.
GuestSends(value) ==
    /\ Len(sent) < MaxValues
    /\ sent' = Append(sent, value)
    /\ pending' = pending \o <<value % ByteBase, value \div ByteBase>>
    /\ UNCHANGED nodeVars

\* Nobody has subscribed yet: the bytes are lost.
GoesUnseen(n) ==
    /\ ~started
    /\ pending' = SubSeq(pending, n + 1, Len(pending))
    /\ missed' = missed + n
    /\ UNCHANGED <<sent, started, arrayState, inBuffer, temperatures>>

OnStart ==
    /\ ~started
    /\ started' = TRUE
    /\ arrayState' = "Complete"
    /\ UNCHANGED <<sent, pending, inBuffer, missed, temperatures>>

----------------------------------------------------------------------------
\* int has 16 bits and a sign.
SignedInt(number) ==
    LET words == ByteBase * ByteBase
        unsigned == number % words
    IN  IF unsigned < words \div 2 THEN unsigned ELSE unsigned - words

\* Mutant: the first byte is the upper one.
UpperFirst(first, second) == SignedInt(ByteBase * first + second) - Kelvin

Temperature(first, second) == SignedInt(first + ByteBase * second) - Kelvin

\* The state the loop of an event starts with.
Node == [arrayState |-> arrayState, inBuffer |-> inBuffer, temperatures |-> temperatures]

\* Mutant: after a value the node goes on with the half it has kept.
TakeByteOnce(node, byte) ==
    [node EXCEPT !.arrayState = "Incomplete",
                 !.inBuffer = byte,
                 !.temperatures = IF node.arrayState = "Complete" THEN @
                                  ELSE Append(@, Temperature(node.inBuffer, byte))]

\* One round of the loop.
TakeByte(node, byte) ==
    IF node.arrayState = "Complete"
    THEN [node EXCEPT !.arrayState = "Incomplete", !.inBuffer = byte]
    ELSE [node EXCEPT !.arrayState = "Complete",
                      !.temperatures = Append(@, Temperature(node.inBuffer, byte))]

\* The node behind the loop over these bytes.
NodeAfter(bytes) ==
    LET node[i \in 0 .. Len(bytes)] == IF i = 0 THEN Node ELSE TakeByte(node[i - 1], bytes[i])
    IN  node[Len(bytes)]

\* i < numbytes && i < elcount(in_data)
LookedAt(n) == IF n < EventSize THEN n ELSE EventSize

\* on value_update degrees_sensor: an event of n bytes.
DegreesSensor(n) ==
    LET inData == SubSeq(pending, 1, LookedAt(n))
        node == NodeAfter(inData)
    IN  /\ started
        /\ arrayState' = node.arrayState
        /\ inBuffer' = node.inBuffer
        /\ temperatures' = node.temperatures
        /\ missed' = missed + n - LookedAt(n)
        /\ pending' = SubSeq(pending, n + 1, Len(pending))
        /\ UNCHANGED <<sent, started>>

SensorNext ==
    \/ \E value \in Values : GuestSends(value)
    \/ \E n \in 1 .. Len(pending) : GoesUnseen(n)
    \/ OnStart
    \/ \E n \in 1 .. Len(pending) : DegreesSensor(n)

SensorSpec == SensorInit /\ [][SensorNext]_sensorVars

----------------------------------------------------------------------------
\* A value that the node's int can hold.
Holds(value) == value < (ByteBase * ByteBase) \div 2

(***************************************************************************)
(* As long as the node has looked at every byte, it shows exactly the      *)
(* temperatures sent, in order and none left out, however the bytes are    *)
(* split into events.                                                      *)
(***************************************************************************)
ShownAsSent ==
    missed = 0 =>
        /\ Len(temperatures) <= Len(sent)
        /\ \A i \in 1 .. Len(temperatures) : Holds(sent[i]) => temperatures[i] = sent[i] - Kelvin

(***************************************************************************)
(* Every byte is accounted for: shown, kept, on its way or missed.  A node *)
(* that has missed an odd number of bytes pairs the halves of different    *)
(* values from then on.                                                    *)
(***************************************************************************)
BytesAccounted ==
    2 * Len(sent) =
        2 * Len(temperatures) + (IF arrayState = "Incomplete" THEN 1 ELSE 0) + Len(pending) + missed

(***************************************************************************)
(* The README says that the panel will reflect what is typed in the guest, *)
(* so a temperature shown is one that was sent.  This does NOT hold when   *)
(* bytes were missed: see the run that shows it violated.                  *)
(***************************************************************************)
OnlySentShown ==
    \A i \in 1 .. Len(temperatures) :
        \E j \in 1 .. Len(sent) : temperatures[i] = sent[j] - Kelvin
=============================================================================
