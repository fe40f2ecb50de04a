----------------------------- MODULE EchoNetwork -----------------------------
(***************************************************************************)
(* The set-up of the Ethernet demo: a guest that runs ping, and echo       *)
(* devices, on one simulated Ethernet network.  The guest is behind the    *)
(* adapter, which relays its frames in order and pads them with zeros      *)
(* (FrameRelay).  Every participant gets every other's frames, in the      *)
(* order of their sender; between senders there is no order.               *)
(*                                                                         *)
(* The guest is not part of the repository: here it asks for the device's  *)
(* hardware address by ARP, sends its echo requests there, and accepts a   *)
(* reply whose checksums are right.                                        *)
(***************************************************************************)
EXTENDS IcmpEchoDevice, FiniteSets

CONSTANTS
    Devices,        \* [mac, ip] of the devices
    Guest,          \* [mac, ip] of the guest
    Pings,          \* [target, data] of the echo requests the guest sends
    OtherFrames,    \* other frames the guest may send
    MaxOthers,      \* bound: how many of them it sends
    Broadcast,      \* the hardware address everyone listens to
    PaddedSize      \* the size the adapter pads the IPv4 packet of a short frame to

ASSUME DevicesAssumption == \A d, e \in Devices : d.ip = e.ip \/ d.mac = e.mac => d = e
ASSUME GuestAssumption == Guest \notin Devices
ASSUME PingsAssumption == \A p \in Pings : p.data \in Seq(Octet)
ASSUME OtherFramesAssumption == \A frame \in OtherFrames : IsFrame(frame)
ASSUME MaxOthersAssumption == MaxOthers \in Nat
ASSUME PaddedSizeAssumption == PaddedSize \in Nat

VARIABLES
    sent,           \* the frames each participant has sent
    seen,           \* how many of each other's frames each participant has processed
    asked,          \* the IPv4 addresses the guest has sent ARP requests for
    arpCache,       \* <<ip, mac>> of the ARP replies the guest has got
    requested,      \* the pings that are sent
    answered,       \* the pings with an accepted reply
    others,         \* the other frames the guest has sent
    joined,         \* how many of each other's frames were sent before a device joined
    state           \* where each device's process is

guestVars == <<asked, arpCache, requested, answered, others>>
deviceVars == <<joined, state>>
vars == <<sent, seen, guestVars, deviceVars>>

Nodes == Devices \cup {Guest}

Init ==
    /\ sent = [n \in Nodes |-> <<>>]
    /\ seen = [n \in Nodes |-> [m \in Nodes |-> 0]]
    /\ asked = {}
    /\ arpCache = {}
    /\ requested = {}
    /\ answered = {}
    /\ others = {}
    /\ joined = [d \in Devices |-> seen[d]]
    /\ state = [d \in Devices |-> "off"]

Send(node, frames) == sent' = [sent EXCEPT ![node] = @ \o frames]

\* The node takes the sender's next frame.
Takes(node, sender) ==
    /\ node # sender /\ seen[node][sender] < Len(sent[sender])
    /\ seen' = [seen EXCEPT ![node][sender] = @ + 1]

NextFrame(node, sender) == sent[sender][seen[node][sender] + 1]

----------------------------------------------------------------------------
(* The guest. *)

ArpRequest(target) ==
    [destination |-> Broadcast, source |-> Guest.mac, tags |-> <<>>, etherType |-> "arp",
     whole |-> TRUE,
     payload |-> [forIp4 |-> TRUE, operation |-> "request",
                  senderHardwareAddress |-> Guest.mac, senderProtocolAddress |-> Guest.ip,
                  targetHardwareAddress |-> Broadcast, targetProtocolAddress |-> target]]

AskFor(target) ==
    /\ target \notin asked
    /\ asked' = asked \cup {target}
    /\ Send(Guest, <<ArpRequest(target)>>)
    /\ UNCHANGED <<seen, arpCache, requested, answered, others, deviceVars>>

Padding(size) == IF size < PaddedSize THEN PaddedSize - size ELSE 0

\* The checksum the guest's own network stack computes.
GuestChecksum(sum) == AllOnes - FoldCarries[sum]

EchoRequestFrame(ping, mac) ==
    LET icmp == [whole |-> TRUE, type |-> EchoRequest, code |-> 0, checksum |-> 0,
                 data |-> ping.data]
        size == Ip4HeaderSize + IcmpHeaderSize + Len(ping.data)
        ip == [version |-> 4, headerLength |-> Ip4HeaderSize, totalLength |-> size,
               identification |-> 0, dontFragment |-> TRUE, moreFragments |-> FALSE,
               fragmentOffset |-> 0, timeToLive |-> 64, protocol |-> Icmp, checksum |-> 0,
               sourceAddress |-> Guest.ip, destinationAddress |-> ping.target,
               icmp |-> [icmp EXCEPT !.checksum = GuestChecksum(IcmpSum(icmp))],
               padding |-> Padding(size)]
    IN  [destination |-> mac, source |-> Guest.mac, tags |-> <<>>, etherType |-> "ip4",
         whole |-> TRUE,
         payload |-> [ip EXCEPT !.checksum = GuestChecksum(Ip4HeaderSum(ip))]]

SendPing(ping, mac) ==
    /\ ping \notin requested /\ <<ping.target, mac>> \in arpCache
    /\ requested' = requested \cup {ping}
    /\ Send(Guest, <<EchoRequestFrame(ping, mac)>>)
    /\ UNCHANGED <<seen, asked, arpCache, answered, others, deviceVars>>

SendOther(frame) ==
    /\ frame \notin others /\ Cardinality(others) < MaxOthers
    /\ others' = others \cup {frame}
    /\ Send(Guest, <<frame>>)
    /\ UNCHANGED <<seen, asked, arpCache, requested, answered, deviceVars>>

\* The reply is for the guest, and both checksums are right.
AnswersPing(frame, ping) ==
    LET ip == frame.payload
    IN  /\ frame.destination = Guest.mac /\ frame.etherType = "ip4"
        /\ ip.destinationAddress = Guest.ip /\ ip.sourceAddress = ping.target
        /\ Accepts(Ip4HeaderSum(ip), ip.checksum)
        /\ ip.protocol = Icmp /\ ip.icmp.type = EchoReply
        /\ Accepts(IcmpSum(ip.icmp), ip.icmp.checksum)
        /\ ip.icmp.data = ping.data

LearnedFrom(frame) ==
    IF frame.destination = Guest.mac /\ frame.etherType = "arp"
    THEN {<<frame.payload.senderProtocolAddress, frame.payload.senderHardwareAddress>>}
    ELSE {}

GuestReceives(sender) ==
    LET frame == NextFrame(Guest, sender)
    IN  /\ Takes(Guest, sender)
        /\ arpCache' = arpCache \cup LearnedFrom(frame)
        /\ answered' = answered \cup {p \in requested : AnswersPing(frame, p)}
        /\ UNCHANGED <<sent, asked, requested, others, deviceVars>>

----------------------------------------------------------------------------
(* The devices. *)

Goto(device, there) == state' = [state EXCEPT ![device] = there]

(***************************************************************************)
(* The demo's main joins the simulation: from the activation of its        *)
(* controller on the device gets frames, not those sent before.            *)
(***************************************************************************)
DeviceJoins(device) ==
    LET past == [n \in Nodes |-> Len(sent[n])]
    IN  /\ state[device] = "off"
        /\ seen' = [seen EXCEPT ![device] = past]
        /\ joined' = [joined EXCEPT ![device] = past]
        /\ Goto(device, "up")
        /\ UNCHANGED <<sent, guestVars>>

\* main returns before it joins: on --help, or because the configuration or SIL Kit throws.
DeviceFails(device) ==
    /\ state[device] = "off"
    /\ Goto(device, "ended")
    /\ UNCHANGED <<sent, seen, guestVars, joined>>

\* promptForExit returns; demoDevice is destroyed, then the participant with its handlers.
DeviceLeaves(device) ==
    /\ \/ state[device] \in {"up", "deaf"} /\ Goto(device, "destroyed")
       \/ state[device] = "destroyed" /\ Goto(device, "ended")
    /\ UNCHANGED <<sent, seen, guestVars, joined>>

(***************************************************************************)
(* The frame handler of a device.  An exception out of it reaches SIL Kit; *)
(* whether the device gets further frames after that is SIL Kit's choice.  *)
(***************************************************************************)
DeviceProcesses(device, sender) ==
    LET frame == NextFrame(device, sender)
    IN  /\ state[device] = "up"
        /\ Takes(device, sender)
        /\ Send(device, Replies(device, frame))
        /\ \/ UNCHANGED state
           \/ Throws(frame) /\ Goto(device, "deaf")
        /\ UNCHANGED <<guestVars, joined>>

(***************************************************************************)
(* The handler runs on a device that is destroyed: it may find it as it    *)
(* was, send nothing, or crash.                                            *)
(***************************************************************************)
DestroyedProcesses(device, sender) ==
    /\ state[device] = "destroyed"
    /\ Takes(device, sender)
    /\ \/ Send(device, Replies(device, NextFrame(device, sender))) /\ UNCHANGED state
       \/ UNCHANGED <<sent, state>>
       \/ UNCHANGED sent /\ Goto(device, "ended")
    /\ UNCHANGED <<guestVars, joined>>

GuestSends ==
    \/ \E p \in Pings : AskFor(p.target)
    \/ \E p \in Pings, entry \in arpCache : SendPing(p, entry[2])

Next ==
    \/ GuestSends
    \/ \E frame \in OtherFrames : SendOther(frame)
    \/ \E sender \in Devices : GuestReceives(sender)
    \/ \E device \in Devices :
        \/ DeviceJoins(device) \/ DeviceFails(device) \/ DeviceLeaves(device)
        \/ \E sender \in Nodes :
            DeviceProcesses(device, sender) \/ DestroyedProcesses(device, sender)

Spec == Init /\ [][Next]_vars

\* Frames are delivered and processed, and the guest sends what it has to send.
FairSpec ==
    /\ Spec
    /\ WF_vars(GuestSends)
    /\ \A d \in Devices :
        /\ WF_vars(GuestReceives(d))
        /\ \A n \in Nodes : WF_vars(DeviceProcesses(d, n))

----------------------------------------------------------------------------
\* A frame that asks this device for something, by ARP or with a ping.
RequestTo(device, frame) ==
    /\ ~Throws(frame)
    /\ \/ /\ EtherType(frame) = "arp" /\ frame.payload.operation = "request"
          /\ frame.payload.targetProtocolAddress = device.ip
       \/ /\ EtherType(frame) = "ip4" /\ frame.payload.protocol = Icmp
          /\ frame.payload.icmp.type = EchoRequest
          /\ frame.payload.destinationAddress = device.ip

\* The requests a device has seen of a sender since it joined, and of all of them.
RequestsFrom(device, sender) ==
    {i \in joined[device][sender] + 1 .. seen[device][sender] : RequestTo(device, sent[sender][i])}

RequestsSeen(device) == UNION {{n} \X RequestsFrom(device, n) : n \in Nodes \ {device}}

(***************************************************************************)
(* A device sends exactly one frame for each request to its own address    *)
(* and none for anything else: two devices never both answer, an answer is *)
(* never answered, so the network comes to rest.  A device that is being   *)
(* destroyed may leave requests without a reply.                           *)
(***************************************************************************)
OneReplyPerRequest ==
    \A d \in Devices :
        /\ Len(sent[d]) <= Cardinality(RequestsSeen(d))
        /\ state[d] \in {"up", "deaf"} => Len(sent[d]) = Cardinality(RequestsSeen(d))

(***************************************************************************)
(* A device never sends a frame that its own parsers would turn down, and  *)
(* a reply fits into the buffer of the request's size it is written to,    *)
(* whatever options or lengths the request has announced.                  *)
(***************************************************************************)
RepliesReadable ==
    \A d \in Devices : \A i \in DOMAIN sent[d] :
        LET frame == sent[d][i]
        IN  ~Throws(frame) /\ (frame.etherType = "ip4" => frame.payload.padding >= 0)

(***************************************************************************)
(* What the guest learns by ARP is true: the address it then sends its     *)
(* pings to is the one of the device that has the pinged IPv4 address.     *)
(***************************************************************************)
ArpCacheTruthful ==
    \A entry \in arpCache : \E d \in Devices : entry = <<d.ip, d.mac>>

(***************************************************************************)
(* Every ping gets a response the guest accepts, unless its device leaves  *)
(* or SIL Kit gives it no frames after an exception: what the other        *)
(* devices do does not matter.  The demo's README says so of all pings.    *)
(* It holds for the data of the run that passes; it does NOT for data      *)
(* whose sum carries a second time when folded.                            *)
(***************************************************************************)
Serves(ip) == \E d \in Devices : d.ip = ip /\ state[d] = "up"
PingAnswered ==
    \A p \in Pings : p \in requested ~> (p \in answered \/ ~Serves(p.target))
=============================================================================
