--------------------------- MODULE IcmpEchoDevice ---------------------------
(***************************************************************************)
(* demo::Device: what it makes of one Ethernet frame.  It answers ARP      *)
(* requests for its own IPv4 address and ICMP echo requests sent to it,    *)
(* ignores every other frame, and throws on one it cannot parse.           *)
(*                                                                         *)
(* A frame is a record of the fields the parsers extract; it is whole      *)
(* unless it ends inside a header.  An IPv4 packet is a header, an ICMP    *)
(* message (of which another protocol uses the data only) and the zeros    *)
(* that pad the frame, of which only the number is kept: the device adds   *)
(* them to its checksum, where they change nothing.                        *)
(***************************************************************************)
EXTENDS ChecksumArithmetic

----------------------------------------------------------------------------
(* Ethernet *)

\* The order of tags ParseEthernetHeader takes off; any other tag is left as the EtherType.
KnownTags == {<<>>, <<"8021ad">>, <<"8021q">>, <<"8021ad", "8021q">>}

EtherType(frame) ==
    IF [i \in DOMAIN frame.tags |-> frame.tags[i].tpid] \in KnownTags
    THEN frame.etherType
    ELSE "vlan"

\* The payload ends inside a header.
Short(frame) == ~frame.whole

\* The header of a reply is the request's but for the two addresses.
ReplyTo(frame, destination, source, payload) ==
    [frame EXCEPT !.destination = destination, !.source = source, !.payload = payload]

----------------------------------------------------------------------------
(* ARP *)

\* Hardware and protocol types and sizes, and the operation, are those of Ethernet and IPv4.
ArpThrows(frame) ==
    Short(frame) \/ ~frame.payload.forIp4 \/ frame.payload.operation \notin {"request", "reply"}

\* Mutant: the device answers for everyone.
ArpForAnyone(device, arp) == arp.operation = "request"

ArpForDevice(device, arp) ==
    arp.operation = "request" /\ arp.targetProtocolAddress = device.ip

\* Mutant: the device names the address that was asked of, not its own hardware address.
ArpReplyWithTarget(device, arp) ==
    [arp EXCEPT !.operation = "reply",
                !.senderHardwareAddress = arp.targetHardwareAddress,
                !.senderProtocolAddress = arp.targetProtocolAddress,
                !.targetHardwareAddress = arp.senderHardwareAddress,
                !.targetProtocolAddress = arp.senderProtocolAddress]

ArpReply(device, arp) ==
    [forIp4 |-> TRUE,
     operation |-> "reply",
     senderHardwareAddress |-> device.mac,
     senderProtocolAddress |-> device.ip,
     targetHardwareAddress |-> arp.senderHardwareAddress,
     targetProtocolAddress |-> arp.senderProtocolAddress]

ArpReplies(device, frame) ==
    IF ArpForDevice(device, frame.payload)
    THEN <<ReplyTo(frame, frame.payload.senderHardwareAddress, device.mac,
                   ArpReply(device, frame.payload))>>
    ELSE <<>>

----------------------------------------------------------------------------
(* IPv4 *)

Ip4HeaderSize == 20     \* the size of a header without options
IcmpHeaderSize == 4     \* type, code and checksum

\* How many bytes there are of the packet and behind it.
Ip4Size(ip) == ip.headerLength + IcmpHeaderSize + Len(ip.icmp.data) + ip.padding

EvenOffset(ip) == ip.fragmentOffset % 2 = 0

\* Mutant: a header length below the minimum is accepted.
LengthsOnlyAgree(ip) == ip.headerLength <= ip.totalLength => ip.totalLength <= Ip4Size(ip)

\* The lengths agree.  A total length below the header length is let through.
LengthsValid(ip) ==
    /\ ip.headerLength >= Ip4HeaderSize
    /\ ip.headerLength <= ip.totalLength => ip.totalLength <= Ip4Size(ip)

\* The lowest bit of the fragment offset is what the parser takes for the reserved flag.
Ip4Throws(frame) ==
    \/ Short(frame)
    \/ frame.payload.version # 4
    \/ ~LengthsValid(frame.payload)
    \/ ~EvenOffset(frame.payload)

\* The sum of the words of a header without options whose checksum is zero.
Ip4HeaderSum(ip) ==
    Pair(4 * 16 + 5, 0) + ip.totalLength + ip.identification
        + (IF ip.dontFragment THEN WordBase \div 4 ELSE 0)
        + (IF ip.moreFragments THEN WordBase \div 8 ELSE 0) + ip.fragmentOffset
        + Pair(ip.timeToLive, ip.protocol)
        + WordSum(ip.sourceAddress) + WordSum(ip.destinationAddress)

\* WriteIp4Header: always without options and with a new checksum.
WriteIp4Header(ip) ==
    [ip EXCEPT !.version = 4, !.headerLength = Ip4HeaderSize,
               !.checksum = ChecksumOf(Ip4HeaderSum(ip))]

----------------------------------------------------------------------------
(* ICMP *)

Icmp == 1               \* the IPv4 protocol number
EchoReply == 0
EchoRequest == 8

IcmpThrows(ip) == ip.protocol = Icmp /\ ~ip.icmp.whole

EchoForDevice(device, ip) ==
    /\ ip.protocol = Icmp /\ ip.icmp.type = EchoRequest
    /\ ip.destinationAddress = device.ip

\* The sum of the words of a message, header included, with a checksum of zero.
IcmpSum(icmp) == Pair(icmp.type, icmp.code) + WordSum(icmp.data)

\* Mutant: the checksum of the request is kept.
KeepChecksum(icmp) == icmp

PutChecksum(icmp) == [icmp EXCEPT !.checksum = ChecksumOf(IcmpSum(icmp))]

(***************************************************************************)
(* The reply has the size of the request.  Options of the request's header *)
(* are not copied, so as many zeros follow the message.                    *)
(***************************************************************************)
EchoReplies(device, frame) ==
    LET ip == frame.payload
        reply == [ip EXCEPT !.destinationAddress = ip.sourceAddress,
                            !.sourceAddress = device.ip,
                            !.icmp = PutChecksum([ip.icmp EXCEPT !.type = EchoReply]),
                            !.padding = @ + ip.headerLength - Ip4HeaderSize]
    IN  IF EchoForDevice(device, ip)
        THEN <<ReplyTo(frame, frame.source, device.mac, WriteIp4Header(reply))>>
        ELSE <<>>

----------------------------------------------------------------------------
(* What the parsers make of a frame that does not end inside a header. *)

IsIp4Packet(ip) ==
    /\ {"version", "headerLength", "totalLength", "fragmentOffset", "protocol", "checksum",
        "sourceAddress", "destinationAddress", "icmp", "padding"} \subseteq DOMAIN ip
    /\ ip.headerLength \in Nat /\ ip.totalLength \in Nat /\ ip.padding \in Nat
    /\ {"whole", "type", "code", "checksum", "data"} \subseteq DOMAIN ip.icmp
    /\ Len(ip.icmp.data) \in Nat

IsFrame(frame) ==
    /\ {"destination", "source", "tags", "etherType", "whole", "payload"} \subseteq DOMAIN frame
    /\ frame.whole /\ frame.etherType = "ip4" => IsIp4Packet(frame.payload)

----------------------------------------------------------------------------
(* Device::Process *)

\* The frame cannot be parsed: an exception leaves Process.
Throws(frame) ==
    \/ EtherType(frame) = "arp" /\ ArpThrows(frame)
    \/ EtherType(frame) = "ip4" /\ (Ip4Throws(frame) \/ IcmpThrows(frame.payload))

\* No reply, or one.
Replies(device, frame) ==
    CASE Throws(frame) -> <<>>
      [] ~Throws(frame) /\ EtherType(frame) = "arp" -> ArpReplies(device, frame)
      [] ~Throws(frame) /\ EtherType(frame) = "ip4" -> EchoReplies(device, frame)
      [] OTHER -> <<>>
=============================================================================
