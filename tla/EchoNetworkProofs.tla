------------------------- MODULE EchoNetworkProofs -------------------------
(***************************************************************************)
(* The echo devices on the simulated network, for every number of devices, *)
(* every guest and every frame it may send.                                *)
(*                                                                         *)
(* The argument: a device sends nothing but replies, and a reply, by ARP   *)
(* or to a ping, is in the device's own name, passes its own parsers and   *)
(* asks nobody for anything (OneAnswer, ReplyIsNoRequest).  So all         *)
(* requests come from the guest, and each frame a device takes changes its *)
(* own two numbers together: of requests seen, and of replies sent.        *)
(***************************************************************************)
EXTENDS EchoNetwork, FiniteSetTheorems, TLAPS

\* What a device may have sent: an answer in its own name that its parsers accept.
IsReply(device, frame) ==
    /\ IsFrame(frame) /\ ~Throws(frame)
    /\ \/ /\ EtherType(frame) = "arp" /\ frame.etherType = "arp"
          /\ frame.payload.operation = "reply"
          /\ frame.payload.senderProtocolAddress = device.ip
          /\ frame.payload.senderHardwareAddress = device.mac
       \/ /\ EtherType(frame) = "ip4" /\ frame.etherType = "ip4"
          /\ frame.payload.icmp.type = EchoReply /\ frame.payload.padding >= 0

\* The kinds of frames do not overlap.
LEMMA EtherTypeCases ==
    ASSUME NEW frame
    PROVE  /\ EtherType(frame) = "arp" => frame.etherType = "arp"
           /\ EtherType(frame) = "ip4" => frame.etherType = "ip4"
  BY DEF EtherType

\* The header of a reply.
LEMMA ReplyHeader ==
    ASSUME NEW frame, IsFrame(frame), NEW destination, NEW source, NEW payload,
           NEW reply, reply = ReplyTo(frame, destination, source, payload)
    PROVE  /\ EtherType(reply) = EtherType(frame) /\ reply.etherType = frame.etherType
           /\ reply.whole = frame.whole /\ reply.payload = payload
           /\ DOMAIN reply = DOMAIN frame
  <1>1. /\ reply.etherType = frame.etherType /\ reply.tags = frame.tags
        /\ reply.whole = frame.whole /\ reply.payload = payload
        /\ DOMAIN reply = DOMAIN frame
    BY DEF ReplyTo, IsFrame
  <1>2. EtherType(reply) = EtherType(frame)
    BY <1>1, Zenon DEF EtherType
  <1> QED
    BY <1>1, <1>2

\* An ARP request for the device's address is answered in its name, nothing else by ARP is.
LEMMA ArpAnswer ==
    ASSUME NEW device, NEW frame, IsFrame(frame), ~Throws(frame), EtherType(frame) = "arp"
    PROVE  \/ ~RequestTo(device, frame) /\ ArpReplies(device, frame) = <<>>
           \/ /\ RequestTo(device, frame)
              /\ \E reply : ArpReplies(device, frame) = <<reply>> /\ IsReply(device, reply)
  <1>1. RequestTo(device, frame) <=> ArpForDevice(device, frame.payload)
    BY DEF RequestTo, ArpForDevice
  <1>2. CASE ~ArpForDevice(device, frame.payload)
    BY <1>1, <1>2 DEF ArpReplies
  <1>3. CASE ArpForDevice(device, frame.payload)
    <2> DEFINE arp == ArpReply(device, frame.payload)
               reply == ReplyTo(frame, frame.payload.senderHardwareAddress, device.mac, arp)
    <2>1. /\ arp.forIp4 /\ arp.operation = "reply"
          /\ arp.senderProtocolAddress = device.ip /\ arp.senderHardwareAddress = device.mac
      BY DEF ArpReply
    <2>2. /\ EtherType(reply) = "arp" /\ reply.etherType = "arp"
          /\ reply.whole = frame.whole /\ reply.payload = arp
          /\ DOMAIN reply = DOMAIN frame
      <3>1. reply = ReplyTo(frame, frame.payload.senderHardwareAddress, device.mac, arp)
        OBVIOUS
      <3> HIDE DEF arp, reply
      <3>2. EtherType(reply) = EtherType(frame) /\ reply.etherType = frame.etherType
            /\ reply.whole = frame.whole /\ reply.payload = arp /\ DOMAIN reply = DOMAIN frame
        BY <3>1, ReplyHeader
      <3> QED
        BY <3>2, EtherTypeCases, Zenon
    <2>3. frame.whole
      BY DEF Throws, ArpThrows, Short
    <2>4. ArpReplies(device, frame) = <<reply>>
      BY <1>3, Zenon DEF ArpReplies
    <2> HIDE DEF arp, reply
    <2>5. ~Throws(reply)
      BY <2>1, <2>2, <2>3 DEF Throws, ArpThrows, Short
    <2>6. IsFrame(reply)
      BY <2>2 DEF IsFrame
    <2>7. IsReply(device, reply)
      BY <2>1, <2>2, <2>5, <2>6, Zenon DEF IsReply
    <2> QED
      BY <1>1, <1>3, <2>4, <2>7, Zenon
  <1> QED
    BY <1>2, <1>3

\* A ping to the device's address is answered with a packet the device itself would accept.
LEMMA EchoAnswer ==
    ASSUME NEW device, NEW frame, IsFrame(frame), ~Throws(frame), EtherType(frame) = "ip4"
    PROVE  \/ ~RequestTo(device, frame) /\ EchoReplies(device, frame) = <<>>
           \/ /\ RequestTo(device, frame)
              /\ \E reply : EchoReplies(device, frame) = <<reply>> /\ IsReply(device, reply)
  <1> DEFINE ip == frame.payload
  <1>0. /\ frame.whole /\ ip.version = 4 /\ LengthsValid(ip) /\ EvenOffset(ip)
        /\ ip.protocol = Icmp => ip.icmp.whole
    BY DEF Throws, Ip4Throws, IcmpThrows, Short
  <1>1. RequestTo(device, frame) <=> EchoForDevice(device, ip)
    BY DEF RequestTo, EchoForDevice
  <1>2. CASE ~EchoForDevice(device, ip)
    BY <1>1, <1>2, Zenon DEF EchoReplies
  <1>3. CASE EchoForDevice(device, ip)
    <2> DEFINE icmp == PutChecksum([ip.icmp EXCEPT !.type = EchoReply])
               made == [ip EXCEPT !.destinationAddress = ip.sourceAddress,
                                  !.sourceAddress = device.ip, !.icmp = icmp,
                                  !.padding = @ + ip.headerLength - Ip4HeaderSize]
               packet == WriteIp4Header(made)
               reply == ReplyTo(frame, frame.source, device.mac, packet)
    <2>1. EchoReplies(device, frame) = <<reply>>
      BY <1>3, Zenon DEF EchoReplies
    <2>2. IsIp4Packet(ip)
      BY <1>0, EtherTypeCases DEF IsFrame
    <2>3. /\ icmp.type = EchoReply /\ icmp.whole = ip.icmp.whole /\ icmp.data = ip.icmp.data
          /\ DOMAIN icmp = DOMAIN ip.icmp
      BY <2>2 DEF IsIp4Packet, PutChecksum
    <2> HIDE DEF icmp
    <2>4. /\ made.icmp = icmp /\ made.padding = ip.padding + ip.headerLength - Ip4HeaderSize
          /\ made.totalLength = ip.totalLength /\ made.fragmentOffset = ip.fragmentOffset
          /\ made.protocol = ip.protocol /\ DOMAIN made = DOMAIN ip
      BY <2>2 DEF IsIp4Packet
    <2> HIDE DEF made
    <2>5. /\ packet.icmp = icmp /\ packet.padding = made.padding
          /\ packet.totalLength = ip.totalLength /\ packet.fragmentOffset = ip.fragmentOffset
          /\ packet.protocol = ip.protocol /\ DOMAIN packet = DOMAIN ip
          /\ packet.version = 4 /\ packet.headerLength = Ip4HeaderSize
      BY <2>2, <2>4 DEF IsIp4Packet, WriteIp4Header
    <2> HIDE DEF packet
    <2>6. /\ EtherType(reply) = "ip4" /\ reply.etherType = "ip4" /\ reply.whole
          /\ reply.payload = packet /\ DOMAIN reply = DOMAIN frame
      <3>1. reply = ReplyTo(frame, frame.source, device.mac, packet)
        OBVIOUS
      <3> HIDE DEF reply
      <3>2. EtherType(reply) = EtherType(frame) /\ reply.etherType = frame.etherType
            /\ reply.whole = frame.whole /\ reply.payload = packet /\ DOMAIN reply = DOMAIN frame
        BY <3>1, ReplyHeader
      <3> QED
        BY <1>0, <3>2, EtherTypeCases, Zenon
    <2> HIDE DEF reply
    <2>7. /\ ip.headerLength \in Nat /\ ip.totalLength \in Nat /\ ip.padding \in Nat
          /\ Len(ip.icmp.data) \in Nat
      BY <2>2, Zenon DEF IsIp4Packet
    <2>8. packet.padding \in Nat /\ LengthsValid(packet)
      <3> DEFINE header == ip.headerLength
                 total == ip.totalLength
                 pad == ip.padding
                 data == Len(ip.icmp.data)
      <3>1. /\ header >= 20
            /\ header <= total => total <= header + 4 + data + pad
        BY <1>0 DEF LengthsValid, Ip4Size, Ip4HeaderSize, IcmpHeaderSize
      <3>2. packet.padding = pad + header - 20 /\ packet.headerLength = 20
            /\ packet.totalLength = total /\ Len(packet.icmp.data) = data
        BY <2>3, <2>4, <2>5 DEF Ip4HeaderSize
      <3> HIDE DEF header, total, pad, data
      <3>3. header \in Nat /\ total \in Nat /\ pad \in Nat /\ data \in Nat
        BY <2>7 DEF header, total, pad, data
      <3>4. pad + header - 20 \in Nat /\ (20 <= total => total <= 20 + 4 + data + (pad + header - 20))
        BY <3>1, <3>3
      <3> QED
        BY <3>2, <3>4 DEF LengthsValid, Ip4Size, Ip4HeaderSize, IcmpHeaderSize
    <2>9. IsIp4Packet(packet)
      <3>1. packet.headerLength \in Nat /\ packet.totalLength \in Nat
        BY <2>5, <2>7 DEF Ip4HeaderSize
      <3>2. DOMAIN packet.icmp = DOMAIN ip.icmp /\ Len(packet.icmp.data) \in Nat
        BY <2>3, <2>5, <2>7
      <3>3. DOMAIN packet = DOMAIN ip
        BY <2>5
      <3> QED
        BY <2>2, <2>8, <3>1, <3>2, <3>3, Zenon DEF IsIp4Packet
    <2>10. IsFrame(reply)
      BY <2>6, <2>9, Zenon DEF IsFrame
    <2>11. ~Throws(reply)
      <3>1. ~Ip4Throws(reply)
        BY <2>5, <2>6, <2>8, <1>0 DEF Ip4Throws, Short, EvenOffset
      <3>2. ~IcmpThrows(reply.payload)
        BY <2>3, <2>5, <2>6, <1>0 DEF IcmpThrows
      <3> QED
        BY <2>6, <3>1, <3>2 DEF Throws
    <2>12. reply.payload.icmp.type = EchoReply /\ reply.payload.padding >= 0
      BY <2>3, <2>5, <2>6, <2>8
    <2>13. IsReply(device, reply)
      BY <2>6, <2>10, <2>11, <2>12, Zenon DEF IsReply
    <2> QED
      BY <1>1, <1>3, <2>1, <2>13, Zenon
  <1> QED
    BY <1>2, <1>3

\* A device answers a request to it with one reply, and nothing else at all.
LEMMA OneAnswer ==
    ASSUME NEW device, NEW frame, IsFrame(frame)
    PROVE  \/ ~RequestTo(device, frame) /\ Replies(device, frame) = <<>>
           \/ /\ RequestTo(device, frame)
              /\ \E reply : Replies(device, frame) = <<reply>> /\ IsReply(device, reply)
  <1>1. CASE Throws(frame)
    BY <1>1, Zenon DEF Replies, RequestTo
  <1>2. CASE ~Throws(frame) /\ EtherType(frame) = "arp"
    <2>1. EtherType(frame) # "ip4"
      BY <1>2
    <2>2. Replies(device, frame) = ArpReplies(device, frame)
      BY <1>2, <2>1, Zenon DEF Replies
    <2> QED
      BY <1>2, <2>2, ArpAnswer, Zenon
  <1>3. CASE ~Throws(frame) /\ EtherType(frame) = "ip4"
    <2>1. EtherType(frame) # "arp"
      BY <1>3
    <2>2. Replies(device, frame) = EchoReplies(device, frame)
      BY <1>3, <2>1, Zenon DEF Replies
    <2> QED
      BY <1>3, <2>2, EchoAnswer, Zenon
  <1>4. CASE ~Throws(frame) /\ EtherType(frame) # "arp" /\ EtherType(frame) # "ip4"
    BY <1>4, Zenon DEF Replies, RequestTo
  <1> QED
    BY <1>1, <1>2, <1>3, <1>4

\* A reply asks nobody for anything.
LEMMA ReplyIsNoRequest ==
    ASSUME NEW device, NEW other, NEW frame, IsReply(device, frame)
    PROVE  ~RequestTo(other, frame)
  BY DEF IsReply, RequestTo, EchoReply, EchoRequest


----------------------------------------------------------------------------
(* The invariant. *)

\* The elements are whatever they are; that there is a first, a second and so on is said.
IsSequence(s) == s \in Seq({s[i] : i \in DOMAIN s})

\* Where a device's process may be.
States == {"off", "up", "deaf", "destroyed", "ended"}

\* Nobody is ahead of a sender, nor a device behind the place it joined at.
Counters ==
    /\ DOMAIN sent = Nodes
    /\ seen \in [Nodes -> [Nodes -> Nat]]
    /\ joined \in [Devices -> [Nodes -> Nat]]
    /\ state \in [Devices -> States]
    /\ \A n, m \in Nodes : seen[n][m] <= Len(sent[m])
    /\ \A d \in Devices : joined[d][Guest] <= seen[d][Guest]
    /\ \A d \in Devices : state[d] = "off" => sent[d] = <<>>

\* What is sent are frames.
Frames == \A n \in Nodes : IsSequence(sent[n]) /\ \A i \in 1 .. Len(sent[n]) : IsFrame(sent[n][i])

\* Devices only answer.
DevicesReply == \A d \in Devices : \A i \in 1 .. Len(sent[d]) : IsReply(d, sent[d][i])

\* The guest's requests are the only ones, and they have been answered.
Balanced(d) ==
    /\ Len(sent[d]) <= Cardinality(RequestsFrom(d, Guest))
    /\ state[d] \in {"up", "deaf"} => Len(sent[d]) = Cardinality(RequestsFrom(d, Guest))

IInv ==
    /\ Counters
    /\ Frames
    /\ DevicesReply
    /\ \A d \in Devices : Balanced(d)
    /\ ArpCacheTruthful

\* A sequence with one element more.
LEMMA OneMore ==
    ASSUME NEW s, IsSequence(s), NEW x
    PROVE  /\ IsSequence(s \o <<x>>) /\ Len(s \o <<x>>) = Len(s) + 1 /\ Len(s) \in Nat
           /\ \A i \in 1 .. Len(s) : (s \o <<x>>)[i] = s[i]
           /\ (s \o <<x>>)[Len(s) + 1] = x
  <1> DEFINE S == {s[i] : i \in DOMAIN s} \cup {x}
             t == s \o <<x>>
  <1>1. s \in Seq(S) /\ <<x>> \in Seq(S) /\ Len(<<x>>) = 1 /\ <<x>>[1] = x
    BY DEF IsSequence
  <1> HIDE DEF S
  <1>2. /\ Len(s) \in Nat /\ t \in Seq(S) /\ Len(t) = Len(s) + 1
        /\ \A i \in 1 .. Len(s) : t[i] = s[i]
        /\ t[Len(s) + 1] = x
    BY <1>1
  <1> HIDE DEF t
  <1>3. t \in Seq({t[i] : i \in DOMAIN t})
    BY <1>2
  <1> QED
    BY <1>2, <1>3 DEF IsSequence, t

\* Nothing sent, nothing changed.
LEMMA NoMore ==
    ASSUME NEW s, IsSequence(s)
    PROVE  s \o <<>> = s /\ Len(s) \in Nat /\ DOMAIN s = 1 .. Len(s)
  BY DEF IsSequence

\* A node takes a frame that the sender has sent, and only its own count for that sender goes up.
LEMMA TakesNext ==
    ASSUME Counters, Frames, NEW node \in Nodes, NEW sender \in Nodes, Takes(node, sender)
    PROVE  /\ IsFrame(NextFrame(node, sender)) /\ node # sender
           /\ seen[node][sender] \in Nat /\ seen[node][sender] + 1 \in 1 .. Len(sent[sender])
           /\ seen' \in [Nodes -> [Nodes -> Nat]]
           /\ seen'[node][sender] = seen[node][sender] + 1
           /\ \A n, m \in Nodes : n # node \/ m # sender => seen'[n][m] = seen[n][m]
  <1>1. /\ node # sender /\ seen[node][sender] < Len(sent[sender])
        /\ seen' = [seen EXCEPT ![node][sender] = @ + 1]
    BY DEF Takes
  <1>2. seen \in [Nodes -> [Nodes -> Nat]] /\ seen[node][sender] \in Nat
    BY DEF Counters
  <1>3. Len(sent[sender]) \in Nat
    BY NoMore, Zenon DEF Frames
  <1>4. seen[node][sender] + 1 \in 1 .. Len(sent[sender])
    BY <1>1, <1>2, <1>3
  <1>5. IsFrame(NextFrame(node, sender))
    BY <1>4, Zenon DEF Frames, NextFrame
  <1>6. /\ seen' \in [Nodes -> [Nodes -> Nat]]
        /\ seen'[node][sender] = seen[node][sender] + 1
        /\ \A n, m \in Nodes : n # node \/ m # sender => seen'[n][m] = seen[n][m]
    BY <1>1, <1>2
  <1> QED
    BY <1>1, <1>2, <1>4, <1>5, <1>6

\* The requests seen so far do not change when frames are only added and no count changes.
LEMMA SameRequests ==
    ASSUME Counters, Frames, NEW d \in Devices, joined'[d][Guest] = joined[d][Guest],
           seen'[d][Guest] = seen[d][Guest],
           \A i \in 1 .. Len(sent[Guest]) : sent'[Guest][i] = sent[Guest][i]
    PROVE  RequestsFrom(d, Guest)' = RequestsFrom(d, Guest)
  <1>1. /\ joined[d][Guest] \in Nat /\ seen[d][Guest] \in Nat
        /\ seen[d][Guest] <= Len(sent[Guest])
    BY DEF Counters, Nodes
  <1>2. Len(sent[Guest]) \in Nat
    BY NoMore, Zenon DEF Frames, Nodes
  <1>3. \A i \in joined[d][Guest] + 1 .. seen[d][Guest] : sent'[Guest][i] = sent[Guest][i]
    BY <1>1, <1>2
  <1> QED
    BY <1>3 DEF RequestsFrom

\* There are finitely many of them.
LEMMA FiniteRequests ==
    ASSUME Counters, NEW d \in Devices
    PROVE  /\ IsFiniteSet(RequestsFrom(d, Guest)) /\ Cardinality(RequestsFrom(d, Guest)) \in Nat
  <1>1. joined[d][Guest] + 1 \in Int /\ seen[d][Guest] \in Int
    BY DEF Counters, Nodes
  <1>2. IsFiniteSet(joined[d][Guest] + 1 .. seen[d][Guest])
    BY <1>1, FS_Interval
  <1>3. RequestsFrom(d, Guest) \subseteq joined[d][Guest] + 1 .. seen[d][Guest]
    BY DEF RequestsFrom
  <1> QED
    BY <1>2, <1>3, FS_Subset, FS_CardinalityType

\* Devices ask for nothing, so what a device counts are the guest's requests.
LEMMA OnlyGuestAsks ==
    ASSUME Counters, Frames, DevicesReply, NEW d \in Devices
    PROVE  Cardinality(RequestsSeen(d)) = Cardinality(RequestsFrom(d, Guest))
  <1>1. Guest \in Nodes \ {d}
    BY GuestAssumption DEF Nodes
  <1>2. ASSUME NEW n \in Nodes \ {d}, n # Guest PROVE RequestsFrom(d, n) = {}
    <2>1. n \in Devices
      BY <1>2 DEF Nodes
    <2> SUFFICES ASSUME NEW i \in RequestsFrom(d, n) PROVE FALSE
      OBVIOUS
    <2>2. i \in joined[d][n] + 1 .. seen[d][n] /\ RequestTo(d, sent[n][i])
      BY DEF RequestsFrom
    <2>3. joined[d][n] \in Nat /\ seen[d][n] \in Nat /\ seen[d][n] <= Len(sent[n])
      BY DEF Counters, Nodes
    <2>4. Len(sent[n]) \in Nat
      BY NoMore, Zenon DEF Frames
    <2>5. i \in 1 .. Len(sent[n])
      BY <2>2, <2>3, <2>4
    <2> QED
      BY <2>1, <2>2, <2>5, ReplyIsNoRequest, Zenon DEF DevicesReply
  <1>3. RequestsSeen(d) = {Guest} \X RequestsFrom(d, Guest)
    BY <1>1, <1>2 DEF RequestsSeen
  <1>4. /\ Cardinality({Guest}) = 1 /\ IsFiniteSet({Guest})
        /\ IsFiniteSet(RequestsFrom(d, Guest)) /\ Cardinality(RequestsFrom(d, Guest)) \in Nat
    BY FS_Singleton, FiniteRequests
  <1>5. Cardinality(RequestsSeen(d)) = Cardinality({Guest}) * Cardinality(RequestsFrom(d, Guest))
    BY <1>3, <1>4, FS_Product, Zenon
  <1> QED
    BY <1>4, <1>5


----------------------------------------------------------------------------
(* The guest. *)

\* The guest is one of the nodes and no device.
LEMMA GuestIsNoDevice == Guest \in Nodes /\ Devices \subseteq Nodes /\ Guest \notin Devices
  BY GuestAssumption DEF Nodes

\* Whatever frame the guest sends: no device has seen it yet.
LEMMA GuestFrame ==
    ASSUME IInv, NEW frame, IsFrame(frame), Send(Guest, <<frame>>),
           UNCHANGED <<seen, arpCache, joined, state>>
    PROVE  IInv'
  <1> USE GuestIsNoDevice
  <1>0. Counters /\ Frames /\ DevicesReply
    BY DEF IInv
  <1> DEFINE old == sent[Guest]
             new == old \o <<frame>>
  <1>1. /\ IsSequence(new) /\ Len(new) = Len(old) + 1 /\ Len(old) \in Nat
        /\ \A i \in 1 .. Len(old) : new[i] = old[i]
        /\ new[Len(old) + 1] = frame
    <2>1. IsSequence(old)
      BY <1>0 DEF Frames
    <2> QED
      BY <2>1, OneMore, Zenon
  <1>2. /\ DOMAIN sent' = Nodes /\ sent'[Guest] = new
        /\ \A n \in Nodes : n # Guest => sent'[n] = sent[n]
    BY <1>0 DEF Send, Counters
  <1> HIDE DEF new
  <1>3. \A m \in Nodes : Len(sent[m]) \in Nat /\ Len(sent'[m]) >= Len(sent[m])
    BY <1>0, <1>1, <1>2, NoMore DEF Frames
  <1>4. Counters'
    <2>1. \A n, m \in Nodes : seen[n][m] <= Len(sent'[m])
      <3>1. \A n, m \in Nodes : seen[n][m] \in Nat /\ seen[n][m] <= Len(sent[m])
        BY <1>0 DEF Counters
      <3>2. ASSUME NEW n \in Nodes, NEW m \in Nodes PROVE seen[n][m] <= Len(sent'[m])
        <4>1. CASE m = Guest
          BY <1>1, <1>2, <3>1, <4>1
        <4>2. CASE m # Guest
          BY <1>2, <3>1, <4>2
        <4> QED
          BY <4>1, <4>2
      <3> QED
        BY <3>2
    <2>2. \A d \in Devices : state[d] = "off" => sent'[d] = <<>>
      BY <1>0, <1>2 DEF Counters
    <2> QED
      BY <1>0, <1>2, <2>1, <2>2 DEF Counters
  <1>5. Frames'
    <2>1. \A i \in 1 .. Len(new) : IsFrame(new[i])
      <3> SUFFICES ASSUME NEW i \in 1 .. Len(new) PROVE IsFrame(new[i])
        OBVIOUS
      <3>1. CASE i \in 1 .. Len(old)
        BY <1>0, <1>1, <3>1, Zenon DEF Frames
      <3>2. CASE i = Len(old) + 1
        BY <1>1, <3>2
      <3> QED
        BY <1>1, <3>1, <3>2
    <2>2. ASSUME NEW n \in Nodes
          PROVE  IsSequence(sent'[n]) /\ \A i \in 1 .. Len(sent'[n]) : IsFrame(sent'[n][i])
      <3>1. CASE n = Guest
        BY <1>1, <1>2, <2>1, <3>1
      <3>2. CASE n # Guest
        BY <1>0, <1>2, <3>2, Zenon DEF Frames
      <3> QED
        BY <3>1, <3>2
    <2> QED
      BY <2>2, Zenon DEF Frames
  <1>6. \A d \in Devices : sent'[d] = sent[d]
    BY <1>2
  <1>7. DevicesReply'
    BY <1>0, <1>6 DEF DevicesReply
  <1>8. ASSUME NEW d \in Devices PROVE Balanced(d)'
    <2>1. RequestsFrom(d, Guest)' = RequestsFrom(d, Guest)
      BY <1>0, <1>1, <1>2, SameRequests
    <2>2. Balanced(d)
      BY DEF IInv
    <2> QED
      BY <1>6, <2>1, <2>2, Zenon DEF Balanced
  <1>9. ArpCacheTruthful'
    BY DEF IInv, ArpCacheTruthful
  <1> QED
    BY <1>4, <1>5, <1>7, <1>8, <1>9, Zenon DEF IInv

\* The guest's own frames are whole and have all fields.
LEMMA GuestFramesAreFrames ==
    /\ \A target : IsFrame(ArpRequest(target))
    /\ \A p \in Pings : \A mac : IsFrame(EchoRequestFrame(p, mac))
  <1>1. ASSUME NEW target PROVE IsFrame(ArpRequest(target))
    BY DEF ArpRequest, IsFrame
  <1>2. ASSUME NEW p \in Pings, NEW mac PROVE IsFrame(EchoRequestFrame(p, mac))
    <2> DEFINE frame == EchoRequestFrame(p, mac)
               ip == frame.payload
               size == Ip4HeaderSize + IcmpHeaderSize + Len(p.data)
    <2>1. Len(p.data) \in Nat
      BY PingsAssumption
    <2>2. size \in Nat /\ Padding(size) \in Nat
      BY <2>1, PaddedSizeAssumption DEF Ip4HeaderSize, IcmpHeaderSize, Padding
    <2>3. /\ {"destination", "source", "tags", "etherType", "whole", "payload"} \subseteq DOMAIN frame
          /\ {"version", "headerLength", "totalLength", "fragmentOffset", "protocol", "checksum",
              "sourceAddress", "destinationAddress", "icmp", "padding"} \subseteq DOMAIN ip
      BY DEF EchoRequestFrame
    <2>4. /\ ip.headerLength = Ip4HeaderSize /\ ip.totalLength = size /\ ip.padding = Padding(size)
      BY DEF EchoRequestFrame
    <2>5. /\ {"whole", "type", "code", "checksum", "data"} \subseteq DOMAIN ip.icmp
          /\ ip.icmp.data = p.data
      BY DEF EchoRequestFrame
    <2> HIDE DEF frame, ip, size
    <2>6. ip.headerLength \in Nat
      BY <2>4 DEF Ip4HeaderSize
    <2>7. IsIp4Packet(ip)
      BY <2>1, <2>2, <2>3, <2>4, <2>5, <2>6, Zenon DEF IsIp4Packet
    <2>8. IsFrame(frame)
      BY <2>3, <2>7, Zenon DEF IsFrame, ip
    <2> QED
      BY <2>8 DEF frame
  <1> QED
    BY <1>1, <1>2, Zenon

\* What the guest learns from a device's frame names that device.
LEMMA GuestLearns ==
    ASSUME IInv, NEW sender \in Devices, GuestReceives(sender)
    PROVE  IInv'
  <1> USE GuestIsNoDevice
  <1>0. Counters /\ Frames /\ DevicesReply
    BY DEF IInv
  <1> DEFINE frame == NextFrame(Guest, sender)
  <1>1. /\ Takes(Guest, sender) /\ arpCache' = arpCache \cup LearnedFrom(frame)
        /\ UNCHANGED <<sent, joined, state>>
    BY DEF GuestReceives, deviceVars
  <1>2. /\ seen[Guest][sender] + 1 \in 1 .. Len(sent[sender])
        /\ seen' \in [Nodes -> [Nodes -> Nat]]
        /\ seen'[Guest][sender] = seen[Guest][sender] + 1
        /\ \A n, m \in Nodes : n # Guest \/ m # sender => seen'[n][m] = seen[n][m]
    BY <1>0, <1>1, TakesNext, Zenon
  <1>3. Counters'
    <2>1. ASSUME NEW n \in Nodes, NEW m \in Nodes PROVE seen'[n][m] <= Len(sent[m])
      <3>1. CASE n = Guest /\ m = sender
        BY <1>2, <3>1
      <3>2. CASE n # Guest \/ m # sender
        BY <1>0, <1>2, <3>2, Zenon DEF Counters
      <3> QED
        BY <3>1, <3>2
    <2>2. \A d \in Devices : joined[d][Guest] <= seen'[d][Guest]
      BY <1>0, <1>2 DEF Counters
    <2> QED
      BY <1>0, <1>1, <1>2, <2>1, <2>2 DEF Counters
  <1>4. Frames' /\ DevicesReply'
    BY <1>0, <1>1, Zenon DEF Frames, DevicesReply
  <1>5. ASSUME NEW d \in Devices PROVE Balanced(d)'
    <2>1. RequestsFrom(d, Guest)' = RequestsFrom(d, Guest)
      BY <1>0, <1>1, <1>2, SameRequests
    <2>2. Balanced(d)
      BY DEF IInv
    <2> QED
      BY <1>1, <2>1, <2>2, Zenon DEF Balanced
  <1>6. ArpCacheTruthful'
    <2>1. IsReply(sender, frame)
      BY <1>0, <1>2, Zenon DEF DevicesReply, NextFrame
    <2>2. LearnedFrom(frame) \subseteq {<<sender.ip, sender.mac>>}
      BY <2>1 DEF LearnedFrom, IsReply
    <2> QED
      BY <1>1, <2>2 DEF IInv, ArpCacheTruthful
  <1> QED
    BY <1>3, <1>4, <1>5, <1>6, Zenon DEF IInv

----------------------------------------------------------------------------
(* The devices. *)

\* A device that joins has no requests to answer, whatever was sent before.
LEMMA Joins ==
    ASSUME IInv, NEW device \in Devices, DeviceJoins(device)
    PROVE  IInv'
  <1> USE GuestIsNoDevice
  <1>0. Counters /\ Frames /\ DevicesReply
    BY DEF IInv
  <1> DEFINE past == [n \in Nodes |-> Len(sent[n])]
  <1>1. /\ state[device] = "off" /\ state' = [state EXCEPT ![device] = "up"]
        /\ seen' = [seen EXCEPT ![device] = past] /\ joined' = [joined EXCEPT ![device] = past]
        /\ UNCHANGED <<sent, arpCache>>
    BY DEF DeviceJoins, Goto, guestVars
  <1>2. past \in [Nodes -> Nat] /\ \A m \in Nodes : past[m] = Len(sent[m])
    BY <1>0, NoMore DEF Frames
  <1>3. \A m \in Nodes : Len(sent[m]) \in Nat
    BY <1>0, NoMore, Zenon DEF Frames
  <1> HIDE DEF past
  <1>4. /\ seen' \in [Nodes -> [Nodes -> Nat]] /\ joined' \in [Devices -> [Nodes -> Nat]]
        /\ state' \in [Devices -> States]
        /\ seen'[device] = past /\ joined'[device] = past /\ state'[device] = "up"
        /\ \A n \in Nodes : n # device => seen'[n] = seen[n]
        /\ \A d \in Devices : d # device => joined'[d] = joined[d] /\ state'[d] = state[d]
    BY <1>0, <1>1, <1>2 DEF Counters, States
  <1>5. Counters'
    <2>1. ASSUME NEW n \in Nodes, NEW m \in Nodes PROVE seen'[n][m] <= Len(sent[m])
      <3>1. CASE n = device
        BY <1>2, <1>3, <1>4, <3>1
      <3>2. CASE n # device
        BY <1>0, <1>4, <3>2 DEF Counters
      <3> QED
        BY <3>1, <3>2
    <2>2. ASSUME NEW d \in Devices PROVE joined'[d][Guest] <= seen'[d][Guest]
      <3>1. CASE d = device
        BY <1>2, <1>3, <1>4, <3>1
      <3>2. CASE d # device
        BY <1>0, <1>4, <3>2 DEF Counters
      <3> QED
        BY <3>1, <3>2
    <2>3. \A d \in Devices : state'[d] = "off" => sent[d] = <<>>
      BY <1>0, <1>4 DEF Counters
    <2> QED
      BY <1>0, <1>1, <1>4, <2>1, <2>2, <2>3 DEF Counters
  <1>6. Frames' /\ DevicesReply'
    BY <1>0, <1>1, Zenon DEF Frames, DevicesReply
  <1>7. ASSUME NEW d \in Devices PROVE Balanced(d)'
    <2>1. CASE d = device
      <3>1. RequestsFrom(d, Guest)' = {}
        BY <1>2, <1>3, <1>4, <2>1 DEF RequestsFrom
      <3>2. Cardinality({}) = 0
        BY FS_EmptySet, Zenon
      <3>3. sent'[d] = <<>>
        BY <1>0, <1>1, <2>1 DEF Counters
      <3>4. Len(sent'[d]) = 0
        BY <3>3
      <3>5. Len(sent'[d]) <= Cardinality(RequestsFrom(d, Guest)') /\ Len(sent'[d]) = Cardinality(RequestsFrom(d, Guest)')
        BY <3>1, <3>2, <3>4
      <3> QED
        BY <3>5, Zenon DEF Balanced
    <2>2. CASE d # device
      <3>1. RequestsFrom(d, Guest)' = RequestsFrom(d, Guest)
        BY <1>0, <1>1, <1>4, <2>2, SameRequests
      <3>2. Balanced(d)
        BY DEF IInv
      <3> QED
        BY <1>1, <1>4, <2>2, <3>1, <3>2, Zenon DEF Balanced
    <2> QED
      BY <2>1, <2>2
  <1>8. ArpCacheTruthful'
    BY <1>1 DEF IInv, ArpCacheTruthful
  <1> QED
    BY <1>5, <1>6, <1>7, <1>8, Zenon DEF IInv

\* A device that fails or goes away sends nothing more and owes nothing.
LEMMA Leaves ==
    ASSUME IInv, NEW device \in Devices, DeviceFails(device) \/ DeviceLeaves(device)
    PROVE  IInv'
  <1> USE GuestIsNoDevice
  <1>0. Counters /\ Frames /\ DevicesReply
    BY DEF IInv
  <1>1. UNCHANGED <<sent, seen, joined, arpCache>>
    BY DEF DeviceFails, DeviceLeaves, guestVars
  <1>2. PICK there \in {"destroyed", "ended"} : state' = [state EXCEPT ![device] = there]
    BY DEF DeviceFails, DeviceLeaves, Goto
  <1>3. /\ state' \in [Devices -> States] /\ state'[device] \notin {"off", "up", "deaf"}
        /\ \A d \in Devices : d # device => state'[d] = state[d]
    BY <1>0, <1>2 DEF Counters, States
  <1>4. Counters'
    <2>1. \A d \in Devices : state'[d] = "off" => sent[d] = <<>>
      BY <1>0, <1>3 DEF Counters
    <2> QED
      BY <1>0, <1>1, <1>3, <2>1 DEF Counters
  <1>5. Frames' /\ DevicesReply'
    BY <1>0, <1>1, Zenon DEF Frames, DevicesReply
  <1>6. ASSUME NEW d \in Devices PROVE Balanced(d)'
    <2>1. RequestsFrom(d, Guest)' = RequestsFrom(d, Guest)
      BY <1>1, Zenon DEF RequestsFrom
    <2>2. Balanced(d)
      BY DEF IInv
    <2>3. state'[d] \in {"up", "deaf"} => state[d] \in {"up", "deaf"}
      BY <1>3
    <2> QED
      BY <1>1, <2>1, <2>2, <2>3, Zenon DEF Balanced
  <1>7. ArpCacheTruthful'
    BY <1>1 DEF IInv, ArpCacheTruthful
  <1> QED
    BY <1>4, <1>5, <1>6, <1>7, Zenon DEF IInv


\* The requests seen of the guest after one more frame: one more if it was a request.
LEMMA RequestsAfter ==
    ASSUME IInv, NEW device \in Devices, NEW sender \in Nodes, Takes(device, sender),
           UNCHANGED joined, sent'[Guest] = sent[Guest]
    PROVE  /\ RequestTo(device, NextFrame(device, sender)) =>
                Cardinality(RequestsFrom(device, Guest)') =
                    Cardinality(RequestsFrom(device, Guest)) + 1
           /\ ~RequestTo(device, NextFrame(device, sender)) =>
                RequestsFrom(device, Guest)' = RequestsFrom(device, Guest)
  <1> USE GuestIsNoDevice
  <1>0. Counters /\ Frames /\ DevicesReply
    BY DEF IInv
  <1> DEFINE k == seen[device][sender] + 1
             frame == NextFrame(device, sender)
             before == RequestsFrom(device, Guest)
             after == RequestsFrom(device, Guest)'
  <1>1. /\ seen[device][sender] \in Nat /\ k \in 1 .. Len(sent[sender])
        /\ seen'[device][sender] = k
        /\ \A n, m \in Nodes : n # device \/ m # sender => seen'[n][m] = seen[n][m]
    <2>1. device \in Nodes
      OBVIOUS
    <2> HIDE DEF before, after, frame
    <2> QED
      BY <1>0, <2>1, TakesNext, Zenon
  <1>2. CASE sender = Guest
    <2>1. /\ joined[device][Guest] \in Nat /\ joined[device][Guest] <= seen[device][Guest]
          /\ joined'[device][Guest] = joined[device][Guest]
      BY <1>0 DEF Counters
    <2>2. frame = sent[Guest][k]
      BY <1>2, Zenon DEF NextFrame
    <2>3. \A i : i \in joined[device][Guest] + 1 .. seen'[device][Guest] <=>
                    i \in joined[device][Guest] + 1 .. seen[device][Guest] \/ i = k
      BY <1>1, <1>2, <2>1
    <2>4. after = {i \in joined[device][Guest] + 1 .. seen'[device][Guest] :
                        RequestTo(device, sent[Guest][i])}
      BY <2>1, Zenon DEF RequestsFrom
    <2>5. \A i : i \in after <=> i \in before \/ (i = k /\ RequestTo(device, frame))
      <3> HIDE DEF k, frame
      <3>1. before = {i \in joined[device][Guest] + 1 .. seen[device][Guest] :
                        RequestTo(device, sent[Guest][i])}
        BY Zenon DEF RequestsFrom
      <3> HIDE DEF before, after
      <3> QED
        BY <2>2, <2>3, <2>4, <3>1, Zenon
    <2>6. k \notin before
      BY <1>1, <1>2, <2>1 DEF RequestsFrom
    <2>7. IsFiniteSet(before) /\ Cardinality(before) \in Nat
      BY <1>0, FiniteRequests, Zenon
    <2> HIDE DEF before, after, frame, k
    <2>8. CASE RequestTo(device, frame)
      <3>1. after = before \cup {k}
        BY <2>5, <2>8
      <3>2. Cardinality(before \cup {k}) = Cardinality(before) + 1
        BY <2>6, <2>7, FS_AddElement, Zenon
      <3> QED
        BY <2>8, <3>1, <3>2, Zenon DEF before, after, frame
    <2>9. CASE ~RequestTo(device, frame)
      <3>1. after = before
        BY <2>5, <2>9
      <3> QED
        BY <2>9, <3>1, Zenon DEF before, after, frame
    <2> QED
      BY <2>8, <2>9
  <1>3. CASE sender # Guest
    <2>1. sender \in Devices
      BY <1>3 DEF Nodes
    <2>2. ~RequestTo(device, frame)
      BY <1>0, <1>1, <2>1, ReplyIsNoRequest, Zenon DEF DevicesReply, NextFrame
    <2>3. after = before
      BY <1>0, <1>1, <1>3, SameRequests
    <2> QED
      BY <2>2, <2>3, Zenon
  <1> QED
    BY <1>2, <1>3

\* What the handler may send: the replies to the frame it has taken.
Answers(device, sender) == Send(device, Replies(device, NextFrame(device, sender)))

(***************************************************************************)
(* A device that runs, or is being destroyed, takes a frame.  Unless it    *)
(* sends what there is to send it is no longer up or deaf.                 *)
(***************************************************************************)
LEMMA DeviceTakes ==
    ASSUME IInv, NEW device \in Devices, NEW sender \in Nodes, Takes(device, sender),
           UNCHANGED <<joined, arpCache>>, state' \in [Devices -> States],
           state'[device] # "off",
           \A d \in Devices : d # device => state'[d] = state[d],
           \/ /\ Answers(device, sender)
              /\ state'[device] \in {"up", "deaf"} => state[device] \in {"up", "deaf"}
           \/ UNCHANGED sent /\ state'[device] \notin {"up", "deaf"}
    PROVE  IInv'
  <1> USE GuestIsNoDevice
  <1>0. Counters /\ Frames /\ DevicesReply
    BY DEF IInv
  <1> DEFINE frame == NextFrame(device, sender)
             old == sent[device]
  <1>1. /\ IsFrame(frame)
        /\ seen[device][sender] + 1 \in 1 .. Len(sent[sender])
        /\ seen' \in [Nodes -> [Nodes -> Nat]]
        /\ seen'[device][sender] = seen[device][sender] + 1
        /\ \A n, m \in Nodes : n # device \/ m # sender => seen'[n][m] = seen[n][m]
    BY <1>0, TakesNext, Zenon
  <1>2. IsSequence(old) /\ Len(old) \in Nat /\ DOMAIN sent = Nodes /\ device # Guest
    BY <1>0, NoMore DEF Frames, Counters
  \* Either one reply is added, or nothing.
  <1> DEFINE Added(reply) == sent' = [sent EXCEPT ![device] = old \o <<reply>>]
             Nothing == DOMAIN sent' = Nodes /\ \A n \in Nodes : sent'[n] = sent[n]
  <1>3. \/ /\ RequestTo(device, frame)
           /\ \E reply : IsReply(device, reply) /\ Added(reply)
           /\ state'[device] \in {"up", "deaf"} => state[device] \in {"up", "deaf"}
        \/ /\ Nothing
           /\ \/ state'[device] \notin {"up", "deaf"}
              \/ ~RequestTo(device, frame) /\ state[device] \in {"up", "deaf"}
    <2>1. CASE /\ Answers(device, sender)
               /\ state'[device] \in {"up", "deaf"} => state[device] \in {"up", "deaf"}
      <3>1. sent' = [sent EXCEPT ![device] = old \o Replies(device, frame)]
        BY <2>1 DEF Answers, Send
      <3>2. CASE ~RequestTo(device, frame) /\ Replies(device, frame) = <<>>
        <4>1. sent' = [sent EXCEPT ![device] = old]
          BY <1>2, <3>1, <3>2, NoMore, Zenon
        <4>2. Nothing
          BY <1>2, <4>1
        <4> QED
          BY <2>1, <3>2, <4>2, Zenon
      <3>3. CASE RequestTo(device, frame) /\ \E reply : Replies(device, frame) = <<reply>> /\ IsReply(device, reply)
        BY <2>1, <3>1, <3>3, Zenon
      <3> QED
        BY <1>1, <3>2, <3>3, OneAnswer, Zenon
    <2>2. CASE UNCHANGED sent /\ state'[device] \notin {"up", "deaf"}
      BY <1>2, <2>2
    <2> QED
      BY <2>1, <2>2
  \* Both add at most to what the device has sent; the frames it has seen are the same.
  <1>4. /\ DOMAIN sent' = Nodes /\ \A n \in Nodes : n # device => sent'[n] = sent[n]
        /\ IsSequence(sent'[device]) /\ Len(sent'[device]) \in Nat
        /\ Len(sent'[device]) >= Len(old)
        /\ \A i \in 1 .. Len(sent'[device]) : IsReply(device, sent'[device][i])
    <2>1. ASSUME NEW reply, IsReply(device, reply), Added(reply)
          PROVE  /\ DOMAIN sent' = Nodes /\ \A n \in Nodes : n # device => sent'[n] = sent[n]
                 /\ IsSequence(sent'[device]) /\ Len(sent'[device]) = Len(old) + 1
                 /\ \A i \in 1 .. Len(sent'[device]) : IsReply(device, sent'[device][i])
      <3> DEFINE new == old \o <<reply>>
      <3>1. /\ IsSequence(new) /\ Len(new) = Len(old) + 1
            /\ \A i \in 1 .. Len(old) : new[i] = old[i]
            /\ new[Len(old) + 1] = reply
        <4>1. IsSequence(old)
          BY <1>2
        <4> HIDE DEF old
        <4> QED
          BY <4>1, OneMore
      <3>2. /\ DOMAIN sent' = Nodes /\ sent'[device] = new
            /\ \A n \in Nodes : n # device => sent'[n] = sent[n]
        BY <1>2, <2>1
      <3> HIDE DEF new
      <3>3. ASSUME NEW i \in 1 .. Len(new) PROVE IsReply(device, new[i])
        <4>1. CASE i \in 1 .. Len(old)
          BY <1>0, <3>1, <4>1, Zenon DEF DevicesReply
        <4>2. CASE i = Len(old) + 1
          BY <2>1, <3>1, <4>2, Zenon
        <4> QED
          BY <1>2, <3>1, <4>1, <4>2
      <3> QED
        BY <3>1, <3>2, <3>3, Zenon
    <2>2. CASE \E reply : IsReply(device, reply) /\ Added(reply)
      <3>1. /\ DOMAIN sent' = Nodes /\ \A n \in Nodes : n # device => sent'[n] = sent[n]
            /\ IsSequence(sent'[device]) /\ Len(sent'[device]) = Len(old) + 1
            /\ \A i \in 1 .. Len(sent'[device]) : IsReply(device, sent'[device][i])
        BY <2>1, <2>2, Zenon
      <3>2. Len(sent'[device]) \in Nat /\ Len(sent'[device]) >= Len(old)
        BY <1>2, <3>1
      <3> QED
        BY <3>1, <3>2, Zenon
    <2>3. CASE Nothing
      <3>1. sent'[device] = old /\ DOMAIN sent' = Nodes
            /\ \A n \in Nodes : n # device => sent'[n] = sent[n]
        BY <2>3
      <3>2. \A i \in 1 .. Len(old) : IsReply(device, old[i])
        BY <1>0, Zenon DEF DevicesReply
      <3> QED
        BY <1>2, <3>1, <3>2
    <2> QED
      BY <1>3, <2>2, <2>3, Zenon
  <1>5. sent'[Guest] = sent[Guest]
    BY <1>2, <1>4
  <1>6. Counters'
    <2>1. ASSUME NEW n \in Nodes, NEW m \in Nodes PROVE seen'[n][m] <= Len(sent'[m])
      <3>1. seen'[n][m] <= Len(sent[m]) /\ seen'[n][m] \in Nat
        <4>1. CASE n = device /\ m = sender
          BY <1>1, <4>1
        <4>2. CASE n # device \/ m # sender
          <5>1. seen'[n][m] = seen[n][m] /\ seen[n][m] <= Len(sent[m])
            BY <1>0, <1>1, <4>2, Zenon DEF Counters
          <5>2. seen[n][m] \in Nat
            BY <1>0 DEF Counters
          <5> QED
            BY <5>1, <5>2
        <4> QED
          BY <4>1, <4>2
      <3>2. CASE m = device
        BY <1>2, <1>4, <3>1, <3>2
      <3>3. CASE m # device
        BY <1>4, <3>1, <3>3
      <3> QED
        BY <3>2, <3>3
    <2>2. ASSUME NEW d \in Devices PROVE joined[d][Guest] <= seen'[d][Guest]
      <3>1. joined[d][Guest] \in Nat /\ seen[d][Guest] \in Nat /\ joined[d][Guest] <= seen[d][Guest]
        BY <1>0 DEF Counters
      <3>2. CASE d = device /\ sender = Guest
        BY <1>1, <3>1, <3>2
      <3>3. CASE d # device \/ sender # Guest
        BY <1>1, <3>1, <3>3
      <3> QED
        BY <3>2, <3>3
    <2>3. \A d \in Devices : state'[d] = "off" => sent'[d] = <<>>
      BY <1>0, <1>4 DEF Counters
    <2> QED
      BY <1>0, <1>1, <1>4, <2>1, <2>2, <2>3 DEF Counters
  <1>7. DevicesReply'
    BY <1>0, <1>4 DEF DevicesReply
  <1>8. Frames'
    <2>1. ASSUME NEW n \in Nodes
          PROVE  IsSequence(sent'[n]) /\ \A i \in 1 .. Len(sent'[n]) : IsFrame(sent'[n][i])
      <3>1. CASE n = device
        BY <1>4, <3>1, Zenon DEF IsReply
      <3>2. CASE n # device
        BY <1>0, <1>4, <3>2, Zenon DEF Frames
      <3> QED
        BY <3>1, <3>2
    <2> QED
      BY <2>1, Zenon DEF Frames
  <1>9. ASSUME NEW d \in Devices PROVE Balanced(d)'
    <2>1. Balanced(d)
      BY DEF IInv
    <2>2. CASE d # device
      <3>1. RequestsFrom(d, Guest)' = RequestsFrom(d, Guest)
        BY <1>0, <1>1, <1>5, <2>2, SameRequests
      <3>2. sent'[d] = sent[d] /\ state'[d] = state[d]
        BY <1>4, <2>2
      <3> QED
        BY <2>1, <3>1, <3>2, Zenon DEF Balanced
    <2>3. CASE d = device
      <3> DEFINE before == Cardinality(RequestsFrom(device, Guest))
                 after == Cardinality(RequestsFrom(device, Guest)')
      <3>1. /\ RequestTo(device, frame) => after = before + 1
            /\ ~RequestTo(device, frame) => after = before
        BY <1>5, RequestsAfter, Zenon
      <3>2. /\ before \in Nat /\ Len(old) <= before
            /\ state[device] \in {"up", "deaf"} => Len(old) = before
        BY <1>0, <2>1, <2>3, FiniteRequests, Zenon DEF Balanced
      <3> HIDE DEF before, after
      <3>3. CASE /\ RequestTo(device, frame)
                 /\ \E reply : IsReply(device, reply) /\ Added(reply)
                 /\ state'[device] \in {"up", "deaf"} => state[device] \in {"up", "deaf"}
        <4>1. Len(sent'[device]) = Len(old) + 1
          <5>1. PICK reply : Added(reply)
            BY <3>3, Zenon
          <5>2. sent'[device] = old \o <<reply>>
            BY <1>2, <5>1
          <5>3. IsSequence(old)
            BY <1>2
          <5> HIDE DEF old
          <5> QED
            BY <5>2, <5>3, OneMore
        <4>2. /\ Len(sent'[device]) <= after
              /\ state'[device] \in {"up", "deaf"} => Len(sent'[device]) = after
          BY <1>2, <3>1, <3>2, <3>3, <4>1
        <4> QED
          BY <2>3, <4>2, Zenon DEF Balanced, after
      <3>4. CASE /\ Nothing
                 /\ \/ state'[device] \notin {"up", "deaf"}
                    \/ ~RequestTo(device, frame) /\ state[device] \in {"up", "deaf"}
        <4>1. Len(sent'[device]) = Len(old)
          BY <3>4
        <4>2. /\ Len(sent'[device]) <= after
              /\ state'[device] \in {"up", "deaf"} => Len(sent'[device]) = after
          <5>1. before <= after
            BY <3>1, <3>2
          <5> QED
            BY <1>2, <3>1, <3>2, <3>4, <4>1, <5>1
        <4> QED
          BY <2>3, <4>2, Zenon DEF Balanced, after
      <3> QED
        BY <1>3, <3>3, <3>4, Zenon
    <2> QED
      BY <2>2, <2>3
  <1>10. ArpCacheTruthful'
    BY DEF IInv, ArpCacheTruthful
  <1> QED
    BY <1>6, <1>7, <1>8, <1>9, <1>10, Zenon DEF IInv


\* The handler of a device that is up.
LEMMA Processes ==
    ASSUME IInv, NEW device \in Devices, NEW sender \in Nodes, DeviceProcesses(device, sender)
    PROVE  IInv'
  <1>1. /\ state[device] = "up" /\ Takes(device, sender) /\ Answers(device, sender)
        /\ UNCHANGED <<joined, arpCache>>
        /\ UNCHANGED state \/ state' = [state EXCEPT ![device] = "deaf"]
    BY DEF DeviceProcesses, Answers, guestVars, Goto
  <1>2. state \in [Devices -> States]
    BY DEF IInv, Counters
  <1>3. /\ state' \in [Devices -> States] /\ state'[device] \in {"up", "deaf"}
        /\ \A d \in Devices : d # device => state'[d] = state[d]
    BY <1>1, <1>2 DEF States
  <1>4. state'[device] # "off" /\ state[device] \in {"up", "deaf"}
    BY <1>1, <1>3
  <1> QED
    BY <1>1, <1>3, <1>4, DeviceTakes, Zenon

\* The handler on a device that is being destroyed: it answers, is silent, or crashes.
LEMMA ProcessesDestroyed ==
    ASSUME IInv, NEW device \in Devices, NEW sender \in Nodes, DestroyedProcesses(device, sender)
    PROVE  IInv'
  <1>1. /\ state[device] = "destroyed" /\ Takes(device, sender)
        /\ UNCHANGED <<joined, arpCache>>
        /\ \/ Answers(device, sender) /\ UNCHANGED state
           \/ UNCHANGED <<sent, state>>
           \/ UNCHANGED sent /\ state' = [state EXCEPT ![device] = "ended"]
    BY DEF DestroyedProcesses, Answers, guestVars, Goto
  <1>2. state \in [Devices -> States]
    BY DEF IInv, Counters
  <1>3. /\ state' \in [Devices -> States] /\ state'[device] \in {"destroyed", "ended"}
        /\ \A d \in Devices : d # device => state'[d] = state[d]
    BY <1>1, <1>2 DEF States
  <1>4. state'[device] # "off" /\ state'[device] \notin {"up", "deaf"}
    BY <1>3
  <1>5. Answers(device, sender) \/ UNCHANGED sent
    BY <1>1, Zenon
  <1> QED
    BY <1>1, <1>3, <1>4, <1>5, DeviceTakes, Zenon

----------------------------------------------------------------------------
\* Before anybody has sent anything.
LEMMA InitInv == Init => IInv
  <1> SUFFICES ASSUME Init PROVE IInv
    OBVIOUS
  <1> USE GuestIsNoDevice
  <1>1. /\ \A n \in Nodes : sent[n] = <<>> /\ \A m \in Nodes : seen[n][m] = 0
        /\ DOMAIN sent = Nodes /\ seen \in [Nodes -> [Nodes -> Nat]]
        /\ joined = [d \in Devices |-> seen[d]] /\ state = [d \in Devices |-> "off"]
        /\ arpCache = {}
    BY DEF Init
  <1>2. \A s : s = <<>> => Len(s) = 0
    OBVIOUS
  <1>3. joined \in [Devices -> [Nodes -> Nat]] /\ \A d \in Devices : joined[d] = seen[d]
    BY <1>1
  <1>4. Counters
    BY <1>1, <1>2, <1>3 DEF Counters, States
  <1>5. ASSUME NEW s, s = <<>> PROVE IsSequence(s)
    BY <1>5 DEF IsSequence
  <1>6. Frames
    BY <1>1, <1>2, <1>5 DEF Frames
  <1>7. DevicesReply
    BY <1>1, <1>2 DEF DevicesReply
  <1>8. ASSUME NEW d \in Devices PROVE Balanced(d)
    <2>1. RequestsFrom(d, Guest) = {}
      BY <1>1, <1>3 DEF RequestsFrom
    <2>2. Cardinality({}) = 0
      BY FS_EmptySet, Zenon
    <2>3. Len(sent[d]) = 0
      BY <1>1, <1>2
    <2>4. Len(sent[d]) <= Cardinality(RequestsFrom(d, Guest)) /\ Len(sent[d]) = Cardinality(RequestsFrom(d, Guest))
      BY <2>1, <2>2, <2>3
    <2> QED
      BY <2>4, Zenon DEF Balanced
  <1>9. ArpCacheTruthful
    BY <1>1 DEF ArpCacheTruthful
  <1> QED
    BY <1>4, <1>6, <1>7, <1>8, <1>9 DEF IInv

\* Every step keeps the invariant.
LEMMA NextInv == IInv /\ [Next]_vars => IInv'
  <1> SUFFICES ASSUME IInv, [Next]_vars PROVE IInv'
    OBVIOUS
  <1>1. ASSUME NEW p \in Pings, AskFor(p.target) PROVE IInv'
    <2>1. Send(Guest, <<ArpRequest(p.target)>>) /\ UNCHANGED <<seen, arpCache, joined, state>>
      BY <1>1 DEF AskFor, deviceVars
    <2> QED
      BY <2>1, GuestFrame, GuestFramesAreFrames, Zenon
  <1>2. ASSUME NEW p \in Pings, NEW entry \in arpCache, SendPing(p, entry[2]) PROVE IInv'
    <2>1. /\ Send(Guest, <<EchoRequestFrame(p, entry[2])>>)
          /\ UNCHANGED <<seen, arpCache, joined, state>>
      BY <1>2 DEF SendPing, deviceVars
    <2> QED
      BY <2>1, GuestFrame, GuestFramesAreFrames, Zenon
  <1>3. ASSUME NEW frame \in OtherFrames, SendOther(frame) PROVE IInv'
    <2>1. Send(Guest, <<frame>>) /\ UNCHANGED <<seen, arpCache, joined, state>>
      BY <1>3 DEF SendOther, deviceVars
    <2>2. IsFrame(frame)
      BY OtherFramesAssumption
    <2> QED
      BY <2>1, <2>2, GuestFrame, Zenon
  <1>4. ASSUME NEW sender \in Devices, GuestReceives(sender) PROVE IInv'
    BY <1>4, GuestLearns
  <1>5. ASSUME NEW device \in Devices, DeviceJoins(device) PROVE IInv'
    BY <1>5, Joins
  <1>6. ASSUME NEW device \in Devices, DeviceFails(device) \/ DeviceLeaves(device) PROVE IInv'
    BY <1>6, Leaves
  <1>7. ASSUME NEW device \in Devices, NEW sender \in Nodes, DeviceProcesses(device, sender)
        PROVE  IInv'
    BY <1>7, Processes
  <1>8. ASSUME NEW device \in Devices, NEW sender \in Nodes, DestroyedProcesses(device, sender)
        PROVE  IInv'
    BY <1>8, ProcessesDestroyed
  <1>9. CASE UNCHANGED vars
    <2>1. UNCHANGED <<sent, seen, arpCache, joined, state>>
      BY <1>9 DEF vars, guestVars, deviceVars
    <2>2. Counters' /\ Frames' /\ DevicesReply' /\ ArpCacheTruthful'
      BY <2>1, Zenon DEF IInv, Counters, Frames, DevicesReply, ArpCacheTruthful
    <2>3. \A d \in Devices : Balanced(d)'
      BY <2>1, Zenon DEF IInv, Balanced, RequestsFrom
    <2> QED
      BY <2>2, <2>3, Zenon DEF IInv
  <1> QED
    BY <1>1, <1>2, <1>3, <1>4, <1>5, <1>6, <1>7, <1>8, <1>9, Zenon DEF Next, GuestSends

\* The inductive invariant holds in every state of the network.
THEOREM Invariance == Spec => []IInv
  BY InitInv, NextInv, PTL DEF Spec

\* Every request is answered by the device it asks, with one frame, and nothing else is.
THEOREM EveryRequestAnsweredOnce == Spec => []OneReplyPerRequest
  <1>1. ASSUME IInv PROVE OneReplyPerRequest
    <2> SUFFICES ASSUME NEW d \in Devices
                 PROVE  /\ Len(sent[d]) <= Cardinality(RequestsSeen(d))
                        /\ state[d] \in {"up", "deaf"} => Len(sent[d]) = Cardinality(RequestsSeen(d))
      BY Zenon DEF OneReplyPerRequest
    <2>1. Cardinality(RequestsSeen(d)) = Cardinality(RequestsFrom(d, Guest))
      BY <1>1, OnlyGuestAsks, Zenon DEF IInv
    <2>2. Balanced(d)
      BY <1>1 DEF IInv
    <2> QED
      BY <2>1, <2>2, Zenon DEF Balanced
  <1> QED
    BY <1>1, Invariance, PTL

\* Every frame a device sends is accepted by the parsers and fits into the request's buffer.
THEOREM RepliesAreReadable == Spec => []RepliesReadable
  <1>1. ASSUME IInv PROVE RepliesReadable
    <2> SUFFICES ASSUME NEW d \in Devices, NEW i \in DOMAIN sent[d]
                 PROVE  /\ ~Throws(sent[d][i])
                        /\ sent[d][i].etherType = "ip4" => sent[d][i].payload.padding >= 0
      BY Zenon DEF RepliesReadable
    <2>1. IsSequence(sent[d])
      BY <1>1 DEF IInv, Frames, Nodes
    <2>2. IsReply(d, sent[d][i])
      BY <1>1, <2>1, NoMore, Zenon DEF IInv, DevicesReply
    <2> QED
      BY <2>2 DEF IsReply
  <1> QED
    BY <1>1, Invariance, PTL

\* The guest never learns a hardware address that is not the device's it asked for.
THEOREM ArpCacheIsTruthful == Spec => []ArpCacheTruthful
  <1>1. IInv => ArpCacheTruthful
    BY DEF IInv
  <1> QED
    BY <1>1, Invariance, PTL

=============================================================================
