---------------------------- MODULE MCEchoNetwork ----------------------------
(***************************************************************************)
(* Two devices and a guest, with real bytes and words.  The guest pings    *)
(* the first device with an odd number of bytes, few enough to be padded.  *)
(* MCOtherFrames are a ping of the second device long enough not to be     *)
(* padded, the frames a parser or Process turns down at each of its        *)
(* checks, and two odd ones that are answered: a tagged request and one    *)
(* with IPv4 options.                                                      *)
(***************************************************************************)
EXTENDS EchoNetwork

MCIp(host) == <<192, 168, 7, host>>
MCDevices == {[mac |-> "m1", ip |-> MCIp(35)], [mac |-> "m2", ip |-> MCIp(36)]}
MCOneDevice == {[mac |-> "m1", ip |-> MCIp(35)]}
MCGuest == [mac |-> "mg", ip |-> MCIp(2)]

\* The data are the identifier, the sequence number and what the guest adds.
MCPings == {[target |-> MCIp(35), data |-> <<0, 7, 0, 1, 17>>]}

MCLongPing ==
    [target |-> MCIp(36), data |-> <<255, 255, 255, 255>> \o [i \in 1 .. 19 |-> i]]

\* The sum of this ping's reply is 1FFFF: folded once it is 10000, which has carried again.
MCCarryingPings == {[target |-> MCIp(35), data |-> <<255, 255, 255, 255, 0, 1>>]}

MCRequest == EchoRequestFrame(CHOOSE p \in MCPings : TRUE, "m1")
MCTag(tpid) == [tpid |-> tpid, data |-> 5]

MCOtherFrames == {
    EchoRequestFrame(MCLongPing, "m2"),
    [MCRequest EXCEPT !.whole = FALSE],
    [MCRequest EXCEPT !.payload.version = 6],
    [MCRequest EXCEPT !.payload.headerLength = 16, !.payload.totalLength = 24,
                      !.payload.padding = 0],
    [MCRequest EXCEPT !.payload.totalLength = 99],
    [MCRequest EXCEPT !.payload.totalLength = 10],
    [MCRequest EXCEPT !.payload.fragmentOffset = 1],
    [MCRequest EXCEPT !.payload.protocol = 17],
    [MCRequest EXCEPT !.payload.icmp.whole = FALSE],
    [MCRequest EXCEPT !.payload.icmp.type = EchoReply],
    [MCRequest EXCEPT !.payload.headerLength = 24, !.payload.padding = 0],
    [MCRequest EXCEPT !.tags = <<MCTag("8021ad"), MCTag("8021q")>>],
    [MCRequest EXCEPT !.tags = <<MCTag("8021q"), MCTag("8021q")>>],
    [ArpRequest(MCIp(35)) EXCEPT !.payload.forIp4 = FALSE],
    [ArpRequest(MCIp(35)) EXCEPT !.payload.operation = "reply"]}
=============================================================================
