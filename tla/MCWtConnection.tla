--------------------------- MODULE MCWtConnection ---------------------------
(* A small instance of WtConnection: addresses in the form the node itself *)
(* reports, with an identifier of a peer, without the port of QUIC, with   *)
(* something after WebTransport, without an ip, without WebTransport, with *)
(* port 0, and with a second ip.                                           *)
EXTENDS WtConnection

CONSTANTS c1, c2

Host == [kind |-> "ip4", value |-> 1]
Every == [kind |-> "ip4", value |-> 0]
Six  == [kind |-> "ip6", value |-> 2]
Udp(n) == [kind |-> "udp", value |-> n]
Tcp(n) == [kind |-> "tcp", value |-> n]
Quic == [kind |-> "quic"]
WT   == [kind |-> "webtransport"]
P2p  == [kind |-> "p2p"]

MCCalls == {c1, c2}
MCUnspecified == {Every}
MCInterfaces == {Host, Six}
MCAddresses ==
    {<<Every, Udp(1), Quic, WT>>, <<Host, Udp(1), Quic, WT, P2p>>, <<Host, Tcp(2), Quic, WT>>,
     <<Six, Udp(1), Quic, WT, Tcp(2)>>, <<Udp(1), Quic, WT>>, <<Host, Udp(0), Quic, WT>>,
     <<Every, Udp(0), Quic, WT>>, <<Six, Udp(1), Quic>>, <<Host, Udp(1), Six, WT>>}
=============================================================================
