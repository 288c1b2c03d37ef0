--------------------------- MODULE MCPeerIdTravel ---------------------------
(* A small world of texts, requests, byte strings and payloads.            *)
EXTENDS PeerIdTravel

(* Lengths around the ends of what S allows.                               *)
Near(n)  == {m \in 0..n + 2 : m <= 2 \/ m >= n - 1}

(* Texts of one character, but for one place.                              *)
MCTexts(S) ==
    {[i \in 1..n |-> IF i = j THEN odd ELSE ch] :
        n \in Near(2 * S), j \in {1, 2, 2 * S}, ch \in {0, 7, 28}, odd \in {5, 11, NotHex}}

Short(S) == {t \in MCTexts(S) : Len(t) < 5}

(* A header, which may be no good, before a query; a query with the value  *)
(* raw or after a percent sign; no parameter, or one of another name.      *)
MCRequests(S) ==
    {[header |-> <<t>>, query |-> <<Pair("peer_id", <<1, 2>>)>>] : t \in Short(S)}
    \cup {[header |-> <<>>, query |-> <<Pair("peer_id", v)>>] :
            v \in Short(S) \cup {<<Percent>> \o t : t \in Short(S)}}
    \cup {[header |-> <<>>, query |-> q] : q \in {<<>>, <<Pair("other", <<1, 2>>)>>}}

(* A size, and so many bytes or one more or less.                          *)
MCWires(S) ==
    {Varint(n) \o [i \in 1..m |-> IF i = m THEN 255 ELSE b] :
        n \in Near(S) \cap 0..255, m \in Near(S), b \in {0, 171}}

MCPayloads ==
    [kind : {"description"}, type : {"offer", "answer", "pranswer", "rollback"}, sdp : {"", "v=0"}]
    \cup [kind : {"candidate"}, candidate : {"", "udp", Null}, sdpMid : {"", "0", Null},
          sdpMLineIndex : {0, 65535, Null}, usernameFragment : {"u", Null}]
=============================================================================
