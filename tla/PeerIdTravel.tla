---------------------------- MODULE PeerIdTravel ----------------------------
(***************************************************************************)
(* The travels of one identifier: a client makes it up, or names itself by *)
(* a text or in a request, the server takes it from there                  *)
(* (extract_peer_id.rs), and from then on it is printed, parsed, written   *)
(* into JSON and read back by server and clients, any number of times and  *)
(* in any order. And those of one session description or ICE candidate from*)
(* one browser to the other, by the conversions of Wire.                   *)
(***************************************************************************)
EXTENDS PeerId, Wire

CONSTANTS
    Capacities,  \* the values of S (32 for PeerID)
    Texts(_),    \* texts and requests a client can come with, for each S
    Requests(_),
    Wires(_),    \* byte strings it can send
    Payloads,    \* the objects a browser makes
    NoId         \* nothing has been accepted yet

ASSUME CapacitiesAssumption == Capacities \subseteq Nat \ {0}
ASSUME NoIdAssumption       == \A S \in Capacities : NoId \notin PeerID(S)

(* Of the keys of a query's parameters it matters only whether they are    *)
(* the one looked for; what has no equals sign has none.                   *)
Keys == {"peer_id", "other", "none"}

(* What can arrive at all: a query value is still escaped, and a browser   *)
(* has four types of descriptions and no other kind of object.             *)
ASSUME InputsAssumption ==
    \A S \in Capacities :
        /\ \A t \in Texts(S) : t \in Seq(Character)
        /\ \A r \in Requests(S) :
             r \in [header : Seq(Seq(Character)), query : Seq([key : Keys, value : Seq(Character)])]
        /\ \A w \in Wires(S) : w \in Seq(0..255)
ASSUME PayloadsAssumption ==
    \A p \in Payloads :
        \/ /\ p.kind = "description"
           /\ p = [kind |-> p.kind, type |-> p.type, sdp |-> p.sdp]
           /\ p.type \in {"offer", "answer", "pranswer", "rollback"}
        \/ /\ p.kind = "candidate"
           /\ p = [kind |-> p.kind, candidate |-> p.candidate,
                   sdpMid |-> p.sdpMid, sdpMLineIndex |-> p.sdpMLineIndex,
                   usernameFragment |-> p.usernameFragment]

VARIABLES
    cap,    \* S
    form,   \* the form it is in, or how the conversion failed
    val,    \* its value in this form, or the error
    first   \* history: the identifier as it was accepted, the object as it was made

vars == <<cap, form, val, first>>

Init ==
    /\ cap \in Capacities
    /\ \/ form = "new" /\ val = <<>> /\ first = NoId
       \/ form = "text" /\ val \in Texts(cap) /\ first = NoId
       \/ form = "request" /\ val \in Requests(cap) /\ first = NoId
       \/ form = "wire" /\ val \in Wires(cap) /\ first = NoId
       \/ form = "browser" /\ val \in Payloads /\ first = val

(* The outcome of a conversion into an identifier.                         *)
Accept(r) ==
    /\ form' = IF r.tag = "ok" THEN "id" ELSE r.tag
    /\ val' = r.val
    /\ first' = IF r.tag = "ok" /\ first = NoId THEN r.val ELSE first
    /\ UNCHANGED cap

(* The outcome of any other.                                               *)
Become(f, r) ==
    /\ form' = IF r.tag = "ok" THEN f ELSE r.tag
    /\ val' = r.val
    /\ UNCHANGED <<cap, first>>

-----------------------------------------------------------------------------
(* PeerID::random parses 64 digits, whatever S is.                         *)
Random == form = "new" /\ \E ch \in 0..15 : Accept(FromStr(cap, [i \in 1..64 |-> ch]))

(* TryFrom<JsValue>.                                                       *)
TryFrom == form = "text" /\ Accept(FromStr(cap, val))

(* PeerIdRejection: the reasons the server gives.                          *)
Reject(reason) == Error(reason)

RejectErrors(r, reason) == IF r.tag = "error" THEN Reject(reason) ELSE r

ExtractFromHeader(text) ==
    IF text = <<>> THEN Reject("empty_header")
    ELSE RejectErrors(FromStr(cap, text), "invalid_header_value")

Named(pair) == pair.key = "peer_id"

(* Mutant: the last parameter of the name is taken.                        *)
FindLast(pairs) == CHOOSE i \in DOMAIN pairs :
    Named(pairs[i]) /\ \A j \in DOMAIN pairs : Named(pairs[j]) => j <= i

(* find_map: the first; what has no equals sign is passed over.            *)
Find(pairs) == CHOOSE i \in DOMAIN pairs :
    Named(pairs[i]) /\ \A j \in DOMAIN pairs : Named(pairs[j]) => i <= j

ExtractFromQuery(pairs) ==
    IF ~\E i \in DOMAIN pairs : Named(pairs[i]) THEN Reject("missing_required")
    ELSE LET decoded == PercentDecode(pairs[Find(pairs)].value) IN
         IF decoded.tag # "ok" THEN Reject("bad_query_parse")
         ELSE IF decoded.val = <<>> THEN Reject("empty_query")
         ELSE RejectErrors(FromStr(cap, decoded.val), "bad_query_parse")

(* from_request_parts: the header comes first, even if it is no good. A    *)
(* request without a query is one without parameters.                      *)
FromRequestParts ==
    /\ form = "request"
    /\ Accept(IF val.header # <<>> THEN ExtractFromHeader(val.header[1])
              ELSE ExtractFromQuery(val.query))

(* visit_bytes and visit_seq give every error the same text.               *)
VisitBytes == form = "wire" /\ Accept(RejectErrors(FromBytes(cap, val), "Deserialize"))
VisitSeq   == form = "wire" /\ Accept(RejectErrors(Deserialize(cap, val), "Deserialize"))

-----------------------------------------------------------------------------
ToText == form = "id" /\ Become("text", Ok(Display(val)))

Pair(key, value) == [key |-> key, value |-> value]

(* WebSocketConnection::connect puts the text into the URL.                *)
ToRequest ==
    form = "id" /\ Become("request", Ok([header |-> <<>>, query |-> <<Pair("peer_id", Display(val))>>]))

ToWire == form = "id" /\ Become("wire", Serialize(cap, val))

(* What lies between may write capitals, add parameters around that of the *)
(* client, and escape the first and the last character of its value.       *)
Capitals(s) == [i \in DOMAIN s |-> IF s[i] \in 10..15 THEN s[i] + 16 ELSE s[i]]
Capitalise  == form = "text" /\ Become("text", Ok(Capitals(val)))

AsSent == form = "request" /\ val.header = <<>> /\ Len(val.query) = 1
AddParameters ==
    /\ AsSent
    /\ \E key \in {"other", "none"} :
         Become("request", Ok([val EXCEPT !.query =
             <<Pair(key, <<7, 7>>)>> \o val.query \o <<Pair("peer_id", <<7, 7>>)>>]))

Escapes(s)  == {i \in DOMAIN s : s[i] = Percent}
EscapeOf(ch) == <<Percent, Code(ch) \div 16, Code(ch) % 16>>
EscapeFirst ==
    /\ AsSent
    /\ LET v == val.query[1].value IN
       /\ v # <<>> /\ v[1] \in HexChar /\ Escapes(v) = {}
       /\ Become("request", Ok([val EXCEPT !.query[1].value = EscapeOf(v[1]) \o Tail(v)]))
EscapeLast ==
    /\ AsSent
    /\ LET v == val.query[1].value
           n == Len(v) IN
       /\ v # <<>> /\ v[n] \in HexChar /\ Escapes(v) \subseteq {1}
       /\ Become("request", Ok([val EXCEPT !.query[1].value = SubSeq(v, 1, n - 1) \o EscapeOf(v[n])]))

-----------------------------------------------------------------------------
(* A payload leaves the browser, becomes JSON, unless it is the end of the *)
(* candidates, which is not sent, and comes back.                          *)
FromBrowser ==
    /\ form = "browser"
    /\ Become("event", IF val.kind = "description" THEN SessionDescription(val)
                       ELSE Ok(IceCandidate(val)))

Forward ==
    /\ form = "event"
    /\ val.kind = "candidate" => ~IsEndOfCandidates(val)
    /\ Become("json", Ok(ToJson(val)))

Receive == form = "json" /\ Become("event", Ok(FromJson(val)))

ToBrowser ==
    /\ form = "event"
    /\ Become("browser", IF val.kind = "description" THEN RtcDescriptionInit(val)
                         ELSE RtcIceCandidate(val))

Next ==
    \/ Random \/ TryFrom \/ FromRequestParts \/ VisitBytes \/ VisitSeq
    \/ ToText \/ ToRequest \/ ToWire
    \/ Capitalise \/ AddParameters \/ EscapeFirst \/ EscapeLast
    \/ FromBrowser \/ Forward \/ Receive \/ ToBrowser

Spec == Init /\ [][Next]_vars

-----------------------------------------------------------------------------
(* Whatever conversions an accepted identifier goes through, what comes    *)
(* out is equal to it: the server, its clients and their URLs mean the     *)
(* same peer (FromStr, Display, write, from_bytes, percent_decode). It is  *)
(* also equal for the derived order, as long as the size fits u8: every    *)
(* constructor clears the bytes it does not use.                           *)
SameIdentifier ==
    form = "id" => Eq(val, first) /\ (cap < 256 => OrdEqual(val, first))

WithoutFragment(candidate) == [candidate EXCEPT !.usernameFragment = Null]

(* What the other browser is given is what the one made, nulls included,   *)
(* except that a candidate arrives without its usernameFragment, by which  *)
(* the browser would know the generation of ICE it belongs to (the         *)
(* conversions of sdp.rs, sdp_type.rs and ice.rs and those of serde).      *)
SamePayload ==
    form = "browser" =>
        \/ val = first
        \/ first.kind = "candidate" /\ val = WithoutFragment(first)

(* An accepted identifier is refused later on only for being empty, by the *)
(* server, when it is written with a prefix of two bytes and uses all of S,*)
(* or when it is read from bytes and is longer than S as a u8, which is    *)
(* less than S from 256 on; a payload only if it is the end of the         *)
(* candidates or a candidate without a medium. Nothing panics              *)
(* (extract_peer_id.rs, peer_id.rs, serde.rs, ice.rs).                     *)
NeverRefused ==
    first # NoId =>
        /\ form # "panic"
        /\ form = "error" =>
             \/ val \in {"empty_header", "empty_query"} /\ first.size = 0
             \/ val = "Serialize" /\ first.size = cap /\ cap >= 128
             \/ val = "Deserialize" /\ cap >= 256 /\ first.size > cap % 256
             \/ val = "EndOfCandidates" /\ first.candidate = Null
             \/ val = "JsError" /\ first.sdpMid = Null /\ first.sdpMLineIndex = Null

(* error.rs: InvalidHexEncoding is the error for a text that "contained    *)
(* non-hexadecimal characters or had an odd number of digits".             *)
OddDigitsAreAnError == form # "panic"
=============================================================================
