-------------------------------- MODULE Wire --------------------------------
(***************************************************************************)
(* The conversions of sf-webrtc and sf-protocol a session description or an*)
(* ICE candidate goes through between two browsers: from the object of the *)
(* browser to the Rust value, to JSON and back. Options are sequences of at*)
(* most one element.                                                       *)
(***************************************************************************)
EXTENDS Outcome, Sequences

CONSTANT Null   \* null of JavaScript and JSON

-----------------------------------------------------------------------------
(* SdpType: the variants by their names, which serde writes, and the       *)
(* strings of the browser.                                                 *)
SdpTypeNames == [Offer |-> "offer", Answer |-> "answer",
                 Pranswer |-> "pranswer", Rollback |-> "rollback"]

(* From<SdpType> for RtcSdpType.                                           *)
RtcSdpType(t) == SdpTypeNames[t]

(* Mutant: a provisional answer is taken for an answer.                    *)
SdpTypeOfLax(s) ==
    CHOOSE t \in DOMAIN SdpTypeNames :
        SdpTypeNames[t] = IF s = "pranswer" THEN "answer" ELSE s

(* From<String> for SdpType; anything else is unreachable!().              *)
SdpTypeOf(s) == CHOOSE t \in DOMAIN SdpTypeNames : SdpTypeNames[t] = s

(* TryFrom<JsValue> for SessionDescription, of what createOffer and        *)
(* createAnswer return.                                                    *)
SessionDescription(js) ==
    IF \E t \in DOMAIN SdpTypeNames : SdpTypeNames[t] = js.type
    THEN Ok([kind |-> "description", sdp_type |-> SdpTypeOf(js.type), sdp |-> js.sdp])
    ELSE Panic

(* session_description_to_rtc_descritpion_init.                            *)
RtcDescriptionInit(s) ==
    Ok([kind |-> "description", type |-> RtcSdpType(s.sdp_type), sdp |-> s.sdp])

-----------------------------------------------------------------------------
ToOption(x)   == IF x = Null THEN <<>> ELSE <<x>>
FromOption(o) == IF o = <<>> THEN Null ELSE o[1]

EndOfCandidates ==
    [kind |-> "candidate", candidate |-> <<>>, sdp_m_line_index |-> <<>>, sdp_mid |-> <<>>]

IsEndOfCandidates(c) == c.candidate = <<>>

(* The icecandidate event, whose candidate is null at the end, and TryFrom<*)
(* RtcIceCandidate> for IceCandidate: the candidate is always there, though*)
(* it may be the empty string. Of the fields of the browser's object that  *)
(* its RtcIceCandidateInit would take, usernameFragment is left behind.    *)
IceCandidate(js) ==
    IF js.candidate = Null THEN EndOfCandidates
    ELSE [kind |-> "candidate", candidate |-> <<js.candidate>>,
          sdp_m_line_index |-> ToOption(js.sdpMLineIndex), sdp_mid |-> ToOption(js.sdpMid)]

(* ice_candidate_to_web_sys: the end is refused here, and the browser      *)
(* refuses to make a candidate that belongs to no media. The one it makes  *)
(* has no usernameFragment, for it is given none.                          *)
RtcIceCandidate(c) ==
    IF IsEndOfCandidates(c) THEN Error("EndOfCandidates")
    ELSE IF c.sdp_mid = <<>> /\ c.sdp_m_line_index = <<>> THEN Error("JsError")
    ELSE Ok([kind |-> "candidate", candidate |-> c.candidate[1],
             sdpMLineIndex |-> FromOption(c.sdp_m_line_index), sdpMid |-> FromOption(c.sdp_mid),
             usernameFragment |-> Null])

-----------------------------------------------------------------------------
(* What serde makes of the payload of a PeerEvent: None becomes null, and  *)
(* null None.                                                              *)
ToJson(payload) ==
    IF payload.kind = "description" THEN [payload EXCEPT !.kind = "web_rtc_offer"]
    ELSE [kind |-> "web_rtc_candidate", candidate |-> FromOption(payload.candidate),
          sdp_m_line_index |-> FromOption(payload.sdp_m_line_index),
          sdp_mid |-> FromOption(payload.sdp_mid)]

FromJson(json) ==
    IF json.kind = "web_rtc_offer" THEN [json EXCEPT !.kind = "description"]
    ELSE [kind |-> "candidate", candidate |-> ToOption(json.candidate),
          sdp_m_line_index |-> ToOption(json.sdp_m_line_index),
          sdp_mid |-> ToOption(json.sdp_mid)]
=============================================================================
