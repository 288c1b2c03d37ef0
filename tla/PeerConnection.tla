--------------------------- MODULE PeerConnection ---------------------------
(***************************************************************************)
(* An RTCPeerConnection as far as sf-webrtc's PeerConnection uses it: the  *)
(* signalling state and the descriptions, after the W3C definition of the  *)
(* browser's object. Only data; Negotiation calls it. What succeeds stands *)
(* for the wrapper's function, which hands the call on, awaits it and      *)
(* converts what it gets (see Wire); when it rejects, the wrapper returns  *)
(* the error.                                                              *)
(***************************************************************************)
CONSTANTS Clients, Calls

(* A description is an offer or an answer; "of" names the offer that it is *)
(* or answers, by the client and the call that made it. NoDesc is no       *)
(* description.                                                            *)
OfferId == Clients \X Calls
Description == [type : {"offer", "answer"}, by : Clients, of : OfferId]
NoDesc == [type |-> "none"]

Signaling == {"stable", "have-local-offer", "have-remote-offer"}

PeerConnections ==
    [signaling : Signaling,
     pendingLocal : Description \cup {NoDesc}, pendingRemote : Description \cup {NoDesc},
     currentLocal : Description \cup {NoDesc}, currentRemote : Description \cup {NoDesc},
     lastOffer : Description \cup {NoDesc}, lastAnswer : Description \cup {NoDesc}]

New == [signaling |-> "stable",
        pendingLocal |-> NoDesc, pendingRemote |-> NoDesc,
        currentLocal |-> NoDesc, currentRemote |-> NoDesc,
        lastOffer |-> NoDesc, lastAnswer |-> NoDesc]

(* get_remote_description: the pending one before the current one, or None.*)
Remote(pc) == IF pc.pendingRemote # NoDesc THEN pc.pendingRemote ELSE pc.currentRemote
Local(pc)  == IF pc.pendingLocal # NoDesc THEN pc.pendingLocal ELSE pc.currentLocal

CanCreateOffer(pc)  == pc.signaling \in {"stable", "have-local-offer"}
CanCreateAnswer(pc) == pc.signaling = "have-remote-offer"

(* create_offer and create_answer: the browser remembers what it made.     *)
OfferCreated(pc, d)  == [pc EXCEPT !.lastOffer = d]
AnswerCreated(pc, d) == [pc EXCEPT !.lastAnswer = d]

(* setLocalDescription takes only what was created last.                   *)
CanSetLocal(pc, d) ==
    IF d.type = "offer" THEN CanCreateOffer(pc) /\ pc.lastOffer = d
    ELSE CanCreateAnswer(pc) /\ pc.lastAnswer = d

(* setRemoteDescription takes an offer in every state, an answer only while*)
(* an offer is out.                                                        *)
CanSetRemote(pc, d) == d.type = "offer" \/ pc.signaling = "have-local-offer"

(* An answer completes the exchange: what was pending becomes current.     *)
Completed(pc, local, remote) ==
    [New EXCEPT !.currentLocal = local, !.currentRemote = remote]

(* set_local_description.                                                  *)
SetLocal(pc, d) ==
    IF d.type = "offer"
    THEN [pc EXCEPT !.signaling = "have-local-offer", !.pendingLocal = d]
    ELSE Completed(pc, d, pc.pendingRemote)

(* set_remote_description. A remote offer rolls a pending local one back.  *)
SetRemote(pc, d) ==
    IF d.type = "offer"
    THEN [pc EXCEPT !.signaling = "have-remote-offer", !.pendingRemote = d,
                    !.pendingLocal = NoDesc]
    ELSE Completed(pc, pc.pendingLocal, d)
=============================================================================
