----------------------- MODULE SipSessionOfferAnswer ------------------------
(***************************************************************************)
(* The session of rakia/sip-session.c implements module OfferAnswer.       *)
(*                                                                         *)
(* The call is being set up until a 200 OK was sent or received; our offer *)
(* is outstanding while NUA has an INVITE of ours without final response,  *)
(* the peer's while one of its own awaits ours.  Placing a call is to be   *)
(* willing.  A 183 with an answer is left out: the session then acts on a  *)
(* response that is not final, which OfferAnswer has no step for.          *)
(***************************************************************************)
EXTENDS SipSession

CallPhase ==
    IF session.aborted # "none" \/ session.state = "ENDED" THEN "over"
    ELSE IF session.state \in {"CREATED", "INVITE_SENT", "INVITE_RECEIVED"} THEN "setup"
    ELSE "confirmed"

Offerer ==
    IF CallPhase = "over" THEN "none"
    ELSE IF session.cli > 0 THEN "us"
    ELSE IF session.srv # "none" THEN "peer"
    ELSE "none"

OA == INSTANCE OfferAnswer WITH
        phase <- CallPhase,
        offerer <- Offerer,
        willing <- session.accepted \/ ~session.incoming

(* Every step of the session is one of the offer/answer exchange or leaves *)
(* it alone: whatever the client, its streams, NUA's events and the glare  *)
(* timer do in whatever order, an offer is made only when none is          *)
(* outstanding and settled once, and no call is taken against the user.    *)
ImplementsOfferAnswer == OA!Spec
=============================================================================
