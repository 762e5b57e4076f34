---------------------------- MODULE OfferAnswer -----------------------------
(***************************************************************************)
(* What a SIP call promises of its offers and answers, seen from our end   *)
(* (RFC 3261 and 3264, as the session of rakia/sip-session.c uses them):   *)
(* one INVITE sets the call up; then either end may offer again whenever   *)
(* no offer is outstanding; an offer is settled by an answer or a refusal  *)
(* of the other end, and nobody else's; our end answers no INVITE before   *)
(* the user is willing to take the call; a call that is over stays so.     *)
(*                                                                         *)
(* A step that settles an offer may open the next one of ours: an offer    *)
(* that had to wait goes out together with the answer that ends the wait.  *)
(***************************************************************************)

VARIABLES
    phase,      \* of the call
    offerer,    \* whose offer is outstanding
    willing     \* the user took the call, or placed it

vars == <<phase, offerer, willing>>

TypeOK ==
    /\ phase \in {"setup", "confirmed", "over"}
    /\ offerer \in {"none", "us", "peer"}
    /\ willing \in BOOLEAN

Init ==
    /\ phase = "setup"
    /\ offerer = "none"
    /\ willing \in BOOLEAN

-----------------------------------------------------------------------------
(* The user is free to take the call at any time, never to take that back. *)
GrowsWilling == willing => willing'

WeInvite ==
    /\ phase = "setup" /\ offerer = "none" /\ willing
    /\ offerer' = "us"
    /\ UNCHANGED <<phase, willing>>

PeerInvites ==
    /\ phase = "setup" /\ offerer = "none"
    /\ offerer' = "peer"
    /\ UNCHANGED <<phase, willing>>

BecomeWilling ==
    /\ phase # "over"
    /\ willing' = TRUE
    /\ UNCHANGED <<phase, offerer>>

(* The peer's answer confirms the call, or the change.                     *)
PeerAnswers ==
    /\ offerer = "us"
    /\ phase' = "confirmed"
    /\ offerer' \in {"none", "us"}
    /\ UNCHANGED willing

(* Our answer; it may coincide with the user's decision.                   *)
WeAnswer ==
    /\ offerer = "peer"
    /\ GrowsWilling
    /\ willing'
    /\ phase' = "confirmed"
    /\ offerer' \in {"none", "us"}

(* A change is refused, ours by a 491 and the peer's by a 488.             *)
Refuse ==
    /\ phase = "confirmed" /\ offerer # "none"
    /\ offerer' \in IF offerer = "peer" THEN {"none", "us"} ELSE {"none"}
    /\ UNCHANGED <<phase, willing>>

Offer(who) ==
    /\ phase = "confirmed" /\ offerer = "none"
    /\ offerer' = who
    /\ UNCHANGED <<phase, willing>>

Over ==
    /\ phase # "over"
    /\ phase' = "over"
    /\ offerer' = "none"
    /\ GrowsWilling
    /\ willing' \in BOOLEAN

Next ==
    \/ WeInvite \/ PeerInvites \/ BecomeWilling
    \/ PeerAnswers \/ WeAnswer \/ Refuse
    \/ \E who \in {"us", "peer"} : Offer(who)
    \/ Over

Spec == Init /\ [][Next]_vars
=============================================================================
