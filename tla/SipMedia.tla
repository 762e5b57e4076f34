------------------------------ MODULE SipMedia ------------------------------
(***************************************************************************)
(* One media stream of a SIP session: rakia/sip-media.c.                   *)
(*                                                                         *)
(* A RakiaSipMedia stands between the SDP m-line the peer sent (kept by    *)
(* the session, the media only points at it) and the Telepathy client      *)
(* that runs the stream: it hands the remote codecs and candidates to the  *)
(* client, takes the local ones from it, and knows when it is ready to     *)
(* appear in an offer or an answer.  The module has no variables: every    *)
(* operator maps a media record to the media record the C function leaves  *)
(* behind, because the session (module SipSession) calls them from inside  *)
(* its own handlers.  Functions that emit a signal the session listens to  *)
(* return the signal beside the media, as [media |-> .., signal |-> ..].   *)
(***************************************************************************)
EXTENDS Naturals, Sequences, FiniteSets

CONSTANTS
    CodecLists,     \* the lists of codecs an m-line or the client may name
    Conns,          \* the addresses of an m-line (c=); of its port only zero counts
    None            \* the NULL pointer

-----------------------------------------------------------------------------
(* TpMediaStreamDirection is a pair of bits, here a set of their names.    *)
Direction == {"SEND", "RECEIVE"}
Bidirectional == Direction

MediaType == {"audio", "video", "other"}
SupportedType == {"audio", "video"}

(***************************************************************************)
(* An m-line of the peer's SDP.  "mode" holds the peer's own sendonly and  *)
(* recvonly bits; "usable" says that the line is RTP, has a connection     *)
(* address and lists codecs; "rejected" is a zero port.                    *)
(***************************************************************************)
SdpMedia == [type : MediaType, rejected : BOOLEAN, usable : BOOLEAN,
             mode : SUBSET {"sendonly", "recvonly"},
             conn : Conns, codecs : CodecLists]

(* Where the m-line a media points at lives: in the session's current      *)
(* remote SDP, in the backup of the previous one, or in a memory home that *)
(* was released since.                                                     *)
Home == {"none", "current", "backup", "freed"}

Media == [type : SupportedType,
          local_codecs : CodecLists \cup {None},
          local_candidates_prepared : BOOLEAN,
          direction : SUBSET Direction,
          requested_direction : SUBSET Direction,
          hold_requested : BOOLEAN,
          can_receive : BOOLEAN,
          remote_media : SdpMedia \cup {None},
          home : Home,
          codec_intersect_pending : BOOLEAN,
          push_remote_codecs_pending : BOOLEAN,
          push_candidates_on_new_codecs : BOOLEAN,
          remote_codec_offer : CodecLists \cup {None},
          remote_candidates : Conns \cup {None},
          offers : Nat,             \* remote codec offers the client holds
          initial_offer : BOOLEAN]  \* the client holds the initial empty offer

ASSUME MediaAssumption ==
    /\ CodecLists # {}
    /\ Conns # {}
    /\ None \notin CodecLists
    /\ None \notin Conns
    /\ None \notin SdpMedia
    /\ None \notin Media

-----------------------------------------------------------------------------
(* Construction and direction.                                             *)

NewMedia(type, requested, createdLocally, hold) ==
    [type |-> type,
     local_codecs |-> None,
     local_candidates_prepared |-> FALSE,
     direction |-> {},
     requested_direction |-> requested,
     hold_requested |-> hold,
     can_receive |-> FALSE,
     remote_media |-> None,
     home |-> "none",
     codec_intersect_pending |-> FALSE,
     push_remote_codecs_pending |-> FALSE,
     push_candidates_on_new_codecs |-> FALSE,
     remote_codec_offer |-> None,
     remote_candidates |-> None,
     offers |-> 0,
     initial_offer |-> createdLocally]

(* The peer receives what we send, and the other way round.                *)
DirectionFromRemoteMedia(line) ==
    {d \in Direction : \/ d = "SEND" /\ "recvonly" \in line.mode
                       \/ d = "RECEIVE" /\ "sendonly" \in line.mode}

RemoteDirection(m) ==
    IF m.remote_media = None THEN {} ELSE DirectionFromRemoteMedia(m.remote_media)

(* The direction written into our SDP.                                     *)
SdpDirection(m, authoritative) ==
    {d \in m.requested_direction :
        /\ (~authoritative /\ m.remote_media # None) => d \in RemoteDirection(m)
        /\ m.hold_requested => d = "SEND"}

(* A non-authoritative SDP, an answer, also becomes the direction in force. *)
GeneratedDirection(m, authoritative) ==
    IF authoritative THEN m
    ELSE [m EXCEPT !.direction = SdpDirection(m, FALSE)]

GenerateSdp(m, authoritative) ==
    [type |-> m.type, dir |-> SdpDirection(m, authoritative), codecs |-> m.local_codecs]

(* A media whose stream should receive but cannot yet is not ready, unless  *)
(* the call is on hold.                                                     *)
IsReady(m) ==
    /\ ~("RECEIVE" \in m.requested_direction /\ ~m.can_receive /\ ~m.hold_requested)
    /\ m.local_candidates_prepared
    /\ m.local_codecs # None
    /\ ~m.codec_intersect_pending

SetRequestedDirection(m, direction) ==
    [media  |-> [m EXCEPT !.requested_direction = direction],
     signal |-> IF direction \in {m.requested_direction, m.direction}
                THEN "none" ELSE "local-updated"]

-----------------------------------------------------------------------------
(* What the media publishes to the client.                                 *)

PushRemoteCodecs(m) ==
    IF m.remote_media = None THEN m
    ELSE [m EXCEPT !.remote_codec_offer = m.remote_media.codecs, !.offers = @ + 1]

PushRemoteCandidates(m) ==
    IF m.remote_media = None THEN m
    ELSE [m EXCEPT !.remote_candidates = m.remote_media.conn]

-----------------------------------------------------------------------------
(* A remote m-line arrives.                                                *)

AcceptableRemoteMedia(line) == ~line.rejected /\ line.usable

(* The direction in force: an answer may not raise it above the requested  *)
(* one; an offer may, except that it is given no more than SEND on hold.   *)
NewDirection(m, line, authoritative) ==
    DirectionFromRemoteMedia(line) \cap
        (m.requested_direction \cup
            (IF ~authoritative THEN {}
             ELSE IF m.hold_requested THEN {"SEND"} ELSE Bidirectional))

TransportChanged(old, line) == old = None \/ old.conn # line.conn
CodecsChanged(old, line) == old = None \/ old.codecs # line.codecs

(* New candidates wait for the client's new codecs when both change.       *)
TakeRemoteTransport(m, old, line) ==
    IF ~TransportChanged(old, line) THEN m
    ELSE IF CodecsChanged(old, line) /\ old # None
    THEN [m EXCEPT !.push_candidates_on_new_codecs = TRUE, !.remote_candidates = None]
    ELSE PushRemoteCandidates(m)

(* New codecs wait while an earlier list is still offered to the client.   *)
TakeRemoteCodecs(m, old, line, authoritative) ==
    IF ~CodecsChanged(old, line) THEN m
    ELSE LET m1 == [m EXCEPT !.codec_intersect_pending = @ \/ authoritative]
         IN  IF m1.remote_codec_offer = None THEN PushRemoteCodecs(m1)
             ELSE [m1 EXCEPT !.push_remote_codecs_pending = TRUE]

(* rakia_sip_media_set_remote_media() on an acceptable line.               *)
SetRemoteMedia(m, line, authoritative) ==
    LET old == m.remote_media
        m1  == [m EXCEPT !.remote_media = line, !.home = "current"]
        m2  == IF old = line THEN m1
               ELSE TakeRemoteCodecs(TakeRemoteTransport(m1, old, line),
                                     old, line, authoritative)
    IN  [m2 EXCEPT !.direction = NewDirection(m, line, authoritative)]

-----------------------------------------------------------------------------
(* The client acts.                                                        *)

(* Faulty variant: the wait for the client's codecs is not over.           *)
TakeLocalCodecsWaiting(m, codecs) ==
    LET m1 == [m EXCEPT !.local_codecs = codecs]
    IN  IF m1.push_remote_codecs_pending
        THEN [media  |-> PushRemoteCodecs([m1 EXCEPT !.push_remote_codecs_pending = FALSE]),
              signal |-> "none"]
        ELSE IF m1.codec_intersect_pending THEN [media |-> m1, signal |-> "complete"]
        ELSE [media |-> m1, signal |-> "local-updated"]

(* The client accepted a media description (its own initial one or a       *)
(* remote offer), or updated its codecs of its own accord.                 *)
TakeLocalCodecs(m, codecs) ==
    LET m1 == [m EXCEPT !.local_codecs = codecs]
        m2 == IF m1.push_candidates_on_new_codecs
              THEN PushRemoteCandidates([m1 EXCEPT !.push_candidates_on_new_codecs = FALSE])
              ELSE m1
        m3 == [m2 EXCEPT !.codec_intersect_pending = FALSE]
    IN  IF m1.push_remote_codecs_pending
        THEN [media  |-> PushRemoteCodecs([m1 EXCEPT !.push_remote_codecs_pending = FALSE]),
              signal |-> "none"]
        ELSE IF ~m2.codec_intersect_pending
        THEN [media |-> m2, signal |-> "local-updated"]
        ELSE IF IsReady(m3)
        THEN [media |-> [m3 EXCEPT !.remote_codec_offer = None], signal |-> "complete"]
        ELSE [media |-> m3, signal |-> "none"]

(* The client found no codec in common.  The offer is dropped by           *)
(* ForgetCodecOffer only after the session has handled the signal.         *)
CodecsRejected(m) ==
    IF m.push_remote_codecs_pending
    THEN [media  |-> PushRemoteCodecs([m EXCEPT !.push_remote_codecs_pending = FALSE]),
          signal |-> "none"]
    ELSE [media  |-> [m EXCEPT !.codec_intersect_pending = FALSE],
          signal |-> "failed"]

ForgetCodecOffer(m) == [m EXCEPT !.remote_codec_offer = None]

LocalCandidatesPrepared(m) ==
    LET m1 == [m EXCEPT !.local_candidates_prepared = TRUE]
    IN  [media |-> m1, signal |-> IF IsReady(m1) THEN "complete" ELSE "none"]

SetCanReceive(m, can) ==
    LET m1 == [m EXCEPT !.can_receive = can]
    IN  IF can = m.can_receive THEN [media |-> m, signal |-> "none"]
        ELSE IF IsReady(m1)
        THEN [media |-> ForgetCodecOffer(m1), signal |-> "complete"]
        ELSE [media |-> m1, signal |-> "none"]

SetHoldRequested(m, hold) == [m EXCEPT !.hold_requested = hold]

IsHeld(m) == "SEND" \notin m.direction
=============================================================================
