----------------------------- MODULE SipSession -----------------------------
(***************************************************************************)
(* A SIP session and its media: rakia/sip-session.c over rakia/sip-media.c.*)
(*                                                                         *)
(* The session object turns what the Telepathy client does to a call and   *)
(* what the NUA stack reports of the peer into SIP offers and answers.  It *)
(* runs in one GLib main loop: a NUA event, a D-Bus call or a timer is one *)
(* atomic step, and the signals emitted inside a handler call the other    *)
(* handlers synchronously.  So a handler is an operator from a session     *)
(* record to the session record it leaves, handlers call each other as the *)
(* C functions do, and an action is one entry from the main loop.          *)
(*                                                                         *)
(* The peer and the NUA transaction layer are external: cli counts our     *)
(* INVITEs without a final response, srv is the peer's INVITE that awaits  *)
(* ours, ack our offer in a 200 OK that the peer answers in its ACK.  NUA  *)
(* itself answers 491 to a re-INVITE that meets our own and 500 to one     *)
(* before that ACK, so that the session never sees one while cli is not 0  *)
(* or an ACK is to come.                                                   *)
(***************************************************************************)
EXTENDS SipMedia

CONSTANTS
    Lines,              \* the m-lines the peer may send
    ZeroPort,           \* its rejected m-line
    LocalCodecs,        \* the codec lists the client may choose
    Roles,              \* whether the session is incoming, of {TRUE, FALSE}
    InitialTypes,       \* media types an outgoing call starts with
    ContentTypes,       \* media types of the contents the client may add
    Directions,         \* the directions the client may request
    ImmutableStreams,   \* account parameter "immutable-streams"
    UserMay,            \* how the user may change the call: "add" and "remove" contents,
                        \*   "direct" streams, "hold", and "recode": update the codecs
    PeerMay,            \* what the peer may do beyond plain offers and answers:
                        \*   "early"    answer in a 183
                        \*   "shrink"   leave m-lines out of a later SDP
                        \*   "zero"     add an m-line with a zero port
                        \*   "delay"    send a re-INVITE without SDP
                        \*   "exceed"   answer with more than the offer granted
    MaxMedia,           \* bound on the m-lines of a session
    MaxChanges,         \* bound on the client's changes of the media
    MaxOffers,          \* bound on the peer's re-INVITEs
    MaxGlares           \* bound on 491 responses to our re-INVITEs

ASSUME SessionAssumption ==
    /\ Lines \subseteq SdpMedia
    /\ ZeroPort \in SdpMedia
    /\ ZeroPort.rejected
    /\ \A l \in Lines : ~l.rejected
    /\ LocalCodecs \subseteq CodecLists
    /\ Roles \subseteq BOOLEAN
    /\ InitialTypes \in Seq(SupportedType)
    /\ ContentTypes \subseteq SupportedType
    /\ Directions \subseteq SUBSET Direction
    /\ ImmutableStreams \in BOOLEAN
    /\ UserMay \subseteq {"add", "remove", "direct", "hold", "recode"}
    /\ PeerMay \subseteq {"early", "shrink", "zero", "delay", "exceed"}
    /\ MaxMedia \in Nat /\ MaxChanges \in Nat /\ MaxOffers \in Nat /\ MaxGlares \in Nat
    /\ None \notin Seq(SdpMedia)

VARIABLES
    session,    \* the RakiaSipSession, its medias and its NUA handle
    used        \* how much of each bound a behaviour has used

vars == <<session, used>>

-----------------------------------------------------------------------------
(* The session's data.                                                     *)

SessionState == {"CREATED", "INVITE_SENT", "INVITE_RECEIVED", "RESPONSE_RECEIVED",
                 "ACTIVE", "REINVITE_SENT", "REINVITE_RECEIVED", "REINVITE_PENDING",
                 "ENDED"}

(* The m-lines of our own SDP; a NULL entry of medias is written as a      *)
(* rejected line, here None.                                               *)
LocalLine == [type : SupportedType, dir : SUBSET Direction,
              codecs : CodecLists \cup {None}] \cup {None}

ASSUME LocalLineAssumption ==
    /\ None \notin [type : SupportedType, dir : SUBSET Direction,
                    codecs : CodecLists \cup {None}]
    /\ None \notin Seq(LocalLine)

(* An entry of the array of medias.                                        *)
Slot == Media \cup {None}

Session == [state : SessionState,
            incoming : BOOLEAN,
            nua_op : BOOLEAN,                   \* the NUA handle is not NULL
            medias : Seq(Slot),
            saved_event : BOOLEAN,
            hold_requested : BOOLEAN,
            remote_media_count : Nat,
            local_sdp : Seq(LocalLine) \cup {None},
            remote_sdp : Seq(SdpMedia) \cup {None},
            backup_remote_sdp : Seq(SdpMedia) \cup {None},
            accepted : BOOLEAN,
            pending_offer : BOOLEAN,
            glare_timer : {"none", "armed", "removed"}, \* "removed": id kept of a dead source
            remote_held : BOOLEAN,
            \* the NUA stack and the peer
            cli : Nat,
            srv : {"none", "offer", "delayed"},   \* "delayed": without an SDP
            ack : Seq(LocalLine) \cup {None},     \* our offer that an ACK is to answer
            overtaken : Seq(LocalLine) \cup {None}, \* our offer in an INVITE still open that
                                                \*   the session does not wait for any more
            early : BOOLEAN,                    \* the offer was answered by a 183
            \* what went wrong, if anything did
            aborted : {"none", "slot", "negotiation"},  \* an assertion that failed
            bad_answer : BOOLEAN,               \* an answer did not fit its offer
            stray_response : BOOLEAN,           \* a response without a request
            stale_read : BOOLEAN]               \* a released m-line was read

Min2(a, b) == IF a < b THEN a ELSE b
Max2(a, b) == IF a < b THEN b ELSE a

Slots(s) == 1..Len(s.medias)
Present(s) == {i \in Slots(s) : s.medias[i] # None}

AllMediaReady(s) == \A i \in Present(s) : IsReady(s.medias[i])
CodecIntersectPending(s) == \E i \in Present(s) : s.medias[i].codec_intersect_pending

-----------------------------------------------------------------------------
(* SIP requests and responses handed to NUA.                               *)

NuaInvite(s) == [s EXCEPT !.cli = @ + 1]

NuaRespond(s) ==
    [s EXCEPT !.srv = "none", !.stray_response = @ \/ s.srv = "none"]

(* nua_handle_destroy() ends whatever transaction the dialog still has.    *)
NuaDestroy(s) == [s EXCEPT !.nua_op = FALSE, !.cli = 0, !.srv = "none", !.ack = None,
                           !.overtaken = None, !.early = FALSE]

(* Our oldest INVITE gets its final response.                              *)
FinalResponse(s) ==
    [s EXCEPT !.cli = @ - 1, !.overtaken = IF s.cli > 1 THEN s.local_sdp ELSE None]

-----------------------------------------------------------------------------
(* Our SDP.                                                                *)

(* Faulty variant: an answer that describes the new medias too.            *)
SdpLengthUncut(s, authoritative) == Len(s.medias)

(* An offer describes every media, an answer as many as the offer had.     *)
SdpLength(s, authoritative) ==
    IF authoritative THEN Len(s.medias) ELSE Min2(Len(s.medias), s.remote_media_count)

SessionSdp(s, authoritative) ==
    [i \in 1..SdpLength(s, authoritative) |->
        IF s.medias[i] = None THEN None ELSE GenerateSdp(s.medias[i], authoritative)]

(* An answer has one line per line of the offer, turns down what the offer *)
(* turned down, and claims no direction the offer did not grant.           *)
AnswerFits(answer, offer) ==
    /\ Len(answer) = Len(offer)
    /\ \A i \in 1..Len(answer) :
          answer[i] # None =>
             /\ ~offer[i].rejected
             /\ answer[i].type = offer[i].type
             /\ answer[i].dir \subseteq DirectionFromRemoteMedia(offer[i])

(* priv_session_invite().  Entering a *_SENT state has no further effect,  *)
(* so the state change is written out here.                                *)
Invite(s, reinvite) ==
    LET sdp == SessionSdp(s, TRUE)
    IN  IF \/ ~s.nua_op
           \/ ~AllMediaReady(s)
           \/ reinvite /\ s.state # "REINVITE_PENDING" /\ s.local_sdp = sdp
        THEN s
        ELSE [NuaInvite(s) EXCEPT
                !.local_sdp = sdp,
                !.pending_offer = FALSE,
                !.state = IF reinvite THEN "REINVITE_SENT" ELSE "INVITE_SENT"]

(* Faulty variant: the delayed offer is forgotten.                         *)
ChangeStateOnly(s, new) ==
    IF s.state = new THEN s
    ELSE IF new = "ENDED" THEN NuaDestroy([s EXCEPT !.state = new])
    ELSE [s EXCEPT !.state = new]

(* rakia_sip_session_change_state(): a delayed offer goes out as soon as   *)
(* the session is ACTIVE again.                                            *)
ChangeState(s, new) ==
    LET s1 == [s EXCEPT !.state = new]
    IN  IF s.state = new THEN s
        ELSE IF new = "ENDED" THEN NuaDestroy(s1)
        ELSE IF new = "ACTIVE" /\ s.pending_offer THEN Invite(s1, TRUE)
        ELSE s1

(* priv_session_respond(): the 200 OK with our answer, or with our offer   *)
(* if the peer left that to us.                                            *)
Answered(s) ==
    LET sdp == SessionSdp(s, FALSE)
    IN  [NuaRespond(s) EXCEPT
           !.local_sdp = sdp,
           !.ack = IF s.srv = "delayed" THEN sdp ELSE @,
           !.medias = [i \in Slots(s) |->
               IF s.medias[i] = None \/ i > Len(sdp) THEN s.medias[i]
               ELSE GeneratedDirection(s.medias[i], FALSE)],
           !.bad_answer = @ \/ (s.srv = "offer" /\ ~AnswerFits(sdp, s.remote_sdp)),
           !.saved_event = FALSE]

Respond(s) == IF ~s.nua_op THEN s ELSE ChangeState(Answered(s), "ACTIVE")

(* Faulty variants: an INVITE is answered before the user accepts, and an  *)
(* outgoing call does not go on from RESPONSE_RECEIVED.                    *)
StepUnaccepted(s) ==
    IF ~AllMediaReady(s) THEN s
    ELSE CASE s.state = "CREATED" -> Invite(s, FALSE)
           [] s.state = "RESPONSE_RECEIVED" /\ s.accepted /\ ~CodecIntersectPending(s) ->
                ChangeState(s, "ACTIVE")
           [] s.state \in {"INVITE_RECEIVED", "REINVITE_RECEIVED"}
                    /\ ~CodecIntersectPending(s) -> Respond(s)
           [] s.state \in {"ACTIVE", "REINVITE_PENDING"} /\ s.pending_offer ->
                Invite(s, TRUE)
           [] OTHER -> s

StepUnanswered(s) ==
    IF ~AllMediaReady(s) \/ s.state = "RESPONSE_RECEIVED" THEN s ELSE StepUnaccepted(s)

(* priv_request_response_step(): send what is due once every media is ready. *)
RequestResponseStep(s) ==
    IF ~AllMediaReady(s) THEN s
    ELSE CASE s.state = "CREATED" -> Invite(s, FALSE)
           [] s.state = "RESPONSE_RECEIVED" /\ s.accepted /\ ~CodecIntersectPending(s) ->
                ChangeState(s, "ACTIVE")
           [] \/ s.state = "INVITE_RECEIVED" /\ s.accepted /\ ~CodecIntersectPending(s)
              \/ s.state = "REINVITE_RECEIVED" /\ ~CodecIntersectPending(s) -> Respond(s)
           [] s.state \in {"ACTIVE", "REINVITE_PENDING"} /\ s.pending_offer ->
                Invite(s, TRUE)
           [] OTHER -> s

(* rakia_sip_session_terminate().                                          *)
Terminate(s) ==
    IF s.state = "ENDED" THEN s
    ELSE ChangeState(
           IF ~s.nua_op THEN s
           ELSE IF s.state = "INVITE_RECEIVED" THEN NuaRespond(s)
           ELSE IF s.state = "REINVITE_RECEIVED" /\ s.saved_event
           THEN [NuaRespond(s) EXCEPT !.saved_event = FALSE]
           ELSE s, "ENDED")

(* rakia_sip_session_accept().                                             *)
AcceptSession(s) ==
    IF s.accepted THEN s ELSE RequestResponseStep([s EXCEPT !.accepted = TRUE])

-----------------------------------------------------------------------------
(* Local changes of the media.                                             *)

(* Faulty variant: a change is offered while our INVITE is outstanding.    *)
MediaChangedAtOnce(s) ==
    CASE s.state = "CREATED" -> RequestResponseStep(s)
      [] s.state \in {"INVITE_RECEIVED", "REINVITE_RECEIVED"} ->
            [s EXCEPT !.pending_offer = @ \/ s.remote_media_count < Len(s.medias)]
      [] s.state \in {"INVITE_SENT", "RESPONSE_RECEIVED"} ->
            [s EXCEPT !.pending_offer = TRUE]
      [] s.state = "ENDED" \/ (s.state = "ACTIVE" /\ ImmutableStreams) -> s
      [] OTHER -> IF AllMediaReady(s) THEN Invite(s, TRUE) ELSE [s EXCEPT !.pending_offer = TRUE]

(* Faulty variant: it does not wait for our answer to the peer either.     *)
MediaChangedUnanswered(s) ==
    IF s.state = "REINVITE_RECEIVED" /\ AllMediaReady(s) THEN Invite(s, TRUE)
    ELSE MediaChangedAtOnce(s)

(* rakia_sip_session_media_changed().                                      *)
MediaChanged(s) ==
    CASE s.state = "CREATED" -> RequestResponseStep(s)
      [] s.state \in {"INVITE_RECEIVED", "REINVITE_RECEIVED"} ->
            [s EXCEPT !.pending_offer = @ \/ s.remote_media_count < Len(s.medias)]
      [] s.state \in {"INVITE_SENT", "REINVITE_SENT", "RESPONSE_RECEIVED"} ->
            [s EXCEPT !.pending_offer = TRUE]
      [] s.state = "ACTIVE" /\ ImmutableStreams -> s
      [] \/ s.state = "ACTIVE" /\ ~ImmutableStreams
         \/ s.state = "REINVITE_PENDING" ->
            IF AllMediaReady(s) THEN Invite(s, TRUE) ELSE [s EXCEPT !.pending_offer = TRUE]
      [] s.state = "ENDED" -> s

(* Faulty variant: the array closes the gap, the free entry is at its end. *)
RemoveMediaCompactly(s, i) ==
    [s EXCEPT !.medias = SubSeq(@, 1, i - 1) \o SubSeq(@, i + 1, Len(@)) \o <<None>>]

(* rakia_sip_session_remove_media(): has_media starts TRUE and is only ever *)
(* set TRUE, so the session outlives its last media.                       *)
RemoveMedia(s, i) == [s EXCEPT !.medias[i] = None]

(* rakia_sip_session_add_media() for the client.  MEDIA_ADDED goes out     *)
(* before the media enters the array; the call channel then asks for both  *)
(* directions of an initial content, which is a local update already.      *)
AddMedia(s, type, direction) ==
    LET initial == s.state \in {"CREATED", "INVITE_RECEIVED"}
        s1 == IF initial /\ direction # Bidirectional THEN MediaChanged(s) ELSE s
        m  == NewMedia(type, IF initial THEN Bidirectional ELSE direction,
                       TRUE, s.hold_requested)
    IN  [s1 EXCEPT !.medias = Append(@, m)]

-----------------------------------------------------------------------------
(* The peer's SDP.                                                         *)

(* Faulty variant: a line of an unsupported type gets a media, too.        *)
UpdatedSlotOfAnyType(s, i, line, authoritative) ==
    LET kept == i <= Len(s.medias) /\ s.medias[i] # None /\ s.medias[i].type = line.type
        m    == IF kept THEN s.medias[i]
                ELSE NewMedia(line.type,
                              DirectionFromRemoteMedia(line) \cap {"RECEIVE"},
                              FALSE, s.hold_requested)
    IN  IF AcceptableRemoteMedia(line) THEN SetRemoteMedia(m, line, authoritative) ELSE None

(* Slot i of medias after the line: a media of another type is replaced, a *)
(* new line gets a new media if it is supported, a rejected or unusable    *)
(* line takes its media away.                                              *)
UpdatedSlot(s, i, line, authoritative) ==
    LET kept == i <= Len(s.medias) /\ s.medias[i] # None /\ s.medias[i].type = line.type
        m    == IF kept THEN s.medias[i]
                ELSE NewMedia(line.type,
                              DirectionFromRemoteMedia(line) \cap {"RECEIVE"},
                              FALSE, s.hold_requested)
    IN  IF AcceptableRemoteMedia(line) /\ line.type \in SupportedType
        THEN SetRemoteMedia(m, line, authoritative)
        ELSE None

(* Faulty variant: one media that may not send is enough.                  *)
AnyRemotelyHeld(s) ==
    \E i \in Present(s) : /\ "SEND" \notin s.medias[i].direction
                          /\ "SEND" \in s.medias[i].requested_direction

(* The call is held remotely when every media wants to send and none may.  *)
RemotelyHeld(s) ==
    \A i \in Present(s) : /\ "SEND" \notin s.medias[i].direction
                          /\ "SEND" \in s.medias[i].requested_direction

(* A new line with a zero port gets no entry in medias: the entries of the *)
(* lines after it, and the count, are then off, and an assertion fails.    *)
SlotAssertionFails(s) ==
    \E i \in 1..Len(s.remote_sdp) : i > Len(s.medias) /\ s.remote_sdp[i].rejected

(* priv_update_remote_media().  "Overhanging" medias, beyond the lines of  *)
(* the SDP, survive only while a new offer is pending.                     *)
UpdateRemoteMedia(s, authoritative) ==
    LET n  == Len(s.remote_sdp)
        s1 == [s EXCEPT
                 !.medias = [i \in 1..Max2(n, Len(s.medias)) |->
                     IF i <= n THEN UpdatedSlot(s, i, s.remote_sdp[i], authoritative)
                     ELSE IF s.pending_offer THEN s.medias[i] ELSE None],
                 !.stale_read = @ \/ \E i \in Present(s) :
                     /\ i <= n
                     /\ AcceptableRemoteMedia(s.remote_sdp[i])
                     /\ s.medias[i].type = s.remote_sdp[i].type
                     /\ s.medias[i].home = "freed"]
    IN  IF SlotAssertionFails(s) THEN [s EXCEPT !.aborted = "slot"]
        ELSE IF \E i \in Present(s1) : i <= n
        THEN [s1 EXCEPT !.remote_held = RemotelyHeld(s1)]
        ELSE s1

HasSupportedMedia(s) == \E i \in Present(s) : i <= Len(s.remote_sdp)

(* The pointer of a media into memory that is released reads, from then    *)
(* on, as whatever the memory holds: junk is any m-line.                   *)
Release(m, home, junk) ==
    IF m # None /\ m.home = home THEN [m EXCEPT !.home = "freed", !.remote_media = junk]
    ELSE m

Rehome(m, from, to) == IF m # None /\ m.home = from THEN [m EXCEPT !.home = to] ELSE m

(* Keep one previous SDP as a backup and store the new one.                *)
StoreRemoteSdp(s, sdp, junk) ==
    [s EXCEPT
        !.backup_remote_sdp = s.remote_sdp,
        !.remote_sdp = sdp,
        !.medias = [i \in Slots(s) |->
            Rehome(Release(s.medias[i], "backup", junk), "current", "backup")]]

(* Faulty variant: the answer to a re-INVITE does not change the state.    *)
SetRemoteSdpInPlace(s, sdp, junk) ==
    LET s1 == IF s.state = "INVITE_SENT" THEN ChangeState(s, "RESPONSE_RECEIVED")
              ELSE [s EXCEPT !.remote_media_count = Len(sdp)]
        s2 == UpdateRemoteMedia(StoreRemoteSdp(s1, sdp, junk),
                                s1.state \in {"INVITE_RECEIVED", "REINVITE_RECEIVED"})
    IN  IF s1.remote_sdp = sdp
        THEN [ok |-> TRUE, session |-> RequestResponseStep(s1)]
        ELSE IF s2.aborted # "none" \/ ~HasSupportedMedia(s2)
        THEN [ok |-> FALSE, session |-> IF s2.aborted # "none" THEN s2 ELSE Terminate(s2)]
        ELSE [ok |-> TRUE, session |-> RequestResponseStep(s2)]

(* rakia_sip_session_set_remote_media().  The result says whether the      *)
(* caller may go on; a FALSE one is followed by a termination.  Equal      *)
(* m-lines are one SDP here: a peer that changes nothing is taken to keep  *)
(* the version of its o= line, which the code compares too.                *)
SetRemoteSdp(s, sdp, junk) ==
    LET s1 == IF s.state \in {"INVITE_SENT", "REINVITE_SENT"}
              THEN ChangeState(s, "RESPONSE_RECEIVED")
              ELSE [s EXCEPT !.remote_media_count = Len(sdp)]
        s2 == UpdateRemoteMedia(StoreRemoteSdp(s1, sdp, junk),
                                s1.state \in {"INVITE_RECEIVED", "REINVITE_RECEIVED"})
    IN  IF s1.remote_sdp = sdp
        THEN [ok |-> TRUE, session |-> RequestResponseStep(s1)]
        ELSE IF s2.aborted # "none" \/ ~HasSupportedMedia(s2)
        THEN [ok |-> FALSE, session |-> IF s2.aborted # "none" THEN s2 ELSE Terminate(s2)]
        ELSE [ok |-> TRUE, session |-> RequestResponseStep(s2)]

(* Faulty variant: the failed re-INVITE gets no 488.                       *)
RollbackInSilence(s, junk) ==
    LET s1 == [s EXCEPT
                 !.remote_sdp = s.backup_remote_sdp,
                 !.backup_remote_sdp = None,
                 !.medias = [i \in Slots(s) |->
                     Rehome(Release(s.medias[i], "current", junk), "backup", "current")]]
        s2 == UpdateRemoteMedia(s1, FALSE)
    IN  IF s.backup_remote_sdp = None
        THEN Terminate(s1)
        ELSE IF s2.aborted # "none" THEN s2
        ELSE ChangeState([s2 EXCEPT !.saved_event = FALSE], "ACTIVE")

(* priv_session_rollback(): go back to the SDP before the one that failed. *)
(* The memory of the failed SDP is released before the medias that point   *)
(* into it are moved to the old one.                                       *)
Rollback(s, junk) ==
    LET s1 == [s EXCEPT
                 !.remote_sdp = s.backup_remote_sdp,
                 !.backup_remote_sdp = None,
                 !.medias = [i \in Slots(s) |->
                     Rehome(Release(s.medias[i], "current", junk), "backup", "current")]]
        s2 == UpdateRemoteMedia(s1, FALSE)
    IN  IF s.backup_remote_sdp = None
        THEN Terminate(s1)
        ELSE IF s2.aborted # "none" THEN s2
        ELSE ChangeState([NuaRespond(s2) EXCEPT !.saved_event = FALSE], "ACTIVE")

-----------------------------------------------------------------------------
(* The signals of media i.                                                 *)

(* priv_media_local_negotiation_complete_cb() with success FALSE.          *)
NegotiationFailed(s, i, junk) ==
    CASE s.state \in {"RESPONSE_RECEIVED", "INVITE_RECEIVED"} ->
            RequestResponseStep(RemoveMedia(s, i))
      [] s.state = "REINVITE_RECEIVED" -> Rollback(s, junk)
      [] s.state = "ACTIVE" -> s
      [] OTHER -> [s EXCEPT !.aborted = "negotiation"]

(* The client's step on media i gave result r: store the media and run the *)
(* session's handler of the signal.                                        *)
HandleSignal(s, i, r) ==
    LET s1 == [s EXCEPT !.medias[i] = r.media]
    IN  CASE r.signal = "complete"      -> RequestResponseStep(s1)
          [] r.signal = "local-updated" -> MediaChanged(s1)
          [] OTHER -> s1

(* rakia_sip_media_codecs_rejected() and what the session does about it;   *)
(* the offer is forgotten when the session's handler is back.              *)
HandleRejection(s, i, junk) ==
    LET r  == CodecsRejected(s.medias[i])
        s1 == [s EXCEPT !.medias[i] = r.media]
        s2 == NegotiationFailed(s1, i, junk)
    IN  IF r.signal = "none" THEN s1
        ELSE IF s2.medias[i] # None /\ s2.medias[i].type = r.media.type
        THEN [s2 EXCEPT !.medias[i] = ForgetCodecOffer(@)]
        ELSE s2

(* rakia_sip_session_set_hold_requested().                                 *)
SetSessionHold(s, hold) ==
    MediaChanged([s EXCEPT
        !.hold_requested = hold,
        !.medias = [i \in Slots(s) |->
            IF s.medias[i] = None THEN None ELSE SetHoldRequested(s.medias[i], hold)]])

-----------------------------------------------------------------------------
(* Initial states: a session object fresh from rakia_sip_session_new().    *)
(* An outgoing one has been given the initial media of its call channel.   *)

NewSession(incoming) ==
    [state |-> "CREATED", incoming |-> incoming, nua_op |-> TRUE,
     medias |-> IF incoming THEN << >>
                ELSE [i \in 1..Len(InitialTypes) |->
                        NewMedia(InitialTypes[i], Bidirectional, TRUE, FALSE)],
     saved_event |-> FALSE, hold_requested |-> FALSE, remote_media_count |-> 0,
     local_sdp |-> None, remote_sdp |-> None, backup_remote_sdp |-> None,
     accepted |-> FALSE, pending_offer |-> FALSE, glare_timer |-> "none",
     remote_held |-> FALSE, cli |-> 0, srv |-> "none", ack |-> None,
     overtaken |-> None, early |-> FALSE, aborted |-> "none", bad_answer |-> FALSE,
     stray_response |-> FALSE, stale_read |-> FALSE]

Init ==
    /\ session \in {NewSession(incoming) : incoming \in Roles}
    /\ used = [changes |-> 0, offers |-> 0, glares |-> 0]

Running == session.aborted = "none"
Live == Running /\ session.state # "ENDED"

Use(bound, max) == used[bound] < max /\ used' = [used EXCEPT ![bound] = @ + 1]

-----------------------------------------------------------------------------
(* The client, through the call channel, its contents and its streams.     *)

(* Accept() on the channel: answers an incoming call, dials an outgoing one. *)
Accept ==
    /\ Live
    /\ ~session.accepted
    /\ ~session.incoming \/ session.state = "INVITE_RECEIVED"
    /\ session' = AcceptSession(session)
    /\ UNCHANGED used

Hangup ==
    /\ Live
    /\ session.incoming => session.state # "CREATED"
    /\ session' = Terminate(session)
    /\ UNCHANGED used

(* The client answers the media description it was offered first.          *)
AcceptCodecs(i, codecs) ==
    LET m == session.medias[i]
        answered == IF m.initial_offer THEN [m EXCEPT !.initial_offer = FALSE]
                    ELSE [m EXCEPT !.offers = @ - 1]
    IN  /\ Live
        /\ m.initial_offer \/ m.offers > 0
        /\ session' = HandleSignal(session, i, TakeLocalCodecs(answered, codecs))
        /\ UNCHANGED used

(* Only the codecs of a remote offer can be incompatible.                  *)
RejectCodecs(i) ==
    LET m == session.medias[i]
        s == [session EXCEPT !.medias[i].offers = @ - 1]
    IN  /\ Live
        /\ ~m.initial_offer
        /\ m.offers > 0
        /\ \E junk \in Lines : session' = HandleRejection(s, i, junk)
        /\ UNCHANGED used

UpdateCodecs(i, codecs) ==
    LET m == session.medias[i]
    IN  /\ Live
        /\ "recode" \in UserMay
        /\ m.local_codecs \notin {None, codecs}
        /\ session' = HandleSignal(session, i, TakeLocalCodecs(m, codecs))
        /\ Use("changes", MaxChanges)

FinishInitialCandidates(i) ==
    /\ Live
    /\ ~session.medias[i].local_candidates_prepared
    /\ session' = HandleSignal(session, i, LocalCandidatesPrepared(session.medias[i]))
    /\ UNCHANGED used

(* The client starts to receive when it is asked to, and stops when it is  *)
(* not asked to any more.                                                  *)
ReceivingWanted(m) == "RECEIVE" \in m.requested_direction /\ ~m.hold_requested

StartReceiving(i) ==
    /\ Live
    /\ "RECEIVE" \in session.medias[i].requested_direction
    /\ ~session.medias[i].can_receive
    /\ session' = HandleSignal(session, i, SetCanReceive(session.medias[i], TRUE))
    /\ UNCHANGED used

StopReceiving(i) ==
    /\ Live
    /\ session.medias[i].can_receive
    /\ ~ReceivingWanted(session.medias[i])
    /\ session' = HandleSignal(session, i, SetCanReceive(session.medias[i], FALSE))
    /\ UNCHANGED used

(* Contents are mutable unless the account says otherwise; an outgoing     *)
(* call may still choose its directions before it is dialled.              *)
RequestDirection(i, direction) ==
    LET m == session.medias[i]
    IN  /\ Live
        /\ "direct" \in UserMay
        /\ direction # m.requested_direction
        /\ ImmutableStreams =>
              /\ ~session.incoming /\ ~session.accepted
              /\ "RECEIVE" \in direction <=> "RECEIVE" \in m.requested_direction
        /\ session' = HandleSignal(session, i, SetRequestedDirection(m, direction))
        /\ Use("changes", MaxChanges)

AddContent(type, direction) ==
    /\ Live
    /\ "add" \in UserMay
    /\ ~ImmutableStreams
    /\ session.incoming => session.state # "CREATED"
    /\ Len(session.medias) < MaxMedia
    /\ session' = AddMedia(session, type, direction)
    /\ Use("changes", MaxChanges)

RemoveContent(i) ==
    /\ Live
    /\ "remove" \in UserMay
    /\ ~ImmutableStreams
    /\ session' = MediaChanged(RemoveMedia(session, i))
    /\ Use("changes", MaxChanges)

(* A hold is requested at once; it is released when every stream that      *)
(* should receive does.                                                    *)
RequestHold ==
    /\ Live
    /\ "hold" \in UserMay
    /\ session.incoming => session.state # "CREATED"
    /\ ~session.hold_requested
    /\ session' = SetSessionHold(session, TRUE)
    /\ Use("changes", MaxChanges)

ReleaseHold ==
    /\ Live
    /\ "hold" \in UserMay
    /\ session.hold_requested
    /\ \A i \in Present(session) :
          "RECEIVE" \in session.medias[i].requested_direction => session.medias[i].can_receive
    /\ session' = SetSessionHold(session, FALSE)
    /\ Use("changes", MaxChanges)

-----------------------------------------------------------------------------
(* The peer, through NUA events.  Several events of one request are in the *)
(* queue together and are handled in one step.                             *)

(* An answer to our SDP: a live line may be taken or rejected, a line that *)
(* was a zero port stays one.  The peer only receives what we offered to   *)
(* send, and the other way round, unless it may exceed the offer.          *)
AnswerMode(line, dir) ==
    {mode \in line.mode : \/ "exceed" \in PeerMay
                          \/ mode = "recvonly" /\ "SEND" \in dir
                          \/ mode = "sendonly" /\ "RECEIVE" \in dir}

AnswerLines(offered) ==
    {ZeroPort} \cup
        (IF offered = None THEN {}
         ELSE {[line EXCEPT !.mode = AnswerMode(line, offered.dir)] :
               line \in {l \in Lines : l.type = offered.type}})

Answers(offer) ==
    {a \in UNION {[1..n -> UNION {AnswerLines(offer[i]) : i \in 1..Len(offer)}] :
                  n \in (IF "shrink" \in PeerMay THEN Min2(1, Len(offer))
                         ELSE Len(offer))..Len(offer)} :
        \A i \in DOMAIN a : a[i] \in AnswerLines(offer[i])}

KnownLines(s) == IF s.remote_sdp = None THEN 0 ELSE Len(s.remote_sdp)

Offers(s) ==
    {o \in UNION {[1..n -> Lines \cup {ZeroPort}] :
                  n \in (IF "shrink" \in PeerMay THEN 1 ELSE Max2(1, KnownLines(s)))..MaxMedia} :
        \A i \in DOMAIN o : (i > KnownLines(s) /\ "zero" \notin PeerMay) => ~o[i].rejected}

(* The call channel asks for both directions of every initial content.     *)
RequestBothDirections(s) ==
    LET s1 == [s EXCEPT !.medias = [i \in Slots(s) |->
                 IF s.medias[i] = None THEN None
                 ELSE SetRequestedDirection(s.medias[i], Bidirectional).media]]
        updated == \E i \in Present(s) :
                     SetRequestedDirection(s.medias[i], Bidirectional).signal # "none"
    IN  IF updated THEN MediaChanged(s1) ELSE s1

(* The first INVITE: the medias are built while the state is CREATED, then *)
(* the session is announced and gets its call channel.                     *)
ReceiveInvite(offer) ==
    LET s == [session EXCEPT !.srv = "offer"]
        r == SetRemoteSdp(s, offer, ZeroPort)
    IN  /\ Live
        /\ session.incoming
        /\ session.state = "CREATED"
        /\ session' = IF r.ok
                      THEN RequestBothDirections(ChangeState(r.session, "INVITE_RECEIVED"))
                      ELSE r.session
        /\ UNCHANGED used

(* nua_i_state "ready" with a status below 300.                            *)
Ready(r) == IF r.ok THEN AcceptSession(r.session) ELSE r.session

(* The SDP of our oldest INVITE.                                           *)
InvitedSdp(s) == IF s.overtaken # None THEN s.overtaken ELSE s.local_sdp

(* The 200 OK with the answer to it.                                       *)
ReceiveAnswer(answer, junk) ==
    /\ Live
    /\ session.cli > 0
    /\ ~session.early
    /\ session' = Ready(SetRemoteSdp(FinalResponse(session), answer, junk))
    /\ UNCHANGED used

(* The ACK with the answer to the offer in our 200 OK.  An INVITE of ours  *)
(* may be open by then: a delayed offer went out behind the 200 OK, and    *)
(* the session takes the ACK for its answer.                               *)
AckArrives(s) ==
    [s EXCEPT !.ack = None,
              !.overtaken = IF s.state = "REINVITE_SENT" THEN s.local_sdp ELSE @]

ReceiveAck(answer, junk) ==
    /\ Live
    /\ session.ack # None
    /\ session' = Ready(SetRemoteSdp(AckArrives(session), answer, junk))
    /\ UNCHANGED used

(* A 183 that carries the answer already, and the 200 OK after it.         *)
ReceiveEarlyAnswer(answer, junk) ==
    /\ Live
    /\ "early" \in PeerMay
    /\ session.state = "INVITE_SENT"
    /\ session' = SetRemoteSdp([session EXCEPT !.early = TRUE], answer, junk).session
    /\ UNCHANGED used

ReceiveFinalAfterEarly ==
    /\ Live
    /\ session.early
    /\ session.cli > 0
    /\ session' = AcceptSession([session EXCEPT !.early = FALSE, !.cli = @ - 1])
    /\ UNCHANGED used

(* A failure response that ends the dialog, or a BYE, or a CANCEL: NUA     *)
(* reports the call as terminated.                                         *)
ReceiveTerminated ==
    /\ Live
    /\ session.state # "CREATED"
    /\ session' = ChangeState(session, "ENDED")
    /\ UNCHANGED used

(* 491 to a re-INVITE: rakia_sip_session_resolve_glare(), which does       *)
(* nothing in a state other than REINVITE_SENT.                            *)
ResolveGlare ==
    /\ Live
    /\ session.cli > 0
    /\ session.state # "INVITE_SENT"
    /\ ~session.early
    /\ session' = LET s == FinalResponse(session)
                  IN  IF s.state = "REINVITE_SENT"
                      THEN ChangeState([s EXCEPT !.glare_timer = "armed"], "REINVITE_PENDING")
                      ELSE s
    /\ Use("glares", MaxGlares)

(* Any other failure of a re-INVITE that leaves the dialog alive.          *)
ReinviteRefused ==
    /\ Live
    /\ session.cli > 0
    /\ session.state # "INVITE_SENT"
    /\ ~session.early
    /\ session' = Terminate(FinalResponse(session))
    /\ UNCHANGED used

(* Faulty variant: the timer looks for the wrong state.                    *)
GlareRetryTooLate ==
    /\ Running
    /\ session.glare_timer = "armed"
    /\ session' = [(IF session.state = "REINVITE_SENT" THEN Invite(session, TRUE)
                    ELSE session) EXCEPT !.glare_timer = "none"]
    /\ UNCHANGED used

(* priv_glare_retry().                                                     *)
GlareRetry ==
    /\ Running
    /\ session.glare_timer = "armed"
    /\ session' = [(IF session.state = "REINVITE_PENDING" THEN Invite(session, TRUE)
                    ELSE session) EXCEPT !.glare_timer = "none"]
    /\ UNCHANGED used

(* rakia_sip_session_receive_reinvite(): the request is saved, the timer   *)
(* of a glare is removed and its id kept.                                  *)
ReceiveReinvite(s, request) ==
    [s EXCEPT !.srv = request, !.saved_event = TRUE, !.state = "REINVITE_RECEIVED",
              !.glare_timer = IF s.state = "REINVITE_PENDING" /\ @ = "armed"
                               THEN "removed" ELSE @]

(* NUA delivers a re-INVITE only in an established dialog with no INVITE   *)
(* of ours outstanding and the last one of the peer acknowledged:          *)
(* nua_i_invite, then nua_i_state with the offer.                          *)
CanReceiveReinvite ==
    /\ Live
    /\ session.cli = 0
    /\ session.srv = "none"
    /\ session.ack = None
    /\ session.state \in {"ACTIVE", "RESPONSE_RECEIVED", "REINVITE_PENDING"}

Reinvite(offer, junk) ==
    /\ CanReceiveReinvite
    /\ session' = SetRemoteSdp(ReceiveReinvite(session, "offer"), offer, junk).session
    /\ Use("offers", MaxOffers)

(* A re-INVITE that leaves the offer to us brings no remote SDP: our 200   *)
(* has the offer, and ReceiveAck the answer.                               *)
ReinviteWithoutOffer ==
    /\ CanReceiveReinvite
    /\ "delay" \in PeerMay
    /\ session' = ReceiveReinvite(session, "delayed")
    /\ Use("offers", MaxOffers)

-----------------------------------------------------------------------------
ClientStep(i) ==
    \/ \E codecs \in LocalCodecs : AcceptCodecs(i, codecs)
    \/ RejectCodecs(i)
    \/ \E codecs \in LocalCodecs : UpdateCodecs(i, codecs)
    \/ FinishInitialCandidates(i)
    \/ StartReceiving(i)
    \/ StopReceiving(i)
    \/ \E direction \in Directions : RequestDirection(i, direction)
    \/ RemoveContent(i)

CallStep ==
    \/ Accept
    \/ Hangup
    \/ \E type \in ContentTypes, direction \in Directions : AddContent(type, direction)
    \/ RequestHold
    \/ ReleaseHold

PeerStep ==
    \/ \E offer \in Offers(session) : ReceiveInvite(offer)
    \/ session.local_sdp # None /\ \E answer \in Answers(InvitedSdp(session)), junk \in Lines :
            ReceiveAnswer(answer, junk) \/ ReceiveEarlyAnswer(answer, junk)
    \/ session.ack # None /\ \E answer \in Answers(session.ack), junk \in Lines :
            ReceiveAck(answer, junk)
    \/ ReceiveFinalAfterEarly
    \/ ReceiveTerminated
    \/ ResolveGlare
    \/ ReinviteRefused
    \/ \E offer \in Offers(session), junk \in Lines : Reinvite(offer, junk)
    \/ ReinviteWithoutOffer

(* Nothing is left to do once the session has ended and its timer is gone, *)
(* or the process has aborted.                                             *)
Finished ==
    /\ \/ session.aborted # "none"
       \/ session.state = "ENDED" /\ session.glare_timer # "armed"
    /\ UNCHANGED vars

Next ==
    \/ \E i \in Present(session) : ClientStep(i)
    \/ CallStep
    \/ PeerStep
    \/ GlareRetry
    \/ Finished

Spec == Init /\ [][Next]_vars

(***************************************************************************)
(* Fairness.  A client that was handed something answers it, a stream that *)
(* is asked to receive starts to, a NUA transaction ends with some final   *)
(* response (its timers see to that), and the glare timer fires.  Nothing  *)
(* makes the user accept, hang up or change the call.                      *)
(***************************************************************************)
(* The weak fairness of the client and of the peer is written out, with    *)
(* the guards that say when their steps are enabled: each of these steps   *)
(* changes the session.                                                    *)
Asked(i, work) ==
    /\ Live
    /\ i \in Present(session)
    /\ LET m == session.medias[i]
       IN  CASE work = "codecs"     -> m.initial_offer \/ m.offers > 0
             [] work = "candidates" -> ~m.local_candidates_prepared
             [] work = "receiving"  -> ReceivingWanted(m) /\ ~m.can_receive

Done(i, work) ==
    /\ i \in Present(session)
    /\ CASE work = "codecs"     -> \E codecs \in LocalCodecs : AcceptCodecs(i, codecs)
         [] work = "candidates" -> FinishInitialCandidates(i)
         [] work = "receiving"  -> StartReceiving(i)

PeerIsAsked == Live /\ session.cli > 0

PeerAnswers ==
    \/ \E answer \in Answers(InvitedSdp(session)), junk \in Lines : ReceiveAnswer(answer, junk)
    \/ ReceiveFinalAfterEarly
    \/ ResolveGlare
    \/ ReinviteRefused
    \/ ReceiveTerminated

Fairness ==
    /\ \A i \in 1..MaxMedia, work \in {"codecs", "candidates", "receiving"} :
          []<>~Asked(i, work) \/ []<><<Done(i, work)>>_vars
    /\ []<>~PeerIsAsked \/ []<><<PeerIsAsked /\ PeerAnswers>>_vars
    /\ WF_vars(GlareRetry)

FairSpec == Spec /\ Fairness

-----------------------------------------------------------------------------
(* Type correctness of the session and of the counters that bound a run.   *)
TypeOK ==
    /\ session \in Session
    /\ used \in [changes : 0..MaxChanges, offers : 0..MaxOffers, glares : 0..MaxGlares]

(* The peer's INVITE or re-INVITE awaits our final response exactly while  *)
(* the state says that it was received; it is answered once, by a 200, a   *)
(* 488 or the response of a termination, and a re-INVITE from the event    *)
(* saved for it.  A call the peer ended meanwhile keeps that event.        *)
RequestsAnsweredOnce ==
    Running =>
        /\ session.srv # "none"
                <=> session.state \in {"INVITE_RECEIVED", "REINVITE_RECEIVED"}
        /\ ~session.stray_response
        /\ session.state = "REINVITE_RECEIVED" => session.saved_event
        /\ session.saved_event => session.state \in {"REINVITE_RECEIVED", "ENDED"}
        /\ session.nua_op <=> session.state # "ENDED"

(* One offer is outstanding at most, in one direction: our INVITE exactly  *)
(* in the *_SENT states, and never together with one of the peer.          *)
NoOverlappingOffers ==
    Running =>
        /\ session.cli \in {0, 1}
        /\ session.cli = 1 <=> session.state \in {"INVITE_SENT", "REINVITE_SENT"}
        /\ session.cli = 1 => session.srv = "none"

(* A 200 OK with our answer has the lines of the offer it answers and      *)
(* takes no direction the offer did not grant.                             *)
AnswersFitOffers == ~session.bad_answer

(* A peer may answer before it has to, in a 183, or have an answer in an   *)
(* ACK taken for the one the session waits for: then a delayed offer goes  *)
(* out while an INVITE is still open.  Even so one INVITE at most is       *)
(* overtaken, a state that waits for an answer has one to come, and no     *)
(* offer of ours goes out while one of the peer awaits our answer.         *)
OneOfferOvertaken ==
    Running =>
        /\ session.cli <= 2
        /\ session.cli = 2 => session.state = "REINVITE_SENT"
        /\ session.state \in {"INVITE_SENT", "REINVITE_SENT"} => session.cli > 0
        /\ session.cli > 0 => session.srv = "none"

(* No media reads an m-line whose memory was released: the structure it    *)
(* points at is kept as long as the media needs it.                        *)
MediaDescriptionsKept == ~session.stale_read

(* A failed codec negotiation is only reported in a state whose handler     *)
(* expects one: the g_assert_not_reached() of the session is never reached. *)
FailureExpected == session.aborted # "negotiation"

(* An incoming call that the user accepted is answered as soon as its       *)
(* medias are ready: the changes to them "will be included in the eventual *)
(* answer" (sip-session.c:838-839), so that an answer must come.           *)
AcceptedCallIsAnswered ==
    Running /\ session.state = "INVITE_RECEIVED" /\ session.accepted /\ Present(session) # {}
        => ~AllMediaReady(session)

(* A call that nobody changes never waits for medias that are ready: its   *)
(* INVITE has gone out, an accepted answer has been acted on, and the first *)
(* re-INVITE of the peer has been answered, whatever came last (the callers *)
(* of priv_request_response_step).  A later re-INVITE may find a media that *)
(* got its codecs without the session hearing of it.                       *)
ReadySessionGoesOn ==
    Running /\ used.changes = 0 /\ AllMediaReady(session) =>
        /\ session.state = "CREATED" => session.incoming \/ Present(session) = {}
        /\ session.state = "RESPONSE_RECEIVED" => ~session.accepted
        /\ session.state = "REINVITE_RECEIVED" => used.offers > 1

(* The session is at rest: no handler is left that would go on with it.    *)
AtRest(s) ==
    /\ s.state = "ACTIVE"
    /\ AllMediaReady(s)
    /\ \A i \in Present(s) : s.medias[i].offers = 0

(* While the peer sends no re-INVITE, nothing that is added or held is     *)
(* lost: at rest every media has a line of its type in the SDP we sent     *)
(* last, which announces the hold.  Not so where the client requests       *)
(* directions: the one in force makes a media ready without a word to the  *)
(* session.  Nor for codecs: those accepted while newer remote ones wait   *)
(* are never offered.                                                      *)
Offered(s, i) ==
    /\ s.local_sdp # None
    /\ i <= Len(s.local_sdp)
    /\ s.local_sdp[i] # None
    /\ s.local_sdp[i].type = s.medias[i].type
    /\ s.hold_requested => "RECEIVE" \notin s.local_sdp[i].dir

UndisturbedChangesAreOffered ==
    used.offers = 0 /\ Running /\ AtRest(session) /\ ~ImmutableStreams =>
        \A i \in Present(session) : Offered(session, i)

(* An m-line keeps its place: while an offer of ours is outstanding it has  *)
(* a line for every line the peer knows, of the same type or rejected.     *)
KeepsLines(sdp, remote) ==
    /\ Len(remote) <= Len(sdp)
    /\ \A i \in 1..Len(remote) :
          sdp[i] # None => remote[i].rejected \/ sdp[i].type = remote[i].type

OffersKeepLines ==
    Running /\ session.state \in {"INVITE_SENT", "REINVITE_SENT"} /\ session.remote_sdp # None =>
        KeepsLines(session.local_sdp, session.remote_sdp)

(* A call that is shown as held by the peer sends nothing on any stream:   *)
(* whatever gives a stream its SEND direction back also lifts the hold.    *)
(* It does not hold of a peer that leaves a line out of an SDP and then    *)
(* has us make the offer: ours has the line that the hold does not know.   *)
RemoteHoldIsReal ==
    session.remote_held =>
        \A i \in Present(session) : "SEND" \notin session.medias[i].direction

-----------------------------------------------------------------------------
(* Requests come to an end.                                                *)
Leaves(state) == session.state = state ~> session.state # state \/ ~Running

(* Our first INVITE leads to an active call or to none: the session does   *)
(* not stay in RESPONSE_RECEIVED once the client chose its codecs.         *)
DialledCallIsSettled ==
    session.state = "INVITE_SENT"
        ~> session.state \notin {"INVITE_SENT", "RESPONSE_RECEIVED"} \/ ~Running

(* A re-INVITE of ours is answered, or gives way to the peer's own.        *)
OfferIsSettled == Leaves("REINVITE_SENT")

(* The peer's re-INVITE is answered, or ends the call: the session makes   *)
(* sure that the response goes out.                                        *)
ReinviteIsAnswered == Leaves("REINVITE_RECEIVED")

(* A glare is followed by a new attempt once its timer fired, or by the    *)
(* peer's own offer.  Where it is checked only new codecs of the client    *)
(* make offers: a retry that finds a media not ready sends nothing, and    *)
(* may stay pending.                                                       *)
GlareIsSettled == Leaves("REINVITE_PENDING")

=============================================================================
