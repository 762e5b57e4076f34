-------------------------- MODULE SipSessionProofs --------------------------
(***************************************************************************)
(* Type correctness of the session (TypeOK of module SipSession) for every *)
(* value of the constants.                                                 *)
(*                                                                         *)
(* One lemma per handler: called on a session record, it leaves a session  *)
(* record.  The lemmas follow the call graph of rakia/sip-session.c from   *)
(* the leaves up, so that an action is the lemma of the handler it calls.  *)
(* The first section is what a media does underneath: whatever a function  *)
(* of rakia/sip-media.c does to a media leaves a media.                    *)
(***************************************************************************)
EXTENDS SipSession, SequenceTheorems, TLAPS

-----------------------------------------------------------------------------
(* The operators of module SipMedia are well typed.                        *)

Signal == {"none", "complete", "local-updated", "failed"}
Result == [media : Media, signal : Signal]

(* The m-line a media points at gives it codecs and candidates.            *)
LEMMA RemoteMediaType ==
    ASSUME NEW m \in Media, m.remote_media # None
    PROVE  /\ m.remote_media \in SdpMedia
           /\ m.remote_media.codecs \in CodecLists
           /\ m.remote_media.conn \in Conns
  <1>1. m.remote_media \in SdpMedia
    BY DEF Media
  <1> QED
    BY <1>1 DEF SdpMedia

LEMMA LineDirection ==
    ASSUME NEW line \in SdpMedia
    PROVE  DirectionFromRemoteMedia(line) \in SUBSET Direction
  BY DEF DirectionFromRemoteMedia

LEMMA NewMediaType ==
    ASSUME NEW type \in SupportedType, NEW requested \in SUBSET Direction,
           NEW local \in BOOLEAN, NEW hold \in BOOLEAN
    PROVE  NewMedia(type, requested, local, hold) \in Media
  BY DEF NewMedia, Media, Home

(* Updating one field of a media within its range leaves a media.          *)
LEMMA PushRemoteCodecsType ==
    ASSUME NEW m \in Media
    PROVE  PushRemoteCodecs(m) \in Media
  <1>1. CASE m.remote_media = None
    BY <1>1 DEF PushRemoteCodecs
  <1>2. CASE m.remote_media # None
    <2>1. m.remote_media.codecs \in CodecLists
      BY <1>2, RemoteMediaType
    <2>2. m.offers + 1 \in Nat
      BY DEF Media
    <2> HIDE DEF SdpMedia
    <2>3. [m EXCEPT !.remote_codec_offer = m.remote_media.codecs, !.offers = m.offers + 1] \in Media
      BY <2>1, <2>2 DEF Media
    <2> QED
      BY <1>2, <2>3 DEF PushRemoteCodecs
  <1> QED
    BY <1>1, <1>2

LEMMA PushRemoteCandidatesType ==
    ASSUME NEW m \in Media
    PROVE  PushRemoteCandidates(m) \in Media
  <1>1. CASE m.remote_media = None
    BY <1>1 DEF PushRemoteCandidates
  <1>2. CASE m.remote_media # None
    <2>1. m.remote_media.conn \in Conns
      BY <1>2, RemoteMediaType
    <2> QED
      BY <1>2, <2>1 DEF PushRemoteCandidates, Media
  <1> QED
    BY <1>1, <1>2

LEMMA TakeRemoteTransportType ==
    ASSUME NEW m \in Media, NEW old, NEW line
    PROVE  TakeRemoteTransport(m, old, line) \in Media
  <1>1. [m EXCEPT !.push_candidates_on_new_codecs = TRUE, !.remote_candidates = None] \in Media
    BY DEF Media
  <1> QED
    BY <1>1, PushRemoteCandidatesType DEF TakeRemoteTransport

LEMMA TakeRemoteCodecsType ==
    ASSUME NEW m \in Media, NEW old, NEW line, NEW authoritative \in BOOLEAN
    PROVE  TakeRemoteCodecs(m, old, line, authoritative) \in Media
  <1> DEFINE m1 == [m EXCEPT !.codec_intersect_pending =
                                m.codec_intersect_pending \/ authoritative]
  <1>1. m1 \in Media
    BY DEF Media
  <1>2. [m1 EXCEPT !.push_remote_codecs_pending = TRUE] \in Media
    <2> HIDE DEF m1
    <2> QED
      BY <1>1 DEF Media
  <1>3. PushRemoteCodecs(m1) \in Media
    BY <1>1, PushRemoteCodecsType
  <1> QED
    BY <1>2, <1>3 DEF TakeRemoteCodecs

LEMMA SetRemoteMediaType ==
    ASSUME NEW m \in Media, NEW line \in SdpMedia, NEW authoritative \in BOOLEAN
    PROVE  SetRemoteMedia(m, line, authoritative) \in Media
  <1> DEFINE old == m.remote_media
             m1 == [m EXCEPT !.remote_media = line, !.home = "current"]
             m2 == IF old = line THEN m1
                   ELSE TakeRemoteCodecs(TakeRemoteTransport(m1, old, line),
                                         old, line, authoritative)
             direction == NewDirection(m, line, authoritative)
  <1>1. m1 \in Media
    BY DEF Media, Home
  <1>2. TakeRemoteTransport(m1, old, line) \in Media
    BY <1>1, TakeRemoteTransportType
  <1>3. m2 \in Media
    BY <1>1, <1>2, TakeRemoteCodecsType
  <1>4. direction \in SUBSET Direction
    BY LineDirection DEF NewDirection
  <1>5. [m2 EXCEPT !.direction = direction] \in Media
    <2> HIDE DEF m2, direction
    <2> QED
      BY <1>3, <1>4 DEF Media
  <1> QED
    BY <1>5 DEF SetRemoteMedia

LEMMA TakeLocalCodecsType ==
    ASSUME NEW m \in Media, NEW codecs \in CodecLists
    PROVE  TakeLocalCodecs(m, codecs) \in Result
  <1> DEFINE m1 == [m EXCEPT !.local_codecs = codecs]
             m0 == [m1 EXCEPT !.push_candidates_on_new_codecs = FALSE]
             m2 == IF m1.push_candidates_on_new_codecs
                   THEN PushRemoteCandidates(m0) ELSE m1
             m3 == [m2 EXCEPT !.codec_intersect_pending = FALSE]
             m4 == [m1 EXCEPT !.push_remote_codecs_pending = FALSE]
             m5 == [m3 EXCEPT !.remote_codec_offer = None]
  <1>1. m1 \in Media
    BY DEF Media
  <1>2. m0 \in Media /\ m4 \in Media
    BY <1>1 DEF Media
  <1>3. m2 \in Media
    BY <1>1, <1>2, PushRemoteCandidatesType
  <1>4. m3 \in Media
    <2> HIDE DEF m2
    <2> QED
      BY <1>3 DEF Media
  <1>5. m5 \in Media
    <2> HIDE DEF m3
    <2> QED
      BY <1>4 DEF Media
  <1>6. PushRemoteCodecs(m4) \in Media
    BY <1>2, PushRemoteCodecsType
  <1> HIDE DEF m2, m3, m4, m5
  <1>7. TakeLocalCodecs(m, codecs) =
            IF m1.push_remote_codecs_pending
            THEN [media |-> PushRemoteCodecs(m4), signal |-> "none"]
            ELSE IF ~m2.codec_intersect_pending
            THEN [media |-> m2, signal |-> "local-updated"]
            ELSE IF IsReady(m3) THEN [media |-> m5, signal |-> "complete"]
            ELSE [media |-> m3, signal |-> "none"]
    BY Zenon DEF TakeLocalCodecs, m2, m3, m4, m5
  <1> QED
    BY <1>3, <1>4, <1>5, <1>6, <1>7 DEF Result, Signal

LEMMA ForgetCodecOfferType ==
    ASSUME NEW m \in Media
    PROVE  ForgetCodecOffer(m) \in Media
  BY DEF ForgetCodecOffer, Media

LEMMA CodecsRejectedType ==
    ASSUME NEW m \in Media
    PROVE  CodecsRejected(m) \in Result
  <1>1. [m EXCEPT !.push_remote_codecs_pending = FALSE] \in Media
    BY DEF Media
  <1>2. [m EXCEPT !.codec_intersect_pending = FALSE] \in Media
    BY DEF Media
  <1> QED
    BY <1>1, <1>2, PushRemoteCodecsType DEF CodecsRejected, Result, Signal

LEMMA LocalCandidatesPreparedType ==
    ASSUME NEW m \in Media
    PROVE  LocalCandidatesPrepared(m) \in Result
  <1>1. [m EXCEPT !.local_candidates_prepared = TRUE] \in Media
    BY DEF Media
  <1> QED
    BY <1>1 DEF LocalCandidatesPrepared, Result, Signal

LEMMA SetCanReceiveType ==
    ASSUME NEW m \in Media, NEW can \in BOOLEAN
    PROVE  SetCanReceive(m, can) \in Result
  <1>1. [m EXCEPT !.can_receive = can] \in Media
    BY DEF Media
  <1> QED
    BY <1>1, ForgetCodecOfferType DEF SetCanReceive, Result, Signal

LEMMA SetRequestedDirectionType ==
    ASSUME NEW m \in Media, NEW direction \in SUBSET Direction
    PROVE  SetRequestedDirection(m, direction) \in Result
  <1>1. [m EXCEPT !.requested_direction = direction] \in Media
    BY DEF Media
  <1> QED
    BY <1>1 DEF SetRequestedDirection, Result, Signal

LEMMA SetHoldRequestedType ==
    ASSUME NEW m \in Media, NEW hold \in BOOLEAN
    PROVE  SetHoldRequested(m, hold) \in Media
  BY DEF SetHoldRequested, Media

LEMMA GeneratedType ==
    ASSUME NEW m \in Media, NEW authoritative \in BOOLEAN
    PROVE  /\ GeneratedDirection(m, authoritative) \in Media
           /\ GenerateSdp(m, authoritative) \in
                [type : SupportedType, dir : SUBSET Direction, codecs : CodecLists \cup {None}]
  <1>1. \A a \in BOOLEAN : SdpDirection(m, a) \in SUBSET Direction
    BY DEF SdpDirection, Media
  <1>2. [m EXCEPT !.direction = SdpDirection(m, FALSE)] \in Media
    BY <1>1 DEF Media
  <1>3. m.type \in SupportedType /\ m.local_codecs \in CodecLists \cup {None}
    BY DEF Media
  <1> QED
    BY <1>1, <1>2, <1>3 DEF GeneratedDirection, GenerateSdp

-----------------------------------------------------------------------------
(* Type correctness of the session, one lemma per handler.                 *)

(* A slot that is not empty holds a media.                                 *)
LEMMA SlotType ==
    ASSUME NEW s \in Session, NEW i \in Slots(s)
    PROVE  /\ s.medias[i] \in Slot
           /\ i \in Present(s) => s.medias[i] \in Media
  <1>1. s.medias \in Seq(Slot)
    BY DEF Session
  <1>2. s.medias[i] \in Slot
    BY <1>1, ElementOfSeq DEF Slots
  <1> QED
    BY <1>2 DEF Slot, Present

(* Mapping every slot gives an array of slots again.                       *)
LEMMA MediasType ==
    ASSUME NEW n \in Nat, NEW f \in [1..n -> Slot]
    PROVE  f \in Seq(Slot)
  BY SeqDef

LEMMA SlotsType ==
    ASSUME NEW s \in Session
    PROVE  Len(s.medias) \in Nat /\ Slots(s) = 1..Len(s.medias)
  BY LenProperties DEF Session, Slots

LEMMA SetMediasType ==
    ASSUME NEW s \in Session, NEW medias \in Seq(Slot)
    PROVE  [s EXCEPT !.medias = medias] \in Session
  BY DEF Session

LEMMA SetLocalSdpType ==
    ASSUME NEW s \in Session, NEW sdp \in Seq(LocalLine)
    PROVE  [s EXCEPT !.local_sdp = sdp] \in Session
  BY DEF Session

LEMMA SetAckType ==
    ASSUME NEW s \in Session, NEW sdp \in Seq(LocalLine) \cup {None}
    PROVE  [s EXCEPT !.ack = sdp] \in Session
  BY DEF Session

LEMMA SetMediaType ==
    ASSUME NEW s \in Session, NEW i \in Slots(s), NEW m \in Slot
    PROVE  [s EXCEPT !.medias[i] = m] \in Session
  <1>1. [s.medias EXCEPT ![i] = m] \in Seq(Slot)
    <2>1. s.medias \in Seq(Slot)
      BY DEF Session
    <2> QED
      BY <2>1, ExceptSeq DEF Slots
  <1>2. [s EXCEPT !.medias = [s.medias EXCEPT ![i] = m]] \in Session
    BY <1>1, SetMediasType
  <1> QED
    BY <1>2

LEMMA SessionSdpType ==
    ASSUME NEW s \in Session, NEW authoritative \in BOOLEAN
    PROVE  /\ SessionSdp(s, authoritative) \in Seq(LocalLine)
           /\ SdpLength(s, authoritative) \in 0..Len(s.medias)
           /\ Len(SessionSdp(s, authoritative)) = SdpLength(s, authoritative)
  <1> DEFINE n == SdpLength(s, authoritative)
             sdp == SessionSdp(s, authoritative)
  <1>1. n \in 0..Len(s.medias)
    <2>1. s.remote_media_count \in Nat
      BY DEF Session
    <2> QED
      BY <2>1, SlotsType DEF SdpLength, Min2
  <1>2. ASSUME NEW i \in 1..n
        PROVE  sdp[i] \in LocalLine
    <2>1. i \in Slots(s)
      BY <1>1, SlotsType
    <2>2. sdp[i] = IF s.medias[i] = None THEN None ELSE GenerateSdp(s.medias[i], authoritative)
      BY DEF SessionSdp
    <2> QED
      BY <2>1, <2>2, SlotType, GeneratedType DEF LocalLine, Slot
  <1>3. sdp \in [1..n -> LocalLine]
    BY <1>2 DEF SessionSdp
  <1>4. n \in Nat
    BY <1>1, SlotsType
  <1>5. sdp \in Seq(LocalLine)
    <2> HIDE DEF n, sdp
    <2> QED
      BY <1>3, <1>4, SeqDef
  <1>6. Len(sdp) = n
    <2> HIDE DEF n, sdp
    <2> QED
      BY <1>3, <1>4, <1>5, LenProperties
  <1> QED
    BY <1>1, <1>5, <1>6

LEMMA NuaInviteType ==
    ASSUME NEW s \in Session
    PROVE  NuaInvite(s) \in Session
  <1> DEFINE n == s.cli + 1
  <1>1. n \in Nat
    <2>1. s.cli \in Nat
      BY DEF Session
    <2> QED
      BY <2>1
  <1>2. [s EXCEPT !.cli = n] \in Session
    <2> HIDE DEF n
    <2> QED
      BY <1>1 DEF Session
  <1> QED
    BY <1>2 DEF NuaInvite

LEMMA ForgetEventType ==
    ASSUME NEW s \in Session
    PROVE  [s EXCEPT !.saved_event = FALSE] \in Session
  BY DEF Session

LEMMA OfferArrivesType ==
    ASSUME NEW s \in Session
    PROVE  [s EXCEPT !.srv = "offer"] \in Session
  BY DEF Session

LEMMA NuaRespondType ==
    ASSUME NEW s \in Session
    PROVE  NuaRespond(s) \in Session
  <1> DEFINE stray == s.stray_response \/ s.srv = "none"
  <1>1. stray \in BOOLEAN
    BY DEF Session
  <1>2. NuaRespond(s) = [s EXCEPT !.srv = "none", !.stray_response = stray]
    BY Zenon DEF NuaRespond
  <1> HIDE DEF stray
  <1>3. [s EXCEPT !.srv = "none", !.stray_response = stray] \in Session
    BY <1>1 DEF Session
  <1> QED
    BY <1>2, <1>3

LEMMA NuaDestroyType ==
    ASSUME NEW s \in Session
    PROVE  NuaDestroy(s) \in Session
  BY DEF NuaDestroy, Session

LEMMA SetOfferType ==
    ASSUME NEW s \in Session, NEW sdp \in Seq(LocalLine), NEW state \in SessionState
    PROVE  [s EXCEPT !.local_sdp = sdp, !.pending_offer = FALSE, !.state = state] \in Session
  <1> DEFINE u == [s EXCEPT !.pending_offer = FALSE, !.state = state]
  <1>1. u \in Session
    BY DEF Session
  <1>2. [s EXCEPT !.local_sdp = sdp, !.pending_offer = FALSE, !.state = state]
          = [u EXCEPT !.local_sdp = sdp]
    BY DEF Session
  <1> HIDE DEF u
  <1> QED
    BY <1>1, <1>2, SetLocalSdpType

LEMMA InviteType ==
    ASSUME NEW s \in Session, NEW reinvite \in BOOLEAN
    PROVE  Invite(s, reinvite) \in Session
  <1> DEFINE sdp == SessionSdp(s, TRUE)
             t == NuaInvite(s)
             state == IF reinvite THEN "REINVITE_SENT" ELSE "INVITE_SENT"
             sent == [t EXCEPT !.local_sdp = sdp, !.pending_offer = FALSE, !.state = state]
  <1>1. sdp \in Seq(LocalLine)
    BY SessionSdpType
  <1>2. t \in Session
    BY NuaInviteType
  <1>3. state \in SessionState
    BY DEF SessionState
  <1>4. sent \in Session
    <2> HIDE DEF sdp, t, state
    <2> QED
      BY <1>1, <1>2, <1>3, SetOfferType
  <1>5. Invite(s, reinvite) \in {s, sent}
    BY Zenon DEF Invite
  <1> QED
    BY <1>4, <1>5

LEMMA ChangeStateType ==
    ASSUME NEW s \in Session, NEW new \in SessionState
    PROVE  ChangeState(s, new) \in Session
  <1> DEFINE s1 == [s EXCEPT !.state = new]
  <1>1. s1 \in Session
    BY DEF Session
  <1>2. NuaDestroy(s1) \in Session /\ Invite(s1, TRUE) \in Session
    BY <1>1, NuaDestroyType, InviteType
  <1>3. ChangeState(s, new) \in {s, s1, NuaDestroy(s1), Invite(s1, TRUE)}
    BY Zenon DEF ChangeState
  <1> QED
    BY <1>1, <1>2, <1>3

LEMMA SetAnswerType ==
    ASSUME NEW s \in Session, NEW sdp \in Seq(LocalLine), NEW medias \in Seq(Slot),
           NEW bad \in BOOLEAN,
           NEW ack \in Seq(LocalLine) \cup {None}
    PROVE  [s EXCEPT !.local_sdp = sdp, !.ack = ack, !.medias = medias, !.bad_answer = bad,
                     !.saved_event = FALSE] \in Session
  <1> DEFINE u == [s EXCEPT !.bad_answer = bad, !.saved_event = FALSE]
             w == [u EXCEPT !.ack = ack]
             v == [w EXCEPT !.local_sdp = sdp]
  <1>1. u \in Session
    BY DEF Session
  <1>2. [s EXCEPT !.local_sdp = sdp, !.ack = ack, !.medias = medias, !.bad_answer = bad,
                  !.saved_event = FALSE]
          = [v EXCEPT !.medias = medias]
    BY DEF Session
  <1>3. v \in Session
    <2>1. w \in Session
      <3> HIDE DEF u
      <3> QED
        BY <1>1, SetAckType
    <2> HIDE DEF w
    <2> QED
      BY <2>1, SetLocalSdpType
  <1>4. [v EXCEPT !.medias = medias] \in Session
    <2> HIDE DEF v
    <2> QED
      BY <1>3, SetMediasType
  <1> QED
    BY <1>2, <1>4

LEMMA AnsweredType ==
    ASSUME NEW s \in Session
    PROVE  Answered(s) \in Session
  <1> DEFINE sdp == SessionSdp(s, FALSE)
             medias == [i \in Slots(s) |->
                          IF s.medias[i] = None \/ i > Len(sdp) THEN s.medias[i]
                          ELSE GeneratedDirection(s.medias[i], FALSE)]
             t == NuaRespond(s)
             bad == t.bad_answer \/ (s.srv = "offer" /\ ~AnswerFits(sdp, s.remote_sdp))
             ack == IF s.srv = "delayed" THEN sdp ELSE t.ack
             s1 == [t EXCEPT !.local_sdp = sdp, !.ack = ack, !.medias = medias,
                             !.bad_answer = bad, !.saved_event = FALSE]
  <1>1. sdp \in Seq(LocalLine)
    BY SessionSdpType
  <1>2. medias \in Seq(Slot)
    <2>1. ASSUME NEW i \in Slots(s)
          PROVE  medias[i] \in Slot
      BY SlotType, GeneratedType DEF Slot, Present
    <2>2. medias \in [Slots(s) -> Slot]
      BY <2>1
    <2> HIDE DEF medias
    <2> QED
      BY <2>2, SlotsType, MediasType
  <1>3. t \in Session
    BY NuaRespondType
  <1>4. bad \in BOOLEAN /\ ack \in Seq(LocalLine) \cup {None}
    <2> HIDE DEF sdp, t
    <2> QED
      BY <1>1, <1>3 DEF Session
  <1>5. s1 \in Session
    <2> HIDE DEF sdp, medias, t, bad, ack
    <2> QED
      BY <1>1, <1>2, <1>3, <1>4, SetAnswerType
  <1>6. Answered(s) = s1
    BY Zenon DEF Answered
  <1> QED
    BY <1>5, <1>6

LEMMA RespondType ==
    ASSUME NEW s \in Session
    PROVE  Respond(s) \in Session
  BY AnsweredType, ChangeStateType DEF Respond, SessionState

LEMMA RequestResponseStepType ==
    ASSUME NEW s \in Session
    PROVE  RequestResponseStep(s) \in Session
  <1>1. RequestResponseStep(s) \in
            {s, Invite(s, FALSE), Invite(s, TRUE), Respond(s), ChangeState(s, "ACTIVE")}
    BY Zenon DEF RequestResponseStep
  <1> QED
    BY <1>1, InviteType, RespondType, ChangeStateType DEF SessionState

LEMMA TerminateType ==
    ASSUME NEW s \in Session
    PROVE  Terminate(s) \in Session
  <1> DEFINE t == NuaRespond(s)
             t1 == [t EXCEPT !.saved_event = FALSE]
  <1>1. t \in Session
    BY NuaRespondType
  <1>2. t1 \in Session
    <2> HIDE DEF t
    <2> QED
      BY ZenonT(60), <1>1 DEF Session
  <1>3. Terminate(s) \in {s, ChangeState(s, "ENDED"), ChangeState(t, "ENDED"),
                          ChangeState(t1, "ENDED")}
    BY Zenon DEF Terminate
  <1> QED
    BY <1>1, <1>2, <1>3, ChangeStateType DEF SessionState

LEMMA AcceptSessionType ==
    ASSUME NEW s \in Session
    PROVE  AcceptSession(s) \in Session
  <1> DEFINE s1 == [s EXCEPT !.accepted = TRUE]
  <1>1. s1 \in Session
    BY DEF Session
  <1>2. AcceptSession(s) \in {s, RequestResponseStep(s1)}
    BY Zenon DEF AcceptSession
  <1> QED
    BY <1>1, <1>2, RequestResponseStepType

LEMMA MediaChangedType ==
    ASSUME NEW s \in Session
    PROVE  MediaChanged(s) \in Session
  <1> DEFINE pending == s.pending_offer \/ s.remote_media_count < Len(s.medias)
             s1 == [s EXCEPT !.pending_offer = pending]
             s2 == [s EXCEPT !.pending_offer = TRUE]
  <1>1. s1 \in Session /\ s2 \in Session
    <2>1. pending \in BOOLEAN
      BY DEF Session
    <2> HIDE DEF pending
    <2> QED
      BY ZenonT(60), <2>1 DEF Session
  <1>2. s.state \in SessionState
    BY DEF Session
  <1>3. MediaChanged(s) \in {s, RequestResponseStep(s), s1, s2, Invite(s, TRUE)}
    <2> DEFINE r == RequestResponseStep(s)
               v == Invite(s, TRUE)
               ready == AllMediaReady(s)
    <2>1. MediaChanged(s) =
            CASE s.state = "CREATED" -> r
              [] s.state \in {"INVITE_RECEIVED", "REINVITE_RECEIVED"} -> s1
              [] s.state \in {"INVITE_SENT", "REINVITE_SENT", "RESPONSE_RECEIVED"} -> s2
              [] s.state = "ACTIVE" /\ ImmutableStreams -> s
              [] \/ s.state = "ACTIVE" /\ ~ImmutableStreams
                 \/ s.state = "REINVITE_PENDING" -> IF ready THEN v ELSE s2
              [] s.state = "ENDED" -> s
      BY Zenon DEF MediaChanged
    <2> HIDE DEF s1, s2, r, v, ready
    <2> QED
      BY <1>2, <2>1 DEF SessionState, r, v
  <1> QED
    BY <1>1, <1>3, RequestResponseStepType, InviteType

LEMMA AddMediaType ==
    ASSUME NEW s \in Session, NEW type \in SupportedType, NEW direction \in SUBSET Direction
    PROVE  AddMedia(s, type, direction) \in Session
  <1> DEFINE initial == s.state \in {"CREATED", "INVITE_RECEIVED"}
             s1 == IF initial /\ direction # Bidirectional THEN MediaChanged(s) ELSE s
             m == NewMedia(type, IF initial THEN Bidirectional ELSE direction,
                           TRUE, s.hold_requested)
             medias == Append(s1.medias, m)
  <1>1. s1 \in Session
    BY MediaChangedType
  <1>2. m \in Slot
    <2>1. s.hold_requested \in BOOLEAN
      BY DEF Session
    <2>2. (IF initial THEN Bidirectional ELSE direction) \in SUBSET Direction
      BY DEF Bidirectional
    <2> QED
      BY <2>1, <2>2, NewMediaType DEF Slot
  <1>3. medias \in Seq(Slot)
    <2> HIDE DEF s1, m
    <2>1. s1.medias \in Seq(Slot)
      BY <1>1 DEF Session
    <2> QED
      BY <1>2, <2>1, AppendProperties
  <1>4. [s1 EXCEPT !.medias = medias] \in Session
    <2> HIDE DEF s1, medias
    <2> QED
      BY <1>1, <1>3, SetMediasType
  <1> QED
    BY <1>4, Zenon DEF AddMedia

LEMMA UpdatedSlotType ==
    ASSUME NEW s \in Session, NEW i \in Nat \ {0}, NEW line \in SdpMedia,
           NEW authoritative \in BOOLEAN
    PROVE  UpdatedSlot(s, i, line, authoritative) \in Slot
  <1> DEFINE kept == i <= Len(s.medias) /\ s.medias[i] # None /\ s.medias[i].type = line.type
             new == NewMedia(line.type, DirectionFromRemoteMedia(line) \cap {"RECEIVE"},
                             FALSE, s.hold_requested)
             m == IF kept THEN s.medias[i] ELSE new
  <1>1. ASSUME line.type \in SupportedType
        PROVE  m \in Media
    <2>1. ASSUME kept
          PROVE  s.medias[i] \in Media
      <3>1. i \in Slots(s)
        BY <2>1, SlotsType
      <3> QED
        BY <2>1, <3>1, SlotType DEF Present
    <2>2. new \in Media
      <3>1. s.hold_requested \in BOOLEAN
        BY DEF Session
      <3>2. DirectionFromRemoteMedia(line) \cap {"RECEIVE"} \in SUBSET Direction
        BY LineDirection
      <3> QED
        BY <1>1, <3>1, <3>2, NewMediaType
    <2> HIDE DEF kept, new
    <2> QED
      BY <2>1, <2>2
  <1>2. UpdatedSlot(s, i, line, authoritative) =
            IF AcceptableRemoteMedia(line) /\ line.type \in SupportedType
            THEN SetRemoteMedia(m, line, authoritative) ELSE None
    BY Zenon DEF UpdatedSlot
  <1> HIDE DEF m
  <1> QED
    BY <1>1, <1>2, SetRemoteMediaType DEF Slot

LEMMA UpdateRemoteMediaType ==
    ASSUME NEW s \in Session, s.remote_sdp \in Seq(SdpMedia), NEW authoritative \in BOOLEAN
    PROVE  UpdateRemoteMedia(s, authoritative) \in Session
  <1> DEFINE n == Len(s.remote_sdp)
             medias == [i \in 1..Max2(n, Len(s.medias)) |->
                          IF i <= n THEN UpdatedSlot(s, i, s.remote_sdp[i], authoritative)
                          ELSE IF s.pending_offer THEN s.medias[i] ELSE None]
             stale == s.stale_read \/ \E i \in Present(s) :
                        /\ i <= n
                        /\ AcceptableRemoteMedia(s.remote_sdp[i])
                        /\ s.medias[i].type = s.remote_sdp[i].type
                        /\ s.medias[i].home = "freed"
             s1 == [s EXCEPT !.medias = medias, !.stale_read = stale]
             held == RemotelyHeld(s1)
  <1>1. n \in Nat /\ Len(s.medias) \in Nat /\ Max2(n, Len(s.medias)) \in Nat
    BY LenProperties, SlotsType DEF Max2
  <1>2. medias \in Seq(Slot)
    <2>1. ASSUME NEW i \in 1..Max2(n, Len(s.medias))
          PROVE  medias[i] \in Slot
      <3>1. CASE i <= n
        <4>1. s.remote_sdp[i] \in SdpMedia
          BY <1>1, <3>1, ElementOfSeq
        <4>2. medias[i] = UpdatedSlot(s, i, s.remote_sdp[i], authoritative)
          BY <3>1
        <4> QED
          BY <1>1, <4>1, <4>2, UpdatedSlotType
      <3>2. CASE ~(i <= n)
        <4>1. i \in Slots(s)
          BY <1>1, <3>2 DEF Max2, Slots
        <4>2. medias[i] \in {s.medias[i], None}
          BY <3>2
        <4> QED
          BY <4>1, <4>2, SlotType DEF Slot
      <3> QED
        BY <3>1, <3>2
    <2>2. medias \in [1..Max2(n, Len(s.medias)) -> Slot]
      BY <2>1
    <2> HIDE DEF medias
    <2> QED
      BY <1>1, <2>2, MediasType
  <1>3. stale \in BOOLEAN
    BY DEF Session
  <1>4. s1 \in Session
    <2> HIDE DEF medias, stale
    <2> QED
      BY <1>2, <1>3 DEF Session
  <1>5. [s1 EXCEPT !.remote_held = held] \in Session
    <2>1. held \in BOOLEAN
      BY DEF RemotelyHeld
    <2> HIDE DEF s1, held
    <2> QED
      BY <1>4, <2>1 DEF Session
  <1>6. [s EXCEPT !.aborted = "slot"] \in Session
    BY DEF Session
  <1>7. UpdateRemoteMedia(s, authoritative) \in
            {[s EXCEPT !.aborted = "slot"], [s1 EXCEPT !.remote_held = held], s1}
    BY Zenon DEF UpdateRemoteMedia
  <1> QED
    BY <1>4, <1>5, <1>6, <1>7

(* Moving a media from one memory home to another.                         *)
LEMMA RehomeType ==
    ASSUME NEW m \in Slot, NEW home \in Home, NEW to \in Home, NEW junk \in SdpMedia
    PROVE  /\ Release(m, home, junk) \in Slot
           /\ Rehome(m, home, to) \in Slot
  <1>1. CASE m = None
    BY <1>1 DEF Release, Rehome, Slot
  <1>2. CASE m # None
    <2>1. m \in Media
      BY <1>2 DEF Slot
    <2>2. [m EXCEPT !.home = "freed", !.remote_media = junk] \in Media
      BY <2>1 DEF Media, Home
    <2>3. [m EXCEPT !.home = to] \in Media
      BY <2>1 DEF Media
    <2> QED
      BY <1>2, <2>1, <2>2, <2>3 DEF Release, Rehome, Slot
  <1> QED
    BY <1>1, <1>2

LEMMA ShiftHomesType ==
    ASSUME NEW s \in Session, NEW junk \in SdpMedia,
           NEW old \in Home, NEW from \in Home, NEW to \in Home
    PROVE  [i \in Slots(s) |-> Rehome(Release(s.medias[i], old, junk), from, to)] \in Seq(Slot)
  <1> DEFINE medias == [i \in Slots(s) |-> Rehome(Release(s.medias[i], old, junk), from, to)]
  <1>1. ASSUME NEW i \in Slots(s)
        PROVE  medias[i] \in Slot
    BY SlotType, RehomeType
  <1>2. medias \in [Slots(s) -> Slot]
    BY <1>1
  <1> HIDE DEF medias
  <1>3. medias \in Seq(Slot)
    BY <1>2, SlotsType, MediasType
  <1> QED
    BY <1>3 DEF medias

LEMMA StoreRemoteSdpType ==
    ASSUME NEW s \in Session, NEW sdp \in Seq(SdpMedia), NEW junk \in SdpMedia
    PROVE  /\ StoreRemoteSdp(s, sdp, junk) \in Session
           /\ StoreRemoteSdp(s, sdp, junk).remote_sdp = sdp
  <1> DEFINE medias == [i \in Slots(s) |->
                          Rehome(Release(s.medias[i], "backup", junk), "current", "backup")]
             t == [s EXCEPT !.backup_remote_sdp = s.remote_sdp, !.remote_sdp = sdp,
                            !.medias = medias]
  <1>1. medias \in Seq(Slot)
    BY ShiftHomesType DEF Home
  <1>2. s.remote_sdp \in Seq(SdpMedia) \cup {None}
    BY DEF Session
  <1>3. t \in Session /\ t.remote_sdp = sdp
    <2> HIDE DEF medias
    <2> QED
      BY <1>1, <1>2 DEF Session
  <1> QED
    BY <1>3, Zenon DEF StoreRemoteSdp

LEMMA SetRemoteSdpType ==
    ASSUME NEW s \in Session, NEW sdp \in Seq(SdpMedia), NEW junk \in SdpMedia
    PROVE  /\ SetRemoteSdp(s, sdp, junk).session \in Session
           /\ SetRemoteSdp(s, sdp, junk).ok \in BOOLEAN
  <1> DEFINE counted == [s EXCEPT !.remote_media_count = Len(sdp)]
             s1 == IF s.state \in {"INVITE_SENT", "REINVITE_SENT"}
                   THEN ChangeState(s, "RESPONSE_RECEIVED") ELSE counted
             stored == StoreRemoteSdp(s1, sdp, junk)
             authoritative == s1.state \in {"INVITE_RECEIVED", "REINVITE_RECEIVED"}
             s2 == UpdateRemoteMedia(stored, authoritative)
  <1>1. s1 \in Session
    <2>1. Len(sdp) \in Nat
      BY LenProperties
    <2>2. counted \in Session
      BY <2>1 DEF Session
    <2> QED
      BY <2>2, ChangeStateType DEF SessionState
  <1>2. s2 \in Session
    <2> HIDE DEF s1
    <2> QED
      <3>1. stored \in Session /\ stored.remote_sdp \in Seq(SdpMedia)
        BY <1>1, StoreRemoteSdpType
      <3>2. authoritative \in BOOLEAN
        OBVIOUS
      <3> HIDE DEF stored, authoritative
      <3> QED
        BY <3>1, <3>2, UpdateRemoteMediaType
  <1>3. SetRemoteSdp(s, sdp, junk) \in
            {[ok |-> TRUE, session |-> RequestResponseStep(s1)],
             [ok |-> FALSE, session |-> s2],
             [ok |-> FALSE, session |-> Terminate(s2)],
             [ok |-> TRUE, session |-> RequestResponseStep(s2)]}
    <2> HIDE DEF s1, s2
    <2> QED
      BY Zenon DEF SetRemoteSdp, s1, s2
  <1> HIDE DEF s1, s2
  <1>4. /\ RequestResponseStep(s1) \in Session
        /\ RequestResponseStep(s2) \in Session
        /\ Terminate(s2) \in Session
    BY <1>1, <1>2, RequestResponseStepType, TerminateType
  <1>5. ASSUME NEW t \in Session, NEW ok \in BOOLEAN,
               SetRemoteSdp(s, sdp, junk) = [ok |-> ok, session |-> t]
        PROVE  /\ SetRemoteSdp(s, sdp, junk).session \in Session
               /\ SetRemoteSdp(s, sdp, junk).ok \in BOOLEAN
    BY <1>5
  <1> QED
    BY <1>2, <1>3, <1>4, <1>5, Zenon

LEMMA RollbackType ==
    ASSUME NEW s \in Session, NEW junk \in SdpMedia
    PROVE  Rollback(s, junk) \in Session
  <1> DEFINE medias == [i \in Slots(s) |->
                          Rehome(Release(s.medias[i], "current", junk), "backup", "current")]
             s1 == [s EXCEPT !.remote_sdp = s.backup_remote_sdp, !.backup_remote_sdp = None,
                             !.medias = medias]
             s2 == UpdateRemoteMedia(s1, FALSE)
             t == NuaRespond(s2)
             t1 == [t EXCEPT !.saved_event = FALSE]
  <1>1. medias \in Seq(Slot)
    BY ShiftHomesType DEF Home
  <1>2. s.backup_remote_sdp \in Seq(SdpMedia) \cup {None}
    BY DEF Session
  <1>3. s1 \in Session /\ s1.remote_sdp = s.backup_remote_sdp
    <2> HIDE DEF medias
    <2> QED
      BY <1>1, <1>2 DEF Session
  <1>4. ASSUME s.backup_remote_sdp # None
        PROVE  s2 \in Session /\ ChangeState(t1, "ACTIVE") \in Session
    <2>1. s1.remote_sdp \in Seq(SdpMedia)
      BY <1>2, <1>3, <1>4
    <2>2. s2 \in Session
      <3> HIDE DEF s1
      <3> QED
        BY <1>3, <2>1, UpdateRemoteMediaType
    <2>3. t1 \in Session
      <3> HIDE DEF s2
      <3>1. t \in Session
        BY <2>2, NuaRespondType
      <3> HIDE DEF t
      <3> QED
        BY ZenonT(60), <3>1 DEF Session
    <2> HIDE DEF s2, t1
    <2> QED
      BY <2>2, <2>3, ChangeStateType DEF SessionState
  <1>5. Rollback(s, junk) = IF s.backup_remote_sdp = None THEN Terminate(s1)
                            ELSE IF s2.aborted # "none" THEN s2
                            ELSE ChangeState(t1, "ACTIVE")
    BY Zenon DEF Rollback
  <1> HIDE DEF s1, s2, t1
  <1> QED
    BY <1>3, <1>4, <1>5, TerminateType

LEMMA RemoveMediaType ==
    ASSUME NEW s \in Session, NEW i \in Slots(s)
    PROVE  RemoveMedia(s, i) \in Session
  BY SetMediaType DEF RemoveMedia, Slot

LEMMA NegotiationFailedType ==
    ASSUME NEW s \in Session, NEW i \in Slots(s), NEW junk \in SdpMedia
    PROVE  NegotiationFailed(s, i, junk) \in Session
  <1>1. NegotiationFailed(s, i, junk) \in
            {RequestResponseStep(RemoveMedia(s, i)), Rollback(s, junk), s,
             [s EXCEPT !.aborted = "negotiation"]}
    BY Zenon DEF NegotiationFailed
  <1>2. [s EXCEPT !.aborted = "negotiation"] \in Session
    BY DEF Session
  <1> QED
    BY <1>1, <1>2, RemoveMediaType, RequestResponseStepType, RollbackType

LEMMA HandleSignalType ==
    ASSUME NEW s \in Session, NEW i \in Slots(s), NEW r \in Result
    PROVE  HandleSignal(s, i, r) \in Session
  <1> DEFINE s1 == [s EXCEPT !.medias[i] = r.media]
  <1>1. s1 \in Session
    <2>1. r.media \in Slot
      BY DEF Result, Slot
    <2> QED
      BY <2>1, SetMediaType
  <1>2. HandleSignal(s, i, r) \in {RequestResponseStep(s1), MediaChanged(s1), s1}
    BY Zenon DEF HandleSignal
  <1> HIDE DEF s1
  <1> QED
    BY <1>1, <1>2, RequestResponseStepType, MediaChangedType

LEMMA HandleRejectionType ==
    ASSUME NEW s \in Session, NEW i \in Present(s), NEW junk \in SdpMedia
    PROVE  HandleRejection(s, i, junk) \in Session
  <1> DEFINE r == CodecsRejected(s.medias[i])
             s1 == [s EXCEPT !.medias[i] = r.media]
             s2 == NegotiationFailed(s1, i, junk)
             m == ForgetCodecOffer(s2.medias[i])
             s3 == [s2 EXCEPT !.medias[i] = m]
  <1>1. i \in Slots(s) /\ s.medias[i] \in Media
    BY SlotType DEF Present
  <1>2. s1 \in Session /\ i \in Slots(s1)
    <2>1. r \in Result
      BY <1>1, CodecsRejectedType
    <2>2. r.media \in Slot
      BY <2>1 DEF Result, Slot
    <2>3. s1 \in Session
      BY <1>1, <2>2, SetMediaType
    <2>4. s.medias \in Seq(Slot)
      BY DEF Session
    <2>5. s1.medias = [s.medias EXCEPT ![i] = r.media]
      <3> HIDE DEF r
      <3> QED
        BY DEF Session
    <2>6. Len(s1.medias) = Len(s.medias)
      BY <1>1, <2>2, <2>4, <2>5, ExceptSeq DEF Slots
    <2> QED
      BY <1>1, <2>3, <2>6 DEF Slots
  <1>3. s2 \in Session
    <2> HIDE DEF s1
    <2> QED
      BY <1>2, NegotiationFailedType
  <1>4. ASSUME s2.medias[i] # None, i \in Slots(s2)
        PROVE  s3 \in Session
    <2> HIDE DEF s2
    <2>1. m \in Slot
      BY <1>3, <1>4, SlotType, ForgetCodecOfferType DEF Present, Slot
    <2> HIDE DEF m
    <2> QED
      BY <1>3, <1>4, <2>1, SetMediaType
  <1>5. ASSUME i \notin Slots(s2)
        PROVE  s3 = s2
    <2> HIDE DEF s2
    <2>1. s2.medias \in Seq(Slot)
      BY <1>3 DEF Session
    <2>2. s2.medias = [s2.medias EXCEPT ![i] = m]
      <3>1. DOMAIN s2.medias = Slots(s2)
        BY <2>1, LenProperties DEF Slots
      <3>2. s2.medias \in [Slots(s2) -> Slot]
        BY <2>1, LenProperties DEF Slots
      <3> HIDE DEF m
      <3> QED
        BY <1>5, <3>2
    <2> HIDE DEF m
    <2> QED
      BY <1>3, <2>2 DEF Session
  <1>6. HandleRejection(s, i, junk) =
            IF r.signal = "none" THEN s1
            ELSE IF s2.medias[i] # None /\ s2.medias[i].type = r.media.type THEN s3 ELSE s2
    BY Zenon DEF HandleRejection
  <1> HIDE DEF r, s1, s2, s3
  <1> QED
    BY <1>2, <1>3, <1>4, <1>5, <1>6

LEMMA SetSessionHoldType ==
    ASSUME NEW s \in Session, NEW hold \in BOOLEAN
    PROVE  SetSessionHold(s, hold) \in Session
  <1> DEFINE medias == [i \in Slots(s) |-> IF s.medias[i] = None THEN None
                                           ELSE SetHoldRequested(s.medias[i], hold)]
             s1 == [s EXCEPT !.hold_requested = hold, !.medias = medias]
  <1>1. medias \in Seq(Slot)
    <2>1. ASSUME NEW i \in Slots(s)
          PROVE  medias[i] \in Slot
      BY SlotType, SetHoldRequestedType DEF Slot, Present
    <2>2. medias \in [Slots(s) -> Slot]
      BY <2>1
    <2> HIDE DEF medias
    <2> QED
      BY <2>2, SlotsType, MediasType
  <1>2. s1 \in Session
    <2> HIDE DEF medias
    <2> QED
      BY <1>1 DEF Session
  <1>3. SetSessionHold(s, hold) = MediaChanged(s1)
    BY Zenon DEF SetSessionHold
  <1> HIDE DEF s1
  <1> QED
    BY <1>2, <1>3, MediaChangedType

LEMMA RequestBothDirectionsType ==
    ASSUME NEW s \in Session
    PROVE  RequestBothDirections(s) \in Session
  <1> DEFINE medias == [i \in Slots(s) |->
                          IF s.medias[i] = None THEN None
                          ELSE SetRequestedDirection(s.medias[i], Bidirectional).media]
             s1 == [s EXCEPT !.medias = medias]
  <1>1. medias \in Seq(Slot)
    <2>1. ASSUME NEW i \in Slots(s)
          PROVE  medias[i] \in Slot
      <3>1. CASE s.medias[i] = None
        BY <3>1 DEF Slot
      <3>2. CASE s.medias[i] # None
        <4>1. s.medias[i] \in Media
          BY <3>2, SlotType DEF Present
        <4>2. SetRequestedDirection(s.medias[i], Bidirectional) \in Result
          BY <4>1, SetRequestedDirectionType DEF Bidirectional
        <4> QED
          BY <3>2, <4>2 DEF Result, Slot
      <3> QED
        BY <3>1, <3>2
    <2>2. medias \in [Slots(s) -> Slot]
      BY <2>1
    <2> HIDE DEF medias
    <2> QED
      BY <2>2, SlotsType, MediasType
  <1>2. s1 \in Session
    <2> HIDE DEF medias
    <2> QED
      BY <1>1, SetMediasType
  <1>3. RequestBothDirections(s) \in {MediaChanged(s1), s1}
    BY Zenon DEF RequestBothDirections
  <1> HIDE DEF s1
  <1> QED
    BY <1>2, <1>3, MediaChangedType

-----------------------------------------------------------------------------
(* Type correctness of the initial state and of every action.              *)

LEMMA NewSessionType ==
    ASSUME NEW incoming \in BOOLEAN
    PROVE  NewSession(incoming) \in Session
  <1> DEFINE n == Len(InitialTypes)
             given == [i \in 1..n |-> NewMedia(InitialTypes[i], Bidirectional, TRUE, FALSE)]
             medias == IF incoming THEN << >> ELSE given
  <1>1. n \in Nat
    BY LenProperties, SessionAssumption DEF SessionAssumption
  <1>2. given \in Seq(Slot)
    <2>1. ASSUME NEW i \in 1..n
          PROVE  given[i] \in Slot
      <3>1. InitialTypes[i] \in SupportedType
        BY ElementOfSeq, SessionAssumption DEF SessionAssumption
      <3> QED
        BY <3>1, NewMediaType DEF Slot, Bidirectional
    <2>2. given \in [1..n -> Slot]
      BY <2>1
    <2> HIDE DEF given, n
    <2> QED
      BY <1>1, <2>2, MediasType
  <1>3. medias \in Seq(Slot)
    BY <1>2, EmptySeq
  <1> HIDE DEF medias
  <1>4. NewSession(incoming) =
         [state |-> "CREATED", incoming |-> incoming, nua_op |-> TRUE, medias |-> medias,
          saved_event |-> FALSE, hold_requested |-> FALSE, remote_media_count |-> 0,
          local_sdp |-> None, remote_sdp |-> None, backup_remote_sdp |-> None,
          accepted |-> FALSE, pending_offer |-> FALSE, glare_timer |-> "none",
          remote_held |-> FALSE, cli |-> 0, srv |-> "none", ack |-> None,
          overtaken |-> None, early |-> FALSE, aborted |-> "none", bad_answer |-> FALSE, stray_response |-> FALSE,
          stale_read |-> FALSE]
    BY Zenon DEF NewSession, medias
  <1> QED
    BY <1>3, <1>4 DEF Session, SessionState

LEMMA AnswerLinesType ==
    ASSUME NEW offered \in LocalLine
    PROVE  AnswerLines(offered) \subseteq SdpMedia
  <1>1. ZeroPort \in SdpMedia /\ Lines \subseteq SdpMedia
    BY SessionAssumption DEF SessionAssumption
  <1>2. ASSUME NEW line \in SdpMedia, NEW mode \in SUBSET {"sendonly", "recvonly"}
        PROVE  [line EXCEPT !.mode = mode] \in SdpMedia
    BY DEF SdpMedia
  <1>3. ASSUME NEW line \in SdpMedia, NEW dir
        PROVE  AnswerMode(line, dir) \in SUBSET {"sendonly", "recvonly"}
    BY DEF AnswerMode, SdpMedia
  <1>4. ASSUME NEW line \in Lines
        PROVE  [line EXCEPT !.mode = AnswerMode(line, offered.dir)] \in SdpMedia
    BY <1>1, <1>2, <1>3
  <1> QED
    BY <1>1, <1>4 DEF AnswerLines

LEMMA SdpsType ==
    ASSUME NEW S, NEW low \in Nat, NEW high \in Nat, S \subseteq SdpMedia
    PROVE  UNION {[1..n -> S] : n \in low..high} \subseteq Seq(SdpMedia)
  <1>1. ASSUME NEW n \in low..high, NEW a \in [1..n -> S]
        PROVE  a \in Seq(SdpMedia)
    <2>1. n \in Nat /\ a \in [1..n -> SdpMedia]
      OBVIOUS
    <2> QED
      BY <2>1, SeqDef
  <1> QED
    BY <1>1

LEMMA AnswersType ==
    ASSUME NEW offer \in Seq(LocalLine), NEW answer \in Answers(offer)
    PROVE  answer \in Seq(SdpMedia)
  <1> DEFINE S == UNION {AnswerLines(offer[i]) : i \in 1..Len(offer)}
             low == IF "shrink" \in PeerMay THEN Min2(1, Len(offer)) ELSE Len(offer)
             high == Len(offer)
  <1>1. S \subseteq SdpMedia
    BY ElementOfSeq, AnswerLinesType
  <1>2. low \in Nat /\ high \in Nat
    BY LenProperties DEF Min2
  <1>3. answer \in UNION {[1..n -> S] : n \in low..high}
    BY DEF Answers
  <1> HIDE DEF S, low, high
  <1> QED
    BY <1>1, <1>2, <1>3, SdpsType

LEMMA OffersType ==
    ASSUME NEW s \in Session, NEW offer \in Offers(s)
    PROVE  offer \in Seq(SdpMedia)
  <1> DEFINE S == Lines \cup {ZeroPort}
             low == IF "shrink" \in PeerMay THEN 1 ELSE Max2(1, KnownLines(s))
  <1>1. S \subseteq SdpMedia
    BY SessionAssumption DEF SessionAssumption
  <1>2. low \in Nat
    <2>1. s.remote_sdp \in Seq(SdpMedia) \cup {None}
      BY DEF Session
    <2>2. KnownLines(s) \in Nat
      BY <2>1, LenProperties DEF KnownLines
    <2> QED
      BY <2>2 DEF Max2
  <1>3. MaxMedia \in Nat
    BY SessionAssumption DEF SessionAssumption
  <1>4. offer \in UNION {[1..n -> S] : n \in low..MaxMedia}
    BY DEF Offers
  <1> HIDE DEF S, low
  <1> QED
    BY <1>1, <1>2, <1>3, <1>4, SdpsType

(* A step of the client stores what the media made of it and runs the      *)
(* session's handler of the signal, unless it rejects codecs or removes    *)
(* the content.                                                            *)
LEMMA ClientStepSignals ==
    ASSUME session \in Session, NEW i \in Present(session), ClientStep(i),
           ~RejectCodecs(i), ~RemoveContent(i)
    PROVE  \E r \in Result : session' = HandleSignal(session, i, r)
  <1> DEFINE m == session.medias[i]
  <1>1. m \in Media
    BY SlotType DEF Present
  <1>2. ASSUME NEW codecs \in LocalCodecs, AcceptCodecs(i, codecs)
        PROVE  \E r \in Result : session' = HandleSignal(session, i, r)
    <2> DEFINE answered == IF m.initial_offer THEN [m EXCEPT !.initial_offer = FALSE]
                           ELSE [m EXCEPT !.offers = m.offers - 1]
    <2>1. m.initial_offer \/ m.offers > 0
      BY <1>2, Zenon DEF AcceptCodecs
    <2>2. answered \in Media
      <3> HIDE DEF m
      <3>1. CASE m.initial_offer
        <4>1. [m EXCEPT !.initial_offer = FALSE] \in Media
          BY <1>1 DEF Media
        <4> QED
          BY <3>1, <4>1
      <3>2. CASE ~m.initial_offer
        <4> DEFINE n == m.offers - 1
        <4>1. m.offers \in Nat
          BY <1>1 DEF Media
        <4>2. n \in Nat
          BY <2>1, <3>2, <4>1
        <4>3. [m EXCEPT !.offers = n] \in Media
          <5> HIDE DEF n
          <5> QED
            BY <1>1, <4>2 DEF Media
        <4> QED
          BY <3>2, <4>3
      <3> QED
        BY <3>1, <3>2
    <2>3. session' = HandleSignal(session, i, TakeLocalCodecs(answered, codecs))
      BY <1>2, Zenon DEF AcceptCodecs
    <2>4. codecs \in CodecLists
      BY SessionAssumption DEF SessionAssumption
    <2> HIDE DEF answered
    <2> QED
      BY <2>2, <2>3, <2>4, TakeLocalCodecsType
  <1>3. ASSUME NEW codecs \in LocalCodecs, UpdateCodecs(i, codecs)
        PROVE  \E r \in Result : session' = HandleSignal(session, i, r)
    <2>1. session' = HandleSignal(session, i, TakeLocalCodecs(m, codecs))
      BY <1>3, Zenon DEF UpdateCodecs
    <2>2. codecs \in CodecLists
      BY SessionAssumption DEF SessionAssumption
    <2> QED
      BY <1>1, <2>1, <2>2, TakeLocalCodecsType
  <1>4. ASSUME FinishInitialCandidates(i)
        PROVE  \E r \in Result : session' = HandleSignal(session, i, r)
    <2>1. session' = HandleSignal(session, i, LocalCandidatesPrepared(m))
      BY <1>4, Zenon DEF FinishInitialCandidates
    <2> QED
      BY <1>1, <2>1, LocalCandidatesPreparedType
  <1>5. ASSUME StartReceiving(i) \/ StopReceiving(i)
        PROVE  \E r \in Result : session' = HandleSignal(session, i, r)
    <2>1. PICK can \in BOOLEAN : session' = HandleSignal(session, i, SetCanReceive(m, can))
      BY <1>5, Zenon DEF StartReceiving, StopReceiving
    <2> QED
      BY <1>1, <2>1, SetCanReceiveType
  <1>6. ASSUME NEW direction \in Directions, RequestDirection(i, direction)
        PROVE  \E r \in Result : session' = HandleSignal(session, i, r)
    <2>1. session' = HandleSignal(session, i, SetRequestedDirection(m, direction))
      BY <1>6, Zenon DEF RequestDirection
    <2>2. direction \in SUBSET Direction
      BY SessionAssumption DEF SessionAssumption
    <2> QED
      BY <1>1, <2>1, <2>2, SetRequestedDirectionType
  <1> QED
    BY <1>2, <1>3, <1>4, <1>5, <1>6, Zenon DEF ClientStep

(* The media whose codecs are rejected holds one offer fewer.              *)
LEMMA RejectCodecsStep ==
    ASSUME session \in Session, NEW i \in Present(session), RejectCodecs(i)
    PROVE  \E m \in Media, junk \in SdpMedia :
              LET s == [session EXCEPT !.medias[i] = m]
              IN  i \in Present(s) /\ session' = HandleRejection(s, i, junk)
  <1> DEFINE m == session.medias[i]
             n == m.offers - 1
             rest == [m EXCEPT !.offers = n]
             s == [session EXCEPT !.medias[i] = rest]
  <1>1. i \in Slots(session) /\ m \in Media
    BY SlotType DEF Present
  <1>2. n \in Nat
    <2>1. m.offers \in Nat
      <3> HIDE DEF m
      <3> QED
        BY <1>1 DEF Media
    <2>2. m.offers > 0
      BY Zenon DEF RejectCodecs
    <2> QED
      BY <2>1, <2>2
  <1>3. rest \in Media
    <2> HIDE DEF m, n
    <2> QED
      BY <1>1, <1>2 DEF Media
  <1>4. i \in Present(s)
    <2> HIDE DEF rest
    <2>1. session.medias \in Seq(Slot) /\ rest \in Slot
      BY <1>3 DEF Session, Slot
    <2>2. s.medias = [session.medias EXCEPT ![i] = rest]
      BY DEF Session
    <2>3. Len(s.medias) = Len(session.medias) /\ s.medias[i] = rest
      BY <1>1, <2>1, <2>2, ExceptSeq DEF Slots
    <2>4. rest # None
      BY <1>3, MediaAssumption DEF MediaAssumption
    <2> QED
      BY <1>1, <2>3, <2>4 DEF Present, Slots
  <1>5. PICK junk \in Lines : session' = HandleRejection(s, i, junk)
    <2>1. \E junk \in Lines :
             session' = HandleRejection([session EXCEPT !.medias[i].offers = @ - 1], i, junk)
      BY Zenon DEF RejectCodecs
    <2>2. [session EXCEPT !.medias[i].offers = @ - 1] = s
      OBVIOUS
    <2> QED
      BY <2>1, <2>2, Zenon
  <1>6. junk \in SdpMedia
    BY SessionAssumption DEF SessionAssumption
  <1> HIDE DEF rest
  <1> QED
    BY <1>3, <1>4, <1>5, <1>6

LEMMA ClientStepType ==
    ASSUME session \in Session, NEW i \in Present(session), ClientStep(i)
    PROVE  session' \in Session
  <1>1. i \in Slots(session)
    BY DEF Present
  <1>2. CASE RejectCodecs(i)
    <2>1. PICK m \in Media, junk \in SdpMedia :
             LET s == [session EXCEPT !.medias[i] = m]
             IN  i \in Present(s) /\ session' = HandleRejection(s, i, junk)
      BY <1>2, RejectCodecsStep, Zenon
    <2> DEFINE s == [session EXCEPT !.medias[i] = m]
    <2>2. s \in Session
      BY <1>1, SetMediaType DEF Slot
    <2> HIDE DEF s
    <2>3. i \in Present(s) /\ session' = HandleRejection(s, i, junk)
      BY <2>1 DEF s
    <2> QED
      BY <2>2, <2>3, HandleRejectionType
  <1>3. CASE RemoveContent(i)
    <2>1. session' = MediaChanged(RemoveMedia(session, i))
      BY <1>3, Zenon DEF RemoveContent
    <2> QED
      BY <1>1, <2>1, RemoveMediaType, MediaChangedType
  <1>4. CASE ~RejectCodecs(i) /\ ~RemoveContent(i)
    BY <1>1, <1>4, ClientStepSignals, HandleSignalType
  <1> QED
    BY <1>2, <1>3, <1>4

LEMMA CallStepType ==
    ASSUME session \in Session, CallStep
    PROVE  session' \in Session
  <1>1. ASSUME Accept
        PROVE  session' \in Session
    BY <1>1, AcceptSessionType DEF Accept
  <1>2. ASSUME Hangup
        PROVE  session' \in Session
    BY <1>2, TerminateType DEF Hangup
  <1>3. ASSUME NEW type \in ContentTypes, NEW direction \in Directions,
               AddContent(type, direction)
        PROVE  session' \in Session
    <2>1. type \in SupportedType /\ direction \in SUBSET Direction
      BY SessionAssumption DEF SessionAssumption
    <2>2. session' = AddMedia(session, type, direction)
      BY <1>3, Zenon DEF AddContent
    <2> QED
      BY <2>1, <2>2, AddMediaType
  <1>4. ASSUME RequestHold \/ ReleaseHold
        PROVE  session' \in Session
    <2>1. PICK hold \in BOOLEAN : session' = SetSessionHold(session, hold)
      BY <1>4, Zenon DEF RequestHold, ReleaseHold
    <2> QED
      BY <2>1, SetSessionHoldType
  <1> QED
    BY <1>1, <1>2, <1>3, <1>4, Zenon DEF CallStep

(* Setting what NUA knows of our INVITEs keeps the type.                   *)
LEMMA EarlyType ==
    ASSUME NEW s \in Session, NEW early \in BOOLEAN
    PROVE  [s EXCEPT !.early = early] \in Session
  BY ZenonT(60) DEF Session

LEMMA CountType ==
    ASSUME NEW s \in Session, NEW n \in Nat
    PROVE  [s EXCEPT !.cli = n] \in Session
  BY ZenonT(60) DEF Session

(* One INVITE of ours fewer is outstanding.                                *)
LEMMA FinalResponseType ==
    ASSUME NEW s \in Session, s.cli > 0
    PROVE  FinalResponse(s) \in Session
  <1> DEFINE n == s.cli - 1
             over == IF s.cli > 1 THEN s.local_sdp ELSE None
  <1>1. n \in Nat
    <2>1. s.cli \in Nat
      BY DEF Session
    <2> QED
      BY <2>1
  <1>2. over \in Seq(LocalLine) \cup {None}
    BY DEF Session
  <1>3. [s EXCEPT !.cli = n, !.overtaken = over] \in Session
    <2> HIDE DEF n, over
    <2> QED
      BY <1>1, <1>2 DEF Session
  <1> QED
    BY <1>3 DEF FinalResponse

LEMMA AckArrivesType ==
    ASSUME NEW s \in Session
    PROVE  AckArrives(s) \in Session
  <1> DEFINE over == IF s.state = "REINVITE_SENT" THEN s.local_sdp ELSE s.overtaken
  <1>1. over \in Seq(LocalLine) \cup {None}
    BY DEF Session
  <1>2. [s EXCEPT !.ack = None, !.overtaken = over] \in Session
    <2> HIDE DEF over
    <2> QED
      BY <1>1 DEF Session
  <1> QED
    BY <1>2 DEF AckArrives

LEMMA ReceiveReinviteType ==
    ASSUME NEW s \in Session, NEW request \in {"offer", "delayed"}
    PROVE  ReceiveReinvite(s, request) \in Session
  <1> DEFINE timer == IF s.state = "REINVITE_PENDING" /\ s.glare_timer = "armed"
                      THEN "removed" ELSE s.glare_timer
             t == [s EXCEPT !.srv = request, !.saved_event = TRUE,
                            !.state = "REINVITE_RECEIVED", !.glare_timer = timer]
  <1>1. timer \in {"none", "armed", "removed"}
    BY DEF Session
  <1>2. t \in Session
    <2> HIDE DEF timer
    <2> QED
      BY ZenonT(60), <1>1 DEF Session, SessionState
  <1> QED
    BY <1>2, Zenon DEF ReceiveReinvite

LEMMA PeerStepType ==
    ASSUME session \in Session, PeerStep
    PROVE  session' \in Session
  <1>1. Lines \subseteq SdpMedia /\ ZeroPort \in SdpMedia
    BY SessionAssumption DEF SessionAssumption
  <1>2. ASSUME NEW offer \in Offers(session), ReceiveInvite(offer)
        PROVE  session' \in Session
    <2> DEFINE s == [session EXCEPT !.srv = "offer"]
               r == SetRemoteSdp(s, offer, ZeroPort)
    <2>1. s \in Session
      BY DEF Session
    <2>2. offer \in Seq(SdpMedia)
      BY OffersType
    <2>3. r.session \in Session
      <3> HIDE DEF s
      <3> QED
        BY <1>1, <2>1, <2>2, SetRemoteSdpType
    <2>4. session' \in {RequestBothDirections(ChangeState(r.session, "INVITE_RECEIVED")),
                        r.session}
      BY <1>2, Zenon DEF ReceiveInvite
    <2> HIDE DEF r
    <2> QED
      BY <2>3, <2>4, ChangeStateType, RequestBothDirectionsType DEF SessionState
  <1>3. ASSUME NEW sdp \in Seq(SdpMedia), NEW junk \in SdpMedia, NEW s \in Session
        PROVE  Ready(SetRemoteSdp(s, sdp, junk)) \in Session
    <2> DEFINE r == SetRemoteSdp(s, sdp, junk)
    <2>1. r.session \in Session
      BY SetRemoteSdpType
    <2>2. Ready(r) \in {AcceptSession(r.session), r.session}
      BY Zenon DEF Ready
    <2> HIDE DEF r
    <2>3. Ready(r) \in Session
      BY <2>1, <2>2, AcceptSessionType
    <2> QED
      BY <2>3 DEF r
  <1>4. ASSUME session.local_sdp # None, NEW answer \in Answers(InvitedSdp(session)),
               NEW junk \in Lines, ReceiveAnswer(answer, junk) \/ ReceiveEarlyAnswer(answer, junk)
        PROVE  session' \in Session
    <2>1. answer \in Seq(SdpMedia) /\ junk \in SdpMedia
      <3>1. InvitedSdp(session) \in Seq(LocalLine)
        BY <1>4 DEF Session, InvitedSdp
      <3> QED
        BY <1>1, <3>1, AnswersType
    <2>2. CASE ReceiveAnswer(answer, junk)
      <3> DEFINE s == FinalResponse(session)
      <3>1. s \in Session
        BY <2>2, FinalResponseType DEF ReceiveAnswer
      <3>2. session' = Ready(SetRemoteSdp(s, answer, junk))
        BY <2>2, Zenon DEF ReceiveAnswer
      <3> HIDE DEF s
      <3> QED
        BY <1>3, <2>1, <3>1, <3>2
    <2>3. CASE ReceiveEarlyAnswer(answer, junk)
      <3> DEFINE s == [session EXCEPT !.early = TRUE]
      <3>1. s \in Session
        BY DEF Session
      <3>2. session' = SetRemoteSdp(s, answer, junk).session
        BY <2>3, Zenon DEF ReceiveEarlyAnswer
      <3> HIDE DEF s
      <3> QED
        BY <2>1, <3>1, <3>2, SetRemoteSdpType
    <2> QED
      BY <1>4, <2>2, <2>3
  <1>5. ASSUME ReceiveFinalAfterEarly
        PROVE  session' \in Session
    <2> DEFINE n == session.cli - 1
               s == [session EXCEPT !.early = FALSE, !.cli = n]
    <2>1. n \in Nat
      <3>1. session.cli \in Nat
        BY DEF Session
      <3>2. session.cli > 0
        BY <1>5, Zenon DEF ReceiveFinalAfterEarly
      <3> QED
        BY <3>1, <3>2
    <2>2. s \in Session
      <3> HIDE DEF n
      <3> QED
        BY <2>1 DEF Session
    <2>3. session' = AcceptSession(s)
      BY <1>5 DEF ReceiveFinalAfterEarly
    <2> HIDE DEF s
    <2> QED
      BY <2>2, <2>3, AcceptSessionType
  <1>6. ASSUME ReceiveTerminated
        PROVE  session' \in Session
    BY <1>6, ChangeStateType DEF ReceiveTerminated, SessionState
  <1>7. ASSUME ResolveGlare
        PROVE  session' \in Session
    <2> DEFINE s1 == FinalResponse(session)
               s2 == [s1 EXCEPT !.glare_timer = "armed"]
    <2>1. s1 \in Session
      BY <1>7, FinalResponseType DEF ResolveGlare
    <2>2. s2 \in Session
      <3> HIDE DEF s1
      <3> QED
        BY ZenonT(60), <2>1 DEF Session
    <2>3. session' \in {s1, ChangeState(s2, "REINVITE_PENDING")}
      BY <1>7 DEF ResolveGlare
    <2> HIDE DEF s1, s2
    <2> QED
      BY <2>1, <2>2, <2>3, ChangeStateType DEF SessionState
  <1>8. ASSUME ReinviteRefused
        PROVE  session' \in Session
    BY <1>8, FinalResponseType, TerminateType DEF ReinviteRefused
  <1>9. ASSUME NEW offer \in Offers(session), NEW junk \in Lines, Reinvite(offer, junk)
        PROVE  session' \in Session
    <2>1. session' = SetRemoteSdp(ReceiveReinvite(session, "offer"), offer, junk).session
      BY <1>9, Zenon DEF Reinvite
    <2> QED
      BY <1>1, <2>1, OffersType, ReceiveReinviteType, SetRemoteSdpType
  <1>10. ASSUME ReinviteWithoutOffer
         PROVE  session' \in Session
    BY <1>10, ReceiveReinviteType DEF ReinviteWithoutOffer
  <1>11. ASSUME session.ack # None, NEW answer \in Answers(session.ack), NEW junk \in Lines,
                ReceiveAck(answer, junk)
         PROVE  session' \in Session
    <2>1. answer \in Seq(SdpMedia) /\ junk \in SdpMedia
      <3>1. session.ack \in Seq(LocalLine)
        BY <1>11 DEF Session
      <3> QED
        BY <1>1, <3>1, AnswersType
    <2>2. session' = Ready(SetRemoteSdp(AckArrives(session), answer, junk))
      BY <1>11, Zenon DEF ReceiveAck
    <2> QED
      BY <1>3, <2>1, <2>2, AckArrivesType
  <1> QED
    BY <1>2, <1>4, <1>5, <1>6, <1>7, <1>8, <1>9, <1>10, <1>11, Zenon DEF PeerStep

LEMMA GlareRetryType ==
    ASSUME session \in Session, GlareRetry
    PROVE  session' \in Session
  <1> DEFINE s == IF session.state = "REINVITE_PENDING" THEN Invite(session, TRUE) ELSE session
  <1>1. s \in Session
    BY InviteType
  <1>2. session' = [s EXCEPT !.glare_timer = "none"]
    BY Zenon DEF GlareRetry
  <1> HIDE DEF s
  <1> QED
    BY <1>1, <1>2 DEF Session

(* The counters that bound a run stay within their bounds.                 *)
Bounded == used \in [changes : 0..MaxChanges, offers : 0..MaxOffers, glares : 0..MaxGlares]

LEMMA BoundsAreKept ==
    ASSUME Bounded, Next
    PROVE  Bounded'
  <1>1. MaxChanges \in Nat /\ MaxOffers \in Nat /\ MaxGlares \in Nat
    BY SessionAssumption DEF SessionAssumption
  <1>2. ASSUME \/ Use("changes", MaxChanges) \/ Use("offers", MaxOffers)
               \/ Use("glares", MaxGlares)
        PROVE  Bounded'
    BY <1>1, <1>2 DEF Use, Bounded
  <1>3. ASSUME UNCHANGED used
        PROVE  Bounded'
    BY <1>3 DEF Bounded
  <1>4. ASSUME NEW i \in Present(session), ClientStep(i)
        PROVE  Use("changes", MaxChanges) \/ UNCHANGED used
    BY <1>4, Zenon DEF ClientStep, AcceptCodecs, RejectCodecs, UpdateCodecs,
       FinishInitialCandidates, StartReceiving, StopReceiving, RequestDirection, RemoveContent
  <1>5. ASSUME CallStep
        PROVE  Use("changes", MaxChanges) \/ UNCHANGED used
    BY <1>5, Zenon DEF CallStep, Accept, Hangup, AddContent, RequestHold, ReleaseHold
  <1>6. ASSUME PeerStep
        PROVE  Use("offers", MaxOffers) \/ Use("glares", MaxGlares) \/ UNCHANGED used
    BY <1>6, Zenon DEF PeerStep, ReceiveInvite, ReceiveAnswer, ReceiveEarlyAnswer,
       ReceiveFinalAfterEarly, ReceiveTerminated, ResolveGlare, ReinviteRefused, Reinvite,
       ReinviteWithoutOffer, ReceiveAck
  <1> QED
    BY <1>2, <1>3, <1>4, <1>5, <1>6, Zenon DEF Next, GlareRetry, Finished, vars

LEMMA InitType ==
    ASSUME Init
    PROVE  TypeOK
  <1>1. session \in Session
    BY NewSessionType, SessionAssumption DEF Init, SessionAssumption
  <1>2. Bounded
    BY SessionAssumption DEF Init, SessionAssumption, Bounded
  <1> QED
    BY <1>1, <1>2 DEF TypeOK, Bounded

(* The session stays a session: every handler leaves each field within its *)
(* type, for any number of medias, codecs and m-lines.                     *)
THEOREM SessionTypeCorrect == Spec => []TypeOK
  <1>1. Init => TypeOK
    BY InitType
  <1>2. TypeOK /\ [Next]_vars => TypeOK'
    <2> SUFFICES ASSUME TypeOK, [Next]_vars
                 PROVE  TypeOK'
      OBVIOUS
    <2>1. session \in Session /\ Bounded
      BY DEF TypeOK, Bounded
    <2>2. CASE Next
      <3>1. session' \in Session
        <4>1. CASE \E i \in Present(session) : ClientStep(i)
          BY <2>1, <4>1, ClientStepType
        <4>2. CASE CallStep
          BY <2>1, <4>2, CallStepType
        <4>3. CASE PeerStep
          BY <2>1, <4>3, PeerStepType
        <4>4. CASE GlareRetry
          BY <2>1, <4>4, GlareRetryType
        <4>5. CASE Finished
          BY <2>1, <4>5 DEF Finished, vars
        <4> QED
          BY <2>2, <4>1, <4>2, <4>3, <4>4, <4>5 DEF Next
      <3> QED
        BY <2>1, <2>2, <3>1, BoundsAreKept DEF TypeOK, Bounded
    <2>3. CASE UNCHANGED vars
      BY <2>1, <2>3 DEF vars, TypeOK
    <2> QED
      BY <2>2, <2>3
  <1> QED
    BY <1>1, <1>2, PTL DEF Spec

=============================================================================
