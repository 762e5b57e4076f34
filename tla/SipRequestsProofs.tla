------------------------- MODULE SipRequestsProofs --------------------------
(***************************************************************************)
(* Every INVITE and re-INVITE of the peer is answered exactly once         *)
(* (RequestsAnsweredOnce of module SipSession), for every value of the     *)
(* constants: whatever the medias, the client and the peer do.             *)
(*                                                                         *)
(* A handler called on a session whose pending request matches its state   *)
(* leaves such a session, unless an assertion stops the process.  The one  *)
(* exception is the first INVITE, whose medias are built while the state   *)
(* is still CREATED: it relies on the session object being fresh, so that  *)
(* no media is ready and nothing is sent before the state changes.         *)
(***************************************************************************)
EXTENDS SipSessionProofs

(* The session's state tells which request of the peer awaits an answer.   *)
Matched(s) ==
    /\ s \in Session
    /\ s.aborted = "none"
    /\ s.srv # "none" <=> s.state \in {"INVITE_RECEIVED", "REINVITE_RECEIVED"}
    /\ ~s.stray_response
    /\ s.state = "REINVITE_RECEIVED" => s.saved_event
    /\ s.saved_event => s.state \in {"REINVITE_RECEIVED", "ENDED"}
    /\ s.nua_op <=> s.state # "ENDED"
    /\ s.incoming => s.state # "CREATED"

(* No request of the peer awaits an answer, whatever the state says.       *)
Settled(s) ==
    /\ s \in Session
    /\ s.aborted = "none"
    /\ s.srv = "none"
    /\ ~s.stray_response
    /\ ~s.saved_event
    /\ s.nua_op
    /\ s.state # "ENDED"

(* A field the requests do not depend on changes.                          *)
SameRequests(s, t) ==
    /\ t.aborted = s.aborted
    /\ t.srv = s.srv
    /\ t.stray_response = s.stray_response
    /\ t.saved_event = s.saved_event
    /\ t.nua_op = s.nua_op
    /\ t.state = s.state
    /\ t.incoming = s.incoming

LEMMA SameRequestsMatched ==
    ASSUME NEW s, NEW t \in Session, Matched(s), SameRequests(s, t)
    PROVE  Matched(t)
  BY DEF Matched, SameRequests

LEMMA InviteMatched ==
    ASSUME NEW s, NEW reinvite \in BOOLEAN, Matched(s),
           s.state \notin {"INVITE_RECEIVED", "REINVITE_RECEIVED"}
    PROVE  Matched(Invite(s, reinvite))
  <1> DEFINE sdp == SessionSdp(s, TRUE)
             n == s.cli + 1
             state == IF reinvite THEN "REINVITE_SENT" ELSE "INVITE_SENT"
             sent == [[s EXCEPT !.cli = n]
                        EXCEPT !.local_sdp = sdp, !.pending_offer = FALSE, !.state = state]
  <1>1. s \in Session
    BY DEF Matched
  <1>2. CASE s.nua_op
    <2>1. Invite(s, reinvite) \in {s, sent}
      BY Zenon DEF Invite, NuaInvite
    <2>2. CASE Invite(s, reinvite) = s
      BY <2>2
    <2>3. CASE Invite(s, reinvite) = sent
      <3>1. sent \in Session
        BY <1>1, <2>3, InviteType
      <3>2. /\ sent.state = state
            /\ sent.aborted = s.aborted /\ sent.srv = s.srv /\ sent.incoming = s.incoming
            /\ sent.stray_response = s.stray_response
            /\ sent.saved_event = s.saved_event /\ sent.nua_op = s.nua_op
        <4> HIDE DEF sdp, n, state
        <4> QED
          BY <1>1 DEF Session
      <3>3. Matched(sent)
        <4> HIDE DEF sent
        <4> QED
          BY <1>2, <3>1, <3>2 DEF Matched
      <3> QED
        BY <2>3, <3>3
    <2> QED
      BY <2>1, <2>2, <2>3
  <1>3. CASE ~s.nua_op
    BY <1>3, Zenon DEF Invite
  <1> QED
    BY <1>2, <1>3

(* Entering a state in which no request of the peer awaits an answer.      *)
LEMMA ChangeStateMatched ==
    ASSUME NEW s, Settled(s), NEW new \in {"ACTIVE", "RESPONSE_RECEIVED", "REINVITE_PENDING"}
    PROVE  Matched(ChangeState(s, new))
  <1> DEFINE s1 == [s EXCEPT !.state = new]
  <1>1. Matched(s1) /\ s1.state = new
    BY ZenonT(60) DEF Settled, Matched, Session, SessionState
  <1>2. s.state = new => Matched(s)
    BY DEF Settled, Matched
  <1>3. ChangeState(s, new) = IF s.state = new THEN s
                              ELSE IF new = "ACTIVE" /\ s.pending_offer THEN Invite(s1, TRUE)
                              ELSE s1
    <2>1. new # "ENDED"
      OBVIOUS
    <2> QED
      BY <2>1, Zenon DEF ChangeState
  <1>4. Matched(Invite(s1, TRUE))
    <2> HIDE DEF s1
    <2> QED
      BY <1>1, InviteMatched
  <1> HIDE DEF s1
  <1> QED
    BY <1>1, <1>2, <1>3, <1>4

(* Ending the session drops the pending request with the NUA handle.       *)
LEMMA EndMatched ==
    ASSUME NEW s \in Session, s.aborted = "none", ~s.stray_response, s.state # "ENDED"
    PROVE  Matched(ChangeState(s, "ENDED"))
  <1> DEFINE t == NuaDestroy([s EXCEPT !.state = "ENDED"])
  <1>1. ChangeState(s, "ENDED") = t
    BY Zenon DEF ChangeState
  <1>2. t \in Session
    BY <1>1, ChangeStateType DEF SessionState
  <1>3. /\ t.state = "ENDED" /\ t.srv = "none" /\ t.nua_op = FALSE
        /\ t.aborted = s.aborted /\ t.stray_response = s.stray_response
    BY DEF NuaDestroy, Session
  <1>4. Matched(t)
    <2> HIDE DEF t
    <2> QED
      BY <1>2, <1>3 DEF Matched
  <1> QED
    BY <1>1, <1>4

(* A response to the pending request.                                      *)
LEMMA NuaRespondSettles ==
    ASSUME NEW s, Matched(s), s.srv # "none"
    PROVE  /\ NuaRespond(s) \in Session
           /\ Settled([NuaRespond(s) EXCEPT !.saved_event = FALSE])
           /\ NuaRespond(s).srv = "none" /\ ~NuaRespond(s).stray_response
           /\ NuaRespond(s).state = s.state /\ NuaRespond(s).aborted = s.aborted
  <1> DEFINE t == [s EXCEPT !.srv = "none", !.stray_response = s.stray_response \/ s.srv = "none"]
             u == [t EXCEPT !.saved_event = FALSE]
  <1>1. NuaRespond(s) = t /\ t \in Session
    <2>1. NuaRespond(s) = t
      BY Zenon DEF NuaRespond
    <2> QED
      BY <2>1, NuaRespondType DEF Matched
  <1>2. /\ t.srv = "none" /\ ~t.stray_response /\ t.state = s.state /\ t.aborted = s.aborted
        /\ t.nua_op = s.nua_op /\ t.saved_event = s.saved_event /\ t.incoming = s.incoming
    BY DEF Matched, Session
  <1> HIDE DEF t
  <1>3. Settled(u)
    <2>1. u \in Session
      BY <1>1, ForgetEventType
    <2>2. /\ u.srv = t.srv /\ u.stray_response = t.stray_response /\ u.state = t.state
          /\ u.aborted = t.aborted /\ u.nua_op = t.nua_op /\ ~u.saved_event
      BY <1>1 DEF Session
    <2> HIDE DEF u
    <2> QED
      BY <1>2, <2>1, <2>2 DEF Settled, Matched
  <1> QED
    BY <1>1, <1>2, <1>3

LEMMA RespondMatched ==
    ASSUME NEW s, Matched(s), s.state \in {"INVITE_RECEIVED", "REINVITE_RECEIVED"}
    PROVE  Matched(Respond(s))
  <1> DEFINE sdp == SessionSdp(s, FALSE)
             medias == [i \in Slots(s) |->
                          IF s.medias[i] = None \/ i > Len(sdp) THEN s.medias[i]
                          ELSE GeneratedDirection(s.medias[i], FALSE)]
             t == NuaRespond(s)
             bad == t.bad_answer \/ (s.srv = "offer" /\ ~AnswerFits(sdp, s.remote_sdp))
             ack == IF s.srv = "delayed" THEN sdp ELSE t.ack
             s1 == [t EXCEPT !.local_sdp = sdp, !.ack = ack, !.medias = medias,
                             !.bad_answer = bad, !.saved_event = FALSE]
             u == [t EXCEPT !.saved_event = FALSE]
  <1>1. t \in Session /\ Settled(u)
    BY NuaRespondSettles DEF Matched
  <1>2. Answered(s) = s1
    BY Zenon DEF Answered
  <1>3. s1 \in Session
    BY <1>2, AnsweredType DEF Matched
  <1>4. Settled(s1)
    <2> HIDE DEF sdp, medias, t, bad, ack
    <2>1. SameRequests(u, s1)
      BY <1>1 DEF SameRequests, Session
    <2> HIDE DEF u, s1
    <2> QED
      BY <1>1, <1>3, <2>1 DEF Settled, SameRequests
  <1>5. Respond(s) \in {s, ChangeState(s1, "ACTIVE")}
    BY <1>2, Zenon DEF Respond
  <1> HIDE DEF s1
  <1> QED
    BY <1>4, <1>5, ChangeStateMatched

LEMMA RequestResponseStepMatched ==
    ASSUME NEW s, Matched(s)
    PROVE  Matched(RequestResponseStep(s))
  <1>1. s.state \in SessionState
    BY DEF Matched, Session
  <1>2. CASE s.state = "CREATED"
    <2>1. RequestResponseStep(s) \in {s, Invite(s, FALSE)}
      BY <1>2, Zenon DEF RequestResponseStep
    <2> QED
      BY <1>2, <2>1, InviteMatched
  <1>3. CASE s.state \in {"INVITE_RECEIVED", "REINVITE_RECEIVED"}
    <2>1. RequestResponseStep(s) \in {s, Respond(s)}
      BY <1>3 DEF RequestResponseStep
    <2> QED
      BY <1>3, <2>1, RespondMatched
  <1>4. CASE s.state = "RESPONSE_RECEIVED"
    <2>1. RequestResponseStep(s) \in {s, ChangeState(s, "ACTIVE")}
      BY <1>4 DEF RequestResponseStep
    <2>2. Settled(s)
      BY <1>4 DEF Matched, Settled
    <2> QED
      BY <2>1, <2>2, ChangeStateMatched
  <1>5. CASE s.state \in {"ACTIVE", "REINVITE_PENDING"}
    <2>1. RequestResponseStep(s) \in {s, Invite(s, TRUE)}
      BY <1>5 DEF RequestResponseStep
    <2> QED
      BY <1>5, <2>1, InviteMatched
  <1>6. CASE s.state \in {"INVITE_SENT", "REINVITE_SENT", "ENDED"}
    <2>1. RequestResponseStep(s) = s
      BY <1>6 DEF RequestResponseStep
    <2> QED
      BY <2>1
  <1> QED
    BY <1>1, <1>2, <1>3, <1>4, <1>5, <1>6 DEF SessionState

LEMMA TerminateMatched ==
    ASSUME NEW s, Matched(s)
    PROVE  Matched(Terminate(s))
  <1> DEFINE t == NuaRespond(s)
             u == [t EXCEPT !.saved_event = FALSE]
  <1>1. CASE s.state = "ENDED"
    BY <1>1, Zenon DEF Terminate
  <1>2. CASE s.state \in {"INVITE_RECEIVED", "REINVITE_RECEIVED"}
    <2>1. /\ t \in Session /\ Settled(u)
          /\ ~t.stray_response /\ t.state = s.state /\ t.aborted = s.aborted
      BY <1>2, NuaRespondSettles DEF Matched
    <2>2. Matched(ChangeState(t, "ENDED"))
      <3> HIDE DEF t
      <3> QED
        BY <1>2, <2>1, EndMatched DEF Matched
    <2>3. Matched(ChangeState(u, "ENDED"))
      <3> HIDE DEF u
      <3> QED
        BY <2>1, EndMatched DEF Settled
    <2>4. s.state # "ENDED" /\ s.nua_op /\ (s.state = "REINVITE_RECEIVED" => s.saved_event)
      BY <1>2 DEF Matched
    <2>5. Terminate(s) \in {ChangeState(t, "ENDED"), ChangeState(u, "ENDED")}
      <3>1. CASE s.state = "INVITE_RECEIVED"
        BY <2>4, <3>1, Zenon DEF Terminate
      <3>2. CASE s.state = "REINVITE_RECEIVED" /\ s.state # "INVITE_RECEIVED"
        BY <2>4, <3>2, Zenon DEF Terminate
      <3> QED
        BY <1>2, <3>1, <3>2
    <2> QED
      BY <2>2, <2>3, <2>5
  <1>3. CASE s.state \notin {"ENDED", "INVITE_RECEIVED", "REINVITE_RECEIVED"}
    <2>1. Terminate(s) = ChangeState(s, "ENDED")
      BY <1>3 DEF Terminate
    <2> QED
      BY <1>3, <2>1, EndMatched DEF Matched
  <1> QED
    BY <1>1, <1>2, <1>3

LEMMA AcceptSessionMatched ==
    ASSUME NEW s, Matched(s)
    PROVE  Matched(AcceptSession(s))
  <1> DEFINE s1 == [s EXCEPT !.accepted = TRUE]
  <1>1. Matched(s1)
    <2>1. s1 \in Session /\ SameRequests(s, s1)
      BY DEF Matched, Session, SameRequests
    <2> HIDE DEF s1
    <2> QED
      BY <2>1, SameRequestsMatched
  <1>2. AcceptSession(s) \in {s, RequestResponseStep(s1)}
    BY Zenon DEF AcceptSession
  <1> HIDE DEF s1
  <1> QED
    BY <1>1, <1>2, RequestResponseStepMatched

(* The requests do not depend on the medias, nor on a delayed offer.       *)
LEMMA OtherFieldsMatched ==
    ASSUME NEW s, Matched(s)
    PROVE  /\ \A medias \in Seq(Slot) : Matched([s EXCEPT !.medias = medias])
           /\ \A b \in BOOLEAN : Matched([s EXCEPT !.pending_offer = b])
  <1>1. ASSUME NEW medias \in Seq(Slot)
        PROVE  Matched([s EXCEPT !.medias = medias])
    <2>1. SameRequests(s, [s EXCEPT !.medias = medias])
      BY DEF Matched, Session, SameRequests
    <2>2. [s EXCEPT !.medias = medias] \in Session
      BY SetMediasType DEF Matched
    <2> QED
      BY <2>1, <2>2, SameRequestsMatched
  <1>2. ASSUME NEW b \in BOOLEAN
        PROVE  Matched([s EXCEPT !.pending_offer = b])
    <2>1. SameRequests(s, [s EXCEPT !.pending_offer = b])
      BY DEF Matched, Session, SameRequests
    <2>2. [s EXCEPT !.pending_offer = b] \in Session
      BY DEF Matched, Session
    <2> QED
      BY <2>1, <2>2, SameRequestsMatched
  <1> QED
    BY <1>1, <1>2

LEMMA MediaChangedMatched ==
    ASSUME NEW s, Matched(s)
    PROVE  Matched(MediaChanged(s))
  <1> DEFINE pending == s.pending_offer \/ s.remote_media_count < Len(s.medias)
             s1 == [s EXCEPT !.pending_offer = pending]
             s2 == [s EXCEPT !.pending_offer = TRUE]
  <1>1. s.state \in SessionState
    BY DEF Matched, Session
  <1>2. Matched(s1)
    <2>1. pending \in BOOLEAN
      BY DEF Matched, Session
    <2> HIDE DEF pending
    <2> QED
      BY <2>1, OtherFieldsMatched, Zenon
  <1>3. Matched(s2)
    BY OtherFieldsMatched, Zenon
  <1>4. Matched(RequestResponseStep(s))
    BY RequestResponseStepMatched
  <1>5. CASE s.state = "CREATED"
    <2>1. MediaChanged(s) = RequestResponseStep(s)
      BY <1>5, Zenon DEF MediaChanged
    <2> QED
      BY <1>4, <2>1
  <1>6. CASE s.state \in {"INVITE_RECEIVED", "REINVITE_RECEIVED"}
    <2>1. MediaChanged(s) = s1
      BY <1>6 DEF MediaChanged
    <2> QED
      BY <1>2, <2>1, Zenon
  <1>7. CASE s.state \in {"INVITE_SENT", "REINVITE_SENT", "RESPONSE_RECEIVED"}
    <2>1. MediaChanged(s) = s2
      BY <1>7 DEF MediaChanged
    <2> QED
      BY <1>3, <2>1, Zenon
  <1>8. CASE s.state \in {"ACTIVE", "REINVITE_PENDING"}
    <2>1. MediaChanged(s) \in {s, Invite(s, TRUE), s2}
      BY <1>8 DEF MediaChanged
    <2>2. Matched(Invite(s, TRUE))
      BY <1>8, InviteMatched
    <2> HIDE DEF s2
    <2> QED
      BY <1>3, <2>1, <2>2
  <1>9. CASE s.state = "ENDED"
    <2>1. MediaChanged(s) = s
      BY <1>9 DEF MediaChanged
    <2> QED
      BY <2>1
  <1> QED
    BY <1>1, <1>5, <1>6, <1>7, <1>8, <1>9 DEF SessionState

LEMMA AddMediaMatched ==
    ASSUME NEW s, Matched(s), NEW type \in SupportedType, NEW direction \in SUBSET Direction
    PROVE  Matched(AddMedia(s, type, direction))
  <1> DEFINE initial == s.state \in {"CREATED", "INVITE_RECEIVED"}
             s1 == IF initial /\ direction # Bidirectional THEN MediaChanged(s) ELSE s
             m == NewMedia(type, IF initial THEN Bidirectional ELSE direction,
                           TRUE, s.hold_requested)
             medias == Append(s1.medias, m)
             t == [s1 EXCEPT !.medias = medias]
  <1>1. Matched(s1)
    BY MediaChangedMatched
  <1>2. AddMedia(s, type, direction) = t
    BY Zenon DEF AddMedia
  <1>3. t \in Session
    <2>1. s \in Session
      BY DEF Matched
    <2>2. AddMedia(s, type, direction) \in Session
      BY <2>1, AddMediaType
    <2> QED
      BY <1>2, <2>2, Zenon
  <1>4. SameRequests(s1, t)
    <2> HIDE DEF s1, medias
    <2> QED
      BY <1>1 DEF Matched, Session, SameRequests
  <1> HIDE DEF s1, t
  <1> QED
    BY <1>1, <1>2, <1>3, <1>4, SameRequestsMatched

(* The peer's SDP changes the medias, or stops the process.                *)
LEMMA UpdateRemoteMediaSame ==
    ASSUME NEW s \in Session, NEW authoritative \in BOOLEAN
    PROVE  \/ UpdateRemoteMedia(s, authoritative).aborted # "none"
           \/ SameRequests(s, UpdateRemoteMedia(s, authoritative))
  <1> DEFINE n == Len(s.remote_sdp)
             medias == [i \in 1..Max2(n, Len(s.medias)) |->
                          IF i <= n THEN UpdatedSlot(s, i, s.remote_sdp[i], authoritative)
                          ELSE IF s.pending_offer THEN s.medias[i] ELSE None]
             stale == s.stale_read \/ \E i \in Present(s) :
                        /\ i <= n
                        /\ AcceptableRemoteMedia(s.remote_sdp[i])
                        /\ s.medias[i].type = s.remote_sdp[i].type
                        /\ s.medias[i].home = "freed"
             s1 == [s EXCEPT !.medias = medias, !.stale_read = stale]
             held == RemotelyHeld(s1)
             s2 == [s1 EXCEPT !.remote_held = held]
             s3 == [s EXCEPT !.aborted = "slot"]
  <1>1. SameRequests(s, s1)
    <2> HIDE DEF medias, stale
    <2> QED
      BY DEF Session, SameRequests
  <1>2. SameRequests(s, s2)
    <2> HIDE DEF medias, stale, held
    <2> QED
      BY DEF Session, SameRequests
  <1>3. s3.aborted # "none"
    BY DEF Session
  <1>4. UpdateRemoteMedia(s, authoritative) \in {s1, s2, s3}
    BY Zenon DEF UpdateRemoteMedia
  <1> HIDE DEF s1, s2, s3
  <1> QED
    BY <1>1, <1>2, <1>3, <1>4

LEMMA StoreRemoteSdpSame ==
    ASSUME NEW s \in Session, NEW sdp \in Seq(SdpMedia), NEW junk \in SdpMedia
    PROVE  SameRequests(s, StoreRemoteSdp(s, sdp, junk))
  <1> DEFINE medias == [i \in Slots(s) |->
                          Rehome(Release(s.medias[i], "backup", junk), "current", "backup")]
             t == [s EXCEPT !.backup_remote_sdp = s.remote_sdp, !.remote_sdp = sdp,
                            !.medias = medias]
  <1>1. StoreRemoteSdp(s, sdp, junk) = t
    BY Zenon DEF StoreRemoteSdp
  <1>2. SameRequests(s, t)
    <2> HIDE DEF medias
    <2> QED
      BY DEF Session, SameRequests
  <1> QED
    BY <1>1, <1>2

LEMMA SameRequestsTransitive ==
    ASSUME NEW s, NEW t, NEW u, SameRequests(s, t), SameRequests(t, u)
    PROVE  SameRequests(s, u)
  BY DEF SameRequests

(* A handler that may abort the process.                                   *)
MatchedOrAborted(s) == s.aborted # "none" \/ Matched(s)

LEMMA SetRemoteSdpMatched ==
    ASSUME NEW s, Matched(s), NEW sdp \in Seq(SdpMedia), NEW junk \in SdpMedia
    PROVE  LET r == SetRemoteSdp(s, sdp, junk)
           IN  MatchedOrAborted(r.session) /\ (r.ok => Matched(r.session))
  <1> DEFINE counted == [s EXCEPT !.remote_media_count = Len(sdp)]
             s1 == IF s.state \in {"INVITE_SENT", "REINVITE_SENT"}
                   THEN ChangeState(s, "RESPONSE_RECEIVED") ELSE counted
             stored == StoreRemoteSdp(s1, sdp, junk)
             authoritative == s1.state \in {"INVITE_RECEIVED", "REINVITE_RECEIVED"}
             s2 == UpdateRemoteMedia(stored, authoritative)
             r == SetRemoteSdp(s, sdp, junk)
  <1>1. Matched(s1)
    <2>1. ASSUME s.state \in {"INVITE_SENT", "REINVITE_SENT"}
          PROVE  Settled(s)
      BY <2>1 DEF Matched, Settled
    <2>2. Matched(counted)
      <3>1. Len(sdp) \in Nat
        BY LenProperties
      <3>2. counted \in Session /\ SameRequests(s, counted)
        BY <3>1 DEF Matched, Session, SameRequests
      <3> HIDE DEF counted
      <3> QED
        BY <3>2, SameRequestsMatched
    <2> QED
      BY <2>1, <2>2, ChangeStateMatched
  <1>2. stored \in Session /\ SameRequests(s1, stored) /\ stored.remote_sdp \in Seq(SdpMedia)
    <2> HIDE DEF s1
    <2> QED
      BY <1>1, StoreRemoteSdpType, StoreRemoteSdpSame DEF Matched
  <1>3. MatchedOrAborted(s2)
    <2> HIDE DEF s1
    <2>1. authoritative \in BOOLEAN
      OBVIOUS
    <2> HIDE DEF stored, authoritative
    <2>2. s2 \in Session
      BY <1>2, <2>1, UpdateRemoteMediaType
    <2>3. s2.aborted # "none" \/ SameRequests(stored, s2)
      BY <1>2, <2>1, UpdateRemoteMediaSame
    <2> HIDE DEF s2
    <2> QED
      BY <1>1, <1>2, <2>2, <2>3, SameRequestsTransitive, SameRequestsMatched DEF MatchedOrAborted
  <1>4. r = IF s1.remote_sdp = sdp
            THEN [ok |-> TRUE, session |-> RequestResponseStep(s1)]
            ELSE IF s2.aborted # "none" \/ ~HasSupportedMedia(s2)
            THEN [ok |-> FALSE, session |-> IF s2.aborted # "none" THEN s2 ELSE Terminate(s2)]
            ELSE [ok |-> TRUE, session |-> RequestResponseStep(s2)]
    <2> HIDE DEF s1, s2
    <2> QED
      BY Zenon DEF SetRemoteSdp, s1, s2
  <1> HIDE DEF s1, s2, r
  <1>5. CASE s1.remote_sdp = sdp
    BY <1>1, <1>4, <1>5, RequestResponseStepMatched DEF MatchedOrAborted, r
  <1>6. CASE s1.remote_sdp # sdp /\ s2.aborted # "none"
    BY <1>4, <1>6 DEF MatchedOrAborted, r
  <1>7. CASE s1.remote_sdp # sdp /\ s2.aborted = "none"
    <2>1. Matched(s2)
      BY <1>3, <1>7 DEF MatchedOrAborted
    <2>2. Matched(Terminate(s2)) /\ Matched(RequestResponseStep(s2))
      BY <2>1, TerminateMatched, RequestResponseStepMatched
    <2> QED
      BY <1>4, <1>7, <2>2 DEF MatchedOrAborted, r
  <1> QED
    BY <1>5, <1>6, <1>7

LEMMA RollbackMatched ==
    ASSUME NEW s, Matched(s), s.state = "REINVITE_RECEIVED", NEW junk \in SdpMedia
    PROVE  MatchedOrAborted(Rollback(s, junk))
  <1> DEFINE medias == [i \in Slots(s) |->
                          Rehome(Release(s.medias[i], "current", junk), "backup", "current")]
             s1 == [s EXCEPT !.remote_sdp = s.backup_remote_sdp, !.backup_remote_sdp = None,
                             !.medias = medias]
             s2 == UpdateRemoteMedia(s1, FALSE)
             u == [NuaRespond(s2) EXCEPT !.saved_event = FALSE]
  <1>1. Matched(s1) /\ s1.remote_sdp = s.backup_remote_sdp /\ s1.state = s.state
    <2>1. medias \in Seq(Slot)
      BY ShiftHomesType DEF Home, Matched
    <2>2. s.backup_remote_sdp \in Seq(SdpMedia) \cup {None} /\ s \in Session
      BY DEF Matched, Session
    <2>3. /\ s1 \in Session /\ SameRequests(s, s1)
          /\ s1.remote_sdp = s.backup_remote_sdp
      <3> HIDE DEF medias
      <3> QED
        BY <2>1, <2>2 DEF Session, SameRequests
    <2> HIDE DEF s1
    <2> QED
      BY <2>3, SameRequestsMatched DEF SameRequests
  <1>2. CASE s.backup_remote_sdp = None
    <2>1. Rollback(s, junk) = Terminate(s1)
      BY <1>2, Zenon DEF Rollback
    <2> HIDE DEF s1
    <2> QED
      BY <1>1, <2>1, TerminateMatched DEF MatchedOrAborted
  <1>3. CASE s.backup_remote_sdp # None
    <2>1. s1.remote_sdp \in Seq(SdpMedia)
      BY <1>1, <1>3 DEF Matched, Session
    <2>2. s2 \in Session /\ (s2.aborted # "none" \/ SameRequests(s1, s2))
      <3> HIDE DEF s1
      <3> QED
        BY <1>1, <2>1, UpdateRemoteMediaType, UpdateRemoteMediaSame DEF Matched
    <2>3. CASE s2.aborted # "none"
      <3>1. Rollback(s, junk) = s2
        BY <1>3, <2>3, Zenon DEF Rollback
      <3> QED
        BY <2>3, <3>1 DEF MatchedOrAborted
    <2>4. CASE s2.aborted = "none"
      <3> HIDE DEF s1
      <3>1. Matched(s2) /\ s2.srv # "none"
        <4> HIDE DEF s2
        <4> QED
          BY <1>1, <2>2, <2>4, SameRequestsMatched DEF Matched, SameRequests
      <3>2. Settled(u)
        <4> HIDE DEF s2
        <4> QED
          BY <3>1, NuaRespondSettles
      <3>3. Rollback(s, junk) = ChangeState(u, "ACTIVE")
        BY <1>3, <2>4, Zenon DEF Rollback, s1
      <3> HIDE DEF u
      <3> QED
        BY <3>2, <3>3, ChangeStateMatched DEF MatchedOrAborted
    <2> QED
      BY <2>3, <2>4
  <1> QED
    BY <1>2, <1>3

LEMMA RemoveMediaMatched ==
    ASSUME NEW s, Matched(s), NEW i \in Slots(s)
    PROVE  Matched(RemoveMedia(s, i))
  <1>1. RemoveMedia(s, i) \in Session
    BY RemoveMediaType DEF Matched
  <1>2. SameRequests(s, RemoveMedia(s, i))
    BY DEF RemoveMedia, SameRequests, Matched, Session
  <1> QED
    BY <1>1, <1>2, SameRequestsMatched

LEMMA NegotiationFailedMatched ==
    ASSUME NEW s, Matched(s), NEW i \in Slots(s), NEW junk \in SdpMedia
    PROVE  MatchedOrAborted(NegotiationFailed(s, i, junk))
  <1> DEFINE t == [s EXCEPT !.aborted = "negotiation"]
  <1>1. CASE s.state \in {"RESPONSE_RECEIVED", "INVITE_RECEIVED"}
    <2>1. NegotiationFailed(s, i, junk) = RequestResponseStep(RemoveMedia(s, i))
      BY <1>1, Zenon DEF NegotiationFailed
    <2> QED
      BY <2>1, RemoveMediaMatched, RequestResponseStepMatched DEF MatchedOrAborted
  <1>2. CASE s.state = "REINVITE_RECEIVED"
    <2>1. NegotiationFailed(s, i, junk) = Rollback(s, junk)
      BY <1>2 DEF NegotiationFailed
    <2> QED
      BY <1>2, <2>1, RollbackMatched
  <1>3. CASE s.state \notin {"RESPONSE_RECEIVED", "INVITE_RECEIVED", "REINVITE_RECEIVED"}
    <2>1. NegotiationFailed(s, i, junk) \in {s, t}
      BY <1>3 DEF NegotiationFailed
    <2>2. t.aborted # "none"
      BY DEF Matched, Session
    <2> QED
      BY <2>1, <2>2 DEF MatchedOrAborted
  <1> QED
    BY <1>1, <1>2, <1>3

(* Storing a media in its slot.                                            *)
LEMMA StoreMediaMatched ==
    ASSUME NEW s, Matched(s), NEW i \in Slots(s), NEW m \in Slot
    PROVE  Matched([s EXCEPT !.medias[i] = m])
  <1> DEFINE t == [s EXCEPT !.medias[i] = m]
  <1>1. t \in Session
    BY SetMediaType DEF Matched
  <1>2. SameRequests(s, t)
    BY DEF SameRequests, Matched, Session
  <1> HIDE DEF t
  <1>3. Matched(t)
    BY <1>1, <1>2, SameRequestsMatched
  <1> QED
    BY <1>3 DEF t

LEMMA HandleSignalMatched ==
    ASSUME NEW s, Matched(s), NEW i \in Slots(s), NEW r \in Result
    PROVE  Matched(HandleSignal(s, i, r))
  <1> DEFINE s1 == [s EXCEPT !.medias[i] = r.media]
  <1>1. Matched(s1)
    <2>1. r.media \in Slot
      BY DEF Result, Slot
    <2> QED
      BY <2>1, StoreMediaMatched
  <1>2. HandleSignal(s, i, r) \in {RequestResponseStep(s1), MediaChanged(s1), s1}
    BY Zenon DEF HandleSignal
  <1> HIDE DEF s1
  <1> QED
    BY <1>1, <1>2, RequestResponseStepMatched, MediaChangedMatched

LEMMA SetSessionHoldMatched ==
    ASSUME NEW s, Matched(s), NEW hold \in BOOLEAN
    PROVE  Matched(SetSessionHold(s, hold))
  <1> DEFINE medias == [i \in Slots(s) |-> IF s.medias[i] = None THEN None
                                           ELSE SetHoldRequested(s.medias[i], hold)]
             s1 == [s EXCEPT !.hold_requested = hold, !.medias = medias]
  <1>1. medias \in Seq(Slot)
    <2>1. ASSUME NEW i \in Slots(s)
          PROVE  medias[i] \in Slot
      BY SlotType, SetHoldRequestedType DEF Slot, Present, Matched
    <2>2. medias \in [Slots(s) -> Slot]
      BY <2>1
    <2> HIDE DEF medias
    <2> QED
      BY <2>2, SlotsType, MediasType DEF Matched
  <1>2. s1 \in Session /\ SameRequests(s, s1)
    <2> HIDE DEF medias
    <2> QED
      BY ZenonT(60), <1>1 DEF Matched, Session, SameRequests
  <1>3. SetSessionHold(s, hold) = MediaChanged(s1)
    BY Zenon DEF SetSessionHold
  <1> HIDE DEF s1
  <1> QED
    BY <1>2, <1>3, SameRequestsMatched, MediaChangedMatched

LEMMA HandleRejectionMatched ==
    ASSUME NEW s, Matched(s), NEW i \in Present(s), NEW junk \in SdpMedia
    PROVE  MatchedOrAborted(HandleRejection(s, i, junk))
  <1> DEFINE r == CodecsRejected(s.medias[i])
             s1 == [s EXCEPT !.medias[i] = r.media]
             s2 == NegotiationFailed(s1, i, junk)
             m == ForgetCodecOffer(s2.medias[i])
             s3 == [s2 EXCEPT !.medias[i] = m]
             t == HandleRejection(s, i, junk)
  <1>1. i \in Slots(s) /\ s.medias[i] \in Media /\ s \in Session
    BY SlotType DEF Present, Matched
  <1>2. Matched(s1) /\ i \in Slots(s1)
    <2>1. r.media \in Slot
      BY <1>1, CodecsRejectedType DEF Result, Slot
    <2> HIDE DEF r
    <2>2. Matched(s1)
      BY <1>1, <2>1, StoreMediaMatched
    <2>3. s.medias \in Seq(Slot) /\ s1.medias = [s.medias EXCEPT ![i] = r.media]
      BY <1>1 DEF Session
    <2>4. Len(s1.medias) = Len(s.medias)
      BY <1>1, <2>1, <2>3, ExceptSeq DEF Slots
    <2> QED
      BY <1>1, <2>2, <2>4 DEF Slots
  <1>3. MatchedOrAborted(s2) /\ s2 \in Session
    <2> HIDE DEF s1
    <2> QED
      BY <1>2, NegotiationFailedMatched, NegotiationFailedType DEF Matched
  <1>4. SameRequests(s2, s3)
    <2> HIDE DEF s2, m
    <2> QED
      BY <1>3 DEF SameRequests, Session
  <1>5. t \in Session
    BY <1>1, HandleRejectionType
  <1>6. t \in {s1, s2, s3}
    BY Zenon DEF HandleRejection
  <1> HIDE DEF s1, s2, s3, t
  <1>7. ASSUME t = s3
        PROVE  MatchedOrAborted(t)
    <2>1. CASE s2.aborted # "none"
      BY <1>4, <1>7, <2>1 DEF SameRequests, MatchedOrAborted
    <2>2. CASE Matched(s2)
      BY <1>4, <1>5, <1>7, <2>2, SameRequestsMatched DEF MatchedOrAborted
    <2> QED
      BY <1>3, <2>1, <2>2 DEF MatchedOrAborted
  <1>8. MatchedOrAborted(s1)
    BY <1>2 DEF MatchedOrAborted
  <1>9. MatchedOrAborted(t)
    BY <1>3, <1>6, <1>7, <1>8
  <1> QED
    BY <1>9 DEF t

LEMMA RequestBothDirectionsMatched ==
    ASSUME NEW s, Matched(s)
    PROVE  Matched(RequestBothDirections(s))
  <1> DEFINE medias == [i \in Slots(s) |->
                          IF s.medias[i] = None THEN None
                          ELSE SetRequestedDirection(s.medias[i], Bidirectional).media]
             s1 == [s EXCEPT !.medias = medias]
  <1>1. medias \in Seq(Slot)
    <2>1. ASSUME NEW i \in Slots(s)
          PROVE  medias[i] \in Slot
      <3>1. CASE s.medias[i] = None
        BY <3>1 DEF Slot
      <3>2. CASE s.medias[i] # None
        <4>1. s.medias[i] \in Media
          BY <3>2, SlotType DEF Present, Matched
        <4>2. SetRequestedDirection(s.medias[i], Bidirectional) \in Result
          BY <4>1, SetRequestedDirectionType DEF Bidirectional
        <4> QED
          BY <3>2, <4>2 DEF Result, Slot
      <3> QED
        BY <3>1, <3>2
    <2>2. medias \in [Slots(s) -> Slot]
      BY <2>1
    <2> HIDE DEF medias
    <2> QED
      BY <2>2, SlotsType, MediasType DEF Matched
  <1>2. Matched(s1)
    <2> HIDE DEF medias
    <2> QED
      BY <1>1, OtherFieldsMatched, Zenon
  <1>3. RequestBothDirections(s) \in {MediaChanged(s1), s1}
    BY Zenon DEF RequestBothDirections
  <1> HIDE DEF s1
  <1> QED
    BY <1>2, <1>3, MediaChangedMatched

-----------------------------------------------------------------------------
(* The first INVITE.                                                       *)

(* A media that the peer's line creates has no candidates yet.             *)
LEMMA NewSlotNotReady ==
    ASSUME NEW s, s.medias = << >>, NEW i \in Nat \ {0}, NEW line, NEW authoritative,
           UpdatedSlot(s, i, line, authoritative) # None
    PROVE  ~IsReady(UpdatedSlot(s, i, line, authoritative))
  <1> DEFINE direction == DirectionFromRemoteMedia(line) \cap {"RECEIVE"}
             m == NewMedia(line.type, direction, FALSE, s.hold_requested)
             m1 == [m EXCEPT !.remote_media = line, !.home = "current"]
             m2 == TakeRemoteTransport(m1, m.remote_media, line)
             m3 == TakeRemoteCodecs(m2, m.remote_media, line, authoritative)
  <1>1. UpdatedSlot(s, i, line, authoritative) = SetRemoteMedia(m, line, authoritative)
    <2>1. ~(i <= Len(s.medias))
      BY EmptySeq
    <2> QED
      BY <2>1, Zenon DEF UpdatedSlot
  <1>2. "local_candidates_prepared" \in DOMAIN m1 /\ ~m1.local_candidates_prepared
    BY DEF NewMedia
  <1>3. ASSUME NEW x, "local_candidates_prepared" \in DOMAIN x, ~x.local_candidates_prepared
        PROVE  /\ "local_candidates_prepared" \in DOMAIN PushRemoteCandidates(x)
               /\ ~PushRemoteCandidates(x).local_candidates_prepared
               /\ "local_candidates_prepared" \in DOMAIN PushRemoteCodecs(x)
               /\ ~PushRemoteCodecs(x).local_candidates_prepared
    BY <1>3 DEF PushRemoteCandidates, PushRemoteCodecs
  <1>4. "local_candidates_prepared" \in DOMAIN m2 /\ ~m2.local_candidates_prepared
    <2> HIDE DEF m1
    <2> QED
      BY <1>2, <1>3 DEF TakeRemoteTransport
  <1>5. "local_candidates_prepared" \in DOMAIN m3 /\ ~m3.local_candidates_prepared
    <2> HIDE DEF m2
    <2> DEFINE y == [m2 EXCEPT !.codec_intersect_pending = @ \/ authoritative]
    <2>1. "local_candidates_prepared" \in DOMAIN y /\ ~y.local_candidates_prepared
      BY <1>4
    <2> HIDE DEF y
    <2>2. m3 \in {m2, PushRemoteCodecs(y), [y EXCEPT !.push_remote_codecs_pending = TRUE]}
      BY Zenon DEF TakeRemoteCodecs, y
    <2> QED
      BY <1>3, <1>4, <2>1, <2>2
  <1>6. ~SetRemoteMedia(m, line, authoritative).local_candidates_prepared
    <2> DEFINE old == m.remote_media
               z == IF old = line THEN m1 ELSE m3
               new == NewDirection(m, line, authoritative)
    <2>1. "local_candidates_prepared" \in DOMAIN z /\ ~z.local_candidates_prepared
      <3> HIDE DEF m1, m3
      <3> QED
        BY <1>2, <1>5
    <2>2. SetRemoteMedia(m, line, authoritative) = [z EXCEPT !.direction = new]
      BY Zenon DEF SetRemoteMedia
    <2> HIDE DEF z, new
    <2>3. ~[z EXCEPT !.direction = new].local_candidates_prepared
      BY <2>1
    <2> QED
      BY <2>2, <2>3, Zenon
  <1> QED
    BY <1>1, <1>6, Zenon DEF IsReady

(* A slot within the lines of the peer's SDP is the one its line makes.     *)
LEMMA UpdateRemoteMediaSlots ==
    ASSUME NEW s \in Session, s.remote_sdp \in Seq(SdpMedia), NEW authoritative \in BOOLEAN,
           UpdateRemoteMedia(s, authoritative).aborted = "none",
           NEW i \in Slots(UpdateRemoteMedia(s, authoritative)),
           i <= Len(UpdateRemoteMedia(s, authoritative).remote_sdp)
    PROVE  UpdateRemoteMedia(s, authoritative).medias[i] =
               UpdatedSlot(s, i, s.remote_sdp[i], authoritative)
  <1> DEFINE n == Len(s.remote_sdp)
             medias == [j \in 1..Max2(n, Len(s.medias)) |->
                          IF j <= n THEN UpdatedSlot(s, j, s.remote_sdp[j], authoritative)
                          ELSE IF s.pending_offer THEN s.medias[j] ELSE None]
             stale == s.stale_read \/ \E j \in Present(s) :
                        /\ j <= n
                        /\ AcceptableRemoteMedia(s.remote_sdp[j])
                        /\ s.medias[j].type = s.remote_sdp[j].type
                        /\ s.medias[j].home = "freed"
             s1 == [s EXCEPT !.medias = medias, !.stale_read = stale]
             held == RemotelyHeld(s1)
             s2 == [s1 EXCEPT !.remote_held = held]
             t == UpdateRemoteMedia(s, authoritative)
  <1>1. t \in {s1, s2, [s EXCEPT !.aborted = "slot"]}
    BY Zenon DEF UpdateRemoteMedia
  <1>2. t \in {s1, s2}
    <2>1. [s EXCEPT !.aborted = "slot"].aborted # "none"
      BY DEF Session
    <2> HIDE DEF s1, s2
    <2> QED
      BY <1>1, <2>1
  <1>3. t.medias = medias /\ t.remote_sdp = s.remote_sdp
    <2>1. /\ s1.medias = medias /\ s1.remote_sdp = s.remote_sdp
          /\ s2.medias = medias /\ s2.remote_sdp = s.remote_sdp
      <3> HIDE DEF medias, stale, held
      <3> QED
        BY DEF Session
    <2> HIDE DEF s1, s2, medias, t
    <2> QED
      BY <1>2, <2>1
  <1>4. Len(medias) = Max2(n, Len(s.medias)) /\ i \in 1..Max2(n, Len(s.medias))
    <2>1. t.medias \in Seq(Slot)
      BY UpdateRemoteMediaType DEF Session
    <2>2. i \in Slots(t) /\ DOMAIN t.medias = 1..Len(t.medias) /\ Len(t.medias) \in Nat
      BY <2>1, LenProperties
    <2>3. Max2(n, Len(s.medias)) \in Nat
      BY LenProperties, SlotsType DEF Max2
    <2>4. DOMAIN medias = 1..Max2(n, Len(s.medias))
      OBVIOUS
    <2> HIDE DEF t, medias, n
    <2> QED
      BY <1>3, <2>2, <2>3, <2>4 DEF Slots
  <1>5. i <= n
    BY <1>3
  <1>6. medias[i] = UpdatedSlot(s, i, s.remote_sdp[i], authoritative)
    BY <1>4, <1>5
  <1> HIDE DEF medias
  <1> QED
    BY <1>3, <1>6

(* The first INVITE reaches a fresh session object: its medias are built   *)
(* without anything being sent, and only then is the session announced.    *)
LEMMA OfferCounted ==
    ASSUME NEW q \in Session, NEW n \in Nat
    PROVE  LET s == [q EXCEPT !.srv = "offer"]
               t == [s EXCEPT !.remote_media_count = n]
           IN  /\ t \in Session /\ t.srv = "offer" /\ t.state = q.state
               /\ t.medias = q.medias /\ t.remote_sdp = q.remote_sdp
               /\ t.aborted = q.aborted /\ t.nua_op = q.nua_op
               /\ t.stray_response = q.stray_response /\ t.saved_event = q.saved_event
  <1> DEFINE s == [q EXCEPT !.srv = "offer"]
             t == [s EXCEPT !.remote_media_count = n]
  <1>1. s \in Session
    BY DEF Session
  <1>2. /\ s.srv = "offer" /\ s.state = q.state
        /\ s.medias = q.medias /\ s.remote_sdp = q.remote_sdp
        /\ s.aborted = q.aborted /\ s.nua_op = q.nua_op
        /\ s.stray_response = q.stray_response /\ s.saved_event = q.saved_event
    BY DEF Session
  <1> HIDE DEF s
  <1>3. t \in Session
    BY <1>1 DEF Session
  <1>4. /\ t.srv = s.srv /\ t.state = s.state
        /\ t.medias = s.medias /\ t.remote_sdp = s.remote_sdp
        /\ t.aborted = s.aborted /\ t.nua_op = s.nua_op
        /\ t.stray_response = s.stray_response /\ t.saved_event = s.saved_event
    BY <1>1 DEF Session
  <1> HIDE DEF t
  <1>5. /\ t \in Session /\ t.srv = "offer" /\ t.state = q.state
        /\ t.medias = q.medias /\ t.remote_sdp = q.remote_sdp
        /\ t.aborted = q.aborted /\ t.nua_op = q.nua_op
        /\ t.stray_response = q.stray_response /\ t.saved_event = q.saved_event
    BY <1>2, <1>3, <1>4
  <1> QED
    BY <1>5 DEF s, t

LEMMA FirstInviteMatched ==
    ASSUME session = NewSession(TRUE), NEW offer \in Offers(session), ReceiveInvite(offer)
    PROVE  /\ MatchedOrAborted(session')
           /\ LET r == SetRemoteSdp([session EXCEPT !.srv = "offer"], offer, ZeroPort)
              IN  r.ok => r.session.state = "CREATED"
  <1> DEFINE s == [session EXCEPT !.srv = "offer"]
             s1 == [s EXCEPT !.remote_media_count = Len(offer)]
             stored == StoreRemoteSdp(s1, offer, ZeroPort)
             authoritative == s1.state \in {"INVITE_RECEIVED", "REINVITE_RECEIVED"}
             s2 == UpdateRemoteMedia(stored, authoritative)
             r == SetRemoteSdp(s, offer, ZeroPort)
  <1>1. /\ session \in Session /\ session.state = "CREATED" /\ session.medias = << >>
        /\ session.remote_sdp = None /\ session.aborted = "none" /\ session.nua_op
        /\ ~session.stray_response /\ ~session.saved_event
    <2>1. session \in Session
      BY NewSessionType
    <2> QED
      BY <2>1 DEF NewSession
  <1>2. offer \in Seq(SdpMedia) /\ Len(offer) \in Nat /\ ZeroPort \in SdpMedia
    BY <1>1, OffersType, LenProperties, SessionAssumption DEF SessionAssumption
  <1>3. /\ s1 \in Session /\ s1.state = "CREATED" /\ s1.srv = "offer" /\ s1.medias = << >>
        /\ s1.remote_sdp = None /\ s1.aborted = "none" /\ s1.nua_op
        /\ ~s1.stray_response /\ ~s1.saved_event
    <2>1. session \in Session /\ Len(offer) \in Nat
      BY <1>1, <1>2
    <2>2. /\ s1 \in Session /\ s1.srv = "offer" /\ s1.state = session.state
          /\ s1.medias = session.medias /\ s1.remote_sdp = session.remote_sdp
          /\ s1.aborted = session.aborted /\ s1.nua_op = session.nua_op
          /\ s1.stray_response = session.stray_response
          /\ s1.saved_event = session.saved_event
      BY <2>1, OfferCounted, Zenon
    <2> HIDE DEF s, s1
    <2> QED
      BY <1>1, <2>2
  <1>4. /\ stored \in Session /\ SameRequests(s1, stored) /\ stored.remote_sdp = offer
        /\ stored.medias = << >>
    <2>1. stored \in Session /\ SameRequests(s1, stored) /\ stored.remote_sdp = offer
      <3> HIDE DEF s1
      <3> QED
        BY <1>2, <1>3, StoreRemoteSdpType, StoreRemoteSdpSame
    <2>2. stored.medias = << >>
      <3> DEFINE empty == [i \in Slots(s1) |->
                             Rehome(Release(s1.medias[i], "backup", ZeroPort), "current", "backup")]
      <3> HIDE DEF s1
      <3>1. Slots(s1) = {}
        BY <1>3, EmptySeq DEF Slots
      <3>2. empty \in Seq(Slot) /\ DOMAIN empty = {}
        BY <1>2, <1>3, <3>1, ShiftHomesType DEF Home
      <3>3. empty = << >>
        <4> HIDE DEF empty
        <4> QED
          BY <3>2, LenProperties, EmptySeq, SeqEqual
      <3>4. stored = [s1 EXCEPT !.backup_remote_sdp = s1.remote_sdp, !.remote_sdp = offer,
                                !.medias = empty]
        BY Zenon DEF StoreRemoteSdp
      <3> HIDE DEF empty, stored
      <3> QED
        BY <1>3, <3>3, <3>4 DEF Session
    <2> QED
      BY <2>1, <2>2
  <1>5. s2 \in Session /\ (s2.aborted # "none" \/ SameRequests(s1, s2))
    <2>1. authoritative \in BOOLEAN
      OBVIOUS
    <2> HIDE DEF stored, s1, authoritative
    <2> QED
      BY <1>2, <1>4, <2>1, UpdateRemoteMediaType, UpdateRemoteMediaSame, SameRequestsTransitive
  <1>6. r = IF s2.aborted # "none" \/ ~HasSupportedMedia(s2)
            THEN [ok |-> FALSE, session |-> IF s2.aborted # "none" THEN s2 ELSE Terminate(s2)]
            ELSE [ok |-> TRUE, session |-> RequestResponseStep(s2)]
    <2> DEFINE t1 == IF s.state \in {"INVITE_SENT", "REINVITE_SENT"}
                     THEN ChangeState(s, "RESPONSE_RECEIVED") ELSE s1
               t2 == UpdateRemoteMedia(StoreRemoteSdp(t1, offer, ZeroPort),
                                       t1.state \in {"INVITE_RECEIVED", "REINVITE_RECEIVED"})
    <2>1. s1.remote_sdp # offer
      BY <1>2, <1>3, SessionAssumption DEF SessionAssumption
    <2>2. s.state = "CREATED"
      BY <1>1 DEF Session
    <2>3. t1 = s1
      <3> HIDE DEF s, s1
      <3> QED
        BY <2>2
    <2>4. r = IF t1.remote_sdp = offer
              THEN [ok |-> TRUE, session |-> RequestResponseStep(t1)]
              ELSE IF t2.aborted # "none" \/ ~HasSupportedMedia(t2)
              THEN [ok |-> FALSE, session |-> IF t2.aborted # "none" THEN t2 ELSE Terminate(t2)]
              ELSE [ok |-> TRUE, session |-> RequestResponseStep(t2)]
      BY Zenon DEF SetRemoteSdp
    <2> HIDE DEF r, t1
    <2>5. t2 = s2
      <3> HIDE DEF s1
      <3> QED
        BY <2>3, Zenon
    <2> HIDE DEF s1, s2, t2
    <2> QED
      BY <2>1, <2>3, <2>4, <2>5
  <1>7. session' = IF r.ok
                   THEN RequestBothDirections(ChangeState(r.session, "INVITE_RECEIVED"))
                   ELSE r.session
    BY Zenon DEF ReceiveInvite
  <1>8. CASE s2.aborted # "none"
    <2>1. session' = s2 /\ ~r.ok
      <3> HIDE DEF r, s2
      <3> QED
        BY <1>6, <1>7, <1>8
    <2> HIDE DEF s2, r
    <2> QED
      BY <1>8, <2>1 DEF MatchedOrAborted, r
  <1>9. CASE s2.aborted = "none" /\ ~HasSupportedMedia(s2)
    <2>1. session' = Terminate(s2) /\ ~r.ok
      <3> HIDE DEF r, s2
      <3> QED
        BY <1>6, <1>7, <1>9
    <2> HIDE DEF s2, r
    <2>2. s2.state = "CREATED" /\ ~s2.stray_response
      BY <1>3, <1>5, <1>9 DEF SameRequests
    <2>3. Terminate(s2) = ChangeState(s2, "ENDED")
      BY <2>2 DEF Terminate
    <2> QED
      BY <1>5, <1>9, <2>1, <2>2, <2>3, EndMatched DEF MatchedOrAborted, r
  <1>10. CASE s2.aborted = "none" /\ HasSupportedMedia(s2)
    <2>1. SameRequests(s1, s2) /\ s2 \in Session
      BY <1>5, <1>10
    <2>2. ~AllMediaReady(s2)
      <3>1. PICK i \in Present(s2) : i <= Len(s2.remote_sdp)
        BY <1>10 DEF HasSupportedMedia
      <3>2. s2.medias[i] = UpdatedSlot(stored, i, offer[i], authoritative) /\ i \in Nat \ {0}
        <4>1. authoritative \in BOOLEAN
          OBVIOUS
        <4> HIDE DEF stored, authoritative
        <4>2. i \in Slots(s2) /\ i \in Nat \ {0}
          <5> HIDE DEF s2
          <5> QED
            BY <2>1, <3>1, SlotsType DEF Present
        <4> QED
          BY <1>2, <1>4, <1>10, <3>1, <4>1, <4>2, UpdateRemoteMediaSlots
      <3>3. s2.medias[i] # None
        BY <3>1 DEF Present
      <3>4. ~IsReady(s2.medias[i])
        <4> HIDE DEF s2, stored, authoritative
        <4> QED
          BY <1>4, <3>2, <3>3, NewSlotNotReady
      <3> QED
        BY <3>1, <3>4 DEF AllMediaReady
    <2>3. RequestResponseStep(s2) = s2
      BY <2>2, Zenon DEF RequestResponseStep
    <2>4. /\ session' = RequestBothDirections(ChangeState(s2, "INVITE_RECEIVED"))
          /\ r.session = s2
      <3> HIDE DEF r, s2
      <3> QED
        BY <1>6, <1>7, <1>10, <2>3
    <2>5. Matched(ChangeState(s2, "INVITE_RECEIVED"))
      <3> HIDE DEF s2, s1
      <3> DEFINE t == [s2 EXCEPT !.state = "INVITE_RECEIVED"]
      <3>1. s2.state = "CREATED"
        BY <1>3, <2>1 DEF SameRequests
      <3>2. ChangeState(s2, "INVITE_RECEIVED") = t
        BY <3>1 DEF ChangeState
      <3>3. t \in Session /\ t.state = "INVITE_RECEIVED"
        BY ZenonT(60), <2>1 DEF Session, SessionState
      <3>4. /\ t.srv = s2.srv /\ t.aborted = s2.aborted /\ t.nua_op = s2.nua_op
            /\ t.stray_response = s2.stray_response /\ t.saved_event = s2.saved_event
        BY <2>1 DEF Session
      <3>5. Matched(t)
        <4> HIDE DEF t
        <4> QED
          BY <1>3, <2>1, <3>3, <3>4 DEF Matched, SameRequests
      <3> QED
        BY <3>2, <3>5
    <2>6. s2.state = "CREATED"
      <3> HIDE DEF s1, s2
      <3> QED
        BY <1>3, <2>1 DEF SameRequests
    <2> HIDE DEF s2, r
    <2> QED
      BY <2>4, <2>5, <2>6, RequestBothDirectionsMatched DEF MatchedOrAborted, r
  <1> QED
    BY <1>8, <1>9, <1>10

-----------------------------------------------------------------------------
(* The inductive invariant and its preservation.                           *)

(* An incoming session object that has not seen its INVITE yet is fresh:   *)
(* this keeps the first INVITE from being answered before it is announced. *)
RequestsInv ==
    /\ TypeOK
    /\ \/ session.aborted # "none"
       \/ session = NewSession(TRUE)
       \/ Matched(session)

LEMMA FreshSession ==
    ASSUME session = NewSession(TRUE)
    PROVE  /\ session.state = "CREATED" /\ session.incoming /\ session.medias = << >>
           /\ ~(session.cli > 0) /\ session.local_sdp = None /\ session.ack = None
           /\ session.glare_timer = "none" /\ session.aborted = "none" /\ ~session.hold_requested
           /\ Present(session) = {}
  <1>1. /\ session.state = "CREATED" /\ session.incoming /\ session.medias = << >>
        /\ ~(session.cli > 0) /\ session.local_sdp = None /\ session.ack = None
        /\ session.glare_timer = "none" /\ session.aborted = "none" /\ ~session.hold_requested
    BY DEF NewSession
  <1>2. Present(session) = {}
    <2>1. Slots(session) = 1..0
      BY <1>1, EmptySeq DEF Slots
    <2>2. \A i \in 1..0 : FALSE
      OBVIOUS
    <2> QED
      BY <2>1, <2>2, Zenon DEF Present
  <1> QED
    BY <1>1, <1>2

(* A fresh session sees its INVITE, and nothing else.                      *)
LEMMA FreshStepIsInvite ==
    ASSUME session = NewSession(TRUE), Next
    PROVE  \E offer \in Offers(session) : ReceiveInvite(offer)
  <1>1. Present(session) = {}
    BY FreshSession
  <1>2. ~CallStep
    BY FreshSession DEF CallStep, Accept, Hangup, AddContent, RequestHold, ReleaseHold
  <1>3. CASE PeerStep
    <2>1. /\ session.local_sdp = None /\ session.ack = None
          /\ ~ReceiveFinalAfterEarly /\ ~ReceiveTerminated /\ ~ResolveGlare
          /\ ~ReinviteRefused /\ ~ReinviteWithoutOffer
          /\ ~CanReceiveReinvite
      <3>1. /\ ~(session.cli > 0) /\ session.local_sdp = None /\ session.ack = None
            /\ session.state = "CREATED"
        BY FreshSession, Zenon
      <3>2. /\ session.state # "REINVITE_SENT"
            /\ session.state \notin {"ACTIVE", "RESPONSE_RECEIVED", "REINVITE_PENDING"}
        BY <3>1
      <3> QED
        BY <3>1, <3>2, Zenon DEF ReceiveFinalAfterEarly, ReceiveTerminated, ResolveGlare,
           ReinviteRefused, ReinviteWithoutOffer, CanReceiveReinvite
    <2> QED
      BY <1>3, <2>1, Zenon DEF PeerStep, Reinvite
  <1>4. ~GlareRetry /\ ~Finished
    BY FreshSession DEF GlareRetry, Finished
  <1> QED
    BY <1>1, <1>2, <1>3, <1>4 DEF Next

LEMMA FreshStep ==
    ASSUME session = NewSession(TRUE), Next
    PROVE  MatchedOrAborted(session')
  BY FreshStepIsInvite, FirstInviteMatched

LEMMA ClientStepMatched ==
    ASSUME Matched(session), NEW i \in Present(session), ClientStep(i)
    PROVE  MatchedOrAborted(session')
  <1>1. i \in Slots(session) /\ session \in Session
    BY DEF Present, Matched
  <1>2. CASE RejectCodecs(i)
    <2>1. PICK m \in Media, junk \in SdpMedia :
             LET s == [session EXCEPT !.medias[i] = m]
             IN  i \in Present(s) /\ session' = HandleRejection(s, i, junk)
      BY <1>1, <1>2, RejectCodecsStep, Zenon
    <2> DEFINE s == [session EXCEPT !.medias[i] = m]
    <2>2. Matched(s)
      BY <1>1, StoreMediaMatched DEF Slot
    <2> HIDE DEF s
    <2>3. i \in Present(s) /\ session' = HandleRejection(s, i, junk)
      BY <2>1 DEF s
    <2> QED
      BY <2>2, <2>3, HandleRejectionMatched
  <1>3. CASE RemoveContent(i)
    <2>1. session' = MediaChanged(RemoveMedia(session, i))
      BY <1>3, Zenon DEF RemoveContent
    <2> QED
      BY <1>1, <2>1, RemoveMediaMatched, MediaChangedMatched DEF MatchedOrAborted
  <1>4. CASE ~RejectCodecs(i) /\ ~RemoveContent(i)
    BY <1>1, <1>4, ClientStepSignals, HandleSignalMatched DEF MatchedOrAborted
  <1> QED
    BY <1>2, <1>3, <1>4

LEMMA CallStepMatched ==
    ASSUME Matched(session), CallStep
    PROVE  MatchedOrAborted(session')
  <1>1. ASSUME Accept
        PROVE  Matched(session')
    BY <1>1, AcceptSessionMatched DEF Accept
  <1>2. ASSUME Hangup
        PROVE  Matched(session')
    BY <1>2, TerminateMatched DEF Hangup
  <1>3. ASSUME NEW type \in ContentTypes, NEW direction \in Directions,
               AddContent(type, direction)
        PROVE  Matched(session')
    <2>1. type \in SupportedType /\ direction \in SUBSET Direction
      BY SessionAssumption DEF SessionAssumption
    <2>2. session' = AddMedia(session, type, direction)
      BY <1>3, Zenon DEF AddContent
    <2> QED
      BY <2>1, <2>2, AddMediaMatched
  <1>4. ASSUME RequestHold \/ ReleaseHold
        PROVE  Matched(session')
    <2>1. PICK hold \in BOOLEAN : session' = SetSessionHold(session, hold)
      BY <1>4, Zenon DEF RequestHold, ReleaseHold
    <2> QED
      BY <2>1, SetSessionHoldMatched
  <1> QED
    BY <1>1, <1>2, <1>3, <1>4, Zenon DEF CallStep, MatchedOrAborted

LEMMA FinalResponseMatched ==
    ASSUME NEW s, Matched(s), s.cli > 0
    PROVE  Matched(FinalResponse(s))
  <1>1. s \in Session
    BY DEF Matched
  <1>2. FinalResponse(s) \in Session
    BY <1>1, FinalResponseType
  <1>3. SameRequests(s, FinalResponse(s))
    BY <1>1 DEF Session, SameRequests, FinalResponse
  <1> QED
    BY <1>2, <1>3, SameRequestsMatched

LEMMA AckArrivesMatched ==
    ASSUME NEW s, Matched(s)
    PROVE  Matched(AckArrives(s))
  <1>1. s \in Session
    BY DEF Matched
  <1>2. AckArrives(s) \in Session
    BY <1>1, AckArrivesType
  <1>3. SameRequests(s, AckArrives(s))
    BY <1>1 DEF Session, SameRequests, AckArrives
  <1> QED
    BY <1>2, <1>3, SameRequestsMatched

LEMMA PeerStepMatched ==
    ASSUME Matched(session), PeerStep
    PROVE  MatchedOrAborted(session')
  <1>0. session \in Session
    BY DEF Matched
  <1>1. Lines \subseteq SdpMedia /\ ZeroPort \in SdpMedia
    BY SessionAssumption DEF SessionAssumption
  <1>2. ASSUME NEW offer \in Offers(session), ReceiveInvite(offer)
        PROVE  FALSE
    BY <1>2 DEF ReceiveInvite, Matched
  <1>3. ASSUME NEW n \in Nat
        PROVE  Matched([session EXCEPT !.cli = n])
    <2> DEFINE s == [session EXCEPT !.cli = n]
    <2>1. s \in Session /\ SameRequests(session, s)
      BY <1>0 DEF Session, SameRequests
    <2> HIDE DEF s
    <2>2. Matched(s)
      BY <2>1, SameRequestsMatched
    <2> QED
      BY <2>2 DEF s
  <1>4. ASSUME NEW b \in BOOLEAN, NEW s, Matched(s)
        PROVE  Matched([s EXCEPT !.early = b])
    <2> DEFINE t == [s EXCEPT !.early = b]
    <2>0. s \in Session
      BY <1>4 DEF Matched
    <2>1. t \in Session
      BY <2>0 DEF Session
    <2>2. SameRequests(s, t)
      BY <2>0 DEF Session, SameRequests
    <2> HIDE DEF t
    <2>3. Matched(t)
      BY <1>4, <2>1, <2>2, SameRequestsMatched
    <2> QED
      BY <2>3 DEF t
  <1>5. session.cli > 0 => session.cli - 1 \in Nat
    <2>1. session.cli \in Nat
      BY <1>0 DEF Session
    <2> QED
      BY <2>1
  <1>6. ASSUME session.local_sdp # None, NEW answer \in Answers(InvitedSdp(session)),
               NEW junk \in Lines, ReceiveAnswer(answer, junk) \/ ReceiveEarlyAnswer(answer, junk)
        PROVE  MatchedOrAborted(session')
    <2>1. answer \in Seq(SdpMedia) /\ junk \in SdpMedia
      <3>1. InvitedSdp(session) \in Seq(LocalLine)
        BY <1>0, <1>6 DEF Session, InvitedSdp
      <3> QED
        BY <1>1, <3>1, AnswersType
    <2>2. ASSUME ReceiveAnswer(answer, junk)
          PROVE  MatchedOrAborted(session')
      <3> DEFINE s == FinalResponse(session)
                 r == SetRemoteSdp(s, answer, junk)
      <3>1. Matched(s)
        BY FinalResponseMatched, <2>2 DEF ReceiveAnswer
      <3>2. MatchedOrAborted(r.session) /\ (r.ok => Matched(r.session))
        <4> HIDE DEF s
        <4> QED
          BY <2>1, <3>1, SetRemoteSdpMatched, Zenon
      <3>3. session' = IF r.ok THEN AcceptSession(r.session) ELSE r.session
        BY <2>2, Zenon DEF ReceiveAnswer, Ready
      <3> HIDE DEF r
      <3> QED
        BY <3>2, <3>3, AcceptSessionMatched DEF MatchedOrAborted
    <2>3. ASSUME ReceiveEarlyAnswer(answer, junk)
          PROVE  MatchedOrAborted(session')
      <3> DEFINE s == [session EXCEPT !.early = TRUE]
                 r == SetRemoteSdp(s, answer, junk)
      <3>1. Matched(s)
        BY <1>4
      <3>2. MatchedOrAborted(r.session)
        <4> HIDE DEF s
        <4> QED
          BY <2>1, <3>1, SetRemoteSdpMatched, Zenon
      <3>3. session' = r.session
        BY <2>3, Zenon DEF ReceiveEarlyAnswer
      <3> QED
        BY <3>2, <3>3, Zenon
    <2> QED
      BY <1>6, <2>2, <2>3
  <1>7. ASSUME ReceiveFinalAfterEarly
        PROVE  MatchedOrAborted(session')
    <2> DEFINE n == session.cli - 1
               s == [session EXCEPT !.cli = n]
               t == [s EXCEPT !.early = FALSE]
    <2>1. Matched(s)
      BY <1>3, <1>5, <1>7 DEF ReceiveFinalAfterEarly
    <2>2. Matched(t)
      <3> HIDE DEF s
      <3> QED
        BY <1>4, <2>1
    <2>3. session' = AcceptSession(t)
      <3>1. session' = AcceptSession([session EXCEPT !.early = FALSE, !.cli = @ - 1])
        BY <1>7, Zenon DEF ReceiveFinalAfterEarly
      <3>2. [session EXCEPT !.early = FALSE, !.cli = @ - 1] = t
        BY <1>0 DEF Session
      <3> QED
        BY <3>1, <3>2, Zenon
    <2> HIDE DEF t
    <2> QED
      BY <2>2, <2>3, AcceptSessionMatched DEF MatchedOrAborted
  <1>8. ASSUME ReceiveTerminated
        PROVE  MatchedOrAborted(session')
    BY <1>0, <1>8, EndMatched DEF ReceiveTerminated, Live, Matched, MatchedOrAborted
  <1>9. ASSUME ResolveGlare
        PROVE  MatchedOrAborted(session')
    <2> DEFINE s == FinalResponse(session)
               t == [s EXCEPT !.glare_timer = "armed"]
    <2>1. Matched(s)
      BY FinalResponseMatched, <1>9 DEF ResolveGlare
    <2>2. session' = IF s.state = "REINVITE_SENT" THEN ChangeState(t, "REINVITE_PENDING") ELSE s
      BY <1>9 DEF ResolveGlare
    <2> HIDE DEF s
    <2>3. s.state = "REINVITE_SENT" => Settled(t)
      <3> SUFFICES ASSUME s.state = "REINVITE_SENT"
                   PROVE  Settled(t)
        OBVIOUS
      <3>0. s \in Session
        BY <2>1 DEF Matched
      <3>1. t \in Session
        BY <3>0 DEF Session
      <3>2. SameRequests(s, t)
        BY <3>0 DEF Session, SameRequests
      <3> HIDE DEF t
      <3> QED
        BY <2>1, <3>1, <3>2 DEF Settled, Matched, SameRequests
    <2> HIDE DEF t
    <2> QED
      BY <2>1, <2>2, <2>3, ChangeStateMatched DEF MatchedOrAborted
  <1>10. ASSUME ReinviteRefused
         PROVE  MatchedOrAborted(session')
    BY FinalResponseMatched, <1>10, TerminateMatched DEF ReinviteRefused, MatchedOrAborted
  <1>11. ASSUME CanReceiveReinvite, NEW request \in {"offer", "delayed"}
         PROVE  Matched(ReceiveReinvite(session, request))
    <2> DEFINE timer == IF session.state = "REINVITE_PENDING" /\ session.glare_timer = "armed"
                        THEN "removed" ELSE session.glare_timer
               t == [session EXCEPT !.srv = request, !.saved_event = TRUE,
                                    !.state = "REINVITE_RECEIVED", !.glare_timer = timer]
    <2>1. ReceiveReinvite(session, request) = t
      BY Zenon DEF ReceiveReinvite
    <2>2. t \in Session
      <3> HIDE DEF t
      <3> QED
        BY <1>0, <2>1, ReceiveReinviteType
    <2>3. /\ t.srv = request /\ t.saved_event /\ t.state = "REINVITE_RECEIVED"
          /\ t.aborted = session.aborted /\ t.stray_response = session.stray_response
          /\ t.nua_op = session.nua_op
      <3> HIDE DEF timer
      <3> QED
        BY <1>0 DEF Session
    <2>4. session.state \in {"ACTIVE", "RESPONSE_RECEIVED", "REINVITE_PENDING"}
      BY <1>11 DEF CanReceiveReinvite
    <2>5. Matched(t)
      <3> HIDE DEF t
      <3> QED
        BY <2>2, <2>3, <2>4 DEF Matched
    <2> QED
      BY <2>1, <2>5, Zenon
  <1>12. ASSUME NEW offer \in Offers(session), NEW junk \in Lines, Reinvite(offer, junk)
         PROVE  MatchedOrAborted(session')
    <2> DEFINE s == ReceiveReinvite(session, "offer")
    <2>1. session' = SetRemoteSdp(s, offer, junk).session
      BY <1>12, Zenon DEF Reinvite
    <2>2. Matched(s)
      BY <1>11, <1>12 DEF Reinvite
    <2>3. offer \in Seq(SdpMedia)
      BY <1>0, OffersType
    <2> HIDE DEF s
    <2> QED
      BY <1>1, <2>1, <2>2, <2>3, SetRemoteSdpMatched, Zenon
  <1>13. ASSUME ReinviteWithoutOffer
         PROVE  MatchedOrAborted(session')
    BY <1>11, <1>13 DEF ReinviteWithoutOffer, MatchedOrAborted
  <1>14. ASSUME session.ack # None, NEW answer \in Answers(session.ack), NEW junk \in Lines,
                ReceiveAck(answer, junk)
         PROVE  MatchedOrAborted(session')
    <2>1. answer \in Seq(SdpMedia) /\ junk \in SdpMedia
      <3>1. session.ack \in Seq(LocalLine)
        BY <1>0, <1>14 DEF Session
      <3> QED
        BY <1>1, <3>1, AnswersType
    <2> DEFINE r == SetRemoteSdp(AckArrives(session), answer, junk)
    <2>2. MatchedOrAborted(r.session) /\ (r.ok => Matched(r.session))
      BY AckArrivesMatched, <2>1, SetRemoteSdpMatched, Zenon
    <2>3. session' = IF r.ok THEN AcceptSession(r.session) ELSE r.session
      BY <1>14, Zenon DEF ReceiveAck, Ready
    <2> HIDE DEF r
    <2> QED
      BY <2>2, <2>3, AcceptSessionMatched DEF MatchedOrAborted
  <1> QED
    BY <1>2, <1>6, <1>7, <1>8, <1>9, <1>10, <1>12, <1>13, <1>14, Zenon DEF PeerStep

LEMMA GlareRetryMatched ==
    ASSUME Matched(session), GlareRetry
    PROVE  MatchedOrAborted(session')
  <1> DEFINE s == IF session.state = "REINVITE_PENDING" THEN Invite(session, TRUE) ELSE session
             t == [s EXCEPT !.glare_timer = "none"]
  <1>1. Matched(s)
    BY InviteMatched
  <1>2. session' = t
    BY Zenon DEF GlareRetry
  <1>3. t \in Session /\ SameRequests(s, t)
    <2> HIDE DEF s
    <2>1. s \in Session
      BY <1>1 DEF Matched
    <2>2. t \in Session
      BY <2>1 DEF Session
    <2>3. SameRequests(s, t)
      BY <2>1 DEF Session, SameRequests
    <2> QED
      BY <2>2, <2>3
  <1> HIDE DEF s, t
  <1> QED
    BY <1>1, <1>2, <1>3, SameRequestsMatched DEF MatchedOrAborted

(* A process that an assertion has stopped does nothing any more.          *)
LEMMA AbortedStays ==
    ASSUME session.aborted # "none", Next
    PROVE  UNCHANGED vars
  <1>1. ~Running
    BY DEF Running
  <1>2. /\ \A i : ~ClientStep(i)
        /\ ~CallStep /\ ~PeerStep /\ ~GlareRetry
    BY <1>1, Zenon DEF ClientStep, CallStep, PeerStep, GlareRetry, Live, AcceptCodecs,
       RejectCodecs, UpdateCodecs, FinishInitialCandidates, StartReceiving, StopReceiving,
       RequestDirection, RemoveContent, Accept, Hangup, AddContent, RequestHold, ReleaseHold,
       ReceiveInvite, ReceiveAnswer, ReceiveEarlyAnswer, ReceiveFinalAfterEarly,
       ReceiveTerminated, ResolveGlare, ReinviteRefused, Reinvite, ReinviteWithoutOffer,
       CanReceiveReinvite, ReceiveAck
  <1> QED
    BY <1>2 DEF Next, Finished

LEMMA RequestsInvInductive ==
    RequestsInv /\ TypeOK' /\ [Next]_vars => RequestsInv'
  <1> SUFFICES ASSUME RequestsInv, TypeOK', [Next]_vars
               PROVE  RequestsInv'
    OBVIOUS
  <1>1. CASE UNCHANGED vars
    BY <1>1 DEF RequestsInv, vars, Matched
  <1>2. CASE Next /\ session.aborted # "none"
    BY <1>2, AbortedStays DEF RequestsInv, vars
  <1>3. CASE Next /\ session = NewSession(TRUE)
    <2>1. MatchedOrAborted(session')
      BY <1>3, FreshStep DEF RequestsInv
    <2> QED
      BY <2>1 DEF RequestsInv, MatchedOrAborted, Matched
  <1>4. CASE Next /\ Matched(session)
    <2>1. CASE \E i \in Present(session) : ClientStep(i)
      <3>1. MatchedOrAborted(session')
        BY <1>4, <2>1, ClientStepMatched
      <3> QED
        BY <3>1 DEF RequestsInv, MatchedOrAborted, Matched
    <2>2. CASE CallStep \/ PeerStep \/ GlareRetry
      <3>1. MatchedOrAborted(session')
        BY <1>4, <2>2, CallStepMatched, PeerStepMatched, GlareRetryMatched
      <3> QED
        BY <3>1 DEF RequestsInv, MatchedOrAborted, Matched
    <2>3. CASE Finished
      BY <1>4, <2>3 DEF RequestsInv, Finished, vars, Matched
    <2> QED
      BY <1>4, <2>1, <2>2, <2>3 DEF Next
  <1> QED
    BY <1>1, <1>2, <1>3, <1>4 DEF RequestsInv

LEMMA InitRequests == Init => RequestsInv
  <1> SUFFICES ASSUME Init
               PROVE  RequestsInv
    OBVIOUS
  <1>1. TypeOK
    BY InitType
  <1>2. PICK incoming \in BOOLEAN : session = NewSession(incoming)
    BY SessionAssumption DEF Init, SessionAssumption
  <1>3. CASE incoming
    BY <1>1, <1>2, <1>3 DEF RequestsInv
  <1>4. CASE ~incoming
    <2>1. session \in Session
      BY <1>1 DEF TypeOK
    <2>2. session = NewSession(FALSE)
      BY <1>2, <1>4
    <2>3. Matched(session)
      BY <2>1, <2>2 DEF Matched, NewSession
    <2> QED
      BY <1>1, <2>3 DEF RequestsInv
  <1> QED
    BY <1>3, <1>4

(* Every request of the peer is answered exactly once: its INVITE awaits   *)
(* an answer just as long as the state says so, a re-INVITE is answered    *)
(* from the event saved for it, and no response is sent without a request. *)
THEOREM RequestsAreAnsweredOnce == Spec => []RequestsAnsweredOnce
  <1>1. Init => RequestsInv
    BY InitRequests
  <1>2. RequestsInv => RequestsAnsweredOnce
    <2> SUFFICES ASSUME RequestsInv
                 PROVE  RequestsAnsweredOnce
      OBVIOUS
    <2>1. CASE session.aborted # "none"
      BY <2>1 DEF RequestsAnsweredOnce, Running
    <2>2. CASE session = NewSession(TRUE)
      BY <2>2 DEF RequestsAnsweredOnce, Running, NewSession
    <2>3. CASE Matched(session)
      BY <2>3 DEF RequestsAnsweredOnce, Running, Matched
    <2> QED
      BY <2>1, <2>2, <2>3 DEF RequestsInv
  <1> QED
    BY <1>1, <1>2, RequestsInvInductive, SessionTypeCorrect, PTL DEF Spec

=============================================================================
