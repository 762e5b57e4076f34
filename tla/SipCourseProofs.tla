--------------------------- MODULE SipCourseProofs ---------------------------
(***************************************************************************)
(* The course of a call, for every value of the constants: whatever the   *)
(* peer answers, early or in an ACK, one offer of ours at most is overtaken *)
(* (OneOfferOvertaken of module SipSession), and with a peer that does      *)
(* neither, offers never overlap (NoOverlappingOffers).                    *)
(*                                                                         *)
(* A handler leaves the state of the session, or dials, or answers, or     *)
(* ends it, and counts the INVITEs it sends (Follows): one in a *_SENT     *)
(* state and none elsewhere, but for an INVITE that the session does not   *)
(* wait for any more (Excess).  What is left are the entries from the main *)
(* loop: only a 183 and an ACK leave such an INVITE behind (Counted), and  *)
(* while there is one NUA keeps the peer's re-INVITEs away.                *)
(*                                                                         *)
(* With offers that never overlap the state alone shows whose offer is     *)
(* outstanding, and what an entry from the main loop may do to it (Passes) *)
(* is a step of module OfferAnswer or none: the refinement.                *)
(***************************************************************************)
EXTENDS SipRequestsProofs, SipSessionOfferAnswer

(* The states of a call that was set up.                                   *)
Established == {"ACTIVE", "REINVITE_SENT", "REINVITE_RECEIVED", "REINVITE_PENDING"}

(* What no handler but the accepting one changes; an ACK with an answer is *)
(* to come only after a 200 OK to a re-INVITE without SDP.                 *)
SameCourse(s, t) ==
    /\ t.state = s.state
    /\ t.incoming = s.incoming
    /\ t.accepted = s.accepted
    /\ t.early = s.early
    /\ t.cli = s.cli
    /\ t.overtaken = s.overtaken
    /\ t.srv = "delayed" => s.srv = "delayed"
    /\ t.ack = s.ack \/ s.srv = "delayed"
    /\ s.local_sdp # None => t.local_sdp # None

(* INVITEs of ours that are outstanding, but for the one the state shows.  *)
Sent == {"INVITE_SENT", "REINVITE_SENT"}

Excess(s) == IF s.state \in Sent THEN s.cli - 1 ELSE s.cli

(* The answer to an offer in our 200 OK is to come in an ACK.              *)
AckExpected(s) == s.srv = "delayed" \/ s.ack # None

(* How far a handler may take session s.                                   *)
Follows(s, t) ==
    /\ t.incoming = s.incoming
    /\ t.accepted = s.accepted
    /\ IF t.state = "ENDED" THEN t.cli = 0 \/ (s.state = "ENDED" /\ t.cli = s.cli)
       ELSE /\ t.early = s.early /\ t.overtaken = s.overtaken /\ Excess(t) = Excess(s)
            /\ t.srv = "delayed" => s.srv = "delayed"
            /\ t.ack = s.ack \/ s.srv = "delayed"
            /\ s.local_sdp # None \/ (t.state \in Sent /\ t.state # s.state)
                  => t.local_sdp # None
    /\ \/ t.state = s.state
       \/ t.state = "ENDED"
       \/ s.state = "CREATED" /\ t.state = "INVITE_SENT" /\ t.cli > 0
       \/ /\ s.state \notin {"CREATED", "INVITE_SENT", "REINVITE_SENT", "ENDED"}
          /\ s.accepted \/ s.state \in Established
          /\ t.state \in Established \ {"REINVITE_RECEIVED"}

LEMMA SameCourseFollows ==
    ASSUME NEW s \in Session, NEW t, SameCourse(s, t)
    PROVE  Follows(s, t)
  <1>1. s.cli \in Nat
    BY DEF Session
  <1> QED
    BY <1>1 DEF SameCourse, Follows, Excess

LEMMA FollowsItself ==
    ASSUME NEW s \in Session
    PROVE  Follows(s, s)
  BY SameCourseFollows DEF SameCourse

LEMMA FollowsTransitive ==
    ASSUME NEW s \in Session, NEW t \in Session, NEW u \in Session,
           Follows(s, t), Follows(t, u)
    PROVE  Follows(s, u)
  <1>1. s.cli \in Nat /\ t.cli \in Nat /\ u.cli \in Nat
    BY DEF Session
  <1> QED
    BY <1>1 DEF Follows, Established, Excess, Sent

LEMMA FollowsSameCourse ==
    ASSUME NEW s \in Session, NEW t \in Session, NEW u \in Session,
           SameCourse(s, t), Follows(t, u)
    PROVE  Follows(s, u)
  BY DEF SameCourse, Follows, Excess

(* Fields that have no part in the course of a session.                    *)
LEMMA OtherFieldsSame ==
    ASSUME NEW s \in Session, NEW medias, NEW b
    PROVE  /\ SameCourse(s, [s EXCEPT !.medias = medias])
           /\ SameCourse(s, [s EXCEPT !.pending_offer = b])
  BY DEF Session, SameCourse

-----------------------------------------------------------------------------
(* The handlers.                                                           *)

(* Our INVITE goes out from CREATED, a re-INVITE from an accepted call.    *)
LEMMA InviteFollows ==
    ASSUME NEW s \in Session, NEW reinvite \in BOOLEAN,
           s.state \in (IF reinvite THEN {"ACTIVE", "REINVITE_PENDING"} ELSE {"CREATED"})
    PROVE  Follows(s, Invite(s, reinvite))
  <1> DEFINE sdp == SessionSdp(s, TRUE)
             n == s.cli + 1
             state == IF reinvite THEN "REINVITE_SENT" ELSE "INVITE_SENT"
             sent == [[s EXCEPT !.cli = n]
                        EXCEPT !.local_sdp = sdp, !.pending_offer = FALSE, !.state = state]
  <1>1. Invite(s, reinvite) \in {s, sent}
    BY Zenon DEF Invite, NuaInvite
  <1>2. /\ sent.state = state /\ sent.cli = n
        /\ sent.incoming = s.incoming /\ sent.accepted = s.accepted /\ sent.early = s.early
        /\ sent.overtaken = s.overtaken /\ sent.srv = s.srv /\ sent.ack = s.ack
        /\ sent.local_sdp # None
    <2>1. sdp # None
      BY SessionSdpType, LocalLineAssumption DEF LocalLineAssumption
    <2> HIDE DEF sdp, n, state
    <2> QED
      BY <2>1 DEF Session
  <1>3. s.cli \in Nat
    BY DEF Session
  <1>4. Follows(s, sent)
    <2> HIDE DEF sent
    <2> QED
      BY <1>2, <1>3 DEF Follows, Established, Excess, Sent
  <1> HIDE DEF sent
  <1> QED
    BY <1>1, <1>4, FollowsItself

LEMMA EndFollows ==
    ASSUME NEW s \in Session
    PROVE  Follows(s, ChangeState(s, "ENDED")) /\ ChangeState(s, "ENDED").state = "ENDED"
  <1> DEFINE t == NuaDestroy([s EXCEPT !.state = "ENDED"])
  <1>1. ChangeState(s, "ENDED") \in {s, t}
    BY Zenon DEF ChangeState
  <1>2. s.state # "ENDED" => ChangeState(s, "ENDED") = t
    BY Zenon DEF ChangeState
  <1>3. /\ t.state = "ENDED" /\ t.cli = 0
        /\ t.incoming = s.incoming /\ t.accepted = s.accepted
    BY DEF NuaDestroy, Session
  <1>4. Follows(s, t)
    <2> HIDE DEF t
    <2> QED
      BY <1>3 DEF Follows
  <1> HIDE DEF t
  <1> QED
    BY <1>1, <1>2, <1>3, <1>4, FollowsItself

(* A session becomes active when it was accepted, or negotiated before.    *)
LEMMA ActivateFollows ==
    ASSUME NEW s \in Session,
           s.state \notin {"CREATED", "ENDED", "INVITE_SENT", "REINVITE_SENT"},
           s.accepted \/ s.state \in Established
    PROVE  Follows(s, ChangeState(s, "ACTIVE"))
  <1> DEFINE s1 == [s EXCEPT !.state = "ACTIVE"]
  <1>1. ChangeState(s, "ACTIVE") \in {s, s1, Invite(s1, TRUE)}
    <2>1. "ACTIVE" # "ENDED"
      OBVIOUS
    <2> QED
      BY <2>1, Zenon DEF ChangeState
  <1>2. /\ s1 \in Session /\ s1.state = "ACTIVE"
        /\ s1.incoming = s.incoming /\ s1.accepted = s.accepted
        /\ s1.early = s.early /\ s1.cli = s.cli /\ s.cli \in Nat
        /\ s1.overtaken = s.overtaken /\ s1.srv = s.srv /\ s1.ack = s.ack
        /\ s1.local_sdp = s.local_sdp
    BY ZenonT(60) DEF Session, SessionState
  <1> HIDE DEF s1
  <1>3. Follows(s, s1)
    BY <1>2 DEF Follows, Established, Excess, Sent
  <1>4. Follows(s, Invite(s1, TRUE))
    <2>1. Follows(s1, Invite(s1, TRUE)) /\ Invite(s1, TRUE) \in Session
      BY <1>2, InviteFollows, InviteType
    <2> QED
      BY <1>2, <1>3, <2>1, FollowsTransitive
  <1> QED
    BY <1>1, <1>3, <1>4, FollowsItself

LEMMA NuaRespondSame ==
    ASSUME NEW s \in Session
    PROVE  NuaRespond(s) \in Session /\ SameCourse(s, NuaRespond(s))
  <1> DEFINE stray == s.stray_response \/ s.srv = "none"
             t == [s EXCEPT !.srv = "none", !.stray_response = stray]
  <1>1. NuaRespond(s) = t
    BY Zenon DEF NuaRespond
  <1>2. SameCourse(s, t)
    <2> HIDE DEF stray
    <2> QED
      BY DEF Session, SameCourse
  <1> QED
    BY <1>1, <1>2, NuaRespondType

LEMMA RespondFollows ==
    ASSUME NEW s \in Session,
           s.state \notin {"CREATED", "ENDED", "INVITE_SENT", "REINVITE_SENT"},
           s.accepted \/ s.state \in Established
    PROVE  Follows(s, Respond(s))
  <1> DEFINE sdp == SessionSdp(s, FALSE)
             t == NuaRespond(s)
             ack == IF s.srv = "delayed" THEN sdp ELSE t.ack
             medias == [i \in Slots(s) |->
                          IF s.medias[i] = None \/ i > Len(sdp) THEN s.medias[i]
                          ELSE GeneratedDirection(s.medias[i], FALSE)]
             bad == t.bad_answer \/ (s.srv = "offer" /\ ~AnswerFits(sdp, s.remote_sdp))
             s1 == [t EXCEPT !.local_sdp = sdp, !.ack = ack, !.medias = medias,
                             !.bad_answer = bad, !.saved_event = FALSE]
  <1>1. Answered(s) = s1
    BY Zenon DEF Answered
  <1>2. s1 \in Session
    BY <1>1, AnsweredType
  <1>3. SameCourse(s, s1)
    <2>1. t \in Session /\ SameCourse(s, t)
      BY NuaRespondSame
    <2>2. /\ s.srv # "delayed" => ack = t.ack
          /\ sdp # None
      BY SessionSdpType, LocalLineAssumption DEF LocalLineAssumption
    <2> HIDE DEF sdp, ack, medias, bad, t
    <2>3. /\ s1.state = t.state /\ s1.incoming = t.incoming /\ s1.accepted = t.accepted
          /\ s1.early = t.early /\ s1.cli = t.cli /\ s1.overtaken = t.overtaken
          /\ s1.srv = t.srv /\ s1.ack = ack /\ s1.local_sdp = sdp
      BY <2>1 DEF Session
    <2> HIDE DEF s1
    <2> QED
      BY <2>1, <2>2, <2>3 DEF SameCourse
  <1>4. Respond(s) \in {s, ChangeState(s1, "ACTIVE")}
    BY <1>1, Zenon DEF Respond
  <1> HIDE DEF s1
  <1>5. Follows(s, ChangeState(s1, "ACTIVE"))
    <2>1. Follows(s1, ChangeState(s1, "ACTIVE")) /\ ChangeState(s1, "ACTIVE") \in Session
      BY <1>2, <1>3, ActivateFollows, ChangeStateType DEF SameCourse, SessionState
    <2> QED
      BY <1>2, <1>3, <2>1, FollowsSameCourse
  <1> QED
    BY <1>4, <1>5, FollowsItself

LEMMA RequestResponseStepFollows ==
    ASSUME NEW s \in Session
    PROVE  Follows(s, RequestResponseStep(s))
  <1>1. s.state \in SessionState
    BY DEF Session
  <1>2. CASE s.state = "CREATED"
    <2>1. RequestResponseStep(s) \in {s, Invite(s, FALSE)}
      BY <1>2, Zenon DEF RequestResponseStep
    <2> QED
      BY <1>2, <2>1, InviteFollows, FollowsItself
  <1>3. CASE s.state \in {"INVITE_RECEIVED", "REINVITE_RECEIVED"}
    <2>1. \/ RequestResponseStep(s) = s
          \/ /\ RequestResponseStep(s) = Respond(s)
             /\ s.accepted \/ s.state = "REINVITE_RECEIVED"
      BY <1>3 DEF RequestResponseStep
    <2> QED
      BY <1>3, <2>1, RespondFollows, FollowsItself DEF Established
  <1>4. CASE s.state = "RESPONSE_RECEIVED"
    <2>1. \/ RequestResponseStep(s) = s
          \/ RequestResponseStep(s) = ChangeState(s, "ACTIVE") /\ s.accepted
      BY <1>4 DEF RequestResponseStep
    <2> QED
      BY <1>4, <2>1, ActivateFollows, FollowsItself
  <1>5. CASE s.state \in {"ACTIVE", "REINVITE_PENDING"}
    <2>1. RequestResponseStep(s) \in {s, Invite(s, TRUE)}
      BY <1>5 DEF RequestResponseStep
    <2> QED
      BY <1>5, <2>1, InviteFollows, FollowsItself
  <1>6. CASE s.state \in {"INVITE_SENT", "REINVITE_SENT", "ENDED"}
    <2>1. RequestResponseStep(s) = s
      BY <1>6 DEF RequestResponseStep
    <2> QED
      BY <2>1, FollowsItself
  <1> QED
    BY <1>1, <1>2, <1>3, <1>4, <1>5, <1>6 DEF SessionState

LEMMA TerminateFollows ==
    ASSUME NEW s \in Session
    PROVE  Follows(s, Terminate(s)) /\ Terminate(s).state = "ENDED"
  <1> DEFINE t == NuaRespond(s)
             u == [t EXCEPT !.saved_event = FALSE]
  <1>1. t \in Session /\ SameCourse(s, t)
    BY NuaRespondSame
  <1>2. u \in Session /\ SameCourse(s, u)
    <2> HIDE DEF t
    <2>0. t \in Session
      BY <1>1
    <2>1. u \in Session
      BY <2>0, ForgetEventType
    <2>2. SameCourse(t, u)
      BY <2>0 DEF Session, SameCourse
    <2> HIDE DEF u
    <2> QED
      BY <1>1, <2>1, <2>2 DEF SameCourse
  <1>3. \/ Terminate(s) = s /\ s.state = "ENDED"
        \/ Terminate(s) \in {ChangeState(s, "ENDED"), ChangeState(t, "ENDED"),
                             ChangeState(u, "ENDED")}
    BY Zenon DEF Terminate
  <1> HIDE DEF t, u
  <1>4. ASSUME NEW v \in Session, SameCourse(s, v)
        PROVE  Follows(s, ChangeState(v, "ENDED")) /\ ChangeState(v, "ENDED").state = "ENDED"
    <2>1. ChangeState(v, "ENDED") \in Session
      BY ChangeStateType DEF SessionState
    <2> QED
      BY <1>4, <2>1, EndFollows, FollowsSameCourse
  <1> QED
    BY <1>1, <1>2, <1>3, <1>4, EndFollows, FollowsItself

(* The handler of an acceptance, on the session it has accepted.           *)
LEMMA AcceptSessionFollows ==
    ASSUME NEW s \in Session
    PROVE  \E s1 \in Session : /\ s1.accepted /\ s1.state = s.state /\ s1.incoming = s.incoming
                               /\ s1.early = s.early /\ s1.cli = s.cli
                               /\ s1.overtaken = s.overtaken
                               /\ s1.srv = s.srv /\ s1.ack = s.ack
                               /\ s1.local_sdp = s.local_sdp
                               /\ Follows(s1, AcceptSession(s))
  <1> DEFINE s1 == [s EXCEPT !.accepted = TRUE]
  <1>1. /\ s1 \in Session /\ s1.accepted /\ s1.state = s.state /\ s1.incoming = s.incoming
        /\ s1.early = s.early /\ s1.cli = s.cli
        /\ s1.overtaken = s.overtaken /\ s1.srv = s.srv /\ s1.ack = s.ack
        /\ s1.local_sdp = s.local_sdp
    BY DEF Session
  <1>2. \/ AcceptSession(s) = s /\ s.accepted
        \/ AcceptSession(s) = RequestResponseStep(s1)
    BY Zenon DEF AcceptSession
  <1> HIDE DEF s1
  <1>3. CASE AcceptSession(s) = s /\ s.accepted
    BY <1>3, FollowsItself
  <1>4. CASE AcceptSession(s) = RequestResponseStep(s1)
    BY <1>1, <1>4, RequestResponseStepFollows
  <1> QED
    BY <1>2, <1>3, <1>4

LEMMA MediaChangedFollows ==
    ASSUME NEW s \in Session
    PROVE  Follows(s, MediaChanged(s))
  <1> DEFINE pending == s.pending_offer \/ s.remote_media_count < Len(s.medias)
             s1 == [s EXCEPT !.pending_offer = pending]
             s2 == [s EXCEPT !.pending_offer = TRUE]
  <1>1. s.state \in SessionState
    BY DEF Session
  <1>2. Follows(s, s1) /\ Follows(s, s2)
    <2>1. SameCourse(s, s1) /\ SameCourse(s, s2)
      <3> HIDE DEF pending
      <3> QED
        BY OtherFieldsSame
    <2> QED
      BY <2>1, SameCourseFollows
  <1>3. CASE s.state = "CREATED"
    <2>1. MediaChanged(s) = RequestResponseStep(s)
      BY <1>3, Zenon DEF MediaChanged
    <2> QED
      BY <2>1, RequestResponseStepFollows
  <1>4. CASE s.state \in {"ACTIVE", "REINVITE_PENDING"}
    <2>1. MediaChanged(s) \in {s, Invite(s, TRUE), s2}
      BY <1>4 DEF MediaChanged
    <2> HIDE DEF s2
    <2> QED
      BY <1>2, <1>4, <2>1, InviteFollows, FollowsItself
  <1>5. CASE s.state \notin {"CREATED", "ACTIVE", "REINVITE_PENDING"}
    <2>1. MediaChanged(s) \in {s, s1, s2}
      BY <1>1, <1>5 DEF MediaChanged, SessionState
    <2> HIDE DEF s1, s2
    <2> QED
      BY <1>2, <2>1, FollowsItself
  <1> QED
    BY <1>3, <1>4, <1>5

LEMMA AddMediaFollows ==
    ASSUME NEW s \in Session, NEW type \in SupportedType, NEW direction \in SUBSET Direction
    PROVE  Follows(s, AddMedia(s, type, direction))
  <1> DEFINE initial == s.state \in {"CREATED", "INVITE_RECEIVED"}
             s1 == IF initial /\ direction # Bidirectional THEN MediaChanged(s) ELSE s
             m == NewMedia(type, IF initial THEN Bidirectional ELSE direction,
                           TRUE, s.hold_requested)
             medias == Append(s1.medias, m)
             t == [s1 EXCEPT !.medias = medias]
  <1>1. Follows(s, s1) /\ s1 \in Session
    BY MediaChangedFollows, MediaChangedType, FollowsItself
  <1>2. AddMedia(s, type, direction) = t
    BY Zenon DEF AddMedia
  <1>3. t \in Session
    <2>1. AddMedia(s, type, direction) \in Session
      BY AddMediaType
    <2> QED
      BY <1>2, <2>1, Zenon
  <1>4. SameCourse(s1, t)
    <2> HIDE DEF s1, medias
    <2> QED
      BY <1>1, OtherFieldsSame
  <1> HIDE DEF s1, t
  <1> QED
    BY <1>1, <1>2, <1>3, <1>4, SameCourseFollows, FollowsTransitive

(* The medias the peer's SDP makes leave the course of the session alone.  *)
LEMMA UpdateRemoteMediaCourse ==
    ASSUME NEW s \in Session, NEW authoritative \in BOOLEAN
    PROVE  SameCourse(s, UpdateRemoteMedia(s, authoritative))
  <1> DEFINE n == Len(s.remote_sdp)
             medias == [i \in 1..Max2(n, Len(s.medias)) |->
                          IF i <= n THEN UpdatedSlot(s, i, s.remote_sdp[i], authoritative)
                          ELSE IF s.pending_offer THEN s.medias[i] ELSE None]
             stale == s.stale_read \/ \E i \in Present(s) :
                        /\ i <= n
                        /\ AcceptableRemoteMedia(s.remote_sdp[i])
                        /\ s.medias[i].type = s.remote_sdp[i].type
                        /\ s.medias[i].home = "freed"
             s1 == [s EXCEPT !.medias = medias, !.stale_read = stale]
             held == RemotelyHeld(s1)
             s2 == [s1 EXCEPT !.remote_held = held]
             s3 == [s EXCEPT !.aborted = "slot"]
  <1>1. SameCourse(s, s1) /\ SameCourse(s, s2) /\ SameCourse(s, s3)
    <2> HIDE DEF medias, stale, held
    <2> QED
      BY DEF Session, SameCourse
  <1>2. UpdateRemoteMedia(s, authoritative) \in {s1, s2, s3}
    BY Zenon DEF UpdateRemoteMedia
  <1> HIDE DEF s1, s2, s3
  <1> QED
    BY <1>1, <1>2

LEMMA StoreRemoteSdpCourse ==
    ASSUME NEW s \in Session, NEW sdp, NEW junk
    PROVE  SameCourse(s, StoreRemoteSdp(s, sdp, junk))
  <1> DEFINE medias == [i \in Slots(s) |->
                          Rehome(Release(s.medias[i], "backup", junk), "current", "backup")]
             t == [s EXCEPT !.backup_remote_sdp = s.remote_sdp, !.remote_sdp = sdp,
                            !.medias = medias]
  <1>1. StoreRemoteSdp(s, sdp, junk) = t
    BY Zenon DEF StoreRemoteSdp
  <1>2. SameCourse(s, t)
    <2> HIDE DEF medias
    <2> QED
      BY DEF Session, SameCourse
  <1> QED
    BY <1>1, <1>2

(* An answer of the peer ends the *_SENT states; the rest of the handler   *)
(* follows from there, and fails only by ending or stopping everything.    *)
Answering(state) ==
    IF state \in {"INVITE_SENT", "REINVITE_SENT"} THEN "RESPONSE_RECEIVED" ELSE state

LEMMA SetRemoteSdpFollows ==
    ASSUME NEW s \in Session, NEW sdp \in Seq(SdpMedia), NEW junk \in SdpMedia
    PROVE  \E s1 \in Session :
              LET r == SetRemoteSdp(s, sdp, junk)
              IN  /\ s1.state = Answering(s.state)
                  /\ s1.incoming = s.incoming /\ s1.accepted = s.accepted
                  /\ s1.early = s.early /\ s1.cli = s.cli
                  /\ s1.overtaken = s.overtaken /\ s1.srv = s.srv /\ s1.ack = s.ack
                  /\ s1.local_sdp = s.local_sdp
                  /\ r.session \in Session
                  /\ Follows(s1, r.session)
                  /\ \/ r.ok
                     \/ r.session.state = "ENDED"
                     \/ r.session.aborted # "none" /\ r.session.state = s1.state
  <1> DEFINE counted == [s EXCEPT !.remote_media_count = Len(sdp)]
             moved == [s EXCEPT !.state = "RESPONSE_RECEIVED"]
             s1 == IF s.state \in {"INVITE_SENT", "REINVITE_SENT"}
                   THEN ChangeState(s, "RESPONSE_RECEIVED") ELSE counted
             stored == StoreRemoteSdp(s1, sdp, junk)
             authoritative == s1.state \in {"INVITE_RECEIVED", "REINVITE_RECEIVED"}
             s2 == UpdateRemoteMedia(stored, authoritative)
             r == SetRemoteSdp(s, sdp, junk)
  <1>1. /\ s1 \in Session /\ s1.state = Answering(s.state)
        /\ s1.incoming = s.incoming /\ s1.accepted = s.accepted
        /\ s1.early = s.early /\ s1.cli = s.cli
        /\ s1.overtaken = s.overtaken /\ s1.srv = s.srv /\ s1.ack = s.ack
        /\ s1.local_sdp = s.local_sdp
    <2>1. CASE s.state \in {"INVITE_SENT", "REINVITE_SENT"}
      <3>1. ChangeState(s, "RESPONSE_RECEIVED") = moved
        BY <2>1 DEF ChangeState
      <3>2. s1 = moved
        BY <2>1, <3>1
      <3>3. /\ moved \in Session /\ moved.state = "RESPONSE_RECEIVED"
            /\ moved.incoming = s.incoming /\ moved.accepted = s.accepted
            /\ moved.early = s.early /\ moved.cli = s.cli
            /\ moved.overtaken = s.overtaken /\ moved.srv = s.srv /\ moved.ack = s.ack
            /\ moved.local_sdp = s.local_sdp
        BY ZenonT(60) DEF Session, SessionState
      <3> QED
        BY <2>1, <3>2, <3>3 DEF Answering
    <2>2. CASE s.state \notin {"INVITE_SENT", "REINVITE_SENT"}
      <3>1. Len(sdp) \in Nat
        BY LenProperties
      <3>2. /\ counted \in Session /\ SameCourse(s, counted)
            /\ counted.srv = s.srv /\ counted.ack = s.ack /\ counted.local_sdp = s.local_sdp
        BY ZenonT(60), <3>1 DEF Session, SameCourse
      <3>3. s1 = counted
        BY <2>2
      <3> HIDE DEF counted, s1
      <3> QED
        BY <2>2, <3>2, <3>3 DEF SameCourse, Answering
    <2> QED
      BY <2>1, <2>2
  <1>2. stored \in Session /\ SameCourse(s1, stored) /\ stored.remote_sdp \in Seq(SdpMedia)
    <2> HIDE DEF s1
    <2> QED
      BY <1>1, StoreRemoteSdpType, StoreRemoteSdpCourse
  <1>3. s2 \in Session /\ SameCourse(s1, s2)
    <2> HIDE DEF s1
    <2>1. authoritative \in BOOLEAN
      OBVIOUS
    <2> HIDE DEF stored, authoritative
    <2>2. s2 \in Session /\ SameCourse(stored, s2)
      BY <1>2, <2>1, UpdateRemoteMediaType, UpdateRemoteMediaCourse
    <2> HIDE DEF s2
    <2> QED
      BY <1>2, <2>2 DEF SameCourse
  <1>4. r = IF s1.remote_sdp = sdp
            THEN [ok |-> TRUE, session |-> RequestResponseStep(s1)]
            ELSE IF s2.aborted # "none" \/ ~HasSupportedMedia(s2)
            THEN [ok |-> FALSE, session |-> IF s2.aborted # "none" THEN s2 ELSE Terminate(s2)]
            ELSE [ok |-> TRUE, session |-> RequestResponseStep(s2)]
    <2> HIDE DEF s1, s2
    <2> QED
      BY Zenon DEF SetRemoteSdp, s1, s2
  <1>5. r.session \in Session
    BY SetRemoteSdpType
  <1> HIDE DEF s1, s2, r
  <1>6. /\ Follows(s1, RequestResponseStep(s1))
        /\ Follows(s1, s2)
        /\ Follows(s1, Terminate(s2)) /\ Terminate(s2).state = "ENDED"
        /\ Follows(s1, RequestResponseStep(s2))
    <2>1. RequestResponseStep(s2) \in Session /\ Terminate(s2) \in Session
      BY <1>3, RequestResponseStepType, TerminateType
    <2> QED
      BY <1>1, <1>3, <2>1, SameCourseFollows, FollowsSameCourse,
         RequestResponseStepFollows, TerminateFollows
  <1>7. CASE s1.remote_sdp = sdp
    <2>1. r.ok /\ r.session = RequestResponseStep(s1)
      BY <1>4, <1>7
    <2> QED
      BY <1>1, <1>5, <1>6, <2>1 DEF r
  <1>8. CASE s1.remote_sdp # sdp /\ s2.aborted # "none"
    <2>1. r.session = s2
      BY <1>4, <1>8
    <2> QED
      BY <1>1, <1>3, <1>5, <1>6, <1>8, <2>1 DEF r, SameCourse
  <1>9. CASE s1.remote_sdp # sdp /\ s2.aborted = "none"
    <2>1. \/ r.session = Terminate(s2)
          \/ r.ok /\ r.session = RequestResponseStep(s2)
      BY <1>4, <1>9
    <2> QED
      BY <1>1, <1>5, <1>6, <2>1 DEF r
  <1> QED
    BY <1>7, <1>8, <1>9

LEMMA RollbackFollows ==
    ASSUME NEW s \in Session, s.state = "REINVITE_RECEIVED", NEW junk \in SdpMedia
    PROVE  Follows(s, Rollback(s, junk))
  <1> DEFINE medias == [i \in Slots(s) |->
                          Rehome(Release(s.medias[i], "current", junk), "backup", "current")]
             s1 == [s EXCEPT !.remote_sdp = s.backup_remote_sdp, !.backup_remote_sdp = None,
                             !.medias = medias]
             s2 == UpdateRemoteMedia(s1, FALSE)
             t == NuaRespond(s2)
             u == [t EXCEPT !.saved_event = FALSE]
  <1>1. /\ s1 \in Session /\ SameCourse(s, s1)
        /\ s1.remote_sdp = s.backup_remote_sdp
    <2>1. medias \in Seq(Slot)
      BY ShiftHomesType DEF Home
    <2>2. s.backup_remote_sdp \in Seq(SdpMedia) \cup {None}
      BY DEF Session
    <2> HIDE DEF medias
    <2>3. s1.remote_sdp = s.backup_remote_sdp /\ SameCourse(s, s1)
      BY DEF Session, SameCourse
    <2>4. s1 \in Session
      BY <2>1, <2>2 DEF Session
    <2> QED
      BY <2>3, <2>4
  <1>2. CASE s.backup_remote_sdp = None
    <2>1. Rollback(s, junk) = Terminate(s1)
      BY <1>2, Zenon DEF Rollback
    <2> HIDE DEF s1
    <2>2. Follows(s1, Terminate(s1)) /\ Terminate(s1) \in Session
      BY <1>1, TerminateFollows, TerminateType
    <2> QED
      BY <1>1, <2>1, <2>2, FollowsSameCourse
  <1>3. CASE s.backup_remote_sdp # None
    <2>1. s1.remote_sdp \in Seq(SdpMedia)
      BY <1>1, <1>3 DEF Session
    <2>2. s2 \in Session /\ SameCourse(s1, s2)
      <3> HIDE DEF s1
      <3> QED
        BY <1>1, <2>1, UpdateRemoteMediaType, UpdateRemoteMediaCourse
    <2>3. t \in Session /\ SameCourse(s2, t)
      <3> HIDE DEF s2
      <3> QED
        BY <2>2, NuaRespondSame
    <2>4. u \in Session /\ SameCourse(t, u)
      <3> HIDE DEF s1, s2, t
      <3>1. t \in Session
        BY <2>3
      <3>2. u \in Session
        BY <3>1, ForgetEventType
      <3>3. SameCourse(t, u)
        BY <3>1 DEF Session, SameCourse
      <3> QED
        BY <3>2, <3>3
    <2>5. Rollback(s, junk) \in {s2, ChangeState(u, "ACTIVE")}
      BY <1>3, Zenon DEF Rollback
    <2> HIDE DEF s1, s2, t, u
    <2>6. SameCourse(s, s2) /\ SameCourse(s, u)
      BY <1>1, <2>2, <2>3, <2>4 DEF SameCourse
    <2>7. Follows(s, ChangeState(u, "ACTIVE"))
      <3>1. Follows(u, ChangeState(u, "ACTIVE")) /\ ChangeState(u, "ACTIVE") \in Session
        BY <2>4, <2>6, ActivateFollows, ChangeStateType
           DEF SameCourse, SessionState, Established
      <3> QED
        BY <2>4, <2>6, <3>1, FollowsSameCourse
    <2> QED
      BY <2>5, <2>6, <2>7, SameCourseFollows
  <1> QED
    BY <1>2, <1>3

LEMMA NegotiationFailedFollows ==
    ASSUME NEW s \in Session, NEW i \in Slots(s), NEW junk \in SdpMedia
    PROVE  Follows(s, NegotiationFailed(s, i, junk))
  <1> DEFINE t == [s EXCEPT !.aborted = "negotiation"]
             u == RemoveMedia(s, i)
  <1>1. CASE s.state \in {"RESPONSE_RECEIVED", "INVITE_RECEIVED"}
    <2>1. NegotiationFailed(s, i, junk) = RequestResponseStep(u)
      BY <1>1, Zenon DEF NegotiationFailed
    <2>2. SameCourse(s, u)
      BY DEF RemoveMedia, SameCourse, Session
    <2>3. u \in Session /\ RequestResponseStep(u) \in Session
      BY RemoveMediaType, RequestResponseStepType
    <2> HIDE DEF u
    <2> QED
      BY <2>1, <2>2, <2>3, RequestResponseStepFollows, FollowsSameCourse
  <1>2. CASE s.state = "REINVITE_RECEIVED"
    <2>1. NegotiationFailed(s, i, junk) = Rollback(s, junk)
      BY <1>2 DEF NegotiationFailed
    <2> QED
      BY <1>2, <2>1, RollbackFollows
  <1>3. CASE s.state \notin {"RESPONSE_RECEIVED", "INVITE_RECEIVED", "REINVITE_RECEIVED"}
    <2>1. NegotiationFailed(s, i, junk) \in {s, t}
      BY <1>3 DEF NegotiationFailed
    <2>2. SameCourse(s, t)
      BY DEF SameCourse, Session
    <2> HIDE DEF t
    <2> QED
      BY <2>1, <2>2, SameCourseFollows, FollowsItself
  <1> QED
    BY <1>1, <1>2, <1>3

LEMMA HandleSignalFollows ==
    ASSUME NEW s \in Session, NEW i \in Slots(s), NEW r \in Result
    PROVE  Follows(s, HandleSignal(s, i, r))
  <1> DEFINE s1 == [s EXCEPT !.medias[i] = r.media]
  <1>1. s1 \in Session
    <2>1. r.media \in Slot
      BY DEF Result, Slot
    <2> QED
      BY <2>1, SetMediaType
  <1>2. SameCourse(s, s1)
    BY DEF SameCourse, Session
  <1>3. HandleSignal(s, i, r) \in {RequestResponseStep(s1), MediaChanged(s1), s1}
    BY Zenon DEF HandleSignal
  <1> HIDE DEF s1
  <1>4. RequestResponseStep(s1) \in Session /\ MediaChanged(s1) \in Session
    BY <1>1, RequestResponseStepType, MediaChangedType
  <1> QED
    BY <1>1, <1>2, <1>3, <1>4, RequestResponseStepFollows, MediaChangedFollows,
       FollowsSameCourse, SameCourseFollows

LEMMA HandleRejectionFollows ==
    ASSUME NEW s \in Session, NEW i \in Present(s), NEW junk \in SdpMedia
    PROVE  Follows(s, HandleRejection(s, i, junk))
  <1> DEFINE r == CodecsRejected(s.medias[i])
             s1 == [s EXCEPT !.medias[i] = r.media]
             s2 == NegotiationFailed(s1, i, junk)
             m == ForgetCodecOffer(s2.medias[i])
             s3 == [s2 EXCEPT !.medias[i] = m]
  <1>1. i \in Slots(s) /\ s.medias[i] \in Media
    BY SlotType DEF Present
  <1>2. s1 \in Session /\ i \in Slots(s1)
    <2>1. r.media \in Slot
      BY <1>1, CodecsRejectedType DEF Result, Slot
    <2> HIDE DEF r
    <2>2. s1 \in Session
      BY <1>1, <2>1, SetMediaType
    <2>3. s.medias \in Seq(Slot) /\ s1.medias = [s.medias EXCEPT ![i] = r.media]
      BY <1>1 DEF Session
    <2>4. Len(s1.medias) = Len(s.medias)
      BY <1>1, <2>1, <2>3, ExceptSeq DEF Slots
    <2> QED
      BY <1>1, <2>2, <2>4 DEF Slots
  <1>3. SameCourse(s, s1)
    <2> HIDE DEF r
    <2> QED
      BY DEF SameCourse, Session
  <1>4. s2 \in Session /\ Follows(s1, s2)
    <2> HIDE DEF s1
    <2> QED
      BY <1>2, NegotiationFailedType, NegotiationFailedFollows
  <1>5. SameCourse(s2, s3)
    <2> HIDE DEF s2, m
    <2> QED
      BY <1>4 DEF SameCourse, Session
  <1>6. HandleRejection(s, i, junk) \in {s1, s2, s3}
    BY Zenon DEF HandleRejection
  <1> HIDE DEF s1, s2, s3
  <1>7. Follows(s, s2)
    BY <1>2, <1>3, <1>4, FollowsSameCourse
  <1>8. Follows(s, s3)
    BY <1>5, <1>7 DEF SameCourse, Follows, Excess
  <1> QED
    BY <1>3, <1>6, <1>7, <1>8, SameCourseFollows

LEMMA SetSessionHoldFollows ==
    ASSUME NEW s \in Session, NEW hold \in BOOLEAN
    PROVE  Follows(s, SetSessionHold(s, hold))
  <1> DEFINE medias == [i \in Slots(s) |-> IF s.medias[i] = None THEN None
                                           ELSE SetHoldRequested(s.medias[i], hold)]
             s1 == [s EXCEPT !.hold_requested = hold, !.medias = medias]
  <1>1. medias \in Seq(Slot)
    <2>1. ASSUME NEW i \in Slots(s)
          PROVE  medias[i] \in Slot
      BY SlotType, SetHoldRequestedType DEF Slot, Present
    <2>2. medias \in [Slots(s) -> Slot]
      BY <2>1
    <2> HIDE DEF medias
    <2> QED
      BY <2>2, SlotsType, MediasType
  <1>2. s1 \in Session /\ SameCourse(s, s1)
    <2> HIDE DEF medias
    <2>1. s1 \in Session
      BY <1>1 DEF Session
    <2>2. SameCourse(s, s1)
      BY DEF Session, SameCourse
    <2> QED
      BY <2>1, <2>2
  <1>3. SetSessionHold(s, hold) = MediaChanged(s1)
    BY Zenon DEF SetSessionHold
  <1> HIDE DEF s1
  <1>4. MediaChanged(s1) \in Session
    BY <1>2, MediaChangedType
  <1> QED
    BY <1>2, <1>3, <1>4, MediaChangedFollows, FollowsSameCourse

LEMMA RequestBothDirectionsFollows ==
    ASSUME NEW s \in Session
    PROVE  Follows(s, RequestBothDirections(s))
  <1> DEFINE medias == [i \in Slots(s) |->
                          IF s.medias[i] = None THEN None
                          ELSE SetRequestedDirection(s.medias[i], Bidirectional).media]
             s1 == [s EXCEPT !.medias = medias]
  <1>1. medias \in Seq(Slot)
    <2>1. ASSUME NEW i \in Slots(s)
          PROVE  medias[i] \in Slot
      <3>1. CASE s.medias[i] = None
        BY <3>1 DEF Slot
      <3>2. CASE s.medias[i] # None
        <4>1. s.medias[i] \in Media
          BY <3>2, SlotType DEF Present
        <4>2. SetRequestedDirection(s.medias[i], Bidirectional) \in Result
          BY <4>1, SetRequestedDirectionType DEF Bidirectional
        <4> QED
          BY <3>2, <4>2 DEF Result, Slot
      <3> QED
        BY <3>1, <3>2
    <2>2. medias \in [Slots(s) -> Slot]
      BY <2>1
    <2> HIDE DEF medias
    <2> QED
      BY <2>2, SlotsType, MediasType
  <1>2. s1 \in Session /\ SameCourse(s, s1)
    <2> HIDE DEF medias
    <2> QED
      BY <1>1, SetMediasType, OtherFieldsSame
  <1>3. RequestBothDirections(s) \in {MediaChanged(s1), s1}
    BY Zenon DEF RequestBothDirections
  <1> HIDE DEF s1
  <1>4. MediaChanged(s1) \in Session
    BY <1>2, MediaChangedType
  <1> QED
    BY <1>2, <1>3, <1>4, MediaChangedFollows, FollowsSameCourse, SameCourseFollows

-----------------------------------------------------------------------------
(* The inductive invariant and its preservation.                           *)

(* Who accepted what, and that the call dialled with an early answer still *)
(* has its INVITE outstanding.                                             *)
Agreed(s) ==
    /\ s.state \in Established => s.accepted
    /\ s.incoming => s.state # "INVITE_SENT"
    /\ ~s.incoming => s.state # "INVITE_RECEIVED"
    /\ s.state = "INVITE_SENT" => s.cli > 0
    /\ s.state \in {"CREATED", "INVITE_SENT"} => ~s.early
    /\ s.aborted = "none" /\ s.state = "RESPONSE_RECEIVED" /\ ~s.accepted =>
          s.early /\ s.cli > 0

AcceptInv == RequestsInv /\ Agreed(session)

(* A handler, called on anything but a fresh incoming session, keeps it.   *)
LEMMA FollowsAgreed ==
    ASSUME NEW s \in Session, NEW t \in Session, Agreed(s), s.aborted = "none",
           s.incoming => s.state # "CREATED", Follows(s, t)
    PROVE  Agreed(t)
  <1>1. s.cli \in Nat /\ t.cli \in Nat
    BY DEF Session
  <1> QED
    BY <1>1 DEF Agreed, Follows, Established, Excess, Sent

(* Once accepted, only the direction of the call is left to agree on.      *)
LEMMA AcceptedAgreed ==
    ASSUME NEW s \in Session, NEW t \in Session, Follows(s, t), s.accepted,
           s.incoming => s.state \notin {"CREATED", "INVITE_SENT"},
           ~s.incoming => s.state # "INVITE_RECEIVED",
           s.state \in {"CREATED", "INVITE_SENT"} => ~s.early,
           s.state = "INVITE_SENT" => s.cli > 0
    PROVE  Agreed(t)
  <1>1. s.cli \in Nat /\ t.cli \in Nat
    BY DEF Session
  <1> QED
    BY <1>1 DEF Agreed, Follows, Established, Excess, Sent

LEMMA EndedAgreed ==
    ASSUME NEW s, s.state = "ENDED"
    PROVE  Agreed(s)
  BY DEF Agreed, Established

LEMMA ClientStepFollows ==
    ASSUME session \in Session, NEW i \in Present(session), ClientStep(i)
    PROVE  Follows(session, session')
  <1>1. i \in Slots(session)
    BY DEF Present
  <1>2. CASE RejectCodecs(i)
    <2>1. PICK m \in Media, junk \in SdpMedia :
             LET s == [session EXCEPT !.medias[i] = m]
             IN  i \in Present(s) /\ session' = HandleRejection(s, i, junk)
      BY <1>1, <1>2, RejectCodecsStep, Zenon
    <2> DEFINE s == [session EXCEPT !.medias[i] = m]
    <2>2. s \in Session
      BY <1>1, SetMediaType DEF Slot
    <2>3. SameCourse(session, s)
      BY DEF SameCourse, Session
    <2> HIDE DEF s
    <2>4. i \in Present(s) /\ session' = HandleRejection(s, i, junk)
      BY <2>1 DEF s
    <2>5. Follows(s, session')
      BY <2>2, <2>4, HandleRejectionFollows
    <2> QED
      BY <2>3, <2>5 DEF SameCourse, Follows, Excess
  <1>3. CASE RemoveContent(i)
    <2> DEFINE s == RemoveMedia(session, i)
    <2>1. session' = MediaChanged(s)
      BY <1>3, Zenon DEF RemoveContent
    <2>2. s \in Session
      BY <1>1, RemoveMediaType
    <2>3. SameCourse(session, s)
      BY DEF RemoveMedia, SameCourse, Session
    <2> HIDE DEF s
    <2>4. Follows(s, session')
      BY <2>1, <2>2, MediaChangedFollows
    <2> QED
      BY <2>3, <2>4 DEF SameCourse, Follows, Excess
  <1>4. CASE ~RejectCodecs(i) /\ ~RemoveContent(i)
    BY <1>1, <1>4, ClientStepSignals, HandleSignalFollows
  <1> QED
    BY <1>2, <1>3, <1>4

LEMMA CallStepFollows ==
    ASSUME session \in Session, CallStep, ~Accept
    PROVE  Follows(session, session')
  <1>1. ASSUME Hangup
        PROVE  Follows(session, session')
    BY <1>1, TerminateFollows DEF Hangup
  <1>2. ASSUME NEW type \in ContentTypes, NEW direction \in Directions,
               AddContent(type, direction)
        PROVE  Follows(session, session')
    <2>1. type \in SupportedType /\ direction \in SUBSET Direction
      BY SessionAssumption DEF SessionAssumption
    <2>2. session' = AddMedia(session, type, direction)
      BY <1>2, Zenon DEF AddContent
    <2> QED
      BY <2>1, <2>2, AddMediaFollows
  <1>3. ASSUME RequestHold \/ ReleaseHold
        PROVE  Follows(session, session')
    <2>1. PICK hold \in BOOLEAN : session' = SetSessionHold(session, hold)
      BY <1>3, Zenon DEF RequestHold, ReleaseHold
    <2> QED
      BY <2>1, SetSessionHoldFollows
  <1> QED
    BY <1>1, <1>2, <1>3, Zenon DEF CallStep

LEMMA GlareRetryFollows ==
    ASSUME session \in Session, GlareRetry
    PROVE  Follows(session, session')
  <1> DEFINE s == IF session.state = "REINVITE_PENDING" THEN Invite(session, TRUE) ELSE session
             t == [s EXCEPT !.glare_timer = "none"]
  <1>1. s \in Session /\ Follows(session, s)
    BY InviteFollows, InviteType, FollowsItself
  <1>2. session' = t
    BY Zenon DEF GlareRetry
  <1>3. SameCourse(s, t)
    <2> HIDE DEF s
    <2> QED
      BY <1>1 DEF Session, SameCourse
  <1> HIDE DEF s, t
  <1> QED
    BY <1>1, <1>2, <1>3 DEF SameCourse, Follows, Excess

LEMMA CallStepAgreed ==
    ASSUME Matched(session), Agreed(session), session' \in Session, CallStep
    PROVE  Agreed(session')
  <1>1. /\ session \in Session /\ session.aborted = "none"
        /\ session.incoming => session.state # "CREATED"
    BY DEF Matched
  <1>2. ASSUME Accept
        PROVE  Agreed(session')
    <2>1. session' = AcceptSession(session)
      BY <1>2 DEF Accept
    <2>2. PICK s \in Session : /\ s.accepted /\ s.state = session.state
                               /\ s.incoming = session.incoming
                               /\ s.early = session.early /\ s.cli = session.cli
                               /\ Follows(s, session')
      BY <1>1, <2>1, AcceptSessionFollows
    <2> QED
      BY <1>1, <2>2, AcceptedAgreed DEF Agreed
  <1>3. CASE ~Accept
    BY <1>1, <1>3, CallStepFollows, FollowsAgreed
  <1> QED
    BY <1>2, <1>3

LEMMA OfferRequestSame ==
    ASSUME NEW q \in Session
    PROVE  LET p == [q EXCEPT !.srv = "offer"]
           IN  p \in Session /\ SameCourse(q, p) /\ p.srv = "offer" /\ p.ack = q.ack
  <1> DEFINE p == [q EXCEPT !.srv = "offer"]
  <1>1. p \in Session
    BY DEF Session
  <1>2. SameCourse(q, p) /\ p.srv = "offer" /\ p.ack = q.ack
    BY DEF Session, SameCourse
  <1> HIDE DEF p
  <1>3. p \in Session /\ SameCourse(q, p) /\ p.srv = "offer" /\ p.ack = q.ack
    BY <1>1, <1>2
  <1> QED
    BY <1>3 DEF p

(* The first INVITE announces an incoming session, unless nothing in it    *)
(* can be taken; up to there the session stays in CREATED.                 *)
LEMMA FirstInviteFollows ==
    ASSUME session = NewSession(TRUE), NEW offer \in Offers(session), ReceiveInvite(offer)
    PROVE  \E t \in Session :
              /\ t.incoming /\ ~t.accepted /\ ~t.early /\ t.cli = 0
              /\ t.overtaken = None /\ ~AckExpected(t)
              /\ Follows(t, session')
              /\ \/ t.state = "INVITE_RECEIVED"
                 \/ /\ t.state = "CREATED"
                    /\ \/ session'.state = "ENDED"
                       \/ session'.aborted # "none" /\ session'.state = "CREATED"
  <1> DEFINE s == [session EXCEPT !.srv = "offer"]
             r == SetRemoteSdp(s, offer, ZeroPort)
             t == ChangeState(r.session, "INVITE_RECEIVED")
             moved == [r.session EXCEPT !.state = "INVITE_RECEIVED"]
  <1>1. /\ session \in Session /\ session.state = "CREATED" /\ session.incoming
        /\ ~session.accepted /\ ~session.early /\ session.cli = 0
        /\ session.overtaken = None /\ session.ack = None
    <2>1. session \in Session
      BY NewSessionType
    <2> QED
      BY <2>1 DEF NewSession
  <1>2. s \in Session /\ SameCourse(session, s) /\ s.srv = "offer" /\ s.ack = None
    BY <1>1, OfferRequestSame
  <1>3. offer \in Seq(SdpMedia) /\ ZeroPort \in SdpMedia
    BY <1>1, OffersType, SessionAssumption DEF SessionAssumption
  <1>4. session' = IF r.ok THEN RequestBothDirections(t) ELSE r.session
    BY Zenon DEF ReceiveInvite
  <1>5. PICK s1 \in Session : /\ s1.state = Answering(s.state)
                              /\ s1.incoming = s.incoming /\ s1.accepted = s.accepted
                              /\ s1.early = s.early /\ s1.cli = s.cli
                              /\ s1.overtaken = s.overtaken
                              /\ s1.srv = s.srv /\ s1.ack = s.ack
                              /\ r.session \in Session
                              /\ Follows(s1, r.session)
                              /\ \/ r.ok
                                 \/ r.session.state = "ENDED"
                                 \/ r.session.aborted # "none" /\ r.session.state = s1.state
    <2> HIDE DEF s
    <2> QED
      BY <1>2, <1>3, SetRemoteSdpFollows
  <1>6. /\ s1.state = "CREATED" /\ s1.incoming /\ ~s1.accepted /\ ~s1.early /\ s1.cli = 0
        /\ s1.overtaken = None /\ ~AckExpected(s1)
    <2> HIDE DEF s
    <2> QED
      BY <1>1, <1>2, <1>5 DEF SameCourse, Answering, AckExpected
  <1>7. CASE r.ok
    <2>1. r.session.state = "CREATED"
      BY <1>7, FirstInviteMatched
    <2>2. /\ r.session \in Session /\ r.session.incoming /\ ~r.session.accepted
          /\ ~r.session.early /\ r.session.cli = 0
          /\ r.session.overtaken = None /\ ~AckExpected(r.session)
      <3> HIDE DEF r
      <3> QED
        BY <1>5, <1>6, <2>1 DEF Follows, Excess, Sent, AckExpected
    <2>3. t = moved
      <3> HIDE DEF r
      <3>1. "INVITE_RECEIVED" # "ENDED" /\ "INVITE_RECEIVED" # "ACTIVE"
        OBVIOUS
      <3>2. r.session.state # "INVITE_RECEIVED"
        BY <2>1
      <3> QED
        BY <3>1, <3>2, Zenon DEF ChangeState
    <2>4. /\ t \in Session /\ t.state = "INVITE_RECEIVED" /\ t.incoming /\ ~t.accepted
          /\ ~t.early /\ t.cli = 0 /\ t.overtaken = None /\ ~AckExpected(t)
      <3>1. ASSUME NEW q \in Session
            PROVE  LET p == [q EXCEPT !.state = "INVITE_RECEIVED"]
                   IN  /\ p \in Session /\ p.state = "INVITE_RECEIVED"
                       /\ p.incoming = q.incoming /\ p.accepted = q.accepted
                       /\ p.early = q.early /\ p.cli = q.cli /\ p.overtaken = q.overtaken
                       /\ p.srv = q.srv /\ p.ack = q.ack
        <4>1. "INVITE_RECEIVED" \in SessionState
          BY DEF SessionState
        <4> QED
          BY ZenonT(60), <4>1 DEF Session
      <3> HIDE DEF r
      <3>2. /\ moved \in Session /\ moved.state = "INVITE_RECEIVED"
            /\ moved.incoming = r.session.incoming /\ moved.accepted = r.session.accepted
            /\ moved.early = r.session.early /\ moved.cli = r.session.cli
            /\ moved.overtaken = r.session.overtaken
            /\ moved.srv = r.session.srv /\ moved.ack = r.session.ack
        BY <2>2, <3>1
      <3> HIDE DEF t, moved
      <3> QED
        BY <2>2, <2>3, <3>2 DEF AckExpected
    <2>5. session' = RequestBothDirections(t)
      <3> HIDE DEF r, t
      <3> QED
        BY <1>4, <1>7
    <2> HIDE DEF t
    <2>6. Follows(t, session')
      BY <2>4, <2>5, RequestBothDirectionsFollows
    <2> QED
      BY <2>4, <2>6
  <1>8. CASE ~r.ok
    <2>1. session' = r.session
      <3> HIDE DEF r, t
      <3> QED
        BY <1>4, <1>8
    <2> HIDE DEF r, s
    <2> QED
      BY <1>5, <1>6, <1>8, <2>1
  <1> QED
    BY <1>7, <1>8

LEMMA FirstInviteAgreed ==
    ASSUME session = NewSession(TRUE), NEW offer \in Offers(session), ReceiveInvite(offer),
           session' \in Session
    PROVE  Agreed(session')
  <1>1. PICK t \in Session : /\ t.incoming /\ ~t.accepted /\ ~t.early
                             /\ Follows(t, session')
                             /\ \/ t.state = "INVITE_RECEIVED"
                                \/ /\ t.state = "CREATED"
                                   /\ \/ session'.state = "ENDED"
                                      \/ session'.aborted # "none" /\ session'.state = "CREATED"
    BY FirstInviteFollows
  <1> QED
    BY <1>1 DEF Follows, Agreed, Established

(* What the stack does to the session before the session's handler runs.   *)
LEMMA FinalResponseFields ==
    ASSUME NEW s \in Session, s.cli > 0
    PROVE  LET t == FinalResponse(s)
           IN  /\ t \in Session /\ t.state = s.state
               /\ t.incoming = s.incoming /\ t.accepted = s.accepted
               /\ t.early = s.early /\ t.cli = s.cli - 1
               /\ t.overtaken = IF s.cli > 1 THEN s.local_sdp ELSE None
               /\ t.srv = s.srv /\ t.ack = s.ack /\ t.local_sdp = s.local_sdp
  <1> DEFINE n == s.cli - 1
             over == IF s.cli > 1 THEN s.local_sdp ELSE None
             t == [s EXCEPT !.cli = n, !.overtaken = over]
  <1>1. FinalResponse(s) = t
    BY Zenon DEF FinalResponse
  <1>2. /\ t.state = s.state
        /\ t.incoming = s.incoming /\ t.accepted = s.accepted
        /\ t.early = s.early /\ t.cli = n /\ t.overtaken = over
        /\ t.srv = s.srv /\ t.ack = s.ack /\ t.local_sdp = s.local_sdp
    <2> HIDE DEF n, over
    <2> QED
      BY DEF Session
  <1>3. FinalResponse(s) \in Session
    BY FinalResponseType
  <1> HIDE DEF t
  <1> QED
    BY <1>1, <1>2, <1>3

LEMMA AckArrivesFields ==
    ASSUME NEW s \in Session
    PROVE  LET t == AckArrives(s)
           IN  /\ t \in Session /\ t.state = s.state
               /\ t.incoming = s.incoming /\ t.accepted = s.accepted
               /\ t.early = s.early /\ t.cli = s.cli
               /\ t.overtaken = IF s.state = "REINVITE_SENT" THEN s.local_sdp ELSE s.overtaken
               /\ t.srv = s.srv /\ t.ack = None /\ t.local_sdp = s.local_sdp
  <1> DEFINE over == IF s.state = "REINVITE_SENT" THEN s.local_sdp ELSE s.overtaken
             t == [s EXCEPT !.ack = None, !.overtaken = over]
  <1>1. AckArrives(s) = t
    BY Zenon DEF AckArrives
  <1>2. /\ t.state = s.state
        /\ t.incoming = s.incoming /\ t.accepted = s.accepted
        /\ t.early = s.early /\ t.cli = s.cli /\ t.overtaken = over
        /\ t.srv = s.srv /\ t.ack = None /\ t.local_sdp = s.local_sdp
    <2> HIDE DEF over
    <2> QED
      BY DEF Session
  <1>3. AckArrives(s) \in Session
    BY AckArrivesType
  <1> HIDE DEF t
  <1> QED
    BY <1>1, <1>2, <1>3

LEMMA InvitedSdpType ==
    ASSUME NEW s \in Session, s.local_sdp # None
    PROVE  InvitedSdp(s) \in Seq(LocalLine)
  BY DEF InvitedSdp, Session

(* An answer of the peer is taken by an accepted session.                  *)
LEMMA ReadyAgreed ==
    ASSUME NEW s \in Session, s.incoming => s.state # "CREATED",
           s.state \in Established => s.accepted,
           s.incoming => s.state # "INVITE_SENT",
           ~s.incoming => s.state # "INVITE_RECEIVED",
           s.state \in {"CREATED", "INVITE_SENT"} => ~s.early,
           NEW answer \in Seq(SdpMedia), NEW junk \in SdpMedia,
           NEW t \in Session, t = Ready(SetRemoteSdp(s, answer, junk))
    PROVE  Agreed(t)
  <1> DEFINE r == SetRemoteSdp(s, answer, junk)
  <1>1. t = IF r.ok THEN AcceptSession(r.session) ELSE r.session
    BY Zenon DEF Ready
  <1>2. PICK s1 \in Session : /\ s1.state = Answering(s.state)
                              /\ s1.incoming = s.incoming /\ s1.accepted = s.accepted
                              /\ s1.early = s.early
                              /\ r.session \in Session
                              /\ Follows(s1, r.session)
                              /\ \/ r.ok
                                 \/ r.session.state = "ENDED"
                                 \/ r.session.aborted # "none" /\ r.session.state = s1.state
    BY SetRemoteSdpFollows
  <1> HIDE DEF r
  <1>3. CASE r.ok
    <2>1. PICK s2 \in Session : /\ s2.accepted /\ s2.state = r.session.state
                                /\ s2.incoming = r.session.incoming
                                /\ s2.early = r.session.early /\ s2.cli = r.session.cli
                                /\ Follows(s2, t)
      BY <1>1, <1>2, <1>3, AcceptSessionFollows
    <2>2. /\ s2.incoming => s2.state \notin {"CREATED", "INVITE_SENT"}
          /\ ~s2.incoming => s2.state # "INVITE_RECEIVED"
          /\ s2.state \in {"CREATED", "INVITE_SENT"} => ~s2.early
          /\ s2.state = "INVITE_SENT" => s2.cli > 0
      BY <1>2, <2>1 DEF Follows, Established, Answering
    <2> QED
      BY <2>1, <2>2, AcceptedAgreed
  <1>4. CASE ~r.ok
    <2>1. t = r.session
      BY <1>1, <1>4
    <2>2. CASE t.state = "ENDED"
      BY <2>2, EndedAgreed
    <2>3. CASE t.aborted # "none" /\ t.state = s1.state /\ t.state # "ENDED"
      <3>1. /\ t.incoming = s.incoming /\ t.accepted = s.accepted /\ t.early = s.early
            /\ t.state = Answering(s.state)
        BY <1>2, <2>1, <2>3 DEF Follows
      <3> QED
        BY <2>3, <3>1 DEF Agreed, Established, Answering
    <2> QED
      BY <1>2, <1>4, <2>1, <2>2, <2>3
  <1> QED
    BY <1>3, <1>4

(* A 183 with an answer leaves the INVITE outstanding.                     *)
LEMMA AnswerAgreed ==
    ASSUME Matched(session), Agreed(session), session' \in Session,
           session.local_sdp # None, NEW answer \in Answers(InvitedSdp(session)),
           NEW junk \in Lines, ReceiveAnswer(answer, junk) \/ ReceiveEarlyAnswer(answer, junk)
    PROVE  Agreed(session')
  <1>1. /\ session \in Session /\ session.aborted = "none" /\ session.cli \in Nat
        /\ session.incoming => session.state # "CREATED"
    BY DEF Matched, Session
  <1>2. answer \in Seq(SdpMedia) /\ junk \in SdpMedia
    <2>1. InvitedSdp(session) \in Seq(LocalLine)
      BY <1>1, InvitedSdpType
    <2>2. Lines \subseteq SdpMedia
      BY SessionAssumption DEF SessionAssumption
    <2> QED
      BY <2>1, <2>2, AnswersType
  <1>3. ASSUME ReceiveAnswer(answer, junk)
        PROVE  Agreed(session')
    <2> DEFINE s == FinalResponse(session)
    <2>1. session.cli > 0 /\ session' = Ready(SetRemoteSdp(s, answer, junk))
      BY <1>3, Zenon DEF ReceiveAnswer
    <2>2. /\ s \in Session /\ s.state = session.state /\ s.incoming = session.incoming
          /\ s.accepted = session.accepted /\ s.early = session.early
      BY <1>1, <2>1, FinalResponseFields
    <2> HIDE DEF s
    <2> QED
      BY <1>1, <1>2, <2>1, <2>2, ReadyAgreed DEF Agreed
  <1>4. ASSUME ReceiveEarlyAnswer(answer, junk)
        PROVE  Agreed(session')
    <2> DEFINE s == [session EXCEPT !.early = TRUE]
               r == SetRemoteSdp(s, answer, junk)
    <2>1. session.state = "INVITE_SENT" /\ session.cli > 0 /\ ~session.incoming
      BY <1>4 DEF ReceiveEarlyAnswer, Agreed
    <2>2. /\ s \in Session /\ s.state = session.state /\ s.incoming = session.incoming
          /\ s.early /\ s.cli = session.cli
      BY ZenonT(60), <1>1 DEF Session
    <2>3. session' = r.session
      BY <1>4, Zenon DEF ReceiveEarlyAnswer
    <2>4. PICK s1 \in Session : /\ s1.state = Answering(s.state)
                                /\ s1.incoming = s.incoming
                                /\ s1.early = s.early /\ s1.cli = s.cli
                                /\ Follows(s1, r.session)
      <3> HIDE DEF s
      <3> QED
        BY <1>2, <2>2, SetRemoteSdpFollows
    <2>5. /\ s1.state = "RESPONSE_RECEIVED" /\ ~s1.incoming
          /\ s1.early /\ s1.cli = session.cli
      <3> HIDE DEF s
      <3> QED
        BY <2>1, <2>2, <2>4 DEF Answering
    <2>6. Follows(s1, session') /\ session'.cli \in Nat
      BY <2>3, <2>4 DEF Session
    <2>7. session'.state \in Established => session'.accepted
      BY <2>5, <2>6 DEF Follows, Established
    <2>8. session'.state = "RESPONSE_RECEIVED" => session'.early /\ session'.cli > 0
      <3>1. s1.cli \in Nat /\ s1.cli > 0
        BY <1>1, <2>1, <2>5
      <3>2. session'.state = "RESPONSE_RECEIVED"
               => session'.early = s1.early /\ session'.cli = s1.cli
        BY <2>5, <2>6 DEF Follows, Excess, Sent
      <3>3. session'.state = "RESPONSE_RECEIVED" => session'.early
        BY <2>5, <3>2, Zenon
      <3>4. session'.state = "RESPONSE_RECEIVED" => session'.cli > 0
        BY <2>6, <3>1, <3>2
      <3> QED
        BY <3>3, <3>4
    <2>9. session'.state \notin {"CREATED", "INVITE_SENT", "INVITE_RECEIVED"}
      BY <2>5, <2>6 DEF Follows, Established
    <2> QED
      BY <2>7, <2>8, <2>9 DEF Agreed
  <1> QED
    BY <1>3, <1>4

(* So does an ACK with one, whatever the state.                            *)
LEMMA AckAgreed ==
    ASSUME Matched(session), Agreed(session), session' \in Session,
           session.ack # None, NEW answer \in Answers(session.ack),
           NEW junk \in Lines, ReceiveAck(answer, junk)
    PROVE  Agreed(session')
  <1> DEFINE s == AckArrives(session)
  <1>1. /\ session \in Session
        /\ session.incoming => session.state # "CREATED"
        /\ session.ack \in Seq(LocalLine)
    BY DEF Matched, Session
  <1>2. answer \in Seq(SdpMedia) /\ junk \in SdpMedia
    <2>1. Lines \subseteq SdpMedia
      BY SessionAssumption DEF SessionAssumption
    <2> QED
      BY <1>1, <2>1, AnswersType
  <1>3. session' = Ready(SetRemoteSdp(s, answer, junk))
    BY Zenon DEF ReceiveAck
  <1>4. /\ s \in Session /\ s.state = session.state /\ s.incoming = session.incoming
        /\ s.accepted = session.accepted /\ s.early = session.early
    BY <1>1, AckArrivesFields
  <1> HIDE DEF s
  <1> QED
    BY <1>1, <1>2, <1>3, <1>4, ReadyAgreed DEF Agreed

(* The peer may change a call only after its INVITE has been answered.     *)
LEMMA AcceptedBefore ==
    ASSUME session \in Session, session.aborted = "none", Agreed(session), CanReceiveReinvite
    PROVE  session.accepted
  <1>1. /\ session.cli = 0
        /\ session.state \in {"ACTIVE", "RESPONSE_RECEIVED", "REINVITE_PENDING"}
    BY Zenon DEF CanReceiveReinvite
  <1>2. ~(session.cli > 0)
    BY <1>1
  <1>3. CASE session.state = "RESPONSE_RECEIVED"
    BY <1>2, <1>3, Zenon DEF Agreed
  <1>4. CASE session.state # "RESPONSE_RECEIVED"
    BY <1>1, <1>4 DEF Agreed, Established
  <1> QED
    BY <1>3, <1>4

(* The session gives way to the peer's re-INVITE.                          *)
LEMMA GlareFields ==
    ASSUME NEW s \in Session, s.state = "REINVITE_SENT"
    PROVE  LET t == ChangeState([s EXCEPT !.glare_timer = "armed"], "REINVITE_PENDING")
           IN  /\ t.state = "REINVITE_PENDING"
               /\ t.incoming = s.incoming /\ t.accepted = s.accepted
               /\ t.early = s.early /\ t.cli = s.cli /\ t.overtaken = s.overtaken
               /\ t.srv = s.srv /\ t.ack = s.ack /\ t.local_sdp = s.local_sdp
  <1> DEFINE s1 == [s EXCEPT !.glare_timer = "armed"]
             t == [s1 EXCEPT !.state = "REINVITE_PENDING"]
  <1>1. /\ s1.state = "REINVITE_SENT" /\ t.state = "REINVITE_PENDING"
        /\ t.incoming = s.incoming /\ t.accepted = s.accepted
        /\ t.early = s.early /\ t.cli = s.cli /\ t.overtaken = s.overtaken
        /\ t.srv = s.srv /\ t.ack = s.ack /\ t.local_sdp = s.local_sdp
    BY DEF Session
  <1>2. ChangeState(s1, "REINVITE_PENDING") = t
    <2>1. "REINVITE_PENDING" # "ENDED" /\ "REINVITE_PENDING" # "ACTIVE"
      OBVIOUS
    <2>2. s1.state # "REINVITE_PENDING"
      BY <1>1
    <2> HIDE DEF s1
    <2> QED
      BY <2>1, <2>2, Zenon DEF ChangeState
  <1> HIDE DEF t
  <1> QED
    BY <1>1, <1>2

LEMMA PeerStepAgreed ==
    ASSUME Matched(session), Agreed(session), session' \in Session, PeerStep
    PROVE  Agreed(session')
  <1>1. /\ session \in Session /\ session.aborted = "none" /\ session.cli \in Nat
        /\ session.incoming => session.state # "CREATED"
    BY DEF Matched, Session
  <1>2. ASSUME NEW offer \in Offers(session), ReceiveInvite(offer)
        PROVE  FALSE
    BY <1>2 DEF ReceiveInvite, Matched
  <1>3. ASSUME session.cli > 0
        PROVE  LET s == FinalResponse(session)
               IN  /\ s \in Session /\ s.state = session.state /\ s.accepted = session.accepted
                   /\ s.incoming = session.incoming /\ s.early = session.early
    BY <1>1, <1>3, FinalResponseFields
  <1>4. ASSUME ReceiveFinalAfterEarly
        PROVE  Agreed(session')
    <2> DEFINE n == session.cli - 1
               s == [session EXCEPT !.early = FALSE, !.cli = n]
    <2>1. n \in Nat /\ session.early
      BY <1>1, <1>4 DEF ReceiveFinalAfterEarly
    <2>2. /\ s \in Session /\ s.state = session.state
          /\ s.incoming = session.incoming /\ ~s.early
      <3> HIDE DEF n
      <3>1. ASSUME NEW q \in Session
            PROVE  LET p == [q EXCEPT !.early = FALSE, !.cli = n]
                   IN  /\ p \in Session /\ p.state = q.state
                       /\ p.incoming = q.incoming /\ p.early = FALSE
        BY ZenonT(60), <2>1 DEF Session
      <3> QED
        BY <1>1, <3>1
    <2>3. session' = AcceptSession(s)
      BY <1>4, Zenon DEF ReceiveFinalAfterEarly
    <2> HIDE DEF s
    <2>4. PICK t \in Session : /\ t.accepted /\ t.state = s.state /\ t.incoming = s.incoming
                               /\ t.early = s.early /\ Follows(t, session')
      BY <2>2, <2>3, AcceptSessionFollows
    <2>5. t.state \notin {"CREATED", "INVITE_SENT"}
      BY <2>1, <2>2, <2>4 DEF Agreed
    <2> QED
      BY <2>2, <2>4, <2>5, AcceptedAgreed DEF Agreed
  <1>5. ASSUME ReceiveTerminated
        PROVE  Agreed(session')
    BY <1>1, <1>5, EndFollows, EndedAgreed DEF ReceiveTerminated
  <1>6. ASSUME ResolveGlare
        PROVE  Agreed(session')
    <2> DEFINE s == FinalResponse(session)
    <2>1. session.cli > 0 /\ session.state # "INVITE_SENT" /\ ~session.early
      BY <1>6 DEF ResolveGlare
    <2>2. /\ s \in Session /\ s.state = session.state /\ s.accepted = session.accepted
          /\ s.incoming = session.incoming /\ s.early = session.early
      BY <1>3, <2>1
    <2> HIDE DEF s
    <2>3. CASE session.state = "REINVITE_SENT"
      <3>1. session' = ChangeState([s EXCEPT !.glare_timer = "armed"], "REINVITE_PENDING")
        BY <1>6, <2>2, <2>3 DEF ResolveGlare, s
      <3>2. session'.state = "REINVITE_PENDING" /\ session'.accepted
        BY <2>2, <2>3, <3>1, GlareFields DEF Agreed, Established
      <3> QED
        BY <3>2 DEF Agreed
    <2>4. CASE session.state # "REINVITE_SENT"
      <3>1. session' = s
        BY <1>6, <2>2, <2>4 DEF ResolveGlare, s
      <3> QED
        BY <1>1, <2>1, <2>2, <3>1 DEF Agreed
    <2> QED
      BY <2>3, <2>4
  <1>7. ASSUME ReinviteRefused
        PROVE  Agreed(session')
    BY <1>3, <1>7, TerminateFollows, EndedAgreed DEF ReinviteRefused
  <1>8. ASSUME CanReceiveReinvite, NEW request \in {"offer", "delayed"}
        PROVE  LET t == ReceiveReinvite(session, request)
               IN  t \in Session /\ t.state = "REINVITE_RECEIVED" /\ t.accepted
    <2> DEFINE timer == IF session.state = "REINVITE_PENDING" /\ session.glare_timer = "armed"
                        THEN "removed" ELSE session.glare_timer
               t == [session EXCEPT !.srv = request, !.saved_event = TRUE,
                                    !.state = "REINVITE_RECEIVED", !.glare_timer = timer]
    <2>1. ReceiveReinvite(session, request) = t
      BY Zenon DEF ReceiveReinvite
    <2>2. session.accepted
      BY <1>1, <1>8, AcceptedBefore
    <2>3. t.state = "REINVITE_RECEIVED" /\ t.accepted
      <3> HIDE DEF timer
      <3> QED
        BY <1>1, <2>2 DEF Session
    <2>4. ReceiveReinvite(session, request) \in Session
      BY <1>1, ReceiveReinviteType
    <2> HIDE DEF t
    <2> QED
      BY <2>1, <2>3, <2>4
  <1>9. ASSUME NEW offer \in Offers(session), NEW junk \in Lines, Reinvite(offer, junk)
        PROVE  Agreed(session')
    <2> DEFINE s == ReceiveReinvite(session, "offer")
    <2>1. session' = SetRemoteSdp(s, offer, junk).session
      BY <1>9, Zenon DEF Reinvite
    <2>2. s \in Session /\ s.state = "REINVITE_RECEIVED" /\ s.accepted
      BY <1>8, <1>9 DEF Reinvite
    <2>3. offer \in Seq(SdpMedia) /\ junk \in SdpMedia
      BY <1>1, OffersType, SessionAssumption DEF SessionAssumption
    <2> HIDE DEF s
    <2>4. PICK t \in Session : /\ t.state = Answering(s.state) /\ t.accepted = s.accepted
                               /\ Follows(t, session')
      BY <2>1, <2>2, <2>3, SetRemoteSdpFollows
    <2>5. t.accepted /\ t.state = "REINVITE_RECEIVED"
      BY <2>2, <2>4 DEF Answering
    <2> QED
      BY <2>4, <2>5, AcceptedAgreed
  <1>10. ASSUME ReinviteWithoutOffer
         PROVE  Agreed(session')
    BY <1>8, <1>10 DEF ReinviteWithoutOffer, Agreed
  <1> QED
    BY <1>2, <1>4, <1>5, <1>6, <1>7, <1>9, <1>10, AnswerAgreed, AckAgreed, Zenon
       DEF PeerStep

(* The medias, the client, the peer and the timer keep the agreement.      *)
LEMMA AcceptInvInductive ==
    AcceptInv /\ RequestsInv' /\ [Next]_vars => AcceptInv'
  <1> SUFFICES ASSUME AcceptInv, RequestsInv', [Next]_vars
               PROVE  Agreed(session')
    BY DEF AcceptInv, Agreed, Established
  <1>1. Agreed(session) /\ RequestsInv /\ session' \in Session
    BY DEF AcceptInv, RequestsInv, TypeOK
  <1>2. CASE UNCHANGED session
    BY <1>1, <1>2
  <1>3. CASE Next /\ session.aborted # "none"
    BY <1>2, <1>3, AbortedStays DEF vars
  <1>4. CASE Next /\ session = NewSession(TRUE)
    <2>1. CASE \E offer \in Offers(session) : ReceiveInvite(offer)
      BY <1>1, <1>4, <2>1, FirstInviteAgreed
    <2>2. CASE ~\E offer \in Offers(session) : ReceiveInvite(offer)
      BY <1>1, <1>4, <2>2, FreshStepIsInvite
    <2> QED
      BY <2>1, <2>2
  <1>5. CASE Next /\ Matched(session)
    <2>1. CASE \E i \in Present(session) : ClientStep(i)
      <3>1. session \in Session /\ Follows(session, session')
        BY <1>5, <2>1, ClientStepFollows DEF Matched
      <3> QED
        BY <1>1, <1>5, <3>1, FollowsAgreed DEF Matched
    <2>2. CASE CallStep \/ PeerStep \/ GlareRetry
      <3>1. CASE CallStep \/ PeerStep
        BY <1>1, <1>5, <3>1, CallStepAgreed, PeerStepAgreed
      <3>2. CASE GlareRetry
        BY <1>1, <1>5, <3>2, GlareRetryFollows, FollowsAgreed DEF Matched
      <3> QED
        BY <2>2, <3>1, <3>2
    <2>3. CASE Finished
      BY <1>2, <2>3 DEF Finished, vars
    <2> QED
      BY <1>5, <2>1, <2>2, <2>3 DEF Next
  <1> QED
    BY <1>1, <1>2, <1>3, <1>4, <1>5 DEF RequestsInv, vars

LEMMA SessionCourse == Spec => []AcceptInv
  <1>1. Init => AcceptInv
    <2> SUFFICES ASSUME Init
                 PROVE  AcceptInv
      OBVIOUS
    <2>1. RequestsInv
      BY InitRequests
    <2>2. PICK incoming \in BOOLEAN : session = NewSession(incoming)
      BY SessionAssumption DEF Init, SessionAssumption
    <2>3. Agreed(session)
      BY <2>2 DEF Agreed, NewSession, Established
    <2> QED
      BY <2>1, <2>3 DEF AcceptInv
  <1>2. AcceptInv /\ TypeOK' /\ [Next]_vars => AcceptInv'
    <2>1. AcceptInv => RequestsInv
      BY DEF AcceptInv
    <2> QED
      BY <2>1, RequestsInvInductive, AcceptInvInductive
  <1> QED
    BY <1>1, <1>2, SessionTypeCorrect, PTL DEF Spec

-----------------------------------------------------------------------------
(* Offers do not overlap.                                                  *)

(* An INVITE of ours is open that the session does not wait for any more.  *)
LeftOpen(s) == s.state # "ENDED" /\ (s.early \/ s.overtaken # None)

(* There is one such INVITE at most, left open by a 183 or by an ACK, and  *)
(* none of the peer's in the meantime.                                     *)
Counted(s) ==
    /\ Excess(s) = IF LeftOpen(s) THEN 1 ELSE 0
    /\ LeftOpen(s) => s.state \notin {"CREATED", "INVITE_SENT", "INVITE_RECEIVED",
                                      "REINVITE_RECEIVED"}
    /\ s.state # "ENDED" =>
          /\ s.state \in Sent => s.local_sdp # None
          /\ s.early => "early" \in PeerMay
          /\ s.overtaken # None => "delay" \in PeerMay /\ ~s.early
          /\ AckExpected(s) =>
                /\ "delay" \in PeerMay /\ ~LeftOpen(s)
                /\ s.state \notin {"CREATED", "INVITE_SENT", "INVITE_RECEIVED"}

OffersInv ==
    /\ RequestsInv
    /\ session.aborted = "none" => Counted(session)

LEMMA FollowsCounted ==
    ASSUME NEW s \in Session, NEW t \in Session, Counted(s), Follows(s, t)
    PROVE  Counted(t)
  <1>1. s.cli \in Nat /\ t.cli \in Nat
    BY DEF Session
  <1>2. CASE t.state = "ENDED"
    <2>1. t.cli = 0
      BY <1>1, <1>2 DEF Follows, Counted, LeftOpen, Excess, Sent
    <2> QED
      BY <1>2, <2>1 DEF Counted, LeftOpen, Excess, Sent
  <1>3. CASE t.state # "ENDED"
    <2>1. s.state # "ENDED"
      BY <1>3 DEF Follows
    <2>2. /\ t.early = s.early /\ t.overtaken = s.overtaken /\ Excess(t) = Excess(s)
          /\ t.state \in Sent => t.local_sdp # None
      BY <1>3, <2>1 DEF Follows, Counted
    <2>3. LeftOpen(t) <=> LeftOpen(s)
      BY <1>3, <2>1, <2>2 DEF LeftOpen
    <2>4. AckExpected(t) => AckExpected(s)
      BY <1>3 DEF Follows, AckExpected
    <2>5. /\ s.state \notin {"CREATED", "INVITE_SENT", "INVITE_RECEIVED"}
                => t.state \notin {"CREATED", "INVITE_SENT", "INVITE_RECEIVED"}
          /\ s.state # "REINVITE_RECEIVED" => t.state # "REINVITE_RECEIVED"
      BY <1>3 DEF Follows, Established
    <2> QED
      BY <1>3, <2>1, <2>2, <2>3, <2>4, <2>5 DEF Counted
  <1> QED
    BY <1>2, <1>3

(* What Counted reads of a session.                                        *)
SameCount(s, t) ==
    /\ t.state = s.state
    /\ t.early = s.early
    /\ t.cli = s.cli
    /\ t.overtaken = s.overtaken
    /\ t.srv = s.srv
    /\ t.ack = s.ack
    /\ t.local_sdp = s.local_sdp

LEMMA SameCountCounted ==
    ASSUME NEW s, NEW t, Counted(s), SameCount(s, t)
    PROVE  Counted(t)
  BY DEF Counted, LeftOpen, AckExpected, Excess, SameCount

(* The number of our INVITEs after a handler of the acceptance.            *)
LEMMA AcceptSessionCounted ==
    ASSUME NEW s \in Session, Counted(s)
    PROVE  Counted(AcceptSession(s))
  <1>1. PICK t \in Session : SameCount(s, t) /\ Follows(t, AcceptSession(s))
    BY AcceptSessionFollows DEF SameCount
  <1>2. Counted(t)
    BY <1>1, SameCountCounted
  <1>3. AcceptSession(s) \in Session
    BY AcceptSessionType
  <1> QED
    BY <1>1, <1>2, <1>3, FollowsCounted

(* A fresh session sends nothing before its state is INVITE_RECEIVED.      *)
LEMMA FirstInviteCounted ==
    ASSUME session = NewSession(TRUE), NEW offer \in Offers(session), ReceiveInvite(offer),
           session' \in Session
    PROVE  Counted(session')
  <1>1. PICK t \in Session : /\ ~t.early /\ t.cli = 0
                             /\ t.overtaken = None /\ ~AckExpected(t)
                             /\ t.state \in {"CREATED", "INVITE_RECEIVED"}
                             /\ Follows(t, session')
    BY FirstInviteFollows
  <1>2. Counted(t)
    BY <1>1 DEF Counted, LeftOpen, Excess, Sent
  <1> QED
    BY <1>1, <1>2, FollowsCounted

(* The stack's part of a response or of an ACK.                            *)
LEMMA FinalCounted ==
    ASSUME NEW s \in Session, NEW t \in Session, Counted(s),
           s.cli > 0, ~s.early, s.state # "ENDED",
           IF s.state \in Sent THEN t.state \in {"RESPONSE_RECEIVED", "REINVITE_PENDING"}
           ELSE t.state = s.state,
           ~t.early, t.cli = s.cli - 1,
           t.overtaken = IF s.cli > 1 THEN s.local_sdp ELSE None,
           t.srv = s.srv, t.ack = s.ack, t.local_sdp = s.local_sdp
    PROVE  Counted(t)
  <1>1. s.cli \in Nat
    BY DEF Session
  <1>2. LeftOpen(s) <=> s.overtaken # None
    BY DEF LeftOpen
  <1>3. CASE s.state \in Sent /\ LeftOpen(s)
    <2>1. s.cli = 2 /\ s.local_sdp # None /\ "delay" \in PeerMay /\ ~AckExpected(s)
      BY <1>1, <1>2, <1>3 DEF Counted, Excess
    <2>2. t.cli = 1 /\ t.overtaken # None /\ ~AckExpected(t) /\ LeftOpen(t)
      BY <1>3, <2>1 DEF AckExpected, LeftOpen
    <2> QED
      BY <1>3, <2>1, <2>2 DEF Counted, Excess, Sent
  <1>4. CASE s.state \in Sent /\ ~LeftOpen(s)
    <2>1. s.cli = 1
      BY <1>1, <1>4 DEF Counted, Excess
    <2>2. t.cli = 0 /\ t.overtaken = None /\ ~LeftOpen(t)
      BY <2>1 DEF LeftOpen
    <2>3. AckExpected(t) => "delay" \in PeerMay
      BY DEF AckExpected, Counted
    <2> QED
      BY <1>4, <2>2, <2>3 DEF Counted, Excess, Sent
  <1>5. CASE s.state \notin Sent
    <2>1. s.cli = 1 /\ LeftOpen(s) /\ ~AckExpected(s)
      BY <1>1, <1>5 DEF Counted, Excess
    <2>2. t.cli = 0 /\ t.overtaken = None /\ ~LeftOpen(t) /\ ~AckExpected(t)
      BY <2>1 DEF LeftOpen, AckExpected
    <2> QED
      BY <1>5, <2>2 DEF Counted, Excess
  <1> QED
    BY <1>3, <1>4, <1>5

LEMMA AckCounted ==
    ASSUME NEW s \in Session, NEW t \in Session, Counted(s), Matched(s),
           s.ack # None, s.state # "ENDED",
           t.state = Answering(s.state), t.early = s.early, t.cli = s.cli,
           t.overtaken = IF s.state = "REINVITE_SENT" THEN s.local_sdp ELSE s.overtaken,
           t.srv = s.srv, t.ack = None, t.local_sdp = s.local_sdp
    PROVE  Counted(t)
  <1>1. s.cli \in Nat
    BY DEF Session
  <1>2. /\ "delay" \in PeerMay /\ ~s.early /\ s.overtaken = None /\ ~LeftOpen(s)
        /\ s.state \notin {"CREATED", "INVITE_SENT", "INVITE_RECEIVED"}
    BY DEF Counted, AckExpected, LeftOpen
  <1>3. CASE s.state = "REINVITE_SENT"
    <2>1. s.cli = 1 /\ s.local_sdp # None /\ s.srv = "none"
      BY <1>1, <1>2, <1>3 DEF Counted, Excess, Sent, Matched
    <2>2. t.state = "RESPONSE_RECEIVED" /\ t.overtaken # None /\ ~AckExpected(t) /\ LeftOpen(t)
      BY <1>3, <2>1 DEF Answering, AckExpected, LeftOpen
    <2> QED
      BY <1>2, <2>1, <2>2 DEF Counted, Excess, Sent
  <1>4. CASE s.state # "REINVITE_SENT"
    <2>1. s.cli = 0 /\ s.state \notin Sent
      BY <1>1, <1>2, <1>4 DEF Counted, Excess, Sent
    <2>2. t.state = s.state /\ t.overtaken = None /\ ~LeftOpen(t)
      BY <1>2, <1>4, <2>1 DEF Answering, LeftOpen, Sent
    <2> QED
      BY <1>2, <2>1, <2>2 DEF Counted, Excess
  <1> QED
    BY <1>3, <1>4

(* The session's part of it.                                               *)
LEMMA ReadyCounted ==
    ASSUME NEW s \in Session, NEW answer \in Seq(SdpMedia), NEW junk \in SdpMedia,
           \A t \in Session :
              /\ t.state = Answering(s.state) /\ t.early = s.early /\ t.cli = s.cli
              /\ t.overtaken = s.overtaken /\ t.srv = s.srv /\ t.ack = s.ack
              /\ t.local_sdp = s.local_sdp
              => Counted(t)
    PROVE  Counted(Ready(SetRemoteSdp(s, answer, junk)))
  <1> DEFINE r == SetRemoteSdp(s, answer, junk)
  <1>1. Ready(r) = IF r.ok THEN AcceptSession(r.session) ELSE r.session
    BY Zenon DEF Ready
  <1>2. PICK t \in Session : /\ t.state = Answering(s.state)
                             /\ t.early = s.early /\ t.cli = s.cli
                             /\ t.overtaken = s.overtaken /\ t.srv = s.srv /\ t.ack = s.ack
                             /\ t.local_sdp = s.local_sdp
                             /\ r.session \in Session
                             /\ Follows(t, r.session)
    BY SetRemoteSdpFollows
  <1> HIDE DEF r
  <1>3. Counted(r.session)
    BY <1>2, FollowsCounted
  <1>4. Counted(Ready(r))
    BY <1>1, <1>2, <1>3, AcceptSessionCounted
  <1> QED
    BY <1>4 DEF r

LEMMA FinalAfterEarlyType ==
    ASSUME NEW s \in Session, NEW n \in Nat
    PROVE  [s EXCEPT !.early = FALSE, !.cli = n] \in Session
  BY DEF Session

(* The peer's steps.                                                       *)
LEMMA PeerStepCounted ==
    ASSUME Matched(session), Counted(session), session' \in Session,
           PeerStep
    PROVE  Counted(session')
  <1>1. /\ session \in Session /\ session.cli \in Nat
        /\ Lines \subseteq SdpMedia
    BY SessionAssumption DEF Matched, Session, SessionAssumption
  <1>2. ASSUME NEW offer \in Offers(session), ReceiveInvite(offer)
        PROVE  FALSE
    BY <1>2 DEF ReceiveInvite, Matched
  <1>3. ASSUME session.local_sdp # None, NEW answer \in Answers(InvitedSdp(session)),
               NEW junk \in Lines
        PROVE  answer \in Seq(SdpMedia) /\ junk \in SdpMedia
    BY <1>1, <1>3, InvitedSdpType, AnswersType
  <1>4. ASSUME session.local_sdp # None, NEW answer \in Answers(InvitedSdp(session)),
               NEW junk \in Lines, ReceiveAnswer(answer, junk)
        PROVE  Counted(session')
    <2> DEFINE s == FinalResponse(session)
    <2>1. answer \in Seq(SdpMedia) /\ junk \in SdpMedia
      BY <1>3, <1>4
    <2>2. /\ session.cli > 0 /\ ~session.early /\ session.state # "ENDED"
          /\ session' = Ready(SetRemoteSdp(s, answer, junk))
      BY <1>4, Zenon DEF ReceiveAnswer, Live
    <2>3. /\ s \in Session /\ s.state = session.state /\ s.early = session.early
          /\ s.cli = session.cli - 1
          /\ s.overtaken = IF session.cli > 1 THEN session.local_sdp ELSE None
          /\ s.srv = session.srv /\ s.ack = session.ack /\ s.local_sdp = session.local_sdp
      BY <1>1, <2>2, FinalResponseFields
    <2> HIDE DEF s
    <2>4. ASSUME NEW t \in Session,
                 t.state = Answering(s.state), t.early = s.early, t.cli = s.cli,
                 t.overtaken = s.overtaken, t.srv = s.srv, t.ack = s.ack,
                 t.local_sdp = s.local_sdp
          PROVE  Counted(t)
      <3>1. IF session.state \in Sent THEN t.state \in {"RESPONSE_RECEIVED", "REINVITE_PENDING"}
            ELSE t.state = session.state
        BY <2>3, <2>4 DEF Answering, Sent
      <3> QED
        BY <1>1, <2>2, <2>3, <2>4, <3>1, FinalCounted
    <2> QED
      BY <2>1, <2>2, <2>3, <2>4, ReadyCounted
  <1>5. ASSUME session.local_sdp # None, NEW answer \in Answers(InvitedSdp(session)),
               NEW junk \in Lines, ReceiveEarlyAnswer(answer, junk)
        PROVE  Counted(session')
    <2> DEFINE s == [session EXCEPT !.early = TRUE]
    <2>1. answer \in Seq(SdpMedia) /\ junk \in SdpMedia
      BY <1>3, <1>5
    <2>2. /\ session.state = "INVITE_SENT" /\ "early" \in PeerMay
          /\ session' = SetRemoteSdp(s, answer, junk).session
      BY <1>5, Zenon DEF ReceiveEarlyAnswer
    <2>3. /\ s \in Session /\ s.state = "INVITE_SENT" /\ s.early /\ s.cli = session.cli
          /\ s.overtaken = session.overtaken /\ s.srv = session.srv /\ s.ack = session.ack
      BY ZenonT(60), <1>1, <2>2 DEF Session
    <2>4. session.cli = 1 /\ session.overtaken = None /\ ~AckExpected(session)
      BY <1>1, <2>2 DEF Counted, LeftOpen, Excess, Sent
    <2> HIDE DEF s
    <2>5. PICK t \in Session : /\ t.state = Answering(s.state)
                               /\ t.early = s.early /\ t.cli = s.cli
                               /\ t.overtaken = s.overtaken
                               /\ t.srv = s.srv /\ t.ack = s.ack
                               /\ Follows(t, session')
      BY <2>1, <2>2, <2>3, SetRemoteSdpFollows
    <2>6. /\ t.state = "RESPONSE_RECEIVED" /\ t.early /\ t.cli = 1
          /\ t.overtaken = None /\ ~AckExpected(t)
      BY <2>3, <2>4, <2>5 DEF Answering, AckExpected
    <2>7. Counted(t)
      BY <2>2, <2>6 DEF Counted, LeftOpen, Excess, Sent
    <2> QED
      BY <2>5, <2>7, FollowsCounted
  <1>6. ASSUME ReceiveFinalAfterEarly
        PROVE  Counted(session')
    <2> DEFINE n == session.cli - 1
               s == [session EXCEPT !.early = FALSE, !.cli = n]
    <2>1. /\ session.early /\ session.cli > 0 /\ session.state # "ENDED"
          /\ session' = AcceptSession(s)
      BY <1>6, Zenon DEF ReceiveFinalAfterEarly, Live
    <2>2. LeftOpen(session) /\ session.overtaken = None /\ ~AckExpected(session)
      BY <2>1 DEF Counted, LeftOpen
    <2>3. n \in Nat /\ n = IF session.state \in Sent THEN 1 ELSE 0
      BY <1>1, <2>1, <2>2 DEF Counted, Excess
    <2> HIDE DEF n
    <2>4. /\ s.state = session.state /\ s.cli = n /\ ~s.early
          /\ s.overtaken = session.overtaken /\ s.srv = session.srv /\ s.ack = session.ack
          /\ s.local_sdp = session.local_sdp
      BY <1>1 DEF Session
    <2>5. s \in Session
      BY <1>1, <2>3, FinalAfterEarlyType
    <2> HIDE DEF s
    <2>6. ~LeftOpen(s) /\ ~AckExpected(s)
      BY <2>2, <2>4 DEF LeftOpen, AckExpected
    <2>7. Counted(s)
      BY <2>1, <2>2, <2>3, <2>4, <2>6 DEF Counted, Excess
    <2> QED
      BY <2>1, <2>5, <2>7, AcceptSessionCounted
  <1>7. ASSUME ReceiveTerminated
        PROVE  Counted(session')
    <2>1. Follows(session, session')
      BY <1>1, <1>7, EndFollows DEF ReceiveTerminated
    <2> QED
      BY <1>1, <2>1, FollowsCounted
  <1>8. ASSUME ResolveGlare
        PROVE  Counted(session')
    <2> DEFINE s == FinalResponse(session)
    <2>1. /\ session.cli > 0 /\ ~session.early /\ session.state \notin {"ENDED", "INVITE_SENT"}
          /\ session' = IF s.state = "REINVITE_SENT"
                        THEN ChangeState([s EXCEPT !.glare_timer = "armed"], "REINVITE_PENDING")
                        ELSE s
      BY <1>8, Zenon DEF ResolveGlare, Live
    <2>2. /\ s \in Session /\ s.state = session.state /\ s.early = session.early
          /\ s.cli = session.cli - 1
          /\ s.overtaken = IF session.cli > 1 THEN session.local_sdp ELSE None
          /\ s.srv = session.srv /\ s.ack = session.ack /\ s.local_sdp = session.local_sdp
      BY <1>1, <2>1, FinalResponseFields
    <2> HIDE DEF s
    <2>3. /\ session'.early = s.early /\ session'.cli = s.cli
          /\ session'.overtaken = s.overtaken /\ session'.srv = s.srv /\ session'.ack = s.ack
          /\ session'.local_sdp = s.local_sdp
          /\ session'.state = IF s.state = "REINVITE_SENT" THEN "REINVITE_PENDING" ELSE s.state
      BY <2>1, <2>2, GlareFields
    <2>4. IF session.state \in Sent THEN session'.state \in {"RESPONSE_RECEIVED", "REINVITE_PENDING"}
          ELSE session'.state = session.state
      BY <2>1, <2>2, <2>3 DEF Sent
    <2> QED
      BY <1>1, <2>1, <2>2, <2>3, <2>4, FinalCounted
  <1>9. ASSUME ReinviteRefused
        PROVE  Counted(session')
    <2> DEFINE s == FinalResponse(session)
    <2>1. session.cli > 0 /\ session' = Terminate(s) /\ session.state # "ENDED"
      BY <1>9, Zenon DEF ReinviteRefused, Live
    <2>2. s \in Session /\ s.state = session.state
      BY <1>1, <2>1, FinalResponseFields
    <2> HIDE DEF s
    <2>3. Follows(s, session') /\ session'.state = "ENDED"
      BY <2>1, <2>2, TerminateFollows
    <2> QED
      BY <2>1, <2>2, <2>3 DEF Follows, Counted, LeftOpen, Excess, Sent
  <1>10. ASSUME CanReceiveReinvite, NEW request \in {"offer", "delayed"},
                request = "delayed" => "delay" \in PeerMay
         PROVE  LET t == ReceiveReinvite(session, request)
                IN  t \in Session /\ t.state = "REINVITE_RECEIVED" /\ Counted(t)
    <2> DEFINE timer == IF session.state = "REINVITE_PENDING" /\ session.glare_timer = "armed"
                        THEN "removed" ELSE session.glare_timer
               t == [session EXCEPT !.srv = request, !.saved_event = TRUE,
                                    !.state = "REINVITE_RECEIVED", !.glare_timer = timer]
    <2>1. ReceiveReinvite(session, request) = t
      BY Zenon DEF ReceiveReinvite
    <2>2. /\ session.cli = 0 /\ ~session.early /\ session.overtaken = None
          /\ session.ack = None
      BY <1>1, <1>10 DEF CanReceiveReinvite, Live, Counted, LeftOpen, Excess, Sent
    <2>3. /\ t.state = "REINVITE_RECEIVED" /\ t.cli = session.cli /\ t.early = session.early
          /\ t.overtaken = session.overtaken /\ t.ack = session.ack /\ t.srv = request
      <3> HIDE DEF timer
      <3> QED
        BY <1>1 DEF Session
    <2>4. ReceiveReinvite(session, request) \in Session
      BY <1>1, ReceiveReinviteType
    <2> HIDE DEF t
    <2>5. Counted(t)
      BY <1>10, <2>2, <2>3 DEF Counted, LeftOpen, AckExpected, Excess, Sent
    <2> QED
      BY <2>1, <2>3, <2>4, <2>5
  <1>11. ASSUME NEW offer \in Offers(session), NEW junk \in Lines, Reinvite(offer, junk)
         PROVE  Counted(session')
    <2> DEFINE s == ReceiveReinvite(session, "offer")
    <2>1. session' = SetRemoteSdp(s, offer, junk).session
      BY <1>11, Zenon DEF Reinvite
    <2>2. s \in Session /\ s.state = "REINVITE_RECEIVED" /\ Counted(s)
      BY <1>10, <1>11 DEF Reinvite
    <2>3. offer \in Seq(SdpMedia) /\ junk \in SdpMedia
      BY <1>1, OffersType
    <2> HIDE DEF s
    <2>4. PICK t \in Session : /\ t.state = Answering(s.state)
                               /\ t.early = s.early /\ t.cli = s.cli
                               /\ t.overtaken = s.overtaken /\ t.srv = s.srv /\ t.ack = s.ack
                               /\ t.local_sdp = s.local_sdp
                               /\ Follows(t, session')
      BY <2>1, <2>2, <2>3, SetRemoteSdpFollows
    <2>5. Counted(t)
      BY <2>2, <2>4, SameCountCounted DEF Answering, SameCount
    <2> QED
      BY <2>4, <2>5, FollowsCounted
  <1>12. ASSUME ReinviteWithoutOffer
         PROVE  Counted(session')
    BY <1>10, <1>12 DEF ReinviteWithoutOffer
  <1>13. ASSUME session.ack # None, NEW answer \in Answers(session.ack), NEW junk \in Lines,
                ReceiveAck(answer, junk)
         PROVE  Counted(session')
    <2> DEFINE s == AckArrives(session)
    <2>1. answer \in Seq(SdpMedia) /\ junk \in SdpMedia
      <3>1. session.ack \in Seq(LocalLine)
        BY <1>1, <1>13 DEF Session
      <3> QED
        BY <1>1, <3>1, AnswersType
    <2>2. session.state # "ENDED" /\ session' = Ready(SetRemoteSdp(s, answer, junk))
      BY <1>13, Zenon DEF ReceiveAck, Live
    <2>3. /\ s \in Session /\ s.state = session.state /\ s.early = session.early
          /\ s.cli = session.cli
          /\ s.overtaken = IF session.state = "REINVITE_SENT" THEN session.local_sdp
                           ELSE session.overtaken
          /\ s.srv = session.srv /\ s.ack = None /\ s.local_sdp = session.local_sdp
      BY <1>1, AckArrivesFields
    <2> HIDE DEF s
    <2>4. ASSUME NEW t \in Session,
                 t.state = Answering(s.state), t.early = s.early, t.cli = s.cli,
                 t.overtaken = s.overtaken, t.srv = s.srv, t.ack = s.ack,
                 t.local_sdp = s.local_sdp
          PROVE  Counted(t)
      BY <1>1, <1>13, <2>2, <2>3, <2>4, AckCounted
    <2> QED
      BY <2>1, <2>2, <2>3, <2>4, ReadyCounted
  <1> QED
    BY <1>2, <1>4, <1>5, <1>6, <1>7, <1>8, <1>9, <1>11, <1>12, <1>13, Zenon DEF PeerStep

LEMMA OffersInvInductive ==
    ASSUME OffersInv, RequestsInv', [Next]_vars
    PROVE  OffersInv'
  <1>1. RequestsInv /\ session' \in Session
    BY DEF OffersInv, RequestsInv, TypeOK
  <1> SUFFICES ASSUME session'.aborted = "none"
               PROVE  Counted(session')
    BY DEF OffersInv
  <1>2. CASE UNCHANGED session
    BY <1>2 DEF OffersInv
  <1>3. CASE Next /\ session.aborted # "none"
    BY <1>2, <1>3, AbortedStays DEF vars
  <1>4. CASE Next /\ session = NewSession(TRUE)
    BY <1>1, <1>4, FreshStepIsInvite, FirstInviteCounted
  <1>5. CASE Next /\ Matched(session)
    <2>1. session \in Session /\ Counted(session)
      BY <1>5 DEF Matched, OffersInv
    <2>2. CASE \E i \in Present(session) : ClientStep(i)
      BY <1>1, <2>1, <2>2, ClientStepFollows, FollowsCounted
    <2>3. CASE CallStep /\ ~Accept
      BY <1>1, <2>1, <2>3, CallStepFollows, FollowsCounted
    <2>4. CASE Accept
      BY <2>1, <2>4, AcceptSessionCounted DEF Accept
    <2>5. CASE PeerStep
      BY <1>1, <1>5, <2>1, <2>5, PeerStepCounted
    <2>6. CASE GlareRetry
      BY <1>1, <2>1, <2>6, GlareRetryFollows, FollowsCounted
    <2>7. CASE Finished
      BY <1>2, <2>7 DEF Finished, vars
    <2> QED
      BY <1>5, <2>2, <2>3, <2>4, <2>5, <2>6, <2>7 DEF Next
  <1> QED
    BY <1>1, <1>2, <1>3, <1>4, <1>5 DEF RequestsInv, vars

LEMMA InitOffers == Init => OffersInv
  <1> SUFFICES ASSUME Init
               PROVE  OffersInv
    OBVIOUS
  <1>1. RequestsInv
    BY InitRequests
  <1>2. PICK incoming \in BOOLEAN : session = NewSession(incoming)
    BY SessionAssumption DEF Init, SessionAssumption
  <1>3. Counted(session)
    BY <1>2 DEF Counted, LeftOpen, AckExpected, Excess, Sent, NewSession
  <1> QED
    BY <1>1, <1>3 DEF OffersInv

LEMMA OffersCourse == Spec => []OffersInv
  <1>1. Init => OffersInv
    BY InitOffers
  <1>2. OffersInv /\ TypeOK' /\ [Next]_vars => OffersInv'
    <2>1. OffersInv => RequestsInv
      BY DEF OffersInv
    <2> QED
      BY <2>1, RequestsInvInductive, OffersInvInductive
  <1> QED
    BY <1>1, <1>2, SessionTypeCorrect, PTL DEF Spec

(* Whatever the peer answers in a 183 or an ACK, at most one INVITE of     *)
(* ours is open besides the one the session waits for, every wait is for   *)
(* an INVITE that is open, and no offer of ours meets one of the peer      *)
(* (priv_session_invite, rakia_sip_session_set_remote_media).              *)
THEOREM OneOfferEverOvertaken == Spec => []OneOfferOvertaken
  <1>1. OffersInv => OneOfferOvertaken
    <2> SUFFICES ASSUME OffersInv, Running
                 PROVE  OneOfferOvertaken
      BY DEF OneOfferOvertaken
    <2>1. Counted(session) /\ session.cli \in Nat
      BY DEF OffersInv, RequestsInv, TypeOK, Session, Running
    <2>2. session.srv # "none" => session.state \in {"INVITE_RECEIVED", "REINVITE_RECEIVED"}
      BY DEF OffersInv, RequestsInv, Running, Matched, NewSession
    <2>3. session.srv # "none" => session.cli = 0
      BY <2>1, <2>2 DEF Counted, Excess, Sent
    <2>4. /\ session.cli <= 2
          /\ session.cli = 2 => session.state = "REINVITE_SENT"
          /\ session.state \in Sent => session.cli > 0
      BY <2>1 DEF Counted, Excess, Sent
    <2> QED
      BY <2>1, <2>3, <2>4 DEF OneOfferOvertaken, Sent
  <1> QED
    BY <1>1, OffersCourse, PTL

(* With a peer that answers in final responses only, one INVITE of ours at *)
(* most is outstanding, exactly in the *_SENT states and never together    *)
(* with one of the peer (priv_session_invite,                              *)
(* rakia_sip_session_media_changed).                                       *)
THEOREM OffersNeverOverlap ==
    ASSUME "early" \notin PeerMay, "delay" \notin PeerMay
    PROVE  Spec => []NoOverlappingOffers
  <1>1. OffersInv => NoOverlappingOffers
    <2> SUFFICES ASSUME OffersInv, Running
                 PROVE  NoOverlappingOffers
      BY DEF NoOverlappingOffers
    <2>1. session.cli = IF session.state \in Sent THEN 1 ELSE 0
      <3>1. Counted(session) /\ session.cli \in Nat
        BY DEF OffersInv, RequestsInv, TypeOK, Session, Running
      <3>2. ~LeftOpen(session)
        BY <3>1 DEF Counted, LeftOpen
      <3> QED
        BY <3>1, <3>2 DEF Counted, Excess
    <2>2. session.state \in Sent => session.srv = "none"
      BY DEF OffersInv, RequestsInv, Running, Matched, NewSession, Sent
    <2> QED
      BY <2>1, <2>2 DEF NoOverlappingOffers, Sent
  <1> QED
    BY <1>1, OffersCourse, PTL

-----------------------------------------------------------------------------
(* The exchange of offers and answers is that of module OfferAnswer.       *)

(* No offer is outstanding in a call that was set up.                      *)
Quiet == {"ACTIVE", "RESPONSE_RECEIVED", "REINVITE_PENDING"}

(* How far one entry from the main loop may take session s.                *)
Passes(s, t) ==
    /\ t.incoming = s.incoming
    /\ s.accepted => t.accepted
    /\ t.accepted => s.accepted \/ ~s.incoming \/ s.state = "INVITE_RECEIVED"
    /\ \/ t.state \in {s.state, "ENDED"}
       \/ s.state = "CREATED" /\ t.state \in {"INVITE_SENT", "INVITE_RECEIVED"}
       \/ s.state \notin {"CREATED", "ENDED"} /\ t.state \in Quiet \cup {"REINVITE_SENT"}
       \/ s.state \in Quiet /\ t.state = "REINVITE_RECEIVED"

LEMMA FollowsPasses ==
    ASSUME NEW s \in Session, NEW t \in Session, Follows(s, t)
    PROVE  Passes(s, t)
  <1>1. s.accepted \in BOOLEAN /\ t.accepted \in BOOLEAN
    BY DEF Session
  <1> QED
    BY <1>1 DEF Follows, Passes, Established, Quiet

(* The state is what OfferAnswer calls phase and offerer.                  *)
PhaseOf(s) ==
    IF s.aborted # "none" \/ s.state = "ENDED" THEN "over"
    ELSE IF s.state \in {"CREATED", "INVITE_SENT", "INVITE_RECEIVED"} THEN "setup"
    ELSE "confirmed"

OffererOf(s) ==
    IF PhaseOf(s) = "over" THEN "none"
    ELSE IF s.state \in Sent THEN "us"
    ELSE IF s.state \in {"INVITE_RECEIVED", "REINVITE_RECEIVED"} THEN "peer"
    ELSE "none"

LEMMA StateShowsOffer ==
    ASSUME "early" \notin PeerMay, "delay" \notin PeerMay, OffersInv
    PROVE  CallPhase = PhaseOf(session) /\ Offerer = OffererOf(session)
  <1>1. CallPhase = PhaseOf(session)
    BY DEF CallPhase, PhaseOf
  <1>2. CASE PhaseOf(session) = "over"
    BY <1>1, <1>2 DEF Offerer, OffererOf
  <1>3. CASE PhaseOf(session) # "over"
    <2>1. session.aborted = "none" /\ session.cli \in Nat
      BY <1>3 DEF PhaseOf, OffersInv, RequestsInv, TypeOK, Session
    <2>2. session.cli > 0 <=> session.state \in Sent
      BY <1>3, <2>1 DEF OffersInv, Counted, LeftOpen, Excess, PhaseOf
    <2>3. session.srv # "none" <=> session.state \in {"INVITE_RECEIVED", "REINVITE_RECEIVED"}
      BY <2>1 DEF OffersInv, RequestsInv, Matched, NewSession
    <2> QED
      BY <1>1, <1>3, <2>2, <2>3 DEF Offerer, OffererOf, Sent
  <1> QED
    BY <1>1, <1>2, <1>3

LEMMA StateShowsOfferNext ==
    ASSUME "early" \notin PeerMay, "delay" \notin PeerMay, OffersInv'
    PROVE  CallPhase' = PhaseOf(session') /\ Offerer' = OffererOf(session')
  <1>1. CallPhase' = PhaseOf(session')
    BY DEF CallPhase, PhaseOf
  <1>2. CASE PhaseOf(session') = "over"
    BY <1>1, <1>2 DEF Offerer, OffererOf
  <1>3. CASE PhaseOf(session') # "over"
    <2>1. session'.aborted = "none" /\ session'.cli \in Nat
      BY <1>3 DEF PhaseOf, OffersInv, RequestsInv, TypeOK, Session
    <2>2. session'.cli > 0 <=> session'.state \in Sent
      BY <1>3, <2>1 DEF OffersInv, Counted, LeftOpen, Excess, PhaseOf
    <2>3. session'.srv # "none" <=> session'.state \in {"INVITE_RECEIVED", "REINVITE_RECEIVED"}
      BY <2>1 DEF OffersInv, RequestsInv, Matched, NewSession
    <2> QED
      BY <1>1, <1>3, <2>2, <2>3 DEF Offerer, OffererOf, Sent
  <1> QED
    BY <1>1, <1>2, <1>3

(* Every such step is a step of the exchange.                              *)
LEMMA PassesExchange ==
    ASSUME "early" \notin PeerMay, "delay" \notin PeerMay,
           OffersInv, OffersInv', AcceptInv, AcceptInv', session.aborted = "none",
           Passes(session, session')
    PROVE  [OA!Next]_(OA!vars)
  <1> DEFINE s == session
             t == session'
  <1>1. /\ CallPhase = PhaseOf(s) /\ Offerer = OffererOf(s)
        /\ CallPhase' = PhaseOf(t) /\ Offerer' = OffererOf(t)
    BY StateShowsOffer, StateShowsOfferNext
  <1>2. /\ s.state \in SessionState /\ t.state \in SessionState
        /\ s.accepted \in BOOLEAN /\ t.accepted \in BOOLEAN
        /\ s.incoming \in BOOLEAN /\ t.incoming = s.incoming
        /\ s.accepted => t.accepted
    BY DEF AcceptInv, RequestsInv, TypeOK, Session, Passes
  <1>3. (session.accepted \/ ~session.incoming)' = (t.accepted \/ ~s.incoming)
    BY <1>2
  <1>4. CASE PhaseOf(t) = "over"
    <2>1. CASE PhaseOf(s) = "over"
      <3>1. s.state = "ENDED"
        BY <2>1 DEF PhaseOf
      <3>2. t.accepted => s.accepted \/ ~s.incoming
        BY <3>1 DEF Passes
      <3> QED
        BY <1>1, <1>2, <1>4, <2>1, <3>2 DEF OA!vars, OffererOf
    <2>2. CASE PhaseOf(s) # "over"
      <3>1. OA!Over
        BY <1>1, <1>2, <1>4, <2>2 DEF OA!Over, OA!GrowsWilling, OffererOf
      <3> QED
        BY <3>1 DEF OA!Next
    <2> QED
      BY <2>1, <2>2
  <1>5. CASE PhaseOf(t) # "over"
    <2>1. /\ t.aborted = "none" /\ t.state # "ENDED" /\ s.state # "ENDED"
          /\ Agreed(s) /\ Agreed(t) /\ Counted(s) /\ Counted(t)
      <3>1. t.aborted = "none" /\ t.state # "ENDED"
        BY <1>5 DEF PhaseOf
      <3> QED
        BY <3>1 DEF AcceptInv, OffersInv, Passes, Quiet
    <2>2. s.state \notin {"CREATED", "INVITE_SENT", "INVITE_RECEIVED"} => s.accepted
      BY <1>2, <2>1 DEF Agreed, Counted, Established, SessionState
    <2>3. t.state \notin {"CREATED", "INVITE_SENT", "INVITE_RECEIVED"} => t.accepted
      BY <1>2, <2>1 DEF Agreed, Counted, Established, SessionState
    <2>4. s.state # "INVITE_RECEIVED"
             => (t.accepted \/ ~s.incoming <=> s.accepted \/ ~s.incoming)
      BY <1>2 DEF Passes
    <2>5. CASE s.state = "CREATED"
      <3>1. t.state \in {"CREATED", "INVITE_SENT", "INVITE_RECEIVED"}
        BY <2>1, <2>5 DEF Passes, Quiet
      <3>2. CASE t.state = "CREATED"
        BY <1>1, <1>2, <2>1, <2>4, <2>5, <3>2 DEF OA!vars, PhaseOf, OffererOf
      <3>3. CASE t.state = "INVITE_SENT"
        <4>1. ~s.incoming
          BY <1>2, <2>1, <3>3 DEF Agreed
        <4>2. OA!WeInvite
          BY <1>1, <1>2, <2>1, <2>5, <3>3, <4>1
             DEF OA!WeInvite, PhaseOf, OffererOf, Sent
        <4> QED
          BY <4>2 DEF OA!Next
      <3>4. CASE t.state = "INVITE_RECEIVED"
        <4>1. OA!PeerInvites
          BY <1>1, <1>2, <2>1, <2>4, <2>5, <3>4
             DEF OA!PeerInvites, PhaseOf, OffererOf, Sent
        <4> QED
          BY <4>1 DEF OA!Next
      <3> QED
        BY <3>1, <3>2, <3>3, <3>4
    <2>6. CASE s.state = "INVITE_RECEIVED"
      <3>1. t.state \in {"INVITE_RECEIVED", "REINVITE_SENT"} \cup Quiet
        BY <2>1, <2>6 DEF Passes, Quiet
      <3>2. CASE t.state = "INVITE_RECEIVED"
        <4>1. OA!BecomeWilling \/ UNCHANGED OA!vars
          BY <1>1, <1>2, <2>1, <2>6, <3>2
             DEF OA!BecomeWilling, OA!vars, PhaseOf, OffererOf, Sent
        <4> QED
          BY <4>1 DEF OA!Next
      <3>3. CASE t.state # "INVITE_RECEIVED"
        <4>1. OA!WeAnswer
          BY <1>1, <1>2, <2>1, <2>3, <2>6, <3>1, <3>3
             DEF OA!WeAnswer, OA!GrowsWilling, PhaseOf, OffererOf, Sent, Quiet
        <4> QED
          BY <4>1 DEF OA!Next
      <3> QED
        BY <3>2, <3>3
    <2>7. CASE s.state \in Sent
      <3>1. t.state = s.state \/ t.state \in Quiet \cup {"REINVITE_SENT"}
        BY <2>1, <2>7 DEF Passes, Sent, Quiet
      <3>2. CASE t.state = s.state
        BY <1>1, <1>2, <2>1, <2>4, <2>7, <3>2 DEF OA!vars, PhaseOf, OffererOf, Sent
      <3>3. CASE t.state # s.state
        <4>1. OA!PeerAnswers
          BY <1>1, <1>2, <2>1, <2>4, <2>7, <3>1, <3>3
             DEF OA!PeerAnswers, PhaseOf, OffererOf, Sent, Quiet
        <4> QED
          BY <4>1 DEF OA!Next
      <3> QED
        BY <3>2, <3>3
    <2>8. CASE s.state = "REINVITE_RECEIVED"
      <3>1. t.state \in {"REINVITE_RECEIVED", "REINVITE_SENT"} \cup Quiet
        BY <2>1, <2>8 DEF Passes, Quiet
      <3>2. CASE t.state = "REINVITE_RECEIVED"
        BY <1>1, <1>2, <2>1, <2>4, <2>8, <3>2 DEF OA!vars, PhaseOf, OffererOf, Sent
      <3>3. CASE t.state # "REINVITE_RECEIVED"
        <4>1. OA!WeAnswer
          BY <1>1, <1>2, <2>1, <2>3, <2>8, <3>1, <3>3
             DEF OA!WeAnswer, OA!GrowsWilling, PhaseOf, OffererOf, Sent, Quiet
        <4> QED
          BY <4>1 DEF OA!Next
      <3> QED
        BY <3>2, <3>3
    <2>9. CASE s.state \in Quiet
      <3>1. t.state \in Quiet \cup {"REINVITE_SENT", "REINVITE_RECEIVED"}
        BY <2>1, <2>9 DEF Passes, Quiet
      <3>2. CASE t.state \in Quiet
        BY <1>1, <1>2, <2>1, <2>4, <2>9, <3>2 DEF OA!vars, PhaseOf, OffererOf, Sent, Quiet
      <3>3. CASE t.state = "REINVITE_SENT"
        <4>1. OA!Offer("us")
          BY <1>1, <1>2, <2>1, <2>4, <2>9, <3>3
             DEF OA!Offer, PhaseOf, OffererOf, Sent, Quiet
        <4> QED
          BY <4>1 DEF OA!Next
      <3>4. CASE t.state = "REINVITE_RECEIVED"
        <4>1. OA!Offer("peer")
          BY <1>1, <1>2, <2>1, <2>4, <2>9, <3>4
             DEF OA!Offer, PhaseOf, OffererOf, Sent, Quiet
        <4> QED
          BY <4>1 DEF OA!Next
      <3> QED
        BY <3>1, <3>2, <3>3, <3>4
    <2> QED
      BY <1>2, <2>1, <2>5, <2>6, <2>7, <2>8, <2>9 DEF SessionState, Sent, Quiet
  <1> QED
    BY <1>4, <1>5

(* The states and the willingness after an answer, whose handler ends in   *)
(* that of the acceptance.                                                 *)
LEMMA AcceptSessionPasses ==
    ASSUME NEW s \in Session
    PROVE  LET t == AcceptSession(s)
           IN  /\ t.incoming = s.incoming
               /\ s.accepted => t.accepted
               /\ \/ t.state \in {s.state, "ENDED"}
                  \/ s.state = "CREATED" /\ t.state = "INVITE_SENT"
                  \/ /\ s.state \notin {"CREATED", "INVITE_SENT", "REINVITE_SENT", "ENDED"}
                     /\ t.state \in Established \ {"REINVITE_RECEIVED"}
  <1>1. PICK s1 \in Session : /\ s1.accepted /\ s1.state = s.state /\ s1.incoming = s.incoming
                              /\ Follows(s1, AcceptSession(s))
    BY AcceptSessionFollows
  <1> QED
    BY <1>1 DEF Follows

LEMMA AcceptPasses ==
    ASSUME session \in Session, session.incoming => session.state # "CREATED", Accept
    PROVE  Passes(session, session')
  <1>1. /\ session' = AcceptSession(session)
        /\ ~session.incoming \/ session.state = "INVITE_RECEIVED"
    BY DEF Accept
  <1> QED
    BY <1>1, AcceptSessionPasses DEF Passes, Established, Quiet

(* The peer's steps, of a peer that answers in final responses only.       *)
LEMMA PeerStepPasses ==
    ASSUME "early" \notin PeerMay, "delay" \notin PeerMay,
           Matched(session), Agreed(session), Counted(session),
           session' \in Session, PeerStep
    PROVE  Passes(session, session')
  <1>1. /\ session \in Session /\ session.aborted = "none" /\ session.cli \in Nat
        /\ session.accepted \in BOOLEAN /\ session'.accepted \in BOOLEAN
    BY DEF Matched, Session
  <1>2. ASSUME NEW offer \in Offers(session), ReceiveInvite(offer)
        PROVE  FALSE
    BY <1>2 DEF ReceiveInvite, Matched
  <1>3. ASSUME session.cli > 0, session.state # "ENDED"
        PROVE  /\ session.state \in Sent
               /\ LET s == FinalResponse(session)
                  IN  /\ s \in Session /\ s.state = session.state
                      /\ s.incoming = session.incoming /\ s.accepted = session.accepted
    <2>1. session.state \in Sent
      BY <1>1, <1>3 DEF Counted, LeftOpen, Excess
    <2> QED
      BY <1>1, <1>3, <2>1, FinalResponseFields
  <1>4. ASSUME session.local_sdp # None, NEW answer \in Answers(InvitedSdp(session)),
               NEW junk \in Lines, ReceiveAnswer(answer, junk)
        PROVE  Passes(session, session')
    <2> DEFINE s == FinalResponse(session)
               r == SetRemoteSdp(s, answer, junk)
    <2>1. answer \in Seq(SdpMedia) /\ junk \in SdpMedia
      <3>1. InvitedSdp(session) \in Seq(LocalLine)
        BY <1>1, <1>4, InvitedSdpType
      <3>2. Lines \subseteq SdpMedia
        BY SessionAssumption DEF SessionAssumption
      <3> QED
        BY <3>1, <3>2, AnswersType
    <2>2. /\ s \in Session /\ session.state \in Sent /\ s.state = session.state
          /\ s.incoming = session.incoming /\ s.accepted = session.accepted
      BY <1>3, <1>4 DEF ReceiveAnswer, Live
    <2>3. session' = IF r.ok THEN AcceptSession(r.session) ELSE r.session
      BY <1>4, Zenon DEF ReceiveAnswer, Ready
    <2>4. PICK s1 \in Session : /\ s1.state = Answering(s.state)
                                /\ s1.incoming = s.incoming /\ s1.accepted = s.accepted
                                /\ r.session \in Session
                                /\ Follows(s1, r.session)
      <3> HIDE DEF s
      <3> QED
        BY <2>1, <2>2, SetRemoteSdpFollows
    <2> HIDE DEF s, r
    <2>5. s1.state = "RESPONSE_RECEIVED"
      BY <2>2, <2>4 DEF Answering, Sent
    <2>6. /\ r.session.incoming = session.incoming /\ r.session.accepted = session.accepted
          /\ r.session.state \in {"RESPONSE_RECEIVED", "ENDED"}
                                   \cup (Established \ {"REINVITE_RECEIVED"})
      BY <2>2, <2>4, <2>5 DEF Follows
    <2>7. /\ session'.incoming = session.incoming
          /\ session.accepted => session'.accepted
          /\ session'.state \in {"RESPONSE_RECEIVED", "ENDED"}
                                  \cup (Established \ {"REINVITE_RECEIVED"})
      BY <2>3, <2>4, <2>6, AcceptSessionPasses DEF Established
    <2>8. session.incoming => session.accepted
      BY <2>2 DEF Agreed, Established, Sent
    <2> QED
      BY <1>1, <2>2, <2>7, <2>8 DEF Passes, Quiet, Established, Sent
  <1>5. ASSUME NEW answer \in Answers(InvitedSdp(session)), NEW junk \in Lines,
               ReceiveEarlyAnswer(answer, junk)
        PROVE  FALSE
    BY <1>5 DEF ReceiveEarlyAnswer
  <1>6. ASSUME ReceiveFinalAfterEarly
        PROVE  FALSE
    BY <1>6 DEF ReceiveFinalAfterEarly, Live, Counted
  <1>7. ASSUME ReceiveTerminated
        PROVE  Passes(session, session')
    BY <1>1, <1>7, EndFollows, FollowsPasses DEF ReceiveTerminated
  <1>8. ASSUME ResolveGlare
        PROVE  Passes(session, session')
    <2> DEFINE s == FinalResponse(session)
    <2>1. session.cli > 0 /\ session.state \notin {"INVITE_SENT", "ENDED"}
      BY <1>8 DEF ResolveGlare, Live
    <2>2. /\ s \in Session /\ s.state = session.state /\ session.state = "REINVITE_SENT"
          /\ s.incoming = session.incoming /\ s.accepted = session.accepted
      BY <1>3, <2>1 DEF Sent
    <2>3. session' = ChangeState([s EXCEPT !.glare_timer = "armed"], "REINVITE_PENDING")
      BY <1>8, <2>2 DEF ResolveGlare
    <2> HIDE DEF s
    <2>4. /\ session'.state = "REINVITE_PENDING"
          /\ session'.accepted = session.accepted /\ session'.incoming = session.incoming
      BY <2>2, <2>3, GlareFields
    <2> QED
      BY <2>2, <2>4 DEF Passes, Quiet
  <1>9. ASSUME ReinviteRefused
        PROVE  Passes(session, session')
    <2> DEFINE s == FinalResponse(session)
    <2>1. /\ s \in Session /\ session' = Terminate(s) /\ s.state = session.state
          /\ s.incoming = session.incoming /\ s.accepted = session.accepted
      BY <1>3, <1>9 DEF ReinviteRefused, Live
    <2> HIDE DEF s
    <2>2. Passes(s, session')
      BY <2>1, TerminateFollows, FollowsPasses
    <2> QED
      BY <2>1, <2>2 DEF Passes
  <1>10. ASSUME CanReceiveReinvite, NEW request \in {"offer", "delayed"}
         PROVE  /\ session.state \in Quiet
                /\ LET t == ReceiveReinvite(session, request)
                   IN  /\ t \in Session /\ t.state = "REINVITE_RECEIVED"
                       /\ t.incoming = session.incoming /\ t.accepted = session.accepted
    <2> DEFINE timer == IF session.state = "REINVITE_PENDING" /\ session.glare_timer = "armed"
                        THEN "removed" ELSE session.glare_timer
               t == [session EXCEPT !.srv = request, !.saved_event = TRUE,
                                    !.state = "REINVITE_RECEIVED", !.glare_timer = timer]
    <2>1. ReceiveReinvite(session, request) = t
      BY Zenon DEF ReceiveReinvite
    <2>2. session.state \in Quiet
      BY <1>10, Zenon DEF CanReceiveReinvite, Quiet
    <2>3. /\ t.state = "REINVITE_RECEIVED"
          /\ t.incoming = session.incoming /\ t.accepted = session.accepted
      <3> HIDE DEF timer
      <3> QED
        BY <1>1 DEF Session
    <2>4. ReceiveReinvite(session, request) \in Session
      BY <1>1, ReceiveReinviteType
    <2> HIDE DEF t
    <2> QED
      BY <2>1, <2>2, <2>3, <2>4
  <1>11. ASSUME NEW offer \in Offers(session), NEW junk \in Lines, Reinvite(offer, junk)
         PROVE  Passes(session, session')
    <2> DEFINE s == ReceiveReinvite(session, "offer")
    <2>1. session' = SetRemoteSdp(s, offer, junk).session
      BY <1>11, Zenon DEF Reinvite
    <2>2. /\ session.state \in Quiet
          /\ s \in Session /\ s.state = "REINVITE_RECEIVED"
          /\ s.incoming = session.incoming /\ s.accepted = session.accepted
      BY <1>10, <1>11 DEF Reinvite
    <2>3. offer \in Seq(SdpMedia) /\ junk \in SdpMedia
      BY <1>1, OffersType, SessionAssumption DEF SessionAssumption
    <2> HIDE DEF s
    <2>4. PICK t \in Session : /\ t.state = Answering(s.state)
                               /\ t.incoming = s.incoming /\ t.accepted = s.accepted
                               /\ Follows(t, session')
      BY <2>1, <2>2, <2>3, SetRemoteSdpFollows
    <2>5. t.state = "REINVITE_RECEIVED"
      BY <2>2, <2>4 DEF Answering
    <2> QED
      BY <1>1, <2>2, <2>4, <2>5 DEF Follows, Passes, Quiet, Established
  <1>12. ASSUME ReinviteWithoutOffer
         PROVE  FALSE
    BY <1>12 DEF ReinviteWithoutOffer
  <1>13. ASSUME NEW answer \in Answers(session.ack), NEW junk \in Lines,
                ReceiveAck(answer, junk)
         PROVE  FALSE
    BY <1>13 DEF ReceiveAck, Live, Counted, AckExpected
  <1> QED
    BY <1>2, <1>4, <1>5, <1>6, <1>7, <1>8, <1>9, <1>11, <1>12, <1>13, Zenon DEF PeerStep

LEMMA StepPasses ==
    ASSUME "early" \notin PeerMay, "delay" \notin PeerMay,
           OffersInv, AcceptInv, session' \in Session,
           session.aborted = "none", Next
    PROVE  Passes(session, session') \/ UNCHANGED session
  <1>1. Agreed(session) /\ Counted(session) /\ RequestsInv
    BY DEF AcceptInv, OffersInv
  <1>2. CASE session = NewSession(TRUE)
    <2>1. PICK offer \in Offers(session) : ReceiveInvite(offer)
      BY <1>2, FreshStepIsInvite
    <2>2. PICK t \in Session : /\ t.incoming /\ ~t.accepted
                               /\ Follows(t, session')
                               /\ \/ t.state = "INVITE_RECEIVED"
                                  \/ /\ t.state = "CREATED"
                                     /\ \/ session'.state = "ENDED"
                                        \/ session'.state = "CREATED"
      BY <1>2, <2>1, FirstInviteFollows
    <2>3. session.incoming /\ ~session.accepted /\ session.state = "CREATED"
      BY <1>2 DEF NewSession
    <2> QED
      BY <2>2, <2>3 DEF Follows, Passes, Established
  <1>3. CASE Matched(session)
    <2>1. session \in Session /\ (session.incoming => session.state # "CREATED")
      BY <1>3 DEF Matched
    <2>2. CASE \E i \in Present(session) : ClientStep(i)
      BY <2>1, <2>2, ClientStepFollows, FollowsPasses
    <2>3. CASE CallStep /\ ~Accept
      BY <2>1, <2>3, CallStepFollows, FollowsPasses
    <2>4. CASE Accept
      BY <2>1, <2>4, AcceptPasses
    <2>5. CASE PeerStep
      BY <1>1, <1>3, <2>5, PeerStepPasses
    <2>6. CASE GlareRetry
      BY <2>1, <2>6, GlareRetryFollows, FollowsPasses
    <2>7. CASE Finished
      BY <2>7 DEF Finished, vars
    <2> QED
      BY <2>2, <2>3, <2>4, <2>5, <2>6, <2>7 DEF Next
  <1> QED
    BY <1>1, <1>2, <1>3 DEF RequestsInv

LEMMA StepsRefineOfferAnswer ==
    ASSUME "early" \notin PeerMay, "delay" \notin PeerMay,
           OffersInv, OffersInv', AcceptInv, AcceptInv', [Next]_vars
    PROVE  [OA!Next]_(OA!vars)
  <1>1. CASE UNCHANGED session
    <2>1. UNCHANGED OA!vars
      BY <1>1 DEF OA!vars, CallPhase, Offerer
    <2> QED
      BY <2>1
  <1>2. CASE Next /\ session.aborted # "none"
    BY <1>1, <1>2, AbortedStays DEF vars
  <1>3. CASE Next /\ session.aborted = "none"
    <2>1. session' \in Session
      BY DEF AcceptInv, RequestsInv, TypeOK
    <2> QED
      BY <1>1, <1>3, <2>1, StepPasses, PassesExchange
  <1> QED
    BY <1>1, <1>2, <1>3 DEF vars

(* With a peer whose answers come in final responses, never in a 183 or an *)
(* ACK, every session is a behaviour of                                    *)
(* module OfferAnswer: an offer is made only when none is outstanding and  *)
(* is settled once, by its other end, and no call is taken against the     *)
(* user (rakia_sip_session_set_remote_media and what it calls).            *)
THEOREM SessionImplementsOfferAnswer ==
    ASSUME "early" \notin PeerMay, "delay" \notin PeerMay
    PROVE  Spec => ImplementsOfferAnswer
  <1>1. Init => OA!Init
    <2> SUFFICES ASSUME Init
                 PROVE  OA!Init
      OBVIOUS
    <2>1. PICK incoming \in BOOLEAN : session = NewSession(incoming)
      BY SessionAssumption DEF Init, SessionAssumption
    <2> QED
      BY <2>1 DEF OA!Init, CallPhase, Offerer, NewSession
  <1>2. OffersInv /\ OffersInv' /\ AcceptInv /\ AcceptInv' /\ [Next]_vars
           => [OA!Next]_(OA!vars)
    BY StepsRefineOfferAnswer
  <1> QED
    BY <1>1, <1>2, SessionCourse, OffersCourse, PTL DEF Spec, ImplementsOfferAnswer, OA!Spec

=============================================================================
