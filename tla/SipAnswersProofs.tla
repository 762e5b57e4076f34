-------------------------- MODULE SipAnswersProofs ---------------------------
(***************************************************************************)
(* What our SDP says, for every value of the constants and every peer: an  *)
(* answer fits the offer it answers (AnswersFitOffers of module            *)
(* SipSession), an offer keeps the lines the peer knows (OffersKeepLines), *)
(* and, unless the peer sends re-INVITEs without an SDP, a call that is    *)
(* shown as held sends nothing (RemoteHoldIsReal).                         *)
(*                                                                         *)
(* The three rest on one invariant: the medias lie along the lines of the  *)
(* peer's SDP, each of its line's type and pointing at it (Lined), and an  *)
(* answer has as many lines as that SDP (Counted).  The handlers of the    *)
(* client leave the lines alone (Keeps); those of the peer's SDP lay them  *)
(* anew, and let go of the old ones only inside a single step.             *)
(***************************************************************************)
EXTENDS SipRequestsProofs

-----------------------------------------------------------------------------
(* What the client does to a media leaves its line alone.                  *)

SameLine(m, p) ==
    /\ p.type = m.type
    /\ p.direction = m.direction
    /\ p.remote_media = m.remote_media

LEMMA PushRemoteCodecsLine ==
    ASSUME NEW m \in Media
    PROVE  SameLine(m, PushRemoteCodecs(m))
  <1> DEFINE codecs == m.remote_media.codecs
             n == m.offers + 1
             p == [m EXCEPT !.remote_codec_offer = codecs, !.offers = n]
  <1>1. PushRemoteCodecs(m) \in {m, p}
    BY Zenon DEF PushRemoteCodecs
  <1>2. SameLine(m, p)
    <2> HIDE DEF codecs, n
    <2> QED
      BY DEF Media, SameLine
  <1> QED
    BY <1>1, <1>2 DEF SameLine

LEMMA PushRemoteCandidatesLine ==
    ASSUME NEW m \in Media
    PROVE  SameLine(m, PushRemoteCandidates(m))
  <1> DEFINE conn == m.remote_media.conn
             p == [m EXCEPT !.remote_candidates = conn]
  <1>1. PushRemoteCandidates(m) \in {m, p}
    BY Zenon DEF PushRemoteCandidates
  <1>2. SameLine(m, p)
    <2> HIDE DEF conn
    <2> QED
      BY DEF Media, SameLine
  <1> QED
    BY <1>1, <1>2 DEF SameLine

(* Fields of a media that say nothing of its line.                         *)
LEMMA OtherMediaFields ==
    ASSUME NEW m \in Media, NEW codecs, NEW b, NEW n, NEW d
    PROVE  /\ SameLine(m, [m EXCEPT !.local_codecs = codecs])
           /\ SameLine(m, [m EXCEPT !.remote_codec_offer = codecs])
           /\ SameLine(m, [m EXCEPT !.push_candidates_on_new_codecs = b])
           /\ SameLine(m, [m EXCEPT !.push_remote_codecs_pending = b])
           /\ SameLine(m, [m EXCEPT !.codec_intersect_pending = b])
           /\ SameLine(m, [m EXCEPT !.local_candidates_prepared = b])
           /\ SameLine(m, [m EXCEPT !.can_receive = b])
           /\ SameLine(m, [m EXCEPT !.hold_requested = b])
           /\ SameLine(m, [m EXCEPT !.initial_offer = b])
           /\ SameLine(m, [m EXCEPT !.offers = n])
           /\ SameLine(m, [m EXCEPT !.requested_direction = d])
  BY DEF Media, SameLine

LEMMA TakeLocalCodecsLine ==
    ASSUME NEW m \in Media, NEW codecs \in CodecLists
    PROVE  SameLine(m, TakeLocalCodecs(m, codecs).media)
  <1> DEFINE m1 == [m EXCEPT !.local_codecs = codecs]
             m0 == [m1 EXCEPT !.push_candidates_on_new_codecs = FALSE]
             m2 == IF m1.push_candidates_on_new_codecs
                   THEN PushRemoteCandidates(m0) ELSE m1
             m3 == [m2 EXCEPT !.codec_intersect_pending = FALSE]
             m4 == [m1 EXCEPT !.push_remote_codecs_pending = FALSE]
             m5 == [m3 EXCEPT !.remote_codec_offer = None]
  <1>1. m1 \in Media /\ SameLine(m, m1)
    <2>1. m1 \in Media
      BY DEF Media
    <2> QED
      BY <2>1, OtherMediaFields
  <1> HIDE DEF m1
  <1>2. m0 \in Media /\ SameLine(m1, m0) /\ m4 \in Media /\ SameLine(m1, m4)
    <2>1. m1 \in Media
      BY <1>1
    <2>2. m0 \in Media
      BY <2>1 DEF Media
    <2>3. m4 \in Media
      BY <2>1 DEF Media
    <2> QED
      BY <2>1, <2>2, <2>3, OtherMediaFields
  <1> HIDE DEF m0, m4
  <1>3. m2 \in Media /\ SameLine(m1, m2)
    BY <1>1, <1>2, PushRemoteCandidatesType, PushRemoteCandidatesLine DEF SameLine
  <1> HIDE DEF m2
  <1>4. m3 \in Media /\ SameLine(m2, m3)
    <2>1. m3 \in Media
      BY <1>3 DEF Media
    <2> QED
      BY <1>3, <2>1, OtherMediaFields
  <1> HIDE DEF m3
  <1>5. SameLine(m3, m5)
    BY <1>4, OtherMediaFields
  <1>6. SameLine(m4, PushRemoteCodecs(m4))
    BY <1>2, PushRemoteCodecsLine
  <1> HIDE DEF m5
  <1>7. TakeLocalCodecs(m, codecs).media \in {PushRemoteCodecs(m4), m2, m5, m3}
    <2>1. TakeLocalCodecs(m, codecs) =
            IF m1.push_remote_codecs_pending
            THEN [media |-> PushRemoteCodecs(m4), signal |-> "none"]
            ELSE IF ~m2.codec_intersect_pending
            THEN [media |-> m2, signal |-> "local-updated"]
            ELSE IF IsReady(m3) THEN [media |-> m5, signal |-> "complete"]
            ELSE [media |-> m3, signal |-> "none"]
      BY Zenon DEF TakeLocalCodecs, m0, m1, m2, m3, m4, m5
    <2> QED
      BY <2>1
  <1> QED
    BY <1>1, <1>2, <1>3, <1>4, <1>5, <1>6, <1>7 DEF SameLine

LEMMA CodecsRejectedLine ==
    ASSUME NEW m \in Media
    PROVE  SameLine(m, CodecsRejected(m).media)
  <1> DEFINE m1 == [m EXCEPT !.push_remote_codecs_pending = FALSE]
             m2 == [m EXCEPT !.codec_intersect_pending = FALSE]
  <1>1. m1 \in Media
    BY DEF Media
  <1>2. SameLine(m, m1) /\ SameLine(m, m2)
    BY OtherMediaFields
  <1>3. CodecsRejected(m) = IF m.push_remote_codecs_pending
                            THEN [media |-> PushRemoteCodecs(m1), signal |-> "none"]
                            ELSE [media |-> m2, signal |-> "failed"]
    BY Zenon DEF CodecsRejected
  <1> HIDE DEF m1, m2
  <1>4. CodecsRejected(m).media \in {PushRemoteCodecs(m1), m2}
    BY <1>3
  <1> QED
    BY <1>1, <1>2, <1>4, PushRemoteCodecsLine DEF SameLine

LEMMA SetCanReceiveLine ==
    ASSUME NEW m \in Media, NEW can \in BOOLEAN
    PROVE  SameLine(m, SetCanReceive(m, can).media)
  <1> DEFINE m1 == [m EXCEPT !.can_receive = can]
             m2 == ForgetCodecOffer(m1)
  <1>1. m1 \in Media /\ SameLine(m, m1)
    <2>1. m1 \in Media
      BY DEF Media
    <2> QED
      BY <2>1, OtherMediaFields
  <1> HIDE DEF m1
  <1>2. SameLine(m1, m2)
    BY <1>1, OtherMediaFields DEF ForgetCodecOffer
  <1> HIDE DEF m2
  <1>3. SetCanReceive(m, can).media \in {m, m1, m2}
    <2>1. SetCanReceive(m, can) = IF can = m.can_receive THEN [media |-> m, signal |-> "none"]
                                  ELSE IF IsReady(m1) THEN [media |-> m2, signal |-> "complete"]
                                  ELSE [media |-> m1, signal |-> "none"]
      BY Zenon DEF SetCanReceive, m1, m2
    <2> QED
      BY <2>1
  <1> QED
    BY <1>1, <1>2, <1>3 DEF SameLine

LEMMA ClientMediaLine ==
    ASSUME NEW m \in Media, NEW d, NEW b
    PROVE  /\ SameLine(m, LocalCandidatesPrepared(m).media)
           /\ SameLine(m, SetRequestedDirection(m, d).media)
           /\ SameLine(m, SetHoldRequested(m, b))
           /\ SameLine(m, ForgetCodecOffer(m))
  <1>1. LocalCandidatesPrepared(m).media = [m EXCEPT !.local_candidates_prepared = TRUE]
    BY DEF LocalCandidatesPrepared
  <1>2. SetRequestedDirection(m, d).media = [m EXCEPT !.requested_direction = d]
    BY DEF SetRequestedDirection
  <1>3. SameLine(m, SetHoldRequested(m, b)) /\ SameLine(m, ForgetCodecOffer(m))
    BY DEF SetHoldRequested, ForgetCodecOffer, Media, SameLine
  <1> QED
    BY <1>1, <1>2, <1>3 DEF Media, SameLine

(* The line of the peer's SDP a media is given: its type, its place, and a *)
(* direction the line grants.                                              *)
LEMMA SetRemoteMediaLine ==
    ASSUME NEW m \in Media, NEW line \in SdpMedia, NEW authoritative \in BOOLEAN
    PROVE  LET p == SetRemoteMedia(m, line, authoritative)
           IN  /\ p.type = m.type
               /\ p.requested_direction = m.requested_direction
               /\ p.remote_media = line
               /\ p.direction \subseteq DirectionFromRemoteMedia(line)
               /\ DirectionFromRemoteMedia(line) \cap m.requested_direction \subseteq p.direction
  <1> DEFINE old == m.remote_media
             m1 == [m EXCEPT !.remote_media = line, !.home = "current"]
             moved == TakeRemoteTransport(m1, old, line)
             taken == TakeRemoteCodecs(moved, old, line, authoritative)
             m2 == IF old = line THEN m1 ELSE taken
             direction == NewDirection(m, line, authoritative)
             p == [m2 EXCEPT !.direction = direction]
             Same(q) == q.type = m.type /\ q.requested_direction = m.requested_direction
                        /\ q.remote_media = line
  <1>1. m1 \in Media /\ Same(m1)
    BY DEF Media, Home
  <1> HIDE DEF m1, old
  <1>2. moved \in Media /\ Same(moved)
    <2> DEFINE conn == m1.remote_media.conn
               a == [m1 EXCEPT !.push_candidates_on_new_codecs = TRUE, !.remote_candidates = None]
               b == [m1 EXCEPT !.remote_candidates = conn]
    <2>1. moved \in {m1, a, b}
      BY Zenon DEF TakeRemoteTransport, PushRemoteCandidates
    <2>2. Same(a) /\ Same(b)
      <3> HIDE DEF conn
      <3> QED
        BY <1>1 DEF Media
    <2>3. moved \in Media
      BY <1>1, TakeRemoteTransportType
    <2> HIDE DEF moved, a, b
    <2> QED
      BY <1>1, <2>1, <2>2, <2>3
  <1> HIDE DEF moved
  <1>3. taken \in Media /\ Same(taken)
    <2> DEFINE pending == moved.codec_intersect_pending \/ authoritative
               a == [moved EXCEPT !.codec_intersect_pending = pending]
               codecs == a.remote_media.codecs
               n == a.offers + 1
               b == [a EXCEPT !.remote_codec_offer = codecs, !.offers = n]
               c == [a EXCEPT !.push_remote_codecs_pending = TRUE]
    <2>1. taken \in {moved, a, b, c}
      BY Zenon DEF TakeRemoteCodecs, PushRemoteCodecs
    <2>2. a \in Media /\ Same(a)
      <3>1. pending \in BOOLEAN
        BY <1>2 DEF Media
      <3> HIDE DEF pending
      <3> QED
        BY <1>2, <3>1 DEF Media
    <2> HIDE DEF a
    <2>3. Same(b) /\ Same(c)
      <3> HIDE DEF codecs, n
      <3> QED
        BY <2>2 DEF Media
    <2>4. taken \in Media
      BY <1>2, TakeRemoteCodecsType
    <2> HIDE DEF taken, b, c
    <2> QED
      BY <1>2, <2>1, <2>2, <2>3, <2>4
  <1> HIDE DEF taken
  <1>4. m2 \in Media /\ Same(m2)
    BY <1>1, <1>3
  <1>5. Same(p) /\ p.direction = direction
    <2> HIDE DEF m2, direction
    <2> QED
      BY <1>4 DEF Media
  <1>6. SetRemoteMedia(m, line, authoritative) = p
    BY Zenon DEF SetRemoteMedia, m1, moved, taken, old
  <1>7. /\ direction \subseteq DirectionFromRemoteMedia(line)
        /\ DirectionFromRemoteMedia(line) \cap m.requested_direction \subseteq direction
    BY DEF NewDirection
  <1> HIDE DEF p, direction
  <1> QED
    BY <1>5, <1>6, <1>7

-----------------------------------------------------------------------------
(* The invariant of the session, in parts.                                 *)

Sent == {"INVITE_SENT", "REINVITE_SENT"}
Received == {"INVITE_RECEIVED", "REINVITE_RECEIVED"}

(* The medias lie along the lines of the peer's SDP.                       *)
Shows(m, line) ==
    /\ m.type = line.type
    /\ m.remote_media = line
    /\ ~line.rejected

LinesMatch(s) ==
    s.remote_sdp # None =>
        /\ Len(s.remote_sdp) <= Len(s.medias)
        /\ \A i \in 1..Len(s.remote_sdp) :
              s.medias[i] # None => Shows(s.medias[i], s.remote_sdp[i])

(* A remote hold is kept by the directions in force, and by the lines they *)
(* are computed from.  A re-INVITE without an SDP is answered with medias  *)
(* the hold did not count, so that it takes a peer without them.           *)
SendsNothing(s) ==
    "delay" \notin PeerMay /\ s.remote_held =>
        \A i \in Present(s) : "SEND" \notin s.medias[i].direction

GrantsNothing(s) ==
    "delay" \notin PeerMay /\ s.remote_held /\ s.remote_sdp # None =>
        \A i \in Present(s) :
            i <= Len(s.remote_sdp) => "SEND" \notin DirectionFromRemoteMedia(s.remote_sdp[i])

(* Our offer keeps the lines, our answer will have as many.                *)
OfferKept(s) == s.state \in Sent /\ s.remote_sdp # None => KeepsLines(s.local_sdp, s.remote_sdp)

Counted(s) ==
    s.state \in Received /\ s.srv # "delayed" =>
        s.remote_sdp # None /\ s.remote_media_count = Len(s.remote_sdp)

(* What holds even while the medias are laid anew; what holds between two  *)
(* handlers; and what holds when a request or an answer may be sent.       *)
Going(s) ==
    /\ s \in Session
    /\ s.aborted = "none"
    /\ ~s.bad_answer
    /\ "delay" \notin PeerMay => s.srv # "delayed"
    /\ SendsNothing(s)

Lined(s) == Going(s) /\ LinesMatch(s) /\ GrantsNothing(s) /\ OfferKept(s)

Fit(s) == Lined(s) /\ Counted(s)

Stopped(s) ==
    /\ s \in Session
    /\ s.aborted # "none"
    /\ ~s.bad_answer
    /\ SendsNothing(s)

FitOrStopped(s) == Stopped(s) \/ Fit(s)

(* The medias stay along their lines, and new ones do not send yet.        *)
Keeps(s, t) ==
    /\ t.aborted = s.aborted
    /\ t.bad_answer = s.bad_answer
    /\ t.state = s.state
    /\ t.srv = s.srv
    /\ t.remote_sdp = s.remote_sdp
    /\ t.local_sdp = s.local_sdp
    /\ t.remote_media_count = s.remote_media_count
    /\ t.remote_held = s.remote_held
    /\ Len(s.medias) <= Len(t.medias)
    /\ \A i \in Present(t) :
          \/ i \in Present(s) /\ SameLine(s.medias[i], t.medias[i])
          \/ i \notin Slots(s) /\ "SEND" \notin t.medias[i].direction

LEMMA LinesType ==
    ASSUME NEW s \in Session, s.remote_sdp # None
    PROVE  /\ s.remote_sdp \in Seq(SdpMedia)
           /\ Len(s.remote_sdp) \in Nat
           /\ \A i \in 1..Len(s.remote_sdp) : s.remote_sdp[i] \in SdpMedia
  <1>1. s.remote_sdp \in Seq(SdpMedia)
    BY DEF Session
  <1> QED
    BY <1>1, LenProperties, ElementOfSeq

LEMMA KeepsSends ==
    ASSUME NEW s, NEW t, Keeps(s, t), SendsNothing(s)
    PROVE  SendsNothing(t)
  BY DEF Keeps, SendsNothing, SameLine

LEMMA KeepsLined ==
    ASSUME NEW s, NEW t \in Session, Keeps(s, t), Lined(s)
    PROVE  Lined(t)
  <1>1. s \in Session /\ Len(s.medias) \in Nat /\ Len(t.medias) \in Nat
    BY SlotsType DEF Lined, Going
  <1>2. Going(t)
    BY KeepsSends DEF Keeps, Lined, Going
  <1>3. OfferKept(t)
    BY DEF Keeps, Lined, OfferKept
  <1>4. LinesMatch(t) /\ GrantsNothing(t)
    <2> SUFFICES ASSUME t.remote_sdp # None
                 PROVE  LinesMatch(t) /\ GrantsNothing(t)
      BY DEF LinesMatch, GrantsNothing
    <2>1. t.remote_sdp = s.remote_sdp /\ Len(t.remote_sdp) \in Nat
      BY <1>1, LinesType DEF Keeps
    <2>2. /\ Len(s.remote_sdp) <= Len(s.medias) /\ Len(s.medias) <= Len(t.medias)
          /\ \A i \in 1..Len(s.remote_sdp) :
                s.medias[i] # None => Shows(s.medias[i], s.remote_sdp[i])
      BY <2>1 DEF Lined, LinesMatch, Keeps
    <2>3. ASSUME NEW i \in Present(t), i <= Len(t.remote_sdp)
          PROVE  i \in Present(s) /\ SameLine(s.medias[i], t.medias[i])
      <3>1. i \in Slots(s)
        BY <1>1, <2>1, <2>2, <2>3 DEF Slots, Present
      <3> QED
        BY <3>1 DEF Keeps
    <2>4. LinesMatch(t)
      <3>1. ASSUME NEW i \in 1..Len(t.remote_sdp), t.medias[i] # None
            PROVE  Shows(t.medias[i], t.remote_sdp[i])
        <4>1. i \in Present(t) /\ i <= Len(t.remote_sdp)
          BY <1>1, <2>1, <2>2, <3>1 DEF Slots, Present
        <4>2. i \in Present(s) /\ SameLine(s.medias[i], t.medias[i])
          BY <2>3, <4>1
        <4>3. Shows(s.medias[i], s.remote_sdp[i])
          BY <2>1, <2>2, <4>2 DEF Present
        <4> QED
          BY <2>1, <4>2, <4>3 DEF Shows, SameLine
      <3> QED
        BY <1>1, <2>1, <2>2, <3>1 DEF LinesMatch
    <2>5. GrantsNothing(t)
      BY <2>1, <2>3 DEF Lined, GrantsNothing, Keeps
    <2> QED
      BY <2>4, <2>5
  <1> QED
    BY <1>2, <1>3, <1>4 DEF Lined

LEMMA KeepsFit ==
    ASSUME NEW s, NEW t \in Session, Keeps(s, t), Fit(s)
    PROVE  Fit(t)
  <1>1. Counted(t)
    BY DEF Fit, Keeps, Counted
  <1> QED
    BY <1>1, KeepsLined DEF Fit

(* Fields of a session that have no part in what its SDP says.             *)
LEMMA OtherFieldsKeep ==
    ASSUME NEW s \in Session, NEW t, t.medias = s.medias,
           t.aborted = s.aborted, t.bad_answer = s.bad_answer, t.state = s.state,
           t.srv = s.srv, t.remote_sdp = s.remote_sdp, t.local_sdp = s.local_sdp,
           t.remote_media_count = s.remote_media_count, t.remote_held = s.remote_held
    PROVE  Keeps(s, t)
  <1>1. Len(s.medias) <= Len(s.medias)
    BY SlotsType
  <1> QED
    BY <1>1 DEF Keeps, SameLine, Present, Slots

-----------------------------------------------------------------------------
(* Our SDP, line by line.                                                  *)
LEMMA SessionSdpLines ==
    ASSUME NEW s \in Session, NEW authoritative \in BOOLEAN,
           NEW i \in 1..Len(SessionSdp(s, authoritative))
    PROVE  /\ i \in Slots(s)
           /\ SessionSdp(s, authoritative)[i] # None =>
                 /\ i \in Present(s)
                 /\ s.medias[i] \in Media
                 /\ SessionSdp(s, authoritative)[i].type = s.medias[i].type
                 /\ SessionSdp(s, authoritative)[i].dir = SdpDirection(s.medias[i], authoritative)
  <1> DEFINE n == SdpLength(s, authoritative)
  <1>1. /\ n \in 0..Len(s.medias) /\ Len(SessionSdp(s, authoritative)) = n
        /\ Len(s.medias) \in Nat
    BY SessionSdpType, SlotsType
  <1>2. i \in Slots(s) /\ i \in 1..n
    BY <1>1, SlotsType
  <1>3. SessionSdp(s, authoritative)[i] =
            IF s.medias[i] = None THEN None ELSE GenerateSdp(s.medias[i], authoritative)
    BY <1>2 DEF SessionSdp
  <1>4. ASSUME s.medias[i] # None
        PROVE  /\ i \in Present(s) /\ s.medias[i] \in Media
               /\ GenerateSdp(s.medias[i], authoritative).type = s.medias[i].type
               /\ GenerateSdp(s.medias[i], authoritative).dir
                    = SdpDirection(s.medias[i], authoritative)
    BY <1>2, <1>4, SlotType DEF Present, GenerateSdp
  <1> QED
    BY <1>2, <1>3, <1>4

(* An offer of ours keeps the lines the medias lie along.                  *)
LEMMA OfferKeepsLines ==
    ASSUME NEW s \in Session, LinesMatch(s), s.remote_sdp # None
    PROVE  KeepsLines(SessionSdp(s, TRUE), s.remote_sdp)
  <1> DEFINE sdp == SessionSdp(s, TRUE)
  <1>1. Len(sdp) = Len(s.medias) /\ Len(s.medias) \in Nat /\ Len(s.remote_sdp) \in Nat
    BY SessionSdpType, SlotsType, LinesType DEF SdpLength
  <1>2. /\ Len(s.remote_sdp) <= Len(s.medias)
        /\ \A i \in 1..Len(s.remote_sdp) :
              s.medias[i] # None => Shows(s.medias[i], s.remote_sdp[i])
    BY DEF LinesMatch
  <1>3. ASSUME NEW i \in 1..Len(s.remote_sdp), sdp[i] # None
        PROVE  sdp[i].type = s.remote_sdp[i].type
    <2>1. i \in 1..Len(sdp)
      <3> HIDE DEF sdp
      <3> QED
        BY <1>1, <1>2
    <2>2. i \in Present(s) /\ sdp[i].type = s.medias[i].type
      BY <1>3, <2>1, SessionSdpLines
    <2>3. Shows(s.medias[i], s.remote_sdp[i])
      BY <1>2, <2>2 DEF Present
    <2> QED
      BY <2>2, <2>3 DEF Shows
  <1> QED
    BY <1>1, <1>2, <1>3 DEF KeepsLines

(* An answer of ours fits the offer the medias lie along.                  *)
LEMMA AnswerFitsLines ==
    ASSUME NEW s \in Session, LinesMatch(s), s.remote_sdp # None,
           s.remote_media_count = Len(s.remote_sdp)
    PROVE  AnswerFits(SessionSdp(s, FALSE), s.remote_sdp)
  <1> DEFINE sdp == SessionSdp(s, FALSE)
  <1>1. /\ Len(s.medias) \in Nat /\ Len(s.remote_sdp) \in Nat
        /\ Len(s.remote_sdp) <= Len(s.medias)
        /\ \A i \in 1..Len(s.remote_sdp) :
              s.medias[i] # None => Shows(s.medias[i], s.remote_sdp[i])
    BY SlotsType, LinesType DEF LinesMatch
  <1>2. Len(sdp) = Len(s.remote_sdp)
    <2>1. Len(sdp) = SdpLength(s, FALSE)
      BY SessionSdpType
    <2>2. SdpLength(s, FALSE) = Min2(Len(s.medias), Len(s.remote_sdp))
      BY Zenon DEF SdpLength
    <2>3. ASSUME NEW a \in Nat, NEW b \in Nat, b <= a
          PROVE  Min2(a, b) = b
      BY <2>3 DEF Min2
    <2> QED
      BY <1>1, <2>1, <2>2, <2>3, Zenon
  <1>3. ASSUME NEW i \in 1..Len(sdp), sdp[i] # None
        PROVE  /\ ~s.remote_sdp[i].rejected
               /\ sdp[i].type = s.remote_sdp[i].type
               /\ sdp[i].dir \subseteq DirectionFromRemoteMedia(s.remote_sdp[i])
    <2>1. /\ i \in Present(s) /\ s.medias[i] \in Media
          /\ sdp[i].type = s.medias[i].type
          /\ sdp[i].dir = SdpDirection(s.medias[i], FALSE)
      BY <1>3, SessionSdpLines
    <2>2. Shows(s.medias[i], s.remote_sdp[i])
      BY <1>1, <1>2, <2>1 DEF Present
    <2>3. s.remote_sdp[i] \in SdpMedia
      BY <1>2, LinesType
    <2>4. RemoteDirection(s.medias[i]) = DirectionFromRemoteMedia(s.remote_sdp[i])
      BY <2>2, <2>3, MediaAssumption DEF Shows, RemoteDirection
    <2>5. SdpDirection(s.medias[i], FALSE) \subseteq RemoteDirection(s.medias[i])
      <3>1. s.medias[i].remote_media # None
        BY <2>2, <2>3, MediaAssumption DEF Shows
      <3> QED
        BY <3>1, Zenon DEF SdpDirection
    <2> QED
      BY <2>1, <2>2, <2>4, <2>5 DEF Shows
  <1> QED
    BY <1>2, <1>3 DEF AnswerFits

(* A request or a state change of the session.                             *)
LEMMA InviteFit ==
    ASSUME NEW s, NEW reinvite \in BOOLEAN, Fit(s)
    PROVE  Fit(Invite(s, reinvite))
  <1> DEFINE sdp == SessionSdp(s, TRUE)
             n == s.cli + 1
             state == IF reinvite THEN "REINVITE_SENT" ELSE "INVITE_SENT"
             sent == [[s EXCEPT !.cli = n]
                        EXCEPT !.local_sdp = sdp, !.pending_offer = FALSE, !.state = state]
  <1>1. s \in Session /\ Lined(s)
    BY DEF Fit, Lined, Going
  <1>2. Invite(s, reinvite) \in {s, sent}
    BY Zenon DEF Invite, NuaInvite
  <1>3. ASSUME Invite(s, reinvite) = sent
        PROVE  Fit(sent)
    <2>1. sent \in Session
      BY <1>1, <1>3, InviteType
    <2>2. /\ sent.local_sdp = sdp /\ sent.state = state
          /\ sent.medias = s.medias /\ sent.remote_sdp = s.remote_sdp
      <3> HIDE DEF sdp, n, state
      <3> QED
        BY <1>1 DEF Session
    <2>3. /\ sent.aborted = s.aborted /\ sent.bad_answer = s.bad_answer
          /\ sent.srv = s.srv /\ sent.remote_held = s.remote_held
      <3> HIDE DEF sdp, n, state
      <3> QED
        BY <1>1 DEF Session
    <2>4. s.remote_sdp # None => KeepsLines(sdp, s.remote_sdp)
      BY <1>1, OfferKeepsLines DEF Lined
    <2>5. state \in Sent /\ state \notin Received
      BY DEF Sent, Received
    <2> HIDE DEF sent, sdp, state
    <2>6. Going(sent)
      BY <1>1, <2>1, <2>2, <2>3 DEF Lined, Going, SendsNothing, Present, Slots
    <2>7. LinesMatch(sent) /\ GrantsNothing(sent)
      BY <1>1, <2>2, <2>3 DEF Lined, LinesMatch, GrantsNothing, Present, Slots
    <2>8. OfferKept(sent) /\ Counted(sent)
      BY <2>2, <2>4, <2>5 DEF OfferKept, Counted
    <2> QED
      BY <2>6, <2>7, <2>8 DEF Fit, Lined
  <1> HIDE DEF sent
  <1> QED
    BY <1>2, <1>3

(* A state in which no SDP of either side is on its way.                   *)
LEMMA EnterQuietState ==
    ASSUME NEW s, Lined(s), NEW new \in SessionState \ (Sent \cup Received)
    PROVE  Fit([s EXCEPT !.state = new])
  <1> DEFINE t == [s EXCEPT !.state = new]
  <1>1. s \in Session
    BY DEF Lined, Going
  <1>2. t \in Session /\ t.state = new
    BY <1>1 DEF Session
  <1>3. /\ t.medias = s.medias /\ t.remote_sdp = s.remote_sdp
        /\ t.aborted = s.aborted /\ t.bad_answer = s.bad_answer
        /\ t.srv = s.srv /\ t.remote_held = s.remote_held
    BY <1>1 DEF Session
  <1> HIDE DEF t
  <1>4. Going(t)
    BY <1>2, <1>3 DEF Lined, Going, SendsNothing, Present, Slots
  <1>5. LinesMatch(t) /\ GrantsNothing(t)
    BY <1>3 DEF Lined, LinesMatch, GrantsNothing, Present, Slots
  <1>6. OfferKept(t) /\ Counted(t)
    BY <1>2 DEF OfferKept, Counted
  <1> QED
    BY <1>4, <1>5, <1>6 DEF Fit, Lined, t

LEMMA ChangeStateFit ==
    ASSUME NEW s, Lined(s), NEW new \in {"ACTIVE", "RESPONSE_RECEIVED", "REINVITE_PENDING"}
    PROVE  Fit(ChangeState(s, new))
  <1> DEFINE s1 == [s EXCEPT !.state = new]
  <1>1. Fit(s1)
    <2>1. new \in SessionState \ (Sent \cup Received)
      BY DEF SessionState, Sent, Received
    <2> QED
      BY <2>1, EnterQuietState
  <1>2. s.state = new => Fit(s)
    BY DEF Fit, Counted, Received
  <1>3. ChangeState(s, new) = IF s.state = new THEN s
                              ELSE IF new = "ACTIVE" /\ s.pending_offer THEN Invite(s1, TRUE)
                              ELSE s1
    <2>1. new # "ENDED"
      OBVIOUS
    <2> QED
      BY <2>1, Zenon DEF ChangeState
  <1>4. Fit(Invite(s1, TRUE))
    <2> HIDE DEF s1
    <2> QED
      BY <1>1, InviteFit
  <1> HIDE DEF s1
  <1> QED
    BY <1>1, <1>2, <1>3, <1>4

LEMMA EndFit ==
    ASSUME NEW s, Lined(s)
    PROVE  Fit(ChangeState(s, "ENDED"))
  <1> DEFINE s1 == [s EXCEPT !.state = "ENDED"]
             t == NuaDestroy(s1)
  <1>1. Fit(s1)
    <2>1. "ENDED" \in SessionState \ (Sent \cup Received)
      BY DEF SessionState, Sent, Received
    <2> QED
      BY <2>1, EnterQuietState
  <1>2. s.state = "ENDED" => Fit(s)
    BY DEF Fit, Counted, Received
  <1>3. s1 \in Session /\ s1.state = "ENDED"
    BY DEF Lined, Going, Session, SessionState
  <1> HIDE DEF s1
  <1>4. Fit(t)
    <2>1. t \in Session
      BY <1>3, NuaDestroyType
    <2>2. t.medias = s1.medias /\ t.remote_sdp = s1.remote_sdp /\ t.state = s1.state
      BY <1>3 DEF NuaDestroy, Session
    <2>3. /\ t.aborted = s1.aborted /\ t.bad_answer = s1.bad_answer
          /\ t.srv = "none" /\ t.remote_held = s1.remote_held
      BY <1>3 DEF NuaDestroy, Session
    <2> HIDE DEF t
    <2>4. Going(t)
      BY <1>1, <2>1, <2>2, <2>3 DEF Fit, Lined, Going, SendsNothing, Present, Slots
    <2>5. LinesMatch(t) /\ GrantsNothing(t)
      BY <1>1, <2>2, <2>3 DEF Fit, Lined, LinesMatch, GrantsNothing, Present, Slots
    <2>6. OfferKept(t) /\ Counted(t)
      BY <1>3, <2>2 DEF OfferKept, Counted, Sent, Received
    <2> QED
      BY <2>4, <2>5, <2>6 DEF Fit, Lined
  <1>5. ChangeState(s, "ENDED") = IF s.state = "ENDED" THEN s ELSE t
    BY Zenon DEF ChangeState, s1
  <1> HIDE DEF t
  <1> QED
    BY <1>2, <1>4, <1>5

(* A response takes nothing but the peer's request with it.                *)
LEMMA NuaRespondLined ==
    ASSUME NEW s, Lined(s)
    PROVE  /\ Lined(NuaRespond(s))
           /\ Lined([NuaRespond(s) EXCEPT !.saved_event = FALSE])
  <1> DEFINE t == NuaRespond(s)
             u == [t EXCEPT !.saved_event = FALSE]
             Same(q) == /\ q \in Session
                        /\ q.medias = s.medias /\ q.remote_sdp = s.remote_sdp
                        /\ q.state = s.state /\ q.local_sdp = s.local_sdp
                        /\ q.aborted = s.aborted /\ q.bad_answer = s.bad_answer
                        /\ q.srv = "none" /\ q.remote_held = s.remote_held
  <1>1. s \in Session
    BY DEF Lined, Going
  <1>2. Same(t)
    <2>1. t \in Session
      BY <1>1, NuaRespondType
    <2>2. /\ t.medias = s.medias /\ t.remote_sdp = s.remote_sdp
          /\ t.state = s.state /\ t.local_sdp = s.local_sdp
      BY <1>1 DEF NuaRespond, Session
    <2>3. /\ t.aborted = s.aborted /\ t.bad_answer = s.bad_answer
          /\ t.srv = "none" /\ t.remote_held = s.remote_held
      BY <1>1 DEF NuaRespond, Session
    <2> QED
      BY <2>1, <2>2, <2>3
  <1> HIDE DEF t
  <1>3. Same(u)
    <2>1. u \in Session
      BY <1>2 DEF Session
    <2>2. /\ u.medias = s.medias /\ u.remote_sdp = s.remote_sdp
          /\ u.state = s.state /\ u.local_sdp = s.local_sdp
      BY <1>2 DEF Session
    <2>3. /\ u.aborted = s.aborted /\ u.bad_answer = s.bad_answer
          /\ u.srv = "none" /\ u.remote_held = s.remote_held
      BY <1>2 DEF Session
    <2> QED
      BY <2>1, <2>2, <2>3
  <1> HIDE DEF u
  <1>4. ASSUME NEW q, Same(q)
        PROVE  Lined(q)
    <2>1. Going(q)
      BY <1>4 DEF Lined, Going, SendsNothing, Present, Slots
    <2>2. LinesMatch(q) /\ GrantsNothing(q)
      BY <1>4 DEF Lined, LinesMatch, GrantsNothing, Present, Slots
    <2>3. OfferKept(q)
      BY <1>4 DEF Lined, OfferKept
    <2> QED
      BY <2>1, <2>2, <2>3 DEF Lined
  <1> QED
    BY <1>2, <1>3, <1>4 DEF u, t

LEMMA TerminateFit ==
    ASSUME NEW s, Lined(s)
    PROVE  Fit(Terminate(s))
  <1> DEFINE t == NuaRespond(s)
             u == [t EXCEPT !.saved_event = FALSE]
  <1>1. Lined(t) /\ Lined(u)
    BY NuaRespondLined
  <1>2. s.state = "ENDED" => Fit(s)
    BY DEF Fit, Counted, Received
  <1>3. Terminate(s) = IF s.state = "ENDED" THEN s
                       ELSE ChangeState(IF ~s.nua_op THEN s
                                        ELSE IF s.state = "INVITE_RECEIVED" THEN t
                                        ELSE IF s.state = "REINVITE_RECEIVED" /\ s.saved_event
                                        THEN u ELSE s, "ENDED")
    BY Zenon DEF Terminate
  <1> HIDE DEF t, u
  <1>4. Terminate(s) \in {s, ChangeState(t, "ENDED"), ChangeState(u, "ENDED"),
                          ChangeState(s, "ENDED")}
        /\ (Terminate(s) = s => s.state = "ENDED" \/ ChangeState(s, "ENDED") = s
                                \/ ChangeState(t, "ENDED") = s \/ ChangeState(u, "ENDED") = s)
    BY <1>3, Zenon
  <1> QED
    BY <1>1, <1>2, <1>4, EndFit

(* The answer to the peer's request becomes the direction in force; a held *)
(* line takes no SEND from it.                                             *)
LEMMA GeneratedLine ==
    ASSUME NEW m \in Media
    PROVE  /\ GeneratedDirection(m, FALSE).type = m.type
           /\ GeneratedDirection(m, FALSE).remote_media = m.remote_media
           /\ GeneratedDirection(m, FALSE).direction = SdpDirection(m, FALSE)
           /\ GeneratedDirection(m, FALSE) # None
  <1> DEFINE dir == SdpDirection(m, FALSE)
             p == [m EXCEPT !.direction = dir]
  <1>1. GeneratedDirection(m, FALSE) = p
    BY Zenon DEF GeneratedDirection
  <1>2. p.type = m.type /\ p.remote_media = m.remote_media /\ p.direction = dir
    <2> HIDE DEF dir
    <2> QED
      BY DEF Media
  <1>3. GeneratedDirection(m, FALSE) \in Media
    BY GeneratedType
  <1> HIDE DEF p, dir
  <1> QED
    BY <1>1, <1>2, <1>3, MediaAssumption DEF dir

LEMMA AnsweredLined ==
    ASSUME NEW s, Fit(s), s.state \in Received
    PROVE  Lined(Answered(s))
  <1> DEFINE sdp == SessionSdp(s, FALSE)
             medias == [i \in Slots(s) |->
                          IF s.medias[i] = None \/ i > Len(sdp) THEN s.medias[i]
                          ELSE GeneratedDirection(s.medias[i], FALSE)]
             t == NuaRespond(s)
             bad == t.bad_answer \/ (s.srv = "offer" /\ ~AnswerFits(sdp, s.remote_sdp))
             ack == IF s.srv = "delayed" THEN sdp ELSE t.ack
             s1 == [t EXCEPT !.local_sdp = sdp, !.ack = ack, !.medias = medias,
                             !.bad_answer = bad, !.saved_event = FALSE]
  <1>1. s \in Session /\ LinesMatch(s) /\ Len(s.medias) \in Nat /\ Slots(s) = 1..Len(s.medias)
    BY SlotsType DEF Fit, Lined, Going
  <1>0. Len(sdp) \in Nat
    <2>1. sdp \in Seq(LocalLine)
      BY <1>1, SessionSdpType
    <2> HIDE DEF sdp
    <2> QED
      BY <2>1, LenProperties
  <1>2. Answered(s) = s1 /\ s1 \in Session
    <2>1. Answered(s) = s1
      BY Zenon DEF Answered
    <2> QED
      BY <1>1, <2>1, AnsweredType
  <1>3. Lined(t) /\ t \in Session /\ t.srv = "none"
    <2>1. Lined(t)
      BY NuaRespondLined DEF Fit
    <2>2. t.srv = "none"
      BY <1>1 DEF NuaRespond, Session
    <2> QED
      BY <2>1, <2>2 DEF Lined, Going
  <1>4. /\ t.state = s.state /\ t.remote_sdp = s.remote_sdp
        /\ t.remote_held = s.remote_held /\ t.bad_answer = s.bad_answer
    BY <1>1 DEF NuaRespond, Session
  <1>5. ~bad
    <2>1. CASE s.srv = "offer"
      <3>1. s.remote_sdp # None /\ s.remote_media_count = Len(s.remote_sdp)
        BY <2>1 DEF Fit, Counted
      <3>2. AnswerFits(sdp, s.remote_sdp)
        BY <1>1, <3>1, AnswerFitsLines
      <3> HIDE DEF sdp
      <3> QED
        BY <1>3, <3>2 DEF Lined, Going
    <2> QED
      BY <1>3, <2>1 DEF Lined, Going
  <1>6. /\ s1.medias = medias /\ s1.bad_answer = bad
        /\ s1.state = t.state /\ s1.srv = t.srv
        /\ s1.remote_sdp = t.remote_sdp /\ s1.aborted = t.aborted
        /\ s1.remote_held = t.remote_held
    <2> HIDE DEF sdp, ack, medias, t, bad
    <2>1. /\ s1.medias = medias /\ s1.bad_answer = bad
          /\ s1.state = t.state /\ s1.srv = t.srv
      BY <1>3 DEF Session
    <2>2. /\ s1.remote_sdp = t.remote_sdp /\ s1.aborted = t.aborted
          /\ s1.remote_held = t.remote_held
      BY <1>3 DEF Session
    <2> QED
      BY <2>1, <2>2
  <1>7. Len(medias) = Len(s.medias) /\ DOMAIN medias = Slots(s)
    <2>1. medias = [i \in 1..Len(s.medias) |-> medias[i]]
      BY <1>1
    <2> HIDE DEF medias
    <2> QED
      BY <1>1, <2>1, LenProperties
  <1>8. ASSUME NEW i \in Slots(s), medias[i] # None
        PROVE  /\ i \in Present(s)
               /\ medias[i].type = s.medias[i].type
               /\ medias[i].remote_media = s.medias[i].remote_media
               /\ \/ medias[i].direction = s.medias[i].direction
                  \/ i <= Len(sdp) /\ medias[i].direction = SdpDirection(s.medias[i], FALSE)
    <2>1. medias[i] = IF s.medias[i] = None \/ i > Len(sdp) THEN s.medias[i]
                      ELSE GeneratedDirection(s.medias[i], FALSE)
      OBVIOUS
    <2>2. s.medias[i] # None
      BY <1>8, <2>1, Zenon
    <2>3. i \in Present(s) /\ s.medias[i] \in Media
      BY <1>1, <2>2, SlotType DEF Present
    <2> HIDE DEF sdp, medias
    <2>5. CASE i > Len(sdp)
      <3>1. medias[i] = s.medias[i]
        BY <2>1, <2>5, Zenon
      <3> QED
        BY <2>3, <3>1, Zenon
    <2>6. CASE ~(i > Len(sdp))
      <3>1. medias[i] = GeneratedDirection(s.medias[i], FALSE)
        BY <2>1, <2>2, <2>6, Zenon
      <3>2. i <= Len(sdp)
        BY <1>0, <1>1, <2>6
      <3> QED
        BY <2>3, <3>1, <3>2, GeneratedLine
    <2> QED
      BY <2>5, <2>6
  <1> HIDE DEF medias, bad, ack, t
  <1>9. SendsNothing(s1)
    <2> SUFFICES ASSUME "delay" \notin PeerMay, s1.remote_held, NEW i \in Present(s1)
                 PROVE  "SEND" \notin s1.medias[i].direction
      BY DEF SendsNothing
    <2>1. i \in Slots(s) /\ medias[i] # None /\ s.remote_held
      BY <1>1, <1>4, <1>6, <1>7 DEF Present, Slots
    <2>2. i \in Present(s) /\ "SEND" \notin s.medias[i].direction
      BY <1>8, <2>1 DEF Fit, Lined, Going, SendsNothing
    <2>3. CASE medias[i].direction = s.medias[i].direction
      BY <1>6, <2>2, <2>3
    <2>4. CASE i <= Len(sdp) /\ medias[i].direction = SdpDirection(s.medias[i], FALSE)
      <3>1. s.remote_sdp # None /\ s.remote_media_count = Len(s.remote_sdp)
        BY DEF Fit, Lined, Going, Counted
      <3>2. AnswerFits(sdp, s.remote_sdp)
        BY <1>1, <3>1, AnswerFitsLines
      <3>3. i \in 1..Len(sdp)
        <4> HIDE DEF sdp
        <4> QED
          BY <1>0, <1>1, <2>1, <2>4
      <3>4. sdp[i] # None /\ sdp[i].dir = SdpDirection(s.medias[i], FALSE)
        <4>1. sdp[i] = GenerateSdp(s.medias[i], FALSE)
          <5>1. i \in 1..SdpLength(s, FALSE)
            BY <1>1, <3>3, SessionSdpType
          <5> QED
            BY <2>2, <5>1 DEF SessionSdp, Present
        <4>2. GenerateSdp(s.medias[i], FALSE) \in LocalLine \ {None}
          <5>1. s.medias[i] \in Media
            BY <1>1, <2>1, <2>2, SlotType
          <5>2. GenerateSdp(s.medias[i], FALSE) \in
                  [type : SupportedType, dir : SUBSET Direction, codecs : CodecLists \cup {None}]
            BY <5>1, GeneratedType, Zenon
          <5> QED
            BY <5>2, LocalLineAssumption DEF LocalLine
        <4>3. GenerateSdp(s.medias[i], FALSE).dir = SdpDirection(s.medias[i], FALSE)
          BY DEF GenerateSdp
        <4> HIDE DEF sdp
        <4> QED
          BY <4>1, <4>2, <4>3
      <3>5. /\ Len(sdp) = Len(s.remote_sdp)
            /\ sdp[i].dir \subseteq DirectionFromRemoteMedia(s.remote_sdp[i])
        <4> HIDE DEF sdp
        <4> QED
          BY <3>2, <3>3, <3>4 DEF AnswerFits
      <3>6. "SEND" \notin DirectionFromRemoteMedia(s.remote_sdp[i])
        <4>1. i <= Len(s.remote_sdp)
          BY <2>4, <3>5
        <4> QED
          BY <2>1, <2>2, <3>1, <4>1 DEF Fit, Lined, GrantsNothing
      <3> HIDE DEF sdp
      <3> QED
        BY <1>6, <2>4, <3>4, <3>5, <3>6
    <2> QED
      BY <1>8, <2>1, <2>3, <2>4
  <1> HIDE DEF s1
  <1>10. Going(s1)
    BY <1>2, <1>3, <1>5, <1>6, <1>9 DEF Lined, Going
  <1>11. LinesMatch(s1)
    <2> SUFFICES ASSUME s1.remote_sdp # None
                 PROVE  /\ Len(s1.remote_sdp) <= Len(s1.medias)
                        /\ \A i \in 1..Len(s1.remote_sdp) :
                              s1.medias[i] # None => Shows(s1.medias[i], s1.remote_sdp[i])
      BY DEF LinesMatch
    <2>1. s1.remote_sdp = s.remote_sdp /\ Len(s.remote_sdp) \in Nat
      BY <1>1, <1>4, <1>6, LinesType
    <2>2. /\ Len(s.remote_sdp) <= Len(s.medias)
          /\ \A i \in 1..Len(s.remote_sdp) :
                s.medias[i] # None => Shows(s.medias[i], s.remote_sdp[i])
      BY <1>1, <2>1 DEF LinesMatch
    <2>3. ASSUME NEW i \in 1..Len(s.remote_sdp), medias[i] # None
          PROVE  Shows(medias[i], s.remote_sdp[i])
      <3>1. i \in Slots(s)
        BY <1>1, <2>1, <2>2
      <3>2. /\ i \in Present(s) /\ medias[i].type = s.medias[i].type
            /\ medias[i].remote_media = s.medias[i].remote_media
        BY <1>8, <2>3, <3>1
      <3> QED
        BY <2>2, <3>2 DEF Shows, Present
    <2> QED
      BY <1>6, <1>7, <2>1, <2>2, <2>3
  <1>12. GrantsNothing(s1)
    BY <1>1, <1>4, <1>6, <1>7, <1>8 DEF Fit, Lined, GrantsNothing, Present, Slots
  <1>13. OfferKept(s1)
    BY <1>4, <1>6 DEF OfferKept, Sent, Received
  <1> QED
    BY <1>2, <1>10, <1>11, <1>12, <1>13 DEF Lined

LEMMA RespondFit ==
    ASSUME NEW s, Fit(s), s.state \in Received
    PROVE  Fit(Respond(s))
  <1>1. Respond(s) \in {s, ChangeState(Answered(s), "ACTIVE")}
    BY Zenon DEF Respond
  <1>2. Fit(ChangeState(Answered(s), "ACTIVE"))
    BY AnsweredLined, ChangeStateFit
  <1> QED
    BY <1>1, <1>2

LEMMA RequestResponseStepFit ==
    ASSUME NEW s, Fit(s)
    PROVE  Fit(RequestResponseStep(s))
  <1>1. s.state \in SessionState /\ Lined(s)
    BY DEF Fit, Lined, Going, Session
  <1>2. CASE s.state = "CREATED"
    <2>1. RequestResponseStep(s) \in {s, Invite(s, FALSE)}
      BY <1>2, Zenon DEF RequestResponseStep
    <2> QED
      BY <2>1, InviteFit
  <1>3. CASE s.state \in Received
    <2>1. RequestResponseStep(s) \in {s, Respond(s)}
      BY <1>3 DEF RequestResponseStep, Received
    <2> QED
      BY <1>3, <2>1, RespondFit
  <1>4. CASE s.state = "RESPONSE_RECEIVED"
    <2>1. RequestResponseStep(s) \in {s, ChangeState(s, "ACTIVE")}
      BY <1>4 DEF RequestResponseStep
    <2> QED
      BY <1>1, <2>1, ChangeStateFit
  <1>5. CASE s.state \in {"ACTIVE", "REINVITE_PENDING"}
    <2>1. RequestResponseStep(s) \in {s, Invite(s, TRUE)}
      BY <1>5 DEF RequestResponseStep
    <2> QED
      BY <2>1, InviteFit
  <1>6. CASE s.state \in {"INVITE_SENT", "REINVITE_SENT", "ENDED"}
    <2>1. RequestResponseStep(s) = s
      BY <1>6 DEF RequestResponseStep
    <2> QED
      BY <2>1
  <1> QED
    BY <1>1, <1>2, <1>3, <1>4, <1>5, <1>6 DEF SessionState, Received

LEMMA AcceptSessionFit ==
    ASSUME NEW s, Fit(s)
    PROVE  Fit(AcceptSession(s))
  <1> DEFINE s1 == [s EXCEPT !.accepted = TRUE]
  <1>1. s \in Session
    BY DEF Fit, Lined, Going
  <1>2. Fit(s1)
    <2>1. s1 \in Session
      BY <1>1 DEF Session
    <2>2. /\ s1.medias = s.medias /\ s1.aborted = s.aborted
          /\ s1.bad_answer = s.bad_answer /\ s1.state = s.state
          /\ s1.srv = s.srv
      BY <1>1 DEF Session
    <2>3. /\ s1.remote_sdp = s.remote_sdp /\ s1.local_sdp = s.local_sdp
          /\ s1.remote_media_count = s.remote_media_count
          /\ s1.remote_held = s.remote_held
      BY <1>1 DEF Session
    <2> HIDE DEF s1
    <2>4. Keeps(s, s1)
      BY <1>1, <2>2, <2>3, OtherFieldsKeep
    <2> QED
      BY <2>1, <2>4, KeepsFit
  <1>3. AcceptSession(s) \in {s, RequestResponseStep(s1)}
    BY Zenon DEF AcceptSession
  <1> HIDE DEF s1
  <1> QED
    BY <1>2, <1>3, RequestResponseStepFit

LEMMA SetPendingFit ==
    ASSUME NEW s, Fit(s), NEW b \in BOOLEAN
    PROVE  Fit([s EXCEPT !.pending_offer = b])
  <1> DEFINE s1 == [s EXCEPT !.pending_offer = b]
  <1>1. s \in Session
    BY DEF Fit, Lined, Going
  <1>2. s1 \in Session
    BY <1>1 DEF Session
  <1>3. /\ s1.medias = s.medias /\ s1.aborted = s.aborted
        /\ s1.bad_answer = s.bad_answer /\ s1.state = s.state
        /\ s1.srv = s.srv
    BY <1>1 DEF Session
  <1>4. /\ s1.remote_sdp = s.remote_sdp /\ s1.local_sdp = s.local_sdp
        /\ s1.remote_media_count = s.remote_media_count
        /\ s1.remote_held = s.remote_held
    BY <1>1 DEF Session
  <1> HIDE DEF s1
  <1>5. Keeps(s, s1)
    BY <1>1, <1>3, <1>4, OtherFieldsKeep
  <1>6. Fit(s1)
    BY <1>2, <1>5, KeepsFit
  <1> QED
    BY <1>6 DEF s1

LEMMA MediaChangedFit ==
    ASSUME NEW s, Fit(s)
    PROVE  Fit(MediaChanged(s))
  <1> DEFINE pending == s.pending_offer \/ s.remote_media_count < Len(s.medias)
             s1 == [s EXCEPT !.pending_offer = pending]
             s2 == [s EXCEPT !.pending_offer = TRUE]
             r == RequestResponseStep(s)
             v == Invite(s, TRUE)
             ready == AllMediaReady(s)
  <1>1. s \in Session /\ s.state \in SessionState
    BY DEF Fit, Lined, Going, Session
  <1>2. Fit(s1) /\ Fit(s2)
    <2>1. pending \in BOOLEAN
      BY <1>1 DEF Session
    <2> HIDE DEF pending
    <2> QED
      BY <2>1, SetPendingFit
  <1>3. Fit(r) /\ Fit(v)
    BY RequestResponseStepFit, InviteFit
  <1>4. MediaChanged(s) =
          CASE s.state = "CREATED" -> r
            [] s.state \in {"INVITE_RECEIVED", "REINVITE_RECEIVED"} -> s1
            [] s.state \in {"INVITE_SENT", "REINVITE_SENT", "RESPONSE_RECEIVED"} -> s2
            [] s.state = "ACTIVE" /\ ImmutableStreams -> s
            [] \/ s.state = "ACTIVE" /\ ~ImmutableStreams
               \/ s.state = "REINVITE_PENDING" -> IF ready THEN v ELSE s2
            [] s.state = "ENDED" -> s
    BY Zenon DEF MediaChanged
  <1>5. MediaChanged(s) \in {s, s1, s2, r, v}
    <2> HIDE DEF s1, s2, r, v, ready
    <2> QED
      BY <1>1, <1>4 DEF SessionState
  <1> HIDE DEF s1, s2, r, v
  <1> QED
    BY <1>2, <1>3, <1>5

LEMMA AddMediaFit ==
    ASSUME NEW s, Fit(s), NEW type \in SupportedType, NEW direction \in SUBSET Direction
    PROVE  Fit(AddMedia(s, type, direction))
  <1> DEFINE initial == s.state \in {"CREATED", "INVITE_RECEIVED"}
             s1 == IF initial /\ direction # Bidirectional THEN MediaChanged(s) ELSE s
             m == NewMedia(type, IF initial THEN Bidirectional ELSE direction,
                           TRUE, s.hold_requested)
             medias == Append(s1.medias, m)
             t == [s1 EXCEPT !.medias = medias]
  <1>1. Fit(s1) /\ s1 \in Session
    <2>1. Fit(s1)
      BY MediaChangedFit
    <2> QED
      BY <2>1 DEF Fit, Lined, Going
  <1>2. AddMedia(s, type, direction) = t
    BY Zenon DEF AddMedia
  <1>3. t \in Session
    <2>1. s \in Session
      BY DEF Fit, Lined, Going
    <2>2. AddMedia(s, type, direction) \in Session
      BY <2>1, AddMediaType
    <2> QED
      BY <1>2, <2>2, Zenon
  <1>4. "SEND" \notin m.direction
    BY DEF NewMedia
  <1>5. Keeps(s1, t)
    <2> HIDE DEF s1, m, initial
    <2>1. s1.medias \in Seq(Slot) /\ Len(s1.medias) \in Nat
      BY <1>1, SlotsType DEF Session
    <2>2. /\ Len(medias) = Len(s1.medias) + 1
          /\ \A i \in 1..Len(s1.medias) : medias[i] = s1.medias[i]
          /\ medias[Len(s1.medias) + 1] = m
      BY <2>1
    <2> HIDE DEF medias
    <2>3. /\ t.medias = medias /\ t.aborted = s1.aborted
          /\ t.bad_answer = s1.bad_answer /\ t.state = s1.state
          /\ t.srv = s1.srv
      BY <1>1 DEF Session
    <2>4. /\ t.remote_sdp = s1.remote_sdp /\ t.local_sdp = s1.local_sdp
          /\ t.remote_media_count = s1.remote_media_count
          /\ t.remote_held = s1.remote_held
      BY <1>1 DEF Session
    <2> HIDE DEF t
    <2>5. ASSUME NEW i \in Present(t)
          PROVE  \/ i \in Present(s1) /\ SameLine(s1.medias[i], t.medias[i])
                 \/ i \notin Slots(s1) /\ "SEND" \notin t.medias[i].direction
      <3>1. i \in 1..Len(s1.medias) \/ i = Len(s1.medias) + 1
        BY <2>1, <2>2, <2>3 DEF Present, Slots
      <3>2. CASE i \in 1..Len(s1.medias)
        BY <2>2, <2>3, <3>2 DEF Present, Slots, SameLine
      <3>3. CASE i = Len(s1.medias) + 1
        BY <1>4, <2>1, <2>2, <2>3, <3>3 DEF Slots
      <3> QED
        BY <3>1, <3>2, <3>3
    <2>6. Len(s1.medias) <= Len(t.medias)
      BY <2>1, <2>2, <2>3
    <2> QED
      BY <2>3, <2>4, <2>5, <2>6 DEF Keeps
  <1> HIDE DEF s1, t
  <1> QED
    BY <1>1, <1>2, <1>3, <1>5, KeepsFit

-----------------------------------------------------------------------------
(* The peer's SDP lays the medias along its lines.                         *)
LEMMA UpdatedSlotLine ==
    ASSUME NEW s \in Session, NEW i \in Nat \ {0}, NEW line \in SdpMedia,
           NEW authoritative \in BOOLEAN,
           UpdatedSlot(s, i, line, authoritative) # None
    PROVE  LET p == UpdatedSlot(s, i, line, authoritative)
           IN  /\ Shows(p, line)
               /\ p.direction \subseteq DirectionFromRemoteMedia(line)
               /\ DirectionFromRemoteMedia(line) \cap p.requested_direction \subseteq p.direction
  <1> DEFINE kept == i <= Len(s.medias) /\ s.medias[i] # None /\ s.medias[i].type = line.type
             new == NewMedia(line.type, DirectionFromRemoteMedia(line) \cap {"RECEIVE"},
                             FALSE, s.hold_requested)
             m == IF kept THEN s.medias[i] ELSE new
             p == SetRemoteMedia(m, line, authoritative)
  <1>1. UpdatedSlot(s, i, line, authoritative) =
            IF AcceptableRemoteMedia(line) /\ line.type \in SupportedType THEN p ELSE None
    BY Zenon DEF UpdatedSlot
  <1>2. /\ UpdatedSlot(s, i, line, authoritative) = p
        /\ ~line.rejected /\ line.type \in SupportedType
    <2> HIDE DEF p
    <2> QED
      BY <1>1 DEF AcceptableRemoteMedia
  <1>3. m \in Media /\ m.type = line.type
    <2>1. ASSUME kept
          PROVE  s.medias[i] \in Media /\ s.medias[i].type = line.type
      <3>1. i \in Slots(s)
        BY <2>1, SlotsType
      <3> QED
        BY <2>1, <3>1, SlotType DEF Present
    <2>2. new \in Media /\ new.type = line.type
      <3>1. s.hold_requested \in BOOLEAN
        BY DEF Session
      <3>2. DirectionFromRemoteMedia(line) \cap {"RECEIVE"} \in SUBSET Direction
        BY LineDirection
      <3>3. new \in Media
        BY <1>2, <3>1, <3>2, NewMediaType
      <3>4. new.type = line.type
        BY DEF NewMedia
      <3> QED
        BY <3>3, <3>4
    <2> HIDE DEF kept, new
    <2> QED
      BY <2>1, <2>2
  <1> HIDE DEF m
  <1>4. /\ p.type = m.type
        /\ p.requested_direction = m.requested_direction
        /\ p.remote_media = line
        /\ p.direction \subseteq DirectionFromRemoteMedia(line)
        /\ DirectionFromRemoteMedia(line) \cap m.requested_direction \subseteq p.direction
    BY <1>3, SetRemoteMediaLine
  <1> HIDE DEF p
  <1> QED
    BY <1>2, <1>3, <1>4 DEF Shows

LEMMA UpdateRemoteMediaLined ==
    ASSUME NEW s, Going(s), s.remote_sdp \in Seq(SdpMedia), s.state \notin Sent,
           NEW authoritative \in BOOLEAN
    PROVE  LET t == UpdateRemoteMedia(s, authoritative)
           IN  \/ Stopped(t)
               \/ /\ Lined(t)
                  /\ t.state = s.state /\ t.srv = s.srv /\ t.remote_sdp = s.remote_sdp
                  /\ t.remote_media_count = s.remote_media_count
  <1> DEFINE n == Len(s.remote_sdp)
             top == Max2(n, Len(s.medias))
             medias == [i \in 1..top |->
                          IF i <= n THEN UpdatedSlot(s, i, s.remote_sdp[i], authoritative)
                          ELSE IF s.pending_offer THEN s.medias[i] ELSE None]
             stale == s.stale_read \/ \E i \in Present(s) :
                        /\ i <= n
                        /\ AcceptableRemoteMedia(s.remote_sdp[i])
                        /\ s.medias[i].type = s.remote_sdp[i].type
                        /\ s.medias[i].home = "freed"
             s1 == [s EXCEPT !.medias = medias, !.stale_read = stale]
             held == RemotelyHeld(s1)
             s2 == [s1 EXCEPT !.remote_held = held]
             s3 == [s EXCEPT !.aborted = "slot"]
             t == UpdateRemoteMedia(s, authoritative)
             lined == \E i \in Present(s1) : i <= n
             Same(q) == /\ q.medias = medias
                        /\ q.aborted = s.aborted /\ q.bad_answer = s.bad_answer
                        /\ q.state = s.state /\ q.srv = s.srv
                        /\ q.remote_sdp = s.remote_sdp
                        /\ q.remote_media_count = s.remote_media_count
  <1>1. /\ s \in Session /\ n \in Nat /\ Len(s.medias) \in Nat /\ top \in Nat
        /\ n <= top /\ Len(s.medias) <= top /\ (top = n \/ top = Len(s.medias))
    <2>1. s \in Session
      BY DEF Going
    <2>2. n \in Nat /\ Len(s.medias) \in Nat
      BY <2>1, LenProperties, SlotsType
    <2> QED
      BY <2>1, <2>2 DEF Max2
  <1>2. ASSUME NEW i \in 1..n
        PROVE  s.remote_sdp[i] \in SdpMedia /\ i \in Nat \ {0}
    <2>1. s.remote_sdp[i] \in SdpMedia
      BY ElementOfSeq
    <2> QED
      BY <1>1, <2>1
  <1>3. medias \in Seq(Slot) /\ Len(medias) = top
    <2>1. ASSUME NEW i \in 1..top
          PROVE  medias[i] \in Slot
      <3>1. CASE i <= n
        <4>1. i \in 1..n
          BY <1>1, <3>1
        <4>2. medias[i] = UpdatedSlot(s, i, s.remote_sdp[i], authoritative)
          BY <3>1
        <4> QED
          BY <1>1, <1>2, <4>1, <4>2, UpdatedSlotType
      <3>2. CASE ~(i <= n)
        <4>1. i \in Slots(s)
          BY <1>1, <3>2, SlotsType
        <4>2. medias[i] \in {s.medias[i], None}
          BY <3>2
        <4> QED
          BY <1>1, <4>1, <4>2, SlotType DEF Slot
      <3> QED
        BY <3>1, <3>2
    <2>2. medias \in [1..top -> Slot]
      BY <2>1
    <2> HIDE DEF medias, top
    <2>3. medias \in Seq(Slot)
      BY <1>1, <2>2, MediasType
    <2> QED
      BY <1>1, <2>2, <2>3, LenProperties
  <1>4. ASSUME NEW i \in 1..n, medias[i] # None
        PROVE  /\ Shows(medias[i], s.remote_sdp[i])
               /\ DirectionFromRemoteMedia(s.remote_sdp[i]) \cap medias[i].requested_direction
                    \subseteq medias[i].direction
    <2>1. i \in 1..top /\ i <= n
      BY <1>1
    <2>2. medias[i] = UpdatedSlot(s, i, s.remote_sdp[i], authoritative)
      BY <2>1
    <2> HIDE DEF medias
    <2> QED
      BY <1>1, <1>2, <1>4, <2>2, UpdatedSlotLine
  <1>5. ASSUME NEW i \in 1..top, ~(i <= n), medias[i] # None
        PROVE  i \in Present(s) /\ medias[i] = s.medias[i]
    <2>1. i \in Slots(s)
      BY <1>1, <1>5, SlotsType
    <2>2. medias[i] \in {s.medias[i], None}
      BY <1>5
    <2> HIDE DEF medias
    <2> QED
      BY <1>5, <2>1, <2>2 DEF Present
  <1>6. s1 \in Session /\ Same(s1) /\ s1.remote_held = s.remote_held
    <2>1. stale \in BOOLEAN
      BY <1>1 DEF Session
    <2> HIDE DEF medias, stale, n
    <2>2. s1 \in Session
      BY <1>1, <1>3, <2>1 DEF Session
    <2>3. /\ s1.medias = medias /\ s1.aborted = s.aborted
          /\ s1.bad_answer = s.bad_answer /\ s1.state = s.state
      BY <1>1 DEF Session
    <2>4. /\ s1.srv = s.srv /\ s1.remote_sdp = s.remote_sdp
          /\ s1.remote_media_count = s.remote_media_count
          /\ s1.remote_held = s.remote_held
      BY <1>1 DEF Session
    <2> QED
      BY <2>2, <2>3, <2>4
  <1>7. s2 \in Session /\ Same(s2) /\ s2.remote_held = held
    <2>1. held \in BOOLEAN
      BY DEF RemotelyHeld
    <2> HIDE DEF s1, held, medias
    <2>2. s2 \in Session
      BY <1>6, <2>1 DEF Session
    <2>3. /\ s2.medias = s1.medias /\ s2.aborted = s1.aborted
          /\ s2.bad_answer = s1.bad_answer /\ s2.state = s1.state
      BY <1>6 DEF Session
    <2>4. /\ s2.srv = s1.srv /\ s2.remote_sdp = s1.remote_sdp
          /\ s2.remote_media_count = s1.remote_media_count
          /\ s2.remote_held = held
      BY <1>6 DEF Session
    <2> QED
      BY <1>6, <2>2, <2>3, <2>4
  <1>8. Stopped(s3)
    <2>1. s3 \in Session /\ s3.aborted # "none"
      BY ZenonT(60), <1>1 DEF Session
    <2>2. /\ s3.bad_answer = s.bad_answer /\ s3.remote_held = s.remote_held
          /\ s3.medias = s.medias
      BY <1>1 DEF Session
    <2> HIDE DEF s3
    <2> QED
      BY <2>1, <2>2 DEF Going, Stopped, SendsNothing, Present, Slots
  <1>9. t \in {s3, s1, s2} /\ (t = s2 \/ t = s3 \/ (t = s1 /\ ~lined))
    <2>1. t = IF SlotAssertionFails(s) THEN s3 ELSE IF lined THEN s2 ELSE s1
      BY Zenon DEF UpdateRemoteMedia
    <2> HIDE DEF t, s1, s2, s3, lined
    <2> QED
      BY <2>1
  <1>10. Present(s1) = {i \in 1..top : medias[i] # None}
    BY <1>3, <1>6 DEF Present, Slots
  <1> HIDE DEF medias, top, s1, s2, s3, t, stale
  <1>11. ASSUME NEW q \in Session, Same(q), SendsNothing(q), GrantsNothing(q)
         PROVE  /\ Lined(q)
                /\ q.state = s.state /\ q.srv = s.srv /\ q.remote_sdp = s.remote_sdp
                /\ q.remote_media_count = s.remote_media_count
    <2>1. Going(q)
      BY <1>11 DEF Going
    <2>2. LinesMatch(q)
      BY <1>1, <1>3, <1>4, <1>11 DEF LinesMatch
    <2>3. OfferKept(q)
      BY <1>11 DEF OfferKept
    <2> QED
      BY <1>11, <2>1, <2>2, <2>3 DEF Lined
  <1>12. ASSUME ~lined
         PROVE  SendsNothing(s1) /\ GrantsNothing(s1)
    <2>1. SendsNothing(s1)
      <3>1. ASSUME "delay" \notin PeerMay, s1.remote_held, NEW i \in Present(s1)
            PROVE  "SEND" \notin s1.medias[i].direction
        <4>1. i \in 1..top /\ medias[i] # None /\ ~(i <= n)
          BY <1>10, <1>12
        <4>2. i \in Present(s) /\ medias[i] = s.medias[i]
          BY <1>5, <4>1
        <4> QED
          BY <1>6, <3>1, <4>2 DEF Going, SendsNothing
      <3> QED
        BY <3>1 DEF SendsNothing
    <2>2. GrantsNothing(s1)
      BY <1>6, <1>12 DEF GrantsNothing
    <2> QED
      BY <2>1, <2>2
  <1>13. SendsNothing(s2) /\ GrantsNothing(s2)
    <2> SUFFICES ASSUME s2.remote_held, NEW i \in Present(s2)
                 PROVE  /\ "SEND" \notin s2.medias[i].direction
                        /\ i <= n => "SEND" \notin DirectionFromRemoteMedia(s.remote_sdp[i])
      BY <1>7 DEF SendsNothing, GrantsNothing
    <2>1. i \in Present(s1) /\ s2.medias[i] = medias[i] /\ s1.medias[i] = medias[i]
      BY <1>6, <1>7 DEF Present, Slots
    <2>2. "SEND" \notin medias[i].direction /\ "SEND" \in medias[i].requested_direction
      BY <1>7, <2>1 DEF RemotelyHeld
    <2>3. ASSUME i <= n
          PROVE  "SEND" \notin DirectionFromRemoteMedia(s.remote_sdp[i])
      <3>1. i \in 1..n /\ medias[i] # None
        BY <1>1, <1>10, <2>1, <2>3
      <3> QED
        BY <1>4, <2>2, <3>1
    <2> QED
      BY <2>1, <2>2, <2>3
  <1> HIDE DEF lined, held
  <1>14. \/ Stopped(t)
         \/ /\ Lined(t)
            /\ t.state = s.state /\ t.srv = s.srv /\ t.remote_sdp = s.remote_sdp
            /\ t.remote_media_count = s.remote_media_count
    <2>1. CASE t = s3
      BY <1>8, <2>1
    <2>2. CASE t = s2
      BY <1>7, <1>11, <1>13, <2>2
    <2>3. CASE t = s1 /\ ~lined
      BY <1>6, <1>11, <1>12, <2>3
    <2> QED
      BY <1>9, <2>1, <2>2, <2>3
  <1> QED
    BY <1>14 DEF t

(* A media whose line moves in memory is still there and as directed.      *)
LEMMA ShiftedMedia ==
    ASSUME NEW m \in Slot, NEW junk, NEW old, NEW from, NEW to,
           Rehome(Release(m, old, junk), from, to) # None
    PROVE  /\ m # None
           /\ Rehome(Release(m, old, junk), from, to).direction = m.direction
  <1> DEFINE r == [m EXCEPT !.home = "freed", !.remote_media = junk]
             rt == [r EXCEPT !.home = to]
             mt == [m EXCEPT !.home = to]
             p == Rehome(Release(m, old, junk), from, to)
  <1>1. m # None
    BY Zenon DEF Rehome, Release
  <1>2. m \in Media
    BY <1>1 DEF Slot
  <1>3. p \in {m, r, rt, mt}
    BY Zenon DEF Rehome, Release
  <1>4. r.direction = m.direction /\ mt.direction = m.direction /\ rt.direction = m.direction
    BY <1>2 DEF Media
  <1> HIDE DEF p, r, rt, mt
  <1>5. p.direction = m.direction
    BY <1>3, <1>4
  <1> QED
    BY <1>1, <1>5 DEF p

LEMMA ShiftedMedias ==
    ASSUME NEW s \in Session, NEW t \in Session, SendsNothing(s), NEW f,
           t.remote_held = s.remote_held, t.medias = [i \in Slots(s) |-> f[i]],
           \A i \in Slots(s) :
              f[i] # None => s.medias[i] # None /\ f[i].direction = s.medias[i].direction
    PROVE  SendsNothing(t)
  <1>1. Slots(t) = Slots(s)
    <2> DEFINE g == [i \in Slots(s) |-> f[i]]
    <2>1. /\ Slots(s) = 1..Len(s.medias) /\ Len(s.medias) \in Nat
          /\ Slots(t) = 1..Len(t.medias) /\ Len(t.medias) \in Nat
          /\ g \in Seq(Slot)
      BY SlotsType DEF Session
    <2>2. g = [i \in 1..Len(s.medias) |-> g[i]]
      BY <2>1
    <2> HIDE DEF g
    <2>3. Len(g) = Len(s.medias)
      BY <2>1, <2>2, LenProperties
    <2> QED
      BY <2>1, <2>3 DEF g
  <1>2. ASSUME NEW i \in Present(t)
        PROVE  i \in Present(s) /\ t.medias[i].direction = s.medias[i].direction
    BY <1>1 DEF Present
  <1> QED
    BY <1>2 DEF SendsNothing

LEMMA StoreRemoteSdpGoing ==
    ASSUME NEW s, Going(s), NEW sdp \in Seq(SdpMedia), NEW junk \in SdpMedia
    PROVE  LET t == StoreRemoteSdp(s, sdp, junk)
           IN  /\ Going(t)
               /\ t.remote_sdp = sdp /\ t.state = s.state
               /\ t.remote_media_count = s.remote_media_count
  <1> DEFINE medias == [i \in Slots(s) |->
                          Rehome(Release(s.medias[i], "backup", junk), "current", "backup")]
             t == [s EXCEPT !.backup_remote_sdp = s.remote_sdp, !.remote_sdp = sdp,
                            !.medias = medias]
  <1>1. s \in Session
    BY DEF Going
  <1>2. StoreRemoteSdp(s, sdp, junk) = t
    BY Zenon DEF StoreRemoteSdp
  <1>3. t \in Session
    <2>1. StoreRemoteSdp(s, sdp, junk) \in Session
      BY <1>1, StoreRemoteSdpType
    <2> QED
      BY <1>2, <2>1, Zenon
  <1>4. /\ t.medias = medias /\ t.remote_sdp = sdp /\ t.state = s.state
        /\ t.remote_media_count = s.remote_media_count
    <2> HIDE DEF medias
    <2> QED
      BY <1>1 DEF Session
  <1>5. /\ t.aborted = s.aborted /\ t.bad_answer = s.bad_answer
        /\ t.srv = s.srv /\ t.remote_held = s.remote_held
    <2> HIDE DEF medias
    <2> QED
      BY <1>1 DEF Session
  <1> HIDE DEF t
  <1>6. SendsNothing(t)
    <2>2. SendsNothing(s)
      BY DEF Going
    <2>3. ASSUME NEW i \in Slots(s), medias[i] # None
          PROVE  s.medias[i] # None /\ medias[i].direction = s.medias[i].direction
      <3>1. s.medias[i] \in Slot
        BY <1>1, SlotType
      <3>2. medias[i] = Rehome(Release(s.medias[i], "backup", junk), "current", "backup")
        OBVIOUS
      <3> HIDE DEF medias
      <3> QED
        BY <2>3, <3>1, <3>2, ShiftedMedia
    <2>4. medias = [i \in Slots(s) |-> medias[i]]
      OBVIOUS
    <2> HIDE DEF medias
    <2> QED
      BY <1>1, <1>3, <1>4, <1>5, <2>2, <2>3, <2>4, ShiftedMedias
  <1>7. Going(t)
    BY <1>3, <1>5, <1>6 DEF Going
  <1> HIDE DEF medias
  <1> QED
    BY <1>2, <1>4, <1>7

(* The state in which the peer's SDP finds the session: the count of lines *)
(* the answer must have is taken, unless the SDP is an answer itself.      *)
LEMMA RemoteSdpArrives ==
    ASSUME NEW s, Lined(s), NEW sdp \in Seq(SdpMedia)
    PROVE  LET s1 == IF s.state \in {"INVITE_SENT", "REINVITE_SENT"}
                     THEN ChangeState(s, "RESPONSE_RECEIVED")
                     ELSE [s EXCEPT !.remote_media_count = Len(sdp)]
           IN  /\ Lined(s1)
               /\ s1.state \notin Sent
               /\ s1.state \in Received \cup {"CREATED"} => s1.remote_media_count = Len(sdp)
               /\ s1.state = "CREATED" <=> s.state = "CREATED"
  <1> DEFINE s1 == IF s.state \in {"INVITE_SENT", "REINVITE_SENT"}
                   THEN ChangeState(s, "RESPONSE_RECEIVED")
                   ELSE [s EXCEPT !.remote_media_count = Len(sdp)]
  <1>1. s \in Session /\ s.state \in SessionState /\ Len(sdp) \in Nat
    BY LenProperties DEF Lined, Going, Session
  <1>2. CASE s.state \in Sent
    <2> DEFINE t == [s EXCEPT !.state = "RESPONSE_RECEIVED"]
    <2>1. s1 = ChangeState(s, "RESPONSE_RECEIVED")
      BY <1>2 DEF Sent
    <2>2. ChangeState(s, "RESPONSE_RECEIVED") = t
      BY <1>2, Zenon DEF ChangeState, Sent
    <2>3. t.state = "RESPONSE_RECEIVED"
      BY <1>1 DEF Session
    <2>4. Lined(ChangeState(s, "RESPONSE_RECEIVED"))
      BY ChangeStateFit DEF Fit
    <2> HIDE DEF s1, t
    <2>5. Lined(s1) /\ s1.state = "RESPONSE_RECEIVED"
      BY <2>1, <2>2, <2>3, <2>4
    <2>6. s.state # "CREATED"
      BY <1>2 DEF Sent
    <2> QED
      BY <2>5, <2>6 DEF Sent, Received, s1
  <1>3. CASE s.state \notin Sent
    <2> DEFINE n == Len(sdp)
               t == [s EXCEPT !.remote_media_count = n]
    <2>1. s1 = t
      BY <1>3 DEF Sent
    <2> HIDE DEF n
    <2>2. t \in Session /\ t.remote_media_count = n
      BY <1>1 DEF n, Session
    <2>3. /\ t.medias = s.medias /\ t.aborted = s.aborted
          /\ t.bad_answer = s.bad_answer /\ t.state = s.state
          /\ t.srv = s.srv
      BY <1>1 DEF Session
    <2>4. /\ t.remote_sdp = s.remote_sdp /\ t.local_sdp = s.local_sdp
          /\ t.remote_held = s.remote_held
      BY <1>1 DEF Session
    <2> HIDE DEF t, s1
    <2>5. Going(t)
      BY <2>2, <2>3, <2>4 DEF Lined, Going, SendsNothing, Present, Slots
    <2>6. LinesMatch(t) /\ GrantsNothing(t) /\ OfferKept(t)
      BY <2>3, <2>4 DEF Lined, LinesMatch, GrantsNothing, OfferKept, Present, Slots
    <2>7. Lined(t)
      BY <2>5, <2>6 DEF Lined
    <2> QED
      BY <1>3, <2>1, <2>2, <2>3, <2>7 DEF s1, n
  <1> QED
    BY <1>2, <1>3

(* An offer or an answer of the peer leaves a session that fits, or stops  *)
(* the process; it is what the first answer will be counted by.            *)
LEMMA SetRemoteSdpFit ==
    ASSUME NEW s, Lined(s), NEW sdp \in Seq(SdpMedia), NEW junk \in SdpMedia
    PROVE  LET r == SetRemoteSdp(s, sdp, junk)
           IN  /\ FitOrStopped(r.session)
               /\ r.ok => Fit(r.session)
               /\ r.ok /\ s.state = "CREATED" =>
                     /\ r.session.remote_sdp = sdp
                     /\ r.session.remote_media_count = Len(sdp)
  <1> DEFINE s1 == IF s.state \in {"INVITE_SENT", "REINVITE_SENT"}
                   THEN ChangeState(s, "RESPONSE_RECEIVED")
                   ELSE [s EXCEPT !.remote_media_count = Len(sdp)]
             stored == StoreRemoteSdp(s1, sdp, junk)
             authoritative == s1.state \in {"INVITE_RECEIVED", "REINVITE_RECEIVED"}
             s2 == UpdateRemoteMedia(stored, authoritative)
             supported == HasSupportedMedia(s2)
             Expects(q) == q.remote_sdp = sdp /\ q.remote_media_count = Len(sdp)
  <1>1. /\ Lined(s1)
        /\ s1.state \notin Sent
        /\ s1.state \in Received \cup {"CREATED"} => s1.remote_media_count = Len(sdp)
        /\ s1.state = "CREATED" <=> s.state = "CREATED"
    BY RemoteSdpArrives
  <1>2. sdp # None
    BY SessionAssumption
  <1>3. SetRemoteSdp(s, sdp, junk) =
          IF s1.remote_sdp = sdp
          THEN [ok |-> TRUE, session |-> RequestResponseStep(s1)]
          ELSE IF s2.aborted # "none" \/ ~supported
          THEN [ok |-> FALSE, session |-> IF s2.aborted # "none" THEN s2 ELSE Terminate(s2)]
          ELSE [ok |-> TRUE, session |-> RequestResponseStep(s2)]
    BY Zenon DEF SetRemoteSdp
  <1> HIDE DEF s1, supported
  <1>4. \/ Stopped(s2)
        \/ /\ Fit(s2)
           /\ s2.state = s1.state
           /\ s1.state = "CREATED" => Expects(s2)
    <2>1. /\ Going(stored) /\ stored.remote_sdp = sdp /\ stored.state = s1.state
          /\ stored.remote_media_count = s1.remote_media_count
      BY <1>1, StoreRemoteSdpGoing DEF Lined
    <2>2. authoritative \in BOOLEAN
      OBVIOUS
    <2> HIDE DEF stored, authoritative
    <2>3. \/ Stopped(s2)
          \/ /\ Lined(s2)
             /\ s2.state = stored.state /\ s2.srv = stored.srv
             /\ s2.remote_sdp = stored.remote_sdp
             /\ s2.remote_media_count = stored.remote_media_count
      BY <1>1, <2>1, <2>2, UpdateRemoteMediaLined
    <2> HIDE DEF s2
    <2> QED
      BY <1>1, <1>2, <2>1, <2>3 DEF Fit, Counted
  <1> HIDE DEF s2
  <1>5. ASSUME NEW q, Fit(q), q.state = "CREATED" => Expects(q)
        PROVE  /\ Fit(RequestResponseStep(q))
               /\ q.state = "CREATED" => Expects(RequestResponseStep(q))
    <2>1. Fit(RequestResponseStep(q))
      BY <1>5, RequestResponseStepFit
    <2>2. ASSUME q.state = "CREATED"
          PROVE  Expects(RequestResponseStep(q))
      <3> DEFINE own == SessionSdp(q, TRUE)
                 n == q.cli + 1
                 sent == [[q EXCEPT !.cli = n]
                            EXCEPT !.local_sdp = own, !.pending_offer = FALSE,
                                   !.state = "INVITE_SENT"]
      <3>1. RequestResponseStep(q) \in {q, Invite(q, FALSE)}
        BY <2>2, Zenon DEF RequestResponseStep
      <3>2. Invite(q, FALSE) \in {q, sent}
        BY Zenon DEF Invite, NuaInvite
      <3>3. sent.remote_sdp = q.remote_sdp /\ sent.remote_media_count = q.remote_media_count
        <4> HIDE DEF own, n
        <4> QED
          BY <1>5 DEF Fit, Lined, Going, Session
      <3> HIDE DEF sent
      <3> QED
        BY <1>5, <2>2, <3>1, <3>2, <3>3
    <2> QED
      BY <2>1, <2>2
  <1>6. CASE s1.remote_sdp = sdp
    <2>1. SetRemoteSdp(s, sdp, junk) = [ok |-> TRUE, session |-> RequestResponseStep(s1)]
      BY <1>3, <1>6, Zenon
    <2>2. Fit(s1) /\ (s1.state = "CREATED" => Expects(s1))
      BY <1>1, <1>2, <1>6 DEF Fit, Counted
    <2>3. /\ Fit(RequestResponseStep(s1))
          /\ s1.state = "CREATED" => Expects(RequestResponseStep(s1))
      BY <1>5, <2>2
    <2> QED
      BY <1>1, <2>1, <2>3 DEF FitOrStopped
  <1>7. CASE s1.remote_sdp # sdp /\ (s2.aborted # "none" \/ ~supported)
    <2>1. SetRemoteSdp(s, sdp, junk) \in
            {[ok |-> FALSE, session |-> s2], [ok |-> FALSE, session |-> Terminate(s2)]}
          /\ (SetRemoteSdp(s, sdp, junk) =
                [ok |-> FALSE, session |-> IF s2.aborted # "none" THEN s2 ELSE Terminate(s2)])
      BY <1>3, <1>7, Zenon
    <2>2. FitOrStopped(IF s2.aborted # "none" THEN s2 ELSE Terminate(s2))
      <3>1. CASE s2.aborted # "none"
        BY <1>4, <3>1 DEF Fit, Lined, Going, FitOrStopped
      <3>2. CASE ~(s2.aborted # "none")
        <4>1. Lined(s2)
          BY <1>4, <3>2 DEF Fit, Stopped
        <4> QED
          BY <3>2, <4>1, TerminateFit DEF FitOrStopped
      <3> QED
        BY <3>1, <3>2
    <2> DEFINE q == IF s2.aborted # "none" THEN s2 ELSE Terminate(s2)
    <2> HIDE DEF q
    <2>3. SetRemoteSdp(s, sdp, junk) = [ok |-> FALSE, session |-> q] /\ FitOrStopped(q)
      BY <2>1, <2>2 DEF q
    <2> QED
      BY <2>3
  <1>8. CASE s1.remote_sdp # sdp /\ ~(s2.aborted # "none" \/ ~supported)
    <2>1. SetRemoteSdp(s, sdp, junk) = [ok |-> TRUE, session |-> RequestResponseStep(s2)]
      BY <1>3, <1>8, Zenon
    <2>2. /\ Fit(s2) /\ s2.state = s1.state
          /\ s1.state = "CREATED" => Expects(s2)
      BY <1>4, <1>8 DEF Stopped
    <2>3. /\ Fit(RequestResponseStep(s2))
          /\ s2.state = "CREATED" => Expects(RequestResponseStep(s2))
      BY <1>5, <2>2
    <2> QED
      BY <1>1, <2>1, <2>2, <2>3 DEF FitOrStopped
  <1> QED
    BY <1>6, <1>7, <1>8

(* So does the return to the SDP before it.                                *)
LEMMA RollbackFit ==
    ASSUME NEW s, Going(s), s.state \notin Sent, NEW junk \in SdpMedia
    PROVE  FitOrStopped(Rollback(s, junk))
  <1> DEFINE medias == [i \in Slots(s) |->
                          Rehome(Release(s.medias[i], "current", junk), "backup", "current")]
             s1 == [s EXCEPT !.remote_sdp = s.backup_remote_sdp, !.backup_remote_sdp = None,
                             !.medias = medias]
             s2 == UpdateRemoteMedia(s1, FALSE)
             t == NuaRespond(s2)
             t1 == [t EXCEPT !.saved_event = FALSE]
  <1>1. s \in Session /\ s.backup_remote_sdp \in Seq(SdpMedia) \cup {None}
    BY DEF Going, Session
  <1>2. s1 \in Session
    <2>1. medias \in Seq(Slot)
      BY <1>1, ShiftHomesType DEF Home
    <2> HIDE DEF medias
    <2> QED
      BY <1>1, <2>1 DEF Session
  <1>3. /\ s1.medias = medias /\ s1.remote_sdp = s.backup_remote_sdp
        /\ s1.state = s.state
    <2> HIDE DEF medias
    <2> QED
      BY <1>1 DEF Session
  <1>4. /\ s1.aborted = s.aborted /\ s1.bad_answer = s.bad_answer
        /\ s1.srv = s.srv /\ s1.remote_held = s.remote_held
    <2> HIDE DEF medias
    <2> QED
      BY <1>1 DEF Session
  <1>5. Rollback(s, junk) = IF s.backup_remote_sdp = None THEN Terminate(s1)
                            ELSE IF s2.aborted # "none" THEN s2
                            ELSE ChangeState(t1, "ACTIVE")
    BY Zenon DEF Rollback
  <1> HIDE DEF s1
  <1>6. Going(s1)
    <2>1. SendsNothing(s1)
      <3>2. SendsNothing(s)
        BY DEF Going
      <3>3. ASSUME NEW i \in Slots(s), medias[i] # None
            PROVE  s.medias[i] # None /\ medias[i].direction = s.medias[i].direction
        <4>1. s.medias[i] \in Slot
          BY <1>1, SlotType
        <4>2. medias[i] = Rehome(Release(s.medias[i], "current", junk), "backup", "current")
          OBVIOUS
        <4> HIDE DEF medias
        <4> QED
          BY <3>3, <4>1, <4>2, ShiftedMedia
      <3>4. medias = [i \in Slots(s) |-> medias[i]]
        OBVIOUS
      <3> HIDE DEF medias
      <3> QED
        BY <1>1, <1>2, <1>3, <1>4, <3>2, <3>3, <3>4, ShiftedMedias
    <2> QED
      BY <1>2, <1>4, <2>1 DEF Going
  <1>7. CASE s.backup_remote_sdp = None
    <2>1. Lined(s1)
      BY <1>3, <1>6, <1>7 DEF Lined, LinesMatch, GrantsNothing, OfferKept
    <2>2. Rollback(s, junk) = Terminate(s1)
      BY <1>5, <1>7, Zenon
    <2> QED
      BY <2>1, <2>2, TerminateFit DEF FitOrStopped
  <1>8. CASE s.backup_remote_sdp # None
    <2>1. \/ Stopped(s2)
          \/ Lined(s2)
      <3>1. s1.remote_sdp \in Seq(SdpMedia) /\ s1.state \notin Sent
        BY <1>1, <1>3, <1>8
      <3> QED
        BY <1>6, <3>1, UpdateRemoteMediaLined
    <2> HIDE DEF s2
    <2>2. CASE s2.aborted # "none"
      <3>1. Rollback(s, junk) = s2
        BY <1>5, <1>8, <2>2, Zenon
      <3> QED
        BY <2>1, <2>2, <3>1 DEF FitOrStopped, Lined, Going
    <2>3. CASE ~(s2.aborted # "none")
      <3>1. Rollback(s, junk) = ChangeState(t1, "ACTIVE")
        BY <1>5, <1>8, <2>3, Zenon
      <3>2. Lined(t1)
        BY <2>1, <2>3, NuaRespondLined DEF Stopped
      <3> HIDE DEF t1
      <3> QED
        BY <3>1, <3>2, ChangeStateFit DEF FitOrStopped
    <2> QED
      BY <2>2, <2>3
  <1> QED
    BY <1>7, <1>8

-----------------------------------------------------------------------------
(* A media changes, or goes.                                               *)
LEMMA MediaKeeps ==
    ASSUME NEW s \in Session, NEW i \in Slots(s), NEW m \in Slot,
           m # None => i \in Present(s) /\ SameLine(s.medias[i], m)
    PROVE  LET t == [s EXCEPT !.medias[i] = m]
           IN  /\ t \in Session
               /\ Keeps(s, t)
               /\ Slots(t) = Slots(s)
               /\ t.medias[i] = m
  <1> DEFINE t == [s EXCEPT !.medias[i] = m]
  <1>1. t \in Session
    BY SetMediaType
  <1>2. /\ t.medias = [s.medias EXCEPT ![i] = m]
        /\ t.aborted = s.aborted /\ t.bad_answer = s.bad_answer
        /\ t.state = s.state /\ t.srv = s.srv
    BY DEF Session
  <1>3. /\ t.remote_sdp = s.remote_sdp /\ t.local_sdp = s.local_sdp
        /\ t.remote_media_count = s.remote_media_count
        /\ t.remote_held = s.remote_held
    BY DEF Session
  <1> HIDE DEF t
  <1>4. /\ Len(t.medias) = Len(s.medias) /\ Len(s.medias) \in Nat
        /\ Slots(t) = Slots(s)
        /\ \A j \in Slots(s) : t.medias[j] = IF j = i THEN m ELSE s.medias[j]
    <2>1. s.medias \in Seq(Slot) /\ Len(s.medias) \in Nat
      BY SlotsType DEF Session
    <2> QED
      BY <1>2, <2>1, ExceptSeq DEF Slots
  <1>5. ASSUME NEW j \in Present(t)
        PROVE  j \in Present(s) /\ SameLine(s.medias[j], t.medias[j])
    <2>1. j \in Slots(s) /\ t.medias[j] # None
      BY <1>4 DEF Present
    <2>2. CASE j = i
      BY <1>4, <2>1, <2>2
    <2>3. CASE j # i
      BY <1>4, <2>1, <2>3 DEF Present, SameLine
    <2> QED
      BY <2>2, <2>3
  <1>6. Keeps(s, t)
    BY <1>2, <1>3, <1>4, <1>5 DEF Keeps
  <1> QED
    BY <1>1, <1>4, <1>6 DEF t

(* All medias change.                                                      *)
LEMMA MediasKeep ==
    ASSUME NEW s \in Session, NEW t, NEW f, t.medias = [i \in Slots(s) |-> f[i]],
           t.medias \in Seq(Slot),
           \A i \in Slots(s) :
              f[i] # None => i \in Present(s) /\ SameLine(s.medias[i], f[i]),
           t.aborted = s.aborted, t.bad_answer = s.bad_answer, t.state = s.state,
           t.srv = s.srv, t.remote_sdp = s.remote_sdp, t.local_sdp = s.local_sdp,
           t.remote_media_count = s.remote_media_count, t.remote_held = s.remote_held
    PROVE  Keeps(s, t)
  <1>1. /\ Slots(s) = 1..Len(s.medias) /\ Len(s.medias) \in Nat
    BY SlotsType
  <1>2. Len(t.medias) = Len(s.medias) /\ Slots(t) = Slots(s)
    <2> DEFINE g == [i \in Slots(s) |-> f[i]]
    <2>1. g \in Seq(Slot) /\ g = [i \in 1..Len(s.medias) |-> g[i]]
      BY <1>1
    <2> HIDE DEF g
    <2>2. Len(g) = Len(s.medias)
      BY <1>1, <2>1, LenProperties
    <2> QED
      BY <1>1, <2>2 DEF g, Slots
  <1>3. ASSUME NEW i \in Present(t)
        PROVE  i \in Present(s) /\ SameLine(s.medias[i], t.medias[i])
    BY <1>2 DEF Present
  <1>4. Len(s.medias) <= Len(t.medias)
    BY <1>1, <1>2
  <1> QED
    BY <1>3, <1>4 DEF Keeps

LEMMA KeepsFitOrStopped ==
    ASSUME NEW s, NEW t \in Session, Keeps(s, t), FitOrStopped(s)
    PROVE  FitOrStopped(t)
  <1>1. CASE Fit(s)
    BY <1>1, KeepsFit DEF FitOrStopped
  <1>2. CASE Stopped(s)
    BY <1>2, KeepsSends DEF FitOrStopped, Stopped, Keeps
  <1> QED
    BY <1>1, <1>2 DEF FitOrStopped

LEMMA RemoveMediaFit ==
    ASSUME NEW s, Fit(s), NEW i \in Slots(s)
    PROVE  Fit(RemoveMedia(s, i))
  <1> DEFINE t == [s EXCEPT !.medias[i] = None]
  <1>1. s \in Session /\ None \in Slot
    BY DEF Fit, Lined, Going, Slot
  <1>2. t \in Session /\ Keeps(s, t)
    BY <1>1, MediaKeeps
  <1>3. Fit(t)
    <2> HIDE DEF t
    <2> QED
      BY <1>2, KeepsFit
  <1> QED
    BY <1>3, Zenon DEF RemoveMedia

LEMMA NegotiationFailedFit ==
    ASSUME NEW s, Fit(s), NEW i \in Slots(s), NEW junk \in SdpMedia
    PROVE  FitOrStopped(NegotiationFailed(s, i, junk))
  <1> DEFINE failed == [s EXCEPT !.aborted = "negotiation"]
             r == RequestResponseStep(RemoveMedia(s, i))
  <1>1. s \in Session /\ Going(s)
    BY DEF Fit, Lined, Going
  <1>2. NegotiationFailed(s, i, junk) =
          CASE s.state \in {"RESPONSE_RECEIVED", "INVITE_RECEIVED"} -> r
            [] s.state = "REINVITE_RECEIVED" -> Rollback(s, junk)
            [] s.state = "ACTIVE" -> s
            [] OTHER -> failed
    BY Zenon DEF NegotiationFailed
  <1>3. Fit(r)
    BY RemoveMediaFit, RequestResponseStepFit
  <1>4. Stopped(failed)
    <2>1. failed \in Session
      BY <1>1 DEF Session
    <2>2. failed.aborted = "negotiation" /\ failed.bad_answer = s.bad_answer
      BY <1>1 DEF Session
    <2>3. failed.remote_held = s.remote_held /\ failed.medias = s.medias
      BY <1>1 DEF Session
    <2> HIDE DEF failed
    <2> QED
      BY <1>1, <2>1, <2>2, <2>3 DEF Going, Stopped, SendsNothing, Present, Slots
  <1>5. s.state = "REINVITE_RECEIVED" => FitOrStopped(Rollback(s, junk))
    BY <1>1, RollbackFit DEF Sent
  <1>6. NegotiationFailed(s, i, junk) \in {r, s, failed}
        \/ (s.state = "REINVITE_RECEIVED" /\ NegotiationFailed(s, i, junk) = Rollback(s, junk))
    BY <1>2, Zenon
  <1> HIDE DEF r, failed
  <1> QED
    BY <1>3, <1>4, <1>5, <1>6 DEF FitOrStopped

LEMMA HandleSignalFit ==
    ASSUME NEW s, Fit(s), NEW i \in Present(s), NEW r \in Result,
           SameLine(s.medias[i], r.media)
    PROVE  Fit(HandleSignal(s, i, r))
  <1> DEFINE s1 == [s EXCEPT !.medias[i] = r.media]
  <1>1. s \in Session /\ i \in Slots(s) /\ r.media \in Slot
    BY DEF Fit, Lined, Going, Present, Result, Slot
  <1>2. Fit(s1)
    <2>1. s1 \in Session /\ Keeps(s, s1)
      BY <1>1, MediaKeeps
    <2> HIDE DEF s1
    <2> QED
      BY <2>1, KeepsFit
  <1>3. HandleSignal(s, i, r) \in {RequestResponseStep(s1), MediaChanged(s1), s1}
    BY Zenon DEF HandleSignal
  <1> HIDE DEF s1
  <1> QED
    BY <1>2, <1>3, RequestResponseStepFit, MediaChangedFit

LEMMA HandleRejectionFit ==
    ASSUME NEW s, Fit(s), NEW i \in Present(s), NEW junk \in SdpMedia
    PROVE  FitOrStopped(HandleRejection(s, i, junk))
  <1> DEFINE r == CodecsRejected(s.medias[i])
             s1 == [s EXCEPT !.medias[i] = r.media]
             s2 == NegotiationFailed(s1, i, junk)
             m == ForgetCodecOffer(s2.medias[i])
             s3 == [s2 EXCEPT !.medias[i] = m]
  <1>1. s \in Session /\ i \in Slots(s) /\ s.medias[i] \in Media
    BY SlotType DEF Fit, Lined, Going, Present
  <1>2. Fit(s1) /\ s1 \in Session /\ i \in Slots(s1)
    <2>1. r \in Result /\ SameLine(s.medias[i], r.media)
      BY <1>1, CodecsRejectedType, CodecsRejectedLine
    <2> HIDE DEF r
    <2>2. r.media \in Slot
      BY <2>1 DEF Result, Slot
    <2>3. s1 \in Session /\ Keeps(s, s1) /\ Slots(s1) = Slots(s)
      BY <1>1, <2>1, <2>2, MediaKeeps
    <2> HIDE DEF s1
    <2> QED
      BY <1>1, <2>3, KeepsFit
  <1>3. FitOrStopped(s2) /\ s2 \in Session
    <2> HIDE DEF s1
    <2> QED
      BY <1>2, NegotiationFailedFit, NegotiationFailedType
  <1>4. ASSUME s2.medias[i] # None, i \in Slots(s2)
        PROVE  FitOrStopped(s3)
    <2> HIDE DEF s2
    <2>1. i \in Present(s2) /\ s2.medias[i] \in Media
      BY <1>3, <1>4, SlotType DEF Present
    <2>2. m \in Slot /\ SameLine(s2.medias[i], m)
      BY <2>1, ForgetCodecOfferType, ClientMediaLine DEF Slot
    <2> HIDE DEF m
    <2>3. s3 \in Session /\ Keeps(s2, s3)
      BY <1>3, <1>4, <2>1, <2>2, MediaKeeps
    <2> HIDE DEF s3
    <2> QED
      BY <1>3, <2>3, KeepsFitOrStopped
  <1>5. ASSUME i \notin Slots(s2)
        PROVE  s3 = s2
    <2> HIDE DEF s2
    <2>1. s2.medias \in Seq(Slot)
      BY <1>3 DEF Session
    <2>2. s2.medias = [s2.medias EXCEPT ![i] = m]
      <3>1. s2.medias \in [Slots(s2) -> Slot]
        BY <2>1, LenProperties DEF Slots
      <3> HIDE DEF m
      <3> QED
        BY <1>5, <3>1
    <2> HIDE DEF m
    <2> QED
      BY <1>3, <2>2 DEF Session
  <1>6. HandleRejection(s, i, junk) =
            IF r.signal = "none" THEN s1
            ELSE IF s2.medias[i] # None /\ s2.medias[i].type = r.media.type THEN s3 ELSE s2
    BY Zenon DEF HandleRejection
  <1> HIDE DEF r, s1, s2, s3
  <1> QED
    BY <1>2, <1>3, <1>4, <1>5, <1>6 DEF FitOrStopped

LEMMA SetSessionHoldFit ==
    ASSUME NEW s, Fit(s), NEW hold \in BOOLEAN
    PROVE  Fit(SetSessionHold(s, hold))
  <1> DEFINE medias == [i \in Slots(s) |-> IF s.medias[i] = None THEN None
                                           ELSE SetHoldRequested(s.medias[i], hold)]
             s1 == [s EXCEPT !.hold_requested = hold, !.medias = medias]
  <1>1. s \in Session
    BY DEF Fit, Lined, Going
  <1>2. ASSUME NEW i \in Slots(s), medias[i] # None
        PROVE  i \in Present(s) /\ SameLine(s.medias[i], medias[i])
    <2>1. medias[i] = IF s.medias[i] = None THEN None
                      ELSE SetHoldRequested(s.medias[i], hold)
      OBVIOUS
    <2> HIDE DEF medias
    <2>2. s.medias[i] # None /\ medias[i] = SetHoldRequested(s.medias[i], hold)
      BY <1>2, <2>1
    <2>3. s.medias[i] \in Media
      BY <1>1, <2>2, SlotType DEF Present
    <2> QED
      BY <2>2, <2>3, ClientMediaLine DEF Present
  <1>3. medias \in Seq(Slot)
    <2>1. ASSUME NEW i \in Slots(s)
          PROVE  medias[i] \in Slot
      BY <1>1, SlotType, SetHoldRequestedType DEF Slot, Present
    <2>2. medias \in [Slots(s) -> Slot]
      BY <2>1
    <2> HIDE DEF medias
    <2> QED
      BY <1>1, <2>2, SlotsType, MediasType
  <1>4. medias = [i \in Slots(s) |-> medias[i]]
    OBVIOUS
  <1> HIDE DEF medias
  <1>5. s1 \in Session
    BY <1>1, <1>3 DEF Session
  <1>6. /\ s1.medias = medias /\ s1.aborted = s.aborted
        /\ s1.bad_answer = s.bad_answer /\ s1.state = s.state
        /\ s1.srv = s.srv
    BY <1>1 DEF Session
  <1>7. /\ s1.remote_sdp = s.remote_sdp /\ s1.local_sdp = s.local_sdp
        /\ s1.remote_media_count = s.remote_media_count
        /\ s1.remote_held = s.remote_held
    BY <1>1 DEF Session
  <1>8. SetSessionHold(s, hold) = MediaChanged(s1)
    BY Zenon DEF SetSessionHold, medias
  <1> HIDE DEF s1
  <1>9. Keeps(s, s1)
    BY <1>1, <1>2, <1>3, <1>4, <1>6, <1>7, MediasKeep
  <1> QED
    BY <1>5, <1>8, <1>9, KeepsFit, MediaChangedFit

LEMMA RequestBothDirectionsFit ==
    ASSUME NEW s, Fit(s)
    PROVE  Fit(RequestBothDirections(s))
  <1> DEFINE medias == [i \in Slots(s) |->
                          IF s.medias[i] = None THEN None
                          ELSE SetRequestedDirection(s.medias[i], Bidirectional).media]
             s1 == [s EXCEPT !.medias = medias]
  <1>1. s \in Session
    BY DEF Fit, Lined, Going
  <1>2. ASSUME NEW i \in Slots(s), medias[i] # None
        PROVE  /\ i \in Present(s) /\ SameLine(s.medias[i], medias[i])
               /\ medias[i] \in Slot
    <2>1. medias[i] = IF s.medias[i] = None THEN None
                      ELSE SetRequestedDirection(s.medias[i], Bidirectional).media
      OBVIOUS
    <2> HIDE DEF medias
    <2>2. /\ s.medias[i] # None
          /\ medias[i] = SetRequestedDirection(s.medias[i], Bidirectional).media
      BY <1>2, <2>1
    <2>3. s.medias[i] \in Media
      BY <1>1, <2>2, SlotType DEF Present
    <2>4. SetRequestedDirection(s.medias[i], Bidirectional) \in Result
      BY <2>3, SetRequestedDirectionType DEF Bidirectional
    <2> QED
      BY <2>2, <2>3, <2>4, ClientMediaLine DEF Present, Result, Slot
  <1>3. medias \in Seq(Slot)
    <2>1. ASSUME NEW i \in Slots(s)
          PROVE  medias[i] \in Slot
      BY <1>2 DEF Slot
    <2>2. medias \in [Slots(s) -> Slot]
      BY <2>1
    <2> HIDE DEF medias
    <2> QED
      BY <1>1, <2>2, SlotsType, MediasType
  <1>4. medias = [i \in Slots(s) |-> medias[i]]
    OBVIOUS
  <1>5. RequestBothDirections(s) \in {MediaChanged(s1), s1}
    BY Zenon DEF RequestBothDirections
  <1> HIDE DEF medias
  <1>6. s1 \in Session
    BY <1>1, <1>3 DEF Session
  <1>7. /\ s1.medias = medias /\ s1.aborted = s.aborted
        /\ s1.bad_answer = s.bad_answer /\ s1.state = s.state
        /\ s1.srv = s.srv
    BY <1>1 DEF Session
  <1>8. /\ s1.remote_sdp = s.remote_sdp /\ s1.local_sdp = s.local_sdp
        /\ s1.remote_media_count = s.remote_media_count
        /\ s1.remote_held = s.remote_held
    BY <1>1 DEF Session
  <1> HIDE DEF s1
  <1>9. Keeps(s, s1)
    BY <1>1, <1>2, <1>3, <1>4, <1>7, <1>8, MediasKeep
  <1> QED
    BY <1>5, <1>6, <1>9, KeepsFit, MediaChangedFit

-----------------------------------------------------------------------------
(* The steps of the session.                                               *)
LEMMA ClientSignalsLine ==
    ASSUME session \in Session, NEW i \in Present(session), ClientStep(i),
           ~RejectCodecs(i), ~RemoveContent(i)
    PROVE  \E r \in Result : /\ SameLine(session.medias[i], r.media)
                             /\ session' = HandleSignal(session, i, r)
  <1> DEFINE m == session.medias[i]
             Goal == \E r \in Result : /\ SameLine(m, r.media)
                                       /\ session' = HandleSignal(session, i, r)
  <1>1. m \in Media
    BY SlotType DEF Present
  <1>2. ASSUME NEW codecs \in LocalCodecs, AcceptCodecs(i, codecs)
        PROVE  Goal
    <2> DEFINE n == m.offers - 1
               first == [m EXCEPT !.initial_offer = FALSE]
               later == [m EXCEPT !.offers = n]
               answered == IF m.initial_offer THEN first ELSE later
    <2>1. m.initial_offer \/ m.offers > 0
      BY <1>2, Zenon DEF AcceptCodecs
    <2>2. answered \in Media /\ SameLine(m, answered)
      <3>1. SameLine(m, first) /\ SameLine(m, later)
        BY <1>1, OtherMediaFields
      <3>2. CASE m.initial_offer
        <4>1. first \in Media
          <5> HIDE DEF m
          <5> QED
            BY <1>1 DEF Media
        <4> HIDE DEF first, later
        <4> QED
          BY <3>1, <3>2, <4>1
      <3>3. CASE ~m.initial_offer
        <4>1. n \in Nat
          <5>1. m.offers \in Nat
            <6> HIDE DEF m
            <6> QED
              BY <1>1 DEF Media
          <5> QED
            BY <2>1, <3>3, <5>1
        <4>2. later \in Media
          <5> HIDE DEF m, n
          <5> QED
            BY <1>1, <4>1 DEF Media
        <4> HIDE DEF first, later
        <4> QED
          BY <3>1, <3>3, <4>2
      <3> QED
        BY <3>2, <3>3
    <2>3. session' = HandleSignal(session, i, TakeLocalCodecs(answered, codecs))
      BY <1>2, Zenon DEF AcceptCodecs
    <2>4. codecs \in CodecLists
      BY SessionAssumption
    <2> HIDE DEF answered
    <2>5. /\ TakeLocalCodecs(answered, codecs) \in Result
          /\ SameLine(answered, TakeLocalCodecs(answered, codecs).media)
      BY <2>2, <2>4, TakeLocalCodecsType, TakeLocalCodecsLine
    <2> QED
      BY <2>2, <2>3, <2>5 DEF SameLine
  <1>3. ASSUME NEW codecs \in LocalCodecs, UpdateCodecs(i, codecs)
        PROVE  Goal
    <2>1. session' = HandleSignal(session, i, TakeLocalCodecs(m, codecs))
      BY <1>3, Zenon DEF UpdateCodecs
    <2>2. codecs \in CodecLists
      BY SessionAssumption
    <2>3. /\ TakeLocalCodecs(m, codecs) \in Result
          /\ SameLine(m, TakeLocalCodecs(m, codecs).media)
      BY <1>1, <2>2, TakeLocalCodecsType, TakeLocalCodecsLine
    <2> QED
      BY <2>1, <2>3
  <1>4. ASSUME FinishInitialCandidates(i)
        PROVE  Goal
    <2>1. session' = HandleSignal(session, i, LocalCandidatesPrepared(m))
      BY <1>4, Zenon DEF FinishInitialCandidates
    <2>2. /\ LocalCandidatesPrepared(m) \in Result
          /\ SameLine(m, LocalCandidatesPrepared(m).media)
      BY <1>1, LocalCandidatesPreparedType, ClientMediaLine
    <2> QED
      BY <2>1, <2>2
  <1>5. ASSUME StartReceiving(i) \/ StopReceiving(i)
        PROVE  Goal
    <2>1. PICK can \in BOOLEAN : session' = HandleSignal(session, i, SetCanReceive(m, can))
      BY <1>5, Zenon DEF StartReceiving, StopReceiving
    <2>2. /\ SetCanReceive(m, can) \in Result
          /\ SameLine(m, SetCanReceive(m, can).media)
      BY <1>1, SetCanReceiveType, SetCanReceiveLine
    <2> QED
      BY <2>1, <2>2
  <1>6. ASSUME NEW direction \in Directions, RequestDirection(i, direction)
        PROVE  Goal
    <2>1. session' = HandleSignal(session, i, SetRequestedDirection(m, direction))
      BY <1>6, Zenon DEF RequestDirection
    <2>2. direction \in SUBSET Direction
      BY SessionAssumption
    <2>3. /\ SetRequestedDirection(m, direction) \in Result
          /\ SameLine(m, SetRequestedDirection(m, direction).media)
      BY <1>1, <2>2, SetRequestedDirectionType, ClientMediaLine
    <2> QED
      BY <2>1, <2>3
  <1> QED
    BY <1>2, <1>3, <1>4, <1>5, <1>6, Zenon DEF ClientStep

LEMMA RejectCodecsFit ==
    ASSUME Fit(session), NEW i \in Present(session), RejectCodecs(i)
    PROVE  FitOrStopped(session')
  <1> DEFINE m == session.medias[i]
             n == m.offers - 1
             rest == [m EXCEPT !.offers = n]
             s == [session EXCEPT !.medias[i] = rest]
  <1>0. session \in Session
    BY DEF Fit, Lined, Going
  <1>1. i \in Slots(session) /\ m \in Media
    BY <1>0, SlotType DEF Present
  <1>2. n \in Nat
    <2>1. m.offers \in Nat
      <3> HIDE DEF m
      <3> QED
        BY <1>1 DEF Media
    <2>2. m.offers > 0
      BY Zenon DEF RejectCodecs
    <2> QED
      BY <2>1, <2>2
  <1>3. rest \in Media /\ SameLine(m, rest)
    <2>1. rest \in Media
      <3> HIDE DEF m, n
      <3> QED
        BY <1>1, <1>2 DEF Media
    <2>2. SameLine(m, rest)
      BY <1>1, OtherMediaFields
    <2> QED
      BY <2>1, <2>2
  <1>4. PICK junk \in Lines : session' = HandleRejection(s, i, junk)
    <2>1. \E junk \in Lines :
             session' = HandleRejection([session EXCEPT !.medias[i].offers = @ - 1], i, junk)
      BY Zenon DEF RejectCodecs
    <2>2. [session EXCEPT !.medias[i].offers = @ - 1] = s
      OBVIOUS
    <2> QED
      BY <2>1, <2>2, Zenon
  <1>5. junk \in SdpMedia
    BY SessionAssumption
  <1> HIDE DEF rest
  <1>6. /\ s \in Session /\ Keeps(session, s) /\ Slots(s) = Slots(session)
        /\ s.medias[i] = rest
    BY <1>0, <1>1, <1>3, MediaKeeps DEF Slot
  <1> HIDE DEF s
  <1>7. Fit(s) /\ i \in Present(s)
    <2>1. rest # None
      BY <1>3, MediaAssumption
    <2> QED
      BY <1>1, <1>6, <2>1, KeepsFit DEF Present
  <1> QED
    BY <1>4, <1>5, <1>7, HandleRejectionFit

LEMMA ClientStepFit ==
    ASSUME Fit(session), NEW i \in Present(session), ClientStep(i)
    PROVE  FitOrStopped(session')
  <1>1. session \in Session /\ i \in Slots(session)
    BY DEF Fit, Lined, Going, Present
  <1>2. CASE RejectCodecs(i)
    BY <1>2, RejectCodecsFit
  <1>3. CASE RemoveContent(i)
    <2>1. session' = MediaChanged(RemoveMedia(session, i))
      BY <1>3, Zenon DEF RemoveContent
    <2> QED
      BY <1>1, <2>1, RemoveMediaFit, MediaChangedFit DEF FitOrStopped
  <1>4. CASE ~RejectCodecs(i) /\ ~RemoveContent(i)
    <2>1. PICK r \in Result : /\ SameLine(session.medias[i], r.media)
                              /\ session' = HandleSignal(session, i, r)
      BY <1>1, <1>4, ClientSignalsLine
    <2> QED
      BY <2>1, HandleSignalFit DEF FitOrStopped
  <1> QED
    BY <1>2, <1>3, <1>4

LEMMA CallStepFit ==
    ASSUME Fit(session), CallStep
    PROVE  FitOrStopped(session')
  <1>1. ASSUME Accept
        PROVE  Fit(session')
    BY <1>1, AcceptSessionFit DEF Accept
  <1>2. ASSUME Hangup
        PROVE  Fit(session')
    BY <1>2, TerminateFit DEF Hangup, Fit
  <1>3. ASSUME NEW type \in ContentTypes, NEW direction \in Directions,
               AddContent(type, direction)
        PROVE  Fit(session')
    <2>1. type \in SupportedType /\ direction \in SUBSET Direction
      BY SessionAssumption
    <2>2. session' = AddMedia(session, type, direction)
      BY <1>3, Zenon DEF AddContent
    <2> QED
      BY <2>1, <2>2, AddMediaFit
  <1>4. ASSUME RequestHold \/ ReleaseHold
        PROVE  Fit(session')
    <2>1. PICK hold \in BOOLEAN : session' = SetSessionHold(session, hold)
      BY <1>4, Zenon DEF RequestHold, ReleaseHold
    <2> QED
      BY <2>1, SetSessionHoldFit
  <1> QED
    BY <1>1, <1>2, <1>3, <1>4, Zenon DEF CallStep, FitOrStopped

(* Fields of the NUA handle that our SDP does not depend on.               *)
LEMMA NuaFieldsFit ==
    ASSUME NEW s, Fit(s), NEW n \in Nat, NEW b \in BOOLEAN,
           NEW timer \in {"none", "armed", "removed"}
    PROVE  /\ Fit([s EXCEPT !.cli = n])
           /\ Fit([s EXCEPT !.early = b])
           /\ Fit([s EXCEPT !.glare_timer = timer])
  <1> DEFINE t1 == [s EXCEPT !.cli = n]
             t2 == [s EXCEPT !.early = b]
             t3 == [s EXCEPT !.glare_timer = timer]
  <1>1. s \in Session
    BY DEF Fit, Lined, Going
  <1>2. t1 \in Session /\ t2 \in Session /\ t3 \in Session
    <2>1. t1 \in Session
      BY <1>1 DEF Session
    <2>2. t2 \in Session
      BY <1>1 DEF Session
    <2>3. t3 \in Session
      BY <1>1 DEF Session
    <2> HIDE DEF t1, t2, t3
    <2> QED
      BY <2>1, <2>2, <2>3
  <1>3. Keeps(s, t1)
    <2>1. /\ t1.medias = s.medias /\ t1.aborted = s.aborted
          /\ t1.bad_answer = s.bad_answer /\ t1.state = s.state
          /\ t1.srv = s.srv
      BY <1>1 DEF Session
    <2>2. /\ t1.remote_sdp = s.remote_sdp /\ t1.local_sdp = s.local_sdp
          /\ t1.remote_media_count = s.remote_media_count
          /\ t1.remote_held = s.remote_held
      BY <1>1 DEF Session
    <2> HIDE DEF t1
    <2> QED
      BY <1>1, <2>1, <2>2, OtherFieldsKeep
  <1>4. Keeps(s, t2)
    <2>1. /\ t2.medias = s.medias /\ t2.aborted = s.aborted
          /\ t2.bad_answer = s.bad_answer /\ t2.state = s.state
          /\ t2.srv = s.srv
      BY <1>1 DEF Session
    <2>2. /\ t2.remote_sdp = s.remote_sdp /\ t2.local_sdp = s.local_sdp
          /\ t2.remote_media_count = s.remote_media_count
          /\ t2.remote_held = s.remote_held
      BY <1>1 DEF Session
    <2> HIDE DEF t2
    <2> QED
      BY <1>1, <2>1, <2>2, OtherFieldsKeep
  <1>5. Keeps(s, t3)
    <2>1. /\ t3.medias = s.medias /\ t3.aborted = s.aborted
          /\ t3.bad_answer = s.bad_answer /\ t3.state = s.state
          /\ t3.srv = s.srv
      BY <1>1 DEF Session
    <2>2. /\ t3.remote_sdp = s.remote_sdp /\ t3.local_sdp = s.local_sdp
          /\ t3.remote_media_count = s.remote_media_count
          /\ t3.remote_held = s.remote_held
      BY <1>1 DEF Session
    <2> HIDE DEF t3
    <2> QED
      BY <1>1, <2>1, <2>2, OtherFieldsKeep
  <1> HIDE DEF t1, t2, t3
  <1>6. Fit(t1) /\ Fit(t2) /\ Fit(t3)
    BY <1>2, <1>3, <1>4, <1>5, KeepsFit
  <1> QED
    BY <1>6 DEF t1, t2, t3

LEMMA FinalResponseFit ==
    ASSUME NEW s, Fit(s), s.cli > 0
    PROVE  Fit(FinalResponse(s))
  <1> DEFINE t == FinalResponse(s)
  <1>1. s \in Session
    BY DEF Fit, Lined, Going
  <1>2. t \in Session
    BY <1>1, FinalResponseType
  <1>3. /\ t.medias = s.medias /\ t.aborted = s.aborted
        /\ t.bad_answer = s.bad_answer /\ t.state = s.state
        /\ t.srv = s.srv
    BY <1>1 DEF FinalResponse, Session
  <1>4. /\ t.remote_sdp = s.remote_sdp /\ t.local_sdp = s.local_sdp
        /\ t.remote_media_count = s.remote_media_count
        /\ t.remote_held = s.remote_held
    BY <1>1 DEF FinalResponse, Session
  <1> HIDE DEF t
  <1>5. Keeps(s, t)
    BY <1>1, <1>3, <1>4, OtherFieldsKeep
  <1>6. Fit(t)
    BY <1>2, <1>5, KeepsFit
  <1> QED
    BY <1>6 DEF t

LEMMA AckArrivesFit ==
    ASSUME NEW s, Fit(s)
    PROVE  Fit(AckArrives(s))
  <1> DEFINE t == AckArrives(s)
  <1>1. s \in Session
    BY DEF Fit, Lined, Going
  <1>2. t \in Session
    BY <1>1, AckArrivesType
  <1>3. /\ t.medias = s.medias /\ t.aborted = s.aborted
        /\ t.bad_answer = s.bad_answer /\ t.state = s.state
        /\ t.srv = s.srv
    BY <1>1 DEF AckArrives, Session
  <1>4. /\ t.remote_sdp = s.remote_sdp /\ t.local_sdp = s.local_sdp
        /\ t.remote_media_count = s.remote_media_count
        /\ t.remote_held = s.remote_held
    BY <1>1 DEF AckArrives, Session
  <1> HIDE DEF t
  <1>5. Keeps(s, t)
    BY <1>1, <1>3, <1>4, OtherFieldsKeep
  <1>6. Fit(t)
    BY <1>2, <1>5, KeepsFit
  <1> QED
    BY <1>6 DEF t

(* A re-INVITE is saved, whatever it says.                                 *)
LEMMA ReceiveReinviteLined ==
    ASSUME NEW s, Lined(s), NEW request \in {"offer", "delayed"},
           request = "delayed" => "delay" \in PeerMay
    PROVE  LET t == ReceiveReinvite(s, request)
           IN  Lined(t) /\ t.srv = request
  <1> DEFINE timer == IF s.state = "REINVITE_PENDING" /\ s.glare_timer = "armed"
                      THEN "removed" ELSE s.glare_timer
             t == [s EXCEPT !.srv = request, !.saved_event = TRUE,
                            !.state = "REINVITE_RECEIVED", !.glare_timer = timer]
  <1>1. s \in Session
    BY DEF Lined, Going
  <1>2. ReceiveReinvite(s, request) = t
    BY Zenon DEF ReceiveReinvite
  <1>3. t \in Session
    <2>1. ReceiveReinvite(s, request) \in Session
      BY <1>1, ReceiveReinviteType
    <2> QED
      BY <1>2, <2>1, Zenon
  <1> HIDE DEF timer
  <1>4. /\ t.medias = s.medias /\ t.aborted = s.aborted
        /\ t.bad_answer = s.bad_answer /\ t.state = "REINVITE_RECEIVED"
        /\ t.srv = request
    BY <1>1 DEF Session
  <1>5. t.remote_sdp = s.remote_sdp /\ t.remote_held = s.remote_held
    BY <1>1 DEF Session
  <1> HIDE DEF t
  <1>6. "delay" \notin PeerMay => t.srv # "delayed"
    BY <1>4, Zenon
  <1>7. Going(t)
    BY <1>3, <1>4, <1>5, <1>6 DEF Lined, Going, SendsNothing, Present, Slots
  <1>8. LinesMatch(t) /\ GrantsNothing(t)
    BY <1>4, <1>5 DEF Lined, LinesMatch, GrantsNothing, Present, Slots
  <1>9. OfferKept(t)
    BY <1>4 DEF OfferKept, Sent
  <1> QED
    BY <1>2, <1>4, <1>7, <1>8, <1>9 DEF Lined

(* The first INVITE lays the medias before the state tells of it.          *)
LEMMA ReceiveInviteFit ==
    ASSUME Fit(session), NEW offer \in Seq(SdpMedia), ReceiveInvite(offer)
    PROVE  FitOrStopped(session')
  <1> DEFINE s == [session EXCEPT !.srv = "offer"]
             r == SetRemoteSdp(s, offer, ZeroPort)
             q == r.session
             t == [q EXCEPT !.state = "INVITE_RECEIVED"]
             c == ChangeState(q, "INVITE_RECEIVED")
  <1>1. session \in Session /\ session.state = "CREATED"
    BY DEF Fit, Lined, Going, ReceiveInvite
  <1>2. Lined(s) /\ s.state = "CREATED"
    <2>1. s \in Session
      BY <1>1 DEF Session
    <2>2. /\ s.medias = session.medias /\ s.aborted = session.aborted
          /\ s.bad_answer = session.bad_answer /\ s.state = session.state
          /\ s.srv = "offer"
      BY <1>1 DEF Session
    <2>3. /\ s.remote_sdp = session.remote_sdp /\ s.local_sdp = session.local_sdp
          /\ s.remote_held = session.remote_held
      BY <1>1 DEF Session
    <2> HIDE DEF s
    <2>4. s.srv # "delayed"
      BY <2>2
    <2>5. Going(s)
      BY <2>1, <2>2, <2>3, <2>4 DEF Fit, Lined, Going, SendsNothing, Present, Slots
    <2>6. LinesMatch(s) /\ GrantsNothing(s) /\ OfferKept(s)
      BY <2>2, <2>3 DEF Fit, Lined, LinesMatch, GrantsNothing, OfferKept, Present, Slots
    <2> QED
      BY <1>1, <2>2, <2>5, <2>6 DEF Lined
  <1>3. session' = IF r.ok THEN RequestBothDirections(c) ELSE q
    BY Zenon DEF ReceiveInvite
  <1> HIDE DEF s
  <1>4. /\ FitOrStopped(q)
        /\ r.ok => Fit(q) /\ q.remote_sdp = offer /\ q.remote_media_count = Len(offer)
    BY <1>2, SessionAssumption, SetRemoteSdpFit
  <1> HIDE DEF r, q
  <1>5. ASSUME r.ok
        PROVE  Fit(c)
    <2>1. /\ q \in Session /\ Fit(q) /\ offer # None
          /\ q.remote_sdp = offer /\ q.remote_media_count = Len(offer)
      BY <1>4, <1>5, SessionAssumption DEF Fit, Lined, Going
    <2>2. c = IF q.state = "INVITE_RECEIVED" THEN q ELSE t
      <3>1. "INVITE_RECEIVED" # "ENDED" /\ "INVITE_RECEIVED" # "ACTIVE"
        OBVIOUS
      <3> QED
        BY <3>1, Zenon DEF ChangeState
    <2>3. t \in Session
      BY <2>1 DEF Session, SessionState
    <2>4. /\ t.medias = q.medias /\ t.aborted = q.aborted
          /\ t.bad_answer = q.bad_answer /\ t.state = "INVITE_RECEIVED"
          /\ t.srv = q.srv
      BY <2>1 DEF Session
    <2>5. /\ t.remote_sdp = q.remote_sdp /\ t.remote_held = q.remote_held
          /\ t.remote_media_count = q.remote_media_count
      BY <2>1 DEF Session
    <2> HIDE DEF t, c
    <2>6. Going(t)
      BY <2>1, <2>3, <2>4, <2>5 DEF Fit, Lined, Going, SendsNothing, Present, Slots
    <2>7. LinesMatch(t) /\ GrantsNothing(t)
      BY <2>1, <2>4, <2>5 DEF Fit, Lined, LinesMatch, GrantsNothing, Present, Slots
    <2>8. OfferKept(t)
      BY <2>4 DEF OfferKept, Sent
    <2>9. t.remote_sdp # None /\ t.remote_media_count = Len(t.remote_sdp)
      BY <2>1, <2>5
    <2>10. Fit(t)
      BY <2>6, <2>7, <2>8, <2>9 DEF Fit, Lined, Counted
    <2> QED
      BY <2>1, <2>2, <2>10
  <1> HIDE DEF c
  <1>6. r.ok => Fit(RequestBothDirections(c))
    BY <1>5, RequestBothDirectionsFit
  <1> QED
    BY <1>3, <1>4, <1>6 DEF FitOrStopped

LEMMA PeerStepFit ==
    ASSUME Fit(session), PeerStep
    PROVE  FitOrStopped(session')
  <1>0. session \in Session /\ Lined(session)
    BY DEF Fit, Lined, Going
  <1>1. Lines \subseteq SdpMedia
    BY SessionAssumption
  <1>2. ASSUME NEW offer \in Offers(session), ReceiveInvite(offer)
        PROVE  FitOrStopped(session')
    <2>1. offer \in Seq(SdpMedia)
      BY <1>0, OffersType
    <2> QED
      BY <1>2, <2>1, ReceiveInviteFit
  <1>3. ASSUME NEW sdp \in Seq(SdpMedia), NEW junk \in SdpMedia, NEW s, Fit(s)
        PROVE  FitOrStopped(Ready(SetRemoteSdp(s, sdp, junk)))
    <2> DEFINE r == SetRemoteSdp(s, sdp, junk)
    <2>1. FitOrStopped(r.session) /\ (r.ok => Fit(r.session))
      BY <1>3, SetRemoteSdpFit DEF Fit
    <2>2. Ready(r) = IF r.ok THEN AcceptSession(r.session) ELSE r.session
      BY Zenon DEF Ready
    <2> HIDE DEF r
    <2>3. FitOrStopped(Ready(r))
      BY <2>1, <2>2, AcceptSessionFit DEF FitOrStopped
    <2> QED
      BY <2>3 DEF r
  <1>4. ASSUME session.local_sdp # None, NEW answer \in Answers(InvitedSdp(session)),
               NEW junk \in Lines, ReceiveAnswer(answer, junk) \/ ReceiveEarlyAnswer(answer, junk)
        PROVE  FitOrStopped(session')
    <2>1. answer \in Seq(SdpMedia) /\ junk \in SdpMedia
      <3>1. InvitedSdp(session) \in Seq(LocalLine)
        BY <1>0, <1>4 DEF InvitedSdp, Session
      <3> QED
        BY <1>1, <3>1, AnswersType
    <2>2. CASE ReceiveAnswer(answer, junk)
      <3> DEFINE s == FinalResponse(session)
      <3>1. Fit(s)
        BY <2>2, FinalResponseFit DEF ReceiveAnswer
      <3>2. session' = Ready(SetRemoteSdp(s, answer, junk))
        BY <2>2, Zenon DEF ReceiveAnswer
      <3> HIDE DEF s
      <3> QED
        BY <1>3, <2>1, <3>1, <3>2
    <2>3. CASE ReceiveEarlyAnswer(answer, junk)
      <3> DEFINE s == [session EXCEPT !.early = TRUE]
      <3>1. Fit(s)
        BY NuaFieldsFit
      <3>2. session' = SetRemoteSdp(s, answer, junk).session
        BY <2>3, Zenon DEF ReceiveEarlyAnswer
      <3> HIDE DEF s
      <3> QED
        BY <2>1, <3>1, <3>2, SetRemoteSdpFit DEF Fit
    <2> QED
      BY <1>4, <2>2, <2>3
  <1>5. ASSUME ReceiveFinalAfterEarly
        PROVE  Fit(session')
    <2> DEFINE n == session.cli - 1
               s1 == [session EXCEPT !.early = FALSE]
               s == [s1 EXCEPT !.cli = n]
    <2>1. n \in Nat
      <3>1. session.cli \in Nat
        BY <1>0 DEF Session
      <3>2. session.cli > 0
        BY <1>5, Zenon DEF ReceiveFinalAfterEarly
      <3> QED
        BY <3>1, <3>2
    <2>2. Fit(s1)
      BY NuaFieldsFit
    <2>3. session' = AcceptSession(s)
      BY <1>5 DEF ReceiveFinalAfterEarly
    <2> HIDE DEF n, s1
    <2>4. Fit(s)
      BY <2>1, <2>2, NuaFieldsFit
    <2> HIDE DEF s
    <2> QED
      BY <2>3, <2>4, AcceptSessionFit
  <1>6. ASSUME ReceiveTerminated
        PROVE  Fit(session')
    BY <1>0, <1>6, EndFit DEF ReceiveTerminated
  <1>7. ASSUME ResolveGlare
        PROVE  Fit(session')
    <2> DEFINE s1 == FinalResponse(session)
               s2 == [s1 EXCEPT !.glare_timer = "armed"]
    <2>1. Fit(s1)
      BY <1>7, FinalResponseFit DEF ResolveGlare
    <2>2. session' \in {ChangeState(s2, "REINVITE_PENDING"), s1}
      BY <1>7, Zenon DEF ResolveGlare
    <2> HIDE DEF s1
    <2>3. Fit(s2)
      BY <2>1, NuaFieldsFit
    <2> HIDE DEF s2
    <2> QED
      BY <2>1, <2>2, <2>3, ChangeStateFit DEF Fit
  <1>8. ASSUME ReinviteRefused
        PROVE  Fit(session')
    <2> DEFINE s1 == FinalResponse(session)
    <2>1. Fit(s1)
      BY <1>8, FinalResponseFit DEF ReinviteRefused
    <2>2. session' = Terminate(s1)
      BY <1>8 DEF ReinviteRefused
    <2> HIDE DEF s1
    <2> QED
      BY <2>1, <2>2, TerminateFit DEF Fit
  <1>9. ASSUME NEW offer \in Offers(session), NEW junk \in Lines, Reinvite(offer, junk)
        PROVE  FitOrStopped(session')
    <2> DEFINE s == ReceiveReinvite(session, "offer")
    <2>1. session' = SetRemoteSdp(s, offer, junk).session
      BY <1>9, Zenon DEF Reinvite
    <2>2. Lined(s)
      <3>1. "offer" # "delayed" /\ "offer" \in {"offer", "delayed"}
        OBVIOUS
      <3> QED
        BY <1>0, <3>1, ReceiveReinviteLined
    <2>3. offer \in Seq(SdpMedia) /\ junk \in SdpMedia
      BY <1>0, <1>1, OffersType
    <2> HIDE DEF s
    <2> QED
      BY <2>1, <2>2, <2>3, SetRemoteSdpFit
  <1>10. ASSUME ReinviteWithoutOffer
         PROVE  Fit(session')
    <2> DEFINE t == ReceiveReinvite(session, "delayed")
    <2>1. session' = t /\ "delay" \in PeerMay
      BY <1>10, Zenon DEF ReinviteWithoutOffer
    <2>2. Lined(t) /\ t.srv = "delayed"
      <3>1. "delayed" \in {"offer", "delayed"}
        OBVIOUS
      <3> QED
        BY <1>0, <2>1, <3>1, ReceiveReinviteLined
    <2> HIDE DEF t
    <2>3. Counted(t)
      BY <2>2, Zenon DEF Counted
    <2> QED
      BY <2>1, <2>2, <2>3 DEF Fit
  <1>11. ASSUME session.ack # None, NEW answer \in Answers(session.ack), NEW junk \in Lines,
                ReceiveAck(answer, junk)
         PROVE  FitOrStopped(session')
    <2> DEFINE s == AckArrives(session)
    <2>1. answer \in Seq(SdpMedia) /\ junk \in SdpMedia
      <3>1. session.ack \in Seq(LocalLine)
        BY <1>0, <1>11 DEF Session
      <3> QED
        BY <1>1, <3>1, AnswersType
    <2>2. Fit(s) /\ session' = Ready(SetRemoteSdp(s, answer, junk))
      BY <1>11, AckArrivesFit DEF ReceiveAck
    <2> HIDE DEF s
    <2> QED
      BY <1>3, <2>1, <2>2
  <1> QED
    BY <1>2, <1>4, <1>5, <1>6, <1>7, <1>8, <1>9, <1>10, <1>11, Zenon
       DEF PeerStep, FitOrStopped

LEMMA GlareRetryFit ==
    ASSUME Fit(session), GlareRetry
    PROVE  FitOrStopped(session')
  <1> DEFINE s == IF session.state = "REINVITE_PENDING" THEN Invite(session, TRUE) ELSE session
  <1>1. Fit(s)
    BY InviteFit
  <1>2. session' = [s EXCEPT !.glare_timer = "none"]
    BY Zenon DEF GlareRetry
  <1> HIDE DEF s
  <1> QED
    BY <1>1, <1>2, NuaFieldsFit DEF FitOrStopped

LEMMA FitInductive ==
    FitOrStopped(session) /\ [Next]_vars => FitOrStopped(session)'
  <1> SUFFICES ASSUME FitOrStopped(session), [Next]_vars
               PROVE  FitOrStopped(session')
    OBVIOUS
  <1>1. CASE UNCHANGED vars
    BY <1>1 DEF vars
  <1>2. CASE Next /\ Stopped(session)
    <2>1. UNCHANGED vars
      BY <1>2, AbortedStays DEF Stopped
    <2> QED
      BY <2>1 DEF vars
  <1>3. CASE Next /\ Fit(session)
    <2>1. CASE \E i \in Present(session) : ClientStep(i)
      BY <1>3, <2>1, ClientStepFit
    <2>2. CASE CallStep \/ PeerStep \/ GlareRetry
      BY <1>3, <2>2, CallStepFit, PeerStepFit, GlareRetryFit
    <2>3. CASE Finished
      BY <2>3 DEF Finished, vars
    <2> QED
      BY <1>3, <2>1, <2>2, <2>3 DEF Next
  <1> QED
    BY <1>1, <1>2, <1>3 DEF FitOrStopped

LEMMA InitFit == Init => FitOrStopped(session)
  <1> SUFFICES ASSUME Init
               PROVE  Fit(session)
    BY DEF FitOrStopped
  <1>1. session \in Session
    BY InitType DEF TypeOK
  <1>2. PICK incoming \in BOOLEAN : session = NewSession(incoming)
    BY SessionAssumption DEF Init
  <1>3. /\ session.aborted = "none" /\ session.bad_answer = FALSE
        /\ session.srv = "none" /\ session.remote_held = FALSE
        /\ session.remote_sdp = None /\ session.state = "CREATED"
    BY <1>2 DEF NewSession
  <1>4. session.srv # "delayed"
    BY <1>3
  <1> QED
    BY <1>1, <1>3, <1>4 DEF Fit, Lined, Going, SendsNothing, LinesMatch, GrantsNothing,
       OfferKept, Counted, Received

(* Every 200 OK we send to an INVITE or a re-INVITE of the peer describes  *)
(* the lines of the offer it answers: as many lines, each of its type, no  *)
(* line the offer turned down, no direction the offer did not grant,       *)
(* whatever contents the client added or removed meanwhile and however far *)
(* the peer's SDPs grow, shrink or change their lines.                     *)
THEOREM AnswersFit == Spec => []AnswersFitOffers
  <1>1. FitOrStopped(session) => AnswersFitOffers
    BY DEF FitOrStopped, Stopped, Fit, Lined, Going, AnswersFitOffers
  <1> QED
    BY <1>1, InitFit, FitInductive, PTL DEF Spec

(* An INVITE or re-INVITE of ours that is on its way has a line for every  *)
(* line of the peer's SDP, of the same type or rejected: removing a        *)
(* content, replacing a media by one of another type or falling back to    *)
(* the SDP before never moves a media to another m-line.                   *)
THEOREM OffersKeepTheLines == Spec => []OffersKeepLines
  <1>1. FitOrStopped(session) => OffersKeepLines
    BY DEF FitOrStopped, Stopped, Fit, Lined, OfferKept, Sent, OffersKeepLines, Running
  <1> QED
    BY <1>1, InitFit, FitInductive, PTL DEF Spec

(* As long as the peer sends its offers in its re-INVITEs, a call that is  *)
(* shown as held by the peer sends on no stream: whatever gives a stream   *)
(* its SEND direction back, an answer of ours or an SDP of the peer, also  *)
(* lifts the hold.                                                         *)
THEOREM RemoteHold ==
    ASSUME "delay" \notin PeerMay
    PROVE  Spec => []RemoteHoldIsReal
  <1>1. FitOrStopped(session) => RemoteHoldIsReal
    BY DEF FitOrStopped, Stopped, Fit, Lined, Going, SendsNothing, RemoteHoldIsReal
  <1> QED
    BY <1>1, InitFit, FitInductive, PTL DEF Spec
=============================================================================
