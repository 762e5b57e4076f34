-------------------------- MODULE SipChangesProofs --------------------------
(***************************************************************************)
(* Changes of the media are not forgotten (UndisturbedChangesAreOffered of *)
(* module SipSession), for every value of the constants with which the     *)
(* client requests no directions.                                          *)
(*                                                                         *)
(* A media whose codecs are known waits for an SDP of ours (Awaited): the  *)
(* one sent last describes it, or a later one is due, because an offer is  *)
(* remembered or the state itself leads to one.  An established session    *)
(* whose medias are all ready has nothing left to offer (Kept).  A handler *)
(* that is told of a change makes up for it whatever the change was        *)
(* (MediaChangedKept); one that is not told must see a media that was      *)
(* ready, or known, before as much as it is now (WellServed).              *)
(*                                                                         *)
(* The second part is about the way there: a call that nobody changes does *)
(* not wait for medias that are ready (ReadySessionGoesOn).  The step that *)
(* the handlers end with leaves nothing to do (RequestResponseStepWakes),  *)
(* so what counts are the steps that end without it: a media gets ready    *)
(* there in silence only if it had no codecs of ours and did not wait for  *)
(* the peer's either (Stirs), and Ground says in which states there is no  *)
(* such media.                                                             *)
(***************************************************************************)
EXTENDS SipCourseProofs

-----------------------------------------------------------------------------
(* What becomes of a media.                                                *)

(* Nothing that our SDP or the readiness of the media depends on changes.  *)
SameService(m, p) ==
    /\ p.type = m.type
    /\ p.hold_requested = m.hold_requested
    /\ p.codec_intersect_pending = m.codec_intersect_pending
    /\ p.push_remote_codecs_pending = m.push_remote_codecs_pending
    /\ p.local_codecs = m.local_codecs
    /\ p.requested_direction = m.requested_direction
    /\ p.can_receive = m.can_receive
    /\ p.local_candidates_prepared = m.local_candidates_prepared

(* The media has no codecs of the peer to intersect, and waits for the     *)
(* client only with codecs of its own.                                     *)
Unhurried(m) ==
    /\ ~m.codec_intersect_pending
    /\ m.push_remote_codecs_pending => m.local_codecs # None

(* A media goes on as it was, but for codecs that it may get.              *)
Serves(m, p) ==
    /\ p.type = m.type
    /\ p.hold_requested = m.hold_requested
    /\ Unhurried(p)
    /\ p.local_codecs = None => m.local_codecs = None

(* A step of the client on a media, and what the session hears of it.      *)
WellServed(m, r) ==
    /\ Serves(m, r.media)
    /\ r.signal # "local-updated" =>
          (m.local_codecs = None => r.media.local_codecs = None)
    /\ r.signal = "none" => (IsReady(r.media) => IsReady(m))

LEMMA SameServiceServes ==
    ASSUME NEW m, NEW p, SameService(m, p), Unhurried(m)
    PROVE  /\ Serves(m, p)
           /\ m.local_codecs = None => p.local_codecs = None
           /\ IsReady(p) <=> IsReady(m)
  BY DEF SameService, Serves, Unhurried, IsReady

(* Fields that have no part in either.                                     *)
LEMMA OtherMediaServe ==
    ASSUME NEW m \in Media, NEW x
    PROVE  /\ SameService(m, [m EXCEPT !.remote_codec_offer = x])
           /\ SameService(m, [m EXCEPT !.remote_candidates = x])
           /\ SameService(m, [m EXCEPT !.push_candidates_on_new_codecs = x])
           /\ SameService(m, [m EXCEPT !.initial_offer = x])
           /\ SameService(m, [m EXCEPT !.offers = x])
           /\ SameService(m, [m EXCEPT !.direction = x])
           /\ SameService(m, [m EXCEPT !.home = x])
  BY DEF Media, SameService

LEMMA PushRemoteCodecsServes ==
    ASSUME NEW m \in Media
    PROVE  SameService(m, PushRemoteCodecs(m))
  <1> DEFINE codecs == m.remote_media.codecs
             n == m.offers + 1
             p == [m EXCEPT !.remote_codec_offer = codecs, !.offers = n]
  <1>1. PushRemoteCodecs(m) \in {m, p}
    BY Zenon DEF PushRemoteCodecs
  <1>2. SameService(m, p)
    <2> HIDE DEF codecs, n
    <2> QED
      BY DEF Media, SameService
  <1> HIDE DEF p
  <1> QED
    BY <1>1, <1>2 DEF SameService

LEMMA PushRemoteCandidatesServes ==
    ASSUME NEW m \in Media
    PROVE  SameService(m, PushRemoteCandidates(m))
  <1> DEFINE conn == m.remote_media.conn
             p == [m EXCEPT !.remote_candidates = conn]
  <1>1. PushRemoteCandidates(m) \in {m, p}
    BY Zenon DEF PushRemoteCandidates
  <1>2. SameService(m, p)
    <2> HIDE DEF conn
    <2> QED
      BY OtherMediaServe
  <1> HIDE DEF p
  <1> QED
    BY <1>1, <1>2 DEF SameService

(* The session hears of codecs, unless the client is handed the next list. *)
LEMMA TakeLocalCodecsServes ==
    ASSUME NEW m \in Media, Unhurried(m), NEW codecs \in CodecLists
    PROVE  WellServed(m, TakeLocalCodecs(m, codecs))
  <1> DEFINE m1 == [m EXCEPT !.local_codecs = codecs]
             m0 == [m1 EXCEPT !.push_candidates_on_new_codecs = FALSE]
             m2 == IF m1.push_candidates_on_new_codecs THEN PushRemoteCandidates(m0) ELSE m1
             m4 == [m1 EXCEPT !.push_remote_codecs_pending = FALSE]
             m5 == PushRemoteCodecs(m4)
             r  == TakeLocalCodecs(m, codecs)
  <1>1. /\ m1 \in Media /\ m1.local_codecs = codecs /\ codecs # None
        /\ m1.type = m.type /\ m1.hold_requested = m.hold_requested
        /\ m1.codec_intersect_pending = m.codec_intersect_pending
        /\ m1.push_remote_codecs_pending = m.push_remote_codecs_pending
    BY MediaAssumption DEF Media
  <1>2. /\ m1.requested_direction = m.requested_direction
        /\ m1.can_receive = m.can_receive
        /\ m1.local_candidates_prepared = m.local_candidates_prepared
    BY DEF Media
  <1> HIDE DEF m1
  <1>3. m0 \in Media /\ SameService(m1, m0)
    <2>1. m1 \in Media
      BY <1>1
    <2>2. m0 \in Media
      BY <2>1 DEF Media
    <2> QED
      BY <2>1, <2>2, OtherMediaServe
  <1> HIDE DEF m0
  <1>4. SameService(m1, m2)
    <2>1. SameService(m0, PushRemoteCandidates(m0))
      BY <1>3, PushRemoteCandidatesServes
    <2> QED
      BY <1>3, <2>1 DEF SameService
  <1>5. /\ m4 \in Media /\ m4.local_codecs = m1.local_codecs
        /\ m4.type = m1.type /\ m4.hold_requested = m1.hold_requested
        /\ m4.codec_intersect_pending = m1.codec_intersect_pending
        /\ m4.push_remote_codecs_pending = FALSE
    <2>1. m1 \in Media
      BY <1>1
    <2> QED
      BY <2>1 DEF Media
  <1>6. /\ m4.requested_direction = m1.requested_direction
        /\ m4.can_receive = m1.can_receive
        /\ m4.local_candidates_prepared = m1.local_candidates_prepared
    <2>1. m1 \in Media
      BY <1>1
    <2> QED
      BY <2>1 DEF Media
  <1> HIDE DEF m4
  <1>7. SameService(m4, m5)
    BY <1>5, PushRemoteCodecsServes
  <1>8. r = IF m1.push_remote_codecs_pending THEN [media |-> m5, signal |-> "none"]
            ELSE IF ~m2.codec_intersect_pending
            THEN [media |-> m2, signal |-> "local-updated"]
            ELSE r
    BY Zenon DEF TakeLocalCodecs, m0, m1, m4
  <1>9. ~m2.codec_intersect_pending
    BY <1>1, <1>4 DEF SameService, Unhurried
  <1> HIDE DEF m2, m5, r
  <1>10. CASE m1.push_remote_codecs_pending
    <2>1. r.media = m5 /\ r.signal = "none" /\ m.local_codecs # None
      BY <1>1, <1>8, <1>10 DEF Unhurried
    <2>2. Serves(m, m5) /\ (IsReady(m5) => IsReady(m))
      BY <1>1, <1>2, <1>5, <1>6, <1>7, <2>1 DEF SameService, Serves, Unhurried, IsReady
    <2> QED
      BY <2>1, <2>2 DEF WellServed, r
  <1>11. CASE ~m1.push_remote_codecs_pending
    <2>1. r.media = m2 /\ r.signal = "local-updated"
      BY <1>8, <1>9, <1>11
    <2>2. Serves(m, m2)
      BY <1>1, <1>4, <1>11 DEF SameService, Serves, Unhurried
    <2> QED
      BY <2>1, <2>2 DEF WellServed, r
  <1> QED
    BY <1>10, <1>11

(* A rejection takes no codecs away.                                       *)
LEMMA CodecsRejectedServes ==
    ASSUME NEW m \in Media, Unhurried(m)
    PROVE  /\ Serves(m, CodecsRejected(m).media)
           /\ m.local_codecs = None => CodecsRejected(m).media.local_codecs = None
           /\ IsReady(CodecsRejected(m).media) => IsReady(m)
  <1> DEFINE m1 == [m EXCEPT !.push_remote_codecs_pending = FALSE]
             m2 == PushRemoteCodecs(m1)
             m3 == [m EXCEPT !.codec_intersect_pending = FALSE]
  <1>1. m1 \in Media /\ Serves(m, m1) /\ m1.local_codecs = m.local_codecs
    BY DEF Media, Serves, Unhurried
  <1>2. IsReady(m1) => IsReady(m)
    BY DEF Media, IsReady
  <1> HIDE DEF m1
  <1>3. SameService(m1, m2)
    BY <1>1, PushRemoteCodecsServes
  <1> HIDE DEF m2
  <1>4. /\ Serves(m, m2) /\ m2.local_codecs = m.local_codecs
        /\ IsReady(m2) => IsReady(m)
    BY <1>1, <1>2, <1>3 DEF SameService, Serves, Unhurried, IsReady
  <1>5. Serves(m, m3) /\ m3.local_codecs = m.local_codecs
    BY DEF Media, Serves, Unhurried
  <1>6. IsReady(m3) => IsReady(m)
    BY DEF Media, IsReady, Unhurried
  <1>7. CodecsRejected(m).media \in {m2, m3}
    BY DEF CodecsRejected, m1, m2
  <1> HIDE DEF m3
  <1> QED
    BY <1>4, <1>5, <1>6, <1>7

LEMMA LocalCandidatesPreparedServes ==
    ASSUME NEW m \in Media, Unhurried(m)
    PROVE  WellServed(m, LocalCandidatesPrepared(m))
  <1> DEFINE m1 == [m EXCEPT !.local_candidates_prepared = TRUE]
  <1>1. /\ LocalCandidatesPrepared(m).media = m1
        /\ LocalCandidatesPrepared(m).signal = IF IsReady(m1) THEN "complete" ELSE "none"
    BY DEF LocalCandidatesPrepared
  <1>2. Serves(m, m1) /\ m1.local_codecs = m.local_codecs
    BY DEF Media, Serves, Unhurried
  <1> HIDE DEF m1
  <1> QED
    BY <1>1, <1>2 DEF WellServed

LEMMA SetCanReceiveServes ==
    ASSUME NEW m \in Media, Unhurried(m), NEW can \in BOOLEAN
    PROVE  WellServed(m, SetCanReceive(m, can))
  <1> DEFINE m1 == [m EXCEPT !.can_receive = can]
             m2 == ForgetCodecOffer(m1)
             r  == SetCanReceive(m, can)
  <1>1. \/ r.media = m /\ r.signal = "none"
        \/ r.media = m2 /\ r.signal = "complete"
        \/ r.media = m1 /\ r.signal = "none" /\ ~IsReady(m1)
    <2> HIDE DEF m1, m2
    <2>1. \/ r = [media |-> m, signal |-> "none"]
          \/ r = [media |-> m2, signal |-> "complete"]
          \/ r = [media |-> m1, signal |-> "none"] /\ ~IsReady(m1)
      BY Zenon DEF SetCanReceive, m1, m2
    <2> HIDE DEF r
    <2> QED
      BY <2>1
  <1>2. m1 \in Media
    BY DEF Media
  <1>3. Serves(m, m1) /\ m1.local_codecs = m.local_codecs
    BY DEF Media, Serves, Unhurried
  <1> HIDE DEF m1
  <1>4. SameService(m1, m2)
    BY <1>2, OtherMediaServe DEF ForgetCodecOffer
  <1> HIDE DEF m2, r
  <1>5. Serves(m, m2) /\ m2.local_codecs = m.local_codecs
    BY <1>3, <1>4 DEF SameService, Serves, Unhurried
  <1>6. Serves(m, m)
    BY DEF Serves
  <1> QED
    BY <1>1, <1>3, <1>5, <1>6 DEF WellServed, r

(* An answer, or a first offer, makes nobody wait for an intersection, and *)
(* only codecs that were offered to the client before wait for it.         *)
LEMMA SetRemoteMediaServes ==
    ASSUME NEW m \in Media, NEW line \in SdpMedia
    PROVE  LET p == SetRemoteMedia(m, line, FALSE)
           IN  /\ p.type = m.type
               /\ p.hold_requested = m.hold_requested
               /\ p.local_codecs = m.local_codecs
               /\ p.codec_intersect_pending => m.codec_intersect_pending
               /\ p.push_remote_codecs_pending =>
                     m.push_remote_codecs_pending \/ m.remote_codec_offer # None
  <1> DEFINE old == m.remote_media
             m1 == [m EXCEPT !.remote_media = line, !.home = "current"]
             a0 == [m1 EXCEPT !.push_candidates_on_new_codecs = TRUE]
             a1 == [m1 EXCEPT !.push_candidates_on_new_codecs = TRUE, !.remote_candidates = None]
             a2 == PushRemoteCandidates(m1)
             t == TakeRemoteTransport(m1, old, line)
             intersect == t.codec_intersect_pending \/ FALSE
             c1 == [t EXCEPT !.codec_intersect_pending = intersect]
             c2 == PushRemoteCodecs(c1)
             c3 == [c1 EXCEPT !.push_remote_codecs_pending = TRUE]
             c == TakeRemoteCodecs(t, old, line, FALSE)
             m2 == IF old = line THEN m1 ELSE c
             direction == NewDirection(m, line, FALSE)
             p == [m2 EXCEPT !.direction = direction]
             Served(x, y) == SameService(x, y) /\ y.remote_codec_offer = x.remote_codec_offer
  <1>1. m1 \in Media
    BY DEF Media, Home
  <1>2. Served(m, m1)
    BY DEF Media, SameService
  <1> HIDE DEF m1
  <1>3. a1 \in Media
    BY <1>1 DEF Media
  <1>4. Served(m1, a1)
    BY <1>1 DEF Media, SameService
  <1>5. Served(m1, a2)
    <2> DEFINE conn == m1.remote_media.conn
               q == [m1 EXCEPT !.remote_candidates = conn]
    <2>1. a2 \in {m1, q}
      BY Zenon DEF PushRemoteCandidates
    <2>2. Served(m1, q)
      <3> HIDE DEF conn
      <3> QED
        BY <1>1 DEF Media, SameService
    <2> HIDE DEF a2, q
    <2> QED
      BY <2>1, <2>2 DEF SameService
  <1>6. t \in Media /\ Served(m1, t)
    <2>1. t \in {m1, a1, a2}
      BY Zenon DEF TakeRemoteTransport
    <2>2. t \in Media
      BY <1>1, TakeRemoteTransportType
    <2> HIDE DEF t, a1, a2
    <2> QED
      BY <1>4, <1>5, <2>1, <2>2 DEF SameService
  <1> HIDE DEF t
  <1>7. c1 \in Media /\ Served(t, c1)
    <2>1. intersect = t.codec_intersect_pending /\ intersect \in BOOLEAN
      BY <1>6 DEF Media
    <2> HIDE DEF intersect
    <2>2. t \in Media
      BY <1>6
    <2>3. c1 \in Media
      BY <2>1, <2>2 DEF Media
    <2>4. Served(t, c1)
      BY <2>1, <2>2 DEF Media, SameService
    <2> QED
      BY <2>3, <2>4
  <1>8. \/ c = t
        \/ c = c2
        \/ c = c3 /\ c1.remote_codec_offer # None
    <2> HIDE DEF c1, c2, c3
    <2> QED
      BY Zenon DEF TakeRemoteCodecs, c1, c2, c3
  <1> HIDE DEF c1, c
  <1>9. SameService(c1, c2)
    BY <1>7, PushRemoteCodecsServes
  <1>10. /\ c3.type = c1.type /\ c3.hold_requested = c1.hold_requested
         /\ c3.local_codecs = c1.local_codecs
         /\ c3.codec_intersect_pending = c1.codec_intersect_pending
    BY <1>7 DEF Media
  <1> HIDE DEF c2, c3
  <1>11. m2 \in Media
    <2>1. c \in Media
      BY <1>6, TakeRemoteCodecsType DEF c
    <2> QED
      BY <1>1, <2>1
  <1>12. /\ m2.type = m.type /\ m2.hold_requested = m.hold_requested
         /\ m2.local_codecs = m.local_codecs
         /\ m2.codec_intersect_pending => m.codec_intersect_pending
         /\ m2.push_remote_codecs_pending =>
               m.push_remote_codecs_pending \/ m.remote_codec_offer # None
    <2>1. m2 \in {m1, c}
      OBVIOUS
    <2> HIDE DEF m2
    <2> QED
      BY <1>2, <1>6, <1>7, <1>8, <1>9, <1>10, <2>1 DEF SameService
  <1> HIDE DEF m2, direction
  <1>13. SameService(m2, p)
    BY <1>11, OtherMediaServe
  <1>14. SetRemoteMedia(m, line, FALSE) = p
    BY Zenon DEF SetRemoteMedia, m1, m2, t, c, direction
  <1> HIDE DEF p
  <1> QED
    BY <1>12, <1>13, <1>14 DEF SameService

-----------------------------------------------------------------------------
(* What is kept of a session.                                              *)

Bit(b) == IF b THEN 1 ELSE 0

(* The media of slot i is held like the session, and in no hurry.          *)
Tidy(s, i) ==
    /\ s.medias[i].hold_requested = s.hold_requested
    /\ Unhurried(s.medias[i])

(* No re-INVITE of the peer is around; each INVITE of ours is shown by the *)
(* state or has had its early answer.                                      *)
Steady(s) ==
    /\ s \in Session
    /\ s.nua_op
    /\ s.state \notin {"REINVITE_RECEIVED", "ENDED"}
    /\ s.cli = Bit(s.state \in Sent) + Bit(s.early)
    /\ s.early => s.state \notin {"CREATED", "INVITE_SENT"}
    /\ s.state \in {"CREATED", "INVITE_RECEIVED"} => s.local_sdp = None

(* An offer on its way describes medias whose codecs are known.            *)
OfferDescribed(s) ==
    s.state \in Sent =>
        /\ s.local_sdp # None
        /\ Len(s.local_sdp) <= Len(s.medias)
        /\ \A i \in Present(s) : i <= Len(s.local_sdp) => s.medias[i].local_codecs # None

Watched(s) ==
    /\ Steady(s)
    /\ OfferDescribed(s)
    /\ \A i \in Present(s) : Tidy(s, i)

(* What is known of media i is in our last SDP, or will be in a later one. *)
Awaited(s, i) ==
    \/ s.medias[i].local_codecs = None
    \/ s.pending_offer
    \/ s.state = "CREATED"
    \/ s.state = "INVITE_RECEIVED" /\ i <= s.remote_media_count
    \/ Offered(s, i)

AllAwaited(s) == \A i \in Present(s) : Awaited(s, i)
AllOffered(s) == \A i \in Present(s) : Offered(s, i)

Kept(s) ==
    /\ Watched(s)
    /\ AllAwaited(s)
    /\ s.state = "ACTIVE" /\ AllMediaReady(s) => AllOffered(s)

(* The fields of a session that these depend on, but for its medias.       *)
SamePlan(s, t) ==
    /\ t.state = s.state
    /\ t.nua_op = s.nua_op
    /\ t.cli = s.cli
    /\ t.early = s.early
    /\ t.local_sdp = s.local_sdp
    /\ t.hold_requested = s.hold_requested
    /\ t.pending_offer = s.pending_offer
    /\ t.remote_media_count = s.remote_media_count

(* Medias that go on as they were.                                         *)
LEMMA ServedWatched ==
    ASSUME NEW s, Watched(s), NEW t \in Session, SamePlan(s, t),
           Len(t.medias) = Len(s.medias),
           \A i \in Present(t) : i \in Present(s) /\ Serves(s.medias[i], t.medias[i])
    PROVE  Watched(t)
  <1>1. Steady(t)
    BY DEF Watched, Steady, SamePlan
  <1>2. OfferDescribed(t)
    BY DEF Watched, OfferDescribed, SamePlan, Serves
  <1>3. ASSUME NEW i \in Present(t)
        PROVE  Tidy(t, i)
    BY <1>3 DEF Watched, Tidy, SamePlan, Serves
  <1> QED
    BY <1>1, <1>2, <1>3 DEF Watched

LEMMA ServedAwaited ==
    ASSUME NEW s, AllAwaited(s), NEW t, SamePlan(s, t),
           \A i \in Present(t) :
              /\ i \in Present(s) /\ Serves(s.medias[i], t.medias[i])
              /\ s.medias[i].local_codecs = None => t.medias[i].local_codecs = None
    PROVE  AllAwaited(t)
  BY DEF AllAwaited, Awaited, Offered, SamePlan, Serves

LEMMA SamePlanWatched ==
    ASSUME NEW s, NEW t \in Session, SamePlan(s, t), t.medias = s.medias
    PROVE  /\ Watched(s) => Watched(t)
           /\ AllAwaited(s) => AllAwaited(t)
           /\ Kept(s) => Kept(t)
  <1>1. Watched(s) => Watched(t)
    BY DEF SamePlan, Watched, Steady, OfferDescribed, Tidy, Present, Slots
  <1>2. AllAwaited(s) => AllAwaited(t)
    BY DEF SamePlan, AllAwaited, Awaited, Offered, Present, Slots
  <1>3. AllOffered(s) => AllOffered(t)
    BY DEF SamePlan, AllOffered, Offered, Present, Slots
  <1>4. AllMediaReady(t) => AllMediaReady(s)
    BY DEF AllMediaReady, Present, Slots
  <1> QED
    BY <1>1, <1>2, <1>3, <1>4 DEF Kept, SamePlan

(* Nothing gets ready unnoticed.                                           *)
LEMMA ServedKept ==
    ASSUME NEW s, Kept(s), NEW t \in Session, SamePlan(s, t),
           Len(t.medias) = Len(s.medias),
           \A i \in Present(t) :
              /\ i \in Present(s) /\ Serves(s.medias[i], t.medias[i])
              /\ s.medias[i].local_codecs = None => t.medias[i].local_codecs = None,
           AllMediaReady(t) => AllMediaReady(s)
    PROVE  Kept(t)
  <1>1. Watched(t) /\ AllAwaited(t)
    BY ServedWatched, ServedAwaited DEF Kept
  <1>2. ASSUME t.state = "ACTIVE", AllMediaReady(t)
        PROVE  AllOffered(t)
    BY <1>2 DEF Kept, AllOffered, Offered, SamePlan, Serves
  <1> QED
    BY <1>1, <1>2 DEF Kept

(* Our SDP describes the medias it has lines for.                          *)
LEMMA SdpOffers ==
    ASSUME NEW s \in Session, NEW authoritative \in BOOLEAN, NEW i \in Present(s), Tidy(s, i),
           i <= Len(SessionSdp(s, authoritative)), NEW t,
           t.local_sdp = SessionSdp(s, authoritative),
           t.hold_requested = s.hold_requested, t.medias[i].type = s.medias[i].type
    PROVE  Offered(t, i)
  <1> DEFINE sdp == SessionSdp(s, authoritative)
             n == SdpLength(s, authoritative)
             m == s.medias[i]
             line == GenerateSdp(m, authoritative)
  <1>1. /\ sdp \in Seq(LocalLine) /\ Len(sdp) = n /\ n \in Nat
        /\ Len(s.medias) \in Nat /\ i \in Nat \ {0}
    BY SessionSdpType, SlotsType DEF Present
  <1>2. i \in 1..n
    BY <1>1
  <1>3. sdp[i] = line
    BY <1>2 DEF SessionSdp, Present
  <1>4. m \in Media
    BY SlotType DEF Present
  <1>5. line # None
    BY <1>4, GeneratedType, LocalLineAssumption
  <1>6. line.type = m.type /\ line.dir = SdpDirection(m, authoritative)
    BY DEF GenerateSdp
  <1>7. s.hold_requested => "RECEIVE" \notin line.dir
    BY <1>6 DEF SdpDirection, Tidy
  <1>8. sdp # None
    BY <1>1, LocalLineAssumption
  <1> HIDE DEF sdp, n, m, line
  <1> QED
    BY <1>1, <1>2, <1>3, <1>5, <1>6, <1>7, <1>8 DEF Offered, sdp, m

-----------------------------------------------------------------------------
(* The handlers that send our SDP.                                         *)

LEMMA ReadyMedia ==
    ASSUME NEW s, AllMediaReady(s), NEW i \in Present(s)
    PROVE  s.medias[i].local_codecs # None
  BY DEF AllMediaReady, IsReady

(* With every media described there is nothing left to wait for.           *)
LEMMA AllOfferedKept ==
    ASSUME NEW s, Watched(s), AllOffered(s)
    PROVE  Kept(s)
  BY DEF Kept, AllAwaited, AllOffered, Awaited

LEMMA OfferSdpOffers ==
    ASSUME NEW s, Watched(s), NEW t, t.medias = s.medias,
           t.local_sdp = SessionSdp(s, TRUE), t.hold_requested = s.hold_requested
    PROVE  AllOffered(t) /\ Len(t.local_sdp) = Len(t.medias)
  <1>1. s \in Session
    BY DEF Watched, Steady
  <1>2. /\ Len(SessionSdp(s, TRUE)) = Len(s.medias)
        /\ Len(s.medias) \in Nat
    BY <1>1, SessionSdpType, SlotsType DEF SdpLength
  <1>3. ASSUME NEW i \in Present(t)
        PROVE  Offered(t, i)
    <2>1. i \in Present(s) /\ Tidy(s, i) /\ i <= Len(s.medias)
      BY <1>1, SlotsType DEF Present, Slots, Watched
    <2> QED
      BY <1>1, <1>2, <2>1, SdpOffers
  <1> QED
    BY <1>2, <1>3 DEF AllOffered

(* An INVITE goes out, or would be the last one again.                     *)
LEMMA InviteKept ==
    ASSUME NEW s, Watched(s), AllMediaReady(s), NEW reinvite \in BOOLEAN,
           s.state \in (IF reinvite THEN {"ACTIVE", "REINVITE_PENDING"} ELSE {"CREATED"})
    PROVE  Kept(Invite(s, reinvite))
  <1> DEFINE sdp == SessionSdp(s, TRUE)
             n == s.cli + 1
             state == IF reinvite THEN "REINVITE_SENT" ELSE "INVITE_SENT"
             sent == [[s EXCEPT !.cli = n]
                        EXCEPT !.local_sdp = sdp, !.pending_offer = FALSE, !.state = state]
  <1>1. s \in Session /\ s.nua_op /\ Steady(s)
    BY DEF Watched, Steady
  <1>2. Invite(s, reinvite) =
            IF \/ ~s.nua_op
               \/ ~AllMediaReady(s)
               \/ reinvite /\ s.state # "REINVITE_PENDING" /\ s.local_sdp = sdp
            THEN s ELSE sent
    BY Zenon DEF Invite, NuaInvite
  <1>3. CASE reinvite /\ s.state # "REINVITE_PENDING" /\ s.local_sdp = sdp
    <2>1. AllOffered(s)
      BY <1>3, OfferSdpOffers
    <2> QED
      BY <1>2, <1>3, <2>1, AllOfferedKept
  <1>4. CASE ~(reinvite /\ s.state # "REINVITE_PENDING" /\ s.local_sdp = sdp)
    <2>1. Invite(s, reinvite) = sent
      BY <1>1, <1>2, <1>4
    <2>2. sent \in Session
      BY <1>1, <2>1, InviteType
    <2>3. /\ sent.local_sdp = sdp /\ sent.state = state /\ sent.cli = n
          /\ sent.medias = s.medias /\ sent.early = s.early
          /\ sent.nua_op = s.nua_op /\ sent.hold_requested = s.hold_requested
      <3> HIDE DEF sdp, n, state
      <3> QED
        BY <1>1 DEF Session
    <2> HIDE DEF sent
    <2>4. AllOffered(sent) /\ Len(sdp) = Len(s.medias)
      BY <2>3, OfferSdpOffers
    <2>5. Steady(sent)
      <3>1. s.cli = Bit(s.early) /\ s.early \in BOOLEAN
        BY <1>1 DEF Steady, Bit, Sent, Session
      <3>2. n = 1 + Bit(s.early)
        BY <3>1 DEF Bit
      <3> HIDE DEF n
      <3> QED
        BY <1>1, <2>2, <2>3, <3>2 DEF Steady, Bit, Sent
    <2>6. OfferDescribed(sent)
      <3>1. sdp # None
        BY <1>1, SessionSdpType, LocalLineAssumption
      <3>2. Len(s.medias) \in Nat
        BY <1>1, SlotsType
      <3>3. \A i \in Present(sent) : sent.medias[i].local_codecs # None
        BY <2>3, ReadyMedia DEF Present, Slots
      <3> HIDE DEF sdp
      <3> QED
        BY <2>3, <2>4, <3>1, <3>2, <3>3 DEF OfferDescribed
    <2>7. \A i \in Present(sent) : Tidy(sent, i)
      BY <2>3 DEF Watched, Tidy, Present, Slots
    <2> QED
      BY <2>1, <2>4, <2>5, <2>6, <2>7, AllOfferedKept DEF Watched
  <1> QED
    BY <1>3, <1>4

(* The session gets active: what was held back is offered now.             *)
LEMMA ActivateKept ==
    ASSUME NEW s, s.state # "ACTIVE", NEW t, t = [s EXCEPT !.state = "ACTIVE"],
           Watched(t), AllMediaReady(t), t.state = "ACTIVE", t.pending_offer = s.pending_offer,
           s.pending_offer \/ AllOffered(t)
    PROVE  Kept(ChangeState(s, "ACTIVE"))
  <1>1. ChangeState(s, "ACTIVE") = IF s.pending_offer THEN Invite(t, TRUE) ELSE t
    <2>1. "ACTIVE" # "ENDED"
      OBVIOUS
    <2> QED
      BY <2>1, Zenon DEF ChangeState
  <1>2. Kept(Invite(t, TRUE))
    <2>1. t.state \in (IF TRUE THEN {"ACTIVE", "REINVITE_PENDING"} ELSE {"CREATED"})
      OBVIOUS
    <2>2. TRUE \in BOOLEAN
      OBVIOUS
    <2> QED
      BY <2>1, <2>2, InviteKept, Zenon
  <1>3. AllOffered(t) => Kept(t)
    BY AllOfferedKept
  <1> QED
    BY <1>1, <1>2, <1>3

(* Our answer describes the medias the peer asked for; the others wait.    *)
LEMMA RespondKept ==
    ASSUME NEW s, Watched(s), AllAwaited(s), AllMediaReady(s), s.state = "INVITE_RECEIVED"
    PROVE  Kept(Respond(s))
  <1> DEFINE sdp == SessionSdp(s, FALSE)
             medias == [i \in Slots(s) |->
                          IF s.medias[i] = None \/ i > Len(sdp) THEN s.medias[i]
                          ELSE GeneratedDirection(s.medias[i], FALSE)]
             q == NuaRespond(s)
             bad == q.bad_answer \/ (s.srv = "offer" /\ ~AnswerFits(sdp, s.remote_sdp))
             ack == IF s.srv = "delayed" THEN sdp ELSE q.ack
             s1 == [q EXCEPT !.local_sdp = sdp, !.ack = ack, !.medias = medias,
                             !.bad_answer = bad, !.saved_event = FALSE]
             t == [s1 EXCEPT !.state = "ACTIVE"]
  <1>1. s \in Session /\ s.nua_op
    BY DEF Watched, Steady
  <1>2. Answered(s) = s1
    BY Zenon DEF Answered
  <1>3. s1 \in Session
    BY <1>1, <1>2, AnsweredType
  <1>4. /\ q \in Session /\ q.state = s.state /\ q.cli = s.cli /\ q.early = s.early
        /\ q.nua_op = s.nua_op /\ q.hold_requested = s.hold_requested
        /\ q.pending_offer = s.pending_offer
    <2> DEFINE stray == s.stray_response \/ s.srv = "none"
    <2>1. q = [s EXCEPT !.srv = "none", !.stray_response = stray]
      BY Zenon DEF NuaRespond
    <2>2. q \in Session
      BY <1>1, NuaRespondType
    <2> HIDE DEF stray, q
    <2> QED
      BY <1>1, <2>1, <2>2 DEF Session
  <1>5. /\ s1.state = q.state /\ s1.cli = q.cli /\ s1.early = q.early
        /\ s1.nua_op = q.nua_op /\ s1.hold_requested = q.hold_requested
        /\ s1.pending_offer = q.pending_offer
        /\ s1.medias = medias /\ s1.local_sdp = sdp
    <2>1. q \in Session
      BY <1>4
    <2> HIDE DEF sdp, medias, q, bad, ack
    <2> QED
      BY <2>1 DEF Session
  <1> HIDE DEF s1, q
  <1>6. t \in Session
    BY ZenonT(60), <1>3 DEF Session, SessionState
  <1>7. /\ t.state = "ACTIVE" /\ t.cli = s.cli /\ t.early = s.early
        /\ t.nua_op = s.nua_op /\ t.hold_requested = s.hold_requested
        /\ t.pending_offer = s.pending_offer
        /\ t.medias = medias /\ t.local_sdp = sdp
    <2>1. /\ t.state = "ACTIVE" /\ t.cli = s1.cli /\ t.early = s1.early
          /\ t.nua_op = s1.nua_op /\ t.hold_requested = s1.hold_requested
          /\ t.pending_offer = s1.pending_offer
          /\ t.medias = s1.medias /\ t.local_sdp = s1.local_sdp
      BY <1>3 DEF Session
    <2> HIDE DEF t
    <2> QED
      BY <1>4, <1>5, <2>1
  <1>8. Len(medias) = Len(s.medias) /\ Len(s.medias) \in Nat
    <2>1. Len(s.medias) \in Nat /\ Slots(s) = 1..Len(s.medias)
      BY <1>1, SlotsType
    <2> QED
      BY <2>1
  <1>9. ASSUME NEW i \in Present(t)
        PROVE  /\ i \in Present(s) /\ s.medias[i] \in Media
               /\ SameService(s.medias[i], t.medias[i])
    <2>1. i \in Slots(s)
      BY <1>7, <1>8 DEF Present, Slots
    <2>2. medias[i] \in {s.medias[i], GeneratedDirection(s.medias[i], FALSE)}
          /\ (s.medias[i] = None => medias[i] = None)
      BY <2>1
    <2>3. i \in Present(s) /\ s.medias[i] \in Media
      <3>1. medias[i] # None
        BY <1>7 DEF Present
      <3> HIDE DEF medias
      <3> QED
        BY <1>1, <2>1, <2>2, <3>1, SlotType DEF Present
    <2>4. SameService(s.medias[i], GeneratedDirection(s.medias[i], FALSE))
      BY <2>3, OtherMediaServe, Zenon DEF GeneratedDirection
    <2>5. SameService(s.medias[i], s.medias[i])
      BY DEF SameService
    <2> HIDE DEF medias
    <2> QED
      BY <1>7, <2>2, <2>3, <2>4, <2>5
  <1> HIDE DEF medias, sdp, t
  <1>10. Watched(t)
    <2>1. Steady(t)
      BY <1>6, <1>7 DEF Watched, Steady, Bit, Sent
    <2>2. OfferDescribed(t)
      BY <1>7 DEF OfferDescribed, Sent
    <2>3. ASSUME NEW i \in Present(t)
          PROVE  Tidy(t, i)
      BY <1>7, <1>9, <2>3 DEF Watched, Tidy, SameService, Unhurried
    <2> QED
      BY <2>1, <2>2, <2>3 DEF Watched
  <1>11. AllMediaReady(t)
    BY <1>9 DEF AllMediaReady, SameService, IsReady
  <1>12. ASSUME ~s.pending_offer, NEW i \in Present(t)
         PROVE  Offered(t, i)
    <2>1. i \in Present(s) /\ s.medias[i].local_codecs # None
      BY <1>9, <1>12, ReadyMedia
    <2>2. i <= s.remote_media_count
      BY <1>12, <2>1 DEF Watched, Steady, AllAwaited, Awaited, Offered
    <2>3. i <= Len(sdp)
      <3>1. Len(sdp) = Min2(Len(s.medias), s.remote_media_count)
        BY <1>1, SessionSdpType DEF sdp, SdpLength
      <3>2. i <= Len(s.medias) /\ i \in Nat
        BY <1>8, <2>1 DEF Present, Slots
      <3>3. s.remote_media_count \in Nat
        BY <1>1 DEF Session
      <3> QED
        BY <1>8, <2>2, <3>1, <3>2, <3>3 DEF Min2
    <2>4. Tidy(s, i) /\ t.medias[i].type = s.medias[i].type
      BY <1>9, <1>12, <2>1 DEF Watched, SameService
    <2> QED
      BY <1>1, <1>7, <2>1, <2>3, <2>4, SdpOffers DEF sdp
  <1>13. Kept(ChangeState(s1, "ACTIVE"))
    <2>1. s1.state # "ACTIVE" /\ s1.pending_offer = s.pending_offer
      BY <1>4, <1>5
    <2>2. s1.pending_offer \/ AllOffered(t)
      BY <1>12, <2>1 DEF AllOffered
    <2> QED
      BY <1>7, <1>10, <1>11, <2>1, <2>2, ActivateKept DEF t
  <1>14. Respond(s) = ChangeState(s1, "ACTIVE")
    BY <1>1, <1>2, Zenon DEF Respond
  <1> QED
    BY <1>13, <1>14

(* A session whose medias are not all ready has something to wait for.     *)
LEMMA UnreadyKept ==
    ASSUME NEW s, Watched(s), AllAwaited(s), s.state # "ACTIVE" \/ ~AllMediaReady(s)
    PROVE  Kept(s)
  BY DEF Kept

LEMMA RequestResponseStepKept ==
    ASSUME NEW s, Watched(s), AllAwaited(s)
    PROVE  Kept(RequestResponseStep(s))
  <1>1. s \in Session /\ s.state \in SessionState \ {"REINVITE_RECEIVED", "ENDED"}
    BY DEF Watched, Steady, Session
  <1>2. CASE ~AllMediaReady(s)
    <2>1. RequestResponseStep(s) = s
      BY <1>2, Zenon DEF RequestResponseStep
    <2> QED
      BY <1>2, <2>1, UnreadyKept
  <1>3. CASE AllMediaReady(s) /\ s.state = "CREATED"
    <2>1. RequestResponseStep(s) = Invite(s, FALSE)
      BY <1>3, Zenon DEF RequestResponseStep
    <2>2. s.state \in (IF FALSE THEN {"ACTIVE", "REINVITE_PENDING"} ELSE {"CREATED"})
      BY <1>3
    <2>3. FALSE \in BOOLEAN
      OBVIOUS
    <2>4. Kept(Invite(s, FALSE))
      BY <1>3, <2>2, <2>3, InviteKept, Zenon
    <2> QED
      BY <2>1, <2>4, Zenon
  <1>4. CASE AllMediaReady(s) /\ s.state = "INVITE_RECEIVED"
    <2>1. RequestResponseStep(s) \in {s, Respond(s)}
      BY <1>4 DEF RequestResponseStep
    <2> QED
      BY <1>4, <2>1, RespondKept, UnreadyKept
  <1>5. CASE AllMediaReady(s) /\ s.state = "RESPONSE_RECEIVED"
    <2> DEFINE t == [s EXCEPT !.state = "ACTIVE"]
    <2>1. RequestResponseStep(s) \in {s, ChangeState(s, "ACTIVE")}
      BY <1>5 DEF RequestResponseStep
    <2>2. t \in Session
      BY <1>1 DEF Session, SessionState
    <2>3. /\ t.state = "ACTIVE" /\ t.nua_op = s.nua_op /\ t.cli = s.cli /\ t.early = s.early
          /\ t.local_sdp = s.local_sdp /\ t.hold_requested = s.hold_requested
          /\ t.pending_offer = s.pending_offer /\ t.medias = s.medias
      BY <1>1 DEF Session
    <2> HIDE DEF t
    <2>4. Watched(t)
      BY <1>5, <2>2, <2>3 DEF Watched, Steady, OfferDescribed, Tidy, Present, Slots, Sent, Bit
    <2>5. AllMediaReady(t)
      BY <1>5, <2>3 DEF AllMediaReady, Present, Slots
    <2>6. s.pending_offer \/ AllOffered(t)
      <3>1. ASSUME ~s.pending_offer, NEW i \in Present(t)
            PROVE  Offered(t, i)
        <4>1. i \in Present(s) /\ s.medias[i].local_codecs # None
          BY <1>5, <2>3, ReadyMedia DEF Present, Slots
        <4>2. Offered(s, i)
          BY <1>5, <3>1, <4>1 DEF AllAwaited, Awaited
        <4> QED
          BY <2>3, <4>2 DEF Offered
      <3> QED
        BY <3>1 DEF AllOffered
    <2>7. Kept(ChangeState(s, "ACTIVE"))
      BY <1>5, <2>3, <2>4, <2>5, <2>6, ActivateKept DEF t
    <2> QED
      BY <1>5, <2>1, <2>7, UnreadyKept
  <1>6. CASE AllMediaReady(s) /\ s.state \in {"ACTIVE", "REINVITE_PENDING"}
    <2>1. RequestResponseStep(s) = IF s.pending_offer THEN Invite(s, TRUE) ELSE s
      BY <1>6 DEF RequestResponseStep
    <2>2. s.state \in (IF TRUE THEN {"ACTIVE", "REINVITE_PENDING"} ELSE {"CREATED"})
      BY <1>6
    <2>3. TRUE \in BOOLEAN
      OBVIOUS
    <2>4. Kept(Invite(s, TRUE))
      BY <1>6, <2>2, <2>3, InviteKept, Zenon
    <2>5. ~s.pending_offer => Kept(s)
      BY <1>6, ReadyMedia DEF Kept, AllAwaited, AllOffered, Awaited
    <2> QED
      BY <2>1, <2>4, <2>5, Zenon
  <1>7. CASE s.state \in Sent
    <2>1. RequestResponseStep(s) = s
      BY <1>7 DEF RequestResponseStep, Sent
    <2> QED
      BY <1>7, <2>1, UnreadyKept DEF Sent
  <1> QED
    BY <1>1, <1>2, <1>3, <1>4, <1>5, <1>6, <1>7 DEF SessionState, Sent

LEMMA AcceptSessionKept ==
    ASSUME NEW s, Kept(s)
    PROVE  Kept(AcceptSession(s))
  <1> DEFINE t == [s EXCEPT !.accepted = TRUE]
  <1>1. s \in Session
    BY DEF Kept, Watched, Steady
  <1>2. t \in Session
    BY <1>1 DEF Session
  <1>3. SamePlan(s, t) /\ t.medias = s.medias
    BY <1>1 DEF Session, SamePlan
  <1>4. AcceptSession(s) \in {s, RequestResponseStep(t)}
    BY Zenon DEF AcceptSession
  <1> HIDE DEF t
  <1>5. Watched(t) /\ AllAwaited(t)
    BY <1>2, <1>3, SamePlanWatched DEF Kept
  <1> QED
    BY <1>4, <1>5, RequestResponseStepKept

(* However the medias changed: once the session is told, none is missed.   *)
LEMMA MediaChangedKept ==
    ASSUME ~ImmutableStreams, NEW s, Watched(s)
    PROVE  Kept(MediaChanged(s))
  <1>1. s \in Session /\ s.state \in SessionState \ {"REINVITE_RECEIVED", "ENDED"}
    BY DEF Watched, Steady, Session
  <1>2. ASSUME NEW b \in BOOLEAN
        PROVE  LET t == [s EXCEPT !.pending_offer = b]
               IN  /\ Watched(t)
                   /\ t.state = s.state /\ t.medias = s.medias /\ t.pending_offer = b
                   /\ t.remote_media_count = s.remote_media_count
    <2> DEFINE t == [s EXCEPT !.pending_offer = b]
    <2>1. t \in Session
      BY <1>1 DEF Session
    <2>2. /\ t.state = s.state /\ t.nua_op = s.nua_op /\ t.cli = s.cli /\ t.early = s.early
          /\ t.local_sdp = s.local_sdp /\ t.hold_requested = s.hold_requested
          /\ t.medias = s.medias /\ t.remote_media_count = s.remote_media_count
          /\ t.pending_offer = b
      BY <1>1 DEF Session
    <2> HIDE DEF t
    <2>3. Watched(t)
      BY <2>1, <2>2 DEF Watched, Steady, OfferDescribed, Tidy, Present, Slots
    <2> QED
      BY <2>2, <2>3 DEF t
  <1>3. ASSUME s.state # "ACTIVE" \/ ~AllMediaReady(s)
        PROVE  Kept([s EXCEPT !.pending_offer = TRUE])
    <2> DEFINE t == [s EXCEPT !.pending_offer = TRUE]
    <2>1. Watched(t) /\ t.state = s.state /\ t.medias = s.medias /\ t.pending_offer
      BY <1>2
    <2> HIDE DEF t
    <2>2. AllAwaited(t) /\ (AllMediaReady(t) <=> AllMediaReady(s))
      BY <2>1 DEF AllAwaited, Awaited, AllMediaReady, Present, Slots
    <2>3. Kept(t)
      BY <1>3, <2>1, <2>2, UnreadyKept
    <2> QED
      BY <2>3 DEF t
  <1>4. CASE s.state = "CREATED"
    <2>1. MediaChanged(s) = RequestResponseStep(s)
      BY <1>4, Zenon DEF MediaChanged
    <2>2. AllAwaited(s)
      BY <1>4 DEF AllAwaited, Awaited
    <2> QED
      BY <2>1, <2>2, RequestResponseStepKept
  <1>5. CASE s.state = "INVITE_RECEIVED"
    <2> DEFINE b == s.pending_offer \/ s.remote_media_count < Len(s.medias)
               t == [s EXCEPT !.pending_offer = b]
    <2>1. MediaChanged(s) = t
      BY <1>5 DEF MediaChanged
    <2>2. b \in BOOLEAN
      BY <1>1 DEF Session
    <2>3. /\ s.remote_media_count \in Nat /\ Len(s.medias) \in Nat
          /\ Slots(s) = 1..Len(s.medias)
      BY <1>1, SlotsType DEF Session
    <2>4. ASSUME NEW i \in Present(s)
          PROVE  b \/ i <= s.remote_media_count
      BY <2>3 DEF Present
    <2> HIDE DEF b
    <2>5. /\ Watched(t) /\ t.state = s.state /\ t.medias = s.medias /\ t.pending_offer = b
          /\ t.remote_media_count = s.remote_media_count
      BY <1>2, <2>2
    <2> HIDE DEF t
    <2>6. AllAwaited(t)
      BY <1>5, <2>4, <2>5 DEF AllAwaited, Awaited, Present, Slots
    <2> QED
      BY <1>5, <2>1, <2>5, <2>6, UnreadyKept
  <1>6. CASE s.state \in {"INVITE_SENT", "REINVITE_SENT", "RESPONSE_RECEIVED"}
    <2>1. MediaChanged(s) = [s EXCEPT !.pending_offer = TRUE]
      BY <1>6 DEF MediaChanged
    <2> QED
      BY <1>3, <1>6, <2>1
  <1>7. CASE s.state \in {"ACTIVE", "REINVITE_PENDING"}
    <2>1. MediaChanged(s) = IF AllMediaReady(s) THEN Invite(s, TRUE)
                            ELSE [s EXCEPT !.pending_offer = TRUE]
      BY <1>7 DEF MediaChanged
    <2>2. s.state \in (IF TRUE THEN {"ACTIVE", "REINVITE_PENDING"} ELSE {"CREATED"})
      BY <1>7
    <2>3. TRUE \in BOOLEAN
      OBVIOUS
    <2>4. AllMediaReady(s) => Kept(Invite(s, TRUE))
      BY <2>2, <2>3, InviteKept, Zenon
    <2> QED
      BY <1>3, <2>1, <2>4, Zenon
  <1> QED
    BY <1>1, <1>4, <1>5, <1>6, <1>7 DEF SessionState

-----------------------------------------------------------------------------
(* The client changes the medias.                                          *)

(* One slot is given what became of its media, or emptied.                 *)
LEMMA SlotServed ==
    ASSUME NEW s \in Session, NEW i \in Present(s), NEW m \in Slot,
           m # None => Serves(s.medias[i], m)
    PROVE  LET t == [s EXCEPT !.medias[i] = m]
           IN  /\ t \in Session
               /\ SamePlan(s, t)
               /\ Len(t.medias) = Len(s.medias)
               /\ t.medias[i] = m
               /\ \A j \in Slots(s) : j # i => t.medias[j] = s.medias[j]
  <1> DEFINE medias == [s.medias EXCEPT ![i] = m]
             t == [s EXCEPT !.medias = medias]
  <1>1. i \in Slots(s) /\ s.medias \in Seq(Slot)
    BY DEF Present, Session
  <1>2. [s EXCEPT !.medias[i] = m] \in Session
    BY <1>1, SetMediaType
  <1>3. [s EXCEPT !.medias[i] = m] = t
    BY Zenon
  <1>4. /\ Len(medias) = Len(s.medias) /\ medias[i] = m
        /\ \A j \in Slots(s) : j # i => medias[j] = s.medias[j]
    <2>1. DOMAIN s.medias = 1..Len(s.medias)
      BY <1>1, LenProperties
    <2>2. medias \in Seq(Slot) /\ Len(medias) = Len(s.medias)
      BY <1>1, ExceptSeq DEF Slots
    <2> QED
      BY <1>1, <2>1, <2>2 DEF Slots
  <1> HIDE DEF medias
  <1>5. SamePlan(s, t) /\ t.medias = medias
    BY DEF Session, SamePlan
  <1>6. t \in Session
    BY <1>2, <1>3
  <1> HIDE DEF t
  <1> QED
    BY <1>3, <1>4, <1>5, <1>6

LEMMA RemoveMediaKept ==
    ASSUME NEW s, NEW i \in Present(s)
    PROVE  /\ Watched(s) => Watched(RemoveMedia(s, i))
           /\ Kept(s) => AllAwaited(RemoveMedia(s, i))
  <1> DEFINE t == RemoveMedia(s, i)
  <1>1. ASSUME s \in Session
        PROVE  /\ t \in Session /\ SamePlan(s, t) /\ Len(t.medias) = Len(s.medias)
               /\ \A j \in Present(t) : j \in Present(s) /\ t.medias[j] = s.medias[j]
    <2>1. t = [s EXCEPT !.medias[i] = None]
      BY Zenon DEF RemoveMedia
    <2>2. None \in Slot
      BY DEF Slot
    <2>3. /\ t \in Session /\ SamePlan(s, t) /\ Len(t.medias) = Len(s.medias)
          /\ t.medias[i] = None
          /\ \A j \in Slots(s) : j # i => t.medias[j] = s.medias[j]
      BY <1>1, <2>1, <2>2, SlotServed
    <2> HIDE DEF t
    <2> QED
      BY <2>3 DEF Present, Slots
  <1> HIDE DEF t
  <1>2. ASSUME Watched(s)
        PROVE  /\ Watched(t)
               /\ AllAwaited(s) => AllAwaited(t)
    <2>1. s \in Session
      BY <1>2 DEF Watched, Steady
    <2>2. \A j \in Present(s) : Serves(s.medias[j], s.medias[j])
      BY <1>2 DEF Watched, Tidy, Serves
    <2>3. \A j \in Present(t) : j \in Present(s) /\ Serves(s.medias[j], t.medias[j])
                                /\ t.medias[j] = s.medias[j]
      BY <1>1, <2>1, <2>2
    <2>4. Watched(t)
      BY <1>1, <1>2, <2>1, <2>3, ServedWatched
    <2>5. AllAwaited(s) => AllAwaited(t)
      BY <1>1, <2>1, <2>3, ServedAwaited
    <2> QED
      BY <2>4, <2>5
  <1> QED
    BY <1>2 DEF Kept, t

(* A content that is added is not described yet, and not known.            *)
LEMMA AppendKept ==
    ASSUME NEW s, Kept(s), NEW m \in Media, m.local_codecs = None, Unhurried(m),
           m.hold_requested = s.hold_requested
    PROVE  Kept([s EXCEPT !.medias = Append(@, m)])
  <1> DEFINE medias == Append(s.medias, m)
             t == [s EXCEPT !.medias = medias]
             n == Len(s.medias)
  <1>1. s \in Session /\ s.medias \in Seq(Slot) /\ n \in Nat /\ m \in Slot /\ m # None
    <2>1. s \in Session
      BY DEF Kept, Watched, Steady
    <2>2. s.medias \in Seq(Slot)
      BY <2>1 DEF Session
    <2> QED
      BY <2>1, <2>2, SlotsType, MediaAssumption DEF Slot
  <1>2. /\ medias \in Seq(Slot) /\ Len(medias) = n + 1 /\ medias[n + 1] = m
        /\ \A i \in 1..n : medias[i] = s.medias[i]
    BY <1>1, AppendProperties
  <1> HIDE DEF medias
  <1>3. t \in Session /\ SamePlan(s, t) /\ t.medias = medias
    <2>1. s \in Session
      BY <1>1
    <2>2. t \in Session
      BY <1>1, <1>2, SetMediasType
    <2>3. SamePlan(s, t) /\ t.medias = medias
      BY <2>1 DEF Session, SamePlan
    <2> QED
      BY <2>2, <2>3
  <1>4. t = [s EXCEPT !.medias = Append(@, m)]
    BY Zenon DEF medias
  <1> HIDE DEF t
  <1>5. ASSUME NEW i \in Present(t)
        PROVE  \/ i \in Present(s) /\ t.medias[i] = s.medias[i]
               \/ i = n + 1 /\ t.medias[i] = m
    BY <1>1, <1>2, <1>3 DEF Present, Slots
  <1>6. Steady(t)
    BY <1>3 DEF Kept, Watched, Steady, SamePlan
  <1>7. OfferDescribed(t)
    <2>1. ASSUME t.state \in Sent
          PROVE  /\ t.local_sdp # None
                 /\ Len(t.local_sdp) <= Len(t.medias)
                 /\ \A i \in Present(t) :
                       i <= Len(t.local_sdp) => t.medias[i].local_codecs # None
      <3>1. /\ s.local_sdp # None /\ Len(s.local_sdp) <= n
            /\ \A i \in Present(s) : i <= Len(s.local_sdp) => s.medias[i].local_codecs # None
        BY <1>3, <2>1 DEF Kept, Watched, OfferDescribed, SamePlan
      <3>2. Len(s.local_sdp) \in Nat
        BY <1>1, <3>1, LenProperties DEF Session
      <3> QED
        BY <1>1, <1>2, <1>3, <1>5, <3>1, <3>2 DEF SamePlan
    <2> QED
      BY <2>1 DEF OfferDescribed
  <1>8. ASSUME NEW i \in Present(t)
        PROVE  Tidy(t, i) /\ Awaited(t, i)
    <2>1. CASE i \in Present(s) /\ t.medias[i] = s.medias[i]
      BY <1>3, <2>1 DEF Kept, Watched, Tidy, AllAwaited, Awaited, Offered, SamePlan
    <2>2. CASE i = n + 1 /\ t.medias[i] = m
      BY <1>3, <2>2 DEF Tidy, Awaited, SamePlan
    <2> QED
      BY <1>5, <2>1, <2>2
  <1>9. ~AllMediaReady(t)
    <2>1. n + 1 \in Present(t) /\ t.medias[n + 1] = m
      BY <1>1, <1>2, <1>3 DEF Present, Slots
    <2> QED
      BY <2>1 DEF AllMediaReady, IsReady
  <1> QED
    BY <1>4, <1>6, <1>7, <1>8, <1>9, UnreadyKept DEF Watched, AllAwaited

LEMMA AddMediaKept ==
    ASSUME ~ImmutableStreams, NEW s, Kept(s),
           NEW type \in SupportedType, NEW direction \in SUBSET Direction
    PROVE  Kept(AddMedia(s, type, direction))
  <1> DEFINE initial == s.state \in {"CREATED", "INVITE_RECEIVED"}
             s1 == IF initial /\ direction # Bidirectional THEN MediaChanged(s) ELSE s
             wanted == IF initial THEN Bidirectional ELSE direction
             m == NewMedia(type, wanted, TRUE, s.hold_requested)
  <1>1. s \in Session /\ s.hold_requested \in BOOLEAN
    BY DEF Kept, Watched, Steady, Session
  <1>2. AddMedia(s, type, direction) = [s1 EXCEPT !.medias = Append(@, m)]
    BY Zenon DEF AddMedia
  <1>3. Kept(s1)
    <2>1. Kept(MediaChanged(s))
      BY MediaChangedKept DEF Kept
    <2> QED
      BY <2>1
  <1>4. m \in Media /\ m.local_codecs = None /\ Unhurried(m)
        /\ m.hold_requested = s.hold_requested
    <2>1. wanted \in SUBSET Direction
      BY DEF Bidirectional
    <2> HIDE DEF wanted
    <2>2. m \in Media
      BY <1>1, <2>1, NewMediaType
    <2>3. m.local_codecs = None /\ Unhurried(m) /\ m.hold_requested = s.hold_requested
      BY DEF NewMedia, Unhurried
    <2> QED
      BY <2>2, <2>3
  <1>5. s1.hold_requested = s.hold_requested
    <2>1. ASSUME initial
          PROVE  MediaChanged(s).hold_requested = s.hold_requested
      <3> DEFINE b == s.pending_offer \/ s.remote_media_count < Len(s.medias)
                 sdp == SessionSdp(s, TRUE)
                 k == s.cli + 1
                 sent == [[s EXCEPT !.cli = k]
                            EXCEPT !.local_sdp = sdp, !.pending_offer = FALSE,
                                   !.state = "INVITE_SENT"]
                 t == [s EXCEPT !.pending_offer = b]
      <3>1. Invite(s, FALSE) \in {s, sent}
        BY Zenon DEF Invite, NuaInvite
      <3>2. s.state = "CREATED" => MediaChanged(s) \in {s, Invite(s, FALSE)}
        BY Zenon DEF MediaChanged, RequestResponseStep
      <3>3. s.state = "INVITE_RECEIVED" => MediaChanged(s) = t
        BY DEF MediaChanged
      <3>4. sent.hold_requested = s.hold_requested /\ t.hold_requested = s.hold_requested
        <4> HIDE DEF sdp, k, b
        <4> QED
          BY <1>1 DEF Session
      <3> HIDE DEF sent, t
      <3> QED
        BY <2>1, <3>1, <3>2, <3>3, <3>4
    <2> HIDE DEF initial
    <2> QED
      BY <2>1
  <1> HIDE DEF s1, m
  <1> QED
    BY <1>2, <1>3, <1>4, <1>5, AppendKept

LEMMA SetSessionHoldKept ==
    ASSUME ~ImmutableStreams, NEW s, Kept(s), NEW hold \in BOOLEAN
    PROVE  Kept(SetSessionHold(s, hold))
  <1> DEFINE medias == [i \in Slots(s) |-> IF s.medias[i] = None THEN None
                                           ELSE SetHoldRequested(s.medias[i], hold)]
             t == [s EXCEPT !.hold_requested = hold, !.medias = medias]
  <1>1. s \in Session /\ Len(s.medias) \in Nat /\ Slots(s) = 1..Len(s.medias)
    BY SlotsType DEF Kept, Watched, Steady
  <1>2. medias \in Seq(Slot) /\ Len(medias) = Len(s.medias)
    <2>1. ASSUME NEW i \in Slots(s)
          PROVE  medias[i] \in Slot
      BY <1>1, SlotType, SetHoldRequestedType DEF Slot, Present
    <2>2. medias \in [Slots(s) -> Slot] /\ DOMAIN medias = 1..Len(s.medias)
      BY <1>1, <2>1
    <2> HIDE DEF medias
    <2>3. medias \in Seq(Slot)
      BY <1>1, <2>2, MediasType
    <2> QED
      BY <1>1, <2>2, <2>3, LenProperties
  <1>3. ASSUME NEW i \in Slots(s), medias[i] # None
        PROVE  /\ i \in Present(s)
               /\ medias[i].hold_requested = hold
               /\ medias[i].codec_intersect_pending = s.medias[i].codec_intersect_pending
               /\ medias[i].push_remote_codecs_pending = s.medias[i].push_remote_codecs_pending
               /\ medias[i].local_codecs = s.medias[i].local_codecs
    <2>1. s.medias[i] # None /\ medias[i] = SetHoldRequested(s.medias[i], hold)
      BY <1>3
    <2> HIDE DEF medias
    <2>2. i \in Present(s) /\ s.medias[i] \in Media
      BY <1>1, <2>1, SlotType DEF Present
    <2> QED
      BY <2>1, <2>2 DEF SetHoldRequested, Media
  <1>4. SetSessionHold(s, hold) = MediaChanged(t)
    BY Zenon DEF SetSessionHold
  <1> HIDE DEF medias
  <1>5. /\ t \in Session /\ t.medias = medias /\ t.hold_requested = hold
        /\ t.state = s.state /\ t.nua_op = s.nua_op /\ t.cli = s.cli /\ t.early = s.early
        /\ t.local_sdp = s.local_sdp
    <2>1. s \in Session
      BY <1>1
    <2>2. t \in Session
      BY <1>2, <2>1 DEF Session
    <2>3. /\ t.medias = medias /\ t.hold_requested = hold
          /\ t.state = s.state /\ t.nua_op = s.nua_op /\ t.cli = s.cli /\ t.early = s.early
          /\ t.local_sdp = s.local_sdp
      BY <2>1 DEF Session
    <2> QED
      BY <2>2, <2>3
  <1> HIDE DEF t
  <1>6. Watched(t)
    <2>1. ASSUME NEW i \in Present(t)
          PROVE  i \in Slots(s) /\ medias[i] # None /\ t.medias[i] = medias[i]
      BY <1>2, <1>5 DEF Present, Slots
    <2>2. Steady(t)
      BY <1>5 DEF Kept, Watched, Steady
    <2>3. OfferDescribed(t)
      BY <1>2, <1>3, <1>5, <2>1 DEF Kept, Watched, OfferDescribed
    <2>4. \A i \in Present(t) : Tidy(t, i)
      BY <1>3, <1>5, <2>1 DEF Kept, Watched, Tidy, Unhurried
    <2> QED
      BY <2>2, <2>3, <2>4 DEF Watched
  <1> QED
    BY <1>4, <1>6, MediaChangedKept

-----------------------------------------------------------------------------
(* The client answers for one media.                                       *)

LEMMA SlotKept ==
    ASSUME NEW s, Kept(s), NEW i \in Present(s), NEW m \in Media, Serves(s.medias[i], m)
    PROVE  LET t == [s EXCEPT !.medias[i] = m]
           IN  /\ t \in Session /\ Watched(t) /\ i \in Present(t) /\ t.medias[i] = m
               /\ t.state = s.state
               /\ (s.medias[i].local_codecs = None => m.local_codecs = None) =>
                     /\ AllAwaited(t)
                     /\ (IsReady(m) => IsReady(s.medias[i])) => Kept(t)
  <1> DEFINE t == [s EXCEPT !.medias[i] = m]
  <1>1. s \in Session /\ m \in Slot /\ m # None /\ Watched(s)
    BY MediaAssumption DEF Kept, Watched, Steady, Slot
  <1>2. /\ t \in Session /\ SamePlan(s, t) /\ Len(t.medias) = Len(s.medias)
        /\ t.medias[i] = m
        /\ \A j \in Slots(s) : j # i => t.medias[j] = s.medias[j]
    BY <1>1, SlotServed
  <1> HIDE DEF t
  <1>3. ASSUME NEW j \in Present(t)
        PROVE  /\ j \in Present(s) /\ Serves(s.medias[j], t.medias[j])
               /\ j # i => t.medias[j] = s.medias[j]
    <2>1. CASE j = i
      BY <1>2, <2>1
    <2>2. CASE j # i
      <3>1. j \in Present(s) /\ t.medias[j] = s.medias[j]
        BY <1>2, <2>2 DEF Present, Slots
      <3> QED
        BY <1>1, <2>2, <3>1 DEF Watched, Tidy, Serves
    <2> QED
      BY <2>1, <2>2
  <1>4. Watched(t)
    BY <1>1, <1>2, <1>3, ServedWatched
  <1>5. i \in Present(t) /\ Present(s) \subseteq Present(t)
    BY <1>1, <1>2 DEF Present, Slots
  <1>6. ASSUME s.medias[i].local_codecs = None => m.local_codecs = None
        PROVE  AllAwaited(t) /\ ((IsReady(m) => IsReady(s.medias[i])) => Kept(t))
    <2>1. \A j \in Present(t) :
             /\ j \in Present(s) /\ Serves(s.medias[j], t.medias[j])
             /\ s.medias[j].local_codecs = None => t.medias[j].local_codecs = None
      BY <1>2, <1>3, <1>6
    <2>2. AllAwaited(t)
      BY <1>2, <2>1, ServedAwaited DEF Kept
    <2>3. ASSUME IsReady(m) => IsReady(s.medias[i])
          PROVE  Kept(t)
      <3>1. AllMediaReady(t) => AllMediaReady(s)
        BY <1>2, <1>3, <1>5, <2>3 DEF AllMediaReady
      <3> QED
        BY <1>2, <2>1, <3>1, ServedKept
    <2> QED
      BY <2>2, <2>3
  <1> QED
    BY <1>2, <1>4, <1>5, <1>6 DEF t, SamePlan

LEMMA HandleSignalKept ==
    ASSUME ~ImmutableStreams, NEW s, Kept(s), NEW i \in Present(s), NEW r \in Result,
           WellServed(s.medias[i], r), r.signal \in {"none", "complete", "local-updated"}
    PROVE  Kept(HandleSignal(s, i, r))
  <1> DEFINE t == [s EXCEPT !.medias[i] = r.media]
  <1>1. r.media \in Media /\ Serves(s.medias[i], r.media)
    BY DEF Result, WellServed
  <1>2. /\ Watched(t)
        /\ (s.medias[i].local_codecs = None => r.media.local_codecs = None) =>
              /\ AllAwaited(t)
              /\ (IsReady(r.media) => IsReady(s.medias[i])) => Kept(t)
    BY <1>1, SlotKept
  <1>3. HandleSignal(s, i, r) = CASE r.signal = "complete"      -> RequestResponseStep(t)
                                  [] r.signal = "local-updated" -> MediaChanged(t)
                                  [] OTHER -> t
    BY Zenon DEF HandleSignal
  <1> HIDE DEF t
  <1>4. CASE r.signal = "complete"
    BY <1>2, <1>3, <1>4, RequestResponseStepKept DEF WellServed
  <1>5. CASE r.signal = "local-updated"
    BY <1>2, <1>3, <1>5, MediaChangedKept
  <1>6. CASE r.signal = "none"
    BY <1>2, <1>3, <1>6 DEF WellServed
  <1> QED
    BY <1>4, <1>5, <1>6

(* What a step may leave instead of a session that is kept.                *)
KeptOrOver(s) == s.aborted # "none" \/ s.state = "ENDED" \/ Kept(s)

LEMMA NegotiationFailedKept ==
    ASSUME NEW s, Kept(s), NEW i \in Present(s), NEW junk \in SdpMedia
    PROVE  KeptOrOver(NegotiationFailed(s, i, junk))
  <1> DEFINE t == [s EXCEPT !.aborted = "negotiation"]
  <1>1. s \in Session /\ s.state \notin {"REINVITE_RECEIVED", "ENDED"}
    BY DEF Kept, Watched, Steady
  <1>2. CASE s.state \in {"RESPONSE_RECEIVED", "INVITE_RECEIVED"}
    <2>1. NegotiationFailed(s, i, junk) = RequestResponseStep(RemoveMedia(s, i))
      BY <1>2, Zenon DEF NegotiationFailed
    <2>2. Watched(RemoveMedia(s, i)) /\ AllAwaited(RemoveMedia(s, i))
      BY RemoveMediaKept DEF Kept
    <2> QED
      BY <2>1, <2>2, RequestResponseStepKept DEF KeptOrOver
  <1>3. CASE s.state \notin {"RESPONSE_RECEIVED", "INVITE_RECEIVED"}
    <2>1. NegotiationFailed(s, i, junk) \in {s, t}
      BY <1>1, <1>3 DEF NegotiationFailed
    <2>2. t.aborted = "negotiation"
      BY <1>1 DEF Session
    <2> QED
      BY <2>1, <2>2 DEF KeptOrOver
  <1> QED
    BY <1>2, <1>3

LEMMA HandleRejectionKept ==
    ASSUME NEW s, Kept(s), NEW i \in Present(s), NEW junk \in SdpMedia
    PROVE  KeptOrOver(HandleRejection(s, i, junk))
  <1> DEFINE r == CodecsRejected(s.medias[i])
             s1 == [s EXCEPT !.medias[i] = r.media]
             s2 == NegotiationFailed(s1, i, junk)
             m == ForgetCodecOffer(s2.medias[i])
             s3 == [s2 EXCEPT !.medias[i] = m]
  <1>1. s \in Session /\ s.medias[i] \in Media /\ Unhurried(s.medias[i])
    BY SlotType DEF Kept, Watched, Steady, Tidy, Present
  <1>2. Kept(s1) /\ s1 \in Session /\ i \in Present(s1)
    <2>1. r.media \in Media
      BY <1>1, CodecsRejectedType DEF Result
    <2>2. /\ Serves(s.medias[i], r.media)
          /\ s.medias[i].local_codecs = None => r.media.local_codecs = None
          /\ IsReady(r.media) => IsReady(s.medias[i])
      BY <1>1, CodecsRejectedServes
    <2> HIDE DEF r
    <2> QED
      BY <2>1, <2>2, SlotKept
  <1>3. KeptOrOver(s2) /\ s2 \in Session
    <2> HIDE DEF s1
    <2> QED
      BY <1>2, NegotiationFailedKept, NegotiationFailedType DEF Present
  <1>4. ASSUME s2.medias[i] # None, i \in Slots(s2)
        PROVE  KeptOrOver(s3)
    <2> HIDE DEF s2
    <2>1. i \in Present(s2) /\ s2.medias[i] \in Media
      BY <1>3, <1>4, SlotType DEF Present
    <2>2. CASE Kept(s2)
      <3>1. m \in Media /\ SameService(s2.medias[i], m)
        BY <2>1, ForgetCodecOfferType, OtherMediaServe DEF ForgetCodecOffer
      <3>2. Unhurried(s2.medias[i])
        BY <2>1, <2>2 DEF Kept, Watched, Tidy
      <3>3. /\ Serves(s2.medias[i], m)
            /\ s2.medias[i].local_codecs = None => m.local_codecs = None
            /\ IsReady(m) <=> IsReady(s2.medias[i])
        BY <3>1, <3>2, SameServiceServes
      <3> HIDE DEF m
      <3>4. Kept(s3)
        BY <2>1, <2>2, <3>1, <3>3, SlotKept
      <3> QED
        BY <3>4 DEF KeptOrOver
    <2>3. CASE ~Kept(s2)
      <3> DEFINE medias == [s2.medias EXCEPT ![i] = m]
      <3>1. s3 = [s2 EXCEPT !.medias = medias]
        BY Zenon
      <3> HIDE DEF medias, s3, m
      <3>2. s3.aborted = s2.aborted /\ s3.state = s2.state
        BY <1>3, <3>1 DEF Session
      <3> QED
        BY <1>3, <2>3, <3>2 DEF KeptOrOver
    <2> QED
      BY <2>2, <2>3
  <1>5. ASSUME i \notin Slots(s2)
        PROVE  s3 = s2
    <2> HIDE DEF s2
    <2>1. s2.medias \in Seq(Slot)
      BY <1>3 DEF Session
    <2>2. s2.medias = [s2.medias EXCEPT ![i] = m]
      <3>1. s2.medias \in [Slots(s2) -> Slot]
        BY <2>1, LenProperties DEF Slots
      <3> HIDE DEF m
      <3> QED
        BY <1>5, <3>1
    <2> HIDE DEF m
    <2> QED
      BY <1>3, <2>2 DEF Session
  <1>6. HandleRejection(s, i, junk) =
            IF r.signal = "none" THEN s1
            ELSE IF s2.medias[i] # None /\ s2.medias[i].type = r.media.type THEN s3 ELSE s2
    BY Zenon DEF HandleRejection
  <1> HIDE DEF r, s1, s2, s3
  <1> QED
    BY <1>2, <1>3, <1>4, <1>5, <1>6 DEF KeptOrOver

-----------------------------------------------------------------------------
(* The client's steps.                                                     *)
LEMMA ClientSignalsServe ==
    ASSUME "direct" \notin UserMay, Kept(session), NEW i \in Present(session), ClientStep(i),
           ~RejectCodecs(i), ~RemoveContent(i)
    PROVE  \E r \in Result : /\ WellServed(session.medias[i], r)
                             /\ r.signal \in {"none", "complete", "local-updated"}
                             /\ session' = HandleSignal(session, i, r)
  <1> DEFINE m == session.medias[i]
             Goal == \E r \in Result : /\ WellServed(m, r)
                                       /\ r.signal \in {"none", "complete", "local-updated"}
                                       /\ session' = HandleSignal(session, i, r)
  <1>1. m \in Media /\ Unhurried(m)
    BY SlotType DEF Present, Kept, Watched, Steady, Tidy
  <1>2. ASSUME NEW codecs \in LocalCodecs, AcceptCodecs(i, codecs)
        PROVE  Goal
    <2> DEFINE n == m.offers - 1
               first == [m EXCEPT !.initial_offer = FALSE]
               later == [m EXCEPT !.offers = n]
               answered == IF m.initial_offer THEN first ELSE later
    <2>1. m.initial_offer \/ m.offers > 0
      BY <1>2, Zenon DEF AcceptCodecs
    <2>2. answered \in Media /\ SameService(m, answered)
      <3>1. SameService(m, first) /\ SameService(m, later)
        BY <1>1, OtherMediaServe
      <3>2. CASE m.initial_offer
        <4>1. first \in Media
          <5> HIDE DEF m
          <5> QED
            BY <1>1 DEF Media
        <4> HIDE DEF first, later
        <4> QED
          BY <3>1, <3>2, <4>1
      <3>3. CASE ~m.initial_offer
        <4>1. n \in Nat
          <5>1. m.offers \in Nat
            <6> HIDE DEF m
            <6> QED
              BY <1>1 DEF Media
          <5> QED
            BY <2>1, <3>3, <5>1
        <4>2. later \in Media
          <5> HIDE DEF m, n
          <5> QED
            BY <1>1, <4>1 DEF Media
        <4> HIDE DEF first, later
        <4> QED
          BY <3>1, <3>3, <4>2
      <3> QED
        BY <3>2, <3>3
    <2>3. session' = HandleSignal(session, i, TakeLocalCodecs(answered, codecs))
      BY <1>2, Zenon DEF AcceptCodecs
    <2>4. codecs \in CodecLists
      BY SessionAssumption
    <2> HIDE DEF answered
    <2>5. Unhurried(answered)
      BY <1>1, <2>2 DEF SameService, Unhurried
    <2> DEFINE r == TakeLocalCodecs(answered, codecs)
    <2>6. r \in Result /\ WellServed(answered, r)
      BY <2>2, <2>4, <2>5, TakeLocalCodecsType, TakeLocalCodecsServes
    <2>7. r.signal \in {"none", "complete", "local-updated"}
      BY <2>6, Zenon DEF TakeLocalCodecs
    <2>8. session' = HandleSignal(session, i, r)
      BY <2>3
    <2> HIDE DEF r
    <2>9. WellServed(m, r)
      BY <2>2, <2>6 DEF WellServed, SameService, Serves, IsReady
    <2> QED
      BY <2>6, <2>7, <2>8, <2>9
  <1>3. ASSUME NEW codecs \in LocalCodecs, UpdateCodecs(i, codecs)
        PROVE  Goal
    <2> DEFINE r == TakeLocalCodecs(m, codecs)
    <2>1. session' = HandleSignal(session, i, r)
      BY <1>3, Zenon DEF UpdateCodecs
    <2>2. codecs \in CodecLists
      BY SessionAssumption
    <2>3. r \in Result /\ WellServed(m, r)
      BY <1>1, <2>2, TakeLocalCodecsType, TakeLocalCodecsServes
    <2>4. r.signal \in {"none", "complete", "local-updated"}
      BY <2>3, Zenon DEF TakeLocalCodecs
    <2> HIDE DEF r
    <2> QED
      BY <2>1, <2>3, <2>4
  <1>4. ASSUME FinishInitialCandidates(i)
        PROVE  Goal
    <2> DEFINE r == LocalCandidatesPrepared(m)
    <2>1. session' = HandleSignal(session, i, r)
      BY <1>4, Zenon DEF FinishInitialCandidates
    <2>2. r \in Result /\ WellServed(m, r)
      BY <1>1, LocalCandidatesPreparedType, LocalCandidatesPreparedServes
    <2>3. r.signal \in {"none", "complete", "local-updated"}
      BY DEF LocalCandidatesPrepared
    <2> HIDE DEF r
    <2> QED
      BY <2>1, <2>2, <2>3
  <1>5. ASSUME StartReceiving(i) \/ StopReceiving(i)
        PROVE  Goal
    <2>1. PICK can \in BOOLEAN : session' = HandleSignal(session, i, SetCanReceive(m, can))
      BY <1>5, Zenon DEF StartReceiving, StopReceiving
    <2> DEFINE r == SetCanReceive(m, can)
    <2>2. r \in Result /\ WellServed(m, r)
      BY <1>1, SetCanReceiveType, SetCanReceiveServes
    <2>3. r.signal \in {"none", "complete", "local-updated"}
      <3>1. \/ r = [media |-> m, signal |-> "none"]
            \/ r = [media |-> ForgetCodecOffer([m EXCEPT !.can_receive = can]),
                    signal |-> "complete"]
            \/ r = [media |-> [m EXCEPT !.can_receive = can], signal |-> "none"]
        BY Zenon DEF SetCanReceive
      <3> HIDE DEF r
      <3> QED
        BY <3>1
    <2>4. session' = HandleSignal(session, i, r)
      BY <2>1
    <2> HIDE DEF r
    <2> QED
      BY <2>2, <2>3, <2>4
  <1>6. ASSUME NEW direction \in Directions, RequestDirection(i, direction)
        PROVE  Goal
    BY <1>6 DEF RequestDirection
  <1> QED
    BY <1>2, <1>3, <1>4, <1>5, <1>6, Zenon DEF ClientStep

LEMMA RejectCodecsKept ==
    ASSUME Kept(session), NEW i \in Present(session), RejectCodecs(i)
    PROVE  KeptOrOver(session')
  <1> DEFINE m == session.medias[i]
             n == m.offers - 1
             rest == [m EXCEPT !.offers = n]
             s == [session EXCEPT !.medias[i] = rest]
  <1>1. session \in Session /\ m \in Media /\ Unhurried(m)
    BY SlotType DEF Kept, Watched, Steady, Tidy, Present
  <1>2. n \in Nat
    <2>1. m.offers \in Nat
      <3> HIDE DEF m
      <3> QED
        BY <1>1 DEF Media
    <2>2. m.offers > 0
      BY Zenon DEF RejectCodecs
    <2> QED
      BY <2>1, <2>2
  <1>3. rest \in Media /\ SameService(m, rest)
    <2>1. rest \in Media
      <3> HIDE DEF m, n
      <3> QED
        BY <1>1, <1>2 DEF Media
    <2>2. SameService(m, rest)
      BY <1>1, OtherMediaServe
    <2> QED
      BY <2>1, <2>2
  <1>4. PICK junk \in Lines : session' = HandleRejection(s, i, junk)
    <2>1. \E junk \in Lines :
             session' = HandleRejection([session EXCEPT !.medias[i].offers = @ - 1], i, junk)
      BY Zenon DEF RejectCodecs
    <2>2. [session EXCEPT !.medias[i].offers = @ - 1] = s
      OBVIOUS
    <2> QED
      BY <2>1, <2>2, Zenon
  <1>5. junk \in SdpMedia
    BY SessionAssumption
  <1> HIDE DEF rest
  <1>6. Kept(s) /\ i \in Present(s)
    <2>1. /\ Serves(m, rest)
          /\ m.local_codecs = None => rest.local_codecs = None
          /\ IsReady(rest) <=> IsReady(m)
      BY <1>1, <1>3, SameServiceServes
    <2> QED
      BY <1>3, <2>1, SlotKept
  <1> HIDE DEF s
  <1> QED
    BY <1>4, <1>5, <1>6, HandleRejectionKept

LEMMA ClientStepKept ==
    ASSUME ~ImmutableStreams, "direct" \notin UserMay, Kept(session),
           NEW i \in Present(session), ClientStep(i)
    PROVE  KeptOrOver(session')
  <1>1. CASE RejectCodecs(i)
    BY <1>1, RejectCodecsKept
  <1>2. CASE RemoveContent(i)
    <2>1. session' = MediaChanged(RemoveMedia(session, i))
      BY <1>2, Zenon DEF RemoveContent
    <2>2. Watched(RemoveMedia(session, i))
      BY RemoveMediaKept DEF Kept
    <2> QED
      BY <2>1, <2>2, MediaChangedKept DEF KeptOrOver
  <1>3. CASE ~RejectCodecs(i) /\ ~RemoveContent(i)
    <2>1. PICK r \in Result : /\ WellServed(session.medias[i], r)
                              /\ r.signal \in {"none", "complete", "local-updated"}
                              /\ session' = HandleSignal(session, i, r)
      BY <1>3, ClientSignalsServe
    <2> QED
      BY <2>1, HandleSignalKept DEF KeptOrOver
  <1> QED
    BY <1>1, <1>2, <1>3

LEMMA CallStepKept ==
    ASSUME ~ImmutableStreams, Kept(session), CallStep
    PROVE  KeptOrOver(session')
  <1>1. ASSUME Accept
        PROVE  Kept(session')
    BY <1>1, AcceptSessionKept DEF Accept
  <1>2. ASSUME Hangup
        PROVE  session'.state = "ENDED"
    BY <1>2, TerminateFollows DEF Hangup, Kept, Watched, Steady
  <1>3. ASSUME NEW type \in ContentTypes, NEW direction \in Directions,
               AddContent(type, direction)
        PROVE  Kept(session')
    <2>1. session' = AddMedia(session, type, direction)
      BY <1>3, Zenon DEF AddContent
    <2>2. type \in SupportedType /\ direction \in SUBSET Direction
      BY SessionAssumption
    <2> QED
      BY <2>1, <2>2, AddMediaKept
  <1>4. ASSUME RequestHold \/ ReleaseHold
        PROVE  Kept(session')
    <2>1. PICK hold \in BOOLEAN : session' = SetSessionHold(session, hold)
      BY <1>4, Zenon DEF RequestHold, ReleaseHold
    <2> QED
      BY <2>1, SetSessionHoldKept
  <1> QED
    BY <1>1, <1>2, <1>3, <1>4 DEF CallStep, KeptOrOver

-----------------------------------------------------------------------------
(* An answer of the peer, or its first offer.                              *)

(* A line makes nobody wait but with codecs; one of another type starts    *)
(* over without any.                                                       *)
LEMMA UpdatedSlotServes ==
    ASSUME NEW s \in Session, NEW i \in Nat \ {0}, NEW line \in SdpMedia,
           i \in Present(s) => Tidy(s, i) /\ s.medias[i].local_codecs # None,
           UpdatedSlot(s, i, line, FALSE) # None
    PROVE  LET p == UpdatedSlot(s, i, line, FALSE)
           IN  /\ p.hold_requested = s.hold_requested
               /\ Unhurried(p)
               /\ \/ p.local_codecs = None
                  \/ i \in Present(s) /\ p.type = s.medias[i].type
  <1> DEFINE kept == i <= Len(s.medias) /\ s.medias[i] # None /\ s.medias[i].type = line.type
             direction == DirectionFromRemoteMedia(line) \cap {"RECEIVE"}
             new == NewMedia(line.type, direction, FALSE, s.hold_requested)
             m == IF kept THEN s.medias[i] ELSE new
             p == SetRemoteMedia(m, line, FALSE)
  <1>1. UpdatedSlot(s, i, line, FALSE) =
            IF AcceptableRemoteMedia(line) /\ line.type \in SupportedType THEN p ELSE None
    BY Zenon DEF UpdatedSlot
  <1>2. UpdatedSlot(s, i, line, FALSE) = p /\ line.type \in SupportedType
    BY <1>1, Zenon
  <1>3. ASSUME kept
        PROVE  /\ i \in Present(s) /\ s.medias[i] \in Media /\ Tidy(s, i)
               /\ s.medias[i].local_codecs # None
    <2>1. i \in Present(s)
      BY <1>3, SlotsType DEF Present
    <2>2. s.medias[i] \in Media
      BY <2>1, SlotType DEF Present
    <2> QED
      BY <2>1, <2>2
  <1>4. /\ new \in Media /\ new.hold_requested = s.hold_requested /\ Unhurried(new)
        /\ new.local_codecs = None /\ new.remote_codec_offer = None
        /\ ~new.push_remote_codecs_pending
    <2>1. s.hold_requested \in BOOLEAN
      BY DEF Session
    <2>2. direction \in SUBSET Direction
      BY LineDirection
    <2> HIDE DEF direction
    <2>3. new \in Media
      BY <1>2, <2>1, <2>2, NewMediaType
    <2>4. /\ new.hold_requested = s.hold_requested /\ Unhurried(new)
          /\ new.local_codecs = None /\ new.remote_codec_offer = None
          /\ ~new.push_remote_codecs_pending
      BY DEF NewMedia, Unhurried
    <2> QED
      BY <2>3, <2>4
  <1> HIDE DEF new
  <1>5. m \in Media /\ m.hold_requested = s.hold_requested /\ Unhurried(m)
    <2> HIDE DEF kept
    <2> QED
      BY <1>3, <1>4 DEF Tidy
  <1>6. \/ m.local_codecs # None
        \/ m.remote_codec_offer = None /\ ~m.push_remote_codecs_pending
    <2> HIDE DEF kept
    <2> QED
      BY <1>3, <1>4
  <1>7. \/ m.local_codecs = None
        \/ i \in Present(s) /\ m.type = s.medias[i].type
    <2> HIDE DEF kept
    <2> QED
      BY <1>3, <1>4
  <1> HIDE DEF m
  <1>8. /\ p.type = m.type
        /\ p.hold_requested = m.hold_requested
        /\ p.local_codecs = m.local_codecs
        /\ p.codec_intersect_pending => m.codec_intersect_pending
        /\ p.push_remote_codecs_pending =>
              m.push_remote_codecs_pending \/ m.remote_codec_offer # None
    BY <1>5, SetRemoteMediaServes
  <1> HIDE DEF p
  <1>9. Unhurried(p)
    BY <1>5, <1>6, <1>8 DEF Unhurried
  <1>10. p.hold_requested = s.hold_requested
    BY <1>5, <1>8
  <1>11. p.local_codecs = None \/ (i \in Present(s) /\ p.type = s.medias[i].type)
    BY <1>7, <1>8
  <1> QED
    BY <1>2, <1>9, <1>10, <1>11, Zenon

LEMMA UpdateRemoteMediaKept ==
    ASSUME NEW s, Watched(s), AllAwaited(s), s.state \in {"CREATED", "RESPONSE_RECEIVED"},
           s.remote_sdp \in Seq(SdpMedia),
           \A i \in Present(s) : i <= Len(s.remote_sdp) => s.medias[i].local_codecs # None
    PROVE  LET t == UpdateRemoteMedia(s, FALSE)
           IN  \/ t.aborted # "none"
               \/ /\ Watched(t) /\ AllAwaited(t) /\ SamePlan(s, t)
                  /\ \A i \in Present(t) : t.medias[i].local_codecs = None \/ i \in Present(s)
  <1> DEFINE n == Len(s.remote_sdp)
             top == Max2(n, Len(s.medias))
             medias == [i \in 1..top |->
                          IF i <= n THEN UpdatedSlot(s, i, s.remote_sdp[i], FALSE)
                          ELSE IF s.pending_offer THEN s.medias[i] ELSE None]
             stale == s.stale_read \/ \E i \in Present(s) :
                        /\ i <= n
                        /\ AcceptableRemoteMedia(s.remote_sdp[i])
                        /\ s.medias[i].type = s.remote_sdp[i].type
                        /\ s.medias[i].home = "freed"
             s1 == [s EXCEPT !.medias = medias, !.stale_read = stale]
             held == RemotelyHeld(s1)
             s2 == [s EXCEPT !.medias = medias, !.stale_read = stale, !.remote_held = held]
             s3 == [s EXCEPT !.aborted = "slot"]
             t == UpdateRemoteMedia(s, FALSE)
             lined == \E i \in Present(s1) : i <= n
  <1>1. /\ s \in Session /\ n \in Nat /\ Len(s.medias) \in Nat /\ top \in Nat
        /\ n <= top /\ Len(s.medias) <= top /\ (top = n \/ top = Len(s.medias))
    <2>1. s \in Session
      BY DEF Watched, Steady
    <2>2. n \in Nat /\ Len(s.medias) \in Nat
      BY <2>1, LenProperties, SlotsType
    <2> QED
      BY <2>1, <2>2 DEF Max2
  <1>2. ASSUME NEW i \in 1..n
        PROVE  s.remote_sdp[i] \in SdpMedia /\ i \in Nat \ {0}
    <2>1. s.remote_sdp[i] \in SdpMedia
      BY ElementOfSeq
    <2> QED
      BY <1>1, <2>1
  <1>3. t \in Session
    <2>1. FALSE \in BOOLEAN
      OBVIOUS
    <2> QED
      BY <1>1, <2>1, UpdateRemoteMediaType, Zenon
  <1>4. t = IF SlotAssertionFails(s) THEN s3 ELSE IF lined THEN s2 ELSE s1
    <2>1. [s1 EXCEPT !.remote_held = held] = s2
      BY Zenon
    <2> QED
      BY <2>1, Zenon DEF UpdateRemoteMedia
  <1> HIDE DEF t
  <1>5. ASSUME NEW i \in 1..top, medias[i] # None
        PROVE  /\ medias[i].hold_requested = s.hold_requested
               /\ Unhurried(medias[i])
               /\ \/ medias[i].local_codecs = None
                  \/ i \in Present(s) /\ Awaited(s, i) /\ medias[i].type = s.medias[i].type
    <2>1. CASE i <= n
      <3>1. i \in 1..n
        BY <1>1, <2>1
      <3>2. medias[i] = UpdatedSlot(s, i, s.remote_sdp[i], FALSE)
        BY <2>1, Zenon
      <3>3. i \in Present(s) => Tidy(s, i) /\ s.medias[i].local_codecs # None /\ Awaited(s, i)
        BY <2>1 DEF Watched, AllAwaited
      <3>4. UpdatedSlot(s, i, s.remote_sdp[i], FALSE) # None
        BY <1>5, <3>2, Zenon
      <3> DEFINE p == UpdatedSlot(s, i, s.remote_sdp[i], FALSE)
      <3>5. /\ p.hold_requested = s.hold_requested
            /\ Unhurried(p)
            /\ \/ p.local_codecs = None
               \/ i \in Present(s) /\ p.type = s.medias[i].type
        BY <1>1, <1>2, <3>1, <3>3, <3>4, UpdatedSlotServes, Zenon
      <3>6. medias[i] = p
        BY <3>2
      <3> HIDE DEF p, medias
      <3> QED
        BY <3>3, <3>5, <3>6
    <2>2. CASE ~(i <= n)
      <3>1. i \in Slots(s)
        BY <1>1, <2>2, SlotsType
      <3>2. medias[i] \in {s.medias[i], None}
        BY <2>2, Zenon
      <3> HIDE DEF medias
      <3>3. i \in Present(s) /\ medias[i] = s.medias[i]
        BY <1>5, <3>1, <3>2 DEF Present
      <3> QED
        BY <3>3 DEF Watched, AllAwaited, Tidy
    <2> QED
      BY <2>1, <2>2
  <1>6. DOMAIN medias = 1..top
    OBVIOUS
  <1>7. s3.aborted # "none"
    BY <1>1 DEF Session
  <1>8. s1.medias = medias /\ SamePlan(s, s1)
    <2> HIDE DEF medias, stale
    <2> QED
      BY <1>1 DEF Session, SamePlan
  <1>9. s2.medias = medias /\ SamePlan(s, s2)
    <2> HIDE DEF medias, stale, held
    <2> QED
      BY <1>1 DEF Session, SamePlan
  <1>10. ASSUME t.medias = medias, SamePlan(s, t)
         PROVE  /\ Watched(t) /\ AllAwaited(t)
                /\ \A i \in Present(t) : t.medias[i].local_codecs = None \/ i \in Present(s)
    <2> HIDE DEF medias
    <2>1. ASSUME NEW i \in Present(t)
          PROVE  i \in 1..top /\ t.medias[i] = medias[i] /\ medias[i] # None
      <3>1. Len(medias) = top
        BY <1>1, <1>6
      <3> QED
        BY <1>10, <2>1, <3>1 DEF Present, Slots
    <2>2. Steady(t)
      BY <1>3, <1>10 DEF Watched, Steady, SamePlan
    <2>3. OfferDescribed(t)
      BY <1>10 DEF OfferDescribed, SamePlan, Sent
    <2>4. \A i \in Present(t) : Tidy(t, i)
      BY <1>5, <1>10, <2>1 DEF Tidy, SamePlan
    <2>5. ASSUME NEW i \in Present(t)
          PROVE  Awaited(t, i) /\ (t.medias[i].local_codecs = None \/ i \in Present(s))
      <3>1. CASE medias[i].local_codecs = None
        BY <2>1, <3>1 DEF Awaited
      <3>2. CASE medias[i].local_codecs # None
        <4>1. i \in Present(s) /\ Awaited(s, i) /\ medias[i].type = s.medias[i].type
          BY <1>5, <2>1, <3>2
        <4>2. s.medias[i].local_codecs # None
              \/ s.state = "CREATED" \/ s.pending_offer \/ Offered(s, i)
          <5>1. i <= n \/ medias[i] = s.medias[i]
            <6>1. i \in 1..top /\ medias[i] # None
              BY <2>1
            <6> QED
              BY <6>1, Zenon DEF medias
          <5> QED
            BY <3>2, <4>1, <5>1
        <4> QED
          BY <1>10, <2>1, <4>1, <4>2 DEF Awaited, Offered, SamePlan
      <3> QED
        BY <3>1, <3>2
    <2> QED
      BY <2>2, <2>3, <2>4, <2>5 DEF Watched, AllAwaited
  <1> HIDE DEF medias, top, s1, s2, s3, stale, held, lined
  <1>11. CASE t = s3
    BY <1>7, <1>11 DEF t
  <1>12. CASE t = s1
    BY <1>8, <1>10, <1>12 DEF t
  <1>13. CASE t = s2
    BY <1>9, <1>10, <1>13 DEF t
  <1> QED
    BY <1>4, <1>11, <1>12, <1>13

(* Keeping the memory of an SDP changes nothing that a media is used for.  *)
LEMMA ShiftServes ==
    ASSUME NEW m \in Slot, NEW junk, NEW old, NEW from, NEW to,
           Rehome(Release(m, old, junk), from, to) # None
    PROVE  m # None /\ SameService(m, Rehome(Release(m, old, junk), from, to))
  <1> DEFINE r == [m EXCEPT !.home = "freed", !.remote_media = junk]
             rt == [r EXCEPT !.home = to]
             mt == [m EXCEPT !.home = to]
             p == Rehome(Release(m, old, junk), from, to)
  <1>1. m # None
    BY Zenon DEF Rehome, Release
  <1>2. m \in Media
    BY <1>1 DEF Slot
  <1>3. p \in {m, r, rt, mt}
    BY Zenon DEF Rehome, Release
  <1>4. SameService(m, m) /\ SameService(m, mt)
    BY <1>2, OtherMediaServe DEF SameService
  <1>5. SameService(m, r)
    BY <1>2 DEF Media, SameService
  <1>6. SameService(m, rt)
    BY <1>2 DEF Media, SameService
  <1> HIDE DEF p, r, rt, mt
  <1>7. SameService(m, p)
    BY <1>3, <1>4, <1>5, <1>6
  <1> QED
    BY <1>1, <1>7 DEF p

LEMMA StoreRemoteSdpKept ==
    ASSUME NEW s, Watched(s), AllAwaited(s), NEW sdp \in Seq(SdpMedia), NEW junk \in SdpMedia
    PROVE  LET t == StoreRemoteSdp(s, sdp, junk)
           IN  /\ Watched(t) /\ AllAwaited(t) /\ SamePlan(s, t) /\ t.remote_sdp = sdp
               /\ \A i \in Present(t) : /\ i \in Present(s)
                                        /\ t.medias[i].local_codecs = s.medias[i].local_codecs
  <1> DEFINE medias == [i \in Slots(s) |->
                          Rehome(Release(s.medias[i], "backup", junk), "current", "backup")]
             t == [s EXCEPT !.backup_remote_sdp = s.remote_sdp, !.remote_sdp = sdp,
                            !.medias = medias]
  <1>1. s \in Session /\ Len(s.medias) \in Nat /\ Slots(s) = 1..Len(s.medias)
    BY SlotsType DEF Watched, Steady
  <1>2. StoreRemoteSdp(s, sdp, junk) = t
    BY Zenon DEF StoreRemoteSdp
  <1>3. t \in Session
    <2>1. StoreRemoteSdp(s, sdp, junk) \in Session
      BY <1>1, StoreRemoteSdpType
    <2> QED
      BY <1>2, <2>1, Zenon
  <1>4. t.medias = medias /\ t.remote_sdp = sdp /\ SamePlan(s, t)
    <2> HIDE DEF medias
    <2> QED
      BY <1>1 DEF Session, SamePlan
  <1> HIDE DEF t
  <1>5. Len(medias) = Len(s.medias)
    BY <1>1
  <1>6. ASSUME NEW i \in Slots(s), medias[i] # None
        PROVE  i \in Present(s) /\ SameService(s.medias[i], medias[i])
    <2>1. s.medias[i] \in Slot
      BY <1>1, SlotType
    <2>2. medias[i] = Rehome(Release(s.medias[i], "backup", junk), "current", "backup")
      OBVIOUS
    <2> HIDE DEF medias
    <2> QED
      BY <1>6, <2>1, <2>2, ShiftServes DEF Present
  <1> HIDE DEF medias
  <1>7. ASSUME NEW i \in Present(t)
        PROVE  /\ i \in Present(s) /\ Serves(s.medias[i], t.medias[i])
               /\ t.medias[i].local_codecs = s.medias[i].local_codecs
    <2>1. i \in Slots(s) /\ t.medias[i] = medias[i] /\ medias[i] # None
      BY <1>1, <1>4, <1>5 DEF Present, Slots
    <2>2. i \in Present(s) /\ SameService(s.medias[i], t.medias[i])
      BY <1>6, <2>1
    <2>3. Unhurried(s.medias[i])
      BY <2>2 DEF Watched, Tidy
    <2> QED
      BY <2>2, <2>3, SameServiceServes DEF SameService
  <1>8. Watched(t) /\ AllAwaited(t)
    BY <1>3, <1>4, <1>5, <1>7, ServedWatched, ServedAwaited
  <1> QED
    BY <1>2, <1>4, <1>7, <1>8

(* A session that the step leaves in CREATED was left as it was.           *)
LEMMA StillCreated ==
    ASSUME NEW s \in Session, s.state = "CREATED", RequestResponseStep(s).state = "CREATED"
    PROVE  RequestResponseStep(s) = s
  <1> DEFINE sdp == SessionSdp(s, TRUE)
             n == s.cli + 1
             sent == [[s EXCEPT !.cli = n]
                        EXCEPT !.local_sdp = sdp, !.pending_offer = FALSE,
                               !.state = "INVITE_SENT"]
  <1>1. RequestResponseStep(s) \in {s, Invite(s, FALSE)}
    BY Zenon DEF RequestResponseStep
  <1>2. Invite(s, FALSE) \in {s, sent}
    BY Zenon DEF Invite, NuaInvite
  <1>3. sent.state = "INVITE_SENT"
    <2> HIDE DEF sdp, n
    <2> QED
      BY DEF Session
  <1> DEFINE t == Invite(s, FALSE)
  <1>4. RequestResponseStep(s) \in {s, t} /\ t \in {s, sent}
    BY <1>1, <1>2
  <1> HIDE DEF sent, t
  <1> QED
    BY <1>3, <1>4

(* The SDP is counted, or the state tells that our offer was answered.     *)
Arrived(s, sdp) ==
    IF s.state \in {"INVITE_SENT", "REINVITE_SENT"} THEN ChangeState(s, "RESPONSE_RECEIVED")
    ELSE [s EXCEPT !.remote_media_count = Len(sdp)]

(* An answer has no line for a media whose codecs are not known.           *)
LEMMA SetRemoteSdpKept ==
    ASSUME NEW s, NEW sdp \in Seq(SdpMedia), NEW junk \in SdpMedia,
           NEW s1, s1 = Arrived(s, sdp),
           Watched(s1), AllAwaited(s1), s1.state \in {"CREATED", "RESPONSE_RECEIVED"},
           \A i \in Present(s1) : i <= Len(sdp) => s1.medias[i].local_codecs # None
    PROVE  LET r == SetRemoteSdp(s, sdp, junk)
           IN  /\ KeptOrOver(r.session)
               /\ r.ok => Kept(r.session)
               /\ r.ok /\ s1.state = "CREATED" /\ r.session.state = "CREATED" =>
                     \A i \in Present(r.session) :
                        r.session.medias[i].local_codecs = None \/ i \in Present(s1)
  <1> DEFINE stored == StoreRemoteSdp(s1, sdp, junk)
             authoritative == s1.state \in {"INVITE_RECEIVED", "REINVITE_RECEIVED"}
             s2 == UpdateRemoteMedia(stored, authoritative)
             supported == HasSupportedMedia(s2)
             q == IF s2.aborted # "none" THEN s2 ELSE Terminate(s2)
             r == SetRemoteSdp(s, sdp, junk)
             Fresh(t) == \A i \in Present(t) :
                            t.medias[i].local_codecs = None \/ i \in Present(s1)
             Good(t) == /\ Kept(t)
                        /\ s1.state = "CREATED" /\ t.state = "CREATED" => Fresh(t)
  <1>1. r = IF s1.remote_sdp = sdp
            THEN [ok |-> TRUE, session |-> RequestResponseStep(s1)]
            ELSE IF s2.aborted # "none" \/ ~supported
            THEN [ok |-> FALSE, session |-> q]
            ELSE [ok |-> TRUE, session |-> RequestResponseStep(s2)]
    BY Zenon DEF SetRemoteSdp, Arrived
  <1>2. authoritative = FALSE
    OBVIOUS
  <1> HIDE DEF r, supported, authoritative
  <1>3. \/ s2.aborted # "none"
        \/ /\ Watched(s2) /\ AllAwaited(s2) /\ Fresh(s2)
           /\ s2.state = s1.state
    <2>1. /\ Watched(stored) /\ AllAwaited(stored) /\ SamePlan(s1, stored)
          /\ stored.remote_sdp = sdp
          /\ \A i \in Present(stored) :
                /\ i \in Present(s1)
                /\ stored.medias[i].local_codecs = s1.medias[i].local_codecs
      BY StoreRemoteSdpKept
    <2> DEFINE t == UpdateRemoteMedia(stored, FALSE)
    <2>2. s2 = t
      BY <1>2, Zenon
    <2> HIDE DEF stored, s2
    <2>3. \/ t.aborted # "none"
          \/ /\ Watched(t) /\ AllAwaited(t) /\ SamePlan(stored, t)
             /\ \A i \in Present(t) : t.medias[i].local_codecs = None \/ i \in Present(stored)
      <3>1. /\ stored.state \in {"CREATED", "RESPONSE_RECEIVED"}
            /\ stored.remote_sdp \in Seq(SdpMedia)
            /\ \A i \in Present(stored) :
                  i <= Len(stored.remote_sdp) => stored.medias[i].local_codecs # None
        BY <2>1 DEF SamePlan
      <3> QED
        BY <2>1, <3>1, UpdateRemoteMediaKept, Zenon
    <2> HIDE DEF t
    <2> QED
      BY <2>1, <2>2, <2>3 DEF SamePlan
  <1> HIDE DEF s2
  <1>4. ASSUME NEW t, Watched(t), AllAwaited(t), Fresh(t), t.state = s1.state
        PROVE  Good(RequestResponseStep(t))
    <2>1. Kept(RequestResponseStep(t)) /\ t \in Session
      BY <1>4, RequestResponseStepKept DEF Watched, Steady
    <2>2. ASSUME s1.state = "CREATED", RequestResponseStep(t).state = "CREATED"
          PROVE  RequestResponseStep(t) = t
      BY <1>4, <2>1, <2>2, StillCreated
    <2> QED
      BY <1>4, <2>1, <2>2
  <1>5. Good(RequestResponseStep(s1))
    BY <1>4
  <1>6. s2.aborted = "none" => Good(RequestResponseStep(s2))
    BY <1>3, <1>4
  <1>7. KeptOrOver(q)
    <2>1. CASE s2.aborted # "none"
      BY <2>1 DEF KeptOrOver
    <2>2. CASE s2.aborted = "none"
      <3>1. s2 \in Session
        BY <1>3, <2>2 DEF Watched, Steady
      <3> QED
        BY <2>2, <3>1, TerminateFollows DEF KeptOrOver
    <2> QED
      BY <2>1, <2>2
  <1> HIDE DEF q, Good
  <1>8. KeptOrOver(r.session) /\ (r.ok => Good(r.session))
    <2>1. \/ r = [ok |-> TRUE, session |-> RequestResponseStep(s1)]
          \/ r = [ok |-> FALSE, session |-> q]
          \/ /\ r = [ok |-> TRUE, session |-> RequestResponseStep(s2)]
             /\ s2.aborted = "none"
      BY <1>1, Zenon
    <2>2. CASE r = [ok |-> TRUE, session |-> RequestResponseStep(s1)]
      BY <1>5, <2>2 DEF KeptOrOver, Good
    <2>3. CASE r = [ok |-> FALSE, session |-> q]
      BY <1>7, <2>3
    <2>4. CASE r = [ok |-> TRUE, session |-> RequestResponseStep(s2)] /\ s2.aborted = "none"
      BY <1>6, <2>4 DEF KeptOrOver, Good
    <2> QED
      BY <2>1, <2>2, <2>3, <2>4
  <1> QED
    BY <1>8 DEF r, Good

LEMMA AnswerLength ==
    ASSUME NEW offer \in Seq(LocalLine), NEW answer \in Answers(offer)
    PROVE  Len(answer) \in Nat /\ Len(answer) <= Len(offer)
  <1> DEFINE S == UNION {AnswerLines(offer[i]) : i \in 1..Len(offer)}
             low == IF "shrink" \in PeerMay THEN Min2(1, Len(offer)) ELSE Len(offer)
             high == Len(offer)
  <1>1. low \in Nat /\ high \in Nat
    BY LenProperties DEF Min2
  <1>2. answer \in UNION {[1..n -> S] : n \in low..high}
    BY DEF Answers
  <1> HIDE DEF S, low
  <1>3. PICK n \in low..high : answer \in [1..n -> S]
    BY <1>2
  <1>4. Len(answer) = n /\ n \in Nat /\ n <= high
    <2>1. n \in Nat /\ n <= high
      BY <1>1
    <2>2. answer \in Seq(SdpMedia)
      BY AnswersType
    <2>3. DOMAIN answer = 1..n
      BY <1>3
    <2> QED
      BY <2>1, <2>2, <2>3, LenProperties
  <1> QED
    BY <1>4

-----------------------------------------------------------------------------
(* The session's steps.                                                    *)

LEMMA NewSessionKept ==
    ASSUME NEW incoming \in BOOLEAN
    PROVE  Kept(NewSession(incoming))
  <1> DEFINE s == NewSession(incoming)
             given == [i \in 1..Len(InitialTypes) |->
                         NewMedia(InitialTypes[i], Bidirectional, TRUE, FALSE)]
             medias == IF incoming THEN << >> ELSE given
  <1>1. s \in Session
    BY NewSessionType
  <1>2. /\ s.medias = medias /\ s.state = "CREATED" /\ s.nua_op /\ s.cli = 0 /\ ~s.early
        /\ s.local_sdp = None /\ s.hold_requested = FALSE
    <2> HIDE DEF medias
    <2>1. s.medias = medias
      BY Zenon DEF NewSession, medias
    <2>2. /\ s.state = "CREATED" /\ s.nua_op /\ s.cli = 0 /\ ~s.early
          /\ s.local_sdp = None /\ s.hold_requested = FALSE
      BY DEF NewSession
    <2> QED
      BY <2>1, <2>2
  <1> HIDE DEF s
  <1>3. ASSUME NEW i \in Present(s)
        PROVE  s.medias[i].hold_requested = FALSE /\ Unhurried(s.medias[i])
    <2>1. CASE incoming
      <3>1. s.medias = << >>
        BY <1>2, <2>1
      <3>2. Slots(s) = 1..0
        BY <3>1, EmptySeq DEF Slots
      <3> QED
        BY <3>2 DEF Present
    <2>2. CASE ~incoming
      <3>1. s.medias = given
        BY <1>2, <2>2
      <3>2. Len(InitialTypes) \in Nat
        BY LenProperties, SessionAssumption DEF SessionAssumption
      <3>3. Len(given) = Len(InitialTypes)
        BY <3>2
      <3>4. i \in 1..Len(InitialTypes)
        <4> HIDE DEF given
        <4> QED
          BY <3>1, <3>3 DEF Present, Slots
      <3>5. s.medias[i] = NewMedia(InitialTypes[i], Bidirectional, TRUE, FALSE)
        BY <3>1, <3>4
      <3> HIDE DEF given, medias
      <3> DEFINE m == NewMedia(InitialTypes[i], Bidirectional, TRUE, FALSE)
      <3>6. m.hold_requested = FALSE /\ Unhurried(m)
        BY DEF NewMedia, Unhurried
      <3> HIDE DEF m
      <3> QED
        BY <3>5, <3>6 DEF m
    <2> QED
      BY <2>1, <2>2
  <1> HIDE DEF medias, given
  <1>4. Steady(s) /\ OfferDescribed(s)
    BY <1>1, <1>2 DEF Steady, OfferDescribed, Bit, Sent
  <1>5. \A i \in Present(s) : Tidy(s, i) /\ Awaited(s, i)
    BY <1>2, <1>3 DEF Tidy, Awaited
  <1>6. Kept(s)
    BY <1>2, <1>4, <1>5 DEF Kept, Watched, AllAwaited
  <1> QED
    BY <1>6 DEF s

LEMMA RequestBothDirectionsKept ==
    ASSUME ~ImmutableStreams, NEW s, Watched(s), AllAwaited(s), s.state = "INVITE_RECEIVED"
    PROVE  Kept(RequestBothDirections(s))
  <1> DEFINE medias == [i \in Slots(s) |->
                          IF s.medias[i] = None THEN None
                          ELSE SetRequestedDirection(s.medias[i], Bidirectional).media]
             t == [s EXCEPT !.medias = medias]
  <1>1. s \in Session /\ Len(s.medias) \in Nat /\ Slots(s) = 1..Len(s.medias)
    BY SlotsType DEF Watched, Steady
  <1>2. ASSUME NEW i \in Slots(s), medias[i] # None
        PROVE  /\ i \in Present(s) /\ Serves(s.medias[i], medias[i])
               /\ medias[i].local_codecs = s.medias[i].local_codecs
               /\ medias[i] \in Slot
    <2> DEFINE m == s.medias[i]
               p == [m EXCEPT !.requested_direction = Bidirectional]
    <2>1. m # None /\ medias[i] = SetRequestedDirection(m, Bidirectional).media
      BY <1>2, Zenon
    <2>2. medias[i] = p
      <3>1. SetRequestedDirection(m, Bidirectional).media = p
        BY DEF SetRequestedDirection
      <3> HIDE DEF medias, p
      <3> QED
        BY <2>1, <3>1
    <2>3. i \in Present(s) /\ m \in Media /\ Unhurried(m)
      BY <1>1, <2>1, SlotType DEF Present, Watched, Tidy
    <2> HIDE DEF medias, m
    <2>4. p \in Media
      BY <2>3 DEF Media, Bidirectional
    <2>5. Serves(m, p) /\ p.local_codecs = m.local_codecs
      BY <2>3 DEF Media, Serves, Unhurried
    <2> HIDE DEF p
    <2> QED
      BY <2>2, <2>3, <2>4, <2>5 DEF Slot, m
  <1>3. medias \in Seq(Slot)
    <2>1. ASSUME NEW i \in Slots(s)
          PROVE  medias[i] \in Slot
      BY <1>2 DEF Slot
    <2>2. medias \in [Slots(s) -> Slot]
      BY <2>1
    <2> HIDE DEF medias
    <2> QED
      BY <1>1, <2>2, MediasType
  <1>4. Len(medias) = Len(s.medias)
    BY <1>1
  <1>5. RequestBothDirections(s) \in {MediaChanged(t), t}
    BY Zenon DEF RequestBothDirections
  <1> HIDE DEF medias
  <1>6. t \in Session /\ t.medias = medias /\ SamePlan(s, t)
    <2>1. t \in Session
      BY <1>1, <1>3, SetMediasType
    <2>2. t.medias = medias /\ SamePlan(s, t)
      BY <1>1 DEF Session, SamePlan
    <2> QED
      BY <2>1, <2>2
  <1> HIDE DEF t
  <1>7. ASSUME NEW i \in Present(t)
        PROVE  /\ i \in Present(s) /\ Serves(s.medias[i], t.medias[i])
               /\ s.medias[i].local_codecs = None => t.medias[i].local_codecs = None
    <2>1. i \in Slots(s) /\ t.medias[i] = medias[i] /\ medias[i] # None
      BY <1>1, <1>4, <1>6 DEF Present, Slots
    <2> QED
      BY <1>2, <2>1
  <1>8. Watched(t) /\ AllAwaited(t)
    BY <1>4, <1>6, <1>7, ServedWatched, ServedAwaited
  <1>9. Kept(t)
    BY <1>6, <1>8, UnreadyKept DEF SamePlan
  <1> QED
    BY <1>5, <1>8, <1>9, MediaChangedKept

(* The first INVITE finds no media, and gives codecs to none.              *)
LEMMA ReceiveInviteKept ==
    ASSUME ~ImmutableStreams, session = NewSession(TRUE), NEW offer \in Offers(session),
           ReceiveInvite(offer)
    PROVE  KeptOrOver(session')
  <1> DEFINE s == [session EXCEPT !.srv = "offer"]
             s1 == Arrived(s, offer)
             r == SetRemoteSdp(s, offer, ZeroPort)
             q == r.session
             t == [q EXCEPT !.state = "INVITE_RECEIVED"]
             c == ChangeState(q, "INVITE_RECEIVED")
  <1>1. Kept(session) /\ session.state = "CREATED" /\ Present(session) = {}
    <2>1. Kept(session)
      <3>1. TRUE \in BOOLEAN
        OBVIOUS
      <3> QED
        BY <3>1, NewSessionKept, Zenon
    <2>2. session.state = "CREATED" /\ Present(session) = {}
      BY FreshSession, Zenon
    <2> QED
      BY <2>1, <2>2
  <1>2. session \in Session
    BY <1>1 DEF Kept, Watched, Steady
  <1>3. r.ok => q.state = "CREATED"
    BY FirstInviteMatched, Zenon
  <1>4. session' = IF r.ok THEN RequestBothDirections(c) ELSE q
    BY Zenon DEF ReceiveInvite
  <1>5. offer \in Seq(SdpMedia) /\ Len(offer) \in Nat /\ ZeroPort \in SdpMedia
    BY <1>2, OffersType, LenProperties, SessionAssumption DEF SessionAssumption
  <1>6. /\ Watched(s1) /\ AllAwaited(s1) /\ s1.state = "CREATED" /\ Present(s1) = {}
    <2> DEFINE n == Len(offer)
               p == [s EXCEPT !.remote_media_count = n]
    <2>1. s \in Session /\ SamePlan(session, s) /\ s.medias = session.medias
      <3>1. s \in Session
        BY <1>2, OfferArrivesType
      <3>2. SamePlan(session, s) /\ s.medias = session.medias
        BY <1>2 DEF Session, SamePlan
      <3> QED
        BY <3>1, <3>2
    <2> HIDE DEF s, n
    <2>2. s.state = "CREATED" /\ Watched(s) /\ Present(s) = {}
      BY <1>1, <2>1, SamePlanWatched DEF SamePlan, Kept, Present, Slots
    <2>3. s1 = p
      BY <2>2 DEF Arrived, n
    <2>4. p \in Session
      BY <1>5, <2>1 DEF Session, n
    <2>5. /\ p.state = s.state /\ p.nua_op = s.nua_op /\ p.cli = s.cli /\ p.early = s.early
          /\ p.local_sdp = s.local_sdp /\ p.hold_requested = s.hold_requested
          /\ p.medias = s.medias
      BY <2>1 DEF Session
    <2> HIDE DEF p, s1
    <2>6. Steady(p) /\ OfferDescribed(p) /\ Present(p) = {}
      BY <2>2, <2>4, <2>5 DEF Watched, Steady, OfferDescribed, Sent, Present, Slots
    <2>7. Watched(p) /\ AllAwaited(p)
      BY <2>6 DEF Watched, AllAwaited
    <2> QED
      BY <2>2, <2>3, <2>5, <2>6, <2>7
  <1> HIDE DEF s
  <1>7. /\ KeptOrOver(q)
        /\ r.ok => /\ Kept(q)
                   /\ \A i \in Present(q) : q.medias[i].local_codecs = None
    BY <1>3, <1>5, <1>6, SetRemoteSdpKept
  <1> HIDE DEF r, q
  <1>8. ASSUME r.ok
        PROVE  Kept(RequestBothDirections(c))
    <2>1. /\ Kept(q) /\ q \in Session /\ q.state = "CREATED"
          /\ \A i \in Present(q) : q.medias[i].local_codecs = None
      BY <1>3, <1>7, <1>8 DEF Kept, Watched, Steady
    <2>2. c = t
      <3>1. "INVITE_RECEIVED" # "ENDED" /\ "INVITE_RECEIVED" # "ACTIVE"
            /\ q.state # "INVITE_RECEIVED"
        BY <2>1
      <3> QED
        BY <3>1, Zenon DEF ChangeState
    <2>3. t \in Session
      BY <2>1 DEF Session, SessionState
    <2>4. /\ t.state = "INVITE_RECEIVED" /\ t.nua_op = q.nua_op /\ t.cli = q.cli
          /\ t.early = q.early /\ t.local_sdp = q.local_sdp
          /\ t.hold_requested = q.hold_requested /\ t.medias = q.medias
      BY <2>1 DEF Session
    <2> HIDE DEF t, c
    <2>5. Steady(t) /\ OfferDescribed(t)
      BY <2>1, <2>3, <2>4 DEF Kept, Watched, Steady, OfferDescribed, Bit, Sent
    <2>6. \A i \in Present(t) : Tidy(t, i) /\ Awaited(t, i)
      BY <2>1, <2>4 DEF Kept, Watched, Tidy, Awaited, Present, Slots
    <2> QED
      BY <2>2, <2>4, <2>5, <2>6, RequestBothDirectionsKept DEF Watched, AllAwaited
  <1> HIDE DEF c
  <1> QED
    BY <1>4, <1>7, <1>8 DEF KeptOrOver

(* The answer to an offer has no more lines than the offer.                *)
LEMMA AnswerArrives ==
    ASSUME NEW s, Kept(s), s.state \in Sent,
           NEW q \in Session, q.cli = Bit(q.early),
           q.state = s.state, q.nua_op = s.nua_op, q.local_sdp = s.local_sdp,
           q.hold_requested = s.hold_requested, q.pending_offer = s.pending_offer,
           q.medias = s.medias,
           NEW answer \in Seq(SdpMedia), Len(answer) \in Nat, Len(answer) <= Len(s.local_sdp),
           NEW junk \in SdpMedia
    PROVE  LET r == SetRemoteSdp(q, answer, junk)
           IN  KeptOrOver(r.session) /\ (r.ok => Kept(r.session))
  <1> DEFINE t == [q EXCEPT !.state = "RESPONSE_RECEIVED"]
  <1>1. Arrived(q, answer) = t
    <2>1. q.state \in {"INVITE_SENT", "REINVITE_SENT"} /\ q.state # "RESPONSE_RECEIVED"
      BY DEF Sent
    <2>2. Arrived(q, answer) = ChangeState(q, "RESPONSE_RECEIVED")
      BY <2>1, Zenon DEF Arrived
    <2>3. "RESPONSE_RECEIVED" # "ENDED" /\ "RESPONSE_RECEIVED" # "ACTIVE"
      OBVIOUS
    <2>4. ChangeState(q, "RESPONSE_RECEIVED") = t
      BY <2>1, <2>3, Zenon DEF ChangeState
    <2> QED
      BY <2>2, <2>4, Zenon
  <1>2. t \in Session
    BY ZenonT(60) DEF Session, SessionState
  <1>3. /\ t.state = "RESPONSE_RECEIVED" /\ t.nua_op = s.nua_op /\ t.cli = q.cli
        /\ t.early = q.early /\ t.local_sdp = s.local_sdp
        /\ t.hold_requested = s.hold_requested /\ t.pending_offer = s.pending_offer
        /\ t.medias = s.medias
    BY DEF Session
  <1> HIDE DEF t
  <1>4. Steady(t)
    <2>1. t.cli = Bit(FALSE) + Bit(t.early)
      <3>1. t.early \in BOOLEAN
        BY <1>2 DEF Session
      <3> QED
        BY <1>3, <3>1 DEF Bit
    <2> QED
      BY <1>2, <1>3, <2>1 DEF Kept, Watched, Steady, Bit, Sent
  <1>5. OfferDescribed(t)
    BY <1>3 DEF OfferDescribed, Sent
  <1>6. \A i \in Present(t) : Tidy(t, i) /\ Awaited(t, i)
    BY <1>3 DEF Kept, Watched, Tidy, AllAwaited, Awaited, Offered, Present, Slots, Sent
  <1>7. ASSUME NEW i \in Present(t), i <= Len(answer)
        PROVE  t.medias[i].local_codecs # None
    <2>1. i \in Present(s)
      BY <1>3 DEF Present, Slots
    <2>2. s.local_sdp # None /\ s \in Session
      BY DEF Kept, Watched, Steady, OfferDescribed
    <2>3. Len(s.local_sdp) \in Nat /\ Len(s.medias) \in Nat
      BY <2>2, LenProperties, SlotsType DEF Session
    <2>4. i <= Len(s.local_sdp)
      BY <1>7, <2>1, <2>3 DEF Present, Slots
    <2> QED
      BY <1>3, <2>1, <2>4 DEF Kept, Watched, OfferDescribed
  <1>8. Watched(t) /\ AllAwaited(t)
    BY <1>4, <1>5, <1>6 DEF Watched, AllAwaited
  <1> QED
    BY <1>1, <1>3, <1>7, <1>8, SetRemoteSdpKept

(* The only INVITE of ours that is open has its final response.            *)
LEMMA OnlyFinalResponse ==
    ASSUME NEW s \in Session, s.cli = 1
    PROVE  LET t == FinalResponse(s)
           IN  /\ t.cli = 0 /\ t.overtaken = None
               /\ t.early = s.early /\ t.state = s.state /\ t.nua_op = s.nua_op
               /\ t.local_sdp = s.local_sdp /\ t.hold_requested = s.hold_requested
               /\ t.pending_offer = s.pending_offer /\ t.medias = s.medias
               /\ t.remote_media_count = s.remote_media_count
  <1> DEFINE t == [s EXCEPT !.cli = 0, !.overtaken = None]
  <1>1. FinalResponse(s) = t
    BY DEF FinalResponse
  <1>2. /\ t.cli = 0 /\ t.overtaken = None
        /\ t.early = s.early /\ t.state = s.state /\ t.nua_op = s.nua_op
        /\ t.local_sdp = s.local_sdp /\ t.hold_requested = s.hold_requested
        /\ t.pending_offer = s.pending_offer /\ t.medias = s.medias
        /\ t.remote_media_count = s.remote_media_count
    BY DEF Session
  <1> HIDE DEF t
  <1> QED
    BY <1>1, <1>2

LEMMA AnswerKept ==
    ASSUME Kept(session), session.overtaken = None,
           session.local_sdp # None, NEW answer \in Answers(InvitedSdp(session)),
           NEW junk \in Lines, ReceiveAnswer(answer, junk) \/ ReceiveEarlyAnswer(answer, junk)
    PROVE  KeptOrOver(session')
  <1>1. session \in Session /\ session.local_sdp \in Seq(LocalLine) /\ junk \in SdpMedia
    BY SessionAssumption DEF Kept, Watched, Steady, Session
  <1>2. /\ answer \in Seq(SdpMedia)
        /\ Len(answer) \in Nat /\ Len(answer) <= Len(session.local_sdp)
    BY <1>1, AnswersType, AnswerLength DEF InvitedSdp
  <1>3. /\ session.cli = Bit(session.state \in Sent) + Bit(session.early)
        /\ session.early => session.state \notin {"CREATED", "INVITE_SENT"}
        /\ session.cli \in Nat /\ session.early \in BOOLEAN
    BY DEF Kept, Watched, Steady, Session
  <1>4. CASE ReceiveAnswer(answer, junk)
    <2> DEFINE q == FinalResponse(session)
               r == SetRemoteSdp(q, answer, junk)
    <2>1. session.cli > 0 /\ ~session.early
      BY <1>4, Zenon DEF ReceiveAnswer
    <2>2. session.state \in Sent /\ session.cli = 1
      BY <1>3, <2>1 DEF Bit
    <2>3. session' = Ready(r)
      BY <1>4, Zenon DEF ReceiveAnswer
    <2>4. Ready(r) = IF r.ok THEN AcceptSession(r.session) ELSE r.session
      BY Zenon DEF Ready
    <2>5. q \in Session
      BY <1>1, <2>1, FinalResponseType
    <2>6. /\ q.cli = 0 /\ q.early = session.early
          /\ q.state = session.state /\ q.nua_op = session.nua_op
          /\ q.local_sdp = session.local_sdp /\ q.hold_requested = session.hold_requested
          /\ q.pending_offer = session.pending_offer /\ q.medias = session.medias
      BY <1>1, <2>2, OnlyFinalResponse
    <2> HIDE DEF q
    <2>7. q.cli = Bit(q.early)
      BY <2>1, <2>6 DEF Bit
    <2>8. KeptOrOver(r.session) /\ (r.ok => Kept(r.session))
      BY <1>1, <1>2, <2>2, <2>5, <2>6, <2>7, AnswerArrives
    <2> HIDE DEF r
    <2> QED
      BY <2>3, <2>4, <2>8, AcceptSessionKept DEF KeptOrOver
  <1>5. CASE ReceiveEarlyAnswer(answer, junk)
    <2> DEFINE q == [session EXCEPT !.early = TRUE]
               r == SetRemoteSdp(q, answer, junk)
    <2>1. session.state = "INVITE_SENT"
      BY <1>5, Zenon DEF ReceiveEarlyAnswer
    <2>2. session.state \in Sent /\ session.cli = 1
      BY <1>3, <2>1 DEF Bit, Sent
    <2>3. session' = r.session
      BY <1>5, Zenon DEF ReceiveEarlyAnswer
    <2>4. q \in Session
      BY ZenonT(60), <1>1 DEF Session
    <2>5. /\ q.cli = session.cli /\ q.early = TRUE
          /\ q.state = session.state /\ q.nua_op = session.nua_op
          /\ q.local_sdp = session.local_sdp /\ q.hold_requested = session.hold_requested
          /\ q.pending_offer = session.pending_offer /\ q.medias = session.medias
      BY <1>1 DEF Session
    <2> HIDE DEF q
    <2>6. q.cli = Bit(q.early)
      BY <2>2, <2>5 DEF Bit
    <2>7. KeptOrOver(r.session)
      BY <1>1, <1>2, <2>2, <2>4, <2>5, <2>6, AnswerArrives
    <2> QED
      BY <2>3, <2>7
  <1> QED
    BY <1>4, <1>5

(* The NUA transactions are counted otherwise; the medias wait as before.  *)
LEMMA SameMediaKept ==
    ASSUME NEW s, Kept(s), NEW t, Steady(t),
           t.state = s.state \/ (s.state \in Sent /\ t.state = "REINVITE_PENDING"),
           t.local_sdp = s.local_sdp, t.hold_requested = s.hold_requested,
           t.pending_offer = s.pending_offer, t.remote_media_count = s.remote_media_count,
           t.medias = s.medias
    PROVE  Kept(t)
  <1>1. OfferDescribed(t)
    BY DEF Kept, Watched, OfferDescribed, Present, Slots, Sent
  <1>2. \A i \in Present(t) : Tidy(t, i) /\ Awaited(t, i)
    BY DEF Kept, Watched, Tidy, AllAwaited, Awaited, Offered, Present, Slots, Sent
  <1>3. t.state = "ACTIVE" /\ AllMediaReady(t) => AllOffered(t)
    BY DEF Kept, AllMediaReady, AllOffered, Offered, Present, Slots
  <1> QED
    BY <1>1, <1>2, <1>3 DEF Kept, Watched, AllAwaited

LEMMA FinalAfterEarlyKept ==
    ASSUME Kept(session), ReceiveFinalAfterEarly
    PROVE  Kept(session')
  <1> DEFINE n == session.cli - 1
             s == [session EXCEPT !.early = FALSE]
             t == [s EXCEPT !.cli = n]
  <1>1. session \in Session /\ Steady(session) /\ session.early /\ session.cli > 0
    BY DEF Kept, Watched, Steady, ReceiveFinalAfterEarly
  <1>2. n = Bit(session.state \in Sent) + Bit(FALSE) /\ n \in Nat
    BY <1>1 DEF Steady, Bit
  <1>3. session' = AcceptSession(t)
    BY DEF ReceiveFinalAfterEarly
  <1> HIDE DEF n
  <1>4. t \in Session
    <2>1. s \in Session
      BY <1>1 DEF Session
    <2> HIDE DEF s
    <2> QED
      BY ZenonT(60), <1>2, <2>1 DEF Session
  <1>5. /\ t.cli = n /\ ~t.early /\ t.early \in BOOLEAN /\ t.state = session.state
        /\ t.nua_op = session.nua_op /\ t.local_sdp = session.local_sdp
        /\ t.hold_requested = session.hold_requested
        /\ t.pending_offer = session.pending_offer
        /\ t.remote_media_count = session.remote_media_count /\ t.medias = session.medias
    BY <1>1 DEF Session
  <1> HIDE DEF t
  <1>6. Steady(t)
    BY <1>1, <1>2, <1>4, <1>5 DEF Steady, Bit
  <1>7. Kept(t)
    BY <1>5, <1>6, SameMediaKept
  <1> QED
    BY <1>3, <1>7, AcceptSessionKept

LEMMA ResolveGlareKept ==
    ASSUME Kept(session), ResolveGlare
    PROVE  Kept(session')
  <1> DEFINE q == FinalResponse(session)
             s == [q EXCEPT !.glare_timer = "armed"]
             t == [s EXCEPT !.state = "REINVITE_PENDING"]
  <1>1. /\ session \in Session /\ Steady(session) /\ session.state # "INVITE_SENT"
        /\ ~session.early /\ session.cli > 0
    BY Zenon DEF Kept, Watched, Steady, ResolveGlare
  <1>2. session.cli = 1 /\ session.state = "REINVITE_SENT"
    BY <1>1 DEF Steady, Bit, Sent
  <1>3. /\ q.cli = 0 /\ q.early = session.early /\ q.state = session.state
        /\ q.nua_op = session.nua_op /\ q.local_sdp = session.local_sdp
        /\ q.hold_requested = session.hold_requested
        /\ q.pending_offer = session.pending_offer /\ q.medias = session.medias
        /\ q.remote_media_count = session.remote_media_count
        /\ q \in Session
    BY <1>1, <1>2, OnlyFinalResponse, FinalResponseType
  <1>4. session' = ChangeState(s, "REINVITE_PENDING")
    <2>1. session' = IF q.state = "REINVITE_SENT" THEN ChangeState(s, "REINVITE_PENDING") ELSE q
      BY Zenon DEF ResolveGlare
    <2> HIDE DEF q
    <2> QED
      BY <1>2, <1>3, <2>1
  <1> HIDE DEF q
  <1>5. /\ s \in Session
        /\ s.cli = 0 /\ ~s.early /\ s.state = "REINVITE_SENT"
        /\ s.nua_op = session.nua_op /\ s.local_sdp = session.local_sdp
        /\ s.hold_requested = session.hold_requested
        /\ s.pending_offer = session.pending_offer
        /\ s.remote_media_count = session.remote_media_count /\ s.medias = session.medias
    <2>1. s \in Session
      BY <1>3 DEF Session
    <2>2. /\ s.cli = q.cli /\ s.early = q.early /\ s.state = q.state /\ s.nua_op = q.nua_op
          /\ s.local_sdp = q.local_sdp /\ s.hold_requested = q.hold_requested
          /\ s.pending_offer = q.pending_offer
          /\ s.remote_media_count = q.remote_media_count /\ s.medias = q.medias
      BY <1>3 DEF Session
    <2> HIDE DEF s
    <2> QED
      BY <1>1, <1>2, <1>3, <2>1, <2>2
  <1> HIDE DEF s
  <1>6. session' = t
    <2>1. "REINVITE_PENDING" # "ENDED" /\ "REINVITE_PENDING" # "ACTIVE"
          /\ s.state # "REINVITE_PENDING"
      BY <1>5
    <2> QED
      BY <1>4, <2>1, Zenon DEF ChangeState
  <1>7. t \in Session
    BY <1>5 DEF Session, SessionState
  <1>8. /\ t.cli = 0 /\ ~t.early /\ t.state = "REINVITE_PENDING"
        /\ t.nua_op = s.nua_op /\ t.local_sdp = s.local_sdp
        /\ t.hold_requested = s.hold_requested
        /\ t.pending_offer = s.pending_offer
        /\ t.remote_media_count = s.remote_media_count /\ t.medias = s.medias
    BY <1>5 DEF Session
  <1> HIDE DEF t
  <1>9. Steady(t)
    BY <1>1, <1>2, <1>5, <1>7, <1>8 DEF Steady, Bit, Sent
  <1>10. Kept(t)
    BY <1>2, <1>5, <1>8, <1>9, SameMediaKept DEF Sent
  <1> QED
    BY <1>6, <1>10

LEMMA GlareRetryKept ==
    ASSUME Kept(session), GlareRetry
    PROVE  Kept(session')
  <1> DEFINE s == IF session.state = "REINVITE_PENDING" THEN Invite(session, TRUE) ELSE session
             t == [s EXCEPT !.glare_timer = "none"]
  <1>1. Kept(s)
    <2>1. CASE session.state = "REINVITE_PENDING" /\ AllMediaReady(session)
      <3>1. session.state \in (IF TRUE THEN {"ACTIVE", "REINVITE_PENDING"} ELSE {"CREATED"})
        BY <2>1
      <3>2. TRUE \in BOOLEAN
        OBVIOUS
      <3>3. Watched(session)
        BY DEF Kept
      <3>4. Kept(Invite(session, TRUE))
        BY <2>1, <3>1, <3>2, <3>3, InviteKept, Zenon
      <3> QED
        BY <2>1, <3>4, Zenon
    <2>2. CASE ~(session.state = "REINVITE_PENDING" /\ AllMediaReady(session))
      <3>1. s = session
        BY <2>2, Zenon DEF Invite
      <3> QED
        BY <3>1, Zenon
    <2> QED
      BY <2>1, <2>2
  <1>2. session' = t
    BY Zenon DEF GlareRetry
  <1> HIDE DEF s
  <1>3. s \in Session
    BY <1>1 DEF Kept, Watched, Steady
  <1>4. t \in Session
    BY <1>3 DEF Session
  <1>5. SamePlan(s, t) /\ t.medias = s.medias
    BY <1>3 DEF Session, SamePlan
  <1> HIDE DEF t
  <1> QED
    BY <1>1, <1>2, <1>4, <1>5, SamePlanWatched

(* No re-INVITE without an offer has come: no ACK will bring an answer.     *)
Undelayed(s) ==
    s.state # "ENDED" => s.srv # "delayed" /\ s.ack = None /\ s.overtaken = None

LEMMA FollowsUndelayed ==
    ASSUME NEW s, NEW t, Undelayed(s), Follows(s, t)
    PROVE  Undelayed(t)
  BY DEF Undelayed, Follows

LEMMA AcceptSessionUndelayed ==
    ASSUME NEW s \in Session, Undelayed(s)
    PROVE  Undelayed(AcceptSession(s))
  <1>1. PICK t \in Session : /\ t.state = s.state /\ t.overtaken = s.overtaken
                             /\ t.srv = s.srv /\ t.ack = s.ack
                             /\ Follows(t, AcceptSession(s))
    BY AcceptSessionFollows
  <1>2. Undelayed(t)
    BY <1>1 DEF Undelayed
  <1> QED
    BY <1>1, <1>2, FollowsUndelayed

LEMMA AnswerUndelayed ==
    ASSUME NEW s \in Session, s.state # "ENDED", Undelayed(s),
           NEW answer \in Seq(SdpMedia), NEW junk \in SdpMedia
    PROVE  LET r == SetRemoteSdp(s, answer, junk)
           IN  Undelayed(r.session) /\ Undelayed(Ready(r))
  <1> DEFINE r == SetRemoteSdp(s, answer, junk)
  <1>1. PICK t \in Session : /\ t.overtaken = s.overtaken /\ t.srv = s.srv /\ t.ack = s.ack
                             /\ r.session \in Session
                             /\ Follows(t, r.session)
    BY SetRemoteSdpFollows
  <1>2. Ready(r) = IF r.ok THEN AcceptSession(r.session) ELSE r.session
    BY Zenon DEF Ready
  <1> HIDE DEF r
  <1>3. Undelayed(t)
    BY <1>1 DEF Undelayed
  <1>4. Undelayed(r.session)
    BY <1>1, <1>3, FollowsUndelayed
  <1>5. Undelayed(Ready(r))
    BY <1>1, <1>2, <1>4, AcceptSessionUndelayed
  <1> QED
    BY <1>4, <1>5 DEF r

LEMMA PeerStepUndelayed ==
    ASSUME Kept(session), Undelayed(session),
           ~(session.incoming /\ session.state = "CREATED"), PeerStep
    PROVE  Undelayed(session') \/ Use("offers", MaxOffers)
  <1>1. /\ session \in Session /\ Steady(session) /\ Lines \subseteq SdpMedia
        /\ session.state # "ENDED" /\ session.early \in BOOLEAN
        /\ session.overtaken = None /\ session.ack = None /\ session.srv # "delayed"
    BY SessionAssumption DEF Kept, Watched, Steady, Undelayed, Session, SessionAssumption
  <1>2. ASSUME NEW offer \in Offers(session), ReceiveInvite(offer)
        PROVE  FALSE
    BY <1>2, Zenon DEF ReceiveInvite
  <1>3. ASSUME session.cli > 0, ~session.early
        PROVE  LET s == FinalResponse(session)
               IN  s \in Session /\ s.state # "ENDED" /\ Undelayed(s)
    <2>1. session.cli = 1
      BY <1>1, <1>3 DEF Steady, Bit
    <2> QED
      BY <1>1, <2>1, FinalResponseFields DEF Undelayed
  <1>4. ASSUME session.local_sdp # None, NEW answer \in Answers(InvitedSdp(session)),
               NEW junk \in Lines, ReceiveAnswer(answer, junk) \/ ReceiveEarlyAnswer(answer, junk)
        PROVE  Undelayed(session')
    <2>1. answer \in Seq(SdpMedia) /\ junk \in SdpMedia
      BY <1>1, <1>4, InvitedSdpType, AnswersType
    <2>2. CASE ReceiveAnswer(answer, junk)
      <3>1. session.cli > 0 /\ ~session.early
            /\ session' = Ready(SetRemoteSdp(FinalResponse(session), answer, junk))
        BY <2>2, Zenon DEF ReceiveAnswer
      <3> QED
        BY <1>3, <2>1, <3>1, AnswerUndelayed
    <2>3. CASE ReceiveEarlyAnswer(answer, junk)
      <3> DEFINE s == [session EXCEPT !.early = TRUE]
      <3>1. session' = SetRemoteSdp(s, answer, junk).session
        BY <2>3, Zenon DEF ReceiveEarlyAnswer
      <3>2. s \in Session /\ s.state # "ENDED" /\ Undelayed(s)
        BY ZenonT(60), <1>1 DEF Session, Undelayed
      <3> HIDE DEF s
      <3> QED
        BY <2>1, <3>1, <3>2, AnswerUndelayed
    <2> QED
      BY <1>4, <2>2, <2>3
  <1>5. ASSUME session.ack # None, NEW answer \in Answers(session.ack), NEW junk \in Lines,
               ReceiveAck(answer, junk)
        PROVE  FALSE
    BY <1>1, <1>5
  <1>6. ASSUME ReceiveFinalAfterEarly
        PROVE  Undelayed(session')
    <2> DEFINE n == session.cli - 1
               s == [session EXCEPT !.early = FALSE, !.cli = n]
    <2>1. session' = AcceptSession(s) /\ session.cli > 0
      BY <1>6, Zenon DEF ReceiveFinalAfterEarly
    <2>2. n \in Nat
      BY <1>1, <2>1 DEF Session
    <2> HIDE DEF n
    <2>3. /\ s.overtaken = session.overtaken /\ s.ack = session.ack /\ s.srv = session.srv
      BY <1>1 DEF Session
    <2>4. s \in Session
      BY <1>1, <2>2, FinalAfterEarlyType
    <2> HIDE DEF s
    <2>5. Undelayed(s)
      BY <1>1, <2>3 DEF Undelayed
    <2> QED
      BY <2>1, <2>4, <2>5, AcceptSessionUndelayed
  <1>7. ASSUME ReceiveTerminated
        PROVE  Undelayed(session')
    <2>1. session' = ChangeState(session, "ENDED")
      BY <1>7, Zenon DEF ReceiveTerminated
    <2> QED
      BY <1>1, <2>1, EndFollows DEF Undelayed
  <1>8. ASSUME ResolveGlare
        PROVE  Undelayed(session')
    <2> DEFINE s == FinalResponse(session)
    <2>1. /\ session.cli > 0 /\ ~session.early
          /\ session' = IF s.state = "REINVITE_SENT"
                        THEN ChangeState([s EXCEPT !.glare_timer = "armed"], "REINVITE_PENDING")
                        ELSE s
      BY <1>8, Zenon DEF ResolveGlare
    <2>2. s \in Session /\ s.state # "ENDED" /\ Undelayed(s)
      BY <1>3, <2>1
    <2> HIDE DEF s
    <2> QED
      BY <2>1, <2>2, GlareFields DEF Undelayed
  <1>9. ASSUME ReinviteRefused
        PROVE  Undelayed(session')
    <2>1. session' = Terminate(FinalResponse(session)) /\ session.cli > 0
      BY <1>9, Zenon DEF ReinviteRefused
    <2>2. FinalResponse(session) \in Session
      BY <1>1, <2>1, FinalResponseType
    <2> QED
      BY <2>1, <2>2, TerminateFollows DEF Undelayed
  <1>10. ASSUME NEW offer \in Offers(session), NEW junk \in Lines, Reinvite(offer, junk)
         PROVE  Use("offers", MaxOffers)
    BY <1>10, Zenon DEF Reinvite
  <1>11. ASSUME ReinviteWithoutOffer
         PROVE  Use("offers", MaxOffers)
    BY <1>11, Zenon DEF ReinviteWithoutOffer
  <1> QED
    BY <1>2, <1>4, <1>5, <1>6, <1>7, <1>8, <1>9, <1>10, <1>11, Zenon DEF PeerStep

(* Nor does the client or a timer bring one.                               *)
LEMMA LocalStepUndelayed ==
    ASSUME session \in Session, Undelayed(session)
    PROVE  /\ \A i \in Present(session) : ClientStep(i) => Undelayed(session')
           /\ CallStep => Undelayed(session')
           /\ GlareRetry => Undelayed(session')
  <1>1. ASSUME NEW i \in Present(session), ClientStep(i)
        PROVE  Undelayed(session')
    BY <1>1, ClientStepFollows, FollowsUndelayed
  <1>2. ASSUME CallStep
        PROVE  Undelayed(session')
    <2>1. CASE Accept
      <3>1. session' = AcceptSession(session)
        BY <2>1, Zenon DEF Accept
      <3> QED
        BY <3>1, AcceptSessionUndelayed
    <2>2. CASE ~Accept
      BY <1>2, <2>2, CallStepFollows, FollowsUndelayed
    <2> QED
      BY <2>1, <2>2
  <1>3. ASSUME GlareRetry
        PROVE  Undelayed(session')
    BY <1>3, GlareRetryFollows, FollowsUndelayed
  <1> QED
    BY <1>1, <1>2, <1>3

LEMMA PeerStepKept ==
    ASSUME ~ImmutableStreams, Kept(session), Undelayed(session),
           ~(session.incoming /\ session.state = "CREATED"), PeerStep
    PROVE  \/ KeptOrOver(session')
           \/ Use("offers", MaxOffers)
  <1>1. session \in Session /\ session.overtaken = None /\ session.ack = None
    BY DEF Kept, Watched, Steady, Undelayed
  <1>2. ASSUME NEW offer \in Offers(session), ReceiveInvite(offer)
        PROVE  FALSE
    BY <1>2, Zenon DEF ReceiveInvite
  <1>3. ASSUME session.local_sdp # None, NEW answer \in Answers(InvitedSdp(session)),
               NEW junk \in Lines, ReceiveAnswer(answer, junk) \/ ReceiveEarlyAnswer(answer, junk)
        PROVE  KeptOrOver(session')
    BY <1>1, <1>3, AnswerKept
  <1>4. ASSUME ReceiveFinalAfterEarly
        PROVE  KeptOrOver(session')
    BY <1>4, FinalAfterEarlyKept DEF KeptOrOver
  <1>5. ASSUME ReceiveTerminated
        PROVE  KeptOrOver(session')
    <2>1. session' = ChangeState(session, "ENDED")
      BY <1>5, Zenon DEF ReceiveTerminated
    <2> QED
      BY <1>1, <2>1, EndFollows DEF KeptOrOver
  <1>6. ASSUME ResolveGlare
        PROVE  KeptOrOver(session')
    BY <1>6, ResolveGlareKept DEF KeptOrOver
  <1>7. ASSUME ReinviteRefused
        PROVE  KeptOrOver(session')
    <2> DEFINE s == FinalResponse(session)
    <2>1. session' = Terminate(s) /\ session.cli > 0
      BY <1>7, Zenon DEF ReinviteRefused
    <2>2. s \in Session
      BY <1>1, <2>1, FinalResponseType
    <2> HIDE DEF s
    <2> QED
      BY <2>1, <2>2, TerminateFollows DEF KeptOrOver
  <1>8. ASSUME NEW offer \in Offers(session), NEW junk \in Lines, Reinvite(offer, junk)
        PROVE  Use("offers", MaxOffers)
    BY <1>8, Zenon DEF Reinvite
  <1>9. ASSUME ReinviteWithoutOffer
        PROVE  Use("offers", MaxOffers)
    BY <1>9, Zenon DEF ReinviteWithoutOffer
  <1>10. ASSUME session.ack # None, NEW answer \in Answers(session.ack), NEW junk \in Lines,
                ReceiveAck(answer, junk)
         PROVE  FALSE
    BY <1>1, <1>10
  <1> QED
    BY <1>2, <1>3, <1>4, <1>5, <1>6, <1>7, <1>8, <1>9, <1>10, Zenon DEF PeerStep

(* An ended session stays ended.                                           *)
LEMMA EndedStays ==
    ASSUME session \in Session, session.state = "ENDED", Next
    PROVE  session'.state = "ENDED"
  <1>1. ~Live
    BY DEF Live
  <1>2. /\ \A i : ~ClientStep(i)
        /\ ~CallStep /\ ~PeerStep
    BY <1>1, Zenon DEF ClientStep, CallStep, PeerStep, AcceptCodecs,
       RejectCodecs, UpdateCodecs, FinishInitialCandidates, StartReceiving, StopReceiving,
       RequestDirection, RemoveContent, Accept, Hangup, AddContent, RequestHold, ReleaseHold,
       ReceiveInvite, ReceiveAnswer, ReceiveEarlyAnswer, ReceiveAck, ReceiveFinalAfterEarly,
       ReceiveTerminated, ResolveGlare, ReinviteRefused, Reinvite, ReinviteWithoutOffer,
       CanReceiveReinvite
  <1>3. CASE GlareRetry
    <2>1. session' = [session EXCEPT !.glare_timer = "none"]
      BY <1>3 DEF GlareRetry
    <2> QED
      BY <2>1 DEF Session
  <1>4. CASE Finished
    BY <1>4 DEF Finished, vars
  <1> QED
    BY <1>2, <1>3, <1>4, Zenon DEF Next

(* Only re-INVITEs of the peer are counted as its offers.                  *)
LEMMA OffersAreCounted ==
    ASSUME TypeOK, Next
    PROVE  /\ used'.offers = 0 => used.offers = 0
           /\ Use("offers", MaxOffers) => used'.offers # 0
  <1>1. used.offers \in Nat
    BY SessionAssumption DEF TypeOK
  <1>2. Use("offers", MaxOffers) => used'.offers = used.offers + 1
    BY DEF TypeOK, Use
  <1>3. Use("changes", MaxChanges) \/ Use("glares", MaxGlares) => used'.offers = used.offers
    BY DEF TypeOK, Use
  <1>4. ASSUME NEW i \in Present(session), ClientStep(i)
        PROVE  Use("changes", MaxChanges) \/ UNCHANGED used
    BY <1>4, Zenon DEF ClientStep, AcceptCodecs, RejectCodecs, UpdateCodecs,
       FinishInitialCandidates, StartReceiving, StopReceiving, RequestDirection, RemoveContent
  <1>5. ASSUME CallStep
        PROVE  Use("changes", MaxChanges) \/ UNCHANGED used
    BY <1>5, Zenon DEF CallStep, Accept, Hangup, AddContent, RequestHold, ReleaseHold
  <1>6. ASSUME PeerStep
        PROVE  Use("offers", MaxOffers) \/ Use("glares", MaxGlares) \/ UNCHANGED used
    BY <1>6, Zenon DEF PeerStep, ReceiveInvite, ReceiveAnswer, ReceiveEarlyAnswer,
       ReceiveAck, ReceiveFinalAfterEarly, ReceiveTerminated, ResolveGlare, ReinviteRefused,
       Reinvite, ReinviteWithoutOffer
  <1>7. \/ Use("offers", MaxOffers) \/ Use("glares", MaxGlares) \/ Use("changes", MaxChanges)
        \/ UNCHANGED used
    BY <1>4, <1>5, <1>6, Zenon DEF Next, GlareRetry, Finished, vars
  <1> QED
    BY <1>1, <1>2, <1>3, <1>7

ChangesInv ==
    /\ RequestsInv
    /\ used.offers = 0 => KeptOrOver(session) /\ Undelayed(session)

LEMMA ChangesInvInductive ==
    ASSUME ~ImmutableStreams, "direct" \notin UserMay
    PROVE  ChangesInv /\ RequestsInv' /\ [Next]_vars => ChangesInv'
  <1> SUFFICES ASSUME ChangesInv, RequestsInv', [Next]_vars, used'.offers = 0
               PROVE  KeptOrOver(session') /\ Undelayed(session')
    BY DEF ChangesInv
  <1>1. CASE UNCHANGED vars
    BY <1>1 DEF ChangesInv, vars
  <1>2. CASE Next
    <2>1. TypeOK /\ session \in Session
      BY DEF ChangesInv, RequestsInv, TypeOK
    <2>2. used.offers = 0 /\ ~Use("offers", MaxOffers) /\ Undelayed(session)
      BY <1>2, <2>1, OffersAreCounted DEF ChangesInv
    <2>3. CASE session.aborted # "none"
      <3>1. UNCHANGED vars
        BY <1>2, <2>3, AbortedStays
      <3> QED
        BY <2>2, <2>3, <3>1 DEF vars, KeptOrOver
    <2>4. CASE session.state = "ENDED"
      BY <1>2, <2>1, <2>4, EndedStays DEF KeptOrOver, Undelayed
    <2>5. CASE session.aborted = "none" /\ Kept(session) /\ session = NewSession(TRUE)
      <3>1. PICK offer \in Offers(session) : ReceiveInvite(offer)
        BY <1>2, <2>5, FreshStepIsInvite
      <3>2. PICK t \in Session : /\ t.overtaken = None /\ ~AckExpected(t)
                                 /\ Follows(t, session')
        BY <2>5, <3>1, FirstInviteFollows
      <3>3. Undelayed(session')
        BY <3>2, FollowsUndelayed DEF Undelayed, AckExpected
      <3> QED
        BY <2>5, <3>1, <3>3, ReceiveInviteKept
    <2>6. CASE session.aborted = "none" /\ Kept(session) /\ Matched(session)
      <3>1. ~(session.incoming /\ session.state = "CREATED")
        BY <2>6 DEF Matched
      <3>2. ASSUME NEW i \in Present(session), ClientStep(i)
            PROVE  KeptOrOver(session') /\ Undelayed(session')
        BY <2>1, <2>2, <2>6, <3>2, ClientStepKept, LocalStepUndelayed
      <3>3. ASSUME CallStep
            PROVE  KeptOrOver(session') /\ Undelayed(session')
        BY <2>1, <2>2, <2>6, <3>3, CallStepKept, LocalStepUndelayed
      <3>4. ASSUME PeerStep
            PROVE  KeptOrOver(session') /\ Undelayed(session')
        BY <2>2, <2>6, <3>1, <3>4, PeerStepKept, PeerStepUndelayed
      <3>5. ASSUME GlareRetry
            PROVE  KeptOrOver(session') /\ Undelayed(session')
        BY <2>1, <2>2, <2>6, <3>5, GlareRetryKept, LocalStepUndelayed DEF KeptOrOver
      <3>6. ASSUME Finished
            PROVE  KeptOrOver(session') /\ Undelayed(session')
        BY <2>2, <2>6, <3>6 DEF Finished, vars, KeptOrOver
      <3> QED
        BY <1>2, <3>2, <3>3, <3>4, <3>5, <3>6 DEF Next
    <2> QED
      BY <2>2, <2>3, <2>4, <2>5, <2>6 DEF ChangesInv, RequestsInv, KeptOrOver
  <1> QED
    BY <1>1, <1>2

LEMMA InitChanges == Init => ChangesInv
  <1> SUFFICES ASSUME Init
               PROVE  ChangesInv
    OBVIOUS
  <1>1. RequestsInv
    BY InitRequests
  <1>2. PICK incoming \in BOOLEAN : session = NewSession(incoming)
    BY SessionAssumption DEF Init, SessionAssumption
  <1>3. Kept(session)
    BY <1>2, NewSessionKept
  <1>4. Undelayed(session)
    BY <1>2 DEF NewSession, Undelayed
  <1> QED
    BY <1>1, <1>3, <1>4 DEF ChangesInv, KeptOrOver

(* Nothing that the client adds or holds is lost: as long as the peer      *)
(* sends no re-INVITE of its own, an active session whose medias are all   *)
(* ready has described each of them in the SDP it sent last, and announced *)
(* the hold there, whatever order the answers, early answers, glares,      *)
(* codecs, candidates and changes of the contents came in.  Where the      *)
(* client requests directions it is not so, and the hypothesis says that   *)
(* it does not.                                                            *)
THEOREM UndisturbedChanges ==
    ASSUME "direct" \notin UserMay
    PROVE  Spec => []UndisturbedChangesAreOffered
  <1>1. CASE ImmutableStreams
    <2>1. UndisturbedChangesAreOffered
      BY <1>1 DEF UndisturbedChangesAreOffered
    <2> QED
      BY <2>1, PTL
  <1>2. CASE ~ImmutableStreams
    <2>1. ChangesInv => UndisturbedChangesAreOffered
      <3> SUFFICES ASSUME ChangesInv, used.offers = 0, Running, AtRest(session)
                   PROVE  \A i \in Present(session) : Offered(session, i)
        BY DEF UndisturbedChangesAreOffered
      <3>1. Kept(session)
        BY DEF ChangesInv, KeptOrOver, Running, AtRest
      <3> QED
        BY <3>1 DEF Kept, AllOffered, AtRest
    <2>2. ChangesInv /\ RequestsInv' /\ [Next]_vars => ChangesInv'
      BY <1>2, ChangesInvInductive
    <2>3. Init => ChangesInv
      BY InitChanges
    <2>4. ChangesInv => RequestsInv
      BY DEF ChangesInv
    <2> QED
      BY <2>1, <2>2, <2>3, <2>4, InitRequests, RequestsInvInductive, SessionTypeCorrect, PTL
         DEF Spec
  <1> QED
    BY <1>1, <1>2

-----------------------------------------------------------------------------
(* A call that nobody changes goes on.                                     *)

(* The media has codecs, or the session knows that it waits for them.      *)
Answerable(m) == m.local_codecs # None \/ m.codec_intersect_pending

(* A media loses neither its codecs nor its leisure.                       *)
Goes(m, p) ==
    /\ p.type = m.type
    /\ m.local_codecs # None => p.local_codecs # None
    /\ Unhurried(m) => Unhurried(p)

(* A step of the client on a media, and what the session hears of it: only *)
(* a media that was neither answerable nor unhurried gets ready in silence. *)
Stirs(m, r) ==
    /\ Goes(m, r.media)
    /\ Answerable(m) => Answerable(r.media)
    /\ \/ r.signal = "none" /\ (Answerable(m) \/ Unhurried(m))
       \/ r.signal = "local-updated" /\ Answerable(m)
       => (IsReady(r.media) => IsReady(m))

LEMMA SameServiceGoes ==
    ASSUME NEW m, NEW p, SameService(m, p)
    PROVE  /\ Goes(m, p)
           /\ Answerable(p) <=> Answerable(m)
           /\ IsReady(p) <=> IsReady(m)
  BY DEF SameService, Goes, Answerable, Unhurried, IsReady

LEMMA TakeLocalCodecsStirs ==
    ASSUME NEW m \in Media, NEW codecs \in CodecLists
    PROVE  Stirs(m, TakeLocalCodecs(m, codecs))
  <1> DEFINE m1 == [m EXCEPT !.local_codecs = codecs]
             m0 == [m1 EXCEPT !.push_candidates_on_new_codecs = FALSE]
             m2 == IF m1.push_candidates_on_new_codecs THEN PushRemoteCandidates(m0) ELSE m1
             m3 == [m2 EXCEPT !.codec_intersect_pending = FALSE]
             m4 == [m1 EXCEPT !.push_remote_codecs_pending = FALSE]
             m5 == PushRemoteCodecs(m4)
             m6 == [m3 EXCEPT !.remote_codec_offer = None]
             r  == TakeLocalCodecs(m, codecs)
  <1>1. /\ m1 \in Media /\ m1.local_codecs = codecs /\ codecs # None
        /\ m1.type = m.type /\ m1.codec_intersect_pending = m.codec_intersect_pending
        /\ m1.push_remote_codecs_pending = m.push_remote_codecs_pending
        /\ m1.requested_direction = m.requested_direction
        /\ m1.can_receive = m.can_receive /\ m1.hold_requested = m.hold_requested
        /\ m1.local_candidates_prepared = m.local_candidates_prepared
    BY MediaAssumption DEF Media
  <1> HIDE DEF m1
  <1>2. m0 \in Media /\ SameService(m1, m0)
    <2>1. m1 \in Media
      BY <1>1
    <2>2. m0 \in Media
      BY <2>1 DEF Media
    <2> QED
      BY <2>1, <2>2, OtherMediaServe
  <1> HIDE DEF m0
  <1>3. m2 \in Media /\ SameService(m1, m2)
    <2>1. PushRemoteCandidates(m0) \in Media /\ SameService(m0, PushRemoteCandidates(m0))
      BY <1>2, PushRemoteCandidatesType, PushRemoteCandidatesServes
    <2> QED
      BY <1>1, <1>2, <2>1 DEF SameService
  <1>4. /\ m4 \in Media /\ m4.local_codecs = m1.local_codecs /\ m4.type = m1.type
        /\ m4.codec_intersect_pending = m1.codec_intersect_pending
        /\ ~m4.push_remote_codecs_pending
        /\ m4.requested_direction = m1.requested_direction
        /\ m4.can_receive = m1.can_receive /\ m4.hold_requested = m1.hold_requested
        /\ m4.local_candidates_prepared = m1.local_candidates_prepared
    <2>1. m1 \in Media
      BY <1>1
    <2> QED
      BY ZenonT(60), <2>1 DEF Media
  <1> HIDE DEF m4
  <1>5. SameService(m4, m5)
    BY <1>4, PushRemoteCodecsServes
  <1> HIDE DEF m2
  <1>6. /\ m3 \in Media /\ m3.local_codecs = m2.local_codecs /\ m3.type = m2.type
        /\ ~m3.codec_intersect_pending
    <2>1. m2 \in Media
      BY <1>3
    <2> QED
      BY ZenonT(60), <2>1 DEF Media
  <1> HIDE DEF m3
  <1>7. SameService(m3, m6)
    BY <1>6, OtherMediaServe
  <1>8. r = IF m1.push_remote_codecs_pending THEN [media |-> m5, signal |-> "none"]
            ELSE IF ~m2.codec_intersect_pending
            THEN [media |-> m2, signal |-> "local-updated"]
            ELSE IF IsReady(m3) THEN [media |-> m6, signal |-> "complete"]
            ELSE [media |-> m3, signal |-> "none"]
    BY Zenon DEF TakeLocalCodecs, m0, m1, m2, m3, m4
  <1> HIDE DEF m5, m6, r
  <1>9. CASE m1.push_remote_codecs_pending
    <2>1. r.media = m5 /\ r.signal = "none"
      BY <1>8, <1>9
    <2>2. Goes(m, m5) /\ Answerable(m5)
      BY <1>1, <1>4, <1>5 DEF SameService, Goes, Answerable, Unhurried
    <2>3. Answerable(m) \/ Unhurried(m) => (IsReady(m5) => IsReady(m))
      BY <1>1, <1>4, <1>5, <1>9 DEF SameService, Answerable, Unhurried, IsReady
    <2> QED
      BY <2>1, <2>2, <2>3 DEF Stirs, r
  <1>10. CASE ~m1.push_remote_codecs_pending /\ ~m2.codec_intersect_pending
    <2>1. r.media = m2 /\ r.signal = "local-updated"
      BY <1>8, <1>10
    <2>2. Goes(m, m2) /\ Answerable(m2)
      BY <1>1, <1>3 DEF SameService, Goes, Answerable, Unhurried
    <2>3. Answerable(m) => (IsReady(m2) => IsReady(m))
      BY <1>1, <1>3, <1>10 DEF SameService, Answerable, IsReady
    <2> QED
      BY <2>1, <2>2, <2>3 DEF Stirs, r
  <1>11. CASE ~m1.push_remote_codecs_pending /\ m2.codec_intersect_pending
    <2>1. \/ r.media = m6 /\ r.signal = "complete"
          \/ r.media = m3 /\ r.signal = "none" /\ ~IsReady(m3)
      BY <1>8, <1>11
    <2>2. Goes(m, m3) /\ Answerable(m3) /\ Goes(m, m6) /\ Answerable(m6)
      BY <1>1, <1>3, <1>6, <1>7, <1>11 DEF SameService, Goes, Answerable, Unhurried
    <2> QED
      BY <2>1, <2>2 DEF Stirs, r
  <1> QED
    BY <1>9, <1>10, <1>11

(* A rejection that is not reported only waits for the next list.          *)
LEMMA CodecsRejectedGoes ==
    ASSUME NEW m \in Media
    PROVE  LET r == CodecsRejected(m)
           IN  /\ Goes(m, r.media)
               /\ r.signal = "none" => /\ Answerable(m) => Answerable(r.media)
                                       /\ IsReady(r.media) => IsReady(m)
  <1> DEFINE m1 == [m EXCEPT !.push_remote_codecs_pending = FALSE]
             m2 == PushRemoteCodecs(m1)
             m3 == [m EXCEPT !.codec_intersect_pending = FALSE]
             r  == CodecsRejected(m)
  <1>1. m1 \in Media /\ Goes(m, m1) /\ (Answerable(m) => Answerable(m1))
    BY DEF Media, Goes, Unhurried, Answerable
  <1>2. IsReady(m1) => IsReady(m)
    BY DEF Media, IsReady
  <1> HIDE DEF m1
  <1>3. SameService(m1, m2)
    BY <1>1, PushRemoteCodecsServes
  <1> HIDE DEF m2
  <1>4. /\ Goes(m, m2) /\ (Answerable(m) => Answerable(m2))
        /\ IsReady(m2) => IsReady(m)
    BY <1>1, <1>2, <1>3 DEF SameService, Goes, Unhurried, Answerable, IsReady
  <1>5. Goes(m, m3)
    BY DEF Media, Goes, Unhurried
  <1>6. \/ r.media = m2 /\ r.signal = "none"
        \/ r.media = m3 /\ r.signal = "failed"
    BY DEF CodecsRejected, m1, m2
  <1> HIDE DEF m3, r
  <1>7. /\ Goes(m, r.media)
        /\ r.signal = "none" => /\ Answerable(m) => Answerable(r.media)
                                /\ IsReady(r.media) => IsReady(m)
    BY <1>4, <1>5, <1>6
  <1> QED
    BY <1>7 DEF r

LEMMA LocalCandidatesPreparedStirs ==
    ASSUME NEW m \in Media
    PROVE  Stirs(m, LocalCandidatesPrepared(m))
  <1> DEFINE m1 == [m EXCEPT !.local_candidates_prepared = TRUE]
  <1>1. /\ LocalCandidatesPrepared(m).media = m1
        /\ LocalCandidatesPrepared(m).signal = IF IsReady(m1) THEN "complete" ELSE "none"
    BY DEF LocalCandidatesPrepared
  <1>2. Goes(m, m1) /\ (Answerable(m) => Answerable(m1))
    BY DEF Media, Goes, Unhurried, Answerable
  <1> HIDE DEF m1
  <1> QED
    BY <1>1, <1>2 DEF Stirs

LEMMA SetCanReceiveStirs ==
    ASSUME NEW m \in Media, NEW can \in BOOLEAN
    PROVE  Stirs(m, SetCanReceive(m, can))
  <1> DEFINE m1 == [m EXCEPT !.can_receive = can]
             m2 == ForgetCodecOffer(m1)
             r  == SetCanReceive(m, can)
  <1>1. \/ r.media = m /\ r.signal = "none"
        \/ r.media = m2 /\ r.signal = "complete"
        \/ r.media = m1 /\ r.signal = "none" /\ ~IsReady(m1)
    <2> HIDE DEF m1, m2
    <2>1. \/ r = [media |-> m, signal |-> "none"]
          \/ r = [media |-> m2, signal |-> "complete"]
          \/ r = [media |-> m1, signal |-> "none"] /\ ~IsReady(m1)
      BY Zenon DEF SetCanReceive, m1, m2
    <2> HIDE DEF r
    <2> QED
      BY <2>1
  <1>2. m1 \in Media
    BY DEF Media
  <1>3. Goes(m, m1) /\ (Answerable(m) => Answerable(m1))
    BY DEF Media, Goes, Unhurried, Answerable
  <1> HIDE DEF m1
  <1>4. SameService(m1, m2)
    BY <1>2, OtherMediaServe DEF ForgetCodecOffer
  <1> HIDE DEF m2, r
  <1>5. Goes(m, m2) /\ (Answerable(m) => Answerable(m2))
    BY <1>3, <1>4 DEF SameService, Goes, Unhurried, Answerable
  <1>6. Goes(m, m)
    BY DEF Goes
  <1> QED
    BY <1>1, <1>3, <1>5, <1>6 DEF Stirs, r

-----------------------------------------------------------------------------
(* What is kept of a session, where k counts the peer's re-INVITEs.        *)

(* The lines of our SDP are those of medias.                               *)
LinesDescribe(s) ==
    /\ s.local_sdp # None
    /\ \A i \in 1..Len(s.local_sdp) :
          s.local_sdp[i] # None =>
             i \in Present(s) /\ s.medias[i].type = s.local_sdp[i].type

AllKnown(s) == \A i \in Present(s) : s.medias[i].local_codecs # None

(* What the medias have, by the time the state says: codecs once an offer  *)
(* of ours went out and until the peer's first re-INVITE, and from there   *)
(* on codecs or a wait for them that the session is told the end of.       *)
Ground(s, k) ==
    /\ s \in Session
    /\ s.nua_op
    /\ s.state = "CREATED" => \A i \in Present(s) : Unhurried(s.medias[i])
    /\ s.state \in Sent => LinesDescribe(s)
    /\ s.state \in Sent \cup {"RESPONSE_RECEIVED", "REINVITE_PENDING"} => AllKnown(s)
    /\ s.state = "ACTIVE" /\ k = 0 => AllKnown(s)
    /\ s.state = "REINVITE_RECEIVED" =>
          k # 0 /\ (k = 1 => \A i \in Present(s) : Answerable(s.medias[i]))

(* No step is left to take that waits for the medias alone.                *)
Awake(s, k) ==
    AllMediaReady(s) =>
        /\ s.state = "CREATED" => s.incoming \/ Present(s) = {}
        /\ s.state = "RESPONSE_RECEIVED" => ~s.accepted
        /\ s.state = "REINVITE_RECEIVED" => k # 1

Alert(s, k) == Ground(s, k) /\ Awake(s, k)

(* The fields of a session that these depend on, but for its medias.       *)
SameCall(s, t) ==
    /\ t.state = s.state
    /\ t.nua_op = s.nua_op
    /\ t.local_sdp = s.local_sdp
    /\ t.incoming = s.incoming
    /\ t.accepted = s.accepted

LEMMA SameMediasAlert ==
    ASSUME NEW s, NEW t \in Session, SameCall(s, t), t.medias = s.medias, NEW k
    PROVE  /\ Ground(s, k) => Ground(t, k)
           /\ Awake(s, k) => Awake(t, k)
  BY DEF SameCall, Ground, Awake, LinesDescribe, AllKnown, AllMediaReady, Present, Slots

(* Some medias go on as they were, the others are gone.                    *)
LEMMA MediasGround ==
    ASSUME NEW s, NEW k, Ground(s, k), NEW t \in Session, SameCall(s, t),
           Present(t) \subseteq Present(s),
           s.state \in Sent => Present(s) \subseteq Present(t),
           \A i \in Present(t) :
              /\ Goes(s.medias[i], t.medias[i])
              /\ s.state = "REINVITE_RECEIVED" =>
                    (Answerable(s.medias[i]) => Answerable(t.medias[i]))
    PROVE  Ground(t, k)
  <1>1. AllKnown(s) => AllKnown(t)
    BY DEF AllKnown, Goes
  <1>2. s.state \in Sent => LinesDescribe(t)
    BY DEF Ground, SameCall, LinesDescribe, Goes
  <1>3. s.state = "CREATED" => \A i \in Present(t) : Unhurried(t.medias[i])
    BY DEF Ground, Goes
  <1> QED
    BY <1>1, <1>2, <1>3 DEF Ground, SameCall

(* A request of ours goes out, or would be the last one again.             *)
LEMMA InviteWakes ==
    ASSUME NEW s, NEW k, Ground(s, k), NEW reinvite \in BOOLEAN,
           s.state \in (IF reinvite THEN {"ACTIVE", "REINVITE_PENDING"} ELSE {"CREATED"})
    PROVE  Alert(Invite(s, reinvite), k)
  <1> DEFINE sdp == SessionSdp(s, TRUE)
             n == s.cli + 1
             state == IF reinvite THEN "REINVITE_SENT" ELSE "INVITE_SENT"
             sent == [[s EXCEPT !.cli = n]
                        EXCEPT !.local_sdp = sdp, !.pending_offer = FALSE, !.state = state]
  <1>1. s \in Session /\ s.nua_op
    BY DEF Ground
  <1>2. Invite(s, reinvite) =
            IF \/ ~s.nua_op
               \/ ~AllMediaReady(s)
               \/ reinvite /\ s.state # "REINVITE_PENDING" /\ s.local_sdp = sdp
            THEN s ELSE sent
    BY Zenon DEF Invite, NuaInvite
  <1>3. ASSUME reinvite \/ ~AllMediaReady(s)
        PROVE  Alert(s, k)
    BY <1>3 DEF Awake, Alert
  <1>4. ASSUME Invite(s, reinvite) = sent, AllMediaReady(s)
        PROVE  Alert(sent, k)
    <2>1. sent \in Session
      BY <1>1, <1>4, InviteType
    <2>2. /\ sent.local_sdp = sdp /\ sent.state = state /\ sent.medias = s.medias
          /\ sent.nua_op = s.nua_op
      <3> HIDE DEF sdp, n, state
      <3> QED
        BY <1>1 DEF Session
    <2> HIDE DEF sent
    <2>3. AllKnown(sent)
      BY <1>4, <2>2, ReadyMedia DEF AllKnown, Present, Slots
    <2>4. LinesDescribe(sent)
      <3>1. sdp # None /\ Len(sdp) = Len(s.medias) /\ Len(s.medias) \in Nat
        BY <1>1, SessionSdpType, LocalLineAssumption, SlotsType DEF SdpLength
      <3>2. ASSUME NEW i \in 1..Len(sdp), sdp[i] # None
            PROVE  i \in Present(s) /\ s.medias[i].type = sdp[i].type
        <4>1. i \in Slots(s) /\ i \in 1..SdpLength(s, TRUE)
          BY <1>1, <3>1, <3>2, SessionSdpType, SlotsType
        <4>2. sdp[i] = IF s.medias[i] = None THEN None ELSE GenerateSdp(s.medias[i], TRUE)
          BY <4>1 DEF SessionSdp
        <4>3. GenerateSdp(s.medias[i], TRUE).type = s.medias[i].type
          BY DEF GenerateSdp
        <4> HIDE DEF sdp
        <4> QED
          BY <3>2, <4>1, <4>2, <4>3 DEF Present
      <3> HIDE DEF sdp
      <3> QED
        BY <2>2, <3>1, <3>2 DEF LinesDescribe, Present, Slots
    <2> QED
      BY <1>1, <2>1, <2>2, <2>3, <2>4 DEF Alert, Ground, Awake, Sent
  <1>5. \/ Invite(s, reinvite) = s /\ (reinvite \/ ~AllMediaReady(s))
        \/ Invite(s, reinvite) = sent /\ AllMediaReady(s)
    BY <1>1, <1>2, Zenon
  <1> HIDE DEF sent
  <1> QED
    BY <1>3, <1>4, <1>5

(* The session gets active, where it has all its codecs or was asked for   *)
(* others.                                                                 *)
LEMMA ActivateWakes ==
    ASSUME NEW s \in Session, s.nua_op, s.state # "ACTIVE", NEW k, AllKnown(s) \/ k # 0
    PROVE  Alert(ChangeState(s, "ACTIVE"), k)
  <1> DEFINE t == [s EXCEPT !.state = "ACTIVE"]
  <1>1. ChangeState(s, "ACTIVE") = IF s.pending_offer THEN Invite(t, TRUE) ELSE t
    <2>1. "ACTIVE" # "ENDED"
      OBVIOUS
    <2> QED
      BY <2>1, Zenon DEF ChangeState
  <1>2. /\ t \in Session /\ t.state = "ACTIVE" /\ t.nua_op = s.nua_op
        /\ t.medias = s.medias
    BY ZenonT(60) DEF Session, SessionState
  <1> HIDE DEF t
  <1>3. Alert(t, k)
    BY <1>2 DEF Alert, Ground, Awake, AllKnown, Present, Slots, Sent
  <1>4. Alert(Invite(t, TRUE), k)
    <2>1. t.state \in (IF TRUE THEN {"ACTIVE", "REINVITE_PENDING"} ELSE {"CREATED"})
      BY <1>2
    <2>2. TRUE \in BOOLEAN
      OBVIOUS
    <2> QED
      BY <1>3, <2>1, <2>2, InviteWakes, Zenon DEF Alert
  <1> QED
    BY <1>1, <1>3, <1>4

(* Our answer goes out with all medias ready.                              *)
LEMMA RespondWakes ==
    ASSUME NEW s, NEW k, Ground(s, k), AllMediaReady(s),
           s.state \in {"INVITE_RECEIVED", "REINVITE_RECEIVED"}
    PROVE  Alert(Respond(s), k)
  <1> DEFINE sdp == SessionSdp(s, FALSE)
             medias == [i \in Slots(s) |->
                          IF s.medias[i] = None \/ i > Len(sdp) THEN s.medias[i]
                          ELSE GeneratedDirection(s.medias[i], FALSE)]
             q == NuaRespond(s)
             bad == q.bad_answer \/ (s.srv = "offer" /\ ~AnswerFits(sdp, s.remote_sdp))
             ack == IF s.srv = "delayed" THEN sdp ELSE q.ack
             s1 == [q EXCEPT !.local_sdp = sdp, !.ack = ack, !.medias = medias,
                             !.bad_answer = bad, !.saved_event = FALSE]
  <1>1. s \in Session /\ s.nua_op
    BY DEF Ground
  <1>2. Answered(s) = s1
    BY Zenon DEF Answered
  <1>3. s1 \in Session
    BY <1>1, <1>2, AnsweredType
  <1>4. q \in Session /\ q.state = s.state /\ q.nua_op = s.nua_op
    <2> DEFINE stray == s.stray_response \/ s.srv = "none"
    <2>1. q = [s EXCEPT !.srv = "none", !.stray_response = stray]
      BY Zenon DEF NuaRespond
    <2>2. q \in Session
      BY <1>1, NuaRespondType
    <2> HIDE DEF stray, q
    <2> QED
      BY <1>1, <2>1, <2>2 DEF Session
  <1>5. s1.state = s.state /\ s1.nua_op = s.nua_op /\ s1.medias = medias
    <2>1. q \in Session
      BY <1>4
    <2>2. s1.state = q.state /\ s1.nua_op = q.nua_op /\ s1.medias = medias
      <3> HIDE DEF sdp, medias, q, bad, ack
      <3> QED
        BY <2>1 DEF Session
    <2> HIDE DEF s1, q
    <2> QED
      BY <1>4, <2>2
  <1> HIDE DEF s1, q
  <1>6. AllKnown(s1)
    <2> SUFFICES ASSUME NEW i \in Present(s1)
                 PROVE  s1.medias[i].local_codecs # None
      BY DEF AllKnown
    <2>1. i \in Slots(s)
      <3>1. Len(medias) = Len(s.medias)
        BY <1>1, SlotsType
      <3> HIDE DEF medias
      <3> QED
        BY <1>5, <3>1 DEF Present, Slots
    <2>2. /\ medias[i] \in {s.medias[i], GeneratedDirection(s.medias[i], FALSE)}
          /\ s.medias[i] = None => medias[i] = None
      BY <2>1
    <2>3. medias[i] # None
      BY <1>5 DEF Present
    <2> HIDE DEF medias
    <2>4. i \in Present(s) /\ s.medias[i] \in Media
      BY <1>1, <2>1, <2>2, <2>3, SlotType DEF Present
    <2>5. SameService(s.medias[i], GeneratedDirection(s.medias[i], FALSE))
      BY <2>4, OtherMediaServe, Zenon DEF GeneratedDirection
    <2>6. s.medias[i].local_codecs # None
      BY <2>4, ReadyMedia
    <2> QED
      BY <1>5, <2>2, <2>5, <2>6 DEF SameService
  <1>7. Respond(s) = ChangeState(s1, "ACTIVE")
    BY <1>1, <1>2, Zenon DEF Respond
  <1> QED
    BY <1>1, <1>3, <1>5, <1>6, <1>7, ActivateWakes

(* The step that every handler ends with leaves nothing to do.             *)
LEMMA RequestResponseStepWakes ==
    ASSUME NEW s, NEW k, Ground(s, k)
    PROVE  Alert(RequestResponseStep(s), k)
  <1>1. s \in Session /\ s.nua_op
    BY DEF Ground
  <1>2. CASE ~AllMediaReady(s)
    <2>1. RequestResponseStep(s) = s
      BY <1>2, Zenon DEF RequestResponseStep
    <2> QED
      BY <1>2, <2>1 DEF Alert, Awake
  <1>3. CASE AllMediaReady(s) /\ s.state = "CREATED"
    <2>1. RequestResponseStep(s) = Invite(s, FALSE)
      BY <1>3, Zenon DEF RequestResponseStep
    <2>2. s.state \in (IF FALSE THEN {"ACTIVE", "REINVITE_PENDING"} ELSE {"CREATED"})
      BY <1>3
    <2>3. FALSE \in BOOLEAN
      OBVIOUS
    <2>4. Alert(Invite(s, FALSE), k)
      BY <2>2, <2>3, InviteWakes, Zenon
    <2> QED
      BY <2>1, <2>4, Zenon
  <1>4. AllMediaReady(s) => ~CodecIntersectPending(s)
    BY DEF AllMediaReady, IsReady, CodecIntersectPending
  <1>5. CASE AllMediaReady(s) /\ s.state = "RESPONSE_RECEIVED"
    <2>1. RequestResponseStep(s) = IF s.accepted THEN ChangeState(s, "ACTIVE") ELSE s
      BY <1>4, <1>5 DEF RequestResponseStep
    <2>2. AllKnown(s)
      BY <1>5 DEF Ground
    <2>3. Alert(ChangeState(s, "ACTIVE"), k)
      BY <1>1, <1>5, <2>2, ActivateWakes
    <2> QED
      BY <1>5, <2>1, <2>3 DEF Alert, Awake
  <1>6. CASE AllMediaReady(s) /\ s.state = "INVITE_RECEIVED"
    <2>1. RequestResponseStep(s) \in {s, Respond(s)}
      BY <1>6 DEF RequestResponseStep
    <2>2. Alert(Respond(s), k)
      BY <1>6, RespondWakes
    <2> QED
      BY <1>6, <2>1, <2>2 DEF Alert, Awake
  <1>7. CASE AllMediaReady(s) /\ s.state = "REINVITE_RECEIVED"
    <2>1. RequestResponseStep(s) = Respond(s)
      BY <1>4, <1>7 DEF RequestResponseStep
    <2> QED
      BY <1>7, <2>1, RespondWakes
  <1>8. CASE AllMediaReady(s) /\ s.state \in {"ACTIVE", "REINVITE_PENDING"}
    <2>1. RequestResponseStep(s) = IF s.pending_offer THEN Invite(s, TRUE) ELSE s
      BY <1>8 DEF RequestResponseStep
    <2>2. s.state \in (IF TRUE THEN {"ACTIVE", "REINVITE_PENDING"} ELSE {"CREATED"})
      BY <1>8
    <2>3. TRUE \in BOOLEAN
      OBVIOUS
    <2>4. Alert(Invite(s, TRUE), k)
      BY <2>2, <2>3, InviteWakes, Zenon
    <2>5. Alert(s, k)
      BY <1>8 DEF Alert, Awake
    <2> QED
      BY <2>1, <2>4, <2>5, Zenon
  <1>9. CASE s.state \in Sent \cup {"ENDED"}
    <2>1. RequestResponseStep(s) = s
      BY <1>9 DEF RequestResponseStep, Sent
    <2> QED
      BY <1>9, <2>1 DEF Alert, Awake, Sent
  <1>10. s.state \in SessionState
    BY <1>1 DEF Session
  <1> QED
    BY <1>2, <1>3, <1>5, <1>6, <1>7, <1>8, <1>9, <1>10 DEF SessionState, Sent

LEMMA AcceptSessionWakes ==
    ASSUME NEW s, NEW k, Alert(s, k)
    PROVE  Alert(AcceptSession(s), k)
  <1> DEFINE t == [s EXCEPT !.accepted = TRUE]
  <1>1. s \in Session /\ t \in Session
    BY DEF Alert, Ground, Session
  <1>2. /\ t.state = s.state /\ t.nua_op = s.nua_op /\ t.local_sdp = s.local_sdp
        /\ t.medias = s.medias
    BY <1>1 DEF Session
  <1>3. AcceptSession(s) = IF s.accepted THEN s ELSE RequestResponseStep(t)
    BY Zenon DEF AcceptSession
  <1> HIDE DEF t
  <1>4. Ground(t, k)
    BY <1>1, <1>2 DEF Alert, Ground, LinesDescribe, AllKnown, Present, Slots
  <1> QED
    BY <1>3, <1>4, RequestResponseStepWakes

(* A change that the session is told of: where it does nothing about it,   *)
(* it had nothing to do before.                                            *)
LEMMA MediaChangedWakes ==
    ASSUME NEW s, NEW k, Ground(s, k),
           s.state \in {"RESPONSE_RECEIVED", "REINVITE_RECEIVED"} => Awake(s, k)
    PROVE  Alert(MediaChanged(s), k)
  <1> DEFINE more == s.pending_offer \/ s.remote_media_count < Len(s.medias)
             t == [s EXCEPT !.pending_offer = more]
             u == [s EXCEPT !.pending_offer = TRUE]
  <1>1. s \in Session /\ s.state \in SessionState
    BY DEF Ground, Session
  <1>2. /\ t \in Session /\ SameCall(s, t) /\ t.medias = s.medias
        /\ u \in Session /\ SameCall(s, u) /\ u.medias = s.medias
    <2>1. more \in BOOLEAN
      BY <1>1 DEF Session
    <2> HIDE DEF more
    <2> QED
      BY ZenonT(60), <1>1, <2>1 DEF Session, SameCall
  <1> HIDE DEF t, u
  <1>3. Awake(s, k) => Alert(s, k) /\ Alert(t, k) /\ Alert(u, k)
    BY <1>2, SameMediasAlert DEF Alert
  <1>4. CASE s.state = "CREATED"
    <2>1. MediaChanged(s) = RequestResponseStep(s)
      BY <1>4 DEF MediaChanged
    <2> QED
      BY <2>1, RequestResponseStepWakes
  <1>5. CASE s.state \in {"INVITE_RECEIVED", "REINVITE_RECEIVED"}
    <2>1. MediaChanged(s) = t
      BY <1>5 DEF MediaChanged, t
    <2>2. Awake(s, k)
      BY <1>5 DEF Awake
    <2> QED
      BY <1>3, <2>1, <2>2
  <1>6. CASE s.state \in {"INVITE_SENT", "REINVITE_SENT", "RESPONSE_RECEIVED"}
    <2>1. MediaChanged(s) = u
      BY <1>6 DEF MediaChanged, u
    <2>2. Awake(s, k)
      BY <1>6 DEF Awake
    <2> QED
      BY <1>3, <2>1, <2>2
  <1>7. CASE s.state \in {"ACTIVE", "REINVITE_PENDING"}
    <2>1. MediaChanged(s) \in {s, u, Invite(s, TRUE)}
      BY <1>7 DEF MediaChanged, u
    <2>2. s.state \in (IF TRUE THEN {"ACTIVE", "REINVITE_PENDING"} ELSE {"CREATED"})
      BY <1>7
    <2>3. TRUE \in BOOLEAN
      OBVIOUS
    <2>4. Alert(Invite(s, TRUE), k)
      BY <2>2, <2>3, InviteWakes, Zenon
    <2>5. Awake(s, k)
      BY <1>7 DEF Awake
    <2> QED
      BY <1>3, <2>1, <2>4, <2>5
  <1>8. CASE s.state = "ENDED"
    <2>1. MediaChanged(s) = s
      BY <1>8 DEF MediaChanged
    <2>2. Awake(s, k)
      BY <1>8 DEF Awake
    <2> QED
      BY <1>3, <2>1, <2>2
  <1> QED
    BY <1>1, <1>4, <1>5, <1>6, <1>7, <1>8 DEF SessionState

(* One slot is given what became of its media, or emptied.                 *)
LEMMA SlotStored ==
    ASSUME NEW s \in Session, NEW i \in Present(s), NEW m \in Slot
    PROVE  LET t == [s EXCEPT !.medias[i] = m]
           IN  /\ t \in Session
               /\ SameCall(s, t)
               /\ Len(t.medias) = Len(s.medias)
               /\ t.medias[i] = m
               /\ \A j \in Slots(s) : j # i => t.medias[j] = s.medias[j]
  <1> DEFINE medias == [s.medias EXCEPT ![i] = m]
             t == [s EXCEPT !.medias = medias]
  <1>1. i \in Slots(s) /\ s.medias \in Seq(Slot)
    BY DEF Present, Session
  <1>2. [s EXCEPT !.medias[i] = m] \in Session
    BY <1>1, SetMediaType
  <1>3. [s EXCEPT !.medias[i] = m] = t
    BY Zenon
  <1>4. /\ Len(medias) = Len(s.medias) /\ medias[i] = m
        /\ \A j \in Slots(s) : j # i => medias[j] = s.medias[j]
    <2>1. DOMAIN s.medias = 1..Len(s.medias)
      BY <1>1, LenProperties
    <2>2. medias \in Seq(Slot) /\ Len(medias) = Len(s.medias)
      BY <1>1, ExceptSeq DEF Slots
    <2> QED
      BY <1>1, <2>1, <2>2 DEF Slots
  <1> HIDE DEF medias
  <1>5. SameCall(s, t) /\ t.medias = medias
    BY DEF Session, SameCall
  <1>6. t \in Session
    BY <1>2, <1>3
  <1> HIDE DEF t
  <1> QED
    BY <1>3, <1>4, <1>5, <1>6

(* The client answers for one media.                                       *)
LEMMA SlotGround ==
    ASSUME NEW s, NEW k, Ground(s, k), NEW i \in Present(s), NEW m \in Media,
           Goes(s.medias[i], m),
           s.state = "REINVITE_RECEIVED" => (Answerable(s.medias[i]) => Answerable(m))
    PROVE  LET t == [s EXCEPT !.medias[i] = m]
           IN  /\ t \in Session /\ Ground(t, k) /\ SameCall(s, t)
               /\ i \in Present(t) /\ Present(t) = Present(s) /\ t.medias[i] = m
               /\ (IsReady(m) => IsReady(s.medias[i])) =>
                     (AllMediaReady(t) => AllMediaReady(s))
  <1> DEFINE t == [s EXCEPT !.medias[i] = m]
  <1>1. s \in Session /\ m \in Slot /\ m # None
    BY MediaAssumption DEF Ground, Slot
  <1>2. /\ t \in Session /\ SameCall(s, t)
        /\ Len(t.medias) = Len(s.medias) /\ t.medias[i] = m
        /\ \A j \in Slots(s) : j # i => t.medias[j] = s.medias[j]
    BY <1>1, SlotStored
  <1> HIDE DEF t
  <1>3. Present(t) = Present(s)
    BY <1>1, <1>2 DEF Present, Slots
  <1>4. Ground(t, k)
    <2>1. ASSUME NEW j \in Present(t)
          PROVE  /\ Goes(s.medias[j], t.medias[j])
                 /\ s.state = "REINVITE_RECEIVED" =>
                       (Answerable(s.medias[j]) => Answerable(t.medias[j]))
      <3>1. t.medias[j] = IF j = i THEN m ELSE s.medias[j]
        BY <1>2, <1>3 DEF Present
      <3>2. Goes(s.medias[j], s.medias[j])
        BY DEF Goes
      <3> QED
        BY <3>1, <3>2
    <2> QED
      BY <1>2, <1>3, <2>1, MediasGround
  <1>5. ASSUME IsReady(m) => IsReady(s.medias[i]), AllMediaReady(t)
        PROVE  AllMediaReady(s)
    <2> SUFFICES ASSUME NEW j \in Present(s)
                 PROVE  IsReady(s.medias[j])
      BY DEF AllMediaReady
    <2>1. IsReady(t.medias[j])
      BY <1>3, <1>5 DEF AllMediaReady
    <2> QED
      BY <1>2, <1>5, <2>1 DEF Present
  <1> QED
    BY <1>2, <1>3, <1>4, <1>5 DEF t

LEMMA HandleSignalWakes ==
    ASSUME NEW s, NEW k, Alert(s, k), NEW i \in Present(s), NEW r \in Result,
           Stirs(s.medias[i], r), r.signal \in {"none", "complete", "local-updated"}
    PROVE  Alert(HandleSignal(s, i, r), k)
  <1> DEFINE t == [s EXCEPT !.medias[i] = r.media]
  <1>1. r.media \in Media /\ Goes(s.medias[i], r.media)
        /\ (Answerable(s.medias[i]) => Answerable(r.media))
    BY DEF Result, Stirs
  <1>2. /\ Ground(t, k) /\ SameCall(s, t) /\ Present(t) = Present(s)
        /\ (IsReady(r.media) => IsReady(s.medias[i])) =>
              (AllMediaReady(t) => AllMediaReady(s))
    BY <1>1, SlotGround DEF Alert
  <1>3. HandleSignal(s, i, r) = CASE r.signal = "complete"      -> RequestResponseStep(t)
                                  [] r.signal = "local-updated" -> MediaChanged(t)
                                  [] OTHER -> t
    BY Zenon DEF HandleSignal
  <1> HIDE DEF t
  <1>4. /\ s.state = "RESPONSE_RECEIVED" => Answerable(s.medias[i])
        /\ s.state = "REINVITE_RECEIVED" /\ k = 1 => Answerable(s.medias[i])
        /\ s.state = "CREATED" => Unhurried(s.medias[i])
    BY DEF Alert, Ground, AllKnown, Answerable
  <1>5. ASSUME AllMediaReady(t) => AllMediaReady(s)
        PROVE  Awake(t, k)
    BY <1>2, <1>5 DEF Alert, Awake, SameCall
  <1>6. CASE r.signal = "complete"
    BY <1>2, <1>3, <1>6, RequestResponseStepWakes
  <1>7. CASE r.signal = "local-updated"
    <2>1. ASSUME s.state \in {"RESPONSE_RECEIVED", "REINVITE_RECEIVED"}
          PROVE  Awake(t, k)
      <3>1. CASE s.state = "REINVITE_RECEIVED" /\ k # 1
        BY <1>2, <3>1 DEF Awake, SameCall
      <3>2. CASE ~(s.state = "REINVITE_RECEIVED" /\ k # 1)
        BY <1>2, <1>4, <1>5, <1>7, <2>1, <3>2 DEF Stirs
      <3> QED
        BY <3>1, <3>2
    <2>2. t.state = s.state
      BY <1>2 DEF SameCall
    <2> QED
      BY <1>2, <1>3, <1>7, <2>1, <2>2, MediaChangedWakes
  <1>8. CASE r.signal = "none"
    <2>1. CASE s.state \in {"CREATED", "RESPONSE_RECEIVED"}
               \/ (s.state = "REINVITE_RECEIVED" /\ k = 1)
      BY <1>2, <1>3, <1>4, <1>5, <1>8, <2>1 DEF Stirs, Alert
    <2>2. CASE ~(s.state \in {"CREATED", "RESPONSE_RECEIVED"}
                 \/ (s.state = "REINVITE_RECEIVED" /\ k = 1))
      BY <1>2, <1>3, <1>8, <2>2 DEF Alert, Awake, SameCall
    <2> QED
      BY <2>1, <2>2
  <1> QED
    BY <1>6, <1>7, <1>8

(* What a step may leave instead of a session that goes on.                *)
AlertOrOver(s, k) == s.aborted # "none" \/ s.state = "ENDED" \/ Alert(s, k)

(* The media whose codecs were rejected is gone.                           *)
LEMMA RemoveMediaGround ==
    ASSUME NEW s, NEW k, Ground(s, k), NEW i \in Present(s), s.state \notin Sent
    PROVE  Ground(RemoveMedia(s, i), k)
  <1> DEFINE t == [s EXCEPT !.medias[i] = None]
  <1>1. s \in Session /\ None \in Slot
    BY DEF Ground, Slot
  <1>2. /\ t \in Session /\ SameCall(s, t)
        /\ Len(t.medias) = Len(s.medias) /\ t.medias[i] = None
        /\ \A j \in Slots(s) : j # i => t.medias[j] = s.medias[j]
    BY <1>1, SlotStored
  <1>3. RemoveMedia(s, i) = t
    BY Zenon DEF RemoveMedia
  <1> HIDE DEF t
  <1>4. ASSUME NEW j \in Present(t)
        PROVE  j \in Present(s) /\ t.medias[j] = s.medias[j]
    BY <1>2 DEF Present, Slots
  <1>5. ASSUME NEW j \in Present(t)
        PROVE  /\ Goes(s.medias[j], t.medias[j])
               /\ Answerable(s.medias[j]) => Answerable(t.medias[j])
    BY <1>4 DEF Goes
  <1> QED
    BY <1>2, <1>3, <1>4, <1>5, MediasGround

(* The return to the SDP before the peer's re-INVITE.                      *)
LEMMA RollbackWakes ==
    ASSUME NEW s \in Session, s.nua_op, s.state = "REINVITE_RECEIVED",
           NEW k, k # 0, NEW junk \in SdpMedia
    PROVE  AlertOrOver(Rollback(s, junk), k)
  <1> DEFINE medias == [i \in Slots(s) |->
                          Rehome(Release(s.medias[i], "current", junk), "backup", "current")]
             s1 == [s EXCEPT !.remote_sdp = s.backup_remote_sdp, !.backup_remote_sdp = None,
                             !.medias = medias]
             s2 == UpdateRemoteMedia(s1, FALSE)
             t == NuaRespond(s2)
             u == [t EXCEPT !.saved_event = FALSE]
  <1>1. s \in Session /\ s.nua_op /\ k # 0
    OBVIOUS
  <1>2. /\ s1 \in Session /\ s1.state = s.state /\ s1.nua_op = s.nua_op
        /\ s1.remote_sdp = s.backup_remote_sdp
    <2>1. medias \in Seq(Slot)
      BY <1>1, ShiftHomesType DEF Home
    <2>2. s.backup_remote_sdp \in Seq(SdpMedia) \cup {None}
      BY <1>1 DEF Session
    <2> HIDE DEF medias
    <2> QED
      BY <1>1, <2>1, <2>2 DEF Session
  <1>3. CASE s.backup_remote_sdp = None
    <2>1. Rollback(s, junk) = Terminate(s1)
      BY <1>3, Zenon DEF Rollback
    <2> HIDE DEF s1
    <2> QED
      BY <1>2, <2>1, TerminateFollows DEF AlertOrOver
  <1>4. CASE s.backup_remote_sdp # None
    <2>1. s1.remote_sdp \in Seq(SdpMedia)
      BY <1>1, <1>2, <1>4 DEF Session
    <2>2. s2 \in Session /\ (s2.aborted # "none" \/ SameRequests(s1, s2))
      <3> HIDE DEF s1
      <3> QED
        BY <1>2, <2>1, UpdateRemoteMediaType, UpdateRemoteMediaSame
    <2>3. /\ u \in Session /\ u.state = s2.state /\ u.nua_op = s2.nua_op
      <3> DEFINE stray == s2.stray_response \/ s2.srv = "none"
      <3>1. t = [s2 EXCEPT !.srv = "none", !.stray_response = stray]
        BY Zenon DEF NuaRespond
      <3>2. t \in Session
        BY <2>2, NuaRespondType
      <3> HIDE DEF s2, stray, t
      <3>3. t.state = s2.state /\ t.nua_op = s2.nua_op
        BY <2>2, <3>1 DEF Session
      <3>4. u \in Session
        BY <3>2, ForgetEventType
      <3>5. u.state = t.state /\ u.nua_op = t.nua_op
        BY <3>2 DEF Session
      <3> QED
        BY <3>3, <3>4, <3>5
    <2>4. Rollback(s, junk) = IF s2.aborted # "none" THEN s2 ELSE ChangeState(u, "ACTIVE")
      BY <1>4, Zenon DEF Rollback
    <2> HIDE DEF s1, s2, t, u
    <2>5. CASE s2.aborted # "none"
      BY <2>4, <2>5 DEF AlertOrOver
    <2>6. CASE s2.aborted = "none"
      <3>1. u.nua_op /\ u.state # "ACTIVE"
        BY <1>1, <1>2, <2>2, <2>3, <2>6 DEF SameRequests
      <3>2. Alert(ChangeState(u, "ACTIVE"), k)
        BY <1>1, <2>3, <3>1, ActivateWakes
      <3> QED
        BY <2>4, <2>6, <3>2 DEF AlertOrOver
    <2> QED
      BY <2>5, <2>6
  <1> QED
    BY <1>3, <1>4

LEMMA NegotiationFailedWakes ==
    ASSUME NEW s, NEW k, Ground(s, k), NEW i \in Present(s), NEW junk \in SdpMedia
    PROVE  AlertOrOver(NegotiationFailed(s, i, junk), k)
  <1> DEFINE t == [s EXCEPT !.aborted = "negotiation"]
  <1>1. s \in Session
    BY DEF Ground
  <1>2. CASE s.state \in {"RESPONSE_RECEIVED", "INVITE_RECEIVED"}
    <2>1. NegotiationFailed(s, i, junk) = RequestResponseStep(RemoveMedia(s, i))
      BY <1>2, Zenon DEF NegotiationFailed
    <2>2. Ground(RemoveMedia(s, i), k)
      BY <1>2, RemoveMediaGround DEF Sent
    <2> QED
      BY <2>1, <2>2, RequestResponseStepWakes DEF AlertOrOver
  <1>3. CASE s.state = "REINVITE_RECEIVED"
    <2>1. NegotiationFailed(s, i, junk) = Rollback(s, junk)
      BY <1>3 DEF NegotiationFailed
    <2>2. s.nua_op /\ k # 0
      BY <1>3 DEF Ground
    <2> QED
      BY <1>1, <1>3, <2>1, <2>2, RollbackWakes
  <1>4. CASE s.state = "ACTIVE"
    <2>1. NegotiationFailed(s, i, junk) = s
      BY <1>4 DEF NegotiationFailed
    <2> QED
      BY <1>4, <2>1 DEF AlertOrOver, Alert, Awake
  <1>5. CASE s.state \notin {"RESPONSE_RECEIVED", "INVITE_RECEIVED", "REINVITE_RECEIVED",
                             "ACTIVE"}
    <2>1. NegotiationFailed(s, i, junk) = t
      BY <1>5 DEF NegotiationFailed
    <2>2. t.aborted = "negotiation"
      BY <1>1 DEF Session
    <2> QED
      BY <2>1, <2>2 DEF AlertOrOver
  <1> QED
    BY <1>2, <1>3, <1>4, <1>5

LEMMA HandleRejectionWakes ==
    ASSUME NEW s, NEW k, Alert(s, k), NEW i \in Present(s), NEW junk \in SdpMedia
    PROVE  AlertOrOver(HandleRejection(s, i, junk), k)
  <1> DEFINE r == CodecsRejected(s.medias[i])
             s1 == [s EXCEPT !.medias[i] = r.media]
             s2 == NegotiationFailed(s1, i, junk)
             m == ForgetCodecOffer(s2.medias[i])
             s3 == [s2 EXCEPT !.medias[i] = m]
  <1>1. s \in Session /\ s.medias[i] \in Media
    BY SlotType DEF Alert, Ground, Present
  <1>2. r \in Result /\ Goes(s.medias[i], r.media)
        /\ (r.signal = "none" => /\ Answerable(s.medias[i]) => Answerable(r.media)
                                 /\ IsReady(r.media) => IsReady(s.medias[i]))
    BY <1>1, CodecsRejectedType, CodecsRejectedGoes
  <1>3. HandleRejection(s, i, junk) =
            IF r.signal = "none" THEN s1
            ELSE IF s2.medias[i] # None /\ s2.medias[i].type = r.media.type THEN s3 ELSE s2
    BY Zenon DEF HandleRejection
  <1> HIDE DEF r
  <1>4. CASE r.signal = "none"
    <2>1. Stirs(s.medias[i], r)
      BY <1>2, <1>4 DEF Stirs
    <2>2. HandleSignal(s, i, r) = s1
      BY <1>4 DEF HandleSignal
    <2>3. Alert(HandleSignal(s, i, r), k)
      BY <1>2, <1>4, <2>1, HandleSignalWakes
    <2> QED
      BY <1>3, <1>4, <2>2, <2>3 DEF AlertOrOver
  <1>5. CASE r.signal # "none"
    <2>1. AlertOrOver(s2, k) /\ s2 \in Session
      <3>1. CASE s.state = "REINVITE_RECEIVED"
        <4>1. /\ s1 \in Session /\ s1.state = s.state /\ s1.nua_op = s.nua_op
              /\ i \in Present(s1)
          <5>1. r.media \in Slot /\ r.media # None
            BY <1>2, MediaAssumption DEF Result, Slot
          <5>2. /\ s1 \in Session /\ SameCall(s, s1)
                /\ Len(s1.medias) = Len(s.medias) /\ s1.medias[i] = r.media
            BY <1>1, <5>1, SlotStored
          <5> HIDE DEF s1
          <5> QED
            BY <5>1, <5>2 DEF SameCall, Present, Slots
        <4> HIDE DEF s1
        <4>2. NegotiationFailed(s1, i, junk) = Rollback(s1, junk)
          BY <3>1, <4>1 DEF NegotiationFailed
        <4>3. Rollback(s1, junk) \in Session
          BY <4>1, RollbackType
        <4>4. s.nua_op /\ k # 0
          BY <3>1 DEF Alert, Ground
        <4> QED
          BY <3>1, <4>1, <4>2, <4>3, <4>4, RollbackWakes
      <3>2. CASE s.state # "REINVITE_RECEIVED"
        <4>1. s1 \in Session /\ Ground(s1, k) /\ i \in Present(s1)
          BY <1>2, <3>2, SlotGround DEF Alert, Result
        <4> HIDE DEF s1
        <4> QED
          BY <4>1, NegotiationFailedWakes, NegotiationFailedType DEF Present
      <3> QED
        BY <3>1, <3>2
    <2>2. ASSUME s2.medias[i] # None, i \in Slots(s2)
          PROVE  AlertOrOver(s3, k)
      <3> HIDE DEF s2
      <3>1. i \in Present(s2) /\ s2.medias[i] \in Media
        BY <2>1, <2>2, SlotType DEF Present
      <3>2. m \in Media /\ SameService(s2.medias[i], m)
        BY <3>1, ForgetCodecOfferType, OtherMediaServe DEF ForgetCodecOffer
      <3>3. /\ Goes(s2.medias[i], m)
            /\ Answerable(m) <=> Answerable(s2.medias[i])
            /\ IsReady(m) <=> IsReady(s2.medias[i])
        BY <3>2, SameServiceGoes
      <3> HIDE DEF m
      <3>4. CASE Alert(s2, k)
        <4>1. /\ Ground(s3, k) /\ SameCall(s2, s3) /\ Present(s3) = Present(s2)
              /\ AllMediaReady(s3) => AllMediaReady(s2)
          BY <3>1, <3>2, <3>3, <3>4, SlotGround DEF Alert
        <4> HIDE DEF s3
        <4> QED
          BY <3>4, <4>1 DEF Alert, AlertOrOver, Awake, SameCall
      <3>5. CASE ~Alert(s2, k)
        <4> DEFINE medias == [s2.medias EXCEPT ![i] = m]
        <4>1. s3 = [s2 EXCEPT !.medias = medias]
          BY Zenon
        <4> HIDE DEF medias, s3
        <4>2. s3.aborted = s2.aborted /\ s3.state = s2.state
          BY <2>1, <4>1 DEF Session
        <4> QED
          BY <2>1, <3>5, <4>2 DEF AlertOrOver
      <3> QED
        BY <3>4, <3>5
    <2>3. ASSUME i \notin Slots(s2)
          PROVE  s3 = s2
      <3> HIDE DEF s2
      <3>1. s2.medias \in Seq(Slot)
        BY <2>1 DEF Session
      <3>2. s2.medias = [s2.medias EXCEPT ![i] = m]
        <4>1. s2.medias \in [Slots(s2) -> Slot]
          BY <3>1, LenProperties DEF Slots
        <4> HIDE DEF m
        <4> QED
          BY <2>3, <4>1
      <3> HIDE DEF m
      <3> QED
        BY <2>1, <3>2 DEF Session
    <2> HIDE DEF s1, s2, s3
    <2> QED
      BY <1>3, <1>5, <2>1, <2>2, <2>3
  <1> QED
    BY <1>4, <1>5

-----------------------------------------------------------------------------
(* The client's steps, but for those that change the call.                 *)

LEMMA ClientSignalsStir ==
    ASSUME session \in Session, NEW i \in Present(session), ClientStep(i),
           ~RejectCodecs(i), ~Use("changes", MaxChanges)
    PROVE  \E r \in Result : /\ Stirs(session.medias[i], r)
                             /\ r.signal \in {"none", "complete", "local-updated"}
                             /\ session' = HandleSignal(session, i, r)
  <1> DEFINE m == session.medias[i]
             Goal == \E r \in Result : /\ Stirs(m, r)
                                       /\ r.signal \in {"none", "complete", "local-updated"}
                                       /\ session' = HandleSignal(session, i, r)
  <1>1. m \in Media
    BY SlotType DEF Present
  <1>2. ASSUME NEW codecs \in LocalCodecs, AcceptCodecs(i, codecs)
        PROVE  Goal
    <2> DEFINE n == m.offers - 1
               first == [m EXCEPT !.initial_offer = FALSE]
               later == [m EXCEPT !.offers = n]
               answered == IF m.initial_offer THEN first ELSE later
    <2>1. m.initial_offer \/ m.offers > 0
      BY <1>2, Zenon DEF AcceptCodecs
    <2>2. answered \in Media /\ SameService(m, answered)
      <3>1. SameService(m, first) /\ SameService(m, later)
        BY <1>1, OtherMediaServe
      <3>2. CASE m.initial_offer
        <4>1. first \in Media
          <5> HIDE DEF m
          <5> QED
            BY <1>1 DEF Media
        <4> HIDE DEF first, later
        <4> QED
          BY <3>1, <3>2, <4>1
      <3>3. CASE ~m.initial_offer
        <4>1. n \in Nat
          <5>1. m.offers \in Nat
            <6> HIDE DEF m
            <6> QED
              BY <1>1 DEF Media
          <5> QED
            BY <2>1, <3>3, <5>1
        <4>2. later \in Media
          <5> HIDE DEF m, n
          <5> QED
            BY <1>1, <4>1 DEF Media
        <4> HIDE DEF first, later
        <4> QED
          BY <3>1, <3>3, <4>2
      <3> QED
        BY <3>2, <3>3
    <2>3. session' = HandleSignal(session, i, TakeLocalCodecs(answered, codecs))
      BY <1>2, Zenon DEF AcceptCodecs
    <2>4. codecs \in CodecLists
      BY SessionAssumption
    <2> HIDE DEF answered
    <2> DEFINE r == TakeLocalCodecs(answered, codecs)
    <2>5. r \in Result /\ Stirs(answered, r)
      BY <2>2, <2>4, TakeLocalCodecsType, TakeLocalCodecsStirs
    <2>6. r.signal \in {"none", "complete", "local-updated"}
      BY <2>5, Zenon DEF TakeLocalCodecs
    <2>7. session' = HandleSignal(session, i, r)
      BY <2>3
    <2> HIDE DEF r
    <2>8. Stirs(m, r)
      BY <2>2, <2>5 DEF Stirs, SameService, Goes, Answerable, Unhurried, IsReady
    <2> QED
      BY <2>5, <2>6, <2>7, <2>8
  <1>3. ASSUME FinishInitialCandidates(i)
        PROVE  Goal
    <2> DEFINE r == LocalCandidatesPrepared(m)
    <2>1. session' = HandleSignal(session, i, r)
      BY <1>3, Zenon DEF FinishInitialCandidates
    <2>2. r \in Result /\ Stirs(m, r)
      BY <1>1, LocalCandidatesPreparedType, LocalCandidatesPreparedStirs
    <2>3. r.signal \in {"none", "complete", "local-updated"}
      BY DEF LocalCandidatesPrepared
    <2> HIDE DEF r
    <2> QED
      BY <2>1, <2>2, <2>3
  <1>4. ASSUME StartReceiving(i) \/ StopReceiving(i)
        PROVE  Goal
    <2>1. PICK can \in BOOLEAN : session' = HandleSignal(session, i, SetCanReceive(m, can))
      BY <1>4, Zenon DEF StartReceiving, StopReceiving
    <2> DEFINE r == SetCanReceive(m, can)
    <2>2. r \in Result /\ Stirs(m, r)
      BY <1>1, SetCanReceiveType, SetCanReceiveStirs
    <2>3. r.signal \in {"none", "complete", "local-updated"}
      <3>1. \/ r = [media |-> m, signal |-> "none"]
            \/ r = [media |-> ForgetCodecOffer([m EXCEPT !.can_receive = can]),
                    signal |-> "complete"]
            \/ r = [media |-> [m EXCEPT !.can_receive = can], signal |-> "none"]
        BY Zenon DEF SetCanReceive
      <3> HIDE DEF r
      <3> QED
        BY <3>1
    <2>4. session' = HandleSignal(session, i, r)
      BY <2>1
    <2> HIDE DEF r
    <2> QED
      BY <2>2, <2>3, <2>4
  <1>5. /\ ~RemoveContent(i)
        /\ \A codecs \in LocalCodecs : ~UpdateCodecs(i, codecs)
        /\ \A direction \in Directions : ~RequestDirection(i, direction)
    BY Zenon DEF RemoveContent, UpdateCodecs, RequestDirection
  <1> QED
    BY <1>2, <1>3, <1>4, <1>5, Zenon DEF ClientStep

LEMMA RejectCodecsWakes ==
    ASSUME NEW k, Alert(session, k), NEW i \in Present(session), RejectCodecs(i)
    PROVE  AlertOrOver(session', k)
  <1> DEFINE m == session.medias[i]
             n == m.offers - 1
             rest == [m EXCEPT !.offers = n]
             s == [session EXCEPT !.medias[i] = rest]
  <1>1. session \in Session /\ m \in Media
    BY SlotType DEF Alert, Ground, Present
  <1>2. n \in Nat
    <2>1. m.offers \in Nat
      <3> HIDE DEF m
      <3> QED
        BY <1>1 DEF Media
    <2>2. m.offers > 0
      BY Zenon DEF RejectCodecs
    <2> QED
      BY <2>1, <2>2
  <1>3. rest \in Media /\ SameService(m, rest)
    <2>1. rest \in Media
      <3> HIDE DEF m, n
      <3> QED
        BY <1>1, <1>2 DEF Media
    <2>2. SameService(m, rest)
      BY <1>1, OtherMediaServe
    <2> QED
      BY <2>1, <2>2
  <1>4. PICK junk \in Lines : session' = HandleRejection(s, i, junk)
    <2>1. \E junk \in Lines :
             session' = HandleRejection([session EXCEPT !.medias[i].offers = @ - 1], i, junk)
      BY Zenon DEF RejectCodecs
    <2>2. [session EXCEPT !.medias[i].offers = @ - 1] = s
      OBVIOUS
    <2> QED
      BY <2>1, <2>2, Zenon
  <1>5. junk \in SdpMedia
    BY SessionAssumption
  <1> HIDE DEF rest
  <1>6. Alert(s, k) /\ i \in Present(s)
    <2>1. /\ Goes(m, rest)
          /\ Answerable(rest) <=> Answerable(m)
          /\ IsReady(rest) <=> IsReady(m)
      BY <1>3, SameServiceGoes
    <2>2. /\ Ground(s, k) /\ SameCall(session, s)
          /\ i \in Present(s) /\ Present(s) = Present(session)
          /\ AllMediaReady(s) => AllMediaReady(session)
      BY <1>3, <2>1, SlotGround DEF Alert
    <2> HIDE DEF s
    <2> QED
      BY <2>2 DEF Alert, Awake, SameCall
  <1> HIDE DEF s
  <1> QED
    BY <1>4, <1>5, <1>6, HandleRejectionWakes

LEMMA ClientStepWakes ==
    ASSUME NEW k, Alert(session, k), NEW i \in Present(session), ClientStep(i),
           ~Use("changes", MaxChanges)
    PROVE  AlertOrOver(session', k)
  <1>1. CASE RejectCodecs(i)
    BY <1>1, RejectCodecsWakes
  <1>2. CASE ~RejectCodecs(i)
    <2>1. PICK r \in Result : /\ Stirs(session.medias[i], r)
                              /\ r.signal \in {"none", "complete", "local-updated"}
                              /\ session' = HandleSignal(session, i, r)
      BY <1>2, ClientSignalsStir DEF Alert, Ground
    <2> QED
      BY <2>1, HandleSignalWakes DEF AlertOrOver
  <1> QED
    BY <1>1, <1>2

(* The call is taken, or hung up.                                          *)
LEMMA CallStepWakes ==
    ASSUME NEW k, Alert(session, k), CallStep, ~Use("changes", MaxChanges)
    PROVE  AlertOrOver(session', k)
  <1>1. session \in Session
    BY DEF Alert, Ground
  <1>2. Accept \/ Hangup
    BY Zenon DEF CallStep, AddContent, RequestHold, ReleaseHold
  <1>3. CASE Accept
    <2>1. session' = AcceptSession(session)
      BY <1>3, Zenon DEF Accept
    <2> QED
      BY <2>1, AcceptSessionWakes DEF AlertOrOver
  <1>4. CASE Hangup
    <2>1. session' = Terminate(session)
      BY <1>4, Zenon DEF Hangup
    <2> QED
      BY <1>1, <2>1, TerminateFollows DEF AlertOrOver
  <1> QED
    BY <1>2, <1>3, <1>4

-----------------------------------------------------------------------------
(* The peer's SDP: a line keeps what the media has, and one of a re-INVITE *)
(* makes a media without codecs known as waiting for them.                 *)

LEMMA SetRemoteMediaAnswerable ==
    ASSUME NEW m \in Media, NEW line \in SdpMedia, NEW authoritative \in BOOLEAN
    PROVE  LET p == SetRemoteMedia(m, line, authoritative)
           IN  /\ p.type = m.type
               /\ p.local_codecs = m.local_codecs
               /\ m.codec_intersect_pending => p.codec_intersect_pending
               /\ authoritative /\ m.remote_media = None => p.codec_intersect_pending
  <1> DEFINE old == m.remote_media
             m1 == [m EXCEPT !.remote_media = line, !.home = "current"]
             a0 == [m1 EXCEPT !.push_candidates_on_new_codecs = TRUE]
             a1 == [m1 EXCEPT !.push_candidates_on_new_codecs = TRUE, !.remote_candidates = None]
             a2 == PushRemoteCandidates(m1)
             t == TakeRemoteTransport(m1, old, line)
             intersect == t.codec_intersect_pending \/ authoritative
             c1 == [t EXCEPT !.codec_intersect_pending = intersect]
             c2 == PushRemoteCodecs(c1)
             c3 == [c1 EXCEPT !.push_remote_codecs_pending = TRUE]
             c == TakeRemoteCodecs(t, old, line, authoritative)
             m2 == IF old = line THEN m1 ELSE c
             direction == NewDirection(m, line, authoritative)
             p == [m2 EXCEPT !.direction = direction]
  <1>1. m1 \in Media
    BY DEF Media, Home
  <1>2. SameService(m, m1)
    BY DEF Media, SameService
  <1> HIDE DEF m1
  <1>3. a0 \in Media /\ SameService(m1, a0)
    BY <1>1, OtherMediaServe DEF Media
  <1>4. SameService(m1, a1)
    <2>1. a1 = [a0 EXCEPT !.remote_candidates = None]
      BY Zenon
    <2> HIDE DEF a0, a1
    <2>2. SameService(a0, a1)
      BY <1>3, <2>1, OtherMediaServe
    <2> QED
      BY <1>3, <2>2 DEF SameService
  <1>5. SameService(m1, a2)
    BY <1>1, PushRemoteCandidatesServes
  <1>6. t \in Media /\ SameService(m1, t)
    <2>1. t \in {m1, a1, a2}
      BY Zenon DEF TakeRemoteTransport
    <2>2. t \in Media
      BY <1>1, TakeRemoteTransportType
    <2> HIDE DEF t, a1, a2
    <2> QED
      BY <1>4, <1>5, <2>1, <2>2 DEF SameService
  <1> HIDE DEF t
  <1>7. /\ c1 \in Media /\ c1.type = t.type /\ c1.local_codecs = t.local_codecs
        /\ c1.codec_intersect_pending = (t.codec_intersect_pending \/ authoritative)
    <2>1. intersect \in BOOLEAN
      OBVIOUS
    <2>2. t \in Media
      BY <1>6
    <2>3. intersect = (t.codec_intersect_pending \/ authoritative)
      OBVIOUS
    <2> HIDE DEF intersect
    <2>4. /\ c1 \in Media /\ c1.type = t.type /\ c1.local_codecs = t.local_codecs
          /\ c1.codec_intersect_pending = intersect
      BY <2>1, <2>2 DEF Media
    <2> QED
      BY <2>3, <2>4
  <1>8. c \in {c2, c3} \/ (c = t /\ ~CodecsChanged(old, line))
    <2> HIDE DEF c1, c2, c3
    <2> QED
      BY Zenon DEF TakeRemoteCodecs, c1, c2, c3
  <1> HIDE DEF c1, c
  <1>9. SameService(c1, c2)
    BY <1>7, PushRemoteCodecsServes
  <1>10. /\ c3.type = c1.type /\ c3.local_codecs = c1.local_codecs
         /\ c3.codec_intersect_pending = c1.codec_intersect_pending
    BY <1>7 DEF Media
  <1> HIDE DEF c2, c3
  <1>11. m2 \in Media
    <2>1. c \in Media
      BY <1>6, TakeRemoteCodecsType DEF c
    <2> QED
      BY <1>1, <2>1
  <1>12. old = None => CodecsChanged(old, line) /\ old # line
    BY MediaAssumption DEF CodecsChanged
  <1>13. /\ m2.type = m.type /\ m2.local_codecs = m.local_codecs
         /\ m.codec_intersect_pending => m2.codec_intersect_pending
         /\ authoritative /\ old = None => m2.codec_intersect_pending
    <2>1. m2 = IF old = line THEN m1 ELSE c
      OBVIOUS
    <2> HIDE DEF m2, old
    <2> QED
      BY <1>2, <1>6, <1>7, <1>8, <1>9, <1>10, <1>12, <2>1 DEF SameService
  <1> HIDE DEF m2, direction
  <1>14. SameService(m2, p)
    BY <1>11, OtherMediaServe
  <1>15. SetRemoteMedia(m, line, authoritative) = p
    BY Zenon DEF SetRemoteMedia, m1, m2, t, c, direction
  <1> HIDE DEF p
  <1> QED
    BY <1>13, <1>14, <1>15 DEF SameService

(* The line is one that the session can take.                              *)
Taken(line) == AcceptableRemoteMedia(line) /\ line.type \in SupportedType

LEMMA UpdatedSlotAnswerable ==
    ASSUME NEW s \in Session, NEW i \in Nat \ {0}, NEW line \in SdpMedia,
           NEW authoritative \in BOOLEAN, UpdatedSlot(s, i, line, authoritative) # None
    PROVE  LET p == UpdatedSlot(s, i, line, authoritative)
               kept == i \in Present(s) /\ s.medias[i].type = line.type
           IN  /\ Taken(line)
               /\ kept => p.local_codecs = s.medias[i].local_codecs
               /\ kept /\ Answerable(s.medias[i]) => Answerable(p)
               /\ ~kept /\ authoritative => Answerable(p)
  <1> DEFINE kept == i <= Len(s.medias) /\ s.medias[i] # None /\ s.medias[i].type = line.type
             direction == DirectionFromRemoteMedia(line) \cap {"RECEIVE"}
             new == NewMedia(line.type, direction, FALSE, s.hold_requested)
             m == IF kept THEN s.medias[i] ELSE new
             p == SetRemoteMedia(m, line, authoritative)
  <1>1. UpdatedSlot(s, i, line, authoritative) = IF Taken(line) THEN p ELSE None
    BY Zenon DEF UpdatedSlot, Taken
  <1>2. UpdatedSlot(s, i, line, authoritative) = p /\ Taken(line)
    BY <1>1, Zenon
  <1>3. kept <=> i \in Present(s) /\ s.medias[i].type = line.type
    BY SlotsType DEF Present
  <1>4. kept => s.medias[i] \in Media
    BY <1>3, SlotType DEF Present
  <1>5. new \in Media /\ new.remote_media = None
    <2>1. s.hold_requested \in BOOLEAN
      BY DEF Session
    <2>2. direction \in SUBSET Direction
      BY LineDirection
    <2> HIDE DEF direction
    <2>3. new \in Media
      BY <1>2, <2>1, <2>2, NewMediaType DEF Taken
    <2>4. new.remote_media = None
      BY DEF NewMedia
    <2> QED
      BY <2>3, <2>4
  <1> HIDE DEF new
  <1>6. /\ m \in Media
        /\ kept => m = s.medias[i]
        /\ ~kept => m.remote_media = None
    <2> HIDE DEF kept
    <2> QED
      BY <1>4, <1>5
  <1> HIDE DEF m
  <1>7. /\ p.local_codecs = m.local_codecs
        /\ m.codec_intersect_pending => p.codec_intersect_pending
        /\ authoritative /\ m.remote_media = None => p.codec_intersect_pending
    BY <1>6, SetRemoteMediaAnswerable
  <1> HIDE DEF p, kept
  <1>8. /\ kept => p.local_codecs = s.medias[i].local_codecs
        /\ kept /\ Answerable(s.medias[i]) => Answerable(p)
        /\ ~kept /\ authoritative => Answerable(p)
    BY <1>6, <1>7 DEF Answerable
  <1> QED
    BY <1>2, <1>3, <1>8, Zenon

(* Keeping the memory of an SDP changes nothing that a media is used for,  *)
(* and takes no media away.                                                *)
LEMMA ShiftStays ==
    ASSUME NEW m \in Media, NEW junk \in SdpMedia,
           NEW old \in Home, NEW from \in Home, NEW to \in Home
    PROVE  LET p == Rehome(Release(m, old, junk), from, to)
           IN  p # None /\ SameService(m, p)
  <1> DEFINE r == [m EXCEPT !.home = "freed", !.remote_media = junk]
             rt == [r EXCEPT !.home = to]
             mt == [m EXCEPT !.home = to]
             p == Rehome(Release(m, old, junk), from, to)
  <1>1. p \in {m, r, rt, mt}
    BY Zenon DEF Rehome, Release
  <1>2. m \in Media /\ r \in Media /\ mt \in Media /\ rt \in Media
    <2>1. m \in Media /\ r \in Media /\ mt \in Media
      BY DEF Media, Home
    <2> HIDE DEF r
    <2>2. rt \in Media
      BY <2>1 DEF Media
    <2> QED
      BY <2>1, <2>2
  <1>3. p # None
    <2> HIDE DEF p, r, rt, mt
    <2> QED
      BY <1>1, <1>2, MediaAssumption
  <1>4. m \in Slot
    BY DEF Slot
  <1>5. SameService(m, p)
    BY <1>3, <1>4, ShiftServes
  <1> HIDE DEF p
  <1> QED
    BY <1>3, <1>5 DEF p

LEMMA StoreRemoteSdpGround ==
    ASSUME NEW s, NEW k, Ground(s, k), s.state \notin Sent,
           NEW sdp \in Seq(SdpMedia), NEW junk \in SdpMedia
    PROVE  LET t == StoreRemoteSdp(s, sdp, junk)
           IN  /\ Ground(t, k) /\ t.state = s.state /\ t.remote_sdp = sdp
               /\ \A i \in Present(s) : i \in Present(t) /\ t.medias[i].type = s.medias[i].type
  <1> DEFINE medias == [i \in Slots(s) |->
                          Rehome(Release(s.medias[i], "backup", junk), "current", "backup")]
             t == [s EXCEPT !.backup_remote_sdp = s.remote_sdp, !.remote_sdp = sdp,
                            !.medias = medias]
  <1>1. s \in Session /\ Len(s.medias) \in Nat /\ Slots(s) = 1..Len(s.medias)
    BY SlotsType DEF Ground
  <1>2. StoreRemoteSdp(s, sdp, junk) = t
    BY Zenon DEF StoreRemoteSdp
  <1>3. t \in Session
    <2>1. StoreRemoteSdp(s, sdp, junk) \in Session
      BY <1>1, StoreRemoteSdpType
    <2> QED
      BY <1>2, <2>1, Zenon
  <1>4. t.medias = medias /\ t.remote_sdp = sdp /\ SameCall(s, t)
    <2> HIDE DEF medias
    <2> QED
      BY <1>1 DEF Session, SameCall
  <1> HIDE DEF t
  <1>5. Len(medias) = Len(s.medias)
    BY <1>1
  <1>6. ASSUME NEW i \in Present(s)
        PROVE  medias[i] # None /\ SameService(s.medias[i], medias[i])
    <2>1. s.medias[i] \in Media /\ i \in Slots(s)
      BY <1>1, SlotType DEF Present
    <2>2. medias[i] = Rehome(Release(s.medias[i], "backup", junk), "current", "backup")
      BY <2>1
    <2> HIDE DEF medias
    <2> QED
      BY <2>1, <2>2, ShiftStays DEF Home
  <1>7. ASSUME NEW i \in Slots(s), s.medias[i] = None
        PROVE  medias[i] = None
    BY <1>7 DEF Release, Rehome
  <1> HIDE DEF medias
  <1>8. Present(t) = Present(s)
    BY <1>1, <1>4, <1>5, <1>6, <1>7 DEF Present, Slots
  <1>9. ASSUME NEW i \in Present(t)
        PROVE  SameService(s.medias[i], t.medias[i])
    BY <1>4, <1>6, <1>8
  <1>10. ASSUME NEW i \in Present(t)
         PROVE  /\ Goes(s.medias[i], t.medias[i])
                /\ Answerable(t.medias[i]) <=> Answerable(s.medias[i])
    BY <1>9, SameServiceGoes
  <1>11. Ground(t, k)
    BY <1>3, <1>4, <1>8, <1>10, MediasGround
  <1> QED
    BY <1>2, <1>4, <1>8, <1>9, <1>11 DEF SameCall, SameService

(* The peer's SDP makes of each slot what its line says, and leaves or     *)
(* empties the slots beyond its lines.                                     *)
LEMMA UpdatedMedias ==
    ASSUME NEW s \in Session, s.remote_sdp \in Seq(SdpMedia), NEW authoritative \in BOOLEAN,
           UpdateRemoteMedia(s, authoritative).aborted = "none",
           NEW i \in Present(UpdateRemoteMedia(s, authoritative))
    PROVE  LET p == UpdateRemoteMedia(s, authoritative).medias[i]
               line == s.remote_sdp[i]
           IN  /\ i \in Nat \ {0}
               /\ \/ /\ i \in 1..Len(s.remote_sdp)
                     /\ p = UpdatedSlot(s, i, line, authoritative)
                  \/ i \in Present(s) /\ p = s.medias[i]
  <1> DEFINE n == Len(s.remote_sdp)
             top == Max2(n, Len(s.medias))
             medias == [j \in 1..top |->
                          IF j <= n THEN UpdatedSlot(s, j, s.remote_sdp[j], authoritative)
                          ELSE IF s.pending_offer THEN s.medias[j] ELSE None]
             stale == s.stale_read \/ \E j \in Present(s) :
                        /\ j <= n
                        /\ AcceptableRemoteMedia(s.remote_sdp[j])
                        /\ s.medias[j].type = s.remote_sdp[j].type
                        /\ s.medias[j].home = "freed"
             s1 == [s EXCEPT !.medias = medias, !.stale_read = stale]
             held == RemotelyHeld(s1)
             s2 == [s1 EXCEPT !.remote_held = held]
             t == UpdateRemoteMedia(s, authoritative)
  <1>1. t \in {s1, s2, [s EXCEPT !.aborted = "slot"]}
    BY Zenon DEF UpdateRemoteMedia
  <1>2. t \in {s1, s2}
    <2>1. [s EXCEPT !.aborted = "slot"].aborted # "none"
      BY DEF Session
    <2> HIDE DEF s1, s2
    <2> QED
      BY <1>1, <2>1
  <1>3. t.medias = medias
    <2>1. s1.medias = medias /\ s2.medias = medias
      <3> HIDE DEF medias, stale, held
      <3> QED
        BY DEF Session
    <2> HIDE DEF s1, s2, medias, t
    <2> QED
      BY <1>2, <2>1
  <1>4. /\ n \in Nat /\ Len(s.medias) \in Nat /\ top \in Nat
        /\ top = n \/ top = Len(s.medias)
    <2>1. n \in Nat /\ Len(s.medias) \in Nat
      BY LenProperties, SlotsType
    <2> QED
      BY <2>1 DEF Max2
  <1>5. i \in 1..top /\ medias[i] # None
    <2>1. t.medias \in Seq(Slot)
      BY UpdateRemoteMediaType DEF Session
    <2>2. i \in Slots(t) /\ t.medias[i] # None
      BY DEF Present
    <2>3. DOMAIN t.medias = 1..Len(t.medias)
      BY <2>1, LenProperties
    <2>4. DOMAIN medias = 1..top
      OBVIOUS
    <2> HIDE DEF t, medias, top
    <2> QED
      BY <1>3, <2>2, <2>3, <2>4 DEF Slots
  <1>6. \/ i <= n /\ medias[i] = UpdatedSlot(s, i, s.remote_sdp[i], authoritative)
        \/ ~(i <= n) /\ medias[i] = s.medias[i]
    <2>1. medias[i] = IF i <= n THEN UpdatedSlot(s, i, s.remote_sdp[i], authoritative)
                      ELSE IF s.pending_offer THEN s.medias[i] ELSE None
      BY <1>5
    <2> HIDE DEF medias
    <2> QED
      BY <1>5, <2>1
  <1> HIDE DEF medias, t
  <1>7. ~(i <= n) => i \in 1..Len(s.medias)
    BY <1>4, <1>5
  <1>8. i \in Nat \ {0} /\ (i <= n => i \in 1..n)
    BY <1>4, <1>5
  <1> QED
    BY <1>3, <1>5, <1>6, <1>7, <1>8 DEF t, Present, Slots

(* Every line that the session can take is for one of its medias.          *)
LinesKnown(s, sdp) ==
    \A i \in 1..Len(sdp) :
       Taken(sdp[i]) => i \in Present(s) /\ s.medias[i].type = sdp[i].type

LEMMA UpdateRemoteMediaGround ==
    ASSUME NEW s, NEW k, Ground(s, k), s.remote_sdp \in Seq(SdpMedia),
           s.state \in {"RESPONSE_RECEIVED", "REINVITE_RECEIVED"},
           s.state = "RESPONSE_RECEIVED" => LinesKnown(s, s.remote_sdp),
           NEW authoritative, authoritative = (s.state = "REINVITE_RECEIVED")
    PROVE  LET t == UpdateRemoteMedia(s, authoritative)
           IN  t \in Session /\ (t.aborted # "none" \/ Ground(t, k))
  <1> DEFINE t == UpdateRemoteMedia(s, authoritative)
  <1>1. s \in Session /\ authoritative \in BOOLEAN
    BY DEF Ground
  <1>2. t \in Session /\ (t.aborted # "none" \/ SameRequests(s, t))
    BY <1>1, UpdateRemoteMediaType, UpdateRemoteMediaSame
  <1>3. ASSUME t.aborted = "none", NEW i \in Present(t)
        PROVE  /\ s.state = "RESPONSE_RECEIVED" => t.medias[i].local_codecs # None
               /\ s.state = "REINVITE_RECEIVED" /\ k = 1 => Answerable(t.medias[i])
    <2> DEFINE line == s.remote_sdp[i]
               p == UpdatedSlot(s, i, line, authoritative)
    <2>1. /\ i \in Nat \ {0}
          /\ \/ i \in 1..Len(s.remote_sdp) /\ t.medias[i] = p
             \/ i \in Present(s) /\ t.medias[i] = s.medias[i]
      BY <1>1, <1>3, UpdatedMedias
    <2>2. t.medias[i] # None
      BY <1>3 DEF Present
    <2> HIDE DEF t
    <2>3. CASE i \in 1..Len(s.remote_sdp) /\ t.medias[i] = p
      <3>1. line \in SdpMedia
        BY <2>3, ElementOfSeq
      <3>2. LET kept == i \in Present(s) /\ s.medias[i].type = line.type
            IN  /\ Taken(line)
                /\ kept => p.local_codecs = s.medias[i].local_codecs
                /\ kept /\ Answerable(s.medias[i]) => Answerable(p)
                /\ ~kept /\ authoritative => Answerable(p)
        BY <1>1, <2>1, <2>2, <2>3, <3>1, UpdatedSlotAnswerable
      <3> HIDE DEF p
      <3> QED
        BY <2>3, <3>2 DEF LinesKnown, Ground, AllKnown
    <2>4. CASE i \in Present(s) /\ t.medias[i] = s.medias[i]
      BY <2>4 DEF Ground, AllKnown
    <2> QED
      BY <2>1, <2>3, <2>4
  <1> HIDE DEF t
  <1>4. ASSUME t.aborted = "none"
        PROVE  Ground(t, k)
    <2>1. t.state = s.state /\ t.nua_op = s.nua_op
      BY <1>2, <1>4 DEF SameRequests
    <2> QED
      BY <1>2, <1>3, <1>4, <2>1 DEF Ground, AllKnown, Sent
  <1> QED
    BY <1>2, <1>4 DEF t

(* The answer to our offer, or a re-INVITE.                                *)
LEMMA SetRemoteSdpWakes ==
    ASSUME NEW s, NEW k, NEW sdp \in Seq(SdpMedia), NEW junk \in SdpMedia,
           NEW s1, s1 = Arrived(s, sdp), Ground(s1, k),
           s1.state \in {"RESPONSE_RECEIVED", "REINVITE_RECEIVED"},
           s1.state = "RESPONSE_RECEIVED" => LinesKnown(s1, sdp)
    PROVE  LET r == SetRemoteSdp(s, sdp, junk)
           IN  AlertOrOver(r.session, k) /\ (r.ok => Alert(r.session, k))
  <1> DEFINE stored == StoreRemoteSdp(s1, sdp, junk)
             authoritative == s1.state \in {"INVITE_RECEIVED", "REINVITE_RECEIVED"}
             s2 == UpdateRemoteMedia(stored, authoritative)
             supported == HasSupportedMedia(s2)
             q == IF s2.aborted # "none" THEN s2 ELSE Terminate(s2)
             r == SetRemoteSdp(s, sdp, junk)
  <1>1. r = IF s1.remote_sdp = sdp
            THEN [ok |-> TRUE, session |-> RequestResponseStep(s1)]
            ELSE IF s2.aborted # "none" \/ ~supported
            THEN [ok |-> FALSE, session |-> q]
            ELSE [ok |-> TRUE, session |-> RequestResponseStep(s2)]
    BY Zenon DEF SetRemoteSdp, Arrived
  <1>2. authoritative = (s1.state = "REINVITE_RECEIVED")
    OBVIOUS
  <1> HIDE DEF r, supported, authoritative
  <1>3. s2 \in Session /\ (s2.aborted # "none" \/ Ground(s2, k))
    <2>1. /\ Ground(stored, k) /\ stored.state = s1.state /\ stored.remote_sdp = sdp
          /\ \A i \in Present(s1) :
                i \in Present(stored) /\ stored.medias[i].type = s1.medias[i].type
      BY StoreRemoteSdpGround DEF Sent
    <2> HIDE DEF stored
    <2>2. s1.state = "RESPONSE_RECEIVED" => LinesKnown(stored, stored.remote_sdp)
      BY <2>1 DEF LinesKnown
    <2> QED
      BY <1>2, <2>1, <2>2, UpdateRemoteMediaGround
  <1> HIDE DEF s2
  <1>4. Alert(RequestResponseStep(s1), k)
    BY RequestResponseStepWakes
  <1>5. s2.aborted = "none" => Alert(RequestResponseStep(s2), k)
    BY <1>3, RequestResponseStepWakes
  <1>6. AlertOrOver(q, k)
    <2>1. CASE s2.aborted # "none"
      BY <2>1 DEF AlertOrOver
    <2>2. CASE s2.aborted = "none"
      BY <1>3, <2>2, TerminateFollows DEF AlertOrOver
    <2> QED
      BY <2>1, <2>2
  <1> HIDE DEF q
  <1>7. AlertOrOver(r.session, k) /\ (r.ok => Alert(r.session, k))
    <2>1. \/ r = [ok |-> TRUE, session |-> RequestResponseStep(s1)]
          \/ r = [ok |-> FALSE, session |-> q]
          \/ /\ r = [ok |-> TRUE, session |-> RequestResponseStep(s2)]
             /\ s2.aborted = "none"
      BY <1>1, Zenon
    <2>2. CASE r = [ok |-> TRUE, session |-> RequestResponseStep(s1)]
      BY <1>4, <2>2 DEF AlertOrOver
    <2>3. CASE r = [ok |-> FALSE, session |-> q]
      BY <1>6, <2>3
    <2>4. CASE r = [ok |-> TRUE, session |-> RequestResponseStep(s2)] /\ s2.aborted = "none"
      BY <1>5, <2>4 DEF AlertOrOver
    <2> QED
      BY <2>1, <2>2, <2>3, <2>4
  <1> QED
    BY <1>7 DEF r

-----------------------------------------------------------------------------
(* The session's steps, while nobody changes the call.                     *)

(* A line that the peer does not reject answers one that we offered.       *)
LEMMA AnswerLine ==
    ASSUME NEW offer \in Seq(LocalLine), NEW answer \in Answers(offer),
           NEW i \in 1..Len(answer), Taken(answer[i])
    PROVE  /\ i \in 1..Len(offer) /\ offer[i] # None
           /\ answer[i].type = offer[i].type
  <1>1. answer \in Seq(SdpMedia) /\ Len(answer) \in Nat /\ Len(answer) <= Len(offer)
    BY AnswersType, AnswerLength
  <1>2. i \in DOMAIN answer /\ i \in 1..Len(offer)
    <2>1. DOMAIN answer = 1..Len(answer) /\ Len(offer) \in Nat
      BY <1>1, LenProperties
    <2> QED
      BY <1>1, <2>1
  <1>3. answer[i] \in AnswerLines(offer[i])
    BY <1>2 DEF Answers
  <1>4. answer[i] # ZeroPort
    BY SessionAssumption DEF SessionAssumption, Taken, AcceptableRemoteMedia
  <1>5. offer[i] # None
    BY <1>3, <1>4 DEF AnswerLines
  <1>6. PICK line \in Lines :
           /\ line.type = offer[i].type
           /\ answer[i] = [line EXCEPT !.mode = AnswerMode(line, offer[i].dir)]
    BY <1>3, <1>4, <1>5 DEF AnswerLines
  <1>7. answer[i].type = line.type
    <2> DEFINE mode == AnswerMode(line, offer[i].dir)
    <2>1. line \in SdpMedia /\ answer[i] = [line EXCEPT !.mode = mode]
      BY <1>6, SessionAssumption DEF SessionAssumption
    <2> HIDE DEF mode
    <2> QED
      BY <2>1 DEF SdpMedia
  <1> QED
    BY <1>2, <1>5, <1>6, <1>7

(* The answer to the offer that is on its way.                             *)
LEMMA AnswerWakes ==
    ASSUME NEW s, NEW k, Ground(s, k), s.state \in Sent,
           NEW q \in Session, SameCall(s, q), q.medias = s.medias,
           NEW answer \in Answers(s.local_sdp), NEW junk \in SdpMedia
    PROVE  LET r == SetRemoteSdp(q, answer, junk)
           IN  AlertOrOver(r.session, k) /\ (r.ok => Alert(r.session, k))
  <1> DEFINE t == [q EXCEPT !.state = "RESPONSE_RECEIVED"]
  <1>1. Arrived(q, answer) = t
    <2>1. q.state \in {"INVITE_SENT", "REINVITE_SENT"} /\ q.state # "RESPONSE_RECEIVED"
      BY DEF Sent, SameCall
    <2>2. Arrived(q, answer) = ChangeState(q, "RESPONSE_RECEIVED")
      BY <2>1, Zenon DEF Arrived
    <2>3. "RESPONSE_RECEIVED" # "ENDED" /\ "RESPONSE_RECEIVED" # "ACTIVE"
      OBVIOUS
    <2>4. ChangeState(q, "RESPONSE_RECEIVED") = t
      BY <2>1, <2>3, Zenon DEF ChangeState
    <2> QED
      BY <2>2, <2>4, Zenon
  <1>2. /\ t \in Session /\ t.state = "RESPONSE_RECEIVED" /\ t.nua_op = s.nua_op
        /\ t.medias = s.medias
    BY ZenonT(60) DEF Session, SessionState, SameCall
  <1> HIDE DEF t
  <1>3. Ground(t, k) /\ Present(t) = Present(s)
    BY <1>2 DEF Ground, AllKnown, Present, Slots, Sent
  <1>4. s.local_sdp \in Seq(LocalLine)
    BY DEF Ground, LinesDescribe, Session
  <1>5. ASSUME NEW i \in 1..Len(answer), Taken(answer[i])
        PROVE  i \in Present(t) /\ t.medias[i].type = answer[i].type
    <2>1. /\ i \in 1..Len(s.local_sdp) /\ s.local_sdp[i] # None
          /\ answer[i].type = s.local_sdp[i].type
      BY <1>4, <1>5, AnswerLine
    <2> QED
      BY <1>2, <1>3, <2>1 DEF Ground, LinesDescribe
  <1>6. LinesKnown(t, answer)
    BY <1>5 DEF LinesKnown
  <1>7. answer \in Seq(SdpMedia)
    BY <1>4, AnswersType
  <1> QED
    BY <1>1, <1>2, <1>3, <1>6, <1>7, SetRemoteSdpWakes

(* While no ACK brings an answer, our INVITE is the only one.              *)
LEMMA OneOfOurs ==
    ASSUME "delay" \notin PeerMay, session \in Session, Counted(session),
           session.state # "ENDED", session.cli > 0, ~session.early
    PROVE  session.cli = 1 /\ session.state \in Sent /\ session.overtaken = None
  <1>1. session.cli \in Nat
    BY DEF Session
  <1>2. session.overtaken = None
    BY DEF Counted
  <1> QED
    BY <1>1, <1>2 DEF Counted, LeftOpen, Excess

LEMMA FinalCall ==
    ASSUME NEW s \in Session, s.cli = 1
    PROVE  LET q == FinalResponse(s)
           IN  q \in Session /\ SameCall(s, q) /\ q.medias = s.medias
  <1> DEFINE q == [s EXCEPT !.cli = 0, !.overtaken = None]
  <1>1. FinalResponse(s) = q
    BY DEF FinalResponse
  <1>2. SameCall(s, q) /\ q.medias = s.medias
    BY DEF Session, SameCall
  <1>3. FinalResponse(s) \in Session
    BY FinalResponseType
  <1> HIDE DEF q
  <1> QED
    BY <1>1, <1>2, <1>3

LEMMA AnswersWake ==
    ASSUME "delay" \notin PeerMay, NEW k, Alert(session, k), Counted(session),
           session.local_sdp # None, NEW answer \in Answers(InvitedSdp(session)),
           NEW junk \in Lines, ReceiveAnswer(answer, junk) \/ ReceiveEarlyAnswer(answer, junk)
    PROVE  AlertOrOver(session', k)
  <1>1. session \in Session /\ Ground(session, k) /\ junk \in SdpMedia
        /\ session.state # "ENDED" /\ answer \in Answers(session.local_sdp)
    <2>1. session.state # "ENDED"
      BY Zenon DEF ReceiveAnswer, ReceiveEarlyAnswer, Live
    <2>2. session.overtaken = None
      BY <2>1 DEF Counted
    <2> QED
      BY <2>1, <2>2, SessionAssumption DEF Alert, Ground, InvitedSdp
  <1>2. CASE ReceiveAnswer(answer, junk)
    <2> DEFINE q == FinalResponse(session)
               r == SetRemoteSdp(q, answer, junk)
    <2>1. session.cli > 0 /\ ~session.early
      BY <1>2, Zenon DEF ReceiveAnswer
    <2>2. session.cli = 1 /\ session.state \in Sent
      BY <1>1, <2>1, OneOfOurs
    <2>3. session' = Ready(r)
      BY <1>2, Zenon DEF ReceiveAnswer
    <2>4. Ready(r) = IF r.ok THEN AcceptSession(r.session) ELSE r.session
      BY Zenon DEF Ready
    <2>5. q \in Session /\ SameCall(session, q) /\ q.medias = session.medias
      BY <1>1, <2>2, FinalCall
    <2> HIDE DEF q
    <2>6. AlertOrOver(r.session, k) /\ (r.ok => Alert(r.session, k))
      BY <1>1, <2>2, <2>5, AnswerWakes
    <2> HIDE DEF r
    <2> QED
      BY <2>3, <2>4, <2>6, AcceptSessionWakes DEF AlertOrOver
  <1>3. CASE ReceiveEarlyAnswer(answer, junk)
    <2> DEFINE q == [session EXCEPT !.early = TRUE]
               r == SetRemoteSdp(q, answer, junk)
    <2>1. session.state \in Sent
      BY <1>3 DEF ReceiveEarlyAnswer, Sent
    <2>2. session' = r.session
      BY <1>3, Zenon DEF ReceiveEarlyAnswer
    <2>3. q \in Session /\ SameCall(session, q) /\ q.medias = session.medias
      <3>1. q \in Session
        BY <1>1, EarlyType
      <3>2. SameCall(session, q) /\ q.medias = session.medias
        BY <1>1 DEF Session, SameCall
      <3> QED
        BY <3>1, <3>2
    <2> HIDE DEF q
    <2>4. AlertOrOver(r.session, k)
      BY <1>1, <2>1, <2>3, AnswerWakes
    <2> QED
      BY <2>2, <2>4
  <1> QED
    BY <1>2, <1>3

(* The first INVITE leaves the session waiting for the user.               *)
LEMMA FirstInviteWakes ==
    ASSUME session = NewSession(TRUE), NEW offer \in Offers(session), ReceiveInvite(offer),
           session' \in Session, NEW k
    PROVE  AlertOrOver(session', k)
  <1>1. PICK t \in Session :
           /\ t.incoming /\ ~t.accepted /\ ~t.early /\ t.cli = 0
           /\ Follows(t, session')
           /\ \/ t.state = "INVITE_RECEIVED"
              \/ /\ t.state = "CREATED"
                 /\ \/ session'.state = "ENDED"
                    \/ session'.aborted # "none" /\ session'.state = "CREATED"
    BY FirstInviteFollows
  <1>2. CASE session'.state = "INVITE_RECEIVED" /\ session'.aborted = "none"
    <2>1. session'.nua_op
      BY <1>2, FirstInviteMatched DEF MatchedOrAborted, Matched
    <2> QED
      BY <1>2, <2>1 DEF AlertOrOver, Alert, Ground, Awake, Sent
  <1>3. CASE session'.state # "INVITE_RECEIVED" \/ session'.aborted # "none"
    BY <1>1, <1>3 DEF AlertOrOver, Follows, Established
  <1> QED
    BY <1>2, <1>3

(* The peer's re-INVITE finds all codecs known if it is the first.         *)
LEMMA ReinviteWakes ==
    ASSUME NEW k \in Nat, Ground(session, k),
           NEW offer \in Offers(session), NEW junk \in Lines, Reinvite(offer, junk)
    PROVE  AlertOrOver(session', k + 1)
  <1> DEFINE timer == IF session.state = "REINVITE_PENDING" /\ session.glare_timer = "armed"
                      THEN "removed" ELSE session.glare_timer
             s == [session EXCEPT !.srv = "offer", !.saved_event = TRUE,
                                  !.state = "REINVITE_RECEIVED", !.glare_timer = timer]
             n == Len(offer)
             t == [s EXCEPT !.remote_media_count = n]
  <1>1. session \in Session /\ session.nua_op /\ junk \in SdpMedia
        /\ offer \in Seq(SdpMedia)
    BY OffersType, SessionAssumption DEF Ground
  <1>2. session.state \in {"ACTIVE", "RESPONSE_RECEIVED", "REINVITE_PENDING"}
    BY Zenon DEF Reinvite, CanReceiveReinvite
  <1>3. session' = SetRemoteSdp(s, offer, junk).session
    <2>1. session' = SetRemoteSdp(ReceiveReinvite(session, "offer"), offer, junk).session
      BY Zenon DEF Reinvite
    <2>2. ReceiveReinvite(session, "offer") = s
      BY DEF ReceiveReinvite
    <2> QED
      BY <2>1, <2>2, Zenon
  <1>4. /\ s \in Session /\ s.state = "REINVITE_RECEIVED" /\ s.nua_op
        /\ s.medias = session.medias
    <2>1. ReceiveReinvite(session, "offer") \in Session
      BY <1>1, ReceiveReinviteType
    <2>2. s \in Session
      BY <2>1 DEF ReceiveReinvite
    <2> HIDE DEF timer
    <2>3. s.state = "REINVITE_RECEIVED" /\ s.nua_op /\ s.medias = session.medias
      BY <1>1 DEF Session
    <2> QED
      BY <2>2, <2>3
  <1> HIDE DEF s
  <1>5. n \in Nat
    BY <1>1, LenProperties
  <1>6. t = Arrived(s, offer)
    <2>1. s.state \notin {"INVITE_SENT", "REINVITE_SENT"}
      BY <1>4
    <2> QED
      BY <2>1, Zenon DEF Arrived
  <1> HIDE DEF n
  <1>7. t \in Session /\ t.state = "REINVITE_RECEIVED" /\ t.nua_op /\ t.medias = session.medias
    BY <1>4, <1>5 DEF Session
  <1> HIDE DEF t
  <1>8. k + 1 # 0 /\ (k + 1 = 1 => k = 0)
    OBVIOUS
  <1>9. k = 0 => AllKnown(session)
    BY <1>2 DEF Ground
  <1>10. Present(t) = Present(session)
    BY <1>7 DEF Present, Slots
  <1>11. k = 0 => \A i \in Present(t) : Answerable(t.medias[i])
    BY <1>7, <1>9, <1>10 DEF AllKnown, Answerable
  <1>12. Ground(t, k + 1)
    BY <1>7, <1>8, <1>11 DEF Ground, Sent
  <1> QED
    BY <1>1, <1>3, <1>4, <1>6, <1>7, <1>12, SetRemoteSdpWakes

LEMMA FinalAfterEarlyWakes ==
    ASSUME NEW k, Alert(session, k), ReceiveFinalAfterEarly
    PROVE  Alert(session', k)
  <1> DEFINE n == session.cli - 1
             s == [session EXCEPT !.early = FALSE]
             t == [s EXCEPT !.cli = n]
  <1>1. session \in Session /\ session.cli > 0
    BY DEF Alert, Ground, ReceiveFinalAfterEarly
  <1>2. n \in Nat
    BY <1>1 DEF Session
  <1>3. session' = AcceptSession(t)
    BY DEF ReceiveFinalAfterEarly
  <1> HIDE DEF n
  <1>4. s \in Session /\ SameCall(session, s) /\ s.medias = session.medias
    <2>1. s \in Session
      BY <1>1, EarlyType
    <2>2. SameCall(session, s) /\ s.medias = session.medias
      BY <1>1 DEF Session, SameCall
    <2> QED
      BY <2>1, <2>2
  <1> HIDE DEF s
  <1>5. t \in Session /\ SameCall(s, t) /\ t.medias = s.medias
    <2>1. t \in Session
      BY <1>2, <1>4, CountType
    <2>2. SameCall(s, t) /\ t.medias = s.medias
      BY <1>4 DEF Session, SameCall
    <2> QED
      BY <2>1, <2>2
  <1> HIDE DEF t
  <1>6. Alert(t, k)
    BY <1>4, <1>5, SameMediasAlert DEF Alert
  <1> QED
    BY <1>3, <1>6, AcceptSessionWakes

LEMMA ResolveGlareWakes ==
    ASSUME "delay" \notin PeerMay, NEW k, Ground(session, k), Counted(session), ResolveGlare
    PROVE  Alert(session', k)
  <1> DEFINE q == FinalResponse(session)
             s == [q EXCEPT !.glare_timer = "armed"]
             t == [s EXCEPT !.state = "REINVITE_PENDING"]
  <1>1. /\ session \in Session /\ ~session.early /\ session.cli > 0
        /\ session.state \notin {"INVITE_SENT", "ENDED"}
    BY Zenon DEF Ground, ResolveGlare, Live
  <1>2. session.cli = 1 /\ session.state = "REINVITE_SENT"
    BY <1>1, OneOfOurs DEF Sent
  <1>3. /\ q \in Session /\ q.state = "REINVITE_SENT" /\ q.nua_op = session.nua_op
        /\ q.medias = session.medias
        /\ session' = ChangeState(s, "REINVITE_PENDING")
    <2>1. session' = IF q.state = "REINVITE_SENT" THEN ChangeState(s, "REINVITE_PENDING") ELSE q
      BY Zenon DEF ResolveGlare
    <2>2. /\ q \in Session /\ q.state = "REINVITE_SENT" /\ q.nua_op = session.nua_op
          /\ q.medias = session.medias
      BY <1>1, <1>2, OnlyFinalResponse, FinalResponseType
    <2> HIDE DEF q
    <2> QED
      BY <2>1, <2>2
  <1> HIDE DEF q
  <1>4. /\ s \in Session /\ s.state = "REINVITE_SENT" /\ s.nua_op = session.nua_op
        /\ s.medias = session.medias
    BY ZenonT(60), <1>3 DEF Session
  <1> HIDE DEF s
  <1>5. session' = t
    <2>1. "REINVITE_PENDING" # "ENDED" /\ "REINVITE_PENDING" # "ACTIVE"
          /\ s.state # "REINVITE_PENDING"
      BY <1>4
    <2> QED
      BY <1>3, <2>1, Zenon DEF ChangeState
  <1>6. /\ t \in Session /\ t.state = "REINVITE_PENDING" /\ t.nua_op = s.nua_op
        /\ t.medias = s.medias
    BY <1>4 DEF Session, SessionState
  <1> HIDE DEF t
  <1>7. Alert(t, k)
    BY <1>1, <1>2, <1>4, <1>6 DEF Alert, Ground, Awake, AllKnown, Present, Slots, Sent
  <1> QED
    BY <1>5, <1>7

LEMMA GlareRetryWakes ==
    ASSUME NEW k, Alert(session, k), GlareRetry
    PROVE  Alert(session', k)
  <1> DEFINE s == IF session.state = "REINVITE_PENDING" THEN Invite(session, TRUE) ELSE session
             t == [s EXCEPT !.glare_timer = "none"]
  <1>1. Alert(s, k)
    <2>1. CASE session.state = "REINVITE_PENDING"
      <3>1. session.state \in (IF TRUE THEN {"ACTIVE", "REINVITE_PENDING"} ELSE {"CREATED"})
        BY <2>1
      <3>2. TRUE \in BOOLEAN /\ Ground(session, k)
        BY DEF Alert
      <3>3. Alert(Invite(session, TRUE), k)
        BY <3>1, <3>2, InviteWakes, Zenon
      <3> QED
        BY <2>1, <3>3, Zenon
    <2>2. CASE session.state # "REINVITE_PENDING"
      BY <2>2, Zenon
    <2> QED
      BY <2>1, <2>2
  <1>2. session' = t
    BY Zenon DEF GlareRetry
  <1> HIDE DEF s
  <1>3. s \in Session
    BY <1>1 DEF Alert, Ground
  <1>4. t \in Session /\ SameCall(s, t) /\ t.medias = s.medias
    BY ZenonT(60), <1>3 DEF Session, SameCall
  <1> HIDE DEF t
  <1> QED
    BY <1>1, <1>2, <1>4, SameMediasAlert DEF Alert

(* The peer's steps, but for its re-INVITEs.                               *)
LEMMA PeerStepWakes ==
    ASSUME "delay" \notin PeerMay, NEW k, Alert(session, k), Counted(session),
           ~(session.incoming /\ session.state = "CREATED"), PeerStep,
           ~ReinviteWithoutOffer,
           \A offer \in Offers(session), junk \in Lines : ~Reinvite(offer, junk)
    PROVE  AlertOrOver(session', k)
  <1>1. session \in Session
    BY DEF Alert, Ground
  <1>2. ASSUME NEW offer \in Offers(session), ReceiveInvite(offer)
        PROVE  FALSE
    BY <1>2, Zenon DEF ReceiveInvite
  <1>3. ASSUME session.local_sdp # None, NEW answer \in Answers(InvitedSdp(session)),
               NEW junk \in Lines, ReceiveAnswer(answer, junk) \/ ReceiveEarlyAnswer(answer, junk)
        PROVE  AlertOrOver(session', k)
    BY <1>3, AnswersWake
  <1>4. ASSUME ReceiveFinalAfterEarly
        PROVE  AlertOrOver(session', k)
    BY <1>4, FinalAfterEarlyWakes DEF AlertOrOver
  <1>5. ASSUME ReceiveTerminated
        PROVE  AlertOrOver(session', k)
    <2>1. session' = ChangeState(session, "ENDED")
      BY <1>5, Zenon DEF ReceiveTerminated
    <2> QED
      BY <1>1, <2>1, EndFollows DEF AlertOrOver
  <1>6. ASSUME ResolveGlare
        PROVE  AlertOrOver(session', k)
    BY <1>6, ResolveGlareWakes DEF AlertOrOver, Alert
  <1>7. ASSUME ReinviteRefused
        PROVE  AlertOrOver(session', k)
    <2> DEFINE s == FinalResponse(session)
    <2>1. session' = Terminate(s) /\ session.cli > 0
      BY <1>7, Zenon DEF ReinviteRefused
    <2>2. s \in Session
      BY <1>1, <2>1, FinalResponseType
    <2> HIDE DEF s
    <2> QED
      BY <2>1, <2>2, TerminateFollows DEF AlertOrOver
  <1>8. ASSUME session.ack # None, NEW answer \in Answers(session.ack), NEW junk \in Lines,
               ReceiveAck(answer, junk)
        PROVE  FALSE
    <2>1. session.state # "ENDED"
      BY <1>8, Zenon DEF ReceiveAck, Live
    <2> QED
      BY <1>8, <2>1 DEF Counted, AckExpected
  <1> QED
    BY <1>2, <1>3, <1>4, <1>5, <1>6, <1>7, <1>8, Zenon DEF PeerStep

(* Changes of the call stay counted, and re-INVITEs of the peer count one  *)
(* by one.                                                                 *)
Reinvited ==
    \/ ReinviteWithoutOffer
    \/ \E offer \in Offers(session), junk \in Lines : Reinvite(offer, junk)

LEMMA ChangesAreCounted ==
    ASSUME TypeOK, Next, used'.changes = 0
    PROVE  /\ used.changes = 0 /\ ~Use("changes", MaxChanges)
           /\ used.offers \in Nat
           /\ used'.offers = IF Reinvited THEN used.offers + 1 ELSE used.offers
  <1>1. used.changes \in Nat /\ used.offers \in Nat
    BY SessionAssumption DEF TypeOK
  <1>2. /\ Use("changes", MaxChanges) => used'.changes = used.changes + 1
        /\ Use("offers", MaxOffers) => /\ used'.changes = used.changes
                                      /\ used'.offers = used.offers + 1
        /\ Use("glares", MaxGlares) \/ UNCHANGED used =>
              /\ used'.changes = used.changes
              /\ used'.offers = used.offers
    BY DEF TypeOK, Use
  <1>3. Reinvited => Use("offers", MaxOffers)
    BY Zenon DEF Reinvited, Reinvite, ReinviteWithoutOffer
  <1>4. ASSUME NEW i \in Present(session), ClientStep(i)
        PROVE  Use("changes", MaxChanges) \/ UNCHANGED used
    BY <1>4, Zenon DEF ClientStep, AcceptCodecs, RejectCodecs, UpdateCodecs,
       FinishInitialCandidates, StartReceiving, StopReceiving, RequestDirection, RemoveContent
  <1>5. ASSUME CallStep
        PROVE  Use("changes", MaxChanges) \/ UNCHANGED used
    BY <1>5, Zenon DEF CallStep, Accept, Hangup, AddContent, RequestHold, ReleaseHold
  <1>6. ASSUME PeerStep
        PROVE  Reinvited \/ Use("glares", MaxGlares) \/ UNCHANGED used
    BY <1>6, Zenon DEF PeerStep, Reinvited, ReceiveInvite, ReceiveAnswer, ReceiveEarlyAnswer,
       ReceiveAck, ReceiveFinalAfterEarly, ReceiveTerminated, ResolveGlare, ReinviteRefused
  <1>7. Reinvited \/ Use("glares", MaxGlares) \/ Use("changes", MaxChanges) \/ UNCHANGED used
    BY <1>4, <1>5, <1>6, Zenon DEF Next, GlareRetry, Finished, vars
  <1>8. used.changes = 0 /\ ~Use("changes", MaxChanges)
    BY <1>1, <1>2, <1>3, <1>7
  <1> QED
    BY <1>1, <1>2, <1>3, <1>7, <1>8

WakeInv ==
    /\ OffersInv
    /\ used.changes = 0 => AlertOrOver(session, used.offers)

LEMMA WakeInvInductive ==
    ASSUME "delay" \notin PeerMay, WakeInv, OffersInv', [Next]_vars
    PROVE  WakeInv'
  <1> SUFFICES ASSUME used'.changes = 0
               PROVE  AlertOrOver(session', used'.offers)
    BY DEF WakeInv
  <1>1. CASE UNCHANGED vars
    BY <1>1 DEF WakeInv, vars
  <1>2. CASE Next
    <2>1. TypeOK /\ session \in Session /\ session' \in Session
      BY DEF WakeInv, OffersInv, RequestsInv, TypeOK
    <2>2. /\ used.changes = 0 /\ ~Use("changes", MaxChanges) /\ used.offers \in Nat
          /\ used'.offers = IF Reinvited THEN used.offers + 1 ELSE used.offers
      BY <1>2, <2>1, ChangesAreCounted
    <2>3. AlertOrOver(session, used.offers)
      BY <2>2 DEF WakeInv
    <2>4. CASE session.aborted # "none"
      <3>1. UNCHANGED vars
        BY <1>2, <2>4, AbortedStays
      <3> QED
        BY <2>4, <3>1 DEF vars, AlertOrOver
    <2>5. CASE session.state = "ENDED"
      BY <1>2, <2>1, <2>5, EndedStays DEF AlertOrOver
    <2>6. CASE session.aborted = "none" /\ session = NewSession(TRUE)
      BY <1>2, <2>1, <2>6, FreshStepIsInvite, FirstInviteWakes
    <2>7. CASE /\ session.aborted = "none" /\ Alert(session, used.offers)
               /\ Matched(session)
      <3>1. ~(session.incoming /\ session.state = "CREATED") /\ Counted(session)
        BY <2>7 DEF Matched, WakeInv, OffersInv
      <3>2. ASSUME NEW offer \in Offers(session), NEW junk \in Lines, Reinvite(offer, junk)
            PROVE  AlertOrOver(session', used'.offers)
        <4>1. Reinvited
          BY <3>2 DEF Reinvited
        <4>2. AlertOrOver(session', used.offers + 1)
          BY <2>2, <2>7, <3>2, ReinviteWakes DEF Alert
        <4> QED
          BY <2>2, <4>1, <4>2
      <3>3. ~ReinviteWithoutOffer
        BY Zenon DEF ReinviteWithoutOffer
      <3>4. CASE ~Reinvited
        <4>1. ASSUME NEW i \in Present(session), ClientStep(i)
              PROVE  AlertOrOver(session', used.offers)
          BY <2>2, <2>7, <4>1, ClientStepWakes
        <4>2. ASSUME CallStep
              PROVE  AlertOrOver(session', used.offers)
          BY <2>2, <2>7, <4>2, CallStepWakes
        <4>3. ASSUME PeerStep
              PROVE  AlertOrOver(session', used.offers)
          BY <2>7, <3>1, <3>4, <4>3, PeerStepWakes DEF Reinvited
        <4>4. ASSUME GlareRetry
              PROVE  AlertOrOver(session', used.offers)
          BY <2>7, <4>4, GlareRetryWakes DEF AlertOrOver
        <4>5. ASSUME Finished
              PROVE  AlertOrOver(session', used.offers)
          BY <2>7, <4>5 DEF Finished, vars, AlertOrOver
        <4> QED
          BY <1>2, <2>2, <3>4, <4>1, <4>2, <4>3, <4>4, <4>5 DEF Next
      <3> QED
        BY <3>2, <3>3, <3>4 DEF Reinvited
    <2> QED
      BY <2>2, <2>3, <2>4, <2>5, <2>6, <2>7
         DEF WakeInv, OffersInv, RequestsInv, AlertOrOver
  <1> QED
    BY <1>1, <1>2

(* A session object comes with medias that are not ready.                  *)
LEMMA NewSessionWakes ==
    ASSUME NEW incoming \in BOOLEAN, NEW k
    PROVE  Alert(NewSession(incoming), k)
  <1> DEFINE s == NewSession(incoming)
             given == [i \in 1..Len(InitialTypes) |->
                         NewMedia(InitialTypes[i], Bidirectional, TRUE, FALSE)]
             medias == IF incoming THEN << >> ELSE given
  <1>1. s \in Session
    BY NewSessionType
  <1>2. s.medias = medias /\ s.incoming = incoming /\ s.state = "CREATED" /\ s.nua_op
    <2> HIDE DEF medias
    <2>1. s.medias = medias
      BY Zenon DEF NewSession, medias
    <2>2. s.incoming = incoming /\ s.state = "CREATED" /\ s.nua_op
      BY DEF NewSession
    <2> QED
      BY <2>1, <2>2
  <1> HIDE DEF s
  <1>3. ASSUME NEW i \in Present(s)
        PROVE  s.medias[i] = NewMedia(InitialTypes[i], Bidirectional, TRUE, FALSE)
    <2>1. CASE incoming
      <3>1. s.medias = << >>
        BY <1>2, <2>1
      <3>2. Slots(s) = 1..0
        BY <3>1, EmptySeq DEF Slots
      <3> QED
        BY <3>2 DEF Present
    <2>2. CASE ~incoming
      <3>1. s.medias = given
        BY <1>2, <2>2
      <3>2. Len(InitialTypes) \in Nat
        BY LenProperties, SessionAssumption DEF SessionAssumption
      <3>3. Len(given) = Len(InitialTypes)
        BY <3>2
      <3>4. i \in 1..Len(InitialTypes)
        <4> HIDE DEF given
        <4> QED
          BY <3>1, <3>3 DEF Present, Slots
      <3> QED
        BY <3>1, <3>4
    <2> QED
      BY <2>1, <2>2
  <1> HIDE DEF medias, given
  <1>4. ASSUME NEW i \in Present(s)
        PROVE  Unhurried(s.medias[i]) /\ ~IsReady(s.medias[i])
    <2> DEFINE m == NewMedia(InitialTypes[i], Bidirectional, TRUE, FALSE)
    <2>1. Unhurried(m) /\ ~IsReady(m)
      BY DEF NewMedia, Unhurried, IsReady
    <2> HIDE DEF m
    <2> QED
      BY <1>3, <2>1 DEF m
  <1>5. Ground(s, k) /\ Awake(s, k)
    BY <1>1, <1>2, <1>4 DEF Ground, Awake, AllMediaReady, Sent
  <1> QED
    BY <1>5 DEF Alert, s

LEMMA InitWakes == Init => WakeInv
  <1> SUFFICES ASSUME Init
               PROVE  WakeInv
    OBVIOUS
  <1>1. OffersInv
    BY InitOffers
  <1>2. PICK incoming \in BOOLEAN : session = NewSession(incoming)
    BY SessionAssumption DEF Init, SessionAssumption
  <1>3. Alert(session, used.offers)
    BY <1>2, NewSessionWakes
  <1> QED
    BY <1>1, <1>3 DEF WakeInv, AlertOrOver

(* A call that nobody changes never waits for its medias alone: whatever   *)
(* order the codecs, the candidates, the receiving streams, the answers,   *)
(* early answers, glares and rejections come in, an outgoing call whose    *)
(* medias are all ready has sent its INVITE, an accepted call has gone on  *)
(* from its answer and the first re-INVITE of the peer has been answered.  *)
(* The peer's re-INVITEs bring an SDP, as the hypothesis says; after one   *)
(* without, it is not so.                                                  *)
THEOREM ReadySessionsGoOn ==
    ASSUME "delay" \notin PeerMay
    PROVE  Spec => []ReadySessionGoesOn
  <1>1. WakeInv /\ TypeOK => ReadySessionGoesOn
    <2> SUFFICES ASSUME WakeInv, TypeOK, Running, used.changes = 0, AllMediaReady(session)
                 PROVE  /\ session.state = "CREATED" =>
                              session.incoming \/ Present(session) = {}
                        /\ session.state = "RESPONSE_RECEIVED" => ~session.accepted
                        /\ session.state = "REINVITE_RECEIVED" => used.offers > 1
      BY DEF ReadySessionGoesOn
    <2>1. session.state # "ENDED" => Alert(session, used.offers)
      BY DEF WakeInv, AlertOrOver, Running
    <2>2. used.offers \in Nat
      BY SessionAssumption DEF TypeOK
    <2> QED
      BY <2>1, <2>2 DEF Alert, Ground, Awake
  <1>2. WakeInv /\ OffersInv' /\ [Next]_vars => WakeInv'
    BY WakeInvInductive
  <1> QED
    BY <1>1, <1>2, InitWakes, OffersCourse, SessionTypeCorrect, PTL DEF Spec
=============================================================================
