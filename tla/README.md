# A verification project for telepathy-rakia

telepathy-rakia is the SIP connection manager of the Telepathy framework: a
single-threaded GLib process between Telepathy clients (D-Bus calls) and the
SIP stack of Sofia-SIP (NUA events). This directory holds TLA+ modules that
model its sessions, call channels, text channels and connection, the TLC runs
that check them on small instances, and theorems proved with TLAPS. Paths below are relative to the repository; line numbers
refer to the same commit.

Contents: 1 inventory, 2 plan, 3 modules, 4 what is abstracted, 5 the runs,
6 fairness, 7 the proofs, 8 what the checks show about the code, 9 not modelled.

## 1. Inventory

The whole process runs in one GLib main loop. A NUA event, a D-Bus method, a
timer or an idle callback is one uninterrupted step; inside a step the GObject
signals call other components synchronously. So the hard behaviours are not
data races but *orders of events*: which of the user, the streaming client, the
peer and a timer comes first, and what a handler assumes of the ones before.

| Component | State it keeps | Operations | Correct when |
|---|---|---|---|
| SIP session (`rakia/sip-session.c`) | state (9 values), medias by m-line, local and remote SDP with one backup, saved event, pending offer, glare timer, hold flags | INVITE and re-INVITE in both directions, answer, 491 glare and its timer, rollback of a failed re-INVITE, accept, terminate, hold, media added and removed | one offer at a time; each request answered once; offers and answers wait for our user; m-lines keep their places; changes are not lost; requests come to an end |
| SIP media (`rakia/sip-media.c`) | codecs and candidates of both sides, directions, hold, what waits for the client | take an m-line, hand it to the client, take the client's answer, write an m-line | pointers into the SDP stay valid; remote codecs reach the client; readiness means an SDP line can be written |
| Call channel, contents, streams (`rakia/call-*.c`) | Telepathy view of a call, codec offers held by the client | accept, hang up, add and remove contents, directions, hold, codec and candidate exchange | the view follows the session; a call that we ended is shown as ended by us; the line is ended as it is |
| Media manager (`rakia/media-manager.c`) | array of call channels | INVITE or request to session and channel, closing, disconnection | it lists the open channels; every INVITE is settled |
| Text manager and channels (`rakia/text-*.c`) | channel per contact, queue of messages being sent, NUA handle of each | send MESSAGE, answer, incoming MESSAGE, acknowledge, close and rescue, destroy | each sent message reported once, for the right message; none lost that was accepted |
| Connection (`src/sip-connection*.c`) | connection status, registration handle, home realm and password, keepalive, STUN query, heartbeat | connect, REGISTER answers, 401/407, password prompt, DNS answers, disconnect, finalize | status only advances; the password stays in its realm; nothing but the stack outlives a connection |
| Base connection, event targets (`rakia/base-connection*.c`, `event-target.c`) | NUA handle to target binding | route events, retire handles, shut the stack down | an event reaches its target while that exists and never after |
| Handles, aliasing (`rakia/handles.c`, `connection-aliasing.c`, `util.c`) | alias table | normalise URIs, look up aliases | normalisation is idempotent |
| Codec parameters (`rakia/codec-param-formats.c`) | none | parse and format fmtp | format and parse agree |
| Protocol, manager, debug | none | parameter tables, start-up | - |

Interactions. The session *owns* its medias and reads them directly; a media
calls back with three signals (`local-negotiation-complete`, `local-updated`,
direction changes). The call channel listens to the session's `state-changed`,
`media-added` and `media-removed`; contents and streams call media and session
functions from D-Bus methods. NUA delivers `nua_i_invite`, `nua_i_state` (which
also carries a 491), `nua_i_bye`/`nua_i_cancel` of one handle in order through the
event target, and holds the transactions the session responds to.

The managers and the connection meet in the connection's status: both managers
close their channels when it becomes disconnected, before the connection gives up
its registration and tells the stack to shut down. Each session, each text message
and the registration has a NUA handle of its own, bound to an object that NUA's
events are given to; the binding and every other pointer to the handle owns a
reference. Challenges (401, 407) go to the connection first, for whichever of these
objects they come, and may wait there for the user's password.

Every hazard we know of, with its line, is in `PROJECT.json`.

## 2. Plan

Built in this order, the most important behaviour first:

1. `SipMedia`, `SipSession`, `OfferAnswer` with the refinement
   `SipSessionOfferAnswer`, the instances in `MCSipSession`; proofs in
   `SipSessionProofs`, `SipRequestsProofs`, `SipCourseProofs`, `SipAnswersProofs`
   and `SipChangesProofs`.
2. `TextChannel` over the handle binding of the event target, with the abstract
   specification `TextService`; proofs in `TextChannelProofs`.
3. `Connection`, instance in `MCConnection`; proofs in `ConnectionProofs`.
4. `CallChannel` - the media manager and the call channels over an abstract
   session - with the abstract specification `CallService`; proofs in
   `CallChannelProofs`.

What could follow: saved events of the event target; pure algorithms against
reference definitions (choice among local candidates, fmtp parameters, URI
normalisation).

## 3. Modules

* **SipMedia** - one media. No variables: an operator per function of
  `sip-media.c`, from a media record to the media record the function leaves and
  the signal it emits (`[media |-> .., signal |-> ..]`). The session calls them in
  the middle of its handlers. Field names are those of the C structure; `offers`
  and `initial_offer` are the codec offers the Telepathy content holds for the
  client, `home` says in which Sofia memory home the m-line it points at lives.
* **SipSession** - the session over its medias. The record `session` is the C
  structure plus what NUA holds for it: `cli`, our INVITEs without final response;
  `srv`, the peer's INVITE that awaits ours; `early`, an answer came in a 183; `ack`,
  the SDP of our 200 to a re-INVITE without one, while its ACK is to come; `overtaken`,
  the SDP of our older INVITE when two are open.
  Handlers are operators named for the C functions (`RequestResponseStep`,
  `MediaChanged`, `SetRemoteSdp`, `Rollback`, `ChangeState` ...) that call each
  other as the C functions do. An action is one entry from the main loop: the
  client (`AcceptCodecs`, `FinishInitialCandidates`, `RequestDirection`,
  `AddContent`, `Hangup` ...), the peer (`ReceiveInvite`, `ReceiveAnswer`,
  `Reinvite`, `ResolveGlare`, `ReceiveTerminated` ...) or the timer
  (`GlareRetry`). A flag per thing that must not happen (`aborted`, `bad_answer`,
  `stray_response`, `stale_read`) is written where it would happen.
* **OfferAnswer** - the abstract specification: what a call promises of its offers
  and answers, with three variables (phase of the call, whose offer is
  outstanding, whether our user is willing).
* **SipSessionOfferAnswer** - the refinement mapping and `ImplementsOfferAnswer`.
* **MCSipSession** - the instances: m-lines, types and directions for TLC.
* **TextService** - what the text side promises to its two users: the fate of each
  message of the client is decided once, and an accepted message of a peer stays
  unread in a conversation the client knows until it is released.
* **TextChannel** - `text-manager.c` over `text-channel.c`. `channels` is the hash
  table of the manager, `sending` the queue of each channel, `unread` and `reports`
  the received messages of telepathy-glib's message mixin. A message stands also
  for its NUA handle: `bound` is the target that `event-target.c` attached to it,
  `refs` the references we hold, `request` how far NUA is with it. Actions are the
  D-Bus methods, the events `nua_r_message` and `nua_i_message`, the challenge with
  its password prompt and the status changes. `Finalize` is the disposal of a
  channel and what it releases.
* **Connection** - `sip-connection.c` and `sip-connection-helpers.c`. Its
  parameters are an initial state; `StartConnecting` is the whole of
  `rakia_connection_start_connecting` with the configuration of the stack
  (`StackParams`) and of STUN (`StartStun`, `StunDiscovered`, `StunResolved`).
  `Challenged` and `PromptEnds` are the authentication handler, for the
  registration and for the requests of other objects (`Targets`). The choice of an SRV
  record is made by index: `Place` is the order in which the code lays the records
  out, `RunningSum` the sums it stores, `Foremost` the first entry of a set. `ShutDown`,
  `StackStopped` and `Finalized` end it. `holders` are the sessions and channels that
  refer to the connection; `RegisterEvent`, what NUA delivers to the registration, does
  not ask whether the connection is alive, as the code does not. **MCConnection** gives
  the SRV answers.
* **CallService** - what the call side promises: what the client sees of a call
  goes one way, so does its line, and the client gives no call up that leaves a line.
* **CallChannel** - `media-manager.c` over `call-channel.c` and the signals of
  `sip-session.c`. A call has a session (its states, with the three re-INVITE states
  as one), a `line` (what NUA knows of the handle) and a channel. `SipSession` is the
  other half of the same session: it has all of its offers and no channel, this
  module has its ends and signals and no offers. The history variables say what
  we ended the line with (`goodbye`), what the peer answered
  (`heard`), and which calls are the exceptions that section 8 describes (`silent`,
  `wiped`).
* **SipSessionProofs**, **SipRequestsProofs**, **SipCourseProofs**,
  **SipAnswersProofs**, **SipChangesProofs**, **TextChannelProofs**,
  **ConnectionProofs**, **CallChannelProofs** - section 7.

Operators whose comment starts with "Faulty variant" are never used by the
specification. Each is a plausible mistake in the definition that follows it,
there to show that the property it is paired with in `PROJECT.json` would notice.

## 4. What is abstracted

* A codec list, an address and an m-line's mode are opaque values from small
  sets; of an m-line the model keeps type, zero port, "usable" (RTP, a connection
  address and codecs), mode, address and codecs. Candidates are one address. The
  address is the c= line, the only thing that `sdp_connection_cmp` compares
  (`sip-media.c:895`); of the port only zero matters.
* Equal m-lines are one SDP: a peer that changes nothing is taken to keep the version
  of its o= line, which `sdp_session_cmp` compares too (`sip-session.c:1336`).
* A re-INVITE reaches the session as `nua_i_invite` and then `nua_i_state`, both
  queued by NUA for the same message: one action.
* NUA answers 491 to a re-INVITE that meets our own INVITE, and 500 to one
  that meets the peer's previous one, until its ACK. The session never sees these, so
  `CanReceiveReinvite` excludes them.
* After a re-INVITE without SDP our 200 has the offer and the ACK the peer's answer,
  which comes as a state event like any other (`ReceiveAck`). Of two INVITEs of ours
  the older is answered first.
* Memory of an SDP is its home. Reading a media's pointer after the home was
  released yields *any* m-line (`junk`), and `stale_read` records it.
* `accepted` may be TRUE of an outgoing call in `CREATED`: clients accept the
  channel to dial (`tests/twisted/voip/calltest.py:270`).
* The client stops receiving only when a hold or a direction asks for it. A hold
  is released when all streams receive again. With `immutable-streams` the
  channel rejects content and direction changes, except an outgoing call's
  before it is dialled.
* The client's codec failures other than "incompatible" change nothing in the
  code (a FIXME of `md_offer_cb`), so the model has no action for them.
* `AddMedia` keeps the C order: `media-added` goes out, and its handlers run,
  before the media is in the array.
* Bounds in the guards: `MaxMedia` m-lines, `MaxChanges` changes by the client,
  `MaxOffers` re-INVITEs of the peer, `MaxGlares` 491 responses, and the sets
  `Lines`, `LocalCodecs`, `Directions`, `ContentTypes`. `UserMay` and `PeerMay`
  switch groups of actions on, so that a run can spend its states on one question.
  The theorems hold for every value of all of them.

Of text channels:

* A message is its text, handle and delivery token at once. The queue is searched
  by handle, so it is a set. What is not plain text in a known character set from a
  valid address is `fit = FALSE`; why it is refused makes no difference to the state.
* telepathy-glib: the message mixin keeps received messages until they are
  acknowledged or cleared, and a request that a channel satisfies changes nothing.
* sofia-sip: a request gets one final answer, at the handle it was sent with; a
  retired handle still gets it, and nobody minds.
* Bound: `MaxChallenges` authentication rounds of a message.

Of the connection:

* `Params` varies one aspect at a time (authentication, keepalive, STUN) from a
  default account. The aspects share nothing but the status and the stack.
* Of a credential only its kind is kept: of the account ("home"), the parameter for
  other realms ("extra"), or an empty one.
* telepathy-glib: a change to DISCONNECTED calls "disconnected", unless the
  connection was never connecting, and then "shut_down"; setting the present status
  again does nothing. An object without references is finalized.
* References to the connection are those of prompts and of `holders`: a session
  (`sip-session.c:1580`) or a channel that sends a request is one until it is disposed of
  (`TargetReleased`), which may be never (section 8).
* sofia-sip: a stack that was told to shut down still delivers what it queued,
  to a finalized connection too, and then says that it is done. DNS answers come once
  or not at all.
* Bounds: `MaxChallenges` challenges of a request; `WeightModulus` stands for 2^16,
  so that sums of weights wrap on small records.

Of call channels:

* telepathy-glib's call channel: a requested one starts as PENDING_INITIATOR, an
  incoming one as INITIALISED; Accept and Hangup are refused when they make no
  sense in the state; the peer's acceptance is shown only in the states before
  ACCEPTED; an accepted call is ACTIVE at once, because rakia reports its transport
  as connected (`IsConnected`).
* NUA delivers the events of one handle in order: the INVITE, its state event, then
  a CANCEL or BYE and the state event of that. After `nua_handle_destroy` none come.
* Readiness of the streams may come at any moment (`MediaReady`); a description of
  the peer may hold or release the call, whatever the description before it said, or
  leave the hold alone, as one does that changes nothing (`RemoteHoldMayCome`). The
  ACK of a re-INVITE without SDP brings one too (`LateDescription`).
* The flag RINGING and the reasons of an end are not kept, contents and streams
  stay with `SipSession`.
* Each call is made at most once: `Calls` bounds the run.

## 5. The runs

The first seven and `accepted_unanswered` use `MCSipSession` and start with incoming and
outgoing sessions.

| Run | Instance | Shows |
|---|---|---|
| `one_stream` | one audio line with two codec lists, all user operations, 2 changes, 2 re-INVITEs, 2 glares | offers never overlap, requests are answered once, a call that nobody changes does not wait for medias that are ready, the session implements `OfferAnswer` |
| `rude_peer` | two m-lines, 3 holds and resumes of the user, 1 re-INVITE, no glares; peer may answer early, add zero ports, send its re-INVITE without SDP, exceed an offer, hold | `TypeOK`, no more than one offer is overtaken, and none beside the peer's; "held by the peer" is true of the streams |
| `two_streams` | audio and video, contents added and removed, holds, a peer that may leave lines out | answers have the lines of the offer, an outstanding offer keeps every line's place, a content or a hold requested at a bad moment is offered later when the peer does not re-INVITE |
| `progress` | one codec list of the peer, two of the client, `FairSpec` | every INVITE of ours and every re-INVITE of the peer is settled, so is a glare |
| `reinvite_stuck`, `failure_unexpected`, `descriptions_freed`, `accepted_unanswered` | small instances of the same module | section 8 |
| `text` | two contacts, two messages sent, one received, one challenge, `FairSpec` | every reference of a NUA handle has its pointer; reports are true and given once; accepted messages are kept; the client knows the channels; every message leaves the queue; the channels implement `TextService` |
| `connection` | 53 accounts, one other request, two realms, two challenges of a request, six SRV answers, `FairSpec` | the password stays in realms of the registrar; only the stack outlives the connection; keepalives, STUN server and load balancing are right; the status only advances; connecting ends or waits for the user; a disconnected connection that no session or channel holds is released |
| `calls` | two calls, one contact, immutable streams, `FairSpec` | what is shown of a call is true of its session, its end and its hold; what we ended is shown as ended by us; the line is ended as it is; INVITEs are settled and sessions end; the channels implement `CallService` |
| `ensured` | the same, without fairness | section 8 |

Why the bounds are enough. A hazard of the session needs at most: an offer, a
second one that meets it (a change, a re-INVITE or a glare), and a third event
that finds the leftovers. One stream with two of everything has all of these
interleaved with each step of the codec and candidate exchange; a second m-line
is needed where positions matter, not where orders do. Text channels interact
through the table and through the queue of one channel: two contacts and two
messages give answers out of order in one channel and channels that go while
another stays; a third would repeat them, as the theorems show. A connection needs two
realms to confuse and a second challenge to confuse them in, and SRV answers with
two priorities, weight 0, an unusable record and a sum that wraps. Calls
share only the array of channels and the status, so two are enough; each of
them goes through every order of the events of one call.

Of the runs of `MCSipSession`, `CHECK_DEADLOCK` stays on: `Finished` is the only
way to stop (the session ended and its timer is gone, or an assertion failed). The
other modules use each message, call or connection once, so they do really come to
an end, and their runs say `CHECK_DEADLOCK FALSE`; that they do not stop too early
is what their liveness properties are for. Symmetry is not used: most runs check
liveness, and in the others the codec lists of both sides enter `Lines`
asymmetrically.

`NoOverlappingOffers` and `ImplementsOfferAnswer` are checked without answers in
a 183 and without re-INVITEs that bring no SDP; section 8 says why. What holds with
them is `OneOfferOvertaken`, checked in `rude_peer` without glares, and proved with
them. An offer is overtaken in that run both by an early answer and by an ACK; the
second needs three changes. `RemoteHoldIsReal` is checked with a peer that describes
every line it knows, and proved for one whose re-INVITEs bring an SDP: a peer that does
neither breaks it (section 8). Of the runs only `failure_unexpected` has immutable
streams; the theorems hold with them and without.

## 6. Fairness

`FairSpec` assumes weak fairness of:

* the streaming client: it answers a codec offer it holds, finishes its local
  candidates, and starts to receive when asked to;
* NUA: an outstanding INVITE ends with some final response, because the
  transaction timers of SIP produce one (408) if the peer does not. This is an
  assumption on the environment, taken from how the code relies on it;
* the glare timer: the GLib main loop fires an expired timeout.

Nothing makes the user accept, hang up or change a call, and nothing makes the
peer send a request. The conditions are written out with the guards that enable
each step, because a step in question always changes the session; only the
timer's uses `WF_vars`.

`FairSpec` of the other modules:

* `TextChannel`: NUA reports a final answer of each MESSAGE (408 if the peer is
  silent). A prompt for a password ends with one or with an error: this is an
  assumption on the client that shows the prompt, since the code sets no limit to it.
* `Connection`: a REGISTER is answered, for the same reason; once the connection is
  disconnected its prompts end; the stack completes its shutdown, which ends with an
  event of its own (`nua_r_shutdown`); an object without references is finalized. The
  answer is assumed only while the status is CONNECTING: nothing makes later
  refreshes arrive, nor DNS answers. Nor does anything make the user answer a prompt
  while the connection lasts: an ignored one keeps it CONNECTING, which
  `ConnectionSettles` says. Nothing makes sessions and channels let go of the
  connection either: `ConnectionIsReleased` starts when none is left.
* `CallChannel`: NUA delivers the events it has queued: the state event behind an
  INVITE, a BYE or a CANCEL, and the end of every line when its stack shuts down.

Beyond the prompt of `TextChannel` nothing is assumed of the user, and nothing of the
streams or the peers, in any of them.

## 7. The proofs

TLAPS proves, for every value of the constants that satisfies
`SessionAssumption` (the line sets are sets of m-lines, the bounds are naturals,
`ZeroPort` is a zero-port line) and `MediaAssumption` / `LocalLineAssumption`
(the NULL pointer is no value of the other sets):

* **SessionTypeCorrect** (`SipSessionProofs`): `Spec => []TypeOK`. One lemma per
  operator of `SipMedia`, then one per handler along the call graph, then one step
  per action. `TypeOK` is inductive.
* **RequestsAreAnsweredOnce** (`SipRequestsProofs`):
  `Spec => []RequestsAnsweredOnce`. The property is not inductive: a handler may
  leave the process aborted, and the first INVITE is handled while the state is
  still `CREATED`, when a request is outstanding that the state does not show. The
  invariant is `TypeOK` and one of: aborted; fresh incoming session; `Matched`,
  which relates `srv`, `saved_event`, `nua_op` and the state. Each handler is shown
  to keep `Matched`. The first INVITE needs the "fresh" case: its medias have just
  been made, so none of them is ready and `RequestResponseStep` sends nothing
  before the state becomes `INVITE_RECEIVED`.
* **OneOfferEverOvertaken** and **OffersNeverOverlap** (`SipCourseProofs`):
  `Spec => []OneOfferOvertaken` for every peer, and `Spec => []NoOverlappingOffers` for
  one whose 183s bring no answer and whose re-INVITEs bring an SDP
  (`"early" \notin PeerMay`, `"delay" \notin PeerMay`; the code does overlap its
  offers otherwise, section 8). Both rest on `Follows(s, t)`, how far a handler may
  take a session: it keeps who called and who accepted, leaves the state, dials from
  `CREATED`, ends the session, or moves among the established states if the call was
  accepted; and the INVITEs outstanding beyond the one the state shows (`Excess`)
  stay as they are. Handlers compose, and so does `Follows`. Not inductive by itself
  is that an unaccepted session may wait in `RESPONSE_RECEIVED`: `Agreed` adds that
  an early answer brought it there and that our INVITE is still outstanding, which
  keeps the peer's re-INVITEs away. `Counted` says that nothing is outstanding beyond
  what the state shows, except for the one INVITE that an early answer or an ACK moved
  the session on from (`LeftOpen`), and that nothing is left open yet while an ACK
  is to come (`AckExpected`). The first INVITE again needs the fresh case.
* **SessionImplementsOfferAnswer** (`SipCourseProofs`): `Spec => ImplementsOfferAnswer`
  for the same peer. With the invariant of `OffersNeverOverlap` the state alone shows
  phase and offerer (`StateShowsOffer`). `Passes(s, t)` says how far one entry from
  the main loop may take a session, one lemma per kind of entry, and `PassesExchange`
  names the step of `OfferAnswer`, or the stutter, for each way it allows.
* **AnswersFit**, **OffersKeepTheLines** and **RemoteHold** (`SipAnswersProofs`):
  `Spec => []AnswersFitOffers`, `Spec => []OffersKeepLines`, and `Spec =>
  []RemoteHoldIsReal` for a peer whose re-INVITEs have an SDP (`"delay" \notin
  PeerMay`; section 8 says what it can do otherwise). What an SDP of ours says is
  decided long before it is sent, so that none of the three is inductive. `Lined`
  adds that the medias lie along the lines of the peer's SDP, each of its line's type
  and pointing at it, and that with a remote hold in force neither the directions nor
  the lines they come from grant sending; `Counted` that an answer will have as many
  lines as the offer. The handlers that the client enters leave the lines alone
  (`Keeps`, which composes); the three that lay them anew (`UpdateRemoteMedia`,
  `SetRemoteSdp`, `Rollback`) let go of the old lines only inside one step, for which
  `Going` says what holds in between.
* **UndisturbedChanges** (`SipChangesProofs`): `Spec => []UndisturbedChangesAreOffered`
  for a client that requests no directions (`"direct" \notin UserMay`; section 8 says
  how a requested direction can leave an offer pending). The property speaks of a
  session at rest; what is kept before is `Kept`: every media whose codecs are known
  is described by the SDP sent last, or a later one is due, because an offer is
  remembered or the call is not dialled or not answered yet (`Awaited`); an offer on
  its way describes only medias whose codecs are known, and every media is held like
  the session (`Watched`); and an active session whose medias are all ready has
  nothing left to offer. A handler that is told of a change makes up for it whatever
  the change was (`MediaChangedKept`); one that changes medias without telling the
  session must not make one ready or known that was not before (`WellServed`). That
  is what a direction requested back breaks. The invariant is kept until the peer's
  first re-INVITE; until then no ACK brings an answer either (`Undelayed`).
* **ReadySessionsGoOn** (`SipChangesProofs`): `Spec => []ReadySessionGoesOn` for a peer
  whose re-INVITEs have an SDP (`"delay" \notin PeerMay`). It is the safety half of the
  progress of a call: not that the medias get ready, but that the session does not
  sleep once they are. The step that the handlers end with, `RequestResponseStep`,
  leaves nothing to do (`RequestResponseStepWakes`); what can break the property is a
  step that makes a media ready and ends without it. A media does that only if it had
  no codecs of ours and did not wait for the peer's (`Stirs`), and `Ground` says in
  which states there is no such media: all codecs are known from an offer of ours until
  the first re-INVITE (`AllKnown`), the lines of an SDP that awaits its answer are
  those of medias (`LinesDescribe`), and in the first re-INVITE each media has codecs
  or a wait that the session is told the end of (`Answerable`). It needs the invariant
  of `OffersCourse` for early-answering peers too. The property says nothing of
  `INVITE_RECEIVED`, where it fails (`accepted_unanswered`, section 8), nor of later
  re-INVITEs, which can find a media without codecs.

`TextChannelProofs`, from `TextAssumption` (messages sent and received are
different, "nobody" is no contact):

* **TextTypeCorrect**, **HandlesAlwaysReferenced**, **ReportsAlwaysTrue**,
  **AcceptedMessagesAlwaysKept**, **ClientAlwaysKnowsChannels**: the five safety
  properties of the run `text`. None is inductive. `Inv` adds how the parts of the
  state of one message go together: a message is in the queue of the channel it was
  sent to and of no other, and then its handle is bound and unanswered; a message
  without answer whose handle is bound is in that queue; only a message that was
  sent has a handle; a channel that is not in the table has nothing pending. Type correctness needs it too: that a reference count is a natural number
  is the claim that nothing is released twice.
* **TextServiceImplemented**: `Spec => ImplementsTextService`. Initial states map to
  initial states; one lemma per kind of step names the step of `TextService`, and
  `SilentSteps` those that the service does not see.

`ConnectionProofs`, from `ConnectionAssumption` (the registration is no target and
`NoRealm` no realm, intervals are naturals, answers are sequences of records):

* **HomeSecretAlwaysStaysHome**, **OnlyStackEverOutlivesConnection**: `Inv` adds that
  the realm taken for the registrar's was presented by it - or a challenge to a call
  could be taken for one of the registrar - and that the end comes in order: the base
  class is told once the connection is disconnected, and finalization follows that, when
  nobody refers to the connection.
* **StatusAlwaysAdvances**: the action property `StatusOnlyAdvances`, one step per
  action, from the type of the status.
* **TypeCorrect**, **KeepaliveIsAlwaysSane**, **StunServerAlwaysFits**: `DataInv` adds
  to `TypeOK` that the stack was told what `StackParams` computes from the
  parameters, or nothing, and that the port kept while the address is looked up is
  that of a best record of the SRV answer at hand (`ServerFollowsQuery`). The lemmas
  before it say what the operators give: the code's choice exists and is a candidate
  for every roll of the dice (`ChosenIsCandidate`; that the last sum reaches every
  dice is why, wrapped or not), and the intervals respect their minimum. Least elements
  exist because the order of the naturals is well-founded.
* **LoadIsAlwaysBalanced**: `Spec => []LoadIsBalanced`, for any number of records in
  any order. The records of the lowest priority have different places in the code's
  list, so that the running sum of a record is the sum of the weights up to its place
  (`UpTo`), and while the total is below `WeightModulus` no sum wraps. Of two sums the
  later is greater by at least the weight of its record (`SumsGrow`); hence the outcomes
  of the dice that choose a record are an interval as long as its weight
  (`ShareOfOther`), and for the first record one longer, since it also takes zero
  (`ShareOfFirst`). Half of the proof is what a sum over a finite set is:
  `MapThenSumSet` is a recursive function of the library on the subsets of the set.
  That there is such a function (`AdderExists`), and that it does not matter which
  element it takes first (`WeightsByAny`), is proved without an induction theorem, by
  looking at a smallest set for which it fails: proper inclusion is well-founded on
  the finite sets.

`CallChannelProofs`, from `CallAssumption`:

* **CallTypeCorrect**, **ChannelsAlwaysListed**, **EndsAlwaysShown**,
  **GoodbyesAlwaysOurs**, **GoodbyesAlwaysFit**, **HoldAlwaysShown**,
  **ActiveAlwaysAnswered**: the seven invariants of the run `calls`. The properties
  speak of calls that ended; `Inv` says what makes them true before: what the session
  would end its line with fits the line in every state (`Ready`), a session is shown
  by an open channel or is an INVITE that waits for its first media (`Announced`),
  no call came from nowhere (`Made`), and a dialled session got further only by an
  answer (`Heard`). One lemma per action, with one step per part of `Inv`.
* **CallServiceImplemented**: `Spec => ImplementsCallService`. A step of one call
  changes nothing of the others; `Move` lists what it may do to the view and the line
  of its own, and `MoveIsStep` shows that each entry is a step of the service. Only a
  disconnection moves several calls at once.

Only model-checked: liveness (the fairness conditions and ENABLED are outside
the prover), and everything the runs of section 8 refute. Every other invariant,
action property and refinement of a passing run is a theorem. Of the theorems of
the session, four and the refinement assume something of `PeerMay` or `UserMay`,
as said with each: the properties fail without it.

## 8. What the checks show about the code

Properties that fail, each with its run:

* **A re-INVITE without response** (`reinvite_stuck`). The codecs of an answer stay
  in `remote_codec_offer` after the client accepted them
  (`sip-media.c:992-1033` resets it only if an intersection was pending). A later
  re-INVITE with other codecs then only sets `push_remote_codecs_pending`
  (`sip-media.c:938-941`), which nobody will act upon: the media never becomes
  ready, no 200 is sent. `progress` shows that this is the only reason: with a
  peer that keeps its codecs, `ReinviteIsAnswered` holds.
* **An assertion on a late rejection** (`failure_unexpected`, with immutable streams even). The session goes
  `ACTIVE` on an answer, a delayed offer goes out, and the client then rejects the
  answer's codecs: `REINVITE_SENT` has no case in
  `priv_media_local_negotiation_complete_cb()` (`sip-session.c:798`).
* **Released memory read after a rollback** (`descriptions_freed`).
  `priv_session_rollback()` unrefs the home of the failed SDP (`:730`) before the
  medias are moved off it (`:746`), and `rakia_sip_media_set_remote_media()` then
  compares the new line with the old one. The same home is the one the comment
  at `sip-media.c:806-808` wants kept.
* **An accepted call without answer** (`accepted_unanswered`). The first INVITE is
  handled while the state is still `CREATED`, so its codecs are pushed without
  `codec_intersect_pending` (`sip-session.c:1362`). When the client answers them
  last, after the accept, `rakia_sip_media_take_local_codecs()` reports a local
  update (`sip-media.c:1030`), and `rakia_sip_session_media_changed()` does nothing in
  `INVITE_RECEIVED` (`sip-session.c:838-844`): the 200 is never sent, though user,
  client and streams have all done their part. Any other order is answered.
* **A second call instead of the first** (`ensured`). EnsureChannel is to return an
  open channel to the contact (`media-manager.c:603-606`). The search reads the
  property "peer" of each channel (`:659`); `RakiaCallChannel` has none, so nothing is
  ever found and another call is made.

Met while modelling or proving, described by the model, and not stated as a property:

* A direction requested back to the one in force makes a media ready without a
  signal (`sip-media.c:621-627`), so that an offer which waited for that media stays
  pending in `ACTIVE` until something else happens.
* During `REINVITE_RECEIVED` a change to an existing media, a hold for instance,
  relies on the eventual answer (`sip-session.c:838-844`); a rollback sends a 488
  instead and forgets the change. `UndisturbedChangesAreOffered` shows that without
  re-INVITEs of the peer no content and no hold is lost, as long as the client
  requests no directions.
* Codecs that the client accepts while the next list of the peer waits for it
  (`push_remote_codecs_pending`) are not offered when that list is settled.
* A re-INVITE without SDP is answered with all medias, those included that the
  peer's last SDP left out and from which its hold was not computed: with a hold or
  directions requested meanwhile, a stream can send in a call that is shown as held.
* An answer in a 183 moves the session to `RESPONSE_RECEIVED` although the INVITE
  is still outstanding (`:1315-1320`; `nua_i_state` is handled alike for 1xx); the
  session may then go on, even offer again, before the final response.
* The ACK of a re-INVITE without SDP is handled like any answer (`:1459-1467`). When a
  delayed change was offered right behind our 200, the session takes the ACK's answer
  for that of its open re-INVITE: it leaves `REINVITE_SENT` (`:1315-1320`), and may offer
  again before that is answered. `OneOfferOvertaken` says how far this goes.
* A new m-line with a zero port gets no entry, so that the assertion on the count
  at `:1076` can fail (`aborted = "slot"` in `rude_peer`).
* With `immutable-streams`, a hold requested during `INVITE_SENT` still sends its
  delayed re-INVITE on activation: only `:854` looks at the parameter.
* An answer is cut down to the *requested* direction, not to the offered one
  (`sip-media.c:883`, against the comment above it): during a hold the two differ,
  since the hold changes only what is offered.
* A glare whose retry finds a media not ready sends nothing and the timer is
  gone; the next readiness goes on from `REINVITE_PENDING` only when a pending
  offer is set (`:1297`). Overhanging medias are removed by an SDP that arrives
  after a glare, since the offer that described them is no longer pending (`:1079`).
* Removing the last content of an accepted, unanswered call leaves the INVITE
  unanswered: nothing triggers the response, and the session outlives its last
  media because `has_media` starts as TRUE (`:1616`).
* In `RESPONSE_RECEIVED` a failed negotiation removes a media without telling the
  peer.
* A re-INVITE without SDP in an outgoing call is answered with no m-lines, since
  `remote_media_count` was never set; the ACK's answer then has no media of use, and
  the call is terminated (`:1464`).
* `glare_timer_id` keeps the id of a removed source (`:523`); a BYE during a
  re-INVITE leaves the saved event until disposal.

Of call channels:

* A session that ends by itself, because the media of an INVITE or of an answer are of
  no use or a re-INVITE is refused (`sip-session.c:1464`, `:1515`), emits no "ended":
  the channel goes on showing the call. `EndsAreShown` names these sessions (`silent`).
* `ringing_cb` replaces the flags of the peer (`call-channel.c:588`): a hold that came
  before the ringing is no longer shown (`wiped`). The 180 may follow a 183.
* An early answer shows the call as accepted by the peer, since the session has one
  state for both; a hang up then sends a BYE where the INVITE is still open.
* `rakia_call_channel_hangup_error()` looks at no state (`call-channel.c:811`): a
  stream that fails after the call has ended writes the actor again. A call that was
  answered elsewhere and whose line then ends with a status of 300 or more is
  shown as ended by the peer after having been shown as ended by the user.
* An INVITE whose first media come after the disconnection gets a channel in no list:
  the array was freed (`media-manager.c:333`, `:378`).
* A stream takes a reference on its channel (`call-stream.c:198`) that its disposal
  does not drop. An incoming session whose first media are refused is never released
  by the manager: only `incoming_call_cb` drops the reference that `media-manager.c:428`
  got, and it is then not called.

Of text channels:

* Messages under way are dropped without a report when their channel goes.
* An unread delivery report keeps a channel open like an unread message: Close
  reopens it.
* The reference of a binding is kept until the channel is finalized, not until the
  answer: it grows with every message sent.
* A MESSAGE is answered with 200 before anything looks for its channel
  (`text-manager.c:563`).
* `GError *error` at `text-manager.c:490` is not initialised before it is passed on.

Of the connection:

* A 401 that NUA queued before the shutdown still starts a prompt after Disconnect,
  and a prompt may outlive the stack; its answer then goes to a handle that does
  nothing.
* Each session refers to the connection (`sip-session.c:1580`), so the two leaks above
  keep a disconnected connection for ever.
* `rakia_connection_shut_down()` reports the end of the shutdown at once
  (`sip-connection.c:939-944`), and the connection may be finalized while the stack is
  still stopping. The callback of the stack is given the connection as a raw pointer,
  reads it for every event but `nua_r_shutdown` (`base-connection-sofia.c:137`), and
  dispatches to it the events of unbound handles (`:149`).
* The prompt for the registration's password has no timeout (`sip-connection.c:757`):
  ignored, it leaves the connection CONNECTING until the client disconnects.
* The sums of the weights are kept in 16 bits: records whose weights add up to more
  are chosen in other proportions (`LoadIsBalanced` says up to where it is right).
* A heartbeat that was opened but whose wait object could not be registered is
  never closed (`sip-connection-helpers.c:810`).

## 9. Not modelled, and why

* Of the session: CANCEL of a re-INVITE (a FIXME of the code at
  `sip-session.c:574`), 182 responses (no state change), an initial INVITE without
  SDP, UPDATE, and the RTCP and ptime attributes (data no property tells apart).
* Of the media: which local candidate is written, the text of the SDP.
* Of call channels: sending states of members, the flag RINGING, the reasons of an
  end, DTMF. They are shown to the client and read by nothing.
* Of text channels: character sets, parts and subjects, timestamps, the error code in
  a report.
* Of the connection: TLS and transport parameters, the alias of its own contact, the
  interval the platform wakes us at beyond its bounds.
* Event targets: events saved for later, which only the session's pending re-INVITE
  uses (`saved_event` of `SipSession`), and the dispatch by event name.
* Handles, aliasing and codec parameters: sequential string processing with little or
  no state; what could be stated of it is about the strings themselves.
* Protocol tables, start-up and logging: no behaviour of their own.
