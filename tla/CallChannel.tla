----------------------------- MODULE CallChannel -----------------------------
(***************************************************************************)
(* Call channels and their manager: rakia/media-manager.c over             *)
(* rakia/call-channel.c, with the signals of rakia/sip-session.c that they *)
(* live on.                                                                *)
(*                                                                         *)
(* A call is a session (what SipSession models in full; here its states    *)
(* and signals), the line of its NUA handle, and a Telepathy channel.  A   *)
(* request of the client makes session and channel together.  An INVITE    *)
(* makes the session; the channel is announced by a later event, when the  *)
(* first media are known.  The peer, the user, the streams and a           *)
(* disconnection end calls in any order.                                   *)
(*                                                                         *)
(* All runs in one GLib main loop and signals call their handlers at once: *)
(* an action is one entry from the loop.  Offers, codecs and candidates    *)
(* are not repeated here: "all is ready" may happen at any moment.         *)
(***************************************************************************)
EXTENDS Naturals, FiniteSets

CONSTANTS
    Calls,              \* identities of calls, each made at most once
    Contacts,           \* the contacts that call and are called
    MutableContents     \* the property of that name: not immutable-streams

Self == "self"
Nobody == "nobody"

(* RequestChannel does what CreateChannel does.                            *)
Methods == {"CREATE", "ENSURE"}

ASSUME CallAssumption ==
    /\ MutableContents \in BOOLEAN
    /\ {Self, Nobody} \cap Contacts = {}

VARIABLES
    status,         \* of the connection
    channels,       \* the array of the manager; empty once it is freed
    peer,           \* the other party of a call
    session,        \* state of the session; REINVITE stands for three states
    accepted,       \* its flag of that name
    line,           \* what NUA knows of the line, as long as we hold its handle
    remoteHeld,     \* its property of that name
    call,           \* state of the channel, as shown to the client
    actor,          \* who is shown to have ended the call
    shownHeld       \* the member flag HELD of the peer

(* History, for the properties alone.                                      *)
VARIABLES
    origin,         \* what made the call
    heard,          \* the best answer of the peer to our INVITE
    goodbye,        \* the last request or response we ended the line with
    silent,         \* sessions that ended without their signal "ended"
    wiped           \* calls whose flag HELD was overwritten

manager == <<status, channels, peer>>
dialog == <<session, accepted, line, remoteHeld>>
shown == <<call, actor, shownHeld>>
history == <<origin, heard, goodbye, silent, wiped>>
vars == <<manager, dialog, shown, history>>

TypeOK ==
    /\ status \in {"CONNECTING", "CONNECTED", "DISCONNECTED"}
    /\ channels \subseteq Calls
    /\ peer \in [Calls -> Contacts \cup {Nobody}]
    /\ session \in [Calls -> {"none", "CREATED", "INVITE_SENT", "INVITE_RECEIVED",
                              "RESPONSE_RECEIVED", "ACTIVE", "REINVITE", "ENDED"}]
    /\ accepted \in [Calls -> BOOLEAN]
    /\ line \in [Calls -> {"none", "called", "invited", "asking",
                           "up", "left", "cancelled", "over"}]
    /\ remoteHeld \in [Calls -> BOOLEAN]
    /\ call \in [Calls -> {"none", "PENDING_INITIATOR", "INITIALISING", "INITIALISED",
                           "ACTIVE", "ENDED", "closed"}]
    /\ actor \in [Calls -> {Nobody, "self", "peer"}]
    /\ shownHeld \in [Calls -> BOOLEAN]
    /\ origin \in [Calls -> Methods \cup {"none", "failed", "refused", "INVITE"}]
    /\ heard \in [Calls -> {"nothing", "early", "answer"}]
    /\ goodbye \in [Calls -> {"nothing", "BYE", "CANCEL", "response"}]
    /\ silent \subseteq Calls
    /\ wiped \subseteq Calls

Init ==
    /\ status = "CONNECTING" /\ channels = {}
    /\ peer = [k \in Calls |-> Nobody]
    /\ session = [k \in Calls |-> "none"]
    /\ accepted = [k \in Calls |-> FALSE]
    /\ line = [k \in Calls |-> "none"]
    /\ remoteHeld = [k \in Calls |-> FALSE]
    /\ call = [k \in Calls |-> "none"]
    /\ actor = [k \in Calls |-> Nobody]
    /\ shownHeld = [k \in Calls |-> FALSE]
    /\ origin = [k \in Calls |-> "none"]
    /\ heard = [k \in Calls |-> "nothing"]
    /\ goodbye = [k \in Calls |-> "nothing"]
    /\ silent = {} /\ wiped = {}

Open == {k \in Calls : call[k] \notin {"none", "closed"}}
Requested(k) == origin[k] \in Methods
Live(k) == session[k] \notin {"none", "ENDED"}
-----------------------------------------------------------------------------
(* The session.                                                            *)

(* Faulty variant: the answer to our INVITE has not made a dialog.         *)
GoodbyeOfAnswered(state) ==
    IF state \in {"ACTIVE", "REINVITE"} THEN "BYE"
    ELSE IF state \in {"INVITE_SENT", "RESPONSE_RECEIVED"} THEN "CANCEL"
    ELSE IF state = "INVITE_RECEIVED" THEN "response" ELSE "nothing"

(* What rakia_sip_session_terminate() sends; a session that has neither    *)
(* sent nor taken an INVITE leaves the line to the stack.                  *)
Goodbye(state) ==
    IF state \in {"ACTIVE", "RESPONSE_RECEIVED", "REINVITE"} THEN "BYE"
    ELSE IF state = "INVITE_SENT" THEN "CANCEL"
    ELSE IF state = "INVITE_RECEIVED" THEN "response" ELSE "nothing"

(* Faulty variant: a session whose INVITE is cancelled waits for its end.  *)
TerminateAnswered(K) ==
    /\ session' = [k \in Calls |-> IF k \in K /\ session[k] # "INVITE_SENT" THEN "ENDED"
                                   ELSE session[k]]
    /\ goodbye' = [k \in Calls |-> IF k \in K /\ Live(k) THEN Goodbye(session[k])
                                   ELSE goodbye[k]]

(* It ends the sessions K and destroys their NUA handles.  A session that  *)
(* has ended already stays as it is.  No signal is emitted but the change  *)
(* of state, on which the channel does nothing.                            *)
Terminate(K) ==
    /\ session' = [k \in Calls |-> IF k \in K THEN "ENDED" ELSE session[k]]
    /\ goodbye' = [k \in Calls |-> IF k \in K /\ Live(k) THEN Goodbye(session[k])
                                   ELSE goodbye[k]]

(* A termination nobody asked for, from the given state of the session.    *)
TerminateSilently(k, state) ==
    /\ session' = [session EXCEPT ![k] = "ENDED"]
    /\ goodbye' = [goodbye EXCEPT ![k] = Goodbye(state)]
    /\ silent' = silent \cup {k}

-----------------------------------------------------------------------------
(* The handlers of a channel for the signals of its session: a session     *)
(* that is past its first media and has not ended has an open channel.     *)

Actor(selfActor) == IF selfActor THEN "self" ELSE "peer"

(* "ended"; the reason, found from the status, is left out.                *)
EndedCb(k, selfActor) ==
    /\ call' = [call EXCEPT ![k] = "ENDED"]
    /\ actor' = [actor EXCEPT ![k] = Actor(selfActor)]

(* Faulty variant: the channel waits for a transport that never connects.  *)
IsConnectedNever == FALSE

IsConnected == TRUE

(* telepathy-glib: a call that both sides accepted is active once it is    *)
(* connected.                                                              *)
BothAccepted == IF IsConnected THEN "ACTIVE" ELSE "ACCEPTED"

(* telepathy-glib: the peer's acceptance is shown unless it was before, or *)
(* the call has ended.                                                     *)
RemoteAccept(state) ==
    IF state \in {"PENDING_INITIATOR", "INITIALISING", "INITIALISED"}
    THEN BothAccepted ELSE state

(* Faulty variant: the invitation counts as an answer.                     *)
StateChangedCbEarly(k, state) ==
    IF Requested(k) /\ state \in {"INVITE_SENT", "ACTIVE"}
    THEN RemoteAccept(call[k]) ELSE call[k]

(* "state-changed": what the channel shows after it.                       *)
StateChangedCb(k, state) ==
    IF Requested(k) /\ state = "ACTIVE" THEN RemoteAccept(call[k]) ELSE call[k]

ChangeState(k, state) ==
    /\ session' = [session EXCEPT ![k] = state]
    /\ call' = [call EXCEPT ![k] = StateChangedCb(k, state)]

(* Faulty variant: the channel shows the change, not the state.            *)
RemoteHeldChangedCbOnce(k, held) == held /\ ~shownHeld[k]

(* "notify::remote-held": the flag HELD after it.                          *)
RemoteHeldChangedCb(k, held) == held

(* A session description of the peer says whether it holds the call.       *)
RemoteHold(k, held) ==
    /\ remoteHeld' = [remoteHeld EXCEPT ![k] = held]
    /\ shownHeld' = [shownHeld EXCEPT ![k] = RemoteHeldChangedCb(k, held)]
    /\ wiped' = wiped \ {k}

(* A description that is the last one again, and one that has no media we  *)
(* support, are passed over: the hold is not looked at and nothing is      *)
(* notified.                                                               *)
RemoteHoldMayCome(k) ==
    \/ \E held \in BOOLEAN : RemoteHold(k, held)
    \/ UNCHANGED <<remoteHeld, shownHeld, wiped>>

(* "ringing": the flags of the peer become RINGING, and nothing else.      *)
RingingCb(k) ==
    /\ shownHeld' = [shownHeld EXCEPT ![k] = FALSE]
    /\ wiped' = IF remoteHeld[k] THEN wiped \cup {k} ELSE wiped

-----------------------------------------------------------------------------
(* The manager.                                                            *)

(* new_call_channel(): a channel is made, listed and registered; the array *)
(* is gone after close_all, and then the channel is not listed.            *)
NewCallChannel(k, state) ==
    /\ call' = [call EXCEPT ![k] = state]
    /\ channels' = IF status = "DISCONNECTED" THEN channels ELSE channels \cup {k}

(* Faulty variant: the manager keeps the channel that closed.              *)
ChannelClosedCbForgetful(K) == channels

(* call_channel_closed_cb(), for the channels K.                           *)
ChannelClosedCb(K) == channels \ K

(* Faulty variant: the session of a closed channel goes on.                *)
CloseChannelsOnly(K) ==
    /\ call' = [k \in Calls |-> IF k \in K THEN "closed" ELSE call[k]]
    /\ channels' = ChannelClosedCb(K)
    /\ UNCHANGED <<session, goodbye>>

(* rakia_call_channel_close(): the session goes first.                     *)
CloseChannels(K) ==
    /\ Terminate(K)
    /\ call' = [k \in Calls |-> IF k \in K THEN "closed" ELSE call[k]]
    /\ channels' = ChannelClosedCb(K)

Connected ==
    /\ status = "CONNECTING"
    /\ status' = "CONNECTED"
    /\ UNCHANGED <<channels, peer, dialog, shown, history>>

(* The manager hears of it first, frees its array and so closes every      *)
(* channel in it; it hears no INVITE any more.                             *)
Disconnected ==
    /\ status # "DISCONNECTED"
    /\ status' = "DISCONNECTED"
    /\ CloseChannels(channels)
    /\ UNCHANGED <<peer, accepted, line, remoteHeld, actor, shownHeld,
                   origin, heard, silent, wiped>>

(* The property "peer" that the search for a channel reads is one that     *)
(* call channels do not have: it reads no handle.                          *)
PeerProperty(k) == Nobody

(* rakia_media_manager_requestotron(), for a request with initial media to *)
(* a contact; the manager leaves others alone.  A request that a channel   *)
(* satisfies changes nothing.                                              *)
Request(k, method, h) ==
    /\ status = "CONNECTED"
    /\ origin[k] = "none"
    /\ method = "ENSURE" => \A j \in channels : PeerProperty(j) # h
    /\ IF h = Self
       THEN /\ origin' = [origin EXCEPT ![k] = "failed"]
            /\ UNCHANGED <<channels, peer, session, call>>
       ELSE /\ origin' = [origin EXCEPT ![k] = method]
            /\ peer' = [peer EXCEPT ![k] = h]
            /\ session' = [session EXCEPT ![k] = "CREATED"]
            /\ NewCallChannel(k, "PENDING_INITIATOR")
    /\ UNCHANGED <<status, accepted, line, remoteHeld, actor, shownHeld,
                   heard, goodbye, silent, wiped>>

(* rakia_nua_i_invite_cb(): an INVITE without a valid sender is refused    *)
(* with 400, one from ourselves with 501.                                  *)
ReceiveInvite(k, from) ==
    /\ status = "CONNECTED"
    /\ origin[k] = "none"
    /\ IF from \in Contacts
       THEN /\ origin' = [origin EXCEPT ![k] = "INVITE"]
            /\ peer' = [peer EXCEPT ![k] = from]
            /\ session' = [session EXCEPT ![k] = "CREATED"]
            /\ line' = [line EXCEPT ![k] = "invited"]
       ELSE /\ origin' = [origin EXCEPT ![k] = "refused"]
            /\ UNCHANGED <<peer, session, line>>
    /\ UNCHANGED <<status, channels, accepted, remoteHeld, shown,
                   heard, goodbye, silent, wiped>>

(* Faulty variant: what the session cannot use is left to the stack.       *)
FirstMediaRefusedQuietly(k) ==
    UNCHANGED <<session, goodbye, silent>>

(* The INVITE has no media that the session can use.                       *)
FirstMediaRefused(k) == TerminateSilently(k, session[k])

(* The state event after the INVITE: the first media are known, and the    *)
(* channel is announced (incoming_call_cb), even after a disconnection.    *)
ReceiveFirstMedia(k) ==
    /\ line[k] = "invited"
    /\ line' = [line EXCEPT ![k] = "asking"]
    /\ \/ /\ FirstMediaRefused(k)
          /\ UNCHANGED <<channels, call>>
       \/ /\ session' = [session EXCEPT ![k] = "INVITE_RECEIVED"]
          /\ NewCallChannel(k, "INITIALISED")
          /\ UNCHANGED <<goodbye, silent>>
    /\ UNCHANGED <<status, peer, accepted, remoteHeld, actor, shownHeld,
                   origin, heard, wiped>>

-----------------------------------------------------------------------------
(* The client and its streams.                                             *)

(* telepathy-glib shows the acceptance, then the session is told.          *)
Accept(k) ==
    /\ call[k] = IF Requested(k) THEN "PENDING_INITIATOR" ELSE "INITIALISED"
    /\ call' = [call EXCEPT ![k] = IF Requested(k) THEN "INITIALISING" ELSE BothAccepted]
    /\ accepted' = [accepted EXCEPT ![k] = TRUE]
    /\ UNCHANGED <<manager, session, line, remoteHeld, actor, shownHeld, history>>

(* telepathy-glib shows the end, then rakia_call_channel_hangup() ends the *)
(* session.                                                                *)
EndBySelf(k) ==
    /\ Terminate({k})
    /\ call' = [call EXCEPT ![k] = "ENDED"]
    /\ actor' = [actor EXCEPT ![k] = "self"]
    /\ UNCHANGED <<manager, accepted, line, remoteHeld, shownHeld,
                   origin, heard, silent, wiped>>

Hangup(k) ==
    /\ k \in Open /\ call[k] # "ENDED"
    /\ EndBySelf(k)

(* A stream that cannot receive, and may not ask the peer to stop, hangs   *)
(* up (rakia_call_channel_hangup_error), whatever the call is.             *)
ReceivingFails(k) ==
    /\ k \in Open
    /\ ~MutableContents
    /\ EndBySelf(k)

Close(k) ==
    /\ k \in Open
    /\ CloseChannels({k})
    /\ UNCHANGED <<status, peer, accepted, line, remoteHeld, actor, shownHeld,
                   origin, heard, silent, wiped>>

(* All media are ready: the session sends its INVITE, or answers, or takes *)
(* the answer of the peer (priv_request_response_step).                    *)
MediaReady(k) ==
    /\ \/ /\ session[k] = "CREATED" /\ Requested(k)
          /\ ChangeState(k, "INVITE_SENT")
          /\ line' = [line EXCEPT ![k] = "called"]
       \/ /\ session[k] = "INVITE_RECEIVED" /\ accepted[k]
          /\ ChangeState(k, "ACTIVE")
          /\ line' = [line EXCEPT ![k] = IF @ = "asking" THEN "up" ELSE @]
       \/ /\ session[k] = "RESPONSE_RECEIVED" /\ accepted[k]
          /\ ChangeState(k, "ACTIVE")
          /\ UNCHANGED line
    /\ UNCHANGED <<manager, accepted, remoteHeld, actor, shownHeld, history>>

-----------------------------------------------------------------------------
(* The peer.                                                               *)

Ringing(k) ==
    /\ line[k] = "called" /\ Live(k)
    /\ RingingCb(k)
    /\ UNCHANGED <<manager, dialog, call, actor, origin, heard, goodbye, silent>>

(* A 183 with an answer: the session takes it like a final one.            *)
EarlyAnswer(k) ==
    /\ line[k] = "called" /\ session[k] = "INVITE_SENT"
    /\ heard' = [heard EXCEPT ![k] = "early"]
    /\ \/ /\ TerminateSilently(k, "RESPONSE_RECEIVED")
          /\ UNCHANGED <<call, remoteHeld, shownHeld, wiped>>
       \/ /\ ChangeState(k, "RESPONSE_RECEIVED")
          /\ \E held \in BOOLEAN : RemoteHold(k, held)
          /\ UNCHANGED <<goodbye, silent>>
    /\ UNCHANGED <<manager, accepted, line, actor, origin>>

(* The 200 OK; an answer heard before is not taken again.                  *)
Answer(k) ==
    /\ line[k] = "called" /\ Live(k)
    /\ line' = [line EXCEPT ![k] = "up"]
    /\ heard' = [heard EXCEPT ![k] = "answer"]
    /\ \/ /\ session[k] = "INVITE_SENT"
          /\ TerminateSilently(k, "RESPONSE_RECEIVED")
          /\ UNCHANGED <<accepted, call, remoteHeld, shownHeld, wiped>>
       \/ /\ session[k] = "INVITE_SENT"
          /\ ChangeState(k, "RESPONSE_RECEIVED")
          /\ accepted' = [accepted EXCEPT ![k] = TRUE]
          /\ \E held \in BOOLEAN : RemoteHold(k, held)
          /\ UNCHANGED <<goodbye, silent>>
       \/ /\ heard[k] = "early"
          /\ accepted' = [accepted EXCEPT ![k] = TRUE]
          /\ UNCHANGED <<session, call, remoteHeld, shownHeld, goodbye, silent, wiped>>
    /\ UNCHANGED <<manager, actor, origin>>

(* A re-INVITE of either side, and its end.  The description of the peer   *)
(* comes at the start or, when the re-INVITE is ours, at the end, and may  *)
(* hold or release the call; the session may not survive it, nor the       *)
(* refusal of its own re-INVITE.  The peer need not wait until we have     *)
(* taken its answer.                                                       *)
Reinvite(k) ==
    /\ session[k] \in {"ACTIVE", "RESPONSE_RECEIVED"} /\ line[k] = "up"
    /\ ChangeState(k, "REINVITE")
    /\ RemoteHoldMayCome(k)
    /\ UNCHANGED <<manager, accepted, line, actor, origin, heard, goodbye, silent>>

ReinviteEnds(k) ==
    /\ session[k] = "REINVITE"
    /\ \/ /\ ChangeState(k, "ACTIVE")
          /\ RemoteHoldMayCome(k)
          /\ UNCHANGED <<goodbye, silent>>
       \/ /\ TerminateSilently(k, session[k])
          /\ UNCHANGED <<call, remoteHeld, shownHeld, wiped>>
    /\ UNCHANGED <<manager, accepted, line, actor, origin, heard>>

(* The ACK of a re-INVITE without description brings the answer to ours,   *)
(* which the session takes like any description: a re-INVITE of its own    *)
(* that is open then goes on as if it was answered, and what it brings     *)
(* itself finds the session past it.                                       *)
LateDescription(k) ==
    /\ session[k] \in {"ACTIVE", "RESPONSE_RECEIVED", "REINVITE"} /\ line[k] = "up"
    /\ \/ /\ \/ session[k] = "REINVITE" /\ ChangeState(k, "RESPONSE_RECEIVED")
             \/ UNCHANGED <<session, call>>
          /\ RemoteHoldMayCome(k)
          /\ UNCHANGED <<goodbye, silent>>
       \/ /\ TerminateSilently(k, session[k])
          /\ UNCHANGED <<call, remoteHeld, shownHeld, wiped>>
    /\ UNCHANGED <<manager, accepted, line, actor, origin, heard>>

(* priv_nua_i_bye_cb() and priv_nua_i_cancel_cb(): the channel is told at  *)
(* once, the session by a later event.  The user may have acted on another *)
(* branch of a forked call: then the CANCEL says so.                       *)
PeerLeaves(k) ==
    /\ Live(k)
    /\ \/ /\ line[k] = "up"
          /\ line' = [line EXCEPT ![k] = "left"]
          /\ EndedCb(k, FALSE)
       \/ /\ line[k] = "asking"
          /\ line' = [line EXCEPT ![k] = "cancelled"]
          /\ \E elsewhere \in BOOLEAN : EndedCb(k, elsewhere)
    /\ UNCHANGED <<manager, session, accepted, remoteHeld, shownHeld,
                   origin, heard, goodbye, silent, wiped>>

(* Faulty variant: the failure is not told to the channel.                 *)
PeerErrorUnseen(k) == UNCHANGED <<call, actor>>

(* rakia_sip_session_peer_error().                                         *)
PeerError(k) == EndedCb(k, FALSE)

(* Faulty variant: a session whose end is shown is taken for ended.        *)
EndSessionUnlessShown(k) ==
    IF call[k] = "ENDED" THEN UNCHANGED <<session, line>>
    ELSE /\ session' = [session EXCEPT ![k] = "ENDED"]
         /\ line' = [line EXCEPT ![k] = "over"]

EndSession(k) ==
    /\ session' = [session EXCEPT ![k] = "ENDED"]
    /\ line' = [line EXCEPT ![k] = "over"]

(* priv_nua_i_state_cb() for a terminated line: only a failure is told to  *)
(* the channel, as the doing of the peer.                                  *)
Terminated(k, failed) ==
    /\ EndSession(k)
    /\ IF failed
       THEN PeerError(k) /\ UNCHANGED silent
       ELSE /\ silent' = IF line[k] \in {"left", "cancelled"} THEN silent ELSE silent \cup {k}
            /\ UNCHANGED <<call, actor>>
    /\ UNCHANGED <<manager, accepted, remoteHeld, shownHeld,
                   origin, heard, goodbye, wiped>>

(* NUA ends what the peer ended, and every line when its stack shuts down  *)
(* after the disconnection.                                                *)
LineEnds(k) ==
    /\ Live(k)
    /\ \/ /\ line[k] = "left"
          /\ Terminated(k, FALSE)
       \/ /\ \/ line[k] = "cancelled"
             \/ status = "DISCONNECTED" /\ line[k] # "invited"
          /\ \E failed \in BOOLEAN : Terminated(k, failed)

(* A final failure of our INVITE, or one of a re-INVITE that ends the      *)
(* dialog, also one that the session is past; a timeout is one.            *)
InviteFails(k) ==
    /\ Live(k)
    /\ \/ line[k] = "called"
       \/ line[k] = "up" /\ session[k] \in {"REINVITE", "RESPONSE_RECEIVED", "ACTIVE"}
    /\ Terminated(k, TRUE)

-----------------------------------------------------------------------------
Next ==
    \/ Connected
    \/ Disconnected
    \/ \E k \in Calls :
        \/ \E method \in Methods, h \in Contacts \cup {Self} : Request(k, method, h)
        \/ \E from \in Contacts \cup {Self, Nobody} : ReceiveInvite(k, from)
        \/ ReceiveFirstMedia(k)
        \/ Accept(k)
        \/ Hangup(k)
        \/ ReceivingFails(k)
        \/ Close(k)
        \/ MediaReady(k)
        \/ Ringing(k)
        \/ EarlyAnswer(k)
        \/ Answer(k)
        \/ Reinvite(k)
        \/ ReinviteEnds(k)
        \/ LateDescription(k)
        \/ PeerLeaves(k)
        \/ LineEnds(k)
        \/ InviteFails(k)

Spec == Init /\ [][Next]_vars

(* The stack delivers the events it has queued; nothing is asked of the    *)
(* client, its streams or the peers.                                       *)
FairSpec ==
    /\ Spec
    /\ \A k \in Calls :
        /\ WF_vars(ReceiveFirstMedia(k))
        /\ WF_vars(LineEnds(k))

-----------------------------------------------------------------------------
(* While connected, the manager lists exactly the channels the client was  *)
(* told of; a disconnection closes them all, and what is open after it is  *)
(* a call whose INVITE came before and its media after (incoming_call_cb). *)
ChannelsAreListed ==
    IF status = "DISCONNECTED"
    THEN channels = {} /\ \A k \in Open : origin[k] = "INVITE"
    ELSE channels = Open

(* A session that has ended is shown as ended, and nothing else is, but    *)
(* for two windows: the peer's BYE or CANCEL is shown before the session   *)
(* ends, and a session that ends by itself does not tell its channel       *)
(* (rakia_sip_session_terminate emits no "ended").                         *)
EndsAreShown ==
    \A k \in Open \ silent :
        call[k] = "ENDED" <=> session[k] = "ENDED" \/ line[k] \in {"left", "cancelled"}

(* A call that we ended on the line is shown as ended by ourselves, though *)
(* the CANCEL or BYE of the peer was shown before, or its failure comes    *)
(* after: a hang-up is the last word (ended_cb).                           *)
GoodbyeIsOurs ==
    \A k \in Open \ silent :
        call[k] = "ENDED" /\ goodbye[k] # "nothing" => actor[k] = "self"

(* The request or response that ends the line of a call as the line is.    *)
Fits(k, ending) ==
    /\ line[k] = "called" => ending = IF heard[k] = "early" THEN "BYE" ELSE "CANCEL"
    /\ line[k] = "asking" => ending = "response"
    /\ line[k] \in {"up", "left"} => ending = "BYE"
    /\ line[k] \in {"none", "over"} => ending = "nothing"

(* A call that the client, a stream or the disconnection ends is ended on  *)
(* the line as the line is: CANCEL for an INVITE of ours without answer,   *)
(* BYE once there is one, a response to an INVITE of the peer.  (What      *)
(* answers a cancelled INVITE is ignored.)                                 *)
GoodbyeFits ==
    \A k \in Calls \ silent : session[k] = "ENDED" => Fits(k, goodbye[k])

(* The client sees the peer's hold of a call, whenever it comes; except    *)
(* when the peer rings after it (ringing_cb).                              *)
HoldIsShown ==
    \A k \in Open \ wiped : shownHeld[k] = remoteHeld[k]

(* A call is active for the client only if the user took the peer's INVITE *)
(* or the peer answered ours.  The answer may be an early one: the session *)
(* does not wait for the final answer, as its state does not tell them     *)
(* apart.                                                                  *)
ActiveIsAnswered ==
    \A k \in Calls : call[k] = "ACTIVE" =>
        IF Requested(k) THEN heard[k] # "nothing" ELSE accepted[k]

(* Every INVITE of a contact becomes a channel or is over.                 *)
InvitesAreSettled ==
    \A k \in Calls : origin[k] = "INVITE" ~> (call[k] # "none" \/ session[k] = "ENDED")

(* The session ends when the peer leaves, and when the connection does;    *)
(* one whose channel was closed has ended before.                          *)
SessionsEnd ==
    \A k \in Calls :
        (status = "DISCONNECTED" \/ line[k] \in {"left", "cancelled"}) ~> ~Live(k)

(* EnsureChannel returns the open channel to the contact, if there is one. *)
EnsuredChannelIsReused ==
    [][\A k \in Calls :
          (origin[k] = "none" /\ origin'[k] = "ENSURE")
              => \A j \in channels : peer[j] # peer'[k]]_vars

-----------------------------------------------------------------------------
(* The call channels implement the service of CallService.                 *)
View(k) ==
    IF call[k] = "none" THEN "unknown"
    ELSE IF call[k] = "closed" THEN "closed"
    ELSE IF call[k] = "ACTIVE" THEN "active"
    ELSE IF call[k] = "ENDED" THEN "ended"
    ELSE "offered"

Line(k) ==
    IF session[k] = "ENDED" \/ line[k] \in {"left", "cancelled", "over"} THEN "gone"
    ELSE IF line[k] = "none" THEN "idle"
    ELSE IF line[k] = "up" THEN "up"
    ELSE "ringing"

Service == INSTANCE CallService WITH
    view <- [k \in Calls |-> View(k)],
    line <- [k \in Calls |-> Line(k)]

(* Every step of the channels is a step of the service or none at all.     *)
ImplementsCallService == Service!Spec
==============================================================================
