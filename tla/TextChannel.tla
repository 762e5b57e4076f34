---------------------------- MODULE TextChannel -----------------------------
(***************************************************************************)
(* Text channels and their manager: rakia/text-manager.c over              *)
(* rakia/text-channel.c, and the binding of NUA handles to the channels    *)
(* that rakia/event-target.c keeps.                                        *)
(*                                                                         *)
(* The manager has at most one channel per contact, made by a request of   *)
(* the client or by the first MESSAGE of the contact.  Each message of the *)
(* client gets a NUA handle of its own; the answer comes back as an event  *)
(* of that handle, in any order, possibly after an authentication round in *)
(* which the user is asked for a password, possibly after the channel is   *)
(* gone.  Everything runs in one GLib main loop, and signals call their    *)
(* handlers at once: an action is one entry from the loop.                 *)
(*                                                                         *)
(* A message stands for its text, its NUA handle and its delivery token;   *)
(* the queue of a channel is searched by handle, so it is a set here.      *)
(***************************************************************************)
EXTENDS Naturals, FiniteSets

CONSTANTS
    Contacts,       \* the contacts the client talks with
    Sends,          \* the messages of the client
    Incoming,       \* the MESSAGE requests of the contacts
    MaxChallenges   \* bound on the authentication rounds of one message

ASSUME TextAssumption ==
    /\ MaxChallenges \in Nat
    /\ Sends \cap Incoming = {}
    /\ "nobody" \notin Contacts

VARIABLES
    status,         \* of the connection
    listening,      \* the manager handles nua_i_message (message_received_id)
    channels,       \* contacts with a channel in the hash table of the manager
    announced,      \* contacts with a channel the client was told of
    sending,        \* sending_messages of each channel
    unread,         \* received messages the client has not acknowledged
    reports,        \* delivery reports the client has not acknowledged
    bound,          \* what the NUA handle of each message is bound to
    refs,           \* references we hold on that handle
    request         \* how far the MESSAGE request of the handle is

manager == <<status, listening, channels, announced>>
handles == <<bound, refs, request>>

(* History: what the two ends saw, for the properties alone.               *)
VARIABLES
    to,             \* whom a message was sent to or came from
    wants,          \* messages sent with the flag REPORT_DELIVERY
    answer,         \* the final answer of the peer to each message
    told,           \* the delivery reports the client got of each message
    replied,        \* our answer to each MESSAGE
    released,       \* messages the client acknowledged or gave up
    rounds          \* authentication rounds of each message

history == <<to, wants, answer, told, replied, released, rounds>>
vars == <<manager, sending, unread, reports, handles, history>>

Nobody == "nobody"
Status == {"NEW", "CONNECTING", "CONNECTED", "DISCONNECTED"}

TypeOK ==
    /\ status \in Status
    /\ listening \in BOOLEAN
    /\ channels \subseteq Contacts
    /\ announced \subseteq Contacts
    /\ sending \in [Contacts -> SUBSET Sends]
    /\ unread \in [Contacts -> SUBSET Incoming]
    /\ reports \in [Contacts -> SUBSET Sends]
    /\ bound \in [Sends -> {"nothing", "channel", "gone"}]
    /\ refs \in [Sends -> Nat]
    /\ request \in [Sends -> {"none", "sent", "prompt", "over"}]
    /\ to \in [Sends \cup Incoming -> Contacts \cup {Nobody}]
    /\ wants \subseteq Sends
    /\ answer \in [Sends -> {"none", "ok", "error", "unheard"}]
    /\ told \in [Sends -> [delivered : Nat, failed : Nat]]
    /\ replied \in [Incoming -> {"no", "200", "refused"}]
    /\ released \subseteq Incoming
    /\ rounds \in [Sends -> Nat]

Init ==
    /\ status = "NEW" /\ listening = FALSE
    /\ channels = {} /\ announced = {}
    /\ sending = [c \in Contacts |-> {}]
    /\ unread = [c \in Contacts |-> {}]
    /\ reports = [c \in Contacts |-> {}]
    /\ bound = [m \in Sends |-> "nothing"]
    /\ refs = [m \in Sends |-> 0]
    /\ request = [m \in Sends |-> "none"]
    /\ to = [x \in Sends \cup Incoming |-> Nobody]
    /\ wants = {}
    /\ answer = [m \in Sends |-> "none"]
    /\ told = [m \in Sends |-> [delivered |-> 0, failed |-> 0]]
    /\ replied = [i \in Incoming |-> "no"]
    /\ released = {}
    /\ rounds = [m \in Sends |-> 0]

-----------------------------------------------------------------------------
(* The lifetime of channels.                                               *)

(* A channel is made, put into the table and announced.                    *)
NewChannel(c) ==
    /\ channels' = channels \cup {c}
    /\ announced' = announced \cup {c}

(* Faulty variant: the handle of a channel that is gone stays attached.    *)
RetireHandleLater(m) == bound[m]

(* A finalized object retires the NUA handles attached to it: they are     *)
(* bound to an object that swallows late events, and lose a reference.     *)
Attached(C) == {m \in Sends : bound[m] = "channel" /\ to[m] \in C}
RetireHandle(m) == IF bound[m] = "channel" THEN "gone" ELSE bound[m]

(* Faulty variant: the attachment is released twice.                       *)
FreedWithBoth(m, C) ==
    (IF m \in Attached(C) THEN 2 ELSE 0)
        + (IF \E c \in C : m \in sending[c] THEN 1 ELSE 0)

(* The pending messages that finalize frees hold a reference each as well. *)
FreedWith(m, C) ==
    (IF m \in Attached(C) THEN 1 ELSE 0)
        + (IF \E c \in C : m \in sending[c] THEN 1 ELSE 0)

(* The channels of C lose their last reference: dispose, then finalize.    *)
Finalize(C) ==
    /\ bound' = [m \in Sends |-> IF m \in Attached(C) THEN RetireHandle(m) ELSE bound[m]]
    /\ refs' = [m \in Sends |-> refs[m] - FreedWith(m, C)]
    /\ sending' = [c \in Contacts |-> IF c \in C THEN {} ELSE sending[c]]
    /\ unread' = [c \in Contacts |-> IF c \in C THEN {} ELSE unread[c]]
    /\ reports' = [c \in Contacts |-> IF c \in C THEN {} ELSE reports[c]]

(* Faulty variant: a reopened channel is not announced again.              *)
ChannelClosedSilently(c, reallyDestroyed) ==
    /\ announced' = announced \ {c}
    /\ IF reallyDestroyed
       THEN channels' = channels \ {c} /\ Finalize({c})
       ELSE UNCHANGED <<channels, bound, refs, sending, unread, reports>>

(* Faulty variant: a destroyed channel stays in the table.                 *)
ChannelClosedInTable(c, reallyDestroyed) ==
    IF reallyDestroyed
    THEN UNCHANGED <<announced, channels>> /\ Finalize({c})
    ELSE UNCHANGED <<announced, channels, bound, refs, sending, unread, reports>>

(* The handler of the signal "closed": a channel that was destroyed leaves *)
(* the table, one that was reopened is announced again.                    *)
ChannelClosed(c, reallyDestroyed) ==
    IF reallyDestroyed
    THEN /\ announced' = announced \ {c}
         /\ channels' = channels \ {c}
         /\ Finalize({c})
    ELSE /\ announced' = (announced \ {c}) \cup {c}
         /\ UNCHANGED <<channels, bound, refs, sending, unread, reports>>

(* Faulty variant: Close looks at the reports alone.                       *)
HasPendingReports(c) == reports[c] # {}

HasPendingMessages(c) == unread[c] # {} \/ reports[c] # {}

-----------------------------------------------------------------------------
(* The connection, and what the manager does of its status.                *)

Connecting ==
    /\ status = "NEW"
    /\ status' = "CONNECTING"
    /\ listening' = TRUE
    /\ UNCHANGED <<channels, announced, sending, unread, reports, handles, history>>

Registered ==
    /\ status = "CONNECTING"
    /\ status' = "CONNECTED"
    /\ UNCHANGED <<listening, channels, announced, sending, unread, reports,
                   handles, history>>

(* The client disconnects or the registration fails.  The table is dropped *)
(* first, so each channel is closed by its disposal, whatever is pending.  *)
CloseAll ==
    /\ channels' = {}
    /\ announced' = announced \ channels
    /\ Finalize(channels)

Disconnected ==
    /\ status \in {"CONNECTING", "CONNECTED"}
    /\ status' = "DISCONNECTED"
    /\ listening' = FALSE
    /\ CloseAll
    /\ released' = released \cup UNION {unread[c] : c \in Contacts}
    /\ UNCHANGED <<request, to, wants, answer, told, replied, rounds>>

-----------------------------------------------------------------------------
(* The client.                                                             *)

(* CreateChannel, RequestChannel and EnsureChannel; with a channel in the  *)
(* table the request fails or is satisfied, and nothing changes.           *)
RequestChannel(c) ==
    /\ status = "CONNECTED"
    /\ c \notin channels
    /\ NewChannel(c)
    /\ UNCHANGED <<status, listening, sending, unread, reports, handles, history>>

(* A message that is not plain text, or has no handle, fails at once and   *)
(* leaves nothing.  Else its handle, of which create_handle and the        *)
(* attachment to the channel hold a reference each, waits for the answer.  *)
SendMessage(m, c, report) ==
    /\ c \in channels
    /\ to[m] = Nobody
    /\ bound' = [bound EXCEPT ![m] = "channel"]
    /\ refs' = [refs EXCEPT ![m] = 2]
    /\ request' = [request EXCEPT ![m] = "sent"]
    /\ sending' = [sending EXCEPT ![c] = @ \cup {m}]
    /\ to' = [to EXCEPT ![m] = c]
    /\ wants' = IF report THEN wants \cup {m} ELSE wants
    /\ UNCHANGED <<manager, unread, reports, answer, told, replied, released, rounds>>

(* AcknowledgePendingMessages, of a message or of a report.                *)
AcknowledgeMessage(i, c) ==
    /\ i \in unread[c]
    /\ unread' = [unread EXCEPT ![c] = @ \ {i}]
    /\ released' = released \cup {i}
    /\ UNCHANGED <<manager, sending, reports, handles,
                   to, wants, answer, told, replied, rounds>>

AcknowledgeReport(m, c) ==
    /\ m \in reports[c]
    /\ reports' = [reports EXCEPT ![c] = @ \ {m}]
    /\ UNCHANGED <<manager, sending, unread, handles, history>>

(* Close: only a channel without pending messages really closes.           *)
Close(c) ==
    /\ c \in channels
    /\ ChannelClosed(c, ~HasPendingMessages(c))
    /\ UNCHANGED <<status, listening, request, history>>

(* Destroy: the pending messages are cleared, then the channel closes.     *)
Destroy(c) ==
    /\ c \in channels
    /\ released' = released \cup unread[c]
    /\ ChannelClosed(c, TRUE)
    /\ UNCHANGED <<status, listening, request,
                   to, wants, answer, told, replied, rounds>>

-----------------------------------------------------------------------------
(* Events of the NUA stack.                                                *)

(* Faulty variant: the answer settles any message of the queue.            *)
FoundAny(c, m) == sending[c]

(* The answer is looked for by its handle.                                 *)
Found(c, m) == {s \in sending[c] : s = m}

(* A final answer that the authentication did not take.  A success is      *)
(* reported if the client asked for it, a failure always; the report is a  *)
(* received message of the channel.                                        *)
DeliveryReported(c, m, good) ==
    IF good /\ m \notin wants
    THEN UNCHANGED <<reports, told>>
    ELSE /\ reports' = [reports EXCEPT ![c] = @ \cup {m}]
         /\ told' = IF good THEN [told EXCEPT ![m].delivered = @ + 1]
                            ELSE [told EXCEPT ![m].failed = @ + 1]

(* Faulty variant: a failed message stays in the queue.                    *)
FinalAnswerOfSuccess(c, m, good) ==
    IF Found(c, m) = {} \/ ~good
    THEN UNCHANGED <<sending, reports, told, refs>>
    ELSE /\ DeliveryReported(c, m, good)
         /\ sending' = [sending EXCEPT ![c] = @ \ {m}]
         /\ refs' = [refs EXCEPT ![m] = @ - 1]

FinalAnswer(c, m, good) ==
    IF Found(c, m) = {}
    THEN UNCHANGED <<sending, reports, told, refs>>
    ELSE LET pending == CHOOSE s \in Found(c, m) : TRUE
         IN /\ DeliveryReported(c, pending, good)
            /\ sending' = [sending EXCEPT ![c] = @ \ {pending}]
            /\ refs' = [refs EXCEPT ![pending] = @ - 1]

(* nua_r_message at a channel that is alive.                               *)
MessageAnswered(m, good) ==
    /\ request[m] = "sent"
    /\ bound[m] = "channel"
    /\ request' = [request EXCEPT ![m] = "over"]
    /\ answer' = [answer EXCEPT ![m] = IF good THEN "ok" ELSE "error"]
    /\ FinalAnswer(to[m], m, good)
    /\ UNCHANGED <<manager, unread, bound, to, wants, replied, released, rounds>>

(* The same at a retired handle: nobody minds a late event.                *)
LateAnswer(m) ==
    /\ request[m] = "sent"
    /\ bound[m] = "gone"
    /\ request' = [request EXCEPT ![m] = "over"]
    /\ answer' = [answer EXCEPT ![m] = "unheard"]
    /\ UNCHANGED <<manager, sending, unread, reports, bound, refs,
                   to, wants, told, replied, released, rounds>>

(* A challenge goes to the authentication handler, connected before the    *)
(* channel's own: it answers with the password it has, or asks for one and *)
(* keeps a reference on the handle until it gets it.                       *)
Challenged(m) ==
    /\ request[m] = "sent"
    /\ bound[m] = "channel"
    /\ rounds[m] < MaxChallenges
    /\ rounds' = [rounds EXCEPT ![m] = @ + 1]
    /\ \/ UNCHANGED <<request, refs>>
       \/ /\ request' = [request EXCEPT ![m] = "prompt"]
          /\ refs' = [refs EXCEPT ![m] = @ + 1]
    /\ UNCHANGED <<manager, sending, unread, reports, bound,
                   to, wants, answer, told, replied, released>>

(* The password comes, or the prompt fails and a blank one is used; after  *)
(* the shutdown of the stack the request goes nowhere.                     *)
PasswordArrives(m) ==
    /\ request[m] = "prompt"
    /\ request' = [request EXCEPT ![m] = IF status = "DISCONNECTED" THEN "over" ELSE "sent"]
    /\ refs' = [refs EXCEPT ![m] = @ - 1]
    /\ UNCHANGED <<manager, sending, unread, reports, bound, history>>

(* A MESSAGE: what is not plain text in a known character set from a valid *)
(* address is refused; the rest is answered with 200 before it is put into *)
(* the channel of its sender, which is made if need be.                    *)
MessageReceived(i, c, fit) ==
    /\ listening
    /\ replied[i] = "no"
    /\ IF fit
       THEN /\ replied' = [replied EXCEPT ![i] = "200"]
            /\ to' = [to EXCEPT ![i] = c]
            /\ IF c \in channels THEN UNCHANGED <<channels, announced>> ELSE NewChannel(c)
            /\ unread' = [unread EXCEPT ![c] = @ \cup {i}]
       ELSE /\ replied' = [replied EXCEPT ![i] = "refused"]
            /\ UNCHANGED <<to, channels, announced, unread>>
    /\ UNCHANGED <<status, listening, sending, reports, handles,
                   wants, answer, told, released, rounds>>

-----------------------------------------------------------------------------
Next ==
    \/ Connecting \/ Registered \/ Disconnected
    \/ \E c \in Contacts : RequestChannel(c) \/ Close(c) \/ Destroy(c)
    \/ \E m \in Sends, c \in Contacts :
          \/ \E report \in BOOLEAN : SendMessage(m, c, report)
          \/ AcknowledgeReport(m, c)
    \/ \E i \in Incoming, c \in Contacts :
          \/ \E fit \in BOOLEAN : MessageReceived(i, c, fit)
          \/ AcknowledgeMessage(i, c)
    \/ \E m \in Sends :
          \/ \E good \in BOOLEAN : MessageAnswered(m, good)
          \/ LateAnswer(m) \/ Challenged(m) \/ PasswordArrives(m)

Spec == Init /\ [][Next]_vars

(* NUA reports a final answer of every request, 408 if the peer is silent, *)
(* and a prompt for a password ends with one or with an error.             *)
Fairness ==
    \A m \in Sends :
        /\ WF_vars((\E good \in BOOLEAN : MessageAnswered(m, good)) \/ LateAnswer(m))
        /\ WF_vars(PasswordArrives(m))

FairSpec == Spec /\ Fairness

-----------------------------------------------------------------------------
(* Properties.                                                             *)

(* Each pointer to a NUA handle that the process keeps, in the queue of a  *)
(* channel (rakia_text_pending_free), in the binding of the channel        *)
(* (rakia_event_target_attach) and in a password request, owns one         *)
(* reference, and there are no other references: a handle is neither used  *)
(* after it was freed nor kept by a channel that is gone, whatever the     *)
(* order of answers, prompts, closing and disconnection.                   *)
References(m) ==
    (IF \E c \in Contacts : m \in sending[c] THEN 1 ELSE 0)
        + (IF bound[m] = "channel" THEN 1 ELSE 0)
        + (IF request[m] = "prompt" THEN 1 ELSE 0)
HandlesAreReferenced == \A m \in Sends : refs[m] = References(m)

(* The client learns the fate of each message once and truly: a message    *)
(* with a final answer that its channel heard was reported as that answer  *)
(* says (rakia_text_channel_nua_r_message_cb), all others not at all, in   *)
(* whatever order the answers come.                                        *)
ReportsAreTrue ==
    \A m \in Sends :
        told[m] = [delivered |-> IF answer[m] = "ok" /\ m \in wants THEN 1 ELSE 0,
                   failed |-> IF answer[m] = "error" THEN 1 ELSE 0]

(* A message that was answered with 200 stays in a channel that the client *)
(* was told of until the client acknowledges it, destroys the channel or   *)
(* the connection ends; in particular Close never loses it.                *)
AcceptedMessagesAreKept ==
    \A i \in Incoming :
        (replied[i] = "200" /\ i \notin released)
            => /\ i \in unread[to[i]]
               /\ to[i] \in channels \cap announced

(* The client knows of exactly the channels in the table, whoever closes,  *)
(* reopens or replaces them (channel_closed, rakia_text_manager_close_all). *)
ClientKnowsChannels == announced = channels

(* Every message leaves the queue: it is answered or its channel goes.     *)
(* That a prompt for the password ends is assumed of the client, as that a *)
(* request is answered is assumed of NUA: the code sets no limit to either.*)
MessagesAreSettled ==
    \A m \in Sends : (\E c \in Contacts : m \in sending[c])
                        ~> (\A c \in Contacts : m \notin sending[c])

-----------------------------------------------------------------------------
(* The text channels implement the service of TextService.                 *)
Out(m) ==
    IF to[m] = Nobody THEN "idle"
    ELSE IF \E c \in Contacts : m \in sending[c] THEN "pending"
    ELSE IF told[m].failed > 0 THEN "failed"
    ELSE IF told[m].delivered > 0 \/ (answer[m] = "ok" /\ m \notin wants)
    THEN "delivered" ELSE "lost"

In(i) ==
    IF replied[i] = "no" THEN "waiting"
    ELSE IF replied[i] = "refused" THEN "refused"
    ELSE IF i \in released THEN "released"
    ELSE IF \E c \in Contacts : i \in unread[c] THEN "unread" ELSE "vanished"

Service == INSTANCE TextService WITH
    talking <- channels,
    out <- [m \in Sends |-> Out(m)],
    in <- [i \in Incoming |-> In(i)],
    with <- to

(* Every step of the channels is a step of the service or none at all.     *)
ImplementsTextService == Service!Spec
=============================================================================
