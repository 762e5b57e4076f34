------------------------- MODULE TextChannelProofs -------------------------
(***************************************************************************)
(* Proofs about TextChannel, for any contacts, messages and bounds.        *)
(*                                                                         *)
(* None of the invariants is inductive: that an answer finds its message   *)
(* in the queue, and that a reference is there to be released, depends on  *)
(* how the queue, the binding of the handle and the progress of the        *)
(* request go together.  Inv says how.                                     *)
(***************************************************************************)
EXTENDS TextChannel, TLAPS

(* A message has no handle until it is sent.                               *)
IdleMessages ==
    \A m \in Sends :
        to[m] = Nobody =>
            /\ bound[m] = "nothing"
            /\ request[m] = "none"
            /\ answer[m] = "none"
            /\ m \notin wants

(* The queue of a channel holds its messages without an answer.            *)
QueueIsPending ==
    \A m \in Sends, c \in Contacts :
        m \in sending[c] => to[m] = c /\ bound[m] = "channel" /\ answer[m] = "none"

(* As long as the channel lives, its messages without an answer are there. *)
PendingIsQueued ==
    \A m \in Sends :
        bound[m] = "channel" =>
            /\ to[m] \in channels
            /\ answer[m] = "none" => m \in sending[to[m]]

AnswersEndRequests ==
    \A m \in Sends : answer[m] # "none" => request[m] = "over"

(* Nothing is kept for a channel that is not there.                        *)
ChannelsOnly ==
    \A c \in Contacts :
        c \notin channels => sending[c] = {} /\ unread[c] = {} /\ reports[c] = {}

(* The received messages of a channel are its contact's, accepted, and not *)
(* yet released.                                                           *)
UnreadIsAccepted ==
    \A i \in Incoming, c \in Contacts :
        i \in unread[c] => to[i] = c /\ replied[i] = "200" /\ i \notin released

AcceptedHaveSender ==
    \A i \in Incoming :
        /\ replied[i] = "200" => to[i] \in Contacts
        /\ i \in released => replied[i] = "200"

Inv ==
    /\ TypeOK
    /\ IdleMessages /\ QueueIsPending /\ PendingIsQueued /\ AnswersEndRequests
    /\ ChannelsOnly /\ UnreadIsAccepted /\ AcceptedHaveSender
    /\ HandlesAreReferenced /\ ReportsAreTrue
    /\ AcceptedMessagesAreKept /\ ClientKnowsChannels

-----------------------------------------------------------------------------
(* Two facts that several actions rest on.                                 *)

FinalizedType ==
    /\ sending \in [Contacts -> SUBSET Sends]
    /\ unread \in [Contacts -> SUBSET Incoming]
    /\ reports \in [Contacts -> SUBSET Sends]
    /\ bound \in [Sends -> {"nothing", "channel", "gone"}]
    /\ refs \in [Sends -> Nat]

(* The end of channels releases exactly the references they own.           *)
LEMMA FinalizeReleases ==
    ASSUME Inv, NEW C \in SUBSET channels, Finalize(C), request' = request
    PROVE  FinalizedType' /\ HandlesAreReferenced'
  <1>1. ASSUME NEW m \in Sends
        PROVE  /\ bound'[m] \in {"nothing", "channel", "gone"}
               /\ refs'[m] = References(m)'
    <2> DEFINE queued == \E c \in Contacts : m \in sending[c]
    <2>1. refs[m] = References(m) /\ bound[m] \in {"nothing", "channel", "gone"}
      BY DEF Inv, TypeOK, HandlesAreReferenced
    <2>2. queued => bound[m] = "channel" /\ m \in sending[to[m]]
      BY DEF Inv, QueueIsPending
    <2>3. C \subseteq Contacts
      BY DEF Inv, TypeOK
    <2>4. CASE m \in Attached(C)
      <3>1. bound'[m] = "gone"
        BY <2>4 DEF Finalize, RetireHandle, Attached
      <3>2. ~ \E c \in Contacts : m \in sending'[c]
        BY <2>3, <2>4 DEF Finalize, Attached, Inv, QueueIsPending
      <3>3. (\E c \in C : m \in sending[c]) <=> queued
        BY <2>2, <2>3, <2>4 DEF Attached, Inv, QueueIsPending
      <3>4. refs'[m] = refs[m] - FreedWith(m, C)
        BY DEF Finalize
      <3> QED
        BY <2>1, <2>4, <3>1, <3>2, <3>3, <3>4 DEF FreedWith, References, Attached
    <2>5. CASE m \notin Attached(C)
      <3>1. bound'[m] = bound[m]
        BY <2>5 DEF Finalize
      <3>2. ~ \E c \in C : m \in sending[c]
        BY <2>3, <2>5 DEF Attached, Inv, QueueIsPending
      <3>3. (\E c \in Contacts : m \in sending'[c]) <=> queued
        BY <2>3, <3>2 DEF Finalize
      <3>4. refs'[m] = refs[m]
        BY <2>1, <2>5, <3>2 DEF Finalize, FreedWith, References
      <3> QED
        BY <2>1, <3>1, <3>3, <3>4 DEF References
    <2> QED
      BY <2>4, <2>5
  <1>2. \A m \in Sends : refs'[m] \in Nat
    BY <1>1 DEF References
  <1>3. sending' \in [Contacts -> SUBSET Sends] /\ reports' \in [Contacts -> SUBSET Sends]
    BY DEF Finalize, Inv, TypeOK
  <1>4. unread' \in [Contacts -> SUBSET Incoming]
    BY DEF Finalize, Inv, TypeOK
  <1>5. /\ bound' \in [Sends -> {"nothing", "channel", "gone"}]
        /\ refs' \in [Sends -> Nat]
    BY <1>1, <1>2 DEF Finalize
  <1> QED
    BY <1>1, <1>3, <1>4, <1>5 DEF FinalizedType, HandlesAreReferenced

(* An answer at a living channel finds its own message in the queue.       *)
LEMMA AnswerSettles ==
    ASSUME Inv, NEW m \in Sends, NEW good \in BOOLEAN, MessageAnswered(m, good)
    PROVE  /\ to[m] \in Contacts
           /\ answer[m] = "none"
           /\ m \in sending[to[m]]
           /\ bound[m] = "channel" /\ request[m] = "sent"
           /\ DeliveryReported(to[m], m, good)
           /\ sending' = [sending EXCEPT ![to[m]] = @ \ {m}]
           /\ refs' = [refs EXCEPT ![m] = @ - 1]
  <1>1. bound[m] = "channel" /\ request[m] = "sent" /\ FinalAnswer(to[m], m, good)
    BY DEF MessageAnswered
  <1>2. answer[m] = "none"
    BY <1>1 DEF Inv, AnswersEndRequests
  <1>3. to[m] \in Contacts /\ m \in sending[to[m]]
    BY <1>1, <1>2 DEF Inv, TypeOK, PendingIsQueued
  <1>4. Found(to[m], m) = {m}
    BY <1>3 DEF Found
  <1>5. (CHOOSE s \in {m} : TRUE) = m
    OBVIOUS
  <1> QED
    BY <1>1, <1>2, <1>3, <1>4, <1>5 DEF FinalAnswer

-----------------------------------------------------------------------------
(* One lemma per action.                                                   *)

LEMMA ConnectingKeepsInv ==
    ASSUME Inv, Connecting
    PROVE  Inv'
  <1>1. TypeOK'
    BY DEF Connecting, Inv, handles, history, TypeOK, Status
  <1>2. IdleMessages'
    BY DEF Connecting, Inv, handles, history, TypeOK, IdleMessages
  <1>3. QueueIsPending'
    BY DEF Connecting, Inv, handles, history, TypeOK, QueueIsPending
  <1>4. PendingIsQueued'
    BY DEF Connecting, Inv, handles, history, TypeOK, PendingIsQueued
  <1>5. AnswersEndRequests'
    BY DEF Connecting, Inv, handles, history, TypeOK, AnswersEndRequests
  <1>6. ChannelsOnly'
    BY DEF Connecting, Inv, handles, history, TypeOK, ChannelsOnly
  <1>7. UnreadIsAccepted'
    BY DEF Connecting, Inv, handles, history, TypeOK, UnreadIsAccepted
  <1>8. AcceptedHaveSender'
    BY DEF Connecting, Inv, handles, history, TypeOK, AcceptedHaveSender
  <1>9. HandlesAreReferenced'
    BY DEF Connecting, Inv, handles, history, TypeOK, HandlesAreReferenced,
       References
  <1>10. ReportsAreTrue'
    BY DEF Connecting, Inv, handles, history, TypeOK, ReportsAreTrue
  <1>11. AcceptedMessagesAreKept'
    BY DEF Connecting, Inv, handles, history, TypeOK, AcceptedMessagesAreKept
  <1>12. ClientKnowsChannels'
    BY DEF Connecting, Inv, handles, history, TypeOK, ClientKnowsChannels
  <1> QED
    BY <1>1, <1>2, <1>3, <1>4, <1>5, <1>6, <1>7, <1>8, <1>9, <1>10, <1>11, <1>12
       DEF Inv

LEMMA RegisteredKeepsInv ==
    ASSUME Inv, Registered
    PROVE  Inv'
  <1>1. TypeOK'
    BY DEF Registered, Inv, handles, history, TypeOK, Status
  <1>2. IdleMessages'
    BY DEF Registered, Inv, handles, history, TypeOK, IdleMessages
  <1>3. QueueIsPending'
    BY DEF Registered, Inv, handles, history, TypeOK, QueueIsPending
  <1>4. PendingIsQueued'
    BY DEF Registered, Inv, handles, history, TypeOK, PendingIsQueued
  <1>5. AnswersEndRequests'
    BY DEF Registered, Inv, handles, history, TypeOK, AnswersEndRequests
  <1>6. ChannelsOnly'
    BY DEF Registered, Inv, handles, history, TypeOK, ChannelsOnly
  <1>7. UnreadIsAccepted'
    BY DEF Registered, Inv, handles, history, TypeOK, UnreadIsAccepted
  <1>8. AcceptedHaveSender'
    BY DEF Registered, Inv, handles, history, TypeOK, AcceptedHaveSender
  <1>9. HandlesAreReferenced'
    BY DEF Registered, Inv, handles, history, TypeOK, HandlesAreReferenced,
       References
  <1>10. ReportsAreTrue'
    BY DEF Registered, Inv, handles, history, TypeOK, ReportsAreTrue
  <1>11. AcceptedMessagesAreKept'
    BY DEF Registered, Inv, handles, history, TypeOK, AcceptedMessagesAreKept
  <1>12. ClientKnowsChannels'
    BY DEF Registered, Inv, handles, history, TypeOK, ClientKnowsChannels
  <1> QED
    BY <1>1, <1>2, <1>3, <1>4, <1>5, <1>6, <1>7, <1>8, <1>9, <1>10, <1>11, <1>12
       DEF Inv

LEMMA DisconnectedKeepsInv ==
    ASSUME Inv, Disconnected
    PROVE  Inv'
  <1>1. TypeOK'
    <2>1. Finalize(channels) /\ request' = request
      BY DEF Disconnected, CloseAll
    <2>2. /\ FinalizedType' /\ channels \subseteq Contacts
      BY <2>1, FinalizeReleases DEF Inv, TypeOK
    <2>3. UNION {unread[c] : c \in Contacts} \subseteq Incoming
      BY DEF Inv, TypeOK
    <2> QED
      BY <2>2, <2>3 DEF Disconnected, CloseAll, Inv, TypeOK, Status, FinalizedType
  <1>2. IdleMessages'
    BY DEF Disconnected, CloseAll, Finalize, FreedWith, Attached, RetireHandle,
       Inv, TypeOK, IdleMessages
  <1>3. QueueIsPending'
    BY DEF Disconnected, CloseAll, Finalize, FreedWith, Attached, RetireHandle,
       Inv, TypeOK, QueueIsPending
  <1>4. PendingIsQueued'
    BY DEF Disconnected, CloseAll, Finalize, FreedWith, Attached, RetireHandle,
       Inv, TypeOK, PendingIsQueued
  <1>5. AnswersEndRequests'
    BY DEF Disconnected, CloseAll, Finalize, FreedWith, Attached, RetireHandle,
       Inv, TypeOK, AnswersEndRequests
  <1>6. ChannelsOnly'
    BY DEF Disconnected, CloseAll, Finalize, FreedWith, Attached, RetireHandle,
       Inv, TypeOK, ChannelsOnly
  <1>7. UnreadIsAccepted'
    BY DEF Disconnected, CloseAll, Finalize, FreedWith, Attached, RetireHandle,
       Inv, TypeOK, UnreadIsAccepted, ChannelsOnly
  <1>8. AcceptedHaveSender'
    BY DEF Disconnected, CloseAll, Finalize, FreedWith, Attached, RetireHandle,
       Inv, TypeOK, AcceptedHaveSender, UnreadIsAccepted
  <1>9. HandlesAreReferenced'
    <2>1. Finalize(channels) /\ request' = request
      BY DEF Disconnected, CloseAll
    <2> QED
      BY <2>1, FinalizeReleases DEF Inv, TypeOK
  <1>10. ReportsAreTrue'
    BY DEF Disconnected, CloseAll, Finalize, FreedWith, Attached, RetireHandle,
       Inv, TypeOK, ReportsAreTrue
  <1>11. AcceptedMessagesAreKept'
    BY DEF Disconnected, CloseAll, Finalize, FreedWith, Attached, RetireHandle,
       Inv, TypeOK, AcceptedMessagesAreKept
  <1>12. ClientKnowsChannels'
    BY DEF Disconnected, CloseAll, Finalize, FreedWith, Attached, RetireHandle,
       Inv, TypeOK, ClientKnowsChannels
  <1> QED
    BY <1>1, <1>2, <1>3, <1>4, <1>5, <1>6, <1>7, <1>8, <1>9, <1>10, <1>11, <1>12
       DEF Inv

LEMMA RequestChannelKeepsInv ==
    ASSUME Inv, NEW c \in Contacts, RequestChannel(c)
    PROVE  Inv'
  <1>1. TypeOK'
    BY DEF RequestChannel, NewChannel, Inv, handles, history, TypeOK, Status
  <1>2. IdleMessages'
    BY DEF RequestChannel, NewChannel, Inv, handles, history, TypeOK,
       IdleMessages
  <1>3. QueueIsPending'
    BY DEF RequestChannel, NewChannel, Inv, handles, history, TypeOK,
       QueueIsPending
  <1>4. PendingIsQueued'
    BY DEF RequestChannel, NewChannel, Inv, handles, history, TypeOK,
       PendingIsQueued
  <1>5. AnswersEndRequests'
    BY DEF RequestChannel, NewChannel, Inv, handles, history, TypeOK,
       AnswersEndRequests
  <1>6. ChannelsOnly'
    BY DEF RequestChannel, NewChannel, Inv, handles, history, TypeOK,
       ChannelsOnly
  <1>7. UnreadIsAccepted'
    BY DEF RequestChannel, NewChannel, Inv, handles, history, TypeOK,
       UnreadIsAccepted
  <1>8. AcceptedHaveSender'
    BY DEF RequestChannel, NewChannel, Inv, handles, history, TypeOK,
       AcceptedHaveSender
  <1>9. HandlesAreReferenced'
    BY DEF RequestChannel, NewChannel, Inv, handles, history, TypeOK,
       HandlesAreReferenced, References
  <1>10. ReportsAreTrue'
    BY DEF RequestChannel, NewChannel, Inv, handles, history, TypeOK,
       ReportsAreTrue
  <1>11. AcceptedMessagesAreKept'
    BY DEF RequestChannel, NewChannel, Inv, handles, history, TypeOK,
       AcceptedMessagesAreKept
  <1>12. ClientKnowsChannels'
    BY DEF RequestChannel, NewChannel, Inv, handles, history, TypeOK,
       ClientKnowsChannels
  <1> QED
    BY <1>1, <1>2, <1>3, <1>4, <1>5, <1>6, <1>7, <1>8, <1>9, <1>10, <1>11, <1>12
       DEF Inv

LEMMA SendMessageKeepsInv ==
    ASSUME Inv, NEW m \in Sends, NEW c \in Contacts, NEW report \in BOOLEAN, SendMessage(m, c, report)
    PROVE  Inv'
  <1>1. TypeOK'
    BY TextAssumption DEF SendMessage, Inv, manager, TypeOK, Status, Nobody,
       TextAssumption
  <1>2. IdleMessages'
    BY TextAssumption DEF SendMessage, Inv, manager, TypeOK, IdleMessages,
       Nobody, TextAssumption
  <1>3. QueueIsPending'
    BY TextAssumption DEF SendMessage, Inv, manager, TypeOK, QueueIsPending,
       Nobody, TextAssumption, IdleMessages
  <1>4. PendingIsQueued'
    BY TextAssumption DEF SendMessage, Inv, manager, TypeOK, PendingIsQueued,
       Nobody, TextAssumption
  <1>5. AnswersEndRequests'
    BY TextAssumption DEF SendMessage, Inv, manager, TypeOK,
       AnswersEndRequests, Nobody, TextAssumption, IdleMessages
  <1>6. ChannelsOnly'
    BY TextAssumption DEF SendMessage, Inv, manager, TypeOK, ChannelsOnly,
       Nobody, TextAssumption
  <1>7. UnreadIsAccepted'
    BY TextAssumption DEF SendMessage, Inv, manager, TypeOK, UnreadIsAccepted,
       Nobody, TextAssumption
  <1>8. AcceptedHaveSender'
    BY TextAssumption DEF SendMessage, Inv, manager, TypeOK,
       AcceptedHaveSender, Nobody, TextAssumption
  <1>9. HandlesAreReferenced'
    BY TextAssumption DEF SendMessage, Inv, manager, TypeOK,
       HandlesAreReferenced, References, Nobody, TextAssumption
  <1>10. ReportsAreTrue'
    BY TextAssumption DEF SendMessage, Inv, manager, TypeOK, ReportsAreTrue,
       Nobody, TextAssumption, IdleMessages
  <1>11. AcceptedMessagesAreKept'
    BY TextAssumption DEF SendMessage, Inv, manager, TypeOK,
       AcceptedMessagesAreKept, Nobody, TextAssumption
  <1>12. ClientKnowsChannels'
    BY TextAssumption DEF SendMessage, Inv, manager, TypeOK,
       ClientKnowsChannels, Nobody, TextAssumption
  <1> QED
    BY <1>1, <1>2, <1>3, <1>4, <1>5, <1>6, <1>7, <1>8, <1>9, <1>10, <1>11, <1>12
       DEF Inv

LEMMA AcknowledgeMessageKeepsInv ==
    ASSUME Inv, NEW i \in Incoming, NEW c \in Contacts, AcknowledgeMessage(i, c)
    PROVE  Inv'
  <1>1. TypeOK'
    BY DEF AcknowledgeMessage, Inv, manager, handles, TypeOK, Status
  <1>2. IdleMessages'
    BY DEF AcknowledgeMessage, Inv, manager, handles, TypeOK, IdleMessages
  <1>3. QueueIsPending'
    BY DEF AcknowledgeMessage, Inv, manager, handles, TypeOK, QueueIsPending
  <1>4. PendingIsQueued'
    BY DEF AcknowledgeMessage, Inv, manager, handles, TypeOK, PendingIsQueued
  <1>5. AnswersEndRequests'
    BY DEF AcknowledgeMessage, Inv, manager, handles, TypeOK,
       AnswersEndRequests
  <1>6. ChannelsOnly'
    BY DEF AcknowledgeMessage, Inv, manager, handles, TypeOK, ChannelsOnly
  <1>7. UnreadIsAccepted'
    BY DEF AcknowledgeMessage, Inv, manager, handles, TypeOK, UnreadIsAccepted
  <1>8. AcceptedHaveSender'
    BY DEF AcknowledgeMessage, Inv, manager, handles, TypeOK,
       AcceptedHaveSender, UnreadIsAccepted
  <1>9. HandlesAreReferenced'
    BY DEF AcknowledgeMessage, Inv, manager, handles, TypeOK,
       HandlesAreReferenced, References
  <1>10. ReportsAreTrue'
    BY DEF AcknowledgeMessage, Inv, manager, handles, TypeOK, ReportsAreTrue
  <1>11. AcceptedMessagesAreKept'
    BY DEF AcknowledgeMessage, Inv, manager, handles, TypeOK,
       AcceptedMessagesAreKept
  <1>12. ClientKnowsChannels'
    BY DEF AcknowledgeMessage, Inv, manager, handles, TypeOK,
       ClientKnowsChannels
  <1> QED
    BY <1>1, <1>2, <1>3, <1>4, <1>5, <1>6, <1>7, <1>8, <1>9, <1>10, <1>11, <1>12
       DEF Inv

LEMMA AcknowledgeReportKeepsInv ==
    ASSUME Inv, NEW m \in Sends, NEW c \in Contacts, AcknowledgeReport(m, c)
    PROVE  Inv'
  <1>1. TypeOK'
    BY DEF AcknowledgeReport, Inv, manager, handles, history, TypeOK, Status
  <1>2. IdleMessages'
    BY DEF AcknowledgeReport, Inv, manager, handles, history, TypeOK,
       IdleMessages
  <1>3. QueueIsPending'
    BY DEF AcknowledgeReport, Inv, manager, handles, history, TypeOK,
       QueueIsPending
  <1>4. PendingIsQueued'
    BY DEF AcknowledgeReport, Inv, manager, handles, history, TypeOK,
       PendingIsQueued
  <1>5. AnswersEndRequests'
    BY DEF AcknowledgeReport, Inv, manager, handles, history, TypeOK,
       AnswersEndRequests
  <1>6. ChannelsOnly'
    BY DEF AcknowledgeReport, Inv, manager, handles, history, TypeOK,
       ChannelsOnly
  <1>7. UnreadIsAccepted'
    BY DEF AcknowledgeReport, Inv, manager, handles, history, TypeOK,
       UnreadIsAccepted
  <1>8. AcceptedHaveSender'
    BY DEF AcknowledgeReport, Inv, manager, handles, history, TypeOK,
       AcceptedHaveSender
  <1>9. HandlesAreReferenced'
    BY DEF AcknowledgeReport, Inv, manager, handles, history, TypeOK,
       HandlesAreReferenced, References
  <1>10. ReportsAreTrue'
    BY DEF AcknowledgeReport, Inv, manager, handles, history, TypeOK,
       ReportsAreTrue
  <1>11. AcceptedMessagesAreKept'
    BY DEF AcknowledgeReport, Inv, manager, handles, history, TypeOK,
       AcceptedMessagesAreKept
  <1>12. ClientKnowsChannels'
    BY DEF AcknowledgeReport, Inv, manager, handles, history, TypeOK,
       ClientKnowsChannels
  <1> QED
    BY <1>1, <1>2, <1>3, <1>4, <1>5, <1>6, <1>7, <1>8, <1>9, <1>10, <1>11, <1>12
       DEF Inv

LEMMA CloseKeepsInv ==
    ASSUME Inv, NEW c \in Contacts, Close(c)
    PROVE  Inv'
  <1>1. TypeOK'
    <2>1. CASE Finalize({c}) /\ request' = request
      <3>1. FinalizedType'
        BY <2>1, FinalizeReleases DEF Close
      <3> QED
        BY <2>1, <3>1 DEF Close, ChannelClosed, Inv, TypeOK, Status, history, FinalizedType
    <2>2. CASE UNCHANGED <<channels, bound, refs, sending, unread, reports>>
      BY <2>2 DEF Close, ChannelClosed, Inv, TypeOK, Status, history
    <2> QED
      BY <2>1, <2>2 DEF Close, ChannelClosed
  <1>2. IdleMessages'
    BY DEF Close, ChannelClosed, HasPendingMessages, Finalize, FreedWith,
       Attached, RetireHandle, Inv, history, TypeOK, IdleMessages
  <1>3. QueueIsPending'
    BY DEF Close, ChannelClosed, HasPendingMessages, Finalize, FreedWith,
       Attached, RetireHandle, Inv, history, TypeOK, QueueIsPending
  <1>4. PendingIsQueued'
    BY DEF Close, ChannelClosed, HasPendingMessages, Finalize, FreedWith,
       Attached, RetireHandle, Inv, history, TypeOK, PendingIsQueued
  <1>5. AnswersEndRequests'
    BY DEF Close, ChannelClosed, HasPendingMessages, Finalize, FreedWith,
       Attached, RetireHandle, Inv, history, TypeOK, AnswersEndRequests
  <1>6. ChannelsOnly'
    BY DEF Close, ChannelClosed, HasPendingMessages, Finalize, FreedWith,
       Attached, RetireHandle, Inv, history, TypeOK, ChannelsOnly
  <1>7. UnreadIsAccepted'
    BY DEF Close, ChannelClosed, HasPendingMessages, Finalize, FreedWith,
       Attached, RetireHandle, Inv, history, TypeOK, UnreadIsAccepted
  <1>8. AcceptedHaveSender'
    BY DEF Close, ChannelClosed, HasPendingMessages, Finalize, FreedWith,
       Attached, RetireHandle, Inv, history, TypeOK, AcceptedHaveSender
  <1>9. HandlesAreReferenced'
    <2>1. CASE Finalize({c}) /\ request' = request
      BY <2>1, FinalizeReleases DEF Close
    <2>2. CASE UNCHANGED <<channels, bound, refs, sending, unread, reports>>
      BY <2>2 DEF Close, Inv, HandlesAreReferenced, References
    <2> QED
      BY <2>1, <2>2 DEF Close, ChannelClosed
  <1>10. ReportsAreTrue'
    BY DEF Close, ChannelClosed, HasPendingMessages, Finalize, FreedWith,
       Attached, RetireHandle, Inv, history, TypeOK, ReportsAreTrue
  <1>11. AcceptedMessagesAreKept'
    BY DEF Close, ChannelClosed, HasPendingMessages, Finalize, FreedWith,
       Attached, RetireHandle, Inv, history, TypeOK, AcceptedMessagesAreKept
  <1>12. ClientKnowsChannels'
    <2>1. CASE HasPendingMessages(c)
      <3>1. announced' = (announced \ {c}) \cup {c} /\ channels' = channels /\ c \in channels
        BY <2>1 DEF Close, ChannelClosed
      <3> QED
        BY <3>1 DEF Inv, ClientKnowsChannels
    <2>2. CASE ~HasPendingMessages(c)
      BY <2>2 DEF Close, ChannelClosed, Inv, ClientKnowsChannels
    <2> QED
      BY <2>1, <2>2
  <1> QED
    BY <1>1, <1>2, <1>3, <1>4, <1>5, <1>6, <1>7, <1>8, <1>9, <1>10, <1>11, <1>12
       DEF Inv

LEMMA DestroyKeepsInv ==
    ASSUME Inv, NEW c \in Contacts, Destroy(c)
    PROVE  Inv'
  <1>1. TypeOK'
    <2>1. Finalize({c}) /\ request' = request /\ c \in channels
      BY DEF Destroy, ChannelClosed
    <2>2. FinalizedType'
      BY <2>1, FinalizeReleases
    <2> QED
      BY <2>2 DEF Destroy, ChannelClosed, Inv, TypeOK, Status, FinalizedType
  <1>2. IdleMessages'
    BY DEF Destroy, ChannelClosed, Finalize, FreedWith, Attached, RetireHandle,
       Inv, TypeOK, IdleMessages
  <1>3. QueueIsPending'
    BY DEF Destroy, ChannelClosed, Finalize, FreedWith, Attached, RetireHandle,
       Inv, TypeOK, QueueIsPending
  <1>4. PendingIsQueued'
    BY DEF Destroy, ChannelClosed, Finalize, FreedWith, Attached, RetireHandle,
       Inv, TypeOK, PendingIsQueued
  <1>5. AnswersEndRequests'
    BY DEF Destroy, ChannelClosed, Finalize, FreedWith, Attached, RetireHandle,
       Inv, TypeOK, AnswersEndRequests
  <1>6. ChannelsOnly'
    BY DEF Destroy, ChannelClosed, Finalize, FreedWith, Attached, RetireHandle,
       Inv, TypeOK, ChannelsOnly
  <1>7. UnreadIsAccepted'
    BY DEF Destroy, ChannelClosed, Finalize, FreedWith, Attached, RetireHandle,
       Inv, TypeOK, UnreadIsAccepted
  <1>8. AcceptedHaveSender'
    BY DEF Destroy, ChannelClosed, Finalize, FreedWith, Attached, RetireHandle,
       Inv, TypeOK, AcceptedHaveSender, UnreadIsAccepted
  <1>9. HandlesAreReferenced'
    <2>1. Finalize({c}) /\ request' = request /\ c \in channels
      BY DEF Destroy, ChannelClosed
    <2> QED
      BY <2>1, FinalizeReleases
  <1>10. ReportsAreTrue'
    BY DEF Destroy, ChannelClosed, Finalize, FreedWith, Attached, RetireHandle,
       Inv, TypeOK, ReportsAreTrue
  <1>11. AcceptedMessagesAreKept'
    BY DEF Destroy, ChannelClosed, Finalize, FreedWith, Attached, RetireHandle,
       Inv, TypeOK, AcceptedMessagesAreKept
  <1>12. ClientKnowsChannels'
    BY DEF Destroy, ChannelClosed, Finalize, FreedWith, Attached, RetireHandle,
       Inv, TypeOK, ClientKnowsChannels
  <1> QED
    BY <1>1, <1>2, <1>3, <1>4, <1>5, <1>6, <1>7, <1>8, <1>9, <1>10, <1>11, <1>12
       DEF Inv

LEMMA MessageAnsweredKeepsInv ==
    ASSUME Inv, NEW m \in Sends, NEW good \in BOOLEAN, MessageAnswered(m, good)
    PROVE  Inv'
  <1>0. /\ to[m] \in Contacts /\ answer[m] = "none" /\ m \in sending[to[m]]
        /\ bound[m] = "channel" /\ request[m] = "sent"
        /\ DeliveryReported(to[m], m, good)
        /\ sending' = [sending EXCEPT ![to[m]] = @ \ {m}]
        /\ refs' = [refs EXCEPT ![m] = @ - 1]
    BY AnswerSettles
  <1>1. TypeOK'
    <2>1. refs' \in [Sends -> Nat]
      BY <1>0 DEF Inv, TypeOK, HandlesAreReferenced, References
    <2>2. reports' \in [Contacts -> SUBSET Sends]
      BY <1>0 DEF DeliveryReported, Inv, TypeOK
    <2>3. told' \in [Sends -> [delivered : Nat, failed : Nat]]
      <3>1. CASE good /\ m \notin wants
        BY <1>0, <3>1 DEF DeliveryReported, Inv, TypeOK
      <3>2. CASE good /\ m \in wants
        <4>1. [told[m] EXCEPT !.delivered = @ + 1] \in [delivered : Nat, failed : Nat]
          BY DEF Inv, TypeOK
        <4>2. told' = [told EXCEPT ![m] = [told[m] EXCEPT !.delivered = @ + 1]]
          BY <1>0, <3>2 DEF DeliveryReported, Inv, TypeOK
        <4> QED
          BY <4>1, <4>2 DEF Inv, TypeOK
      <3>3. CASE ~good
        <4>1. [told[m] EXCEPT !.failed = @ + 1] \in [delivered : Nat, failed : Nat]
          BY DEF Inv, TypeOK
        <4>2. told' = [told EXCEPT ![m] = [told[m] EXCEPT !.failed = @ + 1]]
          BY <1>0, <3>3 DEF DeliveryReported, Inv, TypeOK
        <4> QED
          BY <4>1, <4>2 DEF Inv, TypeOK
      <3> QED
        BY <3>1, <3>2, <3>3
    <2>4. sending' \in [Contacts -> SUBSET Sends]
      BY <1>0 DEF Inv, TypeOK
    <2> QED
      BY <2>1, <2>2, <2>3, <2>4
         DEF MessageAnswered, manager, Inv, TypeOK, Status
  <1>2. IdleMessages'
    BY DEF MessageAnswered, FinalAnswer, DeliveryReported, Found, Inv, manager,
       TypeOK, IdleMessages
  <1>3. QueueIsPending'
    BY <1>0 DEF MessageAnswered, Inv, TypeOK, QueueIsPending
  <1>4. PendingIsQueued'
    BY <1>0 DEF MessageAnswered, manager, Inv, TypeOK, PendingIsQueued
  <1>5. AnswersEndRequests'
    BY DEF MessageAnswered, FinalAnswer, DeliveryReported, Found, Inv, manager,
       TypeOK, AnswersEndRequests
  <1>6. ChannelsOnly'
    <2>1. to[m] \in channels
      BY <1>0 DEF Inv, PendingIsQueued
    <2> QED
      BY <1>0, <2>1
         DEF DeliveryReported, MessageAnswered, manager, Inv, TypeOK, ChannelsOnly
  <1>7. UnreadIsAccepted'
    BY DEF MessageAnswered, FinalAnswer, DeliveryReported, Found, Inv, manager,
       TypeOK, UnreadIsAccepted
  <1>8. AcceptedHaveSender'
    BY DEF MessageAnswered, FinalAnswer, DeliveryReported, Found, Inv, manager,
       TypeOK, AcceptedHaveSender
  <1>9. HandlesAreReferenced'
    BY SMTT(20), <1>0
       DEF MessageAnswered, Inv, TypeOK, HandlesAreReferenced, References, QueueIsPending
  <1>10. ReportsAreTrue'
    <2>1. told[m] = [delivered |-> 0, failed |-> 0]
      BY <1>0 DEF Inv, TypeOK, ReportsAreTrue
    <2>2. /\ answer' = [answer EXCEPT ![m] = IF good THEN "ok" ELSE "error"]
          /\ wants' = wants
      BY DEF MessageAnswered
    <2>3. told'[m] = [delivered |-> IF good /\ m \in wants THEN 1 ELSE 0,
                      failed |-> IF good THEN 0 ELSE 1]
      BY <1>0, <2>1 DEF DeliveryReported, Inv, TypeOK
    <2>4. \A n \in Sends \ {m} : told'[n] = told[n] /\ answer'[n] = answer[n]
      BY <1>0, <2>2 DEF DeliveryReported, Inv, TypeOK
    <2>5. answer'[m] = IF good THEN "ok" ELSE "error"
      BY <2>2 DEF Inv, TypeOK
    <2> QED
      BY <2>2, <2>3, <2>4, <2>5 DEF Inv, ReportsAreTrue
  <1>11. AcceptedMessagesAreKept'
    BY DEF MessageAnswered, FinalAnswer, DeliveryReported, Found, Inv, manager,
       TypeOK, AcceptedMessagesAreKept
  <1>12. ClientKnowsChannels'
    BY DEF MessageAnswered, FinalAnswer, DeliveryReported, Found, Inv, manager,
       TypeOK, ClientKnowsChannels
  <1> QED
    BY <1>1, <1>2, <1>3, <1>4, <1>5, <1>6, <1>7, <1>8, <1>9, <1>10, <1>11, <1>12
       DEF Inv

LEMMA LateAnswerKeepsInv ==
    ASSUME Inv, NEW m \in Sends, LateAnswer(m)
    PROVE  Inv'
  <1>1. TypeOK'
    BY DEF LateAnswer, Inv, manager, TypeOK, Status
  <1>2. IdleMessages'
    BY DEF LateAnswer, Inv, manager, TypeOK, IdleMessages
  <1>3. QueueIsPending'
    BY DEF LateAnswer, Inv, manager, TypeOK, QueueIsPending
  <1>4. PendingIsQueued'
    BY DEF LateAnswer, Inv, manager, TypeOK, PendingIsQueued
  <1>5. AnswersEndRequests'
    BY DEF LateAnswer, Inv, manager, TypeOK, AnswersEndRequests
  <1>6. ChannelsOnly'
    BY DEF LateAnswer, Inv, manager, TypeOK, ChannelsOnly
  <1>7. UnreadIsAccepted'
    BY DEF LateAnswer, Inv, manager, TypeOK, UnreadIsAccepted
  <1>8. AcceptedHaveSender'
    BY DEF LateAnswer, Inv, manager, TypeOK, AcceptedHaveSender
  <1>9. HandlesAreReferenced'
    BY DEF LateAnswer, Inv, manager, TypeOK, HandlesAreReferenced, References
  <1>10. ReportsAreTrue'
    BY DEF LateAnswer, Inv, manager, TypeOK, ReportsAreTrue, AnswersEndRequests
  <1>11. AcceptedMessagesAreKept'
    BY DEF LateAnswer, Inv, manager, TypeOK, AcceptedMessagesAreKept
  <1>12. ClientKnowsChannels'
    BY DEF LateAnswer, Inv, manager, TypeOK, ClientKnowsChannels
  <1> QED
    BY <1>1, <1>2, <1>3, <1>4, <1>5, <1>6, <1>7, <1>8, <1>9, <1>10, <1>11, <1>12
       DEF Inv

LEMMA ChallengedKeepsInv ==
    ASSUME Inv, NEW m \in Sends, Challenged(m)
    PROVE  Inv'
  <1>1. TypeOK'
    BY DEF Challenged, Inv, manager, TypeOK, Status
  <1>2. IdleMessages'
    BY DEF Challenged, Inv, manager, TypeOK, IdleMessages
  <1>3. QueueIsPending'
    BY DEF Challenged, Inv, manager, TypeOK, QueueIsPending
  <1>4. PendingIsQueued'
    BY DEF Challenged, Inv, manager, TypeOK, PendingIsQueued
  <1>5. AnswersEndRequests'
    BY DEF Challenged, Inv, manager, TypeOK, AnswersEndRequests
  <1>6. ChannelsOnly'
    BY DEF Challenged, Inv, manager, TypeOK, ChannelsOnly
  <1>7. UnreadIsAccepted'
    BY DEF Challenged, Inv, manager, TypeOK, UnreadIsAccepted
  <1>8. AcceptedHaveSender'
    BY DEF Challenged, Inv, manager, TypeOK, AcceptedHaveSender
  <1>9. HandlesAreReferenced'
    BY DEF Challenged, Inv, manager, TypeOK, HandlesAreReferenced, References
  <1>10. ReportsAreTrue'
    BY DEF Challenged, Inv, manager, TypeOK, ReportsAreTrue
  <1>11. AcceptedMessagesAreKept'
    BY DEF Challenged, Inv, manager, TypeOK, AcceptedMessagesAreKept
  <1>12. ClientKnowsChannels'
    BY DEF Challenged, Inv, manager, TypeOK, ClientKnowsChannels
  <1> QED
    BY <1>1, <1>2, <1>3, <1>4, <1>5, <1>6, <1>7, <1>8, <1>9, <1>10, <1>11, <1>12
       DEF Inv

LEMMA PasswordArrivesKeepsInv ==
    ASSUME Inv, NEW m \in Sends, PasswordArrives(m)
    PROVE  Inv'
  <1>1. TypeOK'
    <2>1. refs' \in [Sends -> Nat]
      BY SMTT(20) DEF PasswordArrives, Inv, TypeOK, HandlesAreReferenced, References
    <2> QED
      BY <2>1 DEF PasswordArrives, Inv, manager, history, TypeOK, Status
  <1>2. IdleMessages'
    BY DEF PasswordArrives, Inv, manager, history, TypeOK, IdleMessages
  <1>3. QueueIsPending'
    BY DEF PasswordArrives, Inv, manager, history, TypeOK, QueueIsPending
  <1>4. PendingIsQueued'
    BY DEF PasswordArrives, Inv, manager, history, TypeOK, PendingIsQueued
  <1>5. AnswersEndRequests'
    BY DEF PasswordArrives, Inv, manager, history, TypeOK, AnswersEndRequests
  <1>6. ChannelsOnly'
    BY DEF PasswordArrives, Inv, manager, history, TypeOK, ChannelsOnly
  <1>7. UnreadIsAccepted'
    BY DEF PasswordArrives, Inv, manager, history, TypeOK, UnreadIsAccepted
  <1>8. AcceptedHaveSender'
    BY DEF PasswordArrives, Inv, manager, history, TypeOK, AcceptedHaveSender
  <1>9. HandlesAreReferenced'
    BY DEF PasswordArrives, Inv, manager, history, TypeOK,
       HandlesAreReferenced, References
  <1>10. ReportsAreTrue'
    BY DEF PasswordArrives, Inv, manager, history, TypeOK, ReportsAreTrue
  <1>11. AcceptedMessagesAreKept'
    BY DEF PasswordArrives, Inv, manager, history, TypeOK,
       AcceptedMessagesAreKept
  <1>12. ClientKnowsChannels'
    BY DEF PasswordArrives, Inv, manager, history, TypeOK, ClientKnowsChannels
  <1> QED
    BY <1>1, <1>2, <1>3, <1>4, <1>5, <1>6, <1>7, <1>8, <1>9, <1>10, <1>11, <1>12
       DEF Inv

LEMMA MessageReceivedKeepsInv ==
    ASSUME Inv, NEW i \in Incoming, NEW c \in Contacts, NEW fit \in BOOLEAN, MessageReceived(i, c, fit)
    PROVE  Inv'
  <1>1. TypeOK'
    <2>1. CASE fit
      <3>1. unread' \in [Contacts -> SUBSET Incoming]
        BY <2>1 DEF MessageReceived, Inv, TypeOK
      <3>2. to' \in [Sends \cup Incoming -> Contacts \cup {Nobody}]
        BY <2>1 DEF MessageReceived, Inv, TypeOK
      <3>3. channels' \subseteq Contacts /\ announced' \subseteq Contacts
        BY <2>1 DEF MessageReceived, NewChannel, Inv, TypeOK
      <3> QED
        BY <2>1, <3>1, <3>2, <3>3 DEF MessageReceived, Inv, handles, TypeOK
    <2>2. CASE ~fit
      BY <2>2 DEF MessageReceived, Inv, handles, TypeOK, Status
    <2> QED
      BY <2>1, <2>2
  <1>2. IdleMessages'
    BY TextAssumption DEF MessageReceived, NewChannel, Inv, handles, TypeOK,
       IdleMessages, Nobody, TextAssumption
  <1>3. QueueIsPending'
    BY TextAssumption DEF MessageReceived, NewChannel, Inv, handles, TypeOK,
       QueueIsPending, Nobody, TextAssumption
  <1>4. PendingIsQueued'
    BY TextAssumption DEF MessageReceived, NewChannel, Inv, handles, TypeOK,
       PendingIsQueued, Nobody, TextAssumption
  <1>5. AnswersEndRequests'
    BY TextAssumption DEF MessageReceived, NewChannel, Inv, handles, TypeOK,
       AnswersEndRequests, Nobody, TextAssumption
  <1>6. ChannelsOnly'
    BY TextAssumption DEF MessageReceived, NewChannel, Inv, handles, TypeOK,
       ChannelsOnly, Nobody, TextAssumption
  <1>7. UnreadIsAccepted'
    BY SMTT(20), TextAssumption DEF MessageReceived, NewChannel, Inv, handles, TypeOK,
       UnreadIsAccepted, Nobody, TextAssumption, AcceptedHaveSender
  <1>8. AcceptedHaveSender'
    BY SMTT(20), TextAssumption DEF MessageReceived, NewChannel, Inv, handles, TypeOK,
       AcceptedHaveSender, Nobody, TextAssumption
  <1>9. HandlesAreReferenced'
    BY TextAssumption DEF MessageReceived, NewChannel, Inv, handles, TypeOK,
       HandlesAreReferenced, References, Nobody, TextAssumption
  <1>10. ReportsAreTrue'
    BY TextAssumption DEF MessageReceived, NewChannel, Inv, handles, TypeOK,
       ReportsAreTrue, Nobody, TextAssumption
  <1>11. AcceptedMessagesAreKept'
    <2>1. CASE ~fit
      BY <2>1 DEF MessageReceived, Inv, TypeOK, AcceptedMessagesAreKept, handles
    <2>2. CASE fit
      <3>1. /\ to' = [to EXCEPT ![i] = c] /\ unread' = [unread EXCEPT ![c] = @ \cup {i}]
            /\ replied' = [replied EXCEPT ![i] = "200"] /\ released' = released
        BY <2>2 DEF MessageReceived
      <3>2. c \in channels' \cap announced' /\ channels \cap announced \subseteq channels' \cap announced'
        BY <2>2 DEF MessageReceived, NewChannel, Inv, ClientKnowsChannels
      <3>3. to'[i] = c /\ i \in unread'[c]
        BY <3>1 DEF Inv, TypeOK
      <3>4. ASSUME NEW j \in Incoming \ {i}, replied'[j] = "200", j \notin released'
            PROVE  j \in unread'[to'[j]] /\ to'[j] \in channels' \cap announced'
        <4>1. /\ replied[j] = "200" /\ j \notin released /\ to'[j] = to[j]
              /\ to[j] \in Contacts
          BY <3>1, <3>4 DEF Inv, TypeOK, AcceptedHaveSender
        <4>2. j \in unread[to[j]] /\ to[j] \in channels \cap announced
          BY <4>1 DEF Inv, AcceptedMessagesAreKept
        <4> QED
          BY <3>1, <3>2, <4>1, <4>2 DEF Inv, TypeOK
      <3> QED
        BY <3>2, <3>3, <3>4 DEF AcceptedMessagesAreKept
    <2> QED
      BY <2>1, <2>2
  <1>12. ClientKnowsChannels'
    BY TextAssumption DEF MessageReceived, NewChannel, Inv, handles, TypeOK,
       ClientKnowsChannels, Nobody, TextAssumption
  <1> QED
    BY <1>1, <1>2, <1>3, <1>4, <1>5, <1>6, <1>7, <1>8, <1>9, <1>10, <1>11, <1>12
       DEF Inv

-----------------------------------------------------------------------------
(* The invariant.                                                          *)

LEMMA InitHasInv == Init => Inv
  <1> SUFFICES ASSUME Init PROVE Inv
    OBVIOUS
  <1>1. TypeOK
    BY DEF Init, TypeOK, Status
  <1>2. \A i \in Incoming : to[i] = Nobody /\ replied[i] = "no"
    BY DEF Init
  <1>3. IdleMessages /\ QueueIsPending /\ PendingIsQueued /\ AnswersEndRequests
    BY DEF Init, IdleMessages, QueueIsPending, PendingIsQueued, AnswersEndRequests
  <1>4. ChannelsOnly /\ UnreadIsAccepted /\ AcceptedHaveSender
    BY DEF Init, ChannelsOnly, UnreadIsAccepted, AcceptedHaveSender
  <1>5. HandlesAreReferenced /\ ReportsAreTrue
    BY DEF Init, HandlesAreReferenced, References, ReportsAreTrue
  <1>6. AcceptedMessagesAreKept /\ ClientKnowsChannels
    BY <1>2 DEF Init, AcceptedMessagesAreKept, ClientKnowsChannels
  <1> QED
    BY <1>1, <1>3, <1>4, <1>5, <1>6 DEF Inv

LEMMA StutterKeepsInv ==
    ASSUME Inv, UNCHANGED vars
    PROVE  Inv'
  <1>1. TypeOK'
    BY DEF Inv, TypeOK, vars, manager, handles, history
  <1>2. IdleMessages' /\ QueueIsPending' /\ PendingIsQueued' /\ AnswersEndRequests'
    BY DEF Inv, vars, manager, handles, history,
           IdleMessages, QueueIsPending, PendingIsQueued, AnswersEndRequests
  <1>3. ChannelsOnly' /\ UnreadIsAccepted' /\ AcceptedHaveSender'
    BY DEF Inv, vars, manager, handles, history,
           ChannelsOnly, UnreadIsAccepted, AcceptedHaveSender
  <1>4. HandlesAreReferenced' /\ ReportsAreTrue'
    BY DEF Inv, vars, manager, handles, history,
           HandlesAreReferenced, References, ReportsAreTrue
  <1>5. AcceptedMessagesAreKept' /\ ClientKnowsChannels'
    BY DEF Inv, vars, manager, handles, history,
           AcceptedMessagesAreKept, ClientKnowsChannels
  <1> QED
    BY <1>1, <1>2, <1>3, <1>4, <1>5 DEF Inv

LEMMA NextKeepsInv == Inv /\ [Next]_vars => Inv'
  <1> SUFFICES ASSUME Inv, [Next]_vars PROVE Inv'
    OBVIOUS
  <1>1. CASE UNCHANGED vars
    BY <1>1, StutterKeepsInv
  <1>2. CASE Connecting \/ Registered \/ Disconnected
    BY <1>2, ConnectingKeepsInv, RegisteredKeepsInv, DisconnectedKeepsInv
  <1>3. CASE \E c \in Contacts : RequestChannel(c) \/ Close(c) \/ Destroy(c)
    BY <1>3, RequestChannelKeepsInv, CloseKeepsInv, DestroyKeepsInv
  <1>4. CASE \E m \in Sends, c \in Contacts :
                \/ \E report \in BOOLEAN : SendMessage(m, c, report)
                \/ AcknowledgeReport(m, c)
    BY <1>4, SendMessageKeepsInv, AcknowledgeReportKeepsInv
  <1>5. CASE \E i \in Incoming, c \in Contacts :
                \/ \E fit \in BOOLEAN : MessageReceived(i, c, fit)
                \/ AcknowledgeMessage(i, c)
    BY <1>5, MessageReceivedKeepsInv, AcknowledgeMessageKeepsInv
  <1>6. CASE \E m \in Sends :
                \/ \E good \in BOOLEAN : MessageAnswered(m, good)
                \/ LateAnswer(m) \/ Challenged(m) \/ PasswordArrives(m)
    BY <1>6, MessageAnsweredKeepsInv, LateAnswerKeepsInv, ChallengedKeepsInv,
       PasswordArrivesKeepsInv
  <1> QED
    BY <1>1, <1>2, <1>3, <1>4, <1>5, <1>6 DEF Next

THEOREM Invariance == Spec => []Inv
  BY InitHasInv, NextKeepsInv, PTL DEF Spec

(* The types of the text channels, in particular that no count of          *)
(* references goes below zero.                                             *)
THEOREM TextTypeCorrect == Spec => []TypeOK
  <1>1. Inv => TypeOK
    BY DEF Inv
  <1> QED
    BY <1>1, Invariance, PTL

(* The handles of any number of messages, answered, challenged, closed and *)
(* disconnected in any order, are referenced exactly by their users.       *)
THEOREM HandlesAlwaysReferenced == Spec => []HandlesAreReferenced
  <1>1. Inv => HandlesAreReferenced
    BY DEF Inv
  <1> QED
    BY <1>1, Invariance, PTL

(* The client gets each delivery report once, and a true one.              *)
THEOREM ReportsAlwaysTrue == Spec => []ReportsAreTrue
  <1>1. Inv => ReportsAreTrue
    BY DEF Inv
  <1> QED
    BY <1>1, Invariance, PTL

(* A message that was answered with 200 is not lost before the client      *)
(* releases it.                                                            *)
THEOREM AcceptedMessagesAlwaysKept == Spec => []AcceptedMessagesAreKept
  <1>1. Inv => AcceptedMessagesAreKept
    BY DEF Inv
  <1> QED
    BY <1>1, Invariance, PTL

(* The client was told of exactly the channels in the manager's table.     *)
THEOREM ClientAlwaysKnowsChannels == Spec => []ClientKnowsChannels
  <1>1. Inv => ClientKnowsChannels
    BY DEF Inv
  <1> QED
    BY <1>1, Invariance, PTL

-----------------------------------------------------------------------------
(* The refinement of TextService.  In states with the invariant the fate   *)
(* of a message can be read off its answer and the queue.                  *)

Queued(m) == \E c \in Contacts : m \in sending[c]

Fate(m) ==
    IF to[m] = Nobody THEN "idle"
    ELSE IF Queued(m) THEN "pending"
    ELSE IF answer[m] = "error" THEN "failed"
    ELSE IF answer[m] = "ok" THEN "delivered" ELSE "lost"

Kept(i) ==
    IF replied[i] = "no" THEN "waiting"
    ELSE IF replied[i] = "refused" THEN "refused"
    ELSE IF i \in released THEN "released" ELSE "unread"

Fates ==
    /\ \A m \in Sends : Out(m) = Fate(m)
    /\ \A i \in Incoming : In(i) = Kept(i)

LEMMA FatesAreSeen == Inv => Fates
  <1> SUFFICES ASSUME Inv PROVE Fates
    OBVIOUS
  <1>1. ASSUME NEW m \in Sends PROVE Out(m) = Fate(m)
    <2>1. /\ told[m].failed > 0 <=> answer[m] = "error"
          /\ told[m].delivered > 0 <=> answer[m] = "ok" /\ m \in wants
      BY DEF Inv, ReportsAreTrue, TypeOK
    <2>2. (\E c \in Contacts : m \in sending[c]) <=> Queued(m)
      BY DEF Queued
    <2>3. to[m] = Nobody => ~Queued(m)
      BY TextAssumption DEF Inv, QueueIsPending, Queued, Nobody, TextAssumption
    <2>4. answer[m] \in {"none", "ok", "error", "unheard"}
      BY DEF Inv, TypeOK
    <2> QED
      BY <2>1, <2>2, <2>3, <2>4 DEF Out, Fate
  <1>2. ASSUME NEW i \in Incoming PROVE In(i) = Kept(i)
    <2>1. (\E c \in Contacts : i \in unread[c])
             => replied[i] = "200" /\ i \notin released
      BY DEF Inv, UnreadIsAccepted
    <2>2. replied[i] = "200" /\ i \notin released
             => \E c \in Contacts : i \in unread[c]
      BY DEF Inv, AcceptedMessagesAreKept, AcceptedHaveSender
    <2>3. replied[i] \in {"no", "200", "refused"}
      BY DEF Inv, TypeOK
    <2> QED
      BY <2>1, <2>2, <2>3 DEF In, Kept
  <1> QED
    BY <1>1, <1>2 DEF Fates

LEMMA FatesAreSeenNext == ASSUME Inv' PROVE Fates'
  <1>1. (Inv => Fates)'
    BY FatesAreSeen, PTL
  <1> QED
    BY <1>1

(* Fates that do not change make a step of the channels a stutter.         *)
LEMMA SameFates ==
    ASSUME Fates, Fates', channels' = channels, to' = to,
           \A m \in Sends : Fate(m)' = Fate(m),
           \A i \in Incoming : Kept(i)' = Kept(i)
    PROVE  UNCHANGED Service!vars
  <1>1. [m \in Sends |-> Out(m)]' = [m \in Sends |-> Out(m)]
    BY DEF Fates
  <1>2. [i \in Incoming |-> In(i)]' = [i \in Incoming |-> In(i)]
    BY DEF Fates
  <1> QED
    BY <1>1, <1>2 DEF Service!vars

LEMMA ForgetStep ==
    ASSUME Inv, Inv', NEW C \in SUBSET channels, Finalize(C), to' = to,
           answer' = answer, replied' = replied,
           channels' = channels \ C,
           released' = released \cup UNION {unread[c] : c \in C}
    PROVE  Service!Forget(C)
  <1>1. Fates /\ Fates'
    BY FatesAreSeen, FatesAreSeenNext
  <1>2. C \subseteq Contacts
    BY DEF Inv, TypeOK
  <1>3. ASSUME NEW m \in Sends
        PROVE  Fate(m)' = IF Fate(m) = "pending" /\ to[m] \in C THEN "lost" ELSE Fate(m)
    <2>1. Queued(m) => m \in sending[to[m]] /\ to[m] \in Contacts /\ answer[m] = "none"
      BY DEF Inv, QueueIsPending, Queued
    <2>2. Queued(m)' <=> Queued(m) /\ to[m] \notin C
      BY <1>2 DEF Finalize, Queued, Inv, QueueIsPending
    <2>3. to[m] = Nobody => ~Queued(m)
      BY <2>1, TextAssumption DEF Nobody, TextAssumption
    <2> QED
      BY <2>1, <2>2, <2>3 DEF Fate
  <1>4. ASSUME NEW i \in Incoming
        PROVE  Kept(i)' = IF Kept(i) = "unread" /\ to[i] \in C THEN "released" ELSE Kept(i)
    <2>1. replied[i] = "200" /\ i \notin released => i \in unread[to[i]]
      BY DEF Inv, AcceptedMessagesAreKept
    <2>2. \A c \in C : i \in unread[c] => to[i] = c /\ i \notin released
      BY <1>2 DEF Inv, UnreadIsAccepted
    <2>3. replied[i] \in {"no", "200", "refused"} /\ (i \in released => replied[i] = "200")
      BY DEF Inv, TypeOK, AcceptedHaveSender
    <2>4. i \in released' <=> i \in released \/ \E c \in C : i \in unread[c]
      OBVIOUS
    <2> QED
      BY <2>1, <2>2, <2>3, <2>4 DEF Kept
  <1>5. [m \in Sends |-> Out(m)]' =
            [m \in Sends |-> IF [n \in Sends |-> Out(n)][m] = "pending" /\ to[m] \in C
                             THEN "lost" ELSE [n \in Sends |-> Out(n)][m]]
    BY <1>1, <1>3 DEF Fates
  <1>6. [i \in Incoming |-> In(i)]' =
            [i \in Incoming |-> IF [j \in Incoming |-> In(j)][i] = "unread" /\ to[i] \in C
                                THEN "released" ELSE [j \in Incoming |-> In(j)][i]]
    BY <1>1, <1>4 DEF Fates
  <1> QED
    BY <1>5, <1>6 DEF Service!Forget

LEMMA SilentSteps ==
    ASSUME Inv, Inv',
           \/ Connecting \/ Registered
           \/ \E m \in Sends, c \in Contacts : AcknowledgeReport(m, c)
           \/ \E m \in Sends : LateAnswer(m) \/ Challenged(m) \/ PasswordArrives(m)
           \/ UNCHANGED vars
    PROVE  UNCHANGED Service!vars
  <1>1. Fates /\ Fates'
    BY FatesAreSeen, FatesAreSeenNext
  <1>2. UNCHANGED <<channels, to, sending, replied, released>>
    BY DEF Connecting, Registered, AcknowledgeReport, LateAnswer, Challenged,
           PasswordArrives, vars, manager, handles, history
  <1>3. ASSUME NEW m \in Sends
        PROVE  Fate(m)' = Fate(m)
    <2>1. \/ answer' = answer
          \/ answer[m] = "none" /\ answer'[m] \in {"none", "unheard"}
          \/ answer'[m] = answer[m]
      BY DEF Connecting, Registered, AcknowledgeReport, LateAnswer, Challenged,
             PasswordArrives, vars, history, Inv, TypeOK, AnswersEndRequests
    <2> QED
      BY <1>2, <2>1 DEF Fate, Queued
  <1>4. \A i \in Incoming : Kept(i)' = Kept(i)
    BY <1>2 DEF Kept
  <1> QED
    BY <1>1, <1>2, <1>3, <1>4, SameFates

LEMMA TalkStep ==
    ASSUME Inv, Inv', NEW c \in Contacts, RequestChannel(c)
    PROVE  Service!Talk(c)
  <1>1. Fates /\ Fates'
    BY FatesAreSeen, FatesAreSeenNext
  <1>2. UNCHANGED <<to, sending, replied, released, answer>>
    BY DEF RequestChannel, handles, history
  <1>3. /\ \A m \in Sends : Fate(m)' = Fate(m)
        /\ \A i \in Incoming : Kept(i)' = Kept(i)
    BY <1>2 DEF Fate, Kept, Queued
  <1>4. [m \in Sends |-> Out(m)]' = [m \in Sends |-> Out(m)]
    BY <1>1, <1>3 DEF Fates
  <1>5. [i \in Incoming |-> In(i)]' = [i \in Incoming |-> In(i)]
    BY <1>1, <1>3 DEF Fates
  <1> QED
    BY <1>2, <1>4, <1>5 DEF Service!Talk, RequestChannel, NewChannel

LEMMA EndStep ==
    ASSUME Inv, Inv', NEW c \in Contacts, Close(c) \/ Destroy(c)
    PROVE  Service!End(c) \/ UNCHANGED Service!vars
  <1>1. CASE Close(c) /\ HasPendingMessages(c)
    <2>1. Fates /\ Fates'
      BY FatesAreSeen, FatesAreSeenNext
    <2>2. UNCHANGED <<channels, to, sending, replied, released, answer>>
      BY <1>1 DEF Close, ChannelClosed, history
    <2>3. /\ \A m \in Sends : Fate(m)' = Fate(m)
          /\ \A i \in Incoming : Kept(i)' = Kept(i)
      BY <2>2 DEF Fate, Kept, Queued
    <2> QED
      BY <2>1, <2>2, <2>3, SameFates
  <1>2. CASE \/ Close(c) /\ ~HasPendingMessages(c)
             \/ Destroy(c)
    <2>1. /\ c \in channels /\ Finalize({c}) /\ channels' = channels \ {c}
          /\ UNCHANGED <<to, answer, replied>>
      BY <1>2 DEF Close, Destroy, ChannelClosed, history
    <2>2. released' = released \cup unread[c]
      BY <1>2 DEF Close, Destroy, HasPendingMessages, history
    <2>3. released' = released \cup UNION {unread[d] : d \in {c}}
      BY <2>2
    <2> QED
      BY <2>1, <2>3, ForgetStep DEF Service!End
  <1> QED
    BY <1>1, <1>2

LEMMA ShutdownStep ==
    ASSUME Inv, Inv', Disconnected
    PROVE  Service!Shutdown
  <1>1. /\ Finalize(channels) /\ channels' = channels \ channels
        /\ UNCHANGED <<to, answer, replied>>
    BY DEF Disconnected, CloseAll
  <1>2. channels \subseteq Contacts
    BY DEF Inv, TypeOK
  <1>3. \A c \in Contacts \ channels : unread[c] = {}
    BY DEF Inv, ChannelsOnly
  <1>4. UNION {unread[c] : c \in Contacts} = UNION {unread[c] : c \in channels}
    BY <1>2, <1>3
  <1>5. released' = released \cup UNION {unread[c] : c \in channels}
    BY <1>4 DEF Disconnected
  <1>6. Service!Forget(channels)
    BY <1>1, <1>5, ForgetStep
  <1>7. Fates /\ Fates'
    BY FatesAreSeen, FatesAreSeenNext
  <1>8. \A m \in Sends : Out(m) = "pending" => to[m] \in channels
    BY <1>7 DEF Fates, Fate, Queued, Inv, QueueIsPending, PendingIsQueued
  <1>9. \A i \in Incoming : In(i) = "unread" => to[i] \in channels
    BY <1>7 DEF Fates, Kept, Inv, TypeOK, AcceptedMessagesAreKept
  <1> QED
    BY <1>1, <1>2, <1>6, <1>8, <1>9 DEF Service!Shutdown, Service!Forget

LEMMA SendStep ==
    ASSUME Inv, Inv', NEW m \in Sends, NEW c \in Contacts, NEW report \in BOOLEAN,
           SendMessage(m, c, report)
    PROVE  Service!Send(m, c)
  <1>1. Fates /\ Fates'
    BY FatesAreSeen, FatesAreSeenNext
  <1>2. /\ to[m] = Nobody /\ c \in channels /\ to' = [to EXCEPT ![m] = c]
        /\ sending' = [sending EXCEPT ![c] = @ \cup {m}]
        /\ UNCHANGED <<channels, replied, released, answer>>
    BY DEF SendMessage, manager
  <1>3. Fate(m) = "idle" /\ Fate(m)' = "pending"
    BY <1>2, TextAssumption DEF Fate, Queued, Inv, TypeOK, Nobody, TextAssumption
  <1>4. \A n \in Sends \ {m} : Fate(n)' = Fate(n)
    BY <1>2 DEF Fate, Queued, Inv, TypeOK
  <1>5. \A i \in Incoming : Kept(i)' = Kept(i)
    BY <1>2 DEF Kept
  <1>6. [n \in Sends |-> Out(n)]' = [[n \in Sends |-> Out(n)] EXCEPT ![m] = "pending"]
    BY <1>1, <1>3, <1>4 DEF Fates
  <1>7. [i \in Incoming |-> In(i)]' = [i \in Incoming |-> In(i)]
    BY <1>1, <1>5 DEF Fates
  <1>8. [n \in Sends |-> Out(n)][m] = "idle"
    BY <1>1, <1>3 DEF Fates
  <1> QED
    BY <1>2, <1>6, <1>7, <1>8 DEF Service!Send

LEMMA SettleStep ==
    ASSUME Inv, Inv', NEW m \in Sends, NEW good \in BOOLEAN, MessageAnswered(m, good)
    PROVE  Service!Settle(m)
  <1>1. Fates /\ Fates'
    BY FatesAreSeen, FatesAreSeenNext
  <1>2. /\ to[m] \in Contacts /\ m \in sending[to[m]]
        /\ sending' = [sending EXCEPT ![to[m]] = @ \ {m}]
    BY AnswerSettles
  <1>3. /\ UNCHANGED <<channels, to, replied, released>>
        /\ answer' = [answer EXCEPT ![m] = IF good THEN "ok" ELSE "error"]
    BY DEF MessageAnswered, manager
  <1>4. to[m] # Nobody
    BY <1>2, TextAssumption DEF Nobody, TextAssumption
  <1>5. Fate(m) = "pending"
    BY <1>2, <1>4 DEF Fate, Queued
  <1>6. ~Queued(m)'
    BY <1>2 DEF Queued, Inv, TypeOK, QueueIsPending
  <1>7. Fate(m)' = IF good THEN "delivered" ELSE "failed"
    BY <1>3, <1>4, <1>6 DEF Fate, Inv, TypeOK
  <1>8. \A n \in Sends \ {m} : Fate(n)' = Fate(n)
    BY <1>2, <1>3 DEF Fate, Queued, Inv, TypeOK
  <1>9. \A i \in Incoming : Kept(i)' = Kept(i)
    BY <1>3 DEF Kept
  <1>10. [n \in Sends |-> Out(n)]' =
             [[n \in Sends |-> Out(n)] EXCEPT ![m] = IF good THEN "delivered" ELSE "failed"]
    BY <1>1, <1>7, <1>8 DEF Fates
  <1>11. [i \in Incoming |-> In(i)]' = [i \in Incoming |-> In(i)]
    BY <1>1, <1>9 DEF Fates
  <1>12. [n \in Sends |-> Out(n)][m] = "pending"
    BY <1>1, <1>5 DEF Fates
  <1> QED
    BY <1>3, <1>10, <1>11, <1>12 DEF Service!Settle

LEMMA ReceiveStep ==
    ASSUME Inv, Inv', NEW i \in Incoming, NEW c \in Contacts, NEW fit \in BOOLEAN,
           MessageReceived(i, c, fit)
    PROVE  Service!Receive(i, c)
  <1>1. Fates /\ Fates'
    BY FatesAreSeen, FatesAreSeenNext
  <1>2. /\ replied[i] = "no"
        /\ replied' = [replied EXCEPT ![i] = IF fit THEN "200" ELSE "refused"]
        /\ UNCHANGED <<sending, released, answer>>
    BY DEF MessageReceived, handles
  <1>3. IF fit THEN to' = [to EXCEPT ![i] = c] /\ channels' = channels \cup {c}
               ELSE to' = to /\ channels' = channels
    BY DEF MessageReceived, NewChannel
  <1>4. \A m \in Sends : to'[m] = to[m]
    BY <1>3, TextAssumption DEF TextAssumption, Inv, TypeOK
  <1>5. \A m \in Sends : Fate(m)' = Fate(m)
    BY <1>2, <1>4 DEF Fate, Queued
  <1>6. Kept(i) = "waiting" /\ Kept(i)' = IF fit THEN "unread" ELSE "refused"
    BY <1>2 DEF Kept, Inv, TypeOK, AcceptedHaveSender
  <1>7. \A j \in Incoming \ {i} : Kept(j)' = Kept(j)
    BY <1>2 DEF Kept, Inv, TypeOK
  <1>8. [m \in Sends |-> Out(m)]' = [m \in Sends |-> Out(m)]
    BY <1>1, <1>5 DEF Fates
  <1>9. [j \in Incoming |-> In(j)]' =
            [[j \in Incoming |-> In(j)] EXCEPT ![i] = IF fit THEN "unread" ELSE "refused"]
    BY <1>1, <1>6, <1>7 DEF Fates
  <1>10. [j \in Incoming |-> In(j)][i] = "waiting"
    BY <1>1, <1>6 DEF Fates
  <1> QED
    BY <1>3, <1>8, <1>9, <1>10 DEF Service!Receive

LEMMA ReadStep ==
    ASSUME Inv, Inv', NEW i \in Incoming, NEW c \in Contacts, AcknowledgeMessage(i, c)
    PROVE  Service!Read(i)
  <1>1. Fates /\ Fates'
    BY FatesAreSeen, FatesAreSeenNext
  <1>2. /\ i \in unread[c] /\ released' = released \cup {i}
        /\ UNCHANGED <<channels, to, sending, answer, replied>>
    BY DEF AcknowledgeMessage, manager
  <1>3. replied[i] = "200" /\ i \notin released
    BY <1>2 DEF Inv, UnreadIsAccepted
  <1>4. \A m \in Sends : Fate(m)' = Fate(m)
    BY <1>2 DEF Fate, Queued
  <1>5. Kept(i) = "unread" /\ Kept(i)' = "released"
    BY <1>2, <1>3 DEF Kept
  <1>6. \A j \in Incoming \ {i} : Kept(j)' = Kept(j)
    BY <1>2 DEF Kept
  <1>7. [m \in Sends |-> Out(m)]' = [m \in Sends |-> Out(m)]
    BY <1>1, <1>4 DEF Fates
  <1>8. [j \in Incoming |-> In(j)]' = [[j \in Incoming |-> In(j)] EXCEPT ![i] = "released"]
    BY <1>1, <1>5, <1>6 DEF Fates
  <1>9. [j \in Incoming |-> In(j)][i] = "unread"
    BY <1>1, <1>5 DEF Fates
  <1> QED
    BY <1>2, <1>7, <1>8, <1>9 DEF Service!Read

LEMMA StepsRefine ==
    ASSUME Inv, Inv', [Next]_vars
    PROVE  Service!Next \/ UNCHANGED Service!vars
  <1>1. CASE UNCHANGED vars \/ Connecting \/ Registered
    BY <1>1, SilentSteps
  <1>2. CASE Disconnected
    BY <1>2, ShutdownStep DEF Service!Next
  <1>3. CASE \E c \in Contacts : RequestChannel(c) \/ Close(c) \/ Destroy(c)
    BY <1>3, TalkStep, EndStep DEF Service!Next
  <1>4. CASE \E m \in Sends, c \in Contacts, report \in BOOLEAN : SendMessage(m, c, report)
    BY <1>4, SendStep DEF Service!Next
  <1>5. CASE \E m \in Sends, c \in Contacts : AcknowledgeReport(m, c)
    BY <1>5, SilentSteps
  <1>6. CASE \E i \in Incoming, c \in Contacts, fit \in BOOLEAN : MessageReceived(i, c, fit)
    BY <1>6, ReceiveStep DEF Service!Next
  <1>7. CASE \E i \in Incoming, c \in Contacts : AcknowledgeMessage(i, c)
    BY <1>7, ReadStep DEF Service!Next
  <1>8. CASE \E m \in Sends, good \in BOOLEAN : MessageAnswered(m, good)
    BY <1>8, SettleStep DEF Service!Next
  <1>9. CASE \E m \in Sends : LateAnswer(m) \/ Challenged(m) \/ PasswordArrives(m)
    BY <1>9, SilentSteps
  <1> QED
    BY <1>1, <1>2, <1>3, <1>4, <1>5, <1>6, <1>7, <1>8, <1>9 DEF Next

LEMMA InitRefines ==
    ASSUME Init
    PROVE  Service!Init
  <1>1. channels = {} /\ to = [x \in Sends \cup Incoming |-> Nobody]
    BY DEF Init
  <1>2. \A m \in Sends : Out(m) = "idle"
    BY <1>1 DEF Out
  <1>3. \A i \in Incoming : In(i) = "waiting"
    BY DEF Init, In
  <1> QED
    BY <1>1, <1>2, <1>3 DEF Service!Init, Service!Nobody, Nobody

(* The channels, whatever they do with handles, queues and announcements,  *)
(* look to the client and the peers like the text service.                 *)
THEOREM TextServiceImplemented == Spec => ImplementsTextService
  <1>1. Init => Service!Init
    BY InitRefines
  <1>2. Inv /\ Inv' /\ [Next]_vars => [Service!Next]_(Service!vars)
    BY StepsRefine
  <1> QED
    BY <1>1, <1>2, Invariance, PTL DEF Spec, ImplementsTextService, Service!Spec
=============================================================================
