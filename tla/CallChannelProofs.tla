-------------------------- MODULE CallChannelProofs --------------------------
(***************************************************************************)
(* Proofs about CallChannel, for any calls and contacts.                   *)
(*                                                                         *)
(* What the client is shown depends on how the state of the session, the   *)
(* line and the channel of a call go together; Inv says how.  Each call    *)
(* has its own part of it, and only the array of the manager and the       *)
(* status of the connection are shared.                                    *)
(***************************************************************************)
EXTENDS CallChannel, TLAPS

(* A request or INVITE that made no call left nothing, and no call has     *)
(* come from anywhere else.                                                *)
Made(k) ==
    /\ origin[k] \in {"none", "failed", "refused"} =>
          session[k] = "none" /\ call[k] = "none" /\ line[k] = "none" /\ heard[k] = "nothing"
    /\ session[k] = "none" => origin[k] \in {"none", "failed", "refused"}
    /\ session[k] = "INVITE_RECEIVED" => origin[k] = "INVITE"
    /\ origin[k] = "INVITE" => line[k] # "none"

(* Before its first media an INVITE has a session and nothing else; any    *)
(* other session that has not ended is shown by an open channel.           *)
Announced(k) ==
    /\ line[k] = "invited" =>
          origin[k] = "INVITE" /\ session[k] = "CREATED" /\ call[k] = "none"
    /\ Live(k) => line[k] = "invited" \/ call[k] \notin {"none", "closed"}
    /\ session[k] = "CREATED" => line[k] \in {"none", "invited"} /\ heard[k] = "nothing"

(* As long as the session lives, what it would end the line with fits, and *)
(* nothing was sent yet.                                                   *)
Ready(k) ==
    /\ Live(k) => Fits(k, Goodbye(session[k]))
    /\ session[k] # "ENDED" => goodbye[k] = "nothing"
    /\ k \in silent => session[k] = "ENDED"

(* A dialled call got further only by an answer.                           *)
Heard(k) ==
    Requested(k) /\ session[k] \in {"RESPONSE_RECEIVED", "ACTIVE", "REINVITE"}
        => heard[k] # "nothing"

(* What the client is shown of a call is true, and so is its end.          *)
EndIsShown(k) ==
    /\ call[k] \notin {"none", "closed"} /\ k \notin silent =>
          (call[k] = "ENDED" <=> session[k] = "ENDED" \/ line[k] \in {"left", "cancelled"})
    /\ call[k] = "ENDED" /\ k \notin silent /\ goodbye[k] # "nothing" => actor[k] = "self"
    /\ session[k] = "ENDED" /\ k \notin silent => Fits(k, goodbye[k])

ShownIsTrue(k) ==
    /\ call[k] = "ACTIVE" => IF Requested(k) THEN heard[k] # "nothing" ELSE accepted[k]
    /\ k \notin wiped => shownHeld[k] = remoteHeld[k]

Inv ==
    /\ TypeOK
    /\ ChannelsAreListed
    /\ \A k \in Calls :
          /\ Made(k) /\ Announced(k) /\ Ready(k) /\ Heard(k)
             /\ EndIsShown(k) /\ ShownIsTrue(k)

LEMMA ConnectedKeeps ==
    ASSUME Inv, Connected
    PROVE  Inv'
  <1>1. TypeOK'
    BY CallAssumption DEF Inv, TypeOK, Connected, dialog, shown, history
  <1>2. \A j \in Calls : Made(j)'
    BY <1>1 DEF Inv, Connected, dialog, shown, history, Made
  <1>3. \A j \in Calls : Announced(j)'
    BY <1>1 DEF Inv, Connected, dialog, shown, history, Announced, Live
  <1>4. \A j \in Calls : Ready(j)'
    BY <1>1 DEF Ready, Inv, Connected, dialog, history, Fits, Live
  <1>5. \A j \in Calls : Heard(j)'
    BY <1>1 DEF Requested, Inv, Connected, dialog, history, Heard
  <1>6. \A j \in Calls : EndIsShown(j)'
    BY <1>1 DEF Connected, dialog, shown, history, EndIsShown, Fits, Inv
  <1>7. \A j \in Calls : ShownIsTrue(j)'
    BY <1>1 DEF Requested, ShownIsTrue, Inv, Connected, dialog, shown, history
  <1>8. ChannelsAreListed'
    BY DEF Inv, ChannelsAreListed, Open, Connected, shown
  <1> QED
    BY <1>1, <1>2, <1>3, <1>4, <1>5, <1>6, <1>7, <1>8 DEF Inv

LEMMA DisconnectedKeeps ==
    ASSUME Inv, Disconnected
    PROVE  Inv'
  <1>1. TypeOK'
    BY CallAssumption DEF Inv, TypeOK, Disconnected, Goodbye, CloseChannels,
       Terminate, ChannelClosedCb
  <1>2. \A j \in Calls : Made(j)'
    BY <1>1 DEF Disconnected, CloseChannels, Terminate, Open, ChannelsAreListed,
       Made, Inv
  <1>3. \A j \in Calls : Announced(j)'
    BY <1>1 DEF Terminate, Open, Announced, ChannelsAreListed, Live, Inv,
       Disconnected, CloseChannels
  <1>4. \A j \in Calls : Ready(j)'
    BY <1>1 DEF Terminate, Fits, Live, Ready, Inv, Disconnected, CloseChannels
  <1>5. \A j \in Calls : Heard(j)'
    BY <1>1 DEF Disconnected, CloseChannels, Terminate, Heard, Requested, Inv
  <1>6. \A j \in Calls : EndIsShown(j)'
    BY <1>1 DEF Disconnected, CloseChannels, Terminate, EndIsShown, Fits, Live,
       Made, Ready, Inv
  <1>7. \A j \in Calls : ShownIsTrue(j)'
    BY <1>1 DEF Requested, ShownIsTrue, Inv, Disconnected, CloseChannels
  <1>8. ChannelsAreListed'
    BY DEF ChannelsAreListed, Open, Disconnected, CloseChannels,
       ChannelClosedCb, Inv
  <1> QED
    BY <1>1, <1>2, <1>3, <1>4, <1>5, <1>6, <1>7, <1>8 DEF Inv

LEMMA RequestKeeps ==
    ASSUME Inv, NEW k \in Calls, NEW m \in Methods, NEW h \in Contacts \cup {Self},
           Request(k, m, h)
    PROVE  Inv'
  <1>1. TypeOK'
    BY SMTT(20), CallAssumption DEF CallAssumption, Inv, TypeOK, Request, Self, Nobody,
       Methods, Goodbye, NewCallChannel, PeerProperty, manager, dialog, shown,
       history
  <1>2. \A j \in Calls : Made(j)'
    BY <1>1 DEF Inv, TypeOK, Request, NewCallChannel, Made, Methods
  <1>3. \A j \in Calls : Announced(j)'
    BY <1>1 DEF Request, NewCallChannel, Announced, Live, Made, Inv, TypeOK
  <1>4. \A j \in Calls : Ready(j)'
    BY <1>1 DEF Request, Fits, Goodbye, Live, Made, Ready, Inv, TypeOK
  <1>5. \A j \in Calls : Heard(j)'
    BY <1>1 DEF TypeOK, Request, Heard, Made, Requested, Inv
  <1>6. \A j \in Calls : EndIsShown(j)'
    BY <1>1 DEF Inv, TypeOK, Request, NewCallChannel, EndIsShown, Fits, Made
  <1>7. \A j \in Calls : ShownIsTrue(j)'
    BY <1>1 DEF Methods, Requested, ShownIsTrue, Inv, TypeOK, Request,
       NewCallChannel
  <1>8. ChannelsAreListed'
    BY DEF ChannelsAreListed, Open, Request, NewCallChannel, Inv, TypeOK
  <1> QED
    BY <1>1, <1>2, <1>3, <1>4, <1>5, <1>6, <1>7, <1>8 DEF Inv

LEMMA ReceiveInviteKeeps ==
    ASSUME Inv, NEW k \in Calls, NEW from \in Contacts \cup {Self, Nobody},
           ReceiveInvite(k, from)
    PROVE  Inv'
  <1>1. TypeOK'
    BY CallAssumption DEF Inv, TypeOK, ReceiveInvite, shown
  <1>2. \A j \in Calls : Made(j)'
    BY <1>1 DEF Inv, TypeOK, ReceiveInvite, shown, Made
  <1>3. \A j \in Calls : Announced(j)'
    BY <1>1 DEF Inv, TypeOK, ReceiveInvite, shown, Announced, Live, Made
  <1>4. \A j \in Calls : Ready(j)'
    BY <1>1 DEF Ready, Inv, TypeOK, ReceiveInvite, Fits, Live, Made
  <1>5. \A j \in Calls : Heard(j)'
    BY <1>1 DEF Heard, Made, Requested, Inv, TypeOK, ReceiveInvite
  <1>6. \A j \in Calls : EndIsShown(j)'
    BY <1>1 DEF Inv, TypeOK, ReceiveInvite, shown, EndIsShown, Fits, Made
  <1>7. \A j \in Calls : ShownIsTrue(j)'
    BY <1>1 DEF Requested, ShownIsTrue, Inv, TypeOK, ReceiveInvite, shown, Made
  <1>8. ChannelsAreListed'
    BY DEF Inv, ChannelsAreListed, Open, ReceiveInvite, shown
  <1> QED
    BY <1>1, <1>2, <1>3, <1>4, <1>5, <1>6, <1>7, <1>8 DEF Inv

LEMMA ReceiveFirstMediaKeeps ==
    ASSUME Inv, NEW k \in Calls, ReceiveFirstMedia(k)
    PROVE  Inv'
  <1>1. TypeOK'
    BY CallAssumption DEF Inv, TypeOK, ReceiveFirstMedia, Goodbye,
       FirstMediaRefused, TerminateSilently, NewCallChannel
  <1>2. \A j \in Calls : Made(j)'
    BY <1>1 DEF ReceiveFirstMedia, FirstMediaRefused, TerminateSilently,
       NewCallChannel, Announced, Made, Inv, TypeOK
  <1>3. \A j \in Calls : Announced(j)'
    BY <1>1 DEF Inv, TypeOK, ReceiveFirstMedia, FirstMediaRefused,
       TerminateSilently, NewCallChannel, Announced, Live
  <1>4. \A j \in Calls : Ready(j)'
    BY <1>1 DEF Inv, TypeOK, ReceiveFirstMedia, FirstMediaRefused,
       TerminateSilently, Announced, Fits, Goodbye, Live, Ready
  <1>5. \A j \in Calls : Heard(j)'
    BY <1>1 DEF Requested, Inv, TypeOK, ReceiveFirstMedia, FirstMediaRefused,
       TerminateSilently, Heard
  <1>6. \A j \in Calls : EndIsShown(j)'
    BY <1>1 DEF ReceiveFirstMedia, FirstMediaRefused, TerminateSilently,
       NewCallChannel, EndIsShown, Fits, Inv, TypeOK
  <1>7. \A j \in Calls : ShownIsTrue(j)'
    BY <1>1 DEF Requested, ShownIsTrue, Inv, TypeOK, ReceiveFirstMedia,
       NewCallChannel
  <1>8. ChannelsAreListed'
    BY DEF TypeOK, ChannelsAreListed, Open, Announced, ReceiveFirstMedia,
       NewCallChannel, Inv
  <1> QED
    BY <1>1, <1>2, <1>3, <1>4, <1>5, <1>6, <1>7, <1>8 DEF Inv

LEMMA AcceptKeeps ==
    ASSUME Inv, NEW k \in Calls, Accept(k)
    PROVE  Inv'
  <1>1. TypeOK'
    BY CallAssumption DEF Inv, TypeOK, Accept, BothAccepted, IsConnected,
       manager, history
  <1>2. \A j \in Calls : Made(j)'
    BY <1>1 DEF Inv, Accept, history, Made
  <1>3. \A j \in Calls : Announced(j)'
    BY <1>1 DEF Accept, BothAccepted, history, Announced, Live, Inv
  <1>4. \A j \in Calls : Ready(j)'
    BY <1>1 DEF Accept, history, Fits, Live, Ready, Inv
  <1>5. \A j \in Calls : Heard(j)'
    BY <1>1 DEF Accept, history, Heard, Requested, Inv
  <1>6. \A j \in Calls : EndIsShown(j)'
    BY <1>1 DEF Accept, BothAccepted, history, EndIsShown, Fits, Inv
  <1>7. \A j \in Calls : ShownIsTrue(j)'
    BY <1>1 DEF Accept, history, Requested, ShownIsTrue, Inv, TypeOK
  <1>8. ChannelsAreListed'
    BY DEF history, Inv, ChannelsAreListed, Open, Accept, BothAccepted, manager
  <1> QED
    BY <1>1, <1>2, <1>3, <1>4, <1>5, <1>6, <1>7, <1>8 DEF Inv

LEMMA EndBySelfKeeps ==
    ASSUME Inv, NEW k \in Calls, EndBySelf(k), k \in Open
    PROVE  Inv'
  <1>1. TypeOK'
    BY CallAssumption DEF Inv, TypeOK, EndBySelf, Goodbye, Terminate, manager
  <1>2. \A j \in Calls : Made(j)'
    BY <1>1 DEF Made, Inv, EndBySelf, Terminate, Open
  <1>3. \A j \in Calls : Announced(j)'
    BY <1>1 DEF EndBySelf, Terminate, Open, Announced, Live, Inv
  <1>4. \A j \in Calls : Ready(j)'
    BY <1>1 DEF EndBySelf, Terminate, Fits, Live, Ready, Inv
  <1>5. \A j \in Calls : Heard(j)'
    BY <1>1 DEF Heard, Requested, Inv, EndBySelf, Terminate
  <1>6. \A j \in Calls : EndIsShown(j)'
    BY <1>1 DEF Inv, TypeOK, EndBySelf, Terminate, EndIsShown, Fits, Live, Made,
       Ready
  <1>7. \A j \in Calls : ShownIsTrue(j)'
    BY <1>1 DEF EndBySelf, Requested, ShownIsTrue, Inv
  <1>8. ChannelsAreListed'
    BY DEF ChannelsAreListed, Open, EndBySelf, manager, Inv
  <1> QED
    BY <1>1, <1>2, <1>3, <1>4, <1>5, <1>6, <1>7, <1>8 DEF Inv

LEMMA CloseKeeps ==
    ASSUME Inv, NEW k \in Calls, Close(k)
    PROVE  Inv'
  <1>1. TypeOK'
    BY CallAssumption DEF Inv, TypeOK, Close, Goodbye, CloseChannels, Terminate,
       ChannelClosedCb
  <1>2. \A j \in Calls : Made(j)'
    BY <1>1 DEF Inv, Close, CloseChannels, Terminate, Open, Made
  <1>3. \A j \in Calls : Announced(j)'
    BY <1>1 DEF Close, CloseChannels, Terminate, Open, Announced, Live, Inv
  <1>4. \A j \in Calls : Ready(j)'
    BY <1>1 DEF Close, CloseChannels, Terminate, Fits, Live, Ready, Inv
  <1>5. \A j \in Calls : Heard(j)'
    BY <1>1 DEF Inv, Close, CloseChannels, Terminate, Heard, Requested
  <1>6. \A j \in Calls : EndIsShown(j)'
    BY <1>1 DEF Terminate, EndIsShown, Fits, Live, Made, Ready, Inv, Close,
       CloseChannels
  <1>7. \A j \in Calls : ShownIsTrue(j)'
    BY <1>1 DEF Requested, ShownIsTrue, Inv, Close, CloseChannels
  <1>8. ChannelsAreListed'
    BY DEF ChannelsAreListed, Open, Close, CloseChannels, ChannelClosedCb, Inv
  <1> QED
    BY <1>1, <1>2, <1>3, <1>4, <1>5, <1>6, <1>7, <1>8 DEF Inv

LEMMA MediaReadyKeeps ==
    ASSUME Inv, NEW k \in Calls, MediaReady(k)
    PROVE  Inv'
  <1>1. TypeOK'
    BY CallAssumption DEF TypeOK, MediaReady, ChangeState, StateChangedCb,
       RemoteAccept, BothAccepted, IsConnected, manager, history, Inv
  <1>2. \A j \in Calls : Made(j)'
    BY <1>1 DEF MediaReady, ChangeState, history, Made, Inv, TypeOK
  <1>3. \A j \in Calls : Announced(j)'
    BY <1>1 DEF StateChangedCb, RemoteAccept, BothAccepted, history, Announced,
       Live, Methods, Requested, Inv, TypeOK, MediaReady, ChangeState
  <1>4. \A j \in Calls : Ready(j)'
    BY <1>1 DEF history, Announced, Fits, Goodbye, Live, Ready, Inv, TypeOK,
       MediaReady, ChangeState
  <1>5. \A j \in Calls : Heard(j)'
    BY <1>1 DEF history, Heard, Made, Methods, Requested, Inv, TypeOK,
       MediaReady, ChangeState
  <1>6. \A j \in Calls : EndIsShown(j)'
    BY <1>1 DEF MediaReady, ChangeState, StateChangedCb, RemoteAccept,
       BothAccepted, history, Announced, EndIsShown, Fits, Inv, TypeOK
  <1>7. \A j \in Calls : ShownIsTrue(j)'
    BY <1>1 DEF StateChangedCb, history, Heard, Made, Methods, Requested,
       ShownIsTrue, Inv, TypeOK, MediaReady, ChangeState
  <1>8. ChannelsAreListed'
    BY DEF Inv, TypeOK, ChannelsAreListed, Open, MediaReady, ChangeState,
       StateChangedCb, RemoteAccept, BothAccepted, manager, history
  <1> QED
    BY <1>1, <1>2, <1>3, <1>4, <1>5, <1>6, <1>7, <1>8 DEF Inv

LEMMA RingingKeeps ==
    ASSUME Inv, NEW k \in Calls, Ringing(k)
    PROVE  Inv'
  <1>1. TypeOK'
    BY CallAssumption DEF Inv, TypeOK, Ringing, RingingCb, manager, dialog
  <1>2. \A j \in Calls : Made(j)'
    BY <1>1 DEF Inv, Ringing, dialog, Made
  <1>3. \A j \in Calls : Announced(j)'
    BY <1>1 DEF Inv, Ringing, dialog, Announced, Live
  <1>4. \A j \in Calls : Ready(j)'
    BY <1>1 DEF Inv, Ringing, dialog, Fits, Live, Ready
  <1>5. \A j \in Calls : Heard(j)'
    BY <1>1 DEF dialog, Heard, Requested, Inv, Ringing
  <1>6. \A j \in Calls : EndIsShown(j)'
    BY <1>1 DEF Inv, Ringing, dialog, EndIsShown, Fits
  <1>7. \A j \in Calls : ShownIsTrue(j)'
    <2>1. /\ shownHeld' = [shownHeld EXCEPT ![k] = FALSE]
          /\ wiped' = IF remoteHeld[k] THEN wiped \cup {k} ELSE wiped
          /\ UNCHANGED <<remoteHeld, call, origin, heard, accepted>>
      BY DEF Ringing, RingingCb, dialog
    <2>2. \A j \in Calls \ wiped' : shownHeld'[j] = remoteHeld'[j]
      <3> SUFFICES ASSUME NEW j \in Calls \ wiped'
                   PROVE  shownHeld'[j] = remoteHeld'[j]
        OBVIOUS
      <3>1. CASE j = k
        <4>1. ~remoteHeld[k]
          BY <2>1, <3>1
        <4>2. remoteHeld[k] \in BOOLEAN /\ shownHeld'[k] = FALSE
          BY <2>1 DEF Inv, TypeOK
        <4> QED
          BY <2>1, <3>1, <4>1, <4>2
      <3>2. CASE j # k
        <4>1. j \notin wiped /\ shownHeld'[j] = shownHeld[j]
          BY <2>1, <3>2 DEF Inv, TypeOK
        <4> QED
          BY <2>1, <4>1 DEF Inv, ShownIsTrue
      <3> QED
        BY <3>1, <3>2
    <2> QED
      BY <2>1, <2>2 DEF Inv, ShownIsTrue, Requested
  <1>8. ChannelsAreListed'
    BY DEF ChannelsAreListed, Open, Ringing, manager, Inv
  <1> QED
    BY <1>1, <1>2, <1>3, <1>4, <1>5, <1>6, <1>7, <1>8 DEF Inv

LEMMA EarlyAnswerKeeps ==
    ASSUME Inv, NEW k \in Calls, EarlyAnswer(k)
    PROVE  Inv'
  <1>1. TypeOK'
    BY CallAssumption DEF TypeOK, EarlyAnswer, Goodbye, TerminateSilently,
       ChangeState, StateChangedCb, RemoteHold, RemoteHoldMayCome, RemoteHeldChangedCb, manager, Inv
  <1>2. \A j \in Calls : Made(j)'
    BY <1>1 DEF Inv, TypeOK, EarlyAnswer, TerminateSilently, ChangeState, Made
  <1>3. \A j \in Calls : Announced(j)'
    BY <1>1 DEF ChangeState, StateChangedCb, Announced, Live, Inv, TypeOK,
       EarlyAnswer, TerminateSilently
  <1>4. \A j \in Calls : Ready(j)'
    BY <1>1 DEF ChangeState, Fits, Goodbye, Live, Ready, Inv, TypeOK,
       EarlyAnswer, TerminateSilently
  <1>5. \A j \in Calls : Heard(j)'
    BY <1>1 DEF EarlyAnswer, TerminateSilently, ChangeState, Heard, Requested,
       Inv, TypeOK
  <1>6. \A j \in Calls : EndIsShown(j)'
    BY <1>1 DEF EarlyAnswer, TerminateSilently, ChangeState, StateChangedCb,
       EndIsShown, Fits, Inv, TypeOK
  <1>7. \A j \in Calls : ShownIsTrue(j)'
    BY <1>1 DEF EarlyAnswer, ChangeState, StateChangedCb, RemoteHold, RemoteHoldMayCome,
       RemoteHeldChangedCb, Requested, ShownIsTrue, Inv, TypeOK
  <1>8. ChannelsAreListed'
    BY DEF Inv, TypeOK, ChannelsAreListed, Open, EarlyAnswer, ChangeState,
       StateChangedCb, manager
  <1> QED
    BY <1>1, <1>2, <1>3, <1>4, <1>5, <1>6, <1>7, <1>8 DEF Inv

LEMMA AnswerKeeps ==
    ASSUME Inv, NEW k \in Calls, Answer(k)
    PROVE  Inv'
  <1>1. TypeOK'
    <2>1. /\ status' \in {"CONNECTING", "CONNECTED", "DISCONNECTED"}
          /\ channels' \subseteq Calls /\ silent' \subseteq Calls /\ wiped' \subseteq Calls
          /\ peer' \in [Calls -> Contacts \cup {Nobody}]
          /\ actor' \in [Calls -> {Nobody, "self", "peer"}]
          /\ origin' \in [Calls -> Methods \cup {"none", "failed", "refused", "INVITE"}]
    BY DEF RemoteHold, manager, Inv, TypeOK, Answer, TerminateSilently
    <2>2. /\ session' \in [Calls -> {"none", "CREATED", "INVITE_SENT", "INVITE_RECEIVED",
                                      "RESPONSE_RECEIVED", "ACTIVE", "REINVITE", "ENDED"}]
          /\ call' \in [Calls -> {"none", "PENDING_INITIATOR", "INITIALISING",
                                   "INITIALISED", "ACTIVE", "ENDED", "closed"}]
    BY DEF ChangeState, StateChangedCb, Inv, TypeOK, Answer, TerminateSilently
    <2>3. /\ accepted' \in [Calls -> BOOLEAN]
          /\ remoteHeld' \in [Calls -> BOOLEAN]
          /\ shownHeld' \in [Calls -> BOOLEAN]
      <3>1. accepted' = accepted \/ accepted' = [accepted EXCEPT ![k] = TRUE]
        BY DEF Answer
      <3>2. \/ remoteHeld' = remoteHeld /\ shownHeld' = shownHeld
            \/ \E held \in BOOLEAN :
                  /\ remoteHeld' = [remoteHeld EXCEPT ![k] = held]
                  /\ shownHeld' = [shownHeld EXCEPT ![k] = held]
        BY DEF Answer, RemoteHold, RemoteHoldMayCome, RemoteHeldChangedCb
      <3>3. accepted' \in [Calls -> BOOLEAN]
        BY <3>1 DEF Inv, TypeOK
      <3>4. remoteHeld' \in [Calls -> BOOLEAN] /\ shownHeld' \in [Calls -> BOOLEAN]
        BY <3>2 DEF Inv, TypeOK
      <3> QED
        BY <3>3, <3>4
    <2>4. /\ line' \in [Calls -> {"none", "called", "invited", "asking",
                                   "up", "left", "cancelled", "over"}]
          /\ heard' \in [Calls -> {"nothing", "early", "answer"}]
          /\ goodbye' \in [Calls -> {"nothing", "BYE", "CANCEL", "response"}]
    BY DEF Inv, TypeOK, Answer, TerminateSilently, Goodbye
    <2> QED
      BY <2>1, <2>2, <2>3, <2>4 DEF TypeOK
  <1>2. \A j \in Calls : Made(j)'
    BY <1>1 DEF Inv, TypeOK, Answer, TerminateSilently, ChangeState, Made
  <1>3. \A j \in Calls : Announced(j)'
    BY <1>1 DEF ChangeState, StateChangedCb, Announced, Live, Inv, TypeOK,
       Answer, TerminateSilently
  <1>4. \A j \in Calls : Ready(j)'
    BY <1>1 DEF ChangeState, Fits, Goodbye, Live, Ready, Inv, TypeOK, Answer,
       TerminateSilently
  <1>5. \A j \in Calls : Heard(j)'
    BY <1>1 DEF Answer, TerminateSilently, ChangeState, Heard, Requested, Inv,
       TypeOK
  <1>6. \A j \in Calls : EndIsShown(j)'
    BY <1>1 DEF Answer, TerminateSilently, ChangeState, StateChangedCb,
       EndIsShown, Fits, Inv, TypeOK
  <1>7. \A j \in Calls : ShownIsTrue(j)'
    BY <1>1 DEF Answer, ChangeState, RemoteHold, RemoteHoldMayCome, RemoteHeldChangedCb, Requested,
       ShownIsTrue, Inv, TypeOK
  <1>8. ChannelsAreListed'
    BY DEF Inv, TypeOK, ChannelsAreListed, Open, Answer, ChangeState,
       StateChangedCb, manager
  <1> QED
    BY <1>1, <1>2, <1>3, <1>4, <1>5, <1>6, <1>7, <1>8 DEF Inv

LEMMA ReinviteKeeps ==
    ASSUME Inv, NEW k \in Calls, Reinvite(k)
    PROVE  Inv'
  <1>1. TypeOK'
    BY CallAssumption DEF Inv, TypeOK, Reinvite, ChangeState, StateChangedCb,
       RemoteHold, RemoteHoldMayCome, RemoteHeldChangedCb, manager
  <1>2. \A j \in Calls : Made(j)'
    BY <1>1 DEF Made, Inv, Reinvite, ChangeState
  <1>3. \A j \in Calls : Announced(j)'
    BY <1>1 DEF Reinvite, ChangeState, StateChangedCb, Announced, Live, Inv
  <1>4. \A j \in Calls : Ready(j)'
    BY <1>1 DEF Reinvite, ChangeState, Fits, Goodbye, Live, Ready, Inv
  <1>5. \A j \in Calls : Heard(j)'
    BY <1>1 DEF Heard, Requested, Inv, Reinvite, ChangeState
  <1>6. \A j \in Calls : EndIsShown(j)'
    BY <1>1 DEF EndIsShown, Fits, Inv, Reinvite, ChangeState, StateChangedCb
  <1>7. \A j \in Calls : ShownIsTrue(j)'
    BY <1>1 DEF Inv, TypeOK, Reinvite, ChangeState, StateChangedCb, RemoteHold, RemoteHoldMayCome,
       RemoteHeldChangedCb, Requested, ShownIsTrue
  <1>8. ChannelsAreListed'
    BY DEF ChannelsAreListed, Open, Reinvite, ChangeState, StateChangedCb,
       manager, Inv
  <1> QED
    BY <1>1, <1>2, <1>3, <1>4, <1>5, <1>6, <1>7, <1>8 DEF Inv

LEMMA ReinviteEndsKeeps ==
    ASSUME Inv, NEW k \in Calls, ReinviteEnds(k)
    PROVE  Inv'
  <1>1. TypeOK'
    BY CallAssumption DEF Goodbye, TerminateSilently, ChangeState,
       StateChangedCb, RemoteAccept, BothAccepted, IsConnected, RemoteHold, RemoteHoldMayCome,
       RemoteHeldChangedCb, manager, Inv, TypeOK, ReinviteEnds
  <1>2. \A j \in Calls : Made(j)'
    BY <1>1 DEF TypeOK, ReinviteEnds, TerminateSilently, ChangeState, Made, Inv
  <1>3. \A j \in Calls : Announced(j)'
    BY <1>1 DEF RemoteAccept, BothAccepted, Announced, Live, Inv, TypeOK,
       ReinviteEnds, TerminateSilently, ChangeState, StateChangedCb
  <1>4. \A j \in Calls : Ready(j)'
    BY <1>1 DEF TerminateSilently, ChangeState, Fits, Goodbye, Live, Ready, Inv,
       TypeOK, ReinviteEnds
  <1>5. \A j \in Calls : Heard(j)'
    BY <1>1 DEF Heard, Requested, Inv, TypeOK, ReinviteEnds, TerminateSilently,
       ChangeState
  <1>6. \A j \in Calls : EndIsShown(j)'
    BY <1>1 DEF ReinviteEnds, TerminateSilently, ChangeState, StateChangedCb,
       RemoteAccept, BothAccepted, EndIsShown, Fits, Inv, TypeOK
  <1>7. \A j \in Calls : ShownIsTrue(j)'
    BY <1>1 DEF RemoteHold, RemoteHoldMayCome, RemoteHeldChangedCb, Heard, Requested, ShownIsTrue,
       Inv, TypeOK, ReinviteEnds, ChangeState, StateChangedCb
  <1>8. ChannelsAreListed'
    BY DEF ChannelsAreListed, Open, ReinviteEnds, ChangeState, StateChangedCb,
       RemoteAccept, BothAccepted, manager, Inv, TypeOK
  <1> QED
    BY <1>1, <1>2, <1>3, <1>4, <1>5, <1>6, <1>7, <1>8 DEF Inv

LEMMA LateDescriptionKeeps ==
    ASSUME Inv, NEW k \in Calls, LateDescription(k)
    PROVE  Inv'
  <1>1. TypeOK'
    BY CallAssumption DEF Goodbye, TerminateSilently, ChangeState,
       StateChangedCb, RemoteAccept, BothAccepted, IsConnected, RemoteHold, RemoteHoldMayCome,
       RemoteHeldChangedCb, manager, Inv, TypeOK, LateDescription
  <1>2. \A j \in Calls : Made(j)'
    BY <1>1 DEF TypeOK, LateDescription, TerminateSilently, ChangeState, Made, Inv
  <1>3. \A j \in Calls : Announced(j)'
    BY <1>1 DEF RemoteAccept, BothAccepted, Announced, Live, Inv, TypeOK,
       LateDescription, TerminateSilently, ChangeState, StateChangedCb
  <1>4. \A j \in Calls : Ready(j)'
    BY <1>1 DEF TerminateSilently, ChangeState, Fits, Goodbye, Live, Ready, Inv,
       TypeOK, LateDescription
  <1>5. \A j \in Calls : Heard(j)'
    BY <1>1 DEF Heard, Requested, Inv, TypeOK, LateDescription, TerminateSilently,
       ChangeState
  <1>6. \A j \in Calls : EndIsShown(j)'
    BY <1>1 DEF LateDescription, TerminateSilently, ChangeState, StateChangedCb,
       RemoteAccept, BothAccepted, EndIsShown, Fits, Inv, TypeOK
  <1>7. \A j \in Calls : ShownIsTrue(j)'
    BY <1>1 DEF RemoteHold, RemoteHoldMayCome, RemoteHeldChangedCb, Heard, Requested, ShownIsTrue,
       Inv, TypeOK, LateDescription, ChangeState, StateChangedCb
  <1>8. ChannelsAreListed'
    BY DEF ChannelsAreListed, Open, LateDescription, ChangeState, StateChangedCb,
       RemoteAccept, BothAccepted, manager, Inv, TypeOK
  <1> QED
    BY <1>1, <1>2, <1>3, <1>4, <1>5, <1>6, <1>7, <1>8 DEF Inv

LEMMA PeerLeavesKeeps ==
    ASSUME Inv, NEW k \in Calls, PeerLeaves(k)
    PROVE  Inv'
  <1>1. TypeOK'
    BY CallAssumption DEF Inv, TypeOK, PeerLeaves, EndedCb, Actor, manager
  <1>2. \A j \in Calls : Made(j)'
    BY <1>1 DEF Made, Inv, TypeOK, PeerLeaves, EndedCb, Actor
  <1>3. \A j \in Calls : Announced(j)'
    BY <1>1 DEF PeerLeaves, EndedCb, Actor, Announced, Live, Inv, TypeOK
  <1>4. \A j \in Calls : Ready(j)'
    BY <1>1 DEF PeerLeaves, EndedCb, Actor, Fits, Live, Ready, Inv, TypeOK
  <1>5. \A j \in Calls : Heard(j)'
    BY <1>1 DEF PeerLeaves, Heard, Requested, Inv
  <1>6. \A j \in Calls : EndIsShown(j)'
    BY <1>1 DEF EndIsShown, Ready, Live, Fits, Inv, TypeOK, PeerLeaves, EndedCb, Actor
  <1>7. \A j \in Calls : ShownIsTrue(j)'
    BY <1>1 DEF Requested, ShownIsTrue, Inv, TypeOK, PeerLeaves, EndedCb, Actor
  <1>8. ChannelsAreListed'
    BY DEF Inv, TypeOK, ChannelsAreListed, Open, Announced, PeerLeaves, EndedCb,
       Actor, manager
  <1> QED
    BY <1>1, <1>2, <1>3, <1>4, <1>5, <1>6, <1>7, <1>8 DEF Inv

LEMMA TerminatedKeeps ==
    ASSUME Inv, NEW k \in Calls, NEW failed \in BOOLEAN, Terminated(k, failed), Live(k),
           line[k] # "invited"
    PROVE  Inv'
  <1>1. TypeOK'
    BY SMTT(20), CallAssumption DEF Inv, TypeOK, Terminated, EndSession, PeerError,
       EndedCb, Actor, manager
  <1>2. \A j \in Calls : Made(j)'
    BY <1>1 DEF Inv, TypeOK, Terminated, EndSession, PeerError, EndedCb, Actor,
       Live, Made
  <1>3. \A j \in Calls : Announced(j)'
    BY <1>1 DEF Terminated, EndSession, PeerError, EndedCb, Actor, Announced,
       Live, Inv, TypeOK
  <1>4. \A j \in Calls : Ready(j)'
    BY <1>1 DEF Terminated, EndSession, Fits, Live, Ready, Inv, TypeOK
  <1>5. \A j \in Calls : Heard(j)'
    BY <1>1 DEF Heard, Requested, Inv, Terminated, EndSession
  <1>6. \A j \in Calls : EndIsShown(j)'
    BY <1>1 DEF PeerError, EndedCb, Actor, EndIsShown, Fits, Live, Ready, Inv,
       TypeOK, Terminated, EndSession
  <1>7. \A j \in Calls : ShownIsTrue(j)'
    BY <1>1 DEF Inv, TypeOK, Terminated, PeerError, EndedCb, Actor, Requested,
       ShownIsTrue
  <1>8. ChannelsAreListed'
    BY DEF ChannelsAreListed, Open, Announced, Terminated, PeerError, EndedCb,
       Actor, manager, Inv, TypeOK
  <1> QED
    BY <1>1, <1>2, <1>3, <1>4, <1>5, <1>6, <1>7, <1>8 DEF Inv

LEMMA HangupKeeps ==
    ASSUME Inv, NEW k \in Calls, Hangup(k)
    PROVE  Inv'
  BY EndBySelfKeeps DEF Hangup

LEMMA ReceivingFailsKeeps ==
    ASSUME Inv, NEW k \in Calls, ReceivingFails(k)
    PROVE  Inv'
  BY EndBySelfKeeps DEF ReceivingFails

LEMMA LineEndsKeeps ==
    ASSUME Inv, NEW k \in Calls, LineEnds(k)
    PROVE  Inv'
  <1>1. PICK failed \in BOOLEAN : Terminated(k, failed) /\ Live(k) /\ line[k] # "invited"
    BY DEF LineEnds
  <1> QED
    BY <1>1, TerminatedKeeps

LEMMA InviteFailsKeeps ==
    ASSUME Inv, NEW k \in Calls, InviteFails(k)
    PROVE  Inv'
  <1>1. Terminated(k, TRUE) /\ Live(k) /\ line[k] # "invited"
    BY DEF InviteFails
  <1> QED
    BY <1>1, TerminatedKeeps

LEMMA StutterKeeps ==
    ASSUME Inv, UNCHANGED vars
    PROVE  Inv'
  <1>1. TypeOK'
    BY DEF Inv, TypeOK, vars, manager, dialog, shown, history
  <1>2. ChannelsAreListed'
    BY DEF Inv, ChannelsAreListed, Open, vars, manager, dialog, shown, history
  <1>3. \A k \in Calls : Made(k)' /\ Announced(k)' /\ Ready(k)' /\ Heard(k)'
    BY DEF Inv, Made, Announced, Ready, Heard, Live, Fits, Requested,
           vars, manager, dialog, shown, history
  <1>4. \A k \in Calls : EndIsShown(k)' /\ ShownIsTrue(k)'
    BY DEF Inv, EndIsShown, ShownIsTrue, Live, Fits, Requested,
           vars, manager, dialog, shown, history
  <1> QED
    BY <1>1, <1>2, <1>3, <1>4 DEF Inv

LEMMA InitInv == Init => Inv
  <1> SUFFICES ASSUME Init PROVE Inv
    OBVIOUS
  <1>1. TypeOK
    BY DEF Init, TypeOK
  <1>2. ChannelsAreListed
    BY DEF Init, ChannelsAreListed, Open
  <1>3. \A k \in Calls : Made(k) /\ Announced(k) /\ Ready(k) /\ Heard(k)
    BY DEF Init, Made, Announced, Ready, Heard, Live, Fits, Requested, Methods
  <1>4. \A k \in Calls : EndIsShown(k) /\ ShownIsTrue(k)
    BY DEF Init, EndIsShown, ShownIsTrue, Fits
  <1> QED
    BY <1>1, <1>2, <1>3, <1>4 DEF Inv

LEMMA NextKeeps ==
    ASSUME Inv, [Next]_vars
    PROVE  Inv'
  <1>1. CASE Connected
    BY <1>1, ConnectedKeeps
  <1>2. CASE Disconnected
    BY <1>2, DisconnectedKeeps
  <1>3. ASSUME NEW k \in Calls, NEW method \in Methods, NEW h \in Contacts \cup {Self},
               Request(k, method, h)
        PROVE  Inv'
    BY <1>3, RequestKeeps
  <1>4. ASSUME NEW k \in Calls, NEW from \in Contacts \cup {Self, Nobody},
               ReceiveInvite(k, from)
        PROVE  Inv'
    BY <1>4, ReceiveInviteKeeps
  <1>5. ASSUME NEW k \in Calls,
               \/ ReceiveFirstMedia(k) \/ Accept(k) \/ Hangup(k) \/ ReceivingFails(k)
               \/ Close(k) \/ MediaReady(k)
        PROVE  Inv'
    BY <1>5, ReceiveFirstMediaKeeps, AcceptKeeps, HangupKeeps, ReceivingFailsKeeps,
       CloseKeeps, MediaReadyKeeps
  <1>6. ASSUME NEW k \in Calls,
               \/ Ringing(k) \/ EarlyAnswer(k) \/ Answer(k) \/ Reinvite(k)
               \/ ReinviteEnds(k) \/ LateDescription(k) \/ PeerLeaves(k)
               \/ LineEnds(k) \/ InviteFails(k)
        PROVE  Inv'
    BY <1>6, RingingKeeps, EarlyAnswerKeeps, AnswerKeeps, ReinviteKeeps,
       ReinviteEndsKeeps, LateDescriptionKeeps, PeerLeavesKeeps, LineEndsKeeps, InviteFailsKeeps
  <1>7. CASE UNCHANGED vars
    BY <1>7, StutterKeeps
  <1> QED
    BY <1>1, <1>2, <1>3, <1>4, <1>5, <1>6, <1>7 DEF Next

(* The state of the session, the line and the channel of every call, and   *)
(* the array of the manager, go together as Inv says, always.              *)
THEOREM Invariance == Spec => []Inv
  <1>1. Init => Inv
    BY InitInv
  <1>2. Inv /\ [Next]_vars => Inv'
    BY NextKeeps
  <1> QED
    BY <1>1, <1>2, PTL DEF Spec

-----------------------------------------------------------------------------
(* The state of the manager, the calls and the histories has its type.     *)
THEOREM CallTypeCorrect == Spec => []TypeOK
  <1>1. Inv => TypeOK
    BY DEF Inv
  <1> QED
    BY <1>1, Invariance, PTL

(* The manager lists the open channels, and none after a disconnection,    *)
(* when only an INVITE of before can still open one (new_call_channel,     *)
(* call_channel_closed_cb, rakia_media_manager_close_all).                 *)
THEOREM ChannelsAlwaysListed == Spec => []ChannelsAreListed
  <1>1. Inv => ChannelsAreListed
    BY DEF Inv
  <1> QED
    BY <1>1, Invariance, PTL

(* An open channel shows an end if and only if there is one, but for the   *)
(* sessions that end silently.                                             *)
THEOREM EndsAlwaysShown == Spec => []EndsAreShown
  <1>1. Inv => EndsAreShown
    BY DEF Inv, EndsAreShown, EndIsShown, Open
  <1> QED
    BY <1>1, Invariance, PTL

(* The end that the user, a stream or the disconnection gave to a call on  *)
(* the line is shown as our own, whatever the peer did before or sends     *)
(* after it (ended_cb, rakia_sip_session_terminate).                       *)
THEOREM GoodbyesAlwaysOurs == Spec => []GoodbyeIsOurs
  <1>1. Inv => GoodbyeIsOurs
    BY DEF Inv, GoodbyeIsOurs, EndIsShown, Open
  <1> QED
    BY <1>1, Invariance, PTL

(* rakia_sip_session_terminate() ends the line of a call by the request or *)
(* response that the line takes, in whatever state it finds the session.   *)
THEOREM GoodbyesAlwaysFit == Spec => []GoodbyeFits
  <1>1. Inv => GoodbyeFits
    BY DEF Inv, GoodbyeFits, EndIsShown
  <1> QED
    BY <1>1, Invariance, PTL

(* The client sees the hold of the peer, unless ringing wiped it.          *)
THEOREM HoldAlwaysShown == Spec => []HoldIsShown
  <1>1. Inv => HoldIsShown
    BY DEF Inv, HoldIsShown, ShownIsTrue, Open
  <1> QED
    BY <1>1, Invariance, PTL

(* No call is shown as active that nobody answered.                        *)
THEOREM ActiveAlwaysAnswered == Spec => []ActiveIsAnswered
  <1>1. Inv => ActiveIsAnswered
    BY DEF Inv, ActiveIsAnswered, ShownIsTrue
  <1> QED
    BY <1>1, Invariance, PTL

-----------------------------------------------------------------------------
(* The refinement.  A step of one call moves what the service sees of it   *)
(* from view v to w and from line l to m.                                  *)
Move(v, w, l, m) ==
    \/ w = v /\ m = l
    \/ v = "unknown" /\ w = "offered" /\ m = l
    \/ w = v /\ l = "idle" /\ m = "ringing"
    \/ w = v /\ l = "ringing" /\ m = "up"
    \/ v = "offered" /\ w = "active" /\ m = l /\ l # "idle"
    \/ /\ l \in {"ringing", "up"} /\ m = "gone"
       /\ w \in {v, IF v \in {"offered", "active"} THEN "ended" ELSE v}
    \/ v \in {"offered", "active"} /\ w = "ended" /\ m = "gone"
    \/ v \in {"offered", "active", "ended"} /\ w = "closed" /\ m = "gone"

Moves(k) ==
    /\ \A j \in Calls \ {k} : View(j)' = View(j) /\ Line(j)' = Line(j)
    /\ Move(View(k), View(k)', Line(k), Line(k)')

LEMMA MoveIsStep ==
    ASSUME NEW k \in Calls, Moves(k)
    PROVE  Service!Next \/ UNCHANGED Service!vars
  <1> DEFINE V == [j \in Calls |-> View(j)]
             L == [j \in Calls |-> Line(j)]
  <1>1. V' = [V EXCEPT ![k] = View(k)'] /\ L' = [L EXCEPT ![k] = Line(k)']
    BY DEF Moves
  <1>2. V[k] = View(k) /\ L[k] = Line(k)
    OBVIOUS
  <1>3. Move(V[k], View(k)', L[k], Line(k)')
    BY <1>2 DEF Moves
  <1>4. V = [V EXCEPT ![k] = V[k]] /\ L = [L EXCEPT ![k] = L[k]]
    OBVIOUS
  <1>5. /\ V' = [j \in Calls |-> IF j \in {k} THEN View(k)' ELSE V[j]]
        /\ L' = [j \in Calls |-> IF j \in {k} THEN Line(k)' ELSE L[j]]
    BY <1>1
  <1> HIDE DEF V, L
  <1>6. \/ V' = V /\ L' = L
        \/ Service!Offered(k) \/ Service!Rings(k) \/ Service!Answered(k)
        \/ Service!Activated(k) \/ Service!LineLost(k) \/ Service!Ended(k)
        \/ Service!GivenUp({k})
    <2>1. CASE View(k)' = V[k] /\ Line(k)' = L[k]
      BY <1>1, <1>4, <2>1
    <2>2. CASE V[k] = "unknown" /\ View(k)' = "offered" /\ Line(k)' = L[k]
      BY <1>1, <1>4, <2>2 DEF Service!Offered, V, L
    <2>3. CASE View(k)' = V[k] /\ L[k] = "idle" /\ Line(k)' = "ringing"
      BY <1>1, <1>4, <2>3 DEF Service!Rings, V, L
    <2>4. CASE View(k)' = V[k] /\ L[k] = "ringing" /\ Line(k)' = "up"
      BY <1>1, <1>4, <2>4 DEF Service!Answered, V, L
    <2>5. CASE V[k] = "offered" /\ View(k)' = "active" /\ Line(k)' = L[k] /\ L[k] # "idle"
      BY <1>1, <1>4, <2>5 DEF Service!Activated, V, L
    <2>6. CASE /\ L[k] \in {"ringing", "up"} /\ Line(k)' = "gone"
               /\ View(k)' \in {V[k], IF V[k] \in {"offered", "active"} THEN "ended" ELSE V[k]}
      BY <1>1, <1>4, <2>6 DEF Service!LineLost, V, L
    <2>7. CASE V[k] \in {"offered", "active"} /\ View(k)' = "ended" /\ Line(k)' = "gone"
      BY <1>1, <2>7 DEF Service!Ended, V, L
    <2>8. CASE V[k] \in {"offered", "active", "ended"} /\ View(k)' = "closed"
               /\ Line(k)' = "gone"
      BY <1>5, <2>8 DEF Service!GivenUp, V, L
    <2> QED
      BY <1>3, <2>1, <2>2, <2>3, <2>4, <2>5, <2>6, <2>7, <2>8 DEF Move
  <1> QED
    BY <1>6 DEF Service!Next, Service!vars, V, L

-----------------------------------------------------------------------------
LEMMA RequestMoves ==
    ASSUME Inv, NEW k \in Calls, NEW m \in Methods, NEW h \in Contacts \cup {Self},
           Request(k, m, h)
    PROVE  Moves(k)
  <1>1. \A j \in Calls \ {k} : View(j)' = View(j) /\ Line(j)' = Line(j)
    BY DEF Line, Inv, TypeOK, Request, NewCallChannel, View
  <1>2. Move(View(k), View(k)', Line(k), Line(k)')
    BY DEF Request, NewCallChannel, View, Line, Move, Inv, TypeOK, Made
  <1> QED
    BY <1>1, <1>2 DEF Moves

LEMMA ReceiveInviteMoves ==
    ASSUME Inv, NEW k \in Calls, NEW from \in Contacts \cup {Self, Nobody},
           ReceiveInvite(k, from)
    PROVE  Moves(k)
  <1>1. \A j \in Calls \ {k} : View(j)' = View(j) /\ Line(j)' = Line(j)
    BY DEF shown, View, Line, Inv, TypeOK, ReceiveInvite
  <1>2. Move(View(k), View(k)', Line(k), Line(k)')
    BY DEF ReceiveInvite, shown, View, Line, Move, Inv, TypeOK, Made
  <1> QED
    BY <1>1, <1>2 DEF Moves

LEMMA ReceiveFirstMediaMoves ==
    ASSUME Inv, NEW k \in Calls, ReceiveFirstMedia(k)
    PROVE  Moves(k)
  <1>1. \A j \in Calls \ {k} : View(j)' = View(j) /\ Line(j)' = Line(j)
    BY DEF TerminateSilently, NewCallChannel, View, Line, Inv, TypeOK,
       ReceiveFirstMedia, FirstMediaRefused
  <1>2. Move(View(k), View(k)', Line(k), Line(k)')
    BY DEF ReceiveFirstMedia, NewCallChannel, View, Line, Move, Inv, TypeOK,
       Announced
  <1> QED
    BY <1>1, <1>2 DEF Moves

LEMMA AcceptMoves ==
    ASSUME Inv, NEW k \in Calls, Accept(k)
    PROVE  Moves(k)
  <1>1. \A j \in Calls \ {k} : View(j)' = View(j) /\ Line(j)' = Line(j)
    BY DEF Line, Accept, View
  <1>2. Move(View(k), View(k)', Line(k), Line(k)')
    BY DEF Accept, BothAccepted, View, Line, Move, Inv, TypeOK, Made, Requested
  <1> QED
    BY <1>1, <1>2 DEF Moves

LEMMA EndBySelfMoves ==
    ASSUME Inv, NEW k \in Calls, EndBySelf(k), k \in Open
    PROVE  Moves(k)
  <1>1. \A j \in Calls \ {k} : View(j)' = View(j) /\ Line(j)' = Line(j)
    BY DEF Line, EndBySelf, Terminate, View
  <1>2. Move(View(k), View(k)', Line(k), Line(k)')
    BY DEF EndBySelf, Terminate, Open, View, Line, Move, Inv, TypeOK, Ready,
       EndIsShown
  <1> QED
    BY <1>1, <1>2 DEF Moves

LEMMA CloseMoves ==
    ASSUME Inv, NEW k \in Calls, Close(k)
    PROVE  Moves(k)
  <1>1. \A j \in Calls \ {k} : View(j)' = View(j) /\ Line(j)' = Line(j)
    BY DEF View, Line, Close, CloseChannels, Terminate
  <1>2. Move(View(k), View(k)', Line(k), Line(k)')
    BY DEF Terminate, Open, View, Line, Move, Close, CloseChannels
  <1> QED
    BY <1>1, <1>2 DEF Moves

LEMMA MediaReadyMoves ==
    ASSUME Inv, NEW k \in Calls, MediaReady(k)
    PROVE  Moves(k)
  <1>1. \A j \in Calls \ {k} : View(j)' = View(j) /\ Line(j)' = Line(j)
    BY DEF View, Line, Inv, TypeOK, MediaReady, ChangeState
  <1>2. Move(View(k), View(k)', Line(k), Line(k)')
    BY DEF Goodbye, Methods, MediaReady, ChangeState, StateChangedCb,
       RemoteAccept, BothAccepted, View, Line, Move, Inv, TypeOK, Made,
       Announced, Ready, Requested, Live, Fits
  <1> QED
    BY <1>1, <1>2 DEF Moves

LEMMA RingingMoves ==
    ASSUME Inv, NEW k \in Calls, Ringing(k)
    PROVE  Moves(k)
  <1>1. \A j \in Calls \ {k} : View(j)' = View(j) /\ Line(j)' = Line(j)
    BY DEF dialog, View, Line, Ringing
  <1>2. Move(View(k), View(k)', Line(k), Line(k)')
    BY DEF dialog, View, Line, Move, Ringing
  <1> QED
    BY <1>1, <1>2 DEF Moves

LEMMA EarlyAnswerMoves ==
    ASSUME Inv, NEW k \in Calls, EarlyAnswer(k)
    PROVE  Moves(k)
  <1>1. \A j \in Calls \ {k} : View(j)' = View(j) /\ Line(j)' = Line(j)
    BY DEF View, Line, Inv, TypeOK, EarlyAnswer, TerminateSilently, ChangeState
  <1>2. Move(View(k), View(k)', Line(k), Line(k)')
    BY DEF EarlyAnswer, ChangeState, StateChangedCb, View, Line, Move, Inv,
       TypeOK
  <1> QED
    BY <1>1, <1>2 DEF Moves

LEMMA AnswerMoves ==
    ASSUME Inv, NEW k \in Calls, Answer(k)
    PROVE  Moves(k)
  <1>1. \A j \in Calls \ {k} : View(j)' = View(j) /\ Line(j)' = Line(j)
    BY DEF View, Line, Inv, TypeOK, Answer, TerminateSilently, ChangeState
  <1>2. Move(View(k), View(k)', Line(k), Line(k)')
    BY DEF Answer, ChangeState, StateChangedCb, View, Line, Move, Inv, TypeOK
  <1> QED
    BY <1>1, <1>2 DEF Moves

LEMMA ReinviteMoves ==
    ASSUME Inv, NEW k \in Calls, Reinvite(k)
    PROVE  Moves(k)
  <1>1. \A j \in Calls \ {k} : View(j)' = View(j) /\ Line(j)' = Line(j)
    BY DEF View, Line, Reinvite, ChangeState
  <1>2. Move(View(k), View(k)', Line(k), Line(k)')
    BY DEF StateChangedCb, View, Line, Move, Reinvite, ChangeState
  <1> QED
    BY <1>1, <1>2 DEF Moves

LEMMA ReinviteEndsMoves ==
    ASSUME Inv, NEW k \in Calls, ReinviteEnds(k)
    PROVE  Moves(k)
  <1>1. \A j \in Calls \ {k} : View(j)' = View(j) /\ Line(j)' = Line(j)
    BY DEF View, Line, Inv, TypeOK, ReinviteEnds, TerminateSilently, ChangeState
  <1>2. Move(View(k), View(k)', Line(k), Line(k)')
    BY DEF ReinviteEnds, ChangeState, StateChangedCb, RemoteAccept,
       BothAccepted, View, Line, Move, Inv, TypeOK, Ready, Live, Fits, Goodbye
  <1> QED
    BY <1>1, <1>2 DEF Moves

LEMMA LateDescriptionMoves ==
    ASSUME Inv, NEW k \in Calls, LateDescription(k)
    PROVE  Moves(k)
  <1>1. \A j \in Calls \ {k} : View(j)' = View(j) /\ Line(j)' = Line(j)
    BY DEF View, Line, Inv, TypeOK, LateDescription, TerminateSilently, ChangeState
  <1>2. Move(View(k), View(k)', Line(k), Line(k)')
    BY DEF LateDescription, ChangeState, StateChangedCb, RemoteAccept,
       BothAccepted, View, Line, Move, Inv, TypeOK, Ready, Live, Fits, Goodbye
  <1> QED
    BY <1>1, <1>2 DEF Moves

LEMMA PeerLeavesMoves ==
    ASSUME Inv, NEW k \in Calls, PeerLeaves(k)
    PROVE  Moves(k)
  <1>1. \A j \in Calls \ {k} : View(j)' = View(j) /\ Line(j)' = Line(j)
    BY DEF Line, Inv, TypeOK, PeerLeaves, EndedCb, Actor, View
  <1>2. Move(View(k), View(k)', Line(k), Line(k)')
    BY DEF PeerLeaves, EndedCb, Actor, View, Line, Move, Inv, TypeOK, Announced
  <1> QED
    BY <1>1, <1>2 DEF Moves

LEMMA TerminatedMoves ==
    ASSUME Inv, NEW k \in Calls, NEW failed \in BOOLEAN, Terminated(k, failed), Live(k),
           line[k] \notin {"none", "invited"}
    PROVE  Moves(k)
  <1>1. \A j \in Calls \ {k} : View(j)' = View(j) /\ Line(j)' = Line(j)
    BY DEF Actor, View, Line, Inv, TypeOK, Terminated, EndSession, PeerError,
       EndedCb
  <1>2. Move(View(k), View(k)', Line(k), Line(k)')
    BY DEF Terminated, EndSession, PeerError, EndedCb, Actor, View, Line, Move,
       Inv, TypeOK, Announced
  <1> QED
    BY <1>1, <1>2 DEF Moves

LEMMA HangupMoves ==
    ASSUME Inv, NEW k \in Calls, Hangup(k)
    PROVE  Moves(k)
  BY EndBySelfMoves DEF Hangup

LEMMA ReceivingFailsMoves ==
    ASSUME Inv, NEW k \in Calls, ReceivingFails(k)
    PROVE  Moves(k)
  BY EndBySelfMoves DEF ReceivingFails

LEMMA LineEndsMoves ==
    ASSUME Inv, NEW k \in Calls, LineEnds(k)
    PROVE  Moves(k)
  <1>1. PICK failed \in BOOLEAN : Terminated(k, failed) /\ Live(k) /\ line[k] # "invited"
    BY DEF LineEnds
  <1>2. line[k] # "none"
    <2>1. CASE status = "DISCONNECTED"
      <3>1. k \in Open
        BY <1>1 DEF Inv, Announced, Open
      <3> QED
        BY <2>1, <3>1 DEF Inv, ChannelsAreListed, Made
    <2>2. CASE status # "DISCONNECTED"
      BY <2>2 DEF LineEnds
    <2> QED
      BY <2>1, <2>2
  <1> QED
    BY <1>1, <1>2, TerminatedMoves

LEMMA InviteFailsMoves ==
    ASSUME Inv, NEW k \in Calls, InviteFails(k)
    PROVE  Moves(k)
  <1>1. Terminated(k, TRUE) /\ Live(k) /\ line[k] \notin {"none", "invited"}
    BY DEF InviteFails
  <1> QED
    BY <1>1, TerminatedMoves

(* A disconnection gives up the calls that the manager lists, all at once. *)
LEMMA DisconnectedGivesUp ==
    ASSUME Inv, Disconnected
    PROVE  Service!GivenUp(channels)
  <1>1. channels = Open
    BY DEF Inv, ChannelsAreListed, Disconnected
  <1>2. \A j \in channels : View(j) \in {"offered", "active", "ended"}
    BY <1>1 DEF Open, View
  <1>3. /\ call' = [k \in Calls |-> IF k \in channels THEN "closed" ELSE call[k]]
        /\ session' = [k \in Calls |-> IF k \in channels THEN "ENDED" ELSE session[k]]
        /\ line' = line
    BY DEF Disconnected, CloseChannels, Terminate
  <1>4. \A j \in Calls : /\ View(j)' = IF j \in channels THEN "closed" ELSE View(j)
                         /\ Line(j)' = IF j \in channels THEN "gone" ELSE Line(j)
    BY <1>3 DEF View, Line
  <1>5. channels \subseteq Calls
    BY DEF Inv, TypeOK
  <1> QED
    BY <1>2, <1>4, <1>5 DEF Service!GivenUp

LEMMA StepsRefine ==
    ASSUME Inv, [Next]_vars
    PROVE  Service!Next \/ UNCHANGED Service!vars
  <1>1. CASE Connected
    BY <1>1 DEF Line, Service!vars, dialog, shown, Connected, View
  <1>2. CASE Disconnected
    <2>1. channels \in SUBSET Calls
      BY DEF Inv, TypeOK
    <2> QED
      BY <1>2, <2>1, DisconnectedGivesUp DEF Service!Next
  <1>3. ASSUME NEW k \in Calls, NEW method \in Methods, NEW h \in Contacts \cup {Self},
               Request(k, method, h)
        PROVE  Moves(k)
    BY <1>3, RequestMoves
  <1>4. ASSUME NEW k \in Calls, NEW from \in Contacts \cup {Self, Nobody},
               ReceiveInvite(k, from)
        PROVE  Moves(k)
    BY <1>4, ReceiveInviteMoves
  <1>5. ASSUME NEW k \in Calls,
               \/ ReceiveFirstMedia(k) \/ Accept(k) \/ Hangup(k) \/ ReceivingFails(k)
               \/ Close(k) \/ MediaReady(k)
        PROVE  Moves(k)
    BY <1>5, ReceiveFirstMediaMoves, AcceptMoves, HangupMoves, ReceivingFailsMoves,
       CloseMoves, MediaReadyMoves
  <1>6. ASSUME NEW k \in Calls,
               \/ Ringing(k) \/ EarlyAnswer(k) \/ Answer(k) \/ Reinvite(k)
               \/ ReinviteEnds(k) \/ LateDescription(k) \/ PeerLeaves(k)
               \/ LineEnds(k) \/ InviteFails(k)
        PROVE  Moves(k)
    BY <1>6, RingingMoves, EarlyAnswerMoves, AnswerMoves, ReinviteMoves,
       ReinviteEndsMoves, LateDescriptionMoves, PeerLeavesMoves, LineEndsMoves, InviteFailsMoves
  <1>7. CASE UNCHANGED vars
    BY <1>7 DEF Service!vars, vars, dialog, shown, View, Line
  <1> QED
    BY <1>1, <1>2, <1>3, <1>4, <1>5, <1>6, <1>7, MoveIsStep DEF Next

LEMMA InitRefines == Init => Service!Init
  BY DEF Init, Service!Init, View, Line

(* The channels, sessions and lines of calls do for the client what        *)
(* CallService promises, in every order of their events.                   *)
THEOREM CallServiceImplemented == Spec => ImplementsCallService
  <1>1. Init => Service!Init
    BY InitRefines
  <1>2. Inv /\ [Next]_vars => [Service!Next]_(Service!vars)
    BY StepsRefine
  <1> QED
    BY <1>1, <1>2, Invariance, PTL DEF Spec, ImplementsCallService, Service!Spec
==============================================================================
