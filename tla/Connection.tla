---------------------------- MODULE Connection -----------------------------
(***************************************************************************)
(* The connection: sip-connection.c and sip-connection-helpers.c, made by  *)
(* new_connection of protocol.c.                                           *)
(*                                                                         *)
(* A connection starts a NUA stack and registers with it.  Challenges come *)
(* to the registration and to the requests of calls and messages, whose    *)
(* objects the connection serves as authentication handler; a home         *)
(* challenge without a known password waits for the user.  Meanwhile DNS   *)
(* answers about the STUN server arrive, the heartbeat of the platform     *)
(* wakes the process, and the client may disconnect.  Everything runs in   *)
(* one main loop; an action is one entry from it.                          *)
(*                                                                         *)
(* Of the base class of telepathy-glib: a change to DISCONNECTED calls     *)
(* "disconnected", unless nothing was connected yet, and then "shut_down"; *)
(* a change to the status that is already there does nothing.              *)
(***************************************************************************)
EXTENDS Integers, Sequences, FiniteSetsExt

CONSTANTS
    Targets,        \* requests of calls and messages, each with its NUA handle
    Realms,         \* realms of challenges
    Mechanisms,     \* values of the parameter keepalive-mechanism
    Intervals,      \* values of the parameter keepalive-interval, 0 included
    SrvAnswers,     \* answers to the SRV query: sequences of SRV records
    WeightModulus,  \* 2^16 of the weights of SRV records
    MaxChallenges   \* bound on the challenges of one request

Register == "register"
NoRealm == "no realm"

(* A usable record has status 0 and type SRV; its port names it.           *)
SrvRecord == [usable : BOOLEAN, priority : Nat, weight : Nat, port : Nat]

ASSUME ConnectionAssumption ==
    /\ Register \notin Targets /\ NoRealm \notin Realms
    /\ Mechanisms \subseteq {"auto", "none", "register", "options", "stun"}
    /\ Intervals \subseteq Nat
    /\ SrvAnswers \subseteq Seq(SrvRecord)
    /\ WeightModulus \in Nat \ {0}
    /\ MaxChallenges \in Nat

Handles == {Register} \cup Targets
Unset == -1

Parameters ==
    [account : {"domain", "address", "invalid"}, user : {"auth", "from", "nobody"},
     password : BOOLEAN, extra : BOOLEAN,
     mechanism : Mechanisms \cup {"auto"}, interval : Intervals \cup {Unset},
     discover : BOOLEAN, server : {"none", "address", "name"}]
Default == [account |-> "domain", user |-> "from", password |-> TRUE, extra |-> FALSE,
            mechanism |-> "auto", interval |-> Unset,
            discover |-> FALSE, server |-> "none"]

(* The parameters, one aspect varied at a time: the aspects share only the *)
(* status of the connection.                                               *)
Params ==
    {p \in Parameters :
       \/ p = [Default EXCEPT !.user = p.user, !.password = p.password, !.extra = p.extra]
       \/ p = [Default EXCEPT !.mechanism = p.mechanism, !.interval = p.interval]
       \/ p = [Default EXCEPT !.account = p.account, !.discover = p.discover,
                              !.server = p.server]}

VARIABLES
    params,             \* what new_connection was given
    status,             \* of the Telepathy connection
    nua,                \* the stack: sofia_nua, or one that shuts down
    register_op,        \* the handle of the registration is held
    finished,           \* the base class was told that the shutdown is over
    alive,              \* the object is not finalized
    holders,            \* requests whose objects refer to the connection
    registrar_realm, password,
    request,            \* how far the request of each handle is
    asked,              \* realm of the password prompt of each handle
    heartbeat,          \* the heartbeat descriptor and its wait object
    stack,              \* keepalive parameters given to the stack
    query, stun_port,   \* the DNS query that is under way, and the port so far
    media_stun          \* what the media manager was told of the STUN server

(* History, for the properties and the bounds.                             *)
VARIABLES
    presented,          \* realms of challenges to the registration
    authenticated,      \* the realm and the secret of each nua_authenticate
    rounds,             \* challenges of each handle
    srv                 \* the SRV records that came

lifetime == <<status, nua, register_op, finished, alive, holders>>
auth == <<registrar_realm, password, request, asked, presented, authenticated, rounds>>
stun == <<query, stun_port, media_stun, srv>>
vars == <<params, lifetime, auth, heartbeat, stack, stun>>

NoServer == [server |-> "none", port |-> 0]
NoStack == [options |-> "default", keepalive |-> Unset, expires |-> Unset]

TypeOK ==
    /\ params \in Params
    /\ status \in {"NEW", "CONNECTING", "CONNECTED", "DISCONNECTED"}
    /\ nua \in {"none", "running", "stopping", "gone"}
    /\ register_op \in BOOLEAN /\ finished \in BOOLEAN /\ alive \in BOOLEAN
    /\ holders \subseteq Targets
    /\ registrar_realm \in Realms \cup {NoRealm}
    /\ password \in BOOLEAN
    /\ request \in [Handles -> {"none", "sent", "prompt", "over"}]
    /\ asked \in [Handles -> Realms \cup {NoRealm}]
    /\ heartbeat \in {"closed", "open", "waiting"}
    /\ stack \in [options : {"default", "on", "off"},
                  keepalive : Nat \cup {Unset}, expires : Nat \cup {Unset}]
    /\ query \in {"none", "srv", "a"} /\ stun_port \in Nat
    /\ media_stun \in [server : {"none", "address", "name", "target"}, port : Nat]
    /\ presented \subseteq Realms
    /\ authenticated \subseteq Realms \X {"home", "extra", "blank"}
    /\ rounds \in [Handles -> Nat]
    /\ srv \in SrvAnswers \cup {<<>>}

Init ==
    /\ params \in Params
    /\ status = "NEW" /\ nua = "none" /\ register_op = FALSE
    /\ finished = FALSE /\ alive = TRUE /\ holders = {}
    /\ registrar_realm = NoRealm /\ password = params.password
    /\ request = [h \in Handles |-> "none"]
    /\ asked = [h \in Handles |-> NoRealm]
    /\ heartbeat = "closed" /\ stack = NoStack
    /\ query = "none" /\ stun_port = 3478 /\ media_stun = NoServer
    /\ presented = {} /\ authenticated = {} /\ rounds = [h \in Handles |-> 0]
    /\ srv = <<>>

-----------------------------------------------------------------------------
(* Keepalives.  The interval is set before the mechanism.                  *)

Specified == params.interval # Unset
Interval == IF Specified THEN params.interval ELSE 0
Mechanism == IF Specified /\ Interval = 0 THEN "none" ELSE params.mechanism

(* Faulty variant: the registration has no minimum of its own.             *)
SanitizedAlike(interval) == IF interval = 0 THEN 0 ELSE Max({interval, 30})

(* Short intervals are pushed to a minimum, seconds throughout.            *)
Sanitized(interval) ==
    IF interval = 0 THEN 0
    ELSE Max({interval, IF Mechanism = "register" THEN 50 ELSE 30})

OutboundOptions ==
    CASE Mechanism \in {"none", "register"} -> "off"
      [] Mechanism = "options" -> "on"
      [] OTHER -> "default"

(* What a new stack is told; Unset is what it is not told.                 *)
StackParams ==
    [options |-> OutboundOptions,
     keepalive |-> IF ~Specified THEN Unset
                   ELSE IF Mechanism = "none" THEN 0 ELSE Sanitized(Interval),
     expires |-> IF Mechanism = "register" /\ Interval # 0
                 THEN Sanitized(Interval) ELSE Unset]

Recommended == {36000, 7200, 3600, 1800, 1200, 600, 300, 150, 30}

(* The platform wakes its processes together at recommended intervals.     *)
SyncInterval(longest) ==
    LET fit == {i \in Recommended : i <= longest}
    IN IF fit # {} THEN Max(fit) ELSE Min({longest, 65535})

-----------------------------------------------------------------------------
(* The choice among SRV records, which are named by their index.           *)

Usable(answers) == {i \in DOMAIN answers : answers[i].usable}

(* Faulty variant: the priorities are not compared.                        *)
CandidatesOfAll(answers) == Usable(answers)

(* The records of the lowest priority.                                     *)
Candidates(answers) ==
    {i \in Usable(answers) :
        \A j \in Usable(answers) : answers[i].priority <= answers[j].priority}

(* Records without weight are put in front of the list, others at its end. *)
Place(answers, i) == IF answers[i].weight = 0 THEN -i ELSE i

(* The sum of the weights up to a record replaces its weight, and has the  *)
(* 16 bits of one.                                                         *)
RunningSum(answers, i) ==
    LET listed == {j \in Candidates(answers) : Place(answers, j) <= Place(answers, i)}
    IN MapThenSumSet(LAMBDA j : answers[j].weight, listed) % WeightModulus

(* The first record of a set.                                              *)
Foremost(answers, records) ==
    CHOOSE i \in records : \A j \in records : Place(answers, i) <= Place(answers, j)

(* Faulty variant: a record is passed over when its sum equals the dice.   *)
ChosenAbove(answers, dice) ==
    LET above == {i \in Candidates(answers) : RunningSum(answers, i) > dice}
    IN IF above = {} THEN Min(Candidates(answers)) ELSE Foremost(answers, above)

(* The first record whose sum reaches the dice.                            *)
Chosen(answers, dice) ==
    Foremost(answers, {i \in Candidates(answers) : RunningSum(answers, i) >= dice})

(* The dice has up to as many eyes as the sum of the last record.          *)
Dice(answers) ==
    LET last == CHOOSE i \in Candidates(answers) :
                   \A j \in Candidates(answers) : Place(answers, j) <= Place(answers, i)
    IN 0..RunningSum(answers, last)

-----------------------------------------------------------------------------
(* The STUN server.                                                        *)

(* An address goes to the media manager at once, a name is looked up.      *)
Resolve(server, port) ==
    IF server = "address"
    THEN /\ media_stun' = [server |-> "address", port |-> port]
         /\ query' = "none"
    ELSE /\ query' = "a"
         /\ UNCHANGED media_stun

(* Discovery goes before the server that was given.                        *)
StartStun ==
    /\ UNCHANGED <<stun_port, srv>>
    /\ IF params.discover
       THEN /\ query' = IF params.account = "address" THEN "none" ELSE "srv"
            /\ UNCHANGED media_stun
       ELSE IF params.server # "none" THEN Resolve(params.server, stun_port)
       ELSE UNCHANGED <<query, media_stun>>

(* The SRV records arrive, or an error.                                    *)
StunDiscovered(answers) ==
    /\ query = "srv"
    /\ srv' = answers
    /\ IF Usable(answers) = {}
       THEN /\ query' = "none"
            /\ UNCHANGED <<stun_port, media_stun>>
       ELSE \E dice \in Dice(answers) :
               /\ stun_port' = answers[Chosen(answers, dice)].port
               /\ Resolve("target", stun_port')
    /\ UNCHANGED <<params, lifetime, auth, heartbeat, stack>>

StunResolved(found) ==
    /\ query = "a"
    /\ query' = "none"
    /\ media_stun' =
          IF found
          THEN [server |-> IF params.discover THEN "target" ELSE params.server,
                port |-> stun_port]
          ELSE media_stun
    /\ UNCHANGED <<params, lifetime, auth, heartbeat, stack, stun_port, srv>>

-----------------------------------------------------------------------------
(* Shutting down.                                                          *)

(* Without a wait object there is nothing that is closed.                  *)
HeartbeatShutdown == IF heartbeat = "waiting" THEN "closed" ELSE heartbeat

(* Faulty variant: the heartbeat goes on.                                  *)
ShutDownBeating ==
    /\ nua' = IF nua = "running" THEN "stopping" ELSE nua
    /\ finished' = TRUE
    /\ UNCHANGED heartbeat

(* Faulty variant: without a stack the shutdown is never over.             *)
ShutDownOfStack ==
    /\ heartbeat' = HeartbeatShutdown
    /\ nua' = IF nua = "running" THEN "stopping" ELSE nua
    /\ finished' = (nua = "running")

ShutDown ==
    /\ heartbeat' = HeartbeatShutdown
    /\ nua' = IF nua = "running" THEN "stopping" ELSE nua
    /\ finished' = TRUE

(* The managers close their channels, the handle of the registration is    *)
(* given up and the stack told to shut down.                               *)
GoDisconnected ==
    /\ status' = "DISCONNECTED"
    /\ register_op' = FALSE
    /\ ShutDown
    /\ request' = [h \in Handles |->
                     IF h \in Targets /\ request[h] = "sent" THEN "over" ELSE request[h]]

Disconnect ==
    /\ status \in {"CONNECTING", "CONNECTED"}
    /\ GoDisconnected
    /\ UNCHANGED <<params, alive, holders, registrar_realm, password, asked, presented,
                   authenticated, rounds, stack, stun>>

StackStopped ==
    /\ nua = "stopping"
    /\ nua' = "gone"
    /\ request' = [h \in Handles |-> IF request[h] = "sent" THEN "over" ELSE request[h]]
    /\ UNCHANGED <<params, status, register_op, finished, alive, holders, registrar_realm,
                   password, asked, presented, authenticated, rounds,
                   heartbeat, stack, stun>>

(* Prompts, sessions and channels hold references; the resolver goes with  *)
(* the connection.  The stack holds none, and may still be stopping.       *)
Finalized ==
    /\ alive /\ finished
    /\ holders = {} /\ \A h \in Handles : request[h] # "prompt"
    /\ alive' = FALSE
    /\ query' = "none"
    /\ UNCHANGED <<params, status, nua, register_op, finished, holders, auth, heartbeat,
                   stack, stun_port, media_stun, srv>>

-----------------------------------------------------------------------------
(* Connecting.                                                             *)

(* The account is no valid handle, the stack cannot be created, or the     *)
(* client disconnects first.                                               *)
NeverConnected ==
    /\ status = "NEW"
    /\ status' = "DISCONNECTED"
    /\ ShutDown
    /\ UNCHANGED <<params, register_op, alive, holders, auth, stack, stun>>

(* The stack is created and configured; the last thing that can fail is    *)
(* the handle of the registration.                                         *)
StartConnecting(handle) ==
    /\ status = "NEW"
    /\ params.account # "invalid"
    /\ stack' = StackParams
    /\ StartStun
    /\ IF handle
       THEN /\ status' = "CONNECTING" /\ nua' = "running"
            /\ register_op' = TRUE
            /\ request' = [request EXCEPT ![Register] = "sent"]
            /\ UNCHANGED <<finished, heartbeat>>
       ELSE /\ status' = "DISCONNECTED" /\ nua' = "stopping"
            /\ finished' = TRUE
            /\ UNCHANGED <<heartbeat, register_op, request>>
    /\ UNCHANGED <<params, alive, holders, registrar_realm, password, asked, presented,
                   authenticated, rounds>>

(* An event of the registration comes: also one that was queued when the   *)
(* stack was told to shut down, and one that a stopping stack delivers     *)
(* when the connection is finalized.  The handle is then bound to the      *)
(* object of retired handles; the callback still reads the connection.     *)
RegisterEvent == request[Register] = "sent"

(* The heartbeat cannot be opened, waited for or scheduled, or it works.   *)
HeartbeatInit == heartbeat' \in {"closed", "open", "waiting"}

(* Faulty variant: each success of a registration connects.                *)
RegisterSucceedsAgain ==
    /\ RegisterEvent
    /\ status' = "CONNECTED"
    /\ HeartbeatInit
    /\ UNCHANGED <<params, nua, register_op, finished, alive, holders, auth, stack, stun>>

(* 2xx; a refreshed registration changes nothing.                          *)
RegisterSucceeds ==
    /\ RegisterEvent
    /\ IF status # "CONNECTING"
       THEN UNCHANGED <<status, heartbeat>>
       ELSE status' = "CONNECTED" /\ HeartbeatInit
    /\ UNCHANGED <<params, nua, register_op, finished, alive, holders, auth, stack, stun>>

(* 300 and above, 904 after an authentication loop, or a challenge that    *)
(* nothing can be answered to.                                             *)
RegisterFails ==
    /\ RegisterEvent
    /\ IF status = "DISCONNECTED"
       THEN /\ request' = [request EXCEPT ![Register] = "over"]
            /\ UNCHANGED <<status, nua, register_op, finished, heartbeat>>
       ELSE GoDisconnected
    /\ UNCHANGED <<params, alive, holders, registrar_realm, password, asked, presented,
                   authenticated, rounds, stack, stun>>

HeartbeatTick ==
    /\ heartbeat = "waiting"
    /\ heartbeat' = HeartbeatShutdown
    /\ UNCHANGED <<params, lifetime, auth, stack, stun>>

-----------------------------------------------------------------------------
(* Requests of calls and messages, as far as they are challenged.          *)

(* The session of a call and the channel of a message refer to the         *)
(* connection.                                                             *)
TargetSends(t) ==
    /\ status = "CONNECTED"
    /\ request[t] = "none"
    /\ request' = [request EXCEPT ![t] = "sent"]
    /\ holders' = holders \cup {t}
    /\ UNCHANGED <<params, status, nua, register_op, finished, alive, registrar_realm,
                   password, asked, presented, authenticated, rounds,
                   heartbeat, stack, stun>>

TargetAnswered(t) ==
    /\ request[t] = "sent"
    /\ request' = [request EXCEPT ![t] = "over"]
    /\ UNCHANGED <<params, lifetime, registrar_realm, password, asked, presented,
                   authenticated, rounds, heartbeat, stack, stun>>

(* The object is disposed of, with its handle.  Nothing says that it ever  *)
(* is: streams keep their channel, a refused session is not released.      *)
TargetReleased(t) ==
    /\ t \in holders
    /\ holders' = holders \ {t}
    /\ request' = [request EXCEPT ![t] = IF @ = "sent" THEN "over" ELSE @]
    /\ UNCHANGED <<params, status, nua, register_op, finished, alive, registrar_realm,
                   password, asked, presented, authenticated, rounds,
                   heartbeat, stack, stun>>

-----------------------------------------------------------------------------
(* Authentication.                                                         *)

(* Faulty variant: an unknown home realm is any realm.                     *)
HomeUnlessKnown(h, realm) == h = Register \/ registrar_realm \in {realm, NoRealm}

(* A challenge to the registration, or in the realm of the last one.       *)
Home(h, realm) == h = Register \/ registrar_realm = realm

(* Without an authentication user the one of our address is used.          *)
UserKnown(home) == params.user # "nobody" \/ (~home /\ params.extra)

(* Faulty variant: without a password for other realms there is none.      *)
SecretIfAny(home) ==
    IF home THEN "home" ELSE IF params.extra THEN "extra" ELSE "missing"

(* The blank one keeps the user from being asked.                          *)
Secret(home) ==
    IF home THEN "home" ELSE IF params.extra THEN "extra" ELSE "blank"

(* The registrar's realm is the first one it presents, or the last one in  *)
(* a WWW-Authenticate.                                                     *)
SaveRealm(h, realm, www) ==
    registrar_realm' = IF h = Register /\ (registrar_realm = NoRealm \/ www)
                       THEN realm ELSE registrar_realm

(* A challenge with a realm and a method is answered, or waits for a       *)
(* password.  The handlers go with the connection: a later challenge finds *)
(* none.                                                                   *)
Challenged(h, realm, www) ==
    /\ alive /\ request[h] = "sent"
    /\ rounds[h] < MaxChallenges
    /\ UserKnown(Home(h, realm))
    /\ SaveRealm(h, realm, www)
    /\ presented' = IF h = Register THEN presented \cup {realm} ELSE presented
    /\ rounds' = [rounds EXCEPT ![h] = @ + 1]
    /\ IF Home(h, realm) /\ ~password
       THEN /\ request' = [request EXCEPT ![h] = "prompt"]
            /\ asked' = [asked EXCEPT ![h] = realm]
            /\ UNCHANGED authenticated
       ELSE /\ authenticated' = authenticated \cup {<<realm, Secret(Home(h, realm))>>}
            /\ UNCHANGED <<request, asked>>
    /\ UNCHANGED <<params, lifetime, password, heartbeat, stack, stun>>

Continue(h, secret) ==
    /\ authenticated' = authenticated \cup {<<asked[h], secret>>}
    /\ request' = [request EXCEPT ![h] =
                     IF status = "DISCONNECTED" THEN "over" ELSE "sent"]

(* Faulty variant: a prompt that failed leaves the challenge unanswered.   *)
PromptEndsSilently(h, answered) ==
    /\ request[h] = "prompt"
    /\ password' = (password \/ answered)
    /\ IF answered THEN Continue(h, "home")
       ELSE request' = [request EXCEPT ![h] = "over"] /\ UNCHANGED authenticated
    /\ UNCHANGED <<params, lifetime, registrar_realm, asked, presented, rounds,
                   heartbeat, stack, stun>>

(* The user gives a password, which is kept, or the prompt fails and a     *)
(* blank one is used.                                                      *)
PromptEnds(h, answered) ==
    /\ request[h] = "prompt"
    /\ password' = (password \/ answered)
    /\ Continue(h, IF answered THEN "home" ELSE "blank")
    /\ UNCHANGED <<params, lifetime, registrar_realm, asked, presented, rounds,
                   heartbeat, stack, stun>>

-----------------------------------------------------------------------------
Next ==
    \/ NeverConnected \/ Disconnect \/ StackStopped \/ Finalized
    \/ \E handle \in BOOLEAN : StartConnecting(handle)
    \/ RegisterSucceeds \/ RegisterFails \/ HeartbeatTick
    \/ \E t \in Targets : TargetSends(t) \/ TargetAnswered(t) \/ TargetReleased(t)
    \/ \E h \in Handles, realm \in Realms, www \in BOOLEAN : Challenged(h, realm, www)
    \/ \E h \in Handles, answered \in BOOLEAN : PromptEnds(h, answered)
    \/ \E answers \in SrvAnswers : StunDiscovered(answers)
    \/ \E found \in BOOLEAN : StunResolved(found)

Spec == Init /\ [][Next]_vars

(* NUA answers a REGISTER sooner or later and completes its shutdown, the  *)
(* end of the connection ends the prompts, and an object that nobody       *)
(* refers to is finalized.  A prompt has no timeout: while the connection  *)
(* lasts nothing makes the user answer it.                                 *)
Fairness ==
    /\ WF_vars(status = "CONNECTING" /\ (RegisterSucceeds \/ RegisterFails))
    /\ \A h \in Handles : WF_vars(/\ status = "DISCONNECTED"
                               /\ \E answered \in BOOLEAN : PromptEnds(h, answered))
    /\ WF_vars(StackStopped)
    /\ WF_vars(Finalized)

FairSpec == Spec /\ Fairness

-----------------------------------------------------------------------------
(* Properties.                                                             *)

(* The password of the account goes only to realms that the registrar      *)
(* itself presented, and the user is asked for it only for them, whatever  *)
(* realms the challenges to calls and messages name and in whatever order  *)
(* they come (priv_handle_auth and its continuations).                     *)
HomeSecretStaysHome ==
    /\ \A realm \in Realms : <<realm, "home">> \in authenticated => realm \in presented
    /\ \A h \in Handles : request[h] = "prompt" => asked[h] \in presented

(* Only the stack outlives a connection: after the disconnection, however  *)
(* it came, the handle of the registration is given up, no wait object is  *)
(* registered and the stack is told to stop; after the finalization no     *)
(* query, no prompt and no session or channel is left that uses it.  The   *)
(* stack itself may still call it: the shutdown is reported as finished    *)
(* before it is (rakia_connection_shut_down).                              *)
OnlyStackOutlivesConnection ==
    /\ status = "DISCONNECTED" => ~register_op /\ heartbeat # "waiting" /\ nua # "running"
    /\ ~alive => /\ query = "none" /\ holders = {}
                 /\ \A h \in Handles : request[h] # "prompt"

(* The status only advances: a late answer to the registration does not    *)
(* connect again what was disconnected, and the heartbeat is opened only   *)
(* when the connection becomes connected.                                  *)
Rank == [NEW |-> 0, CONNECTING |-> 1, CONNECTED |-> 2, DISCONNECTED |-> 3]
StatusOnlyAdvances ==
    [][/\ Rank[status'] >= Rank[status]
       /\ heartbeat' # heartbeat /\ heartbeat' # "closed"
             => status = "CONNECTING" /\ status' = "CONNECTED"]_vars

(* Whatever is given, the stack is told nothing that contradicts: interval *)
(* zero turns all keepalives off, other intervals respect the minimum of   *)
(* the mechanism, the registration expires when its keepalive is due, and  *)
(* the heartbeat is not slower than the keepalive.                         *)
KeepaliveIsSane ==
    /\ Specified /\ Interval = 0 /\ stack # NoStack
          => stack = [options |-> "off", keepalive |-> 0, expires |-> Unset]
    /\ stack.keepalive \notin {Unset, 0}
          => stack.keepalive >= Max({Interval, IF params.mechanism = "register" THEN 50 ELSE 30})
    /\ stack.expires # Unset => stack.expires = stack.keepalive /\ stack.options = "off"
    /\ stack.keepalive > 0 => SyncInterval(stack.keepalive) \in 30..stack.keepalive

(* The address and the port the media manager gets belong together: both   *)
(* are of one usable SRV record of the lowest priority, or both of the     *)
(* parameters; an error on the way leaves nothing half set.                *)
StunServerFits ==
    media_stun # NoServer =>
        IF media_stun.server = "target"
        THEN \E i \in Usable(srv) :
                /\ srv[i].port = media_stun.port
                /\ \A j \in Usable(srv) : srv[i].priority <= srv[j].priority
        ELSE media_stun = [server |-> params.server, port |-> 3478]

(* Each SRV record of the lowest priority is chosen in proportion to its   *)
(* weight, as far as the weights together fit into 16 bits: of the outcomes *)
(* of the dice as many choose it as its weight says, one more for the      *)
(* first record.                                                           *)
LoadIsBalanced ==
    LET records == Candidates(srv)
        Share(i) == Cardinality({dice \in Dice(srv) : Chosen(srv, dice) = i})
    IN /\ records # {}
       /\ MapThenSumSet(LAMBDA i : srv[i].weight, records) < WeightModulus
       => \A i \in records :
             Share(i) = srv[i].weight + (IF i = Foremost(srv, records) THEN 1 ELSE 0)

(* Connecting ends, the registration succeeding or the connection given    *)
(* up, or it comes to wait for the user: also when a prompt fails, the     *)
(* challenge is answered and the registration goes on.                     *)
ConnectionSettles ==
    status = "CONNECTING" ~> status # "CONNECTING" \/ request[Register] = "prompt"

(* A connection that is over is released when the last session and the     *)
(* last channel are, whatever prompts and queries were under way.          *)
ConnectionIsReleased == status = "DISCONNECTED" /\ holders = {} ~> ~alive
=============================================================================
