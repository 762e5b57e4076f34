--------------------------- MODULE ConnectionProofs ---------------------------
(***************************************************************************)
(* Proofs about Connection: what holds of a connection's life, of its      *)
(* secrets, of what the stack is told and of the STUN server, for any      *)
(* realms, requests, parameters and DNS answers.                           *)
(*                                                                         *)
(* Inv is inductive by itself: the life and the secrets do not depend on   *)
(* keepalives and DNS.  DataInv adds these, and the types of all variables.*)
(* That a choice among SRV records exists is no more than that a set of    *)
(* integers with a lower bound has a least element, which WFMin gives; the *)
(* sums of weights and the share of each record follow from a smallest     *)
(* counterexample among the finite sets of records.                        *)
(***************************************************************************)
EXTENDS Connection, FiniteSetTheorems, TLAPS

LifeTypeOK ==
    /\ status \in {"NEW", "CONNECTING", "CONNECTED", "DISCONNECTED"}
    /\ nua \in {"none", "running", "stopping", "gone"}
    /\ heartbeat \in {"closed", "open", "waiting"}
    /\ registrar_realm \in Realms \cup {NoRealm}
    /\ request \in [Handles -> {"none", "sent", "prompt", "over"}]
    /\ asked \in [Handles -> Realms \cup {NoRealm}]

(* A new connection has nothing yet; the base class hears of the end once  *)
(* it is disconnected, and nothing is finalized before.                    *)
EndsInOrder ==
    /\ finished => status = "DISCONNECTED"
    /\ ~alive => finished
    /\ status = "NEW" => ~register_op /\ heartbeat = "closed"

(* The realm taken for the registrar's is one that the registrar named.    *)
HomeIsPresented == registrar_realm \in presented \cup {NoRealm}

Inv ==
    /\ LifeTypeOK
    /\ EndsInOrder
    /\ HomeIsPresented
    /\ HomeSecretStaysHome
    /\ OnlyStackOutlivesConnection

LEMMA NeverConnectedKeeps ==
    ASSUME Inv, NeverConnected
    PROVE  Inv'
  <1>1. LifeTypeOK'
    BY ConnectionAssumption DEF auth, Inv, NeverConnected, LifeTypeOK, ShutDown,
       HeartbeatShutdown
  <1>2. EndsInOrder'
    BY ConnectionAssumption DEF Inv, NeverConnected, LifeTypeOK,
       OnlyStackOutlivesConnection, EndsInOrder, ShutDown, HeartbeatShutdown,
       lifetime, auth, stun, ConnectionAssumption
  <1>3. HomeIsPresented'
    BY ConnectionAssumption DEF Inv, NeverConnected, LifeTypeOK,
       HomeIsPresented, ShutDown, HeartbeatShutdown, lifetime, auth, stun,
       ConnectionAssumption
  <1>4. HomeSecretStaysHome'
    BY ConnectionAssumption DEF Inv, NeverConnected, LifeTypeOK,
       HomeIsPresented, HomeSecretStaysHome, ShutDown, HeartbeatShutdown,
       lifetime, auth, stun, Handles, ConnectionAssumption
  <1>5. OnlyStackOutlivesConnection'
    BY ConnectionAssumption DEF Inv, NeverConnected, EndsInOrder,
       OnlyStackOutlivesConnection, ShutDown, HeartbeatShutdown
  <1> QED
    BY <1>1, <1>2, <1>3, <1>4, <1>5 DEF Inv

LEMMA DisconnectKeeps ==
    ASSUME Inv, Disconnect
    PROVE  Inv'
  <1>1. LifeTypeOK'
    BY ConnectionAssumption DEF Inv, Disconnect, LifeTypeOK, GoDisconnected,
       ShutDown, HeartbeatShutdown
  <1>2. EndsInOrder'
    BY ConnectionAssumption DEF Inv, Disconnect, LifeTypeOK,
       OnlyStackOutlivesConnection, EndsInOrder, GoDisconnected, ShutDown,
       HeartbeatShutdown, lifetime, auth, stun, ConnectionAssumption
  <1>3. HomeIsPresented'
    BY ConnectionAssumption DEF Inv, Disconnect, HomeIsPresented
  <1>4. HomeSecretStaysHome'
    BY ConnectionAssumption DEF HomeSecretStaysHome, GoDisconnected, Inv,
       Disconnect
  <1>5. OnlyStackOutlivesConnection'
    BY ConnectionAssumption DEF ShutDown, HeartbeatShutdown, Inv, Disconnect,
       EndsInOrder, OnlyStackOutlivesConnection, GoDisconnected
  <1> QED
    BY <1>1, <1>2, <1>3, <1>4, <1>5 DEF Inv

LEMMA StackStoppedKeeps ==
    ASSUME Inv, StackStopped
    PROVE  Inv'
  <1>1. LifeTypeOK'
    BY ConnectionAssumption DEF Inv, StackStopped, LifeTypeOK
  <1>2. EndsInOrder'
    BY ConnectionAssumption DEF Inv, StackStopped, LifeTypeOK,
       OnlyStackOutlivesConnection, EndsInOrder, lifetime, auth, stun,
       ConnectionAssumption
  <1>3. HomeIsPresented'
    BY ConnectionAssumption DEF Inv, StackStopped, LifeTypeOK, HomeIsPresented,
       lifetime, auth, stun, ConnectionAssumption
  <1>4. HomeSecretStaysHome'
    BY ConnectionAssumption DEF Inv, StackStopped, LifeTypeOK, HomeIsPresented,
       HomeSecretStaysHome, lifetime, auth, stun, Handles, ConnectionAssumption
  <1>5. OnlyStackOutlivesConnection'
    BY ConnectionAssumption DEF stun, Inv, StackStopped,
       OnlyStackOutlivesConnection
  <1> QED
    BY <1>1, <1>2, <1>3, <1>4, <1>5 DEF Inv

LEMMA FinalizedKeeps ==
    ASSUME Inv, Finalized
    PROVE  Inv'
  <1>1. LifeTypeOK'
    BY ConnectionAssumption DEF auth, Inv, Finalized, LifeTypeOK
  <1>2. EndsInOrder'
    BY ConnectionAssumption DEF Inv, Finalized, LifeTypeOK,
       OnlyStackOutlivesConnection, EndsInOrder, lifetime, auth, stun,
       ConnectionAssumption
  <1>3. HomeIsPresented'
    BY ConnectionAssumption DEF auth, Inv, Finalized, HomeIsPresented
  <1>4. HomeSecretStaysHome'
    BY ConnectionAssumption DEF auth, Inv, Finalized, HomeSecretStaysHome
  <1>5. OnlyStackOutlivesConnection'
    BY ConnectionAssumption DEF auth, Inv, Finalized, OnlyStackOutlivesConnection
  <1> QED
    BY <1>1, <1>2, <1>3, <1>4, <1>5 DEF Inv

LEMMA StartConnectingKeeps ==
    ASSUME Inv, NEW handle \in BOOLEAN, StartConnecting(handle)
    PROVE  Inv'
  <1>1. LifeTypeOK'
    BY ConnectionAssumption DEF Inv, StartConnecting, LifeTypeOK
  <1>2. EndsInOrder'
    BY ConnectionAssumption DEF Inv, StartConnecting, LifeTypeOK,
       OnlyStackOutlivesConnection, EndsInOrder, StartStun, Resolve, lifetime,
       auth, stun, ConnectionAssumption
  <1>3. HomeIsPresented'
    BY ConnectionAssumption DEF Inv, StartConnecting, LifeTypeOK,
       HomeIsPresented, StartStun, Resolve, lifetime, auth, stun,
       ConnectionAssumption
  <1>4. HomeSecretStaysHome'
    BY ConnectionAssumption DEF Inv, StartConnecting, LifeTypeOK,
       HomeIsPresented, HomeSecretStaysHome, StartStun, Resolve, lifetime, auth,
       stun, Handles, ConnectionAssumption
  <1>5. OnlyStackOutlivesConnection'
    BY ConnectionAssumption DEF Inv, StartConnecting, EndsInOrder,
       OnlyStackOutlivesConnection
  <1> QED
    BY <1>1, <1>2, <1>3, <1>4, <1>5 DEF Inv

LEMMA RegisterSucceedsKeeps ==
    ASSUME Inv, RegisterSucceeds
    PROVE  Inv'
  <1>1. LifeTypeOK'
    BY ConnectionAssumption DEF Inv, RegisterSucceeds, LifeTypeOK,
       HeartbeatInit, RegisterEvent, lifetime, auth, stun, Handles,
       ConnectionAssumption
  <1>2. EndsInOrder'
    BY ConnectionAssumption DEF Inv, RegisterSucceeds, LifeTypeOK,
       OnlyStackOutlivesConnection, EndsInOrder, HeartbeatInit, RegisterEvent,
       lifetime, auth, stun, ConnectionAssumption
  <1>3. HomeIsPresented'
    BY ConnectionAssumption DEF Inv, RegisterSucceeds, LifeTypeOK,
       HomeIsPresented, HeartbeatInit, RegisterEvent, lifetime, auth, stun,
       ConnectionAssumption
  <1>4. HomeSecretStaysHome'
    BY ConnectionAssumption DEF Inv, RegisterSucceeds, LifeTypeOK,
       HomeIsPresented, HomeSecretStaysHome, HeartbeatInit, RegisterEvent,
       lifetime, auth, stun, Handles, ConnectionAssumption
  <1>5. OnlyStackOutlivesConnection'
    BY ConnectionAssumption DEF Inv, RegisterSucceeds, LifeTypeOK, EndsInOrder,
       OnlyStackOutlivesConnection, HeartbeatInit, RegisterEvent, lifetime, auth,
       stun, Handles, ConnectionAssumption
  <1> QED
    BY <1>1, <1>2, <1>3, <1>4, <1>5 DEF Inv

LEMMA RegisterFailsKeeps ==
    ASSUME Inv, RegisterFails
    PROVE  Inv'
  <1>1. LifeTypeOK'
    BY ConnectionAssumption DEF Inv, RegisterFails, LifeTypeOK, GoDisconnected,
       ShutDown, HeartbeatShutdown
  <1>2. EndsInOrder'
    BY ConnectionAssumption DEF Inv, RegisterFails, LifeTypeOK,
       OnlyStackOutlivesConnection, EndsInOrder, RegisterEvent, GoDisconnected,
       ShutDown, HeartbeatShutdown, lifetime, auth, stun, ConnectionAssumption
  <1>3. HomeIsPresented'
    BY ConnectionAssumption DEF Inv, RegisterFails, LifeTypeOK, HomeIsPresented,
       RegisterEvent, GoDisconnected, ShutDown, HeartbeatShutdown, lifetime,
       auth, stun, ConnectionAssumption
  <1>4. HomeSecretStaysHome'
    BY ConnectionAssumption DEF Inv, RegisterFails, LifeTypeOK, HomeIsPresented,
       HomeSecretStaysHome, RegisterEvent, GoDisconnected, ShutDown,
       HeartbeatShutdown, lifetime, auth, stun, Handles, ConnectionAssumption
  <1>5. OnlyStackOutlivesConnection'
    <2>1. CASE status = "DISCONNECTED"
      <3>1. /\ request' = [request EXCEPT ![Register] = "over"]
            /\ UNCHANGED <<status, nua, register_op, finished, heartbeat, alive, holders, query>>
        BY <2>1 DEF RegisterFails, stun
      <3>2. request \in [Handles -> {"none", "sent", "prompt", "over"}]
        BY DEF Inv, LifeTypeOK
      <3> QED
        BY <2>1, <3>1, <3>2 DEF Inv, OnlyStackOutlivesConnection
    <2>2. CASE status # "DISCONNECTED"
      <3>1. alive /\ alive' = alive /\ GoDisconnected
        BY <2>2 DEF RegisterFails, Inv, EndsInOrder
      <3> QED
        BY <3>1 DEF OnlyStackOutlivesConnection, GoDisconnected, ShutDown, HeartbeatShutdown,
           Inv, LifeTypeOK
    <2> QED
      BY <2>1, <2>2
  <1> QED
    BY <1>1, <1>2, <1>3, <1>4, <1>5 DEF Inv

LEMMA HeartbeatTickKeeps ==
    ASSUME Inv, HeartbeatTick
    PROVE  Inv'
  <1>1. LifeTypeOK'
    BY ConnectionAssumption DEF Inv, HeartbeatTick, LifeTypeOK,
       HeartbeatShutdown, lifetime, auth, stun, Handles, ConnectionAssumption
  <1>2. EndsInOrder'
    BY ConnectionAssumption DEF Inv, HeartbeatTick, LifeTypeOK,
       OnlyStackOutlivesConnection, EndsInOrder, HeartbeatShutdown, lifetime,
       auth, stun, ConnectionAssumption
  <1>3. HomeIsPresented'
    BY ConnectionAssumption DEF Inv, HeartbeatTick, LifeTypeOK, HomeIsPresented,
       HeartbeatShutdown, lifetime, auth, stun, ConnectionAssumption
  <1>4. HomeSecretStaysHome'
    BY ConnectionAssumption DEF Inv, HeartbeatTick, LifeTypeOK, HomeIsPresented,
       HomeSecretStaysHome, HeartbeatShutdown, lifetime, auth, stun, Handles,
       ConnectionAssumption
  <1>5. OnlyStackOutlivesConnection'
    BY ConnectionAssumption DEF Inv, HeartbeatTick, EndsInOrder,
       OnlyStackOutlivesConnection, lifetime
  <1> QED
    BY <1>1, <1>2, <1>3, <1>4, <1>5 DEF Inv

LEMMA TargetSendsKeeps ==
    ASSUME Inv, NEW t \in Targets, TargetSends(t)
    PROVE  Inv'
  <1>1. LifeTypeOK'
    BY ConnectionAssumption DEF Handles, Inv, TargetSends, LifeTypeOK, lifetime
  <1>2. EndsInOrder'
    BY ConnectionAssumption DEF Inv, TargetSends, LifeTypeOK,
       OnlyStackOutlivesConnection, EndsInOrder, lifetime, auth, stun,
       ConnectionAssumption
  <1>3. HomeIsPresented'
    BY ConnectionAssumption DEF Inv, TargetSends, HomeIsPresented
  <1>4. HomeSecretStaysHome'
    BY ConnectionAssumption DEF Inv, TargetSends, HomeSecretStaysHome
  <1>5. OnlyStackOutlivesConnection'
    BY ConnectionAssumption DEF Inv, TargetSends, EndsInOrder,
       OnlyStackOutlivesConnection, lifetime
  <1> QED
    BY <1>1, <1>2, <1>3, <1>4, <1>5 DEF Inv

LEMMA TargetAnsweredKeeps ==
    ASSUME Inv, NEW t \in Targets, TargetAnswered(t)
    PROVE  Inv'
  <1>1. LifeTypeOK'
    BY ConnectionAssumption DEF Handles, Inv, TargetAnswered, LifeTypeOK,
       lifetime
  <1>2. EndsInOrder'
    BY ConnectionAssumption DEF Inv, TargetAnswered, LifeTypeOK,
       OnlyStackOutlivesConnection, EndsInOrder, lifetime, auth, stun,
       ConnectionAssumption
  <1>3. HomeIsPresented'
    BY ConnectionAssumption DEF Inv, TargetAnswered, LifeTypeOK,
       HomeIsPresented, lifetime, auth, stun, ConnectionAssumption
  <1>4. HomeSecretStaysHome'
    BY ConnectionAssumption DEF Inv, TargetAnswered, LifeTypeOK,
       HomeIsPresented, HomeSecretStaysHome, lifetime, auth, stun, Handles,
       ConnectionAssumption
  <1>5. OnlyStackOutlivesConnection'
    BY ConnectionAssumption DEF lifetime, stun, Inv, TargetAnswered,
       OnlyStackOutlivesConnection
  <1> QED
    BY <1>1, <1>2, <1>3, <1>4, <1>5 DEF Inv

LEMMA TargetReleasedKeeps ==
    ASSUME Inv, NEW t \in Targets, TargetReleased(t)
    PROVE  Inv'
  <1>1. LifeTypeOK'
    BY DEF Handles, Inv, TargetReleased, LifeTypeOK
  <1>2. EndsInOrder'
    BY DEF Inv, TargetReleased, EndsInOrder
  <1>3. HomeIsPresented'
    BY DEF Inv, TargetReleased, HomeIsPresented
  <1>4. HomeSecretStaysHome'
    BY DEF Inv, TargetReleased, HomeSecretStaysHome
  <1>5. OnlyStackOutlivesConnection'
    BY DEF Inv, TargetReleased, OnlyStackOutlivesConnection
  <1> QED
    BY <1>1, <1>2, <1>3, <1>4, <1>5 DEF Inv

LEMMA ChallengedKeeps ==
    ASSUME Inv, NEW h \in Handles, NEW realm \in Realms, NEW www \in BOOLEAN, Challenged(h, realm, www)
    PROVE  Inv'
  <1>1. LifeTypeOK'
    BY ConnectionAssumption DEF Inv, Challenged, LifeTypeOK, SaveRealm, lifetime
  <1>2. EndsInOrder'
    BY ConnectionAssumption DEF Inv, Challenged, LifeTypeOK,
       OnlyStackOutlivesConnection, EndsInOrder, Home, SaveRealm, lifetime, auth,
       stun, ConnectionAssumption
  <1>3. HomeIsPresented'
    BY ConnectionAssumption DEF Inv, Challenged, HomeIsPresented, SaveRealm
  <1>4. HomeSecretStaysHome'
    <2>1. presented \subseteq presented'
      BY DEF Challenged
    <2>2. Home(h, realm) => realm \in presented'
      BY ConnectionAssumption DEF Inv, HomeIsPresented, Challenged, Home
    <2>3. \A r \in Realms : <<r, "home">> \in authenticated'
             => <<r, "home">> \in authenticated \/ (r = realm /\ Home(h, realm))
      <3>1. \E s \in {"home", "extra", "blank"} :
               /\ authenticated' \subseteq authenticated \cup {<<realm, s>>}
               /\ s = "home" => Home(h, realm)
        BY DEF Challenged, Secret, Home
      <3> QED
        BY <3>1
    <2>4. \A j \in Handles : request'[j] = "prompt"
             => \/ request[j] = "prompt" /\ asked'[j] = asked[j]
                \/ asked'[j] = realm /\ Home(h, realm)
      <3>1. \/ request' = request /\ asked' = asked
            \/ /\ request' = [request EXCEPT ![h] = "prompt"]
               /\ asked' = [asked EXCEPT ![h] = realm]
               /\ Home(h, realm)
        BY DEF Challenged
      <3>2. request \in [Handles -> {"none", "sent", "prompt", "over"}]
            /\ asked \in [Handles -> Realms \cup {NoRealm}]
        BY DEF Inv, LifeTypeOK
      <3> QED
        BY <3>1, <3>2
    <2> QED
      BY <2>1, <2>2, <2>3, <2>4 DEF Inv, HomeSecretStaysHome
  <1>5. OnlyStackOutlivesConnection'
    BY ConnectionAssumption DEF Inv, Challenged, OnlyStackOutlivesConnection,
       lifetime
  <1> QED
    BY <1>1, <1>2, <1>3, <1>4, <1>5 DEF Inv

LEMMA PromptEndsKeeps ==
    ASSUME Inv, NEW h \in Handles, NEW answered \in BOOLEAN, PromptEnds(h, answered)
    PROVE  Inv'
  <1>1. LifeTypeOK'
    BY ConnectionAssumption DEF lifetime, Inv, PromptEnds, LifeTypeOK, Continue
  <1>2. EndsInOrder'
    BY ConnectionAssumption DEF Inv, PromptEnds, LifeTypeOK,
       OnlyStackOutlivesConnection, EndsInOrder, Continue, lifetime, auth, stun,
       ConnectionAssumption
  <1>3. HomeIsPresented'
    BY ConnectionAssumption DEF Inv, PromptEnds, HomeIsPresented
  <1>4. HomeSecretStaysHome'
    BY ConnectionAssumption DEF HomeSecretStaysHome, Continue, Inv, PromptEnds
  <1>5. OnlyStackOutlivesConnection'
    BY ConnectionAssumption DEF Inv, PromptEnds, OnlyStackOutlivesConnection,
       lifetime
  <1> QED
    BY <1>1, <1>2, <1>3, <1>4, <1>5 DEF Inv

LEMMA StunDiscoveredKeeps ==
    ASSUME Inv, NEW answers \in SrvAnswers, StunDiscovered(answers)
    PROVE  Inv'
  <1>1. LifeTypeOK'
    BY ConnectionAssumption DEF lifetime, auth, Inv, StunDiscovered, LifeTypeOK
  <1>2. EndsInOrder'
    BY ConnectionAssumption DEF Inv, StunDiscovered, LifeTypeOK,
       OnlyStackOutlivesConnection, EndsInOrder, Resolve, lifetime, auth, stun,
       ConnectionAssumption
  <1>3. HomeIsPresented'
    BY ConnectionAssumption DEF Inv, StunDiscovered, LifeTypeOK,
       HomeIsPresented, Resolve, lifetime, auth, stun, ConnectionAssumption
  <1>4. HomeSecretStaysHome'
    BY ConnectionAssumption DEF Inv, StunDiscovered, LifeTypeOK,
       HomeIsPresented, HomeSecretStaysHome, Resolve, lifetime, auth, stun,
       Handles, ConnectionAssumption
  <1>5. OnlyStackOutlivesConnection'
    BY ConnectionAssumption DEF Inv, StunDiscovered, OnlyStackOutlivesConnection,
       lifetime
  <1> QED
    BY <1>1, <1>2, <1>3, <1>4, <1>5 DEF Inv

LEMMA StunResolvedKeeps ==
    ASSUME Inv, NEW found \in BOOLEAN, StunResolved(found)
    PROVE  Inv'
  <1>1. LifeTypeOK'
    BY ConnectionAssumption DEF auth, Inv, StunResolved, LifeTypeOK, lifetime
  <1>2. EndsInOrder'
    BY ConnectionAssumption DEF Inv, StunResolved, LifeTypeOK,
       OnlyStackOutlivesConnection, EndsInOrder, lifetime, auth, stun,
       ConnectionAssumption
  <1>3. HomeIsPresented'
    BY ConnectionAssumption DEF Inv, StunResolved, LifeTypeOK, HomeIsPresented,
       lifetime, auth, stun, ConnectionAssumption
  <1>4. HomeSecretStaysHome'
    BY ConnectionAssumption DEF Inv, StunResolved, LifeTypeOK, HomeIsPresented,
       HomeSecretStaysHome, lifetime, auth, stun, Handles, ConnectionAssumption
  <1>5. OnlyStackOutlivesConnection'
    BY ConnectionAssumption DEF Inv, StunResolved, OnlyStackOutlivesConnection,
       lifetime
  <1> QED
    BY <1>1, <1>2, <1>3, <1>4, <1>5 DEF Inv

LEMMA StutterKeeps ==
    ASSUME Inv, UNCHANGED vars
    PROVE  Inv'
  BY DEF OnlyStackOutlivesConnection, vars, lifetime, auth, stun, Inv,
     LifeTypeOK, EndsInOrder, HomeIsPresented, HomeSecretStaysHome

LEMMA InitInv == Init => Inv
  BY ConnectionAssumption DEF EndsInOrder, HomeIsPresented, HomeSecretStaysHome,
     OnlyStackOutlivesConnection, Init, Inv, LifeTypeOK

LEMMA NextKeeps ==
    ASSUME Inv, [Next]_vars
    PROVE  Inv'
  <1>1. CASE NeverConnected \/ Disconnect \/ StackStopped \/ Finalized
    BY <1>1, NeverConnectedKeeps, DisconnectKeeps, StackStoppedKeeps, FinalizedKeeps
  <1>2. CASE \E handle \in BOOLEAN : StartConnecting(handle)
    BY <1>2, StartConnectingKeeps
  <1>3. CASE RegisterSucceeds \/ RegisterFails \/ HeartbeatTick
    BY <1>3, RegisterSucceedsKeeps, RegisterFailsKeeps, HeartbeatTickKeeps
  <1>4. CASE \E t \in Targets : TargetSends(t) \/ TargetAnswered(t) \/ TargetReleased(t)
    BY <1>4, TargetSendsKeeps, TargetAnsweredKeeps, TargetReleasedKeeps
  <1>5. CASE \E h \in Handles, realm \in Realms, www \in BOOLEAN : Challenged(h, realm, www)
    BY <1>5, ChallengedKeeps
  <1>6. CASE \E h \in Handles, answered \in BOOLEAN : PromptEnds(h, answered)
    BY <1>6, PromptEndsKeeps
  <1>7. CASE \E answers \in SrvAnswers : StunDiscovered(answers)
    BY <1>7, StunDiscoveredKeeps
  <1>8. CASE \E found \in BOOLEAN : StunResolved(found)
    BY <1>8, StunResolvedKeeps
  <1>9. CASE UNCHANGED vars
    BY <1>9, StutterKeeps
  <1> QED
    BY <1>1, <1>2, <1>3, <1>4, <1>5, <1>6, <1>7, <1>8, <1>9 DEF Next

(* A connection ends in order, and its secrets stay with the realms of its *)
(* registrar: Inv always holds.                                            *)
THEOREM Invariance == Spec => []Inv
  <1>1. Init => Inv
    BY InitInv
  <1>2. Inv /\ [Next]_vars => Inv'
    BY NextKeeps
  <1> QED
    BY <1>1, <1>2, PTL DEF Spec

-----------------------------------------------------------------------------
(* However challenges to the registration, to calls and to messages meet,  *)
(* the account's password goes to realms that the registrar presented      *)
(* (priv_handle_auth, priv_password_manager_prompt_cb).                    *)
THEOREM HomeSecretAlwaysStaysHome == Spec => []HomeSecretStaysHome
  <1>1. Inv => HomeSecretStaysHome
    BY DEF Inv
  <1> QED
    BY <1>1, Invariance, PTL

(* Whatever is under way when a connection is disconnected or finalized:   *)
(* its registration, its wait object and its stack are given up at the one *)
(* and no query, prompt, session or channel is left to use it after the    *)
(* other; only the stack may be, which is told to stop and not waited for  *)
(* (rakia_connection_disconnected, rakia_connection_shut_down).            *)
THEOREM OnlyStackEverOutlivesConnection == Spec => []OnlyStackOutlivesConnection
  <1>1. Inv => OnlyStackOutlivesConnection
    BY DEF Inv
  <1> QED
    BY <1>1, Invariance, PTL

-----------------------------------------------------------------------------
(* What one step may do to the status and to the heartbeat.                *)
Advances ==
    /\ Rank[status'] >= Rank[status]
    /\ heartbeat' # heartbeat /\ heartbeat' # "closed"
          => status = "CONNECTING" /\ status' = "CONNECTED"

LEMMA NextAdvances ==
    ASSUME Inv, Next
    PROVE  Advances
  <1>1. status \in {"NEW", "CONNECTING", "CONNECTED", "DISCONNECTED"}
    BY DEF Inv, LifeTypeOK
  <1>2. ASSUME status' = status PROVE Rank[status'] >= Rank[status]
    BY <1>1, <1>2 DEF Rank
  <1>3. ASSUME status' = "DISCONNECTED" PROVE Rank[status'] >= Rank[status]
    BY <1>1, <1>3 DEF Rank
  <1>4. CASE NeverConnected \/ Disconnect \/ StackStopped \/ Finalized
    BY <1>2, <1>3, <1>4 DEF GoDisconnected, ShutDown, HeartbeatShutdown,
       StackStopped, Finalized, Advances, NeverConnected, Disconnect
  <1>5. ASSUME NEW handle \in BOOLEAN, StartConnecting(handle)
        PROVE  Advances
    BY <1>5 DEF Advances, StartConnecting, Rank
  <1>6. CASE RegisterSucceeds
    BY <1>2, <1>6 DEF Advances, RegisterSucceeds, Rank
  <1>7. CASE RegisterFails \/ HeartbeatTick
    BY <1>2, <1>3, <1>7 DEF ShutDown, HeartbeatShutdown, lifetime, Advances,
       RegisterFails, HeartbeatTick, GoDisconnected
  <1>8. CASE \E t \in Targets : TargetSends(t) \/ TargetAnswered(t) \/ TargetReleased(t)
    BY <1>2, <1>8 DEF Advances, TargetSends, TargetAnswered, TargetReleased, lifetime
  <1>9. CASE \E h \in Handles, realm \in Realms, www \in BOOLEAN : Challenged(h, realm, www)
    BY <1>2, <1>9 DEF Advances, Challenged, lifetime
  <1>10. CASE \E h \in Handles, answered \in BOOLEAN : PromptEnds(h, answered)
    BY <1>2, <1>10 DEF Advances, PromptEnds, lifetime
  <1>11. CASE \E answers \in SrvAnswers : StunDiscovered(answers)
    BY <1>2, <1>11 DEF Advances, StunDiscovered, lifetime
  <1>12. CASE \E found \in BOOLEAN : StunResolved(found)
    BY <1>2, <1>12 DEF Advances, StunResolved, lifetime
  <1> QED
    BY <1>4, <1>5, <1>6, <1>7, <1>8, <1>9, <1>10, <1>11, <1>12 DEF Next

(* No answer to the registration, however late, takes the status back, and *)
(* the heartbeat starts only when the connection becomes connected         *)
(* (priv_r_register_cb, rakia_connection_heartbeat_init).                  *)
THEOREM StatusAlwaysAdvances == Spec => StatusOnlyAdvances
  <1>1. Inv /\ [Next]_vars => [Advances]_vars
    BY NextAdvances
  <1> QED
    BY <1>1, Invariance, PTL DEF Spec, StatusOnlyAdvances, Advances

-----------------------------------------------------------------------------
(* Least and greatest integers.                                            *)

LEMMA LeastExists ==
    ASSUME NEW S \in SUBSET Int, S # {}, NEW n \in Int, \A x \in S : n <= x
    PROVE  \E x \in S : \A y \in S : x <= y
  <1> DEFINE T == {i \in Nat : i + n \in S}
  <1>1. \A x \in S : x - n \in T /\ x = (x - n) + n
    OBVIOUS
  <1>2. T \subseteq Nat /\ T # {}
    BY <1>1
  <1> HIDE DEF T
  <1>3. PICK t \in T : \A u \in T : <<u, t>> \notin OpToRel(<, Nat)
    BY <1>2, NatLessThanWellFounded, WFMin, Zenon
  <1>4. \A u \in T : t <= u
    <2> SUFFICES ASSUME NEW u \in T, u < t PROVE FALSE
      BY <1>2
    <2>1. <<u, t>> \in Nat \X Nat /\ <<u, t>>[1] < <<u, t>>[2]
      BY <1>2
    <2>2. <<u, t>> \in OpToRel(<, Nat)
      BY <2>1, Zenon DEF OpToRel
    <2> QED
      BY <1>3, <2>2
  <1>5. t \in Nat /\ t + n \in S
    BY DEF T
  <1>6. ASSUME NEW y \in S PROVE t + n <= y
    <2>1. y \in Int /\ y - n \in T
      BY <1>1
    <2>2. t <= y - n
      BY <1>4, <2>1
    <2> QED
      BY <1>5, <2>1, <2>2
  <1> QED
    BY <1>5, <1>6

LEMMA MaxIsElement ==
    ASSUME NEW S \in SUBSET Int, S # {}, NEW n \in Int, \A x \in S : x <= n
    PROVE  Max(S) \in S
  <1> DEFINE T == {y \in Int : -y \in S}
  <1>1. \A x \in S : -x \in T /\ -(-x) = x
    OBVIOUS
  <1>2. T \in SUBSET Int /\ T # {} /\ -n \in Int
    <2>1. -n \in Int /\ T \in SUBSET Int
      OBVIOUS
    <2>2. PICK x \in S : TRUE
      OBVIOUS
    <2>3. -x \in T
      BY <1>1
    <2> QED
      BY <2>1, <2>3, Zenon
  <1>3. \A y \in T : -n <= y
    OBVIOUS
  <1> HIDE DEF T
  <1>4. PICK t \in T : \A y \in T : t <= y
    BY <1>2, <1>3, LeastExists
  <1>5. -t \in S /\ t \in Int
    BY DEF T
  <1>6. ASSUME NEW y \in S PROVE -t >= y
    <2>1. t <= -y /\ y \in Int
      BY <1>1, <1>4
    <2> QED
      BY <1>5, <2>1
  <1> QED
    BY <1>5, <1>6, Zenon DEF Max

LEMMA MaxOfTwo ==
    ASSUME NEW a \in Int, NEW b \in Int
    PROVE  Max({a, b}) = IF a >= b THEN a ELSE b
  BY DEF Max

-----------------------------------------------------------------------------
(* The choice among SRV records always finds one.                          *)

LEMMA PlaceType ==
    ASSUME NEW answers \in Seq(SrvRecord), NEW i \in DOMAIN answers
    PROVE  Place(answers, i) \in Int /\ Place(answers, i) \in (-Len(answers))..Len(answers)
  <1>1. i \in 1..Len(answers)
    OBVIOUS
  <1> QED
    BY <1>1 DEF Place

LEMMA ForemostIsRecord ==
    ASSUME NEW answers \in Seq(SrvRecord), NEW records \in SUBSET (DOMAIN answers),
           records # {}
    PROVE  /\ Foremost(answers, records) \in records
           /\ \A i \in records :
                 Place(answers, Foremost(answers, records)) <= Place(answers, i)
  <1> DEFINE S == {Place(answers, i) : i \in records}
  <1>1. S \subseteq Int /\ S # {} /\ -Len(answers) \in Int
    BY PlaceType
  <1>2. \A x \in S : -Len(answers) <= x
    BY PlaceType
  <1>3. \E x \in S : \A y \in S : x <= y
    <2> HIDE DEF S
    <2> QED
      BY <1>1, <1>2, LeastExists
  <1>4. \E i \in records : \A j \in records : Place(answers, i) <= Place(answers, j)
    BY <1>3, Zenon
  <1> QED
    BY <1>4, Zenon DEF Foremost

LEMMA LastExists ==
    ASSUME NEW answers \in Seq(SrvRecord), NEW records \in SUBSET (DOMAIN answers),
           records # {}
    PROVE  \E i \in records : \A j \in records : Place(answers, j) <= Place(answers, i)
  <1> DEFINE S == {-Place(answers, i) : i \in records}
  <1>1. S \subseteq Int /\ S # {} /\ -Len(answers) \in Int
    BY PlaceType
  <1>2. \A x \in S : -Len(answers) <= x
    BY PlaceType
  <1>3. \E x \in S : \A y \in S : x <= y
    <2> HIDE DEF S
    <2> QED
      BY <1>1, <1>2, LeastExists
  <1>4. PICK i \in records : \A j \in records : -Place(answers, i) <= -Place(answers, j)
    BY <1>3, Zenon
  <1>5. \A j \in records : Place(answers, j) <= Place(answers, i)
    BY <1>4, PlaceType
  <1> QED
    BY <1>5

LEMMA RecordType ==
    ASSUME NEW answers \in Seq(SrvRecord), NEW i \in DOMAIN answers
    PROVE  answers[i].priority \in Nat /\ answers[i].port \in Nat
  <1>1. answers[i] \in SrvRecord
    OBVIOUS
  <1> QED
    BY <1>1 DEF SrvRecord

LEMMA CandidateExists ==
    ASSUME NEW answers \in Seq(SrvRecord), Usable(answers) # {}
    PROVE  Candidates(answers) # {} /\ Candidates(answers) \subseteq Usable(answers)
  <1> DEFINE S == {answers[i].priority : i \in Usable(answers)}
  <1>1. \A i \in Usable(answers) : answers[i].priority \in Nat
    BY RecordType DEF Usable
  <1>2. S \subseteq Nat /\ S # {}
    BY <1>1, Zenon
  <1>3. \E x \in S : \A y \in S : x <= y
    <2> HIDE DEF S
    <2> QED
      <3>1. S \in SUBSET Int /\ 0 \in Int /\ \A x \in S : 0 <= x
        BY <1>2
      <3> QED
        BY <1>2, <3>1, LeastExists
  <1>4. PICK i \in Usable(answers) :
           \A j \in Usable(answers) : answers[i].priority <= answers[j].priority
    BY <1>3, Zenon
  <1>5. Candidates(answers) \subseteq Usable(answers)
    BY Zenon DEF Candidates
  <1>6. i \in Candidates(answers)
    BY <1>4, Zenon DEF Candidates
  <1> QED
    BY <1>5, <1>6

LEMMA ChosenIsCandidate ==
    ASSUME NEW answers \in Seq(SrvRecord), Usable(answers) # {}, NEW dice \in Dice(answers)
    PROVE  Chosen(answers, dice) \in Candidates(answers)
  <1> DEFINE last == CHOOSE i \in Candidates(answers) :
                        \A j \in Candidates(answers) :
                           Place(answers, j) <= Place(answers, i)
             reached == {i \in Candidates(answers) : RunningSum(answers, i) >= dice}
  <1>1. Candidates(answers) \in SUBSET (DOMAIN answers) /\ Candidates(answers) # {}
    BY CandidateExists DEF Usable
  <1>2. last \in Candidates(answers)
    BY <1>1, LastExists, Zenon
  <1>3. dice \in 0..RunningSum(answers, last)
    BY Zenon DEF Dice
  <1>4. RunningSum(answers, last) >= dice
    <2> HIDE DEF last
    <2> QED
      BY <1>3
  <1>5. reached \in SUBSET (DOMAIN answers) /\ reached # {}
    BY <1>1, <1>2, <1>4, Zenon
  <1>6. Foremost(answers, reached) \in reached
    <2> HIDE DEF reached
    <2> QED
      BY <1>5, ForemostIsRecord
  <1> QED
    BY <1>6, Zenon DEF Chosen

LEMMA ChosenPortType ==
    ASSUME NEW answers \in Seq(SrvRecord), Usable(answers) # {}, NEW dice \in Dice(answers)
    PROVE  /\ answers[Chosen(answers, dice)].port \in Nat
           /\ \E i \in Usable(answers) :
                 /\ answers[i].port = answers[Chosen(answers, dice)].port
                 /\ \A j \in Usable(answers) : answers[i].priority <= answers[j].priority
  <1>1. Chosen(answers, dice) \in Candidates(answers)
    BY ChosenIsCandidate
  <1>2. Chosen(answers, dice) \in DOMAIN answers
    BY <1>1, Zenon DEF Candidates, Usable
  <1>3. answers[Chosen(answers, dice)].port \in Nat
    BY <1>2, RecordType
  <1> QED
    BY <1>1, <1>3, Zenon DEF Candidates

-----------------------------------------------------------------------------
(* Sums of weights.  The library computes a sum by a function on the       *)
(* subsets of the set; that there is such a function, and that the order   *)
(* it takes the elements in does not matter, is shown by looking at a      *)
(* smallest counterexample.                                                *)

Pick(T) == CHOOSE x \in T : TRUE

IsAdder(answers, sets, g) ==
    g = [T \in sets |-> IF T = {} THEN 0 ELSE answers[Pick(T)].weight + g[T \ {Pick(T)}]]

Adder(answers, S) == CHOOSE g : IsAdder(answers, SUBSET S, g)

Weights(answers, S) == MapThenSumSet(LAMBDA j : answers[j].weight, S)

LEMMA WeightsByAdder ==
    ASSUME NEW answers, NEW S
    PROVE  Weights(answers, S) = Adder(answers, S)[S]
  BY Zenon DEF Weights, MapThenSumSet, MapThenFoldSet, Adder, IsAdder, Pick

(* A set of subsets of a finite set has a smallest member.                 *)
LEMMA SmallestExists ==
    ASSUME NEW S, IsFiniteSet(S), NEW sets \in SUBSET (SUBSET S), sets # {}
    PROVE  \E T \in sets : \A U \in sets : U \subseteq T => U = T
  <1>1. IsWellFoundedOn(StrictSubsetOrdering(S), SUBSET S)
    BY FS_StrictSubsetOrderingWellFounded, FS_FiniteSubsetsOfFinite
  <1>2. PICK T \in sets : \A U \in sets : <<U, T>> \notin StrictSubsetOrdering(S)
    BY <1>1, WFMin, Zenon
  <1>3. ASSUME NEW U \in sets, U \subseteq T, U # T
        PROVE  FALSE
    <2>1. <<U, T>> \in (SUBSET S) \X (SUBSET S) /\ <<U, T>>[1] \subseteq <<U, T>>[2]
          /\ <<U, T>>[1] # <<U, T>>[2]
      BY <1>3
    <2>2. <<U, T>> \in StrictSubsetOrdering(S)
      BY <2>1, Zenon DEF StrictSubsetOrdering
    <2> QED
      BY <1>2, <1>3, <2>2
  <1> QED
    BY <1>3

(* The sets that an adder can be given with n elements at most.            *)
Small(S, n) == {T \in SUBSET S : Cardinality(T) <= n}

LEMMA RemovePick ==
    ASSUME NEW S, IsFiniteSet(S), NEW T \in SUBSET S, T # {}
    PROVE  /\ Pick(T) \in T
           /\ T \ {Pick(T)} \in SUBSET S
           /\ Cardinality(T) \in Nat
           /\ Cardinality(T \ {Pick(T)}) = Cardinality(T) - 1
  <1>1. Pick(T) \in T
    BY Zenon DEF Pick
  <1>2. IsFiniteSet(T)
    BY FS_Subset
  <1> QED
    BY <1>1, <1>2, FS_RemoveElement, FS_CardinalityType

LEMMA SmallAdderExists ==
    ASSUME NEW answers, NEW S, IsFiniteSet(S), NEW n \in Nat
    PROVE  \E g : IsAdder(answers, Small(S, n), g)
  <1> DEFINE Good(m) == \E g : IsAdder(answers, Small(S, m), g)
             bad == {m \in Nat : ~Good(m)}
  <1>1. SUFFICES ASSUME bad # {} PROVE FALSE
    BY Zenon
  <1>2. bad \in SUBSET Int /\ 0 \in Int /\ \A m \in bad : 0 <= m
    <2> HIDE DEF Good
    <2> QED
      OBVIOUS
  <1>3. PICK m \in bad : \A k \in bad : m <= k
    <2> HIDE DEF bad
    <2> QED
      BY <1>1, <1>2, LeastExists
  <1>4. CASE m = 0
    <2> DEFINE g == [T \in Small(S, 0) |-> 0]
    <2>1. ASSUME NEW T \in Small(S, 0) PROVE T = {}
      <3>1. T \in SUBSET S /\ Cardinality(T) <= 0
        BY <2>1, Zenon DEF Small
      <3>2. IsFiniteSet(T)
        BY <3>1, FS_Subset
      <3> QED
        BY <3>1, <3>2, FS_CardinalityType, FS_EmptySet
    <2>2. IsAdder(answers, Small(S, 0), g)
      BY <2>1, Zenon DEF IsAdder
    <2> QED
      BY <1>4, <2>2, Zenon
  <1>5. CASE m # 0
    <2>1. m - 1 \in Nat /\ m - 1 \notin bad /\ m \in Nat
      <3> HIDE DEF Good
      <3> QED
        BY <1>3, <1>5
    <2>2. PICK g : IsAdder(answers, Small(S, m - 1), g)
      BY <2>1, Zenon
    <2> DEFINE h == [T \in Small(S, m) |->
                        IF T = {} THEN 0 ELSE answers[Pick(T)].weight + g[T \ {Pick(T)}]]
    <2>3. ASSUME NEW T \in Small(S, m), T # {}
          PROVE  T \ {Pick(T)} \in Small(S, m - 1) /\ T \ {Pick(T)} \in Small(S, m)
      <3>1. T \in SUBSET S /\ Cardinality(T) <= m
        BY <2>3, Zenon DEF Small
      <3>2. /\ T \ {Pick(T)} \in SUBSET S /\ Cardinality(T) \in Nat
            /\ Cardinality(T \ {Pick(T)}) = Cardinality(T) - 1
        BY <2>3, <3>1, RemovePick
      <3>3. Cardinality(T \ {Pick(T)}) <= m - 1 /\ Cardinality(T \ {Pick(T)}) <= m
        BY <2>1, <3>1, <3>2
      <3> QED
        BY <3>2, <3>3, Zenon DEF Small
    <2>4. ASSUME NEW T \in Small(S, m - 1), T \in Small(S, m)
          PROVE  h[T] = g[T]
      <3>1. g[T] = IF T = {} THEN 0 ELSE answers[Pick(T)].weight + g[T \ {Pick(T)}]
        BY <2>2, <2>4, Zenon DEF IsAdder
      <3> QED
        BY <2>4, <3>1, Zenon
    <2>5. h = [T \in Small(S, m) |->
                 IF T = {} THEN 0 ELSE answers[Pick(T)].weight + h[T \ {Pick(T)}]]
      <3>1. \A T \in Small(S, m) : T # {} => h[T \ {Pick(T)}] = g[T \ {Pick(T)}]
        BY <2>3, <2>4, Zenon
      <3> DEFINE value(f, T) == IF T = {} THEN 0
                                ELSE answers[Pick(T)].weight + f[T \ {Pick(T)}]
      <3>2. \A T \in Small(S, m) : value(g, T) = value(h, T)
        <4> HIDE DEF h
        <4> QED
          BY <3>1, Zenon
      <3>3. [T \in Small(S, m) |-> value(g, T)] = [T \in Small(S, m) |-> value(h, T)]
        <4> HIDE DEF value, h
        <4> QED
          BY <3>2, Zenon
      <3> QED
        BY <3>3, Zenon
    <2>6. IsAdder(answers, Small(S, m), h)
      <3> HIDE DEF h
      <3> QED
        BY <2>5, Zenon DEF IsAdder
    <2> QED
      <3> HIDE DEF h
      <3> QED
        BY <1>3, <2>6, Zenon
  <1> QED
    BY <1>4, <1>5

LEMMA AdderExists ==
    ASSUME NEW answers, NEW S, IsFiniteSet(S)
    PROVE  IsAdder(answers, SUBSET S, Adder(answers, S))
  <1>1. Cardinality(S) \in Nat
    BY FS_CardinalityType
  <1>2. \A T \in SUBSET S : Cardinality(T) <= Cardinality(S)
    BY FS_Subset
  <1>3. Small(S, Cardinality(S)) = SUBSET S
    BY <1>2, Zenon DEF Small
  <1>4. \E g : IsAdder(answers, SUBSET S, g)
    <2>1. \E g : IsAdder(answers, Small(S, Cardinality(S)), g)
      BY <1>1, SmallAdderExists
    <2> QED
      BY <1>3, <2>1, Zenon
  <1> QED
    BY <1>4, Zenon DEF Adder

LEMMA AdderStep ==
    ASSUME NEW answers, NEW S, IsFiniteSet(S), NEW T \in SUBSET S
    PROVE  Adder(answers, S)[T] =
              IF T = {} THEN 0
              ELSE answers[Pick(T)].weight + Adder(answers, S)[T \ {Pick(T)}]
  <1> DEFINE g == Adder(answers, S)
  <1>1. IsAdder(answers, SUBSET S, g)
    BY AdderExists
  <1> HIDE DEF g
  <1>2. g = [U \in SUBSET S |-> IF U = {} THEN 0
                                ELSE answers[Pick(U)].weight + g[U \ {Pick(U)}]]
    BY <1>1, Zenon DEF IsAdder
  <1>3. g[T] = IF T = {} THEN 0 ELSE answers[Pick(T)].weight + g[T \ {Pick(T)}]
    BY <1>2, Zenon
  <1> QED
    BY <1>3, Zenon DEF g

(* The sum over a set does not depend on what it is a subset of.           *)
LEMMA WeightsOfSubset ==
    ASSUME NEW answers, NEW S, IsFiniteSet(S), NEW T \in SUBSET S
    PROVE  Adder(answers, S)[T] = Weights(answers, T)
  <1> DEFINE bad == {U \in SUBSET T : Adder(answers, S)[U] # Adder(answers, T)[U]}
  <1>1. IsFiniteSet(T)
    BY FS_Subset
  <1>2. SUFFICES ASSUME bad # {} PROVE FALSE
    BY WeightsByAdder, Zenon
  <1>3. PICK U \in bad : \A V \in bad : V \subseteq U => V = U
    <2> HIDE DEF bad
    <2>1. bad \in SUBSET (SUBSET T)
      BY DEF bad
    <2> QED
      BY <1>1, <1>2, <2>1, SmallestExists
  <1>4. U \in SUBSET T /\ U \in SUBSET S
    OBVIOUS
  <1>5. U # {}
    BY <1>1, <1>3, <1>4, AdderStep, Zenon
  <1>6. Pick(U) \in U
    BY <1>5, Zenon DEF Pick
  <1>7. U \ {Pick(U)} \notin bad
    <2> HIDE DEF bad
    <2> QED
      BY <1>3, <1>6
  <1>8. Adder(answers, S)[U \ {Pick(U)}] = Adder(answers, T)[U \ {Pick(U)}]
    <2>1. U \ {Pick(U)} \in SUBSET T
      BY <1>4
    <2> QED
      BY <1>7, <2>1, Zenon
  <1>9. Adder(answers, S)[U] = answers[Pick(U)].weight + Adder(answers, S)[U \ {Pick(U)}]
    <2>1. Adder(answers, S)[U] =
             IF U = {} THEN 0 ELSE answers[Pick(U)].weight + Adder(answers, S)[U \ {Pick(U)}]
      BY <1>4, AdderStep
    <2> QED
      BY <1>5, <2>1, Zenon
  <1>10. Adder(answers, T)[U] = answers[Pick(U)].weight + Adder(answers, T)[U \ {Pick(U)}]
    <2>1. Adder(answers, T)[U] =
             IF U = {} THEN 0 ELSE answers[Pick(U)].weight + Adder(answers, T)[U \ {Pick(U)}]
      BY <1>1, <1>4, AdderStep
    <2> QED
      BY <1>5, <2>1, Zenon
  <1> QED
    BY <1>3, <1>8, <1>9, <1>10, Zenon

LEMMA WeightsByPick ==
    ASSUME NEW answers, NEW S, IsFiniteSet(S)
    PROVE  Weights(answers, S) =
              IF S = {} THEN 0
              ELSE answers[Pick(S)].weight + Weights(answers, S \ {Pick(S)})
  <1>1. S \in SUBSET S /\ S \ {Pick(S)} \in SUBSET S
    OBVIOUS
  <1>2. Adder(answers, S)[S] = Weights(answers, S)
    BY <1>1, WeightsOfSubset
  <1>3. Adder(answers, S)[S \ {Pick(S)}] = Weights(answers, S \ {Pick(S)})
    BY <1>1, WeightsOfSubset
  <1>4. Adder(answers, S)[S] =
           IF S = {} THEN 0
           ELSE answers[Pick(S)].weight + Adder(answers, S)[S \ {Pick(S)}]
    BY <1>1, AdderStep
  <1> QED
    BY <1>2, <1>3, <1>4, Zenon

(* Any element may be taken first.                                         *)
LEMMA WeightsByAny ==
    ASSUME NEW answers, NEW S, IsFiniteSet(S), \A i \in S : answers[i].weight \in Nat
    PROVE  /\ Weights(answers, S) \in Nat
           /\ \A x \in S :
                 Weights(answers, S) = answers[x].weight + Weights(answers, S \ {x})
  <1> DEFINE w(x) == answers[x].weight
             Good(T) == /\ Weights(answers, T) \in Nat
                        /\ \A x \in T : Weights(answers, T) = w(x) + Weights(answers, T \ {x})
             bad == {T \in SUBSET S : ~Good(T)}
  <1>1. SUFFICES ASSUME bad # {} PROVE FALSE
    BY Zenon
  <1>2. PICK T \in bad : \A U \in bad : U \subseteq T => U = T
    <2> HIDE DEF bad
    <2>1. bad \in SUBSET (SUBSET S)
      BY DEF bad
    <2> QED
      BY <1>1, <2>1, SmallestExists
  <1>3. T \in SUBSET S /\ ~Good(T)
    BY <1>2, Zenon
  <1>4. IsFiniteSet(T) /\ \A i \in T : w(i) \in Nat
    BY <1>3, FS_Subset
  <1>5. ASSUME NEW x \in T
        PROVE  Good(T \ {x})
    <2> HIDE DEF Good
    <2>1. T \ {x} \in SUBSET S /\ T \ {x} # T
      BY <1>3
    <2>2. T \ {x} \notin bad
      <3> HIDE DEF bad
      <3> QED
        BY <1>2, <2>1
    <2> QED
      BY <2>1, <2>2, Zenon
  <1>6. Weights(answers, T) =
           IF T = {} THEN 0 ELSE w(Pick(T)) + Weights(answers, T \ {Pick(T)})
    BY <1>4, WeightsByPick, Zenon
  <1>7. CASE T = {}
    BY <1>3, <1>6, <1>7
  <1>8. CASE T # {}
    <2> DEFINE p == Pick(T)
    <2>1. p \in T
      BY <1>8, Zenon DEF Pick
    <2> HIDE DEF p
    <2>2. Weights(answers, T) = w(p) + Weights(answers, T \ {p})
      BY <1>6, <1>8, Zenon DEF p
    <2>3. Weights(answers, T \ {p}) \in Nat /\ w(p) \in Nat
      BY <1>4, <1>5, <2>1, Zenon
    <2>4. ASSUME NEW x \in T
          PROVE  Weights(answers, T) = w(x) + Weights(answers, T \ {x})
      <3>1. CASE x = p
        BY <2>2, <3>1
      <3>2. CASE x # p
        <4> DEFINE rest == (T \ {p}) \ {x}
        <4>1. rest = (T \ {x}) \ {p}
          OBVIOUS
        <4>2. Weights(answers, T \ {p}) = w(x) + Weights(answers, rest)
          <5>1. x \in T \ {p}
            BY <3>2
          <5> QED
            BY <1>5, <2>1, <5>1, Zenon
        <4>3. Weights(answers, T \ {x}) = w(p) + Weights(answers, rest)
          <5>1. p \in T \ {x}
            BY <2>1, <3>2
          <5>2. Good(T \ {x})
            <6> HIDE DEF Good
            <6> QED
              BY <1>5
          <5>3. Weights(answers, T \ {x}) = w(p) + Weights(answers, (T \ {x}) \ {p})
            BY <5>1, <5>2, Zenon
          <5> HIDE DEF rest
          <5> QED
            BY <4>1, <5>3, Zenon
        <4>4. Weights(answers, rest) \in Nat /\ w(x) \in Nat
          <5>1. w(x) \in Nat
            BY <1>4
          <5>2. rest \in SUBSET S
            BY <1>3
          <5>3. rest \notin bad
            <6>1. rest \subseteq T /\ rest # T
              BY <2>1
            <6> HIDE DEF bad, rest
            <6> QED
              BY <1>2, <6>1, Zenon
          <5>4. Good(rest)
            <6> HIDE DEF Good, rest
            <6> QED
              BY <5>2, <5>3, Zenon
          <5> QED
            BY <5>1, <5>4, Zenon
        <4> HIDE DEF rest, w
        <4> QED
          BY <2>2, <2>3, <4>2, <4>3, <4>4
      <3> QED
        BY <3>1, <3>2
    <2>5. Weights(answers, T) \in Nat
      BY <2>2, <2>3
    <2> QED
      BY <1>3, <2>4, <2>5, Zenon
  <1> QED
    BY <1>7, <1>8

LEMMA WeightsGrow ==
    ASSUME NEW answers, NEW S, IsFiniteSet(S), \A i \in S : answers[i].weight \in Nat,
           NEW T \in SUBSET S
    PROVE  Weights(answers, T) <= Weights(answers, S)
  <1> DEFINE bad == {U \in SUBSET S : T \subseteq U
                                     /\ ~(Weights(answers, T) <= Weights(answers, U))}
  <1>1. SUFFICES ASSUME bad # {} PROVE FALSE
    BY Zenon
  <1>2. PICK U \in bad : \A V \in bad : V \subseteq U => V = U
    <2> HIDE DEF bad
    <2>1. bad \in SUBSET (SUBSET S)
      BY DEF bad
    <2> QED
      BY <1>1, <2>1, SmallestExists
  <1>3. /\ U \in SUBSET S /\ T \subseteq U
        /\ ~(Weights(answers, T) <= Weights(answers, U))
    BY <1>2, Zenon
  <1>4. /\ IsFiniteSet(U) /\ IsFiniteSet(T)
        /\ \A i \in U : answers[i].weight \in Nat
        /\ \A i \in T : answers[i].weight \in Nat
    BY <1>3, FS_Subset
  <1>5. Weights(answers, U) \in Nat /\ Weights(answers, T) \in Nat
    BY <1>4, WeightsByAny
  <1>6. U # T
    BY <1>3, <1>5
  <1>7. PICK x \in U : x \notin T
    BY <1>3, <1>6
  <1>8. Weights(answers, U) = answers[x].weight + Weights(answers, U \ {x})
    BY <1>4, WeightsByAny
  <1>9. Weights(answers, T) <= Weights(answers, U \ {x})
    <2>1. U \ {x} # U /\ U \ {x} \subseteq U /\ U \ {x} \in SUBSET S
          /\ T \subseteq U \ {x}
      BY <1>3, <1>7
    <2>2. U \ {x} \notin bad
      <3> HIDE DEF bad
      <3> QED
        BY <1>2, <2>1
    <2> QED
      BY <2>1, <2>2, Zenon
  <1>10. Weights(answers, U \ {x}) \in Nat
    <2>1. IsFiniteSet(U \ {x}) /\ \A i \in U \ {x} : answers[i].weight \in Nat
      BY <1>4, FS_Subset
    <2> QED
      BY <2>1, WeightsByAny
  <1>11. answers[x].weight \in Nat
    BY <1>4
  <1> QED
    BY <1>3, <1>5, <1>8, <1>9, <1>10, <1>11

-----------------------------------------------------------------------------
(* What the dice choose.                                                   *)

(* The candidates up to record i in the list.                              *)
UpTo(answers, i) == {j \in Candidates(answers) : Place(answers, j) <= Place(answers, i)}

LEMMA CandidatesType ==
    ASSUME NEW answers \in Seq(SrvRecord)
    PROVE  /\ Candidates(answers) \in SUBSET (DOMAIN answers)
           /\ IsFiniteSet(Candidates(answers))
           /\ \A i \in Candidates(answers) : answers[i].weight \in Nat
           /\ \A i \in Candidates(answers) : Place(answers, i) \in Int
  <1>1. Candidates(answers) \in SUBSET (DOMAIN answers)
    BY Zenon DEF Candidates, Usable
  <1>2. IsFiniteSet(DOMAIN answers)
    <2>1. DOMAIN answers = 1..Len(answers) /\ Len(answers) \in Nat
      OBVIOUS
    <2> QED
      BY <2>1, FS_Interval
  <1>3. IsFiniteSet(Candidates(answers))
    BY <1>1, <1>2, FS_Subset
  <1>4. ASSUME NEW i \in DOMAIN answers PROVE answers[i].weight \in Nat
    <2>1. answers[i] \in SrvRecord
      OBVIOUS
    <2> QED
      BY <2>1 DEF SrvRecord
  <1> QED
    BY <1>1, <1>3, <1>4, PlaceType

(* No two records have the same place.                                     *)
LEMMA PlaceIsUnique ==
    ASSUME NEW answers \in Seq(SrvRecord), NEW i \in DOMAIN answers, NEW j \in DOMAIN answers,
           Place(answers, i) = Place(answers, j)
    PROVE  i = j
  <1>1. i \in 1..Len(answers) /\ j \in 1..Len(answers)
    OBVIOUS
  <1> QED
    BY <1>1 DEF Place

(* The sums do not wrap when the weights together fit.                     *)
LEMMA RunningSumIs ==
    ASSUME NEW answers \in Seq(SrvRecord), NEW i \in Candidates(answers),
           Weights(answers, Candidates(answers)) < WeightModulus
    PROVE  /\ RunningSum(answers, i) = Weights(answers, UpTo(answers, i))
           /\ RunningSum(answers, i) \in Nat
  <1>1. UpTo(answers, i) \in SUBSET Candidates(answers)
    BY Zenon DEF UpTo
  <1>2. /\ IsFiniteSet(UpTo(answers, i))
        /\ \A j \in UpTo(answers, i) : answers[j].weight \in Nat
    BY <1>1, CandidatesType, FS_Subset
  <1>3. Weights(answers, UpTo(answers, i)) \in Nat
    BY <1>2, WeightsByAny
  <1>4. Weights(answers, Candidates(answers)) \in Nat
    BY CandidatesType, WeightsByAny
  <1>5. Weights(answers, UpTo(answers, i)) <= Weights(answers, Candidates(answers))
    BY <1>1, CandidatesType, WeightsGrow
  <1>6. RunningSum(answers, i) = Weights(answers, UpTo(answers, i)) % WeightModulus
    BY Zenon DEF RunningSum, Weights, UpTo
  <1>7. WeightModulus \in Nat
    BY ConnectionAssumption
  <1> QED
    BY <1>3, <1>4, <1>5, <1>6, <1>7

LEMMA SumsGrow ==
    ASSUME NEW answers \in Seq(SrvRecord), NEW i \in Candidates(answers),
           NEW j \in Candidates(answers), Place(answers, i) <= Place(answers, j),
           Weights(answers, Candidates(answers)) < WeightModulus
    PROVE  RunningSum(answers, i) <= RunningSum(answers, j)
  <1>1. UpTo(answers, i) \in SUBSET UpTo(answers, j)
    BY CandidatesType DEF UpTo
  <1>2. UpTo(answers, j) \in SUBSET Candidates(answers)
    BY Zenon DEF UpTo
  <1>3. /\ IsFiniteSet(UpTo(answers, j))
        /\ \A k \in UpTo(answers, j) : answers[k].weight \in Nat
    BY <1>2, CandidatesType, FS_Subset
  <1> QED
    BY <1>1, <1>3, WeightsGrow, RunningSumIs

(* A record raises the sum of the one before it by its weight.             *)
LEMMA FirstSum ==
    ASSUME NEW answers \in Seq(SrvRecord), NEW i \in Candidates(answers),
           \A j \in Candidates(answers) : Place(answers, i) <= Place(answers, j),
           Weights(answers, Candidates(answers)) < WeightModulus
    PROVE  RunningSum(answers, i) = answers[i].weight
  <1>1. UpTo(answers, i) = {i}
    <2>1. ASSUME NEW j \in Candidates(answers), Place(answers, j) <= Place(answers, i)
          PROVE  j = i
      <3>1. Place(answers, j) = Place(answers, i)
        BY <2>1, CandidatesType
      <3> QED
        BY <3>1, CandidatesType, PlaceIsUnique
    <2>2. i \in UpTo(answers, i)
      BY CandidatesType DEF UpTo
    <2> QED
      BY <2>1, <2>2 DEF UpTo
  <1>2. IsFiniteSet({i}) /\ \A j \in {i} : answers[j].weight \in Nat
    BY CandidatesType, FS_Singleton
  <1>3. Weights(answers, {i}) = answers[i].weight + Weights(answers, {i} \ {i})
    BY <1>2, WeightsByAny
  <1>4. Weights(answers, {i} \ {i}) = 0
    <2>1. {i} \ {i} = {}
      OBVIOUS
    <2> QED
      BY <2>1, WeightsByPick, FS_EmptySet
  <1>5. RunningSum(answers, i) = Weights(answers, UpTo(answers, i))
    BY RunningSumIs
  <1>6. answers[i].weight \in Nat
    BY CandidatesType
  <1> QED
    BY <1>1, <1>3, <1>4, <1>5, <1>6

LEMMA NextSum ==
    ASSUME NEW answers \in Seq(SrvRecord), NEW i \in Candidates(answers),
           NEW p \in Candidates(answers), Place(answers, p) < Place(answers, i),
           \A j \in Candidates(answers) :
              Place(answers, j) < Place(answers, i) => Place(answers, j) <= Place(answers, p),
           Weights(answers, Candidates(answers)) < WeightModulus
    PROVE  RunningSum(answers, i) = RunningSum(answers, p) + answers[i].weight
  <1>1. i \in UpTo(answers, i)
    BY CandidatesType DEF UpTo
  <1>2. UpTo(answers, i) \ {i} = UpTo(answers, p)
    <2>1. ASSUME NEW j \in Candidates(answers)
          PROVE  Place(answers, j) <= Place(answers, i) /\ j # i
                    <=> Place(answers, j) <= Place(answers, p)
      <3>1. Place(answers, j) = Place(answers, i) => j = i
        BY CandidatesType, PlaceIsUnique
      <3>2. /\ Place(answers, i) \in Int /\ Place(answers, j) \in Int
            /\ Place(answers, p) \in Int
        BY CandidatesType
      <3> QED
        BY <3>1, <3>2
    <2> QED
      BY <2>1 DEF UpTo
  <1>3. UpTo(answers, i) \in SUBSET Candidates(answers)
    BY Zenon DEF UpTo
  <1>4. /\ IsFiniteSet(UpTo(answers, i))
        /\ \A j \in UpTo(answers, i) : answers[j].weight \in Nat
    BY <1>3, CandidatesType, FS_Subset
  <1>5. Weights(answers, UpTo(answers, i)) =
           answers[i].weight + Weights(answers, UpTo(answers, p))
    BY <1>1, <1>2, <1>4, WeightsByAny
  <1>6. /\ RunningSum(answers, i) = Weights(answers, UpTo(answers, i))
        /\ RunningSum(answers, p) = Weights(answers, UpTo(answers, p))
        /\ RunningSum(answers, p) \in Nat /\ answers[i].weight \in Nat
    BY RunningSumIs, CandidatesType
  <1> QED
    BY <1>5, <1>6

LEMMA DiceType ==
    ASSUME NEW answers \in Seq(SrvRecord), Candidates(answers) # {}
    PROVE  \E last \in Candidates(answers) :
              /\ Dice(answers) = 0..RunningSum(answers, last)
              /\ \A j \in Candidates(answers) : Place(answers, j) <= Place(answers, last)
  <1> DEFINE Last(i) == \A j \in Candidates(answers) : Place(answers, j) <= Place(answers, i)
             last == CHOOSE i \in Candidates(answers) : Last(i)
  <1>1. \E i \in Candidates(answers) : Last(i)
    BY CandidatesType, LastExists
  <1>2. last \in Candidates(answers) /\ Last(last)
    <2> HIDE DEF Last
    <2> QED
      BY <1>1, Zenon
  <1>3. Dice(answers) = 0..RunningSum(answers, last)
    BY Zenon DEF Dice
  <1> QED
    BY <1>2, <1>3, Zenon

(* The dice choose a record that their eyes reach, unless they reach one   *)
(* before it.                                                              *)
LEMMA ChosenByDice ==
    ASSUME NEW answers \in Seq(SrvRecord), NEW i \in Candidates(answers),
           NEW dice \in Dice(answers),
           Weights(answers, Candidates(answers)) < WeightModulus
    PROVE  /\ dice \in Nat
           /\ Chosen(answers, dice) = i <=>
                 /\ dice <= RunningSum(answers, i)
                 /\ \A j \in Candidates(answers) :
                       Place(answers, j) < Place(answers, i) => RunningSum(answers, j) < dice
  <1> DEFINE reached == {j \in Candidates(answers) : RunningSum(answers, j) >= dice}
             chosen == Chosen(answers, dice)
  <1>1. PICK last \in Candidates(answers) : Dice(answers) = 0..RunningSum(answers, last)
    BY DiceType
  <1>2. \A j \in Candidates(answers) : RunningSum(answers, j) \in Nat
    BY RunningSumIs
  <1>3. dice \in Nat /\ RunningSum(answers, last) >= dice
    BY <1>1, <1>2
  <1>4. last \in reached /\ reached \in SUBSET (DOMAIN answers)
    BY <1>3, CandidatesType
  <1>5. chosen = Foremost(answers, reached)
    BY Zenon DEF Chosen
  <1>6. /\ chosen \in reached
        /\ \A j \in reached : Place(answers, chosen) <= Place(answers, j)
    <2> HIDE DEF reached, chosen
    <2> QED
      BY <1>4, <1>5, ForemostIsRecord
  <1>7. \A j \in Candidates(answers) : Place(answers, j) \in Int
    BY CandidatesType
  <1> HIDE DEF chosen
  <1>8. ASSUME chosen = i
        PROVE  /\ dice <= RunningSum(answers, i)
               /\ \A j \in Candidates(answers) :
                     Place(answers, j) < Place(answers, i) => RunningSum(answers, j) < dice
    BY <1>2, <1>3, <1>6, <1>7, <1>8
  <1>9. ASSUME dice <= RunningSum(answers, i),
               \A j \in Candidates(answers) :
                  Place(answers, j) < Place(answers, i) => RunningSum(answers, j) < dice
        PROVE  chosen = i
    <2>1. i \in reached
      BY <1>2, <1>3, <1>9
    <2>2. ~(Place(answers, chosen) < Place(answers, i))
      BY <1>2, <1>3, <1>6, <1>9
    <2>3. Place(answers, chosen) = Place(answers, i)
      BY <1>6, <1>7, <2>1, <2>2
    <2>4. chosen \in DOMAIN answers /\ i \in DOMAIN answers
      BY <1>4, <1>6, <2>1
    <2> QED
      BY <2>3, <2>4, PlaceIsUnique
  <1> QED
    BY <1>3, <1>8, <1>9, Zenon DEF chosen

LEMMA ShareOfFirst ==
    ASSUME NEW answers \in Seq(SrvRecord), NEW i \in Candidates(answers),
           i = Foremost(answers, Candidates(answers)),
           Weights(answers, Candidates(answers)) < WeightModulus
    PROVE  {dice \in Dice(answers) : Chosen(answers, dice) = i} = 0..answers[i].weight
  <1>1. \A j \in Candidates(answers) : Place(answers, i) <= Place(answers, j)
    BY CandidatesType, ForemostIsRecord
  <1>2. RunningSum(answers, i) = answers[i].weight
    BY <1>1, FirstSum
  <1>3. answers[i].weight \in Nat /\ \A j \in Candidates(answers) : Place(answers, j) \in Int
    BY CandidatesType
  <1>4. ASSUME NEW dice \in Dice(answers)
        PROVE  Chosen(answers, dice) = i <=> dice \in 0..answers[i].weight
    <2>1. \A j \in Candidates(answers) : ~(Place(answers, j) < Place(answers, i))
      BY <1>1, <1>3
    <2> QED
      BY <1>2, <1>3, <2>1, ChosenByDice
  <1>5. 0..answers[i].weight \subseteq Dice(answers)
    <2>1. PICK last \in Candidates(answers) : Dice(answers) = 0..RunningSum(answers, last)
      BY DiceType
    <2>2. /\ RunningSum(answers, i) <= RunningSum(answers, last)
          /\ RunningSum(answers, last) \in Nat
      BY <1>1, SumsGrow, RunningSumIs
    <2> QED
      BY <1>2, <1>3, <2>1, <2>2
  <1> QED
    BY <1>4, <1>5, Zenon

LEMMA ShareOfOther ==
    ASSUME NEW answers \in Seq(SrvRecord), NEW i \in Candidates(answers),
           i # Foremost(answers, Candidates(answers)),
           Weights(answers, Candidates(answers)) < WeightModulus
    PROVE  \E n \in Nat :
              {dice \in Dice(answers) : Chosen(answers, dice) = i}
                 = (n + 1)..(n + answers[i].weight)
  <1> DEFINE first == Foremost(answers, Candidates(answers))
             before == {j \in Candidates(answers) : Place(answers, j) < Place(answers, i)}
  <1>1. /\ answers[i].weight \in Nat
        /\ \A j \in Candidates(answers) : Place(answers, j) \in Int
        /\ Candidates(answers) \in SUBSET (DOMAIN answers)
    BY CandidatesType
  <1>2. first \in before
    <2>1. first \in Candidates(answers) /\ Place(answers, first) <= Place(answers, i)
      BY <1>1, ForemostIsRecord
    <2>2. Place(answers, first) # Place(answers, i)
      BY <1>1, <2>1, PlaceIsUnique
    <2> HIDE DEF first
    <2> QED
      BY <1>1, <2>1, <2>2
  <1>3. PICK p \in before : \A j \in before : Place(answers, j) <= Place(answers, p)
    <2>1. before \in SUBSET (DOMAIN answers) /\ before # {}
      BY <1>1, <1>2, Zenon
    <2> HIDE DEF before
    <2> QED
      BY <2>1, LastExists
  <1>4. p \in Candidates(answers) /\ Place(answers, p) < Place(answers, i)
    OBVIOUS
  <1> DEFINE n == RunningSum(answers, p)
  <1>5. n \in Nat /\ RunningSum(answers, i) = n + answers[i].weight
    BY <1>3, <1>4, NextSum, RunningSumIs
  <1>6. \A j \in before : RunningSum(answers, j) <= n /\ RunningSum(answers, j) \in Nat
    BY <1>3, <1>4, SumsGrow, RunningSumIs
  <1>7. ASSUME NEW dice \in Dice(answers)
        PROVE  Chosen(answers, dice) = i <=> dice \in (n + 1)..(n + answers[i].weight)
    <2>1. /\ dice \in Nat
          /\ Chosen(answers, dice) = i <=>
                /\ dice <= RunningSum(answers, i)
                /\ \A j \in before : RunningSum(answers, j) < dice
      BY ChosenByDice
    <2>2. (\A j \in before : RunningSum(answers, j) < dice) <=> n < dice
      <3> HIDE DEF before
      <3> QED
        BY <1>3, <1>5, <1>6, <2>1
    <2> HIDE DEF n, before
    <2> QED
      BY <1>1, <1>5, <2>1, <2>2
  <1>8. (n + 1)..(n + answers[i].weight) \subseteq Dice(answers)
    <2>1. PICK last \in Candidates(answers) :
             /\ Dice(answers) = 0..RunningSum(answers, last)
             /\ Place(answers, i) <= Place(answers, last)
      BY DiceType
    <2>2. /\ RunningSum(answers, i) <= RunningSum(answers, last)
          /\ RunningSum(answers, last) \in Nat
      BY <2>1, SumsGrow, RunningSumIs
    <2> HIDE DEF n
    <2> QED
      BY <1>1, <1>5, <2>1, <2>2
  <1>9. {dice \in Dice(answers) : Chosen(answers, dice) = i}
           = (n + 1)..(n + answers[i].weight)
    <2> HIDE DEF n
    <2> QED
      BY <1>7, <1>8, Zenon
  <1> QED
    <2> HIDE DEF n
    <2> QED
      BY <1>5, <1>9

LEMMA IntervalSize ==
    ASSUME NEW n \in Nat, NEW w \in Nat
    PROVE  /\ Cardinality(0..w) = w + 1
           /\ Cardinality((n + 1)..(n + w)) = w
  <1> DEFINE a == n + 1
             b == n + w
             size == Cardinality(a..b)
             all == Cardinality(0..w)
  <1>1. 0 \in Int /\ w \in Int /\ a \in Int /\ b \in Int
    OBVIOUS
  <1>2. all = IF 0 > w THEN 0 ELSE w - 0 + 1
    BY <1>1, FS_Interval, Zenon
  <1>3. size = IF a > b THEN 0 ELSE b - a + 1
    <2> HIDE DEF a, b
    <2> QED
      BY <1>1, FS_Interval, Zenon
  <1> HIDE DEF size, all
  <1>4. all = w + 1
    BY <1>2
  <1>5. size = w
    BY <1>3
  <1> QED
    BY <1>4, <1>5 DEF size, all

LEMMA SharesFit ==
    ASSUME srv \in Seq(SrvRecord)
    PROVE  LoadIsBalanced
  <1> DEFINE records == Candidates(srv)
             Share(i) == Cardinality({dice \in Dice(srv) : Chosen(srv, dice) = i})
             first == Foremost(srv, records)
  <1>1. ASSUME Weights(srv, records) < WeightModulus, NEW i \in records
        PROVE  Share(i) = srv[i].weight + (IF i = first THEN 1 ELSE 0)
    <2>1. srv[i].weight \in Nat
      BY CandidatesType
    <2>2. CASE i = first
      <3>1. {dice \in Dice(srv) : Chosen(srv, dice) = i} = 0..srv[i].weight
        BY <1>1, <2>2, ShareOfFirst
      <3>2. Share(i) = Cardinality(0..srv[i].weight)
        BY <3>1, Zenon
      <3>3. Cardinality(0..srv[i].weight) = srv[i].weight + 1
        BY <2>1, IntervalSize
      <3> HIDE DEF Share
      <3> QED
        BY <2>1, <2>2, <3>2, <3>3
    <2>3. CASE i # first
      <3>1. PICK n \in Nat : {dice \in Dice(srv) : Chosen(srv, dice) = i}
                                = (n + 1)..(n + srv[i].weight)
        BY <1>1, <2>3, ShareOfOther
      <3>2. Cardinality((n + 1)..(n + srv[i].weight)) = srv[i].weight
        BY <2>1, IntervalSize
      <3>3. Share(i) = srv[i].weight
        BY <3>1, <3>2, Zenon
      <3> HIDE DEF Share, first
      <3> QED
        BY <2>1, <2>3, <3>3
    <2> QED
      BY <2>2, <2>3
  <1> QED
    BY <1>1, Zenon DEF LoadIsBalanced, Weights

-----------------------------------------------------------------------------
(* Keepalives and the STUN server.                                         *)

(* A usable SRV record of the lowest priority has the port.               *)
BestPort(port) ==
    \E i \in Usable(srv) :
       /\ srv[i].port = port
       /\ \A j \in Usable(srv) : srv[i].priority <= srv[j].priority

(* Nothing is known of a STUN server before the connection starts.  With   *)
(* discovery the port is one of a best record once its name is looked up,  *)
(* and nothing was told before; without, the port is the default one and   *)
(* the server the one of the parameters.                                   *)
ServerFollowsQuery ==
    /\ status = "NEW" => query = "none" /\ stun_port = 3478 /\ media_stun = NoServer
    /\ query = "srv" => params.discover /\ media_stun = NoServer
    /\ params.discover =>
          /\ query = "a" => BestPort(stun_port)
          /\ media_stun # NoServer => media_stun.server = "target" /\ BestPort(media_stun.port)
    /\ ~params.discover =>
          /\ stun_port = 3478
          /\ media_stun \in {NoServer, [server |-> params.server, port |-> 3478]}

(* The stack was told what the parameters ask for, or nothing yet.         *)
StackIsTold == stack \in {NoStack, StackParams}

DataInv ==
    /\ TypeOK
    /\ StackIsTold
    /\ ServerFollowsQuery

(* The parts of TypeOK besides LifeTypeOK.                                 *)
ServerTypeOK ==
    /\ query \in {"none", "srv", "a"} /\ stun_port \in Nat
    /\ media_stun \in [server : {"none", "address", "name", "target"}, port : Nat]
    /\ srv \in SrvAnswers \cup {<<>>}

OtherTypeOK ==
    /\ params \in Params
    /\ register_op \in BOOLEAN /\ finished \in BOOLEAN /\ alive \in BOOLEAN
    /\ holders \subseteq Targets
    /\ password \in BOOLEAN
    /\ presented \subseteq Realms
    /\ authenticated \subseteq Realms \X {"home", "extra", "blank"}
    /\ rounds \in [Handles -> Nat]

StackTypeOK ==
    stack \in [options : {"default", "on", "off"},
               keepalive : Nat \cup {Unset}, expires : Nat \cup {Unset}]

LEMMA ParamsType ==
    ASSUME params \in Params
    PROVE  /\ params.password \in BOOLEAN
           /\ params.discover \in BOOLEAN
           /\ params.server \in {"none", "address", "name"}
           /\ params.mechanism \in Mechanisms \cup {"auto"}
           /\ params.interval \in Nat \cup {Unset}
  BY ConnectionAssumption DEF Params, Parameters

LEMMA StackParamsType ==
    ASSUME params \in Params
    PROVE  StackParams \in [options : {"default", "on", "off"},
                            keepalive : Nat \cup {Unset}, expires : Nat \cup {Unset}]
  <1>1. Interval \in Nat
    BY ParamsType DEF Interval, Specified
  <1>2. Sanitized(Interval) \in Nat
    BY <1>1, MaxOfTwo DEF Sanitized
  <1>3. OutboundOptions \in {"default", "on", "off"}
    BY DEF OutboundOptions
  <1> QED
    BY <1>2, <1>3, Zenon DEF StackParams

LEMMA NewStaysNew ==
    ASSUME Inv, Next, status' = "NEW"
    PROVE  status = "NEW"
  <1>1. status \in {"NEW", "CONNECTING", "CONNECTED", "DISCONNECTED"}
    BY DEF Inv, LifeTypeOK
  <1>2. Rank[status'] >= Rank[status]
    BY NextAdvances DEF Advances
  <1> QED
    BY <1>1, <1>2 DEF Rank

LEMMA StackUntouched ==
    ASSUME StackIsTold, params' = params, stack' = stack
    PROVE  StackIsTold'
  BY DEF StackIsTold, StackParams, Sanitized, OutboundOptions, Mechanism, Interval, Specified

LEMMA ServerUntouched ==
    ASSUME ServerFollowsQuery, params' = params, UNCHANGED stun,
           status' = "NEW" => status = "NEW"
    PROVE  ServerFollowsQuery'
  BY DEF ServerFollowsQuery, stun, BestPort, Usable, NoServer

(* What DataInv speaks of besides the status and the types.                *)
Rest == <<params, stack, stun>>

LEMMA StartStunKeeps ==
    ASSUME TypeOK, ServerFollowsQuery, status = "NEW", StartStun,
           params' = params, status' # "NEW"
    PROVE  ServerTypeOK' /\ ServerFollowsQuery'
  <1>1. /\ params.discover \in BOOLEAN
        /\ params.server \in {"none", "address", "name"}
    BY ParamsType DEF TypeOK
  <1>2. query = "none" /\ stun_port = 3478 /\ media_stun = NoServer
    BY DEF ServerFollowsQuery
  <1>3. stun_port' = stun_port /\ srv' = srv
    BY DEF StartStun
  <1>4. srv \in SrvAnswers \cup {<<>>}
    BY DEF TypeOK
  <1>5. CASE params.discover
    <2>1. query' \in {"none", "srv"} /\ media_stun' = media_stun
      BY <1>5 DEF StartStun
    <2> QED
      BY <1>2, <1>3, <1>4, <1>5, <2>1 DEF ServerTypeOK, ServerFollowsQuery, NoServer
  <1>6. CASE ~params.discover
    <2>1. /\ query' \in {"none", "a"}
          /\ media_stun' \in {NoServer, [server |-> params.server, port |-> 3478]}
      <3>1. CASE params.server = "none"
        <4>1. query' = query /\ media_stun' = media_stun
          BY <1>6, <3>1 DEF StartStun
        <4> QED
          BY <1>2, <4>1
      <3>2. CASE params.server = "address"
        <4>1. Resolve(params.server, stun_port)
          BY <1>6, <3>2 DEF StartStun
        <4>2. query' = "none" /\ media_stun' = [server |-> "address", port |-> stun_port]
          BY <3>2, <4>1 DEF Resolve
        <4> QED
          BY <1>2, <3>2, <4>2
      <3>3. CASE params.server = "name"
        <4>1. Resolve(params.server, stun_port)
          BY <1>6, <3>3 DEF StartStun
        <4>2. query' = "a" /\ media_stun' = media_stun
          BY <3>3, <4>1 DEF Resolve
        <4> QED
          BY <1>2, <4>2
      <3> QED
        BY <1>1, <3>1, <3>2, <3>3
    <2>2. NoServer' = NoServer
      BY DEF NoServer
    <2>3. media_stun' \in [server : {"none", "address", "name", "target"}, port : Nat]
      BY <1>1, <2>1 DEF NoServer
    <2> QED
      BY <1>2, <1>3, <1>4, <1>6, <2>1, <2>2, <2>3 DEF ServerTypeOK, ServerFollowsQuery
  <1> QED
    BY <1>1, <1>5, <1>6

LEMMA DiscoveredKeeps ==
    ASSUME TypeOK, ServerFollowsQuery, NEW answers \in SrvAnswers, StunDiscovered(answers)
    PROVE  ServerTypeOK' /\ ServerFollowsQuery'
  <1>1. /\ query = "srv" /\ params.discover /\ media_stun = NoServer
        /\ params' = params /\ status' = status /\ srv' = answers
    BY DEF StunDiscovered, ServerFollowsQuery, lifetime
  <1>2. answers \in Seq(SrvRecord)
    BY ConnectionAssumption
  <1>3. stun_port \in Nat /\ status # "NEW"
    BY <1>1 DEF TypeOK, ServerFollowsQuery
  <1>4. NoServer \in [server : {"none", "address", "name", "target"}, port : Nat]
    BY DEF NoServer
  <1>5. CASE Usable(answers) = {}
    <2>1. query' = "none" /\ stun_port' = stun_port /\ media_stun' = media_stun
      BY <1>5 DEF StunDiscovered
    <2> QED
      BY <1>1, <1>3, <1>4, <2>1 DEF ServerTypeOK, ServerFollowsQuery, NoServer
  <1>6. CASE Usable(answers) # {}
    <2>1. PICK dice \in Dice(answers) :
             /\ stun_port' = answers[Chosen(answers, dice)].port
             /\ Resolve("target", stun_port')
      BY <1>6 DEF StunDiscovered
    <2>2. query' = "a" /\ media_stun' = media_stun
      BY <2>1 DEF Resolve
    <2>3. stun_port' \in Nat
      BY <1>2, <1>6, <2>1, ChosenPortType
    <2>4. BestPort(stun_port)'
      BY <1>1, <1>2, <1>6, <2>1, ChosenPortType DEF BestPort, Usable
    <2> QED
      BY <1>1, <1>3, <1>4, <2>2, <2>3, <2>4
      DEF ServerTypeOK, ServerFollowsQuery, NoServer
  <1> QED
    BY <1>5, <1>6

LEMMA ResolvedKeeps ==
    ASSUME TypeOK, ServerFollowsQuery, NEW found \in BOOLEAN, StunResolved(found)
    PROVE  ServerTypeOK' /\ ServerFollowsQuery'
  <1>1. /\ query = "a" /\ query' = "none" /\ params' = params /\ status' = status
        /\ srv' = srv /\ stun_port' = stun_port
    BY DEF StunResolved, lifetime
  <1>2. status # "NEW"
    BY <1>1 DEF ServerFollowsQuery
  <1>3. /\ params.discover \in BOOLEAN
        /\ params.server \in {"none", "address", "name"}
    BY ParamsType DEF TypeOK
  <1>4. /\ stun_port \in Nat /\ srv \in SrvAnswers \cup {<<>>}
        /\ media_stun \in [server : {"none", "address", "name", "target"}, port : Nat]
    BY DEF TypeOK
  <1>5. media_stun' \in [server : {"none", "address", "name", "target"}, port : Nat]
    BY <1>3, <1>4 DEF StunResolved
  <1>6. \A port : BestPort(port) => BestPort(port)'
    BY <1>1 DEF BestPort, Usable
  <1>7. CASE params.discover
    <2>1. media_stun' \in {media_stun, [server |-> "target", port |-> stun_port]}
      BY <1>7 DEF StunResolved
    <2> QED
      BY <1>1, <1>2, <1>4, <1>5, <1>6, <1>7, <2>1
      DEF ServerTypeOK, ServerFollowsQuery, NoServer
  <1>8. CASE ~params.discover
    <2>1. media_stun' \in {media_stun, [server |-> params.server, port |-> stun_port]}
      BY <1>8 DEF StunResolved
    <2> QED
      BY <1>1, <1>2, <1>4, <1>5, <1>8, <2>1 DEF ServerTypeOK, ServerFollowsQuery, NoServer
  <1> QED
    BY <1>3, <1>7, <1>8

LEMMA TypeParts ==
    TypeOK <=> LifeTypeOK /\ OtherTypeOK /\ StackTypeOK /\ ServerTypeOK
  BY Zenon DEF TypeOK, LifeTypeOK, OtherTypeOK, StackTypeOK, ServerTypeOK

LEMMA TypePartsNext ==
    ASSUME LifeTypeOK', OtherTypeOK', StackTypeOK', ServerTypeOK'
    PROVE  TypeOK'
  BY Zenon DEF TypeOK, LifeTypeOK, OtherTypeOK, StackTypeOK, ServerTypeOK

LEMMA OtherTypeKept ==
    ASSUME Inv, TypeOK, [Next]_vars
    PROVE  OtherTypeOK'
  <1> USE TypeParts DEF OtherTypeOK
  <1>1. CASE NeverConnected \/ Disconnect \/ StackStopped \/ Finalized
    BY <1>1 DEF NeverConnected, Disconnect, StackStopped, Finalized, GoDisconnected,
       ShutDown, auth
  <1>2. CASE \E handle \in BOOLEAN : StartConnecting(handle)
    BY <1>2 DEF StartConnecting
  <1>3. CASE RegisterSucceeds \/ RegisterFails \/ HeartbeatTick
    BY <1>3 DEF RegisterSucceeds, RegisterFails, HeartbeatTick, GoDisconnected, ShutDown,
       lifetime, auth
  <1>4. CASE \E t \in Targets : TargetSends(t) \/ TargetAnswered(t) \/ TargetReleased(t)
    BY <1>4 DEF TargetSends, TargetAnswered, TargetReleased, lifetime
  <1>5. ASSUME NEW h \in Handles, NEW realm \in Realms, NEW www \in BOOLEAN,
               Challenged(h, realm, www)
        PROVE  OtherTypeOK'
    BY <1>5 DEF Challenged, Secret, lifetime
  <1>6. ASSUME NEW h \in Handles, NEW answered \in BOOLEAN, PromptEnds(h, answered)
        PROVE  OtherTypeOK'
    <2>1. asked[h] \in Realms
      BY <1>6 DEF PromptEnds, Inv, HomeSecretStaysHome
    <2> QED
      BY <1>6, <2>1 DEF PromptEnds, Continue, lifetime
  <1>7. CASE \E answers \in SrvAnswers : StunDiscovered(answers)
    BY <1>7 DEF StunDiscovered, lifetime, auth
  <1>8. CASE \E found \in BOOLEAN : StunResolved(found)
    BY <1>8 DEF StunResolved, lifetime, auth
  <1>9. CASE UNCHANGED vars
    BY <1>9 DEF vars, lifetime, auth
  <1> QED
    BY <1>1, <1>2, <1>3, <1>4, <1>5, <1>6, <1>7, <1>8, <1>9 DEF Next

LEMMA FinalizedKeepsServer ==
    ASSUME TypeOK, ServerFollowsQuery, Finalized
    PROVE  ServerTypeOK' /\ ServerFollowsQuery'
  <1>1. /\ query' = "none" /\ params' = params /\ status' = status
        /\ srv' = srv /\ stun_port' = stun_port /\ media_stun' = media_stun
    BY DEF Finalized
  <1>2. ServerTypeOK
    BY TypeParts
  <1> QED
    BY <1>1, <1>2 DEF ServerTypeOK, ServerFollowsQuery, BestPort, Usable, NoServer

LEMMA RestKept ==
    ASSUME Inv, TypeOK, StackIsTold, ServerFollowsQuery, Next, UNCHANGED Rest
    PROVE  StackTypeOK' /\ StackIsTold' /\ ServerTypeOK' /\ ServerFollowsQuery'
  <1>1. StackIsTold'
    BY StackUntouched DEF Rest
  <1>2. status' = "NEW" => status = "NEW"
    BY NewStaysNew
  <1>3. ServerFollowsQuery'
    BY <1>2, ServerUntouched DEF Rest
  <1>4. StackTypeOK' /\ ServerTypeOK'
    BY TypeParts DEF StackTypeOK, ServerTypeOK, Rest, stun
  <1> QED
    BY <1>1, <1>3, <1>4

LEMMA StartConnectingKeepsRest ==
    ASSUME TypeOK, ServerFollowsQuery, NEW handle \in BOOLEAN, StartConnecting(handle)
    PROVE  StackTypeOK' /\ StackIsTold' /\ ServerTypeOK' /\ ServerFollowsQuery'
  <1>1. /\ params' = params /\ stack' = StackParams /\ status = "NEW" /\ status' # "NEW"
        /\ StartStun
    BY DEF StartConnecting
  <1>2. StackTypeOK'
    BY <1>1, StackParamsType DEF StackTypeOK, TypeOK
  <1>3. StackIsTold'
    BY <1>1 DEF StackIsTold, StackParams, Sanitized, OutboundOptions, Mechanism, Interval,
       Specified
  <1> QED
    BY <1>1, <1>2, <1>3, StartStunKeeps

LEMMA NextTouchesRest ==
    ASSUME Next, ~UNCHANGED Rest
    PROVE  \/ \E handle \in BOOLEAN : StartConnecting(handle)
           \/ Finalized
           \/ \E answers \in SrvAnswers : StunDiscovered(answers)
           \/ \E found \in BOOLEAN : StunResolved(found)
  <1> USE DEF Rest
  <1>1. ~NeverConnected /\ ~Disconnect /\ ~StackStopped
    BY DEF NeverConnected, Disconnect, StackStopped
  <1>2. ~RegisterSucceeds /\ ~RegisterFails /\ ~HeartbeatTick
    BY DEF RegisterSucceeds, RegisterFails, HeartbeatTick
  <1>3. ~\E t \in Targets : TargetSends(t) \/ TargetAnswered(t) \/ TargetReleased(t)
    BY DEF TargetSends, TargetAnswered, TargetReleased
  <1>4. ~\E h \in Handles, realm \in Realms, www \in BOOLEAN : Challenged(h, realm, www)
    BY DEF Challenged
  <1>5. ~\E h \in Handles, answered \in BOOLEAN : PromptEnds(h, answered)
    BY DEF PromptEnds
  <1> QED
    BY <1>1, <1>2, <1>3, <1>4, <1>5 DEF Next

LEMMA DataInvKept ==
    ASSUME Inv, DataInv, [Next]_vars
    PROVE  DataInv'
  <1> USE DEF DataInv
  <1>1. LifeTypeOK'
    BY NextKeeps DEF Inv
  <1>2. OtherTypeOK'
    BY OtherTypeKept
  <1>3. StackTypeOK' /\ StackIsTold' /\ ServerTypeOK' /\ ServerFollowsQuery'
    <2>1. CASE Next /\ UNCHANGED Rest
      BY <2>1, RestKept
    <2>2. ASSUME NEW handle \in BOOLEAN, StartConnecting(handle)
          PROVE  StackTypeOK' /\ StackIsTold' /\ ServerTypeOK' /\ ServerFollowsQuery'
      BY <2>2, StartConnectingKeepsRest
    <2>3. ASSUME params' = params, stack' = stack
          PROVE  StackTypeOK' /\ StackIsTold'
      BY <2>3, TypeParts, StackUntouched DEF StackTypeOK
    <2>4. CASE Finalized
      <3>1. params' = params /\ stack' = stack
        BY <2>4 DEF Finalized
      <3> QED
        BY <2>3, <2>4, <3>1, FinalizedKeepsServer
    <2>5. ASSUME NEW answers \in SrvAnswers, StunDiscovered(answers)
          PROVE  StackTypeOK' /\ StackIsTold' /\ ServerTypeOK' /\ ServerFollowsQuery'
      <3>1. params' = params /\ stack' = stack
        BY <2>5 DEF StunDiscovered
      <3> QED
        BY <2>3, <2>5, <3>1, DiscoveredKeeps
    <2>6. ASSUME NEW found \in BOOLEAN, StunResolved(found)
          PROVE  StackTypeOK' /\ StackIsTold' /\ ServerTypeOK' /\ ServerFollowsQuery'
      <3>1. params' = params /\ stack' = stack
        BY <2>6 DEF StunResolved
      <3> QED
        BY <2>3, <2>6, <3>1, ResolvedKeeps
    <2>7. CASE UNCHANGED vars
      <3>1. params' = params /\ stack' = stack /\ UNCHANGED stun /\ status' = status
        BY <2>7 DEF vars, lifetime
      <3>2. ServerTypeOK'
        BY <3>1, TypeParts DEF ServerTypeOK, stun
      <3> QED
        BY <2>3, <3>1, <3>2, ServerUntouched
    <2>8. CASE Next /\ ~UNCHANGED Rest
      <3>1. \/ \E handle \in BOOLEAN : StartConnecting(handle)
            \/ Finalized
            \/ \E answers \in SrvAnswers : StunDiscovered(answers)
            \/ \E found \in BOOLEAN : StunResolved(found)
        BY <2>8, NextTouchesRest
      <3> QED
        BY <2>2, <2>4, <2>5, <2>6, <3>1
    <2> QED
      BY <2>1, <2>7, <2>8
  <1> QED
    BY <1>1, <1>2, <1>3, TypePartsNext

LEMMA DataInvInit == Init => DataInv
  <1> SUFFICES ASSUME Init PROVE DataInv
    OBVIOUS
  <1>1. LifeTypeOK
    BY InitInv DEF Inv
  <1>2. OtherTypeOK
    BY ParamsType DEF Init, OtherTypeOK
  <1>3. StackTypeOK /\ StackIsTold
    BY DEF Init, StackTypeOK, StackIsTold, NoStack, Unset
  <1>4. ServerTypeOK
    BY DEF Init, ServerTypeOK, NoServer
  <1>5. ServerFollowsQuery
    BY ParamsType DEF Init, ServerFollowsQuery, NoServer
  <1> QED
    BY <1>1, <1>2, <1>3, <1>4, <1>5, TypeParts DEF DataInv

-----------------------------------------------------------------------------
LEMMA SyncIntervalFits ==
    ASSUME NEW longest \in Nat, longest >= 30
    PROVE  SyncInterval(longest) \in 30..longest
  <1> DEFINE fit == {i \in Recommended : i <= longest}
  <1>1. fit \in SUBSET Int /\ \A x \in fit : 30 <= x /\ x <= longest
    BY DEF Recommended
  <1>2. 30 \in fit
    BY DEF Recommended
  <1>3. Max(fit) \in fit
    <2> HIDE DEF fit
    <2> QED
      BY <1>1, <1>2, MaxIsElement
  <1>4. SyncInterval(longest) = Max(fit)
    <2>1. fit # {}
      BY <1>2, Zenon
    <2> QED
      BY <2>1 DEF SyncInterval
  <1>5. Max(fit) \in Int /\ 30 <= Max(fit) /\ Max(fit) <= longest
    <2> HIDE DEF fit
    <2> QED
      BY <1>1, <1>3
  <1> QED
    BY <1>4, <1>5

LEMMA StackParamsAreSane ==
    ASSUME params \in Params, stack = StackParams
    PROVE  KeepaliveIsSane
  <1> DEFINE least == IF params.mechanism = "register" THEN 50 ELSE 30
  <1>1. params.interval \in Nat \cup {Unset} /\ Interval \in Nat
    BY ParamsType DEF Interval, Specified
  <1>2. /\ stack.options = OutboundOptions
        /\ stack.keepalive = IF ~Specified THEN Unset
                             ELSE IF Mechanism = "none" THEN 0 ELSE Sanitized(Interval)
        /\ stack.expires = IF Mechanism = "register" /\ Interval # 0
                           THEN Sanitized(Interval) ELSE Unset
    BY DEF StackParams
  <1>3. CASE Specified /\ Interval = 0
    <2>1. Mechanism = "none"
      BY <1>3 DEF Mechanism
    <2>2. /\ OutboundOptions = "off"
      BY <2>1 DEF OutboundOptions
    <2>3. stack = [options |-> "off", keepalive |-> 0, expires |-> Unset]
      BY <1>3, <2>1, <2>2 DEF StackParams
    <2> QED
      BY <2>3 DEF KeepaliveIsSane, Unset
  <1>4. CASE Specified /\ Interval # 0
    <2>1. Mechanism = params.mechanism
      BY <1>4 DEF Mechanism
    <2>2. Sanitized(Interval) = Max({Interval, least})
      BY <1>4, <2>1 DEF Sanitized
    <2>3. Max({Interval, least}) = (IF Interval >= least THEN Interval ELSE least)
      BY <1>1, MaxOfTwo
    <2>4. /\ Sanitized(Interval) \in Nat /\ Sanitized(Interval) >= 30
          /\ Sanitized(Interval) >= Max({Interval, least})
      BY <1>1, <2>2, <2>3
    <2>5. SyncInterval(Sanitized(Interval)) \in 30..Sanitized(Interval)
      BY <2>4, SyncIntervalFits
    <2>6. stack.keepalive \notin {Unset, 0} => stack.keepalive >= Max({Interval, least})
      BY <1>2, <1>4, <2>4
    <2>7. stack.expires # Unset => stack.expires = stack.keepalive /\ stack.options = "off"
      BY <1>2, <1>4, <2>1 DEF OutboundOptions
    <2>8. stack.keepalive > 0 => SyncInterval(stack.keepalive) \in 30..stack.keepalive
      BY <1>2, <1>4, <2>5
    <2> QED
      BY <1>4, <2>6, <2>7, <2>8, Zenon DEF KeepaliveIsSane
  <1>5. CASE ~Specified
    <2>1. Interval = 0
      BY <1>5 DEF Interval
    <2>2. stack.keepalive = Unset /\ stack.expires = Unset
      BY <1>2, <1>5, <2>1
    <2>3. ~(stack.keepalive > 0)
      BY <2>2 DEF Unset
    <2> QED
      BY <1>5, <2>2, <2>3, Zenon DEF KeepaliveIsSane
  <1> QED
    BY <1>3, <1>4, <1>5

LEMMA NoStackIsSane ==
    ASSUME stack = NoStack
    PROVE  KeepaliveIsSane
  BY DEF KeepaliveIsSane, NoStack, Unset

LEMMA ServerFits ==
    ASSUME TypeOK, ServerFollowsQuery
    PROVE  StunServerFits
  <1>1. /\ params.discover \in BOOLEAN
        /\ params.server \in {"none", "address", "name"}
    BY ParamsType DEF TypeOK
  <1>2. CASE params.discover
    BY <1>2 DEF ServerFollowsQuery, StunServerFits, BestPort
  <1>3. CASE ~params.discover
    BY <1>1, <1>3 DEF ServerFollowsQuery, StunServerFits
  <1> QED
    BY <1>1, <1>2, <1>3

(* The variables have their types, the stack is told what the parameters   *)
(* ask for, and the STUN server follows the queries.                       *)
THEOREM DataInvariance == Spec => [](Inv /\ DataInv)
  <1>1. Init => Inv /\ DataInv
    BY InitInv, DataInvInit
  <1>2. Inv /\ DataInv /\ [Next]_vars => (Inv /\ DataInv)'
    BY NextKeeps, DataInvKept
  <1> QED
    BY <1>1, <1>2, PTL DEF Spec

(* Type correctness, whatever the SRV answers: also the port that the dice *)
(* choose is a port (priv_stun_discover_cb).                               *)
THEOREM TypeCorrect == Spec => []TypeOK
  <1>1. Inv /\ DataInv => TypeOK
    BY DEF DataInv
  <1> QED
    BY <1>1, DataInvariance, PTL

(* For every keepalive parameter, what the stack is told agrees with       *)
(* itself, respects the minimum of the mechanism, and has a heartbeat that *)
(* is not slower (priv_sanitize_keepalive_interval,                        *)
(* get_system_sync_interval).                                              *)
THEOREM KeepaliveIsAlwaysSane == Spec => []KeepaliveIsSane
  <1>1. Inv /\ DataInv => KeepaliveIsSane
    BY StackParamsAreSane, NoStackIsSane DEF DataInv, StackIsTold, TypeOK
  <1> QED
    BY <1>1, DataInvariance, PTL

(* Whatever records the DNS answers with, however many, and whatever the   *)
(* dice: the media manager gets address and port of one usable record of   *)
(* the lowest priority, or both of the parameters (priv_stun_discover_cb,  *)
(* priv_stun_resolver_cb).                                                 *)
THEOREM StunServerAlwaysFits == Spec => []StunServerFits
  <1>1. Inv /\ DataInv => StunServerFits
    BY ServerFits DEF DataInv
  <1> QED
    BY <1>1, DataInvariance, PTL

(* The load is spread over the SRV records of the lowest priority as their *)
(* weights say, however many records the DNS answers with and in whatever  *)
(* order, as far as the sum fits into 16 bits (priv_stun_discover_cb).     *)
THEOREM LoadIsAlwaysBalanced == Spec => []LoadIsBalanced
  <1>1. Inv /\ DataInv => LoadIsBalanced
    <2> SUFFICES ASSUME Inv, DataInv PROVE LoadIsBalanced
      OBVIOUS
    <2>1. srv \in SrvAnswers \cup {<<>>}
      BY DEF DataInv, TypeOK
    <2>2. srv \in Seq(SrvRecord)
      <3>1. <<>> \in Seq(SrvRecord)
        OBVIOUS
      <3>2. SrvAnswers \subseteq Seq(SrvRecord)
        BY ConnectionAssumption
      <3> QED
        BY <2>1, <3>1, <3>2, Zenon
    <2> QED
      BY <2>2, SharesFit
  <1> QED
    BY <1>1, DataInvariance, PTL
=============================================================================
