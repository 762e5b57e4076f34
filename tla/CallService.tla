----------------------------- MODULE CallService -----------------------------
(***************************************************************************)
(* What the call side of a connection promises to its client.              *)
(*                                                                         *)
(* The client sees each call go one way: offered, active, ended, given up. *)
(* The other end of the line goes one way too.  Neither waits for the      *)
(* other, but the client cannot give a call up and leave a line behind,    *)
(* and no call is active before its line exists.                           *)
(***************************************************************************)
CONSTANT Calls

VARIABLES
    view,       \* what the client sees of each call
    line        \* the line of each call

vars == <<view, line>>

TypeOK ==
    /\ view \in [Calls -> {"unknown", "offered", "active", "ended", "closed"}]
    /\ line \in [Calls -> {"idle", "ringing", "up", "gone"}]

Init ==
    /\ view = [k \in Calls |-> "unknown"]
    /\ line = [k \in Calls |-> "idle"]

-----------------------------------------------------------------------------
Offered(k) ==
    /\ view[k] = "unknown"
    /\ view' = [view EXCEPT ![k] = "offered"]
    /\ UNCHANGED line

Rings(k) ==
    /\ line[k] = "idle"
    /\ line' = [line EXCEPT ![k] = "ringing"]
    /\ UNCHANGED view

Answered(k) ==
    /\ line[k] = "ringing"
    /\ line' = [line EXCEPT ![k] = "up"]
    /\ UNCHANGED view

(* One side has accepted; the other may not know yet.                      *)
Activated(k) ==
    /\ view[k] = "offered"
    /\ line[k] # "idle"
    /\ view' = [view EXCEPT ![k] = "active"]
    /\ UNCHANGED line

(* The line is gone, and the client may be told in the same moment.        *)
LineLost(k) ==
    /\ line[k] \in {"ringing", "up"}
    /\ line' = [line EXCEPT ![k] = "gone"]
    /\ view' \in {view, [view EXCEPT ![k] = IF @ \in {"offered", "active"} THEN "ended" ELSE @]}

(* The call is over for the client, whoever ended it.                      *)
Ended(k) ==
    /\ view[k] \in {"offered", "active"}
    /\ view' = [view EXCEPT ![k] = "ended"]
    /\ line' = [line EXCEPT ![k] = "gone"]

(* Calls are given up by the client, or all at once by the connection.     *)
GivenUp(K) ==
    /\ \A k \in K : view[k] \in {"offered", "active", "ended"}
    /\ view' = [k \in Calls |-> IF k \in K THEN "closed" ELSE view[k]]
    /\ line' = [k \in Calls |-> IF k \in K THEN "gone" ELSE line[k]]

Next ==
    \/ \E k \in Calls :
        \/ Offered(k)
        \/ Rings(k)
        \/ Answered(k)
        \/ Activated(k)
        \/ LineLost(k)
        \/ Ended(k)
    \/ \E K \in SUBSET Calls : GivenUp(K)

Spec == Init /\ [][Next]_vars
==============================================================================
