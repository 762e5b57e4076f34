---------------------------- MODULE TextService -----------------------------
(***************************************************************************)
(* What the text side of a connection promises to its two users: the       *)
(* client that sends messages and reads the peers' ones, and the peers,    *)
(* whose messages are answered.                                            *)
(*                                                                         *)
(* The fate of a message of the client is decided once: its conversation   *)
(* settles it by what the peer answered, or ends before the answer.  A     *)
(* message of a peer that was accepted stays unread, in a conversation the *)
(* client knows, until the client releases it: reads it or gives up the    *)
(* conversation, or until the connection is over.                          *)
(***************************************************************************)
CONSTANTS Contacts, Sends, Incoming

VARIABLES
    talking,    \* the contacts with an open conversation
    out,        \* the fate of each message of the client
    in,         \* the fate of each message of a peer
    with        \* the contact of each message, once it has one

vars == <<talking, out, in, with>>

Nobody == "nobody"

TypeOK ==
    /\ talking \subseteq Contacts
    /\ out \in [Sends -> {"idle", "pending", "delivered", "failed", "lost"}]
    /\ in \in [Incoming -> {"waiting", "refused", "unread", "released"}]
    /\ with \in [Sends \cup Incoming -> Contacts \cup {Nobody}]

Init ==
    /\ talking = {}
    /\ out = [m \in Sends |-> "idle"]
    /\ in = [i \in Incoming |-> "waiting"]
    /\ with = [x \in Sends \cup Incoming |-> Nobody]

-----------------------------------------------------------------------------
Talk(c) ==
    /\ talking' = talking \cup {c}
    /\ UNCHANGED <<out, in, with>>

Send(m, c) ==
    /\ out[m] = "idle"
    /\ c \in talking
    /\ out' = [out EXCEPT ![m] = "pending"]
    /\ with' = [with EXCEPT ![m] = c]
    /\ UNCHANGED <<talking, in>>

(* The peer's answer decides.                                              *)
Settle(m) ==
    /\ out[m] = "pending"
    /\ \E fate \in {"delivered", "failed"} : out' = [out EXCEPT ![m] = fate]
    /\ UNCHANGED <<talking, in, with>>

Receive(i, c) ==
    /\ in[i] = "waiting"
    /\ \/ /\ in' = [in EXCEPT ![i] = "unread"]
          /\ with' = [with EXCEPT ![i] = c]
          /\ talking' = talking \cup {c}
       \/ /\ in' = [in EXCEPT ![i] = "refused"]
          /\ UNCHANGED <<with, talking>>
    /\ UNCHANGED out

Read(i) ==
    /\ in[i] = "unread"
    /\ in' = [in EXCEPT ![i] = "released"]
    /\ UNCHANGED <<talking, out, with>>

-----------------------------------------------------------------------------
(* What is left of the conversations with the contacts C when they end.    *)
Forget(C) ==
    /\ talking' = talking \ C
    /\ out' = [m \in Sends |->
                IF out[m] = "pending" /\ with[m] \in C THEN "lost" ELSE out[m]]
    /\ in' = [i \in Incoming |->
                IF in[i] = "unread" /\ with[i] \in C THEN "released" ELSE in[i]]
    /\ UNCHANGED with

(* The end of a conversation gives up what is unread in it.               *)
End(c) == Forget({c})

Shutdown == Forget(Contacts)

Next ==
    \/ \E c \in Contacts : Talk(c) \/ End(c)
    \/ \E m \in Sends : Settle(m) \/ \E c \in Contacts : Send(m, c)
    \/ \E i \in Incoming : Read(i) \/ \E c \in Contacts : Receive(i, c)
    \/ Shutdown

Spec == Init /\ [][Next]_vars
=============================================================================
