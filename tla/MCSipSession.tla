--------------------------- MODULE MCSipSession ----------------------------
(***************************************************************************)
(* Small instances of SipSession for TLC: the m-lines the peer may send    *)
(* and the other constants that are not plain values.                      *)
(***************************************************************************)
EXTENDS SipSessionOfferAnswer

Line(type, codecs, mode) ==
    [type |-> type, rejected |-> FALSE, usable |-> TRUE, mode |-> mode,
     conn |-> "conn1", codecs |-> codecs]
SendRecv == {"sendonly", "recvonly"}

MCZeroPort == [Line("audio", "r1", SendRecv) EXCEPT !.rejected = TRUE]
MCConns == {"conn1"}

OneLine == {Line("audio", "r1", SendRecv)}
AudioVideo == {Line("audio", "r1", SendRecv), Line("video", "r1", SendRecv)}
TwoCodecs == {Line("audio", "r1", SendRecv), Line("audio", "r2", SendRecv)}

(* The peer may hold the call, and may offer what nobody supports.         *)
OddLines == {Line("audio", "r1", SendRecv), Line("audio", "r1", {"sendonly"}),
             Line("other", "r1", SendRecv)}

OneAudio == <<"audio">>
JustBidi == {Bidirectional}
BidiOrSend == {Bidirectional, {"SEND"}}
=============================================================================
