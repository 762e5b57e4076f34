---------------------------- MODULE MCConnection ---------------------------
(***************************************************************************)
(* An instance of Connection.  The SRV answers are an error, a record of   *)
(* its own, two priorities with an unusable record between, and records of *)
(* one priority with and without weight; the last two have sums below and  *)
(* above the modulus of the weights.                                       *)
(***************************************************************************)
EXTENDS Connection

Record(priority, weight, port) ==
    [usable |-> TRUE, priority |-> priority, weight |-> weight, port |-> port]
Bad == [usable |-> FALSE, priority |-> 0, weight |-> 7, port |-> 9]

MCSrvAnswers ==
    {<<>>, <<Bad>>, <<Record(5, 0, 1)>>,
     <<Record(7, 3, 1), Bad, Record(5, 2, 2)>>,
     <<Record(5, 3, 1), Record(5, 0, 2), Record(5, 2, 3), Record(6, 1, 4), Record(5, 0, 5)>>,
     <<Record(5, 4, 1), Record(5, 6, 2)>>}
=============================================================================
