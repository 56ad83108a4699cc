------------------------------- MODULE MCXop -------------------------------
(* A cluster of one master and one slave that may be behind or ahead.        *)
EXTENDS Xop
CONSTANTS x1, x2
MCNodes == 1..2
C(k, t, e) == [key |-> k, tid |-> t, err |-> e]
MCAnswers == {<< <<C(1,2,"0"), C(2,1,"0")>>, <<C(1,1,"0")>> >>,
              << <<C(2,1,"0")>>, <<C(1,1,"0")>> >>,
              << <<C(1,2,"EIO")>>, <<C(1,2,"0"), C(2,1,"0")>> >>,
              << <<>>, <<>> >>}
MCXopKinds == [x \in Xops |-> IF x = x1 THEN Kinds ELSE {"write"}]
MCLong == {<< <<C(1,1,"0"), C(2,1,"0"), C(3,1,"0")>> >>}
=============================================================================
