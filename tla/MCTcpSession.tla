---------------------------- MODULE MCTcpSession ---------------------------
(* Instances of TcpSession for TLC.                                        *)
EXTENDS TcpSession

OneOrTwo == {1, 2}
ReliableOnly == {TRUE}
BothNetworks == BOOLEAN
Three == [r \in BOOLEAN |-> 3]
Small == [r \in BOOLEAN |-> 1]
Lower == [r \in BOOLEAN |-> IF r THEN 3 ELSE 1]
More == [r \in BOOLEAN |-> IF r THEN 3 ELSE 2]
=============================================================================
