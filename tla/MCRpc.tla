------------------------------- MODULE MCRpc -------------------------------
(* Instances of Rpc for TLC.                                               *)
EXTENDS Rpc, TLC

CONSTANTS t1, t2

OneThread == {t1}
TwoThreads == {t1, t2}
JustT1 == {{t1}}
Both == {{t1, t2}}
OneOrBoth == {{t1}, {t1, t2}}
AllCalls == [t \in {t1} |-> Calls \ {"socket"}]

EveryThreadCalls == [t \in {t1, t2} |-> Calls \ {"socket"}]

\* tests/interceptor.pthread-test.c: "one sends, one receives".
SenderAndReceiver ==
    (t1 :> {"connect", "sendto"}) @@ (t2 :> {"recvfrom"})

Tcp == {"tcp"}
Udp == {"udp"}
BothTypes == {"tcp", "udp"}
Blocking == {FALSE}
NonblockingMode == {TRUE}
BothModes == BOOLEAN
=============================================================================
