------------------------------- MODULE MCUdp -------------------------------
(* Instances of Udp for TLC.                                               *)
EXTENDS Udp

\* Peers that differ in address and port: a session caught between the writes
\* of the two has the address of one and the port of the other.
TwoPeers == {<<1, 1>>, <<2, 2>>}
=============================================================================
