-------------------------------- MODULE MCIp --------------------------------
(* Instances of Ip for TLC.                                                *)
EXTENDS Ip

Datagram(version, short, protocol, key, frags) ==
    [version |-> version, short |-> short, protocol |-> protocol, key |-> key,
     frags |-> frags]
Piece(off, mf, len) == [off |-> off, mf |-> mf, len |-> len]
Single == <<Piece(0, FALSE, 60)>>

\* UDP datagrams of 3000 and of 1500 bytes with an MTU of 1500.
Udp3 == Datagram(4, FALSE, "UDP", 1,
                 <<Piece(0, TRUE, 1480), Piece(185, TRUE, 1480), Piece(370, FALSE, 48)>>)
Udp2 == Datagram(4, FALSE, "UDP", 2, <<Piece(0, TRUE, 1480), Piece(185, FALSE, 28)>>)
\* One whose last fragment's offset, 128, is 0 without the byte swap.
Udp1024 == Datagram(4, FALSE, "UDP", 7, <<Piece(0, TRUE, 1024), Piece(128, FALSE, 28)>>)
\* One whose last fragment goes before the second, for the same reason.
Udp2048 == Datagram(4, FALSE, "UDP", 8,
                    <<Piece(0, TRUE, 1024), Piece(128, TRUE, 1024), Piece(256, FALSE, 28)>>)
\* A later one to which the sender gives the id of Udp2 again.
Again2 == Datagram(4, FALSE, "UDP", 2, <<Piece(0, TRUE, 1480), Piece(185, FALSE, 100)>>)
Segment == Datagram(4, FALSE, "TCP", 3, Single)
Segment2 == Datagram(4, FALSE, "TCP", 4, Single)
Runt == Datagram(4, TRUE, "UDP", 5, Single)
V6 == Datagram(6, FALSE, "TCP", 6, Single)

AllDatagrams == {Udp3, Udp2, Udp1024, Udp2048, Again2, Segment, Segment2, Runt, V6}
Workload(ds, r, t) ==
    [datagrams |-> ds, repeats |-> r, transmits |-> t]

\* Fragments of two datagrams; fragments repeated among whole packets; whole
\* packets with acknowledgements and sends; the ids go round; offsets that are
\* wrong without the byte swap; two datagrams with one key.
AllWorkloads == {Workload({Udp3, Udp2}, 0, 0), Workload({Udp3, Segment, V6}, 1, 0),
                 Workload({Segment, Segment2, Runt}, 0, 2), Workload({Segment}, 2, 4),
                 Workload({Udp1024, Udp2048}, 1, 0), Workload({Udp2, Again2}, 1, 0)}
OneDatagram == {Workload({Udp2}, 0, 0)}

Local == <<10, 0, 0, 2>>
Peer == <<10, 0, 255, 254>>
SomePorts == <<4, 1, 31, 144>>
SomeSeqs == <<255, 255, 255, 255, 0, 1, 2, 3>>
Buffers == {<<255, 255, 255>>}
=============================================================================
