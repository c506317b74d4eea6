----------------------------- MODULE TcpProofs ------------------------------
(***************************************************************************)
(* Proofs about the sequence numbers of module TcpSession, for both kinds  *)
(* of network, any lengths, any initial sequence number of the peer and    *)
(* any bounds.                                                             *)
(*                                                                         *)
(* AcksOnlySent and SendSideIsSound are not inductive: they                *)
(* need what the segments in flight may say (OutInv and InInv), which      *)
(* depends on how far the handshake has come (Handshake).                  *)
(***************************************************************************)
EXTENDS TcpSession, SequenceTheorems, TLAPS

Message == [flags : Flags, seq : Nat, ack : Nat, len : Nat]

NetType(net) == IF reliable THEN net \in Seq(Message) ELSE net \in SUBSET Message

Msgs(net) == IF reliable THEN {net[i] : i \in 1..Len(net)} ELSE net

Types ==
    /\ reliable \in BOOLEAN
    /\ conn_state \in {"CLOSED", "SYN_SENT", "ESTABLISHED"}
    /\ send_unack \in Nat /\ send_next \in Nat /\ recv_next \in Nat
    /\ tx \in Message
    /\ NetType(out) /\ NetType(in)
    /\ peer \in {"LISTEN", "SYN_RCVD", "ESTABLISHED", "REFUSED"}
    /\ peer_next \in Nat /\ peer_sent \in Nat /\ peer_unack \in Nat

Connected == peer \in {"SYN_RCVD", "ESTABLISHED"}

Handshake ==
    /\ conn_state = "CLOSED" =>
          /\ tx = NoSegment /\ Msgs(out) = {} /\ peer = "LISTEN"
          /\ recv_next = 0 /\ peer_next = 0
    /\ conn_state # "CLOSED" => send_next >= 2
    /\ conn_state = "SYN_SENT" => send_unack = 1 /\ recv_next = 0 /\ peer # "ESTABLISHED"
    /\ conn_state = "ESTABLISHED" => send_unack <= send_next /\ peer # "LISTEN"
    /\ peer = "LISTEN" => Msgs(in) = {}
    /\ Connected => 2 <= peer_next /\ PeerISS < peer_sent
    /\ peer_next <= send_next
    /\ Connected => recv_next <= peer_sent
    /\ conn_state = "ESTABLISHED" /\ Connected => send_unack <= peer_next

\* A segment of the session's, built or in the network.
OutInv(m) ==
    /\ m.flags \in {"SYN", "ACK"}
    /\ m.flags = "SYN" => m.seq = 1 /\ m.ack = 0
    /\ m.flags = "ACK" =>
          /\ conn_state = "ESTABLISHED"
          /\ m.seq + m.len <= send_next
          /\ Connected => m.ack <= peer_sent

\* A segment of the peer's in the network.
InInv(m) ==
    /\ m.flags = "SYNACK" => m.seq = PeerISS
    /\ m.flags \in {"SYNACK", "RST"} => m.len = 0
    /\ conn_state = "SYN_SENT" => m.flags \in {"SYNACK", "RST"}
    /\ m.flags = "RST" => peer = "REFUSED"
    /\ Connected => m.seq + m.len <= peer_sent /\ m.ack <= peer_next
    /\ peer = "REFUSED" => m.ack <= 2

IInv ==
    /\ Types
    /\ Handshake
    /\ \A m \in Msgs(out) : OutInv(m)
    /\ tx # NoSegment => OutInv(tx)
    /\ \A m \in Msgs(in) : InInv(m)
-----------------------------------------------------------------------------
(* The network: what is put in or received changes the segments in flight  *)
(* by at most that one.                                                    *)

LEMMA PutMsgs ==
    ASSUME NEW net, NetType(net), NEW m \in Message
    PROVE  NetType(Put(net, m)) /\ Msgs(Put(net, m)) \subseteq Msgs(net) \cup {m}
<1> DEFINE M == Message
<1>0. m \in M
      OBVIOUS
<1>1. CASE reliable
      <2>1. net \in Seq(M) /\ Put(net, m) = Append(net, m)
            BY <1>1 DEF NetType, Put
      <2> HIDE DEF M
      <2>2. Append(net, m) \in Seq(M) /\ Len(Append(net, m)) = Len(net) + 1 /\ Len(net) \in Nat
            BY <1>0, <2>1
      <2>3. \A i \in 1..(Len(net) + 1) :
                Append(net, m)[i] = IF i <= Len(net) THEN net[i] ELSE m
            BY <1>0, <2>1
      <2>4. ASSUME NEW x \in Msgs(Put(net, m)) PROVE x \in Msgs(net) \cup {m}
            <3>1. PICK i \in 1..(Len(net) + 1) : x = Append(net, m)[i]
                  BY <1>1, <2>1, <2>2, <2>4 DEF Msgs
            <3>2. CASE i <= Len(net)
                  <4>1. i \in 1..Len(net) /\ x = net[i]
                        BY <2>2, <2>3, <3>1, <3>2
                  <4>2. QED BY <1>1, <4>1 DEF Msgs
            <3>3. CASE ~(i <= Len(net))
                  BY <2>3, <3>1, <3>3
            <3>4. QED BY <3>2, <3>3
      <2>5. QED BY <1>1, <2>1, <2>2, <2>4 DEF NetType, M
<1>2. CASE ~reliable
      BY <1>2 DEF NetType, Put, Msgs
<1>3. QED BY <1>1, <1>2

LEMMA RestMsgs ==
    ASSUME NEW net, NetType(net), NEW m \in Ready(net)
    PROVE  /\ m \in Msgs(net) /\ m \in Message
           /\ NetType(Rest(net)) /\ Msgs(Rest(net)) \subseteq Msgs(net)
<1> DEFINE M == Message
<1>1. CASE reliable
      <2>1. net \in Seq(M) /\ net # <<>> /\ m = Head(net) /\ Rest(net) = Tail(net)
            BY <1>1 DEF NetType, Ready, Rest
      <2> HIDE DEF M
      <2>2. /\ Len(net) \in Nat /\ Len(net) >= 1 /\ m = net[1] /\ m \in M
            /\ Tail(net) \in Seq(M) /\ Len(Tail(net)) = Len(net) - 1
            BY <2>1
      <2>3. \A i \in 1..(Len(net) - 1) : Tail(net)[i] = net[i + 1]
            BY <2>1
      <2>4. m \in Msgs(net)
            <3>1. 1 \in 1..Len(net)
                  BY <2>2
            <3>2. QED BY <1>1, <2>2, <3>1 DEF Msgs
      <2>5. ASSUME NEW x \in Msgs(Rest(net)) PROVE x \in Msgs(net)
            <3>1. PICK i \in 1..(Len(net) - 1) : x = Tail(net)[i]
                  BY <1>1, <2>1, <2>2, <2>5 DEF Msgs
            <3>2. i + 1 \in 1..Len(net) /\ x = net[i + 1]
                  BY <2>2, <2>3, <3>1
            <3>3. QED BY <1>1, <3>2 DEF Msgs
      <2>6. QED BY <1>1, <2>1, <2>2, <2>4, <2>5 DEF NetType, M
<1>2. CASE ~reliable
      BY <1>2 DEF NetType, Ready, Rest, Msgs
<1>3. QED BY <1>1, <1>2

LEMMA NothingMsgs == NetType(Nothing) /\ Msgs(Nothing) = {}
<1> DEFINE M == Message
<1>1. CASE reliable
      <2> HIDE DEF M
      <2>1. <<>> \in Seq(M) /\ Len(<<>>) = 0
            OBVIOUS
      <2>2. \A i \in 1..0 : FALSE
            OBVIOUS
      <2>3. QED BY <1>1, <2>1, <2>2 DEF NetType, Nothing, Msgs, M
<1>2. CASE ~reliable
      BY <1>2 DEF NetType, Nothing, Msgs
<1>3. QED BY <1>1, <1>2

LEMMA NetsAfter ==
    ASSUME reliable' = reliable
    PROVE  /\ NetType(out)' <=> NetType(out')
           /\ NetType(in)' <=> NetType(in')
           /\ Msgs(out)' = Msgs(out')
           /\ Msgs(in)' = Msgs(in')
BY DEF NetType, Msgs

LEMMA SegmentType ==
    ASSUME NEW f \in Flags, NEW a \in Nat, NEW b \in Nat, NEW n \in Nat
    PROVE  /\ Segment(f, a, b, n) \in Message
           /\ Segment(f, a, b, n).flags = f /\ Segment(f, a, b, n).seq = a
           /\ Segment(f, a, b, n).ack = b /\ Segment(f, a, b, n).len = n
BY DEF Segment, Message

LEMMA MessageType ==
    ASSUME NEW m \in Message
    PROVE  m.flags \in Flags /\ m.seq \in Nat /\ m.ack \in Nat /\ m.len \in Nat
BY DEF Message
-----------------------------------------------------------------------------
(* The steps.                                                              *)

LEMMA SendStep ==
    ASSUME IInv, NEW n \in Nat, tx = NoSegment, SendCase(n),
           UNCHANGED <<reliable, recv_next, out, in, peer, peer_next, peer_sent, peer_unack>>
    PROVE  IInv'
<1>1. /\ NetType(out)' /\ NetType(in)' /\ Msgs(out)' = Msgs(out) /\ Msgs(in)' = Msgs(in)
      BY NetsAfter DEF IInv, Types
<1> USE DEF iss
<1>2. CASE conn_state = "CLOSED"
      <2>1. /\ send_unack' = 1 /\ send_next' = 2 /\ tx' = Segment("SYN", 1, 0, n)
            /\ conn_state' = "SYN_SENT"
            BY <1>2 DEF SendCase
      <2>2. tx' \in Message /\ tx'.flags = "SYN" /\ tx'.seq = 1 /\ tx'.ack = 0
            BY <2>1, SegmentType DEF Flags
      <2>3. Types'
            BY <1>1, <2>1, <2>2 DEF IInv, Types
      <2>4. Handshake'
            BY <1>1, <1>2, <2>1 DEF IInv, Types, Handshake, Connected
      <2>5. Msgs(out)' = {} /\ Msgs(in)' = {}
            BY <1>1, <1>2 DEF IInv, Handshake
      <2>6. OutInv(tx)'
            BY <2>2 DEF OutInv
      <2>7. QED BY <2>3, <2>4, <2>5, <2>6 DEF IInv
<1>3. CASE conn_state = "ESTABLISHED"
      <2>1. /\ tx' = Segment("ACK", send_next, recv_next, n) /\ send_next' = send_next + n
            /\ conn_state' = conn_state /\ send_unack' = send_unack
            BY <1>3 DEF SendCase
      <2>2. /\ tx' \in Message /\ tx'.flags = "ACK" /\ tx'.seq = send_next
            /\ tx'.ack = recv_next /\ tx'.len = n
            BY <2>1, SegmentType DEF Flags, IInv, Types
      <2>3. Types'
            BY <1>1, <2>1, <2>2 DEF IInv, Types
      <2>4. Handshake'
            BY <1>1, <1>3, <2>1 DEF IInv, Types, Handshake, Connected
      <2>5. OutInv(tx)'
            BY <1>3, <2>1, <2>2 DEF IInv, Types, Handshake, OutInv, Connected
      <2>6. ASSUME NEW m \in Msgs(out)' PROVE OutInv(m)'
            <3>1. OutInv(m) /\ m.seq \in Nat /\ m.len \in Nat
                  BY <1>1, <2>6, MessageType DEF IInv, Types, NetType, Msgs
            <3>2. QED BY <1>3, <2>1, <3>1 DEF IInv, Types, OutInv, Connected
      <2>7. ASSUME NEW m \in Msgs(in)' PROVE InInv(m)'
            BY <1>1, <1>3, <2>1, <2>7 DEF IInv, InInv, Connected
      <2>8. QED BY <2>3, <2>4, <2>5, <2>6, <2>7 DEF IInv
<1>4. CASE conn_state = "SYN_SENT"
      <2>1. UNCHANGED <<conn_state, send_unack, send_next, tx>>
            BY <1>4 DEF SendCase
      <2>2. Types' /\ Handshake'
            BY <1>1, <2>1 DEF IInv, Types, Handshake, Connected
      <2>3. QED BY <1>1, <2>1, <2>2 DEF IInv, OutInv, InInv, Connected
<1>5. QED BY <1>2, <1>3, <1>4 DEF IInv, Types

LEMMA TxStep ==
    ASSUME IInv, Tx
    PROVE  IInv'
<1>1. /\ UNCHANGED <<reliable, conn_state, send_unack, send_next, recv_next, in, peer,
                     peer_next, peer_sent, peer_unack>>
      /\ tx # NoSegment /\ tx' = NoSegment
      /\ out' = Put(out, tx) \/ out' = out
      BY DEF Tx, session, peerVars
<1>2. OutInv(tx) /\ tx \in Message
      BY <1>1 DEF IInv, Types
<1>3. NoSegment \in Message
      BY SegmentType DEF NoSegment, Flags
<1>4. /\ NetType(out)' /\ NetType(in)'
      /\ Msgs(out)' \subseteq Msgs(out) \cup {tx} /\ Msgs(in)' = Msgs(in)
      BY <1>1, <1>2, NetsAfter, PutMsgs DEF IInv, Types
<1>5. Types'
      BY <1>1, <1>3, <1>4 DEF IInv, Types
<1>6. conn_state # "CLOSED"
      BY <1>1 DEF IInv, Handshake
<1>7. Handshake'
      BY <1>1, <1>4, <1>6 DEF IInv, Handshake, Connected
<1>8. ASSUME NEW m \in Msgs(out)' PROVE OutInv(m)'
      BY <1>1, <1>2, <1>4, <1>8 DEF IInv, OutInv, Connected
<1>9. ASSUME NEW m \in Msgs(in)' PROVE InInv(m)'
      BY <1>1, <1>4, <1>9 DEF IInv, InInv, Connected
<1>10. QED BY <1>1, <1>5, <1>7, <1>8, <1>9 DEF IInv

\* The segments in flight have the type of messages.
LEMMA InFlight ==
    ASSUME Types
    PROVE  /\ \A m \in Msgs(out) : m \in Message
           /\ \A m \in Msgs(in) : m \in Message
<1> DEFINE M == Message
<1>1. CASE reliable
      <2>1. out \in Seq(M) /\ in \in Seq(M)
            BY <1>1 DEF Types, NetType
      <2> HIDE DEF M
      <2>2. /\ \A i \in 1..Len(out) : out[i] \in M
            /\ \A i \in 1..Len(in) : in[i] \in M
            BY <2>1
      <2>3. QED BY <1>1, <2>2 DEF Msgs, M
<1>2. CASE ~reliable
      BY <1>2 DEF Types, NetType, Msgs
<1>3. QED BY <1>1, <1>2

LEMMA RecvStep ==
    ASSUME IInv, Recv
    PROVE  IInv'
<1>1. PICK m \in Ready(in) :
          /\ in' = Rest(in)
          /\ RecvInSynSent(m) \/ RecvAck(m) \/ RecvData(m)
          /\ UNCHANGED <<reliable, tx, peer, peer_next, peer_sent, peer_unack>>
      BY DEF Recv, peerVars
<1>2. /\ m \in Msgs(in) /\ m \in Message
      /\ NetType(in') /\ Msgs(in') \subseteq Msgs(in)
      BY <1>1, RestMsgs DEF IInv, Types
<1>3. /\ InInv(m) /\ m.flags \in Flags /\ m.seq \in Nat /\ m.ack \in Nat /\ m.len \in Nat
      /\ peer # "LISTEN" /\ conn_state' = "ESTABLISHED" /\ send_next' = send_next
      <2>1. InInv(m) /\ m.flags \in Flags /\ m.seq \in Nat /\ m.ack \in Nat /\ m.len \in Nat
            BY <1>2, MessageType DEF IInv
      <2>2. peer # "LISTEN"
            BY <1>2 DEF IInv, Handshake
      <2>3. conn_state' = "ESTABLISHED" /\ send_next' = send_next
            BY <1>1 DEF RecvInSynSent, RecvAck, RecvData
      <2>4. QED BY <2>1, <2>2, <2>3
\* What each case leaves in the sequence numbers.
<1>4. /\ recv_next' \in Nat /\ send_unack' \in Nat /\ send_unack' <= send_next
      /\ Connected => recv_next' <= peer_sent /\ send_unack' <= peer_next
      <2>1. CASE RecvInSynSent(m)
            <3>1. recv_next' = m.seq + 1 /\ send_unack' = 2 /\ 2 <= send_next
                  BY <2>1 DEF RecvInSynSent, IInv, Handshake
            <3>2. Connected => m.seq = PeerISS
                  BY <1>3, <2>1 DEF RecvInSynSent, InInv, Connected
            <3>3. QED BY <1>3, <3>1, <3>2, TcpAssumption DEF IInv, Types, Handshake
      <2>2. ASSUME conn_state = "ESTABLISHED", send_unack' = NewUnack(m)
            PROVE  /\ send_unack' \in Nat /\ send_unack' <= send_next
                   /\ Connected => send_unack' <= peer_next
            <3>1. /\ send_unack \in Nat /\ send_unack <= send_next /\ send_next \in Nat
                  /\ send_next >= 2 /\ peer_next <= send_next /\ peer_next \in Nat
                  /\ Connected => send_unack <= peer_next
                  BY <2>2 DEF IInv, Types, Handshake
            <3>2. m.ack <= send_next /\ (Connected => m.ack <= peer_next)
                  BY <1>3, <3>1 DEF InInv, Connected, IInv, Types
            <3>3. QED BY <1>3, <2>2, <3>1, <3>2 DEF NewUnack
      <2>3. CASE RecvAck(m)
            <3>1. recv_next' = recv_next
                  BY <2>3 DEF RecvAck
            <3>2. QED BY <2>2, <2>3, <3>1 DEF RecvAck, IInv, Types, Handshake
      <2>4. CASE RecvData(m)
            <3>1. recv_next' = m.seq + m.len
                  BY <2>4 DEF RecvData
            <3>2. QED BY <1>3, <2>2, <2>4, <3>1 DEF RecvData, InInv
      <2>5. QED BY <1>1, <2>1, <2>3, <2>4
<1>5. PICK a \in Message :
          /\ a = Segment("ACK", send_next, recv_next', 0)
          /\ a.flags = "ACK" /\ a.seq = send_next /\ a.len = 0 /\ a.ack = recv_next'
      BY <1>4, SegmentType DEF IInv, Types, Flags
<1>6. out' = out \/ out' = Put(out, a)
      BY <1>1, <1>5 DEF RecvInSynSent, RecvAck, RecvData, Ack2peer
<1>7. NetType(out') /\ Msgs(out') \subseteq Msgs(out) \cup {a}
      BY <1>5, <1>6, PutMsgs DEF IInv, Types
<1>8. /\ NetType(out)' /\ NetType(in)'
      /\ Msgs(out)' \subseteq Msgs(out) \cup {a} /\ Msgs(in)' \subseteq Msgs(in)
      BY <1>1, <1>2, <1>7, NetsAfter
<1>9. Types'
      BY <1>1, <1>3, <1>4, <1>8 DEF IInv, Types
<1>10. conn_state # "CLOSED"
      BY <1>1 DEF RecvInSynSent, RecvAck, RecvData
<1>11. Handshake'
      BY <1>1, <1>3, <1>4, <1>8, <1>10 DEF IInv, Types, Handshake, Connected
<1>12. ASSUME NEW x, OutInv(x) PROVE OutInv(x)'
      BY <1>1, <1>3, <1>12 DEF OutInv, Connected
<1>13. OutInv(a)'
      BY <1>1, <1>3, <1>4, <1>5 DEF OutInv, Connected, IInv, Types
<1>14. \A x \in Msgs(out)' : OutInv(x)'
      BY <1>8, <1>12, <1>13 DEF IInv
<1>15. tx' # NoSegment => OutInv(tx)'
      BY <1>1, <1>3 DEF IInv, OutInv, Connected
<1>16. ASSUME NEW x \in Msgs(in)' PROVE InInv(x)'
      BY <1>1, <1>3, <1>8, <1>16 DEF IInv, InInv, Connected
<1>17. QED BY <1>9, <1>11, <1>14, <1>15, <1>16 DEF IInv

\* A step of the peer's that puts at most one segment a into the network and
\* only ever moves on.
LEMMA PeerPuts ==
    ASSUME IInv, NEW a \in Message,
           UNCHANGED <<reliable, conn_state, send_unack, send_next, recv_next, tx>>,
           NetType(out'), Msgs(out') \subseteq Msgs(out),
           in' = in \/ in' = Put(in, a),
           peer # "LISTEN", Connected' <=> Connected, peer' = "REFUSED" <=> peer = "REFUSED",
           peer' \in {"SYN_RCVD", "ESTABLISHED", "REFUSED"},
           peer' = "ESTABLISHED" => conn_state = "ESTABLISHED",
           peer_next' \in Nat, peer_sent' \in Nat, peer_unack' \in Nat,
           peer_next <= peer_next', peer_next' <= send_next, peer_sent <= peer_sent',
           InInv(a)'
    PROVE  IInv'
<1>1. NetType(in') /\ Msgs(in') \subseteq Msgs(in) \cup {a}
      BY PutMsgs DEF IInv, Types
<1>2. /\ NetType(out)' /\ NetType(in)'
      /\ Msgs(out)' \subseteq Msgs(out) /\ Msgs(in)' \subseteq Msgs(in) \cup {a}
      BY <1>1, NetsAfter
<1>3. Types'
      BY <1>2 DEF IInv, Types
<1>4. conn_state # "CLOSED"
      BY DEF IInv, Handshake
<1>5. Handshake'
      BY <1>2, <1>4, TcpAssumption DEF IInv, Types, Handshake, Connected
<1>6. /\ \A m \in Msgs(out) : m.seq \in Nat /\ m.ack \in Nat /\ m.len \in Nat
      /\ \A m \in Msgs(in) : m.seq \in Nat /\ m.ack \in Nat /\ m.len \in Nat
      /\ tx.seq \in Nat /\ tx.ack \in Nat /\ tx.len \in Nat
      BY InFlight, MessageType DEF IInv, Types
<1>7. ASSUME NEW m, m.ack \in Nat, OutInv(m) PROVE OutInv(m)'
      BY <1>7 DEF OutInv, Connected, IInv, Types
<1>8. ASSUME NEW m \in Msgs(in) PROVE InInv(m)'
      <2>1. InInv(m) /\ m.seq \in Nat /\ m.ack \in Nat /\ m.len \in Nat
            BY <1>6 DEF IInv
      <2>2. QED BY <2>1 DEF InInv, IInv, Types
<1>9. \A m \in Msgs(out)' : OutInv(m)'
      BY <1>2, <1>6, <1>7 DEF IInv
<1>10. \A m \in Msgs(in)' : InInv(m)'
      BY <1>2, <1>8
<1>11. tx' # NoSegment => OutInv(tx)'
      <2>1. CASE tx = NoSegment
            BY <2>1
      <2>2. CASE tx # NoSegment
            BY <1>6, <2>2 DEF OutInv, Connected, IInv, Types
      <2>3. QED BY <2>1, <2>2
<1>12. QED BY <1>3, <1>5, <1>9, <1>10, <1>11 DEF IInv

LEMMA PeerSendStep ==
    ASSUME IInv, PeerRetransmit \/ PeerFin \/ \E n \in SegLens : PeerSend(n)
    PROVE  IInv'
<1>1. /\ UNCHANGED <<reliable, conn_state, send_unack, send_next, recv_next, tx, out, peer,
                     peer_next, peer_unack>>
      /\ peer = "ESTABLISHED"
      BY DEF PeerRetransmit, PeerFin, PeerSend, session, peerVars
<1>2. PICK a \in Message :
          /\ in' = Put(in, a) /\ a.flags \in {"ACK", "FIN"} /\ a.ack = peer_next
          /\ a.seq + a.len <= peer_sent' /\ peer_sent' \in Nat /\ peer_sent <= peer_sent'
      <2>1. peer_next \in Nat /\ peer_sent \in Nat /\ peer_unack \in Nat
            BY DEF IInv, Types
      <2>2. ASSUME NEW f \in {"ACK", "FIN"}, NEW q \in Nat, NEW n \in Nat,
                   in' = Put(in, Segment(f, q, peer_next, n)),
                   q + n <= peer_sent', peer_sent' \in Nat, peer_sent <= peer_sent'
            PROVE  \E a \in Message :
                      /\ in' = Put(in, a) /\ a.flags \in {"ACK", "FIN"} /\ a.ack = peer_next
                      /\ a.seq + a.len <= peer_sent' /\ peer_sent' \in Nat
                      /\ peer_sent <= peer_sent'
            <3> DEFINE a == Segment(f, q, peer_next, n)
            <3>1. a \in Message /\ a.flags = f /\ a.seq = q /\ a.ack = peer_next /\ a.len = n
                  BY <2>1, SegmentType DEF Flags
            <3>2. in' = Put(in, a)
                  BY <2>2
            <3> HIDE DEF a
            <3>3. QED BY <2>2, <3>1, <3>2
      <2>3. CASE PeerRetransmit
            <3>1. /\ in' = Put(in, Segment("ACK", peer_unack, peer_next, peer_sent - peer_unack))
                  /\ peer_sent' = peer_sent /\ peer_sent - peer_unack \in Nat
                  BY <2>1, <2>3 DEF PeerRetransmit, peerVars
            <3>2. peer_unack + (peer_sent - peer_unack) <= peer_sent'
                  BY <2>1, <3>1
            <3>3. QED BY <2>1, <2>2, <3>1, <3>2
      <2>4. CASE PeerFin
            <3>1. in' = Put(in, Segment("FIN", peer_sent, peer_next, 0)) /\ peer_sent' = peer_sent
                  BY <2>4 DEF PeerFin
            <3>2. QED BY <2>1, <2>2, <3>1
      <2>5. CASE \E n \in SegLens : PeerSend(n)
            <3>1. PICK n \in SegLens : PeerSend(n)
                  BY <2>5
            <3>2. /\ in' = Put(in, Segment("ACK", peer_sent, peer_next, n))
                  /\ peer_sent' = peer_sent + n /\ n \in Nat
                  BY <3>1, TcpAssumption DEF PeerSend
            <3>3. QED BY <2>1, <2>2, <3>2
      <2>6. QED BY <2>3, <2>4, <2>5
<1>3. conn_state = "ESTABLISHED" /\ peer_next <= send_next
      BY <1>1 DEF IInv, Types, Handshake
<1>4. InInv(a)'
      BY <1>1, <1>2, <1>3 DEF InInv, Connected, IInv, Types
<1>5. NetType(out') /\ Msgs(out') \subseteq Msgs(out)
      BY <1>1 DEF IInv, Types
<1>6. QED BY <1>1, <1>2, <1>3, <1>4, <1>5, PeerPuts DEF Connected, IInv, Types

LEMMA PeerRecvStep ==
    ASSUME IInv, PeerRecv
    PROVE  IInv'
<1>1. PICK m \in Ready(out) :
          /\ out' = Rest(out)
          /\ PeerRecvSyn(m) \/ PeerRecvAck(m) \/ PeerIgnores(m)
          /\ UNCHANGED <<reliable, conn_state, send_unack, send_next, recv_next, tx>>
      BY DEF PeerRecv, session
<1>2. /\ m \in Msgs(out) /\ m \in Message
      /\ NetType(out') /\ Msgs(out') \subseteq Msgs(out)
      BY <1>1, RestMsgs DEF IInv, Types
<1>3. OutInv(m) /\ m.seq \in Nat /\ m.ack \in Nat /\ m.len \in Nat
      BY <1>2, MessageType DEF IInv
<1>4. conn_state \in {"SYN_SENT", "ESTABLISHED"} /\ send_next >= 2
      BY <1>2 DEF IInv, Types, Handshake
\* Only the peer's first answer changes what it is: nothing of its own is in
\* the network yet, and no data can have been acknowledged.
<1>5. ASSUME peer = "LISTEN", NEW a \in Message, in' = Put(in, a), InInv(a)',
             peer' \in {"SYN_RCVD", "REFUSED"}, peer_unack' = peer_unack,
             \/ peer' = "SYN_RCVD" /\ peer_next' = 2 /\ peer_sent' = PeerISS + 1
             \/ peer' = "REFUSED" /\ UNCHANGED <<peer_next, peer_sent>>
      PROVE  IInv'
      <2>1. Msgs(in) = {} /\ conn_state = "SYN_SENT" /\ recv_next = 0
            BY <1>4, <1>5 DEF IInv, Handshake
      <2>2. NetType(in') /\ Msgs(in') \subseteq {a}
            BY <1>5, <2>1, PutMsgs DEF IInv, Types
      <2>3. /\ NetType(out)' /\ NetType(in)'
            /\ Msgs(out)' \subseteq Msgs(out) /\ Msgs(in)' \subseteq {a}
            BY <1>1, <1>2, <2>2, NetsAfter
      <2>4. Types'
            BY <1>1, <1>5, <2>3, TcpAssumption DEF IInv, Types
      <2>5. Handshake'
            BY <1>1, <1>4, <1>5, <2>1, TcpAssumption DEF IInv, Types, Handshake, Connected
      <2>6. ASSUME NEW x, OutInv(x) PROVE OutInv(x)'
            BY <1>1, <2>1, <2>6 DEF OutInv
      <2>7. \A x \in Msgs(out)' : OutInv(x)'
            BY <2>3, <2>6 DEF IInv
      <2>8. tx' # NoSegment => OutInv(tx)'
            BY <1>1, <2>1 DEF IInv, OutInv
      <2>9. QED BY <1>5, <2>3, <2>4, <2>5, <2>7, <2>8 DEF IInv
<1>6. CASE PeerRecvSyn(m) /\ peer = "LISTEN"
      <2>1. m.seq = 1 /\ conn_state = "SYN_SENT"
            BY <1>3, <1>4, <1>6 DEF PeerRecvSyn, OutInv, IInv, Handshake
      <2>2. CASE peer' = "SYN_RCVD"
            <3> DEFINE a == Segment("SYNACK", PeerISS, 2, 0)
            <3>1. /\ in' = Put(in, a) /\ peer_next' = 2 /\ peer_sent' = PeerISS + 1
                  /\ peer_unack' = peer_unack
                  BY <1>6, <2>1, <2>2 DEF PeerRecvSyn
            <3>2. /\ a \in Message /\ a.flags = "SYNACK" /\ a.seq = PeerISS /\ a.ack = 2
                  /\ a.len = 0
                  <4>1. PeerISS \in Nat /\ 2 \in Nat /\ 0 \in Nat /\ "SYNACK" \in Flags
                        BY TcpAssumption DEF Flags
                  <4>2. QED BY <4>1, SegmentType
            <3> HIDE DEF a
            <3>3. InInv(a)'
                  <4>1. PeerISS + 0 <= PeerISS + 1 /\ 2 <= 2
                        BY TcpAssumption
                  <4>2. QED BY <2>2, <3>1, <3>2, <4>1 DEF InInv, Connected
            <3>4. QED BY <1>5, <1>6, <2>2, <3>1, <3>2, <3>3
      <2>3. CASE peer' = "REFUSED"
            <3> DEFINE a == Segment("RST", 0, 2, 0)
            <3>1. /\ in' = Put(in, a) /\ UNCHANGED <<peer_next, peer_sent, peer_unack>>
                  BY <1>6, <2>1, <2>3 DEF PeerRecvSyn
            <3>2. a \in Message /\ a.flags = "RST" /\ a.seq = 0 /\ a.ack = 2 /\ a.len = 0
                  BY SegmentType DEF Flags
            <3> HIDE DEF a
            <3>3. InInv(a)'
                  BY <2>3, <3>1, <3>2 DEF InInv, Connected
            <3>4. QED BY <1>5, <1>6, <2>3, <3>1, <3>2, <3>3
      <2>4. QED BY <1>6, <2>2, <2>3 DEF PeerRecvSyn
\* Whatever else reaches it leaves it as it is or moves it on.
<1>7. CASE (PeerRecvSyn(m) /\ peer # "LISTEN") \/ (PeerIgnores(m) /\ peer # "LISTEN")
      <2>1. UNCHANGED <<peer, peer_next, peer_sent, peer_unack, in>>
            BY <1>7 DEF PeerRecvSyn, PeerIgnores
      <2>2. NetType(out)' /\ NetType(in)' /\ Msgs(out)' \subseteq Msgs(out) /\ Msgs(in)' = Msgs(in)
            BY <1>1, <1>2, <2>1, NetsAfter DEF IInv, Types
      <2>3. Types' /\ Handshake'
            BY <1>1, <1>4, <2>1, <2>2 DEF IInv, Types, Handshake, Connected
      <2>4. QED BY <1>1, <2>1, <2>2, <2>3 DEF IInv, OutInv, InInv, Connected
<1>8. CASE PeerIgnores(m) /\ peer = "LISTEN"
      BY <1>3, <1>8 DEF PeerIgnores, OutInv, IInv, Handshake
<1>9. CASE PeerRecvAck(m)
      <2>1. /\ conn_state = "ESTABLISHED" /\ Connected /\ peer_sent' = peer_sent
            /\ m.seq + m.len <= send_next
            BY <1>3, <1>9 DEF PeerRecvAck, OutInv, Connected
      <2>2. /\ peer' \in {"SYN_RCVD", "ESTABLISHED"} /\ peer_unack' \in Nat
            /\ peer # "LISTEN" /\ peer # "REFUSED"
            BY <1>3, <1>9 DEF PeerRecvAck, IInv, Types
      <2>3. peer_next' \in Nat /\ peer_next <= peer_next' /\ peer_next' <= send_next
            BY <1>3, <1>9, <2>1 DEF PeerRecvAck, IInv, Types, Handshake
      <2>4. PICK a \in Message :
                /\ a = Segment("ACK", peer_sent, peer_next', 0)
                /\ a.flags = "ACK" /\ a.seq = peer_sent /\ a.ack = peer_next' /\ a.len = 0
            BY <2>3, SegmentType DEF IInv, Types, Flags
      <2>5. in' = in \/ in' = Put(in, a)
            BY <1>9, <2>4 DEF PeerRecvAck
      <2>6. InInv(a)'
            BY <1>1, <2>1, <2>2, <2>3, <2>4 DEF InInv, Connected, IInv, Types
      <2>7. QED BY <1>1, <1>2, <2>1, <2>2, <2>3, <2>5, <2>6, PeerPuts DEF Connected, IInv, Types
<1>10. QED BY <1>1, <1>6, <1>7, <1>8, <1>9
-----------------------------------------------------------------------------
(* The byte stream.  On a network that keeps order the segments in it      *)
(* follow one another from recv_next to peer_sent.                         *)

\* The first segment of q begins at a, each begins where the one before it
\* ends, and the last ends at b.
Chain(q, a, b) ==
    IF q = <<>> THEN a = b
    ELSE /\ q[1].seq = a
         /\ q[Len(q)].seq + q[Len(q)].len = b
         /\ \A i \in 1..(Len(q) - 1) : q[i].seq + q[i].len = q[i + 1].seq

\* What was queued (g) and what was dropped (f) are the bytes from a up to b.
Accounted(g, f, a, b) ==
    /\ {g[i] : i \in 1..Len(g)} \cup f = a..(b - 1)
    /\ \A i, j \in 1..Len(g) : i < j => g[i] < g[j]
    /\ \A i \in 1..Len(g) : g[i] \notin f

QueueTypes ==
    /\ named \in BOOLEAN /\ early \in BOOLEAN /\ peer_fin \in BOOLEAN
    /\ irs \in Nat /\ recvQ \in Nat
    /\ got \in Seq(Nat) /\ full \subseteq Nat

Stream ==
    /\ conn_state # "ESTABLISHED" => got = <<>> /\ full = {}
    /\ reliable /\ Connected /\ conn_state # "ESTABLISHED" =>
          /\ peer_sent = PeerISS + 1
          /\ Len(in) = 1 /\ in[1].flags = "SYNACK"
    /\ reliable /\ Connected /\ conn_state = "ESTABLISHED" =>
          /\ PeerISS < recv_next
          /\ Chain(in, recv_next, peer_sent)
          /\ Accounted(got, full, PeerISS + 1, recv_next)

LEMMA ChainPut ==
    ASSUME NEW q \in Seq(Message), NEW a \in Nat, NEW b \in Nat, NEW m \in Message,
           Chain(q, a, b), m.seq = b
    PROVE  Chain(Append(q, m), a, b + m.len)
<1> DEFINE M == Message
<1>1. /\ \A x \in M : x.seq \in Nat /\ x.len \in Nat
      /\ m \in M /\ q \in Seq(M)
      BY MessageType
<1> HIDE DEF M
<1>0. Len(q) = 0 => q = <<>>
      BY <1>1
<1>2. PICK s, n : s = Append(q, m) /\ n = Len(q)
      OBVIOUS
<1>3. /\ n \in Nat /\ Len(s) = n + 1 /\ s # <<>> /\ s[n + 1] = m
      /\ \A i \in 1..n : s[i] = q[i] /\ q[i] \in M
      BY <1>1, <1>2
<1>4. CASE n = 0
      <2>0. q = <<>>
            BY <1>0, <1>2, <1>4, Zenon
      <2>1. a = b
            BY <2>0, Zenon DEF Chain
      <2>2. s[1] = m /\ Len(s) = 1 /\ \A i \in 1..(1 - 1) : FALSE
            BY <1>3, <1>4
      <2>3. QED BY <1>2, <1>3, <2>1, <2>2 DEF Chain
<1>5. CASE n # 0
      <2>1. /\ q # <<>> /\ q[1].seq = a /\ q[n].seq + q[n].len = b
            /\ \A i \in 1..(n - 1) : q[i].seq + q[i].len = q[i + 1].seq
            BY <1>1, <1>2, <1>5 DEF Chain
      <2>2. s[1].seq = a /\ s[n + 1].seq + s[n + 1].len = b + m.len
            BY <1>3, <1>5, <2>1
      <2>3. ASSUME NEW i \in 1..n PROVE s[i].seq + s[i].len = s[i + 1].seq
            <3>1. CASE i = n
                  BY <1>3, <2>1, <3>1
            <3>2. CASE i # n
                  <4>1. i \in 1..(n - 1) /\ i + 1 \in 1..n
                        BY <1>3, <3>2
                  <4>2. QED BY <1>3, <2>1, <4>1
            <3>3. QED BY <3>1, <3>2
      <2>4. (n + 1) - 1 = n
            BY <1>3
      <2>5. QED BY <1>2, <1>3, <2>2, <2>3, <2>4 DEF Chain
<1>6. QED BY <1>4, <1>5

LEMMA ChainTake ==
    ASSUME NEW q \in Seq(Message), NEW a \in Nat, NEW b \in Nat, Chain(q, a, b), q # <<>>
    PROVE  Head(q).seq = a /\ Chain(Tail(q), a + Head(q).len, b)
<1> DEFINE M == Message
<1>1. /\ \A x \in M : x.seq \in Nat /\ x.len \in Nat
      /\ q \in Seq(M)
      BY MessageType
<1> HIDE DEF M
<1>2. PICK s, n : s = Tail(q) /\ n = Len(q)
      OBVIOUS
<1>3. /\ n \in Nat /\ n >= 1 /\ Len(s) = n - 1 /\ s \in Seq(M) /\ Head(q) = q[1]
      /\ \A i \in 1..(n - 1) : s[i] = q[i + 1]
      /\ \A i \in 1..n : q[i] \in M
      BY <1>1, <1>2
<1>4. /\ q[1].seq = a /\ q[n].seq + q[n].len = b
      /\ \A i \in 1..(n - 1) : q[i].seq + q[i].len = q[i + 1].seq
      BY <1>2 DEF Chain
<1>5. CASE n = 1
      <2>1. s = <<>> /\ a + q[1].len = b
            BY <1>3, <1>4, <1>5
      <2>2. QED BY <1>2, <1>3, <1>4, <2>1 DEF Chain
<1>6. CASE n # 1
      <2>1. s # <<>> /\ 1 \in 1..(n - 1) /\ n - 1 \in 1..(n - 1) /\ (n - 1) + 1 = n
            BY <1>3, <1>6
      <2>2. s[1].seq = a + q[1].len
            BY <1>3, <1>4, <2>1
      <2>3. s[n - 1].seq + s[n - 1].len = b
            BY <1>3, <1>4, <2>1
      <2>4. ASSUME NEW i \in 1..((n - 1) - 1) PROVE s[i].seq + s[i].len = s[i + 1].seq
            <3>1. i \in 1..(n - 1) /\ i + 1 \in 1..(n - 1)
                  BY <1>3
            <3>2. QED BY <1>3, <1>4, <3>1
      <2>5. QED BY <1>2, <1>3, <1>4, <2>1, <2>2, <2>3, <2>4 DEF Chain
<1>7. QED BY <1>5, <1>6

\* The next n bytes are queued, or dropped.
LEMMA Queued ==
    ASSUME NEW g \in Seq(Nat), NEW f, f \subseteq Nat, NEW a \in Nat, NEW b \in Nat, a <= b,
           Accounted(g, f, a, b), NEW n \in Nat, NEW w \in Seq(Nat), Len(w) = n,
           \A i \in 1..n : w[i] = (b + i) - 1
    PROVE  g \o w \in Seq(Nat) /\ Accounted(g \o w, f, a, b + n)
<1>1. PICK s, k : s = g \o w /\ k = Len(g)
      OBVIOUS
<1>2. /\ k \in Nat /\ s \in Seq(Nat) /\ Len(s) = k + n
      /\ \A i \in 1..k : s[i] = g[i] /\ g[i] \in Nat
      /\ \A i \in 1..n : s[k + i] = w[i]
      <2>1. k \in Nat /\ \A i \in 1..k : g[i] \in Nat
            BY <1>1
      <2>2. /\ s \in Seq(Nat) /\ Len(s) = k + n
            /\ \A i \in 1..(k + n) : s[i] = IF i <= k THEN g[i] ELSE w[i - k]
            BY <1>1, ConcatProperties, Zenon
      <2>3. \A i \in 1..k : i \in 1..(k + n) /\ i <= k
            BY <2>1
      <2>4. \A i \in 1..n : k + i \in 1..(k + n) /\ ~(k + i <= k) /\ (k + i) - k = i
            BY <2>1
      <2>5. QED BY <2>1, <2>2, <2>3, <2>4, Zenon
<1>3. ASSUME NEW i \in 1..(k + n), ~(i <= k)
      PROVE  s[i] = ((b + i) - k) - 1 /\ s[i] >= b /\ s[i] < b + n
      <2>0. i - k \in 1..n /\ k + (i - k) = i
            BY <1>2, <1>3
      <2>1. i - k \in 1..n /\ s[i] = w[i - k]
            BY <1>2, <2>0, Zenon
      <2>2. w[i - k] = (b + (i - k)) - 1
            BY <2>1
      <2>3. QED BY <1>2, <2>1, <2>2
<1>4. /\ {g[i] : i \in 1..k} \cup f = a..(b - 1)
      /\ \A i, j \in 1..k : i < j => g[i] < g[j]
      /\ \A i \in 1..k : g[i] \notin f
      BY <1>1 DEF Accounted
<1>5. /\ \A i \in 1..k : g[i] \in Nat /\ a <= g[i] /\ g[i] < b
      /\ \A x \in f : x \in Nat /\ a <= x /\ x < b
      <2>1. \A x \in a..(b - 1) : x \in Nat /\ a <= x /\ x < b
            OBVIOUS
      <2>2. (\A i \in 1..k : g[i] \in a..(b - 1)) /\ \A x \in f : x \in a..(b - 1)
            BY <1>4, Zenon
      <2>3. QED BY <2>1, <2>2, Zenon
<1>6. {s[i] : i \in 1..(k + n)} \cup f = a..((b + n) - 1)
      <2>1. ASSUME NEW i \in 1..(k + n) PROVE s[i] \in a..((b + n) - 1)
            <3>1. CASE i <= k
                  <4>1. i \in 1..k
                        BY <1>2, <3>1
                  <4>2. PICK v \in Nat : v = s[i] /\ a <= v /\ v < b
                        BY <1>2, <1>5, <4>1, Zenon
                  <4>3. v \in a..((b + n) - 1)
                        BY <4>2
                  <4>4. QED BY <4>2, <4>3, Zenon
            <3>2. CASE ~(i <= k)
                  <4>1. s[i] = ((b + i) - k) - 1 /\ s[i] >= b /\ s[i] < b + n
                        BY <1>3, <3>2, Zenon
                  <4>2. k \in Nat
                        BY <1>2
                  <4>3. ((b + i) - k) - 1 \in Int
                        BY <4>2
                  <4>4. PICK v \in Int : v = s[i] /\ v >= b /\ v < b + n
                        BY <4>1, <4>3, Zenon
                  <4>5. v \in a..((b + n) - 1)
                        BY <4>4
                  <4>6. QED BY <4>4, <4>5, Zenon
            <3>3. QED BY <3>1, <3>2
      <2>2. ASSUME NEW x \in f PROVE x \in a..((b + n) - 1)
            BY <1>5
      <2>3. ASSUME NEW x \in a..((b + n) - 1), x \notin f PROVE \E i \in 1..(k + n) : x = s[i]
            <3>1. CASE x < b
                  <4>1. x \in a..(b - 1)
                        BY <3>1
                  <4>2. PICK i \in 1..k : x = g[i]
                        BY <1>4, <2>3, <4>1
                  <4>3. i \in 1..(k + n) /\ s[i] = x
                        BY <1>2, <4>2
                  <4>4. QED BY <4>3
            <3>2. CASE ~(x < b)
                  <4>1. PICK i \in Nat : i = ((x - b) + k) + 1
                        BY <1>2, <3>2
                  <4>2. i \in 1..(k + n) /\ ~(i <= k) /\ ((b + i) - k) - 1 = x
                        BY <1>2, <3>2, <4>1
                  <4>3. s[i] = x
                        BY <1>3, <4>2
                  <4>4. QED BY <4>2, <4>3
            <3>3. QED BY <3>1, <3>2
      <2>4. QED BY <2>1, <2>2, <2>3, Zenon
<1>7. ASSUME NEW i \in 1..(k + n), NEW j \in 1..(k + n), i < j PROVE s[i] < s[j]
      <2>1. CASE j <= k
            <3>1. i \in 1..k /\ j \in 1..k
                  BY <1>2, <1>7, <2>1
            <3>2. QED BY <1>2, <1>4, <1>7, <3>1
      <2>2. CASE ~(j <= k) /\ i <= k
            <3>1. i \in 1..k
                  BY <1>2, <2>2
            <3>2. s[i] < b /\ s[i] \in Nat
                  BY <1>2, <1>5, <3>1
            <3>3. s[j] >= b /\ s[j] = ((b + j) - k) - 1
                  BY <1>3, <2>2
            <3>4. QED BY <1>2, <3>2, <3>3
      <2>3. CASE ~(j <= k) /\ ~(i <= k)
            <3>1. s[i] = ((b + i) - k) - 1 /\ s[j] = ((b + j) - k) - 1
                  BY <1>3, <2>3
            <3>2. QED BY <1>2, <1>7, <3>1
      <2>4. QED BY <2>1, <2>2, <2>3
<1>8. ASSUME NEW i \in 1..(k + n) PROVE s[i] \notin f
      <2>1. CASE i <= k
            <3>1. i \in 1..k
                  BY <1>2, <2>1
            <3>2. QED BY <1>2, <1>4, <3>1
      <2>2. CASE ~(i <= k)
            <3>1. s[i] = ((b + i) - k) - 1 /\ s[i] >= b
                  BY <1>3, <2>2, Zenon
            <3>2. ~(s[i] < b)
                  BY <1>2, <3>1
            <3>3. QED BY <1>5, <3>2, Zenon
      <2>3. QED BY <2>1, <2>2
<1>9. Accounted(s, f, a, b + n)
      BY <1>2, <1>6, <1>7, <1>8 DEF Accounted
<1>10. QED BY <1>1, <1>2, <1>9

LEMMA Dropped ==
    ASSUME NEW g \in Seq(Nat), NEW f, f \subseteq Nat, NEW a \in Nat, NEW b \in Nat, a <= b,
           Accounted(g, f, a, b), NEW n \in Nat, NEW w \in Seq(Nat), Len(w) = n,
           \A i \in 1..n : w[i] = (b + i) - 1,
           NEW h, h = f \cup {w[i] : i \in 1..n}
    PROVE  h \subseteq Nat /\ Accounted(g, h, a, b + n)
<1>1. /\ {g[i] : i \in 1..Len(g)} \cup f = a..(b - 1)
      /\ \A i, j \in 1..Len(g) : i < j => g[i] < g[j]
      /\ \A i \in 1..Len(g) : g[i] \notin f
      BY DEF Accounted
<1>2. PICK W : W = {w[i] : i \in 1..n}
      OBVIOUS
<1>3. W = b..((b + n) - 1)
      <2>1. ASSUME NEW i \in 1..n PROVE w[i] \in b..((b + n) - 1)
            OBVIOUS
      <2>2. ASSUME NEW x \in b..((b + n) - 1) PROVE \E i \in 1..n : x = w[i]
            <3>1. PICK i \in 1..n : i = (x - b) + 1
                  OBVIOUS
            <3>2. w[i] = (b + i) - 1
                  BY Zenon
            <3>3. x = (b + i) - 1
                  BY <3>1
            <3>4. QED BY <3>2, <3>3, Zenon
      <2>3. QED BY <1>2, <2>1, <2>2, Zenon
<1>4. a..((b + n) - 1) = a..(b - 1) \cup b..((b + n) - 1)
      OBVIOUS
<1>5. {g[i] : i \in 1..Len(g)} \cup h = a..((b + n) - 1)
      BY <1>1, <1>2, <1>3, <1>4, Zenon
<1>6. ASSUME NEW i \in 1..Len(g) PROVE g[i] \notin h
      <2>1. g[i] \in a..(b - 1)
            BY <1>1, Zenon
      <2>2. g[i] \notin b..((b + n) - 1)
            BY <2>1
      <2>3. QED BY <1>1, <1>2, <1>3, <2>2, Zenon
<1>7. h \subseteq Nat
      <2>1. \A x \in b..((b + n) - 1) : x \in Nat
            OBVIOUS
      <2>2. QED BY <1>2, <1>3, <2>1, Zenon
<1>8. QED BY <1>1, <1>5, <1>6, <1>7, Zenon DEF Accounted

\* A step that leaves the peer's segments and what was received alone.
LEMMA StreamSame ==
    ASSUME Stream, UNCHANGED <<reliable, recv_next, got, full, in, peer, peer_sent>>,
           conn_state' = "ESTABLISHED" <=> conn_state = "ESTABLISHED"
    PROVE  Stream'
BY DEF Stream, Connected

\* What the peer puts into a network that keeps order continues the chain.
LEMMA PeerContinues ==
    ASSUME IInv, Stream, NEW m \in Message, m.seq = peer_sent,
           in' = Put(in, m), peer_sent' = peer_sent + m.len,
           conn_state = "ESTABLISHED",
           UNCHANGED <<reliable, conn_state, recv_next, got, full>>,
           Connected' <=> Connected
    PROVE  Stream'
<1>1. SUFFICES ASSUME reliable, Connected PROVE Chain(in', recv_next, peer_sent')
      BY DEF Stream
<1>2. /\ in \in Seq(Message) /\ in' = Append(in, m)
      /\ recv_next \in Nat /\ peer_sent \in Nat
      BY <1>1 DEF IInv, Types, NetType, Put
<1>3. Chain(in, recv_next, peer_sent)
      BY <1>1 DEF Stream
<1>4. Chain(Append(in, m), recv_next, peer_sent + m.len)
      BY <1>2, <1>3, ChainPut, Zenon
<1>5. QED BY <1>2, <1>4, Zenon

LEMMA PeerRecvStream ==
    ASSUME IInv, Stream, PeerRecv
    PROVE  Stream'
<1>1. PICK m \in Ready(out) :
          /\ PeerRecvSyn(m) \/ PeerRecvAck(m) \/ PeerIgnores(m)
          /\ UNCHANGED <<reliable, conn_state, recv_next, got, full>>
      BY DEF PeerRecv, session, queue
<1>2. m \in Msgs(out) /\ OutInv(m) /\ conn_state # "CLOSED"
      BY RestMsgs DEF IInv, Types, Handshake
<1>3. CASE PeerRecvSyn(m) /\ peer = "LISTEN" /\ peer' = "SYN_RCVD"
      <2>1. conn_state = "SYN_SENT" /\ Msgs(in) = {}
            BY <1>2, <1>3 DEF IInv, Types, Handshake
      <2>2. PICK a : a = Segment("SYNACK", PeerISS, peer_next', 0)
            OBVIOUS
      <2>3. in' = Put(in, a) /\ peer_sent' = PeerISS + 1
            BY <1>3, <2>2 DEF PeerRecvSyn
      <2>4. SUFFICES ASSUME reliable PROVE Len(in') = 1 /\ in'[1].flags = "SYNACK"
            BY <1>1, <2>1, <2>3 DEF Stream
      <2>5. in = <<>>
            <3> DEFINE M == Message
            <3>1. in \in Seq(M) /\ {in[i] : i \in 1..Len(in)} = {}
                  BY <2>1, <2>4 DEF IInv, Types, NetType, Msgs
            <3> HIDE DEF M
            <3>2. QED BY <3>1
      <2>6. in' = <<a>>
            BY <2>3, <2>4, <2>5 DEF Put
      <2>7. a.flags = "SYNACK"
            BY <2>2 DEF Segment
      <2>8. QED BY <2>6, <2>7
<1>4. CASE PeerRecvSyn(m) /\ peer = "LISTEN" /\ peer' = "REFUSED"
      BY <1>1, <1>4 DEF Stream, Connected
<1>5. CASE (PeerRecvSyn(m) /\ peer # "LISTEN") \/ PeerIgnores(m)
      <2>1. UNCHANGED <<peer, peer_sent, in>>
            BY <1>5 DEF PeerRecvSyn, PeerIgnores
      <2>2. QED BY <1>1, <2>1, StreamSame
<1>6. CASE PeerRecvAck(m)
      <2>1. conn_state = "ESTABLISHED" /\ peer_sent' = peer_sent /\ (Connected' <=> Connected)
            BY <1>2, <1>6 DEF PeerRecvAck, OutInv, Connected
      <2>2. CASE in' = in
            BY <1>1, <2>1, <2>2 DEF Stream
      <2>3. CASE in' # in
            <3>1. PICK a : a = Segment("ACK", peer_sent, peer_next', 0)
                  OBVIOUS
            <3>2. m.seq \in Nat /\ m.len \in Nat /\ peer_next \in Nat /\ peer_sent \in Nat
                  BY <1>2, InFlight, MessageType DEF IInv, Types
            <3>3. peer_next' \in Nat
                  BY <1>6, <3>2 DEF PeerRecvAck
            <3>4. a \in Message /\ a.seq = peer_sent /\ a.len = 0
                  <4>1. "ACK" \in Flags /\ 0 \in Nat
                        BY DEF Flags
                  <4>2. PICK x, y : x = peer_sent /\ y = peer_next'
                        OBVIOUS
                  <4>3. x \in Nat /\ y \in Nat /\ a = Segment("ACK", x, y, 0)
                        BY <3>1, <3>2, <3>3, <4>2
                  <4>4. a \in Message /\ a.seq = x /\ a.len = 0
                        BY <4>1, <4>3 DEF Segment, Message
                  <4>5. QED BY <4>2, <4>4
            <3>5. in' = Put(in, a)
                  BY <1>6, <2>3, <3>1 DEF PeerRecvAck
            <3>6. peer_sent' = peer_sent + a.len
                  BY <2>1, <3>2, <3>4
            <3>7. QED BY <1>1, <2>1, <3>4, <3>5, <3>6, PeerContinues
      <2>4. QED BY <2>2, <2>3
<1>7. QED BY <1>1, <1>3, <1>4, <1>5, <1>6 DEF PeerRecvSyn

LEMMA PeerSendStream ==
    ASSUME IInv, Stream, PeerRetransmit \/ PeerFin \/ \E n \in SegLens : PeerSend(n)
    PROVE  Stream'
<1>1. /\ UNCHANGED <<reliable, conn_state, recv_next, got, full, peer>>
      /\ peer = "ESTABLISHED"
      BY DEF PeerRetransmit, PeerFin, PeerSend, session, queue, peerVars
<1>2. conn_state = "ESTABLISHED" /\ (Connected' <=> Connected)
      BY <1>1 DEF IInv, Types, Handshake, Connected
<1>3. peer_sent \in Nat /\ peer_next \in Nat
      BY DEF IInv, Types
<1>4. CASE PeerRetransmit
      <2>1. ~reliable'
            BY <1>1, <1>4 DEF PeerRetransmit
      <2>2. conn_state' = "ESTABLISHED"
            BY <1>1, <1>2
      <2>3. QED BY <2>1, <2>2 DEF Stream
<1>5. ASSUME NEW f \in Flags, NEW n \in Nat, in' = Put(in, Segment(f, peer_sent, peer_next, n)),
             peer_sent' = peer_sent + n
      PROVE  Stream'
      <2>1. PICK a : a = Segment(f, peer_sent, peer_next, n)
            OBVIOUS
      <2>2. a \in Message /\ a.seq = peer_sent /\ a.len = n
            BY <1>3, <2>1, SegmentType
      <2>3. QED BY <1>1, <1>2, <1>5, <2>1, <2>2, PeerContinues
<1>6. CASE PeerFin
      <2>1. in' = Put(in, Segment("FIN", peer_sent, peer_next, 0)) /\ peer_sent' = peer_sent + 0
            BY <1>3, <1>6 DEF PeerFin
      <2>2. "FIN" \in Flags /\ 0 \in Nat
            BY DEF Flags
      <2>3. QED BY <1>5, <2>1, <2>2
<1>7. CASE \E n \in SegLens : PeerSend(n)
      <2>1. PICK n \in SegLens : PeerSend(n)
            BY <1>7
      <2>2. /\ in' = Put(in, Segment("ACK", peer_sent, peer_next, n))
            /\ peer_sent' = peer_sent + n /\ n \in Nat /\ "ACK" \in Flags
            BY <2>1, TcpAssumption DEF PeerSend, Flags
      <2>3. QED BY <1>5, <2>2
<1>8. QED BY <1>4, <1>6, <1>7

LEMMA RecvStream ==
    ASSUME IInv, QueueTypes, Stream, Recv
    PROVE  /\ Stream'
           /\ irs' \in Nat /\ recvQ' \in Nat /\ got' \in Seq(Nat) /\ full' \subseteq Nat
<1>1. PICK m \in Ready(in) :
          /\ in' = Rest(in)
          /\ RecvInSynSent(m) \/ RecvAck(m) \/ RecvData(m)
          /\ UNCHANGED <<reliable, peer, peer_sent>>
      BY DEF Recv, peerVars
<1>2. /\ m \in Msgs(in) /\ m \in Message /\ InInv(m)
      /\ m.seq \in Nat /\ m.len \in Nat
      BY RestMsgs, MessageType DEF IInv, Types
<1>3. /\ recv_next \in Nat /\ peer_sent \in Nat /\ irs \in Nat /\ recvQ \in Nat
      /\ got \in Seq(Nat) /\ full \subseteq Nat
      BY DEF IInv, Types, QueueTypes
<1>4. reliable => /\ in \in Seq(Message) /\ in # <<>> /\ m = Head(in) /\ in' = Tail(in)
      BY <1>1 DEF Ready, Rest, IInv, Types, NetType
<1>5. CASE RecvInSynSent(m)
      <2>1. /\ conn_state = "SYN_SENT" /\ conn_state' = "ESTABLISHED" /\ irs' = m.seq
            /\ recv_next' = m.seq + 1 /\ recvQ' = recvQ /\ got' = got /\ full' = full
            BY <1>5 DEF RecvInSynSent, queue
      <2>2. got = <<>> /\ full = {}
            BY <2>1 DEF Stream
      <2>3. ASSUME reliable, Connected
            PROVE  /\ PeerISS < recv_next' /\ Chain(in', recv_next', peer_sent')
                   /\ Accounted(got', full', PeerISS + 1, recv_next')
            <3>1. /\ peer_sent = PeerISS + 1 /\ Len(in) = 1 /\ in[1].flags = "SYNACK"
                  BY <2>1, <2>3 DEF Stream
            <3>2. in \in Seq(Message) /\ in # <<>> /\ m = Head(in) /\ in' = Tail(in)
                  BY <1>4, <2>3
            <3>3. m = in[1] /\ in' = <<>>
                  <4> DEFINE M == Message
                  <4>1. in \in Seq(M)
                        BY <3>2
                  <4> HIDE DEF M
                  <4>2. QED BY <3>1, <3>2, <4>1
            <3>4. m.seq = PeerISS
                  BY <1>2, <3>1, <3>3 DEF InInv
            <3>5. recv_next' = PeerISS + 1 /\ peer_sent' = recv_next' /\ PeerISS \in Nat
                  BY <1>1, <2>1, <3>1, <3>4, TcpAssumption
            <3>6. Chain(in', recv_next', peer_sent')
                  BY <3>3, <3>5, Zenon DEF Chain
            <3>7. PICK p \in Nat : p = PeerISS
                  BY <3>5
            <3>8. Accounted(<<>>, {}, p + 1, p + 1)
                  BY DEF Accounted
            <3>9. PeerISS < recv_next'
                  BY <3>5
            <3>10. QED BY <2>1, <2>2, <3>5, <3>6, <3>7, <3>8, <3>9, Zenon
      <2>4. Connected' <=> Connected
            BY <1>1 DEF Connected
      <2>5. Stream'
            BY <1>1, <2>1, <2>3, <2>4 DEF Stream
      <2>6. irs' \in Nat /\ recvQ' \in Nat /\ got' \in Seq(Nat) /\ full' \subseteq Nat
            BY <1>2, <1>3, <2>1
      <2>7. QED BY <2>5, <2>6
\* In ESTABLISHED the segment is the one that begins at recv_next.
<1>6. ASSUME reliable, Connected, conn_state = "ESTABLISHED"
      PROVE  /\ m.seq = recv_next /\ Chain(in', recv_next + m.len, peer_sent)
             /\ PeerISS < recv_next /\ Accounted(got, full, PeerISS + 1, recv_next)
      <2>1. /\ Chain(in, recv_next, peer_sent) /\ PeerISS < recv_next
            /\ Accounted(got, full, PeerISS + 1, recv_next)
            BY <1>6 DEF Stream
      <2>2. in \in Seq(Message) /\ in # <<>> /\ m = Head(in) /\ in' = Tail(in)
            BY <1>4, <1>6
      <2>3. Head(in).seq = recv_next /\ Chain(Tail(in), recv_next + Head(in).len, peer_sent)
            BY <1>3, <2>1, <2>2, ChainTake, Zenon
      <2>4. QED BY <2>1, <2>2, <2>3, Zenon
<1>7. CASE RecvAck(m)
      <2>1. /\ conn_state = "ESTABLISHED" /\ m.len = 0
            /\ UNCHANGED <<conn_state, irs, recv_next, recvQ, got, full>>
            BY <1>7 DEF RecvAck, queue
      <2>2. recv_next + m.len = recv_next
            BY <1>3, <2>1
      <2>3. Connected' <=> Connected
            BY <1>1 DEF Connected
      <2>4. Stream'
            BY <1>1, <1>6, <2>1, <2>2, <2>3 DEF Stream
      <2>5. QED BY <1>3, <2>1, <2>4
<1>8. CASE RecvData(m)
      <2>1. /\ conn_state = "ESTABLISHED" /\ conn_state' = "ESTABLISHED"
            /\ recv_next' = m.seq + m.len /\ irs' = irs
            /\ \/ /\ full' = full \cup {Bytes(m)[i] : i \in 1..m.len}
                  /\ recvQ' = recvQ /\ got' = got
               \/ recvQ' = recvQ + 1 /\ got' = got \o Bytes(m) /\ full' = full
            BY <1>8 DEF RecvData
      <2>2. PICK w, n, q : w = Bytes(m) /\ n = m.len /\ q = m.seq
            OBVIOUS
      <2>3. n \in Nat /\ q \in Nat
            BY <1>2, <2>2
      <2>4. w = [i \in 1..n |-> q + (i - 1)]
            BY <2>2, Zenon DEF Bytes
      <2>5. \A i \in 1..n : (q + i) - 1 \in Nat /\ q + (i - 1) = (q + i) - 1
            BY <2>3
      <2>6. w \in Seq(Nat) /\ Len(w) = n /\ \A i \in 1..n : w[i] = (q + i) - 1
            BY <2>3, <2>4, <2>5
      <2>7. /\ \/ full' = full \cup {w[i] : i \in 1..n} /\ got' = got
               \/ got' = got \o w /\ full' = full
            /\ recvQ' = recvQ \/ recvQ' = recvQ + 1
            BY <2>1, <2>2
      <2>8. recvQ' \in Nat /\ irs' \in Nat
            BY <1>3, <2>1, <2>7
      <2>9. got' \in Seq(Nat) /\ full' \subseteq Nat
            <3>1. got \o w \in Seq(Nat)
                  BY <1>3, <2>6, ConcatProperties, Zenon
            <3>2. {w[i] : i \in 1..n} \subseteq Nat
                  <4>1. \A i \in 1..n : w[i] \in Nat
                        BY <2>5, <2>6
                  <4>2. QED BY <4>1, Zenon
            <3>3. QED BY <1>3, <2>7, <3>1, <3>2, Zenon
      <2>10. ASSUME reliable, Connected
             PROVE  /\ PeerISS < recv_next' /\ Chain(in', recv_next', peer_sent')
                    /\ Accounted(got', full', PeerISS + 1, recv_next')
            <3>1. /\ q = recv_next /\ recv_next' = recv_next + n /\ recv_next' = q + n
                  /\ Chain(in', recv_next', peer_sent')
                  /\ PeerISS < recv_next /\ Accounted(got, full, PeerISS + 1, recv_next)
                  BY <1>1, <1>6, <2>1, <2>2, <2>10
            <3>2. /\ PeerISS \in Nat /\ PeerISS + 1 \in Nat /\ PeerISS + 1 <= recv_next
                  /\ PeerISS < recv_next'
                  BY <1>3, <2>3, <3>1, TcpAssumption
            <3>3. PICK g, f, a, b : /\ g = got /\ f = full /\ a = PeerISS + 1 /\ b = recv_next
                  OBVIOUS
            <3>4. /\ g \in Seq(Nat) /\ f \subseteq Nat /\ a \in Nat /\ b \in Nat /\ a <= b
                  /\ Accounted(g, f, a, b) /\ b = q /\ recv_next' = b + n
                  BY <1>3, <3>1, <3>2, <3>3, Zenon
            <3>5. \A i \in 1..n : w[i] = (b + i) - 1
                  BY <2>6, <3>4, Zenon
            <3>6. Accounted(g \o w, f, a, b + n)
                  BY <2>3, <2>6, <3>4, <3>5, Queued, Zenon
            <3>7. Accounted(g, f \cup {w[i] : i \in 1..n}, a, b + n)
                  BY <2>3, <2>6, <3>4, <3>5, Dropped, Zenon
            <3>8. Accounted(got', full', PeerISS + 1, recv_next')
                  BY <2>7, <3>3, <3>4, <3>6, <3>7, Zenon
            <3>9. QED BY <3>1, <3>2, <3>8
      <2>11. Connected' <=> Connected
             BY <1>1 DEF Connected
      <2>12. Stream'
             BY <1>1, <2>1, <2>10, <2>11 DEF Stream
      <2>13. QED BY <2>8, <2>9, <2>12
<1>9. QED BY <1>1, <1>5, <1>7, <1>8

LEMMA StreamInductive ==
    ASSUME IInv, QueueTypes, Stream, [Next]_vars
    PROVE  QueueTypes' /\ Stream'
<1>1. CASE Connect \/ \E n \in SegLens : Send(n)
      <2>1. /\ UNCHANGED <<reliable, irs, recv_next, recvQ, got, full, in, peer, peer_sent,
                           peer_fin>>
            /\ named' \in BOOLEAN /\ early' \in BOOLEAN
            BY <1>1 DEF Connect, Send, queue, peerVars, QueueTypes
      <2>2. conn_state' = "ESTABLISHED" <=> conn_state = "ESTABLISHED"
            BY <1>1 DEF Connect, Send, SendCase
      <2>3. QED BY <2>1, <2>2, StreamSame DEF QueueTypes
<1>2. CASE Tx \/ UNCHANGED vars
      <2>1. UNCHANGED <<reliable, conn_state, irs, recv_next, recvQ, got, full, in, peer,
                        peer_sent, peer_fin, named, early>>
            BY <1>2 DEF Tx, vars, session, queue, peerVars
      <2>2. QED BY <2>1, StreamSame DEF QueueTypes
<1>3. CASE AppTakes
      <2>1. /\ UNCHANGED <<reliable, conn_state, irs, recv_next, got, full, in, peer,
                           peer_sent, peer_fin, named, early>>
            /\ recvQ > 0 /\ recvQ' = recvQ - 1
            BY <1>3 DEF AppTakes, session, queue, peerVars
      <2>2. recvQ' \in Nat
            BY <2>1 DEF QueueTypes
      <2>3. QED BY <2>1, <2>2, StreamSame DEF QueueTypes
<1>4. CASE Recv
      <2>1. UNCHANGED <<named, early, peer_fin>>
            BY <1>4 DEF Recv, RecvInSynSent, RecvAck, RecvData, peerVars
      <2>2. QED BY <1>4, <2>1, RecvStream DEF QueueTypes
<1>5. CASE PeerRecv
      <2>1. UNCHANGED <<irs, recvQ, got, full, named, early, peer_fin>>
            BY <1>5 DEF PeerRecv, session, queue
      <2>2. QED BY <1>5, <2>1, PeerRecvStream DEF QueueTypes
<1>6. CASE PeerRetransmit \/ PeerFin \/ \E n \in SegLens : PeerSend(n)
      <2>1. UNCHANGED <<irs, recvQ, got, full, named, early>> /\ peer_fin' \in BOOLEAN
            BY <1>6 DEF PeerRetransmit, PeerFin, PeerSend, session, queue, peerVars, QueueTypes
      <2>2. QED BY <1>6, <2>1, PeerSendStream DEF QueueTypes
<1>7. QED BY <1>1, <1>2, <1>3, <1>4, <1>5, <1>6 DEF Next, LoopThread, PeerStep
-----------------------------------------------------------------------------
LEMMA Initially == Init => IInv
<1> SUFFICES ASSUME Init PROVE IInv
    OBVIOUS
<1>1. /\ reliable \in BOOLEAN /\ tx = NoSegment /\ NoSegment \in Message
      BY TcpAssumption, SegmentType DEF Init, NoSegment, Flags
<1>2. NetType(out) /\ NetType(in) /\ Msgs(out) = {} /\ Msgs(in) = {}
      BY NothingMsgs DEF Init
<1>3. Types
      BY <1>1, <1>2, TcpAssumption DEF Init, Types
<1>4. Handshake
      BY <1>1, <1>2, TcpAssumption DEF Init, Handshake, Connected
<1>5. QED BY <1>1, <1>2, <1>3, <1>4 DEF IInv

LEMMA Inductive == IInv /\ [Next]_vars => IInv'
<1> SUFFICES ASSUME IInv, [Next]_vars PROVE IInv'
    OBVIOUS
<1>1. CASE Connect
      BY <1>1, SendStep DEF Connect, peerVars
<1>2. CASE \E n \in SegLens : Send(n)
      BY <1>2, SendStep, TcpAssumption DEF Send, peerVars
<1>3. CASE Tx
      BY <1>3, TxStep
<1>4. CASE AppTakes \/ UNCHANGED vars
      <2>1. UNCHANGED <<reliable, conn_state, send_unack, send_next, recv_next, tx, out, in,
                        peer, peer_next, peer_sent, peer_unack>>
            BY <1>4 DEF AppTakes, vars, session, peerVars
      <2>2. /\ NetType(out)' /\ NetType(in)' /\ Msgs(out)' = Msgs(out) /\ Msgs(in)' = Msgs(in)
            BY <2>1, NetsAfter DEF IInv, Types
      <2>3. Types' /\ Handshake'
            BY <2>1, <2>2 DEF IInv, Types, Handshake, Connected
      <2>4. QED BY <2>1, <2>2, <2>3 DEF IInv, OutInv, InInv, Connected
<1>5. CASE Recv
      BY <1>5, RecvStep
<1>6. CASE PeerRecv
      BY <1>6, PeerRecvStep
<1>7. CASE PeerRetransmit \/ PeerFin \/ \E n \in SegLens : PeerSend(n)
      BY <1>7, PeerSendStep
<1>8. QED BY <1>1, <1>2, <1>3, <1>4, <1>5, <1>6, <1>7 DEF Next, LoopThread, PeerStep

LEMMA Invariance == Spec => []IInv
BY Initially, Inductive, PTL DEF Spec

\* The session never acknowledges a byte the peer has not sent, for any order,
\* loss or repetition of segments and any lengths (TcpSession::recv, ack2peer).
THEOREM AcksOnlySentCorrect == Spec => []AcksOnlySent
<1>1. IInv => AcksOnlySent
      <2> SUFFICES ASSUME IInv, Connected PROVE AcksOnlySent
          BY DEF AcksOnlySent, Connected
      <2>1. Outgoing = Msgs(out)
            BY DEF Outgoing, Msgs
      <2>2. ASSUME NEW m \in Msgs(out) PROVE m.ack <= peer_sent
            BY <2>2 DEF IInv, OutInv, Types
      <2>3. QED BY <2>1, <2>2 DEF AcksOnlySent, IInv, Handshake
<1>2. QED BY <1>1, Invariance, PTL

\* send_unack does not pass what the peer has received, nor the peer or a segment
\* of send or ack2peer send_next.
THEOREM SendSideIsSoundCorrect == Spec => []SendSideIsSound
<1>1. IInv => SendSideIsSound
      <2>1. Outgoing = Msgs(out)
            BY DEF Outgoing, Msgs
      <2>2. IInv => /\ peer_next <= send_next
                    /\ \A m \in Outgoing : m.flags = "ACK" => m.seq + m.len <= send_next
            BY <2>1 DEF IInv, Handshake, OutInv
      <2>3. IInv => ((conn_state = "ESTABLISHED" /\ peer # "REFUSED")
                        => send_unack <= peer_next)
            BY DEF IInv, Types, Handshake, Connected
      <2>4. QED BY <2>2, <2>3 DEF SendSideIsSound
<1>2. QED BY <1>1, Invariance, PTL

LEMMA StreamInitially == Init => QueueTypes /\ Stream
<1>1. Init => QueueTypes
      <2>1. <<>> \in Seq(Nat) /\ 0 \in Nat /\ {} \subseteq Nat
            OBVIOUS
      <2>2. QED BY <2>1, Zenon DEF Init, QueueTypes
<1>2. Init => /\ conn_state = "CLOSED" /\ peer = "LISTEN" /\ got = <<>> /\ full = {}
      BY DEF Init
<1>3. QED BY <1>1, <1>2 DEF Stream, Connected

LEMMA StreamInvariance == Spec => [](QueueTypes /\ Stream)
<1>1. IInv /\ (QueueTypes /\ Stream) /\ [Next]_vars => (QueueTypes /\ Stream)'
      BY StreamInductive
<1>2. QED BY <1>1, Invariance, StreamInitially, PTL DEF Spec

\* Every variable keeps its type, the queue that recvfrom takes from included.
THEOREM TypeCorrect == Spec => []TypeOK
<1>1. IInv /\ QueueTypes => TypeOK
      BY MessageType DEF IInv, Types, QueueTypes, TypeOK
<1>2. QED BY <1>1, Invariance, StreamInvariance, PTL

\* Over a network that keeps order TcpSession::recv queues the peer's bytes in
\* order, each once, and accounts for every one of them: what it acknowledged is
\* what it queued or found no room for.
THEOREM StreamIsAccounted == Spec => []StreamAccounted
<1>1. IInv /\ Stream => StreamAccounted
      <2> SUFFICES ASSUME IInv, Stream, reliable, conn_state = "ESTABLISHED", peer # "REFUSED"
                   PROVE  /\ {got[i] : i \in 1..Len(got)} \cup full
                                = (PeerISS + 1)..(recv_next - 1)
                          /\ \A i, j \in 1..Len(got) : i < j => got[i] < got[j]
                          /\ \A i \in 1..Len(got) : got[i] \notin full
          BY DEF StreamAccounted
      <2>1. Connected
            BY DEF IInv, Types, Handshake, Connected
      <2>2. Accounted(got, full, PeerISS + 1, recv_next)
            BY <2>1 DEF Stream
      <2>3. QED BY <2>2, Zenon DEF Accounted
<1>2. QED BY <1>1, Invariance, StreamInvariance, PTL
=============================================================================
