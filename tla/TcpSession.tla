----------------------------- MODULE TcpSession ----------------------------
(***************************************************************************)
(* The client side of TCP (veloxd/tcp/TcpSession.cpp) against a TCP peer   *)
(* over a network.  Two threads work on one TcpSession without a lock:     *)
(* the event loop thread calls connect and send, the IP thread calls recv. *)
(* send takes its sequence number and advances send_next before it hands   *)
(* the segment to IP, so the IP thread's acknowledgements may overtake it. *)
(*                                                                         *)
(* Data are abstracted to positions: the bytes of each direction are       *)
(* numbered by sequence number, and a segment carries the len bytes from   *)
(* seq on.  iss is 1 in the code, and bounds keep every number below 2^32. *)
(***************************************************************************)
EXTENDS Naturals, Sequences

CONSTANTS Networks,    \* what the network may be, within BOOLEAN: reliable or not
          Refuses,     \* whether the peer may answer a SYN with RST
          PeerISS,     \* the peer's initial sequence number
          SendBytes,   \* bound: SendBytes[reliable] bytes the application sends
          PeerBytes,   \* bound: PeerBytes[reliable] bytes the peer sends
          SegLens,     \* lengths of single sends
          QueueLimit,  \* Endpoint::Impl::recvQlimit
          MaxGot       \* bound: MaxGot[reliable] bytes ever put into the queue

iss == 1

ASSUME TcpAssumption ==
    /\ Networks \subseteq BOOLEAN /\ Refuses \in BOOLEAN
    /\ PeerISS \in Nat
    /\ {SendBytes, PeerBytes, MaxGot} \subseteq [BOOLEAN -> Nat]
    /\ SegLens \subseteq Nat \ {0}
    /\ QueueLimit \in Nat

VARIABLES
    reliable,     \* fixed in a behaviour.  TRUE: the network delivers all, in
                  \* order, once; FALSE: it loses, duplicates and reorders
    conn_state,   \* "CLOSED", "SYN_SENT", "ESTABLISHED"
    send_unack,   \* lowest unacknowledged sequence number
    send_next,    \* next sequence number to send
    irs,          \* the peer's initial sequence number, as received
    recv_next,    \* next sequence number expected
    named,        \* faddr and fport name the peer (connect was called)
    early,        \* history: send was called before connect
    tx,           \* the segment the loop thread has built and not yet sent
    recvQ,        \* segments in the receive queue
    got,          \* history: bytes put into the receive queue, in order
    full,         \* history: bytes dropped because the queue was full
    out, in,      \* the network, from the session and to it
    peer,         \* "LISTEN", "SYN_RCVD", "ESTABLISHED", "REFUSED"
    peer_next,    \* next sequence number the peer expects
    peer_sent,    \* next sequence number the peer sends
    peer_unack,   \* lowest sequence number of its own not acknowledged
    peer_fin      \* the peer has sent its FIN

session == <<conn_state, send_unack, send_next, irs, recv_next, named>>
queue == <<recvQ, got, full>>
peerVars == <<peer, peer_next, peer_sent, peer_unack, peer_fin>>
vars == <<reliable, early, session, tx, queue, out, in, peerVars>>

Flags == {"SYN", "SYNACK", "ACK", "RST", "FIN"}
Segment(flags, seq, ack, len) ==
    [flags |-> flags, seq |-> seq, ack |-> ack, len |-> len]
NoSegment == Segment("ACK", 0, 0, 0)

\* The network: a FIFO queue, or a set from which any segment may be received
\* any number of times or never.
Put(net, m) == IF reliable THEN Append(net, m) ELSE net \cup {m}
Ready(net) ==
    IF reliable THEN IF net = <<>> THEN {} ELSE {Head(net)} ELSE net
Rest(net) == IF reliable THEN Tail(net) ELSE net
Nothing == IF reliable THEN <<>> ELSE {}

Init ==
    /\ reliable \in Networks
    /\ early = FALSE
    /\ conn_state = "CLOSED"
    /\ send_unack = 0 /\ send_next = 0 /\ irs = 0 /\ recv_next = 0
    /\ named = FALSE
    /\ tx = NoSegment
    /\ recvQ = 0 /\ got = <<>> /\ full = {}
    /\ out = Nothing /\ in = Nothing
    /\ peer = "LISTEN"
    /\ peer_next = 0 /\ peer_sent = PeerISS /\ peer_unack = PeerISS
    /\ peer_fin = FALSE
-----------------------------------------------------------------------------
(* The event loop thread.                                                  *)

\* TcpSession::send(buf) with n bytes, up to Ip::tx.
SendCase(n) ==
    \/ /\ conn_state = "CLOSED"
       /\ send_unack' = iss
       /\ send_next' = iss + 1
       /\ tx' = Segment("SYN", iss, 0, n)
       /\ conn_state' = "SYN_SENT"
    \/ /\ conn_state = "ESTABLISHED"
       /\ tx' = Segment("ACK", send_next, recv_next, n)
       /\ send_next' = send_next + n
       /\ UNCHANGED <<conn_state, send_unack>>
    \/ /\ conn_state = "SYN_SENT"
       /\ UNCHANGED <<conn_state, send_unack, send_next, tx>>

\* TcpSession::connect: name the peer, then send("").  Bound: called once.
Connect ==
    /\ tx = NoSegment
    /\ ~named
    /\ named' = TRUE
    /\ SendCase(0)
    /\ UNCHANGED <<reliable, early, irs, recv_next, queue, out, in, peerVars>>

\* sendtoCall on a TCP socket.
Send(n) ==
    /\ tx = NoSegment
    /\ send_next + n <= iss + 1 + SendBytes[reliable]
    /\ SendCase(n)
    /\ early' = (early \/ ~named)
    /\ UNCHANGED <<reliable, irs, recv_next, named, queue, out, in, peerVars>>

\* Ip::tx of the segment built.  One for 0.0.0.0:0 reaches nobody.
Tx ==
    /\ tx # NoSegment
    /\ out' = IF named THEN Put(out, tx) ELSE out
    /\ tx' = NoSegment
    /\ UNCHANGED <<reliable, early, session, queue, in, peerVars>>

\* Mutant: the queue is not tested for being empty.
AppTakes_Untested ==
    /\ recvQ' = recvQ - 1
    /\ UNCHANGED <<reliable, early, session, tx, got, full, out, in, peerVars>>

\* recvfrom takes a segment from the queue.
AppTakes ==
    /\ recvQ > 0
    /\ recvQ' = recvQ - 1
    /\ UNCHANGED <<reliable, early, session, tx, got, full, out, in, peerVars>>
-----------------------------------------------------------------------------
(* The IP thread: TcpSession::recv of segment m.                           *)

\* ack2peer: an empty segment that acknowledges what comes before ack.
Ack2peer(ack) == out' = Put(out, Segment("ACK", send_next, ack, 0))

\* Mutant: the peer's SYN is not counted.
RecvInSynSent_NoPlusOne(m) ==
    /\ conn_state = "SYN_SENT"
    /\ irs' = m.seq
    /\ recv_next' = m.seq
    /\ send_unack' = send_unack + 1
    /\ conn_state' = "ESTABLISHED"
    /\ Ack2peer(recv_next')
    /\ UNCHANGED <<send_next, named, queue>>

\* SYN_SENT: whatever arrives completes the handshake (the assertion that it
\* is a SYN and ACK is compiled out), and is acknowledged.
RecvInSynSent(m) ==
    /\ conn_state = "SYN_SENT"
    /\ irs' = m.seq
    /\ recv_next' = m.seq + 1
    /\ send_unack' = send_unack + 1
    /\ conn_state' = "ESTABLISHED"
    /\ Ack2peer(recv_next')
    /\ UNCHANGED <<send_next, named, queue>>

\* Mutant: seq is read where ack_seq is meant.
NewUnack_WrongField(m) == IF m.seq > send_unack THEN m.seq ELSE send_unack

\* Every segment the peer sends has its ACK flag set.
NewUnack(m) == IF m.ack > send_unack THEN m.ack ELSE send_unack

\* ESTABLISHED, no payload: only the acknowledgement counts.
RecvAck(m) ==
    /\ conn_state = "ESTABLISHED"
    /\ m.len = 0
    /\ send_unack' = NewUnack(m)
    /\ UNCHANGED <<conn_state, send_next, irs, recv_next, named, queue, out>>

Bytes(m) == [i \in 1..m.len |-> m.seq + i - 1]

\* Mutant: one byte too many is expected and acknowledged.
RecvData_OffByOne(m) ==
    /\ conn_state = "ESTABLISHED"
    /\ m.len > 0
    /\ Len(got) + m.len <= MaxGot[reliable]
    /\ send_unack' = NewUnack(m)
    /\ IF recvQ > QueueLimit
       THEN /\ full' = full \cup {Bytes(m)[i] : i \in 1..m.len}
            /\ UNCHANGED <<recvQ, got>>
       ELSE /\ recvQ' = recvQ + 1
            /\ got' = got \o Bytes(m)
            /\ UNCHANGED full
    /\ recv_next' = m.seq + m.len + 1
    /\ Ack2peer(recv_next')
    /\ UNCHANGED <<conn_state, send_next, irs, named>>

\* ESTABLISHED with payload: queue it, or drop it if the queue is full; expect
\* what follows it, whatever was expected before; acknowledge.
RecvData(m) ==
    /\ conn_state = "ESTABLISHED"
    /\ m.len > 0
    /\ Len(got) + m.len <= MaxGot[reliable]
    /\ send_unack' = NewUnack(m)
    /\ IF recvQ > QueueLimit
       THEN /\ full' = full \cup {Bytes(m)[i] : i \in 1..m.len}
            /\ UNCHANGED <<recvQ, got>>
       ELSE /\ recvQ' = recvQ + 1
            /\ got' = got \o Bytes(m)
            /\ UNCHANGED full
    /\ recv_next' = m.seq + m.len
    /\ Ack2peer(recv_next')
    /\ UNCHANGED <<conn_state, send_next, irs, named>>

Recv ==
    \E m \in Ready(in) :
        /\ in' = Rest(in)
        /\ RecvInSynSent(m) \/ RecvAck(m) \/ RecvData(m)
        /\ UNCHANGED <<reliable, early, tx, peerVars>>
-----------------------------------------------------------------------------
(* The peer: a TCP server that never shrinks its window.                   *)

PeerRecvSyn(m) ==
    /\ m.flags = "SYN"
    /\ \/ /\ peer = "LISTEN"
          /\ peer' = "SYN_RCVD"
          /\ peer_next' = m.seq + 1
          /\ peer_sent' = PeerISS + 1
          /\ in' = Put(in, Segment("SYNACK", PeerISS, peer_next', 0))
       \/ /\ peer = "LISTEN" /\ Refuses
          /\ peer' = "REFUSED"
          /\ in' = Put(in, Segment("RST", 0, m.seq + 1, 0))
          /\ UNCHANGED <<peer_next, peer_sent>>
       \/ /\ peer \in {"SYN_RCVD", "ESTABLISHED", "REFUSED"}
          /\ UNCHANGED <<peer, peer_next, peer_sent, in>>
    /\ UNCHANGED peer_unack

\* Data are taken in order only, and acknowledged.
PeerRecvAck(m) ==
    /\ m.flags = "ACK"
    /\ peer \in {"SYN_RCVD", "ESTABLISHED"}
    /\ peer' = IF m.ack > PeerISS THEN "ESTABLISHED" ELSE peer
    /\ peer_unack' = IF m.ack > peer_unack THEN m.ack ELSE peer_unack
    /\ peer_next' = IF m.seq = peer_next THEN m.seq + m.len ELSE peer_next
    /\ in' = IF m.len > 0
             THEN Put(in, Segment("ACK", peer_sent, peer_next', 0)) ELSE in
    /\ UNCHANGED peer_sent

\* After refusing, the peer has no connection the segment could be for.
PeerIgnores(m) ==
    /\ m.flags = "ACK"
    /\ peer \in {"LISTEN", "REFUSED"}
    /\ UNCHANGED <<peer, peer_next, peer_sent, peer_unack, in>>

PeerRecv ==
    \E m \in Ready(out) :
        /\ out' = Rest(out)
        /\ PeerRecvSyn(m) \/ PeerRecvAck(m) \/ PeerIgnores(m)
        /\ UNCHANGED <<reliable, early, session, tx, queue, peer_fin>>

PeerSend(n) ==
    /\ peer = "ESTABLISHED" /\ ~peer_fin
    /\ peer_sent + n <= PeerISS + 1 + PeerBytes[reliable]
    /\ in' = Put(in, Segment("ACK", peer_sent, peer_next, n))
    /\ peer_sent' = peer_sent + n
    /\ UNCHANGED <<reliable, early, session, tx, queue, out, peer, peer_next, peer_unack,
                   peer_fin>>

\* An unreliable network makes the peer send again what is not acknowledged.
PeerRetransmit ==
    /\ ~reliable
    /\ peer = "ESTABLISHED"
    /\ peer_unack < peer_sent
    /\ peer_unack > PeerISS
    /\ in' = Put(in, Segment("ACK", peer_unack, peer_next,
                             peer_sent - peer_unack))
    /\ UNCHANGED <<reliable, early, session, tx, queue, out, peerVars>>

PeerFin ==
    /\ peer = "ESTABLISHED" /\ ~peer_fin
    /\ peer_fin' = TRUE
    /\ in' = Put(in, Segment("FIN", peer_sent, peer_next, 0))
    /\ UNCHANGED <<reliable, early, session, tx, queue, out, peer, peer_next, peer_sent,
                   peer_unack>>
-----------------------------------------------------------------------------
LoopThread == Connect \/ Tx \/ AppTakes \/ \E n \in SegLens : Send(n)

PeerStep == PeerRecv \/ PeerRetransmit \/ PeerFin
            \/ \E n \in SegLens : PeerSend(n)

Next == LoopThread \/ Recv \/ PeerStep

Spec == Init /\ [][Next]_vars

(* Fairness: both threads of the daemon finish what they began, the IP      *)
(* thread receives what the network delivers, and so does the peer.        *)
FairSpec == Spec /\ WF_vars(Tx) /\ WF_vars(Recv) /\ WF_vars(PeerRecv)
-----------------------------------------------------------------------------
(* Properties.                                                             *)

Outgoing == IF reliable THEN {out[i] : i \in 1..Len(out)} ELSE out

\* Every variable keeps its type; the receive queue is never taken from when
\* it is empty (recvfrom of TcpSession's Endpoint).
TypeOK ==
    /\ conn_state \in {"CLOSED", "SYN_SENT", "ESTABLISHED"}
    /\ {send_unack, send_next, irs, recv_next, recvQ, peer_next, peer_sent,
        peer_unack} \subseteq Nat
    /\ {reliable, named, early, peer_fin} \subseteq BOOLEAN
    /\ tx.flags \in Flags
    /\ got \in Seq(Nat)
    /\ full \subseteq Nat
    /\ peer \in {"LISTEN", "SYN_RCVD", "ESTABLISHED", "REFUSED"}

\* The session acknowledges nothing the peer did not send, whatever order
\* segments come in: recv takes seq + length of a segment that was sent.
AcksOnlySent ==
    peer \in {"SYN_RCVD", "ESTABLISHED"} =>
        /\ recv_next <= peer_sent
        /\ \A m \in Outgoing : m.ack <= peer_sent

\* What is acknowledged was received, and what is received was sent: send_unack
\* never passes what the peer has, for acknowledgements that come twice, late or
\* out of order, and neither the peer nor a segment in flight is ever beyond
\* send_next, although send and recv run on two threads.
SendSideIsSound ==
    /\ (conn_state = "ESTABLISHED" /\ peer # "REFUSED") => send_unack <= peer_next
    /\ peer_next <= send_next
    /\ \A m \in Outgoing : m.flags = "ACK" => m.seq + m.len <= send_next

\* On a network that keeps order, what recv acknowledged is what it queued, in
\* order, without gap or repetition, but for what it dropped on a full queue.
StreamAccounted ==
    (reliable /\ conn_state = "ESTABLISHED" /\ peer # "REFUSED") =>
        /\ {got[i] : i \in 1..Len(got)} \cup full
                = (PeerISS + 1)..(recv_next - 1)
        /\ \A i, j \in 1..Len(got) : i < j => got[i] < got[j]
        /\ \A i \in 1..Len(got) : got[i] \notin full

\* TcpSession.cpp:154 asserts that a segment that arrives in SYN_SENT has SYN
\* and ACK set.
SynSentGetsSynAck ==
    conn_state = "SYN_SENT" => \A m \in Ready(in) : m.flags = "SYNACK"

\* The one thing that keeps connect() waiting on a network that keeps everything
\* is a send() before it, which uses up the SYN on 0.0.0.0:0: otherwise the
\* handshake completes on both sides, and then all that the application has sent
\* reaches the peer and is acknowledged, again and again; or the peer refuses.
ReliableProgress ==
    /\ []<>(reliable /\ named /\ ~early =>
               \/ peer = "ESTABLISHED" /\ conn_state = "ESTABLISHED"
               \/ peer = "REFUSED")
    /\ []<>(reliable /\ conn_state = "ESTABLISHED" =>
               \/ peer_next = send_next /\ send_unack = send_next
               \/ peer = "REFUSED")
=============================================================================
