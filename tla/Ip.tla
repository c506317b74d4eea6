--------------------------------- MODULE Ip ---------------------------------
(***************************************************************************)
(* The IP layer between the TUN device and the transports (veloxd/ip/      *)
(* Ip.cpp, IpHdr.cpp, interface/Interface.cpp, TunIface.cpp), and the end  *)
(* of the daemon that a failing device brings about (Veloxd.cpp).          *)
(*                                                                         *)
(* Three threads: the TUN thread reads packets and queues them; the IP     *)
(* thread takes them, reassembles fragments and calls Tcp::rx or Udp::rx;  *)
(* both the IP thread (acknowledging) and the event loop thread (sending)  *)
(* transmit through Ip::tx, which draws the packet's id from a counter     *)
(* without a lock.                                                         *)
(*                                                                         *)
(* A packet is a pair <<d, i>>, the i-th fragment of datagram d.  The      *)
(* network may lose, repeat and reorder.                                   *)
(***************************************************************************)
EXTENDS Naturals, Sequences, FiniteSets, Functions, Reassembler, Csum16

CONSTANTS
    Datagrams,  \* records: version, short, protocol, key, frags; see Packets
    LAddr,      \* Session::laddr, four bytes
    FAddr,      \* Session::faddr, four bytes
    Ports,      \* lport and fport, four bytes
    Seqs,       \* sequence and acknowledgement numbers, eight bytes
    Payloads,   \* what may be transmitted: sequences of bytes
    UINT16_MAX, \* the largest id, 65535
    Workloads,  \* bound, records: which datagrams come (datagrams), how many
                \* packets the network repeats (repeats) and how many packets
                \* are transmitted (transmits)
    MaxRxQ      \* bound: packets in rxQ

ASSUME IpAssumption ==
    /\ UINT16_MAX \in Nat \ {0} /\ UINT16_MAX < Word
    /\ LAddr \in [1..4 -> Bytes] /\ FAddr \in [1..4 -> Bytes] /\ Ports \in [1..4 -> Bytes]
    /\ Seqs \in [1..8 -> Bytes]
    /\ \A buf \in Payloads : buf \in Seq(Bytes) /\ Len(buf) + 40 < Word
    /\ MaxRxQ \in Nat
    /\ Workloads \subseteq [datagrams : SUBSET Datagrams, repeats : Nat, transmits : Nat]

\* What a sender makes of a datagram (RFC 791): its fragments follow one another
\* without a gap, all but the last have MF, and the total length has 16 bits.  The
\* key (id, protocol and addresses) may be that of another datagram: the id has 16
\* bits, and a group that is never completed stays in defragCtxList for good.
ASSUME DatagramAssumption ==
    \A d \in Datagrams :
        /\ d \in [version : Nat, short : BOOLEAN, protocol : STRING, key : Nat,
                  frags : Seq([off : Nat, mf : BOOLEAN, len : Nat \ {0}])]
        /\ d.frags # <<>>
        /\ \A i \in DOMAIN d.frags :
              /\ 8 * d.frags[i].off = IF i = 1 THEN 0 ELSE End(d.frags[i - 1])
              /\ d.frags[i].mf <=> i < Len(d.frags)
        /\ IpHdrLen + End(d.frags[Len(d.frags)]) < Word
        /\ \A e \in Datagrams : d.key = e.key => d.protocol = e.protocol

Packets == UNION {{d} \X (1..Len(d.frags)) : d \in Datagrams}
TxThreads == {"loop", "ip"}

\* The fragment in packet p, for Defrag; it remembers the packet.
Frag(p) ==
    LET f == p[1].frags[p[2]]
    IN  [key |-> p[1].key, off |-> f.off, mf |-> f.mf, len |-> f.len, of |-> p]

VARIABLES
    air,      \* packets the network may still deliver
    repeats,  \* how many it may still repeat
    transmits, \* how many packets are still to be transmitted
    tun,      \* the TUN thread: "read", "stopped", "exit"
    rxQ,      \* Ip::Impl::rxQ
    read,     \* history: the unfragmented packets put into rxQ
    ipAt,     \* the IP thread: "test" (stopflag), "wait", "tx", "ended"
    groups,   \* Reassembler::Impl::defragCtxList
    seen,     \* history: seen[d], the fragments of d given to defrag
    up,       \* the packets given to Tcp::rx and Udp::rx
    late,     \* history: packets taken from rxQ after Ip::stop
    stopflag, \* Ip::Impl::stopflag
    last,     \* IpIdGenerator::last
    tx,       \* tx[t]: where thread t is in Ip::tx
    drawn,    \* history: the ids in the order in which they were drawn
    raced,    \* history: both threads have been in IpIdGenerator::next at once
    sent,     \* the packets written to the device
    daemon    \* "up", "gone" (exit status FAILURE), "crashed"

netVars == <<air, repeats>>
ipVars == <<ipAt, groups, seen, up, late>>
txVars == <<last, tx, drawn, raced, sent, transmits>>
vars == <<netVars, tun, rxQ, read, ipVars, stopflag, txVars, daemon>>

ACK == 16
NoTx == [at |-> "idle", buf |-> <<>>, id |-> 0, nth |-> 0]

Init ==
    /\ \E w \in Workloads :
          /\ air = {p \in Packets : p[1] \in w.datagrams}
          /\ repeats = w.repeats
          /\ transmits = w.transmits
    /\ tun = "read"
    /\ rxQ = <<>>
    /\ read = <<>>
    /\ ipAt = "test"
    /\ groups = <<>>
    /\ seen = [d \in Datagrams |-> <<>>]
    /\ up = <<>>
    /\ late = 0
    /\ stopflag = FALSE
    /\ last = 0
    /\ tx = [t \in TxThreads |-> NoTx]
    /\ drawn = <<>>
    /\ raced = FALSE
    /\ sent = <<>>
    /\ daemon = "up"
-----------------------------------------------------------------------------
(* The TUN thread.  A packet that stays in the air is lost.                *)

\* Mutant: the newest packet is put at the head of the queue.
enRxQue_PutsFirst(p) == IF p[1].version = 4 THEN <<p>> \o rxQ ELSE rxQ

\* Ip::enRxQue: a packet that is not version 4 is dropped.
enRxQue(p) == IF p[1].version = 4 THEN Append(rxQ, p) ELSE rxQ

\* TunIface::rx: the network delivers p, for the last time or not.
TunRx(p, again) ==
    /\ daemon = "up"
    /\ tun = "read"
    /\ p \in air
    /\ Len(rxQ) < MaxRxQ
    /\ again => repeats > 0
    /\ repeats' = IF again THEN repeats - 1 ELSE repeats
    /\ air' = IF again THEN air ELSE air \ {p}
    /\ rxQ' = enRxQue(p)
    /\ read' = IF p[1].version = 4 /\ ~p[1].short /\ ~isFrag(Frag(p))
               THEN Append(read, p) ELSE read
    /\ UNCHANGED <<tun, ipVars, stopflag, txVars, daemon>>

\* read fails: Veloxd::stop sets the stop flags ...
TunRxFails ==
    /\ daemon = "up"
    /\ tun = "read"
    /\ tun' = "stopped"
    /\ stopflag' = TRUE
    /\ UNCHANGED <<netVars, rxQ, read, ipVars, txVars, daemon>>

\* ... and Veloxd::exit ends the process: first the singletons are destroyed,
\* under the other threads,
TunExits ==
    /\ daemon = "up"
    /\ tun = "stopped"
    /\ tun' = "exit"
    /\ UNCHANGED <<netVars, rxQ, read, ipVars, stopflag, txVars, daemon>>

\* then it is gone.
TunGone ==
    /\ daemon = "up"
    /\ tun = "exit"
    /\ daemon' = "gone"
    /\ UNCHANGED <<netVars, tun, rxQ, read, ipVars, stopflag, txVars>>

\* What a thread may meet that runs on while the singletons are destroyed.
Survives == daemon' \in IF tun = "exit" THEN {"up", "crashed"} ELSE {"up"}
-----------------------------------------------------------------------------
(* The IP thread.                                                          *)

\* Mutant: the condition of the loop is not looked at.
IpTests_Forever ==
    /\ daemon = "up"
    /\ ipAt = "test"
    /\ ipAt' = "wait"
    /\ UNCHANGED <<netVars, tun, rxQ, read, groups, seen, up, late, stopflag,
                   txVars, daemon>>

\* The condition of its loop.
IpTests ==
    /\ daemon = "up"
    /\ ipAt = "test"
    /\ ipAt' = IF stopflag THEN "ended" ELSE "wait"
    /\ UNCHANGED <<netVars, tun, rxQ, read, groups, seen, up, late, stopflag,
                   txVars, daemon>>

\* A packet p comes out of wait_dequeue.
IpTakes(p) ==
    /\ daemon = "up"
    /\ ipAt = "wait"
    /\ rxQ # <<>>
    /\ p = Head(rxQ)
    /\ rxQ' = Tail(rxQ)
    /\ late' = IF stopflag THEN late + 1 ELSE late
    /\ UNCHANGED <<netVars, tun, read, stopflag>>

\* Demultiplexing of the chain of buffers c, with protocol of d.  IP, ICMP and
\* IGMP are dropped; Tcp::rx may acknowledge.
Demux(d, c) ==
    /\ up' = IF d.protocol \in {"TCP", "UDP"} THEN Append(up, c) ELSE up
    /\ \E ack \in BOOLEAN :
          /\ ack => d.protocol = "TCP" /\ transmits > 0
          /\ transmits' = IF ack THEN transmits - 1 ELSE transmits
          /\ ipAt' = IF ack THEN "tx" ELSE "test"
          /\ tx' = IF ack THEN [tx EXCEPT !["ip"] = [NoTx EXCEPT !.at = "next"]]
                          ELSE tx
    /\ UNCHANGED <<last, drawn, raced, sent>>

\* Mutant: the thread returns instead of going on.
IpRxShort_Returns(p) ==
    /\ IpTakes(p)
    /\ p[1].short
    /\ ipAt' = "ended"
    /\ Survives
    /\ UNCHANGED <<groups, seen, up, txVars>>

\* Shorter than an IP header: dropped.
IpRxShort(p) ==
    /\ IpTakes(p)
    /\ p[1].short
    /\ ipAt' = "test"
    /\ Survives
    /\ UNCHANGED <<groups, seen, up, txVars>>

IpRxWhole(p) ==
    /\ IpTakes(p)
    /\ ~p[1].short
    /\ ~isFrag(Frag(p))
    /\ Demux(p[1], <<Frag(p)>>)
    /\ Survives
    /\ UNCHANGED <<groups, seen>>

\* The group's fragments before p.
Before(p) ==
    LET gs == FindGroup(groups, Frag(p)) IN gs[GroupOf(gs, p[1].key)].frags

\* defrag; a null prev in it is the end of the daemon.
IpRxFragment(p) ==
    LET r == Defrag(groups, Frag(p))
    IN  /\ IpTakes(p)
        /\ ~p[1].short
        /\ isFrag(Frag(p))
        /\ seen' = [seen EXCEPT ![p[1]] = Append(@, p[2])]
        /\ IF PrevIsNull(Before(p), Frag(p))
           THEN daemon' = "crashed" /\ UNCHANGED <<ipAt, groups, up, txVars>>
           ELSE /\ groups' = r.groups
                /\ Survives
                /\ IF r.packet = <<>>
                   THEN ipAt' = "test" /\ UNCHANGED <<up, txVars>>
                   ELSE Demux(p[1], r.packet)
-----------------------------------------------------------------------------
(* Ip::tx on either thread.                                                *)

TxOnly == UNCHANGED <<netVars, tun, rxQ, read, groups, seen, up, late, stopflag>>

InNext(t) == tx[t].at \in {"inc", "store"}

\* A call of send() on the event loop thread.
LoopSends(buf) ==
    /\ daemon = "up"
    /\ tx["loop"].at = "idle"
    /\ transmits > 0
    /\ transmits' = transmits - 1
    /\ tx' = [tx EXCEPT !["loop"] = [NoTx EXCEPT !.at = "next", !.buf = buf]]
    /\ UNCHANGED <<last, drawn, raced, sent, ipAt, daemon>> /\ TxOnly

\* Mutant: no test for the largest id.
NextTests_NoWrap(t) ==
    /\ daemon = "up"
    /\ tx[t].at = "next"
    /\ last' = last
    /\ tx' = [tx EXCEPT ![t].at = "inc"]
    /\ raced' = (raced \/ \E u \in TxThreads \ {t} : InNext(u))
    /\ UNCHANGED <<drawn, sent, transmits, ipAt>> /\ TxOnly /\ Survives

\* IpIdGenerator::next: back to 0 after the largest id,
NextTests(t) ==
    /\ daemon = "up"
    /\ tx[t].at = "next"
    /\ last' = IF last = UINT16_MAX THEN 0 ELSE last
    /\ tx' = [tx EXCEPT ![t].at = "inc"]
    /\ raced' = (raced \/ \E u \in TxThreads \ {t} : InNext(u))
    /\ UNCHANGED <<drawn, sent, transmits, ipAt>> /\ TxOnly /\ Survives

\* ++last is a load
NextLoads(t) ==
    /\ daemon = "up"
    /\ tx[t].at = "inc"
    /\ tx' = [tx EXCEPT ![t].at = "store", ![t].id = (last + 1) % (UINT16_MAX + 1)]
    /\ UNCHANGED <<last, drawn, raced, sent, transmits, ipAt>> /\ TxOnly /\ Survives

\* and a store.
NextStores(t) ==
    /\ daemon = "up"
    /\ tx[t].at = "store"
    /\ last' = tx[t].id
    /\ drawn' = Append(drawn, tx[t].id)
    /\ tx' = [tx EXCEPT ![t].at = "tx", ![t].nth = Len(drawn) + 1]
    /\ UNCHANGED <<raced, sent, transmits, ipAt>> /\ TxOnly /\ Survives

\* prepareBeforeIpTx, the header, and writev of one packet.
Transmits(t) ==
    /\ daemon = "up"
    /\ tx[t].at = "tx"
    /\ LET buf == tx[t].buf
       IN  sent' = Append(sent,
               [id |-> tx[t].id, nth |-> tx[t].nth, buf |-> buf,
                check |-> IpCheck(Len(buf) + 40, tx[t].id, 6, LAddr, FAddr),
                tcpCheck |-> TcpCheck(Ports, Seqs, ACK, LAddr, FAddr, buf)])
    /\ tx' = [tx EXCEPT ![t] = NoTx]
    /\ ipAt' = IF t = "ip" THEN "test" ELSE ipAt
    /\ UNCHANGED <<last, drawn, raced, transmits>> /\ TxOnly /\ Survives
-----------------------------------------------------------------------------
TunThread ==
    \/ \E p \in air, again \in BOOLEAN : TunRx(p, again)
    \/ TunRxFails \/ TunExits \/ TunGone

TxStep(t) == NextTests(t) \/ NextLoads(t) \/ NextStores(t) \/ Transmits(t)

IpThread ==
    \/ IpTests
    \/ \E p \in Range(rxQ) :
          IpRxShort(p) \/ IpRxWhole(p) \/ IpRxFragment(p)
    \/ TxStep("ip")

LoopThread == TxStep("loop") \/ \E buf \in Payloads : LoopSends(buf)

Next == TunThread \/ IpThread \/ LoopThread

\* The IP thread runs whenever it can.
Spec == Init /\ [][Next]_vars /\ WF_vars(IpThread)
-----------------------------------------------------------------------------
(* Properties.                                                             *)

Whole(d) == [i \in DOMAIN d.frags |-> Frag(<<d, i>>)]
Delivered(d) == \E k \in DOMAIN up : up[k] = Whole(d)

\* Every variable keeps its type; no group of defragCtxList is empty, is one that
\* step 4 would find complete, or is the second with its key, so that step 1 finds
\* the right one.
TypeOK ==
    /\ air \subseteq Packets
    /\ repeats \in Nat /\ transmits \in Nat
    /\ tun \in {"read", "stopped", "exit"}
    /\ rxQ \in Seq(Packets) /\ Len(rxQ) <= MaxRxQ
    /\ read \in Seq(Packets)
    /\ ipAt \in {"test", "wait", "tx", "ended"}
    /\ \A i \in DOMAIN groups :
          /\ groups[i].frags # <<>> /\ ~Present(groups[i].frags)
          /\ \A j \in DOMAIN groups : groups[i].key = groups[j].key => i = j
    /\ late \in Nat /\ last \in 0..UINT16_MAX
    /\ stopflag \in BOOLEAN /\ raced \in BOOLEAN
    /\ \A t \in TxThreads : tx[t].at \in {"idle", "next", "inc", "store", "tx"}
    /\ daemon \in {"up", "gone", "crashed"}

\* What Tcp::rx and Udp::rx are given has one key and the tot_len of its last
\* fragment's datagram, and unless it is put together from datagrams that share the
\* key it is one datagram, all its fragments once and in order: however the network
\* loses, repeats and reorders them, and with the groups of other datagrams, some
\* of them never to be completed, in defragCtxList.
WholeDatagrams ==
    \A k \in DOMAIN up :
        LET d == up[k][1].of[1]
            n == Len(up[k])
        IN  /\ \A i \in 1..n : up[k][i].of[1].key = d.key
            /\ TotLen(up[k]) = IpHdrLen + End(up[k][n])
            /\ (\A i \in 1..n : up[k][i].of[1] = d) => up[k] = Whole(d)

\* FrameBuf.h: the "user payload in [begin, end)".  So of a UDP datagram recvfrom
\* returns what was sent: the datagram without its headers.  (defrag adds ihl, a
\* count of words, to find where a later fragment's data begin.)
PayloadIsTheUsers ==
    \A k \in DOMAIN up :
        LET d == up[k][1].of[1]
        IN  d.protocol = "UDP" /\ up[k] = Whole(d) =>
               Drained(up[k]) = End(d.frags[Len(d.frags)]) - 8

\* A datagram's fragments have all come, once each, every one of them before or
\* behind all those that were there; of one behind, the offset that was not byte
\* swapped is above theirs as well.
CameFromOutside(d) ==
    /\ Len(seen[d]) = Len(d.frags)
    /\ Range(seen[d]) = DOMAIN d.frags
    /\ \A k \in DOMAIN seen[d] :
          \/ \A j \in 1..(k - 1) : seen[d][j] > seen[d][k]
          \/ \A j \in 1..(k - 1) :
                /\ seen[d][j] < seen[d][k]
                /\ Frag(<<d, seen[d][j]>>).off < RawOffset(Frag(<<d, seen[d][k]>>))

\* Of the other datagrams with the key of d no fragment has come.
Alone(d) == \A e \in Datagrams \ {d} : e.key = d.key => seen[e] = <<>>

\* defrag completes a TCP or UDP datagram whose fragments come in order, or in
\* reverse, or each outside those before it, whatever else comes in between.
\* (Fragments of another datagram with its key go into its group.  A fragment that
\* comes between two others is put behind them and its datagram is lost, since
\* step 3 compares an offset that was not byte swapped.  For some offsets the
\* fragment goes astray even in order.)
OutsideInIsCompleted ==
    \A d \in Datagrams :
        CameFromOutside(d) /\ Alone(d) /\ Len(d.frags) > 1 /\ d.protocol \in {"TCP", "UDP"}
        => Delivered(d)

\* The unfragmented ones of the first k packets given to the transports, and
\* those for a transport of the first k read.
WholeUp(k) == {i \in 1..k : ~isFrag(up[i][1])}
ForTransport(k) == {i \in 1..k : read[i][1].protocol \in {"TCP", "UDP"}}

\* Packets that need no reassembly reach the transports in the order in which
\* they came from the device, and none is left out but those of a protocol
\* without a transport: the n-th to be delivered is the n-th that came.
WholePacketsInOrder ==
    \A k \in WholeUp(Len(up)) : \E j \in ForTransport(Len(read)) :
        /\ up[k][1].of = read[j]
        /\ Cardinality(WholeUp(k)) = Cardinality(ForTransport(j))

\* After Ip::stop the IP thread takes at most the one packet it was waiting
\* for.  The daemon crashes only once the TUN thread is inside ::exit, or in
\* defrag at a fragment whose offset, not byte swapped, is not above that of
\* another fragment with its key which it belongs behind or repeats.
StopIsHeeded ==
    /\ late <= 1
    /\ daemon = "crashed" =>
          \/ tun = "exit"
          \/ \E d, e \in Datagrams : \E l \in DOMAIN seen[d], k \in DOMAIN seen[e] :
                LET f == Frag(<<d, seen[d][l]>>)
                    g == Frag(<<e, seen[e][k]>>)
                IN  /\ d.key = e.key /\ (d = e => k < l)
                    /\ RawOffset(f) <= g.off /\ g.off <= f.off

\* As long as the two threads have not been in IpIdGenerator::next together,
\* every packet has a draw of its own, no id is 0, and any UINT16_MAX ids drawn
\* in a row are different.  (The threads may pass each other between next and
\* writev.)
IdsDistinct ==
    ~raced =>
        /\ \A m, n \in DOMAIN drawn :
              /\ drawn[n] # 0
              /\ m < n /\ n - m < UINT16_MAX => drawn[m] # drawn[n]
        /\ \A i, j \in DOMAIN sent :
              /\ sent[i].nth \in DOMAIN drawn /\ sent[i].id = drawn[sent[i].nth]
              /\ sent[i].nth = sent[j].nth => i = j

\* A receiver that follows RFC 791 and 793 accepts both checksums of every
\* packet sent, also for a payload of odd length and sums that carry.
ChecksumsVerify ==
    \A i \in DOMAIN sent :
        LET p == sent[i]
        IN  /\ Verifies(IpHdr(Len(p.buf) + 40, p.id, 6, InMemory(p.check), LAddr, FAddr))
            /\ Verifies(LAddr \o FAddr \o <<0, 6>> \o htons(Len(p.buf) + 20)
                        \o TcpHdr(Ports, Seqs, ACK, InMemory(p.tcpCheck)) \o p.buf)

\* The IP thread catches up: when no more packets come rxQ is emptied, unless
\* the daemon ends.
RxQIsEmptied == <>[](rxQ = <<>> \/ stopflag \/ daemon = "crashed")
=============================================================================
