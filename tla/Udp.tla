-------------------------------- MODULE Udp --------------------------------
(***************************************************************************)
(* UDP sessions and the demultiplexing of datagrams (veloxd/Session.h,     *)
(* Session.cpp, udp/Udp.cpp, udp/UdpSession.cpp).                          *)
(*                                                                         *)
(* Two threads share the sessions without a lock.  The event loop thread   *)
(* creates, connects, uses and closes them.  The IP thread walks the list  *)
(* of sessions for every datagram (Sessions::find) and reads the lport,    *)
(* fport and faddr of each, one after the other.  sendto(addr) connects,   *)
(* sends and disconnects, so the IP thread may read any state in between.  *)
(*                                                                         *)
(* Addresses and ports are small naturals, 0 the wildcard as in the code.  *)
(* A session is its position in Udp's pcbs list, which only grows; a       *)
(* session whose Endpoint was destroyed is an expired weak_ptr there.      *)
(***************************************************************************)
EXTENDS Integers, Sequences

CONSTANTS MaxSessions,  \* bound: sessions ever created
          Peers,        \* pairs <<address, port>>, neither of them 0
          LocalAddr,    \* Conf::stack.addr
          LAddrs,       \* destination addresses datagrams arrive with
          PortStart,    \* initial value of the port counter, 1024
          PortSpace     \* number of values of a uint16_t, 65536

ASSUME UdpAssumption ==
    /\ MaxSessions \in Nat
    /\ Peers \subseteq (Nat \ {0}) \X (Nat \ {0})
    /\ LocalAddr \in Nat \ {0} /\ LAddrs \subseteq Nat \ {0}
    /\ PortSpace \in Nat /\ PortStart \in 0..(PortSpace - 2)

Sessions == 1..MaxSessions
LPorts == 0..(PortSpace - 1)
Nobody == <<0, 0>>

\* What the IP thread is given: source, destination address and port.
Datagrams == [peer : Peers, laddr : LAddrs, lport : LPorts]

VARIABLES
    pcbs,      \* Udp::Impl::pcbs
    port,      \* the static counter of nextAvailPort
    loop,      \* the loop thread: where it stands in connect or sendto
    sent,      \* the last datagram given to Ip::tx
    ip,        \* the IP thread: where it stands in Udp::rx
    disturbed, \* history: sessions written to since ip began its lookup
    daemon     \* "up" or "crashed"

vars == <<pcbs, port, loop, sent, ip, disturbed, daemon>>

Idle == [at |-> "idle", s |-> 0, peer |-> Nobody]
NoDatagram == [s |-> 0, peer |-> Nobody, lport |-> 0]
NoRx == [at |-> "idle", d |-> [peer |-> Nobody, laddr |-> 0, lport |-> 0],
         n |-> 0, i |-> 0, accum |-> 0, best |-> 0, score |-> -1]

Init ==
    /\ pcbs = <<>>
    /\ port = PortStart
    /\ loop = Idle
    /\ sent = NoDatagram
    /\ ip = NoRx
    /\ disturbed = {}
    /\ daemon = "up"

Live(s) == s \in DOMAIN pcbs /\ pcbs[s].alive
-----------------------------------------------------------------------------
(* The event loop thread.                                                  *)

\* Mutant: the counter is wider than 16 bits.
nextAvailPort_NoWrap == port + 1

\* The port given next: the counter is incremented first, and wraps to 0.
nextAvailPort == (port + 1) % PortSpace

\* Session::bind: a session whose lport is 0 is given the next port, which is
\* 0 when the counter wraps.  f holds the other fields written with it.
BindAnd(s, f) ==
    LET new == pcbs[s].lport = 0
    IN  /\ pcbs' = [pcbs EXCEPT ![s] =
                       [f EXCEPT !.lport = IF new THEN nextAvailPort ELSE @]]
        /\ port' = IF new THEN nextAvailPort ELSE port

Touch(s) == disturbed' = IF ip.at = "idle" THEN {} ELSE disturbed \cup {s}

\* Udp::newSession: faddr, fport and lport are 0.
NewSession ==
    /\ loop.at = "idle" /\ Len(pcbs) < MaxSessions
    /\ pcbs' = Append(pcbs, [alive |-> TRUE, faddr |-> 0, fport |-> 0, lport |-> 0])
    /\ UNCHANGED <<port, loop, sent, ip, disturbed, daemon>>

\* The channel of the socket goes away, and with it its Endpoint and the
\* Endpoint's reference to the session.
Close(s) ==
    /\ loop.at = "idle" /\ Live(s)
    /\ pcbs' = [pcbs EXCEPT ![s].alive = FALSE]
    /\ Touch(s)
    /\ UNCHANGED <<port, loop, sent, ip, daemon>>

\* connect(p) on a UDP socket: Session::connect writes faddr first.
Connect(s, p) ==
    /\ loop.at = "idle" /\ Live(s)
    /\ pcbs' = [pcbs EXCEPT ![s].faddr = p[1]]
    /\ loop' = [at |-> "connect", s |-> s, peer |-> p]
    /\ Touch(s)
    /\ UNCHANGED <<port, sent, ip, daemon>>

\* sendto(p): Session::send(addr) binds; its EISCONN is not looked at.
SendTo(s, p) ==
    /\ loop.at = "idle" /\ Live(s)
    /\ BindAnd(s, pcbs[s])
    /\ loop' = [at |-> "addr", s |-> s, peer |-> p]
    /\ Touch(s)
    /\ UNCHANGED <<sent, ip, daemon>>

\* ... then connects: faddr,
SendToSetsAddr ==
    /\ loop.at = "addr"
    /\ pcbs' = [pcbs EXCEPT ![loop.s].faddr = loop.peer[1]]
    /\ loop' = [loop EXCEPT !.at = "port"]
    /\ Touch(loop.s)
    /\ UNCHANGED <<port, sent, ip, daemon>>

\* Mutant: a session that has a port is given another one.
SetsPort_Rebinds ==
    /\ loop.at \in {"connect", "port"}
    /\ pcbs' = [pcbs EXCEPT ![loop.s].fport = loop.peer[2],
                            ![loop.s].lport = nextAvailPort]
    /\ port' = nextAvailPort
    /\ loop' = IF loop.at = "connect" THEN Idle ELSE [loop EXCEPT !.at = "tx"]
    /\ Touch(loop.s)
    /\ UNCHANGED <<sent, ip, daemon>>

\* ... and, as in connect(p), fport, and a port of its own if it has none.
SetsPort ==
    /\ loop.at \in {"connect", "port"}
    /\ BindAnd(loop.s, [pcbs[loop.s] EXCEPT !.fport = loop.peer[2]])
    /\ loop' = IF loop.at = "connect" THEN Idle ELSE [loop EXCEPT !.at = "tx"]
    /\ Touch(loop.s)
    /\ UNCHANGED <<sent, ip, daemon>>

\* UdpSession::send(buf): binds if need be and hands IP a datagram with the
\* session's fields, whether connected or not (ENOTCONN is not looked at).
Transmit(s) ==
    /\ BindAnd(s, pcbs[s])
    /\ sent' = [s |-> s, peer |-> <<pcbs[s].faddr, pcbs[s].fport>>,
                lport |-> pcbs'[s].lport]
    /\ Touch(s)
    /\ UNCHANGED <<ip, daemon>>

Send(s) ==
    /\ loop.at = "idle" /\ Live(s)
    /\ Transmit(s)
    /\ UNCHANGED loop

SendToTransmits ==
    /\ loop.at = "tx"
    /\ Transmit(loop.s)
    /\ loop' = [loop EXCEPT !.at = "clearaddr"]

\* Session::disconnect: faddr, then fport.
DisconnectAddr ==
    /\ loop.at = "clearaddr"
    /\ pcbs' = [pcbs EXCEPT ![loop.s].faddr = 0]
    /\ loop' = [loop EXCEPT !.at = "clearport"]
    /\ Touch(loop.s)
    /\ UNCHANGED <<port, sent, ip, daemon>>

DisconnectPort ==
    /\ loop.at = "clearport"
    /\ pcbs' = [pcbs EXCEPT ![loop.s].fport = 0]
    /\ loop' = Idle
    /\ Touch(loop.s)
    /\ UNCHANGED <<port, sent, ip, daemon>>
-----------------------------------------------------------------------------
(* The IP thread.                                                          *)

in_addr_match(ours, theirs) ==
    IF ours = 0 THEN 0 ELSE IF ours = theirs THEN 1 ELSE -1

\* The step to the next session of the list, or to the end of find.
Continue(r) ==
    [r EXCEPT !.i = @ + 1, !.accum = 0, !.at = IF r.i < r.n THEN "lport" ELSE "found"]

IpOnly == UNCHANGED <<pcbs, port, loop, sent, daemon>>

\* Udp::rx takes the addresses and ports of the datagram; find works on a copy
\* of the list of weak_ptrs, which does not have the sessions created later.
Rx(d) ==
    /\ ip.at = "idle"
    /\ ip' = Continue([NoRx EXCEPT !.d = d, !.n = Len(pcbs)])
    /\ disturbed' = IF loop.at = "idle" THEN {} ELSE {loop.s}
    /\ IpOnly

\* Mutant: an expired session is not passed over.
FindLPort_KeepsExpired ==
    /\ ip.at = "lport"
    /\ ip' = IF pcbs[ip.i].lport = ip.d.lport
             THEN [ip EXCEPT !.accum = 1, !.at = "fport"]
             ELSE Continue(ip)
    /\ UNCHANGED disturbed /\ IpOnly

\* An expired session is passed over, and one with another lport.
FindLPort ==
    /\ ip.at = "lport"
    /\ ip' = IF pcbs[ip.i].alive /\ pcbs[ip.i].lport = ip.d.lport
             THEN [ip EXCEPT !.accum = 1, !.at = "fport"]
             ELSE Continue(ip)
    /\ UNCHANGED disturbed /\ IpOnly

\* A connected session must have the datagram's source port.
FindFPort ==
    /\ ip.at = "fport"
    /\ ip' = CASE pcbs[ip.i].fport = 0 -> [ip EXCEPT !.at = "addrs"]
               [] pcbs[ip.i].fport = ip.d.peer[2] ->
                      [ip EXCEPT !.accum = @ + 1, !.at = "addrs"]
               [] OTHER -> Continue(ip)
    /\ UNCHANGED disturbed /\ IpOnly

\* Mutant: the last of equal sessions is kept, not the first.
FindAddrs_LastOfEquals ==
    LET f == in_addr_match(pcbs[ip.i].faddr, ip.d.peer[1])
        l == in_addr_match(LocalAddr, ip.d.laddr)
        accum == ip.accum + f + l
    IN  /\ ip.at = "addrs"
        /\ ip' = IF f # -1 /\ l # -1 /\ accum >= ip.score
                 THEN Continue([ip EXCEPT !.best = ip.i, !.score = accum])
                 ELSE Continue(ip)
        /\ UNCHANGED disturbed /\ IpOnly

\* Both addresses must match; the session is kept if it scores strictly more
\* than the best one so far.
FindAddrs ==
    LET f == in_addr_match(pcbs[ip.i].faddr, ip.d.peer[1])
        l == in_addr_match(LocalAddr, ip.d.laddr)
        accum == ip.accum + f + l
    IN  /\ ip.at = "addrs"
        /\ ip' = IF f # -1 /\ l # -1 /\ accum > ip.score
                 THEN Continue([ip EXCEPT !.best = ip.i, !.score = accum])
                 ELSE Continue(ip)
        /\ UNCHANGED disturbed /\ IpOnly

\* No session: the datagram is dropped.
RxDrops ==
    /\ ip.at = "found" /\ ip.best = 0
    /\ ip' = NoRx /\ disturbed' = {}
    /\ IpOnly

\* UdpSession::recv hands the datagram to the session's Endpoint (putToRecvQ,
\* module Endpoint).  It does not test the result of socket().lock(): find's
\* reference keeps the session, nothing keeps the Endpoint, and a call through
\* the null pointer ends the daemon.
RxDelivers ==
    /\ ip.at = "found" /\ ip.best # 0
    /\ daemon' = IF pcbs[ip.best].alive THEN "up" ELSE "crashed"
    /\ ip' = IF pcbs[ip.best].alive THEN NoRx ELSE ip
    /\ disturbed' = IF pcbs[ip.best].alive THEN {} ELSE disturbed
    /\ UNCHANGED <<pcbs, port, loop, sent>>
-----------------------------------------------------------------------------
LoopThread ==
    \/ NewSession
    \/ \E s \in Sessions : Close(s) \/ Send(s)
    \/ \E s \in Sessions, p \in Peers : Connect(s, p) \/ SendTo(s, p)
    \/ SendToSetsAddr \/ SetsPort \/ SendToTransmits
    \/ DisconnectAddr \/ DisconnectPort

IpThread ==
    \/ \E d \in Datagrams : Rx(d)
    \/ FindLPort \/ FindFPort \/ FindAddrs \/ RxDrops \/ RxDelivers

Next == daemon = "up" /\ (LoopThread \/ IpThread)

Spec == Init /\ [][Next]_vars
-----------------------------------------------------------------------------
(* Properties.                                                             *)

\* Every variable keeps its type; in particular the port counter stays a
\* uint16_t when nextAvailPort wraps, and a lookup stays within the list.
TypeOK ==
    /\ pcbs \in Seq([alive : BOOLEAN, faddr : {0} \cup {p[1] : p \in Peers},
                     fport : {0} \cup {p[2] : p \in Peers}, lport : LPorts])
    /\ Len(pcbs) <= MaxSessions
    /\ port \in LPorts
    /\ loop \in [at : {"idle", "connect", "addr", "port", "tx", "clearaddr", "clearport"},
                 s : {0} \cup Sessions, peer : Peers \cup {Nobody}]
    /\ sent.lport \in LPorts
    /\ ip.at \in {"idle", "lport", "fport", "addrs", "found"}
    /\ ip.n <= Len(pcbs) /\ ip.best \in 0..ip.n
    /\ ip.at \in {"lport", "fport", "addrs"} => ip.i \in 1..ip.n
    /\ disturbed \subseteq Sessions
    /\ daemon \in {"up", "crashed"}

\* When a session may be given datagram d, and how well it fits.
Matches(s, d) ==
    /\ Live(s)
    /\ pcbs[s].lport = d.lport
    /\ pcbs[s].fport \in {0, d.peer[2]}
    /\ pcbs[s].faddr \in {0, d.peer[1]}
    /\ LocalAddr = d.laddr

Fields(s) ==
    2 + (IF pcbs[s].fport # 0 THEN 1 ELSE 0) + (IF pcbs[s].faddr # 0 THEN 1 ELSE 0)

\* Sessions::find is right about every session the loop thread left alone
\* during the lookup, whatever it did to the others meanwhile: none that
\* matches is missed or beaten by a worse one, the first in the list wins
\* among equals, and one that is chosen does match.
FindIsBestMatch ==
    ip.at = "found" =>
        /\ \A s \in (1..ip.n) \ disturbed :
              Matches(s, ip.d) =>
                 /\ ip.best # 0 /\ ip.score >= Fields(s)
                 /\ ip.score = Fields(s) => ip.best <= s
        /\ ip.best \notin disturbed \cup {0} => Matches(ip.best, ip.d)

\* What a session sent can be answered: while the session is open, and its
\* last operation done and not a connect to somebody else, a datagram from the
\* peer back to the port it was sent from matches the session again.  (A send
\* from port 0, after the counter wrapped, is the exception.)
AnswerMatchesSender ==
    LET s == sent.s
        answer == [peer |-> sent.peer, laddr |-> LocalAddr, lport |-> sent.lport]
    IN  /\ s # 0 /\ sent.lport # 0 /\ sent.peer # Nobody
        /\ loop.at = "idle" /\ Live(s)
        /\ <<pcbs[s].faddr, pcbs[s].fport>> \in {Nobody, sent.peer}
        => Matches(s, answer)

\* UdpSession::recv goes through a null Endpoint only when the socket was
\* closed while its datagram was on the way from find to recv: a socket closed
\* before the lookup began is never chosen.
CrashNeedsCloseDuringRx ==
    daemon = "crashed" => ip.best \in disturbed /\ ~Live(ip.best)
=============================================================================
