----------------------------- MODULE UdpProofs ------------------------------
(***************************************************************************)
(* Proofs about module Udp, for any number of sessions, any peers and any  *)
(* size of the port space.                                                 *)
(***************************************************************************)
EXTENDS Udp, TLAPS

FAddrs == {0} \cup {p[1] : p \in Peers}
FPorts == {0} \cup {p[2] : p \in Peers}
Pcbs == [alive : BOOLEAN, faddr : FAddrs, fport : FPorts, lport : LPorts]
Scanning == {"lport", "fport", "addrs"}

\* What TypeOK leaves open: the loop thread is inside an operation only on a
\* session that there is, and the records of the two threads have their types.
Typed ==
    /\ TypeOK
    /\ loop.at # "idle" => loop.s \in 1..Len(pcbs) /\ loop.peer \in Peers
    /\ sent \in [s : {0} \cup Sessions, peer : FAddrs \X FPorts, lport : LPorts]
    /\ sent.s <= Len(pcbs)
    /\ ip \in [at : {"idle", "found"} \cup Scanning, d : Datagrams \cup {NoRx.d},
               n : Nat, i : Nat, accum : Nat, best : Nat, score : Int]
    /\ ip.at # "idle" => ip.d \in Datagrams
-----------------------------------------------------------------------------
\* One element of a list is written.
LEMMA ListWrite ==
    ASSUME NEW S, NEW q \in Seq(S), NEW i \in 1..Len(q), NEW v \in S
    PROVE  /\ [q EXCEPT ![i] = v] \in Seq(S)
           /\ Len([q EXCEPT ![i] = v]) = Len(q)
           /\ \A j \in 1..Len(q) : [q EXCEPT ![i] = v][j] = IF j = i THEN v ELSE q[j]
OBVIOUS

LEMMA PortTypes ==
    /\ LPorts \subseteq Nat /\ 0 \in LPorts /\ PortStart \in LPorts
    /\ port \in LPorts => nextAvailPort \in LPorts
<1>1. PortSpace \in Nat /\ PortStart \in 0..(PortSpace - 2)
      BY UdpAssumption, Zenon
<1>2. ASSUME port \in LPorts PROVE nextAvailPort \in LPorts
      BY <1>1, <1>2 DEF nextAvailPort, LPorts
<1>3. QED BY <1>1, <1>2 DEF LPorts

LEMMA PeerTypes ==
    \A p \in Peers : /\ p[1] \in FAddrs /\ p[2] \in FPorts /\ p = <<p[1], p[2]>>
                     /\ p[1] \in Nat \ {0} /\ p[2] \in Nat \ {0}
BY UdpAssumption DEF FAddrs, FPorts

\* Every step of the loop thread writes at most one session, which it marks as
\* disturbed when a lookup is under way, and a port once given stays.
LoopEffect ==
    /\ pcbs' \in Seq(Pcbs) /\ Len(pcbs) <= Len(pcbs') /\ Len(pcbs') <= MaxSessions
    /\ port' \in LPorts
    /\ disturbed' \subseteq Sessions
    /\ ip.at # "idle" => disturbed \subseteq disturbed'
    /\ \A s \in 1..Len(pcbs) :
          /\ ip.at # "idle" /\ s \notin disturbed' => pcbs'[s] = pcbs[s]
          /\ pcbs[s].lport # 0 => pcbs'[s].lport = pcbs[s].lport

LEMMA WriteEffect ==
    ASSUME Typed, NEW s \in 1..Len(pcbs), NEW v \in Pcbs,
           pcbs' = [pcbs EXCEPT ![s] = v], port' \in LPorts, Touch(s),
           pcbs[s].lport # 0 => v.lport = pcbs[s].lport
    PROVE  LoopEffect
<1>1. /\ pcbs \in Seq(Pcbs) /\ Len(pcbs) <= MaxSessions /\ MaxSessions \in Nat
      /\ disturbed \subseteq Sessions
      BY UdpAssumption, Zenon DEF Typed, TypeOK, Pcbs, FAddrs, FPorts
<1>2. /\ pcbs' \in Seq(Pcbs) /\ Len(pcbs') = Len(pcbs)
      /\ \A j \in 1..Len(pcbs) : pcbs'[j] = IF j = s THEN v ELSE pcbs[j]
      BY <1>1, ListWrite
<1>3. s \in Sessions
      BY <1>1 DEF Sessions
<1>4. disturbed' \subseteq Sessions /\ (ip.at # "idle" => disturbed \subseteq disturbed' /\ s \in disturbed')
      BY <1>1, <1>3, Zenon DEF Touch
<1>5. QED BY <1>1, <1>2, <1>4 DEF LoopEffect

\* A port is given to a session that has none; v is what else is written.
LEMMA BindEffect ==
    ASSUME Typed, NEW s \in 1..Len(pcbs), NEW v \in Pcbs, v.lport = pcbs[s].lport,
           BindAnd(s, v), Touch(s)
    PROVE  LoopEffect
<1>1. PICK w : w = [v EXCEPT !.lport = IF pcbs[s].lport = 0 THEN nextAvailPort ELSE @]
      BY Zenon
<1>2. nextAvailPort \in LPorts /\ port \in LPorts
      BY PortTypes, Zenon DEF Typed, TypeOK
<1>3. w \in Pcbs /\ (pcbs[s].lport # 0 => w.lport = pcbs[s].lport)
      BY <1>1, <1>2, Zenon DEF Pcbs
<1>4. pcbs' = [pcbs EXCEPT ![s] = w] /\ port' \in LPorts
      BY <1>1, <1>2, Zenon DEF BindAnd
<1>5. QED BY <1>3, <1>4, WriteEffect, Zenon

LEMMA LoopStep ==
    ASSUME Typed, LoopThread PROVE LoopEffect
<1>1. /\ pcbs \in Seq(Pcbs) /\ Len(pcbs) <= MaxSessions /\ MaxSessions \in Nat
      /\ port \in LPorts /\ disturbed \subseteq Sessions
      BY UdpAssumption, Zenon DEF Typed, TypeOK, Pcbs, FAddrs, FPorts
<1>2. \A s \in 1..Len(pcbs) : pcbs[s] \in Pcbs
      BY <1>1
<1>3. \A s : Live(s) => s \in 1..Len(pcbs)
      BY <1>1 DEF Live
<1>4. 0 \in FAddrs /\ 0 \in FPorts /\ 0 \in LPorts
      BY PortTypes, Zenon DEF FAddrs, FPorts
<1>5. loop.at # "idle" => /\ loop.s \in 1..Len(pcbs)
                          /\ loop.peer[1] \in FAddrs /\ loop.peer[2] \in FPorts
      BY PeerTypes, Zenon DEF Typed
<1>6. CASE NewSession
      <2>1. PICK v \in Pcbs : v = [alive |-> TRUE, faddr |-> 0, fport |-> 0, lport |-> 0]
            BY <1>4, Zenon DEF Pcbs
      <2>2. pcbs' = Append(pcbs, v) /\ Len(pcbs) < MaxSessions /\ UNCHANGED <<port, disturbed>>
            BY <1>6, <2>1, Zenon DEF NewSession
      <2>3. /\ pcbs' \in Seq(Pcbs) /\ Len(pcbs') = Len(pcbs) + 1
            /\ \A s \in 1..Len(pcbs) : pcbs'[s] = pcbs[s]
            BY <1>1, <2>2
      <2>4. QED BY <1>1, <2>2, <2>3 DEF LoopEffect
<1>7. ASSUME NEW s \in Sessions, Close(s) PROVE LoopEffect
      <2>1. PICK v : v = [pcbs[s] EXCEPT !.alive = FALSE]
            BY Zenon
      <2>2. s \in 1..Len(pcbs) /\ v \in Pcbs /\ v.lport = pcbs[s].lport
            BY <1>2, <1>3, <1>7, <2>1, Zenon DEF Close, Pcbs
      <2>3. pcbs' = [pcbs EXCEPT ![s] = v] /\ port' \in LPorts /\ Touch(s)
            BY <1>1, <1>7, <2>1, Zenon DEF Close
      <2>4. QED BY <2>2, <2>3, WriteEffect, Zenon
<1>8. ASSUME NEW s \in Sessions, Send(s) PROVE LoopEffect
      BY <1>2, <1>3, <1>8, BindEffect, Zenon DEF Send, Transmit
<1>9. ASSUME NEW s \in Sessions, NEW p \in Peers, Connect(s, p) PROVE LoopEffect
      <2>1. PICK v : v = [pcbs[s] EXCEPT !.faddr = p[1]]
            BY Zenon
      <2>2. s \in 1..Len(pcbs) /\ v \in Pcbs /\ v.lport = pcbs[s].lport
            BY <1>2, <1>3, <1>9, <2>1, PeerTypes, Zenon DEF Connect, Pcbs
      <2>3. pcbs' = [pcbs EXCEPT ![s] = v] /\ port' \in LPorts /\ Touch(s)
            BY <1>1, <1>9, <2>1, Zenon DEF Connect
      <2>4. QED BY <2>2, <2>3, WriteEffect, Zenon
<1>10. ASSUME NEW s \in Sessions, NEW p \in Peers, SendTo(s, p) PROVE LoopEffect
      BY <1>2, <1>3, <1>10, BindEffect, Zenon DEF SendTo
<1>11. CASE SendToSetsAddr \/ DisconnectAddr
      <2>1. PICK a \in FAddrs : pcbs' = [pcbs EXCEPT ![loop.s].faddr = a]
            BY <1>4, <1>5, <1>11, Zenon DEF SendToSetsAddr, DisconnectAddr
      <2>2. PICK v : v = [pcbs[loop.s] EXCEPT !.faddr = a]
            BY Zenon
      <2>3. loop.s \in 1..Len(pcbs) /\ v \in Pcbs /\ v.lport = pcbs[loop.s].lport
            BY <1>2, <1>5, <1>11, <2>2, Zenon DEF SendToSetsAddr, DisconnectAddr, Pcbs
      <2>4. pcbs' = [pcbs EXCEPT ![loop.s] = v] /\ port' \in LPorts /\ Touch(loop.s)
            BY <1>1, <1>11, <2>1, <2>2, Zenon DEF SendToSetsAddr, DisconnectAddr
      <2>5. QED BY <2>3, <2>4, WriteEffect, Zenon
<1>12. CASE SetsPort
      <2>1. PICK v : v = [pcbs[loop.s] EXCEPT !.fport = loop.peer[2]]
            BY Zenon
      <2>2. loop.s \in 1..Len(pcbs) /\ v \in Pcbs /\ v.lport = pcbs[loop.s].lport
            BY <1>2, <1>5, <1>12, <2>1, Zenon DEF SetsPort, Pcbs
      <2>3. BindAnd(loop.s, v) /\ Touch(loop.s)
            BY <1>12, <2>1, Zenon DEF SetsPort
      <2>4. QED BY <2>2, <2>3, BindEffect, Zenon
<1>13. CASE SendToTransmits
      BY <1>2, <1>5, <1>13, BindEffect, Zenon DEF SendToTransmits, Transmit
<1>14. CASE DisconnectPort
      <2>1. PICK v : v = [pcbs[loop.s] EXCEPT !.fport = 0]
            BY Zenon
      <2>2. loop.s \in 1..Len(pcbs) /\ v \in Pcbs /\ v.lport = pcbs[loop.s].lport
            BY <1>2, <1>4, <1>5, <1>14, <2>1, Zenon DEF DisconnectPort, Pcbs
      <2>3. pcbs' = [pcbs EXCEPT ![loop.s] = v] /\ port' \in LPorts /\ Touch(loop.s)
            BY <1>1, <1>14, <2>1, Zenon DEF DisconnectPort
      <2>4. QED BY <2>2, <2>3, WriteEffect, Zenon
<1>15. QED BY <1>6, <1>7, <1>8, <1>9, <1>10, <1>11, <1>12, <1>13, <1>14, Zenon DEF LoopThread
-----------------------------------------------------------------------------
\* The loop thread's record and what it last sent.
LEMMA LoopRecords ==
    ASSUME Typed, LoopThread, LoopEffect
    PROVE  /\ loop' \in [at : {"idle", "connect", "addr", "port", "tx", "clearaddr",
                               "clearport"},
                         s : {0} \cup Sessions, peer : Peers \cup {Nobody}]
           /\ loop'.at # "idle" => loop'.s \in 1..Len(pcbs') /\ loop'.peer \in Peers
           /\ sent' \in [s : {0} \cup Sessions, peer : FAddrs \X FPorts, lport : LPorts]
           /\ sent'.s <= Len(pcbs')
           /\ UNCHANGED <<ip, daemon>>
<1>1. /\ Len(pcbs) \in Nat /\ Len(pcbs') \in Nat /\ Len(pcbs) <= Len(pcbs')
      /\ \A s \in 1..Len(pcbs) : s \in 1..Len(pcbs') /\ s \in Sessions /\ s <= Len(pcbs')
      <2>1. /\ pcbs \in Seq(Pcbs) /\ pcbs' \in Seq(Pcbs)
            /\ Len(pcbs) <= Len(pcbs') /\ Len(pcbs') <= MaxSessions
            BY Zenon DEF LoopEffect, Typed, TypeOK, Pcbs, FAddrs, FPorts
      <2>2. Len(pcbs) \in Nat /\ Len(pcbs') \in Nat
            BY <2>1
      <2>3. MaxSessions \in Nat
            BY UdpAssumption
      <2>4. QED BY <2>1, <2>2, <2>3 DEF Sessions
<1>2. \A s \in 1..Len(pcbs) : pcbs[s] \in Pcbs /\ pcbs'[s] \in Pcbs
      <2>1. pcbs \in Seq(Pcbs) /\ pcbs' \in Seq(Pcbs)
            BY Zenon DEF LoopEffect, Typed, TypeOK, Pcbs, FAddrs, FPorts
      <2>2. QED BY <1>1, <2>1
<1>3. \A s : Live(s) => s \in 1..Len(pcbs)
      BY DEF Live, Typed, TypeOK
<1>4. /\ loop \in [at : {"idle", "connect", "addr", "port", "tx", "clearaddr", "clearport"},
                   s : {0} \cup Sessions, peer : Peers \cup {Nobody}]
      /\ loop.at # "idle" => loop.s \in 1..Len(pcbs) /\ loop.peer \in Peers
      /\ sent \in [s : {0} \cup Sessions, peer : FAddrs \X FPorts, lport : LPorts]
      /\ sent.s <= Len(pcbs) /\ sent.s \in Nat
      BY UdpAssumption DEF Typed, TypeOK, Sessions
<1>5. sent.s <= Len(pcbs')
      BY <1>1, <1>4
<1>6. Idle \in [at : {"idle", "connect", "addr", "port", "tx", "clearaddr", "clearport"},
                s : {0} \cup Sessions, peer : Peers \cup {Nobody}]
      BY Zenon DEF Idle
<1>7. CASE NewSession \/ \E s \in Sessions : Close(s)
      BY <1>1, <1>4, <1>5, <1>7, Zenon DEF NewSession, Close
<1>8. ASSUME NEW s \in Sessions, NEW p \in Peers, Connect(s, p) \/ SendTo(s, p)
      PROVE  /\ loop' \in [at : {"connect", "addr"}, s : Sessions, peer : Peers]
             /\ loop'.s \in 1..Len(pcbs')
             /\ UNCHANGED <<sent, ip, daemon>>
      BY <1>1, <1>3, <1>8 DEF Connect, SendTo
<1>9. CASE \E s \in Sessions, p \in Peers : Connect(s, p) \/ SendTo(s, p)
      BY <1>4, <1>5, <1>8, <1>9, Zenon
<1>10. CASE SendToSetsAddr \/ SetsPort \/ DisconnectAddr \/ DisconnectPort
      BY <1>1, <1>4, <1>5, <1>6, <1>10, Zenon
      DEF SendToSetsAddr, SetsPort, DisconnectAddr, DisconnectPort, Idle
<1>11. ASSUME NEW s \in 1..Len(pcbs), Transmit(s)
       PROVE  /\ sent' \in [s : {0} \cup Sessions, peer : FAddrs \X FPorts, lport : LPorts]
              /\ sent'.s <= Len(pcbs')
              /\ UNCHANGED <<ip, daemon>>
      BY <1>1, <1>2, <1>11, Zenon DEF Transmit, Pcbs
<1>12. CASE \E s \in Sessions : Send(s)
      BY <1>1, <1>3, <1>4, <1>11, <1>12, Zenon DEF Send
<1>13. CASE SendToTransmits
      BY <1>1, <1>4, <1>11, <1>13, Zenon DEF SendToTransmits
<1>14. QED BY <1>7, <1>9, <1>10, <1>12, <1>13, Zenon DEF LoopThread

\* The step to the next session, field by field.
LEMMA ContinueType ==
    ASSUME NEW D, NEW r \in [at : {"idle", "lport", "fport", "addrs", "found"}, d : D,
                             n : Nat, i : Nat, accum : Nat, best : Nat, score : Int]
    PROVE  Continue(r) = [at |-> IF r.i < r.n THEN "lport" ELSE "found", d |-> r.d,
                          n |-> r.n, i |-> r.i + 1, accum |-> 0, best |-> r.best,
                          score |-> r.score]
<1>1. PICK a : a = IF r.i < r.n THEN "lport" ELSE "found"
      BY Zenon
<1>2. Continue(r) = [[[r EXCEPT !.i = r.i + 1] EXCEPT !.accum = 0] EXCEPT !.at = a]
      BY <1>1, Zenon DEF Continue
<1>3. PICK r1 : r1 = [r EXCEPT !.i = r.i + 1]
      BY Zenon
<1>4. r1 = [at |-> r.at, d |-> r.d, n |-> r.n, i |-> r.i + 1, accum |-> r.accum,
            best |-> r.best, score |-> r.score]
      BY <1>3, Zenon
<1>5. PICK r2 : r2 = [r1 EXCEPT !.accum = 0]
      BY Zenon
<1>6. r2 = [at |-> r.at, d |-> r.d, n |-> r.n, i |-> r.i + 1, accum |-> 0,
            best |-> r.best, score |-> r.score]
      BY <1>4, <1>5, Zenon
<1>7. [r2 EXCEPT !.at = a] = [at |-> a, d |-> r.d, n |-> r.n, i |-> r.i + 1,
                              accum |-> 0, best |-> r.best, score |-> r.score]
      BY <1>6
<1>8. QED BY <1>1, <1>2, <1>3, <1>5, <1>7, Zenon

\* What is known of session s when the lookup for d has passed it, with the best
\* session and score so far.
Settled(s, d, best, score) ==
    Matches(s, d) => /\ best # 0 /\ score >= Fields(s)
                     /\ score = Fields(s) => best <= s

\* How far the test of session s for d has come.
Partly(s, at, accum, d) ==
    /\ at \in {"fport", "addrs"} => pcbs[s].alive /\ pcbs[s].lport = d.lport
    /\ at = "fport" => accum = 1
    /\ at = "addrs" => /\ pcbs[s].fport \in {0, d.peer[2]}
                       /\ accum = 1 + (IF pcbs[s].fport # 0 THEN 1 ELSE 0)

\* The lookup is right about the sessions it has passed and the loop thread has
\* left alone.
FindInv ==
    ip.at # "idle" =>
        /\ ip.n <= Len(pcbs) /\ ip.best < ip.i
        /\ ip.score >= -1 /\ (ip.best = 0 => ip.score = -1)
        /\ ip.at \in Scanning => ip.i \in 1..ip.n
        /\ ip.at = "found" => ip.i = ip.n + 1
        /\ \A s \in 1..(ip.i - 1) :
              s \notin disturbed => Settled(s, ip.d, ip.best, ip.score)
        /\ ip.best # 0 /\ ip.best \notin disturbed => Matches(ip.best, ip.d)
        /\ ip.i \notin disturbed => Partly(ip.i, ip.at, ip.accum, ip.d)

PortKept ==
    sent.s # 0 /\ sent.lport # 0 => pcbs[sent.s].lport = sent.lport

IInv == Typed /\ FindInv /\ PortKept /\ CrashNeedsCloseDuringRx
-----------------------------------------------------------------------------
\* Every initial state satisfies the invariant.
LEMMA Initially == Init => IInv
<1>1. SUFFICES ASSUME Init PROVE IInv
      BY Zenon
<1>2. ip = NoRx /\ ip.at = "idle" /\ ip.n = 0 /\ ip.best = 0
      BY <1>1, Zenon DEF Init, NoRx
<1>3. ip \in [at : {"idle", "found"} \cup Scanning, d : Datagrams \cup {NoRx.d},
              n : Nat, i : Nat, accum : Nat, best : Nat, score : Int]
      BY <1>2 DEF NoRx, Scanning
<1>4. sent \in [s : {0} \cup Sessions, peer : FAddrs \X FPorts, lport : LPorts]
      /\ sent.s = 0 /\ sent.lport = 0
      BY <1>1, PortTypes, Zenon DEF Init, NoDatagram, Nobody, FAddrs, FPorts
<1>5. loop = Idle /\ Idle.at = "idle"
      /\ Idle \in [at : {"idle", "connect", "addr", "port", "tx", "clearaddr", "clearport"},
                   s : {0} \cup Sessions, peer : Peers \cup {Nobody}]
      BY <1>1, Zenon DEF Init, Idle
<1>6. /\ pcbs = <<>> /\ Len(pcbs) = 0 /\ port \in LPorts /\ disturbed = {}
      /\ daemon = "up" /\ MaxSessions \in Nat
      /\ pcbs \in Seq([alive : BOOLEAN, faddr : {0} \cup {p[1] : p \in Peers},
                       fport : {0} \cup {p[2] : p \in Peers}, lport : LPorts])
      BY <1>1, PortTypes, UdpAssumption DEF Init
<1>7. TypeOK
      BY <1>2, <1>4, <1>5, <1>6, PortTypes DEF TypeOK
<1>8. Typed
      BY <1>2, <1>3, <1>4, <1>5, <1>6, <1>7 DEF Typed
<1>9. FindInv /\ PortKept /\ CrashNeedsCloseDuringRx
      BY <1>2, <1>4, <1>6, Zenon DEF FindInv, PortKept, CrashNeedsCloseDuringRx
<1>10. QED BY <1>8, <1>9, Zenon DEF IInv

\* A step of the loop thread keeps what the lookup knows of the sessions the
\* thread has left alone.
LEMMA LoopKeepsFind ==
    ASSUME Typed, FindInv, LoopEffect, ip' = ip
    PROVE  FindInv'
<1>1. SUFFICES ASSUME ip.at # "idle" PROVE FindInv'
      BY Zenon DEF FindInv
<1>2. /\ Len(pcbs) \in Nat /\ Len(pcbs') \in Nat /\ Len(pcbs) <= Len(pcbs')
      /\ pcbs \in Seq(Pcbs) /\ pcbs' \in Seq(Pcbs)
      /\ ip.n \in Nat /\ ip.i \in Nat /\ ip.best \in Nat /\ ip.score \in Int
      BY DEF LoopEffect, Typed, TypeOK, Pcbs, FAddrs, FPorts
<1>3. /\ ip.n <= Len(pcbs) /\ ip.best < ip.i
      /\ ip.at \in Scanning => ip.i \in 1..ip.n
      /\ ip.at = "found" => ip.i = ip.n + 1
      /\ ip.at \in Scanning \cup {"found"}
      BY <1>1, Zenon DEF FindInv, Typed, TypeOK, Scanning
<1>4. DOMAIN pcbs = 1..Len(pcbs) /\ DOMAIN pcbs' = 1..Len(pcbs')
      BY <1>2
<1>5. \A s \in 1..Len(pcbs) : s \notin disturbed' =>
          s \notin disturbed /\ pcbs'[s] = pcbs[s] /\ s \in 1..Len(pcbs')
      BY <1>1, <1>2 DEF LoopEffect
<1>6. \A s \in 1..(ip.i - 1) : s \in 1..Len(pcbs)
      BY <1>2, <1>3
<1>7. ip.best # 0 => ip.best \in 1..Len(pcbs)
      BY <1>2, <1>3
<1>8. ip.at \in Scanning => ip.i \in 1..Len(pcbs)
      BY <1>2, <1>3
<1>9. ASSUME NEW s \in 1..(ip.i - 1), s \notin disturbed'
      PROVE  Settled(s, ip.d, ip.best, ip.score)'
      <2>1. Settled(s, ip.d, ip.best, ip.score)
            BY <1>1, <1>5, <1>6, <1>9, Zenon DEF FindInv
      <2>2. pcbs'[s] = pcbs[s] /\ s \in DOMAIN pcbs /\ s \in DOMAIN pcbs'
            BY <1>4, <1>5, <1>6, <1>9, Zenon
      <2>3. QED BY <2>1, <2>2, Zenon DEF Settled, Matches, Live, Fields
<1>10. ASSUME ip.best # 0, ip.best \notin disturbed'
       PROVE  Matches(ip.best, ip.d)'
      <2>1. Matches(ip.best, ip.d)
            BY <1>1, <1>5, <1>7, <1>10, Zenon DEF FindInv
      <2>2. pcbs'[ip.best] = pcbs[ip.best] /\ ip.best \in DOMAIN pcbs'
            BY <1>4, <1>5, <1>7, <1>10, Zenon
      <2>3. QED BY <2>1, <2>2, Zenon DEF Matches, Live
<1>11. ASSUME ip.i \notin disturbed'
       PROVE  Partly(ip.i, ip.at, ip.accum, ip.d)'
      <2>1. CASE ip.at \in Scanning
            <3>1. Partly(ip.i, ip.at, ip.accum, ip.d)
                  BY <1>1, <1>5, <1>8, <1>11, <2>1, Zenon DEF FindInv
            <3>2. pcbs'[ip.i] = pcbs[ip.i]
                  BY <1>5, <1>8, <1>11, <2>1, Zenon
            <3>3. QED BY <3>1, <3>2, Zenon DEF Partly
      <2>2. CASE ip.at = "found"
            BY <2>2, Zenon DEF Partly
      <2>3. QED BY <1>3, <2>1, <2>2, Zenon
<1>12. ip.n <= Len(pcbs')
      BY <1>2, <1>3
<1>13. /\ ip'.best < ip'.i /\ ip'.score >= -1 /\ (ip'.best = 0 => ip'.score = -1)
      BY <1>1, Zenon DEF FindInv
<1>14. QED BY <1>3, <1>9, <1>10, <1>11, <1>12, <1>13, Zenon DEF FindInv

\* The step from session ip.i to the next one, with b the best so far and c its
\* score.
LEMMA Passing ==
    ASSUME Typed, FindInv, ip.at \in Scanning, UNCHANGED <<pcbs, disturbed>>,
           NEW b \in Nat, NEW c \in Int,
           ip' = [at |-> IF ip.i < ip.n THEN "lport" ELSE "found", d |-> ip.d,
                  n |-> ip.n, i |-> ip.i + 1, accum |-> 0, best |-> b, score |-> c],
           \/ b = ip.best /\ c = ip.score
           \/ b = ip.i /\ c > ip.score,
           ip.i \notin disturbed => Settled(ip.i, ip.d, b, c),
           b # 0 /\ b \notin disturbed => Matches(b, ip.d)
    PROVE  FindInv'
<1>1. /\ Len(pcbs) \in Nat /\ ip.n \in Nat /\ ip.i \in Nat /\ ip.best \in Nat
      /\ ip.score \in Int /\ ip.at # "idle"
      BY DEF Typed, TypeOK, Scanning
<1>2. /\ ip.n <= Len(pcbs) /\ ip.best < ip.i /\ ip.score >= -1
      /\ ip.best = 0 => ip.score = -1
      /\ ip.i \in 1..ip.n
      /\ \A s \in 1..(ip.i - 1) :
              s \notin disturbed => Settled(s, ip.d, ip.best, ip.score)
      BY <1>1, Zenon DEF FindInv
<1>3. /\ ip'.at = IF ip.i < ip.n THEN "lport" ELSE "found"
      /\ ip'.d = ip.d /\ ip'.n = ip.n /\ ip'.i = ip.i + 1 /\ ip'.accum = 0
      /\ ip'.best = b /\ ip'.score = c
      BY Zenon
<1>4. /\ ip'.n <= Len(pcbs') /\ ip'.best < ip'.i /\ ip'.score >= -1
      /\ ip'.best = 0 => ip'.score = -1
      BY <1>1, <1>2, <1>3
<1>5. /\ ip'.at \in Scanning => ip'.i \in 1..ip'.n
      /\ ip'.at = "found" => ip'.i = ip'.n + 1
      BY <1>1, <1>2, <1>3 DEF Scanning
<1>6. ASSUME NEW s \in 1..ip.i, s \notin disturbed
      PROVE  Settled(s, ip.d, b, c)
      <2>1. CASE s = ip.i
            BY <1>6, <2>1, Zenon
      <2>2. CASE s # ip.i
            <3>1. Settled(s, ip.d, ip.best, ip.score)
                  BY <1>1, <1>2, <1>6, <2>2
            <3>2. Fields(s) \in Int
                  BY DEF Fields
            <3>3. s \in Nat /\ s < ip.i
                  BY <1>1, <1>6, <2>2
            <3>4. QED BY <1>1, <1>2, <3>1, <3>2, <3>3 DEF Settled
      <2>3. QED BY <2>1, <2>2, Zenon
<1>7. ASSUME NEW s \in 1..(ip'.i - 1), s \notin disturbed'
      PROVE  Settled(s, ip.d, ip.best, ip.score)'
      <2>1. s \in 1..ip.i
            BY <1>1, <1>3
      <2>2. Settled(s, ip.d, b, c)
            BY <1>6, <1>7, <2>1, Zenon
      <2>3. QED BY <1>3, <2>2, Zenon DEF Settled, Matches, Live, Fields
<1>8. ASSUME ip'.best # 0, ip'.best \notin disturbed'
      PROVE  Matches(ip.best, ip.d)'
      BY <1>3, <1>8, Zenon DEF Matches, Live
<1>9. Partly(ip.i, ip.at, ip.accum, ip.d)'
      BY <1>3, Zenon DEF Partly
<1>10. QED BY <1>4, <1>5, <1>7, <1>8, <1>9, Zenon DEF FindInv

\* The type of the record of the IP thread.
RxType(r) ==
    r \in [at : {"idle", "lport", "fport", "addrs", "found"}, d : Datagrams \cup {NoRx.d},
           n : Nat, i : Nat, accum : Nat, best : Nat, score : Int]

\* A step of the IP thread that leaves the sessions alone keeps the types.
LEMMA IpKeepsTypes ==
    ASSUME Typed, UNCHANGED <<pcbs, port, loop, sent>>, RxType(ip'), FindInv',
           ip'.at # "idle" => ip'.d \in Datagrams, ip'.at = "idle" => ip' = NoRx,
           disturbed' \subseteq Sessions, daemon' \in {"up", "crashed"}
    PROVE  Typed'
<1>1. /\ Len(pcbs') \in Nat /\ ip'.n \in Nat /\ ip'.i \in Nat /\ ip'.best \in Nat
      /\ ip'.at \in {"idle", "lport", "fport", "addrs", "found"}
      BY DEF Typed, TypeOK, RxType
<1>2. CASE ip'.at = "idle"
      <2>1. ip'.n = 0 /\ ip'.best = 0
            BY <1>2 DEF NoRx
      <2>2. QED BY <1>1, <1>2, <2>1 DEF Typed, TypeOK, RxType, Scanning
<1>3. CASE ip'.at # "idle"
      <2>1. /\ ip'.n <= Len(pcbs') /\ ip'.best < ip'.i
            /\ ip'.at \in {"lport", "fport", "addrs"} => ip'.i \in 1..ip'.n
            /\ ip'.at = "found" => ip'.i = ip'.n + 1
            BY <1>3, Zenon DEF FindInv, Scanning
      <2>2. ip'.best \in 0..ip'.n
            BY <1>1, <1>3, <2>1
      <2>3. QED BY <1>1, <2>1, <2>2, Zenon DEF Typed, TypeOK, RxType, Scanning
<1>4. QED BY <1>2, <1>3, Zenon

\* What a step of the IP thread has to keep.
IpKeeps ==
    /\ RxType(ip') /\ FindInv'
    /\ ip'.at # "idle" => ip'.d \in Datagrams
    /\ ip'.at = "idle" => ip' = NoRx

LEMMA RxTyped ==
    Typed => RxType(ip)
BY Zenon DEF Typed, TypeOK, RxType, Scanning

LEMMA RxKeeps ==
    ASSUME Typed, NEW d \in Datagrams, Rx(d)
    PROVE  IpKeeps
<1>1. PICK r : r = [NoRx EXCEPT !.d = d, !.n = Len(pcbs)]
      BY Zenon
<1>2. r = [at |-> "idle", d |-> d, n |-> Len(pcbs), i |-> 0, accum |-> 0,
           best |-> 0, score |-> -1]
      BY <1>1, Zenon DEF NoRx
<1>3. Len(pcbs) \in Nat
      BY DEF Typed, TypeOK
<1>4. RxType(r)
      BY <1>2, <1>3 DEF RxType
<1>5. ip' = [at |-> IF 0 < Len(pcbs) THEN "lport" ELSE "found", d |-> d,
             n |-> Len(pcbs), i |-> 1, accum |-> 0, best |-> 0, score |-> -1]
      <2>1. ip' = [at |-> IF r.i < r.n THEN "lport" ELSE "found", d |-> r.d,
                   n |-> r.n, i |-> r.i + 1, accum |-> 0, best |-> r.best,
                   score |-> r.score]
            BY <1>1, <1>4, ContinueType, Zenon DEF Rx, RxType
      <2>2. r.i = 0 /\ r.i + 1 = 1 /\ r.n = Len(pcbs) /\ r.d = d
            /\ r.best = 0 /\ r.score = -1
            BY <1>2
      <2>3. QED BY <2>1, <2>2, Zenon
<1>6. /\ ip'.at \in {"lport", "found"} /\ ip'.d = d /\ ip'.n = Len(pcbs) /\ ip'.i = 1
      /\ ip'.accum = 0 /\ ip'.best = 0 /\ ip'.score = -1 /\ pcbs' = pcbs
      /\ ip'.at = "lport" => 0 < Len(pcbs)
      /\ ip'.at = "found" => 0 = Len(pcbs)
      BY <1>3, <1>5 DEF Rx, IpOnly
<1>7. RxType(ip')
      BY <1>3, <1>5 DEF RxType
<1>8. FindInv'
      BY <1>3, <1>6 DEF FindInv, Scanning, Partly
<1>9. QED BY <1>6, <1>7, <1>8, Zenon DEF IpKeeps

LEMMA FindLPortKeeps ==
    ASSUME Typed, FindInv, FindLPort
    PROVE  IpKeeps
<1>1. /\ ip.at = "lport" /\ ip.at \in Scanning /\ ip.d \in Datagrams /\ RxType(ip)
      /\ UNCHANGED <<pcbs, disturbed>>
      BY RxTyped, Zenon DEF FindLPort, IpOnly, Scanning, Typed
<1>2. CASE pcbs[ip.i].alive /\ pcbs[ip.i].lport = ip.d.lport
      <2>1. ip' = [ip EXCEPT !.accum = 1, !.at = "fport"]
            BY <1>2, Zenon DEF FindLPort
      <2>2. ip' = [at |-> "fport", d |-> ip.d, n |-> ip.n, i |-> ip.i, accum |-> 1,
                   best |-> ip.best, score |-> ip.score]
            BY <1>1, <2>1, Zenon DEF RxType
      <2>3. RxType(ip')
            BY <1>1, <2>2, Zenon DEF RxType
      <2>4. /\ ip'.at = "fport" /\ ip'.d = ip.d /\ ip'.n = ip.n /\ ip'.i = ip.i
            /\ ip'.accum = 1 /\ ip'.best = ip.best /\ ip'.score = ip.score
            BY <2>2, Zenon
      <2>5. FindInv'
            <3>1. Partly(ip.i, "fport", 1, ip.d)
                  BY <1>2, Zenon DEF Partly
            <3>2. Partly(ip.i, ip.at, ip.accum, ip.d)'
                  BY <1>1, <2>4, <3>1, Zenon DEF Partly
            <3>3. \A s : Settled(s, ip.d, ip.best, ip.score) => Settled(s, ip.d, ip.best, ip.score)'
                  BY <1>1, <2>4, Zenon DEF Settled, Matches, Fields, Live
            <3>4. Matches(ip.best, ip.d) => Matches(ip.best, ip.d)'
                  BY <1>1, <2>4, Zenon DEF Matches, Live
            <3>5. QED BY <1>1, <2>4, <3>2, <3>3, <3>4, Zenon DEF FindInv, Scanning
      <2>6. QED BY <1>1, <2>3, <2>4, <2>5, Zenon DEF IpKeeps
<1>3. CASE ~(pcbs[ip.i].alive /\ pcbs[ip.i].lport = ip.d.lport)
      <2>1. ip' = [at |-> IF ip.i < ip.n THEN "lport" ELSE "found", d |-> ip.d,
                   n |-> ip.n, i |-> ip.i + 1, accum |-> 0, best |-> ip.best,
                   score |-> ip.score]
            BY <1>1, <1>3, ContinueType, Zenon DEF FindLPort, RxType
      <2>2. ip.best \in Nat /\ ip.score \in Int
            BY <1>1, Zenon DEF RxType
      <2>3. Settled(ip.i, ip.d, ip.best, ip.score)
            BY <1>3, Zenon DEF Settled, Matches, Live
      <2>4. ip.best # 0 /\ ip.best \notin disturbed => Matches(ip.best, ip.d)
            BY <1>1, Zenon DEF FindInv
      <2>5. FindInv'
            BY <1>1, <2>1, <2>2, <2>3, <2>4, Passing, Zenon
      <2>6. QED BY <1>1, <2>1, <2>5 DEF IpKeeps, RxType
<1>4. QED BY <1>2, <1>3, Zenon

LEMMA FindFPortKeeps ==
    ASSUME Typed, FindInv, FindFPort
    PROVE  IpKeeps
<1>1. /\ ip.at = "fport" /\ ip.at \in Scanning /\ ip.d \in Datagrams /\ RxType(ip)
      /\ UNCHANGED <<pcbs, disturbed>>
      /\ ip.d.peer[2] \in Nat \ {0}
      BY RxTyped, PeerTypes, Zenon DEF FindFPort, IpOnly, Scanning, Typed, Datagrams
<1>2. ASSUME NEW a \in {0, 1}, pcbs[ip.i].fport \in {0, ip.d.peer[2]},
             a = IF pcbs[ip.i].fport # 0 THEN 1 ELSE 0,
             ip' = [at |-> "addrs", d |-> ip.d, n |-> ip.n, i |-> ip.i,
                    accum |-> ip.accum + a, best |-> ip.best, score |-> ip.score]
      PROVE  IpKeeps
      <2>1. RxType(ip')
            BY <1>1, <1>2 DEF RxType
      <2>2. /\ ip'.at = "addrs" /\ ip'.d = ip.d /\ ip'.n = ip.n /\ ip'.i = ip.i
            /\ ip'.accum = ip.accum + a /\ ip'.best = ip.best /\ ip'.score = ip.score
            BY <1>2, Zenon
      <2>3. ip.i \notin disturbed => Partly(ip.i, ip.at, ip.accum, ip.d)'
            BY <1>1, <1>2, <2>2, Zenon DEF FindInv, Partly
      <2>4. FindInv'
            BY <1>1, <2>2, <2>3 DEF FindInv, Scanning, Settled, Matches, Fields, Live
      <2>5. QED BY <1>1, <2>1, <2>2, <2>4, Zenon DEF IpKeeps
<1>3. CASE pcbs[ip.i].fport = 0
      <2>1. ip' = [ip EXCEPT !.at = "addrs"]
            BY <1>1, <1>3, Zenon DEF FindFPort
      <2>2. ip' = [at |-> "addrs", d |-> ip.d, n |-> ip.n, i |-> ip.i,
                   accum |-> ip.accum + 0, best |-> ip.best, score |-> ip.score]
            BY <1>1, <2>1 DEF RxType
      <2>3. QED BY <1>2, <1>3, <2>2, Zenon
<1>4. CASE pcbs[ip.i].fport # 0 /\ pcbs[ip.i].fport = ip.d.peer[2]
      <2>1. ip' = [ip EXCEPT !.accum = ip.accum + 1, !.at = "addrs"]
            BY <1>4, Zenon DEF FindFPort
      <2>2. ip' = [at |-> "addrs", d |-> ip.d, n |-> ip.n, i |-> ip.i,
                   accum |-> ip.accum + 1, best |-> ip.best, score |-> ip.score]
            BY <1>1, <2>1, Zenon DEF RxType
      <2>3. QED BY <1>2, <1>4, <2>2, Zenon
<1>5. CASE pcbs[ip.i].fport # 0 /\ pcbs[ip.i].fport # ip.d.peer[2]
      <2>1. ip' = Continue(ip)
            BY <1>5, Zenon DEF FindFPort
      <2>2. ip' = [at |-> IF ip.i < ip.n THEN "lport" ELSE "found", d |-> ip.d,
                   n |-> ip.n, i |-> ip.i + 1, accum |-> 0, best |-> ip.best,
                   score |-> ip.score]
            BY <1>1, <2>1, ContinueType, Zenon DEF RxType
      <2>3. ip.best \in Nat /\ ip.score \in Int
            BY <1>1, Zenon DEF RxType
      <2>4. Settled(ip.i, ip.d, ip.best, ip.score)
            BY <1>5, Zenon DEF Settled, Matches
      <2>5. ip.best # 0 /\ ip.best \notin disturbed => Matches(ip.best, ip.d)
            BY <1>1, Zenon DEF FindInv
      <2>6. FindInv'
            BY <1>1, <2>2, <2>3, <2>4, <2>5, Passing, Zenon
      <2>7. QED BY <1>1, <2>2, <2>6 DEF IpKeeps, RxType
<1>6. QED BY <1>3, <1>4, <1>5, Zenon

LEMMA FindAddrsKeeps ==
    ASSUME Typed, FindInv, FindAddrs
    PROVE  IpKeeps
<1> DEFINE f == in_addr_match(pcbs[ip.i].faddr, ip.d.peer[1])
           l == in_addr_match(LocalAddr, ip.d.laddr)
           c == ip.accum + f + l
<1>1. /\ ip.at = "addrs" /\ ip.at \in Scanning /\ ip.d \in Datagrams /\ RxType(ip)
      /\ ip.at # "idle" /\ UNCHANGED <<pcbs, disturbed>>
      BY RxTyped, Zenon DEF FindAddrs, IpOnly, Scanning, Typed
<1>2. /\ ip.i \in 1..ip.n /\ ip.n <= Len(pcbs) /\ ip.best < ip.i
      /\ ip.score >= -1 /\ (ip.best = 0 => ip.score = -1)
      /\ ip.best # 0 /\ ip.best \notin disturbed => Matches(ip.best, ip.d)
      /\ ip.i \notin disturbed => Partly(ip.i, "addrs", ip.accum, ip.d)
      BY <1>1, Zenon DEF FindInv
<1>3. /\ ip.best \in Nat /\ ip.score \in Int /\ ip.accum \in Nat /\ ip.i \in Nat
      /\ ip.n \in Nat /\ Len(pcbs) \in Nat /\ ip.i # 0 /\ ip.i \in DOMAIN pcbs
      BY <1>1, <1>2 DEF RxType, Typed, TypeOK
<1>4. f \in {-1, 0, 1} /\ l \in {-1, 0, 1}
      BY Zenon DEF in_addr_match
<1>5. LocalAddr # 0
      BY UdpAssumption, Zenon
<1>6. /\ l # -1 <=> LocalAddr = ip.d.laddr
      /\ l # -1 => l = 1
      BY <1>5 DEF in_addr_match
<1>7. /\ f # -1 <=> pcbs[ip.i].faddr \in {0, ip.d.peer[1]}
      /\ f # -1 => f = IF pcbs[ip.i].faddr # 0 THEN 1 ELSE 0
      BY DEF in_addr_match
<1>8. c \in Int
      BY <1>3, <1>4
<1>9. ASSUME ip.i \notin disturbed
      PROVE  /\ Matches(ip.i, ip.d) <=> f # -1 /\ l # -1
             /\ f # -1 /\ l # -1 => c = Fields(ip.i)
      <2>1. /\ pcbs[ip.i].alive /\ pcbs[ip.i].lport = ip.d.lport
            /\ pcbs[ip.i].fport \in {0, ip.d.peer[2]}
            /\ ip.accum = 1 + (IF pcbs[ip.i].fport # 0 THEN 1 ELSE 0)
            BY <1>2, <1>9, Zenon DEF Partly
      <2>2. Matches(ip.i, ip.d) <=> f # -1 /\ l # -1
            BY <1>3, <1>6, <1>7, <2>1, Zenon DEF Matches, Live
      <2>3. ASSUME f # -1, l # -1 PROVE c = Fields(ip.i)
            BY <1>3, <1>4, <1>6, <1>7, <2>1, <2>3 DEF Fields
      <2>4. QED BY <2>2, <2>3, Zenon
<1> HIDE DEF f, l, c
<1>10. CASE f # -1 /\ l # -1 /\ c > ip.score
      <2>1. PICK r : r = [ip EXCEPT !.best = ip.i, !.score = c]
            BY Zenon
      <2>2. r = [at |-> ip.at, d |-> ip.d, n |-> ip.n, i |-> ip.i, accum |-> ip.accum,
                 best |-> ip.i, score |-> c]
            BY <1>1, <2>1, Zenon DEF RxType
      <2>3. RxType(r)
            BY <1>1, <1>8, <2>2, Zenon DEF RxType
      <2>4. ip' = Continue(r)
            BY <1>10, <2>1, Zenon DEF FindAddrs, f, l, c
      <2>5. ip' = [at |-> IF r.i < r.n THEN "lport" ELSE "found", d |-> r.d,
                   n |-> r.n, i |-> r.i + 1, accum |-> 0, best |-> r.best,
                   score |-> r.score]
            BY <2>3, <2>4, ContinueType, Zenon DEF RxType
      <2>6. ip' = [at |-> IF ip.i < ip.n THEN "lport" ELSE "found", d |-> ip.d,
                   n |-> ip.n, i |-> ip.i + 1, accum |-> 0, best |-> ip.i, score |-> c]
            BY <2>2, <2>5, Zenon
      <2>7. ip.i \notin disturbed => Settled(ip.i, ip.d, ip.i, c)
            BY <1>3, <1>8, <1>9, <1>10 DEF Settled
      <2>8. ip.i # 0 /\ ip.i \notin disturbed => Matches(ip.i, ip.d)
            BY <1>9, <1>10, Zenon
      <2>9. FindInv'
            BY <1>1, <1>3, <1>8, <1>10, <2>6, <2>7, <2>8, Passing, Zenon
      <2>10. QED BY <1>1, <1>3, <1>8, <2>6, <2>9 DEF IpKeeps, RxType
<1>11. CASE ~(f # -1 /\ l # -1 /\ c > ip.score)
      <2>1. ip' = Continue(ip)
            BY <1>11, Zenon DEF FindAddrs, f, l, c
      <2>2. ip' = [at |-> IF ip.i < ip.n THEN "lport" ELSE "found", d |-> ip.d,
                   n |-> ip.n, i |-> ip.i + 1, accum |-> 0, best |-> ip.best,
                   score |-> ip.score]
            BY <1>1, <2>1, ContinueType, Zenon DEF RxType
      <2>3. ASSUME ip.i \notin disturbed, Matches(ip.i, ip.d)
            PROVE  ip.best # 0 /\ ip.score >= Fields(ip.i) /\ ip.best <= ip.i
            <3>1. c = Fields(ip.i) /\ c <= ip.score
                  BY <1>3, <1>8, <1>9, <1>11, <2>3
            <3>2. Fields(ip.i) >= 2
                  BY DEF Fields
            <3>3. QED BY <1>2, <1>3, <1>8, <3>1, <3>2
      <2>4. ip.i \notin disturbed => Settled(ip.i, ip.d, ip.best, ip.score)
            BY <2>3, Zenon DEF Settled
      <2>5. FindInv'
            BY <1>1, <1>2, <1>3, <2>2, <2>4, Passing, Zenon
      <2>6. QED BY <1>1, <2>2, <2>5 DEF IpKeeps, RxType
<1>12. QED BY <1>10, <1>11, Zenon

\* The port the last datagram was sent from stays with its session.
LEMMA LoopPort ==
    ASSUME Typed, PortKept, LoopEffect, LoopThread
    PROVE  PortKept'
<1>1. Len(pcbs) \in Nat /\ sent.s \in Nat /\ sent.s <= Len(pcbs)
      BY UdpAssumption DEF Typed, TypeOK, Sessions
<1>2. CASE sent' = sent
      <2>1. SUFFICES ASSUME sent.s # 0, sent.lport # 0 PROVE pcbs'[sent.s].lport = sent.lport
            BY <1>2, Zenon DEF PortKept
      <2>2. sent.s \in 1..Len(pcbs) /\ pcbs[sent.s].lport = sent.lport
            BY <1>1, <2>1 DEF PortKept
      <2>3. QED BY <2>1, <2>2, Zenon DEF LoopEffect
<1>3. CASE sent' # sent
      <2>1. PICK s : Transmit(s)
            BY <1>3, Zenon DEF LoopThread, NewSession, Close, Connect, SendTo, SendToSetsAddr,
                        SetsPort, DisconnectAddr, DisconnectPort, Send, SendToTransmits
      <2>2. sent'.s = s /\ sent'.lport = pcbs'[s].lport
            BY <2>1, Zenon DEF Transmit
      <2>3. QED BY <2>2, Zenon DEF PortKept
<1>4. QED BY <1>2, <1>3, Zenon
-----------------------------------------------------------------------------
\* Every step keeps the invariant.
LEMMA LoopInductive ==
    ASSUME IInv, daemon = "up", LoopThread
    PROVE  IInv'
<1>1. Typed /\ FindInv /\ PortKept
      BY Zenon DEF IInv
<1>2. LoopEffect
      BY <1>1, LoopStep, Zenon
<1>3. /\ loop' \in [at : {"idle", "connect", "addr", "port", "tx", "clearaddr", "clearport"},
                    s : {0} \cup Sessions, peer : Peers \cup {Nobody}]
      /\ loop'.at # "idle" => loop'.s \in 1..Len(pcbs') /\ loop'.peer \in Peers
      /\ sent' \in [s : {0} \cup Sessions, peer : FAddrs \X FPorts, lport : LPorts]
      /\ sent'.s <= Len(pcbs')
      /\ UNCHANGED <<ip, daemon>>
      BY <1>1, <1>2, LoopRecords, Zenon
<1>4. FindInv'
      BY <1>1, <1>2, <1>3, LoopKeepsFind, Zenon
<1>5. TypeOK'
      <2>1. pcbs' \in Seq([alive : BOOLEAN, faddr : {0} \cup {p[1] : p \in Peers},
                           fport : {0} \cup {p[2] : p \in Peers}, lport : LPorts])
            BY <1>2, Zenon DEF LoopEffect, Pcbs, FAddrs, FPorts
      <2>2. /\ Len(pcbs) \in Nat /\ Len(pcbs') \in Nat /\ Len(pcbs) <= Len(pcbs')
            /\ ip.n \in Nat /\ ip.n <= Len(pcbs)
            BY <1>1, <1>2 DEF Typed, TypeOK, LoopEffect
      <2>3. ip'.n <= Len(pcbs')
            BY <1>3, <2>2
      <2>4. sent'.lport \in LPorts
            BY <1>3, Zenon
      <2>5. QED BY <1>1, <1>2, <1>3, <2>1, <2>3, <2>4, Zenon DEF Typed, TypeOK, LoopEffect
<1>6. Typed'
      BY <1>1, <1>3, <1>5, Zenon DEF Typed
<1>7. PortKept'
      BY <1>1, <1>2, LoopPort, Zenon
<1>8. CrashNeedsCloseDuringRx'
      BY <1>3, Zenon DEF CrashNeedsCloseDuringRx
<1>9. QED BY <1>4, <1>6, <1>7, <1>8, Zenon DEF IInv

LEMMA IpInductive ==
    ASSUME IInv, daemon = "up", IpThread
    PROVE  IInv'
<1>1. Typed /\ FindInv /\ PortKept
      BY Zenon DEF IInv
<1>2. UNCHANGED <<pcbs, port, loop, sent>>
      BY Zenon DEF IpThread, Rx, FindLPort, FindFPort, FindAddrs, RxDrops, RxDelivers, IpOnly
<1>3. PortKept'
      BY <1>1, <1>2, Zenon DEF PortKept
<1>4. RxType(NoRx) /\ NoRx.at = "idle"
      BY DEF RxType, NoRx
<1>5. ASSUME IpKeeps, disturbed' \subseteq Sessions, daemon' \in {"up", "crashed"},
             CrashNeedsCloseDuringRx'
      PROVE  IInv'
      BY <1>1, <1>2, <1>3, <1>5, IpKeepsTypes, Zenon DEF IpKeeps, IInv
<1>6. /\ disturbed \subseteq Sessions
      /\ loop.at # "idle" => loop.s \in Sessions
      <2>1. Len(pcbs) \in Nat /\ Len(pcbs) <= MaxSessions /\ MaxSessions \in Nat
            BY <1>1, UdpAssumption DEF Typed, TypeOK
      <2>2. QED BY <1>1, <2>1 DEF Typed, TypeOK, Sessions
<1>7. ASSUME NEW d \in Datagrams, Rx(d) PROVE IInv'
      <2>1. IpKeeps
            BY <1>1, <1>7, RxKeeps, Zenon
      <2>2. disturbed' \subseteq Sessions /\ daemon' = "up"
            BY <1>6, <1>7, Zenon DEF Rx, IpOnly
      <2>3. QED BY <1>5, <2>1, <2>2, Zenon DEF CrashNeedsCloseDuringRx
<1>8. CASE FindLPort \/ FindFPort \/ FindAddrs
      <2>1. IpKeeps
            BY <1>1, <1>8, FindLPortKeeps, FindFPortKeeps, FindAddrsKeeps, Zenon
      <2>2. disturbed' \subseteq Sessions /\ daemon' = "up"
            BY <1>6, <1>8, Zenon DEF FindLPort, FindFPort, FindAddrs, IpOnly
      <2>3. QED BY <1>5, <2>1, <2>2, Zenon DEF CrashNeedsCloseDuringRx
<1>9. ASSUME ip' = NoRx, disturbed' = {}, daemon' = "up" PROVE IInv'
      <2>1. FindInv'
            BY <1>4, <1>9, Zenon DEF FindInv
      <2>2. IpKeeps
            BY <1>4, <1>9, <2>1, Zenon DEF IpKeeps
      <2>3. QED BY <1>5, <1>9, <2>2, Zenon DEF CrashNeedsCloseDuringRx
<1>10. CASE RxDrops
      BY <1>9, <1>10, Zenon DEF RxDrops, IpOnly
<1>11. CASE RxDelivers
      <2>1. CASE pcbs[ip.best].alive
            BY <1>9, <1>11, <2>1, Zenon DEF RxDelivers
      <2>2. CASE ~pcbs[ip.best].alive
            <3>1. ip' = ip /\ disturbed' = disturbed /\ daemon' = "crashed" /\ ip.best # 0
                  /\ ip.at = "found"
                  BY <1>11, <2>2, Zenon DEF RxDelivers
            <3>2. ~Live(ip.best)
                  BY <2>2, Zenon DEF Live
            <3>3. ip.best \in disturbed
                  BY <1>1, <3>1, <3>2, Zenon DEF FindInv, Matches
            <3>4. CrashNeedsCloseDuringRx'
                  BY <1>2, <3>1, <3>2, <3>3, Zenon DEF CrashNeedsCloseDuringRx, Live
            <3>5. FindInv'
                  BY <1>1, <1>2, <3>1, Zenon DEF FindInv, Settled, Matches, Fields, Live, Partly
            <3>6. IpKeeps
                  BY <1>1, <3>1, <3>5, RxTyped, Zenon DEF IpKeeps, Typed
            <3>7. QED BY <1>5, <1>6, <3>1, <3>4, <3>6, Zenon
      <2>3. QED BY <2>1, <2>2, Zenon
<1>12. QED BY <1>7, <1>8, <1>10, <1>11, Zenon DEF IpThread

LEMMA Inductive == IInv /\ [Next]_vars => IInv'
<1>1. SUFFICES ASSUME IInv, [Next]_vars PROVE IInv'
      BY Zenon
<1>2. CASE Next
      BY <1>1, <1>2, LoopInductive, IpInductive, Zenon DEF Next
<1>3. CASE UNCHANGED vars
      <2>1. /\ pcbs' = pcbs /\ port' = port /\ loop' = loop /\ sent' = sent /\ ip' = ip
            /\ disturbed' = disturbed /\ daemon' = daemon
            BY <1>3, Zenon DEF vars
      <2>2. Typed'
            <3>1. Typed
                  BY <1>1, Zenon DEF IInv
            <3>2. TypeOK'
                  BY <2>1, <3>1 DEF Typed, TypeOK
            <3>3. QED BY <2>1, <3>1, <3>2 DEF Typed
      <2>3. FindInv'
            <3>1. \A s : Settled(s, ip.d, ip.best, ip.score) => Settled(s, ip.d, ip.best, ip.score)'
                  BY <2>1, Zenon DEF Settled, Matches, Fields, Live
            <3>2. Matches(ip.best, ip.d) => Matches(ip.best, ip.d)'
                  BY <2>1, Zenon DEF Matches, Live
            <3>3. Partly(ip.i, ip.at, ip.accum, ip.d) => Partly(ip.i, ip.at, ip.accum, ip.d)'
                  BY <2>1, Zenon DEF Partly
            <3>4. QED BY <1>1, <2>1, <3>1, <3>2, <3>3, Zenon DEF IInv, FindInv
      <2>4. PortKept' /\ CrashNeedsCloseDuringRx'
            BY <1>1, <2>1, Zenon DEF IInv, PortKept, CrashNeedsCloseDuringRx, Live
      <2>5. QED BY <2>2, <2>3, <2>4, Zenon DEF IInv
<1>4. QED BY <1>1, <1>2, <1>3, Zenon

\* The inductive invariant holds in every state, whatever the event loop thread does
\* to the sessions during a lookup of the IP thread.
THEOREM Invariance == Spec => []IInv
BY Initially, Inductive, PTL DEF Spec

\* Every variable keeps its type; in particular the port counter stays within
\* 16 bits when nextAvailPort wraps, and a lookup never leaves its copy of the
\* list, for any number of sessions.
THEOREM TypeCorrect == Spec => []TypeOK
<1>1. IInv => TypeOK
      BY Zenon DEF IInv, Typed
<1>2. QED BY <1>1, Invariance, PTL

\* Sessions::find finds the best match among the sessions that the event loop
\* thread left alone during the lookup, whatever that thread did meanwhile to
\* the others.
THEOREM FindIsCorrect == Spec => []FindIsBestMatch
<1>1. IInv => FindIsBestMatch
      <2>1. SUFFICES ASSUME IInv, ip.at = "found" PROVE FindIsBestMatch
            BY Zenon DEF FindIsBestMatch
      <2>2. ip.i = ip.n + 1 /\ ip.n \in Nat
            BY <2>1, Zenon DEF IInv, Typed, FindInv
      <2>3. ip.i - 1 = ip.n
            BY <2>2
      <2>4. \A s \in (1..ip.n) \ disturbed : Settled(s, ip.d, ip.best, ip.score)
            BY <2>1, <2>3, Zenon DEF IInv, FindInv
      <2>5. ip.best \notin disturbed \cup {0} => Matches(ip.best, ip.d)
            BY <2>1, Zenon DEF IInv, FindInv
      <2>6. QED BY <2>4, <2>5, Zenon DEF FindIsBestMatch, Settled
<1>2. QED BY <1>1, Invariance, PTL

\* A datagram that answers what a session sent matches that session, because a
\* port once given to a session (Session::bind) is never taken from it.
THEOREM AnswersReachTheSender == Spec => []AnswerMatchesSender
<1>1. IInv => AnswerMatchesSender
      BY PeerTypes DEF IInv, PortKept, AnswerMatchesSender, Matches, Nobody, Typed
<1>2. QED BY <1>1, Invariance, PTL

\* UdpSession::recv meets a null Endpoint only when its socket was closed
\* during the lookup.
THEOREM CrashesAreRaces == Spec => []CrashNeedsCloseDuringRx
<1>1. IInv => CrashNeedsCloseDuringRx
      BY Zenon DEF IInv
<1>2. QED BY <1>1, Invariance, PTL
=============================================================================
