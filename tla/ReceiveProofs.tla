--------------------------- MODULE ReceiveProofs ----------------------------
(***************************************************************************)
(* Proofs about reception in module Ip, for any datagrams and any number   *)
(* of packets, however the network loses, repeats and reorders them and    *)
(* however the three threads interleave: reassembly (module Reassembler),  *)
(* the order of packets, and the end of the threads.                       *)
(***************************************************************************)
EXTENDS PacketProofs, FiniteSetTheorems

-----------------------------------------------------------------------------
(* The inductive invariant.                                                *)

Stopping ==
    /\ late <= 1 /\ (~stopflag => late = 0) /\ (late = 1 => ipAt # "wait" \/ daemon # "up")

\* So far every fragment of d has come from outside.
Outside(d) ==
    \A k \in DOMAIN seen[d] :
        \/ \A j \in 1..(k - 1) : seen[d][j] > seen[d][k]
        \/ \A j \in 1..(k - 1) :
              /\ seen[d][j] < seen[d][k]
              /\ Frag(<<d, seen[d][j]>>).off < RawOffset(Frag(<<d, seen[d][k]>>))

\* s is seen[d] in ascending order, of index.
Sorted(s, d) ==
    /\ \A j \in DOMAIN s : Came(s[j], d)
    /\ \A k \in DOMAIN seen[d] : \E j \in DOMAIN s : s[j] = Frag(<<d, seen[d][k]>>)
    /\ \A i, j \in DOMAIN s : i < j => s[i].of[2] < s[j].of[2]

\* Then, when no other datagram with its key has come, they are in the group of d
\* in order, or d is delivered.
Gather(d) ==
    \/ seen[d] = <<>> /\ \A i \in DOMAIN groups : groups[i].key # d.key
    \/ \E i \in DOMAIN groups : groups[i].key = d.key /\ Sorted(groups[i].frags, d)
    \/ /\ d.protocol \in {"TCP", "UDP"} => Delivered(d)
       /\ \A i \in DOMAIN d.frags : \E k \in DOMAIN seen[d] : seen[d][k] = i

Gathered == \A d \in Datagrams : Outside(d) /\ Alone(d) => Gather(d)

\* defrag is given fragments only.
SeenAreFrags == \A d \in Datagrams : \A f : Came(f, d) => isFrag(f)

IInv ==
    /\ RxTypes /\ GroupsOK /\ UpOK /\ Gathered /\ SeenAreFrags
    /\ Stopping /\ StopIsHeeded

-----------------------------------------------------------------------------
(* Unfragmented packets keep their order: reading one, and taking one.     *)

\* A packet that is to be delivered without reassembly, if it has a transport.
Waits(p) == ~p[1].short /\ ~isFrag(Frag(p))

\* Of the packets in q those that wait are the last of r, behind the first u; g
\* counts them.
Places(g, q, r, u) ==
    /\ g \in [1..(Len(q) + 1) -> Nat] /\ g[1] = u /\ g[Len(q) + 1] = Len(r)
    /\ \A i \in 1..Len(q) :
          /\ Waits(q[i]) => /\ g[i + 1] = g[i] + 1 /\ g[i + 1] \in 1..Len(r)
                            /\ q[i] = r[g[i + 1]]
          /\ ~Waits(q[i]) => g[i + 1] = g[i]

SamePlace(k, j) ==
    /\ up[k][1].of = read[j]
    /\ Cardinality(WholeUp(k)) = Cardinality(ForTransport(j))

\* The first u of the packets read have been taken from rxQ.
Ordered(u) ==
    /\ u <= Len(read) /\ \E g : Places(g, rxQ, read, u)
    /\ Cardinality(WholeUp(Len(up))) = Cardinality(ForTransport(u))
    /\ \A k \in WholeUp(Len(up)) : \E j \in ForTransport(u) : SamePlace(k, j)

InOrder == \E u \in Nat : Ordered(u)

\* A step that leaves the queue and what was delivered alone keeps the order.
LEMMA SameOrder ==
    ASSUME InOrder, UNCHANGED <<rxQ, read, up>>
    PROVE  InOrder'
<1>1. PICK u \in Nat : Ordered(u)
      BY Zenon DEF InOrder
<1>2. rxQ' = rxQ /\ read' = read /\ up' = up
      BY Zenon
<1>3. \A k : WholeUp(k)' = WholeUp(k) /\ ForTransport(k)' = ForTransport(k)
      BY <1>2, Zenon DEF WholeUp, ForTransport
<1>4. \A k, j : SamePlace(k, j)' <=> SamePlace(k, j)
      BY <1>2, <1>3, Zenon DEF SamePlace
<1>5. \A g : Places(g, rxQ, read, u)' <=> Places(g, rxQ, read, u)
      BY <1>2, Zenon DEF Places
<1>6. Len(up)' = Len(up) /\ Len(read)' = Len(read)
      BY <1>2, Zenon
<1>7. Ordered(u)'
      BY <1>1, <1>3, <1>4, <1>5, <1>6, Zenon DEF Ordered
<1>8. QED BY <1>7, Zenon DEF InOrder

\* A packet is read.
LEMMA ReadKeepsOrder ==
    \A p \in air : \A again : RxTypes /\ InOrder /\ TunRx(p, again) => InOrder'
<1>PlacesPut.
      ASSUME NEW M, NEW q \in Seq(M), NEW r \in Seq(M), NEW g, NEW u \in Nat, NEW p \in M,
             Places(g, q, r, u), NEW s, NEW n \in Nat, s \in Seq(M), Len(s) = Len(r) + n,
             \A i \in 1..Len(r) : s[i] = r[i],
             \/ Waits(p) /\ n = 1 /\ s[Len(r) + 1] = p
             \/ ~Waits(p) /\ n = 0
      PROVE  \E h : Places(h, Append(q, p), s, u)
      <2> USE <1>PlacesPut
      <2>1. PICK a, b \in Nat : a = Len(q) /\ b = Len(r)
            OBVIOUS
      <2>2. PICK t : t = Append(q, p)
            BY Zenon
      <2>3. t \in Seq(M) /\ Len(t) = a + 1 /\ t[a + 1] = p /\ \A i \in 1..a : t[i] = q[i]
            BY <2>1, <2>2
      <2>4. /\ g \in [1..(a + 1) -> Nat] /\ g[1] = u /\ g[a + 1] = b
            /\ \A i \in 1..a :
                  /\ Waits(q[i]) => /\ g[i + 1] = g[i] + 1 /\ g[i + 1] \in 1..b
                                    /\ q[i] = r[g[i + 1]]
                  /\ ~Waits(q[i]) => g[i + 1] = g[i]
            BY <2>1, Zenon DEF Places
      <2>5. /\ Len(s) = b + n /\ \A i \in 1..b : s[i] = r[i]
            /\ Waits(p) => n = 1 /\ s[b + 1] = p
            /\ ~Waits(p) => n = 0
            BY <2>1, Zenon
      <2>6. PICK h : h = [i \in 1..((a + 1) + 1) |-> IF i = (a + 1) + 1 THEN b + n ELSE g[i]]
            BY Zenon
      <2>7. /\ h \in [1..((a + 1) + 1) -> Nat] /\ h[(a + 1) + 1] = b + n
            /\ \A i \in 1..(a + 1) : h[i] = g[i]
            BY <2>4, <2>6, SMTT(30)
      <2>8. ASSUME NEW i \in 1..(a + 1)
            PROVE  /\ Waits(t[i]) => /\ h[i + 1] = h[i] + 1 /\ h[i + 1] \in 1..(b + n)
                                     /\ t[i] = s[h[i + 1]]
                   /\ ~Waits(t[i]) => h[i + 1] = h[i]
            <3>1. CASE i = a + 1
                  <4>1. t[i] = p /\ h[i + 1] = b + n /\ h[i] = b
                        BY <2>3, <2>4, <2>7, <3>1, Zenon
                  <4>2. CASE Waits(p)
                        <5>1. n = 1 /\ s[b + 1] = p
                              BY <2>5, <4>2, Zenon
                        <5>2. b + n = b + 1 /\ b + n \in 1..(b + n)
                              BY <5>1, SMTT(30)
                        <5>3. QED BY <4>1, <4>2, <5>1, <5>2, Zenon
                  <4>3. CASE ~Waits(p)
                        <5>1. n = 0
                              BY <2>5, <4>3, Zenon
                        <5>2. b + n = b
                              BY <5>1
                        <5>3. QED BY <4>1, <4>3, <5>2, Zenon
                  <4>4. QED BY <4>2, <4>3, Zenon
            <3>2. CASE i # a + 1
                  <4>1. i \in 1..a /\ i + 1 \in 1..(a + 1)
                        BY <3>2
                  <4>2. t[i] = q[i] /\ h[i] = g[i] /\ h[i + 1] = g[i + 1]
                        BY <2>3, <2>7, <4>1, Zenon
                  <4>3. \A j \in 1..b : j \in 1..(b + n)
                        OBVIOUS
                  <4>4. CASE Waits(q[i])
                        <5>1. g[i + 1] = g[i] + 1 /\ g[i + 1] \in 1..b /\ q[i] = r[g[i + 1]]
                              BY <2>4, <4>1, <4>4, Zenon
                        <5>2. q[i] = s[g[i + 1]] /\ g[i + 1] \in 1..(b + n)
                              BY <2>5, <4>3, <5>1, Zenon
                        <5>3. QED BY <4>2, <4>4, <5>1, <5>2, Zenon
                  <4>5. CASE ~Waits(q[i])
                        <5>1. g[i + 1] = g[i]
                              BY <2>4, <4>1, <4>5, Zenon
                        <5>2. QED BY <4>2, <4>5, <5>1, Zenon
                  <4>6. QED BY <4>4, <4>5, Zenon
            <3>3. QED BY <3>1, <3>2, Zenon
      <2>9. 1 \in 1..(a + 1) /\ h[1] = u
            BY <2>4, <2>7, SMTT(30)
      <2>10. Places(h, t, s, u)
            BY <2>3, <2>5, <2>7, <2>8, <2>9, Zenon DEF Places
      <2>11. QED BY <2>2, <2>10, Zenon
\* What is counted when a packet is read or given to a transport.
<1>CountsRead.
      ASSUME NEW n \in Nat, NEW m \in Nat, m <= n, \A i \in 1..m : read'[i] = read[i]
      PROVE  \A j \in 0..m : ForTransport(j)' = ForTransport(j)
      <2> USE <1>CountsRead
      <2>1. SUFFICES ASSUME NEW j \in 0..m PROVE ForTransport(j)' = ForTransport(j)
            BY Zenon
      <2>2. \A i \in 1..j : read'[i] = read[i]
            OBVIOUS
      <2>3. QED BY <2>2, Zenon DEF ForTransport
<1> SUFFICES ASSUME RxTypes, InOrder, NEW p \in air, NEW again, TunRx(p, again) PROVE InOrder'
    BY Zenon
<1>1. PICK M : M = Packets
      BY Zenon
<1>2. p \in M /\ rxQ \in Seq(M) /\ read \in Seq(M)
      BY <1>1, Zenon DEF RxTypes
<1>3. PICK u \in Nat : Ordered(u)
      BY Zenon DEF InOrder
<1>4. PICK g : u <= Len(read) /\ Places(g, rxQ, read, u)
      BY <1>3, Zenon DEF Ordered
<1>5. PICK n \in Nat : n = Len(read)
      BY <1>2
<1>6. /\ \/ p[1].version = 4 /\ rxQ' = Append(rxQ, p)
            /\ read' = (IF Waits(p) THEN Append(read, p) ELSE read)
         \/ rxQ' = rxQ /\ read' = read
      /\ up' = up
      BY Zenon DEF TunRx, enRxQue, Waits, ipVars
<1>7. CASE rxQ' = rxQ /\ read' = read
      BY <1>6, <1>7, SameOrder, Zenon
<1>8. CASE rxQ' = Append(rxQ, p) /\ read' = (IF Waits(p) THEN Append(read, p) ELSE read)
      <2>1. PICK s : s = read'
            BY Zenon
      <2>2. PICK m \in Nat :
               /\ s \in Seq(M) /\ Len(s) = n + m /\ \A i \in 1..n : s[i] = read[i]
               /\ \/ Waits(p) /\ m = 1 /\ s[n + 1] = p
                  \/ ~Waits(p) /\ m = 0
            <3>1. CASE Waits(p)
                  <4>1. s = Append(read, p)
                        BY <1>8, <2>1, <3>1, Zenon
                  <4>2. s \in Seq(M) /\ Len(s) = n + 1 /\ s[n + 1] = p /\ \A i \in 1..n : s[i] = read[i]
                        BY <1>2, <1>5, <4>1
                  <4>3. 1 \in Nat
                        BY Zenon
                  <4>4. QED BY <3>1, <4>2, <4>3, Zenon
            <3>2. CASE ~Waits(p)
                  <4>1. s = read
                        BY <1>8, <2>1, <3>2, Zenon
                  <4>2. 0 \in Nat /\ n = n + 0
                        OBVIOUS
                  <4>3. QED BY <1>2, <1>5, <3>2, <4>1, <4>2, Zenon
            <3>3. QED BY <3>1, <3>2, Zenon
      <2>3. \E h : Places(h, Append(rxQ, p), s, u)
            BY <1>2, <1>4, <1>5, <2>2, <1>PlacesPut, Zenon
      <2>4. u <= n /\ u <= n + m
            BY <1>4, <1>5
      <2>5. \A j \in 0..u : ForTransport(j)' = ForTransport(j)
            <3>1. \A i \in 1..u : read'[i] = read[i]
                  BY <2>1, <2>2, <2>4
            <3>2. QED BY <3>1, <1>CountsRead
      <2>6. u \in 0..u /\ \A j \in ForTransport(u) : j \in 0..u /\ read'[j] = read[j]
            BY <2>1, <2>2, <2>4 DEF ForTransport
      <2>7. /\ Cardinality(WholeUp(Len(up))) = Cardinality(ForTransport(u))
            /\ \A k \in WholeUp(Len(up)) : \E j \in ForTransport(u) : SamePlace(k, j)
            BY <1>3, Zenon DEF Ordered
      <2>8. \A k : WholeUp(k)' = WholeUp(k)
            BY <1>6, Zenon DEF WholeUp
      <2>9. ASSUME NEW k, NEW j \in ForTransport(u), SamePlace(k, j) PROVE SamePlace(k, j)'
            BY <1>6, <2>5, <2>6, <2>8, <2>9, Zenon DEF SamePlace
      <2>10. Ordered(u)'
            <3>1. Len(up)' = Len(up)
                  BY <1>6, Zenon
            <3>2. Cardinality(WholeUp(Len(up)))' = Cardinality(ForTransport(u))'
                  BY <2>5, <2>6, <2>7, <2>8, <3>1, Zenon
            <3>3. \A k \in WholeUp(Len(up))' : \E j \in ForTransport(u)' : SamePlace(k, j)'
                  BY <2>5, <2>6, <2>7, <2>8, <2>9, <3>1, Zenon
            <3>4. u <= Len(read)' /\ \E h : Places(h, rxQ, read, u)'
                  BY <1>8, <2>1, <2>2, <2>3, <2>4, Zenon DEF Places
            <3>5. QED BY <3>2, <3>3, <3>4, Zenon DEF Ordered
      <2>11. QED BY <2>10, Zenon DEF InOrder
<1>9. QED BY <1>6, <1>7, <1>8, Zenon

\* A packet is taken from rxQ: one that waited goes up, if it has a transport, and
\* of the others only what has been reassembled.
LEMMA TakingKeepsOrder ==
    \A p : \A c \in Seq(Frags) :
        /\ RxTypes /\ InOrder /\ rxQ # <<>> /\ p = Head(rxQ) /\ rxQ' = Tail(rxQ) /\ read' = read
        /\ up' = up \/ up' = Append(up, c)
        /\ Waits(p) => up' = IF p[1].protocol \in {"TCP", "UDP"} THEN Append(up, c) ELSE up
        /\ Waits(p) => ~isFrag(c[1]) /\ c[1].of = p
        /\ ~Waits(p) /\ up' # up => isFrag(c[1])
        => InOrder'
<1>FromZero.
      \A n \in Nat : n \in 0..n /\ \A k \in 1..n : k \in 0..n
      OBVIOUS
<1>AppendLen.
      ASSUME NEW S, NEW s \in Seq(S), NEW e \in S
      PROVE  Len(Append(s, e)) = Len(s) + 1
      BY <1>AppendLen
<1>PlacesTake.
      ASSUME NEW M, NEW q \in Seq(M), NEW r \in Seq(M), NEW g, NEW u \in Nat, q # <<>>,
             Places(g, q, r, u)
      PROVE  /\ Waits(Head(q)) =>
                   /\ u + 1 \in 1..Len(r) /\ Head(q) = r[u + 1]
                   /\ \E h : Places(h, Tail(q), r, u + 1)
             /\ ~Waits(Head(q)) => \E h : Places(h, Tail(q), r, u)
      <2> USE <1>PlacesTake
      <2>1. PICK a \in Nat : a >= 1 /\ a = Len(q)
            OBVIOUS
      <2>2. PICK t : t = Tail(q)
            BY Zenon
      <2>3. /\ t \in Seq(M) /\ Len(t) = a - 1 /\ \A i \in 1..(a - 1) : t[i] = q[i + 1]
            /\ Head(q) = q[1]
            BY <2>1, <2>2
      <2>4. /\ g \in [1..(a + 1) -> Nat] /\ g[1] = u /\ g[a + 1] = Len(r)
            /\ \A i \in 1..a :
                  /\ Waits(q[i]) => /\ g[i + 1] = g[i] + 1 /\ g[i + 1] \in 1..Len(r)
                                    /\ q[i] = r[g[i + 1]]
                  /\ ~Waits(q[i]) => g[i + 1] = g[i]
            BY <2>1, Zenon DEF Places
      <2>5. PICK h : h = [i \in 1..((a - 1) + 1) |-> g[i + 1]]
            BY Zenon
      <2>6. /\ h \in [1..((a - 1) + 1) -> Nat] /\ \A i \in 1..((a - 1) + 1) : h[i] = g[i + 1]
            BY <2>4, <2>5
      <2>7. h[1] = g[2] /\ h[(a - 1) + 1] = Len(r)
            <3>1. 1 \in 1..((a - 1) + 1) /\ 1 + 1 = 2 /\ (a - 1) + 1 \in 1..((a - 1) + 1)
                  /\ ((a - 1) + 1) + 1 = a + 1
                  BY <2>1
            <3>2. QED BY <2>4, <2>6, <3>1, Zenon
      <2>8. ASSUME NEW i \in 1..(a - 1)
            PROVE  /\ Waits(t[i]) => /\ h[i + 1] = h[i] + 1 /\ h[i + 1] \in 1..Len(r)
                                     /\ t[i] = r[h[i + 1]]
                   /\ ~Waits(t[i]) => h[i + 1] = h[i]
            <3>1. i \in 1..((a - 1) + 1) /\ i + 1 \in 1..((a - 1) + 1) /\ i + 1 \in 1..a
                  OBVIOUS
            <3>2. t[i] = q[i + 1] /\ h[i] = g[i + 1] /\ h[i + 1] = g[(i + 1) + 1]
                  BY <2>3, <2>6, <3>1, Zenon
            <3>3. QED BY <2>4, <3>1, <3>2, Zenon
      <2>9. Places(h, t, r, g[2])
            BY <2>3, <2>6, <2>7, <2>8, Zenon DEF Places
      <2>10. 1 \in 1..a /\ 1 + 1 = 2
            BY <2>1
      <2>11. /\ Waits(q[1]) => g[2] = u + 1 /\ g[2] \in 1..Len(r) /\ q[1] = r[g[2]]
             /\ ~Waits(q[1]) => g[2] = u
            BY <2>4, <2>10, Zenon
      <2>12. QED BY <2>2, <2>3, <2>9, <2>11, Zenon
<1>Counts.
      ASSUME NEW n \in Nat, NEW A, A \subseteq 1..n
      PROVE  /\ IsFiniteSet(A) /\ Cardinality(A) \in Nat
             /\ Cardinality(A \cup {n + 1}) = Cardinality(A) + 1
      <2> USE <1>Counts
      <2>1. IsFiniteSet(1..n)
            BY FS_Interval
      <2>2. IsFiniteSet(A) /\ Cardinality(A) \in Nat
            BY <2>1, FS_Subset, FS_CardinalityType, Zenon
      <2>3. n + 1 \notin A
            OBVIOUS
      <2>4. Cardinality(A \cup {n + 1}) = Cardinality(A) + 1
            BY <2>2, <2>3, FS_AddElement, Zenon
      <2>5. QED BY <2>2, <2>4, Zenon
<1>NextForTransport.
      ASSUME NEW u \in Nat
      PROVE  ForTransport(u + 1) = IF read[u + 1][1].protocol \in {"TCP", "UDP"}
                                   THEN ForTransport(u) \cup {u + 1} ELSE ForTransport(u)
      <2> USE <1>NextForTransport
      <2>1. 1..(u + 1) = 1..u \cup {u + 1}
            OBVIOUS
      <2>2. QED BY <2>1, Zenon DEF ForTransport
<1>UpAppended.
      ASSUME NEW S, up \in Seq(S), NEW c \in S, up' = Append(up, c), NEW n \in Nat, n = Len(up)
      PROVE  /\ Len(up') = n + 1 /\ up'[n + 1] = c
             /\ \A k \in 1..n : up'[k] = up[k]
             /\ \A k \in 0..n : WholeUp(k)' = WholeUp(k)
             /\ WholeUp(n + 1)' = IF isFrag(c[1]) THEN WholeUp(n) ELSE WholeUp(n) \cup {n + 1}
      <2> USE <1>UpAppended
      <2>1. /\ Len(up') = n + 1 /\ up'[n + 1] = c /\ \A k \in 1..n : up'[k] = up[k]
            OBVIOUS
      <2>2. ASSUME NEW k \in 0..n PROVE WholeUp(k)' = WholeUp(k)
            <3>1. \A i \in 1..k : up'[i] = up[i]
                  BY <2>1
            <3>2. QED BY <3>1, Zenon DEF WholeUp
      <2>3. 1..(n + 1) = 1..n \cup {n + 1}
            OBVIOUS
      <2>4. WholeUp(n + 1)' = IF isFrag(c[1]) THEN WholeUp(n) ELSE WholeUp(n) \cup {n + 1}
            BY <2>1, <2>3, Zenon DEF WholeUp
      <2>5. QED BY <2>1, <2>2, <2>4, Zenon
<1> SUFFICES ASSUME RxTypes, InOrder, NEW p, rxQ # <<>>, p = Head(rxQ), rxQ' = Tail(rxQ),
                    read' = read, NEW c \in Seq(Frags), up' = up \/ up' = Append(up, c),
                    Waits(p) => up' = IF p[1].protocol \in {"TCP", "UDP"} THEN Append(up, c) ELSE up,
                    Waits(p) => ~isFrag(c[1]) /\ c[1].of = p,
                    ~Waits(p) /\ up' # up => isFrag(c[1])
             PROVE  InOrder'
    BY Zenon
<1>1. PICK M, S : M = Packets /\ S = Seq(Frags)
      BY Zenon
<1>2. rxQ \in Seq(M) /\ read \in Seq(M) /\ up \in Seq(S) /\ c \in S
      BY <1>1, Zenon DEF RxTypes
<1>3. PICK u \in Nat : Ordered(u)
      BY Zenon DEF InOrder
<1>4. PICK n \in Nat : n = Len(up)
      BY <1>2, LenIsNat, Zenon
<1>5. /\ u <= Len(read)
      /\ Cardinality(WholeUp(n)) = Cardinality(ForTransport(u))
      /\ \A k \in WholeUp(n) : \E j \in ForTransport(u) : SamePlace(k, j)
      BY <1>3, <1>4, Zenon DEF Ordered
<1>6. PICK g : Places(g, rxQ, read, u)
      BY <1>3, Zenon DEF Ordered
<1>7. /\ Waits(p) => /\ u + 1 \in 1..Len(read) /\ p = read[u + 1]
                     /\ \E h : Places(h, Tail(rxQ), read, u + 1)
      /\ ~Waits(p) => \E h : Places(h, Tail(rxQ), read, u)
      BY <1>2, <1>6, <1>PlacesTake, Zenon
<1>8. /\ \A j : ForTransport(j)' = ForTransport(j)
      /\ WholeUp(n) \subseteq 1..n /\ ForTransport(u) \subseteq 1..u
      BY Zenon DEF ForTransport, WholeUp
<1>9. /\ up' = Append(up, c) => Len(up') = n + 1
      /\ \A k \in WholeUp(n) : up'[k] = up[k] /\ WholeUp(k)' = WholeUp(k)
      /\ up' = up => WholeUp(n)' = WholeUp(n)
      <2>1. CASE up' = up
            <3>1. Len(Append(up, c)) = Len(up) + 1
                  BY <1>2, <1>AppendLen, Zenon
            <3>2. up' = Append(up, c) => Len(up') = n + 1
                  BY <1>4, <3>1, Zenon
            <3>3. QED BY <2>1, <3>2, Zenon DEF WholeUp
      <2>2. CASE up' = Append(up, c)
            <3>1. /\ Len(up') = n + 1
                  /\ \A k \in 1..n : up'[k] = up[k]
                  /\ \A k \in 0..n : WholeUp(k)' = WholeUp(k)
                  BY <1>2, <1>4, <2>2, <1>UpAppended, Zenon
            <3>2. n \in 0..n /\ \A k \in 1..n : k \in 0..n
                  BY <1>FromZero, Zenon
            <3>3. QED BY <1>8, <3>1, <3>2, Zenon
      <2>3. QED BY <2>1, <2>2, Zenon
<1>10. ASSUME NEW k \in WholeUp(n), NEW j, SamePlace(k, j) PROVE SamePlace(k, j)'
      BY <1>8, <1>9, <1>10, Zenon DEF SamePlace
<1>11. \A k \in WholeUp(n) : \E j \in ForTransport(u) : SamePlace(k, j)'
      BY <1>5, <1>10, Zenon
\* It is enough to count.
<1>12. ASSUME NEW v \in Nat, v <= Len(read), \E h : Places(h, Tail(rxQ), read, v),
              NEW m, m = Len(up'),
              Cardinality(WholeUp(m)') = Cardinality(ForTransport(v)),
              \A k \in WholeUp(m)' : \E j \in ForTransport(v) : SamePlace(k, j)'
       PROVE  InOrder'
      <2>1. Ordered(v)'
            BY <1>8, <1>12, Zenon DEF Ordered, Places
      <2>2. QED BY <2>1, Zenon DEF InOrder
<1>13. CASE ~Waits(p)
      <2>1. WholeUp(n)' = WholeUp(n)
            <3>1. CASE up' = up
                  BY <1>9, <3>1, Zenon
            <3>2. CASE up' = Append(up, c)
                  <4>1. n \in 0..n
                        BY SMTT(30)
                  <4>2. QED BY <1>2, <1>4, <3>2, <4>1, <1>UpAppended, Zenon
            <3>3. QED BY <3>1, <3>2, Zenon
      <2>2. PICK m : m = Len(up')
            BY Zenon
      <2>3. WholeUp(m)' = WholeUp(n)
            <3>1. CASE up' = up
                  BY <1>4, <2>1, <2>2, <3>1, Zenon
            <3>2. CASE up' # up
                  <4>1. up' = Append(up, c) /\ isFrag(c[1])
                        BY <1>13, <3>2, Zenon
                  <4>2. m = n + 1
                        BY <1>9, <2>2, <4>1, Zenon
                  <4>3. QED BY <1>2, <1>4, <4>1, <4>2, <1>UpAppended, Zenon
            <3>3. QED BY <3>1, <3>2, Zenon
      <2>4. QED BY <1>5, <1>7, <1>11, <1>12, <1>13, <2>2, <2>3, Zenon
<1>14. CASE Waits(p)
      <2>1. PICK v \in Nat : v = u + 1
            OBVIOUS
      <2>2. /\ v <= Len(read) /\ p = read[v] /\ \E h : Places(h, Tail(rxQ), read, v)
            <3>1. /\ v \in 1..Len(read) /\ p = read[v]
                  /\ \E h : Places(h, Tail(rxQ), read, v)
                  BY <1>7, <1>14, <2>1, Zenon
            <3>2. Len(read) \in Nat
                  BY <1>2
            <3>3. v <= Len(read)
                  BY <3>1, <3>2, SMTT(30)
            <3>4. QED BY <3>1, <3>3, Zenon
      <2>3. CASE p[1].protocol \notin {"TCP", "UDP"}
            <3>1. up' = up /\ ForTransport(v) = ForTransport(u)
                  BY <1>14, <2>1, <2>2, <2>3, <1>NextForTransport, Zenon
            <3>2. QED BY <1>4, <1>5, <1>9, <1>11, <1>12, <2>2, <3>1, Zenon
      <2>4. CASE p[1].protocol \in {"TCP", "UDP"}
            <3>1. up' = Append(up, c) /\ ForTransport(v) = ForTransport(u) \cup {v}
                  BY <1>14, <2>1, <2>2, <2>4, <1>NextForTransport, Zenon
            <3>2. PICK m \in Nat : m = n + 1
                  OBVIOUS
            <3>3. ~isFrag(c[1]) /\ c[1].of = p
                  BY <1>14, Zenon
            <3>4. Len(up') = m /\ up'[m] = c /\ WholeUp(m)' = WholeUp(n) \cup {m}
                  BY <1>2, <1>4, <3>1, <3>2, <3>3, <1>UpAppended, Zenon
            <3>5. /\ Cardinality(WholeUp(n) \cup {m}) = Cardinality(WholeUp(n)) + 1
                  /\ Cardinality(ForTransport(u) \cup {v}) = Cardinality(ForTransport(u)) + 1
                  BY <1>8, <2>1, <3>2, <1>Counts, Zenon
            <3>6. Cardinality(WholeUp(m)') = Cardinality(ForTransport(v))
                  BY <1>5, <3>1, <3>4, <3>5, Zenon
            <3>7. SamePlace(m, v)'
                  BY <1>8, <2>2, <3>3, <3>4, <3>6, Zenon DEF SamePlace
            <3>8. \A k \in WholeUp(m)' : \E j \in ForTransport(v) : SamePlace(k, j)'
                  BY <1>11, <3>1, <3>4, <3>7, Zenon
            <3>9. QED BY <1>12, <2>2, <3>4, <3>6, <3>8, Zenon
      <2>5. QED BY <2>3, <2>4, Zenon
<1>15. QED BY <1>13, <1>14, Zenon

-----------------------------------------------------------------------------
(* Steps 1 and 2, and what defrag leaves in its list.                      *)

\* Fragments that come from outside stay gathered in order.
LEMMA GatheredKept ==
    RxTypes /\ GroupsOK /\ UpOK /\ Gathered /\ [Next]_vars
    => Gathered'
\* Put before all or behind all of a list in ascending order.
<1>AscendingPut.
      ASSUME NEW x \in Seq(Frags), NEW s \in Seq(Frags), NEW f, NEW n, Put(s, x, f, n),
             f.of[2] \in Nat, \A i \in DOMAIN x : x[i].of[2] \in Nat,
             \A i, j \in DOMAIN x : i < j => x[i].of[2] < x[j].of[2],
             \/ n = 0 /\ \A i \in DOMAIN x : x[i].of[2] > f.of[2]
             \/ n = Len(x) /\ \A i \in DOMAIN x : x[i].of[2] < f.of[2]
      PROVE  \A i, j \in DOMAIN s : i < j => s[i].of[2] < s[j].of[2]
      <2> USE <1>AscendingPut
      <2>1. PICK N \in Nat : N = Len(x) /\ DOMAIN x = 1..N /\ DOMAIN s = 1..(N + 1)
            BY SMTT(30) DEF Put
      <2>2. SUFFICES ASSUME NEW i \in 1..(N + 1), NEW j \in 1..(N + 1), i < j
                     PROVE  s[i].of[2] < s[j].of[2]
            BY <2>1, Zenon
      <2>3. CASE n = 0 /\ \A m \in DOMAIN x : x[m].of[2] > f.of[2]
            <3>1. s[1] = f /\ \A m \in 1..N : s[m + 1] = x[m]
                  BY <2>1, <2>3 DEF Put
            <3>2. j - 1 \in 1..N /\ (j - 1) + 1 = j
                  BY <2>1, <2>2, SMTT(30)
            <3>3. s[j] = x[j - 1]
                  BY <3>1, <3>2, Zenon
            <3>4. CASE i = 1
                  <4>1. x[j - 1].of[2] > f.of[2] /\ x[j - 1].of[2] \in Nat
                        BY <2>1, <2>3, <3>2, Zenon
                  <4>2. f.of[2] < x[j - 1].of[2]
                        BY <4>1, Zenon
                  <4>3. QED BY <3>1, <3>3, <3>4, <4>2, Zenon
            <3>5. CASE i # 1
                  <4>1. i - 1 \in 1..N /\ (i - 1) + 1 = i /\ i - 1 < j - 1
                        BY <2>1, <2>2, <3>5
                  <4>2. s[i] = x[i - 1]
                        BY <3>1, <4>1, Zenon
                  <4>3. QED BY <2>1, <3>2, <3>3, <4>1, <4>2, Zenon
            <3>6. QED BY <3>4, <3>5, Zenon
      <2>4. CASE n = N /\ \A m \in DOMAIN x : x[m].of[2] < f.of[2]
            <3>1. s[N + 1] = f /\ \A m \in 1..N : s[m] = x[m]
                  BY <2>1, <2>4, Zenon DEF Put
            <3>2. i \in 1..N
                  BY <2>1, <2>2
            <3>3. CASE j = N + 1
                  BY <2>1, <2>4, <3>1, <3>2, <3>3, Zenon
            <3>4. CASE j # N + 1
                  <4>1. j \in 1..N
                        BY <2>1, <3>4
                  <4>2. QED BY <2>1, <2>2, <3>1, <3>2, <4>1, Zenon
            <3>5. QED BY <3>3, <3>4, Zenon
      <2>5. QED BY <2>1, <2>3, <2>4, Zenon
<1>SortedPut.
      ASSUME RxTypes, NEW d \in Datagrams, NEW k \in DOMAIN d.frags, Given(d, k),
             NEW x \in Seq(Frags), Sorted(x, d), Outside(d)',
             NEW f \in Frags, f = Frag(<<d, k>>)
      PROVE  ~PrevIsNull(x, f) /\ Sorted(Insert(x, f), d)'
      <2> USE <1>SortedPut
      <2>1. /\ DOMAIN seen[d] = 1..Len(seen[d]) /\ DOMAIN seen'[d] = 1..(Len(seen[d]) + 1)
            /\ Len(seen[d]) \in Nat
            /\ seen'[d][Len(seen[d]) + 1] = k
            /\ \A j \in 1..Len(seen[d]) : seen'[d][j] = seen[d][j]
            BY SeenGrows, Zenon
      <2>2. \/ \A j \in DOMAIN seen[d] : seen[d][j] > k
            \/ \A j \in DOMAIN seen[d] :
                  seen[d][j] < k /\ Frag(<<d, seen[d][j]>>).off < RawOffset(f)
            <3>1. PICK l \in Nat : l = Len(seen[d]) + 1 /\ l - 1 = Len(seen[d]) /\ l \in 1..l
                  <4>1. PICK m \in Nat : m = Len(seen[d])
                        BY <2>1, Zenon
                  <4>2. m + 1 \in Nat /\ (m + 1) - 1 = m /\ m + 1 \in 1..(m + 1)
                        OBVIOUS
                  <4>3. QED BY <4>1, <4>2, Zenon
            <3>4. l \in DOMAIN seen'[d]
                  BY <2>1, <3>1, Zenon
            <3>2. \/ \A j \in 1..(l - 1) : seen'[d][j] > seen'[d][l]
                  \/ \A j \in 1..(l - 1) :
                        /\ seen'[d][j] < seen'[d][l]
                        /\ Frag(<<d, seen'[d][j]>>).off < RawOffset(Frag(<<d, seen'[d][l]>>))
                  BY <3>4, Zenon DEF Outside
            <3>3. QED BY <2>1, <3>1, <3>2, Zenon
      <2>3. f.off = d.frags[k].off /\ f.of[2] = k /\ k \in Nat /\ f.off \in Nat
            <3>1. f.off = d.frags[k].off /\ f.of = <<d, k>>
                  BY FragFields, Zenon
            <3>2. k \in Nat /\ d.frags[k].off \in Nat
                  BY FragsAre, SMTT(30)
            <3>3. QED BY <3>1, <3>2, SMTT(30)
      <2>4. /\ \A i \in DOMAIN x : \E j \in DOMAIN seen[d] : x[i] = Frag(<<d, seen[d][j]>>)
            /\ \A j \in DOMAIN seen[d] : \E i \in DOMAIN x : x[i] = Frag(<<d, seen[d][j]>>)
            /\ \A i, j \in DOMAIN x : i < j => x[i].of[2] < x[j].of[2]
            BY Zenon DEF Sorted, Came
      <2>5. ASSUME NEW j \in DOMAIN seen[d], NEW g, g = Frag(<<d, seen[d][j]>>)
            PROVE  /\ g.of[2] \in Nat /\ g.off \in Nat /\ g.of[2] = seen[d][j]
                   /\ g.of[2] > k => g.off > f.off
                   /\ g.of[2] < k => g.off < f.off
            <3>1. PICK q \in DOMAIN d.frags : q = seen[d][j]
                  BY Zenon DEF RxTypes
            <3>2. g.of[2] = q /\ g.off = d.frags[q].off /\ q \in Nat /\ g.off \in Nat
                  <4>1. g.off = d.frags[q].off /\ g.of = <<d, q>>
                        <5>1. g = Frag(<<d, q>>)
                              BY <2>5, <3>1, Zenon
                        <5>2. QED BY <5>1, FragFields, Zenon
                  <4>2. q \in Nat /\ d.frags[q].off \in Nat
                        <5>1. DOMAIN d.frags = 1..Len(d.frags) /\ d.frags[q].off \in Nat
                              BY FragsAre, Zenon
                        <5>2. QED BY <5>1
                  <4>3. QED BY <4>1, <4>2, SMTT(30)
            <3>3. ASSUME q > k PROVE d.frags[q].off > d.frags[k].off
                  <4>1. k < q
                        BY <2>3, <3>2, <3>3, Zenon
                  <4>2. d.frags[k].off < d.frags[q].off
                        BY <4>1, OffsetsIncrease, Zenon
                  <4>3. QED BY <2>3, <3>2, <4>2, Zenon
            <3>4. q < k => d.frags[q].off < d.frags[k].off
                  BY OffsetsIncrease, Zenon
            <3>5. QED BY <2>3, <3>1, <3>2, <3>3, <3>4, Zenon
      <2>6. ASSUME NEW i \in DOMAIN x PROVE x[i].of[2] \in Nat /\ x[i].off \in Nat
            <3>1. PICK j \in DOMAIN seen[d] : x[i] = Frag(<<d, seen[d][j]>>)
                  BY <2>4, Zenon
            <3>2. QED BY <2>5, <3>1, Zenon
      <2>7. PICK N \in Nat : N = Len(x) /\ DOMAIN x = 1..N
            OBVIOUS
      <2> DEFINE n == IF GoesFirst(x, f) THEN 0 ELSE Passed(x, f)
      <2>8. /\ ~PrevIsNull(x, f)
            /\ \/ n = 0 /\ \A i \in DOMAIN x : x[i].of[2] > f.of[2]
               \/ n = Len(x) /\ \A i \in DOMAIN x : x[i].of[2] < f.of[2]
            <3>1. CASE \A j \in DOMAIN seen[d] : seen[d][j] > k
                  <4>1. ASSUME NEW i \in DOMAIN x PROVE x[i].of[2] > f.of[2] /\ x[i].off > f.off
                        <5>1. PICK j \in DOMAIN seen[d] : x[i] = Frag(<<d, seen[d][j]>>)
                              BY <2>4, Zenon
                        <5>2. QED BY <2>3, <2>5, <3>1, <5>1, Zenon
                  <4>2. GoesFirst(x, f)
                        <5>1. CASE x = <<>>
                              BY <5>1, Zenon DEF GoesFirst
                        <5>2. CASE x # <<>>
                              <6>1. 1 \in DOMAIN x
                                    BY <5>2
                              <6>2. QED BY <4>1, <6>1, Zenon DEF GoesFirst
                        <5>3. QED BY <5>1, <5>2, Zenon
                  <4>3. QED BY <4>1, <4>2, Zenon DEF PrevIsNull
            <3>2. CASE \A j \in DOMAIN seen[d] :
                          seen[d][j] < k /\ Frag(<<d, seen[d][j]>>).off < RawOffset(f)
                  <4>1. ASSUME NEW i \in DOMAIN x
                        PROVE  /\ x[i].of[2] < f.of[2] /\ x[i].off < f.off
                               /\ x[i].off < RawOffset(f)
                        <5>1. PICK j \in DOMAIN seen[d] : x[i] = Frag(<<d, seen[d][j]>>)
                              BY <2>4, Zenon
                        <5>2. QED BY <2>3, <2>5, <3>2, <5>1, Zenon
                  <4>2. CASE x = <<>>
                        <5>1. GoesFirst(x, f) /\ Len(x) = 0
                              BY <4>2, Zenon DEF GoesFirst
                        <5>2. QED BY <4>1, <5>1, Zenon DEF PrevIsNull
                  <4>3. CASE x # <<>>
                        <5>1. 1 \in DOMAIN x /\ N >= 1
                              BY <2>7, <4>3
                        <5>2. ~GoesFirst(x, f)
                              <6>1. x[1].off < f.off /\ x[1].off \in Nat
                                    BY <2>6, <4>1, <5>1, Zenon
                              <6>2. QED BY <2>3, <4>3, <6>1 DEF GoesFirst
                        <5>3. Passed(x, f) = N
                              <6>1. /\ Passed(x, f) \in 0..N
                                    /\ Passed(x, f) < N => RawOffset(f) <= x[Passed(x, f) + 1].off
                                    BY <2>7, PassedIs, Zenon
                              <6>2. ASSUME Passed(x, f) < N PROVE FALSE
                                    <7>1. PICK i \in DOMAIN x : i = Passed(x, f) + 1
                                          BY <2>7, <6>1, <6>2, SMTT(30)
                                    <7>2. x[i].off < RawOffset(f) /\ RawOffset(f) <= x[i].off
                                          BY <4>1, <6>1, <6>2, <7>1, Zenon
                                    <7>3. RawOffset(f) \in Nat /\ x[i].off \in Nat
                                          BY <2>6, RawIsNat, Zenon
                                    <7>4. QED BY <7>2, <7>3, SMTT(30)
                              <6>3. QED BY <2>7, <6>1, <6>2, SMTT(30)
                        <5>4. n = Len(x) /\ ~(N = 0)
                              BY <2>7, <5>1, <5>2, <5>3
                        <5>5. ~PrevIsNull(x, f)
                              BY <5>3, <5>4, Zenon DEF PrevIsNull
                        <5>6. QED BY <4>1, <5>4, <5>5, Zenon
                  <4>4. QED BY <4>2, <4>3, Zenon
            <3>3. QED BY <2>2, <3>1, <3>2, Zenon
      <2>9. PICK s : s = Insert(x, f)
            BY Zenon
      <2>10. s \in Seq(Frags) /\ Put(s, x, f, n)
            BY <2>8, <2>9, Inserted, Zenon
      <2> HIDE DEF n
      <2>11. \A i, j \in DOMAIN s : i < j => s[i].of[2] < s[j].of[2]
            BY <2>3, <2>4, <2>6, <2>8, <2>10, <1>AscendingPut, ZenonT(30)
      <2>12. /\ \A j \in DOMAIN s : s[j] = f \/ \E i \in DOMAIN x : s[j] = x[i]
             /\ \E j \in DOMAIN s : s[j] = f
             /\ \A i \in DOMAIN x : \E j \in DOMAIN s : s[j] = x[i]
            <3>1. Mix(s, x, f)
                  BY <2>10, PutElements, Zenon
            <3>2. QED BY <3>1, Zenon DEF Mix
      <2>13. \A j \in DOMAIN s : Came(s[j], d)'
            <3>1. \A g : Came(g, d)' <=> Came(g, d) \/ g = f
                  BY CameGrows, Zenon
            <3>2. \A j \in DOMAIN x : Came(x[j], d)
                  BY Zenon DEF Sorted
            <3>3. QED BY <2>12, <3>1, <3>2, Zenon
      <2>14. ASSUME NEW l \in DOMAIN seen'[d] PROVE \E j \in DOMAIN s : s[j] = Frag(<<d, seen'[d][l]>>)
            <3>1. CASE l = Len(seen[d]) + 1
                  BY <2>1, <2>12, <3>1, Zenon
            <3>2. CASE l # Len(seen[d]) + 1
                  <4>1. l \in DOMAIN seen[d] /\ seen'[d][l] = seen[d][l]
                        BY <2>1, <3>2, SMTT(30)
                  <4>2. PICK i \in DOMAIN x : x[i] = Frag(<<d, seen[d][l]>>)
                        BY <2>4, <4>1, Zenon
                  <4>3. QED BY <2>12, <4>1, <4>2, Zenon
            <3>3. QED BY <3>1, <3>2, Zenon
      <2>15. Sorted(s, d)'
            BY <2>11, <2>13, <2>14, Zenon DEF Sorted
      <2>16. QED BY <2>8, <2>9, <2>15, Zenon DEF Sorted
<1>DeliveredStays.
      ASSUME RxTypes, GroupsOK, [Next]_vars, NEW d, Delivered(d)
      PROVE  Delivered(d)'
      <2> USE <1>DeliveredStays
      <2>1. PICK k \in DOMAIN up : up[k] = Whole(d)
            BY Zenon DEF Delivered
      <2>2. PICK S : S = Seq(Frags)
            BY Zenon
      <2>3. up \in Seq(S)
            BY <2>2, Zenon DEF RxTypes
      <2>4. CASE up' = up
            BY <2>1, <2>4, Zenon DEF Delivered, Whole
      <2>5. ASSUME NEW w, GoesUp(w) PROVE Delivered(d)'
            <3>1. up' = Append(up, w)
                  BY <2>5, Zenon DEF GoesUp
            <3>2. k \in DOMAIN up' /\ up'[k] = up[k]
                  BY <2>1, <2>3, <3>1
            <3>3. QED BY <2>1, <3>2, Zenon DEF Delivered, Whole
      <2>6. QED BY <2>4, <2>5, UpGrows, Zenon
\* A datagram whose fragments and group are as they were.
<1>GatherStays.
      ASSUME RxTypes, GroupsOK, [Next]_vars, NEW d \in Datagrams, Gather(d),
             seen'[d] = seen[d],
             \A y : Holds(groups', d.key, y) <=> Holds(groups, d.key, y)
      PROVE  Gather(d)'
      <2> USE <1>GatherStays
      <2>1. CASE seen[d] = <<>> /\ \A i \in DOMAIN groups : groups[i].key # d.key
            <3>1. \A y : ~Holds(groups', d.key, y)
                  BY <2>1, Zenon DEF Holds
            <3>2. QED BY <2>1, <3>1, Zenon DEF Holds, Gather
      <2>2. CASE \E i \in DOMAIN groups : groups[i].key = d.key /\ Sorted(groups[i].frags, d)
            <3>1. PICK y : Holds(groups, d.key, y) /\ Sorted(y, d)
                  BY <2>2, Zenon DEF Holds
            <3>2. Holds(groups', d.key, y) /\ Sorted(y, d)'
                  BY <3>1, Zenon DEF Sorted, Came
            <3>3. PICK i \in DOMAIN groups' : groups'[i].key = d.key /\ groups'[i].frags = y
                  BY <3>2, Zenon DEF Holds
            <3>4. Sorted(groups[i].frags, d)'
                  BY <3>2, <3>3, Zenon DEF Sorted
            <3>5. QED BY <3>3, <3>4, Zenon DEF Gather
      <2>3. CASE /\ d.protocol \in {"TCP", "UDP"} => Delivered(d)
                 /\ \A i \in DOMAIN d.frags : \E k \in DOMAIN seen[d] : seen[d][k] = i
            <3>1. Delivered(d) => Delivered(d)'
                  BY <1>DeliveredStays, Zenon
            <3>2. QED BY <2>3, <3>1, Zenon DEF Gather
      <2>4. QED BY <2>1, <2>2, <2>3, Zenon DEF Gather
<1> SUFFICES ASSUME RxTypes, GroupsOK, UpOK, Gathered, [Next]_vars
             PROVE  Gathered'
    BY Zenon
<1>1. ASSUME NEW e \in Datagrams, seen'[e] = seen[e], Outside(e)', Alone(e),
             \A y : Holds(groups', e.key, y) <=> Holds(groups, e.key, y)
      PROVE  Gather(e)'
      <2>1. Outside(e)
            BY <1>1, Zenon DEF Outside
      <2>2. Gather(e)
            BY <1>1, <2>1, Zenon DEF Gathered
      <2>3. QED BY <1>1, <2>2, <1>GatherStays, Zenon
<1>2. CASE UNCHANGED <<groups, seen>>
      <2>1. \A e \in Datagrams : Alone(e)' => Alone(e)
            BY <1>2, Zenon DEF Alone
      <2>2. QED BY <1>1, <1>2, <2>1, Zenon DEF Gathered
<1>3. ASSUME NEW d \in Datagrams, NEW k \in DOMAIN d.frags, IpRxFragment(<<d, k>>)
      PROVE  Gathered'
      <2>1. PICK x, f : x = Before(<<d, k>>) /\ f = Frag(<<d, k>>)
            BY Zenon
      <2>2. /\ Given(d, k) /\ f \in Frags /\ x \in Seq(Frags)
            /\ Holds(groups, d.key, x) \/ (x = <<>> /\ \A y : ~Holds(groups, d.key, y))
            /\ PrevIsNull(x, f) => UNCHANGED groups
            /\ ~PrevIsNull(x, f) => TakenIn(d, Insert(x, f))
            <3>1. /\ Given(d, k) /\ f \in Frags /\ x \in Seq(Frags)
                  /\ Holds(groups, d.key, x) \/ (x = <<>> /\ \A y : ~Holds(groups, d.key, y))
                  /\ PrevIsNull(x, f) => UNCHANGED <<groups, up>>
                  /\ ~PrevIsNull(x, f) => TakenIn(d, Insert(x, f))
                  <4>1. PICK p : p = <<d, k>>
                        BY Zenon
                  <4>2. IpRxFragment(p) /\ x = Before(p) /\ f = Frag(p)
                        BY <1>3, <2>1, <4>1, Zenon
                  <4>3. QED BY <4>1, <4>2, FragmentStep, Zenon
            <3>2. UNCHANGED <<groups, up>> => UNCHANGED groups
                  OBVIOUS
            <3>3. QED BY <3>1, <3>2, Zenon
      <2>3. /\ \A e \in Datagrams : e # d => seen'[e] = seen[e]
            /\ DOMAIN seen[d] = 1..Len(seen[d]) /\ DOMAIN seen'[d] = 1..(Len(seen[d]) + 1)
            /\ Len(seen[d]) \in Nat
            /\ seen'[d][Len(seen[d]) + 1] = k
            /\ \A j \in 1..Len(seen[d]) : seen'[d][j] = seen[d][j]
            /\ \A j \in DOMAIN seen'[d] : seen'[d][j] \in DOMAIN d.frags
            BY <2>2, SeenGrows, Zenon
      <2>7. seen'[d] # <<>>
            BY <2>3
      <2>8. ASSUME NEW e \in Datagrams, Alone(e)' PROVE Alone(e)
            <3>1. \A c \in Datagrams \ {e} : c.key = e.key => seen'[c] = <<>>
                  BY <2>8, Zenon DEF Alone
            <3>2. \A c \in Datagrams \ {e} : c.key = e.key => seen[c] = <<>>
                  BY <2>3, <2>7, <3>1, Zenon
            <3>3. QED BY <3>2, Zenon DEF Alone
      <2>4. ASSUME NEW e \in Datagrams, e # d, Outside(e)', Alone(e)' PROVE Gather(e)'
            <3>1. e.key # d.key
                  BY <2>4, <2>7, Zenon DEF Alone
            <3>2. \A y : Holds(groups', e.key, y) <=> Holds(groups, e.key, y)
                  BY <2>2, <3>1, Zenon DEF TakenIn
            <3>3. QED BY <1>1, <2>3, <2>4, <2>8, <3>2, Zenon
      <2>5. ASSUME Outside(d)', Alone(d)' PROVE Gather(d)'
            <3>1. Outside(d)
                  <4>1. ASSUME NEW q \in DOMAIN seen[d]
                        PROVE  /\ q \in DOMAIN seen'[d] /\ seen'[d][q] = seen[d][q]
                               /\ \A j \in 1..(q - 1) : seen'[d][j] = seen[d][j]
                        <5>1. PICK L \in Nat : L = Len(seen[d])
                              BY <2>3, Zenon
                        <5>2. q \in 1..L
                              BY <2>3, <5>1, Zenon
                        <5>3. q \in 1..(L + 1) /\ \A j \in 1..(q - 1) : j \in 1..L
                              BY <5>2
                        <5>4. QED BY <2>3, <5>1, <5>2, <5>3, Zenon
                  <4>2. QED BY <2>5, <4>1, Zenon DEF Outside
            <3>2. Gather(d)
                  BY <2>5, <2>8, <3>1, Zenon DEF Gathered
            <3>3. ~\E q \in DOMAIN seen[d] : seen[d][q] = k
                  <4>1. ASSUME NEW q \in DOMAIN seen[d], seen[d][q] = k PROVE FALSE
                        <5>1. PICK l \in Nat : l = Len(seen[d]) + 1
                              BY <2>3
                        <5>2. l \in DOMAIN seen'[d] /\ q \in 1..(l - 1)
                              BY <2>3, <5>1
                        <5>3. seen'[d][q] = k /\ seen'[d][l] = k /\ k \in Nat
                              BY <2>3, <4>1, <5>1, FragsAre
                        <5>4. seen'[d][q] > seen'[d][l] \/ seen'[d][q] < seen'[d][l]
                              BY <2>5, <5>2, Zenon DEF Outside
                        <5>5. QED BY <5>3, <5>4
                  <4>2. QED BY <4>1, Zenon
            <3>4. Sorted(x, d)
                  <4>1. CASE seen[d] = <<>> /\ \A i \in DOMAIN groups : groups[i].key # d.key
                        <5>1. ~Holds(groups, d.key, x)
                              BY <4>1, Zenon DEF Holds
                        <5>2. x = <<>>
                              BY <2>2, <5>1, Zenon
                        <5>3. QED BY <4>1, <5>2, SMTT(30) DEF Sorted
                  <4>2. CASE \E i \in DOMAIN groups :
                                groups[i].key = d.key /\ Sorted(groups[i].frags, d)
                        <5>1. PICK i \in DOMAIN groups :
                                 groups[i].key = d.key /\ Sorted(groups[i].frags, d)
                              BY <4>2, Zenon
                        <5>2. Holds(groups, d.key, groups[i].frags)
                              BY <5>1, Zenon DEF Holds
                        <5>3. PICK j \in DOMAIN groups :
                                 groups[j].key = d.key /\ groups[j].frags = x
                              BY <2>2, <5>2, Zenon DEF Holds
                        <5>4. i = j
                              BY <5>1, <5>3, Zenon DEF GroupsOK, Keyed
                        <5>5. QED BY <5>1, <5>3, <5>4, Zenon
                  <4>3. QED BY <3>2, <3>3, <4>1, <4>2, Zenon DEF Gather
            <3>5. ~PrevIsNull(x, f) /\ Sorted(Insert(x, f), d)'
                  BY <2>1, <2>2, <2>5, <3>4, <1>SortedPut, Zenon
            <3>6. PICK s : s = Insert(x, f)
                  BY Zenon
            <3>7. TakenIn(d, s) /\ Sorted(s, d)'
                  BY <2>2, <3>5, <3>6, Zenon DEF Sorted
            <3>8. CASE ~Present(s)
                  <4>1. Holds(groups', d.key, s)
                        BY <3>7, <3>8, Zenon DEF TakenIn
                  <4>2. PICK i \in DOMAIN groups' : groups'[i].key = d.key /\ groups'[i].frags = s
                        BY <4>1, Zenon DEF Holds
                  <4>3. Sorted(groups[i].frags, d)'
                        BY <3>7, <4>2, Zenon DEF Sorted
                  <4>4. QED BY <4>2, <4>3, Zenon DEF Gather
            <3>9. CASE Present(s)
                  <4>1. s = Whole(d)
                        <5>1. Chained(s, f, d.key)
                              BY <1>3, <2>1, <3>5, <3>6, TakenInIs, Zenon
                        <5>2. s \in Seq(Frags) /\ s # <<>>
                              BY <5>1, Zenon DEF Chained
                        <5>3. \A j \in DOMAIN s : \E i \in DOMAIN d.frags : s[j] = Frag(<<d, i>>)
                              BY <2>3, <3>7, Zenon DEF Sorted, Came
                        <5>4. QED BY <3>9, <5>2, <5>3, PresentIsWhole, Zenon
                  <4>2. ASSUME d.protocol \in {"TCP", "UDP"} PROVE Delivered(d)'
                        <5>1. up' = Append(up, s)
                              BY <3>7, <3>9, <4>2, Zenon DEF TakenIn
                        <5>2. PICK S : S = Seq(Frags)
                              BY Zenon
                        <5>3. up \in Seq(S)
                              BY <5>2, Zenon DEF RxTypes
                        <5>4. PICK m \in DOMAIN up' : up'[m] = s
                              <6>1. Len(up) + 1 \in DOMAIN up' /\ up'[Len(up) + 1] = s
                                    BY <5>1, <5>3
                              <6>2. QED BY <6>1, Zenon
                        <5>5. QED BY <4>1, <5>4, Zenon DEF Delivered, Whole
                  <4>3. ASSUME NEW i \in DOMAIN d.frags PROVE \E q \in DOMAIN seen'[d] : seen'[d][q] = i
                        <5>1. i \in DOMAIN s /\ s[i] = Frag(<<d, i>>)
                              BY <4>1, Zenon DEF Whole
                        <5>2. PICK q \in DOMAIN seen'[d] : s[i] = Frag(<<d, seen'[d][q]>>)
                              BY <3>7, <5>1, Zenon DEF Sorted, Came
                        <5>3. PICK l : l = seen'[d][q]
                              BY Zenon
                        <5>4. Frag(<<d, i>>).of = <<d, i>> /\ Frag(<<d, l>>).of = <<d, l>>
                              BY FragFields, Zenon
                        <5>5. Frag(<<d, i>>) = Frag(<<d, l>>)
                              BY <5>1, <5>2, <5>3, Zenon
                        <5>6. <<d, i>> = <<d, l>>
                              BY <5>4, <5>5, Zenon
                        <5>7. QED BY <5>3, <5>6, Zenon
                  <4>4. QED BY <4>2, <4>3, Zenon DEF Gather
            <3>10. QED BY <3>8, <3>9, Zenon
      <2>6. QED BY <2>4, <2>5, Zenon DEF Gathered
<1>4. QED BY <1>2, <1>3, RxSteps, Zenon

-----------------------------------------------------------------------------
(* rxQ, and the end of the threads.                                        *)

QueueTypes ==
    /\ air \subseteq Packets /\ repeats \in Nat
    /\ tun \in {"read", "stopped", "exit"} /\ stopflag \in BOOLEAN
    /\ rxQ \in Seq(Packets) /\ Len(rxQ) <= MaxRxQ /\ read \in Seq(Packets)
    /\ ipAt \in {"test", "wait", "tx", "ended"}
    /\ late \in Nat
    /\ daemon \in {"up", "gone", "crashed"}

\* The types of the queue and the threads, and Stopping, are kept by every step.
LEMMA QueueKept ==
    RxTypes /\ GroupsOK /\ Stopping /\ StopIsHeeded /\ [Next]_vars
    => QueueTypes' /\ Stopping' /\ StopIsHeeded'
\* A null prev: a fragment with its key that f belongs behind, but not for the walk.
<1>NullIsCaused.
      ASSUME RxTypes, GroupsOK, NEW d \in Datagrams, NEW k \in DOMAIN d.frags,
             IpRxFragment(<<d, k>>), PrevIsNull(Before(<<d, k>>), Frag(<<d, k>>))
      PROVE  \E e \in Datagrams : \E l \in DOMAIN seen'[d], i \in DOMAIN seen'[e] :
                /\ d.key = e.key /\ (d = e => i < l)
                /\ RawOffset(Frag(<<d, seen'[d][l]>>)) <= Frag(<<e, seen'[e][i]>>).off
                /\ Frag(<<e, seen'[e][i]>>).off <= Frag(<<d, seen'[d][l]>>).off
      <2> USE <1>NullIsCaused
      <2>1. PICK x, f : x = Before(<<d, k>>) /\ f = Frag(<<d, k>>)
            BY Zenon
      <2>2. /\ Given(d, k) /\ f \in Frags /\ x \in Seq(Frags)
            /\ \A j \in DOMAIN x : CameWith(x[j], d.key)
            BY <2>1, FragmentStep, Zenon
      <2>3. x # <<>> /\ ~(x[1].off > f.off) /\ Passed(x, f) = 0
            BY <2>1, Zenon DEF PrevIsNull, GoesFirst
      <2>4. Len(x) \in Nat /\ Len(x) >= 1 /\ 1 \in DOMAIN x /\ x[1] \in Frags
            BY <2>2, <2>3
      <2>5. RawOffset(f) <= x[1].off
            <3>1. Passed(x, f) < Len(x) => RawOffset(f) <= x[Passed(x, f) + 1].off
                  BY <2>2, PassedIs, Zenon
            <3>2. Passed(x, f) < Len(x) /\ Passed(x, f) + 1 = 1
                  BY <2>3, <2>4
            <3>3. QED BY <3>1, <3>2, Zenon
      <2>6. x[1].off <= f.off
            BY <2>2, <2>3, <2>4, FragTypes
      <2>7. PICK e \in Datagrams : e.key = d.key /\ Came(x[1], e)
            BY <2>2, <2>4, Zenon DEF CameWith
      <2>8. PICK i \in DOMAIN seen[e] : x[1] = Frag(<<e, seen[e][i]>>)
            BY <2>7, Zenon DEF Came
      <2>9. /\ DOMAIN seen[d] = 1..Len(seen[d]) /\ DOMAIN seen'[d] = 1..(Len(seen[d]) + 1)
            /\ Len(seen[d]) \in Nat
            /\ seen'[d][Len(seen[d]) + 1] = k
            /\ \A j \in 1..Len(seen[d]) : seen'[d][j] = seen[d][j]
            /\ \A c \in Datagrams : c # d => seen'[c] = seen[c]
            BY <2>2, SeenGrows, Zenon
      <2>10. PICK l \in Nat : l = Len(seen[d]) + 1
            BY <2>9
      <2>11. l \in DOMAIN seen'[d] /\ \A j \in DOMAIN seen[d] : j < l /\ j \in DOMAIN seen'[d]
            BY <2>9, <2>10, SMTT(30)
      <2>12. i \in DOMAIN seen'[e] /\ seen'[e][i] = seen[e][i] /\ (d = e => i < l)
            <3>1. CASE e = d
                  BY <2>8, <2>9, <2>11, <3>1, Zenon
            <3>2. CASE e # d
                  BY <2>8, <2>9, <3>2, Zenon
            <3>3. QED BY <3>1, <3>2, Zenon
      <2>13. f = Frag(<<d, seen'[d][l]>>) /\ x[1] = Frag(<<e, seen'[e][i]>>)
            BY <2>1, <2>8, <2>9, <2>10, <2>12, Zenon
      <2>14. QED BY <2>5, <2>6, <2>7, <2>11, <2>12, <2>13, Zenon
<1>TakesOne.
      ASSUME QueueTypes, Stopping, NEW p, IpTakes(p),
             \/ ipAt' \in {"test", "tx"} /\ daemon' \in {"up", "crashed"}
             \/ UNCHANGED ipAt /\ daemon' = "crashed"
      PROVE  QueueTypes' /\ Stopping'
      <2> USE <1>TakesOne
      <2>1. /\ daemon = "up" /\ ipAt = "wait" /\ rxQ # <<>> /\ rxQ' = Tail(rxQ)
            /\ late' = IF stopflag THEN late + 1 ELSE late
            /\ UNCHANGED <<air, repeats, tun, read, stopflag>>
            BY Zenon DEF IpTakes, netVars
      <2>2. late = 0
            BY <2>1 DEF Stopping, QueueTypes
      <2>3. rxQ' \in Seq(Packets) /\ Len(rxQ') <= MaxRxQ
            <3>1. rxQ' \in Seq(Packets) /\ Len(rxQ') = Len(rxQ) - 1 /\ Len(rxQ) \in Nat
                  BY <2>1 DEF QueueTypes
            <3>2. MaxRxQ \in Nat
                  BY IpAssumption, Zenon
            <3>3. QED BY <3>1, <3>2 DEF QueueTypes
      <2>4. /\ late' \in Nat /\ late' <= 1 /\ (~stopflag' => late' = 0)
            /\ ipAt' # "wait" \/ daemon' # "up"
            BY <2>1, <2>2
      <2>5. ipAt' \in {"test", "wait", "tx", "ended"} /\ daemon' \in {"up", "gone", "crashed"}
            BY <2>1, Zenon
      <2>6. QED BY <2>1, <2>3, <2>4, <2>5, Zenon DEF QueueTypes, Stopping
<1> SUFFICES ASSUME RxTypes, GroupsOK, Stopping, StopIsHeeded, [Next]_vars
             PROVE  QueueTypes' /\ Stopping' /\ StopIsHeeded'
    BY Zenon
<1>1. QueueTypes
      BY Zenon DEF RxTypes, QueueTypes
<1>2. CASE UNCHANGED vars
      <2>1. QueueTypes' /\ Stopping'
            BY <1>1, <1>2, Zenon DEF vars, netVars, ipVars, QueueTypes, Stopping
      <2>2. StopIsHeeded'
            BY <1>2, Zenon DEF vars, ipVars, StopIsHeeded
      <2>3. QED BY <2>1, <2>2, Zenon
<1>3. ASSUME Stopping', daemon' = "crashed" => tun' = "exit" PROVE StopIsHeeded'
      BY <1>3, Zenon DEF Stopping, StopIsHeeded
<1>4. ASSUME NEW p \in air, NEW again \in BOOLEAN, TunRx(p, again)
      PROVE  QueueTypes' /\ Stopping' /\ StopIsHeeded'
      <2>1. p \in Packets
            BY <1>1, Zenon DEF QueueTypes
      <2>2. rxQ' = Append(rxQ, p) \/ rxQ' = rxQ
            BY <1>4, Zenon DEF TunRx, enRxQue
      <2>3. read' = Append(read, p) \/ read' = read
            BY <1>4, Zenon DEF TunRx
      <2>4. /\ daemon = "up" /\ Len(rxQ) < MaxRxQ /\ (again => repeats > 0)
            /\ repeats' = IF again THEN repeats - 1 ELSE repeats
            /\ air' = IF again THEN air ELSE air \ {p}
            /\ UNCHANGED <<tun, ipAt, late, stopflag, daemon>>
            BY <1>4, Zenon DEF TunRx, ipVars
      <2>5. MaxRxQ \in Nat
            BY IpAssumption, Zenon
      <2>6. rxQ' \in Seq(Packets) /\ Len(rxQ') <= MaxRxQ
            BY <1>1, <2>1, <2>2, <2>4, <2>5 DEF QueueTypes
      <2>7. read' \in Seq(Packets)
            BY <1>1, <2>1, <2>3 DEF QueueTypes
      <2>8. repeats' \in Nat /\ air' \subseteq Packets
            BY <1>1, <2>4 DEF QueueTypes
      <2>9. QueueTypes' /\ Stopping'
            BY <1>1, <2>4, <2>6, <2>7, <2>8, Zenon DEF QueueTypes, Stopping
      <2>10. QED BY <1>3, <2>4, <2>9, Zenon
<1>5. CASE TunRxFails \/ TunExits \/ TunGone
      <2>1. daemon = "up" /\ UNCHANGED <<air, repeats, rxQ, read, ipAt, late>>
            BY <1>5, Zenon DEF TunRxFails, TunExits, TunGone, netVars, ipVars
      <2>2. /\ tun' \in {"read", "stopped", "exit"} /\ stopflag' \in BOOLEAN
            /\ daemon' \in {"up", "gone"} /\ (stopflag => stopflag')
            BY <1>1, <1>5, Zenon DEF TunRxFails, TunExits, TunGone, QueueTypes
      <2>3. QueueTypes' /\ Stopping'
            BY <1>1, <2>1, <2>2, Zenon DEF QueueTypes, Stopping
      <2>4. QED BY <1>3, <2>2, <2>3, Zenon
<1>6. CASE IpTests
      <2>1. /\ daemon = "up" /\ ipAt' = IF stopflag THEN "ended" ELSE "wait"
            /\ UNCHANGED <<air, repeats, tun, rxQ, read, late, stopflag, daemon>>
            BY <1>6, Zenon DEF IpTests, netVars
      <2>2. QueueTypes' /\ Stopping'
            BY <1>1, <2>1 DEF QueueTypes, Stopping
      <2>3. QED BY <1>3, <2>1, <2>2, Zenon
<1>7. ASSUME Survives, daemon = "up", UNCHANGED tun
      PROVE  daemon' \in {"up", "crashed"} /\ (daemon' = "crashed" => tun' = "exit")
      BY <1>7, Zenon DEF Survives
<1>8. ASSUME NEW d, NEW c, Demux(d, c) PROVE ipAt' \in {"test", "tx"}
      BY <1>8, Zenon DEF Demux
<1>9. ASSUME NEW p, IpTakes(p), Survives, ipAt' \in {"test", "tx"}
      PROVE  QueueTypes' /\ Stopping' /\ StopIsHeeded'
      <2>1. daemon = "up" /\ UNCHANGED tun
            BY <1>9, Zenon DEF IpTakes
      <2>4. daemon' \in {"up", "crashed"}
            BY <1>7, <1>9, <2>1, Zenon
      <2>2. QueueTypes' /\ Stopping'
            BY <1>1, <1>9, <2>4, <1>TakesOne, Zenon
      <2>3. QED BY <1>3, <1>7, <1>9, <2>1, <2>2, Zenon
<1>10. ASSUME NEW p, IpRxShort(p) \/ IpRxWhole(p) PROVE QueueTypes' /\ Stopping' /\ StopIsHeeded'
      <2>1. IpTakes(p) /\ Survives /\ ipAt' \in {"test", "tx"}
            BY <1>8, <1>10, Zenon DEF IpRxShort, IpRxWhole
      <2>2. QED BY <1>9, <2>1, Zenon
<1>11. ASSUME NEW d \in Datagrams, NEW k \in DOMAIN d.frags, IpRxFragment(<<d, k>>)
      PROVE  QueueTypes' /\ Stopping' /\ StopIsHeeded'
      <2>1. IpTakes(<<d, k>>)
            BY <1>11, Zenon DEF IpRxFragment
      <2>2. CASE PrevIsNull(Before(<<d, k>>), Frag(<<d, k>>))
            <3>1. UNCHANGED ipAt /\ daemon' = "crashed"
                  BY <1>11, <2>2, Zenon DEF IpRxFragment
            <3>2. QueueTypes' /\ Stopping'
                  BY <1>1, <2>1, <3>1, <1>TakesOne, Zenon
            <3>3. \E e \in Datagrams : \E l \in DOMAIN seen'[d], i \in DOMAIN seen'[e] :
                     /\ d.key = e.key /\ (d = e => i < l)
                     /\ RawOffset(Frag(<<d, seen'[d][l]>>)) <= Frag(<<e, seen'[e][i]>>).off
                     /\ Frag(<<e, seen'[e][i]>>).off <= Frag(<<d, seen'[d][l]>>).off
                  BY <1>11, <2>2, <1>NullIsCaused, Zenon
            <3>4. StopIsHeeded'
                  BY <3>2, <3>3, Zenon DEF StopIsHeeded, Stopping
            <3>5. QED BY <3>2, <3>4, Zenon
      <2>3. CASE ~PrevIsNull(Before(<<d, k>>), Frag(<<d, k>>))
            <3>1. Survives /\ ipAt' \in {"test", "tx"}
                  BY <1>8, <1>11, <2>3, Zenon DEF IpRxFragment
            <3>2. QED BY <1>9, <2>1, <3>1, Zenon
      <2>4. QED BY <2>2, <2>3, Zenon
<1>12. ASSUME UNCHANGED <<air, repeats, tun, rxQ, read, late, stopflag>>, daemon = "up",
              Survives, UNCHANGED ipAt \/ ipAt' = "test"
      PROVE  QueueTypes' /\ Stopping' /\ StopIsHeeded'
      <2>1. daemon' \in {"up", "crashed"} /\ (daemon' = "crashed" => tun' = "exit")
            BY <1>7, <1>12, Zenon
      <2>2. QueueTypes' /\ Stopping'
            BY <1>1, <1>12, <2>1, Zenon DEF QueueTypes, Stopping
      <2>3. QED BY <1>3, <2>1, <2>2, Zenon
<1>13. ASSUME NEW t, TxStep(t) PROVE QueueTypes' /\ Stopping' /\ StopIsHeeded'
      <2>1. /\ UNCHANGED <<air, repeats, tun, rxQ, read, late, stopflag>> /\ daemon = "up"
            /\ Survives /\ (UNCHANGED ipAt \/ ipAt' = "test")
            BY <1>13, Zenon DEF TxStep, NextTests, NextLoads, NextStores, Transmits, TxOnly, netVars
      <2>2. QED BY <1>12, <2>1, Zenon
<1>14. ASSUME NEW buf, LoopSends(buf) PROVE QueueTypes' /\ Stopping' /\ StopIsHeeded'
      <2>1. /\ UNCHANGED <<air, repeats, tun, rxQ, read, late, stopflag, ipAt, daemon>>
            /\ daemon = "up"
            BY <1>14, Zenon DEF LoopSends, TxOnly, netVars
      <2>2. QueueTypes' /\ Stopping'
            BY <1>1, <2>1, Zenon DEF QueueTypes, Stopping
      <2>3. QED BY <1>3, <2>1, <2>2, Zenon
<1>15. \A p \in Range(rxQ) : \E d \in Datagrams : \E k \in DOMAIN d.frags : p = <<d, k>>
      BY PacketIs DEF Range, RxTypes
<1>16. ASSUME NEW p \in Range(rxQ), IpRxFragment(p) PROVE QueueTypes' /\ Stopping' /\ StopIsHeeded'
      BY <1>11, <1>15, <1>16, Zenon
<1>17. CASE TunThread
      BY <1>4, <1>5, <1>17, Zenon DEF TunThread
<1>18. CASE IpThread
      BY <1>6, <1>10, <1>13, <1>16, <1>18, Zenon DEF IpThread
<1>19. CASE LoopThread
      BY <1>13, <1>14, <1>19, Zenon DEF LoopThread
<1>20. QED BY <1>2, <1>17, <1>18, <1>19, Zenon DEF Next

\* The types of reception are kept by every step.
LEMMA RxTypesKept ==
    ASSUME RxTypes, GroupsOK, UpOK, Stopping, StopIsHeeded, [Next]_vars
    PROVE  RxTypes'
<1>1. QueueTypes'
      BY QueueKept, Zenon
<1>2. up' \in Seq(Seq(Frags))
      BY UpKept, Zenon
<1>3. /\ seen' \in [Datagrams -> Seq(Nat)]
      /\ \A d \in Datagrams : \A k \in DOMAIN seen'[d] : seen'[d][k] \in DOMAIN d.frags
      <2>1. CASE UNCHANGED seen
            BY <2>1, Zenon DEF RxTypes
      <2>2. ASSUME NEW d \in Datagrams, NEW k \in DOMAIN d.frags, IpRxFragment(<<d, k>>)
            PROVE  Given(d, k)
            BY <2>2, FragmentStep, Zenon
      <2>3. QED BY <2>1, <2>2, RxSteps, SeenGrows, Zenon
<1>4. QED BY <1>1, <1>2, <1>3, Zenon DEF QueueTypes, RxTypes

\* Whatever is given to defrag, isFrag has been true of it.
LEMMA SeenAreFragsKept ==
    ASSUME RxTypes, GroupsOK, SeenAreFrags, [Next]_vars
    PROVE  SeenAreFrags'
<1>1. CASE UNCHANGED seen
      BY <1>1, Zenon DEF SeenAreFrags, Came
<1>2. ASSUME NEW d \in Datagrams, NEW k \in DOMAIN d.frags, IpRxFragment(<<d, k>>)
      PROVE  SeenAreFrags'
      <2>1. Given(d, k)
            BY <1>2, FragmentStep, Zenon
      <2>2. isFrag(Frag(<<d, k>>))
            BY <1>2, Zenon DEF IpRxFragment
      <2>3. /\ \A e \in Datagrams : e # d => \A f : Came(f, e)' <=> Came(f, e)
            /\ \A f : Came(f, d)' <=> Came(f, d) \/ f = Frag(<<d, k>>)
            BY <2>1, CameGrows, Zenon
      <2>4. QED BY <2>2, <2>3, Zenon DEF SeenAreFrags
<1>3. QED BY <1>1, <1>2, RxSteps, Zenon

-----------------------------------------------------------------------------
(* The theorems.                                                           *)

\* The inductive invariant holds in every state of the IP layer.
THEOREM Invariance == Spec => []IInv
<1>InitIInv. Init => IInv
      <2> SUFFICES ASSUME Init PROVE IInv
          BY Zenon
      <2>1. RxTypes
            <3>1. PICK w \in Workloads : air = {p \in Packets : p[1] \in w.datagrams} /\ repeats = w.repeats
                  BY Zenon DEF Init
            <3>2. air \subseteq Packets /\ repeats \in Nat
                  BY <3>1, IpAssumption, Zenon
            <3>3. MaxRxQ \in Nat
                  BY IpAssumption, Zenon
            <3>4. /\ tun = "read" /\ stopflag = FALSE /\ rxQ = <<>> /\ read = <<>> /\ ipAt = "test"
                  /\ seen = [d \in Datagrams |-> <<>>] /\ up = <<>> /\ late = 0 /\ daemon = "up"
                  BY Zenon DEF Init
            <3>5. \A S : <<>> \in Seq(S)
                  OBVIOUS
            <3>6. /\ seen \in [Datagrams -> Seq(Nat)]
                  /\ \A d \in Datagrams : \A k \in DOMAIN seen[d] : seen[d][k] \in DOMAIN d.frags
                  BY <3>4
            <3>7. rxQ \in Seq(Packets) /\ read \in Seq(Packets) /\ up \in Seq(Seq(Frags))
                  BY <3>4, <3>5, Zenon
            <3>8. Len(rxQ) <= MaxRxQ
                  BY <3>3, <3>4
            <3>9. QED BY <3>2, <3>4, <3>6, <3>7, <3>8, Zenon DEF RxTypes
      <2>2. GroupsOK
            BY DEF Init, GroupsOK, Keyed
      <2>3. UpOK
            BY DEF Init, UpOK
      <2>4. Gathered
            BY SMTT(30) DEF Init, Gathered, Gather
      <2>5. Stopping /\ StopIsHeeded
            BY DEF Init, Stopping, StopIsHeeded
      <2>6. SeenAreFrags
            BY DEF Init, SeenAreFrags, Came
      <2>7. QED BY <2>1, <2>2, <2>3, <2>4, <2>5, <2>6, Zenon DEF IInv
<1>StepIInv. IInv /\ [Next]_vars => IInv'
      <2> SUFFICES ASSUME IInv, [Next]_vars PROVE IInv'
          BY Zenon
      <2> USE DEF IInv
      <2>1. RxTypes'
            BY RxTypesKept, Zenon
      <2>2. GroupsOK'
            BY GroupsKept, Zenon
      <2>3. UpOK'
            BY UpKept, Zenon
      <2>4. Gathered'
            BY GatheredKept, Zenon
      <2>5. Stopping' /\ StopIsHeeded'
            BY QueueKept, Zenon
      <2>6. SeenAreFrags'
            BY SeenAreFragsKept, Zenon
      <2>7. QED BY <2>1, <2>2, <2>3, <2>4, <2>5, <2>6, Zenon
<1>1. QED BY <1>InitIInv, <1>StepIInv, PTL DEF Spec

\* Every variable keeps its type, and no group in defragCtxList is empty, complete
\* or the second with its key.
THEOREM TypeCorrect == Spec => []TypeOK
<1>1. ASSUME IInv, TxInv PROVE TypeOK
      <2>1. /\ air \subseteq Packets /\ repeats \in Nat /\ tun \in {"read", "stopped", "exit"}
            /\ rxQ \in Seq(Packets) /\ Len(rxQ) <= MaxRxQ /\ read \in Seq(Packets)
            /\ ipAt \in {"test", "wait", "tx", "ended"} /\ late \in Nat
            /\ stopflag \in BOOLEAN /\ daemon \in {"up", "gone", "crashed"}
            BY <1>1, Zenon DEF IInv, RxTypes
      <2>2. transmits \in Nat /\ last \in 0..UINT16_MAX /\ raced \in BOOLEAN
            BY <1>1 DEF TxInv, TxTypes, Ids
      <2>3. \A t \in TxThreads : tx[t].at \in {"idle", "next", "inc", "store", "tx"}
            BY <1>1 DEF TxInv, TxTypes
      <2>4. \A i \in DOMAIN groups :
               /\ groups[i].frags # <<>> /\ ~Present(groups[i].frags)
               /\ \A j \in DOMAIN groups : groups[i].key = groups[j].key => i = j
            <3>1. Keyed(groups) /\ \A i \in DOMAIN groups : Good(groups[i].key, groups[i].frags)
                  BY <1>1, Zenon DEF IInv, GroupsOK
            <3>2. QED BY <3>1, Zenon DEF Keyed, Good
      <2>5. QED BY <2>1, <2>2, <2>3, <2>4, Zenon DEF TypeOK
<1>2. QED BY <1>1, Invariance, TxInvariance, PTL

\* Whatever fragments come, and however many datagrams share a key, Tcp::rx and
\* Udp::rx are given chains of one key, with the tot_len of their last fragment's
\* datagram; a chain of fragments of one datagram is the whole of it.
THEOREM OnlyWholeDatagrams == Spec => []WholeDatagrams
<1>FormedIsWhole.
      ASSUME NEW s, Formed(s)
      PROVE  LET d == s[1].of[1]
                 n == Len(s)
             IN  /\ \A i \in 1..n : s[i].of[1].key = d.key
                 /\ TotLen(s) = IpHdrLen + End(s[n])
                 /\ (\A i \in 1..n : s[i].of[1] = d) => s = Whole(d)
      <2> USE <1>FormedIsWhole
      <2>1. s \in Seq(Frags) /\ s # <<>> /\ Present(s) /\ \A i, j \in DOMAIN s : s[i].key = s[j].key
            BY Zenon DEF Formed
      <2>2. PICK n \in Nat : n = Len(s) /\ DOMAIN s = 1..n /\ 1 \in 1..n
            BY <2>1
      <2>3. ASSUME NEW i \in DOMAIN s
            PROVE  /\ s[i].of[1] \in Datagrams /\ s[i].of[1].key = s[i].key
                   /\ \E k \in DOMAIN s[i].of[1].frags : s[i] = Frag(<<s[i].of[1], k>>)
            <3>1. s[i] \in Frags
                  BY <2>1, <2>2, InSeq, Zenon
            <3>2. PICK e \in Datagrams : \E k \in DOMAIN e.frags : s[i] = Frag(<<e, k>>)
                  BY <3>1, FragIs, Zenon
            <3>3. PICK k \in DOMAIN e.frags : s[i] = Frag(<<e, k>>)
                  BY <3>2, Zenon
            <3>4. Frag(<<e, k>>).of = <<e, k>> /\ Frag(<<e, k>>).key = e.key
                  BY FragFields, Zenon
            <3>5. s[i].of[1] = e /\ s[i].key = e.key
                  BY <3>3, <3>4, SMTT(30)
            <3>6. QED BY <3>3, <3>5, Zenon
      <2>4. PICK d : d = s[1].of[1]
            BY Zenon
      <2>5. \A i \in 1..n : s[i].of[1].key = d.key
            BY <2>1, <2>2, <2>3, <2>4, Zenon
      <2>6. TotLen(s) = IpHdrLen + End(s[n])
            <3>1. ~s[Len(s)].mf
                  BY <2>1, Zenon DEF Present
            <3>2. QED BY <2>1, <2>2, <3>1, TotLenIs, Zenon
      <2>7. ASSUME \A i \in 1..n : s[i].of[1] = d PROVE s = Whole(d)
            <3>1. d \in Datagrams
                  BY <2>2, <2>3, <2>4, Zenon
            <3>2. \A j \in DOMAIN s : \E k \in DOMAIN d.frags : s[j] = Frag(<<d, k>>)
                  BY <2>2, <2>3, <2>7, Zenon
            <3>3. QED BY <2>1, <3>1, <3>2, PresentIsWhole, Zenon
      <2>8. QED BY <2>2, <2>4, <2>5, <2>6, <2>7, Zenon
<1>UpIsWhole.
      ASSUME UpOK
      PROVE  WholeDatagrams
      <2> USE <1>UpIsWhole
      <2>1. \A k \in DOMAIN up : Formed(up[k])
            BY Zenon DEF UpOK
      <2>2. QED BY <2>1, <1>FormedIsWhole, Zenon DEF WholeDatagrams
<1>1. IInv => WholeDatagrams
      BY <1>UpIsWhole, Zenon DEF IInv
<1>2. QED BY <1>1, Invariance, PTL

\* defrag completes every TCP or UDP datagram whose fragments come each outside
\* those before it, when none of another datagram with its key has come.
THEOREM OutsideInCompletes == Spec => []OutsideInIsCompleted
\* Fragments of d in ascending order, none of them left out, are the whole of it.
<1>SortedIsPresent.
      ASSUME NEW d \in Datagrams, NEW s \in Seq(Frags), s # <<>>,
             \A j \in DOMAIN s : \E k \in DOMAIN d.frags : s[j] = Frag(<<d, k>>),
             \A k \in DOMAIN d.frags : \E j \in DOMAIN s : s[j] = Frag(<<d, k>>),
             \A i, j \in DOMAIN s : i < j => s[i].of[2] < s[j].of[2]
      PROVE  Present(s)
      <2> USE <1>SortedIsPresent
      <2>1. PICK N \in Nat : N = Len(d.frags) /\ N >= 1 /\ DOMAIN d.frags = 1..N
            BY FragsAre, Zenon
      <2>2. PICK M \in Nat : M = Len(s) /\ M >= 1 /\ DOMAIN s = 1..M
            OBVIOUS
      <2>3. \A j \in 1..M : /\ s[j].of[2] \in 1..N /\ s[j] = Frag(<<d, s[j].of[2]>>)
            <3>1. ASSUME NEW j \in 1..M PROVE s[j].of[2] \in 1..N /\ s[j] = Frag(<<d, s[j].of[2]>>)
                  <4>1. PICK k \in 1..N : s[j] = Frag(<<d, k>>)
                        BY <2>1, <2>2, Zenon
                  <4>2. s[j].of[2] = k
                        BY <4>1, FragFields
                  <4>3. QED BY <4>1, <4>2, Zenon
            <3>2. QED BY <3>1, Zenon
      <2>4. \A k \in 1..N : \E j \in 1..M : s[j].of[2] = k
            <3>1. ASSUME NEW k \in 1..N PROVE \E j \in 1..M : s[j].of[2] = k
                  <4>1. PICK j \in 1..M : s[j] = Frag(<<d, k>>)
                        BY <2>1, <2>2, Zenon
                  <4>2. QED BY <4>1, FragFields
            <3>2. QED BY <3>1, Zenon
      <2>5. \A i, j \in 1..M : i < j => s[i].of[2] < s[j].of[2]
            BY <2>2, Zenon
      <2> DEFINE Bad == {j \in Nat : j \in 1..M /\ s[j].of[2] # j}
      <2>6. Bad = {}
            <3>1. SUFFICES ASSUME Bad # {} PROVE FALSE
                  BY Zenon
            <3>2. PICK j \in Bad : \A m \in Bad : j <= m
                  <4>1. Bad \subseteq Nat
                        BY Zenon
                  <4> HIDE DEF Bad
                  <4>2. QED BY <3>1, <4>1, LeastNumber, Zenon
            <3>3. j \in 1..M /\ s[j].of[2] # j /\ s[j].of[2] \in 1..N
                  BY <2>3, <3>2, Zenon
            <3>4. \A m \in 1..M : m < j => s[m].of[2] = m
                  <4>1. ASSUME NEW m \in 1..M, m < j PROVE s[m].of[2] = m
                        <5>1. m \in Nat /\ ~(j <= m)
                              BY <3>3, <4>1
                        <5>2. m \notin Bad
                              BY <3>2, <5>1, Zenon
                        <5>3. QED BY <5>1, <5>2, Zenon
                  <4>2. QED BY <4>1, Zenon
            <3>5. s[j].of[2] > j
                  <4>1. CASE j = 1
                        BY <3>3, <4>1
                  <4>2. CASE j > 1
                        <5>1. j - 1 \in 1..M /\ j - 1 < j
                              BY <3>3, <4>2
                        <5>2. s[j - 1].of[2] = j - 1 /\ s[j - 1].of[2] < s[j].of[2]
                              BY <2>5, <3>3, <3>4, <5>1, Zenon
                        <5>3. QED BY <3>3, <5>1, <5>2
                  <4>3. QED BY <3>3, <4>1, <4>2
            <3>6. PICK q \in 1..M : s[q].of[2] = j
                  <4>1. j \in 1..N
                        BY <2>1, <3>3, <3>5
                  <4>2. QED BY <2>4, <4>1, Zenon
            <3>7. q < j \/ q = j \/ j < q
                  BY <3>3
            <3>8. CASE q < j
                  BY <3>3, <3>4, <3>6, <3>8, Zenon
            <3>9. CASE j < q
                  <4>1. s[j].of[2] < j
                        BY <2>5, <3>3, <3>6, <3>9, Zenon
                  <4>2. QED BY <3>3, <3>5, <4>1
            <3>10. QED BY <3>3, <3>6, <3>7, <3>8, <3>9, Zenon
      <2>7. \A j \in 1..M : j \in 1..N /\ s[j] = Frag(<<d, j>>)
            <3>1. ASSUME NEW j \in 1..M PROVE s[j].of[2] = j
                  BY <2>6
            <3>2. QED BY <2>3, <3>1, Zenon
      <2>8. M = N
            <3>1. PICK q \in 1..M : s[q].of[2] = N
                  <4>1. N \in 1..N
                        BY <2>1
                  <4>2. QED BY <2>4, <4>1, Zenon
            <3>2. s[q].of[2] = q
                  <4>1. s[q] = Frag(<<d, q>>)
                        BY <2>7, Zenon
                  <4>2. QED BY <4>1, FragFields
            <3>3. M \in 1..N
                  <4>1. M \in 1..M
                        BY <2>2
                  <4>2. QED BY <2>7, <4>1, Zenon
            <3>4. QED BY <3>1, <3>2, <3>3
      <2>9. ASSUME NEW i \in DOMAIN s PROVE 8 * s[i].off = IF i = 1 THEN 0 ELSE End(s[i - 1])
            <3>1. i \in 1..M /\ s[i] = Frag(<<d, i>>) /\ i \in DOMAIN d.frags
                  BY <2>1, <2>2, <2>7, <2>8, Zenon
            <3>2. 8 * s[i].off = IF i = 1 THEN 0 ELSE End(d.frags[i - 1])
                  BY <3>1, Follow, FragFields
            <3>3. CASE i = 1
                  BY <3>2, <3>3, Zenon
            <3>4. CASE i # 1
                  <4>1. i - 1 \in 1..M
                        BY <3>1, <3>4
                  <4>2. s[i - 1] = Frag(<<d, i - 1>>)
                        BY <2>7, <4>1, Zenon
                  <4>3. QED BY <3>2, <3>4, <4>2, FragFields
            <3>5. QED BY <3>3, <3>4, Zenon
      <2>10. ~s[M].mf
            <3>1. M \in DOMAIN d.frags /\ s[M] = Frag(<<d, M>>)
                  BY <2>1, <2>2, <2>7
            <3>2. ~d.frags[M].mf
                  BY <2>1, <2>8, <3>1, Follow
            <3>3. QED BY <3>1, <3>2, FragFields
      <2>11. QED BY <2>2, <2>9, <2>10, Zenon DEF Present
\* Fragments from outside are enough.
<1>OutsideIsEnough.
      ASSUME RxTypes, GroupsOK, Gathered
      PROVE  OutsideInIsCompleted
      <2> USE <1>OutsideIsEnough
      <2>1. SUFFICES ASSUME NEW d \in Datagrams, CameFromOutside(d), Alone(d),
                            d.protocol \in {"TCP", "UDP"}
                     PROVE  Delivered(d)
            BY Zenon DEF OutsideInIsCompleted
      <2>2. Outside(d)
            BY <2>1, Zenon DEF CameFromOutside, Outside
      <2>3. \A i \in DOMAIN d.frags : \E k \in DOMAIN seen[d] : seen[d][k] = i
            BY <2>1, Zenon DEF CameFromOutside, Range
      <2>4. 1 \in DOMAIN d.frags
            BY FragsAre
      <2>5. seen[d] # <<>>
            BY <2>3, <2>4
      <2>6. ASSUME NEW i \in DOMAIN groups, groups[i].key = d.key, Sorted(groups[i].frags, d)
            PROVE  FALSE
            <3>1. PICK s : s = groups[i].frags
                  BY Zenon
            <3>2. s \in Seq(Frags) /\ s # <<>> /\ ~Present(s)
                  <4>1. groups[i] \in Group
                        BY DEF GroupsOK, Keyed
                  <4>2. QED BY <3>1, <4>1, Zenon DEF Group, GroupsOK, Good
            <3>3. Sorted(s, d)
                  BY <2>6, <3>1, Zenon
            <3>4. \A j \in DOMAIN s : \E k \in DOMAIN d.frags : s[j] = Frag(<<d, k>>)
                  BY <3>3, Zenon DEF Sorted, Came, RxTypes
            <3>5. \A k \in DOMAIN d.frags : \E j \in DOMAIN s : s[j] = Frag(<<d, k>>)
                  BY <2>3, <3>3, Zenon DEF Sorted
            <3>6. \A m, j \in DOMAIN s : m < j => s[m].of[2] < s[j].of[2]
                  BY <3>3, Zenon DEF Sorted
            <3>7. QED BY <3>2, <3>4, <3>5, <3>6, <1>SortedIsPresent, Zenon
      <2>7. Gather(d)
            BY <2>1, <2>2, Zenon DEF Gathered
      <2>8. QED BY <2>1, <2>5, <2>6, <2>7, Zenon DEF Gather
<1>1. IInv => OutsideInIsCompleted
      BY <1>OutsideIsEnough, Zenon DEF IInv
<1>2. QED BY <1>1, Invariance, PTL

\* After Ip::stop at most one more packet is taken, and the daemon crashes only
\* inside ::exit or at a fragment for which defrag finds no prev though it belongs
\* behind, or repeats, one with its key.
THEOREM StopIsObeyed == Spec => []StopIsHeeded
<1>1. IInv => StopIsHeeded
      BY Zenon DEF IInv
<1>2. QED BY <1>1, Invariance, PTL

\* Packets that need no reassembly reach Tcp::rx and Udp::rx in the order in which
\* enRxQue put them into rxQ, each once and none left out.
THEOREM OrderIsKept == Spec => []WholePacketsInOrder
<1>InOrderKept.
      ASSUME RxTypes, GroupsOK, SeenAreFrags, InOrder, [Next]_vars
      PROVE  InOrder'
      <2> USE <1>InOrderKept
      <2>1. ASSUME NEW p \in Range(rxQ), IpTakes(p)
            PROVE  /\ rxQ # <<>> /\ p = Head(rxQ) /\ rxQ' = Tail(rxQ) /\ read' = read
                   /\ p \in Packets
            BY <2>1 DEF IpTakes, Range, RxTypes
      <2>2. ASSUME NEW p \in Range(rxQ), IpRxShort(p) PROVE InOrder'
            <3>1. IpTakes(p) /\ ~Waits(p) /\ up' = up
                  BY <2>2, Zenon DEF IpRxShort, Waits
            <3>2. <<>> \in Seq(Frags)
                  OBVIOUS
            <3>3. QED BY <2>1, <3>1, <3>2, TakingKeepsOrder, Zenon
      <2>3. ASSUME NEW p \in Range(rxQ), IpRxWhole(p) PROVE InOrder'
            <3>1. IpTakes(p) /\ Waits(p) /\ Demux(p[1], <<Frag(p)>>) /\ ~isFrag(Frag(p))
                  BY <2>3, Zenon DEF IpRxWhole, Waits
            <3>2. PICK f, c : f = Frag(p) /\ c = <<f>>
                  BY Zenon
            <3>3. f \in Frags /\ f.of = p
                  BY <2>1, <3>1, <3>2, Zenon DEF Frags, Frag
            <3>4. c \in Seq(Frags) /\ c[1] = f
                  BY <3>2, <3>3
            <3>5. up' = IF p[1].protocol \in {"TCP", "UDP"} THEN Append(up, c) ELSE up
                  BY <3>1, <3>2, Zenon DEF Demux
            <3>6. up' = up \/ up' = Append(up, c)
                  BY <3>5, Zenon
            <3>7. QED BY <2>1, <3>1, <3>2, <3>3, <3>4, <3>5, <3>6, TakingKeepsOrder, Zenon
      <2>4. ASSUME NEW p \in Range(rxQ), IpRxFragment(p) PROVE InOrder'
            <3>1. IpTakes(p) /\ isFrag(Frag(p)) /\ ~Waits(p)
                  BY <2>4, Zenon DEF IpRxFragment, Waits
            <3>2. p \in Packets
                  BY <2>1, <3>1, Zenon
            <3>3. PICK d \in Datagrams : \E k \in DOMAIN d.frags : p = <<d, k>>
                  BY <3>2, PacketIs, Zenon
            <3>4. PICK k \in DOMAIN d.frags : p = <<d, k>>
                  BY <3>3, Zenon
            <3>5. CASE up' = up
                  <4>1. <<>> \in Seq(Frags)
                        OBVIOUS
                  <4>2. QED BY <2>1, <3>1, <3>5, <4>1, TakingKeepsOrder, Zenon
            <3>6. ASSUME NEW s, GoesUp(s),
                         \A j \in DOMAIN s : s[j] = Frag(<<d, k>>) \/ CameWith(s[j], d.key)
                  PROVE  InOrder'
                  <4>1. s \in Seq(Frags) /\ s # <<>> /\ up' = Append(up, s)
                        BY <3>6, Zenon DEF GoesUp, Formed
                  <4>2. 1 \in DOMAIN s
                        BY <4>1
                  <4>3. isFrag(s[1])
                        BY <3>1, <3>4, <3>6, <4>2, Zenon DEF CameWith, SeenAreFrags
                  <4>4. QED BY <2>1, <3>1, <4>1, <4>3, TakingKeepsOrder, Zenon
            <3>7. QED BY <2>4, <3>4, <3>5, <3>6, FragmentGoesUp, Zenon
      <2>5. ASSUME NEW t, TxStep(t) PROVE InOrder'
            <3>1. UNCHANGED <<rxQ, read, up>>
                  BY <2>5, Zenon DEF TxStep, NextTests, NextLoads, NextStores, Transmits, TxOnly
            <3>2. QED BY <3>1, SameOrder, Zenon
      <2>6. CASE LoopThread
            <3>1. ASSUME NEW buf, LoopSends(buf) PROVE UNCHANGED <<rxQ, read, up>>
                  BY <3>1, Zenon DEF LoopSends, TxOnly
            <3>2. QED BY <2>5, <2>6, <3>1, SameOrder, Zenon DEF LoopThread
      <2>7. CASE TunThread
            <3>1. ASSUME TunRxFails \/ TunExits \/ TunGone PROVE UNCHANGED <<rxQ, read, up>>
                  BY <3>1, Zenon DEF TunRxFails, TunExits, TunGone, ipVars
            <3>2. QED BY <2>7, <3>1, SameOrder, ReadKeepsOrder, Zenon DEF TunThread
      <2>8. CASE IpTests
            <3>1. UNCHANGED <<rxQ, read, up>>
                  BY <2>8, Zenon DEF IpTests
            <3>2. QED BY <3>1, SameOrder, Zenon
      <2>9. CASE UNCHANGED vars
            <3>1. UNCHANGED <<rxQ, read, up>>
                  BY <2>9, Zenon DEF vars, ipVars
            <3>2. QED BY <3>1, SameOrder, Zenon
      <2>10. QED BY <2>2, <2>3, <2>4, <2>5, <2>6, <2>7, <2>8, <2>9, Zenon DEF Next, IpThread
<1>InitInOrder. Init => InOrder
      <2>1. SUFFICES ASSUME Init PROVE InOrder
            BY Zenon
      <2>2. rxQ = <<>> /\ read = <<>> /\ up = <<>>
            BY <2>1, Zenon DEF Init
      <2>3. WholeUp(0) = {} /\ ForTransport(0) = {} /\ Len(up) = 0 /\ Len(read) = 0 /\ Len(rxQ) = 0
            BY <2>2 DEF WholeUp, ForTransport
      <2>4. PICK g : g = [i \in 1..1 |-> 0]
            BY Zenon
      <2>5. /\ g \in [1..(0 + 1) -> Nat] /\ g[1] = 0 /\ g[0 + 1] = 0 /\ 1..0 = {} /\ 0 <= 0
            BY <2>4
      <2>6. Places(g, rxQ, read, 0)
            BY <2>3, <2>5, Zenon DEF Places
      <2>7. Ordered(0)
            BY <2>3, <2>5, <2>6, Zenon DEF Ordered
      <2>8. QED BY <2>7, Zenon DEF InOrder
<1>1. InOrder /\ RxTypes => WholePacketsInOrder
      <2>1. SUFFICES ASSUME InOrder, RxTypes, NEW k \in WholeUp(Len(up))
                     PROVE  \E j \in ForTransport(Len(read)) : SamePlace(k, j)
            BY Zenon DEF WholePacketsInOrder, SamePlace
      <2>2. PICK u \in Nat : Ordered(u)
            BY <2>1, Zenon DEF InOrder
      <2>3. PICK j \in ForTransport(u) : SamePlace(k, j)
            BY <2>2, Zenon DEF Ordered
      <2>4. Len(read) \in Nat /\ u <= Len(read)
            <3>1. read \in Seq(Packets)
                  BY <2>1, Zenon DEF RxTypes
            <3>2. QED BY <2>2, <3>1, LenIsNat, Zenon DEF Ordered
      <2>5. j \in ForTransport(Len(read))
            <3>1. \A i \in 1..u : i \in 1..Len(read)
                  BY <2>4
            <3>2. QED BY <3>1, Zenon DEF ForTransport
      <2>6. QED BY <2>3, <2>5, Zenon
<1>2. IInv /\ InOrder /\ [Next]_vars => InOrder'
      BY <1>InOrderKept, Zenon DEF IInv
<1>3. IInv => RxTypes
      BY Zenon DEF IInv
<1>4. QED BY <1>1, <1>2, <1>3, Invariance, <1>InitInOrder, PTL DEF Spec
=============================================================================
