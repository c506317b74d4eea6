---------------------------- MODULE PacketProofs ----------------------------
(***************************************************************************)
(* Proofs about the packets of module Ip, for any payloads, any addresses  *)
(* and any number of packets, however the two threads interleave in Ip::tx:*)
(* the ids of the packets, the checksums of module Csum16, and what defrag *)
(* of module Reassembler does with a fragment.                             *)
(***************************************************************************)
EXTENDS Ip, WellFoundedInduction, TLAPS

Bufs == Payloads \cup {<<>>}

Ids == 0..UINT16_MAX

Pkt(buf, id, nth) ==
    [id |-> id, nth |-> nth, buf |-> buf,
     check |-> IpCheck(Len(buf) + 40, id, 6, LAddr, FAddr),
     tcpCheck |-> TcpCheck(Ports, Seqs, ACK, LAddr, FAddr, buf)]

\* Transmission: types, and every packet sent is made as Transmits makes it.
TxTypes ==
    /\ last \in Ids /\ transmits \in Nat /\ raced \in BOOLEAN
    /\ tx \in [TxThreads -> [at : {"idle", "next", "inc", "store", "tx"}, buf : Bufs,
                             id : Ids, nth : Nat]]
    /\ drawn \in Seq(Ids)
    /\ sent \in Seq({Pkt(buf, id, nth) : buf \in Bufs, id \in Ids, nth \in Nat})

\* Every packet has a draw of its own.
OwnDraw ==
    /\ \A t \in TxThreads : tx[t].at = "tx" =>
          /\ tx[t].nth \in DOMAIN drawn /\ tx[t].id = drawn[tx[t].nth]
          /\ \A u \in TxThreads \ {t} : tx[u].at = "tx" => tx[u].nth # tx[t].nth
          /\ \A i \in DOMAIN sent : sent[i].nth # tx[t].nth
    /\ \A i, j \in DOMAIN sent :
          /\ sent[i].nth \in DOMAIN drawn /\ sent[i].id = drawn[sent[i].nth]
          /\ sent[i].nth = sent[j].nth => i = j

\* The k-th id back from last, counting round from 1 to UINT16_MAX.
Back(k) == IF last - k >= 1 THEN last - k ELSE last - k + UINT16_MAX

\* Without a race: who is inside next, and the ids drawn as seen from last.
Turns ==
    ~raced =>
        /\ ~(InNext("loop") /\ InNext("ip"))
        /\ \A t \in TxThreads :
              /\ tx[t].at = "inc" => last < UINT16_MAX
              /\ tx[t].at = "store" => tx[t].id = last + 1
        /\ \A n \in DOMAIN drawn :
              Len(drawn) - n < UINT16_MAX => drawn[n] = Back(Len(drawn) - n)
        /\ \A m, n \in DOMAIN drawn :
              /\ drawn[n] # 0
              /\ m < n /\ n - m < UINT16_MAX => drawn[m] # drawn[n]

TxInv == TxTypes /\ OwnDraw /\ Turns

-----------------------------------------------------------------------------
(* Ip::tx and IpIdGenerator::next.                                         *)

\* The ids of Ip::tx and the width of the counter.
LEMMA IdConstants ==
    /\ UINT16_MAX \in Nat /\ UINT16_MAX >= 1
    /\ Ids = 0..UINT16_MAX
    /\ 0 \in Ids
BY IpAssumption DEF Ids

\* The inductive invariant of transmission holds in every state.
THEOREM TxInvariance == Spec => []TxInv
\* The IP thread begins to acknowledge, or the event loop thread to send.
<1> DEFINE Starts(t, buf) ==
               /\ transmits > 0 /\ transmits' = transmits - 1
               /\ tx' = [tx EXCEPT ![t] = [at |-> "next", buf |-> buf, id |-> 0, nth |-> 0]]
               /\ UNCHANGED <<last, drawn, raced, sent>>
           \* What the steps of Ip::tx do to the thread's own record.
           At(t, at, id, nth) == [at |-> at, buf |-> tx[t].buf, id |-> id, nth |-> nth]
           TxRecord ==
               [at : {"idle", "next", "inc", "store", "tx"}, buf : Bufs, id : Ids, nth : Nat]
           Turn ==
               /\ ~(InNext("loop") /\ InNext("ip"))
               /\ \A t \in TxThreads :
                     /\ tx[t].at = "inc" => last < UINT16_MAX
                     /\ tx[t].at = "store" => tx[t].id = last + 1
           Ring ==
               /\ \A n \in DOMAIN drawn :
                     Len(drawn) - n < UINT16_MAX => drawn[n] = Back(Len(drawn) - n)
               /\ \A m, n \in DOMAIN drawn :
                     /\ drawn[n] # 0
                     /\ m < n /\ n - m < UINT16_MAX => drawn[m] # drawn[n]
<1> HIDE DEF Starts, At, TxRecord, Turn, Ring
<1>TxSteps.
      ASSUME [Next]_vars
      PROVE  \/ UNCHANGED txVars
             \/ \E t \in TxThreads, buf \in Bufs : Starts(t, buf)
             \/ \E t \in TxThreads : TxStep(t)
      <2> USE <1>TxSteps
      <2>1. ASSUME NEW d, NEW c, Demux(d, c)
            PROVE  UNCHANGED txVars \/ \E t \in TxThreads, buf \in Bufs : Starts(t, buf)
            <3>1. PICK ack \in BOOLEAN :
                     /\ ack => transmits > 0
                     /\ transmits' = IF ack THEN transmits - 1 ELSE transmits
                     /\ tx' = IF ack THEN [tx EXCEPT !["ip"] = [NoTx EXCEPT !.at = "next"]] ELSE tx
                  BY <2>1, Zenon DEF Demux
            <3>2. UNCHANGED <<last, drawn, raced, sent>>
                  BY <2>1, Zenon DEF Demux
            <3>3. CASE ack
                  <4>1. [NoTx EXCEPT !.at = "next"] = [at |-> "next", buf |-> <<>>, id |-> 0, nth |-> 0]
                        BY DEF NoTx
                  <4>2. Starts("ip", <<>>)
                        BY <3>1, <3>2, <3>3, <4>1, Zenon DEF Starts
                  <4>3. QED BY <4>2, Zenon DEF TxThreads, Bufs
            <3>4. CASE ~ack
                  BY <3>1, <3>2, <3>4, Zenon DEF txVars
            <3>5. QED BY <3>3, <3>4, Zenon
      <2>2. CASE TunThread
            BY <2>2, Zenon DEF TunThread, TunRx, TunRxFails, TunExits, TunGone
      <2>3. CASE IpThread
            <3>1. CASE IpTests
                  BY <3>1, Zenon DEF IpTests
            <3>2. ASSUME NEW p \in Range(rxQ), IpRxShort(p) PROVE UNCHANGED txVars
                  BY <3>2, Zenon DEF IpRxShort
            <3>3. ASSUME NEW p \in Range(rxQ), IpRxWhole(p)
                  PROVE  UNCHANGED txVars \/ \E t \in TxThreads, buf \in Bufs : Starts(t, buf)
                  BY <2>1, <3>3, Zenon DEF IpRxWhole
            <3>4. ASSUME NEW p \in Range(rxQ), IpRxFragment(p)
                  PROVE  UNCHANGED txVars \/ \E t \in TxThreads, buf \in Bufs : Starts(t, buf)
                  <4>1. UNCHANGED txVars \/ \E c : Demux(p[1], c)
                        BY <3>4, Zenon DEF IpRxFragment
                  <4>2. QED BY <2>1, <4>1, Zenon
            <3>5. CASE TxStep("ip")
                  BY <3>5, Zenon DEF TxThreads
            <3>6. QED BY <2>3, <3>1, <3>2, <3>3, <3>4, <3>5, Zenon DEF IpThread
      <2>4. CASE LoopThread
            <3>1. CASE TxStep("loop")
                  BY <3>1, Zenon DEF TxThreads
            <3>2. ASSUME NEW buf \in Payloads, LoopSends(buf) PROVE Starts("loop", buf) /\ buf \in Bufs
                  <4>1. [NoTx EXCEPT !.at = "next", !.buf = buf] =
                           [at |-> "next", buf |-> buf, id |-> 0, nth |-> 0]
                        <5>1. PICK r : r = [NoTx EXCEPT !.at = "next"]
                              BY Zenon
                        <5>2. r = [at |-> "next", buf |-> <<>>, id |-> 0, nth |-> 0]
                              BY <5>1, Zenon DEF NoTx
                        <5>3. [r EXCEPT !.buf = buf] = [at |-> "next", buf |-> buf, id |-> 0, nth |-> 0]
                              BY <5>2
                        <5>4. QED BY <5>1, <5>3, Zenon
                  <4>2. tx' = [tx EXCEPT !["loop"] = [at |-> "next", buf |-> buf, id |-> 0, nth |-> 0]]
                        BY <3>2, <4>1, Zenon DEF LoopSends
                  <4>3. QED BY <3>2, <4>2, Zenon DEF LoopSends, Starts, Bufs
            <3>3. QED BY <2>4, <3>1, <3>2, Zenon DEF LoopThread, TxThreads
      <2>5. CASE UNCHANGED vars
            BY <2>5, Zenon DEF vars
      <2>6. QED BY <2>2, <2>3, <2>4, <2>5, Zenon DEF Next
<1>TxEffect.
      ASSUME TxTypes, NEW t \in TxThreads
      PROVE  /\ NextTests(t) => tx' = [tx EXCEPT ![t] = At(t, "inc", tx[t].id, tx[t].nth)]
             /\ NextLoads(t) =>
                   tx' = [tx EXCEPT ![t] = At(t, "store", (last + 1) % (UINT16_MAX + 1), tx[t].nth)]
             /\ NextStores(t) => tx' = [tx EXCEPT ![t] = At(t, "tx", tx[t].id, Len(drawn) + 1)]
      <2> USE <1>TxEffect
      <2>1. tx[t] = [at |-> tx[t].at, buf |-> tx[t].buf, id |-> tx[t].id, nth |-> tx[t].nth]
            BY DEF TxTypes
      <2>2. ASSUME NEW at PROVE [tx[t] EXCEPT !.at = at] = At(t, at, tx[t].id, tx[t].nth)
            BY <2>1 DEF At
      <2>3. tx \in [TxThreads -> {tx[u] : u \in TxThreads}]
            BY DEF TxTypes
      <2>4. ASSUME NextTests(t) PROVE tx' = [tx EXCEPT ![t] = At(t, "inc", tx[t].id, tx[t].nth)]
            <3>1. tx' = [tx EXCEPT ![t] = [tx[t] EXCEPT !.at = "inc"]]
                  BY <2>3, <2>4, Zenon DEF NextTests
            <3>2. QED BY <2>2, <3>1, Zenon
      <2>5. ASSUME NextLoads(t)
            PROVE  tx' = [tx EXCEPT ![t] = At(t, "store", (last + 1) % (UINT16_MAX + 1), tx[t].nth)]
            <3>1. PICK x : x = (last + 1) % (UINT16_MAX + 1)
                  BY Zenon
            <3>2. tx' = [tx EXCEPT ![t].at = "store", ![t].id = x]
                  BY <2>5, <3>1, Zenon DEF NextLoads
            <3>3. tx' = [tx EXCEPT ![t] = [[tx[t] EXCEPT !.at = "store"] EXCEPT !.id = x]]
                  BY <2>3, <3>2, Zenon
            <3>4. [[tx[t] EXCEPT !.at = "store"] EXCEPT !.id = x] = At(t, "store", x, tx[t].nth)
                  <4>1. PICK r : r = [tx[t] EXCEPT !.at = "store"]
                        BY Zenon
                  <4>2. r = [at |-> "store", buf |-> tx[t].buf, id |-> tx[t].id, nth |-> tx[t].nth]
                        BY <2>2, <4>1, Zenon DEF At
                  <4>3. [r EXCEPT !.id = x] = At(t, "store", x, tx[t].nth)
                        BY <4>2 DEF At
                  <4>4. QED BY <4>1, <4>3, Zenon
            <3>5. QED BY <3>1, <3>3, <3>4, Zenon
      <2>6. ASSUME NextStores(t) PROVE tx' = [tx EXCEPT ![t] = At(t, "tx", tx[t].id, Len(drawn) + 1)]
            <3>1. PICK x : x = Len(drawn) + 1
                  BY Zenon
            <3>2. tx' = [tx EXCEPT ![t].at = "tx", ![t].nth = x]
                  BY <2>6, <3>1, Zenon DEF NextStores
            <3>3. tx' = [tx EXCEPT ![t] = [[tx[t] EXCEPT !.at = "tx"] EXCEPT !.nth = x]]
                  BY <2>3, <3>2, Zenon
            <3>4. [[tx[t] EXCEPT !.at = "tx"] EXCEPT !.nth = x] = At(t, "tx", tx[t].id, x)
                  <4>1. PICK r : r = [tx[t] EXCEPT !.at = "tx"]
                        BY Zenon
                  <4>2. r = [at |-> "tx", buf |-> tx[t].buf, id |-> tx[t].id, nth |-> tx[t].nth]
                        BY <2>2, <4>1, Zenon DEF At
                  <4>3. [r EXCEPT !.nth = x] = At(t, "tx", tx[t].id, x)
                        BY <4>2 DEF At
                  <4>4. QED BY <4>1, <4>3, Zenon
            <3>5. QED BY <3>1, <3>3, <3>4, Zenon
      <2>7. QED BY <2>4, <2>5, <2>6, Zenon
<1>TxFields.
      ASSUME TxTypes, NEW t \in TxThreads
      PROVE  /\ tx[t] \in TxRecord /\ tx[t].buf \in Bufs /\ tx[t].id \in Ids /\ tx[t].nth \in Nat
             /\ tx[t].at \in {"idle", "next", "inc", "store", "tx"}
      BY <1>TxFields DEF TxTypes, TxRecord
\* One thread's record changes.
<1>TxOther.
      ASSUME TxTypes, NEW t \in TxThreads, NEW r \in TxRecord, tx' = [tx EXCEPT ![t] = r]
      PROVE  /\ tx' \in [TxThreads -> TxRecord]
             /\ tx'[t] = r
             /\ \A u \in TxThreads \ {t} : tx'[u] = tx[u]
      BY <1>TxOther DEF TxTypes, TxRecord
<1>TxTypesKept.
      ASSUME TxTypes, [Next]_vars
      PROVE  TxTypes'
      <2> USE <1>TxTypesKept
      <2> DEFINE Made == {Pkt(buf, id, nth) : buf \in Bufs, id \in Ids, nth \in Nat}
      <2>0. /\ last \in Ids /\ transmits \in Nat /\ raced \in BOOLEAN
            /\ tx \in [TxThreads -> TxRecord] /\ drawn \in Seq(Ids) /\ sent \in Seq(Made)
            BY DEF TxTypes, TxRecord
      <2>1. SUFFICES /\ last' \in Ids /\ transmits' \in Nat /\ raced' \in BOOLEAN
                     /\ tx' \in [TxThreads -> TxRecord] /\ drawn' \in Seq(Ids) /\ sent' \in Seq(Made)
            BY DEF TxTypes, TxRecord, Pkt, Made, Ids, Bufs
      <2>2. CASE UNCHANGED txVars
            BY <2>0, <2>2 DEF txVars
      <2>3. ASSUME NEW t \in TxThreads, NEW buf \in Bufs, Starts(t, buf)
            PROVE  /\ last' \in Ids /\ transmits' \in Nat /\ raced' \in BOOLEAN
                   /\ tx' \in [TxThreads -> TxRecord] /\ drawn' \in Seq(Ids) /\ sent' \in Seq(Made)
            <3>1. [at |-> "next", buf |-> buf, id |-> 0, nth |-> 0] \in TxRecord
                  BY IdConstants, Zenon DEF TxRecord
            <3>2. tx' \in [TxThreads -> TxRecord]
                  BY <2>3, <3>1, <1>TxOther, Zenon DEF Starts
            <3>3. UNCHANGED <<last, drawn, raced, sent>> /\ transmits' \in Nat
                  BY <2>0, <2>3 DEF Starts
            <3>4. QED BY <2>0, <3>2, <3>3
      <2>4. ASSUME NEW t \in TxThreads, TxStep(t)
            PROVE  /\ last' \in Ids /\ transmits' \in Nat /\ raced' \in BOOLEAN
                   /\ tx' \in [TxThreads -> TxRecord] /\ drawn' \in Seq(Ids) /\ sent' \in Seq(Made)
            <3>1. tx[t].buf \in Bufs /\ tx[t].id \in Ids /\ tx[t].nth \in Nat
                  BY <1>TxFields, Zenon
            <3>2. ASSUME NEW at \in {"inc", "store", "tx"}, NEW id \in Ids, NEW nth \in Nat
                  PROVE  At(t, at, id, nth) \in TxRecord
                  BY <3>1, Zenon DEF At, TxRecord
            <3>3. CASE NextTests(t)
                  <4>1. tx' \in [TxThreads -> TxRecord]
                        BY <3>1, <3>2, <3>3, <1>TxEffect, <1>TxOther, Zenon
                  <4>2. last' \in Ids
                        BY <2>0, <3>3, IdConstants DEF NextTests
                  <4>3. raced' \in BOOLEAN /\ UNCHANGED <<drawn, sent, transmits>>
                        BY <3>3, Zenon DEF NextTests
                  <4>4. QED BY <2>0, <4>1, <4>2, <4>3
            <3>4. CASE NextLoads(t)
                  <4>1. (last + 1) % (UINT16_MAX + 1) \in Ids
                        BY <2>0, IdConstants
                  <4>2. tx' \in [TxThreads -> TxRecord]
                        BY <3>1, <3>2, <3>4, <4>1, <1>TxEffect, <1>TxOther, Zenon
                  <4>3. UNCHANGED <<last, drawn, raced, sent, transmits>>
                        BY <3>4, Zenon DEF NextLoads
                  <4>4. QED BY <2>0, <4>2, <4>3
            <3>5. CASE NextStores(t)
                  <4>1. Len(drawn) + 1 \in Nat
                        BY <2>0
                  <4>2. tx' \in [TxThreads -> TxRecord]
                        BY <3>1, <3>2, <3>5, <4>1, <1>TxEffect, <1>TxOther, Zenon
                  <4>3. last' \in Ids /\ drawn' \in Seq(Ids) /\ UNCHANGED <<raced, sent, transmits>>
                        BY <2>0, <3>1, <3>5 DEF NextStores
                  <4>4. QED BY <2>0, <4>2, <4>3
            <3>6. CASE Transmits(t)
                  <4>1. NoTx \in TxRecord
                        BY IdConstants, Zenon DEF NoTx, TxRecord, Bufs
                  <4>2. tx' \in [TxThreads -> TxRecord]
                        BY <3>6, <4>1, <1>TxOther, Zenon DEF Transmits
                  <4>3. sent' = Append(sent, Pkt(tx[t].buf, tx[t].id, tx[t].nth))
                        BY <3>6, Zenon DEF Transmits, Pkt
                  <4>4. Pkt(tx[t].buf, tx[t].id, tx[t].nth) \in Made
                        BY <3>1
                  <4> HIDE DEF Made
                  <4>5. sent' \in Seq(Made)
                        BY <2>0, <4>3, <4>4
                  <4>6. UNCHANGED <<last, drawn, raced, transmits>>
                        BY <3>6, Zenon DEF Transmits
                  <4>7. QED BY <2>0, <4>2, <4>5, <4>6, Zenon
            <3>7. QED BY <2>4, <3>3, <3>4, <3>5, <3>6 DEF TxStep
      <2> HIDE DEF Made
      <2>5. QED BY <2>2, <2>3, <2>4, <1>TxSteps, Zenon
<1>OwnDrawKept.
      ASSUME TxTypes, OwnDraw, [Next]_vars
      PROVE  OwnDraw'
      <2> USE <1>OwnDrawKept
      <2>0. \A t \in TxThreads : tx[t].nth \in Nat
            BY <1>TxFields, Zenon
      <2>d. drawn \in Seq(Ids) /\ Len(drawn) \in Nat
            BY DEF TxTypes
      <2>s. \A i \in DOMAIN sent : sent[i].nth \in DOMAIN drawn /\ sent[i].nth <= Len(drawn)
            BY <2>d DEF OwnDraw
      <2>1. CASE UNCHANGED txVars
            BY <2>1 DEF OwnDraw, txVars
      <2>2. ASSUME NEW t \in TxThreads, NEW r \in TxRecord, r.at # "tx",
                   tx' = [tx EXCEPT ![t] = r], UNCHANGED <<drawn, sent>>
            PROVE  OwnDraw'
            <3>1. tx'[t] = r /\ \A u \in TxThreads \ {t} : tx'[u] = tx[u]
                  BY <2>2, <1>TxOther, Zenon
            <3>2. ASSUME NEW u \in TxThreads, tx'[u].at = "tx"
                  PROVE  /\ tx'[u].nth \in DOMAIN drawn /\ tx'[u].id = drawn[tx'[u].nth]
                         /\ \A v \in TxThreads \ {u} : tx'[v].at = "tx" => tx'[v].nth # tx'[u].nth
                         /\ \A i \in DOMAIN sent : sent[i].nth # tx'[u].nth
                  <4>1. u # t /\ tx'[u] = tx[u]
                        BY <2>2, <3>1, <3>2, Zenon
                  <4>2. \A v \in TxThreads \ {u} : tx'[v].at = "tx" => tx'[v] = tx[v]
                        BY <2>2, <3>1, Zenon
                  <4>3. QED BY <3>2, <4>1, <4>2 DEF OwnDraw
            <3>3. QED BY <2>2, <3>2 DEF OwnDraw
      <2>3. ASSUME NEW t \in TxThreads, NEW buf \in Bufs, Starts(t, buf) PROVE OwnDraw'
            <3>1. [at |-> "next", buf |-> buf, id |-> 0, nth |-> 0] \in TxRecord
                  BY IdConstants, Zenon DEF TxRecord
            <3>2. QED BY <2>2, <2>3, <3>1, Zenon DEF Starts
      <2>4. ASSUME NEW t \in TxThreads, NextTests(t) PROVE OwnDraw'
            <3>1. At(t, "inc", tx[t].id, tx[t].nth) \in TxRecord /\ At(t, "inc", tx[t].id, tx[t].nth).at # "tx"
                  BY <1>TxFields, Zenon DEF At, TxRecord
            <3>2. tx' = [tx EXCEPT ![t] = At(t, "inc", tx[t].id, tx[t].nth)]
                  BY <2>4, <1>TxEffect, Zenon
            <3>3. UNCHANGED <<drawn, sent>>
                  BY <2>4, Zenon DEF NextTests
            <3>4. QED BY <2>2, <3>1, <3>2, <3>3, Zenon
      <2>5. ASSUME NEW t \in TxThreads, NextLoads(t) PROVE OwnDraw'
            <3>1. PICK x : x = (last + 1) % (UINT16_MAX + 1)
                  BY Zenon
            <3>2. x \in Ids
                  BY <3>1, IdConstants DEF TxTypes
            <3>3. At(t, "store", x, tx[t].nth) \in TxRecord /\ At(t, "store", x, tx[t].nth).at # "tx"
                  BY <3>2, <1>TxFields, Zenon DEF At, TxRecord
            <3>4. tx' = [tx EXCEPT ![t] = At(t, "store", x, tx[t].nth)]
                  BY <2>5, <3>1, <1>TxEffect, Zenon
            <3>5. UNCHANGED <<drawn, sent>>
                  BY <2>5, Zenon DEF NextLoads
            <3>6. QED BY <2>2, <3>3, <3>4, <3>5, Zenon
      <2>6. ASSUME NEW t \in TxThreads, NextStores(t) PROVE OwnDraw'
            <3>1. PICK n \in Nat : n = Len(drawn) + 1
                  BY <2>d
            <3>2. At(t, "tx", tx[t].id, n) \in TxRecord
                  BY <1>TxFields, Zenon DEF At, TxRecord
            <3>3. tx' = [tx EXCEPT ![t] = At(t, "tx", tx[t].id, n)]
                  BY <2>6, <3>1, <1>TxEffect, Zenon
            <3>4. tx'[t] = At(t, "tx", tx[t].id, n) /\ \A u \in TxThreads \ {t} : tx'[u] = tx[u]
                  BY <3>2, <3>3, <1>TxOther, Zenon
            <3>5. tx'[t].id = tx[t].id /\ tx'[t].nth = n
                  BY <3>4 DEF At
            <3>6. sent' = sent /\ drawn' = Append(drawn, tx[t].id)
                  BY <2>6, Zenon DEF NextStores
            <3>7. /\ n \in DOMAIN drawn' /\ drawn'[n] = tx[t].id
                  /\ \A i \in DOMAIN drawn : i \in DOMAIN drawn' /\ drawn'[i] = drawn[i] /\ i # n
                  <4>1. tx[t].id \in Ids
                        BY <1>TxFields, Zenon
                  <4>2. QED BY <2>d, <3>1, <3>6, <4>1
            <3>8. ASSUME NEW u \in TxThreads, tx'[u].at = "tx"
                  PROVE  /\ tx'[u].nth \in DOMAIN drawn' /\ tx'[u].id = drawn'[tx'[u].nth]
                         /\ \A v \in TxThreads \ {u} : tx'[v].at = "tx" => tx'[v].nth # tx'[u].nth
                         /\ \A i \in DOMAIN sent : sent[i].nth # tx'[u].nth
                  <4>1. \A v \in TxThreads \ {t} : tx'[v].at = "tx" =>
                           /\ tx'[v].nth \in DOMAIN drawn /\ tx'[v].id = drawn[tx'[v].nth]
                           /\ \A w \in TxThreads \ {v} : tx[w].at = "tx" => tx[w].nth # tx'[v].nth
                           /\ \A i \in DOMAIN sent : sent[i].nth # tx'[v].nth
                        BY <3>4 DEF OwnDraw
                  <4>2. CASE u = t
                        <5>1. tx'[u].nth = n /\ tx'[u].id = tx[t].id
                              BY <3>5, <4>2, Zenon
                        <5>2. \A v \in TxThreads \ {u} : tx'[v].at = "tx" => tx'[v].nth # n
                              BY <3>7, <4>1, <4>2, Zenon
                        <5>3. \A i \in DOMAIN sent : sent[i].nth # n
                              BY <2>s, <3>7, Zenon
                        <5>4. QED BY <3>7, <5>1, <5>2, <5>3, Zenon
                  <4>3. CASE u # t
                        <5>1. /\ tx'[u].nth \in DOMAIN drawn /\ tx'[u].id = drawn[tx'[u].nth]
                              /\ \A w \in TxThreads \ {u} : tx[w].at = "tx" => tx[w].nth # tx'[u].nth
                              /\ \A i \in DOMAIN sent : sent[i].nth # tx'[u].nth
                              BY <3>8, <4>1, <4>3, Zenon
                        <5>2. tx'[u].nth \in DOMAIN drawn' /\ tx'[u].id = drawn'[tx'[u].nth] /\ tx'[u].nth # n
                              BY <3>7, <5>1, Zenon
                        <5>3. \A v \in TxThreads \ {u} : tx'[v].at = "tx" => tx'[v].nth # tx'[u].nth
                              BY <3>4, <3>5, <5>1, <5>2, Zenon
                        <5>4. QED BY <5>1, <5>2, <5>3, Zenon
                  <4>4. QED BY <4>2, <4>3, Zenon
            <3>9. ASSUME NEW i \in DOMAIN sent, NEW j \in DOMAIN sent
                  PROVE  /\ sent[i].nth \in DOMAIN drawn' /\ sent[i].id = drawn'[sent[i].nth]
                         /\ sent[i].nth = sent[j].nth => i = j
                  BY <3>7, Zenon DEF OwnDraw
            <3>10. QED BY <3>6, <3>8, <3>9 DEF OwnDraw
      <2>7. ASSUME NEW t \in TxThreads, Transmits(t) PROVE OwnDraw'
            <3>1. NoTx \in TxRecord /\ NoTx.at # "tx"
                  BY IdConstants, Zenon DEF NoTx, TxRecord, Bufs
            <3>2. \A u \in TxThreads : tx'[u].at = "tx" => u # t /\ tx'[u] = tx[u]
                  BY <2>7, <3>1, <1>TxOther, Zenon DEF Transmits
            <3>3. PICK p : p = Pkt(tx[t].buf, tx[t].id, tx[t].nth)
                  BY Zenon
            <3>4. p.nth = tx[t].nth /\ p.id = tx[t].id
                  BY <3>3, Zenon DEF Pkt
            <3>5. sent' = Append(sent, p) /\ drawn' = drawn
                  BY <2>7, <3>3, Zenon DEF Transmits, Pkt
            <3>6. PICK S : sent \in Seq(S) /\ p \in S
                  <4> DEFINE Made == {Pkt(buf, id, nth) : buf \in Bufs, id \in Ids, nth \in Nat}
                  <4>1. sent \in Seq(Made)
                        BY DEF TxTypes
                  <4>2. p \in Made
                        BY <3>3, <1>TxFields
                  <4> HIDE DEF Made
                  <4>3. QED BY <4>1, <4>2, Zenon
            <3>7. /\ DOMAIN sent' = DOMAIN sent \cup {Len(sent) + 1} /\ sent'[Len(sent) + 1] = p
                  /\ \A i \in DOMAIN sent : sent'[i] = sent[i] /\ i # Len(sent) + 1
                  BY <3>5, <3>6
            <3>8. /\ tx[t].at = "tx" /\ tx[t].nth \in DOMAIN drawn /\ tx[t].id = drawn[tx[t].nth]
                  /\ \A u \in TxThreads \ {t} : tx[u].at = "tx" => tx[u].nth # tx[t].nth
                  /\ \A i \in DOMAIN sent : sent[i].nth # tx[t].nth
                  BY <2>7, Zenon DEF Transmits, OwnDraw
            <3>9. ASSUME NEW u \in TxThreads, tx'[u].at = "tx"
                  PROVE  /\ tx'[u].nth \in DOMAIN drawn /\ tx'[u].id = drawn[tx'[u].nth]
                         /\ \A v \in TxThreads \ {u} : tx'[v].at = "tx" => tx'[v].nth # tx'[u].nth
                         /\ \A i \in DOMAIN sent' : sent'[i].nth # tx'[u].nth
                  <4>1. u # t /\ tx'[u] = tx[u]
                        BY <3>2, <3>9, Zenon
                  <4>2. /\ tx'[u].nth \in DOMAIN drawn /\ tx'[u].id = drawn[tx'[u].nth]
                        /\ \A v \in TxThreads \ {u} : tx[v].at = "tx" => tx[v].nth # tx'[u].nth
                        /\ \A i \in DOMAIN sent : sent[i].nth # tx'[u].nth
                        BY <3>9, <4>1 DEF OwnDraw
                  <4>3. tx'[u].nth # tx[t].nth
                        BY <3>8, <3>9, <4>1, Zenon
                  <4>4. QED BY <3>2, <3>4, <3>7, <4>2, <4>3, Zenon
            <3>10. ASSUME NEW i \in DOMAIN sent', NEW j \in DOMAIN sent'
                   PROVE  /\ sent'[i].nth \in DOMAIN drawn /\ sent'[i].id = drawn[sent'[i].nth]
                          /\ sent'[i].nth = sent'[j].nth => i = j
                   BY <3>4, <3>7, <3>8 DEF OwnDraw
            <3>11. QED BY <3>5, <3>9, <3>10 DEF OwnDraw
      <2>8. ASSUME NEW t \in TxThreads, TxStep(t) PROVE OwnDraw'
            BY <2>4, <2>5, <2>6, <2>7, <2>8, Zenon DEF TxStep
      <2>9. QED BY <2>1, <2>3, <2>8, <1>TxSteps, Zenon
<1>TurnsKept.
      ASSUME TxTypes, Turns, [Next]_vars
      PROVE  Turns'
      <2>SmallMod.
            ASSUME NEW x \in Nat, NEW m \in Nat, x <= m
            PROVE  x % (m + 1) = x
            <3> USE <2>SmallMod
            <3>1. PICK k \in Nat, n \in Nat : k = x /\ n = m + 1 /\ n > 0 /\ k < n
                  OBVIOUS
            <3>2. k % n = k
                  BY <3>1
            <3>3. QED BY <3>1, <3>2, Zenon
      <2> USE <1>TurnsKept
      <2>0. SUFFICES ASSUME ~raced' PROVE Turn' /\ Ring'
            BY Zenon DEF Turns, Turn, Ring
      <2>1. TxThreads = {"loop", "ip"}
            BY Zenon DEF TxThreads
      <2>2. CASE UNCHANGED txVars
            <3>1. Turn /\ Ring
                  BY <2>0, <2>2, Zenon DEF txVars, Turns, Turn, Ring
            <3>2. QED BY <2>2, <3>1, Zenon DEF txVars, Turn, Ring, InNext, Back
      <2>3. ASSUME UNCHANGED <<last, drawn>>, Ring PROVE Ring'
            BY <2>3, Zenon DEF Ring, Back
      <2>4. ASSUME NEW t \in TxThreads, NEW r \in TxRecord, r.at \notin {"inc", "store"},
                   tx' = [tx EXCEPT ![t] = r], UNCHANGED <<last>>, Turn
            PROVE  Turn'
            <3>1. tx'[t] = r /\ \A u \in TxThreads \ {t} : tx'[u] = tx[u]
                  BY <2>4, <1>TxOther, Zenon
            <3>2. \A u \in TxThreads : InNext(u)' => InNext(u)
                  BY <2>4, <3>1, Zenon DEF InNext
            <3>3. QED BY <2>1, <2>4, <3>1, <3>2 DEF Turn
      <2>5. ASSUME NEW t \in TxThreads, NEW buf \in Bufs, Starts(t, buf) PROVE Turn' /\ Ring'
            <3>1. [at |-> "next", buf |-> buf, id |-> 0, nth |-> 0] \in TxRecord
                  BY IdConstants, Zenon DEF TxRecord
            <3>2. Turn /\ Ring
                  BY <2>0, <2>5, Zenon DEF Starts, Turns, Turn, Ring
            <3>3. QED BY <2>3, <2>4, <2>5, <3>1, <3>2, Zenon DEF Starts
      <2>6. ASSUME NEW t \in TxThreads, NextTests(t) PROVE Turn' /\ Ring'
            <3>1. ~raced /\ \A u \in TxThreads \ {t} : ~InNext(u)
                  BY <2>0, <2>6, Zenon DEF NextTests
            <3>2. Turn /\ Ring
                  BY <3>1, Zenon DEF Turns, Turn, Ring
            <3>3. At(t, "inc", tx[t].id, tx[t].nth) \in TxRecord
                  BY <1>TxFields, Zenon DEF At, TxRecord
            <3>4. tx'[t].at = "inc" /\ \A u \in TxThreads \ {t} : tx'[u] = tx[u]
                  BY <2>6, <3>3, <1>TxEffect, <1>TxOther DEF At
            <3>5. last' < UINT16_MAX /\ last' = (IF last = UINT16_MAX THEN 0 ELSE last) /\ drawn' = drawn
                  BY <2>6, IdConstants DEF NextTests, TxTypes
            <3>6. Turn'
                  BY <2>1, <3>1, <3>4, <3>5, Zenon DEF Turn, InNext
            <3>7. \A k \in Nat : k < UINT16_MAX => Back(k)' = Back(k)
                  BY <3>5, IdConstants DEF Back, TxTypes
            <3>8. Ring'
                  <4>1. ASSUME NEW n \in DOMAIN drawn, Len(drawn) - n < UINT16_MAX
                        PROVE  drawn[n] = Back(Len(drawn) - n)'
                        <5>1. Len(drawn) - n \in Nat
                              BY DEF TxTypes
                        <5>2. Back(Len(drawn) - n)' = Back(Len(drawn) - n)
                              BY <3>5, <3>7, <4>1, <5>1, Zenon
                        <5>3. QED BY <3>2, <4>1, <5>2, Zenon DEF Ring
                  <4>2. QED BY <3>2, <3>5, <4>1, Zenon DEF Ring
            <3>9. QED BY <3>6, <3>8, Zenon
      <2>7. ASSUME NEW t \in TxThreads, NextLoads(t) PROVE Turn' /\ Ring'
            <3>1. Turn /\ Ring /\ UNCHANGED <<last, drawn>>
                  BY <2>0, <2>7, Zenon DEF NextLoads, Turns, Turn, Ring
            <3>2. last < UINT16_MAX /\ InNext(t)
                  BY <2>7, <3>1, Zenon DEF NextLoads, Turn, InNext
            <3>3. (last + 1) % (UINT16_MAX + 1) = last + 1 /\ last + 1 \in Ids
                  <4>1. last + 1 \in Nat /\ UINT16_MAX \in Nat /\ last + 1 <= UINT16_MAX
                        BY <3>2, IdConstants DEF TxTypes
                  <4>2. QED BY <4>1, IdConstants, <2>SmallMod
            <3>4. At(t, "store", last + 1, tx[t].nth) \in TxRecord
                  BY <3>3, <1>TxFields, Zenon DEF At, TxRecord
            <3>5. /\ tx'[t].at = "store" /\ tx'[t].id = last + 1
                  /\ \A u \in TxThreads \ {t} : tx'[u] = tx[u]
                  BY <2>7, <3>3, <3>4, <1>TxEffect, <1>TxOther DEF At
            <3>6. \A u \in TxThreads : InNext(u)' => InNext(u)
                  BY <3>2, <3>5, Zenon DEF InNext
            <3>7. Turn'
                  BY <2>1, <3>1, <3>5, <3>6, Zenon DEF Turn
            <3>8. QED BY <2>3, <3>1, <3>7, Zenon
      <2>8. ASSUME NEW t \in TxThreads, NextStores(t) PROVE Turn' /\ Ring'
            <3>1. Turn /\ Ring
                  BY <2>0, <2>8, Zenon DEF NextStores, Turns, Turn, Ring
            <3>2. tx[t].id = last + 1 /\ InNext(t) /\ tx[t].id \in Ids
                  BY <2>8, <3>1, <1>TxFields, Zenon DEF NextStores, Turn, InNext
            <3>3. last < UINT16_MAX
                  BY <3>2, IdConstants DEF TxTypes
            <3>4. last' = tx[t].id /\ drawn' = Append(drawn, tx[t].id)
                  BY <2>8, Zenon DEF NextStores
            <3>5. Ring'
                  <4>1. /\ \A n \in DOMAIN drawn :
                              Len(drawn) - n < UINT16_MAX => drawn[n] = Back(Len(drawn) - n)
                        /\ \A m, n \in DOMAIN drawn :
                              /\ drawn[n] # 0
                              /\ m < n /\ n - m < UINT16_MAX => drawn[m] # drawn[n]
                        BY <3>1, Zenon DEF Ring
                  <4>2. PICK id, new : id = tx[t].id /\ new = Append(drawn, tx[t].id)
                        BY Zenon
                  <4>3. /\ \A n \in DOMAIN new : Len(new) - n < UINT16_MAX =>
                              new[n] = IF id - (Len(new) - n) >= 1 THEN id - (Len(new) - n)
                                       ELSE id - (Len(new) - n) + UINT16_MAX
                        /\ \A m, n \in DOMAIN new :
                              /\ new[n] # 0
                              /\ m < n /\ n - m < UINT16_MAX => new[m] # new[n]
                        \* The id after last is none of the UINT16_MAX - 1 ids before it.
                        <5>0. id = last + 1 /\ new = Append(drawn, id)
                              BY <3>2, <4>2, Zenon
                        <5>1. /\ UINT16_MAX \in Nat /\ UINT16_MAX >= 1 /\ last \in Nat /\ id \in Nat /\ id >= 1
                              /\ id <= UINT16_MAX
                              BY <3>3, <5>0, IdConstants DEF TxTypes
                        <5>2. id \in Ids /\ drawn \in Seq(Ids)
                              BY <5>1, IdConstants DEF TxTypes
                        <5>3. PICK N \in Nat : N = Len(drawn)
                              BY <5>2
                        <5>4. /\ DOMAIN drawn = 1..N /\ DOMAIN new = 1..(N + 1) /\ Len(new) = N + 1
                              /\ new[N + 1] = id /\ \A n \in 1..N : new[n] = drawn[n]
                              BY <5>0, <5>2, <5>3
                        <5>5. \A n \in 1..N : new[n] \in Nat /\ new[n] # 0
                              <6>1. \A n \in 1..N : drawn[n] \in Ids /\ drawn[n] # 0
                                    BY <4>1, <5>2, <5>4
                              <6>2. QED BY <5>4, <6>1, IdConstants
                        <5>6. ASSUME NEW n \in 1..N, N - n < UINT16_MAX
                              PROVE  new[n] = IF last - (N - n) >= 1 THEN last - (N - n) ELSE last - (N - n) + UINT16_MAX
                              BY <4>1, <5>3, <5>4, <5>6, Zenon DEF Back
                        <5>7. ASSUME NEW n \in 1..(N + 1), (N + 1) - n < UINT16_MAX
                              PROVE  new[n] = IF id - ((N + 1) - n) >= 1 THEN id - ((N + 1) - n)
                                              ELSE id - ((N + 1) - n) + UINT16_MAX
                              <6>1. CASE n = N + 1
                                    BY <5>1, <5>4, <6>1
                              <6>2. CASE n # N + 1
                                    <7>1. n \in 1..N /\ N - n < UINT16_MAX /\ id - ((N + 1) - n) = last - (N - n)
                                          BY <5>0, <5>1, <5>7, <6>2
                                    <7>2. QED BY <5>6, <7>1, Zenon
                              <6>3. QED BY <6>1, <6>2, Zenon
                        <5>8. ASSUME NEW m \in 1..(N + 1), NEW n \in 1..(N + 1), m < n, n - m < UINT16_MAX
                              PROVE  new[m] # new[n]
                              <6>1. CASE n = N + 1
                                    <7>1. m \in 1..N /\ (N + 1) - m < UINT16_MAX /\ (N + 1) - m >= 1
                                          BY <5>8, <6>1
                                    <7>2. new[m] = IF id - ((N + 1) - m) >= 1 THEN id - ((N + 1) - m)
                                                   ELSE id - ((N + 1) - m) + UINT16_MAX
                                          BY <5>7, <7>1, Zenon
                                    <7>3. new[m] # id
                                          <8>1. PICK k \in Nat : k = (N + 1) - m
                                                BY <7>1
                                          <8>2. /\ k >= 1 /\ k < UINT16_MAX
                                                /\ new[m] = IF id - k >= 1 THEN id - k ELSE id - k + UINT16_MAX
                                                BY <7>1, <7>2, <8>1, Zenon
                                          <8>3. id - k # id /\ id - k + UINT16_MAX # id
                                                BY <5>1, <8>1, <8>2
                                          <8>4. QED BY <8>2, <8>3, Zenon
                                    <7>4. QED BY <5>4, <6>1, <7>3, Zenon
                              <6>2. CASE n # N + 1
                                    <7>1. m \in 1..N /\ n \in 1..N
                                          BY <5>8, <6>2
                                    <7>2. drawn[m] # drawn[n]
                                          BY <4>1, <5>4, <5>8, <7>1, Zenon
                                    <7>3. QED BY <5>4, <7>1, <7>2, Zenon
                              <6>3. QED BY <6>1, <6>2, Zenon
                        <5>9. \A n \in 1..(N + 1) : new[n] # 0
                              BY <5>1, <5>4, <5>5
                        <5>10. QED BY <5>4, <5>7, <5>8, <5>9, Zenon
                  <4>4. last' = id /\ drawn' = new
                        BY <3>4, <4>2, Zenon
                  <4>5. QED BY <4>3, <4>4, Zenon DEF Ring, Back
            <3>6. Len(drawn) + 1 \in Nat /\ At(t, "tx", tx[t].id, Len(drawn) + 1) \in TxRecord
                  BY <1>TxFields DEF At, TxRecord, TxTypes
            <3>7. tx'[t].at = "tx" /\ \A u \in TxThreads \ {t} : tx'[u] = tx[u]
                  BY <2>8, <3>6, <1>TxEffect, <1>TxOther DEF At
            <3>8. \A u \in TxThreads : ~InNext(u)'
                  BY <2>1, <3>1, <3>2, <3>7, Zenon DEF InNext, Turn
            <3>9. Turn'
                  BY <2>1, <3>8, Zenon DEF Turn, InNext
            <3>10. QED BY <3>5, <3>9, Zenon
      <2>9. ASSUME NEW t \in TxThreads, Transmits(t) PROVE Turn' /\ Ring'
            <3>1. NoTx \in TxRecord /\ NoTx.at \notin {"inc", "store"}
                  BY IdConstants, Zenon DEF NoTx, TxRecord, Bufs
            <3>2. Turn /\ Ring /\ UNCHANGED <<last, drawn>> /\ tx' = [tx EXCEPT ![t] = NoTx]
                  BY <2>0, <2>9, Zenon DEF Transmits, Turns, Turn, Ring
            <3>3. QED BY <2>3, <2>4, <3>1, <3>2, Zenon
      <2>10. ASSUME NEW t \in TxThreads, TxStep(t) PROVE Turn' /\ Ring'
            BY <2>6, <2>7, <2>8, <2>9, <2>10, Zenon DEF TxStep
      <2>11. QED BY <2>2, <2>5, <2>10, <1>TxSteps, Zenon
<1>InitTxInv. Init => TxInv
      <2> SUFFICES ASSUME Init PROVE TxInv
          BY Zenon
      <2>1. TxTypes
            <3>1. NoTx \in TxRecord
                  BY IdConstants, Zenon DEF NoTx, TxRecord, Bufs
            <3>2. tx \in [TxThreads -> TxRecord]
                  BY <3>1, Zenon DEF Init
            <3>3. transmits \in Nat
                  BY IpAssumption, Zenon DEF Init
            <3>4. last \in Ids /\ raced \in BOOLEAN /\ drawn \in Seq(Ids)
                  <4>1. last = 0 /\ raced = FALSE /\ drawn = <<>>
                        BY Zenon DEF Init
                  <4>2. \A S : <<>> \in Seq(S)
                        OBVIOUS
                  <4>3. QED BY <4>1, <4>2, IdConstants, Zenon
            <3>5. sent = <<>>
                  BY Zenon DEF Init
            <3>6. QED BY <3>2, <3>3, <3>4, <3>5 DEF TxTypes, TxRecord
      <2>2. OwnDraw /\ Turns
            BY DEF Init, OwnDraw, Turns, NoTx, TxThreads, InNext
      <2>3. QED BY <2>1, <2>2, Zenon DEF TxInv
<1>1. TxInv /\ [Next]_vars => TxInv'
      BY <1>TxTypesKept, <1>OwnDrawKept, <1>TurnsKept, Zenon DEF TxInv
<1>2. QED BY <1>1, <1>InitTxInv, PTL DEF Spec

\* Without a race in IpIdGenerator::next every packet has its own draw, no id is 0
\* and UINT16_MAX ids drawn in a row are different.
THEOREM DrawnIdsDiffer == Spec => []IdsDistinct
\* What IpIdGenerator::next gives and Ip::tx writes.
<1>DrawsAreDistinct.
      ASSUME OwnDraw, Turns
      PROVE  IdsDistinct
      BY <1>DrawsAreDistinct, Zenon DEF OwnDraw, Turns, IdsDistinct
<1>1. TxInv => IdsDistinct
      BY <1>DrawsAreDistinct, Zenon DEF TxInv
<1>2. QED BY <1>1, TxInvariance, PTL

-----------------------------------------------------------------------------
(* Checksums.  Sum is defined by recursion over a sequence; what is said of*)
(* every element is proved from a least counterexample.                    *)

\* A set of natural numbers that is not empty has a least element.
LEMMA LeastNumber ==
    ASSUME NEW T, T \subseteq Nat, T # {}
    PROVE  \E m \in T : \A k \in T : m <= k
<1> DEFINE Less == {ss \in Nat \X Nat : ss[1] < ss[2]}
<1>1. IsWellFoundedOn(Less, Nat)
      BY NatLessThanWellFounded, Zenon DEF OpToRel
<1> HIDE DEF Less
<1>2. PICK m \in T : \A y \in T : ~(<<y, m>> \in Less)
      BY <1>1, WFMin, Zenon
<1>3. ASSUME NEW k \in T PROVE m <= k
      <2>1. k \in Nat /\ m \in Nat /\ <<k, m>> \in Nat \X Nat
            BY Zenon
      <2>2. ~(<<k, m>>[1] < <<k, m>>[2])
            BY <1>2, <2>1, Zenon DEF Less
      <2>3. QED BY <2>1, <2>2
<1>4. QED BY <1>3, Zenon

Size(b) == Len(b)

Cat(a, b) == a \o b

\* A receiver accepts both checksums of every packet that Ip::tx writes.
THEOREM ReceiversAccept == Spec => []ChecksumsVerify
\* f[i] is the sum of the first i of the n numbers w.
<1> DEFINE SumsUp(f, w, n) ==
               /\ f \in [0..n -> Int]
               /\ f[0] = 0
               /\ \A i \in 1..n : f[i] = f[i - 1] + w[i]
           Recurs(g, w, n) == g = [i \in 0..n |-> IF i = 0 THEN 0 ELSE g[i - 1] + w[i]]
           Weights(bytes) ==
               [i \in 1..Len(bytes) |-> IF i % 2 = 1 THEN bytes[i] ELSE 256 * bytes[i]]
           \* Memory of n bytes whose sum is s.
           Region(b, n, s) == b \in Seq(Bytes) /\ Len(b) = n /\ Sum(b) = s
           Times(k) == 65535 * k
           Multiple(x) == \E k \in Nat : x = Times(k)
           \* Sums that a uint32_t holds.
           Fits(s) == s < 65536 * 65536
           \* c makes s a multiple of 65535 and has 16 bits.
           Closes(s, c) == c \in Nat /\ c <= 65535 /\ Multiple(s + c)
           Even(b) == b \in Seq(Bytes) /\ \E h \in Nat : Len(b) = 2 * h
           Six(p1, p2, p3, p4, p5, p6) == Cat(Cat(Cat(Cat(Cat(p1, p2), p3), p4), p5), p6)
           \* An address: four bytes.
           Addr(b) == Even(b) /\ Size(b) = 4
           \* A region h with a checksum field: n bytes, of sum rest, around it.
           Around(h, n, rest, check) ==
               h \in Seq(Bytes) /\ Size(h) = n + Size(check) /\ Sum(h) = rest + Sum(check)
           IpRest(len, id, la, fa) ==
               Sum(<<69, 0>>) + Sum(htons(len)) + Sum(htons(id)) + Sum(Zeros(2)) + Sum(<<64, 6>>)
                   + Sum(la) + Sum(fa)
           TcpRest(ports, seqs, flags) ==
               Sum(ports) + Sum(seqs) + Sum(<<80, flags>>) + Sum(htons(4096)) + Sum(Zeros(2))
           \* What the checksum is taken of, and what a receiver sums up.
           Taken(la, fa, plen, h) == PseudoHdr(0, Zeros(2), 0, 6, plen, la, fa) \o h
           Summed(la, fa, plen, h, buf) == la \o fa \o <<0, 6>> \o plen \o h \o buf
           PseudoSum(la, fa, plen) == Sum(la) + Sum(fa) + Sum(<<0, 6>>) + Sum(plen)
           \* What Tcp::tx takes the checksum of.
           Segment(la, fa, plen, h, buf) ==
               Addr(la) /\ Addr(fa) /\ Even(plen) /\ Size(plen) = 2 /\ Even(h) /\ buf \in Seq(Bytes)
           \* A payload for which the total length has 16 bits.
           Short(buf) == Size(buf) + 40 < 65536
<1> HIDE DEF SumsUp, Recurs, Weights, Region, Times, Multiple, Fits, Closes, Even, Six, Addr,
             Around, IpRest, TcpRest, Taken, Summed, PseudoSum, Segment, Short
<1>ByteRange.
      \A x \in Bytes : x \in Nat /\ x <= 255
      BY DEF Bytes
<1>SumsExist.
      ASSUME NEW n \in Nat, NEW w \in [1..n -> Int]
      PROVE  \E f : SumsUp(f, w, n)
      <2> USE <1>SumsExist
      <2> DEFINE None == {m \in 0..n : ~\E f : SumsUp(f, w, m)}
      <2>1. SUFFICES ASSUME n \in None PROVE FALSE
            OBVIOUS
      <2>2. PICK m \in None : \A k \in None : m <= k
            <3>1. None \subseteq Nat /\ None # {}
                  BY <2>1
            <3> HIDE DEF None
            <3>2. QED BY <3>1, LeastNumber, Zenon
      <2>3. m \in 0..n /\ ~\E f : SumsUp(f, w, m)
            BY Zenon
      <2>4. CASE m = 0
            <3>1. SumsUp([i \in 0..0 |-> 0], w, 0)
                  BY DEF SumsUp
            <3>2. QED BY <2>3, <2>4, <3>1, Zenon
      <2>5. CASE m # 0
            <3>1. m - 1 \in 0..n /\ ~(m <= m - 1)
                  BY <2>3, <2>5
            <3>2. PICK f : SumsUp(f, w, m - 1)
                  BY <2>2, <3>1, Zenon
            <3> DEFINE g == [i \in 0..m |-> IF i = m THEN f[m - 1] + w[m] ELSE f[i]]
            <3>3. f \in [0..(m - 1) -> Int] /\ f[m - 1] \in Int /\ w[m] \in Int
                  BY <2>3, <2>5, <3>1, <3>2 DEF SumsUp
            <3>4. g \in [0..m -> Int]
                  BY <2>3, <3>3
            <3>5. g[0] = 0
                  BY <2>3, <2>5, <3>2 DEF SumsUp
            <3>6. ASSUME NEW i \in 1..m PROVE g[i] = g[i - 1] + w[i]
                  <4>1. CASE i = m
                        BY <2>3, <2>5, <4>1
                  <4>2. CASE i # m
                        <5>1. i \in 1..(m - 1) /\ i \in 0..m /\ i - 1 \in 0..m /\ i - 1 # m
                              BY <2>3, <4>2
                        <5>2. g[i] = f[i] /\ g[i - 1] = f[i - 1]
                              BY <4>2, <5>1, Zenon
                        <5>3. QED BY <3>2, <5>1, <5>2, Zenon DEF SumsUp
                  <4>3. QED BY <4>1, <4>2, Zenon
            <3> HIDE DEF g
            <3>7. SumsUp(g, w, m)
                  BY <3>4, <3>5, <3>6, Zenon DEF SumsUp
            <3>8. QED BY <2>3, <3>7, Zenon
      <2>6. QED BY <2>4, <2>5, Zenon
\* The function a recursive definition stands for is this one.
<1>SumsUnique.
      ASSUME NEW n \in Nat, NEW w \in [1..n -> Int], NEW f, SumsUp(f, w, n),
             NEW g, Recurs(g, w, n)
      PROVE  g = f
      <2> USE <1>SumsUnique
      <2>0. g = [i \in 0..n |-> IF i = 0 THEN 0 ELSE g[i - 1] + w[i]]
            BY Zenon DEF Recurs
      <2> DEFINE Differ == {i \in 0..n : g[i] # f[i]}
      <2>1. SUFFICES ASSUME Differ # {} PROVE FALSE
            <3>1. \A i \in 0..n : g[i] = f[i]
                  BY <2>1, Zenon
            <3>2. DOMAIN g = 0..n /\ g = [i \in 0..n |-> g[i]]
                  BY <2>0, Zenon
            <3>3. f = [i \in 0..n |-> f[i]]
                  BY Zenon DEF SumsUp
            <3>4. QED BY <3>1, <3>2, <3>3, Zenon
      <2>2. PICK m \in Differ : \A k \in Differ : m <= k
            <3>1. Differ \subseteq Nat
                  OBVIOUS
            <3> HIDE DEF Differ
            <3>2. QED BY <2>1, <3>1, LeastNumber, Zenon
      <2>3. m \in 0..n /\ g[m] # f[m]
            BY Zenon
      <2>4. g[0] = 0
            BY <2>0
      <2>5. m # 0 /\ m \in 1..n
            BY <2>3, <2>4 DEF SumsUp
      <2>6. m - 1 \in 0..n /\ ~(m <= m - 1)
            BY <2>5
      <2>7. g[m - 1] = f[m - 1]
            BY <2>2, <2>6, Zenon
      <2>8. g[m] = g[m - 1] + w[m]
            BY <2>0, <2>5, Zenon
      <2>9. f[m] = f[m - 1] + w[m]
            BY <2>5, Zenon DEF SumsUp
      <2>10. QED BY <2>3, <2>7, <2>8, <2>9, Zenon
<1>WeightsType.
      ASSUME NEW b \in Seq(Bytes)
      PROVE  /\ Len(b) \in Nat
             /\ Weights(b) \in [1..Len(b) -> Int]
             /\ \A i \in 1..Len(b) : b[i] \in Nat /\ b[i] <= 255 /\ Weights(b)[i] \in Nat /\ Weights(b)[i] <= 65280
      <2> USE <1>WeightsType
      <2>2. \A i \in 1..Len(b) : b[i] \in Nat /\ b[i] <= 255
            <3>1. \A i \in 1..Len(b) : b[i] \in Bytes
                  OBVIOUS
            <3>2. QED BY <3>1, <1>ByteRange, Zenon
      <2>3. ASSUME NEW i \in 1..Len(b) PROVE Weights(b)[i] \in Nat /\ Weights(b)[i] <= 65280
            <3>1. Weights(b)[i] = IF i % 2 = 1 THEN b[i] ELSE 256 * b[i]
                  BY Zenon DEF Weights
            <3>2. b[i] \in Nat /\ b[i] <= 255
                  BY <2>2, Zenon
            <3>3. CASE i % 2 = 1
                  BY <3>1, <3>2, <3>3
            <3>4. CASE i % 2 # 1
                  <4>1. Weights(b)[i] = 256 * b[i]
                        BY <3>1, <3>4, Zenon
                  <4>2. QED BY <3>2, <4>1
            <3>5. QED BY <3>3, <3>4
      <2>4. Weights(b) \in [1..Len(b) -> Int]
            <3>1. Weights(b) = [i \in 1..Len(b) |-> Weights(b)[i]]
                  BY Zenon DEF Weights
            <3>2. QED BY <2>3, <3>1
      <2>5. QED BY <2>2, <2>3, <2>4
\* Sum adds up the weights.
<1>SumIs.
      ASSUME NEW b \in Seq(Bytes), NEW f, SumsUp(f, Weights(b), Len(b))
      PROVE  Sum(b) = f[Len(b)]
      <2> USE <1>SumIs
      <2> DEFINE n == Len(b)
                 Is(g) == g = [i \in 0..n |->
                                IF i = 0 THEN 0
                                ELSE g[i - 1] + (IF i % 2 = 1 THEN b[i] ELSE 256 * b[i])]
                 G == CHOOSE g : Is(g)
      <2>1. Sum(b) = G[n]
            BY Zenon DEF Sum
      <2>2. Is(f)
            <3>1. n \in Nat /\ f = [i \in 0..n |-> f[i]]
                  BY DEF SumsUp
            <3>2. ASSUME NEW i \in 0..n
                  PROVE  f[i] = IF i = 0 THEN 0
                                ELSE f[i - 1] + (IF i % 2 = 1 THEN b[i] ELSE 256 * b[i])
                  <4>1. CASE i = 0
                        BY <4>1, Zenon DEF SumsUp
                  <4>2. CASE i # 0
                        <5>1. i \in 1..n
                              BY <3>1, <4>2
                        <5>2. f[i] = f[i - 1] + Weights(b)[i]
                              BY <5>1, Zenon DEF SumsUp
                        <5>3. Weights(b)[i] = IF i % 2 = 1 THEN b[i] ELSE 256 * b[i]
                              BY <5>1, Zenon DEF Weights
                        <5>4. QED BY <4>2, <5>2, <5>3, Zenon
                  <4>3. QED BY <4>1, <4>2, Zenon
            <3>3. QED BY <3>1, <3>2, Zenon
      <2>3. Is(G)
            <3> HIDE DEF Is
            <3>1. QED BY <2>2, Zenon
      <2>4. G = [i \in 0..n |-> IF i = 0 THEN 0 ELSE G[i - 1] + Weights(b)[i]]
            <3>1. \A i \in 0..n : i # 0 => i \in 1..n
                  OBVIOUS
            <3>2. PICK h : h = G
                  BY Zenon
            <3> DEFINE Was(i) == IF i = 0 THEN 0
                                 ELSE h[i - 1] + (IF i % 2 = 1 THEN b[i] ELSE 256 * b[i])
                       Now(i) == IF i = 0 THEN 0 ELSE h[i - 1] + Weights(b)[i]
            <3> HIDE DEF G
            <3>3. h = [i \in 0..n |-> Was(i)]
                  <4>1. Is(h)
                        <5> HIDE DEF Is
                        <5>1. QED BY <2>3, <3>2, Zenon
                  <4>2. QED BY <4>1, Zenon
            <3>4. \A i \in 0..n : Was(i) = Now(i)
                  BY <3>1, Zenon DEF Weights
            <3>5. h = [i \in 0..n |-> Now(i)]
                  <4> HIDE DEF Was, Now, n
                  <4>1. QED BY <3>3, <3>4, Zenon
            <3>6. QED BY <3>2, <3>5, Zenon
      <2> HIDE DEF G
      <2>5. G = f
            <3>1. n \in Nat /\ Weights(b) \in [1..n -> Int] /\ SumsUp(f, Weights(b), n)
                  BY <1>WeightsType
            <3> HIDE DEF n, Is
            <3>2. Recurs(G, Weights(b), n)
                  BY <2>4, Zenon DEF Recurs
            <3>3. QED BY <3>1, <3>2, <1>SumsUnique, Zenon
      <2>6. QED BY <2>1, <2>5, Zenon
<1>SumBound.
      ASSUME NEW b \in Seq(Bytes)
      PROVE  Sum(b) \in Nat /\ Sum(b) <= 65280 * Len(b)
      <2> USE <1>SumBound
      <2> DEFINE n == Len(b)
      <2>1. /\ n \in Nat /\ Weights(b) \in [1..n -> Int]
            /\ \A i \in 1..n : Weights(b)[i] \in Nat /\ Weights(b)[i] <= 65280
            BY <1>WeightsType
      <2>2. PICK f : SumsUp(f, Weights(b), n)
            <3> HIDE DEF n
            <3>1. QED BY <2>1, <1>SumsExist
      <2>3. Sum(b) = f[n]
            BY <2>2, <1>SumIs
      <2> DEFINE Above == {i \in 0..n : ~(f[i] \in Nat /\ f[i] <= 65280 * i)}
      <2> HIDE DEF n
      <2>4. SUFFICES ASSUME Above # {} PROVE FALSE
            BY <2>1, <2>3 DEF n
      <2>5. PICK m \in Above : \A k \in Above : m <= k
            <3>1. Above \subseteq Nat
                  BY <2>1
            <3> HIDE DEF Above
            <3>2. QED BY <2>4, <3>1, LeastNumber, Zenon
      <2>6. m \in 0..n /\ ~(f[m] \in Nat /\ f[m] <= 65280 * m)
            OBVIOUS
      <2>7. m \in 1..n /\ m - 1 \in 0..n /\ ~(m <= m - 1)
            BY <2>1, <2>2, <2>6 DEF SumsUp
      <2>8. f[m - 1] \in Nat /\ f[m - 1] <= 65280 * (m - 1)
            BY <2>5, <2>7
      <2>9. f[m] = f[m - 1] + Weights(b)[m]
            BY <2>2, <2>7 DEF SumsUp
      <2>10. Weights(b)[m] \in Nat /\ Weights(b)[m] <= 65280
            BY <2>1, <2>7
      <2>11. QED BY <2>6, <2>7, <2>8, <2>9, <2>10
<1>WeightsAreInts.
      \A b \in Seq(Bytes) : Weights(b) \in [1..Len(b) -> Int]
      <2>1. ASSUME NEW b \in Seq(Bytes) PROVE Weights(b) \in [1..Len(b) -> Int]
            BY <1>WeightsType
      <2>2. QED BY <2>1, Zenon
\* The sum over two regions, the first of them of even length.
<1>SumConcat.
      ASSUME NEW a, NEW n \in Nat, NEW s, Region(a, n, s), n % 2 = 0,
             NEW b, NEW m \in Nat, NEW t, Region(b, m, t)
      PROVE  Region(a \o b, n + m, s + t)
      <2> USE <1>SumConcat
      <2> DEFINE c == a \o b
      <2>0. a \in Seq(Bytes) /\ b \in Seq(Bytes) /\ Len(a) = n /\ Len(b) = m
            BY DEF Region
      <2>1. /\ a \in Seq(Bytes) /\ b \in Seq(Bytes) /\ c \in Seq(Bytes)
            /\ Len(a) = n /\ Len(b) = m /\ Len(c) = n + m
            /\ \A i \in 1..(n + m) : c[i] = IF i <= n THEN a[i] ELSE b[i - n]
            BY <2>0
      <2>2. PICK f : SumsUp(f, Weights(a), n)
            <3>1. Weights(a) \in [1..Len(a) -> Int]
                  BY <2>0, <1>WeightsAreInts, Zenon
            <3>2. QED BY <2>0, <3>1, <1>SumsExist
      <2>3. PICK g : SumsUp(g, Weights(b), m)
            <3>1. Weights(b) \in [1..Len(b) -> Int]
                  BY <2>0, <1>WeightsAreInts
            <3>2. QED BY <2>0, <3>1, <1>SumsExist, Zenon
      <2>4. s = f[n] /\ t = g[m]
            BY <2>1, <2>2, <2>3, <1>SumIs DEF Region
      <2> DEFINE h == [i \in 0..(n + m) |-> IF i <= n THEN f[i] ELSE f[n] + g[i - n]]
      <2>5. f \in [0..n -> Int] /\ g \in [0..m -> Int] /\ f[n] \in Int /\ g[m] \in Int
            <3>1. f \in [0..n -> Int] /\ g \in [0..m -> Int]
                  BY <2>2, <2>3 DEF SumsUp
            <3>2. n \in 0..n /\ m \in 0..m
                  OBVIOUS
            <3>3. QED BY <3>1, <3>2
      <2>6. h \in [0..(n + m) -> Int]
            <3>1. ASSUME NEW i \in 0..(n + m) PROVE h[i] \in Int
                  <4>1. CASE i <= n
                        BY <2>5, <4>1
                  <4>2. CASE ~(i <= n)
                        <5>1. i - n \in 0..m
                              BY <4>2
                        <5>2. g[i - n] \in Int
                              BY <2>5, <5>1
                        <5>3. QED BY <2>5, <4>2, <5>2
                  <4>3. QED BY <4>1, <4>2
            <3>2. QED BY <3>1
      <2>7. h[0] = 0
            BY <2>2 DEF SumsUp
      <2>8. ASSUME NEW i \in 1..(n + m) PROVE h[i] = h[i - 1] + Weights(c)[i]
            <3>0. Weights(c)[i] = IF i % 2 = 1 THEN c[i] ELSE 256 * c[i]
                  BY <2>1 DEF Weights
            <3>1. CASE i <= n
                  <4>1. i \in 1..n /\ c[i] = a[i]
                        BY <2>1, <3>1
                  <4>2. Weights(c)[i] = Weights(a)[i]
                        BY <2>1, <3>0, <4>1 DEF Weights
                  <4>3. f[i] = f[i - 1] + Weights(a)[i]
                        BY <2>2, <4>1 DEF SumsUp
                  <4>4. QED BY <3>1, <4>1, <4>2, <4>3
            <3>2. CASE ~(i <= n)
                  <4>1. i - n \in 1..m /\ c[i] = b[i - n] /\ (i - n) - 1 = (i - 1) - n
                        BY <2>1, <3>2
                  <4>2. (i - n) % 2 = i % 2
                        <5>1. n = 2 * (n \div 2) /\ n \div 2 \in Nat
                              OBVIOUS
                        <5>2. \A k, q \in Nat : (k + 2 * q) % 2 = k % 2
                              OBVIOUS
                        <5>3. i - n \in Nat /\ i = (i - n) + 2 * (n \div 2)
                              BY <4>1, <5>1
                        <5>4. QED BY <5>1, <5>2, <5>3, Zenon
                  <4>3. Weights(c)[i] = Weights(b)[i - n]
                        BY <2>1, <3>0, <4>1, <4>2 DEF Weights
                  <4>4. g[i - n] = g[(i - 1) - n] + Weights(b)[i - n]
                        BY <2>3, <4>1, Zenon DEF SumsUp
                  <4>5. h[i] = f[n] + g[i - n]
                        BY <3>2
                  <4>6. Weights(b)[i - n] \in Int /\ g[(i - 1) - n] \in Int
                        <5>1. Weights(b)[i - n] \in Nat
                              BY <2>1, <4>1, <1>WeightsType
                        <5>2. (i - 1) - n \in 0..m
                              BY <4>1
                        <5>3. QED BY <2>5, <5>1, <5>2
                  <4>7. h[i - 1] = f[n] + g[(i - 1) - n]
                        <5>1. CASE i - 1 = n
                              <6>1. g[(i - 1) - n] = 0
                                    BY <2>3, <5>1 DEF SumsUp
                              <6>2. h[i - 1] = f[n]
                                    BY <5>1
                              <6>3. QED BY <2>5, <6>1, <6>2
                        <5>2. CASE i - 1 # n
                              BY <3>2, <5>2
                        <5>3. QED BY <5>1, <5>2
                  <4> HIDE DEF h
                  <4>8. PICK x \in Int, y \in Int, z \in Int :
                           x = f[n] /\ y = g[(i - 1) - n] /\ z = Weights(b)[i - n]
                        BY <2>5, <4>6, Zenon
                  <4>9. x + (y + z) = (x + y) + z
                        OBVIOUS
                  <4>10. QED BY <4>3, <4>4, <4>5, <4>7, <4>8, <4>9, Zenon
            <3>3. QED BY <3>1, <3>2
      <2>9. h[n + m] = f[n] + g[m]
            <3>1. CASE m = 0
                  BY <2>3, <2>5, <3>1 DEF SumsUp
            <3>2. CASE m # 0
                  BY <3>2
            <3>3. QED BY <3>1, <3>2
      <2> HIDE DEF h
      <2>10. SumsUp(h, Weights(c), Len(c))
            BY <2>1, <2>6, <2>7, <2>8 DEF SumsUp
      <2>11. Sum(c) = h[n + m]
            BY <2>1, <2>10, <1>SumIs, Zenon
      <2>12. QED BY <2>1, <2>4, <2>9, <2>11 DEF Region
<1>IsByte.
      \A x \in Nat : x <= 255 => x \in Bytes
      BY DEF Bytes
<1>SumPair.
      ASSUME NEW x \in Bytes, NEW y \in Bytes
      PROVE  Region(<<x, y>>, 2, x + 256 * y)
      <2> USE <1>SumPair
      <2> DEFINE b == <<x, y>>
                 f == [i \in 0..2 |-> IF i = 0 THEN 0 ELSE IF i = 1 THEN x ELSE x + 256 * y]
      <2>1. x \in Nat /\ y \in Nat
            BY <1>ByteRange
      <2>2. b \in Seq(Bytes) /\ Len(b) = 2 /\ b[1] = x /\ b[2] = y
            OBVIOUS
      <2>3. Weights(b)[1] = x /\ Weights(b)[2] = 256 * y
            BY <2>2 DEF Weights
      <2>4. f[0] = 0 /\ f[1] = x /\ f[2] = x + 256 * y /\ f \in [0..2 -> Int]
            BY <2>1
      <2> HIDE DEF b, f
      <2>5. SumsUp(f, Weights(b), 2)
            <3>1. \A i \in 1..2 : i = 1 \/ i = 2
                  OBVIOUS
            <3>2. f[1] = f[1 - 1] + Weights(b)[1] /\ f[2] = f[2 - 1] + Weights(b)[2]
                  BY <2>1, <2>3, <2>4
            <3>3. QED BY <2>4, <3>1, <3>2 DEF SumsUp
      <2>6. Sum(b) = f[2]
            BY <2>2, <2>5, <1>SumIs, Zenon
      <2>7. QED BY <2>2, <2>4, <2>6 DEF Region, b
<1>EvenConcat.
      ASSUME NEW a, Even(a), NEW b \in Seq(Bytes)
      PROVE  /\ Cat(a, b) \in Seq(Bytes) /\ Sum(Cat(a, b)) = Sum(a) + Sum(b)
             /\ Size(Cat(a, b)) = Size(a) + Size(b)
             /\ Even(b) => Even(Cat(a, b))
      <2> USE <1>EvenConcat
      <2>1. a \in Seq(Bytes) /\ Len(a) \in Nat /\ Len(b) \in Nat
            BY DEF Even
      <2>2. PICK h \in Nat : Len(a) = 2 * h
            BY DEF Even
      <2>3. Len(a) % 2 = 0
            BY <2>2
      <2>4. Region(a, Len(a), Sum(a)) /\ Region(b, Len(b), Sum(b))
            BY <2>1 DEF Region
      <2>5. Region(a \o b, Len(a) + Len(b), Sum(a) + Sum(b))
            BY <2>1, <2>3, <2>4, <1>SumConcat, Zenon
      <2>6. ASSUME Even(b) PROVE Even(a \o b)
            <3>1. PICK j \in Nat : Len(b) = 2 * j
                  BY <2>6 DEF Even
            <3>2. Len(a \o b) = 2 * (h + j) /\ h + j \in Nat
                  BY <2>2, <2>5, <3>1 DEF Region
            <3>3. QED BY <2>5, <3>2 DEF Even, Region
      <2>7. QED BY <2>5, <2>6 DEF Region, Size, Cat
<1>EvensConcat.
      ASSUME NEW a, NEW b, Even(a), Even(b)
      PROVE  /\ Even(Cat(a, b)) /\ Sum(Cat(a, b)) = Sum(a) + Sum(b)
             /\ Size(Cat(a, b)) = Size(a) + Size(b)
      <2>1. b \in Seq(Bytes)
            BY <1>EvensConcat, Zenon DEF Even
      <2>2. QED BY <2>1, <1>EvensConcat, <1>EvenConcat, Zenon
<1>SumSix.
      ASSUME NEW p1, NEW p2, NEW p3, NEW p4, NEW p5, NEW p6,
             Even(p1), Even(p2), Even(p3), Even(p4), Even(p5), Even(p6)
      PROVE  /\ Even(Six(p1, p2, p3, p4, p5, p6))
             /\ Sum(Six(p1, p2, p3, p4, p5, p6)) =
                   Sum(p1) + Sum(p2) + Sum(p3) + Sum(p4) + Sum(p5) + Sum(p6)
             /\ Size(Six(p1, p2, p3, p4, p5, p6)) =
                   Size(p1) + Size(p2) + Size(p3) + Size(p4) + Size(p5) + Size(p6)
      <2> USE <1>SumSix
      <2> DEFINE q2 == Cat(p1, p2)
                 q3 == Cat(q2, p3)
                 q4 == Cat(q3, p4)
                 q5 == Cat(q4, p5)
                 q6 == Cat(q5, p6)
      <2>2. Even(q2) /\ Sum(q2) = Sum(p1) + Sum(p2) /\ Size(q2) = Size(p1) + Size(p2)
            BY <1>EvensConcat
      <2> HIDE DEF q2
      <2>3. Even(q3) /\ Sum(q3) = Sum(q2) + Sum(p3) /\ Size(q3) = Size(q2) + Size(p3)
            BY <1>EvensConcat, <2>2
      <2> HIDE DEF q3
      <2>4. Even(q4) /\ Sum(q4) = Sum(q3) + Sum(p4) /\ Size(q4) = Size(q3) + Size(p4)
            BY <1>EvensConcat, <2>3
      <2> HIDE DEF q4
      <2>5. Even(q5) /\ Sum(q5) = Sum(q4) + Sum(p5) /\ Size(q5) = Size(q4) + Size(p5)
            BY <1>EvensConcat, <2>4
      <2> HIDE DEF q5
      <2>6. Even(q6) /\ Sum(q6) = Sum(q5) + Sum(p6) /\ Size(q6) = Size(q5) + Size(p6)
            BY <1>EvensConcat, <2>5
      <2> HIDE DEF q6
      <2>7. /\ Sum(q6) = Sum(p1) + Sum(p2) + Sum(p3) + Sum(p4) + Sum(p5) + Sum(p6)
            /\ Size(q6) = Size(p1) + Size(p2) + Size(p3) + Size(p4) + Size(p5) + Size(p6)
            BY <2>2, <2>3, <2>4, <2>5, <2>6
      <2>8. q6 = Six(p1, p2, p3, p4, p5, p6)
            BY DEF q2, q3, q4, q5, q6, Six
      <2>9. QED BY <2>6, <2>7, <2>8
<1>SizeBound.
      ASSUME NEW b \in Seq(Bytes)
      PROVE  Size(b) \in Nat /\ Sum(b) \in Nat /\ Sum(b) <= 65280 * Size(b)
      <2> USE <1>SizeBound
      <2>1. Len(b) \in Nat
            OBVIOUS
      <2>2. QED BY <2>1, <1>SumBound DEF Size
<1>SumZeros.
      ASSUME NEW n \in Nat
      PROVE  Region(Zeros(n), n, 0)
      <2> USE <1>SumZeros
      <2> DEFINE f == [i \in 0..n |-> 0]
      <2>0. 0 \in Bytes
            BY <1>IsByte
      <2>1. Zeros(n) \in Seq(Bytes) /\ Len(Zeros(n)) = n /\ \A i \in 1..n : Zeros(n)[i] = 0
            BY <2>0 DEF Zeros
      <2>2. \A i \in 1..n : Weights(Zeros(n))[i] = 0
            BY <2>1 DEF Weights
      <2>3. SumsUp(f, Weights(Zeros(n)), n)
            BY <2>2 DEF SumsUp
      <2>4. Sum(Zeros(n)) = f[n]
            <3> HIDE DEF f
            <3>1. QED BY <2>1, <2>3, <1>SumIs
      <2>5. QED BY <2>1, <2>4 DEF Region
\* A word in memory: the bytes are those of w, and their sum is w.
<1>SumWord.
      ASSUME NEW w \in Nat, w <= 65535
      PROVE  Region(InMemory(w), 2, w)
      <2> USE <1>SumWord
      <2>1. w % 256 \in Nat /\ w % 256 <= 255 /\ w \div 256 \in Nat /\ w \div 256 <= 255
            OBVIOUS
      <2>2. w = (w % 256) + 256 * (w \div 256)
            OBVIOUS
      <2>3. w % 256 \in Bytes /\ w \div 256 \in Bytes
            BY <2>1, <1>IsByte
      <2>4. QED BY <2>2, <2>3, <1>SumPair DEF InMemory
<1>HtonsBytes.
      ASSUME NEW x \in Nat
      PROVE  \E s \in Nat : Region(htons(x), 2, s) /\ s <= 65535
      <2> USE <1>HtonsBytes
      <2>1. /\ (x \div 256) % 256 \in Nat /\ (x \div 256) % 256 <= 255
            /\ x % 256 \in Nat /\ x % 256 <= 255
            OBVIOUS
      <2>2. (x \div 256) % 256 \in Bytes /\ x % 256 \in Bytes
            BY <2>1, <1>IsByte
      <2>3. Region(htons(x), 2, ((x \div 256) % 256) + 256 * (x % 256))
            BY <2>2, <1>SumPair DEF htons
      <2>4. QED BY <2>1, <2>3
<1>EvenArray.
      ASSUME NEW h \in Nat, NEW n \in Nat, n = 2 * h, NEW b \in [1..n -> Bytes]
      PROVE  Even(b) /\ Size(b) = n
      <2> USE <1>EvenArray
      <2>1. b \in Seq(Bytes) /\ Len(b) = n
            OBVIOUS
      <2>2. QED BY <2>1 DEF Even, Size
<1>PairIs.
      ASSUME NEW b, NEW s, Region(b, 2, s)
      PROVE  Even(b) /\ Size(b) = 2 /\ Sum(b) = s
      <2>1. 2 = 2 * 1
            OBVIOUS
      <2>2. QED BY <2>1, <1>PairIs, Zenon DEF Region, Even, Size
<1>ZeroParts.
      /\ Even(Zeros(2)) /\ Size(Zeros(2)) = 2 /\ Sum(Zeros(2)) = 0
      /\ Even(Zeros(4)) /\ Size(Zeros(4)) = 4 /\ Sum(Zeros(4)) = 0
      <2>1. 4 = 2 * 2 /\ 2 \in Nat /\ 4 \in Nat
            OBVIOUS
      <2>2. Region(Zeros(2), 2, 0) /\ Region(Zeros(4), 4, 0)
            BY <2>1, <1>SumZeros, Zenon
      <2>3. Even(Zeros(4)) /\ Size(Zeros(4)) = 4 /\ Sum(Zeros(4)) = 0
            BY <2>1, <2>2, Zenon DEF Region, Even, Size
      <2>4. QED BY <2>2, <2>3, <1>PairIs, Zenon
<1>ArrayParts.
      /\ \A b \in [1..4 -> Bytes] : Even(b) /\ Size(b) = 4
      /\ \A b \in [1..8 -> Bytes] : Even(b) /\ Size(b) = 8
      <2>1. 4 = 2 * 2 /\ 8 = 2 * 4 /\ 2 \in Nat /\ 4 \in Nat /\ 8 \in Nat
            OBVIOUS
      <2>2. QED BY <2>1, <1>EvenArray, Zenon
<1>HtonsIsEven.
      ASSUME NEW x \in Nat
      PROVE  Even(htons(x)) /\ Size(htons(x)) = 2
      BY <1>PairIs, <1>HtonsBytes, SMT
<1>WordIsEven.
      ASSUME NEW w \in Nat, w <= 65535
      PROVE  Even(InMemory(w)) /\ Size(InMemory(w)) = 2 /\ Sum(InMemory(w)) = w
      BY <1>WordIsEven, <1>PairIs, <1>SumWord, SMT
<1>PairIsEven.
      ASSUME NEW x \in Nat, NEW y \in Nat, x <= 255, y <= 255
      PROVE  Even(<<x, y>>) /\ Size(<<x, y>>) = 2
      <2>1. x \in Bytes /\ y \in Bytes
            BY <1>PairIsEven, <1>IsByte, Zenon
      <2>2. Region(<<x, y>>, 2, x + 256 * y)
            BY <2>1, <1>SumPair, Zenon
      <2>3. QED BY <2>2, <1>PairIs, Zenon
\* What is closed in this way verifies.
<1>MultipleVerifies.
      ASSUME NEW b, NEW n, NEW x, Region(b, n, x), Multiple(x)
      PROVE  Verifies(b)
      <2> USE <1>MultipleVerifies
      <2>1. PICK k \in Nat : x = 65535 * k
            BY DEF Multiple, Times
      <2>2. (65535 * k) % 65535 = 0
            OBVIOUS
      <2>3. QED BY <2>1, <2>2 DEF Verifies, Region, Word
\* The sum without the field, 0 or more, is closed by the checksum in the field.
<1>FieldCloses.
      ASSUME NEW after, NEW n, NEW rest \in Nat, NEW c, Closes(rest, c),
             Around(after, n, rest, InMemory(c))
      PROVE  Verifies(after)
      <2> USE <1>FieldCloses
      <2>1. c \in Nat /\ c <= 65535 /\ Multiple(rest + c)
            BY DEF Closes
      <2>2. Sum(InMemory(c)) = c
            BY <2>1, <1>WordIsEven, SMT
      <2>3. Region(after, Len(after), rest + c)
            BY <2>2 DEF Around, Region
      <2>4. QED BY <2>1, <2>3, <1>MultipleVerifies
\* The two rounds of folding take off multiples of 65535 and leave 16 bits.
<1>FoldIs.
      ASSUME NEW s \in Nat, Fits(s)
      PROVE  Fold(s) \in Nat /\ Fold(s) <= 65535 /\ Multiple(s - Fold(s))
      <2> USE <1>FoldIs
      <2> DEFINE x == (s % 65536) + (s \div 65536)
                 y == (x % 65536) + (x \div 65536)
      <2>1. Fold(s) = y
            BY DEF Fold, Word
      <2>2. /\ s \div 65536 \in Nat /\ s \div 65536 <= 65535
            /\ s % 65536 \in Nat /\ s % 65536 <= 65535
            BY DEF Fits
      <2>3. s = 65536 * (s \div 65536) + (s % 65536)
            OBVIOUS
      <2>4. x \in Nat /\ x <= 131070 /\ s = x + 65535 * (s \div 65536)
            BY <2>2, <2>3
      <2> HIDE DEF x
      <2>5. x \div 65536 \in Nat /\ x % 65536 \in Nat /\ x % 65536 <= 65535
            BY <2>4
      <2>6. x = 65536 * (x \div 65536) + (x % 65536)
            BY <2>4
      <2>7. y \in Nat /\ y <= 65535 /\ x = y + 65535 * (x \div 65536)
            BY <2>4, <2>5, <2>6
      <2> HIDE DEF y
      <2>8. PICK k \in Nat : k = (s \div 65536) + (x \div 65536)
            BY <2>2, <2>5
      <2>9. s - y = Times(k)
            BY <2>2, <2>4, <2>5, <2>7, <2>8 DEF Times
      <2>10. Multiple(s - y)
            BY <2>9 DEF Multiple
      <2>11. QED BY <2>1, <2>7, <2>10
<1>FoldCloses.
      ASSUME NEW s \in Nat, Fits(s), NEW c, c = 65535 - Fold(s)
      PROVE  Closes(s, c)
      <2> USE <1>FoldCloses
      <2>1. Fold(s) \in Nat /\ Fold(s) <= 65535 /\ Multiple(s - Fold(s))
            BY <1>FoldIs
      <2>2. PICK k \in Nat : s - Fold(s) = Times(k)
            BY <2>1 DEF Multiple
      <2>3. s + c = Times(k + 1) /\ k + 1 \in Nat
            BY <2>1, <2>2 DEF Times
      <2>4. c \in Nat /\ c <= 65535
            BY <2>1
      <2>5. Multiple(s + c)
            BY <2>3 DEF Multiple
      <2>6. QED BY <2>4, <2>5 DEF Closes
<1>ChecksumAlone.
      ASSUME NEW b \in Seq(Bytes), Fits(Sum(b))
      PROVE  Closes(Sum(b), checksum(b, 0))
      <2> USE <1>ChecksumAlone
      <2>1. Sum(b) \in Nat
            BY <1>SumBound
      <2>2. checksum(b, 0) = 65535 - Fold(Sum(b))
            BY <2>1 DEF checksum, Word
      <2>3. QED BY <2>1, <2>2, <1>FoldCloses
<1>IpHdrSum.
      ASSUME NEW len \in Nat, NEW id \in Nat, NEW la, Addr(la), NEW fa, Addr(fa)
      PROVE  /\ IpRest(len, id, la, fa) \in Nat
             /\ \A check : Even(check) =>
                   Around(IpHdr(len, id, 6, check, la, fa), 18, IpRest(len, id, la, fa), check)
      <2> USE <1>IpHdrSum
      <2> DEFINE p1 == <<69, 0>>
                 p2 == htons(len)
                 p3 == htons(id)
                 p4 == Zeros(2)
                 p5 == <<64, 6>>
      <2>1. Even(p1) /\ Size(p1) = 2 /\ Even(p5) /\ Size(p5) = 2
            BY <1>PairIsEven, SMT
      <2>2. Even(p2) /\ Size(p2) = 2 /\ Even(p3) /\ Size(p3) = 2 /\ Even(p4) /\ Size(p4) = 2
            BY <1>HtonsIsEven, <1>ZeroParts, Zenon
      <2>3. Even(la) /\ Size(la) = 4 /\ Even(fa) /\ Size(fa) = 4
            BY DEF Addr
      <2>4. IpRest(len, id, la, fa) = Sum(p1) + Sum(p2) + Sum(p3) + Sum(p4) + Sum(p5) + Sum(la) + Sum(fa)
            BY DEF IpRest
      <2>5. \A check : IpHdr(len, id, 6, check, la, fa) = Cat(Cat(Six(p1, p2, p3, p4, p5, check), la), fa)
            BY DEF IpHdr, Six, Cat
      <2> HIDE DEF p1, p2, p3, p4, p5
      <2>6. ASSUME NEW b, Even(b) PROVE Sum(b) \in Nat /\ b \in Seq(Bytes) /\ Size(b) \in Nat
            BY <2>6, <1>SizeBound, SMT DEF Even
      <2>7. /\ Sum(p1) \in Nat /\ Sum(p2) \in Nat /\ Sum(p3) \in Nat /\ Sum(p4) \in Nat
            /\ Sum(p5) \in Nat /\ Sum(la) \in Nat /\ Sum(fa) \in Nat
            BY <2>1, <2>2, <2>3, <2>6
      <2>8. ASSUME NEW check, Even(check)
            PROVE  Around(IpHdr(len, id, 6, check, la, fa), 18, IpRest(len, id, la, fa), check)
            <3> DEFINE six == Six(p1, p2, p3, p4, p5, check)
                       hdr == Cat(Cat(six, la), fa)
            <3>1. /\ Even(six)
                  /\ Sum(six) = Sum(p1) + Sum(p2) + Sum(p3) + Sum(p4) + Sum(p5) + Sum(check)
                  /\ Size(six) = Size(p1) + Size(p2) + Size(p3) + Size(p4) + Size(p5) + Size(check)
                  BY <2>1, <2>2, <2>8, <1>SumSix
            <3>2. IpHdr(len, id, 6, check, la, fa) = hdr
                  BY <2>5
            <3> HIDE DEF six
            <3>3. /\ Even(Cat(six, la)) /\ Sum(Cat(six, la)) = Sum(six) + Sum(la)
                  /\ Size(Cat(six, la)) = Size(six) + Size(la)
                  BY <2>3, <2>6, <3>1, <1>EvenConcat
            <3>4. /\ hdr \in Seq(Bytes) /\ Sum(hdr) = Sum(Cat(six, la)) + Sum(fa)
                  /\ Size(hdr) = Size(Cat(six, la)) + Size(fa)
                  BY <2>3, <2>6, <3>3, <1>EvenConcat
            <3> HIDE DEF hdr
            <3>5. Size(check) \in Nat /\ Sum(check) \in Nat
                  BY <2>6, <2>8
            <3>6. Size(hdr) = 18 + Size(check)
                  <4>1. Size(six) = 10 + Size(check)
                        BY <2>1, <2>2, <3>1, <3>5
                  <4>2. QED BY <2>3, <3>3, <3>4, <3>5, <4>1
            <3>7. Sum(hdr) = IpRest(len, id, la, fa) + Sum(check)
                  <4>1. PICK a \in Nat, b \in Nat, c \in Nat, d \in Nat, e \in Nat :
                           a = Sum(p1) /\ b = Sum(p2) /\ c = Sum(p3) /\ d = Sum(p4) /\ e = Sum(p5)
                        BY <2>7, Zenon
                  <4>2. PICK f \in Nat, g \in Nat, k \in Nat :
                           f = Sum(la) /\ g = Sum(fa) /\ k = Sum(check)
                        BY <2>7, <3>5, Zenon
                  <4>3. ((a + b + c + d + e + k) + f) + g = (a + b + c + d + e + f + g) + k
                        OBVIOUS
                  <4>4. QED BY <2>4, <3>1, <3>3, <3>4, <4>1, <4>2, <4>3, Zenon
            <3>8. QED BY <3>2, <3>4, <3>6, <3>7 DEF Around
      <2>9. QED BY <2>4, <2>7, <2>8
\* The checksum of the IP header.
<1>IpCheckVerifies.
      ASSUME NEW len \in Nat, NEW id \in Nat, NEW la, Addr(la), NEW fa, Addr(fa)
      PROVE  Verifies(IpHdr(len, id, 6, InMemory(IpCheck(len, id, 6, la, fa)), la, fa))
      <2> USE <1>IpCheckVerifies
      <2>1. PICK rest : rest = IpRest(len, id, la, fa)
            OBVIOUS
      <2>2. /\ rest \in Nat
            /\ \A check : Even(check) => Around(IpHdr(len, id, 6, check, la, fa), 18, rest, check)
            BY <2>1, <1>IpHdrSum
      <2>3. PICK before : before = IpHdr(len, id, 6, Zeros(2), la, fa)
            OBVIOUS
      <2>4. Even(Zeros(2)) /\ Size(Zeros(2)) = 2 /\ Sum(Zeros(2)) = 0
            BY <1>ZeroParts, Zenon
      <2>5. before \in Seq(Bytes) /\ Size(before) = 20 /\ Sum(before) = rest
            <3>1. Around(before, 18, rest, Zeros(2))
                  BY <2>2, <2>3, <2>4
            <3>2. QED BY <2>2, <2>4, <3>1 DEF Around
      <2>6. Fits(Sum(before))
            BY <2>5, <1>SizeBound, SMT DEF Fits
      <2>7. PICK c : c = IpCheck(len, id, 6, la, fa)
            OBVIOUS
      <2>8. c = checksum(before, 0)
            BY <2>3, <2>7 DEF IpCheck
      <2>9. Closes(rest, c)
            BY <2>5, <2>6, <2>8, <1>ChecksumAlone
      <2>10. Even(InMemory(c))
            BY <2>9, <1>WordIsEven, SMT DEF Closes
      <2>11. Around(IpHdr(len, id, 6, InMemory(c), la, fa), 18, rest, InMemory(c))
            BY <2>2, <2>10
      <2>12. QED BY <2>2, <2>7, <2>9, <2>11, <1>FieldCloses
\* A checksum closes the sum it was taken of to a multiple of 65535.
<1>ChecksumCloses.
      ASSUME NEW b \in Seq(Bytes), NEW start \in Nat, Fits(start + Sum(b))
      PROVE  Closes(start + Sum(b), checksum(b, start))
      <2> USE <1>ChecksumCloses
      <2>1. Sum(b) \in Nat
            BY <1>SumBound
      <2>2. PICK s \in Nat : s = start + Sum(b)
            BY <2>1
      <2>3. checksum(b, start) = 65535 - Fold(s)
            BY <2>2 DEF checksum, Word
      <2>4. Fits(s)
            BY <2>2
      <2>5. Closes(s, checksum(b, start))
            BY <2>3, <2>4, <1>FoldCloses
      <2>6. QED BY <2>2, <2>5
<1>TcpHdrSum.
      ASSUME NEW ports, Addr(ports), NEW seqs, Even(seqs), Size(seqs) = 8,
             NEW flags \in Nat, flags <= 255
      PROVE  /\ TcpRest(ports, seqs, flags) \in Nat
             /\ \A check : Even(check) =>
                   /\ Around(TcpHdr(ports, seqs, flags, check), 18, TcpRest(ports, seqs, flags), check)
                   /\ Even(TcpHdr(ports, seqs, flags, check))
      <2> USE <1>TcpHdrSum
      <2> DEFINE p3 == <<80, flags>>
                 p4 == htons(4096)
                 p6 == Zeros(2)
      <2>1. Even(p3) /\ Size(p3) = 2 /\ Even(p4) /\ Size(p4) = 2 /\ Even(p6) /\ Size(p6) = 2
            BY <1>PairIsEven, <1>HtonsIsEven, <1>ZeroParts, SMT
      <2>2. Even(ports) /\ Size(ports) = 4
            BY DEF Addr
      <2>3. TcpRest(ports, seqs, flags) = Sum(ports) + Sum(seqs) + Sum(p3) + Sum(p4) + Sum(p6)
            BY SMT DEF TcpRest
      <2>4. \A check : TcpHdr(ports, seqs, flags, check) = Six(ports, seqs, p3, p4, check, p6)
            BY SMT DEF TcpHdr, Six, Cat
      <2> HIDE DEF p3, p4, p6
      <2>5. ASSUME NEW b, Even(b) PROVE Sum(b) \in Nat /\ b \in Seq(Bytes) /\ Size(b) \in Nat
            BY <2>5, <1>SizeBound, SMT DEF Even
      <2>6. /\ Sum(ports) \in Nat /\ Sum(seqs) \in Nat /\ Sum(p3) \in Nat /\ Sum(p4) \in Nat
            /\ Sum(p6) \in Nat
            BY <2>1, <2>2, <2>5
      <2>7. ASSUME NEW check, Even(check)
            PROVE  /\ Around(TcpHdr(ports, seqs, flags, check), 18, TcpRest(ports, seqs, flags), check)
                   /\ Even(TcpHdr(ports, seqs, flags, check))
            <3> DEFINE hdr == Six(ports, seqs, p3, p4, check, p6)
            <3>1. /\ Even(hdr)
                  /\ Sum(hdr) = Sum(ports) + Sum(seqs) + Sum(p3) + Sum(p4) + Sum(check) + Sum(p6)
                  /\ Size(hdr) = Size(ports) + Size(seqs) + Size(p3) + Size(p4) + Size(check) + Size(p6)
                  BY <2>1, <2>2, <2>7, <1>SumSix
            <3>2. TcpHdr(ports, seqs, flags, check) = hdr
                  BY <2>4
            <3> HIDE DEF hdr
            <3>3. Size(check) \in Nat /\ Sum(check) \in Nat /\ hdr \in Seq(Bytes)
                  BY <2>5, <2>7, <3>1
            <3>4. Size(hdr) = 18 + Size(check)
                  BY <2>1, <2>2, <3>1, <3>3
            <3>5. Sum(hdr) = TcpRest(ports, seqs, flags) + Sum(check)
                  BY <2>3, <2>6, <3>1, <3>3
            <3>6. QED BY <3>1, <3>2, <3>3, <3>4, <3>5 DEF Around
      <2>8. QED BY <2>3, <2>6, <2>7
<1>PseudoHdrSum.
      ASSUME NEW la, NEW fa, NEW plen, NEW h, NEW buf, Segment(la, fa, plen, h, buf)
      PROVE  /\ PseudoSum(la, fa, plen) \in Nat
             /\ Taken(la, fa, plen, h) \in Seq(Bytes)
             /\ Size(Taken(la, fa, plen, h)) = 20 + Size(h)
             /\ Sum(Taken(la, fa, plen, h)) = PseudoSum(la, fa, plen) + Sum(h)
             /\ Summed(la, fa, plen, h, buf) \in Seq(Bytes)
             /\ Sum(Summed(la, fa, plen, h, buf)) = PseudoSum(la, fa, plen) + Sum(h) + Sum(buf)
      <2>26. Addr(la) /\ Addr(fa) /\ Even(plen) /\ Size(plen) = 2 /\ Even(h) /\ buf \in Seq(Bytes)
            BY <1>PseudoHdrSum, Zenon DEF Segment
      <2> USE <2>26
      <2> DEFINE p1 == <<0, 0>>
                 p2 == Zeros(2)
                 p3 == Zeros(4)
                 p4 == <<0, 6>>
                 six == Six(p1, p2, p3, p4, plen, la)
                 hdr == Cat(six, fa)
                 taken == Cat(hdr, h)
                 four == Cat(Cat(Cat(la, fa), p4), plen)
                 summed == Cat(Cat(four, h), buf)
      <2>1. Even(p1) /\ Size(p1) = 2 /\ Even(p4) /\ Size(p4) = 2
            BY <1>PairIsEven, SMT
      <2>2. /\ Even(p2) /\ Size(p2) = 2 /\ Sum(p2) = 0
            /\ Even(p3) /\ Size(p3) = 4 /\ Sum(p3) = 0
            BY <1>ZeroParts, Zenon
      <2>3. Sum(p1) = 0
            <3>1. 0 \in Bytes /\ 0 + 256 * 0 = 0
                  BY <1>IsByte
            <3>2. QED BY <3>1, <1>SumPair, SMT DEF Region
      <2>4. Even(la) /\ Size(la) = 4 /\ Even(fa) /\ Size(fa) = 4
            BY DEF Addr
      <2>5. Taken(la, fa, plen, h) = taken
            BY SMT DEF Taken, PseudoHdr, Six, Cat
      <2>6. Summed(la, fa, plen, h, buf) = summed
            BY SMT DEF Summed, Cat
      <2>25. PseudoSum(la, fa, plen) = Sum(la) + Sum(fa) + Sum(p4) + Sum(plen)
            BY SMT DEF PseudoSum
      <2> HIDE DEF p1, p2, p3
      <2>7. ASSUME NEW b, Even(b) PROVE Sum(b) \in Nat /\ b \in Seq(Bytes) /\ Size(b) \in Nat
            BY <2>7, <1>SizeBound, SMT DEF Even
      <2>8. Sum(buf) \in Nat
            BY <1>SizeBound, SMT
      <2>10. PICK x : x = p4
            BY Zenon
      <2>11. Even(x) /\ Size(x) = 2
            BY <2>1, <2>10
      <2>12. /\ Even(Six(p1, p2, p3, x, plen, la))
             /\ Sum(Six(p1, p2, p3, x, plen, la)) =
                   Sum(p1) + Sum(p2) + Sum(p3) + Sum(x) + Sum(plen) + Sum(la)
             /\ Size(Six(p1, p2, p3, x, plen, la)) =
                   Size(p1) + Size(p2) + Size(p3) + Size(x) + Size(plen) + Size(la)
             <3>1. Even(p1) /\ Even(p2) /\ Even(p3) /\ Even(x) /\ Even(plen) /\ Even(la)
                   BY <2>1, <2>2, <2>4, <2>11, Zenon
             <3>2. QED BY <3>1, <1>SumSix
      <2>13. /\ Even(six) /\ Sum(six) = Sum(x) + Sum(plen) + Sum(la) /\ Size(six) = 16
             <3>1. six = Six(p1, p2, p3, x, plen, la)
                   BY <2>10
             <3>2. Sum(x) \in Nat /\ Sum(plen) \in Nat /\ Sum(la) \in Nat
                   BY <2>4, <2>7, <2>11
             <3> HIDE DEF six
             <3>3. QED BY <2>1, <2>2, <2>3, <2>4, <2>11, <2>12, <3>1, <3>2
      <2> HIDE DEF six
      <2>14. Even(hdr) /\ Sum(hdr) = Sum(six) + Sum(fa) /\ Size(hdr) = 20
             BY <2>4, <1>EvensConcat, <2>13
      <2> HIDE DEF hdr
      <2>15. Even(taken) /\ Sum(taken) = Sum(hdr) + Sum(h) /\ Size(taken) = 20 + Size(h)
             BY <1>EvensConcat, <2>14
      <2> HIDE DEF taken
      <2>16. Even(Cat(la, fa)) /\ Sum(Cat(la, fa)) = Sum(la) + Sum(fa)
             BY <2>4, <1>EvensConcat
      <2>17. Even(Cat(Cat(la, fa), x)) /\ Sum(Cat(Cat(la, fa), x)) = Sum(Cat(la, fa)) + Sum(x)
             BY <1>EvensConcat, <2>11, <2>16
      <2>18. Even(four) /\ Sum(four) = Sum(Cat(Cat(la, fa), x)) + Sum(plen)
             BY <1>EvensConcat, <2>10, <2>17
      <2> HIDE DEF four
      <2>19. Even(Cat(four, h)) /\ Sum(Cat(four, h)) = Sum(four) + Sum(h)
             BY <1>EvensConcat, <2>18
      <2>20. summed \in Seq(Bytes) /\ Sum(summed) = Sum(Cat(four, h)) + Sum(buf)
             BY <2>19, <1>EvenConcat
      <2> HIDE DEF summed
      <2>21. Sum(la) \in Nat /\ Sum(fa) \in Nat /\ Sum(x) \in Nat /\ Sum(plen) \in Nat /\ Sum(h) \in Nat
             BY <2>4, <2>7, <2>11
      <2> DEFINE pseudo == Sum(la) + Sum(fa) + Sum(x) + Sum(plen)
      <2>22. pseudo \in Nat /\ Sum(taken) = pseudo + Sum(h) /\ taken \in Seq(Bytes)
             <3>1. taken \in Seq(Bytes)
                   BY <2>7, <2>15
             <3>2. Sum(taken) = ((Sum(x) + Sum(plen) + Sum(la)) + Sum(fa)) + Sum(h)
                   BY <2>13, <2>14, <2>15, Zenon
             <3>3. PICK a \in Nat, b \in Nat, c \in Nat, d \in Nat, e \in Nat :
                      a = Sum(la) /\ b = Sum(fa) /\ c = Sum(x) /\ d = Sum(plen) /\ e = Sum(h)
                   BY <2>21, Zenon
             <3>4. a + b + c + d \in Nat /\ ((c + d + a) + b) + e = (a + b + c + d) + e
                   OBVIOUS
             <3>5. QED BY <3>1, <3>2, <3>3, <3>4, Zenon
      <2>23. Sum(summed) = pseudo + Sum(h) + Sum(buf)
             BY <2>8, <2>16, <2>17, <2>18, <2>19, <2>20, <2>21, Zenon
      <2>24. QED BY <2>5, <2>6, <2>10, <2>15, <2>20, <2>22, <2>23, <2>25, Zenon
\* The checksum of the TCP segment.
<1>TcpCheckVerifies.
      ASSUME NEW ports, Addr(ports), NEW seqs, Even(seqs), Size(seqs) = 8,
             NEW flags \in Nat, flags <= 255,
             NEW la, Addr(la), NEW fa, Addr(fa),
             NEW buf \in Seq(Bytes), Short(buf)
      PROVE  Verifies(la \o fa \o <<0, 6>> \o htons(Len(buf) + 20)
                      \o TcpHdr(ports, seqs, flags,
                                InMemory(TcpCheck(ports, seqs, flags, la, fa, buf))) \o buf)
      <2> USE <1>TcpCheckVerifies
      <2>1. PICK plen : plen = htons(Len(buf) + 20)
            OBVIOUS
      <2>2. Even(plen) /\ Size(plen) = 2
            <3>1. Len(buf) + 20 \in Nat
                  OBVIOUS
            <3>2. QED BY <2>1, <3>1, <1>HtonsIsEven, Zenon
      <2>3. PICK tcp : tcp = TcpRest(ports, seqs, flags)
            OBVIOUS
      <2>4. /\ tcp \in Nat
            /\ \A check : Even(check) =>
                  /\ Around(TcpHdr(ports, seqs, flags, check), 18, tcp, check)
                  /\ Even(TcpHdr(ports, seqs, flags, check))
            BY <2>3, <1>TcpHdrSum
      <2>5. PICK pseudo : pseudo = PseudoSum(la, fa, plen)
            OBVIOUS
      <2> DEFINE T(h) == Taken(la, fa, plen, h)
                 S(h) == Summed(la, fa, plen, h, buf)
      <2>6. ASSUME NEW h, Even(h)
            PROVE  /\ pseudo \in Nat
                   /\ T(h) \in Seq(Bytes) /\ Size(T(h)) = 20 + Size(h)
                   /\ Sum(T(h)) = pseudo + Sum(h)
                   /\ S(h) \in Seq(Bytes) /\ Sum(S(h)) = pseudo + Sum(h) + Sum(buf)
            <3>1. /\ PseudoSum(la, fa, plen) \in Nat
                  /\ Taken(la, fa, plen, h) \in Seq(Bytes)
                  /\ Size(Taken(la, fa, plen, h)) = 20 + Size(h)
                  /\ Sum(Taken(la, fa, plen, h)) = PseudoSum(la, fa, plen) + Sum(h)
                  /\ Summed(la, fa, plen, h, buf) \in Seq(Bytes)
                  /\ Sum(Summed(la, fa, plen, h, buf)) = PseudoSum(la, fa, plen) + Sum(h) + Sum(buf)
                  <4>1. Segment(la, fa, plen, h, buf)
                        BY <2>2, <2>6, Zenon DEF Segment
                  <4>2. QED BY <4>1, <1>PseudoHdrSum, SMT
            <3>2. QED BY <2>5, <3>1, Zenon
      <2>7. PICK before : before = TcpHdr(ports, seqs, flags, Zeros(2))
            OBVIOUS
      <2>8. Even(Zeros(2)) /\ Size(Zeros(2)) = 2 /\ Sum(Zeros(2)) = 0
            BY <1>ZeroParts, Zenon
      <2>9. Even(before) /\ Size(before) = 20 /\ Sum(before) = tcp
            <3>1. Even(before) /\ Around(before, 18, tcp, Zeros(2))
                  BY <2>4, <2>7, <2>8
            <3>2. QED BY <2>4, <2>8, <3>1 DEF Around
      <2>10. PICK c : c = TcpCheck(ports, seqs, flags, la, fa, buf)
            OBVIOUS
      <2>11. c = checksum(T(before), Sum(buf))
            BY <2>1, <2>7, <2>10, Zenon DEF TcpCheck, Taken
      <2> HIDE DEF T, S
      <2>12. /\ pseudo \in Nat /\ T(before) \in Seq(Bytes) /\ Size(T(before)) = 40
             /\ Sum(T(before)) = pseudo + tcp
             BY <2>6, <2>9
      <2>13. PICK rest \in Nat : rest = Sum(buf) + Sum(T(before))
             BY <2>12, <1>SizeBound, SMT
      <2>14. Fits(rest)
             <3>1. Sum(buf) \in Nat /\ Sum(buf) <= 65280 * Size(buf) /\ Size(buf) \in Nat
                   BY <1>SizeBound, SMT
             <3>2. Sum(T(before)) \in Nat /\ Sum(T(before)) <= 65280 * 40
                   BY <2>12, <1>SizeBound, SMT
             <3>3. QED BY <2>13, <3>1, <3>2, SMT DEF Fits, Short
      <2>15. Closes(rest, c)
             <3>1. Sum(buf) \in Nat
                   BY <1>SizeBound, SMT
             <3>2. QED BY <2>11, <2>12, <2>13, <2>14, <3>1, <1>ChecksumCloses
      <2>16. Even(InMemory(c))
             BY <2>15, <1>WordIsEven, SMT DEF Closes
      <2>17. PICK after : after = TcpHdr(ports, seqs, flags, InMemory(c))
             OBVIOUS
      <2>18. Even(after) /\ Around(after, 18, tcp, InMemory(c))
             BY <2>4, <2>16, <2>17
      <2>19. S(after) \in Seq(Bytes) /\ Sum(S(after)) = pseudo + Sum(after) + Sum(buf)
             BY <2>6, <2>18
      <2>20. Sum(after) = tcp + Sum(InMemory(c)) /\ Sum(InMemory(c)) \in Nat
             <3>1. Sum(InMemory(c)) \in Nat
                   BY <2>16, <1>SizeBound, SMT DEF Even
             <3>2. QED BY <2>18, <3>1 DEF Around
      <2>21. Sum(S(after)) = rest + Sum(InMemory(c))
             <3>1. Sum(buf) \in Nat
                   BY <1>SizeBound, SMT
             <3>2. PICK m \in Nat, p \in Nat, t \in Nat, k \in Nat :
                      m = Sum(buf) /\ p = pseudo /\ t = tcp /\ k = Sum(InMemory(c))
                   BY <2>4, <2>12, <2>20, <3>1, Zenon
             <3>3. p + (t + k) + m = (m + (p + t)) + k
                   OBVIOUS
             <3>4. QED BY <2>12, <2>13, <2>19, <2>20, <3>2, <3>3, Zenon
      <2>22. PICK n : Around(S(after), n, rest, InMemory(c))
             <3>1. Size(S(after)) \in Nat /\ Size(InMemory(c)) \in Nat
                   BY <2>16, <2>19, <1>SizeBound, SMT DEF Even
             <3>2. PICK n : n = Size(S(after)) - Size(InMemory(c))
                   OBVIOUS
             <3>3. Size(S(after)) = n + Size(InMemory(c))
                   BY <3>1, <3>2
             <3>4. QED BY <2>19, <2>21, <3>3 DEF Around
      <2>23. Verifies(S(after))
             BY <2>15, <2>22, <1>FieldCloses
      <2>24. S(after) = la \o fa \o <<0, 6>> \o htons(Len(buf) + 20)
                          \o TcpHdr(ports, seqs, flags,
                                    InMemory(TcpCheck(ports, seqs, flags, la, fa, buf))) \o buf
             BY <2>1, <2>10, <2>17, Zenon DEF S, Summed
      <2>25. QED BY <2>23, <2>24, Zenon
<1>SentVerifies.
      ASSUME TxTypes
      PROVE  ChecksumsVerify
      <2> USE <1>SentVerifies
      <2>1. ASSUME NEW buf \in Bufs PROVE buf \in Seq(Bytes) /\ Short(buf)
            <3>1. CASE buf \in Payloads
                  BY <3>1, IpAssumption DEF Short, Size, Word
            <3>2. CASE buf = <<>>
                  <4>1. Len(buf) = 0 /\ buf \in Seq(Bytes)
                        BY <3>2
                  <4>2. QED BY <4>1 DEF Short, Size
            <3>3. QED BY <3>1, <3>2 DEF Bufs
      <2>2. Addr(LAddr) /\ Addr(FAddr) /\ Addr(Ports) /\ Even(Seqs) /\ Size(Seqs) = 8
            <3>1. /\ LAddr \in [1..4 -> Bytes] /\ FAddr \in [1..4 -> Bytes]
                  /\ Ports \in [1..4 -> Bytes] /\ Seqs \in [1..8 -> Bytes]
                  BY IpAssumption, Zenon
            <3>2. /\ Even(LAddr) /\ Size(LAddr) = 4 /\ Even(FAddr) /\ Size(FAddr) = 4
                  /\ Even(Ports) /\ Size(Ports) = 4 /\ Even(Seqs) /\ Size(Seqs) = 8
                  <4>1. /\ \A b \in [1..4 -> Bytes] : Even(b) /\ Size(b) = 4
                        /\ \A b \in [1..8 -> Bytes] : Even(b) /\ Size(b) = 8
                        BY <1>ArrayParts, Zenon
                  <4>2. QED BY <3>1, <4>1, Zenon
            <3>3. QED BY <3>2 DEF Addr
      <2>3. ACK \in Nat /\ ACK <= 255
            BY DEF ACK
      <2>4. SUFFICES ASSUME NEW i \in DOMAIN sent
                     PROVE  LET p == sent[i]
                            IN /\ Verifies(IpHdr(Len(p.buf) + 40, p.id, 6, InMemory(p.check), LAddr, FAddr))
                               /\ Verifies(LAddr \o FAddr \o <<0, 6>> \o htons(Len(p.buf) + 20)
                                     \o TcpHdr(Ports, Seqs, ACK, InMemory(p.tcpCheck)) \o p.buf)
            BY Zenon DEF ChecksumsVerify
      <2>5. PICK buf \in Bufs, id \in Ids, nth \in Nat : sent[i] = Pkt(buf, id, nth)
            <3> DEFINE Made == {Pkt(buf, id, nth) : buf \in Bufs, id \in Ids, nth \in Nat}
            <3>1. sent \in Seq(Made)
                  BY DEF TxTypes
            <3> HIDE DEF Made
            <3>2. sent[i] \in Made
                  BY <3>1
            <3>3. QED BY <3>2 DEF Made
      <2>6. /\ sent[i].buf = buf /\ sent[i].id = id
            /\ sent[i].check = IpCheck(Len(buf) + 40, id, 6, LAddr, FAddr)
            /\ sent[i].tcpCheck = TcpCheck(Ports, Seqs, ACK, LAddr, FAddr, buf)
            <3>1. /\ Pkt(buf, id, nth).buf = buf /\ Pkt(buf, id, nth).id = id
                  /\ Pkt(buf, id, nth).check = IpCheck(Len(buf) + 40, id, 6, LAddr, FAddr)
                  /\ Pkt(buf, id, nth).tcpCheck = TcpCheck(Ports, Seqs, ACK, LAddr, FAddr, buf)
                  BY Zenon DEF Pkt
            <3>2. QED BY <2>5, <3>1, Zenon
      <2>7. id \in Nat /\ Len(buf) + 40 \in Nat
            BY <2>1, IdConstants
      <2>8. Verifies(IpHdr(Len(buf) + 40, id, 6, InMemory(IpCheck(Len(buf) + 40, id, 6, LAddr, FAddr)),
                           LAddr, FAddr))
            BY <2>2, <2>7, <1>IpCheckVerifies, Zenon
      <2>9. Verifies(LAddr \o FAddr \o <<0, 6>> \o htons(Len(buf) + 20)
                     \o TcpHdr(Ports, Seqs, ACK,
                               InMemory(TcpCheck(Ports, Seqs, ACK, LAddr, FAddr, buf))) \o buf)
            BY <2>1, <2>2, <2>3, <1>TcpCheckVerifies, Zenon
      <2>10. QED BY <2>6, <2>8, <2>9, Zenon
<1>1. TxInv => ChecksumsVerify
      BY <1>SentVerifies DEF TxInv
<1>2. QED BY <1>1, TxInvariance, PTL

-----------------------------------------------------------------------------
(* Lists.                                                                  *)

\* Facts on sequences and numbers, apart so that each is proved once.
LEMMA LenIsNat ==
    ASSUME NEW S, NEW s \in Seq(S)
    PROVE  Len(s) \in Nat
OBVIOUS

\* Offsets count units of eight bytes.
LEMMA Eights ==
    /\ \A a, b \in Nat : 8 * a = 8 * b => a = b
    /\ \A a, b, l \in Nat : a <= b /\ l >= 1 => 8 * a # 8 * b + l
OBVIOUS

\* Order on numbers.
LEMMA Numbers ==
    /\ \A a, b \in Nat : (a < b => a <= b) /\ (~(a <= b) => a > b)
    /\ \A a \in Nat : (8 * a = 0 => a = 0) /\ ~(a < a) /\ a <= a
OBVIOUS

\* A part of a sequence.
LEMMA Part ==
    ASSUME NEW S, NEW g \in Seq(S), NEW m \in Nat, NEW n \in Nat, m >= 1, m <= n + 1, n <= Len(g),
           NEW a, a = SubSeq(g, m, n)
    PROVE  /\ a \in Seq(S) /\ Len(a) = (n + 1) - m
           /\ \A j \in 1..((n + 1) - m) : a[j] = g[(m + j) - 1]
<1>1. m \in Int /\ n \in Int /\ \A i \in m..n : g[i] \in S
      OBVIOUS
<1>2. /\ a \in Seq(S) /\ Len(a) = IF m <= n THEN n - m + 1 ELSE 0
      /\ \A j \in 1..(n - m + 1) : a[j] = g[m + j - 1]
      BY <1>1
<1>3. Len(a) = (n + 1) - m
      BY <1>2
<1>4. \A j \in 1..((n + 1) - m) : j \in 1..(n - m + 1) /\ m + j - 1 = (m + j) - 1
      OBVIOUS
<1>5. QED BY <1>2, <1>3, <1>4, Zenon

Joins(S, a, b, c) ==
    /\ c \in Seq(S) /\ Len(c) = Len(a) + Len(b)
    /\ \A i \in 1..Len(a) : c[i] = a[i]
    /\ \A i \in 1..Len(b) : c[Len(a) + i] = b[i]

\* Two sequences, one behind the other.
LEMMA Joined ==
    ASSUME NEW S, NEW a \in Seq(S), NEW b \in Seq(S), NEW c, c = Cat(a, b)
    PROVE  Joins(S, a, b, c)
<1>1. /\ c \in Seq(S) /\ Len(c) = Len(a) + Len(b)
      /\ \A i \in 1..(Len(a) + Len(b)) : c[i] = IF i <= Len(a) THEN a[i] ELSE b[i - Len(a)]
      BY DEF Cat
<1>2. PICK m \in Nat, n \in Nat : m = Len(a) /\ n = Len(b)
      OBVIOUS
<1>3. \A i \in 1..n : m + i \in 1..(m + n) /\ ~(m + i <= m) /\ (m + i) - m = i
      BY <1>2
<1>4. \A i \in 1..m : i \in 1..(m + n) /\ i <= m
      BY <1>2
<1>5. QED BY <1>1, <1>2, <1>3, <1>4, Zenon DEF Joins

Without(g, i) == SubSeq(g, 1, i - 1) \o SubSeq(g, i + 1, Len(g))

With(x, n, f) == SubSeq(x, 1, n) \o <<f>> \o SubSeq(x, n + 1, Len(x))

\* h is g without its i-th element.
Out(S, h, g, i) ==
    /\ h \in Seq(S) /\ Len(h) = Len(g) - 1
    /\ \A j \in 1..(i - 1) : h[j] = g[j]
    /\ \A j \in i..(Len(g) - 1) : h[j] = g[j + 1]

\* s is the sequence x with f put in behind the first n.
Put(s, x, f, n) ==
    /\ n \in 0..Len(x) /\ Len(s) = Len(x) + 1
    /\ \A i \in 1..n : s[i] = x[i]
    /\ s[n + 1] = f
    /\ \A i \in (n + 1)..Len(x) : s[i + 1] = x[i]

\* Every element of s is f or one of x, and the reverse.
Mix(s, x, f) ==
    /\ s # <<>>
    /\ \A j \in DOMAIN s : s[j] = f \/ \E i \in DOMAIN x : s[j] = x[i]
    /\ \E j \in DOMAIN s : s[j] = f
    /\ \A i \in DOMAIN x : \E j \in DOMAIN s : s[j] = x[i]

\* A list into which defrag put f holds its elements and f.
LEMMA PutElements ==
    ASSUME NEW S, NEW x \in Seq(S), NEW s \in Seq(S), NEW f, NEW n, Put(s, x, f, n)
    PROVE  Mix(s, x, f)
<1>1. DOMAIN x = 1..Len(x) /\ DOMAIN s = 1..(Len(x) + 1) /\ n \in 0..Len(x) /\ Len(x) \in Nat
      BY DEF Put
<1>2. s[n + 1] = f /\ n + 1 \in DOMAIN s /\ s # <<>>
      BY <1>1 DEF Put
<1>3. ASSUME NEW j \in DOMAIN s, j # n + 1 PROVE \E i \in DOMAIN x : s[j] = x[i]
      <2>1. CASE j <= n
            <3>1. j \in 1..n /\ j \in DOMAIN x
                  BY <1>1, <2>1
            <3>2. QED BY <3>1, Zenon DEF Put
      <2>2. CASE ~(j <= n)
            <3>1. j - 1 \in (n + 1)..Len(x) /\ (j - 1) + 1 = j /\ j - 1 \in DOMAIN x
                  BY <1>1, <1>3, <2>2
            <3>2. s[j] = x[j - 1]
                  BY <3>1, Zenon DEF Put
            <3>3. QED BY <3>1, <3>2, Zenon
      <2>3. QED BY <2>1, <2>2, Zenon
<1>4. ASSUME NEW i \in DOMAIN x PROVE \E j \in DOMAIN s : s[j] = x[i]
      <2>1. CASE i <= n
            <3>1. i \in 1..n /\ i \in DOMAIN s
                  BY <1>1, <2>1
            <3>2. QED BY <3>1, Zenon DEF Put
      <2>2. CASE ~(i <= n)
            <3>1. i \in (n + 1)..Len(x) /\ i + 1 \in DOMAIN s
                  BY <1>1, <2>2
            <3>2. QED BY <3>1, Zenon DEF Put
      <2>3. QED BY <2>1, <2>2, Zenon
<1>5. QED BY <1>2, <1>3, <1>4, Zenon DEF Mix

-----------------------------------------------------------------------------
(* Fragments of a datagram, and steps 3 and 4 of defrag.                   *)

Frags == {Frag(p) : p \in Packets}

\* f is the i-th fragment of d.
Nth(f, d, i) == i \in DOMAIN d.frags /\ f = Frag(<<d, i>>)

\* What the assumption says of a datagram and its fragments.
LEMMA FragsAre ==
    ASSUME NEW d \in Datagrams
    PROVE  /\ Len(d.frags) \in Nat /\ Len(d.frags) >= 1 /\ DOMAIN d.frags = 1..Len(d.frags)
           /\ \A i \in DOMAIN d.frags :
                 d.frags[i].off \in Nat /\ d.frags[i].len \in Nat /\ d.frags[i].len >= 1
                 /\ d.frags[i].mf \in BOOLEAN
           /\ d.key \in Nat
<1> DEFINE F == [off : Nat, mf : BOOLEAN, len : Nat \ {0}]
<1>1. d \in [version : Nat, short : BOOLEAN, protocol : STRING, key : Nat, frags : Seq(F)]
      BY DatagramAssumption, Zenon
<1>2. d.key \in Nat /\ d.frags \in Seq(F) /\ d.frags # <<>>
      <2> HIDE DEF F
      <2>1. QED BY <1>1, DatagramAssumption, Zenon
<1>3. Len(d.frags) \in Nat /\ Len(d.frags) >= 1 /\ DOMAIN d.frags = 1..Len(d.frags)
      BY <1>2
<1>4. ASSUME NEW i \in DOMAIN d.frags
      PROVE  /\ d.frags[i].off \in Nat /\ d.frags[i].len \in Nat /\ d.frags[i].len >= 1
             /\ d.frags[i].mf \in BOOLEAN
      <2>1. d.frags[i] \in F
            <3> HIDE DEF F
            <3>1. QED BY <1>2
      <2>2. QED BY <2>1
<1>5. QED BY <1>2, <1>3, <1>4, Zenon

\* Where a fragment ends is a number.
LEMMA EndIsNat ==
    ASSUME NEW f, f.off \in Nat, f.len \in Nat
    PROVE  End(f) \in Nat
<1>1. PICK o \in Nat, l \in Nat : o = f.off /\ l = f.len
      BY Zenon
<1>2. 8 * o + l \in Nat
      OBVIOUS
<1>3. QED BY <1>1, <1>2, Zenon DEF End

\* Fragments of a datagram follow one another without a gap.
LEMMA Follow ==
    ASSUME NEW d \in Datagrams, NEW i \in DOMAIN d.frags
    PROVE  /\ 8 * d.frags[i].off = IF i = 1 THEN 0 ELSE End(d.frags[i - 1])
           /\ d.frags[i].mf <=> i < Len(d.frags)
BY DatagramAssumption, Zenon

\* The fields of a fragment as defrag reads them.
LEMMA FragFields ==
    ASSUME NEW d, NEW i
    PROVE  /\ Frag(<<d, i>>).key = d.key
           /\ Frag(<<d, i>>).off = d.frags[i].off
           /\ Frag(<<d, i>>).mf = d.frags[i].mf
           /\ Frag(<<d, i>>).len = d.frags[i].len
           /\ Frag(<<d, i>>).of = <<d, i>>
           /\ End(Frag(<<d, i>>)) = End(d.frags[i])
BY Zenon DEF Frag, End

\* Each of them is a fragment of some datagram.
LEMMA FragIs ==
    ASSUME NEW f \in Frags
    PROVE  \E d \in Datagrams : \E i \in DOMAIN d.frags : f = Frag(<<d, i>>)
<1>1. PICK p \in Packets : f = Frag(p)
      BY Zenon DEF Frags
<1>2. PICK d \in Datagrams : p \in {d} \X (1..Len(d.frags))
      BY <1>1, Zenon DEF Packets
<1>3. PICK i \in 1..Len(d.frags) : p = <<d, i>>
      BY <1>2
<1>4. QED BY <1>1, <1>3, FragsAre, Zenon

\* The types of what defrag is given.
LEMMA FragTypes ==
    \A f \in Frags : f.off \in Nat /\ f.mf \in BOOLEAN /\ f.len \in Nat
<1> SUFFICES ASSUME NEW f \in Frags PROVE f.off \in Nat /\ f.mf \in BOOLEAN /\ f.len \in Nat
    BY Zenon
<1>1. PICK d \in Datagrams : \E i \in DOMAIN d.frags : f = Frag(<<d, i>>)
      BY FragIs, Zenon
<1>2. PICK i \in DOMAIN d.frags : f = Frag(<<d, i>>)
      BY <1>1, Zenon
<1>3. f.off = d.frags[i].off /\ f.mf = d.frags[i].mf /\ f.len = d.frags[i].len
      BY <1>2, FragFields, Zenon
<1>4. QED BY <1>3, FragsAre, Zenon

\* A later fragment of a datagram begins at or behind the end of an earlier one.
LEMMA OffsetsIncrease ==
    ASSUME NEW d \in Datagrams, NEW i \in DOMAIN d.frags, NEW j \in DOMAIN d.frags, i < j
    PROVE  End(d.frags[i]) <= 8 * d.frags[j].off /\ d.frags[i].off < d.frags[j].off
<1>1. PICK N \in Nat : N = Len(d.frags) /\ N >= 1 /\ DOMAIN d.frags = 1..N
      BY FragsAre, Zenon
<1>2. \A k \in 1..N : /\ d.frags[k].off \in Nat /\ d.frags[k].len \in Nat
                      /\ d.frags[k].len >= 1
                      /\ End(d.frags[k]) = 8 * d.frags[k].off + d.frags[k].len
      BY <1>1, FragsAre, Zenon DEF End
<1>3. \A k \in 2..N : 8 * d.frags[k].off = End(d.frags[k - 1])
      <2>1. ASSUME NEW k \in 2..N PROVE 8 * d.frags[k].off = End(d.frags[k - 1])
            <3>1. k \in DOMAIN d.frags /\ k # 1
                  BY <1>1
            <3>2. QED BY <3>1, Follow, Zenon
      <2>2. QED BY <2>1, Zenon
<1>8. \A k \in 1..N : End(d.frags[k]) \in Nat
      BY <1>2, EndIsNat, Zenon
<1>9. i \in 1..N /\ j \in 1..N /\ i \in Nat /\ j \in Nat
      BY <1>1
<1> DEFINE Bad == {k \in Nat : k \in (i + 1)..N /\ End(d.frags[i]) > 8 * d.frags[k].off}
<1>4. Bad = {}
      <2>1. SUFFICES ASSUME Bad # {} PROVE FALSE
            BY Zenon
      <2>2. PICK k \in Bad : \A m \in Bad : k <= m
            <3>1. Bad \subseteq Nat
                  BY Zenon
            <3> HIDE DEF Bad
            <3>2. QED BY <2>1, <3>1, LeastNumber, Zenon
      <2>3. k \in (i + 1)..N /\ End(d.frags[i]) > 8 * d.frags[k].off /\ k - 1 \in Nat
            BY <1>1, <2>2
      <2>4. 8 * d.frags[k].off = End(d.frags[k - 1])
            BY <1>1, <1>3, <2>3
      <2>5. k # i + 1
            <3>1. k = i + 1 => k - 1 = i
                  BY <1>9
            <3>2. PICK e \in Nat : e = End(d.frags[i])
                  BY <1>8, <1>9, Zenon
            <3>3. ~(e > e)
                  OBVIOUS
            <3>4. QED BY <2>3, <2>4, <3>1, <3>2, <3>3, Zenon
      <2>6. k - 1 \in (i + 1)..N /\ k - 1 \in 1..N /\ i \in 1..N
            BY <1>1, <2>3, <2>5
      <2>7. End(d.frags[i]) > 8 * d.frags[k - 1].off
            <3>1. /\ End(d.frags[k - 1]) = 8 * d.frags[k - 1].off + d.frags[k - 1].len
                  /\ d.frags[k - 1].off \in Nat /\ d.frags[k - 1].len \in Nat
                  BY <1>2, <2>6, Zenon
            <3>2. End(d.frags[i]) \in Nat
                  BY <1>8, <2>6, Zenon
            <3>3. PICK e \in Nat, o \in Nat, l \in Nat :
                     e = End(d.frags[i]) /\ o = d.frags[k - 1].off /\ l = d.frags[k - 1].len
                  BY <3>1, <3>2, Zenon
            <3>4. e > 8 * o + l => e > 8 * o
                  OBVIOUS
            <3>5. QED BY <2>3, <2>4, <3>1, <3>3, <3>4, Zenon
      <2>8. k - 1 \in Bad
            BY <2>3, <2>6, <2>7, Zenon
      <2>9. k <= k - 1
            BY <2>2, <2>8, Zenon
      <2>10. QED BY <2>3, <2>9
<1>5. End(d.frags[i]) <= 8 * d.frags[j].off
      <2>1. j \in (i + 1)..N /\ j \in Nat /\ i \in 1..N
            BY <1>1
      <2>2. ~(End(d.frags[i]) > 8 * d.frags[j].off)
            BY <1>4, <2>1, Zenon
      <2>3. End(d.frags[i]) \in Nat /\ d.frags[j].off \in Nat
            BY <1>2, <1>8, <1>9, Zenon
      <2>4. QED BY <2>2, <2>3
<1>6. /\ End(d.frags[i]) = 8 * d.frags[i].off + d.frags[i].len /\ d.frags[i].len >= 1
      /\ d.frags[i].off \in Nat /\ d.frags[i].len \in Nat /\ d.frags[j].off \in Nat
      BY <1>1, <1>2, Zenon
<1>7. QED BY <1>5, <1>6

\* Fragments of one datagram that step 4 finds complete are the whole of it.
LEMMA PresentIsWhole ==
    ASSUME NEW d \in Datagrams, NEW s \in Seq(Frags), s # <<>>, Present(s),
           \A j \in DOMAIN s : \E k \in DOMAIN d.frags : s[j] = Frag(<<d, k>>)
    PROVE  s = Whole(d)
<1>1. PICK N \in Nat : N = Len(d.frags) /\ N >= 1 /\ DOMAIN d.frags = 1..N
      BY FragsAre, Zenon
<1>2. PICK M \in Nat : M = Len(s) /\ M >= 1 /\ DOMAIN s = 1..M
      OBVIOUS
<1>3. \A k \in 1..N : /\ d.frags[k].off \in Nat /\ d.frags[k].len \in Nat
                      /\ d.frags[k].len >= 1
                      /\ End(d.frags[k]) = 8 * d.frags[k].off + d.frags[k].len
      BY <1>1, FragsAre, Zenon DEF End
<1>4. ASSUME NEW i \in 1..N, NEW j \in 1..N, d.frags[i].off = d.frags[j].off PROVE i = j
      <2>1. i < j \/ j < i \/ i = j
            OBVIOUS
      <2>2. CASE i < j
            <3>1. d.frags[i].off < d.frags[j].off
                  BY <1>1, <2>2, OffsetsIncrease, Zenon
            <3>2. QED BY <1>3, <1>4, <3>1, Numbers, Zenon
      <2>3. CASE j < i
            <3>1. d.frags[j].off < d.frags[i].off
                  BY <1>1, <2>3, OffsetsIncrease, Zenon
            <3>2. QED BY <1>3, <1>4, <3>1, Numbers, Zenon
      <2>4. QED BY <2>1, <2>2, <2>3, Zenon
<1> DEFINE Bad == {j \in Nat : j \in 1..M /\ ~(j \in 1..N /\ s[j] = Frag(<<d, j>>))}
<1>5. Bad = {}
      <2>1. SUFFICES ASSUME Bad # {} PROVE FALSE
            BY Zenon
      <2>2. PICK j \in Bad : \A m \in Bad : j <= m
            <3>1. Bad \subseteq Nat
                  BY Zenon
            <3> HIDE DEF Bad
            <3>2. QED BY <2>1, <3>1, LeastNumber, Zenon
      <2>3. j \in 1..M /\ ~(j \in 1..N /\ s[j] = Frag(<<d, j>>)) /\ j - 1 \in Nat
            BY <1>2, <2>2
      <2>4. PICK k \in 1..N : s[j] = Frag(<<d, k>>)
            BY <1>1, <1>2, <2>3, Zenon
      <2>5. 8 * d.frags[k].off = IF j = 1 THEN 0 ELSE End(s[j - 1])
            <3>1. 8 * s[j].off = IF j = 1 THEN 0 ELSE End(s[j - 1])
                  BY <1>2, <2>3, Zenon DEF Present
            <3>2. Frag(<<d, k>>).off = d.frags[k].off
                  BY FragFields, Zenon
            <3>3. QED BY <2>4, <3>1, <3>2, Zenon
      <2>6. j # k
            BY <2>3, <2>4, Zenon
      <2>7. CASE j = 1
            <3>1. d.frags[k].off = 0
                  BY <1>3, <2>5, <2>7, Numbers, Zenon
            <3>2. d.frags[1].off = 0
                  <4>1. 8 * d.frags[1].off = 0 /\ 1 \in 1..N
                        BY <1>1, Follow
                  <4>2. QED BY <1>3, <4>1, Numbers, Zenon
            <3>3. 1 \in 1..N
                  BY <1>1
            <3>4. QED BY <1>4, <2>6, <2>7, <3>1, <3>2, <3>3, Zenon
      <2>8. CASE j # 1
            <3>1. j - 1 \in 1..M /\ ~(j <= j - 1)
                  BY <1>2, <2>3, <2>8
            <3>2. j - 1 \in 1..N /\ s[j - 1] = Frag(<<d, j - 1>>)
                  BY <2>2, <2>3, <3>1, Zenon
            <3>3. 8 * d.frags[k].off = End(d.frags[j - 1])
                  <4>1. End(Frag(<<d, j - 1>>)) = End(d.frags[j - 1])
                        BY FragFields, Zenon
                  <4>2. QED BY <2>5, <2>8, <3>2, <4>1, Zenon
            <3>4. CASE j \in 1..N
                  <4>1. 8 * d.frags[j].off = End(d.frags[j - 1])
                        BY <1>1, <2>8, <3>4, Follow, Zenon
                  <4>2. d.frags[j].off = d.frags[k].off
                        <5>1. d.frags[j].off \in Nat /\ d.frags[k].off \in Nat
                              BY <1>3, <3>4, Zenon
                        <5>2. 8 * d.frags[j].off = 8 * d.frags[k].off
                              BY <3>3, <4>1, Zenon
                        <5>3. QED BY <5>1, <5>2, Eights, Zenon
                  <4>3. QED BY <1>4, <2>6, <3>4, <4>2, Zenon
            <3>5. CASE j \notin 1..N
                  <4>1. j - 1 = N
                        BY <1>1, <2>3, <3>2, <3>5
                  <4>2. /\ d.frags[k].off \in Nat /\ d.frags[N].off \in Nat
                        /\ d.frags[N].len \in Nat /\ d.frags[N].len >= 1
                        /\ End(d.frags[N]) = 8 * d.frags[N].off + d.frags[N].len
                        <5>1. N \in 1..N
                              BY <1>1
                        <5>2. QED BY <1>3, <5>1, Zenon
                  <4>3. d.frags[k].off <= d.frags[N].off
                        <5>1. CASE k = N
                              BY <4>2, <5>1, Numbers, Zenon
                        <5>2. CASE k < N
                              <6>1. N \in DOMAIN d.frags /\ k \in DOMAIN d.frags
                                    BY <1>1
                              <6>2. d.frags[k].off < d.frags[N].off
                                    BY <5>2, <6>1, OffsetsIncrease, Zenon
                              <6>3. QED BY <4>2, <6>2, Numbers, Zenon
                        <5>3. QED BY <1>1, <5>1, <5>2
                  <4>4. 8 * d.frags[k].off = End(d.frags[N])
                        BY <3>3, <4>1, Zenon
                  <4>5. 8 * d.frags[k].off = 8 * d.frags[N].off + d.frags[N].len
                        BY <4>2, <4>4, Zenon
                  <4>6. QED BY <4>2, <4>3, <4>5, Eights, Zenon
            <3>6. QED BY <3>4, <3>5, Zenon
      <2>9. QED BY <2>7, <2>8, Zenon
<1>6. \A j \in 1..M : j \in 1..N /\ s[j] = Frag(<<d, j>>)
      BY <1>5
<1>7. M = N
      <2>1. M \in 1..M /\ M \in 1..N /\ s[M] = Frag(<<d, M>>)
            BY <1>2, <1>6
      <2>2. ~s[M].mf
            BY <1>2, Zenon DEF Present
      <2>3. ~d.frags[M].mf
            BY <2>1, <2>2, FragFields, Zenon
      <2>4. ~(M < N)
            BY <1>1, <2>1, <2>3, Follow, Zenon
      <2>5. QED BY <2>1, <2>4
<1>8. Whole(d) = [j \in 1..N |-> Frag(<<d, j>>)]
      BY <1>1, Zenon DEF Whole
<1>9. s = [j \in 1..M |-> s[j]]
      BY <1>2
<1>10. QED BY <1>6, <1>7, <1>8, <1>9, Zenon

\* The tot_len of what is reassembled is that of the datagram which its last
\* fragment is the last of: nothing overflows.
LEMMA TotLenIs ==
    ASSUME NEW s \in Seq(Frags), s # <<>>, ~s[Len(s)].mf
    PROVE  TotLen(s) = IpHdrLen + End(s[Len(s)])
<1>1. PICK f \in Frags : f = s[Len(s)]
      OBVIOUS
<1>2. PICK d \in Datagrams : \E i \in DOMAIN d.frags : f = Frag(<<d, i>>)
      BY FragIs, Zenon
<1>3. PICK i \in DOMAIN d.frags : f = Frag(<<d, i>>)
      BY <1>2, Zenon
<1>4. PICK n \in Nat : n = Len(d.frags) /\ DOMAIN d.frags = 1..n
      BY FragsAre, Zenon
<1>5. i = n
      <2>1. Frag(<<d, i>>).mf = d.frags[i].mf
            BY FragFields, Zenon
      <2>2. ~(i < n)
            BY <1>1, <1>3, <1>4, <2>1, Follow, Zenon
      <2>3. QED BY <1>4, <2>2
<1>6. End(f) = End(d.frags[n])
      BY <1>3, <1>5, FragFields, Zenon
<1>7. PICK e \in Nat : e = End(f)
      <2>1. f.off \in Nat /\ f.len \in Nat
            BY FragTypes, Zenon
      <2>2. QED BY <2>1, EndIsNat, Zenon
<1>8. e + 20 < 65536
      <2>1. IpHdrLen + End(d.frags[Len(d.frags)]) < Word
            BY DatagramAssumption, Zenon
      <2>2. QED BY <1>4, <1>6, <1>7, <2>1 DEF IpHdrLen, Word
<1>9. TotLen(s) = ((e % 65536) + 20) % 65536
      BY <1>1, <1>7, SMT DEF TotLen, IpHdrLen
<1>10. e % 65536 = e /\ (e + 20) % 65536 = e + 20
      BY <1>7, <1>8, SMT
<1>11. QED BY <1>1, <1>7, <1>9, <1>10, SMT DEF IpHdrLen

\* The offset defrag compares with is a number.
LEMMA RawIsNat ==
    ASSUME NEW f \in Frags
    PROVE  RawOffset(f) \in Nat
<1>1. PICK x \in Nat : x = FragOff(f)
      BY FragTypes DEF FragOff
<1>2. PICK y \in Nat : y = Swap(x)
      BY <1>1 DEF Swap
<1>3. QED BY <1>1, <1>2 DEF RawOffset

\* How far the loop of defrag that looks for prev goes.
LEMMA PassedIs ==
    ASSUME NEW x \in Seq(Frags), NEW f \in Frags
    PROVE  /\ Passed(x, f) \in 0..Len(x)
           /\ \A i \in 1..Passed(x, f) : RawOffset(f) > x[i].off
           /\ Passed(x, f) < Len(x) => RawOffset(f) <= x[Passed(x, f) + 1].off
<1>1. PICK N \in Nat : N = Len(x) /\ DOMAIN x = 1..N
      OBVIOUS
<1>2. RawOffset(f) \in Nat /\ \A i \in 1..N : x[i].off \in Nat
      BY <1>1, RawIsNat, FragTypes
<1> DEFINE T == {n \in Nat : n <= N /\ (n < N => RawOffset(f) <= x[n + 1].off)}
<1>3. N \in T /\ T \subseteq Nat
      BY <1>1
<1>4. PICK n \in T : \A m \in T : n <= m
      <2> HIDE DEF T
      <2>1. QED BY <1>3, LeastNumber, Zenon
<1>5. n \in 0..N /\ (n < N => RawOffset(f) <= x[n + 1].off)
      BY <1>1, <1>4
<1>6. \A i \in 1..n : RawOffset(f) > x[i].off
      <2>1. ASSUME NEW i \in 1..n PROVE RawOffset(f) > x[i].off
            <3>1. i - 1 \in Nat /\ i - 1 < n /\ i - 1 <= N /\ i - 1 < N /\ (i - 1) + 1 = i
                  BY <1>1, <1>5
            <3>2. i - 1 \notin T
                  <4>1. ~(n <= i - 1)
                        BY <1>5, <3>1
                  <4>2. QED BY <1>4, <4>1, Zenon
            <3>3. ~(RawOffset(f) <= x[(i - 1) + 1].off)
                  BY <3>1, <3>2, Zenon
            <3>4. i \in 1..N
                  BY <1>5, <3>1
            <3>5. QED BY <1>2, <3>1, <3>3, <3>4, Numbers, Zenon
      <2>2. QED BY <2>1, Zenon
<1> DEFINE Ends(k) == /\ \A i \in 1..k : RawOffset(f) > x[i].off
                      /\ k < Len(x) => RawOffset(f) <= x[k + 1].off
<1>7. n \in 0..Len(x) /\ Ends(n)
      BY <1>1, <1>5, <1>6, Zenon
<1>8. Passed(x, f) = CHOOSE k \in 0..Len(x) : Ends(k)
      BY Zenon DEF Passed
<1> HIDE DEF Ends
<1>9. Passed(x, f) \in 0..Len(x) /\ Ends(Passed(x, f))
      BY <1>7, <1>8, Zenon
<1>10. QED BY <1>9, Zenon DEF Ends

\* Where prev is not null, f is put in: at the head, or behind those passed.
LEMMA Inserted ==
    \A x \in Seq(Frags), f \in Frags :
        ~PrevIsNull(x, f) =>
            /\ Insert(x, f) \in Seq(Frags)
            /\ \E n \in 0..Len(x) :
                  /\ Put(Insert(x, f), x, f, n)
                  /\ n = IF GoesFirst(x, f) THEN 0 ELSE Passed(x, f)
<1>PutIn.
      ASSUME NEW S, NEW x \in Seq(S), NEW f \in S, NEW n \in 0..Len(x),
             NEW s, s = With(x, n, f)
      PROVE  s \in Seq(S) /\ Put(s, x, f, n)
      <2> USE <1>PutIn
      <2>1. PICK a, b, c, N : /\ a = SubSeq(x, 1, n) /\ b = SubSeq(x, n + 1, N) /\ c = a \o <<f>>
                              /\ N = Len(x)
            BY Zenon
      <2>2. /\ N \in Nat /\ n \in Nat /\ n + 1 \in Nat /\ n <= N /\ N <= Len(x) /\ n <= Len(x)
            /\ 1 \in Nat /\ 1 >= 1 /\ 1 <= n + 1 /\ n + 1 >= 1 /\ n + 1 <= N + 1
            BY <2>1
      <2>3. /\ a \in Seq(S) /\ Len(a) = n /\ \A i \in 1..n : a[i] = x[i]
            <3>1. /\ a \in Seq(S) /\ Len(a) = (n + 1) - 1
                  /\ \A j \in 1..((n + 1) - 1) : a[j] = x[(1 + j) - 1]
                  BY <2>1, <2>2, Part
            <3>2. (n + 1) - 1 = n /\ \A j \in Nat : (1 + j) - 1 = j
                  BY <2>2
            <3>3. QED BY <2>2, <3>1, <3>2
      <2>4. /\ b \in Seq(S) /\ Len(b) = N - n /\ \A i \in 1..(N - n) : b[i] = x[n + i]
            <3>1. /\ b \in Seq(S) /\ Len(b) = (N + 1) - (n + 1)
                  /\ \A j \in 1..((N + 1) - (n + 1)) : b[j] = x[((n + 1) + j) - 1]
                  BY <2>1, <2>2, Part
            <3>2. (N + 1) - (n + 1) = N - n /\ \A j \in Nat : ((n + 1) + j) - 1 = n + j
                  BY <2>2
            <3>3. QED BY <2>2, <3>1, <3>2
      <2>5. /\ c \in Seq(S) /\ Len(c) = n + 1 /\ c[n + 1] = f /\ \A i \in 1..n : c[i] = x[i]
            <3>1. PICK t : t = <<f>>
                  BY Zenon
            <3>2. t \in Seq(S) /\ Len(t) = 1 /\ t[1] = f /\ 1 \in 1..1
                  BY <3>1
            <3>3. c = Cat(a, t)
                  BY <2>1, <3>1, Zenon DEF Cat
            <3>4. Joins(S, a, t, c)
                  BY <2>3, <3>2, <3>3, Joined, Zenon
            <3>5. QED BY <2>3, <3>2, <3>4, Zenon DEF Joins
      <2>6. /\ s \in Seq(S) /\ Len(s) = Len(c) + Len(b)
            /\ \A i \in 1..Len(c) : s[i] = c[i]
            /\ \A i \in 1..Len(b) : s[Len(c) + i] = b[i]
            <3>1. s = Cat(c, b)
                  BY <2>1, Zenon DEF With, Cat
            <3>2. c \in Seq(S) /\ b \in Seq(S)
                  BY <2>4, <2>5, Zenon
            <3>3. Joins(S, c, b, s)
                  BY <3>1, <3>2, Joined, Zenon
            <3>4. QED BY <3>3, Zenon DEF Joins
      <2>7. Len(s) = N + 1 /\ s[n + 1] = f /\ \A i \in 1..n : s[i] = x[i]
            BY <2>2, <2>4, <2>5, <2>6
      <2>8. ASSUME NEW i \in (n + 1)..N PROVE s[i + 1] = x[i]
            <3>1. PICK k \in 1..(N - n) : k = i - n
                  BY <2>2
            <3>2. (n + 1) + k = i + 1 /\ n + k = i
                  BY <2>2, <3>1
            <3>3. s[Len(c) + k] = b[k] /\ b[k] = x[n + k] /\ Len(c) = n + 1
                  BY <2>4, <2>5, <2>6, <3>1, Zenon
            <3>4. QED BY <3>2, <3>3, Zenon
      <2>9. QED BY <2>1, <2>6, <2>7, <2>8, Zenon DEF Put
<1>PutFirst.
      ASSUME NEW S, NEW x \in Seq(S), NEW f \in S
      PROVE  <<f>> \o x \in Seq(S) /\ Put(<<f>> \o x, x, f, 0)
      <2> USE <1>PutFirst
      <2>1. PICK s : s = <<f>> \o x
            BY Zenon
      <2>2. s \in Seq(S) /\ Len(s) = Len(x) + 1 /\ s[1] = f /\ \A i \in 1..Len(x) : s[i + 1] = x[i]
            BY <2>1
      <2>3. Put(s, x, f, 0)
            BY <2>2 DEF Put
      <2>4. QED BY <2>1, <2>2, <2>3, Zenon
<1> SUFFICES ASSUME NEW x \in Seq(Frags), NEW f \in Frags, ~PrevIsNull(x, f)
             PROVE  /\ Insert(x, f) \in Seq(Frags)
                    /\ \E n \in 0..Len(x) :
                          /\ Put(Insert(x, f), x, f, n)
                          /\ n = IF GoesFirst(x, f) THEN 0 ELSE Passed(x, f)
    BY Zenon
<1>1. CASE GoesFirst(x, f)
      <2>1. Insert(x, f) = <<f>> \o x
            BY <1>1, Zenon DEF Insert
      <2>2. <<f>> \o x \in Seq(Frags) /\ Put(<<f>> \o x, x, f, 0)
            BY <1>PutFirst, Zenon
      <2>3. 0 \in 0..Len(x)
            OBVIOUS
      <2>4. QED BY <1>1, <2>1, <2>2, <2>3, Zenon
<1>2. CASE ~GoesFirst(x, f)
      <2>1. PICK n : n = Passed(x, f)
            BY Zenon
      <2>2. n \in 0..Len(x)
            BY <2>1, PassedIs, Zenon
      <2>3. Insert(x, f) = With(x, n, f)
            BY <1>2, <2>1, Zenon DEF Insert, With
      <2>4. With(x, n, f) \in Seq(Frags) /\ Put(With(x, n, f), x, f, n)
            BY <2>2, <1>PutIn, Zenon
      <2>5. QED BY <1>2, <2>1, <2>2, <2>3, <2>4, Zenon
<1>3. QED BY <1>1, <1>2, Zenon

-----------------------------------------------------------------------------
(* Steps 1 and 2, and what defrag leaves in its list.                      *)

\* f is a fragment of d that has been given to defrag.
Came(f, d) == \E k \in DOMAIN seen[d] : f = Frag(<<d, seen[d][k]>>)

RxTypes ==
    /\ air \subseteq Packets /\ repeats \in Nat
    /\ tun \in {"read", "stopped", "exit"} /\ stopflag \in BOOLEAN
    /\ rxQ \in Seq(Packets) /\ Len(rxQ) <= MaxRxQ /\ read \in Seq(Packets)
    /\ ipAt \in {"test", "wait", "tx", "ended"}
    /\ seen \in [Datagrams -> Seq(Nat)]
    /\ \A d \in Datagrams : \A k \in DOMAIN seen[d] : seen[d][k] \in DOMAIN d.frags
    /\ up \in Seq(Seq(Frags))
    /\ late \in Nat
    /\ daemon \in {"up", "gone", "crashed"}

\* f is a fragment of a datagram with key k that has been given to defrag.
CameWith(f, k) == \E d \in Datagrams : d.key = k /\ Came(f, d)

\* The group with key k holds the fragments x.
Good(k, x) == x # <<>> /\ ~Present(x) /\ \A j \in DOMAIN x : CameWith(x[j], k)

Group == [key : Nat, frags : Seq(Frags)]

Keyed(gs) ==
    gs \in Seq(Group) /\ \A i, j \in DOMAIN gs : gs[i].key = gs[j].key => i = j

GroupsOK == Keyed(groups) /\ \A i \in DOMAIN groups : Good(groups[i].key, groups[i].frags)

\* A chain of buffers that step 4 finds complete.
Formed(s) ==
    /\ s \in Seq(Frags) /\ s # <<>> /\ Present(s)
    /\ \A i, j \in DOMAIN s : s[i].key = s[j].key

UpOK == \A k \in DOMAIN up : Formed(up[k])

\* gs has a group with key k that holds the fragments x.
Holds(gs, k, x) == \E i \in DOMAIN gs : gs[i].key = k /\ gs[i].frags = x

\* The k-th fragment of d is given to defrag.
Given(d, k) == seen' = [seen EXCEPT ![d] = Append(@, k)]

\* A fragment of d is taken in: s is its group with the fragment, or returned.
TakenIn(d, s) ==
    /\ Keyed(groups')
    /\ \A m, y : m # d.key => (Holds(groups', m, y) <=> Holds(groups, m, y))
    /\ Present(s) =>
          /\ up' = IF d.protocol \in {"TCP", "UDP"} THEN Append(up, s) ELSE up
          /\ \A y : ~Holds(groups', d.key, y)
    /\ ~Present(s) => up' = up /\ \A y : Holds(groups', d.key, y) <=> y = s

\* The group that defrag makes for a new key.
LEMMA NewGroup ==
    ASSUME NEW k \in Nat
    PROVE  [key |-> k, frags |-> <<>>] \in Group
BY DEF Group

\* An element of a sequence.
LEMMA InSeq ==
    ASSUME NEW S, NEW s \in Seq(S), NEW i \in 1..Len(s)
    PROVE  s[i] \in S
OBVIOUS

\* The numbers up to n + 1.
LEMMA OneMore ==
    ASSUME NEW n \in Nat
    PROVE  \A j : j \in 1..(n + 1) <=> j \in 1..n \/ j = n + 1
OBVIOUS

\* What a step of the IP thread that takes a fragment does to groups and up.
LEMMA FragmentStep ==
    \A d \in Datagrams : \A k \in DOMAIN d.frags : \A p, x, f :
        /\ RxTypes /\ GroupsOK /\ IpRxFragment(p)
        /\ p = <<d, k>> /\ x = Before(p) /\ f = Frag(p)
        => /\ Given(d, k)
           /\ f \in Frags /\ x \in Seq(Frags)
           /\ Holds(groups, d.key, x) \/ (x = <<>> /\ \A y : ~Holds(groups, d.key, y))
           /\ \A j \in DOMAIN x : CameWith(x[j], d.key)
           /\ PrevIsNull(x, f) => daemon' = "crashed" /\ UNCHANGED <<groups, up>>
           /\ ~PrevIsNull(x, f) => TakenIn(d, Insert(x, f))
\* In gs the group with key k is the i-th; the others are those of groups.
<1> DEFINE Finds(gs, i, k) ==
               /\ Keyed(gs) /\ i \in 1..Len(gs) /\ gs[i].key = k
               /\ \A m, x : m # k => (Holds(gs, m, x) <=> Holds(groups, m, x))
           \* The group with key k now holds s.
           Changed(gs, i, s) == [gs EXCEPT ![i].frags = s]
           \* What defrag does with the fragment p: x is what its group held, s what it holds
           \* now or what is returned.
           Defrags(d, x, s, r) ==
               /\ Keyed(r.groups)
               /\ \A m, y : m # d.key => (Holds(r.groups, m, y) <=> Holds(groups, m, y))
               /\ Present(s) => r.packet = s /\ \A y : ~Holds(r.groups, d.key, y)
               /\ ~Present(s) => r.packet = <<>> /\ \A y : Holds(r.groups, d.key, y) <=> y = s
<1> HIDE DEF Finds, Changed, Defrags
<1>GroupFound.
      ASSUME Keyed(groups), NEW f \in Frags, f.key \in Nat,
             NEW gs, gs = FindGroup(groups, f), NEW i, i = GroupOf(gs, f.key)
      PROVE  /\ Finds(gs, i, f.key)
             /\ \/ Holds(groups, f.key, gs[i].frags)
                \/ gs[i].frags = <<>> /\ \A x : ~Holds(groups, f.key, x)
      <2> USE <1>GroupFound
      <2>1. Keyed(gs) /\ \E j \in DOMAIN gs : gs[j].key = f.key
            <3>1. CASE \E j \in DOMAIN groups : groups[j].key = f.key
                  BY <3>1, Zenon DEF FindGroup
            <3>2. CASE ~\E j \in DOMAIN groups : groups[j].key = f.key
                  <4>1. PICK g : g = [key |-> f.key, frags |-> <<>>]
                        BY Zenon
                  <4>2. gs = Append(groups, g)
                        BY <3>2, <4>1, Zenon DEF FindGroup
                  <4>3. g \in Group /\ g.key = f.key
                        BY <4>1, NewGroup, Zenon
                  <4>4. groups \in Seq(Group)
                        BY Zenon DEF Keyed
                  <4>5. /\ gs \in Seq(Group) /\ DOMAIN gs = 1..(Len(groups) + 1)
                        /\ gs[Len(groups) + 1] = g /\ DOMAIN groups = 1..Len(groups)
                        /\ \A j \in 1..Len(groups) : gs[j] = groups[j]
                        BY <4>2, <4>3, <4>4
                  <4>6. \A j, m \in 1..Len(groups) : groups[j].key = groups[m].key => j = m
                        BY <4>5, Zenon DEF Keyed
                  <4>7. \A j \in 1..Len(groups) : groups[j].key # g.key
                        BY <3>2, <4>3, <4>5, Zenon
                  <4>8. \A j, m \in DOMAIN gs : gs[j].key = gs[m].key => j = m
                        BY <4>4, <4>5, <4>6, <4>7
                  <4>9. Len(groups) + 1 \in DOMAIN gs
                        BY <4>4, <4>5
                  <4>10. QED BY <4>3, <4>5, <4>8, <4>9, Zenon DEF Keyed
            <3>3. QED BY <3>1, <3>2, Zenon
      <2>2. i \in DOMAIN gs /\ gs[i].key = f.key
            BY <2>1, Zenon DEF GroupOf
      <2>3. DOMAIN gs = 1..Len(gs)
            BY <2>1 DEF Keyed
      <2>4. CASE \E j \in DOMAIN groups : groups[j].key = f.key
            <3>1. gs = groups
                  BY <2>4, Zenon DEF FindGroup
            <3>2. Holds(groups, f.key, gs[i].frags)
                  BY <2>2, <3>1, Zenon DEF Holds
            <3>3. QED BY <2>1, <2>2, <2>3, <3>1, <3>2, Zenon DEF Finds
      <2>5. CASE ~\E j \in DOMAIN groups : groups[j].key = f.key
            <3>1. PICK g : g = [key |-> f.key, frags |-> <<>>]
                  BY Zenon
            <3>2. gs = Append(groups, g)
                  BY <2>5, <3>1, Zenon DEF FindGroup
            <3>3. groups \in Seq(Group) /\ g \in Group /\ Len(groups) \in Nat
                  BY <3>1, NewGroup, LenIsNat, Zenon DEF Keyed
            <3>4. /\ DOMAIN gs = 1..(Len(groups) + 1) /\ DOMAIN groups = 1..Len(groups)
                  /\ gs[Len(groups) + 1] = g
                  /\ \A j \in 1..Len(groups) : gs[j] = groups[j]
                  BY <3>2, <3>3
            <3>5. ASSUME NEW m, NEW x, m # f.key PROVE Holds(gs, m, x) <=> Holds(groups, m, x)
                  <4>1. g.key = f.key
                        BY <3>1, Zenon
                  <4>2. \A j : j \in DOMAIN gs <=> j \in DOMAIN groups \/ j = Len(groups) + 1
                        BY <3>3, <3>4, OneMore, Zenon
                  <4>3. QED BY <3>4, <3>5, <4>1, <4>2, Zenon DEF Holds
            <3>6. i = Len(groups) + 1
                  <4>1. i \notin DOMAIN groups
                        BY <2>2, <2>5, <3>4, Zenon
                  <4>2. QED BY <2>2, <3>3, <3>4, <4>1
            <3>7. gs[i].frags = <<>>
                  BY <3>1, <3>4, <3>6
            <3>8. \A x : ~Holds(groups, f.key, x)
                  BY <2>5, Zenon DEF Holds
            <3>9. QED BY <2>1, <2>2, <2>3, <3>5, <3>7, <3>8, Zenon DEF Finds
      <2>6. QED BY <2>4, <2>5, Zenon
<1>TakenOut.
      ASSUME NEW S, NEW g \in Seq(S), NEW i \in 1..Len(g), NEW h, h = Without(g, i)
      PROVE  Out(S, h, g, i)
      <2> USE <1>TakenOut
      <2>1. PICK a, b, N : a = SubSeq(g, 1, i - 1) /\ b = SubSeq(g, i + 1, N) /\ N = Len(g)
            BY Zenon
      <2>2. N \in Nat /\ i \in Nat /\ i - 1 \in Nat /\ i + 1 \in Nat /\ i >= 1 /\ i <= N
            BY <2>1
      <2>3. /\ a \in Seq(S) /\ Len(a) = i - 1 /\ \A j \in 1..(i - 1) : a[j] = g[j]
            <3>1. /\ a \in Seq(S) /\ Len(a) = ((i - 1) + 1) - 1
                  /\ \A j \in 1..(((i - 1) + 1) - 1) : a[j] = g[(1 + j) - 1]
                  BY <2>1, <2>2, Part
            <3>2. ((i - 1) + 1) - 1 = i - 1 /\ \A j \in Nat : (1 + j) - 1 = j
                  BY <2>2
            <3>3. QED BY <2>2, <3>1, <3>2
      <2>4. /\ b \in Seq(S) /\ Len(b) = N - i /\ \A j \in 1..(N - i) : b[j] = g[i + j]
            <3>1. /\ b \in Seq(S) /\ Len(b) = (N + 1) - (i + 1)
                  /\ \A j \in 1..((N + 1) - (i + 1)) : b[j] = g[((i + 1) + j) - 1]
                  BY <2>1, <2>2, Part
            <3>2. (N + 1) - (i + 1) = N - i /\ \A j \in Nat : ((i + 1) + j) - 1 = i + j
                  BY <2>2
            <3>3. QED BY <2>2, <3>1, <3>2
      <2>5. /\ h \in Seq(S) /\ Len(h) = Len(a) + Len(b)
            /\ \A j \in 1..Len(a) : h[j] = a[j]
            /\ \A j \in 1..Len(b) : h[Len(a) + j] = b[j]
            <3>1. h = Cat(a, b)
                  BY <2>1, Zenon DEF Without, Cat
            <3>2. a \in Seq(S) /\ b \in Seq(S)
                  BY <2>3, <2>4, Zenon
            <3>3. Joins(S, a, b, h)
                  BY <3>1, <3>2, Joined, Zenon
            <3>4. QED BY <3>3, Zenon DEF Joins
      <2>6. ASSUME NEW j \in i..(N - 1) PROVE h[j] = g[j + 1]
            <3>1. PICK k \in 1..(N - i) : k = j - (i - 1)
                  BY <2>2
            <3>2. (i - 1) + k = j /\ i + k = j + 1
                  BY <2>2, <3>1
            <3>3. h[(i - 1) + k] = b[k] /\ b[k] = g[i + k]
                  BY <2>3, <2>4, <2>5, <3>1, Zenon
            <3>4. QED BY <3>2, <3>3, Zenon
      <2>7. Len(h) = N - 1
            BY <2>2, <2>3, <2>4, <2>5, SMTT(30)
      <2>8. QED BY <2>1, <2>3, <2>5, <2>6, <2>7, Zenon DEF Out
\* The group with key k taken out.
<1>GroupTaken.
      ASSUME NEW gs, NEW i, NEW k, Finds(gs, i, k), NEW h, h = Without(gs, i)
      PROVE  /\ Keyed(h)
             /\ \A x : ~Holds(h, k, x)
             /\ \A m, x : m # k => (Holds(h, m, x) <=> Holds(groups, m, x))
      <2> USE <1>GroupTaken
      <2>1. PICK N \in Nat : N = Len(gs) /\ DOMAIN gs = 1..N
            BY DEF Finds, Keyed
      <2>2. /\ gs \in Seq(Group) /\ i \in 1..N /\ gs[i].key = k
            /\ \A j, m \in 1..N : gs[j].key = gs[m].key => j = m
            BY <2>1, Zenon DEF Finds, Keyed
      <2>3. /\ h \in Seq(Group) /\ Len(h) = N - 1
            /\ \A j \in 1..(i - 1) : h[j] = gs[j]
            /\ \A j \in i..(N - 1) : h[j] = gs[j + 1]
            <3>1. Out(Group, h, gs, i)
                  BY <2>1, <2>2, <1>TakenOut, Zenon
            <3>2. QED BY <2>1, <3>1, Zenon DEF Out
      <2>4. DOMAIN h = 1..(N - 1)
            BY <2>1, <2>2, <2>3
      <2> DEFINE From(j) == IF j < i THEN j ELSE j + 1
      <2>5. \A j \in DOMAIN h : From(j) \in 1..N /\ From(j) # i /\ h[j] = gs[From(j)]
            BY <2>1, <2>2, <2>3, <2>4
      <2>6. \A j, m \in DOMAIN h : From(j) = From(m) => j = m
            BY <2>1, <2>2, <2>4
      <2>7. \A j \in 1..N : j # i => \E m \in DOMAIN h : From(m) = j
            <3>1. ASSUME NEW j \in 1..N, j # i PROVE \E m \in DOMAIN h : From(m) = j
                  <4>1. CASE j < i
                        <5>1. j \in DOMAIN h /\ From(j) = j
                              BY <2>1, <2>2, <2>4, <4>1
                        <5>2. QED BY <5>1, Zenon
                  <4>2. CASE j > i
                        <5>1. j - 1 \in DOMAIN h /\ From(j - 1) = j
                              BY <2>1, <2>2, <2>4, <4>2
                        <5>2. QED BY <5>1, Zenon
                  <4>3. QED BY <2>2, <3>1, <4>1, <4>2
            <3>2. QED BY <3>1, Zenon
      <2> HIDE DEF From
      <2>8. Keyed(h)
            <3>1. ASSUME NEW j \in DOMAIN h, NEW m \in DOMAIN h, h[j].key = h[m].key PROVE j = m
                  <4>1. gs[From(j)].key = gs[From(m)].key /\ From(j) \in 1..N /\ From(m) \in 1..N
                        BY <2>5, <3>1, Zenon
                  <4>2. From(j) = From(m)
                        BY <2>2, <4>1, Zenon
                  <4>3. QED BY <2>6, <4>2, Zenon
            <3>2. QED BY <2>3, <3>1, Zenon DEF Keyed
      <2>9. \A x : ~Holds(h, k, x)
            BY <2>2, <2>5 DEF Holds
      <2>10. ASSUME NEW m, NEW x, m # k PROVE Holds(h, m, x) <=> Holds(groups, m, x)
            <3>1. Holds(h, m, x) <=> Holds(gs, m, x)
                  <4>1. ASSUME Holds(h, m, x) PROVE Holds(gs, m, x)
                        BY <2>1, <2>5, <4>1, Zenon DEF Holds
                  <4>2. ASSUME Holds(gs, m, x) PROVE Holds(h, m, x)
                        <5>1. PICK j \in 1..N : gs[j].key = m /\ gs[j].frags = x
                              BY <2>1, <4>2, Zenon DEF Holds
                        <5>2. PICK q \in DOMAIN h : From(q) = j
                              BY <2>2, <2>7, <2>10, <5>1, Zenon
                        <5>3. h[q] = gs[j]
                              BY <2>5, <5>2, Zenon
                        <5>4. QED BY <5>1, <5>3, Zenon DEF Holds
                  <4>3. QED BY <4>1, <4>2, Zenon
            <3>2. QED BY <2>10, <3>1, Zenon DEF Finds
      <2>11. QED BY <2>8, <2>9, <2>10, Zenon
<1>GroupChanged.
      ASSUME NEW gs, NEW i, NEW k, Finds(gs, i, k), k \in Nat, NEW s \in Seq(Frags),
             NEW h, h = Changed(gs, i, s)
      PROVE  /\ Keyed(h)
             /\ \A x : Holds(h, k, x) <=> x = s
             /\ \A m, x : m # k => (Holds(h, m, x) <=> Holds(groups, m, x))
      <2> USE <1>GroupChanged
      <2>1. PICK N \in Nat : N = Len(gs) /\ DOMAIN gs = 1..N
            BY DEF Finds, Keyed
      <2>2. /\ gs \in Seq(Group) /\ i \in 1..N /\ gs[i].key = k
            /\ \A j, m \in 1..N : gs[j].key = gs[m].key => j = m
            BY <2>1, Zenon DEF Finds, Keyed
      <2>3. gs[i] \in Group
            BY <2>1, <2>2
      <2>4. PICK g : g = [gs[i] EXCEPT !.frags = s]
            BY Zenon
      <2>5. g = [key |-> k, frags |-> s]
            BY <2>2, <2>3, <2>4, Zenon DEF Group
      <2>6. g \in Group /\ g.key = k /\ g.frags = s
            BY <2>5, Zenon DEF Group
      <2>7. h = [gs EXCEPT ![i] = g]
            BY <2>4, Zenon DEF Changed
      <2>8. /\ h \in Seq(Group) /\ DOMAIN h = 1..N /\ h[i] = g
            /\ \A j \in 1..N : j # i => h[j] = gs[j]
            BY <2>1, <2>2, <2>6, <2>7
      <2>9. Keyed(h)
            <3>1. \A j \in 1..N : h[j].key = gs[j].key
                  BY <2>2, <2>6, <2>8, Zenon
            <3>2. QED BY <2>2, <2>8, <3>1 DEF Keyed
      <2>10. \A x : Holds(h, k, x) <=> x = s
            BY <2>2, <2>6, <2>8, Zenon DEF Holds
      <2>11. ASSUME NEW m, NEW x, m # k PROVE Holds(h, m, x) <=> Holds(groups, m, x)
            <3>1. Holds(h, m, x) <=> Holds(gs, m, x)
                  BY <2>1, <2>2, <2>6, <2>8, <2>11 DEF Holds
            <3>2. QED BY <2>11, <3>1, Zenon DEF Finds
      <2>12. QED BY <2>9, <2>10, <2>11, Zenon
<1>DefragEffect.
      ASSUME Keyed(groups), NEW d \in Datagrams, NEW k \in DOMAIN d.frags, NEW p, p = <<d, k>>,
             NEW x, x = Before(p), NEW f, f = Frag(p)
      PROVE  /\ f \in Frags /\ x \in Seq(Frags)
             /\ Holds(groups, d.key, x) \/ (x = <<>> /\ \A y : ~Holds(groups, d.key, y))
             /\ ~PrevIsNull(x, f) => Defrags(d, x, Insert(x, f), Defrag(groups, f))
      <2> USE <1>DefragEffect
      <2>1. p \in Packets /\ f \in Frags
            <3>1. p \in {d} \X (1..Len(d.frags))
                  BY FragsAre, Zenon
            <3>2. p \in Packets
                  BY <3>1, Zenon DEF Packets
            <3>3. QED BY <3>2, Zenon DEF Frags
      <2>2. f.key = d.key /\ p[1] = d /\ d.key \in Nat
            BY FragFields, FragsAre, Zenon
      <2>3. PICK gs, i : gs = FindGroup(groups, f) /\ i = GroupOf(gs, f.key)
            BY Zenon
      <2>4. /\ Finds(gs, i, d.key)
            /\ \/ Holds(groups, d.key, gs[i].frags)
               \/ gs[i].frags = <<>> /\ \A y : ~Holds(groups, d.key, y)
            BY <2>1, <2>2, <2>3, <1>GroupFound
      <2>5. x = gs[i].frags
            BY <2>2, <2>3, Zenon DEF Before
      <2>6. x \in Seq(Frags)
            <3>1. gs \in Seq(Group) /\ i \in 1..Len(gs)
                  BY <2>4, Zenon DEF Finds, Keyed
            <3>2. gs[i] \in Group
                  BY <3>1, InSeq, Zenon
            <3>3. QED BY <2>5, <3>2, Zenon DEF Group
      <2>7. ASSUME ~PrevIsNull(x, f) PROVE Defrags(d, x, Insert(x, f), Defrag(groups, f))
            <3>1. PICK s : s = Insert(x, f)
                  BY Zenon
            <3>2. s \in Seq(Frags)
                  BY <2>1, <2>6, <2>7, <3>1, Inserted, Zenon
            <3>3. CASE Present(s)
                  <4>1. Defrag(groups, f) = [groups |-> Without(gs, i), packet |-> s]
                        BY <2>3, <2>5, <3>1, <3>3, Zenon DEF Defrag, Without
                  <4>2. /\ Defrag(groups, f).groups = Without(gs, i)
                        /\ Defrag(groups, f).packet = s
                        BY <4>1
                  <4>3. /\ Keyed(Without(gs, i)) /\ \A y : ~Holds(Without(gs, i), d.key, y)
                        /\ \A m, y : m # d.key =>
                              (Holds(Without(gs, i), m, y) <=> Holds(groups, m, y))
                        BY <2>4, <1>GroupTaken, Zenon
                  <4>4. QED BY <3>1, <3>3, <4>2, <4>3, Zenon DEF Defrags
            <3>4. CASE ~Present(s)
                  <4>1. PICK h : h = Changed(gs, i, s)
                        BY Zenon
                  <4>2. Defrag(groups, f) = [groups |-> h, packet |-> <<>>]
                        BY <2>3, <2>5, <3>1, <3>4, <4>1, Zenon DEF Defrag, Changed
                  <4>3. /\ Defrag(groups, f).groups = h /\ Defrag(groups, f).packet = <<>>
                        BY <4>2
                  <4>4. /\ Keyed(h) /\ \A y : Holds(h, d.key, y) <=> y = s
                        /\ \A m, y : m # d.key => (Holds(h, m, y) <=> Holds(groups, m, y))
                        <5>1. Finds(gs, i, d.key) /\ d.key \in Nat /\ s \in Seq(Frags)
                              BY <2>2, <2>4, <3>2, Zenon
                        <5>2. QED BY <4>1, <5>1, <1>GroupChanged
                  <4>5. QED BY <3>1, <3>4, <4>3, <4>4, Zenon DEF Defrags
            <3>5. QED BY <3>3, <3>4, Zenon
      <2>8. QED BY <2>1, <2>4, <2>5, <2>6, <2>7, Zenon
<1> TAKE d \in Datagrams
<1> TAKE k \in DOMAIN d.frags
<1> TAKE p, x, f
<1> HAVE /\ RxTypes /\ GroupsOK /\ IpRxFragment(p)
         /\ p = <<d, k>> /\ x = Before(p) /\ f = Frag(p)
<1>1. Keyed(groups) /\ \A m, y : Holds(groups, m, y) => Good(m, y)
      BY Zenon DEF GroupsOK, Holds
<1>2. /\ f \in Frags /\ x \in Seq(Frags)
      /\ Holds(groups, d.key, x) \/ (x = <<>> /\ \A y : ~Holds(groups, d.key, y))
      /\ ~PrevIsNull(x, f) => Defrags(d, x, Insert(x, f), Defrag(groups, f))
      BY <1>1, <1>DefragEffect, Zenon
<1>3. p[1] = d /\ p[2] = k
      BY Zenon
<1>4. Given(d, k)
      BY <1>3, Zenon DEF IpRxFragment, Given
<1>5. \A j \in DOMAIN x : CameWith(x[j], d.key)
      <2>1. CASE Holds(groups, d.key, x)
            BY <1>1, <2>1, Zenon DEF Good
      <2>2. CASE x = <<>>
            BY <2>2
      <2>3. QED BY <1>2, <2>1, <2>2, Zenon
<1>6. PrevIsNull(x, f) => daemon' = "crashed" /\ UNCHANGED <<groups, up>>
      BY Zenon DEF IpRxFragment
<1>7. ASSUME ~PrevIsNull(x, f) PROVE TakenIn(d, Insert(x, f))
      <2>1. PICK s, r : s = Insert(x, f) /\ r = Defrag(groups, f)
            BY Zenon
      <2>2. Defrags(d, x, s, r)
            BY <1>2, <1>7, <2>1, Zenon
      <2>3. s # <<>>
            <3>1. s \in Seq(Frags) /\ \E n \in 0..Len(x) : Put(s, x, f, n)
                  BY <1>2, <1>7, <2>1, Inserted, Zenon
            <3>2. Mix(s, x, f)
                  BY <1>2, <3>1, PutElements, Zenon
            <3>3. QED BY <3>2, Zenon DEF Mix
      <2>4. /\ groups' = r.groups
            /\ r.packet = <<>> => up' = up
            /\ r.packet # <<>> => Demux(d, r.packet)
            BY <1>3, <1>7, <2>1, Zenon DEF IpRxFragment
      <2>5. r.packet # <<>> =>
               up' = IF d.protocol \in {"TCP", "UDP"} THEN Append(up, r.packet) ELSE up
            BY <2>4, Zenon DEF Demux
      <2>6. CASE Present(s)
            <3>1. r.packet = s
                  BY <2>2, <2>6, Zenon DEF Defrags
            <3>2. up' = IF d.protocol \in {"TCP", "UDP"} THEN Append(up, s) ELSE up
                  BY <2>3, <2>5, <3>1, Zenon
            <3>3. QED BY <2>1, <2>2, <2>4, <2>6, <3>2, Zenon DEF Defrags, TakenIn
      <2>7. CASE ~Present(s)
            BY <2>1, <2>2, <2>4, <2>7, Zenon DEF Defrags, TakenIn
      <2>8. QED BY <2>6, <2>7, Zenon
<1>8. QED BY <1>2, <1>4, <1>5, <1>6, <1>7, Zenon

\* A packet is one of the fragments of a datagram.
LEMMA PacketIs ==
    ASSUME NEW p \in Packets
    PROVE  \E d \in Datagrams : \E k \in DOMAIN d.frags : p = <<d, k>>
<1>1. PICK d \in Datagrams : p \in {d} \X (1..Len(d.frags))
      BY Zenon DEF Packets
<1>2. PICK k \in 1..Len(d.frags) : p = <<d, k>>
      BY <1>1
<1>3. QED BY <1>2, FragsAre, Zenon

\* The fragment taken is added to those seen of its datagram, and to no other.
LEMMA SeenGrows ==
    ASSUME RxTypes, NEW d \in Datagrams, NEW k \in DOMAIN d.frags, Given(d, k)
    PROVE  /\ seen' \in [Datagrams -> Seq(Nat)]
           /\ \A e \in Datagrams : e # d => seen'[e] = seen[e]
           /\ DOMAIN seen[d] = 1..Len(seen[d]) /\ DOMAIN seen'[d] = 1..(Len(seen[d]) + 1)
           /\ Len(seen[d]) \in Nat
           /\ seen'[d][Len(seen[d]) + 1] = k
           /\ \A j \in 1..Len(seen[d]) : seen'[d][j] = seen[d][j]
           /\ \A e \in Datagrams : \A j \in DOMAIN seen'[e] : seen'[e][j] \in DOMAIN e.frags
<1>1. seen \in [Datagrams -> Seq(Nat)] /\ k \in Nat
      <2>1. seen \in [Datagrams -> Seq(Nat)]
            BY Zenon DEF RxTypes
      <2>2. PICK n \in Nat : k \in 1..n
            BY FragsAre, Zenon
      <2>3. k \in Nat
            BY <2>2
      <2>4. QED BY <2>1, <2>3, Zenon
<1>2. PICK S : S = Seq(Nat)
      BY Zenon
<1>3. seen[d] \in Seq(Nat) /\ Append(seen[d], k) \in Seq(Nat)
      BY <1>1
<1>4. /\ seen' \in [Datagrams -> S] /\ seen'[d] = Append(seen[d], k)
      /\ \A e \in Datagrams : e # d => seen'[e] = seen[e]
      BY <1>1, <1>2, <1>3, Zenon DEF Given
<1>5. /\ DOMAIN seen[d] = 1..Len(seen[d]) /\ DOMAIN seen'[d] = 1..(Len(seen[d]) + 1)
      /\ Len(seen[d]) \in Nat
      /\ seen'[d][Len(seen[d]) + 1] = k
      /\ \A j \in 1..Len(seen[d]) : seen'[d][j] = seen[d][j]
      BY <1>1, <1>3, <1>4
<1>6. ASSUME NEW e \in Datagrams, NEW j \in DOMAIN seen'[e] PROVE seen'[e][j] \in DOMAIN e.frags
      <2>1. CASE e # d
            BY <1>4, <2>1, Zenon DEF RxTypes
      <2>2. CASE e = d
            <3>1. CASE j = Len(seen[d]) + 1
                  BY <1>5, <2>2, <3>1, Zenon
            <3>2. CASE j # Len(seen[d]) + 1
                  <4>1. j \in 1..Len(seen[d])
                        BY <1>5, <2>2, <3>2
                  <4>2. QED BY <1>5, <2>2, <4>1, Zenon DEF RxTypes
            <3>3. QED BY <3>1, <3>2, Zenon
      <2>3. QED BY <2>1, <2>2, Zenon
<1>7. QED BY <1>2, <1>4, <1>5, <1>6, Zenon

\* So it is the only one that has come in this step.
LEMMA CameGrows ==
    ASSUME RxTypes, NEW d \in Datagrams, NEW k \in DOMAIN d.frags, Given(d, k)
    PROVE  /\ \A e \in Datagrams : \A f : Came(f, e) => Came(f, e)'
           /\ \A e \in Datagrams : e # d => \A f : Came(f, e)' <=> Came(f, e)
           /\ \A f : Came(f, d)' <=> Came(f, d) \/ f = Frag(<<d, k>>)
<1>1. /\ \A e \in Datagrams : e # d => seen'[e] = seen[e]
      /\ DOMAIN seen[d] = 1..Len(seen[d]) /\ DOMAIN seen'[d] = 1..(Len(seen[d]) + 1)
      /\ Len(seen[d]) \in Nat
      /\ seen'[d][Len(seen[d]) + 1] = k
      /\ \A j \in 1..Len(seen[d]) : seen'[d][j] = seen[d][j]
      BY SeenGrows, Zenon
<1>2. ASSUME NEW e \in Datagrams, e # d, NEW f PROVE Came(f, e)' <=> Came(f, e)
      BY <1>1, <1>2, Zenon DEF Came
<1>3. ASSUME NEW f, Came(f, d) PROVE Came(f, d)'
      <2>1. PICK j \in 1..Len(seen[d]) : f = Frag(<<d, seen[d][j]>>)
            BY <1>1, <1>3, Zenon DEF Came
      <2>2. j \in DOMAIN seen'[d] /\ f = Frag(<<d, seen'[d][j]>>)
            BY <1>1, <2>1
      <2>3. QED BY <2>2, Zenon DEF Came
<1>4. Came(Frag(<<d, k>>), d)'
      <2>1. Len(seen[d]) + 1 \in DOMAIN seen'[d]
            BY <1>1
      <2>2. QED BY <1>1, <2>1, Zenon DEF Came
<1>5. ASSUME NEW f, Came(f, d)', f # Frag(<<d, k>>) PROVE Came(f, d)
      <2>1. PICK j \in 1..(Len(seen[d]) + 1) : f = Frag(<<d, seen'[d][j]>>)
            BY <1>1, <1>5, Zenon DEF Came
      <2>2. j # Len(seen[d]) + 1
            BY <1>1, <1>5, <2>1, Zenon
      <2>3. j \in 1..Len(seen[d])
            BY <1>1, <2>1, <2>2, OneMore, Zenon
      <2>4. QED BY <1>1, <2>1, <2>3, Zenon DEF Came
<1>6. QED BY <1>2, <1>3, <1>4, <1>5, Zenon

\* What the other steps do to reassembly: nothing; unfragmented packets go up.
GoesUp(s) == up' = Append(up, s) /\ Formed(s)

\* A step takes a fragment, passes a whole packet up, or leaves reassembly alone.
LEMMA RxSteps ==
    RxTypes /\ [Next]_vars
    => \/ UNCHANGED <<groups, seen, up>>
       \/ UNCHANGED <<groups, seen>> /\ \E s : GoesUp(s)
       \/ \E d \in Datagrams : \E k \in DOMAIN d.frags : IpRxFragment(<<d, k>>)
<1>WholeStep.
      ASSUME NEW p \in Packets, IpRxWhole(p)
      PROVE  /\ UNCHANGED <<groups, seen>>
             /\ up' = up \/ \E s : GoesUp(s)
      <2> USE <1>WholeStep
      <2>1. PICK d \in Datagrams : \E k \in DOMAIN d.frags : p = <<d, k>>
            BY PacketIs, Zenon
      <2>2. PICK k \in DOMAIN d.frags : p = <<d, k>>
            BY <2>1, Zenon
      <2>3. PICK f, s : f = Frag(p) /\ s = <<f>>
            BY Zenon
      <2>4. f \in Frags /\ s \in Seq(Frags) /\ s # <<>> /\ DOMAIN s = {1} /\ s[1] = f /\ Len(s) = 1
            <3>1. f \in Frags
                  BY <2>3, Zenon DEF Frags
            <3>2. QED BY <2>3, <3>1
      <2>5. f.off \in Nat /\ f.mf \in BOOLEAN
            BY <2>4, FragTypes, Zenon
      <2>6. FragOff(f) = 0
            BY <2>3, Zenon DEF IpRxWhole, isFrag
      <2>7. f.off = 0 /\ ~f.mf
            <3>1. CASE f.mf
                  BY <2>5, <2>6, <3>1 DEF FragOff
            <3>2. CASE ~f.mf
                  BY <2>5, <2>6, <3>2 DEF FragOff
            <3>3. QED BY <3>1, <3>2, Zenon
      <2>8. Present(s)
            BY <2>4, <2>7 DEF Present
      <2>9. Formed(s)
            BY <2>4, <2>8, Zenon DEF Formed
      <2>10. UNCHANGED <<groups, seen>> /\ Demux(d, s)
            BY <2>2, <2>3, Zenon DEF IpRxWhole
      <2>11. up' = IF d.protocol \in {"TCP", "UDP"} THEN Append(up, s) ELSE up
            BY <2>10, Zenon DEF Demux
      <2>12. QED BY <2>9, <2>10, <2>11, Zenon DEF GoesUp
<1> SUFFICES ASSUME RxTypes, [Next]_vars
             PROVE  \/ UNCHANGED <<groups, seen, up>>
                    \/ UNCHANGED <<groups, seen>> /\ \E s : GoesUp(s)
                    \/ \E d \in Datagrams : \E k \in DOMAIN d.frags : IpRxFragment(<<d, k>>)
    BY Zenon
<1>1. CASE UNCHANGED vars
      BY <1>1, Zenon DEF vars, ipVars
<1>2. CASE TunThread
      BY <1>2, Zenon DEF TunThread, TunRx, TunRxFails, TunExits, TunGone, ipVars
<1>3. ASSUME NEW t, TxStep(t) PROVE UNCHANGED <<groups, seen, up>>
      BY <1>3, Zenon DEF TxStep, NextTests, NextLoads, NextStores, Transmits, TxOnly
<1>4. CASE LoopThread
      BY <1>3, <1>4, Zenon DEF LoopThread, LoopSends, TxOnly
<1>5. CASE IpThread
      <2>1. CASE IpTests
            BY <2>1, Zenon DEF IpTests
      <2>2. ASSUME NEW p \in Range(rxQ), IpRxShort(p) PROVE UNCHANGED <<groups, seen, up>>
            BY <2>2, Zenon DEF IpRxShort
      <2>3. \A p \in Range(rxQ) : p \in Packets
            BY DEF Range, RxTypes
      <2>4. ASSUME NEW p \in Range(rxQ), IpRxWhole(p)
            PROVE  /\ UNCHANGED <<groups, seen>>
                   /\ up' = up \/ \E s : GoesUp(s)
            BY <2>3, <2>4, <1>WholeStep, Zenon
      <2>5. ASSUME NEW p \in Range(rxQ), IpRxFragment(p)
            PROVE  \E d \in Datagrams : \E k \in DOMAIN d.frags : IpRxFragment(<<d, k>>)
            <3>1. \E d \in Datagrams : \E k \in DOMAIN d.frags : p = <<d, k>>
                  BY <2>3, PacketIs, Zenon
            <3>2. QED BY <2>5, <3>1, Zenon
      <2>6. QED BY <1>3, <1>5, <2>1, <2>2, <2>4, <2>5, Zenon DEF IpThread
<1>6. QED BY <1>1, <1>2, <1>4, <1>5, Zenon DEF Next

\* f and the fragments of its group, all with key k, are the chain s.
Chained(s, f, k) ==
    /\ s \in Seq(Frags) /\ s # <<>> /\ \A j \in DOMAIN s : s[j].key = k
    /\ \A j \in DOMAIN s : CameWith(s[j], k)'
    /\ \A j \in DOMAIN s : s[j] = f \/ CameWith(s[j], k)

\* What is put in has all come.
LEMMA TakenInIs ==
    ASSUME RxTypes, GroupsOK, NEW d \in Datagrams, NEW k \in DOMAIN d.frags,
           IpRxFragment(<<d, k>>),
           NEW x, x = Before(<<d, k>>), NEW f, f = Frag(<<d, k>>), ~PrevIsNull(x, f),
           NEW s, s = Insert(x, f)
    PROVE  Chained(s, f, d.key)
<1>1. /\ Given(d, k) /\ f \in Frags /\ x \in Seq(Frags)
      /\ \A j \in DOMAIN x : CameWith(x[j], d.key)
      BY FragmentStep, Zenon
<1>2. PICK n : s \in Seq(Frags) /\ Put(s, x, f, n)
      BY <1>1, Inserted, Zenon
<1>3. /\ s # <<>>
      /\ \A j \in DOMAIN s : s[j] = f \/ \E i \in DOMAIN x : s[j] = x[i]
      <2>1. Mix(s, x, f)
            BY <1>1, <1>2, PutElements, Zenon
      <2>2. QED BY <2>1, Zenon DEF Mix
<1>4. /\ \A e \in Datagrams : \A g : Came(g, e) => Came(g, e)'
      /\ Came(f, d)'
      BY <1>1, CameGrows, Zenon
<1>5. \A g : CameWith(g, d.key) \/ g = f => CameWith(g, d.key)'
      BY <1>4, Zenon DEF CameWith
<1>6. \A g : CameWith(g, d.key)' => g.key = d.key
      <2>1. ASSUME NEW g, CameWith(g, d.key)' PROVE g.key = d.key
            <3>1. PICK e \in Datagrams : e.key = d.key /\ Came(g, e)'
                  BY <2>1, Zenon DEF CameWith
            <3>2. PICK i : g = Frag(<<e, i>>)
                  BY <3>1, Zenon DEF Came
            <3>3. QED BY <3>1, <3>2, FragFields, Zenon
      <2>2. QED BY <2>1, Zenon
<1>7. QED BY <1>1, <1>2, <1>3, <1>5, <1>6, Zenon DEF Chained

\* defrag keeps its groups apart, each of one key and incomplete.
LEMMA GroupsKept ==
    ASSUME RxTypes, GroupsOK, [Next]_vars
    PROVE  GroupsOK'
<1>1. Keyed(groups) /\ \A m, y : Holds(groups, m, y) => Good(m, y)
      BY Zenon DEF GroupsOK, Holds
<1>2. CASE UNCHANGED <<groups, seen>>
      <2>1. \A m, y : Good(m, y) => Good(m, y)'
            BY <1>2, Zenon DEF Good, CameWith, Came
      <2>2. QED BY <1>2, <2>1, Zenon DEF GroupsOK, Keyed
<1>3. ASSUME NEW d \in Datagrams, NEW k \in DOMAIN d.frags, IpRxFragment(<<d, k>>)
      PROVE  GroupsOK'
      <2>1. PICK x, f : x = Before(<<d, k>>) /\ f = Frag(<<d, k>>)
            BY Zenon
      <2>2. /\ Given(d, k)
            /\ PrevIsNull(x, f) => UNCHANGED groups
            /\ ~PrevIsNull(x, f) => TakenIn(d, Insert(x, f))
            BY <1>3, <2>1, FragmentStep, Zenon
      <2>3. \A m, y : Good(m, y) => Good(m, y)'
            <3>1. \A e \in Datagrams : \A g : Came(g, e) => Came(g, e)'
                  BY <2>2, CameGrows, Zenon
            <3>2. QED BY <3>1, Zenon DEF Good, CameWith
      <2>4. CASE PrevIsNull(x, f)
            BY <2>2, <2>3, <2>4, Zenon DEF GroupsOK, Keyed
      <2>5. CASE ~PrevIsNull(x, f)
            <3>1. PICK s : s = Insert(x, f)
                  BY Zenon
            <3>2. TakenIn(d, s)
                  BY <2>2, <2>5, <3>1, Zenon
            <3>3. Chained(s, f, d.key)
                  BY <1>3, <2>1, <2>5, <3>1, TakenInIs, Zenon
            <3>4. ASSUME NEW m, NEW y, Holds(groups', m, y) PROVE Good(m, y)'
                  <4>1. CASE m = d.key
                        <5>1. ~Present(s) /\ y = s
                              BY <3>2, <3>4, <4>1, Zenon DEF TakenIn
                        <5>2. QED BY <3>3, <4>1, <5>1, Zenon DEF Good, Chained
                  <4>2. CASE m # d.key
                        <5>1. Holds(groups, m, y)
                              BY <3>2, <3>4, <4>2, Zenon DEF TakenIn
                        <5>2. QED BY <1>1, <2>3, <5>1, Zenon
                  <4>3. QED BY <4>1, <4>2, Zenon
            <3>5. Keyed(groups')
                  BY <3>2, Zenon DEF TakenIn
            <3>6. ASSUME NEW i \in DOMAIN groups' PROVE Good(groups[i].key, groups[i].frags)'
                  <4>1. PICK m, y : m = groups'[i].key /\ y = groups'[i].frags
                        BY Zenon
                  <4>2. Holds(groups', m, y)
                        BY <4>1, Zenon DEF Holds
                  <4>3. Good(m, y)'
                        BY <3>4, <4>2, Zenon
                  <4>4. QED BY <4>1, <4>3, Zenon DEF Good
            <3>7. QED BY <3>5, <3>6, Zenon DEF GroupsOK, Keyed
      <2>6. QED BY <2>4, <2>5, Zenon
<1>4. QED BY <1>2, <1>3, RxSteps, Zenon

\* What a fragment adds to what the transports are given: nothing, or a complete
\* chain of fragments that have come.
LEMMA FragmentGoesUp ==
    ASSUME RxTypes, GroupsOK, NEW d \in Datagrams, NEW k \in DOMAIN d.frags,
           IpRxFragment(<<d, k>>)
    PROVE  \/ up' = up
           \/ \E s : /\ GoesUp(s)
                     /\ \A j \in DOMAIN s : s[j] = Frag(<<d, k>>) \/ CameWith(s[j], d.key)
<1>1. PICK x, f : x = Before(<<d, k>>) /\ f = Frag(<<d, k>>)
      BY Zenon
<1>2. /\ PrevIsNull(x, f) => UNCHANGED up
      /\ ~PrevIsNull(x, f) => TakenIn(d, Insert(x, f))
      BY <1>1, FragmentStep, Zenon
<1>3. CASE PrevIsNull(x, f)
      BY <1>2, <1>3, Zenon
<1>4. CASE ~PrevIsNull(x, f)
      <2>1. PICK s : s = Insert(x, f)
            BY Zenon
      <2>2. TakenIn(d, s)
            BY <1>2, <1>4, <2>1, Zenon
      <2>3. Chained(s, f, d.key)
            BY <1>1, <1>4, <2>1, TakenInIs, Zenon
      <2>4. Present(s) => Formed(s)
            BY <2>3, Zenon DEF Formed, Chained
      <2>5. up' = up \/ GoesUp(s)
            BY <2>2, <2>4, Zenon DEF TakenIn, GoesUp
      <2>6. QED BY <1>1, <2>3, <2>5, Zenon DEF Chained
<1>5. QED BY <1>3, <1>4, Zenon

\* What the transports are given: as before, or one complete chain more.
LEMMA UpGrows ==
    ASSUME RxTypes, GroupsOK, [Next]_vars
    PROVE  up' = up \/ \E s : GoesUp(s)
BY FragmentGoesUp, RxSteps, Zenon

\* Only complete chains go up.
LEMMA UpKept ==
    ASSUME RxTypes, GroupsOK, UpOK, [Next]_vars
    PROVE  UpOK' /\ up' \in Seq(Seq(Frags))
<1>1. PICK S : S = Seq(Frags)
      BY Zenon
<1>2. up \in Seq(S)
      BY <1>1, Zenon DEF RxTypes
<1>3. CASE up' = up
      BY <1>1, <1>2, <1>3, Zenon DEF UpOK
<1>4. ASSUME NEW w, GoesUp(w) PROVE UpOK' /\ up' \in Seq(S)
      <2>1. w \in S /\ Formed(w)
            BY <1>1, <1>4, Zenon DEF GoesUp, Formed
      <2>2. up' = Append(up, w)
            BY <1>4, Zenon DEF GoesUp
      <2>3. /\ up' \in Seq(S) /\ DOMAIN up = 1..Len(up) /\ DOMAIN up' = 1..(Len(up) + 1)
            /\ up'[Len(up) + 1] = w /\ \A i \in 1..Len(up) : up'[i] = up[i]
            BY <1>2, <2>1, <2>2
      <2>4. ASSUME NEW i \in DOMAIN up' PROVE Formed(up'[i])
            <3>1. CASE i = Len(up) + 1
                  BY <2>1, <2>3, <3>1, Zenon
            <3>2. CASE i # Len(up) + 1
                  <4>1. i \in DOMAIN up /\ up'[i] = up[i]
                        BY <1>2, <2>3, <3>2
                  <4>2. QED BY <4>1, Zenon DEF UpOK
            <3>3. QED BY <3>1, <3>2, Zenon
      <2>5. QED BY <2>3, <2>4, Zenon DEF UpOK
<1>5. QED BY <1>1, <1>3, <1>4, UpGrows, Zenon

=============================================================================
