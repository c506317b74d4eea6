-------------------------- MODULE EndpointProofs ---------------------------
(***************************************************************************)
(* Proofs about Endpoint, for every set of sockets, every queue limit and  *)
(* pipe capacity and every number of packets.                              *)
(***************************************************************************)
EXTENDS Endpoint, TLAPS

\* Moving the head of the second part to the end of the first changes nothing.
LEMMA MoveHead ==
    ASSUME NEW S, NEW a \in Seq(S), NEW b \in Seq(S), b # <<>>
    PROVE  Append(a, Head(b)) \o Tail(b) = a \o b
  OBVIOUS

-----------------------------------------------------------------------------
(* Type correctness.                                                       *)

\* Handing the head of a queue to its caller keeps the types.
LEMMA HandOverType ==
    ASSUME TypeOK, NEW s \in Sockets, HandOver(s)
    PROVE  /\ recvQ' \in [Sockets -> Seq(Packets)]
           /\ delivered' \in [Sockets -> Seq(Packets)]
           /\ client' \in [Sockets -> ClientStates]
  <1>1. recvQ[s] \in Seq(Packets) /\ recvQ[s] # <<>>
    BY DEF TypeOK, HandOver
  <1>2. Head(recvQ[s]) \in Packets /\ Tail(recvQ[s]) \in Seq(Packets)
    BY <1>1
  <1>3. recvQ' \in [Sockets -> Seq(Packets)]
    BY <1>2 DEF TypeOK, HandOver
  <1>4. delivered' \in [Sockets -> Seq(Packets)]
    BY <1>2 DEF TypeOK, HandOver
  <1>5. client' \in [Sockets -> ClientStates]
    BY DEF TypeOK, HandOver, ClientStates
  <1> QED
    BY <1>3, <1>4, <1>5

\* An arriving packet gets the next number, which is a packet.
LEMMA ArrivalType ==
    ASSUME TypeOK, NEW s \in Sockets, arrived[s] < MaxPackets,
           arrived' = [arrived EXCEPT ![s] = @ + 1]
    PROVE  /\ arrived' \in [Sockets -> 0..MaxPackets]
           /\ arrived'[s] = arrived[s] + 1
           /\ arrived'[s] \in Packets
  <1>1. arrived[s] \in Nat
    BY DEF TypeOK
  <1>2. arrived[s] + 1 \in 1..MaxPackets
    BY <1>1, ConstantsAssumption
  <1>3. arrived \in [Sockets -> 0..MaxPackets]
    BY DEF TypeOK
  <1>4. arrived'[s] = arrived[s] + 1
    BY <1>3
  <1>5. arrived' \in [Sockets -> 0..MaxPackets]
    BY <1>2, <1>3
  <1> QED
    BY <1>2, <1>4, <1>5 DEF Packets

\* TypeOK is inductive.
LEMMA TypeInductive ==
    ASSUME TypeOK, [Next]_vars
    PROVE  TypeOK'
  <1>1. ASSUME NEW s \in Sockets, PutToRecvQ(s) PROVE TypeOK'
    <2>1. /\ arrived' \in [Sockets -> 0..MaxPackets]
          /\ arrived'[s] \in Packets
      BY <1>1, ArrivalType DEF PutToRecvQ
    <2>2. recvQ' \in [Sockets -> Seq(Packets)]
      BY <1>1, <2>1 DEF PutToRecvQ, TypeOK
    <2>3. accepted' \in [Sockets -> Seq(Packets)]
      BY <1>1, <2>1 DEF PutToRecvQ, TypeOK
    <2> QED
      BY <1>1, <2>1, <2>2, <2>3 DEF PutToRecvQ, TypeOK
  <1>2. ASSUME NEW s \in Sockets, DropAtRecvQ(s) PROVE TypeOK'
    <2>1. arrived' \in [Sockets -> 0..MaxPackets]
      BY <1>2, ArrivalType DEF DropAtRecvQ
    <2> QED
      BY <1>2, <2>1 DEF DropAtRecvQ, TypeOK
  <1>3. ASSUME NEW s \in Sockets, MarkSChannelAsReadable(s) PROVE TypeOK'
    <2>1. pipe[s] \in 0..PipeCapacity
      BY DEF TypeOK
    <2>2. (IF pipe[s] < PipeCapacity THEN pipe[s] + 1 ELSE pipe[s])
            \in 0..PipeCapacity
      BY <2>1, ConstantsAssumption
    <2>3. pipe' \in [Sockets -> 0..PipeCapacity]
      BY <1>3, <2>2 DEF MarkSChannelAsReadable, TypeOK
    <2> QED
      BY <1>3, <2>3 DEF MarkSChannelAsReadable, TypeOK
  <1>4. ASSUME NEW s \in Sockets, CallRecvfrom(s) PROVE TypeOK'
    BY <1>4 DEF CallRecvfrom, TypeOK, ClientStates
  <1>5. ASSUME NEW s \in Sockets, RecvfromTakes(s) PROVE TypeOK'
    BY <1>5, HandOverType DEF RecvfromTakes, TypeOK
  <1>6. ASSUME NEW s \in Sockets, RecvfromAgain(s) PROVE TypeOK'
    BY <1>6 DEF RecvfromAgain, TypeOK, ClientStates
  <1>7. ASSUME NEW s \in Sockets, RecvfromWaits(s) PROVE TypeOK'
    BY <1>7 DEF RecvfromWaits, TypeOK, ClientStates
  <1>8. ASSUME NEW s \in Sockets, SChannelReadCb(s) PROVE TypeOK'
    <2>1. pipe' \in [Sockets -> 0..PipeCapacity]
      BY <1>8, ConstantsAssumption DEF SChannelReadCb, TypeOK
    <2>2. loopAt' \in Sockets \cup {NoSocket}
      BY <1>8 DEF SChannelReadCb
    <2> QED
      BY <1>8, <2>1, <2>2 DEF SChannelReadCb, TypeOK
  <1>9. ASSUME NEW s \in Sockets, TakeFromRecvQ(s) PROVE TypeOK'
    <2>1. waiting' \in [Sockets -> BOOLEAN]
      BY <1>9 DEF TakeFromRecvQ, TypeOK
    <2> QED
      BY <1>9, <2>1, HandOverType DEF TakeFromRecvQ, TypeOK
  <1>10. CASE UNCHANGED vars
    BY <1>10 DEF vars, TypeOK
  <1> QED
    BY <1>1, <1>2, <1>3, <1>4, <1>5, <1>6, <1>7, <1>8, <1>9, <1>10
    DEF Next, IpThread, LoopThread, RecvfromCall

\* Every variable of the receive path always has its type.
THEOREM TypeCorrect == Spec => []TypeOK
  <1>1. Init => TypeOK
    BY ConstantsAssumption DEF Init, TypeOK, ClientStates
  <1>2. TypeOK /\ [Next]_vars => TypeOK'
    BY TypeInductive
  <1> QED
    BY <1>1, <1>2, PTL DEF Spec
-----------------------------------------------------------------------------
(* The queue: nothing is lost, repeated or reordered, and it is bounded.   *)

\* The two halves of RecvQIsExact: what was enqueued is what was returned and what
\* is queued,
FifoDelivery ==
    \A s \in Sockets : accepted[s] = delivered[s] \o recvQ[s]

\* and that is at most one packet more than recvQlimit.
RecvQBound ==
    \A s \in Sockets : Len(recvQ[s]) <= RecvQLimit + 1

\* Handing over the head of a queue keeps FifoDelivery and the bound.
LEMMA HandOverKeepsQueue ==
    ASSUME TypeOK, FifoDelivery, RecvQBound, NEW s \in Sockets, HandOver(s),
           UNCHANGED accepted
    PROVE  FifoDelivery' /\ RecvQBound'
  <1>1. /\ recvQ[s] \in Seq(Packets) /\ recvQ[s] # <<>>
        /\ delivered[s] \in Seq(Packets)
    BY DEF TypeOK, HandOver
  <1>2. Append(delivered[s], Head(recvQ[s])) \o Tail(recvQ[s])
          = delivered[s] \o recvQ[s]
    BY <1>1, MoveHead
  <1>3. Len(Tail(recvQ[s])) <= Len(recvQ[s])
    BY <1>1
  <1>4. ASSUME NEW r \in Sockets
        PROVE  /\ accepted'[r] = delivered'[r] \o recvQ'[r]
               /\ Len(recvQ'[r]) <= RecvQLimit + 1
    <2>1. CASE r = s
      <3>1. /\ recvQ'[s] = Tail(recvQ[s])
            /\ delivered'[s] = Append(delivered[s], Head(recvQ[s]))
        BY DEF HandOver, TypeOK
      <3>2. Len(recvQ[s]) <= RecvQLimit + 1 /\ Len(recvQ[s]) \in Nat
        BY <1>1 DEF RecvQBound
      <3>3. Len(Tail(recvQ[s])) \in Nat
        BY <1>1
      <3>4. Len(recvQ'[r]) <= RecvQLimit + 1
        BY <1>3, <2>1, <3>1, <3>2, <3>3, ConstantsAssumption
      <3> QED
        BY <1>2, <2>1, <3>1, <3>4 DEF FifoDelivery
    <2>2. CASE r # s
      <3>1. recvQ'[r] = recvQ[r] /\ delivered'[r] = delivered[r]
        BY <2>2 DEF HandOver, TypeOK
      <3> QED
        BY <3>1 DEF FifoDelivery, RecvQBound
    <2> QED
      BY <2>1, <2>2
  <1> QED
    BY <1>4 DEF FifoDelivery, RecvQBound

\* FifoDelivery and RecvQBound are inductive together.
LEMMA QueueInductive ==
    ASSUME TypeOK, FifoDelivery, RecvQBound, [Next]_vars
    PROVE  FifoDelivery' /\ RecvQBound'
  <1>1. ASSUME NEW s \in Sockets, PutToRecvQ(s)
        PROVE  FifoDelivery' /\ RecvQBound'
    <2>1. PICK p \in Packets : p = arrived'[s]
      BY <1>1, ArrivalType DEF PutToRecvQ
    <2>2. recvQ[s] \in Seq(Packets) /\ delivered[s] \in Seq(Packets)
      BY DEF TypeOK
    <2>3. /\ recvQ'[s] = Append(recvQ[s], p)
          /\ accepted'[s] = Append(accepted[s], p)
          /\ delivered' = delivered
          /\ Len(recvQ[s]) <= RecvQLimit
      BY <1>1, <2>1 DEF PutToRecvQ, TypeOK
    <2>9. \A r \in Sockets \ {s} : recvQ'[r] = recvQ[r]
                                   /\ accepted'[r] = accepted[r]
      BY <1>1 DEF PutToRecvQ, TypeOK
    <2>4. Append(delivered[s] \o recvQ[s], p) = delivered[s] \o Append(recvQ[s], p)
      <3>1. PICK a \in Seq(Packets) : a = delivered[s]
        BY <2>2
      <3>2. PICK b \in Seq(Packets) : b = recvQ[s]
        BY <2>2
      <3>3. Append(a \o b, p) = a \o Append(b, p)
        OBVIOUS
      <3> QED
        BY <3>1, <3>2, <3>3
    <2>5. Len(Append(recvQ[s], p)) = Len(recvQ[s]) + 1 /\ Len(recvQ[s]) \in Nat
      BY <2>1, <2>2
    <2>6. Len(recvQ'[s]) <= RecvQLimit + 1
      BY <2>3, <2>5, ConstantsAssumption
    <2>7. FifoDelivery'
      BY <2>3, <2>4, <2>9 DEF FifoDelivery
    <2>8. RecvQBound'
      BY <2>6, <2>9 DEF RecvQBound
    <2> QED
      BY <2>7, <2>8
  <1>2. ASSUME NEW s \in Sockets, RecvfromTakes(s)
        PROVE  FifoDelivery' /\ RecvQBound'
    BY <1>2, HandOverKeepsQueue DEF RecvfromTakes
  <1>3. ASSUME NEW s \in Sockets, TakeFromRecvQ(s)
        PROVE  FifoDelivery' /\ RecvQBound'
    BY <1>3, HandOverKeepsQueue DEF TakeFromRecvQ
  <1>4. ASSUME UNCHANGED <<recvQ, accepted, delivered>>
        PROVE  FifoDelivery' /\ RecvQBound'
    BY <1>4 DEF FifoDelivery, RecvQBound
  <1> QED
    BY <1>1, <1>2, <1>3, <1>4
    DEF Next, IpThread, LoopThread, RecvfromCall, DropAtRecvQ,
        MarkSChannelAsReadable, CallRecvfrom, RecvfromAgain, RecvfromWaits,
        SChannelReadCb, vars

\* recvfrom returns exactly the packets putToRecvQ enqueued, in order, and a queue
\* never holds more than recvQlimit + 1 of them.
THEOREM QueueIsExact == Spec => []RecvQIsExact
  <1>1. Init => FifoDelivery /\ RecvQBound
    BY ConstantsAssumption DEF Init, FifoDelivery, RecvQBound
  <1>2. TypeOK /\ FifoDelivery /\ RecvQBound /\ [Next]_vars
            => (FifoDelivery /\ RecvQBound)'
    BY QueueInductive
  <1>3. FifoDelivery /\ RecvQBound => RecvQIsExact
    BY DEF FifoDelivery, RecvQBound, RecvQIsExact
  <1> QED
    BY <1>1, <1>2, <1>3, TypeCorrect, PTL DEF Spec
-----------------------------------------------------------------------------
(* The wake-up protocol.                                                   *)

\* The loop only ever sits in wait_dequeue for a socket whose caller is parked
\* on it, and the waiting flag is up for exactly the parked callers: the
\* packet it takes has somebody to go to.
LoopTakesForParked ==
    /\ loopAt # NoSocket => client[loopAt] = "parked"
    /\ \A s \in Sockets : waiting[s] <=> client[s] = "parked"

\* The waiting flag, the parked callers and the loop's position agree, and no
\* wake-up is lost: the two are inductive together.
LEMMA WakeupInductive ==
    ASSUME TypeOK, NoLostWakeup, LoopTakesForParked, [Next]_vars
    PROVE  NoLostWakeup' /\ LoopTakesForParked'
  <1> USE DEF NoLostWakeup, LoopTakesForParked
  <1> DEFINE Inv == NoLostWakeup /\ LoopTakesForParked
  <1>1. ASSUME NEW s \in Sockets, PutToRecvQ(s) PROVE Inv'
    <2>1. \A r \in Sockets \ {s} : recvQ'[r] = recvQ[r]
      BY <1>1 DEF PutToRecvQ, TypeOK
    <2>2. /\ ipAt' = s
          /\ UNCHANGED <<pipe, waiting, loopAt, client>>
          /\ ipAt \notin Sockets
      BY <1>1, ConstantsAssumption DEF PutToRecvQ
    <2> QED
      BY <2>1, <2>2
  <1>2. ASSUME NEW s \in Sockets, DropAtRecvQ(s) PROVE Inv'
    BY <1>2 DEF DropAtRecvQ, TypeOK
  <1>3. ASSUME NEW s \in Sockets, MarkSChannelAsReadable(s) PROVE Inv'
    <2>1. pipe[s] \in Nat /\ PipeCapacity \in Nat /\ PipeCapacity > 0
      BY ConstantsAssumption DEF TypeOK
    <2>2. pipe'[s] = IF pipe[s] < PipeCapacity THEN pipe[s] + 1 ELSE pipe[s]
      BY <1>3 DEF MarkSChannelAsReadable, TypeOK
    <2>3. pipe'[s] > 0
      BY <2>1, <2>2
    <2>4. \A r \in Sockets \ {s} : pipe'[r] = pipe[r]
      BY <1>3 DEF MarkSChannelAsReadable, TypeOK
    <2> QED
      BY <1>3, <2>3, <2>4 DEF MarkSChannelAsReadable
  <1>4. ASSUME NEW s \in Sockets, CallRecvfrom(s) PROVE Inv'
    BY <1>4 DEF CallRecvfrom, TypeOK
  <1>5. ASSUME NEW s \in Sockets, RecvfromTakes(s) PROVE Inv'
    BY <1>5 DEF RecvfromTakes, HandOver, TypeOK
  <1>6. ASSUME NEW s \in Sockets, RecvfromAgain(s) PROVE Inv'
    BY <1>6 DEF RecvfromAgain, TypeOK
  <1>7. ASSUME NEW s \in Sockets, RecvfromWaits(s) PROVE Inv'
    <2>1. /\ waiting'[s] = TRUE
          /\ client'[s] = "parked"
          /\ \A r \in Sockets \ {s} : client'[r] = client[r] /\ waiting'[r] = waiting[r]
      BY <1>7 DEF RecvfromWaits, TypeOK
    <2>2. /\ recvQ[s] = <<>>
          /\ loopAt = NoSocket
          /\ UNCHANGED <<recvQ, pipe, ipAt, loopAt>>
      BY <1>7 DEF RecvfromWaits
    <2> QED
      BY <2>1, <2>2
  <1>8. ASSUME NEW s \in Sockets, SChannelReadCb(s) PROVE Inv'
    <2>1. /\ loopAt = NoSocket
          /\ loopAt' = IF waiting[s] THEN s ELSE NoSocket
          /\ UNCHANGED <<recvQ, waiting, ipAt, client>>
      BY <1>8 DEF SChannelReadCb
    <2>2. \A r \in Sockets \ {s} : pipe'[r] = pipe[r]
      BY <1>8 DEF SChannelReadCb, TypeOK
    <2>3. LoopTakesForParked'
      BY <2>1
    <2>4. NoLostWakeup'
      BY <2>1, <2>2, ConstantsAssumption
    <2> QED
      BY <2>3, <2>4
  <1>9. ASSUME NEW s \in Sockets, TakeFromRecvQ(s) PROVE Inv'
    BY <1>9 DEF TakeFromRecvQ, HandOver, TypeOK
  <1>10. CASE UNCHANGED vars
    BY <1>10 DEF vars
  <1> QED
    BY <1>1, <1>2, <1>3, <1>4, <1>5, <1>6, <1>7, <1>8, <1>9, <1>10
    DEF Next, IpThread, LoopThread, RecvfromCall

\* Whenever a parked caller has a packet queued, a wake-up is under way.
THEOREM NoLostWakeupCorrect == Spec => []NoLostWakeup
  <1>1. Init => NoLostWakeup /\ LoopTakesForParked
    BY DEF Init, NoLostWakeup, LoopTakesForParked
  <1>2. TypeOK /\ NoLostWakeup /\ LoopTakesForParked /\ [Next]_vars
            => (NoLostWakeup /\ LoopTakesForParked)'
    BY WakeupInductive
  <1> QED
    BY <1>1, <1>2, TypeCorrect, PTL DEF Spec

\* The loop waits in wait_dequeue only for a parked caller, and the waiting
\* flag is up for exactly the parked callers.
THEOREM LoopTakesForParkedCorrect == Spec => []LoopTakesForParked
  <1>1. Init => NoLostWakeup /\ LoopTakesForParked
    BY DEF Init, NoLostWakeup, LoopTakesForParked
  <1>2. TypeOK /\ NoLostWakeup /\ LoopTakesForParked /\ [Next]_vars
            => (NoLostWakeup /\ LoopTakesForParked)'
    BY WakeupInductive
  <1> QED
    BY <1>1, <1>2, TypeCorrect, PTL DEF Spec
-----------------------------------------------------------------------------
(* Arrival order.                                                          *)

\* The strengthening DeliveredInOrder needs: the accepted packets increase, and
\* none of them is newer than the last arrival.
AcceptedInOrder ==
    \A s \in Sockets :
        /\ Increasing(accepted[s])
        /\ \A i \in 1..Len(accepted[s]) : accepted[s][i] <= arrived[s]

\* Appending a number above all others keeps a sequence increasing.
LEMMA AppendIncreasing ==
    ASSUME NEW q \in Seq(Packets), NEW n \in Nat, NEW x \in Packets, x = n + 1,
           Increasing(q), \A i \in 1..Len(q) : q[i] <= n
    PROVE  /\ Increasing(Append(q, x))
           /\ \A i \in 1..Len(Append(q, x)) : Append(q, x)[i] <= x
  <1>1. Len(Append(q, x)) = Len(q) + 1 /\ Len(q) \in Nat
    OBVIOUS
  <1>2. \A i \in 1..Len(q) : q[i] \in Packets
    OBVIOUS
  <1>3. \A i \in 1..Len(q) : Append(q, x)[i] = q[i]
    OBVIOUS
  <1>4. \A i \in 1..Len(q) : Append(q, x)[i] = q[i] /\ q[i] \in Nat
    BY <1>2, <1>3 DEF Packets
  <1>5. Append(q, x)[Len(q) + 1] = x
    OBVIOUS
  <1>6. \A i \in 1..Len(q) : Append(q, x)[i] < x
    BY <1>4
  <1>7. ASSUME NEW i \in 1..(Len(q) + 1), NEW j \in 1..(Len(q) + 1), i < j
        PROVE  Append(q, x)[i] < Append(q, x)[j]
    <2>1. i \in 1..Len(q)
      BY <1>1, <1>7
    <2>2. CASE j = Len(q) + 1
      BY <1>5, <1>6, <2>1, <2>2
    <2>3. CASE j # Len(q) + 1
      <3>1. j \in 1..Len(q)
        BY <1>1, <2>3
      <3> QED
        BY <1>4, <1>7, <2>1, <3>1 DEF Increasing
    <2> QED
      BY <2>2, <2>3
  <1>8. Increasing(Append(q, x))
    BY <1>1, <1>7 DEF Increasing
  <1>9. ASSUME NEW i \in 1..(Len(q) + 1)
        PROVE  Append(q, x)[i] <= x
    <2>1. i \in 1..Len(q) \/ i = Len(q) + 1
      BY <1>1
    <2> QED
      BY <1>4, <1>5, <1>6, <2>1
  <1> QED
    BY <1>1, <1>8, <1>9

\* AcceptedInOrder is inductive.
LEMMA OrderInductive ==
    ASSUME TypeOK, AcceptedInOrder, [Next]_vars
    PROVE  AcceptedInOrder'
  <1>1. ASSUME NEW s \in Sockets, PutToRecvQ(s) PROVE AcceptedInOrder'
    <2>1. arrived'[s] = arrived[s] + 1 /\ arrived[s] \in Nat
      BY <1>1, ArrivalType DEF PutToRecvQ, TypeOK
    <2>2. PICK q \in Seq(Packets) : q = accepted[s]
      BY DEF TypeOK
    <2>3. PICK x \in Packets : x = arrived'[s]
      BY <1>1, ArrivalType DEF PutToRecvQ
    <2>4. Increasing(q) /\ \A i \in 1..Len(q) : q[i] <= arrived[s]
      BY <2>2 DEF AcceptedInOrder
    <2>5. /\ Increasing(Append(q, x))
          /\ \A i \in 1..Len(Append(q, x)) : Append(q, x)[i] <= x
      BY <2>1, <2>3, <2>4, AppendIncreasing
    <2>6. accepted'[s] = Append(q, x)
      BY <1>1, <2>2, <2>3 DEF PutToRecvQ, TypeOK
    <2>7. \A r \in Sockets \ {s} : accepted'[r] = accepted[r]
                                   /\ arrived'[r] = arrived[r]
      BY <1>1 DEF PutToRecvQ, TypeOK
    <2> QED
      BY <2>3, <2>5, <2>6, <2>7 DEF AcceptedInOrder
  <1>2. ASSUME NEW s \in Sockets, DropAtRecvQ(s) PROVE AcceptedInOrder'
    <2>1. arrived'[s] = arrived[s] + 1 /\ arrived[s] \in Nat
      BY <1>2, ArrivalType DEF DropAtRecvQ, TypeOK
    <2>2. accepted' = accepted
          /\ \A r \in Sockets \ {s} : arrived'[r] = arrived[r]
      BY <1>2 DEF DropAtRecvQ, TypeOK
    <2>3. accepted[s] \in Seq(Packets)
      BY DEF TypeOK
    <2>4. ASSUME NEW i \in 1..Len(accepted[s])
          PROVE  accepted[s][i] <= arrived'[s]
      <3>1. accepted[s][i] \in Packets
        BY <2>3
      <3>2. accepted[s][i] \in Nat
        BY <3>1 DEF Packets
      <3>3. accepted[s][i] <= arrived[s]
        BY DEF AcceptedInOrder
      <3> QED
        BY <2>1, <3>2, <3>3
    <2> QED
      BY <2>2, <2>4 DEF AcceptedInOrder
  <1>3. ASSUME UNCHANGED <<accepted, arrived>> PROVE AcceptedInOrder'
    BY <1>3 DEF AcceptedInOrder
  <1> QED
    BY <1>1, <1>2, <1>3
    DEF Next, IpThread, LoopThread, RecvfromCall, MarkSChannelAsReadable,
        CallRecvfrom, RecvfromTakes, RecvfromAgain, RecvfromWaits,
        SChannelReadCb, TakeFromRecvQ, vars

\* A caller sees packets in the order in which the IP thread saw them.
THEOREM DeliveredInOrderCorrect == Spec => []DeliveredInOrder
  <1>1. Init => AcceptedInOrder
    <2>1. Init => \A s \in Sockets : accepted[s] = <<>>
      BY DEF Init
    <2>2. 1..Len(<<>>) = {}
      OBVIOUS
    <2> QED
      BY <2>1, <2>2 DEF AcceptedInOrder, Increasing
  <1>2. TypeOK /\ AcceptedInOrder /\ [Next]_vars => AcceptedInOrder'
    BY OrderInductive
  <1>3. ASSUME TypeOK, RecvQIsExact, AcceptedInOrder PROVE DeliveredInOrder
    <2>1. ASSUME NEW s \in Sockets PROVE Increasing(delivered[s])
      <3>1. PICK d \in Seq(Packets) : d = delivered[s]
        BY <1>3 DEF TypeOK
      <3>2. PICK q \in Seq(Packets) : q = recvQ[s]
        BY <1>3 DEF TypeOK
      <3>3. Increasing(d \o q)
        BY <1>3, <3>1, <3>2 DEF RecvQIsExact, AcceptedInOrder
      <3>4. /\ Len(d \o q) = Len(d) + Len(q) /\ Len(d) \in Nat /\ Len(q) \in Nat
            /\ \A i \in 1..Len(d) : (d \o q)[i] = d[i]
        OBVIOUS
      <3>5. \A i \in 1..Len(d) : i \in 1..Len(d \o q)
        BY <3>4
      <3>6. Increasing(d)
        BY <3>3, <3>4, <3>5 DEF Increasing
      <3> QED
        BY <3>1, <3>6
    <2> QED
      BY <2>1 DEF DeliveredInOrder
  <1> QED
    BY <1>1, <1>2, <1>3, TypeCorrect, QueueIsExact, PTL DEF Spec
-----------------------------------------------------------------------------
(* Refinement.                                                             *)

\* Every socket implements the mailbox promise.
THEOREM MailboxRefined == Spec => ImplementsMailbox
  <1>1. Init => Box!BoxInit
    BY DEF Init, Box!BoxInit
  <1>2. ASSUME TypeOK, LoopTakesForParked, [Next]_vars
        PROVE  [Box!BoxNext]_(Box!boxVars)
    <2>1. ASSUME NEW s \in Sockets, PutToRecvQ(s)
          PROVE  \E p \in Packets : Box!Accept(s, p)
      <3>1. arrived'[s] \in Packets
        BY <1>2, <2>1, ArrivalType DEF PutToRecvQ
      <3>2. Len(recvQ[s]) \in Nat
        BY <1>2 DEF TypeOK
      <3>3. Len(recvQ[s]) < RecvQLimit + 1
        BY <2>1, <3>2, ConstantsAssumption DEF PutToRecvQ
      <3>4. Box!Accept(s, arrived'[s])
        BY <2>1, <3>3 DEF PutToRecvQ, Box!Accept
      <3> QED
        BY <3>1, <3>4
    <2>2. ASSUME NEW s \in Sockets, CallRecvfrom(s) PROVE Box!Ask(s)
      BY <1>2, <2>2 DEF CallRecvfrom, Box!Ask, TypeOK
    <2>3. ASSUME NEW s \in Sockets, client[s] # "idle", HandOver(s)
          PROVE  Box!Return(s)
      BY <1>2, <2>3 DEF HandOver, Box!Return, TypeOK
    <2>4. ASSUME NEW s \in Sockets, RecvfromTakes(s) PROVE Box!Return(s)
      BY <2>3, <2>4 DEF RecvfromTakes
    <2>5. ASSUME NEW s \in Sockets, TakeFromRecvQ(s) PROVE Box!Return(s)
      BY <1>2, <2>3, <2>5, ConstantsAssumption
      DEF TakeFromRecvQ, LoopTakesForParked
    <2>6. ASSUME NEW s \in Sockets, RecvfromAgain(s) PROVE Box!ReturnAgain(s)
      BY <1>2, <2>6 DEF RecvfromAgain, Box!ReturnAgain, TypeOK
    <2>7. ASSUME NEW s \in Sockets, RecvfromWaits(s) PROVE UNCHANGED Box!boxVars
      BY <1>2, <2>7 DEF RecvfromWaits, Box!boxVars, TypeOK
    <2>8. ASSUME UNCHANGED <<recvQ, client, delivered>>
          PROVE  UNCHANGED Box!boxVars
      BY <2>8 DEF Box!boxVars
    <2> QED
      BY <1>2, <2>1, <2>2, <2>4, <2>5, <2>6, <2>7, <2>8
      DEF Next, IpThread, LoopThread, RecvfromCall, DropAtRecvQ,
          MarkSChannelAsReadable, SChannelReadCb, vars, Box!BoxNext
  <1> QED
    BY <1>1, <1>2, TypeCorrect, LoopTakesForParkedCorrect, PTL
    DEF Spec, ImplementsMailbox, Box!BoxSpec
=============================================================================
