----------------------------- MODULE RpcProofs ------------------------------
(***************************************************************************)
(* Proofs about module Rpc, for any finite set of application threads that *)
(* share one socket of any kind, whatever calls they make.                 *)
(***************************************************************************)
EXTENDS Rpc, FiniteSetTheorems, TLAPS

-----------------------------------------------------------------------------
(* Counting.                                                               *)

\* A set that lost x, gained y, or lost one and gained the other.
LEMMA Smaller ==
    ASSUME NEW A, IsFiniteSet(A), NEW B, B \subseteq A
    PROVE  IsFiniteSet(B) /\ Cardinality(B) <= Cardinality(A)
BY FS_Subset, Zenon

LEMMA OneMore ==
    ASSUME NEW A, IsFiniteSet(A), NEW B, NEW x, B \subseteq A \cup {x}
    PROVE  IsFiniteSet(B) /\ Cardinality(B) <= Cardinality(A) + 1
<1>1. /\ IsFiniteSet(A \cup {x})
      /\ Cardinality(A \cup {x}) = IF x \in A THEN Cardinality(A)
                                             ELSE Cardinality(A) + 1
      BY FS_AddElement, Zenon
<1>2. Cardinality(A) \in Nat /\ Cardinality(A \cup {x}) \in Nat
      BY <1>1, FS_CardinalityType, Zenon
<1>3. IsFiniteSet(B) /\ Cardinality(B) <= Cardinality(A \cup {x})
      BY <1>1, Smaller, Zenon
<1>4. Cardinality(B) \in Nat
      BY <1>3, FS_CardinalityType, Zenon
<1>5. QED BY <1>1, <1>2, <1>3, <1>4

LEMMA OneLess ==
    ASSUME NEW A, IsFiniteSet(A), NEW B, NEW x \in A, B \subseteq A \ {x}
    PROVE  IsFiniteSet(B) /\ Cardinality(B) <= Cardinality(A) - 1
<1>1. IsFiniteSet(A \ {x}) /\ Cardinality(A \ {x}) = Cardinality(A) - 1
      BY FS_RemoveElement, Zenon
<1>2. QED BY <1>1, Smaller, Zenon

LEMMA Exchanged ==
    ASSUME NEW A, IsFiniteSet(A), NEW B, NEW x \in A, NEW y,
           B \subseteq (A \ {x}) \cup {y}
    PROVE  IsFiniteSet(B) /\ Cardinality(B) <= Cardinality(A)
<1>1. IsFiniteSet(A \ {x}) /\ Cardinality(A \ {x}) = Cardinality(A) - 1
      BY FS_RemoveElement, Zenon
<1>2. IsFiniteSet(B) /\ Cardinality(B) <= Cardinality(A \ {x}) + 1
      BY <1>1, OneMore, Zenon
<1>3. Cardinality(A) \in Nat
      BY FS_CardinalityType, Zenon
<1>4. QED BY <1>1, <1>2, <1>3

\* Finals counts within a finite interval.
LEMMA FinalsFinite ==
    ASSUME NEW q \in Seq(Responses)
    PROVE  IsFiniteSet(Finals(q)) /\ Cardinality(Finals(q)) \in Nat
<1>1. IsFiniteSet(1..Len(q))
      BY FS_Interval
<1>2. Finals(q) \subseteq 1..Len(q)
      BY Zenon DEF Finals
<1>3. QED BY <1>1, <1>2, Smaller, FS_CardinalityType, Zenon

\* A response written to the channel.
LEMMA FinalsAppend ==
    ASSUME NEW q \in Seq(Responses), NEW r \in Responses
    PROVE  /\ ~IsFinal(r) => Cardinality(Finals(Append(q, r))) <= Cardinality(Finals(q))
           /\ Cardinality(Finals(Append(q, r))) <= Cardinality(Finals(q)) + 1
<1>1. /\ Len(Append(q, r)) = Len(q) + 1 /\ Len(q) \in Nat
      /\ \A i \in 1..Len(q) : Append(q, r)[i] = q[i]
      /\ Append(q, r)[Len(q) + 1] = r
      OBVIOUS
<1>2. \A i \in 1..(Len(q) + 1) : i \in 1..Len(q) \/ i = Len(q) + 1
      BY <1>1
<1>3. Finals(Append(q, r)) \subseteq Finals(q) \cup {Len(q) + 1}
      BY <1>1, <1>2, Zenon DEF Finals
<1>4. ~IsFinal(r) => Finals(Append(q, r)) \subseteq Finals(q)
      BY <1>1, <1>2, Zenon DEF Finals
<1>5. QED BY <1>3, <1>4, FinalsFinite, OneMore, Smaller, Zenon

\* A response read from the channel.
LEMMA FinalsTail ==
    ASSUME NEW q \in Seq(Responses), q # <<>>
    PROVE  /\ Cardinality(Finals(Tail(q))) <= Cardinality(Finals(q))
           /\ IsFinal(Head(q)) =>
                 Cardinality(Finals(Tail(q))) <= Cardinality(Finals(q)) - 1
<1>1. /\ Tail(q) \in Seq(Responses)
      /\ Len(q) \in Nat /\ Len(q) # 0 /\ Len(Tail(q)) = Len(q) - 1
      /\ \A i \in 1..Len(Tail(q)) : Tail(q)[i] = q[i + 1]
      /\ Head(q) = q[1]
      OBVIOUS
<1> DEFINE S == Finals(q) \ {1}
           f == [i \in Finals(Tail(q)) |-> i + 1]
<1>2. \A i \in Finals(Tail(q)) : i \in Nat /\ i + 1 \in S
      BY <1>1 DEF Finals
<1>3. f \in Injection(Finals(Tail(q)), S)
      BY <1>2 DEF Injection, IsInjective
<1>4. IsFiniteSet(Finals(q)) /\ Cardinality(Finals(q)) \in Nat
      BY FinalsFinite, Zenon
<1>5. /\ IsFiniteSet(S)
      /\ Cardinality(S) = IF 1 \in Finals(q) THEN Cardinality(Finals(q)) - 1
                                             ELSE Cardinality(Finals(q))
      BY <1>4, FS_RemoveElement, Zenon
<1>6. Cardinality(Finals(Tail(q))) <= Cardinality(S)
      BY <1>3, <1>5, FS_Injection, Zenon
<1>7. IsFinal(Head(q)) => 1 \in Finals(q)
      BY <1>1 DEF Finals
<1>8. Cardinality(Finals(Tail(q))) \in Nat
      BY <1>1, FinalsFinite, Zenon
<1> HIDE DEF S
<1>9. QED BY <1>4, <1>5, <1>6, <1>7, <1>8
-----------------------------------------------------------------------------
(* The invariant.                                                          *)

\* What goes with what: a channel that is not open holds no response; nothing is
\* under way for a channel that was not accepted; a SYN that was sent has taken
\* the session out of CLOSED; the loop takes a packet only for a caller; and the
\* responses about to be written are those of TcpResponsesAreSound.
InStep ==
    /\ chan = "none" => agent = "none" /\ c2d = <<>>
    /\ chan # "open" => d2c = <<>>
    /\ reset => chan = "closed"
    /\ agent = "none" => loopAt = "idle" /\ ~waiting /\ ipAt = "idle" /\ conn = "CLOSED"
    /\ synOut => conn # "CLOSED"
    /\ loopAt = "take" => waiting
    /\ ipAt = "estab" /\ Listed => conn = "ESTABLISHED"
    /\ loopAt = "write" =>
          /\ resp # Answer("connect", "done")
          /\ resp.retcode = "unset" => sockType = "udp" \/ chan = "closed"


Calling == {t \in Threads : InCall(t)}

IInv == TypeOK /\ InStep /\ TcpResponsesAreSound /\ AtMostOneAnswer

\* The responses a daemon thread may write.
LEMMA ResponseTypes ==
    /\ WaitNext \in Responses /\ Empty \in Responses
    /\ \A c \in Calls, r \in Rets :
          /\ Answer(c, r) \in Responses
          /\ [Answer(c, r) EXCEPT !.retcode = "unset"] \in Responses
BY Zenon DEF WaitNext, Empty, Answer, Responses, RetCodes, Rets

\* One message put into, and one taken out of, a channel of messages M.
LEMMA ChannelTypes ==
    ASSUME NEW M, NEW q \in Seq(M)
    PROVE  /\ Len(q) \in Nat
           /\ \A x \in M : Append(q, x) \in Seq(M) /\ Len(Append(q, x)) = Len(q) + 1
           /\ q # <<>> => /\ Head(q) \in M /\ Tail(q) \in Seq(M)
                          /\ Len(Tail(q)) = Len(q) - 1
OBVIOUS

\* A request is read and the type of everything else follows from the response.
LEMMA HandleType ==
    ASSUME TypeOK, NEW c, NEW r \in Responses, Handle(c, r),
           waiting' \in BOOLEAN, notified' \in BOOLEAN, recvQ' \in 0..MaxQueued,
           conn' \in {"CLOSED", "SYN_SENT", "ESTABLISHED"},
           synOut' \in BOOLEAN, bound' \in BOOLEAN
    PROVE  TypeOK'
<1>1. c2d' \in Seq(Calls)
      BY ChannelTypes, Zenon DEF TypeOK, Handle, Reads
<1>2. QED BY <1>1, Zenon DEF TypeOK, Handle, Reads, AgentStates, args, client

\* AgentChannel::write, by either thread.
Writes(r) == Write(r, {"unregistered", "reported"})

\* It keeps the types of the channel, and does not change Arbiter's list.
LEMMA WriteType ==
    ASSUME TypeOK, NEW r \in Responses, Writes(r)
    PROVE  /\ d2c' \in Seq(Responses) /\ agent' \in AgentStates /\ reset' \in BOOLEAN
           /\ Listed' <=> Listed
<1>1. d2c' \in Seq(Responses)
      BY ChannelTypes, Zenon DEF TypeOK, Writes, Write
<1>2. reset' \in BOOLEAN
      BY Zenon DEF TypeOK, Writes, Write
<1>3. agent' \in AgentStates /\ (Listed' <=> Listed)
      <2>1. \/ agent' = agent
            \/ agent = "open" /\ agent' \in {"unregistered", "reported"}
            BY Zenon DEF Writes, Write
      <2>2. QED BY <2>1, Zenon DEF TypeOK, AgentStates, Listed
<1>4. QED BY <1>1, <1>2, <1>3, Zenon

\* The write at the end of onReadReady is one of them.
LEMMA WriteEither ==
    ASSUME NEW r, Write(r, {"unregistered"})
    PROVE  Writes(r)
BY Zenon DEF Writes, Write

\* Every step of the application's threads keeps the types.
LEMMA ClientType == TypeOK /\ ClientStep => TypeOK'
<1> SUFFICES ASSUME TypeOK, ClientStep PROVE TypeOK'
    BY Zenon
<1>1. /\ \A x \in Calls : Append(c2d, x) \in Seq(Calls)
      /\ d2c # <<>> => Tail(d2c) \in Seq(Responses)
      /\ <<>> \in Seq(Responses)
      BY ChannelTypes DEF TypeOK
<1>2. ASSUME NEW t \in Threads, Socket(t) PROVE TypeOK'
      BY <1>1, <1>2, Zenon DEF Socket, ChanSend, TypeOK, Calls, args, endpoint, session
<1>3. ASSUME NEW t \in Threads, NEW c \in Calls, Call(t, c) PROVE TypeOK'
      BY <1>1, <1>3, Zenon DEF Call, ChanSend, TypeOK, args, endpoint, session
<1>4. ASSUME NEW t \in Threads, RecvWaitNext(t) PROVE TypeOK'
      BY <1>1, <1>4, Zenon DEF RecvWaitNext, TypeOK, args, client, endpoint, session
<1>5. ASSUME NEW t \in Threads, RecvAnswer(t) PROVE TypeOK'
      BY <1>1, <1>5 DEF RecvAnswer, TypeOK, args, endpoint, session
<1>6. ASSUME NEW t \in Threads, RecvCloseAnswer(t) PROVE TypeOK'
      BY <1>1, <1>6, Zenon DEF RecvCloseAnswer, TypeOK, args, endpoint, session
<1>7. ASSUME NEW t \in Threads, RecvUnpackFails(t) PROVE TypeOK'
      BY <1>1, <1>7, Zenon DEF RecvUnpackFails, TypeOK, args, endpoint, session
<1>8. ASSUME ClientDies PROVE TypeOK'
      BY <1>1, <1>8, Zenon DEF ClientDies, TypeOK, args, endpoint, session
<1>9. QED BY <1>2, <1>3, <1>4, <1>5, <1>6, <1>7, <1>8, Zenon DEF ClientStep, Receive

\* Every request handler keeps the types.
LEMMA RequestType == TypeOK /\ HandleRequest => TypeOK'
<1> SUFFICES ASSUME TypeOK, HandleRequest PROVE TypeOK'
    BY Zenon
<1>1. CASE SocketCall \/ CloseCall \/ GetpeernameCall \/ GetsocknameCall
      BY <1>1, HandleType, ResponseTypes
      DEF SocketCall, CloseCall, GetpeernameCall, GetsocknameCall, TypeOK, Calls, Rets,
          endpoint, session
<1>2. CASE ConnectUdp
      BY <1>2, HandleType, ResponseTypes, Zenon DEF ConnectUdp, TypeOK, Calls, Rets, endpoint
<1>3. CASE ConnectInProgress
      BY <1>3, HandleType, ResponseTypes, Zenon
      DEF ConnectInProgress, TypeOK, Calls, Rets, endpoint, session
<1>4. CASE ConnectWaitEstab
      BY <1>4, HandleType, ResponseTypes, Zenon DEF ConnectWaitEstab, TypeOK, endpoint
<1>5. CASE SendtoCall
      BY <1>5, HandleType, ResponseTypes, Zenon DEF SendtoCall, TypeOK, Calls, Rets, endpoint
<1>6. CASE RecvfromTakes
      <2>1. recvQ' \in 0..MaxQueued
            BY <1>6, RpcAssumption DEF RecvfromTakes, TypeOK
      <2>2. QED BY <1>6, <2>1, HandleType, ResponseTypes, Zenon
                DEF RecvfromTakes, TypeOK, Calls, Rets, session
<1>7. CASE RecvfromAgain
      BY <1>7, HandleType, ResponseTypes, Zenon
      DEF RecvfromAgain, TypeOK, Calls, Rets, endpoint, session
<1>8. CASE RecvfromWaits
      BY <1>8, HandleType, ResponseTypes, Zenon DEF RecvfromWaits, TypeOK, session
<1>9. CASE ReadFails
      BY <1>9, ResponseTypes, Zenon DEF ReadFails, Reads, AgentStates, TypeOK, args, endpoint, session
<1>10. CASE ReadEof
      <2>1. recvQ' \in 0..MaxQueued
            BY <1>10, RpcAssumption DEF ReadEof
      <2>2. QED BY <1>10, <2>1, Zenon DEF ReadEof, AgentStates, TypeOK, args, client
<1>11. QED BY <1>1, <1>2, <1>3, <1>4, <1>5, <1>6, <1>7, <1>8, <1>9, <1>10, Zenon
           DEF HandleRequest

\* Every step keeps the types.
LEMMA TypeStep == TypeOK /\ [Next]_vars => TypeOK'
<1> SUFFICES ASSUME TypeOK, [Next]_vars PROVE TypeOK'
    BY Zenon
<1>1. CASE ClientStep BY <1>1, ClientType, Zenon
<1>2. CASE HandleRequest BY <1>2, RequestType, Zenon
<1>3. CASE OnNewConnection
      BY <1>3, Zenon DEF OnNewConnection, AgentStates, TypeOK, args, client, endpoint, session
<1>4. CASE WriteResponse
      <2>1. resp \in Responses BY Zenon DEF TypeOK
      <2>2. Writes(resp)
            BY <1>4, WriteEither, Zenon DEF WriteResponse
      <2>3. QED BY <1>4, <2>1, <2>2, WriteType, ResponseTypes, Zenon
                DEF WriteResponse, TypeOK, args, endpoint, session
<1>5. CASE SChannelReadCb
      BY <1>5, Zenon DEF SChannelReadCb, TypeOK, args, client, session
<1>6. CASE OnAsyncNewPacket
      <2>1. Answer("recvfrom", "done") \in Responses
            BY ResponseTypes, Zenon DEF Calls, Rets
      <2>2. recvQ' \in 0..MaxQueued
            BY <1>6, RpcAssumption DEF OnAsyncNewPacket, TypeOK
      <2>3. Writes(Answer("recvfrom", "done"))
            BY <1>6, Zenon DEF OnAsyncNewPacket, Writes
      <2>4. QED BY <1>6, <2>1, <2>2, <2>3, WriteType, Zenon
                DEF OnAsyncNewPacket, TypeOK, args, session
<1>7. CASE PacketArrives
      <2>1. recvQ' \in 0..MaxQueued
            BY <1>7, RpcAssumption DEF PacketArrives, TypeOK
      <2>2. QED BY <1>7, <2>1, Zenon DEF PacketArrives, TypeOK, args, client, session
<1>8. CASE RecvSynAck
      BY <1>8, Zenon DEF RecvSynAck, TypeOK, args, client, endpoint
<1>9. CASE OnConnEstab
      <2>1. Answer("connect", "done") \in Responses
            BY ResponseTypes, Zenon DEF Calls, Rets
      <2>2. d2c' \in Seq(Responses) /\ agent' \in AgentStates /\ reset' \in BOOLEAN
            BY <1>9, <2>1, WriteType, Zenon DEF OnConnEstab, Writes, TypeOK
      <2>3. QED BY <1>9, <2>2, Zenon DEF OnConnEstab, TypeOK, args, endpoint, session
<1>10. CASE UNCHANGED vars
      BY <1>10, Zenon DEF vars, TypeOK, args, client, endpoint, session
<1>11. QED BY <1>1, <1>2, <1>3, <1>4, <1>5, <1>6, <1>7, <1>8, <1>9, <1>10, Zenon
           DEF Next, LoopStep, IpStep
-----------------------------------------------------------------------------
\* Every step keeps InStep.
LEMMA InStepStep == TypeOK /\ InStep /\ [Next]_vars => InStep'
<1> SUFFICES ASSUME TypeOK, InStep, [Next]_vars PROVE InStep'
    BY Zenon
<1> USE DEF InStep, Listed, args, client, endpoint, session
<1>1. ASSUME NEW t \in Threads, Socket(t) PROVE InStep'
      BY <1>1, Zenon DEF Socket
<1>2. ASSUME NEW t \in Threads, NEW c \in Calls, Call(t, c) PROVE InStep'
      BY <1>2, Zenon DEF Call
<1>3. ASSUME NEW t \in Threads, RecvWaitNext(t) \/ RecvAnswer(t) PROVE InStep'
      BY <1>3 DEF RecvWaitNext, RecvAnswer
<1>4. ASSUME NEW t \in Threads, RecvCloseAnswer(t) \/ RecvUnpackFails(t) PROVE InStep'
      BY <1>4 DEF RecvCloseAnswer, RecvUnpackFails
<1>5. CASE ClientDies BY <1>5, Zenon DEF ClientDies
<1>6. CASE OnNewConnection BY <1>6, Zenon DEF OnNewConnection
<1>7. CASE SocketCall \/ CloseCall \/ GetpeernameCall \/ GetsocknameCall
      BY <1>7 DEF SocketCall, CloseCall, GetpeernameCall, GetsocknameCall, Handle, Reads, Answer
<1>8. CASE ConnectUdp BY <1>8, Zenon DEF ConnectUdp, Handle, Reads, Answer
<1>9. CASE ConnectInProgress BY <1>9, Zenon DEF ConnectInProgress, Handle, Reads, Answer
<1>10. CASE ConnectWaitEstab BY <1>10, Zenon DEF ConnectWaitEstab, Handle, Reads, WaitNext, Answer
<1>11. CASE SendtoCall BY <1>11, Zenon DEF SendtoCall, Handle, Reads, Answer
<1>12. CASE RecvfromTakes \/ RecvfromAgain
       BY <1>12 DEF RecvfromTakes, RecvfromAgain, Handle, Reads, Answer
<1>13. CASE RecvfromWaits BY <1>13, Zenon DEF RecvfromWaits, Handle, Reads, WaitNext, Answer
<1>14. CASE ReadFails BY <1>14, Zenon DEF ReadFails, Reads, Empty, Answer
<1>15. CASE ReadEof BY <1>15, Zenon DEF ReadEof
<1>16. CASE WriteResponse BY <1>16, Zenon DEF WriteResponse, Write
<1>17. CASE SChannelReadCb BY <1>17, Zenon DEF SChannelReadCb
<1>18. CASE OnAsyncNewPacket BY <1>18, Zenon DEF OnAsyncNewPacket, Write
<1>19. CASE PacketArrives \/ RecvSynAck BY <1>19 DEF PacketArrives, RecvSynAck
<1>20. CASE OnConnEstab BY <1>20, Zenon DEF OnConnEstab, Write
<1>21. CASE UNCHANGED vars BY <1>21, Zenon DEF vars
<1>22. QED BY <1>1, <1>2, <1>3, <1>4, <1>5, <1>6, <1>7, <1>8, <1>9, <1>10, <1>11,
              <1>12, <1>13, <1>14, <1>15, <1>16, <1>17, <1>18, <1>19, <1>20, <1>21, Zenon
           DEF Next, ClientStep, Receive, LoopStep, HandleRequest, IpStep

\* What TcpResponsesAreSound asks of one response, with the session
\* in state c.
SoundResponse(r, c) ==
    /\ r.retcode # "unset"
    /\ r = Answer("connect", "done") => c = "ESTABLISHED"

\* A sound response may be written, and any may be read, where the connection
\* stays established.
LEMMA SoundChannel ==
    ASSUME TypeOK, TcpResponsesAreSound, sockType' = sockType,
           conn = "ESTABLISHED" => conn' = "ESTABLISHED",
           \/ d2c' = d2c
           \/ d2c' = <<>>
           \/ d2c # <<>> /\ d2c' = Tail(d2c)
           \/ \E r \in Responses : d2c' = Append(d2c, r)
                                   /\ (sockType = "tcp" => SoundResponse(r, conn'))
    PROVE  TcpResponsesAreSound'
<1> SUFFICES ASSUME sockType = "tcp", NEW i \in 1..Len(d2c')
             PROVE  SoundResponse(d2c'[i], conn')
    BY Zenon DEF TcpResponsesAreSound, ResponsesInitialized, SoundResponse
<1>1. PICK q \in Seq(Responses) : q = d2c
      BY Zenon DEF TypeOK
<1>2. \A j \in 1..Len(q) : SoundResponse(q[j], conn)
      BY <1>1, Zenon DEF TcpResponsesAreSound, ResponsesInitialized, SoundResponse
<1>3. \A j \in 1..Len(q) : SoundResponse(q[j], conn')
      BY <1>1, <1>2, Zenon DEF SoundResponse
<1>4. CASE d2c' = d2c BY <1>1, <1>3, <1>4, Zenon
<1>5. CASE d2c' = <<>> BY <1>5
<1>6. CASE d2c # <<>> /\ d2c' = Tail(d2c)
      <2>1. /\ Len(q) \in Nat /\ Len(Tail(q)) = Len(q) - 1
            /\ \A j \in 1..Len(Tail(q)) : Tail(q)[j] = q[j + 1]
            BY <1>1, <1>6
      <2>2. i \in 1..Len(Tail(q)) /\ d2c'[i] = Tail(q)[i]
            BY <1>1, <1>6, Zenon
      <2>3. i + 1 \in 1..Len(q)
            BY <2>1, <2>2
      <2>4. QED BY <1>3, <2>1, <2>2, <2>3, Zenon
<1>7. ASSUME NEW r \in Responses, d2c' = Append(d2c, r), SoundResponse(r, conn')
      PROVE  SoundResponse(d2c'[i], conn')
      <2>1. /\ Len(q) \in Nat /\ Len(Append(q, r)) = Len(q) + 1
            /\ \A j \in 1..Len(q) : Append(q, r)[j] = q[j]
            /\ Append(q, r)[Len(q) + 1] = r
            OBVIOUS
      <2>2. i \in 1..Len(q) \/ i = Len(q) + 1
            BY <1>1, <1>7, <2>1
      <2>3. QED BY <1>1, <1>3, <1>7, <2>1, <2>2, Zenon
<1>8. QED BY <1>4, <1>5, <1>6, <1>7, Zenon

\* Every step keeps TcpResponsesAreSound: only the two writers of the daemon add
\* to the channel, and only the end of a closed channel undoes a handshake.
LEMMA SoundStep ==
    TypeOK /\ InStep /\ TcpResponsesAreSound /\ [Next]_vars => TcpResponsesAreSound'
<1> SUFFICES ASSUME TypeOK, InStep, TcpResponsesAreSound, [Next]_vars
             PROVE  TcpResponsesAreSound'
    BY Zenon
<1>1. CASE ClientStep
      <2>1. /\ sockType' = sockType /\ conn' = conn
            /\ \/ d2c' = d2c \/ d2c' = <<>>
               \/ d2c # <<>> /\ d2c' = Tail(d2c)
            BY <1>1, Zenon DEF ClientStep, Receive, Socket, Call, RecvWaitNext, RecvAnswer,
                        RecvCloseAnswer, RecvUnpackFails, ClientDies, args, session
      <2>2. QED BY <2>1, SoundChannel, Zenon
<1>2. CASE HandleRequest
      <2>1. CASE ReadEof
            <3>1. d2c' = <<>> /\ sockType' = sockType
                  BY <2>1, Zenon DEF ReadEof, InStep, args
            <3>2. 1..Len(<<>>) = {}
                  OBVIOUS
            <3>3. QED BY <3>1, <3>2, Zenon DEF TcpResponsesAreSound, ResponsesInitialized
      <2>2. CASE ~ReadEof
            <3>1. /\ sockType' = sockType /\ d2c' = d2c
                  /\ conn = "ESTABLISHED" => conn' = "ESTABLISHED"
                  BY <1>2, <2>2, Zenon
                  DEF HandleRequest, Handle, Reads, SocketCall, CloseCall, GetpeernameCall,
                      GetsocknameCall, ConnectUdp, ConnectInProgress, ConnectWaitEstab,
                      SendtoCall, RecvfromTakes, RecvfromAgain, RecvfromWaits, ReadFails,
                      args, session
            <3>2. QED BY <3>1, SoundChannel, Zenon
      <2>3. QED BY <2>1, <2>2, Zenon
<1>3. CASE WriteResponse
      <2>1. resp \in Responses /\ sockType' = sockType /\ conn' = conn
            BY <1>3, Zenon DEF WriteResponse, TypeOK, args, session
      <2>2. CASE chan # "open"
            BY <1>3, <2>1, <2>2, SoundChannel, Zenon DEF WriteResponse, Write
      <2>3. CASE chan = "open"
            <3>1. sockType = "tcp" => SoundResponse(resp, conn')
                  BY <1>3, <2>3, Zenon DEF WriteResponse, InStep, SoundResponse
            <3>2. d2c' = Append(d2c, resp)
                  BY <1>3, <2>3, Zenon DEF WriteResponse, Write
            <3>3. QED BY <2>1, <3>1, <3>2, SoundChannel, Zenon
      <2>4. QED BY <2>2, <2>3, Zenon
<1>4. CASE OnAsyncNewPacket
      <2> DEFINE r == Answer("recvfrom", "done")
      <2>1. r \in Responses
            BY ResponseTypes, Zenon DEF Calls, Rets
      <2>2. SoundResponse(r, conn')
            BY Zenon DEF SoundResponse, Answer
      <2>3. /\ sockType' = sockType /\ conn' = conn
            /\ d2c' = d2c \/ d2c' = Append(d2c, r)
            BY <1>4, Zenon DEF OnAsyncNewPacket, Write, args, session
      <2> HIDE DEF r
      <2>4. QED BY <2>1, <2>2, <2>3, SoundChannel, Zenon
<1>5. CASE OnConnEstab
      <2> DEFINE r == Answer("connect", "done")
      <2>1. r \in Responses
            BY ResponseTypes, Zenon DEF Calls, Rets
      <2>2. CASE Listed
            <3>1. conn' = "ESTABLISHED"
                  BY <1>5, <2>2, Zenon DEF OnConnEstab, InStep, session
            <3>2. SoundResponse(r, conn')
                  BY <3>1, Zenon DEF SoundResponse, Answer
            <3>3. /\ sockType' = sockType
                  /\ d2c' = d2c \/ d2c' = Append(d2c, r)
                  BY <1>5, <2>2, Zenon DEF OnConnEstab, Write, args
            <3> HIDE DEF r
            <3>4. QED BY <2>1, <3>1, <3>2, <3>3, SoundChannel, Zenon
      <2>3. CASE ~Listed
            BY <1>5, <2>3, SoundChannel, Zenon DEF OnConnEstab, args, session
      <2>4. QED BY <2>2, <2>3, Zenon
<1>6. CASE OnNewConnection \/ SChannelReadCb \/ PacketArrives \/ RecvSynAck
           \/ UNCHANGED vars
      <2>1. /\ sockType' = sockType /\ d2c' = d2c
            /\ conn = "ESTABLISHED" => conn' = "ESTABLISHED"
            BY <1>6, Zenon DEF OnNewConnection, SChannelReadCb, PacketArrives, RecvSynAck, vars,
                        args, session
      <2>2. QED BY <2>1, SoundChannel, Zenon
<1>7. QED BY <1>1, <1>2, <1>3, <1>4, <1>5, <1>6, Zenon DEF Next, LoopStep, IpStep
-----------------------------------------------------------------------------
(* Answers.                                                                *)

\* Who is committed to a final response.
LEMMA CommittedFacts ==
    /\ IsFiniteSet(Committed) /\ Cardinality(Committed) \in Nat
    /\ \A x : x \in Committed <=>
          \/ x = "loop" /\ loopAt = "write" /\ IsFinal(resp)
          \/ x = "take" /\ waiting
          \/ x = "ip" /\ ipAt = "estab" /\ Listed
          \/ x = "syn" /\ synOut /\ conn = "SYN_SENT"
<1>1. \A x : x \in Committed <=>
          \/ x = "loop" /\ loopAt = "write" /\ IsFinal(resp)
          \/ x = "take" /\ waiting
          \/ x = "ip" /\ ipAt = "estab" /\ Listed
          \/ x = "syn" /\ synOut /\ conn = "SYN_SENT"
      BY Zenon DEF Committed
<1> DEFINE S == (({"loop"} \cup {"take"}) \cup {"ip"}) \cup {"syn"}
<1>2. IsFiniteSet(S)
      <2>1. IsFiniteSet({"loop"})
            BY FS_Singleton, Zenon
      <2>2. IsFiniteSet({"loop"} \cup {"take"})
            BY <2>1, FS_AddElement, Zenon
      <2>3. IsFiniteSet(({"loop"} \cup {"take"}) \cup {"ip"})
            BY <2>2, FS_AddElement, Zenon
      <2>4. QED BY <2>3, FS_AddElement, Zenon
<1>3. Committed \subseteq S
      BY <1>1, Zenon
<1> HIDE DEF S
<1>4. QED BY <1>1, <1>2, <1>3, Smaller, FS_CardinalityType, Zenon

LEMMA CommittedNext ==
    \A x : x \in Committed' <=>
        \/ x = "loop" /\ loopAt' = "write" /\ IsFinal(resp')
        \/ x = "take" /\ waiting'
        \/ x = "ip" /\ ipAt' = "estab" /\ Listed'
        \/ x = "syn" /\ synOut' /\ conn' = "SYN_SENT"
BY Zenon DEF Committed, Listed, IsFinal

\* The threads in a call are finitely many.
LEMMA CallingFinite == IsFiniteSet(Calling) /\ Cardinality(Calling) \in Nat
BY RpcAssumption, Smaller, FS_CardinalityType, Zenon DEF Calling

\* AtMostOneAnswer is about four numbers.
Sum ==
    /\ Len(c2d) \in Nat
    /\ Cardinality(Finals(d2c)) \in Nat
    /\ Cardinality(Committed) \in Nat
    /\ Cardinality(Calling) \in Nat
    /\ AtMostOneAnswer <=>
          (chan = "open" =>
              Len(c2d) + Cardinality(Finals(d2c)) + Cardinality(Committed)
                  <= Cardinality(Calling))

LEMMA SumNow == TypeOK => Sum
<1> SUFFICES ASSUME TypeOK PROVE Sum
    BY Zenon
<1>1. Len(c2d) \in Nat /\ d2c \in Seq(Responses)
      BY DEF TypeOK
<1>2. QED BY <1>1, FinalsFinite, CommittedFacts, CallingFinite, Zenon
          DEF AtMostOneAnswer, Calling, Sum

LEMMA SumNext == TypeOK' => Sum'
BY SumNow, PTL

\* A request is read, and at most one commitment x comes in its place.
LEMMA RequestBecomesCommitment ==
    ASSUME TypeOK, TypeOK', AtMostOneAnswer, chan' = chan, thr' = thr, d2c' = d2c,
           c2d # <<>>, c2d' = Tail(c2d), NEW x, Committed' \subseteq Committed \cup {x}
    PROVE  AtMostOneAnswer'
<1>1. Len(c2d') = Len(c2d) - 1
      BY ChannelTypes, Zenon DEF TypeOK
<1>2. Cardinality(Committed') <= Cardinality(Committed) + 1
      BY CommittedFacts, OneMore, Zenon
<1>3. Calling' = Calling
      BY Zenon DEF Calling, InCall
<1>4. QED BY <1>1, <1>2, <1>3, SumNow, SumNext DEF Sum

\* Commitment x is met: r, which is final, is written to the open channel.
LEMMA CommitmentBecomesFinal ==
    ASSUME TypeOK, TypeOK', AtMostOneAnswer, chan = "open", UNCHANGED <<chan, thr, c2d>>,
           NEW r \in Responses, Writes(r), NEW x \in Committed,
           Committed' \subseteq Committed \ {x}
    PROVE  AtMostOneAnswer'
<1>1. Cardinality(Finals(d2c')) <= Cardinality(Finals(d2c)) + 1
      BY FinalsAppend, Zenon DEF Writes, Write, TypeOK
<1>2. Cardinality(Committed') <= Cardinality(Committed) - 1
      BY CommittedFacts, OneLess, Zenon
<1>3. Calling' = Calling
      BY Zenon DEF Calling, InCall
<1>4. QED BY <1>1, <1>2, <1>3, SumNow, SumNext DEF Sum

\* Nothing is promised or written that was not before.
LEMMA NothingNew ==
    ASSUME TypeOK, TypeOK', AtMostOneAnswer, UNCHANGED <<chan, thr, c2d, d2c>>,
           Cardinality(Committed') <= Cardinality(Committed)
    PROVE  AtMostOneAnswer'
<1>1. Calling' = Calling
      BY Zenon DEF Calling, InCall
<1>2. QED BY <1>1, SumNow, SumNext DEF Sum

\* The application's threads: a call makes one request, and every final response
\* that is read ends a call.
LEMMA ClientAnswers == IInv /\ TypeOK' /\ ClientStep => AtMostOneAnswer'
<1> SUFFICES ASSUME IInv, TypeOK', ClientStep PROVE AtMostOneAnswer'
    BY Zenon
<1> USE SumNow, SumNext DEF Sum
<1>1. ASSUME NEW t \in Threads, Socket(t) PROVE AtMostOneAnswer'
      <2>1. /\ c2d = <<>> /\ d2c' = <<>> /\ ~waiting' /\ loopAt' = "idle"
            /\ ipAt' = "idle" /\ ~synOut'
            BY <1>1, Zenon DEF Socket, IInv, InStep, endpoint, session
      <2>2. Committed' = {}
            BY <2>1, CommittedNext, Zenon
      <2>3. Finals(d2c') = {}
            BY <2>1 DEF Finals
      <2>4. Len(c2d') = 1
            BY <1>1, <2>1 DEF Socket, ChanSend
      <2>5. t \in Calling'
            BY <1>1, Zenon DEF Socket, ChanSend, Calling, InCall, Calls, IInv, TypeOK
      <2>6. Cardinality(Calling') # 0
            <3>1. IsFiniteSet(Calling')
                  BY RpcAssumption, Smaller, Zenon DEF Calling
            <3>2. QED BY <2>5, <3>1, FS_EmptySet, Zenon
      <2>7. Cardinality(Committed') = 0 /\ Cardinality(Finals(d2c')) = 0
            BY <2>2, <2>3, FS_EmptySet, Zenon
      <2>8. QED BY <2>4, <2>6, <2>7
<1>2. ASSUME NEW t \in Threads, NEW c \in Calls, Call(t, c) PROVE AtMostOneAnswer'
      <2>1. Len(c2d') = Len(c2d) + 1
            BY <1>2, ChannelTypes DEF Call, ChanSend, IInv, TypeOK
      <2>2. t \in Calling' /\ Calling \subseteq Calling' \ {t}
            BY <1>2, Zenon DEF Call, ChanSend, Calling, InCall, Calls, IInv, TypeOK
      <2>3. IsFiniteSet(Calling')
            BY RpcAssumption, Smaller, Zenon DEF Calling
      <2>4. Cardinality(Calling) <= Cardinality(Calling') - 1
            BY <2>2, <2>3, OneLess, Zenon
      <2>5. Committed' = Committed /\ d2c' = d2c /\ chan = "open"
            BY <1>2, Zenon DEF Call, Committed, Listed, IsFinal, endpoint, session
      <2>6. QED BY <2>1, <2>4, <2>5 DEF IInv
<1>3. ASSUME NEW t \in Threads, RecvWaitNext(t) PROVE AtMostOneAnswer'
      <2>1. Cardinality(Finals(d2c')) <= Cardinality(Finals(d2c))
            BY <1>3, FinalsTail, Zenon DEF RecvWaitNext, IInv, TypeOK
      <2>2. /\ Committed' = Committed /\ Calling' = Calling
            /\ UNCHANGED <<chan, c2d>>
            BY <1>3, Zenon DEF RecvWaitNext, Committed, Listed, IsFinal, Calling, InCall, client, endpoint,
                        session
      <2>3. QED BY <2>1, <2>2 DEF IInv
<1>4. ASSUME NEW t \in Threads, RecvAnswer(t) PROVE AtMostOneAnswer'
      <2>1. IsFinal(Head(d2c))
            BY <1>4, Zenon DEF RecvAnswer, IsFinal
      <2>2. Cardinality(Finals(d2c')) <= Cardinality(Finals(d2c)) - 1
            BY <1>4, <2>1, FinalsTail, Zenon DEF RecvAnswer, IInv, TypeOK
      <2>3. /\ Committed' = Committed /\ UNCHANGED <<chan, c2d>>
            BY <1>4, Zenon DEF RecvAnswer, Committed, Listed, IsFinal, endpoint, session
      <2>4. Calling \subseteq Calling' \cup {t}
            BY <1>4, Zenon DEF RecvAnswer, Calling, InCall, IInv, TypeOK
      <2>5. IsFiniteSet(Calling')
            BY RpcAssumption, Smaller, Zenon DEF Calling
      <2>6. Cardinality(Calling) <= Cardinality(Calling') + 1
            BY <2>4, <2>5, OneMore, Zenon
      <2>7. QED BY <2>2, <2>3, <2>6 DEF IInv
<1>5. ASSUME chan' = "closed" PROVE AtMostOneAnswer'
      BY <1>5, Zenon DEF AtMostOneAnswer
<1>6. QED BY <1>1, <1>2, <1>3, <1>4, <1>5, Zenon
          DEF ClientStep, Receive, RecvCloseAnswer, RecvUnpackFails, ClientDies

\* The handlers: each puts at most one commitment in the place of the request.
LEMMA HandlerAnswers == IInv /\ TypeOK' /\ HandleRequest => AtMostOneAnswer'
<1> SUFFICES ASSUME IInv, TypeOK', HandleRequest PROVE AtMostOneAnswer'
    BY Zenon
<1>1. ASSUME NEW c, NEW r, Handle(c, r), NEW x, Committed' \subseteq Committed \cup {x}
      PROVE  AtMostOneAnswer'
      <2>1. /\ chan' = chan /\ thr' = thr /\ d2c' = d2c
            /\ c2d # <<>> /\ c2d' = Tail(c2d)
            BY <1>1, Zenon DEF Handle, Reads, client
      <2>2. QED BY <1>1, <2>1, RequestBecomesCommitment, Zenon DEF IInv
<1>2. ASSUME NEW c, NEW r, Handle(c, r), UNCHANGED waiting,
             synOut' /\ conn' = "SYN_SENT" => synOut /\ conn = "SYN_SENT"
      PROVE  AtMostOneAnswer'
      <2>1. Committed' \subseteq Committed \cup {"loop"}
            BY <1>2, CommittedFacts, CommittedNext DEF Handle, Reads, Listed
      <2>2. QED BY <1>1, <1>2, <2>1, Zenon
<1>3. CASE SocketCall \/ CloseCall \/ GetpeernameCall \/ GetsocknameCall
           \/ ConnectInProgress \/ RecvfromTakes \/ RecvfromAgain
      BY <1>2, <1>3
      DEF SocketCall, CloseCall, GetpeernameCall, GetsocknameCall, ConnectInProgress,
          RecvfromTakes, RecvfromAgain, endpoint, session
<1>4. CASE ConnectUdp
      BY <1>2, <1>4, Zenon DEF ConnectUdp, endpoint
<1>5. CASE SendtoCall
      BY <1>2, <1>5, Zenon DEF SendtoCall, endpoint, IInv, InStep
<1>6. CASE ConnectWaitEstab
      <2>1. Handle("connect", WaitNext) /\ UNCHANGED waiting
            BY <1>6, Zenon DEF ConnectWaitEstab, endpoint
      <2>2. Committed' \subseteq Committed \cup {"syn"}
            BY <2>1, CommittedFacts, CommittedNext, Zenon DEF Handle, Reads, Listed, WaitNext, IsFinal
      <2>3. QED BY <1>1, <2>1, <2>2, Zenon
<1>7. CASE RecvfromWaits
      <2>1. Handle("recvfrom", WaitNext) /\ UNCHANGED <<synOut, conn>>
            BY <1>7, Zenon DEF RecvfromWaits, session
      <2>2. Committed' \subseteq Committed \cup {"take"}
            BY <2>1, CommittedFacts, CommittedNext, Zenon DEF Handle, Reads, Listed, WaitNext, IsFinal
      <2>3. QED BY <1>1, <2>1, <2>2, Zenon
<1>8. CASE ReadFails \/ ReadEof
      BY <1>8, Zenon DEF ReadFails, ReadEof, IInv, InStep, AtMostOneAnswer, client
<1>9. QED BY <1>3, <1>4, <1>5, <1>6, <1>7, <1>8, Zenon DEF HandleRequest

\* Every step keeps AtMostOneAnswer.
LEMMA AnswersStep == IInv /\ TypeOK' /\ [Next]_vars => AtMostOneAnswer'
<1> SUFFICES ASSUME IInv, TypeOK', [Next]_vars PROVE AtMostOneAnswer'
    BY Zenon
<1>0. TypeOK /\ InStep /\ AtMostOneAnswer
      BY Zenon DEF IInv
<1>1. CASE ClientStep BY <1>1, ClientAnswers, Zenon
<1>2. CASE HandleRequest BY <1>2, HandlerAnswers, Zenon
<1>3. ASSUME chan # "open", chan' = chan PROVE AtMostOneAnswer'
      BY <1>3, Zenon DEF AtMostOneAnswer
<1>4. ASSUME UNCHANGED <<chan, thr, c2d, d2c>>, Committed' \subseteq Committed
      PROVE  AtMostOneAnswer'
      <2>1. Cardinality(Committed') <= Cardinality(Committed)
            BY <1>4, CommittedFacts, Smaller, Zenon
      <2>2. QED BY <1>0, <1>4, <2>1, NothingNew, Zenon
<1>5. CASE OnNewConnection \/ SChannelReadCb \/ PacketArrives \/ UNCHANGED vars
      <2>1. Committed' \subseteq Committed
            BY <1>0, <1>5, CommittedFacts, CommittedNext
            DEF OnNewConnection, SChannelReadCb, PacketArrives, vars, InStep, Listed, endpoint, session
      <2>2. UNCHANGED <<chan, thr, c2d, d2c>>
            BY <1>5, Zenon DEF OnNewConnection, SChannelReadCb, PacketArrives, vars, client
      <2>3. QED BY <1>4, <2>1, <2>2, Zenon
<1>6. CASE WriteResponse
      <2>1. /\ resp \in Responses /\ Writes(resp) /\ UNCHANGED <<chan, thr, c2d>>
            /\ loopAt = "write"
            BY <1>0, <1>6, WriteEither, Zenon DEF WriteResponse, TypeOK
      <2>2. Committed' \subseteq Committed \ {"loop"}
            BY <1>0, <1>6, <2>1, WriteType, CommittedFacts, CommittedNext, Zenon
            DEF WriteResponse, endpoint, session
      <2>3. CASE chan = "open" /\ IsFinal(resp)
            <3>1. "loop" \in Committed
                  BY <2>1, <2>3, CommittedFacts, Zenon
            <3>2. QED BY <1>0, <2>1, <2>2, <2>3, <3>1, CommitmentBecomesFinal, Zenon
      <2>4. CASE chan = "open" /\ ~IsFinal(resp)
            <3>1. Cardinality(Finals(d2c')) <= Cardinality(Finals(d2c))
                  BY <1>0, <2>1, <2>4, FinalsAppend, Zenon DEF Writes, Write, TypeOK
            <3>2. Cardinality(Committed') <= Cardinality(Committed)
                  BY <2>2, CommittedFacts, Smaller, Zenon
            <3>3. Calling' = Calling
                  BY <2>1, Zenon DEF Calling, InCall
            <3>4. QED BY <1>0, <2>1, <3>1, <3>2, <3>3, SumNow, SumNext DEF Sum
      <2>5. QED BY <1>3, <2>1, <2>3, <2>4, Zenon
<1>7. CASE OnAsyncNewPacket
      <2> DEFINE r == Answer("recvfrom", "done")
      <2>1. r \in Responses
            BY ResponseTypes, Zenon DEF Calls, Rets
      <2>2. "take" \in Committed
            BY <1>0, <1>7, CommittedFacts, Zenon DEF OnAsyncNewPacket, InStep
      <2>3. Writes(r) /\ UNCHANGED <<chan, thr, c2d>>
            BY <1>7, Zenon DEF OnAsyncNewPacket, Writes
      <2> HIDE DEF r
      <2>4. Committed' \subseteq Committed \ {"take"}
            BY <1>0, <1>7, <2>1, <2>3, WriteType, CommittedFacts, CommittedNext, Zenon
            DEF OnAsyncNewPacket, session
      <2>5. QED BY <1>0, <1>3, <2>1, <2>2, <2>3, <2>4, CommitmentBecomesFinal, Zenon
<1>8. CASE RecvSynAck
      <2>1. "syn" \in Committed /\ Committed' \subseteq (Committed \ {"syn"}) \cup {"ip"}
            BY <1>8, CommittedFacts, CommittedNext, Zenon DEF RecvSynAck, endpoint
      <2>2. Cardinality(Committed') <= Cardinality(Committed)
            BY <2>1, CommittedFacts, Exchanged, Zenon
      <2>3. UNCHANGED <<chan, thr, c2d, d2c>>
            BY <1>8, Zenon DEF RecvSynAck, client
      <2>4. QED BY <1>0, <2>2, <2>3, NothingNew, Zenon
<1>9. CASE OnConnEstab /\ Listed
      <2> DEFINE r == Answer("connect", "done")
      <2>1. r \in Responses
            BY ResponseTypes, Zenon DEF Calls, Rets
      <2>2. "ip" \in Committed
            BY <1>9, CommittedFacts, Zenon DEF OnConnEstab
      <2>3. Writes(r) /\ UNCHANGED <<chan, thr, c2d>>
            BY <1>9, Zenon DEF OnConnEstab, Writes
      <2> HIDE DEF r
      <2>4. Committed' \subseteq Committed \ {"ip"}
            BY <1>0, <1>9, <2>1, <2>3, WriteType, CommittedFacts, CommittedNext, Zenon
            DEF OnConnEstab, endpoint, session
      <2>5. QED BY <1>0, <1>3, <2>1, <2>2, <2>3, <2>4, CommitmentBecomesFinal, Zenon
<1>10. CASE OnConnEstab /\ ~Listed
      <2>1. Committed' \subseteq Committed
            BY <1>10, CommittedFacts, CommittedNext, Zenon DEF OnConnEstab, endpoint, session
      <2>2. UNCHANGED <<chan, thr, c2d, d2c>>
            BY <1>10, Zenon DEF OnConnEstab
      <2>3. QED BY <1>4, <2>1, <2>2, Zenon
<1>11. QED BY <1>1, <1>2, <1>5, <1>6, <1>7, <1>8, <1>9, <1>10, Zenon DEF Next, LoopStep, IpStep
-----------------------------------------------------------------------------
LEMMA Initially == Init => IInv
<1> SUFFICES ASSUME Init PROVE IInv
    BY Zenon
<1>1. TypeOK
      <2>1. 0 \in 0..MaxQueued
            BY RpcAssumption
      <2>2. <<>> \in Seq(Calls) /\ <<>> \in Seq(Responses)
            OBVIOUS
      <2>3. QED BY <2>1, <2>2, ResponseTypes, Zenon DEF Init, TypeOK, AgentStates
<1>2. InStep
      BY Zenon DEF Init, InStep
<1>3. TcpResponsesAreSound /\ AtMostOneAnswer
      <2>1. 1..Len(<<>>) = {}
            OBVIOUS
      <2>2. QED BY <2>1, Zenon DEF Init, TcpResponsesAreSound, ResponsesInitialized, AtMostOneAnswer
<1>4. QED BY <1>1, <1>2, <1>3, Zenon DEF IInv

LEMMA Invariance == Spec => []IInv
<1>1. IInv /\ [Next]_vars => IInv'
      BY TypeStep, InStepStep, SoundStep, AnswersStep, Zenon DEF IInv
<1>2. QED BY Initially, <1>1, PTL DEF Spec

\* Every variable of the protocol always has its type, and recvfromCall never
\* takes from an empty queue, for any number of threads and packets.
THEOREM TypeCorrect == Spec => []TypeOK
<1>1. IInv => TypeOK
      BY Zenon DEF IInv
<1>2. QED BY <1>1, Invariance, PTL

\* No response on a TCP socket lacks its retCode, and connect() is answered done
\* only once the session is ESTABLISHED, however the loop and the IP thread interleave
\* (connectCall, onConnEstabCB).
THEOREM TcpResponsesAreSoundCorrect == Spec => []TcpResponsesAreSound
<1>1. IInv => TcpResponsesAreSound
      BY Zenon DEF IInv
<1>2. QED BY <1>1, Invariance, PTL

\* Requests unread and final responses written or to be written never outnumber
\* the threads in a call, for any number of threads sharing a socket of any kind
\* (AgentChannel::onReadReady, onConnEstabCB, onAsyncNew*Packet).
THEOREM AtMostOneAnswerCorrect == Spec => []AtMostOneAnswer
<1>1. IInv => AtMostOneAnswer
      BY Zenon DEF IInv
<1>2. QED BY <1>1, Invariance, PTL

-----------------------------------------------------------------------------
(* One thread on a blocking TCP socket, whatever calls it makes.  By       *)
(* AtMostOneAnswer there is then at most one request, final response or    *)
(* commitment at a time, so it is the one of the call the thread is in.    *)

\* The request under way, every final response and every commitment to one
\* belong to call c.
Own(c) ==
    /\ \A i \in 1..Len(c2d) : c2d[i] = c
    /\ \A i \in Finals(d2c) : d2c[i].returning = c
    /\ "loop" \in Committed => resp.returning = c
    /\ "take" \in Committed => c = "recvfrom"
    /\ {"ip", "syn"} \cap Committed # {} => c = "connect"

\* Behind the answer to close() the loop writes nothing more, not even a
\* WAIT_NEXT.
CloseIsLast ==
    \A i \in Finals(d2c) :
        d2c[i].returning = "close" => i = Len(d2c) /\ loopAt # "write"

\* A write to the channel failed.
Failed == agent \in {"unregistered", "reported"}

\* Nothing is left to read or to write, and no write failed.
Quiet == ~reset /\ c2d = <<>> /\ loopAt = "idle" /\ Committed = {} /\ ~Failed

Lives == \A t \in Threads : thr[t] \notin {"crashed", "dead"}

LoneInv ==
    /\ Failed => chan = "closed"
    /\ \A t \in Threads : InCall(t) => t \in users
    /\ Alone /\ chan = "open" =>
          CloseIsLast /\ \A t \in Threads : InCall(t) => Own(thr[t])
    /\ Alone /\ chan = "closed" /\ Lives => Quiet
-----------------------------------------------------------------------------
\* The arguments of socket() and who uses the socket never change.
LEMMA ArgsStep == [Next]_vars => UNCHANGED args
BY Zenon DEF Next, ClientStep, Receive, Socket, Call, RecvWaitNext, RecvAnswer, RecvCloseAnswer,
       RecvUnpackFails, ClientDies, LoopStep, HandleRequest, Handle, Reads, SocketCall, CloseCall,
       GetpeernameCall, GetsocknameCall, ConnectUdp, ConnectInProgress, ConnectWaitEstab,
       SendtoCall, RecvfromTakes, RecvfromAgain, RecvfromWaits, ReadFails, ReadEof,
       OnNewConnection, WriteResponse, SChannelReadCb, OnAsyncNewPacket, IpStep,
       PacketArrives, RecvSynAck, OnConnEstab, vars

\* The daemon's steps leave the client alone.
LEMMA DaemonKeepsClient == [Next]_vars /\ ~ClientStep => UNCHANGED <<thr, chan>>
BY Zenon DEF Next, LoopStep, HandleRequest, Handle, Reads, SocketCall, CloseCall, GetpeernameCall,
       GetsocknameCall, ConnectUdp, ConnectInProgress, ConnectWaitEstab, SendtoCall,
       RecvfromTakes, RecvfromAgain, RecvfromWaits, ReadFails, ReadEof, OnNewConnection,
       WriteResponse, SChannelReadCb, OnAsyncNewPacket, IpStep, PacketArrives, RecvSynAck,
       OnConnEstab, vars, client

\* Alone names a thread.
LEMMA SoleUser == ASSUME TypeOK, Alone PROVE \E u \in Threads : users = {u}
<1>1. users \subseteq Threads
      BY RpcAssumption, Zenon DEF TypeOK
<1>2. IsFiniteSet(users)
      BY <1>1, RpcAssumption, Smaller, Zenon
<1>3. \E u : users = {u}
      BY <1>2, FS_Singleton, Zenon DEF Alone
<1>4. QED BY <1>1, <1>3, Zenon

\* A lone thread: one user, and at most one thing under way for it.
LEMMA OnlyOne ==
    ASSUME IInv, LoneInv, Alone, chan = "open"
    PROVE  /\ \E u \in Threads : users = {u} /\ Calling \subseteq {u}
           /\ c2d # <<>> => Len(c2d) = 1 /\ Finals(d2c) = {} /\ Committed = {}
           /\ Finals(d2c) # {} => c2d = <<>> /\ Committed = {}
           /\ Committed # {} => c2d = <<>> /\ Finals(d2c) = {}
           /\ \A x, y \in Committed : x = y
           /\ Calling = {} => c2d = <<>> /\ Finals(d2c) = {} /\ Committed = {}
<1>1. \E u \in Threads : users = {u} /\ Calling \subseteq {u}
      <2>1. \E u \in Threads : users = {u}
            BY SoleUser, Zenon DEF IInv
      <2>2. Calling \subseteq users
            BY Zenon DEF LoneInv, Calling
      <2>3. QED BY <2>1, <2>2, Zenon
<1>2. Cardinality(Calling) <= 1 /\ (Calling = {} => Cardinality(Calling) = 0)
      <2>1. PICK u : Calling \subseteq {u}
            BY <1>1, Zenon
      <2>2. IsFiniteSet({u}) /\ Cardinality({u}) = 1
            BY FS_Singleton, Zenon
      <2>3. QED BY <2>1, <2>2, Smaller, FS_EmptySet, Zenon
<1>3. /\ Len(c2d) \in Nat /\ Cardinality(Finals(d2c)) \in Nat
      /\ Cardinality(Committed) \in Nat /\ Cardinality(Calling) \in Nat
      /\ Len(c2d) + Cardinality(Finals(d2c)) + Cardinality(Committed)
            <= Cardinality(Calling)
      BY SumNow, Zenon DEF Sum, IInv
<1>4. /\ Len(c2d) = 0 <=> c2d = <<>>
      /\ Cardinality(Finals(d2c)) = 0 <=> Finals(d2c) = {}
      /\ Cardinality(Committed) = 0 <=> Committed = {}
      <2>1. c2d \in Seq(Calls) /\ d2c \in Seq(Responses)
            BY Zenon DEF IInv, TypeOK
      <2>2. Len(c2d) = 0 <=> c2d = <<>>
            BY <2>1
      <2>3. IsFiniteSet(Finals(d2c)) /\ IsFiniteSet(Committed)
            BY <2>1, FinalsFinite, CommittedFacts, Zenon
      <2>4. QED BY <2>2, <2>3, FS_EmptySet, Zenon
<1>5. \A x, y \in Committed : x = y
      <2>1. IsFiniteSet(Committed)
            BY CommittedFacts, Zenon
      <2>2. Cardinality(Committed) = 1 => \E x : Committed = {x}
            BY <2>1, FS_Singleton, Zenon
      <2>3. Cardinality(Committed) = 0 \/ Cardinality(Committed) = 1
            BY <1>2, <1>3
      <2>4. QED BY <1>4, <2>2, <2>3, Zenon
<1>6. /\ Len(c2d) # 0 => /\ Len(c2d) = 1 /\ Cardinality(Finals(d2c)) = 0
                         /\ Cardinality(Committed) = 0
      /\ Cardinality(Finals(d2c)) # 0 => Len(c2d) = 0 /\ Cardinality(Committed) = 0
      /\ Cardinality(Committed) # 0 => Len(c2d) = 0 /\ Cardinality(Finals(d2c)) = 0
      /\ Cardinality(Calling) = 0 => /\ Len(c2d) = 0 /\ Cardinality(Finals(d2c)) = 0
                                     /\ Cardinality(Committed) = 0
      <2>1. ASSUME NEW a \in Nat, NEW b \in Nat, NEW c \in Nat, NEW d \in Nat,
                   a + b + c <= d, d <= 1
            PROVE  /\ a # 0 => a = 1 /\ b = 0 /\ c = 0
                   /\ b # 0 => a = 0 /\ c = 0
                   /\ c # 0 => a = 0 /\ b = 0
                   /\ d = 0 => a = 0 /\ b = 0 /\ c = 0
            BY <2>1
      <2>2. QED BY <1>2, <1>3, <2>1, Zenon
<1>7. QED BY <1>1, <1>2, <1>4, <1>5, <1>6, Zenon

\* The final responses of a channel that was written to.
LEMMA FinalsOfAppend ==
    ASSUME NEW q \in Seq(Responses), NEW r \in Responses
    PROVE  /\ Len(Append(q, r)) = Len(q) + 1 /\ Len(q) \in Nat
           /\ \A i \in Finals(Append(q, r)) :
                 \/ i \in Finals(q) /\ Append(q, r)[i] = q[i]
                 \/ i = Len(q) + 1 /\ Append(q, r)[i] = r /\ IsFinal(r)
<1>1. /\ Len(Append(q, r)) = Len(q) + 1 /\ Len(q) \in Nat
      /\ \A i \in 1..Len(q) : Append(q, r)[i] = q[i]
      /\ Append(q, r)[Len(q) + 1] = r
      OBVIOUS
<1>2. \A i \in 1..(Len(q) + 1) : i \in 1..Len(q) \/ i = Len(q) + 1
      BY <1>1
<1>3. QED BY <1>1, <1>2, Zenon DEF Finals

\* And of one that was read from.
LEMMA FinalsOfTail ==
    ASSUME NEW q \in Seq(Responses), q # <<>>
    PROVE  /\ Len(Tail(q)) = Len(q) - 1 /\ Len(q) \in Nat
           /\ \A i \in Finals(Tail(q)) :
                 i \in Nat /\ i + 1 \in Finals(q) /\ Tail(q)[i] = q[i + 1]
<1>1. /\ Len(q) \in Nat /\ Len(Tail(q)) = Len(q) - 1
      /\ \A i \in 1..Len(Tail(q)) : Tail(q)[i] = q[i + 1]
      OBVIOUS
<1>2. \A i \in 1..(Len(q) - 1) : i \in Nat /\ i + 1 \in 1..Len(q)
      BY <1>1
<1>3. QED BY <1>1, <1>2, Zenon DEF Finals
-----------------------------------------------------------------------------
\* A write fails only on a channel that is not open, and a closed channel stays
\* closed.
LEMMA DaemonStep ==
    ASSUME [Next]_vars
    PROVE  \/ (Failed' => Failed) /\ (chan = "closed" => chan' = "closed")
           \/ chan' = chan /\ chan # "open" /\ (loopAt # "idle" \/ ipAt # "idle")
<1> USE DEF client, Failed
<1>1. CASE ClientStep
      BY <1>1, Zenon DEF ClientStep, Receive, Socket, Call, RecvWaitNext, RecvAnswer,
                  RecvCloseAnswer, RecvUnpackFails, ClientDies
<1>2. CASE HandleRequest
      <2>1. chan' = chan
            BY <1>2, Zenon DEF HandleRequest, Handle, SocketCall, CloseCall, GetpeernameCall,
                  GetsocknameCall, ConnectUdp, ConnectInProgress, ConnectWaitEstab, SendtoCall,
                  RecvfromTakes, RecvfromAgain, RecvfromWaits, ReadFails, ReadEof
      <2>2. Failed' => Failed
            BY <1>2, Zenon DEF HandleRequest, Handle, Reads, SocketCall, CloseCall, GetpeernameCall,
                  GetsocknameCall, ConnectUdp, ConnectInProgress, ConnectWaitEstab, SendtoCall,
                  RecvfromTakes, RecvfromAgain, RecvfromWaits, ReadFails, ReadEof
      <2>3. QED BY <2>1, <2>2, Zenon
<1>3. CASE WriteResponse \/ OnAsyncNewPacket \/ OnConnEstab
      BY <1>3, Zenon DEF WriteResponse, OnAsyncNewPacket, OnConnEstab, Write
<1>4. CASE OnNewConnection \/ SChannelReadCb \/ PacketArrives \/ RecvSynAck \/ UNCHANGED vars
      BY <1>4, Zenon DEF OnNewConnection, SChannelReadCb, PacketArrives, RecvSynAck, vars
<1>5. QED BY <1>1, <1>2, <1>3, <1>4, Zenon DEF Next, LoopStep, IpStep

LEMMA FailedStep ==
    ASSUME IInv, LoneInv, [Next]_vars PROVE Failed' => chan' = "closed"
BY DaemonStep, Zenon DEF LoneInv, IInv, InStep, TypeOK

\* Only users are in a call.
LEMMA UsersStep ==
    ASSUME IInv, LoneInv, [Next]_vars
    PROVE  \A t \in Threads : InCall(t)' => t \in users'
<1> SUFFICES ASSUME NEW t \in Threads, InCall(t)', t \notin users' PROVE FALSE
    BY Zenon
<1>1. users' = users /\ ~InCall(t)
      BY ArgsStep, Zenon DEF args, LoneInv
<1>2. thr[t] = thr'[t]
      <2>1. CASE ClientStep
            <3>1. \/ thr' = thr
                  \/ \E u \in users : \E c : thr' = [thr EXCEPT ![u] = c]
                  \/ \E u \in Threads : InCall(u) /\ \E c : thr' = [thr EXCEPT ![u] = c]
                  \/ \A u \in Threads : thr'[u] \in {"crashed", "dead"}
                  <4>1. ASSUME NEW u \in Threads, Socket(u) \/ \E c \in Calls : Call(u, c)
                        PROVE  u \in users /\ \E c : thr' = [thr EXCEPT ![u] = c]
                        BY <4>1, Zenon DEF Socket, Call, ChanSend
                  <4>2. ASSUME NEW u \in Threads, RecvWaitNext(u) PROVE thr' = thr
                        BY <4>2, Zenon DEF RecvWaitNext, client
                  <4>3. ASSUME NEW u \in Threads, RecvAnswer(u) \/ RecvCloseAnswer(u)
                        PROVE  InCall(u) /\ \E c : thr' = [thr EXCEPT ![u] = c]
                        BY <4>3, Zenon DEF RecvAnswer, RecvCloseAnswer, InCall, Calls
                  <4>4. ASSUME NEW u \in Threads, RecvUnpackFails(u) \/ ClientDies
                        PROVE  \A v \in Threads : thr'[v] \in {"crashed", "dead"}
                        BY <4>4, Zenon DEF RecvUnpackFails, ClientDies
                  <4>5. QED BY <2>1, <4>1, <4>2, <4>3, <4>4, Zenon DEF ClientStep, Receive
            <3>2. DOMAIN thr = Threads
                  BY Zenon DEF IInv, TypeOK
            <3>3. "crashed" \notin Calls /\ "dead" \notin Calls
                  BY DEF Calls
            <3>4. QED BY <1>1, <3>1, <3>2, <3>3, Zenon DEF InCall
      <2>2. CASE ~ClientStep
            BY <2>2, DaemonKeepsClient, Zenon
      <2>3. QED BY <2>1, <2>2, Zenon
<1>3. QED BY <1>1, <1>2, Zenon DEF InCall

\* Once close() has returned nothing is left, and nothing comes after it.
LEMMA QuietStep ==
    ASSUME IInv, LoneInv, [Next]_vars, Alone, chan' = "closed", Lives'
    PROVE  Quiet'
<1>0. TypeOK /\ InStep
      BY Zenon DEF IInv
<1>1. CASE chan = "closed"
      <2>1. d2c = <<>> /\ chan # "open" /\ chan # "none"
            BY <1>0, <1>1, Zenon DEF InStep
      <2>2. ~ClientStep
            BY <2>1, Zenon DEF ClientStep, Receive, Socket, Call, RecvWaitNext, RecvAnswer,
                        RecvCloseAnswer, RecvUnpackFails, ClientDies
      <2>3. thr' = thr
            BY <2>2, DaemonKeepsClient, Zenon
      <2>4. Quiet
            BY <1>1, <2>3, Zenon DEF LoneInv, Lives
      <2>5. /\ ~waiting /\ ~(ipAt = "estab" /\ Listed)
            /\ ~(synOut /\ conn = "SYN_SENT")
            BY <2>4, CommittedFacts, Zenon DEF Quiet
      <2>6. CASE OnNewConnection
            BY <1>0, <2>4, <2>5, <2>6, CommittedNext, Zenon
            DEF OnNewConnection, Quiet, InStep, Failed, client, endpoint, session
      <2>7. CASE HandleRequest
            <3>1. ReadEof
                  BY <2>4, <2>7, Zenon
                  DEF HandleRequest, Handle, Reads, SocketCall, CloseCall, GetpeernameCall,
                      GetsocknameCall, ConnectUdp, ConnectInProgress, ConnectWaitEstab,
                      SendtoCall, RecvfromTakes, RecvfromAgain, RecvfromWaits, ReadFails, Quiet
            <3>2. QED BY <2>4, <3>1, CommittedNext, Zenon DEF ReadEof, Quiet, Failed, Listed, client
      <2>8. CASE WriteResponse \/ OnAsyncNewPacket \/ RecvSynAck
            BY <2>4, <2>5, <2>8, Zenon DEF WriteResponse, OnAsyncNewPacket, RecvSynAck, Quiet
      <2>9. CASE SChannelReadCb \/ PacketArrives \/ UNCHANGED vars
            BY <2>4, <2>5, <2>9, CommittedNext
            DEF SChannelReadCb, PacketArrives, vars, Quiet, Failed, Listed, client, endpoint, session
      <2>10. CASE OnConnEstab
            <3>1. ~Listed /\ UNCHANGED <<reset, agent, c2d, loopAt, waiting, synOut, conn>>
                  BY <2>5, <2>10, Zenon DEF OnConnEstab, endpoint, session
            <3>2. ipAt' = "idle"
                  BY <2>10, Zenon DEF OnConnEstab
            <3>3. QED BY <2>4, <2>5, <3>1, <3>2, CommittedNext, Zenon DEF Quiet, Failed
      <2>11. QED BY <2>2, <2>6, <2>7, <2>8, <2>9, <2>10, Zenon DEF Next, LoopStep, IpStep
<1>2. CASE chan = "open"
      <2>1. PICK u \in Threads : users = {u} /\ Calling \subseteq {u}
            BY <1>2, OnlyOne, Zenon
      <2>2. PICK t \in Threads : RecvCloseAnswer(t)
            <3>1. ~ClientDies /\ \A t \in Threads : ~RecvUnpackFails(t)
                  BY <2>1, Zenon DEF ClientDies, RecvUnpackFails, Lives
            <3>2. ClientStep
                  BY <1>2, DaemonKeepsClient, Zenon
            <3>3. QED BY <1>2, <3>1, <3>2, Zenon
                  DEF ClientStep, Receive, Socket, Call, RecvWaitNext, RecvAnswer, client
      <2>3. PICK q \in Seq(Responses) : q = d2c
            BY <1>0, Zenon DEF TypeOK
      <2>4. q # <<>> /\ Len(q) \in Nat /\ Len(q) # 0 /\ Head(q) = q[1]
            BY <2>2, <2>3 DEF RecvCloseAnswer
      <2>5. 1 \in Finals(q)
            BY <2>2, <2>3, <2>4 DEF RecvCloseAnswer, Finals, IsFinal
      <2>6. Own("close") /\ CloseIsLast
            BY <1>2, <2>2, Zenon DEF LoneInv, InCall, Calls, RecvCloseAnswer
      <2>7. 1 = Len(q) /\ loopAt # "write"
            BY <2>3, <2>5, <2>6, Zenon DEF Own, CloseIsLast
      <2>8. Tail(q) = <<>>
            <3>1. Tail(q) \in Seq(Responses) /\ Len(Tail(q)) = 0
                  BY <2>4, <2>7
            <3>2. PICK e \in Seq(Responses) : e = Tail(q) /\ Len(e) = 0
                  BY <3>1, Zenon
            <3>3. e = <<>>
                  BY <3>2
            <3>4. QED BY <3>2, <3>3, Zenon
      <2>9. c2d = <<>> /\ Committed = {} /\ ~Failed
            <3>1. c2d = <<>> /\ Committed = {}
                  BY <1>2, <2>3, <2>5, OnlyOne, Zenon
            <3>2. ~Failed
                  BY <1>2, Zenon DEF LoneInv
            <3>3. QED BY <3>1, <3>2, Zenon
      <2>10. loopAt = "idle"
            BY <1>0, <2>7, <2>9, CommittedFacts, Zenon DEF InStep, TypeOK
      <2>11. Committed' = {}
            BY <2>2, <2>9, CommittedFacts, CommittedNext, Zenon
            DEF RecvCloseAnswer, Listed, endpoint, session
      <2>12. ~reset'
            BY <2>2, <2>3, <2>8, Zenon DEF RecvCloseAnswer
      <2>13. QED BY <2>2, <2>9, <2>10, <2>11, <2>12, Zenon DEF RecvCloseAnswer, Quiet, Failed
<1>3. CASE chan = "none"
      <2>1. d2c = <<>> /\ ClientStep
            BY <1>0, <1>3, DaemonKeepsClient, Zenon DEF InStep
      <2>2. QED BY <1>3, <2>1, Zenon DEF ClientStep, Receive, Socket, Call, RecvWaitNext, RecvAnswer,
                                  RecvCloseAnswer, RecvUnpackFails, ClientDies
<1>4. QED BY <1>0, <1>1, <1>2, <1>3, Zenon DEF TypeOK
-----------------------------------------------------------------------------
(* While the channel is open.                                              *)

OpenInv == CloseIsLast /\ \A t \in Threads : InCall(t) => Own(thr[t])

\* Nothing new is said to the thread.
LEMMA NothingSaid ==
    ASSUME OpenInv, UNCHANGED <<thr, c2d, d2c, resp>>, Committed' \subseteq Committed,
           loopAt' = "write" => loopAt = "write"
    PROVE  OpenInv'
BY Zenon DEF OpenInv, CloseIsLast, Own, Finals, InCall

\* The first response is read.
LEMMA ResponseRead ==
    ASSUME TypeOK, OpenInv, UNCHANGED <<c2d, resp, loopAt>>, Committed' = Committed,
           d2c # <<>>, d2c' = Tail(d2c),
           \A t \in Threads : InCall(t)' => InCall(t) /\ thr'[t] = thr[t]
    PROVE  OpenInv'
<1>1. PICK q \in Seq(Responses) : q = d2c
      BY Zenon DEF TypeOK
<1>2. /\ Len(Tail(q)) = Len(q) - 1 /\ Len(q) \in Nat
      /\ \A i \in Finals(Tail(q)) : i \in Nat /\ i + 1 \in Finals(q) /\ Tail(q)[i] = q[i + 1]
      BY <1>1, FinalsOfTail, Zenon
<1>3. CloseIsLast'
      <2> SUFFICES ASSUME NEW i \in Finals(d2c'), d2c'[i].returning = "close"
                   PROVE  i = Len(d2c') /\ loopAt' # "write"
          BY Zenon DEF CloseIsLast, Finals, IsFinal
      <2>1. i \in Nat /\ i + 1 \in Finals(d2c) /\ d2c[i + 1].returning = "close"
            BY <1>1, <1>2, Zenon
      <2>2. i + 1 = Len(q) /\ loopAt # "write"
            BY <1>1, <2>1, Zenon DEF OpenInv, CloseIsLast
      <2>3. i = Len(q) - 1
            BY <1>2, <2>1, <2>2
      <2>4. d2c' = Tail(q)
            BY <1>1, Zenon
      <2>5. Len(d2c') = Len(q) - 1
            BY <1>2, <2>4, Zenon
      <2>6. QED BY <2>2, <2>3, <2>5, Zenon
<1>4. ASSUME NEW t \in Threads, InCall(t)' PROVE Own(thr[t])'
      <2>1. PICK c : c = thr[t] /\ c = thr'[t] /\ Own(c)
            BY <1>4, Zenon DEF OpenInv
      <2>2. \A i \in Finals(d2c') : d2c'[i].returning = c
            <3>1. \A i \in Finals(q) : q[i].returning = c
                  BY <1>1, <2>1, Zenon DEF Own
            <3>2. d2c' = Tail(q)
                  BY <1>1, Zenon
            <3>3. \A i \in Finals(Tail(q)) : Tail(q)[i].returning = c
                  BY <1>2, <3>1, Zenon
            <3>4. QED BY <3>2, <3>3, Zenon
      <2>3. Finals(d2c)' = Finals(d2c')
            BY Zenon DEF Finals, IsFinal
      <2>4. Own(c)'
            BY <2>1, <2>2, <2>3, Zenon DEF Own
      <2>5. QED BY <2>1, <2>4, Zenon
<1>5. QED BY <1>3, <1>4, Zenon DEF OpenInv

\* The thread's call begins when nothing is under way.
LEMMA CallBegins ==
    ASSUME TypeOK, NEW t \in Threads, NEW c \in Calls, ChanSend(t, c),
           c2d = <<>>, Finals(d2c') = {}, Committed' = {},
           \A u \in Threads : InCall(u)' => u = t
    PROVE  OpenInv'
<1>1. Len(c2d') = 1 /\ c2d'[1] = c /\ thr'[t] = c
      BY DEF ChanSend, TypeOK
<1>2. \A i \in 1..Len(c2d') : c2d'[i] = c
      BY <1>1
<1>3. Own(c)'
      BY <1>2, Zenon DEF Own, Finals, IsFinal
<1>4. CloseIsLast'
      BY Zenon DEF CloseIsLast, Finals, IsFinal
<1>5. QED BY <1>1, <1>3, <1>4, Zenon DEF OpenInv

\* A request is handled: it was the thread's, and what is promised is its answer.
LEMMA RequestHandled ==
    ASSUME IInv, LoneInv, Alone, chan = "open", NEW c, NEW r, Handle(c, r),
           IsFinal(r) => r.returning = c,
           waiting' => waiting \/ c = "recvfrom",
           synOut' /\ conn' = "SYN_SENT" => (synOut /\ conn = "SYN_SENT") \/ c = "connect"
    PROVE  OpenInv'
<1>1. Len(c2d) = 1 /\ Finals(d2c) = {} /\ Committed = {}
      BY OnlyOne, Zenon DEF Handle, Reads
<1>2. /\ ~waiting /\ ~(ipAt = "estab" /\ Listed) /\ ~(synOut /\ conn = "SYN_SENT")
      BY <1>1, CommittedFacts, Zenon DEF Handle, Reads
<1>3. Len(c2d') = 0 /\ c2d[1] = c
      BY <1>1, ChannelTypes DEF Handle, Reads, IInv, TypeOK
<1>4. Finals(d2c)' = {}
      BY <1>1, Zenon DEF Handle, Reads, Finals, IsFinal
<1>5. CloseIsLast'
      BY <1>4, Zenon DEF CloseIsLast
<1>6. ASSUME NEW t \in Threads, InCall(t)' PROVE Own(thr[t])'
      <2>1. thr'[t] = c
            BY <1>1, <1>3, <1>6 DEF Handle, Reads, client, InCall, LoneInv, Own
      <2>2. /\ "loop" \in Committed' => resp'.returning = c
            /\ "take" \in Committed' => c = "recvfrom"
            /\ {"ip", "syn"} \cap Committed' # {} => c = "connect"
            BY <1>2, CommittedNext DEF Handle, Reads, Listed
      <2>3. \A i \in 1..Len(c2d') : c2d'[i] = c
            BY <1>3
      <2>4. Own(c)'
            BY <1>4, <2>2, <2>3, Zenon DEF Own
      <2>5. QED BY <2>1, <2>4, Zenon
<1>7. QED BY <1>5, <1>6, Zenon DEF OpenInv

\* A response is written: a final one where there is no other, and the thread's;
\* a WAIT_NEXT by the loop.
LEMMA ResponseWritten ==
    ASSUME TypeOK, OpenInv, UNCHANGED <<thr, c2d>>, "loop" \in Committed' => resp' = resp,
           NEW r \in Responses, d2c' = Append(d2c, r), Committed' \subseteq Committed,
           IsFinal(r) => Finals(d2c) = {},
           ~IsFinal(r) => loopAt = "write",
           \A t \in Threads : InCall(t) /\ IsFinal(r) => r.returning = thr[t],
           IsFinal(r) /\ r.returning = "close" => loopAt' # "write"
    PROVE  OpenInv'
<1>1. PICK q \in Seq(Responses) : q = d2c
      BY Zenon DEF TypeOK
<1>2. /\ Len(Append(q, r)) = Len(q) + 1 /\ Len(q) \in Nat
      /\ \A i \in Finals(Append(q, r)) :
            \/ i \in Finals(q) /\ Append(q, r)[i] = q[i]
            \/ i = Len(q) + 1 /\ Append(q, r)[i] = r /\ IsFinal(r)
      BY FinalsOfAppend, Zenon
<1>3. CloseIsLast'
      <2> SUFFICES ASSUME NEW i \in Finals(d2c'), d2c'[i].returning = "close"
                   PROVE  i = Len(d2c') /\ loopAt' # "write"
          BY Zenon DEF CloseIsLast, Finals, IsFinal
      <2>1. CASE i \in Finals(q) /\ Append(q, r)[i] = q[i]
            BY <1>1, <2>1, Zenon DEF OpenInv, CloseIsLast
      <2>2. CASE i = Len(q) + 1 /\ Append(q, r)[i] = r /\ IsFinal(r)
            BY <1>1, <1>2, <2>2, Zenon
      <2>3. QED BY <1>1, <1>2, <2>1, <2>2, Zenon
<1>4. ASSUME NEW t \in Threads, InCall(t)' PROVE Own(thr[t])'
      <2>1. PICK c : c = thr[t] /\ c = thr'[t] /\ Own(c) /\ InCall(t)
            BY <1>4, Zenon DEF OpenInv, InCall
      <2>2. \A i \in Finals(d2c') : d2c'[i].returning = c
            BY <1>1, <1>2, <2>1, Zenon DEF Own
      <2>3. Finals(d2c)' = Finals(d2c')
            BY Zenon DEF Finals, IsFinal
      <2>4. Own(c)'
            BY <2>1, <2>2, <2>3, Zenon DEF Own
      <2>5. QED BY <2>1, <2>4, Zenon
<1>5. QED BY <1>3, <1>4, Zenon DEF OpenInv
-----------------------------------------------------------------------------
\* The application's thread.
LEMMA OpenClient ==
    ASSUME IInv, LoneInv, Alone, ClientStep, chan' = "open" PROVE OpenInv'
<1>0. TypeOK /\ InStep
      BY Zenon DEF IInv
<1>1. ASSUME NEW t \in Threads, Socket(t) PROVE OpenInv'
      <2>1. /\ c2d = <<>> /\ d2c' = <<>> /\ ~waiting' /\ loopAt' = "idle"
            /\ ipAt' = "idle" /\ ~synOut'
            BY <1>0, <1>1, Zenon DEF Socket, InStep, endpoint, session
      <2>2. Committed' = {}
            BY <2>1, CommittedNext, Zenon
      <2>3. Finals(d2c') = {}
            BY <2>1 DEF Finals
      <2>4. PICK u \in Threads : users = {u}
            BY <1>0, SoleUser, Zenon
      <2>5. \A v \in Threads : InCall(v)' => v = t
            <3> SUFFICES ASSUME NEW v \in Threads, InCall(v)', v # t PROVE FALSE
                BY Zenon
            <3>1. thr'[v] = thr[v]
                  BY <1>0, <1>1, Zenon DEF Socket, ChanSend, TypeOK
            <3>2. v \in users
                  BY <3>1, Zenon DEF LoneInv, InCall
            <3>3. QED BY <1>1, <2>4, <3>2, Zenon DEF Socket
      <2>6. "socket" \in Calls /\ ChanSend(t, "socket")
            BY <1>1, Zenon DEF Socket, Calls
      <2>7. QED BY <1>0, <2>1, <2>2, <2>3, <2>5, <2>6, CallBegins, Zenon
<1>2. ASSUME NEW t \in Threads, NEW c \in Calls, Call(t, c) PROVE OpenInv'
      <2>1. PICK u \in Threads : users = {u} /\ Calling \subseteq {u}
            BY <1>2, OnlyOne, Zenon DEF Call
      <2>2. u = t /\ ~InCall(t)
            BY <1>2, <2>1, Zenon DEF Call, InCall, Calls
      <2>3. Calling = {}
            BY <2>1, <2>2, Zenon DEF Calling
      <2>4. c2d = <<>> /\ Finals(d2c) = {} /\ Committed = {}
            BY <1>2, <2>3, OnlyOne, Zenon DEF Call
      <2>5. Finals(d2c') = {}
            BY <1>2, <2>4, Zenon DEF Call
      <2>6. Committed' = {}
            BY <1>2, <2>4, CommittedFacts, CommittedNext, Zenon DEF Call, Listed, endpoint, session
      <2>7. \A v \in Threads : InCall(v)' => v = t
            BY <1>0, <1>2, <2>3, Zenon DEF Call, ChanSend, TypeOK, Calling, InCall
      <2>8. QED BY <1>0, <1>2, <2>4, <2>5, <2>6, <2>7, CallBegins, Zenon DEF Call
<1>3. ASSUME NEW t \in Threads, RecvWaitNext(t) \/ RecvAnswer(t) PROVE OpenInv'
      <2>1. UNCHANGED <<c2d, resp, loopAt>> /\ d2c # <<>> /\ d2c' = Tail(d2c) /\ chan = "open"
            BY <1>3, Zenon DEF RecvWaitNext, RecvAnswer, client
      <2>2. Committed' = Committed
            BY <1>3 DEF Committed, Listed, IsFinal, RecvWaitNext, RecvAnswer, endpoint, session
      <2>3. \A v \in Threads : InCall(v)' => InCall(v) /\ thr'[v] = thr[v]
            BY <1>0, <1>3, Zenon DEF RecvWaitNext, RecvAnswer, client, TypeOK, InCall, Calls
      <2>4. OpenInv
            BY <2>1, Zenon DEF LoneInv, OpenInv
      <2>5. QED BY <1>0, <2>1, <2>2, <2>3, <2>4, ResponseRead, Zenon
<1>4. QED BY <1>1, <1>2, <1>3, Zenon
          DEF ClientStep, Receive, RecvCloseAnswer, RecvUnpackFails, ClientDies

\* A request is handled, on a blocking TCP socket.
LEMMA OpenRequest ==
    ASSUME IInv, LoneInv, Alone, HandleRequest, chan = "open" PROVE OpenInv'
<1>0. TypeOK /\ InStep
      BY Zenon DEF IInv
<1> USE DEF Answer, WaitNext, IsFinal, endpoint, session
<1>1. CASE SocketCall \/ CloseCall \/ GetpeernameCall \/ GetsocknameCall
      BY <1>1, RequestHandled DEF SocketCall, CloseCall, GetpeernameCall, GetsocknameCall
<1>2. CASE ConnectUdp \/ ConnectInProgress \/ RecvfromAgain
      BY <1>2, Zenon DEF ConnectUdp, ConnectInProgress, RecvfromAgain, Alone
<1>3. CASE ConnectWaitEstab
      BY <1>3, RequestHandled, Zenon DEF ConnectWaitEstab
<1>4. CASE SendtoCall
      <2>1. synOut' /\ conn' = "SYN_SENT" => synOut /\ conn = "SYN_SENT"
            BY <1>0, <1>4, Zenon DEF SendtoCall, InStep
      <2>2. QED BY <1>4, <2>1, RequestHandled, Zenon DEF SendtoCall
<1>5. CASE RecvfromTakes \/ RecvfromWaits
      BY <1>5, RequestHandled DEF RecvfromTakes, RecvfromWaits
<1>6. CASE ReadFails \/ ReadEof
      BY <1>0, <1>6, Zenon DEF ReadFails, ReadEof, InStep
<1>7. QED BY <1>1, <1>2, <1>3, <1>4, <1>5, <1>6, Zenon DEF HandleRequest

\* The daemon's other steps, among them the three that write.
LEMMA OpenDaemon ==
    ASSUME IInv, LoneInv, Alone, [Next]_vars, ~ClientStep, ~HandleRequest, chan = "open"
    PROVE  OpenInv'
<1>0. TypeOK /\ InStep /\ OpenInv
      BY Zenon DEF IInv, LoneInv, OpenInv
<1>1. CASE OnNewConnection \/ SChannelReadCb \/ PacketArrives \/ UNCHANGED vars
      <2>1. /\ UNCHANGED <<thr, c2d, d2c, resp>>
            /\ loopAt' = "write" => loopAt = "write"
            BY <1>1, Zenon DEF OnNewConnection, SChannelReadCb, PacketArrives, vars, client
      <2>2. Committed' \subseteq Committed
            <3>1. ipAt' = "estab" /\ Listed' => ipAt = "estab" /\ Listed
                  BY <1>0, <1>1, Zenon
                  DEF OnNewConnection, SChannelReadCb, PacketArrives, vars, InStep, Listed
            <3>2. UNCHANGED <<waiting, synOut, conn>>
                  BY <1>1, Zenon DEF OnNewConnection, SChannelReadCb, PacketArrives, vars, endpoint,
                              session
            <3>3. QED BY <2>1, <3>1, <3>2, CommittedFacts, CommittedNext, Zenon
      <2>3. QED BY <1>0, <2>1, <2>2, NothingSaid, Zenon
<1>2. CASE WriteResponse
      <2>1. PICK r \in Responses : r = resp
            BY <1>0, Zenon DEF TypeOK
      <2>2. /\ UNCHANGED <<thr, c2d>> /\ d2c' = Append(d2c, r)
            /\ loopAt = "write" /\ loopAt' = "idle"
            BY <1>2, <2>1, Zenon DEF WriteResponse, Write, client
      <2>3. Committed' \subseteq Committed /\ "loop" \notin Committed'
            <3>1. Writes(r)
                  BY <1>2, <2>1, WriteEither, Zenon DEF WriteResponse
            <3>2. UNCHANGED <<waiting, ipAt, synOut, conn>> /\ (Listed' <=> Listed)
                  BY <1>0, <1>2, <3>1, WriteType, Zenon DEF WriteResponse, endpoint, session
            <3>3. QED BY <2>2, <3>2, CommittedFacts, CommittedNext
      <2>4. IsFinal(r) => "loop" \in Committed
            BY <2>1, <2>2, CommittedFacts, Zenon
      <2>5. IsFinal(r) => Finals(d2c) = {}
            BY <2>4, OnlyOne, Zenon
      <2>6. \A t \in Threads : InCall(t) /\ IsFinal(r) => r.returning = thr[t]
            BY <1>0, <2>1, <2>4, Zenon DEF OpenInv, Own
      <2>7. QED BY <1>0, <2>2, <2>3, <2>5, <2>6, ResponseWritten, Zenon
<1>3. CASE OnAsyncNewPacket
      <2>1. PICK r \in Responses : r = Answer("recvfrom", "done")
            BY ResponseTypes, Zenon DEF Calls, Rets
      <2>2. /\ UNCHANGED <<thr, c2d, resp>> /\ d2c' = Append(d2c, r) /\ loopAt' = "idle"
            BY <1>3, <2>1, Zenon DEF OnAsyncNewPacket, Write, client
      <2>3. Committed' \subseteq Committed
            <3>1. Writes(r)
                  BY <1>3, <2>1, Zenon DEF OnAsyncNewPacket, Writes
            <3>2. QED BY <1>0, <1>3, <3>1, WriteType, CommittedFacts, CommittedNext, Zenon
                      DEF OnAsyncNewPacket, session
      <2>4. "take" \in Committed
            BY <1>0, <1>3, CommittedFacts, Zenon DEF OnAsyncNewPacket, InStep
      <2>5. Finals(d2c) = {}
            BY <2>4, OnlyOne, Zenon
      <2>6. IsFinal(r) /\ r.returning = "recvfrom"
            BY <2>1, Zenon DEF Answer, IsFinal
      <2>7. \A t \in Threads : InCall(t) => r.returning = thr[t]
            BY <1>0, <2>4, <2>6, Zenon DEF OpenInv, Own
      <2>8. QED BY <1>0, <2>2, <2>3, <2>5, <2>6, <2>7, ResponseWritten, Zenon
<1>4. CASE RecvSynAck
      <2>1. /\ UNCHANGED <<thr, c2d, d2c, resp, loopAt>>
            /\ "syn" \in Committed
            /\ \A x \in Committed' : x \in Committed \/ x = "ip"
            BY <1>4, CommittedFacts, CommittedNext, Zenon DEF RecvSynAck, Listed, client, endpoint
      <2>2. CloseIsLast'
            BY <1>0, <2>1, Zenon DEF OpenInv, CloseIsLast, Finals, IsFinal
      <2>3. ASSUME NEW t \in Threads, InCall(t)' PROVE Own(thr[t])'
            <3>1. PICK c : c = thr[t] /\ c = thr'[t] /\ Own(c) /\ c = "connect"
                  BY <1>0, <2>1, <2>3, Zenon DEF OpenInv, InCall, Own
            <3>2. "take" \notin Committed'
                  BY <2>1, OnlyOne, Zenon
            <3>3. Finals(d2c)' = Finals(d2c)
                  BY <2>1, Zenon DEF Finals, IsFinal
            <3>4. Own(c)'
                  BY <2>1, <3>1, <3>2, <3>3, Zenon DEF Own
            <3>5. QED BY <3>1, <3>4, Zenon
      <2>4. QED BY <2>2, <2>3, Zenon DEF OpenInv
<1>5. CASE OnConnEstab /\ ~Listed
      <2>1. UNCHANGED <<thr, c2d, d2c, resp, loopAt>>
            BY <1>5, Zenon DEF OnConnEstab, client
      <2>2. Committed' \subseteq Committed
            BY <1>5, CommittedFacts, CommittedNext, Zenon DEF OnConnEstab, endpoint, session
      <2>3. QED BY <1>0, <2>1, <2>2, NothingSaid, Zenon
<1>6. CASE OnConnEstab /\ Listed
      <2>1. PICK r \in Responses : r = Answer("connect", "done")
            BY ResponseTypes, Zenon DEF Calls, Rets
      <2>2. UNCHANGED <<thr, c2d, resp>> /\ d2c' = Append(d2c, r)
            BY <1>6, <2>1, Zenon DEF OnConnEstab, Write, client
      <2>3. Committed' \subseteq Committed
            BY <1>6, CommittedFacts, CommittedNext, Zenon DEF OnConnEstab, Write, endpoint, session
      <2>4. "ip" \in Committed
            BY <1>6, CommittedFacts, Zenon DEF OnConnEstab
      <2>5. Finals(d2c) = {}
            BY <2>4, OnlyOne, Zenon
      <2>6. IsFinal(r) /\ r.returning = "connect"
            BY <2>1, Zenon DEF Answer, IsFinal
      <2>7. \A t \in Threads : InCall(t) => r.returning = thr[t]
            BY <1>0, <2>4, <2>6, Zenon DEF OpenInv, Own
      <2>8. QED BY <1>0, <2>2, <2>3, <2>5, <2>6, <2>7, ResponseWritten, Zenon
<1>7. QED BY <1>1, <1>2, <1>3, <1>4, <1>5, <1>6, Zenon DEF Next, LoopStep, IpStep
-----------------------------------------------------------------------------
LEMMA LoneInitially == Init => LoneInv
BY Zenon DEF Init, LoneInv, Failed, InCall, Calls

LEMMA LoneStep == IInv /\ LoneInv /\ [Next]_vars => LoneInv'
<1> SUFFICES ASSUME IInv, LoneInv, [Next]_vars PROVE LoneInv'
    BY Zenon
<1>1. Alone' = Alone
      BY ArgsStep DEF args, Alone
<1>2. Alone /\ chan' = "open" => OpenInv'
      <2> SUFFICES ASSUME Alone, chan' = "open" PROVE OpenInv'
          BY Zenon
      <2>1. ~ClientStep => chan = "open"
            BY DaemonKeepsClient, Zenon
      <2>2. QED BY <2>1, OpenClient, OpenRequest, OpenDaemon, Zenon
<1>3. QED BY <1>1, <1>2, FailedStep, UsersStep, QuietStep, Zenon DEF LoneInv, OpenInv

\* The first response in the channel is among the final ones if it is final.
LEMMA LoneMatches == IInv /\ LoneInv => ResponseMatchesCall
<1> SUFFICES ASSUME IInv, LoneInv, Alone, NEW t \in Threads, InCall(t), d2c # <<>>,
                    IsFinal(Head(d2c))
             PROVE  Head(d2c).returning = thr[t]
    BY Zenon DEF ResponseMatchesCall, ReadsItsOwn
<1>1. PICK q \in Seq(Responses) : q = d2c
      BY Zenon DEF IInv, TypeOK
<1>2. Head(q) = q[1] /\ 1 \in 1..Len(q)
      BY <1>1
<1>3. 1 \in Finals(d2c)
      BY <1>1, <1>2, Zenon DEF Finals
<1>4. chan = "open"
      BY Zenon DEF IInv, InStep
<1>5. Own(thr[t])
      BY <1>4, Zenon DEF LoneInv
<1>6. QED BY <1>1, <1>2, <1>3, <1>5 DEF Own

LEMMA LoneCloseIsHarmless == IInv /\ LoneInv => OrderlyCloseIsHarmless
BY Zenon DEF LoneInv, OrderlyCloseIsHarmless, Quiet, Failed, Lives

LEMMA LoneInvariance == Spec => [](IInv /\ LoneInv)
BY Invariance, LoneInitially, LoneStep, PTL DEF Spec

\* On a blocking TCP socket that one thread uses, whatever calls it makes and
\* however the loop and the IP thread interleave their writes, the final response
\* a call reads is its own.
THEOREM ResponseMatchesCallCorrect == Spec => []ResponseMatchesCall
BY LoneInvariance, LoneMatches, PTL

\* Such a thread may close the socket at any time between two calls: the daemon
\* has nothing left to write to the channel that close() closed.
THEOREM OrderlyCloseIsHarmlessCorrect == Spec => []OrderlyCloseIsHarmless
BY LoneInvariance, LoneCloseIsHarmless, PTL
=============================================================================
