-------------------------------- MODULE Rpc --------------------------------
(***************************************************************************)
(* The request/response protocol between the interceptor, preloaded into   *)
(* an application, and the daemon, over the one AF_UNIX SOCK_SEQPACKET     *)
(* channel of one socket.  Three parties run concurrently:                 *)
(*   - the application's threads: each call writes a request and reads     *)
(*     responses until one is not WAIT_NEXT (interceptor.c,                *)
(*     req-resp-channel.c);                                                *)
(*   - the event loop thread: reads a request, handles it, and only then   *)
(*     writes the response (AgentChannel.cpp, RpcDispatch.cpp);            *)
(*   - the IP thread: delivers packets and runs onConnEstabCB, which       *)
(*     writes to the same channel (TcpSession.cpp).                        *)
(* The receive queue is a counter here; module Endpoint has its detail.    *)
(* Assertions are compiled out, as in the default Release build.           *)
(***************************************************************************)
EXTENDS Naturals, Sequences, FiniteSets

CONSTANTS Threads,    \* the threads of the application
          Users,      \* the sets of threads that may share the socket
          CallsOf,    \* CallsOf[t]: the calls thread t makes after socket()
          SockTypes,  \* the types socket() may be asked for: "tcp", "udp"
          Modes,      \* the values SOCK_NONBLOCK may have, within BOOLEAN
          MaxQueued   \* bound: packets waiting in the receive queue

Calls == {"socket", "connect", "close", "sendto", "recvfrom", "getpeername",
          "getsockname"}

ASSUME RpcAssumption ==
    /\ IsFiniteSet(Threads)
    /\ Users \subseteq SUBSET Threads
    /\ CallsOf \in [Threads -> SUBSET (Calls \ {"socket"})]
    /\ SockTypes \subseteq {"tcp", "udp"}
    /\ Modes \subseteq BOOLEAN
    /\ MaxQueued \in Nat

VARIABLES
    users,    \* the threads that use the socket, fixed in a behaviour
    sockType, nonblocking,  \* the arguments of socket(), fixed in a behaviour
    thr,      \* thr[t]: the call t is in, or "out", "crashed", "dead"
    chan,     \* the client's end of the channel: "none", "open", "closed"
    reset,    \* the client's end was closed with responses unread
    c2d,      \* requests in the channel
    d2c,      \* responses in the channel
    agent,    \* the AgentChannel: see AgentStates
    loopAt,   \* event loop thread: "idle", "write" (before write), "take"
    resp,     \* the response the loop is about to write
    waiting,  \* Endpoint::Impl::waiting
    notified, \* the notification pipe is readable
    recvQ,    \* packets in the receive queue
    conn,     \* TcpSession::conn_state
    synOut,   \* a SYN has been sent to the peer connect() named
    bound,    \* Session::lport has been assigned: packets can be for it
    ipAt      \* IP thread: "idle", or "estab" before it calls onConnEstabCB

client == <<thr, chan, reset>>
endpoint == <<waiting, notified, recvQ>>
session == <<conn, synOut, bound>>
args == <<users, sockType, nonblocking>>
vars == <<args, client, c2d, d2c, agent, loopAt, resp, endpoint, session, ipAt>>

\* open: in Arbiter's list and registered with the event loop; unregistered: in
\* the list only, after a write failed; reported: the same, but the poll that is
\* being served had already reported it readable; removed: gone from both.
AgentStates == {"none", "open", "reported", "unregistered", "removed"}

\* A response: its oneof case, its required retCode, its ret field.
RetCodes == {"OK", "WAIT_NEXT", "unset"}
Rets == {"done", "EAGAIN", "EINPROGRESS", "none"}
Responses == [returning : Calls \cup {"none"}, retcode : RetCodes, ret : Rets]
Answer(call, ret) == [returning |-> call, retcode |-> "OK", ret |-> ret]
WaitNext == [returning |-> "none", retcode |-> "WAIT_NEXT", ret |-> "none"]
Empty == [returning |-> "none", retcode |-> "unset", ret |-> "none"]

Init ==
    /\ users \in Users
    /\ sockType \in SockTypes
    /\ nonblocking \in Modes
    /\ thr = [t \in Threads |-> "out"]
    /\ chan = "none"
    /\ reset = FALSE
    /\ c2d = <<>>
    /\ d2c = <<>>
    /\ agent = "none"
    /\ loopAt = "idle"
    /\ resp = Empty
    /\ waiting = FALSE
    /\ notified = FALSE
    /\ recvQ = 0
    /\ conn = "CLOSED"
    /\ synOut = FALSE
    /\ bound = FALSE
    /\ ipAt = "idle"
-----------------------------------------------------------------------------
(* The application's threads.                                              *)

\* chan_send: one write on the channel.
ChanSend(t, c) ==
    /\ thr' = [thr EXCEPT ![t] = c]
    /\ c2d' = Append(c2d, c)

\* socket(): a channel of its own (open_chan), then the request; neither waits
\* for the daemon to accept the channel.
Socket(t) ==
    /\ t \in users
    /\ chan = "none"
    /\ chan' = "open"
    /\ ChanSend(t, "socket")
    /\ UNCHANGED <<args, reset, d2c, agent, loopAt, resp, endpoint, session, ipAt>>

\* Every other call sends its request.  The application has the descriptor once
\* socket() returned, and closes it when no other thread is inside a call on it.
Call(t, c) ==
    /\ t \in users
    /\ chan = "open"
    /\ thr[t] = "out"
    /\ c \in CallsOf[t]
    /\ \A u \in Threads : thr[u] \notin {"socket", "close"}
    /\ c = "close" => \A u \in Threads : thr[u] = "out"
    /\ ChanSend(t, c)
    /\ UNCHANGED <<args, chan, reset, d2c, agent, loopAt, resp, endpoint,
                   session, ipAt>>

\* Mutant: chan_recv returns with the first response, whatever it is.
RecvWaitNext_Returns(t) ==
    /\ thr[t] \in Calls
    /\ d2c # <<>>
    /\ Head(d2c).retcode = "WAIT_NEXT"
    /\ d2c' = Tail(d2c)
    /\ thr' = [thr EXCEPT ![t] = "out"]
    /\ chan' = IF thr[t] = "close" THEN "closed" ELSE chan
    /\ reset' = (thr[t] = "close" /\ d2c' # <<>>)
    /\ UNCHANGED <<args, c2d, agent, loopAt, resp, endpoint, session, ipAt>>

\* chan_recv reads a WAIT_NEXT: read again.
RecvWaitNext(t) ==
    /\ thr[t] \in Calls
    /\ d2c # <<>>
    /\ Head(d2c).retcode = "WAIT_NEXT"
    /\ d2c' = Tail(d2c)
    /\ UNCHANGED <<args, client, c2d, agent, loopAt, resp, endpoint, session,
                   ipAt>>

\* chan_recv reads the answer and the call returns.
RecvAnswer(t) ==
    /\ thr[t] \in Calls \ {"close"}
    /\ d2c # <<>>
    /\ Head(d2c).retcode = "OK"
    /\ d2c' = Tail(d2c)
    /\ thr' = [thr EXCEPT ![t] = "out"]
    /\ UNCHANGED <<args, chan, reset, c2d, agent, loopAt, resp, endpoint, session,
                   ipAt>>

\* The same for close(), which then closes the channel.
RecvCloseAnswer(t) ==
    /\ thr[t] = "close"
    /\ d2c # <<>>
    /\ Head(d2c).retcode = "OK"
    /\ d2c' = <<>>
    /\ thr' = [thr EXCEPT ![t] = "out"]
    /\ chan' = "closed"
    /\ reset' = (Tail(d2c) # <<>>)
    /\ UNCHANGED <<args, c2d, agent, loopAt, resp, endpoint, session, ipAt>>

\* chan_recv cannot unpack the response (required retCode missing):
\* response__unpack returns NULL, which the loop condition dereferences.
RecvUnpackFails(t) ==
    /\ thr[t] \in Calls
    /\ d2c # <<>>
    /\ Head(d2c).retcode = "unset"
    /\ thr' = [u \in Threads |-> IF u = t THEN "crashed" ELSE "dead"]
    /\ chan' = "closed"
    /\ reset' = (Tail(d2c) # <<>>)
    /\ d2c' = <<>>
    /\ UNCHANGED <<args, c2d, agent, loopAt, resp, endpoint, session, ipAt>>

\* The application's process is killed; the kernel closes its channel.
ClientDies ==
    /\ chan = "open"
    /\ thr' = [t \in Threads |-> "dead"]
    /\ chan' = "closed"
    /\ reset' = (d2c # <<>>)
    /\ d2c' = <<>>
    /\ UNCHANGED <<args, c2d, agent, loopAt, resp, endpoint, session, ipAt>>
-----------------------------------------------------------------------------
(* The event loop thread.  AgentChannel::onReadReady reads one request and *)
(* the handler fills in the response.                                      *)

\* AgentHub::onReadReady accepts the channel and Arbiter adds an AgentChannel.
OnNewConnection ==
    /\ loopAt = "idle"
    /\ agent = "none"
    /\ chan # "none"
    /\ agent' = "open"
    /\ UNCHANGED <<args, client, c2d, d2c, loopAt, resp, endpoint, session, ipAt>>

\* The channel is polled, or was in the poll that is being served.
Reads ==
    /\ agent \in {"open", "reported"}
    /\ loopAt = "idle"
    /\ agent' = IF agent = "open" THEN "open" ELSE "unregistered"

\* ::read returned request c; the loop goes on to write r.
Handle(c, r) ==
    /\ Reads
    /\ ~reset
    /\ c2d # <<>>
    /\ Head(c2d) = c
    /\ c2d' = Tail(c2d)
    /\ loopAt' = "write"
    /\ resp' = r
    /\ UNCHANGED <<args, client, d2c, ipAt>>

\* socketCall: Endpoint and Session are made, as Init has them.
SocketCall ==
    /\ Handle("socket", Answer("socket", "done"))
    /\ UNCHANGED <<endpoint, session>>

\* closeCall only answers: everything is freed at the end of file that follows.
CloseCall ==
    /\ Handle("close", Answer("close", "done"))
    /\ UNCHANGED <<endpoint, session>>

\* getpeernameCall and getsocknameCall read the session.
GetpeernameCall ==
    /\ Handle("getpeername", Answer("getpeername", "done"))
    /\ UNCHANGED <<endpoint, session>>

GetsocknameCall ==
    /\ Handle("getsockname", Answer("getsockname", "done"))
    /\ UNCHANGED <<endpoint, session>>

\* connectCall, udp: the answer is filled in but its retCode is not.
ConnectUdp ==
    /\ sockType = "udp"
    /\ Handle("connect", [Answer("connect", "done") EXCEPT !.retcode = "unset"])
    /\ bound' = TRUE
    /\ UNCHANGED <<endpoint, conn, synOut>>

\* connectCall, tcp_in_progress: the answer is made as a recvfrom's, and no
\* connection is begun.
ConnectInProgress ==
    /\ sockType = "tcp"
    /\ nonblocking
    /\ Handle("connect", Answer("recvfrom", "EINPROGRESS"))
    /\ UNCHANGED <<endpoint, session>>

\* Mutant: connect() is answered before the handshake.
ConnectWaitEstab_Early ==
    /\ sockType = "tcp"
    /\ ~nonblocking
    /\ Handle("connect", Answer("connect", "done"))
    /\ synOut' = (synOut \/ conn = "CLOSED")
    /\ conn' = IF conn = "CLOSED" THEN "SYN_SENT" ELSE conn
    /\ bound' = TRUE
    /\ UNCHANGED endpoint

\* connectCall, tcp_wait_estab: set onConnEstabCB, then TcpSession::connect,
\* whose send("") emits a SYN in CLOSED, an ACK in ESTABLISHED, and nothing in
\* SYN_SENT.
ConnectWaitEstab ==
    /\ sockType = "tcp"
    /\ ~nonblocking
    /\ Handle("connect", WaitNext)
    /\ synOut' = (synOut \/ conn = "CLOSED")
    /\ conn' = IF conn = "CLOSED" THEN "SYN_SENT" ELSE conn
    /\ bound' = TRUE
    /\ UNCHANGED endpoint

\* Mutant: the answer is made in the wrong oneof case.
SendtoCall_WrongCase ==
    /\ Handle("sendto", Answer("recvfrom", "done"))
    /\ conn' = IF sockType = "tcp" /\ conn = "CLOSED" THEN "SYN_SENT" ELSE conn
    /\ bound' = TRUE
    /\ UNCHANGED <<endpoint, synOut>>

\* sendtoCall.  TcpSession::send in CLOSED also emits a SYN, but before
\* connect() the foreign address is 0.0.0.0:0: nobody will answer it.
SendtoCall ==
    /\ Handle("sendto", Answer("sendto", "done"))
    /\ conn' = IF sockType = "tcp" /\ conn = "CLOSED" THEN "SYN_SENT" ELSE conn
    /\ bound' = TRUE
    /\ UNCHANGED <<endpoint, synOut>>

\* Mutant: the result of try_takeFromRecvQ is not tested.
RecvfromTakes_Untested ==
    /\ Handle("recvfrom", Answer("recvfrom", "done"))
    /\ recvQ' = recvQ - 1
    /\ UNCHANGED <<waiting, notified, session>>

\* recvfromCall, happy path.
RecvfromTakes ==
    /\ recvQ > 0
    /\ Handle("recvfrom", Answer("recvfrom", "done"))
    /\ recvQ' = recvQ - 1
    /\ UNCHANGED <<waiting, notified, session>>

\* recvfromCall, e_again.
RecvfromAgain ==
    /\ recvQ = 0
    /\ nonblocking
    /\ Handle("recvfrom", Answer("recvfrom", "EAGAIN"))
    /\ UNCHANGED <<endpoint, session>>

\* Mutant: setWaiting(true) is forgotten.
RecvfromWaits_NoFlag ==
    /\ recvQ = 0
    /\ ~nonblocking
    /\ Handle("recvfrom", WaitNext)
    /\ UNCHANGED <<endpoint, session>>

\* recvfromCall, wait_next.
RecvfromWaits ==
    /\ recvQ = 0
    /\ ~nonblocking
    /\ Handle("recvfrom", WaitNext)
    /\ waiting' = TRUE
    /\ UNCHANGED <<notified, recvQ, session>>

\* ::read failed with ECONNRESET, which onReadReady does not handle: the
\* request is empty, and so is the response.
ReadFails ==
    /\ Reads
    /\ reset
    /\ reset' = FALSE
    /\ loopAt' = "write"
    /\ resp' = Empty
    /\ UNCHANGED <<args, thr, chan, c2d, d2c, endpoint, session, ipAt>>

\* Mutant: the channel is left in Arbiter's list.
ReadEof_Kept ==
    /\ agent \in {"open", "reported"}
    /\ loopAt = "idle"
    /\ chan = "closed"
    /\ ~reset
    /\ c2d = <<>>
    /\ UNCHANGED vars

\* ::read returned 0: Arbiter::removeRRChannel, and with the channel go its
\* Endpoint and Session.
ReadEof ==
    /\ agent \in {"open", "reported"}
    /\ loopAt = "idle"
    /\ chan = "closed"
    /\ ~reset
    /\ c2d = <<>>
    /\ agent' = "removed"
    /\ waiting' = FALSE
    /\ notified' = FALSE
    /\ recvQ' = 0
    /\ conn' = "CLOSED"
    /\ synOut' = FALSE
    /\ bound' = FALSE
    /\ UNCHANGED <<args, client, c2d, d2c, loopAt, resp, ipAt>>

HandleRequest ==
    \/ SocketCall \/ CloseCall \/ GetpeernameCall \/ GetsocknameCall
    \/ ConnectUdp \/ ConnectInProgress \/ ConnectWaitEstab
    \/ SendtoCall
    \/ RecvfromTakes \/ RecvfromAgain \/ RecvfromWaits
    \/ ReadFails
    \/ ReadEof

\* AgentChannel::write of r.  On a channel whose peer is closed ::write fails,
\* with ECONNRESET if that is pending and EPIPE otherwise, and no signal, as the
\* socket is a SOCK_SEQPACKET; unregisterSelf takes the channel out of the event
\* loop, once, and it stays in Arbiter's list.
Write(r, states) ==
    /\ d2c' = IF chan = "open" THEN Append(d2c, r) ELSE d2c
    /\ reset' = (reset /\ chan = "open")
    /\ agent' \in IF chan # "open" /\ agent = "open" THEN states ELSE {agent}

\* The last line of onReadReady.
WriteResponse ==
    /\ loopAt = "write"
    /\ loopAt' = "idle"
    /\ Write(resp, {"unregistered"})
    /\ resp' = Empty
    /\ UNCHANGED <<args, thr, chan, c2d, endpoint, session, ipAt>>

\* Endpoint::sChannelReadCb: drain the pipe; if a caller waits, go and take.
SChannelReadCb ==
    /\ loopAt = "idle"
    /\ notified
    /\ notified' = FALSE
    /\ loopAt' = IF waiting THEN "take" ELSE "idle"
    /\ UNCHANGED <<args, client, c2d, d2c, agent, resp, waiting, recvQ, session,
                   ipAt>>

\* Mutant: waiting stays set after the answer.
OnAsyncNewPacket_KeepsFlag ==
    /\ loopAt = "take"
    /\ recvQ > 0
    /\ recvQ' = recvQ - 1
    /\ Write(Answer("recvfrom", "done"), {"unregistered", "reported"})
    /\ loopAt' = "idle"
    /\ UNCHANGED <<args, thr, chan, c2d, resp, waiting, notified, session, ipAt>>

\* onAsyncNewTcpPacket / onAsyncNewUdpPacket: take a packet (blocking while
\* there is none), write the answer; then waiting is cleared.
OnAsyncNewPacket ==
    /\ loopAt = "take"
    /\ recvQ > 0
    /\ recvQ' = recvQ - 1
    /\ Write(Answer("recvfrom", "done"), {"unregistered", "reported"})
    /\ waiting' = FALSE
    /\ loopAt' = "idle"
    /\ UNCHANGED <<args, thr, chan, c2d, resp, notified, session, ipAt>>
-----------------------------------------------------------------------------
(* The IP thread.                                                          *)

\* A UDP datagram, or a TCP segment with data on an established connection.
PacketArrives ==
    /\ ipAt = "idle"
    /\ bound
    /\ sockType = "tcp" => conn = "ESTABLISHED"
    /\ recvQ < MaxQueued
    /\ recvQ' = recvQ + 1
    /\ notified' = TRUE
    /\ UNCHANGED <<args, client, c2d, d2c, agent, loopAt, resp, waiting,
                   session, ipAt>>

\* TcpSession::recv of the peer's SYN and ACK in SYN_SENT, up to the callback.
RecvSynAck ==
    /\ ipAt = "idle"
    /\ synOut
    /\ conn = "SYN_SENT"
    /\ conn' = "ESTABLISHED"
    /\ ipAt' = "estab"
    /\ UNCHANGED <<args, client, c2d, d2c, agent, loopAt, resp, endpoint,
                   synOut, bound>>

\* Arbiter's list keeps the AgentChannel.
Listed == agent \notin {"none", "removed"}

\* onConnEstabCB: answer connect(), unless the channel is gone.
OnConnEstab ==
    /\ ipAt = "estab"
    /\ ipAt' = "idle"
    /\ IF Listed THEN Write(Answer("connect", "done"), {"unregistered", "reported"})
                 ELSE UNCHANGED <<reset, d2c, agent>>
    /\ UNCHANGED <<args, thr, chan, c2d, loopAt, resp, endpoint, session>>
-----------------------------------------------------------------------------
Receive(t) ==
    \/ RecvWaitNext(t) \/ RecvAnswer(t) \/ RecvCloseAnswer(t)
    \/ RecvUnpackFails(t)

ClientStep ==
    \/ \E t \in Threads : Socket(t) \/ Receive(t) \/ \E c \in Calls : Call(t, c)
    \/ ClientDies

LoopStep ==
    \/ OnNewConnection \/ HandleRequest \/ WriteResponse
    \/ SChannelReadCb \/ OnAsyncNewPacket

IpStep == PacketArrives \/ RecvSynAck \/ OnConnEstab

Next == ClientStep \/ LoopStep \/ IpStep

Spec == Init /\ [][Next]_vars

(* Fairness: threads blocked in chan_recv run when a response is there; the *)
(* loop serves both descriptors that stay or become readable again (epoll  *)
(* is level triggered); the IP thread finishes what it began.  That the    *)
(* peer answers a SYN and that packets arrive is the network's: no         *)
(* fairness.                                                               *)
FairSpec ==
    /\ Spec
    /\ \A t \in Threads : WF_vars(Receive(t))
    /\ WF_vars(OnNewConnection)
    /\ SF_vars(HandleRequest)
    /\ SF_vars(SChannelReadCb)
    /\ WF_vars(WriteResponse)
    /\ WF_vars(OnAsyncNewPacket)
    /\ WF_vars(OnConnEstab)
-----------------------------------------------------------------------------
(* Properties.                                                             *)

InCall(t) == thr[t] \in Calls

IsFinal(r) == r.retcode # "WAIT_NEXT"

\* The final responses in the channel, and those a daemon thread is committed
\* to write.
Finals(q) == {i \in 1..Len(q) : IsFinal(q[i])}
Committed ==
    {x \in {"loop"} : loopAt = "write" /\ IsFinal(resp)}
        \cup {x \in {"take"} : waiting}
        \cup {x \in {"ip"} : ipAt = "estab" /\ Listed}
        \cup {x \in {"syn"} : synOut /\ conn = "SYN_SENT"}

\* Every variable keeps its type; recvfromCall never takes from an empty
\* receive queue.
TypeOK ==
    /\ users \in Users /\ sockType \in SockTypes /\ nonblocking \in Modes
    /\ thr \in [Threads -> Calls \cup {"out", "crashed", "dead"}]
    /\ chan \in {"none", "open", "closed"}
    /\ c2d \in Seq(Calls)
    /\ d2c \in Seq(Responses)
    /\ agent \in AgentStates
    /\ loopAt \in {"idle", "write", "take"}
    /\ resp \in Responses
    /\ recvQ \in 0..MaxQueued
    /\ conn \in {"CLOSED", "SYN_SENT", "ESTABLISHED"}
    /\ ipAt \in {"idle", "estab"}
    /\ {reset, waiting, notified, synOut, bound} \subseteq BOOLEAN

ReadsItsOwn(t) ==
    (InCall(t) /\ d2c # <<>> /\ IsFinal(Head(d2c)))
        => Head(d2c).returning = thr[t]

\* One thread uses a blocking TCP socket.
Alone == Cardinality(users) = 1 /\ sockType = "tcp" /\ ~nonblocking

\* interceptor.c asserts in every call that the response it got carries its
\* own call's case (lines 141, 195, 229, 322, 380, 581, 613): on a blocking TCP
\* socket of one thread, whoever reads a final response reads the answer to its
\* own call, although two threads of the daemon write them.
ResponseMatchesCall ==
    Alone => \A t \in Threads : ReadsItsOwn(t)

\* interceptor.c:195 asserts that connect() got the answer of a connect, and
\* dereferences the response to do so: the final response that a lone thread reads
\* in connect() can be unpacked and carries that case, on a socket of any kind.
ConnectAnswersAreConnects ==
    Cardinality(users) = 1 =>
        \A t \in Threads :
            (thr[t] = "connect" /\ d2c # <<>> /\ IsFinal(Head(d2c)))
                => Head(d2c).retcode = "OK" /\ Head(d2c).returning = "connect"

\* tests/interceptor.pthread-test.c:7: "Two pthreads share a connected socket:
\* one sends, one receives."  Once connect() has returned, each gets its own
\* answer.
ConnectedThreadsGetTheirAnswers ==
    (conn = "ESTABLISHED" /\ \A t \in Threads : thr[t] # "connect")
        => \A t \in Threads : ReadsItsOwn(t)

\* AgentChannel::write asserts that the response is initialized (line 230).
ResponsesInitialized ==
    \A i \in 1..Len(d2c) : d2c[i].retcode # "unset"

\* Every request is answered at most once: the requests still unread and the
\* final responses written or still to be written never outnumber the threads
\* in a call.  With one thread: when no call is outstanding no final response
\* is left over for the next call to take for its own, although the two
\* writers of the channel race over connect()'s WAIT_NEXT and answer.
AtMostOneAnswer ==
    (chan = "open") =>
        Len(c2d) + Cardinality(Finals(d2c)) + Cardinality(Committed)
            <= Cardinality({t \in Threads : InCall(t)})

\* What the daemon writes to a TCP socket, whoever shares it and in either mode,
\* is sound: no path of a handler and no failed read leaves a response without
\* its retCode where a client can still read it, and a connect() is answered
\* done only once the session is ESTABLISHED.
TcpResponsesAreSound ==
    sockType = "tcp" =>
        /\ ResponsesInitialized
        /\ \A i \in 1..Len(d2c) :
              d2c[i] = Answer("connect", "done") => conn = "ESTABLISHED"

\* A client that closes its socket and lives on never makes a write of the daemon
\* fail, and so never leaves its channel in Arbiter's list and out of the event
\* loop, where nothing would free it: no response is unread in, or still to be
\* written to, a channel that close() closed, although connect()'s two responses
\* may come in either order.  (A client that dies inside a call may: see Write.)
OrderlyCloseIsHarmless ==
    (Alone /\ agent \in {"unregistered", "reported"})
        => \E t \in Threads : thr[t] \in {"crashed", "dead"}

\* Nothing outside this module keeps the call of t from returning.
CanReturn(t) ==
    CASE thr[t] = "connect"  -> ipAt = "estab"
      [] thr[t] = "recvfrom" -> recvQ > 0
      [] OTHER               -> InCall(t)

\* Every call of a lone thread returns: connect() once the handshake it began is
\* complete, recvfrom() once a packet is queued, even one that arrives while the
\* request is on its way, and the others whatever the network does.
CallReturns == \A t \in Threads : (Alone /\ CanReturn(t)) ~> ~InCall(t)

\* The threads that used the socket live on: close() closed the channel.
ClosedInOrder == \A t \in Threads : thr[t] \notin {"crashed", "dead"}

\* The daemon owes the client nothing: no request unread, no response unread or
\* still to be written, and none failed.
Settled ==
    /\ c2d = <<>> /\ ~reset
    /\ loopAt = "idle" /\ Committed = {}
    /\ agent \in {"none", "open"}

\* The channel of a client that closed its socket, or was killed when nothing was
\* outstanding, is removed from Arbiter's list, and with it Endpoint and Session.
GoneIsRemoved ==
    (chan = "closed" /\ (ClosedInOrder \/ Settled)) ~> (agent = "removed")
=============================================================================
