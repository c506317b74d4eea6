------------------------------ MODULE Reactor ------------------------------
(***************************************************************************)
(* The event reactor and the life time of what it watches: EventReactor,   *)
(* IoHandle, SysPoller, with the objects that own the handles (Arbiter's   *)
(* list, AgentChannel, Endpoint, Session) and the two threads that use     *)
(* them.                                                                   *)
(*                                                                         *)
(* A socket has up to three handles: "chan" (AgentChannel), "pipe"         *)
(* (Endpoint) and, for TCP, "estab" (TcpSession).  The list keeps the      *)
(* AgentChannel, which keeps the Endpoint, which keeps the Session; the IP *)
(* thread takes references of its own while it delivers.  Whoever drops    *)
(* the last reference runs the destructors, and these take the handles out *)
(* of the reactor: that is the loop thread's registry, without a lock.     *)
(*                                                                         *)
(* The contents of requests and packets are in modules Rpc and Endpoint.   *)
(* A client closes between two calls, or dies inside one.  A write to a    *)
(* client that is gone fails, and takes the channel out of the reactor but *)
(* not out of the list: nothing will read its end of file.                 *)
(***************************************************************************)
EXTENDS Naturals, Sequences, FiniteSets, Functions

CONSTANTS Tcp, Udp,    \* the TCP and the UDP sockets, each on its own channel
          MaxEvents,   \* maxEventsReceivedEachPoll
          MaxQueued,   \* bound: packets waiting at a socket
          Readers,     \* bound: the sockets whose client calls recvfrom()
          Mortal       \* bound: the sockets whose client may die inside a call

Socks == Tcp \cup Udp
Kinds == {"chan", "pipe", "estab"}
Handles == Socks \X Kinds
Of(c) == {c} \X Kinds

NoSock == "none"

ASSUME ReactorAssumption ==
    /\ Tcp \cap Udp = {}
    /\ NoSock \notin Socks
    /\ MaxEvents \in Nat \ {0}
    /\ MaxQueued \in Nat \ {0}
    /\ Readers \subseteq Socks
    /\ Mortal \subseteq Socks

VARIABLES
    client,   \* client[c]: the client's end: "none", "open", "closed", "dead"
    req,      \* req[c]: the request in the channel, or "none"
    inCall,   \* the sockets whose client waits for an answer
    reset,    \* those whose client went with a response unread (ECONNRESET)
    listed,   \* Arbiter::rrChannels
    conn,     \* conn[c]: "none" (no session), "new", "SYN_SENT", "bound"
    waiting,  \* sockets whose Endpoint::Impl::waiting is up
    queued,   \* queued[c]: packets in the receive queue
    piped,    \* sockets whose notification pipe is readable
    live,     \* handles constructed and not destroyed
    owned,    \* handles whose ownerLoop is set
    channels, \* EventReactor::Impl::channels
    epoll,    \* the handles registered with epoll
    batch,    \* the handles of this poll still to be dispatched
    blocked,  \* the socket the loop thread is blocked for in takeFromRecvQ
    ip,       \* the IP thread: where it is and for which socket
    doomed,   \* the handles the IP thread still has to destroy
    erasing,  \* the handle it has found in channels and not yet erased
    torn,     \* the loop thread used channels since then
    raced,    \* that has happened at some time
    daemon    \* "up", "crashed" or "interrupted" (crashed in poll by a signal)

clientVars == <<client, req, inCall, reset>>
soVars == <<conn, waiting, queued, piped>>
registry == <<live, owned, channels, epoll, torn, raced>>
ipVars == <<ip, doomed, erasing>>
loopVars == <<batch, blocked>>
vars == <<clientVars, listed, soVars, registry, ipVars, loopVars, daemon>>

IpAt == {"idle", "found", "put", "unregister", "answer", "release", "destroy"}

Init ==
    /\ client = [c \in Socks |-> "none"]
    /\ req = [c \in Socks |-> "none"]
    /\ inCall = {}
    /\ reset = {}
    /\ listed = {}
    /\ conn = [c \in Socks |-> "none"]
    /\ waiting = {}
    /\ queued = [c \in Socks |-> 0]
    /\ piped = {}
    /\ live = {}
    /\ owned = {}
    /\ channels = {}
    /\ epoll = {}
    /\ batch = {}
    /\ blocked = NoSock
    /\ ip = [at |-> "idle", c |-> NoSock, holds |-> {}]
    /\ doomed = <<>>
    /\ erasing = {}
    /\ torn = FALSE
    /\ raced = FALSE
    /\ daemon = "up"
-----------------------------------------------------------------------------
(* References.  An object lives while something that keeps it lives.       *)

ChanAlive(c) == c \in listed \/ (ip.c = c /\ "chan" \in ip.holds)
SoAlive(c) ==
    \/ ChanAlive(c) /\ conn[c] # "none"
    \/ ip.c = c /\ "so" \in ip.holds
PcbAlive(c) == SoAlive(c) \/ (ip.c = c /\ "pcb" \in ip.holds)

\* Handle <<c, k>>, if it lives and nothing keeps it.
Goes(c, k, kept) == IF <<c, k>> \in live /\ ~kept THEN <<<<c, k>>>> ELSE <<>>

\* Mutant: Arbiter's list does not keep the channels.
Dying_WeakList(c, ls, hs) ==
    LET chan == "chan" \in hs
        so   == chan \/ "so" \in hs
        pcb  == so \/ "pcb" \in hs
    IN  Goes(c, "chan", chan) \o Goes(c, "estab", pcb) \o Goes(c, "pipe", so)

\* Mutant: Session keeps its Endpoint by a shared_ptr, a cycle.
Dying_Cycle(c, ls, hs) == Goes(c, "chan", c \in ls \/ "chan" \in hs)

\* What dies with c's last reference when the list has ls and the IP thread
\* keeps hs, in the order in which the destructors reach the handles.
Dying(c, ls, hs) ==
    LET chan == c \in ls \/ "chan" \in hs
        so   == chan \/ "so" \in hs
        pcb  == so \/ "pcb" \in hs
    IN  Goes(c, "chan", chan) \o Goes(c, "estab", pcb) \o Goes(c, "pipe", so)

\* The queue and the flag of the Endpoint go with it; its pipe is never closed.
EndpointGoes(c, dying) ==
    IF <<c, "pipe">> \in Range(dying)
    THEN /\ queued' = [queued EXCEPT ![c] = 0]
         /\ waiting' = waiting \ {c}
    ELSE UNCHANGED <<queued, waiting>>
-----------------------------------------------------------------------------
(* The client, outside the daemon; followed while the daemon is up.        *)

Gone == {"closed", "dead"}

\* socket(): open_chan connects and the request follows.
Opens(c) ==
    /\ daemon = "up"
    /\ client[c] = "none"
    /\ client' = [client EXCEPT ![c] = "open"]
    /\ req' = [req EXCEPT ![c] = "socket"]
    /\ inCall' = inCall \cup {c}
    /\ UNCHANGED <<reset, listed, soVars, registry, ipVars, loopVars, daemon>>

\* connect() on TCP, sendto() on UDP, recvfrom() on both.
Calls(c, r) ==
    /\ daemon = "up"
    /\ client[c] = "open"
    /\ c \notin inCall
    /\ r \in {IF c \in Tcp THEN "connect" ELSE "sendto", "recvfrom"}
    /\ r = "recvfrom" => c \in Readers
    /\ r # "recvfrom" => conn[c] = "new"
    /\ req' = [req EXCEPT ![c] = r]
    /\ inCall' = inCall \cup {c}
    /\ UNCHANGED <<client, reset, listed, soVars, registry, ipVars, loopVars, daemon>>

\* close(): its request changes nothing in the daemon; what counts is the end
\* of file.
Closes(c) ==
    /\ daemon = "up"
    /\ client[c] = "open"
    /\ c \notin inCall
    /\ client' = [client EXCEPT ![c] = "closed"]
    /\ UNCHANGED <<req, inCall, reset, listed, soVars, registry, ipVars, loopVars,
                   daemon>>

\* The client dies: inside a call, or with the response of the last one unread.
Dies(c, unread) ==
    /\ daemon = "up"
    /\ client[c] = "open"
    /\ c \in Mortal
    /\ unread \/ c \in inCall
    /\ unread => req[c] = "none" /\ conn[c] # "none"
    /\ client' = [client EXCEPT ![c] = "dead"]
    /\ reset' = IF unread THEN reset \cup {c} ELSE reset
    /\ inCall' = inCall \ {c}
    /\ UNCHANGED <<req, listed, soVars, registry, ipVars, loopVars, daemon>>
-----------------------------------------------------------------------------
(* The registry.                                                           *)

\* The loop thread uses channels.  No lock keeps the IP thread out.
LoopUsesRegistry ==
    /\ torn' = (torn \/ erasing # {})
    /\ raced' = (raced \/ erasing # {})

\* Mutant: the handles are added without the events they are interested in.
PollerAdds_None(hs) == epoll

\* SysPoller: EPOLL_CTL_ADD and EPOLL_CTL_DEL.
PollerAdds(hs) == epoll \cup hs
PollerRemoves(hs) == epoll \ hs

\* The loop thread changes the registry: addChannel and setOwnerEventReactor for
\* the handles it made, unregisterSelf for those that still have an owner.
UpdateRegistry(made, dropped) ==
    /\ live' = live \cup made
    /\ owned' = (owned \cup made) \ dropped
    /\ epoll' = PollerAdds(made) \ (dropped \cap channels)
    /\ channels' = (channels \cup made) \ dropped
    /\ IF made \cup dropped = {} THEN UNCHANGED <<torn, raced>> ELSE LoopUsesRegistry

\* AgentChannel::write to c: what its unregisterSelf takes out when the client
\* is gone and the write fails.
WriteDrops(c) == {h \in owned : h = <<c, "chan">> /\ client[c] \in Gone}

\* The loop thread destroys hs: removeChannel for those with an owner that
\* hasChannel finds.  Closing a channel's descriptor takes it out of epoll in
\* any case; the pipes are never closed.
DestroyHandles(hs) ==
    /\ live' = live \ hs
    /\ owned' = owned \ hs
    /\ epoll' = PollerRemoves({h \in hs : h[2] = "chan" \/ h \in owned \cap channels})
    /\ channels' = channels \ (hs \cap owned)
    /\ LoopUsesRegistry
-----------------------------------------------------------------------------
(* The event loop thread.                                                  *)

Listener == <<NoSock, "listen">>
Idle == daemon = "up" /\ blocked = NoSock

\* Channels connected to the listening socket and not yet accepted; a client may
\* be gone by then.
Backlog == {c \in Socks \ listed : req[c] = "socket"}

\* Nothing ever writes the pipe of an "estab" handle.
Readable(h) ==
    CASE h = Listener     -> Backlog # {}
      [] h[2] = "chan"    -> req[h[1]] # "none" \/ client[h[1]] \in Gone
      [] h[2] = "pipe"    -> h[1] \in piped
      [] OTHER            -> FALSE

Ready == {h \in epoll \cup {Listener} : Readable(h)}

\* What a use of freed memory may do.
UseOfFreed == daemon' \in {"up", "crashed"}

\* epoll_wait reports at most MaxEvents of the ready handles; poll writes the
\* events into each of them.
Poll(hs) ==
    /\ Idle
    /\ batch = {}
    /\ hs # {}
    /\ hs \subseteq Ready
    /\ hs = Ready \/ Cardinality(hs) = MaxEvents
    /\ Cardinality(hs) <= MaxEvents
    /\ batch' = hs
    /\ IF hs \subseteq live \cup {Listener} THEN daemon' = daemon ELSE UseOfFreed
    /\ UNCHANGED <<clientVars, listed, soVars, registry, ipVars, blocked>>

\* epoll_wait fails, as when the process was stopped and goes on: only the error
\* is logged, and the last element of an empty vector is read.
PollFails ==
    /\ Idle
    /\ batch = {}
    /\ daemon' \in {"up", "interrupted"}
    /\ UNCHANGED <<clientVars, listed, soVars, registry, ipVars, loopVars>>

\* loop() calls handleEventsReceived of the next active handle.
Dispatch(h) ==
    /\ Idle
    /\ h \in batch
    /\ batch' = batch \ {h}

\* AgentHub::onReadReady accepts all that wait; Arbiter lists and registers them.
OnNewConnections ==
    /\ Dispatch(Listener)
    /\ listed' = listed \cup Backlog
    /\ UpdateRegistry(Backlog \X {"chan"}, {})
    /\ UNCHANGED <<clientVars, soVars, ipVars, blocked, daemon>>

\* AgentChannel::onReadReady reads request r of c; its handler makes handles, and
\* the response is written.
OnRequest(c, r, made) ==
    /\ Dispatch(<<c, "chan">>)
    /\ <<c, "chan">> \in live
    /\ req[c] = r
    /\ req' = [req EXCEPT ![c] = "none"]
    /\ UpdateRegistry(made, WriteDrops(c))
    /\ UNCHANGED <<client, reset, listed, piped, ipVars, blocked, daemon>>

\* socketCall makes Endpoint and Session and registers their handles.
SocketCall(c) ==
    /\ OnRequest(c, "socket", {c} \X (IF c \in Tcp THEN {"pipe", "estab"} ELSE {"pipe"}))
    /\ conn' = [conn EXCEPT ![c] = "new"]
    /\ inCall' = inCall \ {c}
    /\ UNCHANGED <<waiting, queued>>

\* connectCall on TCP: the SYN leaves, the response is WAIT_NEXT, and the answer
\* comes with onConnEstabCB.
ConnectCall(c) ==
    /\ OnRequest(c, "connect", {})
    /\ conn' = [conn EXCEPT ![c] = "SYN_SENT"]
    /\ UNCHANGED <<inCall, waiting, queued>>

\* sendtoCall on UDP gives the session its port.
SendtoCall(c) ==
    /\ OnRequest(c, "sendto", {})
    /\ conn' = [conn EXCEPT ![c] = "bound"]
    /\ inCall' = inCall \ {c}
    /\ UNCHANGED <<waiting, queued>>

\* recvfromCall takes a packet, or answers WAIT_NEXT and leaves the call waiting.
RecvfromCall(c) ==
    /\ OnRequest(c, "recvfrom", {})
    /\ IF queued[c] > 0
       THEN /\ queued' = [queued EXCEPT ![c] = @ - 1]
            /\ inCall' = inCall \ {c}
            /\ UNCHANGED waiting
       ELSE /\ waiting' = waiting \cup {c}
            /\ UNCHANGED <<queued, inCall>>
    /\ UNCHANGED conn

\* onReadReady's read fails with ECONNRESET: it goes on with an empty request,
\* and the write of the empty response fails.
ReadFails(c) ==
    /\ Dispatch(<<c, "chan">>)
    /\ <<c, "chan">> \in live
    /\ req[c] = "none"
    /\ c \in reset
    /\ reset' = reset \ {c}
    /\ UpdateRegistry({}, WriteDrops(c))
    /\ UNCHANGED <<client, req, inCall, listed, soVars, ipVars, blocked, daemon>>

\* The IP thread's references to c.
IpHolds(c) == IF ip.c = c THEN ip.holds ELSE {}

\* Mutant: removeRRChannel is left to onPeerWritingClose.
OnEof_Kept(c) ==
    /\ Dispatch(<<c, "chan">>)
    /\ <<c, "chan">> \in live
    /\ req[c] = "none"
    /\ c \notin reset
    /\ UNCHANGED <<clientVars, listed, soVars, registry, ipVars, blocked, daemon>>

\* onReadReady reads the end of file: removeRRChannel, and when holdit goes the
\* destructors run, unless the IP thread has a reference.  handleEventsReceived
\* then writes handlingEvents, in a handle that may be gone.
OnEof(c) ==
    LET dying == Dying(c, listed \ {c}, IpHolds(c))
    IN  /\ Dispatch(<<c, "chan">>)
        /\ <<c, "chan">> \in live
        /\ req[c] = "none"
        /\ c \notin reset
        /\ listed' = listed \ {c}
        /\ IF dying = <<>>
           THEN UNCHANGED <<registry, daemon>>
           ELSE DestroyHandles(Range(dying)) /\ UseOfFreed
        /\ EndpointGoes(c, dying)
        /\ UNCHANGED <<clientVars, conn, piped, ipVars, blocked>>

\* Endpoint::sChannelReadCb drains the pipe and, when a call waits, runs
\* onAsyncNewPacket, which takes a packet and answers or blocks for one.  It does
\* nothing when the channel is gone (one that only the IP thread still keeps was
\* in connect(), and no call waits on it).
SChannelReadCb(c) ==
    /\ Dispatch(<<c, "pipe">>)
    /\ <<c, "pipe">> \in live
    /\ piped' = piped \ {c}
    /\ IF c \in waiting \cap listed
       THEN blocked' = c /\ UNCHANGED waiting
       ELSE waiting' = waiting \ {c} /\ UNCHANGED blocked
    /\ UNCHANGED <<clientVars, listed, conn, queued, registry, ipVars, daemon>>

\* Mutant: takeFromRecvQ does not wait for a packet.
TakeFromRecvQ_NoWait(c) ==
    /\ daemon = "up"
    /\ blocked = c
    /\ queued' = [queued EXCEPT ![c] = @ - 1]
    /\ waiting' = waiting \ {c}
    /\ inCall' = inCall \ {c}
    /\ reset' = reset \ {c}
    /\ UpdateRegistry({}, WriteDrops(c))
    /\ blocked' = NoSock
    /\ UNCHANGED <<client, req, listed, conn, piped, ipVars, batch, daemon>>

\* takeFromRecvQ returns: the answer is written and waiting goes down.
TakeFromRecvQ(c) ==
    /\ daemon = "up"
    /\ blocked = c
    /\ queued[c] > 0
    /\ queued' = [queued EXCEPT ![c] = @ - 1]
    /\ waiting' = waiting \ {c}
    /\ inCall' = inCall \ {c}
    /\ reset' = reset \ {c}
    /\ UpdateRegistry({}, WriteDrops(c))
    /\ blocked' = NoSock
    /\ UNCHANGED <<client, req, listed, conn, piped, ipVars, batch, daemon>>

\* The handle was destroyed after poll reported it.
DispatchDestroyed(h) ==
    /\ Dispatch(h)
    /\ h \in Handles \ live
    /\ UseOfFreed
    /\ UNCHANGED <<clientVars, listed, soVars, registry, ipVars, blocked>>
-----------------------------------------------------------------------------
(* The IP thread, inside Tcp::rx or Udp::rx for a packet to socket c.      *)

Ip(at, c, holds) == ip' = [at |-> at, c |-> c, holds |-> holds]

\* Sessions::find locks the session of a data packet.
IpFinds(c) ==
    /\ daemon = "up"
    /\ ip.at = "idle"
    /\ PcbAlive(c)
    /\ conn[c] = "bound"
    /\ queued[c] < MaxQueued
    /\ Ip("found", c, {"pcb"})
    /\ UNCHANGED <<clientVars, listed, soVars, registry, doomed, erasing, loopVars,
                   daemon>>

\* The packet answers the SYN: TcpSession::recv is established, and
\* onConnEstabCB locks the channel.
IpEstab(c) ==
    /\ daemon = "up"
    /\ ip.at = "idle"
    /\ PcbAlive(c)
    /\ conn[c] = "SYN_SENT"
    /\ conn' = [conn EXCEPT ![c] = "bound"]
    /\ IF ChanAlive(c) THEN Ip("unregister", c, {"pcb", "chan"})
                       ELSE Ip("release", c, {"pcb"})
    /\ UNCHANGED <<clientVars, listed, waiting, queued, piped, registry, doomed,
                   erasing, loopVars, daemon>>

\* removeChannel on the IP thread, first half: hasChannel, EPOLL_CTL_DEL and
\* std::find.  A handle that channels does not have is left alone.
FindEntry(h) ==
    /\ erasing' = IF h \in owned \cap channels THEN {h} ELSE {}
    /\ epoll' = PollerRemoves(erasing')
    /\ torn' = FALSE

\* Second half: erase through the iterator.  If the loop thread has used
\* channels meanwhile the iterator is stale: another entry goes, or none.
EraseEntry ==
    /\ channels' \in IF torn THEN {channels} \cup {channels \ {h} : h \in channels}
                             ELSE {channels \ erasing}
    /\ IF torn THEN UseOfFreed ELSE UNCHANGED daemon
    /\ erasing' = {}
    /\ torn' = FALSE

\* Mutant: unregisterSelf clears ownerLoop and leaves the registration.
IpUnregisters_OwnerOnly(c) ==
    /\ daemon = "up"
    /\ ip.at = "unregister"
    /\ ip.c = c
    /\ owned' = owned \ {<<c, "estab">>}
    /\ Ip("answer", c, ip.holds)
    /\ UNCHANGED <<clientVars, listed, soVars, live, channels, epoll, torn, raced,
                   doomed, erasing, loopVars, daemon>>

\* onConnEstabCB: unregisterSelf of the session's handle.
IpUnregisters(c) ==
    /\ daemon = "up"
    /\ ip.at = "unregister"
    /\ ip.c = c
    /\ IF erasing = {} /\ <<c, "estab">> \in owned \cap channels
       THEN /\ FindEntry(<<c, "estab">>)
            /\ UNCHANGED <<ip, owned, channels, daemon>>
       ELSE /\ EraseEntry
            /\ owned' = owned \ {<<c, "estab">>}
            /\ Ip("answer", c, ip.holds)
            /\ UNCHANGED epoll
    /\ UNCHANGED <<clientVars, listed, soVars, live, raced, doomed, loopVars>>

\* onConnEstabCB writes the answer to connect().
IpAnswers(c) ==
    /\ daemon = "up"
    /\ ip.at = "answer"
    /\ ip.c = c
    /\ client[c] = "open"
    /\ inCall' = inCall \ {c}
    /\ Ip("release", c, ip.holds)
    /\ UNCHANGED <<client, req, reset, listed, soVars, registry, doomed, erasing,
                   loopVars, daemon>>

\* The client is gone: the write fails, and unregisterSelf of the channel runs on
\* the IP thread.
IpWriteFails(c) ==
    /\ daemon = "up"
    /\ ip.at = "answer"
    /\ ip.c = c
    /\ client[c] \in Gone
    /\ reset' = reset \ {c}
    /\ IF erasing = {} /\ <<c, "chan">> \in owned \cap channels
       THEN /\ FindEntry(<<c, "chan">>)
            /\ UNCHANGED <<ip, owned, channels, daemon>>
       ELSE /\ EraseEntry
            /\ owned' = owned \ {<<c, "chan">>}
            /\ Ip("release", c, ip.holds)
            /\ UNCHANGED epoll
    /\ UNCHANGED <<client, req, inCall, listed, soVars, live, raced, doomed, loopVars>>

\* recv of data: socket().lock(), and a null pointer if the Endpoint is gone.
IpLocks(c) ==
    /\ daemon = "up"
    /\ ip.at = "found"
    /\ ip.c = c
    /\ IF SoAlive(c) THEN Ip("put", c, {"pcb", "so"}) /\ UNCHANGED daemon
                     ELSE daemon' = "crashed" /\ UNCHANGED ip
    /\ UNCHANGED <<clientVars, listed, soVars, registry, doomed, erasing, loopVars>>

\* Endpoint::putToRecvQ.
IpPuts(c) ==
    /\ daemon = "up"
    /\ ip.at = "put"
    /\ ip.c = c
    /\ queued' = [queued EXCEPT ![c] = @ + 1]
    /\ piped' = piped \cup {c}
    /\ Ip("release", c, ip.holds)
    /\ UNCHANGED <<clientVars, listed, conn, waiting, registry, doomed, erasing,
                   loopVars, daemon>>

\* The references go out of scope; the last one destroys.
IpReleases(c) ==
    LET dying == Dying(c, listed, {})
    IN  /\ daemon = "up"
        /\ ip.at = "release"
        /\ ip.c = c
        /\ doomed' = dying
        /\ live' = live \ Range(dying)
        /\ IF dying = <<>> THEN Ip("idle", NoSock, {}) ELSE Ip("destroy", c, {})
        /\ EndpointGoes(c, dying)
        /\ UNCHANGED <<clientVars, listed, conn, piped, owned, channels, epoll, torn,
                       raced, erasing, loopVars, daemon>>

\* The destructors on the IP thread, handle by handle: removeChannel in its two
\* halves, then close of the channel's descriptor.
IpDestroys(c) ==
    LET h == Head(doomed)
    IN  /\ daemon = "up"
        /\ ip.at = "destroy"
        /\ ip.c = c
        /\ IF erasing = {} /\ h \in owned \cap channels
           THEN FindEntry(h) /\ UNCHANGED <<ip, doomed, owned, channels, daemon>>
           ELSE /\ EraseEntry
                /\ owned' = owned \ {h}
                /\ epoll' = IF h[2] = "chan" THEN epoll \ {h} ELSE epoll
                /\ doomed' = Tail(doomed)
                /\ IF doomed' = <<>> THEN Ip("idle", NoSock, {}) ELSE UNCHANGED ip
        /\ UNCHANGED <<clientVars, listed, soVars, live, raced, loopVars>>
-----------------------------------------------------------------------------
LoopThread ==
    \/ \E hs \in SUBSET Ready : Poll(hs)
    \/ OnNewConnections
    \/ \E c \in Socks :
          \/ SocketCall(c) \/ ConnectCall(c) \/ SendtoCall(c) \/ RecvfromCall(c)
          \/ ReadFails(c) \/ OnEof(c) \/ SChannelReadCb(c) \/ TakeFromRecvQ(c)
    \/ \E h \in Handles : DispatchDestroyed(h)

IpThread ==
    \E c \in Socks :
        \/ IpUnregisters(c) \/ IpAnswers(c) \/ IpWriteFails(c) \/ IpLocks(c)
        \/ IpPuts(c) \/ IpReleases(c) \/ IpDestroys(c)

Next ==
    \/ \E c \in Socks :
          \/ Opens(c) \/ Closes(c) \/ IpFinds(c) \/ IpEstab(c)
          \/ \E r \in {"connect", "sendto", "recvfrom"} : Calls(c, r)
          \/ \E unread \in BOOLEAN : Dies(c, unread)
    \/ PollFails
    \/ LoopThread
    \/ IpThread

\* Both threads run; a ready descriptor that is not reported goes to the front
\* of epoll's list, so the polls report it in the end.
Fairness ==
    /\ WF_vars(LoopThread)
    /\ WF_vars(IpThread)
    /\ \A h \in (Socks \X {"chan"}) \cup {Listener} :
          SF_vars(h \in Ready /\ \E hs \in SUBSET Ready : h \in hs /\ Poll(hs))

Spec == Init /\ [][Next]_vars /\ Fairness
-----------------------------------------------------------------------------
\* Every variable keeps its type; takeFromRecvQ never takes from an empty queue.
TypeOK ==
    /\ client \in [Socks -> {"none", "open"} \cup Gone]
    /\ req \in [Socks -> {"none", "socket", "connect", "sendto", "recvfrom"}]
    /\ inCall \in SUBSET Socks
    /\ reset \in SUBSET Socks
    /\ listed \in SUBSET Socks
    /\ conn \in [Socks -> {"none", "new", "SYN_SENT", "bound"}]
    /\ waiting \in SUBSET Socks
    /\ queued \in [Socks -> 0..MaxQueued]
    /\ piped \in SUBSET Socks
    /\ live \in SUBSET Handles
    /\ owned \in SUBSET Handles
    /\ channels \in SUBSET Handles
    /\ epoll \in SUBSET Handles
    /\ batch \in SUBSET (Handles \cup {Listener})
    /\ blocked \in Socks \cup {NoSock}
    /\ ip \in [at : IpAt, c : Socks \cup {NoSock}, holds : SUBSET {"chan", "so", "pcb"}]
    /\ doomed \in Seq(Handles)
    /\ erasing \in SUBSET Handles
    /\ torn \in BOOLEAN
    /\ raced \in BOOLEAN
    /\ daemon \in {"up", "crashed", "interrupted"}

\* As long as the two threads have not met in EventReactor::channels, the
\* vector, epoll and the handles' ownerLoop agree but for the one handle inside
\* removeChannel, and a registered handle is alive unless the IP thread is in
\* its destructor: what EventReactor.h promises of ~IoHandle.
RegistryExact ==
    ~raced => /\ channels = owned
              /\ epoll = owned \ erasing
              /\ owned \subseteq live \cup Range(doomed)

\* While every client is there and without a collision in channels the daemon
\* does not touch freed memory or a null socket.  A batch that poll returned holds
\* a destroyed handle only for a socket whose client is gone: no reference count
\* drops to zero under an open socket, whichever thread releases last.
CrashNeedsCloseOrRace ==
    /\ daemon = "crashed" => raced \/ \E c \in Socks : client[c] \in Gone
    /\ \A h \in batch \ live : h = Listener \/ client[h[1]] \in Gone

\* Between packets every living handle belongs to a channel of Arbiter's list
\* (neither a reference cycle nor the IP thread's references keep one) and epoll
\* watches that channel, so that its end of file will be read.  Without a
\* collision in channels only a client that died in a call leaves a listed
\* channel unwatched.
NoOrphan ==
    ip.at = "idle" =>
        \A h \in live :
            /\ h[1] \in listed
            /\ <<h[1], "chan">> \in epoll \/ client[h[1]] = "dead" \/ raced

\* A socket whose client closed loses all its handles, on whichever thread,
\* unless the daemon dies or stays inside takeFromRecvQ.  One whose client died in
\* a call loses them too, or a failed write has taken its channel out of the
\* reactor: then they stay.  (A client goes once.)
ClosedIsFreed ==
    []<>(blocked = NoSock) =>
        \A c \in Socks :
            []<>(client[c] \in Gone =>
                    \/ live \cap Of(c) = {}
                    \/ client[c] = "dead" /\ <<c, "chan">> \notin owned
                    \/ daemon # "up")

\* Every request that a client writes is read, however many other handles are
\* ready at each poll, unless the daemon dies or stays inside takeFromRecvQ.
RequestIsRead ==
    []<>(blocked = NoSock) =>
        \A c \in Socks : []<>(req[c] = "none" \/ daemon # "up")
============================================================================
