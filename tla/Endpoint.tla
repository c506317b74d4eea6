----------------------------- MODULE Endpoint ------------------------------
(***************************************************************************)
(* The receive path of the daemon's sockets (veloxd/arbiter/Endpoint.cpp   *)
(* with the recvfrom half of RpcDispatch.cpp).  Two threads meet here:     *)
(*   - the IP thread, which calls putToRecvQ for every packet it           *)
(*     demultiplexes, and wakes the event loop through a pipe;             *)
(*   - the event loop thread, which serves the recvfrom requests of every  *)
(*     socket and the read callback of every notification pipe.            *)
(* One client thread per socket issues the requests.                       *)
(***************************************************************************)
EXTENDS Naturals, Sequences

CONSTANTS Sockets,       \* the sockets served by the one event loop
          Nonblocking,   \* those created with SOCK_NONBLOCK
          RecvQLimit,    \* Endpoint::Impl::recvQlimit, 128 in the code
          PipeCapacity,  \* bytes a notification pipe holds, 65536 on Linux
          MaxPackets,    \* bound: packets that arrive for one socket
          NoSocket       \* the idle value of a thread's position

ASSUME ConstantsAssumption ==
    /\ Nonblocking \subseteq Sockets
    /\ RecvQLimit \in Nat
    /\ PipeCapacity \in Nat \ {0}
    /\ MaxPackets \in Nat
    /\ NoSocket \notin Sockets

VARIABLES
    recvQ,      \* recvQ[s]: the concurrent queue of s
    pipe,       \* pipe[s]: bytes in new_packet_notify_pipe of s
    waiting,    \* waiting[s]: Endpoint::Impl::waiting
    ipAt,       \* the socket whose pipe the IP thread is about to write
    loopAt,     \* the socket on whose recvQ the loop thread is in wait_dequeue
    client,     \* client[s]: where the caller of recvfrom on s stands
    arrived,    \* arrived[s]: number of packets the IP thread was given for s
    accepted,   \* history: packets enqueued for s, in order
    delivered   \* history: packets returned to the caller of recvfrom on s

vars == <<recvQ, pipe, waiting, ipAt, loopAt, client, arrived, accepted,
          delivered>>

Packets == 1..MaxPackets

\* idle: in the application; called: request sent, not yet read by the loop;
\* parked: answered WAIT_NEXT, blocked in chan_recv.
ClientStates == {"idle", "called", "parked"}

Init ==
    /\ recvQ = [s \in Sockets |-> <<>>]
    /\ pipe = [s \in Sockets |-> 0]
    /\ waiting = [s \in Sockets |-> FALSE]
    /\ ipAt = NoSocket
    /\ loopAt = NoSocket
    /\ client = [s \in Sockets |-> "idle"]
    /\ arrived = [s \in Sockets |-> 0]
    /\ accepted = [s \in Sockets |-> <<>>]
    /\ delivered = [s \in Sockets |-> <<>>]
-----------------------------------------------------------------------------
(* The IP thread.                                                          *)

\* Mutant: the size of the queue is not looked at.
PutToRecvQ_NoLimit(s) ==
    /\ ipAt = NoSocket
    /\ arrived[s] < MaxPackets
    /\ arrived' = [arrived EXCEPT ![s] = @ + 1]
    /\ recvQ' = [recvQ EXCEPT ![s] = Append(@, arrived'[s])]
    /\ accepted' = [accepted EXCEPT ![s] = Append(@, arrived'[s])]
    /\ ipAt' = s
    /\ UNCHANGED <<pipe, waiting, loopAt, client, delivered>>

\* putToRecvQ up to the enqueue.  The size is read before the enqueue, and
\* only this thread enqueues, so the two are one step.
PutToRecvQ(s) ==
    /\ ipAt = NoSocket
    /\ arrived[s] < MaxPackets
    /\ arrived' = [arrived EXCEPT ![s] = @ + 1]
    /\ Len(recvQ[s]) <= RecvQLimit
    /\ recvQ' = [recvQ EXCEPT ![s] = Append(@, arrived'[s])]
    /\ accepted' = [accepted EXCEPT ![s] = Append(@, arrived'[s])]
    /\ ipAt' = s
    /\ UNCHANGED <<pipe, waiting, loopAt, client, delivered>>

\* putToRecvQ on a full queue: the packet is dropped and nobody is told.
DropAtRecvQ(s) ==
    /\ ipAt = NoSocket
    /\ arrived[s] < MaxPackets
    /\ arrived' = [arrived EXCEPT ![s] = @ + 1]
    /\ Len(recvQ[s]) > RecvQLimit
    /\ UNCHANGED <<recvQ, pipe, waiting, ipAt, loopAt, client, accepted,
                   delivered>>

\* The write to the non-blocking pipe; a full pipe refuses the byte and the
\* code ignores that.
MarkSChannelAsReadable(s) ==
    /\ ipAt = s
    /\ ipAt' = NoSocket
    /\ pipe' = [pipe EXCEPT ![s] = IF @ < PipeCapacity THEN @ + 1 ELSE @]
    /\ UNCHANGED <<recvQ, waiting, loopAt, client, arrived, accepted, delivered>>
-----------------------------------------------------------------------------
(* The client: recvfrom sends its request and blocks in chan_recv.         *)

CallRecvfrom(s) ==
    /\ client[s] = "idle"
    /\ client' = [client EXCEPT ![s] = "called"]
    /\ UNCHANGED <<recvQ, pipe, waiting, ipAt, loopAt, arrived, accepted,
                   delivered>>
-----------------------------------------------------------------------------
(* The event loop thread.  Each action is one callback of a ready handle.  *)

\* Mutant: the newest packet is taken instead of the oldest.
HandOver_Newest(s) ==
    /\ recvQ[s] # <<>>
    /\ recvQ' = [recvQ EXCEPT ![s] = SubSeq(@, 1, Len(@) - 1)]
    /\ delivered' = [delivered EXCEPT ![s] = Append(@, recvQ[s][Len(recvQ[s])])]
    /\ client' = [client EXCEPT ![s] = "idle"]

\* The caller gets the packet at the head of the queue.
HandOver(s) ==
    /\ recvQ[s] # <<>>
    /\ recvQ' = [recvQ EXCEPT ![s] = Tail(@)]
    /\ delivered' = [delivered EXCEPT ![s] = Append(@, Head(recvQ[s]))]
    /\ client' = [client EXCEPT ![s] = "idle"]

\* recvfromCall, try_takeFromRecvQ succeeds: respond OK with the packet.
RecvfromTakes(s) ==
    /\ loopAt = NoSocket
    /\ client[s] = "called"
    /\ HandOver(s)
    /\ UNCHANGED <<pipe, waiting, ipAt, loopAt, arrived, accepted>>

\* Mutant: a blocking socket is answered EAGAIN too.
RecvfromAgain_AnyMode(s) ==
    /\ loopAt = NoSocket
    /\ client[s] = "called"
    /\ recvQ[s] = <<>>
    /\ client' = [client EXCEPT ![s] = "idle"]
    /\ UNCHANGED <<recvQ, pipe, waiting, ipAt, loopAt, arrived, accepted,
                   delivered>>

\* recvfromCall, e_again: the queue is empty and the socket non-blocking.
RecvfromAgain(s) ==
    /\ loopAt = NoSocket
    /\ client[s] = "called"
    /\ recvQ[s] = <<>>
    /\ s \in Nonblocking
    /\ client' = [client EXCEPT ![s] = "idle"]
    /\ UNCHANGED <<recvQ, pipe, waiting, ipAt, loopAt, arrived, accepted,
                   delivered>>

\* Mutant: setWaiting(true) is forgotten.
RecvfromWaits_NoFlag(s) ==
    /\ loopAt = NoSocket
    /\ client[s] = "called"
    /\ recvQ[s] = <<>>
    /\ s \notin Nonblocking
    /\ client' = [client EXCEPT ![s] = "parked"]
    /\ UNCHANGED <<recvQ, pipe, waiting, ipAt, loopAt, arrived, accepted,
                   delivered>>

\* recvfromCall, wait_next: set the callback and waiting, respond WAIT_NEXT.
RecvfromWaits(s) ==
    /\ loopAt = NoSocket
    /\ client[s] = "called"
    /\ recvQ[s] = <<>>
    /\ s \notin Nonblocking
    /\ waiting' = [waiting EXCEPT ![s] = TRUE]
    /\ client' = [client EXCEPT ![s] = "parked"]
    /\ UNCHANGED <<recvQ, pipe, ipAt, loopAt, arrived, accepted, delivered>>

RecvfromCall(s) == RecvfromTakes(s) \/ RecvfromAgain(s) \/ RecvfromWaits(s)

\* Mutant: the pipe is drained and the callback is not run.
SChannelReadCb_NoCallback(s) ==
    /\ loopAt = NoSocket
    /\ pipe[s] > 0
    /\ pipe' = [pipe EXCEPT ![s] = 0]
    /\ UNCHANGED <<recvQ, waiting, ipAt, loopAt, client, arrived, accepted,
                   delivered>>

\* sChannelReadCb up to the callback: drain the pipe, then, when a caller
\* waits, enter takeFromRecvQ.
SChannelReadCb(s) ==
    /\ loopAt = NoSocket
    /\ pipe[s] > 0
    /\ pipe' = [pipe EXCEPT ![s] = 0]
    /\ loopAt' = IF waiting[s] THEN s ELSE NoSocket
    /\ UNCHANGED <<recvQ, waiting, ipAt, client, arrived, accepted, delivered>>

\* takeFromRecvQ returns (wait_dequeue blocks while the queue is empty), the
\* response is written and waiting is cleared.
TakeFromRecvQ(s) ==
    /\ loopAt = s
    /\ HandOver(s)
    /\ waiting' = [waiting EXCEPT ![s] = FALSE]
    /\ loopAt' = NoSocket
    /\ UNCHANGED <<pipe, ipAt, arrived, accepted>>
-----------------------------------------------------------------------------
IpThread(s) == PutToRecvQ(s) \/ DropAtRecvQ(s) \/ MarkSChannelAsReadable(s)

LoopThread(s) == RecvfromCall(s) \/ SChannelReadCb(s) \/ TakeFromRecvQ(s)

Next == \E s \in Sockets : IpThread(s) \/ CallRecvfrom(s) \/ LoopThread(s)

Spec == Init /\ [][Next]_vars

(* Fairness.  The IP thread finishes a putToRecvQ it began.  epoll is level *)
(* triggered and the loop runs the callback of every handle epoll_wait     *)
(* reports, so a handle that is ready again and again is served.  Arrivals *)
(* and calls are the environment's: no fairness.                           *)
FairSpec ==
    /\ Spec
    /\ \A s \in Sockets :
        /\ WF_vars(MarkSChannelAsReadable(s))
        /\ SF_vars(RecvfromCall(s))
        /\ SF_vars(SChannelReadCb(s))
        /\ WF_vars(TakeFromRecvQ(s))
-----------------------------------------------------------------------------
(* Properties.                                                             *)

\* The types, which the proofs need.
TypeOK ==
    /\ recvQ \in [Sockets -> Seq(Packets)]
    /\ pipe \in [Sockets -> 0..PipeCapacity]
    /\ waiting \in [Sockets -> BOOLEAN]
    /\ ipAt \in Sockets \cup {NoSocket}
    /\ loopAt \in Sockets \cup {NoSocket}
    /\ client \in [Sockets -> ClientStates]
    /\ arrived \in [Sockets -> 0..MaxPackets]
    /\ accepted \in [Sockets -> Seq(Packets)]
    /\ delivered \in [Sockets -> Seq(Packets)]

\* What recvfrom returned so far followed by what is still queued is exactly
\* what putToRecvQ enqueued: neither the try_take of recvfromCall nor the
\* wait_dequeue of the notification callback loses, repeats or reorders one.  And
\* since putToRecvQ compares with > and not >= a queue may hold one packet more
\* than recvQlimit, and never two.
RecvQIsExact ==
    \A s \in Sockets :
        /\ accepted[s] = delivered[s] \o recvQ[s]
        /\ Len(recvQ[s]) <= RecvQLimit + 1

Increasing(q) ==
    \A i, j \in 1..Len(q) : i < j => q[i] < q[j]

\* Packets reach the caller in the order in which the IP thread saw them,
\* whichever of the two paths delivers them and whatever was dropped between.
DeliveredInOrder ==
    \A s \in Sockets : Increasing(delivered[s])

\* No lost wake-up: whenever a caller is blocked behind WAIT_NEXT and a packet
\* is queued for it, the waiting flag is up and a wake-up is under way: the
\* IP thread is about to write the pipe, a byte is in it, or the loop is
\* already taking the packet.
NoLostWakeup ==
    \A s \in Sockets :
        (client[s] = "parked" /\ recvQ[s] # <<>>) =>
            /\ waiting[s]
            /\ pipe[s] > 0 \/ ipAt = s \/ loopAt = s

\* AgentChannel.h:47-48: handling runs in the EventReactor thread and must not
\* block.  The loop never waits in takeFromRecvQ on an empty queue.
LoopNeverBlocks ==
    loopAt # NoSocket => recvQ[loopAt] # <<>>

\* The socket promise this module implements.
Box == INSTANCE Mailbox WITH
          box <- recvQ,
          reader <- [s \in Sockets |->
                        IF client[s] = "idle" THEN "idle" ELSE "reading"],
          returned <- delivered,
          Capacity <- RecvQLimit + 1

\* Every socket behaves as the mailbox: the pipe, the waiting flag and the two
\* delivery paths are invisible to callers.
ImplementsMailbox == Box!BoxSpec

\* The loop waits in takeFromRecvQ, where nothing but a packet for that one
\* socket frees it.
LoopBlocked == loopAt # NoSocket /\ recvQ[loopAt] = <<>>

\* Calls that can return do return, on every socket of the loop, unless the loop
\* is blocked for ever on behalf of one of them.
MailboxProgress == <>[]LoopBlocked \/ Box!BoxFairness
=============================================================================
