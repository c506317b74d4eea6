# Velox in TLA+

TLA+ models of Velox, a userspace TCP/IP stack: an `LD_PRELOAD` interceptor in C
(`src/interceptor`) and the daemon `veloxd` in C++ (`src/veloxd`). All models
are of the default Release build, in which assertions are compiled out; the
assertions reappear as properties.

## The system

| Part | State | Threads |
|---|---|---|
| Interceptor (`interceptor.c`, `req-resp-channel.c`) | fd range, fd-to-channel map | those of the application |
| Channel: AF_UNIX SEQPACKET, one per socket (`AgentHub`, `AgentChannel`) | requests, responses | event loop, IP |
| `RpcDispatch` | none of its own | event loop |
| `Endpoint` (a socket) | receive queue, notification pipe, `waiting` | IP puts, event loop takes |
| `TcpSession`, `UdpSession`, `Sessions::find` | addresses, ports, TCP sequence numbers | event loop and IP, no lock |
| Reactor (`EventReactor`, `IoHandle`, `SysPoller`) | registered handles | event loop, and IP through `unregisterSelf` |
| `Ip`, `Reassembler`, `Csum16` | receive queue, fragment groups, packet ids | TUN reader, IP, event loop |
| `Interface`, `TunIface`, `Veloxd` | device, stop flags | TUN reader |

A call of the application is a request on the socket's channel. The loop reads
it, handles it and writes a response. When the call has to wait the response is
WAIT_NEXT, and the final one is written later: by the loop's notification
callback (recvfrom), or by the IP thread inside `TcpSession::recv` (connect).
What makes this hard: two threads write one channel; the receive queue has two
delivery paths and a wake-up through a pipe; sessions are read and written
without locks; the last reference to a socket may be dropped on either thread, and
its destructors change the loop's registry; clients fork, and die at any time;
the network loses and reorders.

## Modules

| Module | Models | Correspondence |
|---|---|---|
| `Mailbox` | what a socket promises a caller of recvfrom | abstract specification |
| `Endpoint` | `Endpoint.cpp`, `recvfromCall` | one action per callback or half of `putToRecvQ`; the size test and the enqueue are one step because only the IP thread enqueues; the pipe write is another |
| `Rpc` | interceptor calls, `AgentChannel`, `RpcDispatch`, one channel | reading with handling, and writing, are separate steps of the loop; `OnConnEstab` is the IP thread's; a write that fails takes the channel out of the event loop and leaves it in `Arbiter`'s list; the receive queue is a counter |
| `TcpSession` | `TcpSession.cpp` with a peer and a network | building a segment and handing it to IP are separate steps; bytes are their sequence numbers |
| `Udp` | `Session`, `UdpSession`, `Udp::rx`, `Sessions::find` | `connect` and `sendto` write field by field, `find` reads field by field |
| `Reactor` | `EventReactor`, `IoHandle`, `SysPoller`, and who keeps what alive: `Arbiter`'s list, `AgentChannel`, `Endpoint`, `Session` | a batch of ready handles is dispatched one by one; `removeChannel` on the IP thread is find, then erase, and the loop may use the vector between them; clients close between two calls, or die inside one or with a response unread |
| `Ip` | `Ip.cpp`, `IpHdr.cpp`, the TUN thread, stop and exit | one action per way through the receive loop; `IpIdGenerator::next` is test, load and store, on two threads |
| `Reassembler` | `Reassembler::defrag` | operators, one per numbered step of the code |
| `Csum16` | the checksum, `prepareBeforeIpTx`, the header of `Ip::tx` | operators on bytes, words in the host's order |
| `Fds` | `fdpool.c`, `fdchanmap.c`, `socket()` and `close()` around them, fork | `++last_fd_assigned` is load and store; opening the channel, entering it in the table and returning with the daemon's answer are separate steps |
| `EndpointProofs`, `TcpProofs`, `RpcProofs`, `FdsProofs`, `UdpProofs`, `ReactorProofs`, `PacketProofs`, `ReceiveProofs` | theorems | one module per component; the last two are about `Ip`, with `Csum16` and `Reassembler`, and the last extends the one before |
| `MC*` | instances for TLC | |

`Rpc`, `Endpoint` and `Reactor` overlap on purpose: `Rpc` has the contents of the
messages of one socket, `Endpoint` the contents of the queues, and `Reactor` only
which objects exist and who may still touch them.

External, modelled from how the code uses them: the kernel (AF_UNIX: ECONNRESET
on the first read or write after the peer closed with data unread, EPIPE on a
write to a closed peer, without a signal as the socket is a SOCK_SEQPACKET; epoll; lowest free descriptor; fork), the TCP peer and the network. Where
the code has undefined behaviour the model chooses between the outcomes: a use of
freed memory goes unnoticed or ends the daemon, an erase through a stale iterator
removes another entry or none, a write behind `g_chan_table` ends the process or
not.

## Runs

| Run | Shows |
|---|---|
| `Endpoint_two` | packets are delivered once, in order, within recvQlimit + 1; no wake-up is lost; sockets implement `Mailbox`, and its progress unless the loop stays blocked |
| `Endpoint_block` | **violated**: the loop can block in `takeFromRecvQ` on a stale notification |
| `Rpc_calls` | one thread, blocking TCP: every answer is for its call and comes, and a client that closes never makes a write fail; two threads, any socket: never more answers than calls; a channel is removed once its client has closed, or died with nothing outstanding |
| `Rpc_pthread` | **violated**: two threads on a connected socket take each other's answers |
| `Rpc_connect` | **violated**: UDP connect() is answered without its required retCode, non-blocking TCP connect() as a recvfrom |
| `Tcp_networks` | reliable network: connection and data complete, what is acknowledged was queued or dropped on a full queue; unreliable network and refusing peer: sequence numbers stay sound |
| `Tcp_refused` | **violated**: RST in SYN_SENT is taken for SYN and ACK |
| `Udp_lookup` | `find` is right about every session not written to meanwhile; answers reach the sender; the null Endpoint needs a close during delivery |
| `Reactor_handles` | the registry is exact until two threads meet in it; no handle dies under an open socket; none is orphaned; closed sockets are freed and requests read; a dead client's socket stays only where a failed write has unregistered its channel |
| `Ip_layer` | datagrams are delivered whole, and what is made of two with one key is a gapless chain of that key; whole packets keep their order; stop is heeded; ids are distinct; checksums verify; the queue is emptied |
| `Ip_payload` | **violated**: recvfrom returns 15 bytes of header with every fragment but the first |
| `Fds_fork` | descriptors are given once, mapped to channels of their own, in parent and child; channels are lost only by three named races |

Three runs put several instances into one initial predicate: `Rpc_calls` has one
or two threads, `Tcp_networks` both networks, `Ip_layer` six workloads. Their
properties say which instance they are about.

The violated runs check what an assertion, a comment or a test of the repository
says. `Endpoint_block` is the least direct of them: `AgentChannel.h:47-48`
forbids blocking to the callback `onNewRequest`, and the callback that blocks is
the one it registers, on the same thread.

### A promise that no run shows broken

`src/README.md:80-86` says that the descriptors of the range are "pre-reserved via
`dup2` so the kernel will never hand them out for unrelated I/O". Nothing calls
dup2: `reserve_fd_range` only allocates the table. Under the default limit of 1024
descriptors the kernel stays below a range that begins at 4096, and `Fds` assumes
just that (`OpenMax <= StartFd`): `MapIsExact` and `NoChannelLost` hold because of
the limit, not because of a reservation. With a higher limit the kernel may return
a descriptor of the range, and what the interceptor then does with it is outside
the model.

### What the code does without a promise to check it against

These behaviours are in the models. The passing properties are stated around them:
they say how far the damage goes and what it needs, not that it does not happen.

- A client that dies inside a call, or with a response unread, makes a write fail;
  the channel is then out of the event loop, its end of file is never read, and
  channel, Endpoint and Session stay for good (`Write` in `Rpc`, `WriteDrops` and
  `IpWriteFails` in `Reactor`). The log line of `AgentChannel.cpp:241` says "This
  channel will be closed", but nothing closes it. `OrderlyCloseIsHarmless`,
  `GoneIsRemoved`, `NoOrphan` and `ClosedIsFreed` confine it to such clients.
- A socket closed while its packet is delivered ends the daemon through a null
  pointer (`RxDelivers` in `Udp`, `IpLocks` in `Reactor`).
- A connected UDP socket loses its peer by sendto; a lookup during the sendto may be
  wrong about its session, and about no other (`FindIsBestMatch`).
- send() before connect() uses up the SYN; the later connect() waits for ever
  (`ReliableProgress`). A segment that finds the receive queue full is acknowledged
  and gone (`StreamAccounted`).
- A close can destroy a handle that is later in the same batch, and
  `handleEventsReceived` writes to one it has just destroyed (`Reactor`). Once the
  two threads have met in the reactor's vector, anything may follow.
- epoll_wait that fails is followed by a read from an empty vector (`PollFails`).
- `defrag` compares an offset that was not byte swapped (`Reassembler.cpp:138`): a
  fragment that belongs between two others goes behind them and its datagram is
  never completed (`OutsideInIsCompleted` speaks of the other orders), and for
  some offsets `prev` is null (`StopIsHeeded`).
- Groups that are never completed stay: their timer is on a libev loop that
  nothing runs. A later datagram to which the sender gives the same id joins such a
  group, and the transports may get one datagram made of two (`WholeDatagrams` says
  what it can look like).
- Two threads inside `IpIdGenerator::next`, or inside `next_avail_fd`, may draw one
  number twice; `IdsDistinct` and `GivenOnce` speak of the other interleavings.
- More than FdCount calls of socket() write behind the table
  (`OverrunNeedsExhaustion`); a fork during another thread's socket() or close()
  leaves the child a channel without a descriptor (`NoChannelLost`).
- `::exit` on the TUN thread destroys the singletons under the other threads.

### Bounds

- `Endpoint_two`: two sockets and four packets against a limit of 1 let a queue
  fill, drop and be served on both paths.
- `Rpc_calls`: two threads are the least that can swap answers.
- `Tcp_networks`: three bytes each way on the reliable network, in segments of one
  or two, with a queue limit of 0, give gaps and drops; on the unreliable one a
  byte sent and two received. `MaxGot` bounds what retransmission can add. The
  proofs cover all other lengths. Sequence numbers stay below 2^32, so their
  wrap-around is not covered.
- `Udp_lookup`: two sessions with a counter of two port values reach a session
  without a port and two sessions with the same.
- `Reactor_handles`: a TCP and a UDP socket have five handles, polled two at a
  time, so that polls leave ready handles out and batches hold a pair. `Readers` and
  `Mortal` let the TCP client call recvfrom and die; with both clients doing both the
  safety properties were checked too (780,855 states), but not the liveness ones.
- `Ip_layer`: datagrams of three and two fragments together, a repeated fragment
  among whole packets, an offset that makes `prev` null, two datagrams with one key, sends with
  acknowledgements, and five sends over three ids so that they go round. A queue
  of two packets.
- `Fds_fork`: two threads and a child, three sockets over a range of two
  descriptors so that it is overrun, and five kernel descriptors so that they run
  out.

### Fairness

epoll is level triggered, a ready handle that was not reported goes to the front
of its list, and the reactor runs the callback of every handle it reports: a
handle that is ready again and again is served (SF); a thread that has begun a
step finishes it (WF). Calls, arrivals, failures and the answers of the TCP peer
to a SYN have no fairness in `Endpoint`, `Rpc` and `Reactor`. In `TcpSession` the
reliable network delivers (WF on both receivers). In `Ip` only the IP thread is
fair. `MailboxProgress`, `ClosedIsFreed` and `RequestIsRead` except a loop that stays
in `takeFromRecvQ`, because of the behaviour of `Endpoint_block`: a loop blocked for
one socket does not serve the others. `GoneIsRemoved` has one socket and speaks of
clients that left nothing to wait for.

## Proofs

`EndpointProofs`, for any set of sockets, queue limit, pipe capacity and number
of packets (`ConstantsAssumption`): `TypeOK`, `RecvQIsExact`, `DeliveredInOrder`,
`NoLostWakeup`, and that `Endpoint` implements `Mailbox` (safety, with a capacity of
`RecvQLimit + 1`). `NoLostWakeup` is not inductive: it needs that `waiting` is up
for exactly the parked callers and that the loop only takes for such a caller
(`LoopTakesForParked`); the two are proved together, and the refinement rests on
the second. `RecvQIsExact` is `FifoDelivery` (what was accepted is what was
delivered followed by what is queued) and `RecvQBound`, inductive together with the
type invariant, which no run lists. `DeliveredInOrder` follows from it and from what
was accepted being in order, below the number of packets arrived.

`TcpProofs`, for any segment lengths, initial number of the peer and bounds, on
both networks, with a peer that may refuse (`TcpAssumption`): `TypeOK`,
`AcksOnlySent`, `SendSideIsSound`, `StreamAccounted`. The invariant `IInv` follows
one number round the loop: what the peer has sent bounds the segments on their way
in (`InInv`), these bound `recv_next`, that bounds the acknowledgements on their
way out (`OutInv`); and the same from `send_next` through the segments going out,
`peer_next` and the acknowledgements coming in, back to `send_unack`. `Handshake`
says which of these numbers have a meaning in which states: without it a segment
that is on its way before the connection is established would break the chain. A
network is used only through four facts (`PutMsgs`, `RestMsgs`, `NothingMsgs`,
`NetsAfter`): no step takes a message out that was not put in, which is what both
networks have in common. `StreamAccounted` speaks of the reliable network, and
needs that the segments on their way in follow one another without a gap from
`recv_next` to what the peer has sent (`Chain`, in `Stream`).

`RpcProofs`, for any finite set of threads that share a socket of either kind and
mode, any calls and any queue bound (`RpcAssumption`): `TypeOK`,
`TcpResponsesAreSound`, `AtMostOneAnswer`. `InStep` relates the two ends of the
channel and the daemon's threads (what a channel that is not open, or not accepted
yet, cannot hold; that the loop takes only with `waiting` set). The argument for
`AtMostOneAnswer` is a count: a handler replaces a request by at most one
commitment, a write replaces a commitment by one final response, and reading that
ends a call; no step adds to the sum otherwise.

The same module has, for a blocking TCP socket one thread uses,
`ResponseMatchesCall` and `OrderlyCloseIsHarmless`. By `AtMostOneAnswer` at most
one request, commitment or final response exists at a time. The invariant
`LoneInv` adds whose it is (`Own`), that nothing, not even a late WAIT_NEXT, comes
behind the answer to close() (`CloseIsLast`), and that after close() nothing is
left to read or write and no write has failed (`Quiet`).

`FdsProofs`, for any threads, range and limit on the kernel's descriptors, below the
range (`FdsAssumption`): `TypeOK`, `GivenOnce`, `OverrunNeedsExhaustion`,
`MapIsExact`, `NoChannelLost`. `Counting` bounds the counter and the descriptors in
the hands of threads by the number of calls. In a process without a race these
descriptors are new and nobody else's (`Fresh`), so are the channels (`Mapped`), and
while a thread waits for the daemon its channel is in the table (`Entered`): without
the last, nothing would be known of the entry when socket() returns.

`UdpProofs`, for any number of sessions, any peers and any size of the port space
(`UdpAssumption`): `TypeOK`, `FindIsBestMatch`, `AnswerMatchesSender`,
`CrashNeedsCloseDuringRx`. `FindInv` is a loop invariant of `Sessions::find` that
survives the writes of the other thread: of every session that was passed and not
written to since the lookup began, the best so far is at least as good
(`Settled`); of the one being tested, the fields already read are as read
(`Partly`). `AnswerMatchesSender` needs that no step changes a local port once it
is set (`PortKept`).

`ReactorProofs`, for any set of sockets and any bounds (`ReactorAssumption`):
`TypeOK`, `RegistryExact`, `CrashNeedsCloseOrRace`, `NoOrphan`. `RegistryExact`
needs to know which handle the IP thread is in the middle of removing
(`ErasingShape`) and what that thread may hold where (`IpShape`).
`CrashNeedsCloseOrRace` needs that a handle in epoll or in the batch that was
destroyed belongs to a client that is gone (`DeadIsClosed`), which rests on
what was reported staying true until it is dispatched (`BatchReady`). `NoOrphan`
is `Kept` (a living handle belongs to a channel in the list, or to the packet that
the IP thread is delivering) and `Watched`: a listed channel is registered unless
its client died in a call. For the latter a call must be in one place at a time, its
client waiting for it or dead (`Talk`), so that a write that fails is to a client
that died; and what the IP thread destroys must be off the list (`Doomed`).

`PacketProofs` and `ReceiveProofs` are about `Ip`, for any datagrams cut into
fragments without gaps, any payloads and addresses and any number of packets,
however the network loses, repeats and reorders them and however the three threads
interleave (`IpAssumption`, `DatagramAssumption`). Together they have all safety
properties of `Ip_layer`. `PacketProofs` has transmission (the invariant `TxInv`),
the checksums, and what one step of the IP thread does with a fragment
(`FragmentStep`, `GroupsKept`, `UpKept`); `ReceiveProofs` extends it with the
invariant of reception, `IInv`, and the theorems that follow from it. Lemmas with a
single use are named steps of the proof that uses them. In both, what is said of
every element of a sequence is proved from a least counterexample (`LeastNumber`,
from the library's theorem on well-founded relations).

- `IdsDistinct`: every packet has a draw of its own (`OwnDraw`), and without a race
  the n-th id drawn is the one as many steps back from `last`, counting round
  without 0 (`Turns`).
- `ChecksumsVerify`: every packet sent was made by `Ip::tx` from its payload and
  id (`TxTypes`). The rest is about `Csum16`, for all byte strings: what `Sum` adds
  up to, that it is additive over strings of even length, and that a receiver's sum
  over the header `Ip::tx` makes, and over pseudo header, header and payload of
  `prepareBeforeIpTx`, comes out as it must, for payloads of odd length too
  (`IpCheckVerifies`, `TcpCheckVerifies`).
- `WholeDatagrams`: a group holds fragments that came with its key, is not complete,
  and no two groups have one key (`GroupsOK`); what was delivered are chains of one
  key whose offsets are contiguous from 0 to a fragment without MF (`UpOK`, with
  `Formed`). If such a chain has fragments of one datagram only, it has each of them
  once, in order, because no two fragments of it begin at the same offset
  (`PresentIsWhole`). `DatagramAssumption` lets any number of datagrams have one key.
- `OutsideInIsCompleted`: of a datagram whose fragments have come each outside those
  before it, and none of another with its key, the group holds exactly those, in
  order, or it was delivered (`Gathered`, with `SeenAreFrags`).
- `StopIsHeeded`: inductive with `Stopping`. `TypeOK` needs `GroupsOK`, and for
  what transmission keeps `TxInv` (`TxInvariance`).
- `WholePacketsInOrder`: the n-th packet delivered without reassembly is the n-th
  that came. `InOrder` keeps the place of every packet: what is in `rxQ` is, in
  order, the end of what was read (`Places`), so the one taken next is the first
  not delivered yet.

Every safety property of a passing run is thus proved. Only model-checked is
liveness (`MailboxProgress`, `GoneIsRemoved`, `CallReturns`, `ReliableProgress`,
`ClosedIsFreed`, `RequestIsRead`, `RxQIsEmptied`), which is out of the prover's
reach. The proofs are about the same definitions as the runs; that the
definitions say what the code does is not proved but read.

## Not modelled

- poll, select, setsockopt, getsockopt and fcntl of the interceptor. They keep no
  state. poll reports every Velox descriptor ready, as its comment says; select's
  branch for Velox descriptors is out of reach, since they begin at 4096 and
  FD_SETSIZE is 1024; the others succeed without effect, and so do their handlers
  in `RpcDispatch`.
- A second close of a descriptor that a race gave to two sockets.
- Write events, changes of interest and `updateChannel` of the reactor: handles
  are enabled for reading when made and nothing calls the rest.
- The race of `find`'s copy of the session list with `newSession`: undefined
  behaviour on a `std::list` whose outcomes cannot be enumerated; the copy is one
  step in `Udp`.
- IP options, and protocols above 17.
- Construction of the parts at start, which runs before there are threads;
  opening and configuring the device; configuration and logging.
- `BoundedDeque`, whose include in `Ip.cpp` is commented out. `RawMutex`, which only
  `defrag` and its timer take: the timer never fires, so only the IP thread does.
  `Fragmenter` and `TcpTimer` are empty.
- The generated protobuf code (`src/rpc/cpp_out`, `src/rpc/c_out`), which is about
  19,600 of the 27,700 lines of the tree. Of the 6,400 hand-written lines that are
  not blank the definitions here stand for about 40 percent; the others are
  headers, declarations, logging, set-up and the parts listed above.
